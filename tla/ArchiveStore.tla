---------------------------- MODULE ArchiveStore ----------------------------
(***************************************************************************)
(* The archive lifecycle of one instruction in the JSON file store         *)
(* (src/src/services/storage/jsonFileStore.ts, called through the archive  *)
(* accessors of src/src/services/indexContext.ts by several processes).    *)
(*                                                                         *)
(* The active copy is <dir>/<id>.json, the archived one                    *)
(* <dir>/.archive/<id>.json.  archive() and restore() move the entry in    *)
(* two file-system calls, with a rollback when the second fails; processes *)
(* interleave between any two calls and may die there.  Every operation    *)
(* works on a store object of its own that has just read the directory     *)
(* (getStoreForDir()), and files of different ids never meet, so one id is *)
(* enough.  Contents are only compared; a write produces one that is not   *)
(* around, so a content names the write it came from.                      *)
(***************************************************************************)
EXTENDS Naturals

CONSTANTS Stores,      \* the server processes
          StoreServe,  \* the operations that clients ask for
          Contents,    \* contents of an entry: enough to always write a new one
          None,        \* no file
          MaxFaults,   \* bound: file-system calls that fail
          MaxStoreCrashes \* bound: processes that die in the middle of a call

Moves    == {"archive", "restore", "restoreOver", "updateArchived"}
StoreOps == Moves \cup {"write", "create", "remove", "purge"}

ASSUME ArchiveStoreAssumption ==
    /\ StoreServe \subseteq StoreOps
    /\ None \notin Contents
    /\ MaxFaults \in Nat /\ MaxStoreCrashes \in Nat

VARIABLES
  active,   \* content of the active file
  archived, \* content and restoreEligible of the archived file
  call,       \* call[p]: the next file-system call of p
  op,       \* op[p]: the operation p is in
  seen,     \* seen[p]: the active content p's store has in its cache
  got,      \* got[p]: the archived entry p has read
  marred,   \* history: a move was cut short and could not be undone
  faults, storeCrashes

storeVars == <<active, archived, call, op, seen, got, marred, faults, storeCrashes>>
files == <<active, archived>>

Files   == Contents \cup {None}
Entries == [ver : Files, eligible : BOOLEAN]
Nothing == [ver |-> None, eligible |-> TRUE]

FileCalls == {"idle", "load", "put", "drop", "purge",
        "copyOut", "unlinkActive", "undoCopyOut",
        "readArchived", "copyBack", "unlinkArchived", "undoCopyBack", "edit"}

StoreInit ==
  /\ active \in Files
  /\ \E v \in Files : /\ v = None \/ v # active
                      /\ archived = [ver |-> v, eligible |-> TRUE]
  /\ call = [p \in Stores |-> "idle"] /\ op = [p \in Stores |-> "write"]
  /\ seen = [p \in Stores |-> None] /\ got = [p \in Stores |-> Nothing]
  /\ marred = FALSE /\ faults = 0 /\ storeCrashes = 0

\* The contents that are nowhere.
New == {v \in Contents \ {active, archived.ver} :
          \A p \in Stores : v # seen[p] /\ v # got[p].ver}

NextCall(p, l) == call' = [call EXCEPT ![p] = l] /\ UNCHANGED <<op, seen, got>>

\* The call returns or throws, and its store object is gone.
Return(p) ==
  /\ call' = [call EXCEPT ![p] = "idle"] /\ op' = [op EXCEPT ![p] = "write"]
  /\ seen' = [seen EXCEPT ![p] = None] /\ got' = [got EXCEPT ![p] = Nothing]

Fault == faults < MaxFaults /\ faults' = faults + 1

---------------------------------------------------------------------------
\* The first call that an operation makes.
First(o) == IF o \in {"write", "create"} THEN "put"
            ELSE IF o = "remove" THEN "drop"
            ELSE IF o = "purge" THEN "purge" ELSE "load"

\* A call of a storage operation starts.
BeginOp(p, o) ==
  /\ call[p] = "idle"
  /\ op' = [op EXCEPT ![p] = o] /\ call' = [call EXCEPT ![p] = First(o)]
  /\ UNCHANGED <<files, seen, got, marred, faults, storeCrashes>>

\* write(): atomicWriteJson() renames over the file; with createOnly
\* atomicCreateJson() links, which fails if there is one.
Put(p) ==
  /\ call[p] = "put"
  /\ \/ op[p] = "create" /\ active # None /\ UNCHANGED active
     \/ (op[p] = "create" => active = None) /\ active' \in New
  /\ Return(p)
  /\ UNCHANGED <<archived, marred, faults, storeCrashes>>

\* remove(): unlinks the active file; a failure is swallowed.
Drop(p) ==
  /\ call[p] = "drop"
  /\ active' = None
  /\ Return(p)
  /\ UNCHANGED <<archived, marred, faults, storeCrashes>>

\* purge(): unlinks the archived file; a failure is swallowed.
Purge(p) ==
  /\ call[p] = "purge"
  /\ archived' = Nothing
  /\ Return(p)
  /\ UNCHANGED <<active, marred, faults, storeCrashes>>

\* ensureLoaded(): the cache is filled from the directory.
LoadStore(p) ==
  /\ call[p] = "load"
  /\ call' = [call EXCEPT ![p] = IF op[p] = "archive" THEN "copyOut" ELSE "readArchived"]
  /\ seen' = [seen EXCEPT ![p] = active]
  /\ UNCHANGED <<files, op, got, marred, faults, storeCrashes>>

---------------------------------------------------------------------------
\* archive()

\* It throws without an active entry.
NothingToArchive(p) ==
  /\ call[p] = "copyOut" /\ seen[p] = None
  /\ Return(p)
  /\ UNCHANGED <<files, marred, faults, storeCrashes>>

\* Mutant: the copy is forgotten.
CopyOutForgotten(p) ==
  /\ call[p] = "copyOut" /\ seen[p] # None
  /\ NextCall(p, "unlinkActive")
  /\ UNCHANGED <<files, marred, faults, storeCrashes>>

\* Step 1: the archived copy is written, over an older one; only index_groom
\* archives what must not be restored.
CopyOut(p) ==
  /\ call[p] = "copyOut" /\ seen[p] # None
  /\ \E e \in BOOLEAN : archived' = [ver |-> seen[p], eligible |-> e]
  /\ NextCall(p, "unlinkActive")
  /\ UNCHANGED <<active, marred, faults, storeCrashes>>

\* Step 2: the active file is unlinked, if it still exists.
UnlinkActive(p) ==
  /\ call[p] = "unlinkActive"
  /\ active' = None
  /\ Return(p)
  /\ UNCHANGED <<archived, marred, faults, storeCrashes>>

\* Mutant: the copy is left there.
UndoCopyOutLeaves(p) ==
  /\ call[p] = "undoCopyOut"
  /\ Return(p)
  /\ UNCHANGED <<files, marred, faults, storeCrashes>>

\* Rollback: the archived copy is unlinked, and archive() throws.
UndoCopyOut(p) ==
  /\ call[p] = "undoCopyOut"
  /\ archived' = Nothing
  /\ Return(p)
  /\ UNCHANGED <<active, marred, faults, storeCrashes>>

---------------------------------------------------------------------------
\* restore() and updateArchived()

\* Mutant: the existence of the archived entry is not checked.
RefusedUnchecked(p) ==
  \/ ~archived.eligible
  \/ op[p] = "restore" /\ (seen[p] # None \/ active # None)

\* Nothing there or a locked entry; in mode reject, an active entry, in the
\* cache or on disk.
Refused(p) ==
  \/ archived.ver = None \/ ~archived.eligible
  \/ op[p] = "restore" /\ (seen[p] # None \/ active # None)

\* readArchiveFile(), and the call throws.
Refuse(p) ==
  /\ call[p] = "readArchived" /\ Refused(p)
  /\ Return(p)
  /\ UNCHANGED <<files, marred, faults, storeCrashes>>

\* readArchiveFile(), and the call goes on.
ReadArchived(p) ==
  /\ call[p] = "readArchived" /\ ~Refused(p)
  /\ call' = [call EXCEPT ![p] = IF op[p] = "updateArchived" THEN "edit" ELSE "copyBack"]
  /\ got' = [got EXCEPT ![p] = archived]
  /\ UNCHANGED <<files, op, seen, marred, faults, storeCrashes>>

\* Step 1: the active file is written.
CopyBack(p) ==
  /\ call[p] = "copyBack"
  /\ active' = got[p].ver
  /\ NextCall(p, "unlinkArchived")
  /\ UNCHANGED <<archived, marred, faults, storeCrashes>>

\* Step 2: the archived file is unlinked, if it still exists.
UnlinkArchived(p) ==
  /\ call[p] = "unlinkArchived"
  /\ archived' = Nothing
  /\ Return(p)
  /\ UNCHANGED <<active, marred, faults, storeCrashes>>

\* Rollback, unless an active entry may have been overwritten.
UndoCopyBack(p) ==
  /\ call[p] = "undoCopyBack"
  /\ active' = IF op[p] = "restoreOver" THEN active ELSE None
  /\ Return(p)
  /\ UNCHANGED <<archived, marred, faults, storeCrashes>>

\* updateArchived(): the file no longer exists, or is overwritten.
Edit(p) ==
  /\ call[p] = "edit"
  /\ \/ archived.ver = None /\ UNCHANGED archived
     \/ /\ archived.ver # None
        /\ \E v \in New : archived' = [ver |-> v, eligible |-> got[p].eligible]
  /\ Return(p)
  /\ UNCHANGED <<active, marred, faults, storeCrashes>>

---------------------------------------------------------------------------
\* Failures

Unlinks == {"unlinkActive", "unlinkArchived"}

\* A file-system call fails: a failed second step is rolled back, any other
\* failure ends the call.  No rollback follows one that fails, and none
\* follows an overwriting restore.
CallFails(p) ==
  /\ call[p] \notin {"idle", "load", "readArchived"}
  /\ Fault
  /\ \/ call[p] = "unlinkActive" /\ NextCall(p, "undoCopyOut")
     \/ call[p] = "unlinkArchived" /\ NextCall(p, "undoCopyBack")
     \/ call[p] \notin Unlinks /\ Return(p)
  /\ marred' = (\/ marred
                \/ call[p] \in {"undoCopyOut", "undoCopyBack"}
                \/ call[p] = "unlinkArchived" /\ op[p] = "restoreOver")
  /\ UNCHANGED <<files, storeCrashes>>

\* The process dies and starts again.
StoreCrash(p) ==
  /\ call[p] # "idle"
  /\ storeCrashes < MaxStoreCrashes /\ storeCrashes' = storeCrashes + 1
  /\ marred' = (marred \/ call[p] \in Unlinks \cup {"undoCopyOut", "undoCopyBack"})
  /\ Return(p)
  /\ UNCHANGED <<files, faults>>

FileCall(p) ==
  \/ Put(p) \/ Drop(p) \/ Purge(p) \/ LoadStore(p)
  \/ NothingToArchive(p) \/ CopyOut(p) \/ UnlinkActive(p) \/ UndoCopyOut(p)
  \/ Refuse(p) \/ ReadArchived(p) \/ CopyBack(p) \/ UnlinkArchived(p)
  \/ UndoCopyBack(p) \/ Edit(p)

StoreStep(p) == (\E o \in StoreServe : BeginOp(p, o)) \/ FileCall(p) \/ CallFails(p) \/ StoreCrash(p)

StoreNext == \E p \in Stores : StoreStep(p)

StoreSpec == StoreInit /\ [][StoreNext]_storeVars

---------------------------------------------------------------------------
\* Properties

\* Every variable has its type.
StoreTypeOK ==
  /\ active \in Files
  /\ archived \in Entries /\ (archived.ver = None => archived = Nothing)
  /\ call \in [Stores -> FileCalls] /\ op \in [Stores -> StoreOps]
  /\ seen \in [Stores -> Files] /\ got \in [Stores -> Entries]
  /\ \A p \in Stores : call[p] = "unlinkActive" => seen[p] # None
  /\ \A p \in Stores : call[p] \in {"copyBack", "unlinkArchived", "edit"} => got[p].ver # None
  /\ marred \in BOOLEAN /\ faults \in 0..MaxFaults /\ storeCrashes \in 0..MaxStoreCrashes

\* The contents that exist.
Kept == {active, archived.ver} \ {None}

\* What p's next call is meant to make disappear.
Replaces(p, v) ==
  \/ v = active /\ call[p] \in {"put", "drop"}
  \/ v = active /\ call[p] = "copyBack" /\ op[p] = "restoreOver"
  \/ v = archived.ver /\ call[p] \in {"purge", "edit", "copyOut"}

\* What disappears from both places is replaced by the call that makes the step.
OnlyReplaced ==
  \A v \in Kept \ Kept' : \E p \in Stores : call'[p] # call[p] /\ Replaces(p, v)

\* storage/types.ts:259: archive() makes the entry "vanish from active storage
\* and appear in archive storage"; restore() moves it back.  No content
\* disappears from both places unless a call asked for just that.
NothingVanishes == [][OnlyReplaced]_storeVars

\* indexContext.ts:866: "the entry never appears in both active + archive sets
\* at rest": between calls it is in one place, whatever failed and was undone,
\* as long as no move was cut short for good.
OneCopyAtRest ==
  ~marred /\ (\A p \in Stores : call[p] = "idle") => active = None \/ active # archived.ver

\* What dies with a process is at most the completion of its call: an entry in
\* both places is the one that was being moved, with the same content.
CrashLeavesACopy ==
  [][\A p \in Stores :
       call[p] \in {"unlinkActive", "unlinkArchived"}
       /\ storeCrashes' # storeCrashes /\ call'[p] = "idle" =>
         active' # None /\ active' = archived'.ver]_storeVars
=============================================================================
