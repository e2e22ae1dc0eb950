------------------------- MODULE ArchiveStoreProofs -------------------------
(***************************************************************************)
(* Proofs about the two stores.  ArchiveStore: typing for any number of    *)
(* processes and faults; for a process alone in its directory, that no     *)
(* content vanishes and that a crash leaves the entry that was being moved *)
(* in both places; and that between its calls an entry is in one place     *)
(* only, unless a move was cut short for good.  SqliteStore: typing; for   *)
(* one process, that a clean migration is faithful, that nothing archived  *)
(* is reactivated where no JSON file is left over, and that the store      *)
(* implements ArchiveContract.                                             *)
(***************************************************************************)
EXTENDS ArchiveStore, SqliteStore, TLAPS

---------------------------------------------------------------------------
\* Typing

LEMMA StoreTypeInit == StoreInit => StoreTypeOK
<1> SUFFICES ASSUME StoreInit PROVE StoreTypeOK
  OBVIOUS
<1>1. Nothing \in Entries /\ "write" \in StoreOps /\ None \in Files
  BY DEF Nothing, Entries, Files, StoreOps
<1>2. archived \in Entries /\ (archived.ver = None => archived = Nothing)
  <2>1. PICK v \in Files : archived = [ver |-> v, eligible |-> TRUE]
    BY DEF StoreInit
  <2> QED BY <2>1 DEF Entries, Nothing
<1>3. /\ call \in [Stores -> FileCalls] /\ op \in [Stores -> StoreOps]
      /\ seen \in [Stores -> Files] /\ got \in [Stores -> Entries]
  BY <1>1 DEF StoreInit, FileCalls
<1>4. faults \in 0..MaxFaults /\ storeCrashes \in 0..MaxStoreCrashes
  BY ArchiveStoreAssumption DEF StoreInit
<1> QED BY <1>2, <1>3, <1>4 DEF StoreInit, StoreTypeOK

LEMMA NewContents == \A v \in New : v \in Contents /\ v # None
  BY ArchiveStoreAssumption DEF New

LEMMA StoreTypeStep == StoreTypeOK /\ [StoreNext]_storeVars => StoreTypeOK'
<1> SUFFICES ASSUME StoreTypeOK, [StoreNext]_storeVars PROVE StoreTypeOK'
  OBVIOUS
<1> USE ArchiveStoreAssumption DEF StoreTypeOK, files
<1>0. Nothing \in Entries /\ "write" \in StoreOps /\ None \in Files /\ Nothing.ver = None
  BY DEF Nothing, Entries, Files, StoreOps
<1>1. ASSUME NEW p \in Stores, NEW o \in StoreServe, BeginOp(p, o) PROVE StoreTypeOK'
  BY <1>1 DEF BeginOp, First, FileCalls
<1>2. ASSUME NEW p \in Stores, Put(p) \/ Drop(p) \/ Purge(p) PROVE StoreTypeOK'
  BY <1>0, <1>2, NewContents DEF Put, Drop, Purge, Return, FileCalls, Files
<1>3. ASSUME NEW p \in Stores, LoadStore(p) PROVE StoreTypeOK'
  BY <1>3 DEF LoadStore, FileCalls
<1>4. ASSUME NEW p \in Stores, NothingToArchive(p) \/ UnlinkActive(p) \/ UndoCopyOut(p) PROVE StoreTypeOK'
  BY <1>0, <1>4 DEF NothingToArchive, UnlinkActive, UndoCopyOut, Return, FileCalls
<1>5. ASSUME NEW p \in Stores, CopyOut(p) PROVE StoreTypeOK'
  <2>1. PICK e \in BOOLEAN : archived' = [ver |-> seen[p], eligible |-> e]
    BY <1>5 DEF CopyOut
  <2>2. archived' \in Entries /\ archived'.ver # None
    BY <1>5, <2>1 DEF CopyOut, Entries
  <2> QED BY <1>5, <2>2 DEF CopyOut, NextCall, FileCalls
<1>6. ASSUME NEW p \in Stores, Refuse(p) PROVE StoreTypeOK'
  BY <1>0, <1>6 DEF Refuse, Return, FileCalls
<1>7. ASSUME NEW p \in Stores, ReadArchived(p) PROVE StoreTypeOK'
  BY <1>7 DEF ReadArchived, Refused, FileCalls
<1>8. ASSUME NEW p \in Stores, CopyBack(p) PROVE StoreTypeOK'
  <2>1. got[p].ver \in Files
    BY DEF Entries
  <2> QED BY <1>8, <2>1 DEF CopyBack, NextCall, FileCalls
<1>9. ASSUME NEW p \in Stores, UnlinkArchived(p) \/ UndoCopyBack(p) PROVE StoreTypeOK'
  BY <1>0, <1>9 DEF UnlinkArchived, UndoCopyBack, Return, FileCalls
<1>10. ASSUME NEW p \in Stores, Edit(p) PROVE StoreTypeOK'
  <2>1. archived' = archived \/ \E v \in New : archived' = [ver |-> v, eligible |-> got[p].eligible]
    BY <1>10 DEF Edit
  <2>2. archived' \in Entries /\ (archived'.ver = None => archived' = Nothing)
    BY <2>1, NewContents DEF Entries, Files
  <2> QED BY <1>0, <1>10, <2>2 DEF Edit, Return, FileCalls
<1>11. ASSUME NEW p \in Stores, CallFails(p) PROVE StoreTypeOK'
  BY <1>0, <1>11 DEF CallFails, Fault, NextCall, Return, Unlinks, FileCalls
<1>12. ASSUME NEW p \in Stores, StoreCrash(p) PROVE StoreTypeOK'
  BY <1>0, <1>12 DEF StoreCrash, Return, FileCalls
<1>13. CASE UNCHANGED storeVars
  BY <1>13 DEF storeVars
<1> QED BY <1>1, <1>2, <1>3, <1>4, <1>5, <1>6, <1>7, <1>8, <1>9, <1>10, <1>11, <1>12, <1>13
        DEF StoreNext, StoreStep, FileCall

\* The typing invariant: what is moved exists, whoever else is at work.
THEOREM ArchiveTypeCorrect == StoreSpec => []StoreTypeOK
  BY StoreTypeInit, StoreTypeStep, PTL DEF StoreSpec

---------------------------------------------------------------------------
\* One process

\* A process alone moves what it has seen: between its two file-system calls
\* both places hold the entry.
Moving(p) ==
  /\ call[p] = "copyOut" => seen[p] = active
  /\ call[p] \in {"unlinkActive", "undoCopyOut", "unlinkArchived", "undoCopyBack"} =>
       active # None /\ active = archived.ver
  /\ call[p] = "load" => op[p] \in Moves
  /\ call[p] = "readArchived" => op[p] \in Moves \ {"archive"}
  /\ call[p] = "copyBack" => /\ got[p].ver = archived.ver
                             /\ op[p] \in {"restore", "restoreOver"}
                             /\ op[p] = "restore" => active = None

LEMMA MovingStep ==
  ASSUME NEW p, Stores = {p}, StoreTypeOK, Moving(p), [StoreNext]_storeVars
  PROVE  Moving(p)'
<1> p \in Stores
  OBVIOUS
<1> USE DEF StoreTypeOK, Moving, files
<1>1. CASE \E o \in StoreServe : BeginOp(p, o)
  BY <1>1, ArchiveStoreAssumption DEF BeginOp, First, StoreOps
<1>2. CASE Put(p) \/ Drop(p) \/ Purge(p) \/ NothingToArchive(p) \/ UnlinkActive(p)
           \/ UndoCopyOut(p) \/ Refuse(p) \/ UnlinkArchived(p) \/ UndoCopyBack(p) \/ Edit(p)
           \/ StoreCrash(p)
  BY <1>2 DEF Put, Drop, Purge, NothingToArchive, UnlinkActive, UndoCopyOut, Refuse,
              UnlinkArchived, UndoCopyBack, Edit, StoreCrash, Return
<1>3. CASE LoadStore(p)
  BY <1>3 DEF LoadStore, Moves
<1>4. CASE CopyOut(p)
  <2>1. archived'.ver = seen[p]
    BY <1>4 DEF CopyOut
  <2> QED BY <1>4, <2>1 DEF CopyOut, NextCall
<1>5. CASE ReadArchived(p)
  <2>1. got'[p].ver = archived.ver /\ active' = active /\ archived' = archived /\ op' = op
    BY <1>5 DEF ReadArchived
  <2>2. call'[p] = IF op[p] = "updateArchived" THEN "edit" ELSE "copyBack"
    BY <1>5 DEF ReadArchived
  <2>3. op[p] \in {"restore", "restoreOver", "updateArchived"} /\ (op[p] = "restore" => active = None)
    BY <1>5 DEF ReadArchived, Refused, Moves
  <2> QED BY <2>1, <2>2, <2>3
<1>6. CASE CopyBack(p)
  BY <1>6 DEF CopyBack, NextCall
<1>7. CASE CallFails(p)
  BY <1>7 DEF CallFails, NextCall, Return, Unlinks
<1>8. CASE UNCHANGED storeVars
  BY <1>8 DEF storeVars
<1> QED BY <1>1, <1>2, <1>3, <1>4, <1>5, <1>6, <1>7, <1>8 DEF StoreNext, StoreStep, FileCall

\* A content that disappears is one that the call in progress is to replace.
LEMMA VanishStep ==
  ASSUME NEW p, Stores = {p}, StoreTypeOK, Moving(p), [StoreNext]_storeVars
  PROVE  OnlyReplaced
<1> SUFFICES ASSUME NEW v \in Kept \ Kept' PROVE call'[p] # call[p] /\ Replaces(p, v)
  BY DEF OnlyReplaced
<1> USE DEF StoreTypeOK, Moving, Kept, files
<1>1. CASE \E o \in StoreServe : BeginOp(p, o)
  BY <1>1 DEF BeginOp
<1>2. CASE Put(p) \/ Drop(p) \/ Purge(p) \/ Edit(p)
  BY <1>2 DEF Put, Drop, Purge, Edit, Return, Replaces, Nothing
<1>3. CASE UnlinkActive(p) \/ UndoCopyOut(p) \/ UnlinkArchived(p) \/ UndoCopyBack(p)
  BY <1>3 DEF UnlinkActive, UndoCopyOut, UnlinkArchived, UndoCopyBack, Return
<1>4. CASE CopyOut(p)
  <2>1. active' = active /\ v = archived.ver
    BY <1>4 DEF CopyOut
  <2> QED BY <1>4, <2>1 DEF CopyOut, NextCall, Replaces
<1>5. CASE CopyBack(p)
  <2>1. archived' = archived /\ v = active
    BY <1>5 DEF CopyBack
  <2> QED BY <1>5, <2>1 DEF CopyBack, NextCall, Replaces
<1>6. CASE UNCHANGED files
  BY <1>6
<1> QED BY <1>1, <1>2, <1>3, <1>4, <1>5, <1>6
        DEF StoreNext, StoreStep, FileCall, LoadStore, NothingToArchive, Refuse, ReadArchived, CallFails,
            StoreCrash, storeVars

\* A process alone in its directory never makes a content vanish, whatever
\* fails and whenever it dies.
THEOREM AloneNothingVanishes ==
  ASSUME NEW one, Stores = {one}
  PROVE  StoreSpec => NothingVanishes
<1>1. StoreInit => Moving(one)
  BY DEF StoreInit, Moving
<1>2. StoreTypeOK /\ Moving(one) /\ [StoreNext]_storeVars => Moving(one)'
  BY MovingStep
<1>3. StoreTypeOK /\ Moving(one) /\ [StoreNext]_storeVars => [OnlyReplaced]_storeVars
  BY VanishStep
<1> QED BY <1>1, <1>2, <1>3, ArchiveTypeCorrect, PTL DEF StoreSpec, NothingVanishes

\* A process alone that dies between the two file-system calls of a move
\* leaves the entry in both places.
THEOREM AloneCrashLeavesACopy ==
  ASSUME NEW one, Stores = {one}
  PROVE  StoreSpec => CrashLeavesACopy
<1>1. StoreInit => Moving(one)
  BY DEF StoreInit, Moving
<1>2. StoreTypeOK /\ Moving(one) /\ [StoreNext]_storeVars => Moving(one)'
  BY MovingStep
<1>3. StoreTypeOK /\ Moving(one) /\ [StoreNext]_storeVars =>
        [\A p \in Stores :
           call[p] \in {"unlinkActive", "unlinkArchived"} /\ storeCrashes' # storeCrashes /\ call'[p] = "idle" =>
             active' # None /\ active' = archived'.ver]_storeVars
  <2> SUFFICES ASSUME StoreTypeOK, Moving(one), StoreNext, storeCrashes' # storeCrashes,
                      call[one] \in {"unlinkActive", "unlinkArchived"}
               PROVE  active' # None /\ active' = archived'.ver
    OBVIOUS
  <2>1. StoreCrash(one)
    BY DEF StoreNext, StoreStep, FileCall, BeginOp, Put, Drop, Purge, LoadStore, NothingToArchive, CopyOut,
           UnlinkActive, UndoCopyOut, Refuse, ReadArchived, CopyBack, UnlinkArchived,
           UndoCopyBack, Edit, CallFails
  <2> QED BY <2>1 DEF StoreCrash, Moving, files
<1> QED BY <1>1, <1>2, <1>3, ArchiveTypeCorrect, PTL DEF StoreSpec, CrashLeavesACopy

---------------------------------------------------------------------------
\* At rest

\* Unless a move was cut short for good, it is either in progress or completed
\* or undone.
Resting(p) ==
  /\ ~marred /\ call[p] \notin {"unlinkActive", "undoCopyOut", "unlinkArchived", "undoCopyBack"} =>
       active = None \/ active # archived.ver
  /\ ~marred /\ call[p] = "undoCopyBack" => op[p] # "restoreOver"

LEMMA RestingStep ==
  ASSUME NEW p, Stores = {p}, StoreTypeOK, Moving(p), Resting(p), [StoreNext]_storeVars
  PROVE  Resting(p)'
<1> p \in Stores
  OBVIOUS
<1> USE ArchiveStoreAssumption DEF StoreTypeOK, Moving, Resting, files
<1>1. CASE \E o \in StoreServe : BeginOp(p, o)
  BY <1>1 DEF BeginOp, First
<1>2. CASE Put(p)
  BY <1>2 DEF Put, Return, New
<1>3. CASE Drop(p) \/ Purge(p) \/ UnlinkActive(p) \/ UndoCopyOut(p) \/ UnlinkArchived(p)
           \/ UndoCopyBack(p)
  BY <1>3 DEF Drop, Purge, UnlinkActive, UndoCopyOut, UnlinkArchived, UndoCopyBack, Return,
              Nothing
<1>4. CASE LoadStore(p) \/ NothingToArchive(p) \/ Refuse(p) \/ ReadArchived(p)
  BY <1>4 DEF LoadStore, NothingToArchive, Refuse, ReadArchived, Return
<1>5. CASE CopyOut(p)
  BY <1>5 DEF CopyOut, NextCall
<1>6. CASE CopyBack(p)
  BY <1>6 DEF CopyBack, NextCall
<1>7. CASE Edit(p)
  <2>1. archived' = archived \/ \E v \in New : archived' = [ver |-> v, eligible |-> got[p].eligible]
    BY <1>7 DEF Edit
  <2>2. active' = active /\ marred' = marred
        /\ (~marred => active = None \/ active # archived.ver)
    BY <1>7 DEF Edit
  <2>3. ~marred' => active' = None \/ active' # archived'.ver
    BY <2>1, <2>2 DEF New
  <2> QED BY <1>7, <2>3 DEF Edit, Return
<1>8. CASE CallFails(p)
  BY <1>8 DEF CallFails, NextCall, Return, Unlinks
<1>9. CASE StoreCrash(p)
  BY <1>9 DEF StoreCrash, Return, Unlinks
<1>10. CASE UNCHANGED storeVars
  BY <1>10 DEF storeVars
<1> QED BY <1>1, <1>2, <1>3, <1>4, <1>5, <1>6, <1>7, <1>8, <1>9, <1>10 DEF StoreNext, StoreStep, FileCall

\* indexContext.ts:866 holds of a process alone: between its calls the entry is
\* in one place, unless a move was cut short for good.
THEOREM AloneOneCopyAtRest ==
  ASSUME NEW one, Stores = {one}
  PROVE  StoreSpec => []OneCopyAtRest
<1>1. StoreInit => Moving(one) /\ Resting(one)
  BY DEF StoreInit, Moving, Resting
<1>2. StoreTypeOK /\ Moving(one) /\ [StoreNext]_storeVars => Moving(one)'
  BY MovingStep
<1>3. StoreTypeOK /\ Moving(one) /\ Resting(one) /\ [StoreNext]_storeVars => Resting(one)'
  BY RestingStep
<1>4. Resting(one) => OneCopyAtRest
  BY DEF Resting, OneCopyAtRest
<1> QED BY <1>1, <1>2, <1>3, <1>4, ArchiveTypeCorrect, PTL DEF StoreSpec

---------------------------------------------------------------------------
\* SQLite storage: typing

LEMMA NoDbJobIsJob == NoDbJob \in JobRecords
  BY DEF NoDbJob, JobRecords, DbSteps, KeptRows, NoKept, Rows

LEMMA SqliteTypeInit == SqliteInit => SqliteTypeOK
<1> SUFFICES ASSUME SqliteInit PROVE SqliteTypeOK
  OBVIOUS
<1>1. NoKept \in KeptRows /\ NoRow \in Rows
  BY DEF NoKept, KeptRows, Rows
<1>2. dbFaults \in 0 .. MaxDbFaults /\ dbDeaths \in 0 .. MaxDbDeaths
  BY SqliteAssumption DEF SqliteInit
<1> QED BY <1>1, <1>2, NoDbJobIsJob DEF SqliteInit, SqliteTypeOK

(* What the steps do to the job of their process.                          *)
LEMMA JobTyping ==
  ASSUME SqliteTypeOK, NEW p \in Dbs
  PROVE  /\ \A r \in {"none", "done", "refused"} :
              Over(p, r) => dbJob' \in [Dbs -> JobRecords]
         /\ \A s \in DbSteps : GoTo(p, s) \/ Broken(p, s) => dbJob' \in [Dbs -> JobRecords]
         /\ \A o \in DbOps, s \in DbSteps : Began(p, o, s) => dbJob' \in [Dbs -> JobRecords]
         /\ \A a \in Rows, k \in KeptRows, b \in BOOLEAN, s \in DbSteps :
              HasRead(p, a, k, b, s) => dbJob' \in [Dbs -> JobRecords]
<1> USE DEF SqliteTypeOK
<1>1. ASSUME NEW r \in {"none", "done", "refused"}
      PROVE  [NoDbJob EXCEPT !.result = r] \in JobRecords
  BY NoDbJobIsJob DEF JobRecords, NoDbJob
<1>2. ASSUME NEW s \in DbSteps
      PROVE  /\ [dbJob[p] EXCEPT !.at = s] \in JobRecords
             /\ [dbJob[p] EXCEPT !.clean = FALSE, !.at = s] \in JobRecords
  BY DEF JobRecords
<1>3. ASSUME NEW o \in DbOps, NEW s \in DbSteps, NEW b \in BOOLEAN
      PROVE  [NoDbJob EXCEPT !.op = o, !.at = s, !.was = b] \in JobRecords
  BY NoDbJobIsJob DEF JobRecords, NoDbJob
<1>4. ASSUME NEW a \in Rows, NEW k \in KeptRows, NEW b \in BOOLEAN, NEW s \in DbSteps,
             HasRead(p, a, k, b, s)
      PROVE  dbJob' \in [Dbs -> JobRecords]
  <2>1. [dbJob[p] EXCEPT !.active = a, !.kept = k, !.clean = b, !.at = s] \in JobRecords
    BY DEF JobRecords
  <2> QED BY <1>4, <2>1 DEF HasRead
<1> QED BY <1>1, <1>2, <1>3, <1>4 DEF Over, GoTo, Broken, Began

LEMMA SqliteTypeStep == SqliteTypeOK /\ [SqliteNext]_sqVars => SqliteTypeOK'
<1> SUFFICES ASSUME SqliteTypeOK, [SqliteNext]_sqVars PROVE SqliteTypeOK'
  OBVIOUS
<1> USE SqliteAssumption DEF SqliteTypeOK, sqTables, sqFiles, sqHost
<1>0. NoKept \in KeptRows /\ NoRow \in Rows /\ Versions \subseteq Rows
  BY DEF NoKept, KeptRows, Rows
<1>1. ASSUME NEW p \in Dbs, NEW o \in DbServe, dbCall(p, o) PROVE SqliteTypeOK'
  <2>1. o \in DbOps /\ FirstStep(o) \in DbSteps
    BY DEF FirstStep, DbSteps, DbOps, StoreMoves, Migrations
  <2> QED BY <1>1, <2>1, JobTyping DEF dbCall
<1>2. ASSUME NEW p \in Dbs, firstLoad(p) PROVE SqliteTypeOK'
  <2>1. "migrate" \in DbOps /\ "readFiles" \in DbSteps
    BY DEF DbOps, Migrations, DbSteps
  <2> QED BY <1>2, <2>1, JobTyping DEF firstLoad
<1>3. ASSUME NEW p \in Dbs, dbRestarts(p) PROVE SqliteTypeOK'
  BY <1>3 DEF dbRestarts
<1>4. ASSUME NEW p \in Dbs, dbDies(p) PROVE SqliteTypeOK'
  BY <1>4, NoDbJobIsJob DEF dbDies
<1>5. ASSUME NEW p \in Dbs, putEntry(p) \/ deleteRow(p) \/ deleteKept(p) PROVE SqliteTypeOK'
  <2>1. "unlinkJson" \in DbSteps
    BY DEF DbSteps
  <2> QED BY <1>0, <1>5, <2>1, JobTyping DEF putEntry, deleteRow, deleteKept
<1>6. ASSUME NEW p \in Dbs, selectActive(p) PROVE SqliteTypeOK'
  <2>1. /\ [dbJob[p] EXCEPT !.active = dbRow, !.at = "moveOut"] \in JobRecords
        /\ "finish" \in DbSteps
    BY DEF JobRecords, DbSteps
  <2> QED BY <1>6, <2>1, JobTyping DEF selectActive
<1>7. ASSUME NEW p \in Dbs, moveOut(p) PROVE SqliteTypeOK'
  <2>1. dbJob[p].active \in Rows /\ dbJob[p].kept.eligible \in BOOLEAN /\ "finish" \in DbSteps
    BY DEF JobRecords, KeptRows, DbSteps
  <2>2. \A e \in BOOLEAN : [ver |-> dbJob[p].active, eligible |-> e] \in KeptRows
    BY <2>1 DEF KeptRows
  <2> QED BY <1>0, <1>7, <2>1, <2>2, JobTyping DEF moveOut, MovedOut
<1>8. ASSUME NEW p \in Dbs, moveOutCollides(p) PROVE SqliteTypeOK'
  <2>1. "finish" \in DbSteps
    BY DEF DbSteps
  <2> QED BY <1>8, <2>1, JobTyping DEF moveOutCollides
<1>9. ASSUME NEW p \in Dbs, selectKept(p) PROVE SqliteTypeOK'
  <2>1. \A s \in DbSteps : [dbJob[p] EXCEPT !.kept = dbArchive, !.at = s] \in JobRecords
    BY DEF JobRecords
  <2>2. "edit" \in DbSteps /\ "collision" \in DbSteps
    BY DEF DbSteps
  <2> QED BY <1>9, <2>1, <2>2, JobTyping DEF selectKept
<1>10. ASSUME NEW p \in Dbs, collision(p) \/ moveBack(p) \/ editKept(p) PROVE SqliteTypeOK'
  <2>1. dbJob[p].kept \in KeptRows /\ dbJob[p].kept.ver \in Rows /\ "moveBack" \in DbSteps
    BY DEF JobRecords, KeptRows, DbSteps
  <2>2. \A v \in Versions : [dbJob[p].kept EXCEPT !.ver = v] \in KeptRows
    BY <1>0, <2>1 DEF KeptRows
  <2> QED BY <1>0, <1>10, <2>1, <2>2, JobTyping DEF collision, moveBack, editKept
<1>11. ASSUME NEW p \in Dbs, extractBackup(p) \/ finish(p) \/ unlinkJson(p) \/ unlinkOut(p) \/ undoFileCopy(p)
       PROVE  SqliteTypeOK'
  <2>1. {"readFiles", "finish", "unlinkJson"} \subseteq DbSteps
    BY DEF DbSteps
  <2> QED BY <1>0, <1>11, <2>1, JobTyping
          DEF extractBackup, finish, unlinkJson, unlinkOut, undoFileCopy
<1>12. ASSUME NEW p \in Dbs, readJson(p) \/ readRows(p) PROVE SqliteTypeOK'
  <2>1. {"putRow", "putCopy", "finish", "putFile", "putFileCopy"} \subseteq DbSteps
    BY DEF DbSteps
  <2> DEFINE s == IF dbRow # NoRow THEN "putFile"
                  ELSE IF dbArchive.ver # NoRow THEN "putFileCopy" ELSE "finish"
  <2>2. s \in DbSteps /\ AfterActive(jsonArchive) \in DbSteps
    BY <2>1 DEF AfterActive
  <2>3. dbJob' \in [Dbs -> JobRecords]
    <3>1. CASE readJson(p)
      BY <1>0, <3>1, <2>1, <2>2, JobTyping DEF readJson
    <3>2. CASE readRows(p)
      <4>1. HasRead(p, dbRow, dbArchive, TRUE, s)
        BY <3>2 DEF readRows
      <4> HIDE DEF s
      <4> QED BY <4>1, <2>2, JobTyping
    <3> QED BY <1>12, <3>1, <3>2
  <2> QED BY <1>12, <2>3 DEF readJson, readRows
<1>13. ASSUME NEW p \in Dbs, putRow(p) \/ putCopy(p) \/ putFile(p) \/ putFileCopy(p) \/ copyFileOut(p)
       PROVE  SqliteTypeOK'
  <2>1. dbJob[p].active \in Rows /\ dbJob[p].kept \in KeptRows /\ dbJob[p].kept.ver \in Rows
    BY DEF JobRecords, KeptRows
  <2>2. {"putCopy", "finish", "selectActive", "putFileCopy", "copyOut", "unlinkOut"} \subseteq DbSteps
    BY DEF DbSteps
  <2> QED BY <1>13, <2>1, <2>2, JobTyping
          DEF putRow, putCopy, putFile, putFileCopy, copyFileOut, AfterActive
<1>14. ASSUME NEW p \in Dbs, rowFails(p) \/ statementFails(p) PROVE SqliteTypeOK'
  <2>1. {"putCopy", "finish", "putFileCopy", "undoCopyOut"} \subseteq DbSteps
    BY DEF DbSteps
  <2>2. dbFaults' \in 0 .. MaxDbFaults
    BY <1>14 DEF rowFails, statementFails, DbFault
  <2> QED BY <1>14, <2>1, <2>2, JobTyping DEF rowFails, statementFails, AfterActive
<1>15. CASE UNCHANGED sqVars
  BY <1>15 DEF sqVars
<1> QED BY <1>1, <1>2, <1>3, <1>4, <1>5, <1>6, <1>7, <1>8, <1>9, <1>10, <1>11, <1>12, <1>13,
           <1>14, <1>15 DEF SqliteNext, dbStep

(* Rows, files and jobs have their types, for any number of processes.     *)
THEOREM SqliteTypeCorrect == SqliteSpec => []SqliteTypeOK
  BY SqliteTypeInit, SqliteTypeStep, PTL DEF SqliteSpec

---------------------------------------------------------------------------
\* SQLite storage: one process keeps the contract

(* The operation that a step belongs to.                                   *)
Fits(p) ==
  LET j == dbJob[p]
  IN /\ j.at = "put" => j.op \in {"write", "create"}
     /\ j.at = "delete" => j.op = "remove"
     /\ j.at \in {"selectActive", "moveOut"} => j.op \in {"archive", "migrate", "ingest"}
     /\ j.at = "selectKept" => j.op \in {"restore", "restoreOver", "updateArchived"}
     /\ j.at \in {"collision", "moveBack"} => j.op \in {"restore", "restoreOver"}
     /\ j.at = "edit" => j.op = "updateArchived"
     /\ j.at = "deleteKept" => j.op = "purge"
     /\ j.at \in {"extract", "readFiles", "putRow", "putCopy"} => j.op \in {"migrate", "ingest"}
     /\ j.at \in {"readRows", "putFile", "putFileCopy", "copyOut", "unlinkOut", "undoCopyOut"}
          => j.op = "export"
     /\ j.at = "finish" => j.op \in Migrations
     /\ j.at = "unlinkJson" => j.op \in {"remove", "ingest"}

(* What a SELECT outside the transaction has read still holds in it.       *)
StillHolds(p) ==
  LET j == dbJob[p]
  IN /\ j.at = "moveOut" => j.active = dbRow /\ dbRow # NoRow
     /\ j.at \in {"collision", "moveBack", "edit"} => j.kept = dbArchive /\ dbArchive.ver # NoRow
     /\ j.at \in {"collision", "moveBack"} => dbArchive.eligible
     /\ j.at = "moveBack" /\ j.op = "restore" => dbRow = NoRow

(* How far a migration into the database has come.                         *)
Carried(p) ==
  LET j == dbJob[p]
  IN /\ j.at = "putRow" => j.active # NoRow
     /\ j.at = "putCopy" => j.kept.ver # NoRow
     /\ j.at = "selectActive" /\ j.op # "archive" => dbRow = j.kept.ver /\ j.kept.ver # NoRow
     /\ j.at = "moveOut" /\ j.op # "archive" => j.active = j.kept.ver
     /\ j.at = "moveOut" /\ j.op # "archive" => j.kept.ver # NoRow
     /\ j.at = "finish" /\ j.clean /\ j.op # "export" =>
          IF j.kept.ver # NoRow THEN dbRow = NoRow /\ dbArchive = j.kept
                                ELSE j.active # NoRow => dbRow = j.active

JobInv(p) == Fits(p) /\ StillHolds(p) /\ Carried(p)

SqliteInv(p) == SqliteTypeOK /\ JobInv(p)

(* The job after a step, field by field.                                   *)
LEMMA JobFields ==
  ASSUME SqliteTypeOK, NEW p \in Dbs
  PROVE  /\ \A r : Over(p, r) => /\ dbJob'[p].at = "idle" /\ dbJob'[p].op = "none"
                                 /\ dbJob'[p].result = r
         /\ \A s : GoTo(p, s) => /\ dbJob'[p].at = s /\ dbJob'[p].op = dbJob[p].op
                                 /\ dbJob'[p].active = dbJob[p].active
                                 /\ dbJob'[p].kept = dbJob[p].kept
                                 /\ dbJob'[p].clean = dbJob[p].clean
         /\ \A s : Broken(p, s) => /\ dbJob'[p].at = s /\ dbJob'[p].op = dbJob[p].op
                                   /\ dbJob'[p].active = dbJob[p].active
                                   /\ dbJob'[p].kept = dbJob[p].kept
                                   /\ dbJob'[p].clean = FALSE
         /\ \A o, s : Began(p, o, s) => dbJob'[p].at = s /\ dbJob'[p].op = o
         /\ \A a, k, b, s : HasRead(p, a, k, b, s) =>
              /\ dbJob'[p].at = s /\ dbJob'[p].op = dbJob[p].op
              /\ dbJob'[p].active = a /\ dbJob'[p].kept = k /\ dbJob'[p].clean = b
<1>1. dbJob \in [Dbs -> JobRecords] /\ dbJob[p] \in JobRecords
  BY DEF SqliteTypeOK
<1>2. ASSUME NEW r, Over(p, r)
      PROVE  dbJob'[p].at = "idle" /\ dbJob'[p].op = "none" /\ dbJob'[p].result = r
  BY <1>1, <1>2 DEF Over, NoDbJob
<1>3. ASSUME NEW s, GoTo(p, s)
      PROVE  /\ dbJob'[p].at = s /\ dbJob'[p].op = dbJob[p].op
             /\ dbJob'[p].active = dbJob[p].active /\ dbJob'[p].kept = dbJob[p].kept
             /\ dbJob'[p].clean = dbJob[p].clean
  BY <1>1, <1>3 DEF GoTo, JobRecords
<1>4. ASSUME NEW s, Broken(p, s)
      PROVE  /\ dbJob'[p].at = s /\ dbJob'[p].op = dbJob[p].op
             /\ dbJob'[p].active = dbJob[p].active /\ dbJob'[p].kept = dbJob[p].kept
             /\ dbJob'[p].clean = FALSE
  BY <1>1, <1>4 DEF Broken, JobRecords
<1>5. ASSUME NEW o, NEW s, Began(p, o, s) PROVE dbJob'[p].at = s /\ dbJob'[p].op = o
  BY <1>1, <1>5 DEF Began, NoDbJob
<1>6. ASSUME NEW a, NEW k, NEW b, NEW s, HasRead(p, a, k, b, s)
      PROVE  /\ dbJob'[p].at = s /\ dbJob'[p].op = dbJob[p].op
             /\ dbJob'[p].active = a /\ dbJob'[p].kept = k /\ dbJob'[p].clean = b
  BY <1>1, <1>6 DEF HasRead, JobRecords
<1> QED BY <1>2, <1>3, <1>4, <1>5, <1>6

LEMMA SqliteInvInit == ASSUME NEW p \in Dbs, SqliteInit PROVE SqliteInv(p)
<1>1. dbJob[p].at = "idle"
  BY DEF SqliteInit, NoDbJob
<1> QED BY <1>1, SqliteTypeInit DEF SqliteInv, JobInv, Fits, StillHolds, Carried

LEMMA SqliteInvStep ==
  ASSUME NEW p, Dbs = {p}, SqliteInv(p), [SqliteNext]_sqVars
  PROVE  SqliteInv(p)'
<1>0. /\ p \in Dbs /\ SqliteTypeOK /\ SqliteTypeOK'
      /\ JobInv(p)
  BY SqliteTypeStep DEF SqliteInv
<1> USE DEF JobInv, Fits, StillHolds, Carried, AtStep
<1>a. /\ dbJob[p] \in JobRecords /\ dbJob'[p] \in JobRecords
      /\ dbJob[p].kept \in KeptRows /\ dbJob[p].clean \in BOOLEAN
      /\ dbRow \in Rows /\ dbArchive \in KeptRows
  BY <1>0 DEF SqliteTypeOK, JobRecords
<1>b. ASSUME dbJob'[p].at = "idle" PROVE JobInv(p)'
  BY <1>b
<1>1. ASSUME NEW o \in DbServe, dbCall(p, o) PROVE JobInv(p)'
  <2>1. dbJob'[p].at = FirstStep(o) /\ dbJob'[p].op = o
    BY <1>0, <1>1, JobFields DEF dbCall
  <2>2. o \in DbOps
    BY SqliteAssumption
  <2> QED BY <2>1, <2>2 DEF FirstStep, DbOps, StoreMoves, Migrations
<1>2. ASSUME firstLoad(p) PROVE JobInv(p)'
  <2>1. CASE Began(p, "migrate", "readFiles")
    <3>1. dbJob'[p].at = "readFiles" /\ dbJob'[p].op = "migrate"
      BY <1>0, <2>1, JobFields
    <3> QED BY <3>1
  <2>2. CASE UNCHANGED dbJob
    BY <1>2, <1>b, <2>2 DEF firstLoad
  <2> QED BY <1>2, <2>1, <2>2 DEF firstLoad
<1>3. ASSUME dbRestarts(p) \/ dbDies(p) PROVE JobInv(p)'
  <2>1. dbJob'[p].at = "idle"
    BY <1>0, <1>3 DEF dbRestarts, dbDies, NoDbJob, SqliteTypeOK
  <2> QED BY <2>1, <1>b
<1>4. ASSUME putEntry(p) \/ moveBack(p) \/ deleteKept(p) \/ editKept(p) \/ unlinkJson(p) PROVE JobInv(p)'
  <2>1. dbJob'[p].at = "idle"
    BY <1>0, <1>4, JobFields DEF putEntry, moveBack, deleteKept, editKept, unlinkJson
  <2> QED BY <2>1, <1>b
<1>5. ASSUME deleteRow(p) PROVE JobInv(p)'
  <2>1. dbJob'[p].at = "unlinkJson" /\ dbJob'[p].op = dbJob[p].op
    BY <1>0, <1>5, JobFields DEF deleteRow
  <2> QED BY <1>0, <1>5, <2>1 DEF deleteRow
<1>6. ASSUME selectActive(p) PROVE JobInv(p)'
  <2>1. CASE dbRow # NoRow
    <3>1. /\ dbJob'[p].at = "moveOut" /\ dbJob'[p].op = dbJob[p].op
          /\ dbJob'[p].active = dbRow /\ dbJob'[p].kept = dbJob[p].kept
      <4>1. dbJob' = [dbJob EXCEPT ![p] = [@ EXCEPT !.active = dbRow, !.at = "moveOut"]]
        BY <1>6, <2>1 DEF selectActive
      <4> QED BY <1>0, <1>a, <4>1 DEF SqliteTypeOK, JobRecords
    <3> QED BY <1>0, <1>6, <2>1, <3>1 DEF selectActive, sqTables
  <2>2. CASE dbRow = NoRow /\ dbJob[p].op = "archive"
    BY <1>0, <1>6, <2>2, <1>b, JobFields DEF selectActive
  <2>3. CASE dbRow = NoRow /\ dbJob[p].op # "archive"
    BY <1>0, <1>6, <2>3 DEF selectActive
  <2> QED BY <2>1, <2>2, <2>3
<1>7. ASSUME moveOut(p) PROVE JobInv(p)'
  <2>1. CASE dbJob[p].op = "archive"
    BY <1>0, <1>7, <2>1, <1>b, JobFields DEF moveOut
  <2>2. CASE dbJob[p].op # "archive"
    <3>1. GoTo(p, "finish") /\ MovedOut(p, dbJob[p].kept.eligible)
      BY <1>7, <2>2 DEF moveOut
    <3>2. /\ dbJob'[p].at = "finish" /\ dbJob'[p].op = dbJob[p].op
          /\ dbJob'[p].kept = dbJob[p].kept
      BY <1>0, <3>1, JobFields
    <3>3. dbJob[p].active = dbJob[p].kept.ver /\ dbJob[p].op \in Migrations
      BY <1>0, <1>7, <2>2 DEF moveOut, Migrations
    <3>4. dbRow' = NoRow /\ dbArchive' = dbJob[p].kept
      BY <1>a, <3>1, <3>3 DEF MovedOut, KeptRows
    <3>5. dbJob[p].kept.ver # NoRow
      BY <1>0, <1>7, <2>2 DEF moveOut
    <3> QED BY <3>2, <3>3, <3>4, <3>5
  <2> QED BY <2>1, <2>2
<1>8. ASSUME moveOutCollides(p) PROVE JobInv(p)'
  <2>1. CASE Over(p, "refused")
    BY <1>0, <2>1, <1>b, JobFields
  <2>2. CASE dbJob[p].op # "archive" /\ Broken(p, "finish")
    <3>1. dbJob'[p].at = "finish" /\ dbJob'[p].op = dbJob[p].op /\ dbJob'[p].clean = FALSE
      BY <1>0, <2>2, JobFields
    <3>2. dbJob[p].op \in Migrations
      BY <1>0, <1>8, <2>2 DEF moveOutCollides, Migrations
    <3> QED BY <3>1, <3>2
  <2> QED BY <1>8, <2>1, <2>2 DEF moveOutCollides
<1>9. ASSUME selectKept(p) PROVE JobInv(p)'
  <2>1. CASE Over(p, "refused")
    BY <1>0, <2>1, <1>b, JobFields
  <2>2. CASE ~Over(p, "refused")
    <3>1. /\ dbArchive.ver # NoRow
          /\ dbJob[p].op = "updateArchived" \/ dbArchive.eligible
          /\ UNCHANGED <<dbRow, dbArchive>>
      BY <1>9, <2>2 DEF selectKept, sqTables
    <3>2. /\ dbJob'[p].at = IF dbJob[p].op = "updateArchived" THEN "edit" ELSE "collision"
          /\ dbJob'[p].op = dbJob[p].op /\ dbJob'[p].kept = dbArchive
      <4> DEFINE s == IF dbJob[p].op = "updateArchived" THEN "edit" ELSE "collision"
      <4>1. dbJob' = [dbJob EXCEPT ![p] = [@ EXCEPT !.kept = dbArchive, !.at = s]]
        BY <1>9, <2>2 DEF selectKept
      <4> HIDE DEF s
      <4>2. dbJob'[p].at = s /\ dbJob'[p].op = dbJob[p].op /\ dbJob'[p].kept = dbArchive
        BY <1>0, <1>a, <4>1 DEF SqliteTypeOK, JobRecords
      <4> QED BY <4>2 DEF s
    <3>3. dbJob[p].op \in {"restore", "restoreOver", "updateArchived"}
      BY <1>0, <1>9 DEF selectKept
    <3> QED BY <3>1, <3>2, <3>3
  <2> QED BY <2>1, <2>2
<1>10. ASSUME collision(p) PROVE JobInv(p)'
  <2>1. CASE Over(p, "refused")
    BY <1>0, <2>1, <1>b, JobFields
  <2>2. CASE ~Over(p, "refused")
    <3>1. /\ GoTo(p, "moveBack") /\ UNCHANGED <<dbRow, dbArchive>>
          /\ dbRow = NoRow \/ dbJob[p].op = "restoreOver"
      BY <1>10, <2>2 DEF collision, sqTables
    <3>2. /\ dbJob'[p].at = "moveBack" /\ dbJob'[p].op = dbJob[p].op
          /\ dbJob'[p].kept = dbJob[p].kept
      BY <1>0, <3>1, JobFields
    <3> QED BY <1>0, <1>10, <3>1, <3>2 DEF collision
  <2> QED BY <2>1, <2>2
<1>11. ASSUME extractBackup(p) PROVE JobInv(p)'
  <2>1. dbJob'[p].at = "readFiles" /\ dbJob'[p].op = dbJob[p].op
    BY <1>0, <1>11, JobFields DEF extractBackup
  <2> QED BY <1>0, <1>11, <2>1 DEF extractBackup
<1>12. ASSUME readJson(p) PROVE JobInv(p)'
  <2>1. CASE jsonFile \in Versions
    <3>1. /\ dbJob'[p].at = "putRow" /\ dbJob'[p].op = dbJob[p].op
          /\ dbJob'[p].active = jsonFile
      <4>1. HasRead(p, jsonFile, jsonArchive, TRUE, "putRow")
        BY <1>12, <2>1 DEF readJson
      <4> QED BY <1>0, <1>a, <4>1 DEF HasRead, SqliteTypeOK, JobRecords
    <3>2. jsonFile # NoRow
      BY <2>1, SqliteAssumption
    <3>3. dbJob[p].op \in {"migrate", "ingest"}
      BY <1>0, <1>12 DEF readJson
    <3> QED BY <3>1, <3>2, <3>3
  <2>2. CASE jsonFile \notin Versions
    <3>1. /\ dbJob'[p].at = AfterActive(jsonArchive) /\ dbJob'[p].op = dbJob[p].op
          /\ dbJob'[p].active = NoRow /\ dbJob'[p].kept = jsonArchive
      BY <1>0, <1>12, <2>2, JobFields DEF readJson
    <3> QED BY <1>0, <1>12, <3>1 DEF readJson, AfterActive, Migrations
  <2> QED BY <2>1, <2>2
<1>13. ASSUME putRow(p) PROVE JobInv(p)'
  <2>1. /\ dbJob'[p].at = AfterActive(dbJob[p].kept) /\ dbJob'[p].op = dbJob[p].op
        /\ dbJob'[p].active = dbJob[p].active /\ dbJob'[p].kept = dbJob[p].kept
        /\ dbRow' = dbJob[p].active
    BY <1>0, <1>13, JobFields DEF putRow
  <2> QED BY <1>0, <1>13, <2>1 DEF putRow, AfterActive, Migrations
<1>14. ASSUME putCopy(p) PROVE JobInv(p)'
  <2>1. /\ dbJob'[p].at = "selectActive" /\ dbJob'[p].op = dbJob[p].op
        /\ dbJob'[p].kept = dbJob[p].kept /\ dbRow' = dbJob[p].kept.ver
    BY <1>0, <1>14, JobFields DEF putCopy
  <2> QED BY <1>0, <1>14, <2>1 DEF putCopy
<1>15. ASSUME finish(p) PROVE JobInv(p)'
  <2>1. CASE Over(p, "done")
    BY <1>0, <2>1, <1>b, JobFields
  <2>2. CASE dbJob[p].op = "ingest" /\ GoTo(p, "unlinkJson")
    <3>1. dbJob'[p].at = "unlinkJson" /\ dbJob'[p].op = dbJob[p].op
      BY <1>0, <2>2, JobFields
    <3> QED BY <2>2, <3>1
  <2> QED BY <1>15, <2>1, <2>2 DEF finish
<1>16. ASSUME \/ readRows(p) \/ putFile(p) \/ putFileCopy(p) \/ copyFileOut(p)
              \/ unlinkOut(p) \/ undoFileCopy(p)
       PROVE  JobInv(p)'
  <2>1. /\ dbJob[p].op = "export" /\ dbJob'[p].op = dbJob[p].op
        /\ dbJob'[p].at \in {"putFile", "putFileCopy", "finish", "copyOut", "unlinkOut"}
    BY <1>0, <1>16, JobFields
       DEF readRows, putFile, putFileCopy, copyFileOut, unlinkOut, undoFileCopy
  <2> QED BY <2>1 DEF Migrations
<1>17. ASSUME rowFails(p) PROVE JobInv(p)'
  <2>1. /\ dbJob'[p].at = AfterActive(dbJob[p].kept) /\ dbJob'[p].op = dbJob[p].op
        /\ dbJob'[p].kept = dbJob[p].kept /\ dbJob'[p].clean = FALSE
    BY <1>0, <1>17, JobFields DEF rowFails
  <2> QED BY <1>0, <1>17, <2>1 DEF rowFails, AfterActive, Migrations
<1>18. ASSUME statementFails(p) PROVE JobInv(p)'
  <2>1. CASE \E r \in {"done", "refused"} : Over(p, r)
    BY <1>0, <2>1, <1>b, JobFields
  <2>2. CASE dbJob[p].op \in Migrations /\ Broken(p, "finish")
    <3>1. dbJob'[p].at = "finish" /\ dbJob'[p].op = dbJob[p].op /\ dbJob'[p].clean = FALSE
      BY <1>0, <2>2, JobFields
    <3> QED BY <2>2, <3>1
  <2>3. CASE \E s \in {"putFileCopy", "undoCopyOut", "finish"} :
               dbJob[p].op = "export" /\ (Broken(p, s) \/ GoTo(p, s))
    <3>1. /\ dbJob[p].op = "export" /\ dbJob'[p].op = dbJob[p].op
          /\ dbJob'[p].at \in {"putFileCopy", "undoCopyOut", "finish"}
      BY <1>0, <2>3, JobFields
    <3> QED BY <3>1 DEF Migrations
  <2> QED BY <1>0, <1>18, <2>1, <2>2, <2>3 DEF statementFails, Migrations
<1>19. ASSUME UNCHANGED sqVars PROVE JobInv(p)'
  BY <1>0, <1>19 DEF sqVars
<1> HIDE DEF JobInv, Fits, StillHolds, Carried, AtStep
<1>20. ASSUME SqliteNext PROVE JobInv(p)'
  <2>1. \/ \E o \in DbServe : dbCall(p, o)
        \/ firstLoad(p) \/ dbRestarts(p) \/ dbDies(p) \/ dbStep(p)
    BY <1>20 DEF SqliteNext
  <2> QED BY <2>1, <1>1, <1>2, <1>3, <1>4, <1>5, <1>6, <1>7, <1>8, <1>9, <1>10, <1>11, <1>12,
             <1>13, <1>14, <1>15, <1>16, <1>17, <1>18 DEF dbStep
<1>21. JobInv(p)'
  BY <1>19, <1>20
<1> QED BY <1>0, <1>21 DEF SqliteInv

(* A migration into the database that ends without an error has brought    *)
(* over what it read: archived entries to the archive only, active ones as *)
(* they are.  The files are deleted on the strength of it.                 *)
THEOREM AloneMigrationIsFaithful ==
  ASSUME NEW w, Dbs = {w}
  PROVE  SqliteSpec => CleanMigrationIsFaithful
<1>1. SqliteInit => SqliteInv(w)
  BY SqliteInvInit
<1>2. SqliteInv(w) /\ [SqliteNext]_sqVars => SqliteInv(w)'
  BY SqliteInvStep
<1>3. SqliteInv(w) /\ [SqliteNext]_sqVars =>
        [\A p \in Dbs :
           finish(p) /\ dbJob[p].clean /\ dbJob[p].op # "export" =>
             IF dbJob[p].kept.ver # NoRow
             THEN dbRow = NoRow /\ dbArchive = dbJob[p].kept
             ELSE dbJob[p].active # NoRow => dbRow = dbJob[p].active]_sqVars
  BY DEF SqliteInv, JobInv, Carried, finish, AtStep
<1> QED BY <1>1, <1>2, <1>3, PTL DEF SqliteSpec, CleanMigrationIsFaithful

(* What a migration finds in a database that never had a JSON directory.   *)
NoFiles(p) ==
  /\ jsonFile = NoRow /\ jsonArchive = NoKept
  /\ dbJob[p].op \notin {"ingest", "export"}
  /\ dbJob[p].op = "migrate" =>
       /\ dbJob[p].at \in {"readFiles", "finish"}
       /\ dbJob[p].was => dbRow = NoRow

LEMMA NoFilesStep ==
  ASSUME NEW p, Dbs = {p}, DbServe \cap {"ingest", "export"} = {},
         SqliteInv(p), NoFiles(p), SqliteNext
  PROVE  NoFiles(p)'
<1>1. p \in Dbs /\ SqliteTypeOK /\ Fits(p) /\ dbJob[p] \in JobRecords
  BY DEF SqliteInv, JobInv, SqliteTypeOK
<1>2. NoRow \notin Versions
  BY SqliteAssumption
<1>3. ASSUME dbJob'[p].op = "none" \/ (dbJob'[p].op = dbJob[p].op /\ dbJob[p].op # "migrate"),
             jsonFile' = NoRow, jsonArchive' = NoKept
      PROVE  NoFiles(p)'
  BY <1>3 DEF NoFiles
<1>4. ASSUME NEW o \in DbServe, dbCall(p, o) PROVE NoFiles(p)'
  <2>1. dbJob'[p] = [NoDbJob EXCEPT !.op = o, !.at = FirstStep(o),
                                    !.was = dbRow = NoRow /\ dbArchive.ver # NoRow]
    BY <1>1, <1>4 DEF dbCall, Began, SqliteTypeOK
  <2>2. /\ dbJob'[p].op = o /\ dbJob'[p].at = FirstStep(o)
        /\ dbJob'[p].was => dbRow = NoRow
    BY <2>1 DEF NoDbJob
  <2>3. o = "migrate" => FirstStep(o) = "readFiles"
    BY DEF FirstStep
  <2> QED BY <1>4, <2>2, <2>3 DEF NoFiles, dbCall, sqTables, sqFiles
<1>5. ASSUME firstLoad(p) \/ dbRestarts(p) PROVE NoFiles(p)'
  BY <1>5 DEF NoFiles, firstLoad, dbRestarts, sqTables, sqFiles
<1>6. ASSUME dbDies(p) PROVE NoFiles(p)'
  <2>1. dbJob[p].at # "extract"
    BY <1>1 DEF NoFiles, Fits
  <2>2. dbJob'[p].op = "none"
    BY <1>1, <1>6 DEF dbDies, NoDbJob, SqliteTypeOK
  <2>3. UNCHANGED <<jsonFile, jsonArchive>>
    BY <1>6, <2>1 DEF dbDies, AtStep
  <2> QED BY <1>3, <2>2, <2>3 DEF NoFiles
<1>7. ASSUME readJson(p) PROVE NoFiles(p)'
  <2>1. /\ HasRead(p, NoRow, NoKept, jsonFile # TornFile, "finish")
        /\ UNCHANGED <<dbRow, jsonFile, jsonArchive>>
    BY <1>2, <1>7, SqliteAssumption DEF SqliteAssumption, readJson, NoFiles, AfterActive, NoKept, sqTables, sqFiles
  <2>2. dbJob'[p].at = "finish" /\ dbJob'[p].op = dbJob[p].op /\ dbJob'[p].was = dbJob[p].was
    BY <1>1, <2>1 DEF HasRead, SqliteTypeOK, JobRecords
  <2> QED BY <2>1, <2>2 DEF NoFiles
<1>8. ASSUME finish(p) PROVE NoFiles(p)'
  <2>1. Over(p, "done") /\ UNCHANGED <<jsonFile, jsonArchive>>
    BY <1>8 DEF finish, NoFiles, sqFiles
  <2> QED BY <1>1, <1>3, <2>1, JobFields DEF NoFiles
<1>9. ASSUME statementFails(p) PROVE NoFiles(p)'
  <2>1. /\ Over(p, "refused") \/ Over(p, "done") \/ Broken(p, "finish")
        /\ UNCHANGED <<jsonFile, jsonArchive>>
        /\ Broken(p, "finish") => dbJob[p].op # "migrate" \/ Over(p, "refused") \/ Over(p, "done")
    BY <1>1, <1>9 DEF statementFails, NoFiles, Fits, sqFiles, Migrations
  <2> QED BY <1>1, <1>3, <2>1, JobFields DEF NoFiles
<1>10. ASSUME \/ putEntry(p) \/ deleteRow(p) \/ selectActive(p) \/ moveOut(p) \/ moveOutCollides(p)
              \/ selectKept(p) \/ collision(p) \/ moveBack(p) \/ deleteKept(p) \/ editKept(p)
              \/ unlinkJson(p)
       PROVE  NoFiles(p)'
  <2>1. dbJob[p].op # "migrate"
    BY <1>1, <1>10
       DEF NoFiles, Fits, AtStep, putEntry, deleteRow, selectActive, moveOut, moveOutCollides,
           selectKept, collision, moveBack, deleteKept, editKept, unlinkJson
  <2>2. jsonFile' = NoRow /\ jsonArchive' = NoKept
    BY <1>10
       DEF NoFiles, putEntry, deleteRow, selectActive, moveOut, moveOutCollides, selectKept,
           collision, moveBack, deleteKept, editKept, unlinkJson, sqFiles
  <2>3. dbJob'[p].op \in {"none", dbJob[p].op}
    <3>1. CASE selectActive(p) /\ dbRow # NoRow
      <4>1. dbJob' = [dbJob EXCEPT ![p] = [@ EXCEPT !.active = dbRow, !.at = "moveOut"]]
        BY <3>1 DEF selectActive
      <4> QED BY <1>1, <4>1 DEF SqliteTypeOK, JobRecords
    <3>2. CASE selectKept(p) /\ ~Over(p, "refused")
      <4> DEFINE s == IF dbJob[p].op = "updateArchived" THEN "edit" ELSE "collision"
      <4>1. dbJob' = [dbJob EXCEPT ![p] = [@ EXCEPT !.kept = dbArchive, !.at = s]]
        BY <3>2 DEF selectKept
      <4> HIDE DEF s
      <4> QED BY <1>1, <4>1 DEF SqliteTypeOK, JobRecords
    <3>3. CASE \/ \E r \in {"refused", "done"} : Over(p, r)
               \/ \E s \in {"unlinkJson", "finish", "moveBack"} : GoTo(p, s) \/ Broken(p, s)
      BY <1>1, <3>3, JobFields
    <3> QED
      BY <1>10, <3>1, <3>2, <3>3
         DEF putEntry, deleteRow, selectActive, moveOut, moveOutCollides, selectKept, collision,
             moveBack, deleteKept, editKept, unlinkJson
  <2> QED BY <1>3, <2>1, <2>2, <2>3
<1>11. ~(\/ extractBackup(p) \/ putRow(p) \/ putCopy(p) \/ readRows(p) \/ putFile(p)
         \/ putFileCopy(p) \/ copyFileOut(p) \/ unlinkOut(p) \/ undoFileCopy(p) \/ rowFails(p))
  BY <1>1 DEF NoFiles, Fits, AtStep, extractBackup, putRow, putCopy, readRows, putFile,
              putFileCopy, copyFileOut, unlinkOut, undoFileCopy, rowFails
<1> QED
  BY <1>4, <1>5, <1>6, <1>7, <1>8, <1>9, <1>10, <1>11 DEF SqliteNext, dbStep

(* What reactivates an archived entry is a file that is left over: in a    *)
(* database that began without a JSON directory, as long as nothing is     *)
(* exported to one or restored from a backup, no migration does it.        *)
THEOREM FreshDatabaseNeverReactivates ==
  ASSUME NEW w, Dbs = {w}, DbServe \cap {"ingest", "export"} = {}
  PROVE  SqliteSpec /\ jsonFile = NoRow /\ jsonArchive = NoKept => NeverReactivated
<1>1. SqliteInit /\ jsonFile = NoRow /\ jsonArchive = NoKept => SqliteInv(w) /\ NoFiles(w)
  BY SqliteInvInit DEF SqliteInit, NoFiles, NoDbJob
<1>2. SqliteInv(w) /\ NoFiles(w) /\ [SqliteNext]_sqVars => (SqliteInv(w) /\ NoFiles(w))'
  <2>1. NoFiles(w) /\ UNCHANGED sqVars => NoFiles(w)'
    BY DEF NoFiles, sqVars
  <2> QED BY <2>1, SqliteInvStep, NoFilesStep
<1>3. SqliteInv(w) /\ NoFiles(w) /\ [SqliteNext]_sqVars =>
        [\A p \in Dbs :
           finish(p) /\ dbJob[p].op = "migrate" /\ dbJob[p].was => dbRow = NoRow]_sqVars
  BY DEF NoFiles
<1> QED BY <1>1, <1>2, <1>3, PTL DEF SqliteSpec, NeverReactivated

(* The calls as the contract sees them.                                    *)
SeenCalls == [q \in Dbs |-> [op |-> dbJob[q].op, state |-> CallState(q)]]

LEMMA SeenStep ==
  ASSUME NEW p, Dbs = {p}
  PROVE  /\ SeenCalls[p] = [op |-> dbJob[p].op, state |-> CallState(p)]
         /\ \A o, s : dbJob'[p].op = o /\ CallState(p)' = s =>
              SeenCalls' = [SeenCalls EXCEPT ![p] = [op |-> o, state |-> s]]
         /\ dbJob'[p].op = dbJob[p].op /\ CallState(p)' = CallState(p) => SeenCalls' = SeenCalls
<1>1. SeenCalls[p] = [op |-> dbJob[p].op, state |-> CallState(p)]
  BY DEF SeenCalls
<1>2. SeenCalls' = [q \in {p} |-> [op |-> dbJob'[p].op, state |-> CallState(p)']]
  BY DEF SeenCalls
<1>3. SeenCalls = [q \in {p} |-> [op |-> dbJob[p].op, state |-> CallState(p)]]
  BY DEF SeenCalls
<1>4. ASSUME NEW o, NEW s, dbJob'[p].op = o, CallState(p)' = s
      PROVE  SeenCalls' = [SeenCalls EXCEPT ![p] = [op |-> o, state |-> s]]
  BY <1>2, <1>3, <1>4
<1> QED BY <1>1, <1>2, <1>3, <1>4

(* How a call goes on or ends, in the contract's words.                    *)
LEMMA SeenEnds ==
  ASSUME NEW p, Dbs = {p}, SqliteTypeOK
  PROVE  /\ \A r \in {"done", "refused"} :
              Over(p, r) => SeenCalls' = [SeenCalls EXCEPT ![p] = [op |-> "none", state |-> r]]
         /\ dbJob'[p].at \notin {"idle", "unlinkJson"} => CallState(p)' = "pending"
         /\ dbJob'[p].at # "idle" /\ dbJob'[p].op # "remove" => CallState(p)' = "pending"
         /\ dbJob[p].at \notin {"idle", "unlinkJson"} => CallState(p) = "pending"
         /\ dbJob[p].at # "idle" /\ dbJob[p].op # "remove" => CallState(p) = "pending"
<1>1. ASSUME NEW r \in {"done", "refused"}, Over(p, r)
      PROVE  SeenCalls' = [SeenCalls EXCEPT ![p] = [op |-> "none", state |-> r]]
  <2>1. dbJob'[p].at = "idle" /\ dbJob'[p].op = "none" /\ dbJob'[p].result = r
    BY <1>1, JobFields
  <2>2. CallState(p)' = r
    BY <2>1 DEF CallState
  <2>3. \A o, s : dbJob'[p].op = o /\ CallState(p)' = s =>
          SeenCalls' = [SeenCalls EXCEPT ![p] = [op |-> o, state |-> s]]
    BY SeenStep
  <2> QED BY <2>1, <2>2, <2>3
<1> QED BY <1>1 DEF CallState

LEMMA ContractInit == ASSUME NEW p, Dbs = {p}, SqliteInit PROVE Contract!Init
<1>1. \A q \in Dbs : dbJob[q].op = "none" /\ CallState(q) = "idle"
  BY DEF SqliteInit, NoDbJob, CallState
<1> QED BY <1>1 DEF SqliteInit, Contract!Init, Contract!NotArchived, Contract!ArchivedAs, NoKept

LEMMA ContractStep ==
  ASSUME NEW p, Dbs = {p}, SqliteInv(p), [SqliteNext]_sqVars
  PROVE  [Contract!Next]_(Contract!contractVars)
<1>0. /\ p \in Dbs /\ SqliteTypeOK /\ Fits(p) /\ StillHolds(p) /\ Carried(p)
  BY DEF SqliteInv, JobInv
<1>a. /\ dbJob[p] \in JobRecords /\ dbJob[p].kept \in KeptRows
      /\ dbRow \in Rows /\ dbArchive \in KeptRows
      /\ dbJob[p].active \in Rows /\ dbJob[p].kept.ver \in Rows
  BY <1>0 DEF SqliteTypeOK, JobRecords, KeptRows
<1> DEFINE Still == UNCHANGED <<dbRow, dbArchive>>
           Same  == Still /\ SeenCalls' = SeenCalls
           Ends(s) == SeenCalls' = [SeenCalls EXCEPT ![p] = [op |-> "none", state |-> s]]
<1>b. SeenCalls[p].op = dbJob[p].op /\ SeenCalls[p].state = CallState(p)
  <2>1. SeenCalls[p] = [op |-> dbJob[p].op, state |-> CallState(p)]
    BY SeenStep
  <2> QED BY <2>1
<1>c. ASSUME Same PROVE UNCHANGED Contract!contractVars
  BY <1>c DEF SeenCalls, Contract!contractVars
<1>d. ASSUME Still, Ends("refused"), CallState(p) = "pending" PROVE Contract!Refuse(p)
  BY <1>b, <1>d DEF SeenCalls, Contract!Refuse, Contract!CallEnds
<1>e. ASSUME Still, Ends("done"), \/ CallState(p) = "effected"
                                  \/ CallState(p) = "pending" /\ dbJob[p].op \in Migrations
      PROVE  Contract!Return(p)
  BY <1>b, <1>e DEF SeenCalls, Contract!Return, Contract!CallEnds, Contract!Asked, Contract!Bulk,
                    Migrations
<1> DEFINE Goal == Contract!Next \/ UNCHANGED Contract!contractVars
<1>f. Contract!Refuse(p) \/ Contract!Return(p) \/ Contract!Request(p) \/ Contract!Die(p)
      \/ Contract!Effect(p) \/ Contract!BulkEffect(p) => Goal
  BY <1>0 DEF Contract!Next
<1>g. ASSUME Still, dbJob[p].at = "idle", NEW o \in Contract!StoreCalls,
             dbJob'[p].at \notin {"idle", "unlinkJson"}, dbJob'[p].op = o
      PROVE  Contract!Request(p)
  <2>1. CallState(p)' = "pending"
    BY <1>0, <1>g, SeenEnds
  <2>2. SeenCalls' = [SeenCalls EXCEPT ![p] = [op |-> o, state |-> "pending"]]
    <3>1. \A u, s : dbJob'[p].op = u /\ CallState(p)' = s =>
            SeenCalls' = [SeenCalls EXCEPT ![p] = [op |-> u, state |-> s]]
      BY SeenStep
    <3> QED BY <1>g, <2>1, <3>1
  <2>3. SeenCalls'[p] = [op |-> o, state |-> "pending"]
    BY <1>0, <2>2 DEF SeenCalls
  <2>4. CallState(p) \in {"idle", "done", "refused"}
    BY <1>a, <1>g DEF CallState, JobRecords
  <2> QED BY <1>b, <1>g, <2>2, <2>3, <2>4 DEF SeenCalls, Contract!Request
<1>h. ASSUME Still, UNCHANGED dbJob PROVE Goal
  <2>1. SeenCalls' = SeenCalls
    BY <1>h DEF SeenCalls, CallState
  <2> QED BY <1>c, <1>h, <2>1
<1>i. ASSUME Still, CallState(p) = "pending", dbJob'[p].op = dbJob[p].op,
             \/ dbJob'[p].at \notin {"idle", "unlinkJson"}
             \/ dbJob'[p].at # "idle" /\ dbJob[p].op # "remove"
      PROVE  Goal
  <2>1. CallState(p)' = "pending"
    BY <1>0, <1>i, SeenEnds
  <2>2. SeenCalls' = SeenCalls
    BY <1>i, <2>1, SeenStep
  <2> QED BY <1>c, <1>i, <2>2
<1>j. ASSUME Contract!Write \/ Contract!Archive, CallState(p) = "pending",
             dbJob[p].op \in Migrations, dbJob'[p].op = dbJob[p].op,
             dbJob'[p].at \notin {"idle", "unlinkJson"}
      PROVE  Goal
  <2>1. CallState(p)' = "pending"
    BY <1>0, <1>j, SeenEnds
  <2>2. SeenCalls' = SeenCalls
    BY <1>j, <2>1, SeenStep
  <2>3. Contract!BulkEffect(p)
    BY <1>b, <1>j, <2>2 DEF SeenCalls, Contract!BulkEffect, Contract!Asked, Contract!Bulk, Migrations
  <2> QED BY <1>f, <2>3
<1> HIDE DEF Goal
<1>1. ASSUME NEW o \in DbServe, dbCall(p, o) PROVE Goal
  <2>1. o \in DbOps
    BY SqliteAssumption
  <2>2. FirstStep(o) \notin {"idle", "unlinkJson"}
    BY <2>1 DEF FirstStep, DbOps, StoreMoves, Migrations
  <2>3. dbJob'[p].at = FirstStep(o) /\ dbJob'[p].op = o
    BY <1>0, <1>1, JobFields DEF dbCall
  <2>4. o \in Contract!StoreCalls
    BY <2>1 DEF DbOps, StoreMoves, Migrations, Contract!StoreCalls, Contract!Restores, Contract!Bulk
  <2> QED BY <1>0, <1>1, <1>f, <1>g, <2>2, <2>3, <2>4 DEF dbCall, AtStep, sqTables
<1>2. ASSUME firstLoad(p) PROVE Goal
  <2>1. CASE Began(p, "migrate", "readFiles")
    <3>1. dbJob'[p].at = "readFiles" /\ dbJob'[p].op = "migrate"
      BY <1>0, <2>1, JobFields
    <3>2. "migrate" \in Contract!StoreCalls
      BY DEF Contract!StoreCalls, Contract!Bulk
    <3> QED BY <1>2, <1>f, <1>g, <3>1, <3>2 DEF firstLoad, AtStep, sqTables
  <2>2. CASE UNCHANGED dbJob
    BY <1>2, <1>h, <2>2 DEF firstLoad, sqTables
  <2> QED BY <1>2, <2>1, <2>2 DEF firstLoad
<1>3. ASSUME dbRestarts(p) PROVE Goal
  BY <1>3, <1>h DEF dbRestarts, sqTables
<1>4. ASSUME dbDies(p) PROVE Goal
  <2>1. dbJob'[p] = NoDbJob /\ Still
    BY <1>0, <1>4 DEF dbDies, sqTables, SqliteTypeOK
  <2>2. dbJob'[p].op = "none" /\ CallState(p)' = "idle"
    BY <2>1 DEF NoDbJob, CallState
  <2>3. Ends("idle")
    <3>1. \A o, s : dbJob'[p].op = o /\ CallState(p)' = s =>
            SeenCalls' = [SeenCalls EXCEPT ![p] = [op |-> o, state |-> s]]
      BY SeenStep
    <3> QED BY <2>2, <3>1
  <2>4. CallState(p) \in {"pending", "effected"}
    BY <1>4 DEF dbDies, AtStep, CallState
  <2>5. Contract!Die(p)
    BY <1>b, <2>1, <2>3, <2>4 DEF SeenCalls, Contract!Die, Contract!CallEnds
  <2> QED BY <2>5, <1>f
<1>5. ASSUME putEntry(p) PROVE Goal
  <2>1. dbJob[p].op \in {"write", "create"} /\ CallState(p) = "pending"
    BY <1>0, <1>5, SeenEnds DEF putEntry, AtStep, Fits
  <2>2. CASE dbJob[p].op = "create" /\ dbRow # NoRow
    <3>1. Over(p, "refused") /\ Still
      BY <1>5, <2>2 DEF putEntry
    <3> QED BY <1>0, <1>d, <1>f, <2>1, <3>1, SeenEnds
  <2>3. CASE ~(dbJob[p].op = "create" /\ dbRow # NoRow)
    <3>1. Over(p, "done") /\ dbRow' \in Versions /\ dbArchive' = dbArchive
      BY <1>5, <2>3 DEF putEntry
    <3>2. Ends("done")
      BY <1>0, <3>1, SeenEnds
    <3>3. Contract!Effect(p)
      BY <1>b, <2>1, <2>3, <3>1, <3>2
         DEF SeenCalls, Contract!Effect, Contract!Asked, Contract!CallEnds, Contract!Write
    <3> QED BY <1>f, <3>3
  <2> QED BY <2>2, <2>3
<1>6. ASSUME deleteRow(p) PROVE Goal
  <2>1. dbJob[p].op = "remove" /\ CallState(p) = "pending"
    BY <1>0, <1>6, SeenEnds DEF deleteRow, AtStep, Fits
  <2>2. /\ dbJob'[p].at = "unlinkJson" /\ dbJob'[p].op = "remove"
        /\ dbRow' = NoRow /\ dbArchive' = dbArchive
    BY <1>0, <1>6, <2>1, JobFields DEF deleteRow
  <2>3. CallState(p)' = "effected"
    BY <2>2 DEF CallState
  <2>4. SeenCalls' = [SeenCalls EXCEPT ![p] = [op |-> "remove", state |-> "effected"]]
    <3>1. \A o, s : dbJob'[p].op = o /\ CallState(p)' = s =>
            SeenCalls' = [SeenCalls EXCEPT ![p] = [op |-> o, state |-> s]]
      BY SeenStep
    <3> QED BY <2>2, <2>3, <3>1
  <2>5. SeenCalls[p] = [op |-> "remove", state |-> "pending"]
    BY <2>1, SeenStep
  <2>6. SeenCalls' = [SeenCalls EXCEPT ![p] = [op |-> SeenCalls[p].op, state |-> "effected"]]
    BY <2>4, <2>5
  <2>7. Contract!Effect(p)
    BY <1>b, <2>1, <2>2, <2>6 DEF SeenCalls, Contract!Effect, Contract!Asked, Contract!Remove
  <2> QED BY <1>f, <2>7
<1>7. ASSUME selectActive(p) \/ moveOutCollides(p) PROVE Goal
  <2>1. CallState(p) = "pending" /\ Still
    BY <1>0, <1>7, SeenEnds DEF selectActive, moveOutCollides, AtStep, sqTables
  <2>2. CASE Over(p, "refused")
    BY <1>0, <1>d, <1>f, <2>1, <2>2, SeenEnds
  <2>3. CASE ~Over(p, "refused")
    <3>1. dbJob'[p].op = dbJob[p].op /\ dbJob'[p].at \in {"moveOut", "finish"}
      <4>1. CASE dbJob' = [dbJob EXCEPT ![p] = [@ EXCEPT !.active = dbRow, !.at = "moveOut"]]
        BY <1>0, <1>a, <4>1 DEF SqliteTypeOK, JobRecords
      <4>2. CASE Broken(p, "finish")
        BY <1>0, <4>2, JobFields
      <4> QED BY <1>7, <2>3, <4>1, <4>2 DEF selectActive, moveOutCollides
    <3> QED BY <1>i, <2>1, <3>1
  <2> QED BY <2>2, <2>3
<1>8. ASSUME moveOut(p) PROVE Goal
  <2>1. /\ CallState(p) = "pending" /\ dbRow # NoRow /\ dbJob[p].active = dbRow
        /\ dbJob[p].op \in {"archive", "migrate", "ingest"}
    BY <1>0, <1>8, SeenEnds DEF moveOut, AtStep, Fits, StillHolds
  <2>2. CASE dbJob[p].op = "archive"
    <3>1. PICK e \in BOOLEAN : MovedOut(p, e)
      BY <1>8, <2>2 DEF moveOut
    <3>2. Contract!Archive
      BY <2>1, <3>1 DEF MovedOut, Contract!Archive, Contract!ArchivedAs
    <3>3. Ends("done")
      BY <1>0, <1>8, <2>2, SeenEnds DEF moveOut
    <3>4. Contract!Effect(p)
      BY <1>b, <2>1, <2>2, <3>2, <3>3
         DEF SeenCalls, Contract!Effect, Contract!Asked, Contract!CallEnds
    <3> QED BY <1>f, <3>4
  <2>3. CASE dbJob[p].op # "archive"
    <3>1. MovedOut(p, dbJob[p].kept.eligible) /\ GoTo(p, "finish")
      BY <1>8, <2>3 DEF moveOut
    <3>2. dbJob[p].kept.eligible \in BOOLEAN
      BY <1>a DEF KeptRows
    <3>3. Contract!Archive
      BY <2>1, <3>1, <3>2 DEF MovedOut, Contract!Archive, Contract!ArchivedAs
    <3>4. dbJob'[p].op = dbJob[p].op /\ dbJob'[p].at = "finish"
      BY <1>0, <3>1, JobFields
    <3> QED BY <1>j, <2>1, <2>3, <3>3, <3>4 DEF Migrations
  <2> QED BY <2>2, <2>3
<1>9. ASSUME selectKept(p) \/ collision(p) PROVE Goal
  <2>1. CallState(p) = "pending" /\ Still
    BY <1>0, <1>9, SeenEnds DEF selectKept, collision, AtStep, sqTables
  <2>2. CASE Over(p, "refused")
    BY <1>0, <1>d, <1>f, <2>1, <2>2, SeenEnds
  <2>3. CASE ~Over(p, "refused")
    <3>1. dbJob'[p].op = dbJob[p].op /\ dbJob'[p].at \in {"edit", "collision", "moveBack"}
      <4>1. CASE \E s \in {"edit", "collision"} :
                   dbJob' = [dbJob EXCEPT ![p] = [@ EXCEPT !.kept = dbArchive, !.at = s]]
        BY <1>0, <1>a, <4>1 DEF SqliteTypeOK, JobRecords
      <4>2. CASE GoTo(p, "moveBack")
        BY <1>0, <4>2, JobFields
      <4> QED BY <1>9, <2>3, <4>1, <4>2 DEF selectKept, collision
    <3> QED BY <1>i, <2>1, <3>1
  <2> QED BY <2>2, <2>3
<1>10. ASSUME moveBack(p) PROVE Goal
  <2>1. /\ CallState(p) = "pending" /\ dbJob[p].op \in {"restore", "restoreOver"}
        /\ dbJob[p].kept = dbArchive /\ dbArchive.ver # NoRow /\ dbArchive.eligible
        /\ dbJob[p].op = "restore" => dbRow = NoRow
    BY <1>0, <1>10, SeenEnds DEF moveBack, AtStep, Fits, StillHolds
  <2>2. Contract!Restore
    BY <1>10, <2>1 DEF moveBack, NoKept, Contract!Restore, Contract!NotArchived, Contract!ArchivedAs
  <2>3. Ends("done")
    BY <1>0, <1>10, SeenEnds DEF moveBack
  <2>4. Contract!Effect(p)
    BY <1>b, <2>1, <2>2, <2>3 DEF SeenCalls, Contract!Effect, Contract!Asked, Contract!CallEnds
  <2> QED BY <1>f, <2>4
<1>11. ASSUME deleteKept(p) \/ editKept(p) PROVE Goal
  <2>1. CallState(p) = "pending" /\ Ends("done")
    BY <1>0, <1>11, SeenEnds DEF deleteKept, editKept, AtStep
  <2>2. CASE deleteKept(p)
    <3>1. dbJob[p].op = "purge" /\ Contract!Purge
      BY <1>0, <2>2 DEF deleteKept, AtStep, Fits, NoKept, Contract!Purge, Contract!NotArchived,
                        Contract!ArchivedAs
    <3>2. Contract!Effect(p)
      BY <1>b, <2>1, <3>1 DEF SeenCalls, Contract!Effect, Contract!Asked, Contract!CallEnds
    <3> QED BY <1>f, <3>2
  <2>3. CASE editKept(p)
    <3>1. PICK v \in Versions : dbArchive' = [dbJob[p].kept EXCEPT !.ver = v]
      BY <2>3 DEF editKept
    <3>2. /\ dbJob[p].op = "updateArchived" /\ dbJob[p].kept = dbArchive
          /\ dbArchive.ver # NoRow /\ dbRow' = dbRow
      BY <1>0, <2>3 DEF editKept, AtStep, Fits, StillHolds
    <3>3. /\ dbArchive.eligible \in BOOLEAN
          /\ dbArchive' = [ver |-> v, eligible |-> dbArchive.eligible]
      BY <1>a, <3>1, <3>2 DEF KeptRows
    <3>4. Contract!UpdateArchived
      BY <3>2, <3>3 DEF Contract!UpdateArchived, Contract!ArchivedAs
    <3>5. Contract!Effect(p)
      BY <1>b, <2>1, <3>2, <3>4 DEF SeenCalls, Contract!Effect, Contract!Asked, Contract!CallEnds
    <3> QED BY <1>f, <3>5
  <2> QED BY <1>11, <2>2, <2>3
<1>12. ASSUME putRow(p) \/ putCopy(p) PROVE Goal
  <2>1. dbJob[p].op \in {"migrate", "ingest"} /\ CallState(p) = "pending"
    BY <1>0, <1>12, SeenEnds DEF putRow, putCopy, AtStep, Fits
  <2>2. dbRow' \in Versions /\ dbArchive' = dbArchive
    BY <1>0, <1>a, <1>12 DEF putRow, putCopy, AtStep, Carried, Rows
  <2>3. dbJob'[p].op = dbJob[p].op /\ dbJob'[p].at \in {"putCopy", "finish", "selectActive"}
    BY <1>0, <1>12, JobFields DEF putRow, putCopy, AfterActive
  <2>4. Contract!Write
    BY <2>2 DEF Contract!Write
  <2> QED BY <1>j, <2>1, <2>3, <2>4 DEF Migrations
<1>13. ASSUME \/ extractBackup(p) \/ readJson(p) \/ readRows(p) \/ putFile(p)
              \/ putFileCopy(p) \/ copyFileOut(p) \/ unlinkOut(p) \/ undoFileCopy(p)
       PROVE  Goal
  <2>1. /\ CallState(p) = "pending" /\ Still /\ dbJob[p].op # "remove"
        /\ dbJob[p].op \in Migrations
    BY <1>0, <1>13, SeenEnds
       DEF extractBackup, readJson, readRows, putFile, putFileCopy, copyFileOut, unlinkOut,
           undoFileCopy, AtStep, Fits, sqTables, Migrations
  <2>2. /\ dbJob'[p].op = dbJob[p].op
        /\ dbJob'[p].at \in {"readFiles", "putRow", "putCopy", "finish", "putFile",
                             "putFileCopy", "copyOut", "unlinkOut"}
    <3>1. CASE readJson(p)
      <4>1. CASE jsonFile \in Versions
        <5>1. HasRead(p, jsonFile, jsonArchive, TRUE, "putRow")
          BY <3>1, <4>1 DEF readJson
        <5> QED BY <1>0, <1>a, <5>1 DEF HasRead, SqliteTypeOK, JobRecords
      <4>2. CASE jsonFile \notin Versions
        BY <1>0, <3>1, <4>2, JobFields DEF readJson, AfterActive
      <4> QED BY <4>1, <4>2
    <3>2. CASE readRows(p)
      <4> DEFINE s == IF dbRow # NoRow THEN "putFile"
                      ELSE IF dbArchive.ver # NoRow THEN "putFileCopy" ELSE "finish"
      <4>1. HasRead(p, dbRow, dbArchive, TRUE, s)
        BY <3>2 DEF readRows
      <4>2. s \in {"putFile", "putFileCopy", "finish"}
        OBVIOUS
      <4> HIDE DEF s
      <4>3. dbJob'[p].op = dbJob[p].op /\ dbJob'[p].at = s
        BY <1>0, <1>a, <4>1 DEF HasRead, SqliteTypeOK, JobRecords
      <4> QED BY <4>2, <4>3
    <3>3. CASE \/ extractBackup(p) \/ putFile(p) \/ putFileCopy(p) \/ copyFileOut(p)
               \/ unlinkOut(p) \/ undoFileCopy(p)
      BY <1>0, <3>3, JobFields
         DEF extractBackup, putFile, putFileCopy, copyFileOut, unlinkOut, undoFileCopy
    <3> QED BY <1>13, <3>1, <3>2, <3>3
  <2> QED BY <1>i, <2>1, <2>2
<1>14. ASSUME finish(p) \/ unlinkJson(p) PROVE Goal
  <2>1. CASE Over(p, "done")
    <3>1. Still /\ Ends("done")
      BY <1>0, <1>14, <2>1, SeenEnds DEF finish, unlinkJson, sqTables
    <3>2. \/ CallState(p) = "effected"
          \/ CallState(p) = "pending" /\ dbJob[p].op \in Migrations
      BY <1>0, <1>14 DEF finish, unlinkJson, AtStep, Fits, CallState, Migrations
    <3> QED BY <1>e, <1>f, <3>1, <3>2
  <2>2. CASE dbJob[p].op = "ingest" /\ GoTo(p, "unlinkJson") /\ finish(p)
    <3>1. dbJob'[p].at = "unlinkJson" /\ dbJob'[p].op = dbJob[p].op /\ Still
      BY <1>0, <2>2, JobFields DEF finish, sqTables
    <3>2. CallState(p) = "pending"
      BY <1>0, <2>2, SeenEnds DEF finish, AtStep
    <3> QED BY <1>i, <2>2, <3>1, <3>2
  <2> QED BY <1>14, <2>1, <2>2 DEF finish, unlinkJson
<1>15. ASSUME rowFails(p) \/ statementFails(p) PROVE Goal
  <2>1. Still
    BY <1>15 DEF rowFails, statementFails, sqTables
  <2>2. CASE CallState(p) = "pending" /\ Over(p, "refused")
    BY <1>0, <1>d, <1>f, <2>1, <2>2, SeenEnds
  <2>3. CASE dbJob[p].at = "unlinkJson" /\ Over(p, "done")
    <3>1. Ends("done")
      BY <1>0, <2>3, SeenEnds
    <3>2. \/ CallState(p) = "effected"
          \/ CallState(p) = "pending" /\ dbJob[p].op \in Migrations
      BY <1>0, <2>3 DEF Fits, CallState, Migrations
    <3> QED BY <1>e, <1>f, <2>1, <3>1, <3>2
  <2>4. CASE /\ CallState(p) = "pending" /\ dbJob[p].op \in Migrations
             /\ \E s \in {"finish", "putCopy", "putFileCopy", "undoCopyOut"} :
                  Broken(p, s) \/ GoTo(p, s)
    <3>1. /\ dbJob'[p].op = dbJob[p].op
          /\ dbJob'[p].at \in {"finish", "putCopy", "putFileCopy", "undoCopyOut"}
      BY <1>0, <2>4, JobFields
    <3> QED BY <1>i, <2>1, <2>4, <3>1
  <2>5. CASE rowFails(p)
    <3>1. dbJob[p].op \in Migrations /\ CallState(p) = "pending"
      BY <1>0, <2>5, SeenEnds DEF rowFails, AtStep, Fits, Migrations
    <3> QED BY <2>4, <2>5, <3>1 DEF rowFails, AfterActive
  <2>6. CASE statementFails(p)
    <3>1. dbJob[p].at \notin {"idle", "unlinkJson"} => CallState(p) = "pending"
      BY <1>0, SeenEnds
    <3> QED BY <1>0, <2>2, <2>3, <2>4, <2>6, <3>1 DEF statementFails, Fits, Migrations
  <2> QED BY <1>15, <2>5, <2>6
<1>16. ASSUME UNCHANGED sqVars PROVE Goal
  BY <1>16, <1>h DEF sqVars
<1>17. ASSUME SqliteNext PROVE Goal
  <2>1. \/ \E o \in DbServe : dbCall(p, o)
        \/ firstLoad(p) \/ dbRestarts(p) \/ dbDies(p) \/ dbStep(p)
    BY <1>17 DEF SqliteNext
  <2> QED BY <2>1, <1>1, <1>2, <1>3, <1>4, <1>5, <1>6, <1>7, <1>8, <1>9, <1>10, <1>11, <1>12,
             <1>13, <1>14, <1>15 DEF dbStep
<1> QED BY <1>16, <1>17 DEF Goal

(* The store of one process implements the contract of IInstructionStore,  *)
(* whatever statement fails and whenever the process dies.                 *)
THEOREM AloneImplementsContract ==
  ASSUME NEW p, Dbs = {p}
  PROVE  SqliteSpec => ImplementsContract
<1>1. SqliteInit => SqliteInv(p) /\ Contract!Init
  BY SqliteInvInit, ContractInit
<1>2. SqliteInv(p) /\ [SqliteNext]_sqVars => SqliteInv(p)'
  BY SqliteInvStep
<1>3. SqliteInv(p) /\ [SqliteNext]_sqVars => [Contract!Next]_(Contract!contractVars)
  BY ContractStep
<1> QED BY <1>1, <1>2, <1>3, PTL DEF SqliteSpec, ImplementsContract, Contract!ContractSpec
=============================================================================
