----------------------------- MODULE SqliteStore -----------------------------
(***************************************************************************)
(* The SQLite storage of one instruction: the operations of                *)
(* services/storage/sqliteStore.ts as the accessors of indexContext.ts     *)
(* call them, the migrations between the database and the JSON directory   *)
(* (services/storage/migrationEngine.ts), the one a process makes by       *)
(* itself when it first loads the catalogue, and the restore of a backup   *)
(* through the JSON directory (dashboard/server/AdminPanel.ts).            *)
(*                                                                         *)
(* A step is one SQL statement, one transaction or one call on a file; any *)
(* of them may fail, and the process may die between two.  Ids meet only   *)
(* in the counts that decide on a migration at start, where this one is    *)
(* the whole catalogue.                                                    *)
(***************************************************************************)
EXTENDS Naturals

CONSTANTS
  Dbs,         \* the server processes that open the database
  DbServe,     \* the operations that clients ask for
  Versions,    \* contents of the instruction
  NoRow,       \* no row, or no file
  TornFile,    \* a file that does not parse
  BlankFile,   \* one that parses, and lacks an id, a title or a body
  MaxDbFaults, \* bound: statements and file calls that fail
  MaxDbDeaths  \* bound: processes that die in an operation

StoreMoves == {"archive", "restore", "restoreOver", "updateArchived"}
Migrations == {"migrate", "ingest", "export"}
DbOps == StoreMoves \cup Migrations \cup {"write", "create", "remove", "purge"}

ASSUME SqliteAssumption ==
  /\ DbServe \subseteq DbOps
  /\ {NoRow, TornFile, BlankFile} \cap Versions = {}
  /\ NoRow # TornFile /\ NoRow # BlankFile /\ TornFile # BlankFile
  /\ MaxDbFaults \in Nat /\ MaxDbDeaths \in Nat

VARIABLES
  dbRow,       \* the row of instructions
  dbArchive,   \* the row of instructions_archive
  jsonFile,    \* <dir>/<id>.json
  jsonArchive, \* <dir>/.archive/<id>.json
  dbStarted,   \* of each process: it has loaded the catalogue
  dbJob,       \* of each process: the operation it is in
  dbFaults, dbDeaths

sqVars == <<dbRow, dbArchive, jsonFile, jsonArchive, dbStarted, dbJob, dbFaults, dbDeaths>>
sqTables == <<dbRow, dbArchive>>
sqFiles  == <<jsonFile, jsonArchive>>
sqHost   == <<dbStarted, dbDeaths>>

Rows     == Versions \cup {NoRow}
KeptRows == [ver : Rows, eligible : BOOLEAN]
NoKept   == [ver |-> NoRow, eligible |-> TRUE]

DbSteps == {"idle", "put", "delete", "selectActive", "moveOut", "selectKept", "collision",
            "moveBack", "deleteKept", "edit", "extract", "readFiles", "putRow", "putCopy",
            "finish", "unlinkJson", "readRows", "putFile", "putFileCopy", "copyOut",
            "unlinkOut", "undoCopyOut"}

\* op, its next step, the active and the archived entry it has read, whether
\* its error list is empty, whether the id was archived only when it began,
\* and how the last one ended
JobRecords ==
  [op : DbOps \cup {"none"}, at : DbSteps, active : Rows, kept : KeptRows,
   clean : BOOLEAN, was : BOOLEAN, result : {"none", "done", "refused"}]

NoDbJob == [op |-> "none", at |-> "idle", active |-> NoRow, kept |-> NoKept,
          clean |-> TRUE, was |-> FALSE, result |-> "none"]

\* A directory from the time of the JSON storage, and no database.
SqliteInit ==
  /\ dbRow = NoRow /\ dbArchive = NoKept
  /\ jsonFile \in Rows \cup {BlankFile} /\ jsonArchive \in KeptRows
  /\ jsonArchive.ver = NoRow => jsonArchive = NoKept
  /\ dbStarted = [p \in Dbs |-> FALSE] /\ dbJob = [p \in Dbs |-> NoDbJob]
  /\ dbFaults = 0 /\ dbDeaths = 0

---------------------------------------------------------------------------
AtStep(p, s) == dbJob[p].at = s
GoTo(p, s) == dbJob' = [dbJob EXCEPT ![p] = [@ EXCEPT !.at = s]]

\* A migration goes on with an error in its list.
Broken(p, s) == dbJob' = [dbJob EXCEPT ![p] = [@ EXCEPT !.clean = FALSE, !.at = s]]

\* The call returns or throws.
Over(p, result) ==
  dbJob' = [dbJob EXCEPT ![p] = [NoDbJob EXCEPT !.result = result]]

Began(p, o, s) ==
  dbJob' = [dbJob EXCEPT ![p] =
              [NoDbJob EXCEPT !.op = o, !.at = s,
                            !.was = dbRow = NoRow /\ dbArchive.ver # NoRow]]

FirstStep(o) ==
  CASE o \in {"write", "create"} -> "put"
    [] o = "remove" -> "delete"
    [] o = "archive" -> "selectActive"
    [] o \in {"restore", "restoreOver", "updateArchived"} -> "selectKept"
    [] o = "purge" -> "deleteKept"
    [] o = "migrate" -> "readFiles"
    [] o = "ingest" -> "extract"
    [] o = "export" -> "readRows"

\* A client's call.
dbCall(p, o) ==
  /\ dbStarted[p] /\ AtStep(p, "idle")
  /\ Began(p, o, FirstStep(o))
  /\ UNCHANGED <<sqTables, sqFiles, sqHost, dbFaults>>

\* The first ensureLoaded() of a process: with more files than rows it
\* migrates, once in its life.
firstLoad(p) ==
  /\ ~dbStarted[p] /\ AtStep(p, "idle")
  /\ dbStarted' = [dbStarted EXCEPT ![p] = TRUE]
  /\ IF jsonFile # NoRow /\ dbRow = NoRow THEN Began(p, "migrate", "readFiles")
                                          ELSE UNCHANGED dbJob
  /\ UNCHANGED <<sqTables, sqFiles, dbFaults, dbDeaths>>

\* An orderly stop; the process that starts in its place has not loaded yet.
dbRestarts(p) ==
  /\ dbStarted[p] /\ AtStep(p, "idle")
  /\ dbStarted' = [dbStarted EXCEPT ![p] = FALSE]
  /\ UNCHANGED <<sqTables, sqFiles, dbJob, dbFaults, dbDeaths>>

\* SQLite rolls an open transaction back; a backup's file may be torn.
dbDies(p) ==
  /\ ~AtStep(p, "idle")
  /\ dbDeaths < MaxDbDeaths /\ dbDeaths' = dbDeaths + 1
  /\ dbJob' = [dbJob EXCEPT ![p] = NoDbJob]
  /\ dbStarted' = [dbStarted EXCEPT ![p] = FALSE]
  /\ jsonFile' \in IF AtStep(p, "extract") THEN {jsonFile, TornFile} ELSE {jsonFile}
  /\ UNCHANGED <<sqTables, jsonArchive, dbFaults>>

---------------------------------------------------------------------------
\* The store's own operations

\* write(): INSERT OR REPLACE, with createOnly INSERT.
putEntry(p) ==
  /\ AtStep(p, "put")
  /\ IF dbJob[p].op = "create" /\ dbRow # NoRow
     THEN Over(p, "refused") /\ UNCHANGED dbRow
     ELSE Over(p, "done") /\ dbRow' \in Versions
  /\ UNCHANGED <<dbArchive, sqFiles, sqHost, dbFaults>>

\* remove(), then removeEntry() unlinks the JSON file as well.
deleteRow(p) ==
  /\ AtStep(p, "delete")
  /\ dbRow' = NoRow /\ GoTo(p, "unlinkJson")
  /\ UNCHANGED <<dbArchive, sqFiles, sqHost, dbFaults>>

\* The SELECT before archive()'s transaction; without a row it throws, and
\* the migration that called it collects the error.
selectActive(p) ==
  /\ AtStep(p, "selectActive")
  /\ IF dbRow # NoRow
     THEN dbJob' = [dbJob EXCEPT ![p] = [@ EXCEPT !.active = dbRow, !.at = "moveOut"]]
     ELSE IF dbJob[p].op = "archive"
     THEN Over(p, "refused")
     ELSE Broken(p, "finish")
  /\ UNCHANGED <<sqTables, sqFiles, sqHost, dbFaults>>

\* The transaction: the archived row is inserted and the active one deleted.
\* The groomer may archive what must not be restored; a migration keeps the
\* flag it has read.
MovedOut(p, e) ==
  /\ dbArchive' = [ver |-> dbJob[p].active, eligible |-> e]
  /\ dbRow' = NoRow

\* Mutant: two statements, and the DELETE fails after the INSERT.
moveOutUnwrapped(p) ==
  /\ AtStep(p, "moveOut") /\ dbArchive.ver = NoRow
  /\ IF dbJob[p].op = "archive"
     THEN \/ (\E e \in BOOLEAN : MovedOut(p, e)) /\ Over(p, "done")
          \/ /\ dbArchive' = [ver |-> dbJob[p].active, eligible |-> TRUE]
             /\ Over(p, "refused") /\ UNCHANGED dbRow
     ELSE MovedOut(p, dbJob[p].kept.eligible) /\ GoTo(p, "finish")
  /\ UNCHANGED <<sqFiles, sqHost, dbFaults>>

moveOut(p) ==
  /\ AtStep(p, "moveOut") /\ dbArchive.ver = NoRow
  /\ IF dbJob[p].op = "archive"
     THEN (\E e \in BOOLEAN : MovedOut(p, e)) /\ Over(p, "done")
     ELSE MovedOut(p, dbJob[p].kept.eligible) /\ GoTo(p, "finish")
  /\ UNCHANGED <<sqFiles, sqHost, dbFaults>>

\* The INSERT meets the primary key of an older archived row: ROLLBACK.
moveOutCollides(p) ==
  /\ AtStep(p, "moveOut") /\ dbArchive.ver # NoRow
  /\ IF dbJob[p].op = "archive"
     THEN Over(p, "refused")
     ELSE Broken(p, "finish")
  /\ UNCHANGED <<sqTables, sqFiles, sqHost, dbFaults>>

\* The SELECT of restore() and updateArchived().
selectKept(p) ==
  /\ AtStep(p, "selectKept")
  /\ IF dbArchive.ver = NoRow \/ (dbJob[p].op # "updateArchived" /\ ~dbArchive.eligible)
     THEN Over(p, "refused")
     ELSE dbJob' = [dbJob EXCEPT ![p] =
                      [@ EXCEPT !.kept = dbArchive,
                                !.at = IF dbJob[p].op = "updateArchived" THEN "edit"
                                                                         ELSE "collision"]]
  /\ UNCHANGED <<sqTables, sqFiles, sqHost, dbFaults>>

\* restore() asks for an active row of the same id.
collision(p) ==
  /\ AtStep(p, "collision")
  /\ IF dbRow # NoRow /\ dbJob[p].op # "restoreOver" THEN Over(p, "refused")
                                                     ELSE GoTo(p, "moveBack")
  /\ UNCHANGED <<sqTables, sqFiles, sqHost, dbFaults>>

\* The transaction: INSERT OR REPLACE of the active row, DELETE of the other.
moveBack(p) ==
  /\ AtStep(p, "moveBack")
  /\ dbRow' = dbJob[p].kept.ver /\ dbArchive' = NoKept
  /\ Over(p, "done")
  /\ UNCHANGED <<sqFiles, sqHost, dbFaults>>

\* purge()
deleteKept(p) ==
  /\ AtStep(p, "deleteKept")
  /\ dbArchive' = NoKept
  /\ Over(p, "done")
  /\ UNCHANGED <<dbRow, sqFiles, sqHost, dbFaults>>

\* updateArchived(): DELETE and INSERT in one transaction.
editKept(p) ==
  /\ AtStep(p, "edit")
  /\ \E v \in Versions : dbArchive' = [dbJob[p].kept EXCEPT !.ver = v]
  /\ Over(p, "done")
  /\ UNCHANGED <<dbRow, sqFiles, sqHost, dbFaults>>

---------------------------------------------------------------------------
\* migrateJsonToSqlite()

\* restoreBackup() first extracts the backup's files over the directory's.
extractBackup(p) ==
  /\ AtStep(p, "extract")
  /\ jsonFile' \in Versions \cup {jsonFile, BlankFile}
  /\ GoTo(p, "readFiles")
  /\ UNCHANGED <<sqTables, jsonArchive, sqHost, dbFaults>>

\* What a migration has read, and where it goes on.
HasRead(p, a, k, ok, s) ==
  dbJob' = [dbJob EXCEPT ![p] = [@ EXCEPT !.active = a, !.kept = k, !.clean = ok, !.at = s]]

AfterActive(k) == IF k.ver # NoRow THEN "putCopy" ELSE "finish"

\* JsonFileStore.load() and listArchived(); a file that does not parse is an
\* error of the list, one without an entry is skipped without any.
readJson(p) ==
  /\ AtStep(p, "readFiles")
  /\ IF jsonFile \in Versions
     THEN HasRead(p, jsonFile, jsonArchive, TRUE, "putRow")
     ELSE HasRead(p, NoRow, jsonArchive, jsonFile # TornFile, AfterActive(jsonArchive))
  /\ UNCHANGED <<sqTables, sqFiles, sqHost, dbFaults>>

\* write() of the active entry.
putRow(p) ==
  /\ AtStep(p, "putRow")
  /\ dbRow' = dbJob[p].active
  /\ GoTo(p, AfterActive(dbJob[p].kept))
  /\ UNCHANGED <<dbArchive, sqFiles, sqHost, dbFaults>>

\* write() of the archived entry as an active one; archive() follows.
putCopy(p) ==
  /\ AtStep(p, "putCopy")
  /\ dbRow' = dbJob[p].kept.ver
  /\ GoTo(p, "selectActive")
  /\ UNCHANGED <<dbArchive, sqFiles, sqHost, dbFaults>>

\* The result is returned; restoreBackup() deletes the files if the error
\* list is empty.
finish(p) ==
  /\ AtStep(p, "finish")
  /\ IF dbJob[p].op = "ingest" /\ dbJob[p].clean THEN GoTo(p, "unlinkJson")
                                                 ELSE Over(p, "done")
  /\ UNCHANGED <<sqTables, sqFiles, sqHost, dbFaults>>

unlinkJson(p) ==
  /\ AtStep(p, "unlinkJson")
  /\ jsonFile' = NoRow
  /\ Over(p, "done")
  /\ UNCHANGED <<sqTables, jsonArchive, sqHost, dbFaults>>

---------------------------------------------------------------------------
\* migrateSqliteToJson()

\* SqliteStore.load() and listArchived().
readRows(p) ==
  /\ AtStep(p, "readRows")
  /\ HasRead(p, dbRow, dbArchive, TRUE,
             IF dbRow # NoRow THEN "putFile"
             ELSE IF dbArchive.ver # NoRow THEN "putFileCopy" ELSE "finish")
  /\ UNCHANGED <<sqTables, sqFiles, sqHost, dbFaults>>

putFile(p) ==
  /\ AtStep(p, "putFile")
  /\ jsonFile' = dbJob[p].active
  /\ GoTo(p, IF dbJob[p].kept.ver # NoRow THEN "putFileCopy" ELSE "finish")
  /\ UNCHANGED <<sqTables, jsonArchive, sqHost, dbFaults>>

\* The archived entry is written as an active one; JsonFileStore.archive()
\* writes the copy from its cache and unlinks the file.
putFileCopy(p) ==
  /\ AtStep(p, "putFileCopy")
  /\ jsonFile' = dbJob[p].kept.ver
  /\ GoTo(p, "copyOut")
  /\ UNCHANGED <<sqTables, jsonArchive, sqHost, dbFaults>>

copyFileOut(p) ==
  /\ AtStep(p, "copyOut")
  /\ jsonArchive' = dbJob[p].kept
  /\ GoTo(p, "unlinkOut")
  /\ UNCHANGED <<sqTables, jsonFile, sqHost, dbFaults>>

unlinkOut(p) ==
  /\ AtStep(p, "unlinkOut")
  /\ jsonFile' = NoRow
  /\ GoTo(p, "finish")
  /\ UNCHANGED <<sqTables, jsonArchive, sqHost, dbFaults>>

undoFileCopy(p) ==
  /\ AtStep(p, "undoCopyOut")
  /\ jsonArchive' = NoKept
  /\ GoTo(p, "finish")
  /\ UNCHANGED <<sqTables, jsonFile, sqHost, dbFaults>>

---------------------------------------------------------------------------
\* A statement or a file call fails

DbFault == dbFaults < MaxDbFaults /\ dbFaults' = dbFaults + 1

\* Mutant: the error is not collected.
rowFailsUncollected(p) ==
  /\ AtStep(p, "putRow") /\ DbFault
  /\ GoTo(p, AfterActive(dbJob[p].kept))
  /\ UNCHANGED <<sqTables, sqFiles, sqHost>>

\* write() of an active entry fails in a migration, which collects the error
\* and goes on.
rowFails(p) ==
  /\ AtStep(p, "putRow") /\ DbFault
  /\ Broken(p, AfterActive(dbJob[p].kept))
  /\ UNCHANGED <<sqTables, sqFiles, sqHost>>

\* Anywhere else the error is thrown to the client, or joins a migration's
\* list too; an unlink that fails at the end is swallowed.
statementFails(p) ==
  /\ DbFault
  /\ LET j == dbJob[p]
     IN \/ j.op \notin Migrations /\ j.at \notin {"idle", "unlinkJson"} /\ Over(p, "refused")
        \/ j.at \in {"extract", "readFiles", "readRows"} /\ Over(p, "refused")
        \/ j.op \in Migrations /\ j.at \in {"putCopy", "selectActive", "moveOut"} /\ Broken(p, "finish")
        \/ j.at = "putFile" /\ Broken(p, IF j.kept.ver # NoRow THEN "putFileCopy" ELSE "finish")
        \/ j.at \in {"putFileCopy", "copyOut"} /\ Broken(p, "finish")
        \/ j.at = "unlinkOut" /\ Broken(p, "undoCopyOut")
        \/ j.at = "undoCopyOut" /\ GoTo(p, "finish")
        \/ j.at = "unlinkJson" /\ Over(p, "done")
  /\ UNCHANGED <<sqTables, sqFiles, sqHost>>

dbStep(p) ==
  \/ putEntry(p) \/ deleteRow(p)
  \/ selectActive(p) \/ moveOut(p) \/ moveOutCollides(p)
  \/ selectKept(p) \/ collision(p) \/ moveBack(p) \/ deleteKept(p) \/ editKept(p)
  \/ extractBackup(p) \/ readJson(p) \/ putRow(p) \/ putCopy(p)
  \/ finish(p) \/ unlinkJson(p)
  \/ readRows(p) \/ putFile(p) \/ putFileCopy(p) \/ copyFileOut(p)
  \/ unlinkOut(p) \/ undoFileCopy(p)
  \/ rowFails(p) \/ statementFails(p)

SqliteNext ==
  \E p \in Dbs :
    \/ \E o \in DbServe : dbCall(p, o)
    \/ firstLoad(p) \/ dbRestarts(p) \/ dbDies(p)
    \/ dbStep(p)

SqliteSpec == SqliteInit /\ [][SqliteNext]_sqVars

(***************************************************************************)
(* Properties.                                                             *)
(***************************************************************************)
SqliteTypeOK ==
  /\ dbRow \in Rows /\ dbArchive \in KeptRows
  /\ jsonFile \in Rows \cup {TornFile, BlankFile} /\ jsonArchive \in KeptRows
  /\ dbStarted \in [Dbs -> BOOLEAN] /\ dbJob \in [Dbs -> JobRecords]
  /\ dbFaults \in 0 .. MaxDbFaults /\ dbDeaths \in 0 .. MaxDbDeaths

\* The state of a call as its client, or the contract, sees it.
CallState(p) ==
  IF dbJob[p].at = "idle" THEN IF dbJob[p].result = "none" THEN "idle" ELSE dbJob[p].result
  ELSE IF dbJob[p].op = "remove" /\ dbJob[p].at = "unlinkJson" THEN "effected"
  ELSE "pending"

Contract ==
  INSTANCE ArchiveContract
  WITH live <- dbRow, kept <- dbArchive,
       calls <- [p \in Dbs |-> [op |-> dbJob[p].op, state |-> CallState(p)]]

(* Whatever fails and whenever the process dies, the store of one process  *)
(* keeps the contract of IInstructionStore: a move is whole, a call that   *)
(* throws has changed nothing, what must be refused is refused.            *)
ImplementsContract == Contract!ContractSpec

(* A migration that reports no error, as the restore of a backup relies on *)
(* before it deletes the files, has brought over what it read: the         *)
(* archived entry to the archive only, else the active one as it is.       *)
CleanMigrationIsFaithful ==
  [][\A p \in Dbs :
       finish(p) /\ dbJob[p].clean /\ dbJob[p].op # "export" =>
         IF dbJob[p].kept.ver # NoRow
         THEN dbRow = NoRow /\ dbArchive = dbJob[p].kept
         ELSE dbJob[p].active # NoRow => dbRow = dbJob[p].active]_sqVars

(* migrationEngine.ts:58: an entry that is archived when a migration into  *)
(* the database begins is not active when it is over.                      *)
NeverReactivated ==
  [][\A p \in Dbs : finish(p) /\ dbJob[p].op = "migrate" /\ dbJob[p].was => dbRow = NoRow]_sqVars
=============================================================================
