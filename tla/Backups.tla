------------------------------ MODULE Backups ------------------------------
(***************************************************************************)
(* Backups of the instructions directory, JSON storage: the periodic one   *)
(* and its pruning (services/autoBackup.ts), and the one taken before a    *)
(* bulk deletion (services/instructionsBackup.ts, called by index_remove,  *)
(* index_purgeArchive and index_groom).  Several processes share the       *)
(* instructions and the backups.                                           *)
(*                                                                         *)
(* A backup is named by its kind, the minute and a number that makes it    *)
(* unique; choosing the name, reading the files and writing the archive    *)
(* are separate steps.                                                     *)
(***************************************************************************)
EXTENDS Naturals, FiniteSets

CONSTANTS
  Savers,      \* the server processes
  Ids,         \* instructions
  MaxCount,    \* INDEX_SERVER_AUTO_BACKUP_MAX_COUNT
  Serving,     \* operations enabled: subset of {"auto", "remove", "purge", "groom"}
  MaxMinutes,  \* bound: minutes that pass
  MaxJobs,     \* bound: backups started
  Torn,        \* what a torn archive holds
  MaxFailures  \* bound: writes that fail and processes that die

ASSUME BackupAssumption ==
  /\ MaxCount \in Nat \ {0} /\ MaxMinutes \in Nat /\ MaxJobs \in Nat
  /\ MaxFailures \in Nat
  /\ Serving \subseteq {"auto", "remove", "purge", "groom"}
  /\ \A S \in SUBSET Ids : S # Torn

Steps == {"idle", "read", "write", "delete", "prune"}
Names == [kind : {"auto", "instructions"}, minute : 0 .. MaxMinutes, nth : 0 .. MaxJobs]

NoBackup == [step |-> "idle", op |-> "auto", victims |-> {}, holds |-> {}, list |-> {},
          name |-> [kind |-> "auto", minute |-> 0, nth |-> 0]]

VARIABLES
  inDir, inArchive,  \* ids in the directory and in its .archive
  zips,              \* name -> the ids in it, or Torn
  minute, jobs, failures,
  backup,            \* of each process: the backup it is taking
  removedInBulk,     \* history: ids deleted from the directory in bulk
  purgedInBulk,      \* history: ids deleted from the archive in bulk
  clobbered,         \* history: ids whose copy another process overwrote
  late               \* history: ids that came after the files were read

bkHist == <<removedInBulk, purgedInBulk, clobbered, late>>
bkVars == <<inDir, inArchive, zips, minute, jobs, failures, backup, bkHist>>

BkInit ==
  /\ inDir \in SUBSET Ids /\ inArchive = {}
  /\ zips = <<>>
  /\ minute = 0 /\ jobs = 0 /\ failures = 0
  /\ backup = [p \in Savers |-> NoBackup]
  /\ removedInBulk = {} /\ purgedInBulk = {} /\ clobbered = {} /\ late = {}

Autos == {n \in DOMAIN zips : n.kind = "auto"}

(***************************************************************************)
(* The other mutations, and the clock.                                     *)
(***************************************************************************)
addInstruction(i) ==
  /\ i \notin inDir \cup inArchive \cup removedInBulk \cup purgedInBulk
  /\ inDir' = inDir \cup {i}
  /\ UNCHANGED <<inArchive, zips, minute, jobs, failures, backup, bkHist>>

archiveInstruction(i) ==
  /\ i \in inDir
  /\ inDir' = inDir \ {i} /\ inArchive' = inArchive \cup {i}
  /\ UNCHANGED <<zips, minute, jobs, failures, backup, bkHist>>

minutePasses ==
  /\ minute < MaxMinutes /\ minute' = minute + 1
  /\ UNCHANGED <<inDir, inArchive, zips, jobs, failures, backup, bkHist>>

(***************************************************************************)
(* A backup: the name, the files, the archive.                             *)
(***************************************************************************)
Kind(o) == IF o = "auto" THEN "auto" ELSE "instructions"

(* n is the first name of this minute that does not exist.                 *)
IsFreeName(n, k) ==
  /\ n.kind = k /\ n.minute = minute /\ n \notin DOMAIN zips
  /\ \A m \in 0 .. n.nth - 1 : [n EXCEPT !.nth = m] \in DOMAIN zips

startBackup(p, o, V) ==
  /\ backup[p].step = "idle" /\ jobs < MaxJobs /\ o \in Serving
  /\ CASE o = "auto"   -> V = {} /\ inDir # {}
       [] o = "remove" -> V # {} /\ V \subseteq inDir
       [] o \in {"purge", "groom"} -> V # {} /\ V \subseteq inArchive
  /\ jobs' = jobs + 1
  /\ \E n \in Names :
       /\ IsFreeName(n, Kind(o))
       /\ backup' = [backup EXCEPT ![p] = [NoBackup EXCEPT !.step = "read", !.op = o,
                                                           !.victims = V, !.name = n]]
  /\ UNCHANGED <<inDir, inArchive, zips, minute, failures, bkHist>>

(* Every .json file of the directory itself: not those of .archive.        *)
readFiles(p) ==
  /\ backup[p].step = "read"
  /\ backup' = [backup EXCEPT ![p].step = "write", ![p].holds = inDir]
  /\ UNCHANGED <<inDir, inArchive, zips, minute, jobs, failures, bkHist>>

Stored(n, content) == [m \in DOMAIN zips \cup {n} |-> IF m = n THEN content ELSE zips[m]]

Overwritten(n) ==
  IF n \in DOMAIN zips /\ zips[n] # Torn THEN clobbered \cup zips[n] ELSE clobbered

(* An automatic backup lists the others at once.                           *)
createZipBackup(p) ==
  LET n == backup[p].name
  IN /\ backup[p].step = "write"
     /\ zips' = Stored(n, backup[p].holds)
     /\ clobbered' = Overwritten(n)
     /\ IF backup[p].op = "auto"
        THEN backup' = [backup EXCEPT ![p].step = "prune", ![p].list = Autos \cup {n}]
        ELSE backup' = [backup EXCEPT ![p].step = "delete"]
     /\ UNCHANGED <<inDir, inArchive, minute, jobs, failures, removedInBulk,
                    purgedInBulk, late>>

(* Mutant: every caller goes on without its backup.                        *)
backupFailsGoesOn(p) ==
  /\ backup[p].step \in {"read", "write"} /\ backup[p].op # "auto"
  /\ failures < MaxFailures /\ failures' = failures + 1
  /\ backup' = [backup EXCEPT ![p].step = "delete"]
  /\ UNCHANGED <<inDir, inArchive, zips, minute, jobs, bkHist>>

(* The archive cannot be written: the tools give up, the groomer goes on.  *)
backupFails(p) ==
  /\ backup[p].step \in {"read", "write"}
  /\ failures < MaxFailures /\ failures' = failures + 1
  /\ backup' = IF backup[p].op = "groom" THEN [backup EXCEPT ![p].step = "delete"]
                                         ELSE [backup EXCEPT ![p] = NoBackup]
  /\ UNCHANGED <<inDir, inArchive, zips, minute, jobs, bkHist>>

(* A process dies; an archive it was writing is left torn.                 *)
saverDies(p) ==
  /\ backup[p].step # "idle"
  /\ failures < MaxFailures /\ failures' = failures + 1
  /\ backup' = [backup EXCEPT ![p] = NoBackup]
  /\ IF backup[p].step = "write"
     THEN /\ zips' = Stored(backup[p].name, Torn)
          /\ clobbered' = Overwritten(backup[p].name)
     ELSE UNCHANGED <<zips, clobbered>>
  /\ UNCHANGED <<inDir, inArchive, minute, jobs, removedInBulk, purgedInBulk, late>>

(***************************************************************************)
(* What follows: the deletion, one by one, or the pruning of what was      *)
(* listed, oldest name first, until a file is gone already.                *)
(***************************************************************************)
deleteNext(p, i) ==
  /\ backup[p].step = "delete" /\ i \in backup[p].victims
  /\ backup' = IF backup[p].victims = {i} THEN [backup EXCEPT ![p] = NoBackup]
                                          ELSE [backup EXCEPT ![p].victims = @ \ {i}]
  /\ IF backup[p].op = "remove"
     THEN /\ inDir' = inDir \ {i}
          /\ removedInBulk' = removedInBulk \cup ({i} \cap inDir)
          /\ late' = IF i \in inDir \ backup[p].holds THEN late \cup {i} ELSE late
          /\ UNCHANGED <<inArchive, purgedInBulk>>
     ELSE /\ inArchive' = inArchive \ {i}
          /\ purgedInBulk' = purgedInBulk \cup ({i} \cap inArchive)
          /\ UNCHANGED <<inDir, removedInBulk, late>>
  /\ UNCHANGED <<zips, minute, jobs, failures, clobbered>>

(* By name: within a minute the numbered ones, "-1.zip", come before the   *)
(* first, ".zip".                                                          *)
Before(m, n) ==
  \/ m.minute < n.minute
  \/ m.minute = n.minute /\ m.nth # 0 /\ (n.nth = 0 \/ m.nth < n.nth)

IsOldest(n, S) == \A m \in S \ {n} : Before(n, m)

Without(n) == [m \in DOMAIN zips \ {n} |-> zips[m]]

PruneEnds(p) ==
  /\ backup' = [backup EXCEPT ![p] = NoBackup]
  /\ UNCHANGED zips

(* An unlink that fails ends the pruning.                                  *)
PruneFile(p, n) ==
  /\ IsOldest(n, backup[p].list)
  /\ zips' = Without(n)
  /\ backup' = IF n \in DOMAIN zips THEN [backup EXCEPT ![p].list = @ \ {n}]
                                    ELSE [backup EXCEPT ![p] = NoBackup]

(* Mutant: one too many is removed.                                        *)
pruneOneMore(p) ==
  /\ backup[p].step = "prune"
  /\ IF Cardinality(backup[p].list) < MaxCount
     THEN PruneEnds(p)
     ELSE \E n \in backup[p].list : PruneFile(p, n)
  /\ UNCHANGED <<inDir, inArchive, minute, jobs, failures, bkHist>>

pruneOldBackups(p) ==
  /\ backup[p].step = "prune"
  /\ IF Cardinality(backup[p].list) <= MaxCount
     THEN PruneEnds(p)
     ELSE \E n \in backup[p].list : PruneFile(p, n)
  /\ UNCHANGED <<inDir, inArchive, minute, jobs, failures, bkHist>>

BkNext ==
  \/ \E i \in Ids : addInstruction(i) \/ archiveInstruction(i)
  \/ minutePasses
  \/ \E p \in Savers :
       \/ \E o \in Serving, V \in SUBSET Ids : startBackup(p, o, V)
       \/ readFiles(p) \/ createZipBackup(p) \/ backupFails(p) \/ saverDies(p)
       \/ \E i \in Ids : deleteNext(p, i)
       \/ pruneOldBackups(p)

BkSpec == BkInit /\ [][BkNext]_bkVars

(***************************************************************************)
(* Properties.                                                             *)
(***************************************************************************)
BkTypeOK ==
  /\ inDir \subseteq Ids /\ inArchive \subseteq Ids
  /\ DOMAIN zips \subseteq Names
  /\ \A n \in DOMAIN zips : zips[n] = Torn \/ zips[n] \subseteq Ids
  /\ minute \in 0 .. MaxMinutes /\ jobs \in 0 .. MaxJobs /\ failures \in 0 .. MaxFailures
  /\ \A p \in Savers :
       /\ backup[p].step \in Steps /\ backup[p].op \in Serving \cup {"auto"}
       /\ backup[p].name \in Names /\ backup[p].list \subseteq Names
       /\ backup[p].victims \subseteq Ids /\ backup[p].holds \subseteq Ids

Copies == UNION {zips[n] : n \in {m \in DOMAIN zips : zips[m] # Torn}}

(* "Pass force=true to proceed (a backup will be created first)"           *)
(* (instructions.remove.ts:114): an instruction removed in bulk is in a    *)
(* backup, whatever fails or dies, unless another process wrote its backup *)
(* under the same name or created the instruction after the files were     *)
(* read.                                                                   *)
BulkRemoveKeepsACopy == removedInBulk \subseteq Copies \cup clobbered \cup late

(* Pruning never leaves fewer backups than it is told to keep, however     *)
(* many processes prune at once.                                           *)
NeverBelowMax ==
  [][~(Autos \subseteq Autos') => Cardinality(Autos') >= MaxCount]_bkVars

(* docs/tools.md:1249-1251: bulk purges of the archive "auto-create a zip  *)
(* backup (purge_backup audit) before deletion".                           *)
BulkPurgeKeepsACopy == purgedInBulk \subseteq Copies \cup clobbered
=============================================================================
