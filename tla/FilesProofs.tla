----------------------------- MODULE FilesProofs -----------------------------
(***************************************************************************)
(* Proofs about files: the writes of atomicFs.ts implement a register for  *)
(* any number of writers, payloads and attempts (AtomicFile), a bulk       *)
(* removal keeps a copy of what it deletes and pruning leaves enough       *)
(* backups (Backups), pages cover a body and can be written back over      *)
(* their windows (BodyWindows), a ring gives its readers the latest        *)
(* entries and its file of lines all of them (BufferRing), and a write     *)
(* that fails loses no tool call (ToolCallLog).                            *)
(***************************************************************************)
EXTENDS AtomicFile, Backups, BodyWindows, BufferRing, ToolCallLog,
        FiniteSetTheorems, SequenceTheorems, TLAPS

---------------------------------------------------------------------------
\* AtomicFile implements FileRegister

(* The strengthening: whoever is about to publish holds its whole payload  *)
(* in its temporary file.                                                  *)
WriterInv ==
  /\ wstep \in [Writers -> WriteSteps] /\ wkind \in [Writers -> Kinds]
  /\ wdata \in [Writers -> Payloads \cup {NoEntry}]
  /\ temp \in [Writers -> Payloads \cup {NoEntry}]
  /\ \A p \in Writers : wstep[p] = "publish" => temp[p] = wdata[p]

LEMMA WriterInit == AtomicInit => WriterInv
  BY DEF AtomicInit, WriterInv, WriteSteps, Kinds

LEMMA WriterStep ==
  ASSUME WriterInv, [AtomicNext]_afVars
  PROVE  WriterInv'
<1> USE DEF WriterInv, WriteSteps, WriteStep
<1>1. ASSUME NEW p \in Writers, NEW k \in Kinds, NEW d \in Payloads, atomicCall(p, k, d)
      PROVE  WriterInv'
  BY <1>1 DEF atomicCall
<1>2. ASSUME NEW p \in Writers, writeTemp(p) \/ rename(p)
      PROVE  WriterInv'
  BY <1>2 DEF writeTemp, rename
<1>3. ASSUME NEW p \in Writers, link(p) \/ linkExists(p) \/ callError(p) \/ writerDies(p)
      PROVE  WriterInv'
  BY <1>3 DEF link, linkExists, callError, writerDies, DropTemp
<1>4. CASE entryRemoved \/ UNCHANGED afVars
  BY <1>4 DEF entryRemoved, afVars, afCall
<1> QED BY <1>1, <1>2, <1>3, <1>4 DEF AtomicNext

(* The call of each writer, as the register sees it.                       *)
CallOf(p) == [state |-> IF Pending(p) THEN "pending" ELSE wstep[p],
              kind |-> wkind[p], data |-> wdata[p]]
Calling == [p \in Writers |-> CallOf(p)]

LEMMA RegisterInit == AtomicInit => Register!Init
  BY DEF AtomicInit, Register!Init, Register!Call, Pending

(* A step that moves one call to another state, and nothing else of it.    *)
LEMMA CallMoves ==
  ASSUME WriterInv, NEW p \in Writers, NEW s \in WriteSteps \ {"writeTemp", "publish"},
         WriteStep(p, s), UNCHANGED <<wkind, wdata>>, Pending(p)
  PROVE  Calling' = [Calling EXCEPT ![p].state = s] /\ Calling[p].state = "pending"
<1>1. \A q \in Writers \ {p} : CallOf(q)' = CallOf(q)
  BY DEF WriterInv, WriteStep, CallOf, Pending
<1>2. CallOf(p)' = [CallOf(p) EXCEPT !.state = s]
  BY DEF WriterInv, WriteStep, CallOf, Pending
<1>3. CallOf(p).state = "pending"
  BY DEF CallOf
<1> QED BY <1>1, <1>2, <1>3 DEF Calling

LEMMA CallStays ==
  ASSUME WriterInv, NEW p \in Writers, NEW s \in {"writeTemp", "publish"},
         WriteStep(p, s), UNCHANGED <<wkind, wdata>>, Pending(p)
  PROVE  Calling' = Calling
<1>1. \A q \in Writers : CallOf(q)' = CallOf(q)
  BY DEF WriterInv, WriteStep, CallOf, Pending
<1> QED BY <1>1 DEF Calling

LEMMA RegisterStep ==
  ASSUME WriterInv, [AtomicNext]_afVars
  PROVE  [Register!Next]_(Register!regFileVars)
<1> DEFINE CallSteps(p) == Register!Request(p) \/ Register!Succeed(p) \/ Register!Fail(p)
                           \/ Register!Die(p)
<1>a. Calling = [p \in Writers |->
                   [state |-> IF Pending(p) THEN "pending" ELSE wstep[p],
                    kind |-> wkind[p], data |-> wdata[p]]]
  BY DEF Calling, CallOf
<1>1. ASSUME NEW p \in Writers, NEW k \in Kinds, NEW d \in Payloads, atomicCall(p, k, d)
      PROVE  Register!Request(p)
  <2>1. \A q \in Writers : CallOf(q)' = IF q = p THEN Register!Call("pending", k, d)
                                                 ELSE CallOf(q)
    BY <1>1 DEF atomicCall, WriterInv, WriteStep, CallOf, Pending, Register!Call
  <2>2. Calling' = [Calling EXCEPT ![p] = Register!Call("pending", k, d)]
    BY <2>1 DEF Calling
  <2>3. Calling[p].state \in Register!Resting
    BY <1>1 DEF atomicCall, Calling, CallOf, Pending, Register!Resting
  <2>4. entry' = entry
    BY <1>1 DEF atomicCall
  <2> QED BY <2>2, <2>3, <2>4 DEF Calling, CallOf, Register!Request, Kinds
<1>2. ASSUME NEW p \in Writers, rename(p) \/ link(p)
      PROVE  Register!Succeed(p)
  <2>1. /\ WriteStep(p, "ok") /\ Pending(p) /\ entry' = wdata[p]
        /\ UNCHANGED <<wkind, wdata>>
        /\ wkind[p] = "create" => entry = NoEntry
    BY <1>2 DEF rename, link, WriterInv, Pending
  <2>2. Calling' = [Calling EXCEPT ![p].state = "ok"] /\ Calling[p].state = "pending"
    BY <2>1, CallMoves DEF WriteSteps
  <2>3. Calling[p].data = wdata[p] /\ Calling[p].kind = wkind[p]
    BY DEF Calling, CallOf
  <2> QED BY <2>1, <2>2, <2>3 DEF Calling, CallOf, Register!Succeed, Register!Moves
<1>3. ASSUME NEW p \in Writers, WriteStep(p, "failed"), Pending(p),
             UNCHANGED <<entry, wkind, wdata>>
      PROVE  Register!Fail(p)
  <2>1. Calling' = [Calling EXCEPT ![p].state = "failed"] /\ Calling[p].state = "pending"
    BY <1>3, CallMoves DEF WriteSteps
  <2> QED BY <1>3, <2>1 DEF Calling, CallOf, Register!Fail, Register!Moves
<1>4. ASSUME NEW p \in Writers, writerDies(p)
      PROVE  Register!Die(p)
  <2>1. WriteStep(p, "idle") /\ Pending(p) /\ UNCHANGED <<entry, wkind, wdata>>
    BY <1>4 DEF writerDies, Pending
  <2>2. Calling' = [Calling EXCEPT ![p].state = "idle"] /\ Calling[p].state = "pending"
    BY <2>1, CallMoves DEF WriteSteps
  <2> QED BY <2>1, <2>2 DEF Calling, CallOf, Register!Die, Register!Moves
<1>5. ASSUME NEW p \in Writers, NEW s \in {"writeTemp", "publish"}, WriteStep(p, s),
             Pending(p), UNCHANGED <<entry, wkind, wdata>>
      PROVE  UNCHANGED Register!regFileVars
  BY <1>5, CallStays DEF Calling, CallOf, Register!regFileVars
<1>6. ASSUME NEW p \in Writers, writeTemp(p)
      PROVE  UNCHANGED Register!regFileVars
  BY <1>5, <1>6 DEF writeTemp, Pending
<1>7. ASSUME NEW p \in Writers, linkExists(p)
      PROVE  Register!Fail(p)
  BY <1>3, <1>7 DEF linkExists, Pending
<1>8. ASSUME NEW p \in Writers, callError(p)
      PROVE  Register!Fail(p) \/ UNCHANGED Register!regFileVars
  BY <1>3, <1>5, <1>8 DEF callError, Pending
<1>9. CASE entryRemoved
  <2>1. Calling' = Calling
    BY <1>9 DEF entryRemoved, afCall, Calling, CallOf, Pending
  <2> QED BY <1>9, <2>1 DEF entryRemoved, Calling, CallOf, Register!Next, Register!Delete
<1>10. CASE UNCHANGED afVars
  <2>1. Calling' = Calling
    BY <1>10 DEF afVars, afCall, Calling, CallOf, Pending
  <2> QED BY <1>10, <2>1 DEF afVars, Calling, CallOf, Register!regFileVars
<1>11. ASSUME NEW p \in Writers, CallSteps(p)
       PROVE  Register!Next
  BY <1>11 DEF Register!Next
<1> QED
  BY <1>1, <1>2, <1>4, <1>6, <1>7, <1>8, <1>9, <1>10, <1>11 DEF AtomicNext

(* The writes of atomicFs.ts implement the register, whatever the number   *)
(* of processes, attempts, errors and deaths.                              *)
THEOREM AtomicImplementsRegister == AtomicSpec => ImplementsRegister
<1>1. AtomicInit => WriterInv /\ Register!Init
  BY WriterInit, RegisterInit
<1>2. WriterInv /\ [AtomicNext]_afVars => WriterInv'
  BY WriterStep
<1>3. WriterInv /\ [AtomicNext]_afVars => [Register!Next]_(Register!regFileVars)
  BY RegisterStep
<1> QED BY <1>1, <1>2, <1>3, PTL DEF AtomicSpec, ImplementsRegister, Register!RegisterSpec

(* Every variable of the atomic writes has its type.                       *)
THEOREM AtomicTypeCorrect == AtomicSpec => []AtomicTypeOK
<1>1. AtomicInit => AtomicTypeOK
  BY AtomicAssumption DEF AtomicAssumption, AtomicInit, AtomicTypeOK, WriteSteps, Kinds
<1>2. AtomicTypeOK /\ [AtomicNext]_afVars => AtomicTypeOK'
  <2> SUFFICES ASSUME AtomicTypeOK, [AtomicNext]_afVars PROVE AtomicTypeOK'
    OBVIOUS
  <2> USE DEF AtomicTypeOK, WriteSteps, WriteStep, DropTemp
  <2>0. MaxAttempts \in Nat \ {0}
    BY AtomicAssumption DEF AtomicAssumption
  <2>1. ASSUME NEW p \in Writers, NEW k \in Kinds, NEW d \in Payloads, atomicCall(p, k, d)
        PROVE  AtomicTypeOK'
    BY <2>0, <2>1 DEF atomicCall
  <2>2. ASSUME NEW p \in Writers, writeTemp(p) \/ rename(p) \/ writerDies(p)
        PROVE  AtomicTypeOK'
    BY <2>2 DEF writeTemp, rename, writerDies
  <2>3. ASSUME NEW p \in Writers, link(p) \/ linkExists(p)
        PROVE  AtomicTypeOK'
    BY <2>3 DEF link, linkExists
  <2>4. ASSUME NEW p \in Writers, callError(p)
        PROVE  AtomicTypeOK'
    <3>1. attempt' \in [Writers -> 1 .. MaxAttempts]
      BY <2>0, <2>4 DEF callError
    <3> QED BY <2>4, <3>1 DEF callError
  <2>5. CASE entryRemoved \/ UNCHANGED afVars
    BY <2>5 DEF entryRemoved, afVars, afCall
  <2> QED BY <2>1, <2>2, <2>3, <2>4, <2>5 DEF AtomicNext
<1> QED BY <1>1, <1>2, PTL DEF AtomicSpec

---------------------------------------------------------------------------
\* Backups: a bulk removal keeps a copy

BackupJobs == [step : Steps, op : {"auto", "remove", "purge", "groom"}, victims : SUBSET Ids,
         holds : SUBSET Ids, list : SUBSET Names, name : Names]

(* The archives that pruning never touches.                                *)
KeptZips == {n \in DOMAIN zips : n.kind = "instructions" /\ zips[n] # Torn}
InBackup(i) == \E n \in KeptZips : i \in zips[n]
Safe(i)     == InBackup(i) \/ i \in clobbered

(* The strengthening: a backup that precedes a deletion has a name of its  *)
(* kind, pruning lists no such name, and who deletes for index_remove has  *)
(* everything it read in an archive, unless that was overwritten.          *)
BulkInv ==
  /\ backup \in [Savers -> BackupJobs]
  /\ inDir \subseteq Ids /\ removedInBulk \subseteq Ids /\ DOMAIN zips \subseteq Names
  /\ \A i \in removedInBulk : Safe(i) \/ i \in late
  /\ \A p \in Savers :
       /\ backup[p].step \in {"read", "write"} => backup[p].name.kind = Kind(backup[p].op)
       /\ backup[p].step = "prune" => \A n \in backup[p].list : n.kind = "auto"
       /\ backup[p].step = "delete" /\ backup[p].op = "remove"
            => \A i \in backup[p].holds : Safe(i)

LEMMA NoBackupIsJob == NoBackup \in BackupJobs
  BY BackupAssumption DEF NoBackup, BackupJobs, Steps, Names

LEMMA BulkInit == BkInit => BulkInv
  BY NoBackupIsJob DEF BkInit, BulkInv, NoBackup

LEMMA BulkImplies == BulkInv => BulkRemoveKeepsACopy
  BY DEF BulkInv, BulkRemoveKeepsACopy, Copies, Safe, InBackup, KeptZips

(* What a step of one process does to the jobs of all.                     *)
LEMMA JobReplaced ==
  ASSUME BulkInv, NEW p \in Savers, NEW job \in BackupJobs, backup' = [backup EXCEPT ![p] = job],
         inDir' \subseteq Ids, removedInBulk' \subseteq Ids, DOMAIN zips' \subseteq Names,
         \A i \in Ids : Safe(i) => Safe(i)',
         \A i \in removedInBulk' : i \in removedInBulk \/ Safe(i)' \/ i \in late',
         late \subseteq late',
         job.step \in {"read", "write"} => job.name.kind = Kind(job.op),
         job.step = "prune" => \A n \in job.list : n.kind = "auto",
         job.step = "delete" /\ job.op = "remove" => \A i \in job.holds : Safe(i)'
  PROVE  BulkInv'
<1>1. backup' \in [Savers -> BackupJobs] /\ \A q \in Savers : backup'[q] = IF q = p THEN job ELSE backup[q]
  BY DEF BulkInv
<1>2. \A q \in Savers : backup[q].holds \subseteq Ids
  BY DEF BulkInv, BackupJobs
<1>3. \A i \in removedInBulk' : Safe(i)' \/ i \in late'
  BY DEF BulkInv
<1>4. ASSUME NEW q \in Savers
      PROVE  /\ backup'[q].step \in {"read", "write"}
                  => backup'[q].name.kind = Kind(backup'[q].op)
             /\ backup'[q].step = "prune" => \A n \in backup'[q].list : n.kind = "auto"
             /\ backup'[q].step = "delete" /\ backup'[q].op = "remove"
                  => \A i \in backup'[q].holds : Safe(i)'
  BY <1>1, <1>2 DEF BulkInv
<1>5. \A o : Kind(o)' = Kind(o)
  BY DEF Kind
<1> QED BY <1>1, <1>3, <1>4, <1>5 DEF BulkInv

LEMMA BulkStarts ==
  ASSUME BulkInv, NEW p \in Savers, NEW o \in Serving, NEW V \in SUBSET Ids,
         startBackup(p, o, V)
  PROVE  BulkInv'
<1>1. PICK n \in Names :
        /\ IsFreeName(n, Kind(o))
        /\ backup' = [backup EXCEPT ![p] = [NoBackup EXCEPT !.step = "read", !.op = o,
                                                            !.victims = V, !.name = n]]
  BY DEF startBackup
<1> DEFINE job == [NoBackup EXCEPT !.step = "read", !.op = o, !.victims = V, !.name = n]
<1>2. /\ job \in BackupJobs /\ job.step = "read" /\ job.op = o /\ job.name = n
  BY NoBackupIsJob, BackupAssumption DEF BackupJobs, Steps
<1>3. job.name.kind = Kind(job.op)
  BY <1>1, <1>2 DEF IsFreeName
<1>4. UNCHANGED <<inDir, zips, removedInBulk, clobbered, late>>
  BY DEF startBackup, bkHist
<1>5. \A i \in Ids : Safe(i) => Safe(i)'
  BY <1>4 DEF Safe, InBackup, KeptZips
<1> HIDE DEF job
<1>6. backup' = [backup EXCEPT ![p] = job]
  BY <1>1 DEF job
<1> QED BY <1>2, <1>3, <1>4, <1>5, <1>6, JobReplaced DEF BulkInv

LEMMA BulkReads ==
  ASSUME BulkInv, NEW p \in Savers, readFiles(p)
  PROVE  BulkInv'
<1> DEFINE job == [backup[p] EXCEPT !.step = "write", !.holds = inDir]
<1>1. /\ job \in BackupJobs /\ job.step = "write" /\ job.op = backup[p].op
      /\ job.name = backup[p].name
  BY DEF BulkInv, BackupJobs, Steps
<1>2. backup' = [backup EXCEPT ![p] = job]
  BY DEF readFiles, BulkInv
<1>3. UNCHANGED <<inDir, zips, removedInBulk, clobbered, late>>
  BY DEF readFiles, bkHist
<1>4. \A i \in Ids : Safe(i) => Safe(i)'
  BY <1>3 DEF Safe, InBackup, KeptZips
<1>5. job.name.kind = Kind(job.op)
  BY <1>1 DEF readFiles, BulkInv
<1> HIDE DEF job
<1> QED BY <1>1, <1>2, <1>3, <1>4, <1>5, JobReplaced DEF BulkInv

(* An archive written, whole or torn, loses no copy that is not accounted  *)
(* for.                                                                    *)
LEMMA StoredSafe ==
  ASSUME NEW n, NEW content, zips' = Stored(n, content), clobbered' = Overwritten(n)
  PROVE  \A i : Safe(i) => Safe(i)'
<1> SUFFICES ASSUME NEW i, Safe(i) PROVE Safe(i)'
  OBVIOUS
<1>1. clobbered \subseteq clobbered'
  BY DEF Overwritten
<1>2. CASE i \in clobbered
  BY <1>1, <1>2 DEF Safe
<1>3. ASSUME NEW m \in KeptZips, i \in zips[m]
      PROVE  Safe(i)'
  <2>1. CASE m = n
    BY <1>3, <2>1 DEF Overwritten, KeptZips, Safe
  <2>2. CASE m # n
    <3>1. m \in KeptZips' /\ zips'[m] = zips[m]
      BY <1>3, <2>2 DEF Stored, KeptZips
    <3> QED BY <1>3, <3>1 DEF Safe, InBackup
  <2> QED BY <2>1, <2>2
<1> QED BY <1>2, <1>3 DEF Safe, InBackup

LEMMA BulkWrites ==
  ASSUME BulkInv, NEW p \in Savers, createZipBackup(p)
  PROVE  BulkInv'
<1> DEFINE n == backup[p].name
<1> DEFINE job == IF backup[p].op = "auto"
                  THEN [backup[p] EXCEPT !.step = "prune", !.list = Autos \cup {n}]
                  ELSE [backup[p] EXCEPT !.step = "delete"]
<1>1. /\ n \in Names /\ n.kind = Kind(backup[p].op) /\ backup[p] \in BackupJobs
      /\ backup[p].holds \subseteq Ids
  BY DEF createZipBackup, BulkInv, BackupJobs
<1>2. /\ zips' = Stored(n, backup[p].holds) /\ clobbered' = Overwritten(n)
      /\ UNCHANGED <<inDir, removedInBulk, late>>
  BY DEF createZipBackup
<1>3. backup' = [backup EXCEPT ![p] = job]
  BY DEF createZipBackup, BulkInv
<1>4. \A i \in Ids : Safe(i) => Safe(i)'
  BY <1>2, StoredSafe
<1>5. Autos \subseteq Names /\ DOMAIN zips' \subseteq Names
  BY <1>1, <1>2 DEF Autos, Stored, BulkInv
<1>6. job \in BackupJobs /\ job.holds = backup[p].holds /\ job.op = backup[p].op
  BY <1>1, <1>5 DEF BackupJobs, Steps
<1>7. /\ job.step = IF backup[p].op = "auto" THEN "prune" ELSE "delete"
      /\ backup[p].op = "auto" => job.list = Autos \cup {n}
  BY <1>1 DEF BackupJobs
<1>8. job.step = "prune" => \A m \in job.list : m.kind = "auto"
  BY <1>1, <1>7 DEF Autos, Kind
<1>9. job.step = "delete" /\ job.op = "remove" => \A i \in job.holds : Safe(i)'
  <2> SUFFICES ASSUME job.step = "delete", NEW i \in job.holds PROVE Safe(i)'
    OBVIOUS
  <2>1. n.kind = "instructions"
    BY <1>1, <1>7 DEF Kind
  <2>2. n \in DOMAIN zips' /\ zips'[n] = backup[p].holds /\ backup[p].holds # Torn
    BY <1>1, <1>2, BackupAssumption DEF Stored
  <2>3. n \in KeptZips'
    BY <2>1, <2>2 DEF KeptZips
  <2> QED BY <1>6, <2>2, <2>3 DEF Safe, InBackup
<1> HIDE DEF job, n
<1> QED
  BY <1>2, <1>3, <1>4, <1>5, <1>6, <1>7, <1>8, <1>9, JobReplaced DEF BulkInv

LEMMA BulkFails ==
  ASSUME BulkInv, NEW p \in Savers, backupFails(p)
  PROVE  BulkInv'
<1> DEFINE job == IF backup[p].op = "groom" THEN [backup[p] EXCEPT !.step = "delete"]
                                            ELSE NoBackup
<1>1. job \in BackupJobs
  BY NoBackupIsJob DEF BulkInv, BackupJobs, Steps
<1>2. backup' = [backup EXCEPT ![p] = job]
  BY DEF backupFails, BulkInv
<1>3. UNCHANGED <<inDir, zips, removedInBulk, clobbered, late>>
  BY DEF backupFails, bkHist
<1>4. \A i \in Ids : Safe(i) => Safe(i)'
  BY <1>3 DEF Safe, InBackup, KeptZips
<1>5. job.step \in {"idle", "delete"} /\ (job.step = "delete" => job.op = "groom")
  BY DEF NoBackup, BulkInv, BackupJobs
<1> HIDE DEF job
<1> QED BY <1>1, <1>2, <1>3, <1>4, <1>5, JobReplaced DEF BulkInv

LEMMA BulkDies ==
  ASSUME BulkInv, NEW p \in Savers, saverDies(p)
  PROVE  BulkInv'
<1>1. \A i \in Ids : Safe(i) => Safe(i)'
  <2>1. CASE UNCHANGED <<zips, clobbered>>
    BY <2>1 DEF Safe, InBackup, KeptZips
  <2>2. CASE /\ zips' = Stored(backup[p].name, Torn)
             /\ clobbered' = Overwritten(backup[p].name)
    BY <2>2, StoredSafe
  <2> QED BY <2>1, <2>2 DEF saverDies
<1>2. DOMAIN zips' \subseteq Names
  BY DEF saverDies, BulkInv, BackupJobs, Stored
<1>3. NoBackup \in BackupJobs /\ NoBackup.step = "idle"
  BY NoBackupIsJob DEF NoBackup
<1> HIDE DEF NoBackup
<1> QED BY <1>1, <1>2, <1>3, JobReplaced DEF saverDies, BulkInv

LEMMA BulkDeletes ==
  ASSUME BulkInv, NEW p \in Savers, NEW i \in Ids, deleteNext(p, i)
  PROVE  BulkInv'
<1> DEFINE job == IF backup[p].victims = {i} THEN NoBackup
                  ELSE [backup[p] EXCEPT !.victims = @ \ {i}]
<1>1. job \in BackupJobs
  BY NoBackupIsJob DEF BulkInv, BackupJobs
<1>2. backup' = [backup EXCEPT ![p] = job]
  BY DEF deleteNext, BulkInv
<1>3. UNCHANGED <<zips, clobbered>>
  BY DEF deleteNext
<1>4. \A j \in Ids : Safe(j) <=> Safe(j)'
  BY <1>3 DEF Safe, InBackup, KeptZips
<1>5. \/ job.step = "idle"
      \/ job.step = "delete" /\ job.op = backup[p].op /\ job.holds = backup[p].holds
  BY DEF NoBackup, BulkInv, BackupJobs, deleteNext
<1>6. backup[p].step = "delete" /\ backup[p].holds \subseteq Ids
  BY DEF deleteNext, BulkInv, BackupJobs
<1>7. backup[p].op = "remove" => \A j \in backup[p].holds : Safe(j)'
  BY <1>4, <1>6 DEF BulkInv
<1>8. /\ inDir' \subseteq Ids /\ removedInBulk' \subseteq Ids /\ late \subseteq late'
      /\ \A j \in removedInBulk' : j \in removedInBulk \/ Safe(j)' \/ j \in late'
  <2>1. CASE backup[p].op = "remove"
    BY <1>7, <2>1 DEF deleteNext, BulkInv
  <2>2. CASE backup[p].op # "remove"
    BY <2>2 DEF deleteNext, BulkInv
  <2> QED BY <2>1, <2>2
<1> HIDE DEF job
<1> QED
  BY <1>1, <1>2, <1>3, <1>4, <1>5, <1>7, <1>8, JobReplaced DEF BulkInv

LEMMA BulkPrunes ==
  ASSUME BulkInv, NEW p \in Savers, pruneOldBackups(p)
  PROVE  BulkInv'
<1>1. /\ backup[p].step = "prune" /\ UNCHANGED <<inDir, removedInBulk, clobbered, late>>
      /\ backup[p] \in BackupJobs /\ backup[p].list \subseteq Names
  BY DEF pruneOldBackups, bkHist, BulkInv, BackupJobs
<1>2. NoBackup \in BackupJobs /\ NoBackup.step = "idle"
  BY NoBackupIsJob DEF NoBackup
<1> HIDE DEF NoBackup
<1>3. CASE PruneEnds(p)
  <2>1. \A i \in Ids : Safe(i) => Safe(i)'
    BY <1>1, <1>3 DEF PruneEnds, Safe, InBackup, KeptZips
  <2> QED BY <1>1, <1>2, <1>3, <2>1, JobReplaced DEF PruneEnds, BulkInv
<1>4. ASSUME NEW n \in backup[p].list, PruneFile(p, n)
      PROVE  BulkInv'
  <2>1. n.kind = "auto" /\ zips' = Without(n)
    BY <1>1, <1>4 DEF PruneFile, BulkInv
  <2>2. \A m \in KeptZips : m \in KeptZips' /\ zips'[m] = zips[m]
    BY <2>1 DEF KeptZips, Without
  <2>3. \A i \in Ids : Safe(i) => Safe(i)'
    BY <1>1, <2>2 DEF Safe, InBackup
  <2>4. DOMAIN zips' \subseteq Names
    BY <2>1 DEF Without, BulkInv
  <2> DEFINE job == IF n \in DOMAIN zips THEN [backup[p] EXCEPT !.list = @ \ {n}]
                                         ELSE NoBackup
  <2>5. job \in BackupJobs
    BY <1>1, <1>2 DEF BackupJobs
  <2>6. backup' = [backup EXCEPT ![p] = job]
    BY <1>4 DEF PruneFile, BulkInv
  <2>7. \/ job.step = "idle"
        \/ job.step = "prune" /\ job.list \subseteq backup[p].list
    BY <1>1, <1>2 DEF BackupJobs
  <2>8. job.step = "prune" => \A m \in job.list : m.kind = "auto"
    BY <1>1, <2>7 DEF BulkInv
  <2> HIDE DEF job
  <2> QED BY <1>1, <2>3, <2>4, <2>5, <2>6, <2>7, <2>8, JobReplaced DEF BulkInv
<1> QED BY <1>3, <1>4 DEF pruneOldBackups

LEMMA BulkStep ==
  ASSUME BulkInv, [BkNext]_bkVars
  PROVE  BulkInv'
<1>1. CASE /\ UNCHANGED <<zips, backup, removedInBulk, clobbered, late>>
           /\ inDir' \subseteq Ids
  <2>1. \A i : Safe(i) <=> Safe(i)'
    BY <1>1 DEF Safe, InBackup, KeptZips
  <2> QED BY <1>1, <2>1 DEF BulkInv, Kind
<1>2. ASSUME NEW i \in Ids, addInstruction(i) \/ archiveInstruction(i)
      PROVE  BulkInv'
  BY <1>1, <1>2 DEF addInstruction, archiveInstruction, bkHist, BulkInv
<1>3. CASE minutePasses \/ UNCHANGED bkVars
  BY <1>1, <1>3 DEF minutePasses, bkVars, bkHist, BulkInv
<1> QED
  BY <1>2, <1>3, BulkStarts, BulkReads, BulkWrites, BulkFails, BulkDies, BulkDeletes,
     BulkPrunes DEF BkNext

(* An instruction removed in bulk is in a backup, but for the two ways     *)
(* that BulkRemoveKeepsACopy names: for any number of processes, ids,      *)
(* backups and failures.                                                   *)
THEOREM BulkRemoveIsBackedUp == BkSpec => []BulkRemoveKeepsACopy
<1>1. BulkInv /\ [BkNext]_bkVars => BulkInv'
  BY BulkStep
<1> QED BY <1>1, BulkInit, BulkImplies, PTL DEF BkSpec

---------------------------------------------------------------------------
\* Backups: typing

(* What the types of the backups say besides BulkInv.                      *)
BackupsTyped ==
  /\ inArchive \subseteq Ids
  /\ \A n \in DOMAIN zips : zips[n] = Torn \/ zips[n] \subseteq Ids
  /\ minute \in 0 .. MaxMinutes /\ jobs \in 0 .. MaxJobs /\ failures \in 0 .. MaxFailures
  /\ \A p \in Savers : backup[p].op \in Serving \cup {"auto"}

HoldsTyped(z) == \A n \in DOMAIN z : z[n] = Torn \/ z[n] \subseteq Ids

LEMMA ZipStoredTyped ==
  ASSUME BackupsTyped, NEW n, NEW content \in (SUBSET Ids) \cup {Torn},
         zips' = Stored(n, content)
  PROVE  HoldsTyped(zips')
<1>1. /\ DOMAIN zips' = DOMAIN zips \cup {n}
      /\ \A m \in DOMAIN zips' : zips'[m] = IF m = n THEN content ELSE zips[m]
  BY DEF Stored
<1>2. ASSUME NEW m \in DOMAIN zips'
      PROVE  zips'[m] = Torn \/ zips'[m] \subseteq Ids
  BY <1>1 DEF BackupsTyped
<1> QED BY <1>2 DEF HoldsTyped

(* Which operation a process is at.                                        *)
LEMMA OpTyped ==
  ASSUME BulkInv, BackupsTyped, NEW p \in Savers, NEW job, job.op \in Serving \cup {"auto"},
         backup' = [backup EXCEPT ![p] = job]
  PROVE  \A q \in Savers : backup'[q].op \in Serving \cup {"auto"}
<1>1. \A q \in Savers : backup'[q] = IF q = p THEN job ELSE backup[q]
  BY DEF BulkInv
<1> QED BY <1>1 DEF BackupsTyped

LEMMA BackupsTypeStep ==
  ASSUME BulkInv, BackupsTyped, [BkNext]_bkVars
  PROVE  BackupsTyped'
<1>0. /\ MaxMinutes \in Nat /\ MaxJobs \in Nat /\ MaxFailures \in Nat
      /\ minute \in 0 .. MaxMinutes /\ jobs \in 0 .. MaxJobs /\ failures \in 0 .. MaxFailures
      /\ NoBackup.op = "auto"
  BY BackupAssumption DEF BackupAssumption, BackupsTyped, NoBackup
<1>a. ASSUME NEW p \in Savers
      PROVE  backup[p] \in BackupJobs /\ backup[p].op \in Serving \cup {"auto"}
  BY DEF BulkInv, BackupsTyped
<1>1. ASSUME NEW i \in Ids, addInstruction(i) \/ archiveInstruction(i)
      PROVE  BackupsTyped'
  BY <1>1 DEF addInstruction, archiveInstruction, BackupsTyped
<1>2. CASE minutePasses \/ UNCHANGED bkVars
  BY <1>0, <1>2 DEF minutePasses, bkVars, BackupsTyped
<1>3. ASSUME NEW p \in Savers, NEW o \in Serving, NEW V \in SUBSET Ids, startBackup(p, o, V)
      PROVE  BackupsTyped'
  <2>1. jobs' \in 0 .. MaxJobs
    BY <1>0, <1>3 DEF startBackup
  <2>2. \E job : job.op = o /\ backup' = [backup EXCEPT ![p] = job]
    BY <1>3 DEF startBackup, NoBackup
  <2>3. \A q \in Savers : backup'[q].op \in Serving \cup {"auto"}
    BY <2>2, OpTyped
  <2> QED BY <1>3, <2>1, <2>3 DEF startBackup, BackupsTyped
<1>4. ASSUME NEW p \in Savers, readFiles(p)
      PROVE  BackupsTyped'
  <2>1. [backup[p] EXCEPT !.step = "write", !.holds = inDir].op = backup[p].op
    BY <1>a DEF BackupJobs
  <2>2. backup' = [backup EXCEPT ![p] = [backup[p] EXCEPT !.step = "write", !.holds = inDir]]
    BY <1>4 DEF readFiles
  <2>3. \A q \in Savers : backup'[q].op \in Serving \cup {"auto"}
    BY <1>a, <2>1, <2>2, OpTyped
  <2> QED BY <1>4, <2>3 DEF readFiles, BackupsTyped
<1>5. ASSUME NEW p \in Savers, createZipBackup(p)
      PROVE  BackupsTyped'
  <2> DEFINE pru == [backup[p] EXCEPT !.step = "prune", !.list = Autos \cup {backup[p].name}]
             del == [backup[p] EXCEPT !.step = "delete"]
  <2>1. pru.op = backup[p].op /\ del.op = backup[p].op
    BY <1>a DEF BackupJobs
  <2>2. backup' = [backup EXCEPT ![p] = pru] \/ backup' = [backup EXCEPT ![p] = del]
    BY <1>5 DEF createZipBackup
  <2> HIDE DEF pru, del
  <2>3. \A q \in Savers : backup'[q].op \in Serving \cup {"auto"}
    BY <1>a, <2>1, <2>2, OpTyped
  <2>4. backup[p].holds \in (SUBSET Ids) \cup {Torn}
    BY <1>a DEF BackupJobs
  <2>5. zips' = Stored(backup[p].name, backup[p].holds)
    BY <1>5 DEF createZipBackup
  <2>6. HoldsTyped(zips')
    BY <2>4, <2>5, ZipStoredTyped
  <2> QED BY <1>5, <2>3, <2>6 DEF createZipBackup, BackupsTyped, HoldsTyped
<1>6. ASSUME NEW p \in Savers, backupFails(p)
      PROVE  BackupsTyped'
  <2>1. [backup[p] EXCEPT !.step = "delete"].op = backup[p].op
    BY <1>a DEF BackupJobs
  <2>2. \/ backup' = [backup EXCEPT ![p] = [backup[p] EXCEPT !.step = "delete"]]
        \/ backup' = [backup EXCEPT ![p] = NoBackup]
    BY <1>6 DEF backupFails
  <2>3. \A q \in Savers : backup'[q].op \in Serving \cup {"auto"}
    BY <1>0, <1>a, <2>1, <2>2, OpTyped
  <2> QED BY <1>0, <1>6, <2>3 DEF backupFails, BackupsTyped
<1>7. ASSUME NEW p \in Savers, saverDies(p)
      PROVE  BackupsTyped'
  <2>1. \A q \in Savers : backup'[q].op \in Serving \cup {"auto"}
    BY <1>0, <1>7, OpTyped DEF saverDies
  <2>2. HoldsTyped(zips')
    <3>1. CASE zips' = Stored(backup[p].name, Torn)
      BY <3>1, ZipStoredTyped
    <3>2. CASE UNCHANGED zips
      BY <3>2 DEF BackupsTyped, HoldsTyped
    <3> QED BY <1>7, <3>1, <3>2 DEF saverDies
  <2> QED BY <1>0, <1>7, <2>1, <2>2 DEF saverDies, BackupsTyped, HoldsTyped
<1>8. ASSUME NEW p \in Savers, NEW i \in Ids, deleteNext(p, i)
      PROVE  BackupsTyped'
  <2>1. [backup[p] EXCEPT !.victims = @ \ {i}].op = backup[p].op
    BY <1>a DEF BackupJobs
  <2>2. \/ backup' = [backup EXCEPT ![p] = [backup[p] EXCEPT !.victims = @ \ {i}]]
        \/ backup' = [backup EXCEPT ![p] = NoBackup]
    BY <1>8 DEF deleteNext
  <2>3. \A q \in Savers : backup'[q].op \in Serving \cup {"auto"}
    BY <1>0, <1>a, <2>1, <2>2, OpTyped
  <2> QED BY <1>8, <2>3 DEF deleteNext, BackupsTyped
<1>9. ASSUME NEW p \in Savers, pruneOldBackups(p)
      PROVE  BackupsTyped'
  <2>1. CASE PruneEnds(p)
    <3>1. \A q \in Savers : backup'[q].op \in Serving \cup {"auto"}
      BY <1>0, <2>1, OpTyped DEF PruneEnds
    <3> QED BY <1>9, <2>1, <3>1 DEF pruneOldBackups, PruneEnds, BackupsTyped
  <2>2. ASSUME NEW n, PruneFile(p, n)
        PROVE  BackupsTyped'
    <3>1. [backup[p] EXCEPT !.list = @ \ {n}].op = backup[p].op
      BY <1>a DEF BackupJobs
    <3>2. \/ backup' = [backup EXCEPT ![p] = [backup[p] EXCEPT !.list = @ \ {n}]]
          \/ backup' = [backup EXCEPT ![p] = NoBackup]
      BY <2>2 DEF PruneFile
    <3>3. \A q \in Savers : backup'[q].op \in Serving \cup {"auto"}
      BY <1>0, <1>a, <3>1, <3>2, OpTyped
    <3> QED BY <1>9, <2>2, <3>3 DEF pruneOldBackups, PruneFile, Without, BackupsTyped
  <2> QED BY <1>9, <2>1, <2>2 DEF pruneOldBackups
<1> QED
  BY <1>1, <1>2, <1>3, <1>4, <1>5, <1>6, <1>7, <1>8, <1>9 DEF BkNext

(* Every variable of the backups has its type.                             *)
THEOREM BackupsTypeCorrect == BkSpec => []BkTypeOK
<1>1. BkInit => BulkInv /\ BackupsTyped
  BY BulkInit, BackupAssumption DEF BackupAssumption, BkInit, BackupsTyped, NoBackup
<1>2. BulkInv /\ BackupsTyped /\ [BkNext]_bkVars => (BulkInv /\ BackupsTyped)'
  BY BulkStep, BackupsTypeStep
<1>3. BulkInv /\ BackupsTyped => BkTypeOK
  BY DEF BulkInv, BackupsTyped, BkTypeOK, BackupJobs
<1> QED BY <1>1, <1>2, <1>3, PTL DEF BkSpec

---------------------------------------------------------------------------
\* Backups: pruning leaves MaxCount

Newer(x, S) == {m \in S : Before(x, m)}
Many(S) == Cardinality(S) >= MaxCount

(* Among A, whatever has MaxCount newer ones in L still has them.          *)
Spared(L, A) == \A x \in L : Many(Newer(x, L)) => Many(Newer(x, A))

(* The strengthening: who prunes listed names that, if enough newer ones   *)
(* were listed, still have enough newer automatic backups: what another    *)
(* process removed meanwhile was older.                                    *)
PruneInv ==
  /\ IsFiniteSet(DOMAIN zips)
  /\ \A p \in Savers : backup[p].step = "prune" =>
       IsFiniteSet(backup[p].list) /\ Spared(backup[p].list, Autos)

LEMMA BeforeIsOrder ==
  /\ \A m \in Names : ~Before(m, m)
  /\ \A l, m, n \in Names : Before(l, m) /\ Before(m, n) => Before(l, n)
  BY BackupAssumption DEF Before, Names, BackupAssumption

LEMMA ManyGrows ==
  ASSUME NEW B, IsFiniteSet(B), NEW A \in SUBSET B, Many(A)
  PROVE  Many(B)
<1>1. IsFiniteSet(A) /\ Cardinality(A) <= Cardinality(B)
  BY FS_Subset
<1>2. Cardinality(A) \in Nat /\ Cardinality(B) \in Nat
  BY <1>1, FS_CardinalityType
<1> QED BY <1>1, <1>2, BackupAssumption DEF Many, BackupAssumption

LEMMA SparedGrows ==
  ASSUME NEW L, NEW B, IsFiniteSet(B), NEW A \in SUBSET B, Spared(L, A)
  PROVE  Spared(L, B)
<1> SUFFICES ASSUME NEW x \in L, Many(Newer(x, L)) PROVE Many(Newer(x, B))
  BY DEF Spared
<1>1. Newer(x, A) \subseteq Newer(x, B) /\ Newer(x, B) \subseteq B
  BY DEF Newer
<1>2. IsFiniteSet(Newer(x, B)) /\ Many(Newer(x, A))
  BY <1>1, FS_Subset DEF Spared
<1> QED BY <1>1, <1>2, ManyGrows

(* What is removed is the oldest of a list of more than MaxCount.          *)
LEMMA OldestHasNewer ==
  ASSUME NEW L \in SUBSET Names, IsFiniteSet(L), Cardinality(L) > MaxCount, NEW n \in L,
         IsOldest(n, L)
  PROVE  Many(Newer(n, L))
<1>1. Newer(n, L) = L \ {n}
  BY BeforeIsOrder DEF Newer, IsOldest
<1>2. Cardinality(L \ {n}) = Cardinality(L) - 1 /\ Cardinality(L) \in Nat
  BY FS_RemoveElement, FS_CardinalityType
<1> QED BY <1>1, <1>2, BackupAssumption DEF Many, BackupAssumption

(* Removing it spares what was newer in any other list, and its own.       *)
LEMMA SparedByOthers ==
  ASSUME NEW A \in SUBSET Names, IsFiniteSet(A), NEW n \in Names, Many(Newer(n, A)),
         NEW L \in SUBSET Names, Spared(L, A)
  PROVE  Spared(L, A \ {n})
<1> SUFFICES ASSUME NEW x \in L, Many(Newer(x, L)) PROVE Many(Newer(x, A \ {n}))
  BY DEF Spared
<1>1. IsFiniteSet(Newer(x, A \ {n}))
  BY FS_Subset DEF Newer
<1>2. CASE Before(x, n)
  <2>1. Newer(n, A) \subseteq Newer(x, A \ {n})
    BY <1>2, BeforeIsOrder DEF Newer
  <2> QED BY <1>1, <2>1, ManyGrows
<1>3. CASE ~Before(x, n)
  <2>1. Newer(x, A) = Newer(x, A \ {n})
    BY <1>3 DEF Newer
  <2> QED BY <2>1 DEF Spared
<1> QED BY <1>2, <1>3

LEMMA SparedByOwn ==
  ASSUME NEW A \in SUBSET Names, NEW L \in SUBSET Names, Spared(L, A), NEW n \in L,
         IsOldest(n, L)
  PROVE  Spared(L \ {n}, A \ {n})
<1> SUFFICES ASSUME NEW x \in L \ {n}, Many(Newer(x, L \ {n})) PROVE Many(Newer(x, A \ {n}))
  BY DEF Spared
<1>1. ~Before(x, n)
  BY BeforeIsOrder DEF IsOldest
<1>2. Newer(x, L) = Newer(x, L \ {n}) /\ Newer(x, A) = Newer(x, A \ {n})
  BY <1>1 DEF Newer
<1> QED BY <1>2 DEF Spared

(* The rest of NeverBelowMax: the removed one had enough newer ones.       *)
LEMMA EnoughLeft ==
  ASSUME NEW A \in SUBSET Names, IsFiniteSet(A), NEW n \in Names, Many(Newer(n, A))
  PROVE  Cardinality(A \ {n}) >= MaxCount
<1>1. Newer(n, A) \subseteq A \ {n} /\ IsFiniteSet(A \ {n})
  BY BeforeIsOrder, FS_Subset DEF Newer
<1> QED BY <1>1, ManyGrows DEF Many

LEMMA AutosFinite ==
  ASSUME BulkInv, PruneInv
  PROVE  Autos \subseteq Names /\ IsFiniteSet(Autos)
  BY FS_Subset DEF BulkInv, PruneInv, Autos

LEMMA PruneInit == BkInit => PruneInv
  BY FS_EmptySet DEF BkInit, PruneInv, NoBackup

KeepStep == PruneInv' /\ (~(Autos \subseteq Autos') => Cardinality(Autos') >= MaxCount)

(* A step that adds archives at most, and starts pruning what there is.    *)
LEMMA ArchivesGrow ==
  ASSUME BulkInv, PruneInv, Autos \subseteq Autos', IsFiniteSet(DOMAIN zips'),
         \A p \in Savers : backup'[p].step = "prune" =>
           \/ backup[p].step = "prune" /\ backup'[p].list = backup[p].list
           \/ backup'[p].list \subseteq Autos'
  PROVE  KeepStep
<1>1. IsFiniteSet(Autos')
  BY FS_Subset DEF Autos
<1>2. ASSUME NEW p \in Savers, backup'[p].step = "prune"
      PROVE  IsFiniteSet(backup'[p].list) /\ Spared(backup'[p].list, Autos')
  <2>1. CASE backup[p].step = "prune" /\ backup'[p].list = backup[p].list
    BY <1>1, <2>1, SparedGrows DEF PruneInv
  <2>2. CASE backup'[p].list \subseteq Autos'
    <3>1. IsFiniteSet(backup'[p].list)
      BY <1>1, <2>2, FS_Subset
    <3>2. Spared(backup'[p].list, backup'[p].list)
      BY DEF Spared
    <3> QED BY <1>1, <2>2, <3>1, <3>2, SparedGrows
  <2> QED BY <1>2, <2>1, <2>2
<1> QED BY <1>2 DEF KeepStep, PruneInv, Spared, Newer, Many, Before

(* A job that is not pruning, and archives that only grow.                 *)
LEMMA OtherJob ==
  ASSUME BulkInv, PruneInv, NEW p \in Savers, NEW job, job.step # "prune",
         backup' = [backup EXCEPT ![p] = job],
         Autos \subseteq Autos', IsFiniteSet(DOMAIN zips')
  PROVE  KeepStep
<1>1. \A q \in Savers : backup'[q] = IF q = p THEN job ELSE backup[q]
  BY DEF BulkInv
<1> QED BY <1>1, ArchivesGrow

LEMMA StoredGrows ==
  ASSUME PruneInv, NEW n, NEW content, zips' = Stored(n, content)
  PROVE  /\ IsFiniteSet(DOMAIN zips') /\ Autos \subseteq Autos'
         /\ n.kind = "auto" => Autos' = Autos \cup {n}
<1>1. DOMAIN zips' = DOMAIN zips \cup {n}
  BY DEF Stored
<1> QED BY <1>1, FS_AddElement DEF PruneInv, Autos

LEMMA PruningStarts ==
  ASSUME BulkInv, PruneInv, NEW p \in Savers, createZipBackup(p)
  PROVE  KeepStep
<1> DEFINE n == backup[p].name
<1>1. n.kind = Kind(backup[p].op) /\ backup[p] \in BackupJobs /\ zips' = Stored(n, backup[p].holds)
  BY DEF createZipBackup, BulkInv
<1> DEFINE del == [backup[p] EXCEPT !.step = "delete"]
           pru == [backup[p] EXCEPT !.step = "prune", !.list = Autos \cup {n}]
<1>2. del.step = "delete" /\ pru.list = Autos \cup {n}
  BY <1>1 DEF BackupJobs
<1>3. CASE backup[p].op # "auto"
  <2>1. backup' = [backup EXCEPT ![p] = del]
    BY <1>3 DEF createZipBackup, BulkInv
  <2> HIDE DEF del, pru, n
  <2> QED BY <1>1, <1>2, <2>1, StoredGrows, OtherJob
<1>4. CASE backup[p].op = "auto"
  <2>1. backup' = [backup EXCEPT ![p] = pru]
    BY <1>4 DEF createZipBackup, BulkInv
  <2>2. n.kind = "auto"
    BY <1>1, <1>4 DEF Kind
  <2> HIDE DEF del, pru, n
  <2>3. IsFiniteSet(DOMAIN zips') /\ Autos' = Autos \cup {n}
    BY <1>1, <2>2, StoredGrows
  <2>4. \A q \in Savers : backup'[q] = IF q = p THEN pru ELSE backup[q]
    BY <2>1 DEF BulkInv
  <2> QED BY <1>2, <2>3, <2>4, ArchivesGrow
<1> QED BY <1>3, <1>4

LEMMA SaverGone ==
  ASSUME BulkInv, PruneInv, NEW p \in Savers, saverDies(p)
  PROVE  KeepStep
<1>1. NoBackup.step # "prune" /\ backup' = [backup EXCEPT ![p] = NoBackup]
  BY DEF saverDies, NoBackup
<1>2. IsFiniteSet(DOMAIN zips') /\ Autos \subseteq Autos'
  <2>1. CASE zips' = Stored(backup[p].name, Torn)
    BY <2>1, StoredGrows
  <2>2. CASE UNCHANGED zips
    BY <2>2 DEF PruneInv, Autos
  <2> QED BY <2>1, <2>2 DEF saverDies
<1> HIDE DEF NoBackup
<1> QED BY <1>1, <1>2, OtherJob

LEMMA OtherBackupSteps ==
  ASSUME BulkInv, PruneInv, NEW p \in Savers,
         \/ \E o \in Serving, V \in SUBSET Ids : startBackup(p, o, V)
         \/ readFiles(p) \/ backupFails(p)
         \/ \E i \in Ids : deleteNext(p, i)
  PROVE  KeepStep
<1> DEFINE OneStops == \E job : job.step # "prune" /\ backup' = [backup EXCEPT ![p] = job]
<1>1. OneStops
  <2> USE DEF BulkInv, BackupJobs
  <2>1. ASSUME NEW o \in Serving, NEW V \in SUBSET Ids, startBackup(p, o, V)
        PROVE  OneStops
    BY <2>1 DEF startBackup, NoBackup
  <2>2. CASE readFiles(p)
    <3>1. backup' = [backup EXCEPT ![p] = [backup[p] EXCEPT !.step = "write", !.holds = inDir]]
      BY <2>2 DEF readFiles
    <3> QED BY <3>1
  <2>3. CASE backupFails(p)
    <3>1. \/ backup' = [backup EXCEPT ![p] = [backup[p] EXCEPT !.step = "delete"]]
          \/ backup' = [backup EXCEPT ![p] = NoBackup]
      BY <2>3 DEF backupFails
    <3> QED BY <3>1 DEF NoBackup
  <2>4. ASSUME NEW i \in Ids, deleteNext(p, i)
        PROVE  OneStops
    <3>1. \/ backup' = [backup EXCEPT ![p] = [backup[p] EXCEPT !.victims = @ \ {i}]]
          \/ backup' = [backup EXCEPT ![p] = NoBackup]
      BY <2>4 DEF deleteNext
    <3>2. /\ [backup[p] EXCEPT !.victims = @ \ {i}].step = "delete"
          /\ NoBackup.step = "idle"
      BY <2>4 DEF NoBackup, deleteNext
    <3> QED BY <3>1, <3>2
  <2> QED BY <2>1, <2>2, <2>3, <2>4
<1>2. UNCHANGED zips
  BY DEF startBackup, readFiles, backupFails, deleteNext
<1> QED BY <1>1, <1>2, OtherJob DEF Autos, PruneInv

(* An unlink: the oldest of a list that is too long, or none.              *)
LEMMA FilePruned ==
  ASSUME BulkInv, PruneInv, NEW p \in Savers, backup[p].step = "prune",
         Cardinality(backup[p].list) > MaxCount, NEW n \in backup[p].list, PruneFile(p, n)
  PROVE  KeepStep
<1> DEFINE L == backup[p].list
<1>1. L \subseteq Names /\ IsFiniteSet(L) /\ Spared(L, Autos) /\ backup[p] \in BackupJobs
  BY DEF BulkInv, PruneInv, BackupJobs
<1>2. Autos \subseteq Names /\ IsFiniteSet(Autos)
  BY AutosFinite
<1>3. Many(Newer(n, Autos)) /\ n \in Names /\ IsOldest(n, L)
  BY <1>1, OldestHasNewer DEF PruneFile, Spared
<1>4. DOMAIN zips' = DOMAIN zips \ {n}
  BY DEF PruneFile, Without
<1>5. Autos' = Autos \ {n} /\ IsFiniteSet(DOMAIN zips')
  BY <1>4, FS_RemoveElement DEF Autos, PruneInv
<1>6. Cardinality(Autos') >= MaxCount
  BY <1>2, <1>3, <1>5, EnoughLeft
<1>7. ASSUME NEW q \in Savers, q # p, backup[q].step = "prune"
      PROVE  backup'[q] = backup[q] /\ Spared(backup[q].list, Autos')
  <2>1. backup[q].list \subseteq Names /\ Spared(backup[q].list, Autos)
    BY <1>7 DEF BulkInv, PruneInv, BackupJobs
  <2>2. Spared(backup[q].list, Autos')
    BY <1>2, <1>3, <1>5, <2>1, SparedByOthers
  <2> QED BY <1>7, <2>2 DEF PruneFile, BulkInv
<1>8. backup'[p].step = "prune" => backup'[p].list = L \ {n}
  <2>1. \/ backup' = [backup EXCEPT ![p] = [backup[p] EXCEPT !.list = @ \ {n}]]
        \/ backup' = [backup EXCEPT ![p] = NoBackup]
    BY DEF PruneFile
  <2> QED BY <1>1, <2>1 DEF NoBackup, BulkInv, BackupJobs
<1>9. IsFiniteSet(L \ {n}) /\ Spared(L \ {n}, Autos')
  BY <1>1, <1>2, <1>3, <1>5, FS_RemoveElement, SparedByOwn
<1>10. \A q \in Savers : q # p => backup'[q] = backup[q]
  BY DEF PruneFile, BulkInv
<1> HIDE DEF L
<1>11. ASSUME NEW q \in Savers, backup'[q].step = "prune"
       PROVE  IsFiniteSet(backup'[q].list) /\ Spared(backup'[q].list, Autos')
  BY <1>7, <1>8, <1>9, <1>10, <1>11 DEF PruneInv
<1> QED
  BY <1>5, <1>6, <1>11 DEF KeepStep, PruneInv, Spared, Newer, Many, Before

LEMMA PruneStep ==
  ASSUME BulkInv, PruneInv, [BkNext]_bkVars
  PROVE  KeepStep
<1>1. CASE UNCHANGED <<zips, backup>>
  BY <1>1, ArchivesGrow DEF Autos, PruneInv
<1>2. ASSUME NEW i \in Ids, addInstruction(i) \/ archiveInstruction(i)
      PROVE  KeepStep
  BY <1>1, <1>2 DEF addInstruction, archiveInstruction
<1>3. CASE minutePasses \/ UNCHANGED bkVars
  BY <1>1, <1>3 DEF minutePasses, bkVars
<1>4. ASSUME NEW p \in Savers, pruneOldBackups(p)
      PROVE  KeepStep
  <2>1. CASE PruneEnds(p)
    <3>1. NoBackup.step # "prune" /\ Autos' = Autos /\ IsFiniteSet(DOMAIN zips')
      BY <2>1 DEF NoBackup, PruneEnds, Autos, PruneInv
    <3> HIDE DEF NoBackup
    <3> QED BY <2>1, <3>1, OtherJob DEF PruneEnds
  <2>2. ASSUME NEW n \in backup[p].list, ~(Cardinality(backup[p].list) <= MaxCount),
               PruneFile(p, n)
        PROVE  KeepStep
    <3>1. IsFiniteSet(backup[p].list) /\ backup[p].step = "prune"
      BY <1>4 DEF pruneOldBackups, PruneInv
    <3>2. Cardinality(backup[p].list) > MaxCount
      BY <2>2, <3>1, FS_CardinalityType, BackupAssumption DEF BackupAssumption
    <3> QED BY <2>2, <3>1, <3>2, FilePruned
  <2> QED BY <1>4, <2>1, <2>2 DEF pruneOldBackups
<1> QED
  BY <1>2, <1>3, <1>4, OtherBackupSteps, PruningStarts, SaverGone DEF BkNext

\* However many processes prune at once, from lists that are out of date, a
\* step that removes an automatic backup leaves at least MaxCount of them.
THEOREM PruningKeepsMax == BkSpec => NeverBelowMax
<1>1. BkInit => BulkInv /\ PruneInv
  BY BulkInit, PruneInit
<1>2. BulkInv /\ PruneInv /\ [BkNext]_bkVars => BulkInv' /\ PruneInv'
  BY BulkStep, PruneStep DEF KeepStep
<1>3. BulkInv /\ PruneInv /\ [BkNext]_bkVars
        => [~(Autos \subseteq Autos') => Cardinality(Autos') >= MaxCount]_bkVars
  BY PruneStep DEF KeepStep
<1> QED BY <1>1, <1>2, <1>3, PTL DEF BkSpec, NeverBelowMax

---------------------------------------------------------------------------
\* BodyWindows: a page spliced back over its window

(* A clamped offset lies in the body and splits no pair.                   *)
LEMMA OffsetIsBoundary ==
  ASSUME NEW s \in Seq(Units), NEW x \in Int
  PROVE  /\ clampBodyOffset(s, x) \in 0 .. Len(s)
         /\ ~SplitsPair(s, clampBodyOffset(s, x))
<1> DEFINE o == Clamp(0, x, Len(s))
<1>1. Len(s) \in Nat
  BY LenProperties
<1>2. o \in 0 .. Len(s)
  BY <1>1 DEF Clamp
<1>3. CASE SplitsPair(s, o)
  <2>1. clampBodyOffset(s, x) = o - 1 /\ o > 0
    BY <1>3 DEF clampBodyOffset, SplitsPair
  <2>2. s[o] = "high"
    BY <1>3 DEF SplitsPair
  <2> HIDE DEF o
  <2>3. (o - 1) + 1 = o
    BY <1>2
  <2>4. ~SplitsPair(s, o - 1)
    BY <2>2, <2>3 DEF SplitsPair
  <2> QED BY <1>1, <1>2, <2>1, <2>4
<1>4. CASE ~SplitsPair(s, o)
  BY <1>2, <1>4 DEF clampBodyOffset
<1> QED BY <1>3, <1>4

(* An offset that is a boundary stays where it is.                         *)
LEMMA BoundaryStays ==
  ASSUME NEW s \in Seq(Units), NEW o \in 0 .. Len(s), ~SplitsPair(s, o)
  PROVE  clampBodyOffset(s, o) = o
<1>1. Len(s) \in Nat
  BY LenProperties
<1> QED BY <1>1 DEF clampBodyOffset, Clamp

(* The end of a window lies behind its start, and snapping it again moves  *)
(* nothing.                                                                *)
LEMMA EndIsBoundary ==
  ASSUME NEW s \in Seq(Units), NEW o \in 0 .. Len(s), NEW x \in Int
  PROVE  /\ snapWindowEnd(s, o, x) \in o .. Len(s)
         /\ snapWindowEnd(s, o, snapWindowEnd(s, o, x)) = snapWindowEnd(s, o, x)
<1> DEFINE e == Clamp(o, x, Len(s))
<1>1. Len(s) \in Nat
  BY LenProperties
<1>2. e \in o .. Len(s)
  BY <1>1 DEF Clamp
<1>3. \A i \in o .. Len(s) : Clamp(o, i, Len(s)) = i
  BY <1>1 DEF Clamp
<1>4. snapWindowEnd(s, o, x) = IF e > o /\ SplitsPair(s, e) THEN e - 1 ELSE e
  BY DEF snapWindowEnd
<1> HIDE DEF e
<1>5. CASE e > o /\ SplitsPair(s, e)
  <2>1. (e - 1) \in o .. Len(s) /\ (e - 1) + 1 = e
    BY <1>1, <1>2, <1>5
  <2>2. ~SplitsPair(s, e - 1)
    BY <1>5, <2>1 DEF SplitsPair
  <2> QED BY <1>3, <1>4, <1>5, <2>1, <2>2 DEF snapWindowEnd
<1>6. CASE ~(e > o /\ SplitsPair(s, e))
  BY <1>2, <1>3, <1>4, <1>6 DEF snapWindowEnd
<1> QED BY <1>5, <1>6

(* Whatever offset and limit a page was asked with, its text spliced back  *)
(* at the offset it reports changes nothing: "a window that was read back  *)
(* can be written back over exactly the same characters"                   *)
(* (instructions.shared.ts:55-56), in a body of any length.                *)
THEOREM PageSplicedBack ==
  ASSUME NEW s \in Seq(Units), NEW x \in Int, NEW l \in Int
  PROVE  LET o == clampBodyOffset(s, x)
             e == WindowEnd(s, o, l)
         IN Splice(s, o, Len(SubSeq(s, o + 1, e)), SubSeq(s, o + 1, e)) = s
<1> DEFINE o == clampBodyOffset(s, x)
           e == WindowEnd(s, o, l)
           chunk == SubSeq(s, o + 1, e)
<1>1. Len(s) \in Nat /\ o \in 0 .. Len(s) /\ ~SplitsPair(s, o)
  BY OffsetIsBoundary, LenProperties
<1>2. clampBodyOffset(s, o) = o
  BY <1>1, BoundaryStays
<1> HIDE DEF o
<1>3. e \in o .. Len(s) /\ snapWindowEnd(s, o, e) = e
  <2>1. (IF l > 0 THEN o + l ELSE Len(s)) \in Int
    BY <1>1
  <2> QED BY <1>1, <2>1, EndIsBoundary DEF WindowEnd
<1> HIDE DEF e
<1>4. chunk \in Seq(Units) /\ Len(chunk) = e - o
  <2>1. \A i \in o + 1 .. e : s[i] \in Units
    BY <1>1, <1>3, ElementOfSeq
  <2>2. o + 1 \in Int /\ e \in Int
    BY <1>1, <1>3
  <2>3. chunk \in Seq(Units) /\ Len(chunk) = IF o + 1 <= e THEN e - (o + 1) + 1 ELSE 0
    BY <2>1, <2>2, SubSeqProperties
  <2> QED BY <1>1, <1>3, <2>3
<1>5. o + Len(chunk) = e
  BY <1>1, <1>3, <1>4
<1>6. Splice(s, o, Len(chunk), chunk) = (SubSeq(s, 1, o) \o chunk) \o SubSeq(s, e + 1, Len(s))
  BY <1>2, <1>3, <1>5 DEF Splice
<1>7. SubSeq(s, 1, o) \o chunk = SubSeq(s, 1, e)
  <2>1. 1 \in 1 .. Len(s) + 1 /\ o \in 1 - 1 .. Len(s) /\ e \in o .. Len(s)
    BY <1>1, <1>3
  <2> QED BY <2>1, ConcatAdjacentSubSeq
<1>8. SubSeq(s, 1, e) \o SubSeq(s, e + 1, Len(s)) = SubSeq(s, 1, Len(s))
  <2>1. 1 \in 1 .. Len(s) + 1 /\ e \in 1 - 1 .. Len(s) /\ Len(s) \in e .. Len(s)
    BY <1>1, <1>3
  <2> QED BY <2>1, ConcatAdjacentSubSeq
<1>9. SubSeq(s, 1, Len(s)) = s
  BY SubSeqFull
<1> QED BY <1>6, <1>7, <1>8, <1>9 DEF o, e

(* A cut of three texts gives the one in the middle.                       *)
LEMMA MiddleCut ==
  ASSUME NEW S, NEW s \in Seq(S), NEW t \in Seq(S), NEW v \in Seq(S)
  PROVE  SubSeq((s \o t) \o v, Len(s) + 1, Len(s) + Len(t)) = t
<1> DEFINE u == (s \o t) \o v
           c == SubSeq(u, Len(s) + 1, Len(s) + Len(t))
<1>1. Len(s) \in Nat /\ Len(t) \in Nat /\ Len(v) \in Nat
  BY LenProperties
<1>2. /\ s \o t \in Seq(S) /\ Len(s \o t) = Len(s) + Len(t)
      /\ \A i \in 1 .. Len(s) + Len(t) :
           (s \o t)[i] = IF i <= Len(s) THEN s[i] ELSE t[i - Len(s)]
  BY ConcatProperties
<1>3. /\ u \in Seq(S) /\ Len(u) = Len(s \o t) + Len(v)
      /\ \A i \in 1 .. Len(s \o t) + Len(v) :
           u[i] = IF i <= Len(s \o t) THEN (s \o t)[i] ELSE v[i - Len(s \o t)]
  BY <1>2, ConcatProperties
<1> HIDE DEF u
<1>4. ASSUME NEW i \in 1 .. Len(t)
      PROVE  u[Len(s) + i] = t[i] /\ Len(s) + i \in 1 .. Len(u)
  <2>1. /\ Len(s) + i \in 1 .. Len(s) + Len(t) /\ Len(s) + i \in 1 .. Len(s \o t) + Len(v)
        /\ Len(s) + i <= Len(s \o t) /\ ~(Len(s) + i <= Len(s)) /\ (Len(s) + i) - Len(s) = i
    BY <1>1, <1>2
  <2>2. u[Len(s) + i] = (s \o t)[Len(s) + i]
    BY <1>3, <2>1, Zenon
  <2>3. (s \o t)[Len(s) + i] = t[(Len(s) + i) - Len(s)]
    BY <1>2, <2>1, Zenon
  <2> QED BY <1>3, <2>1, <2>2, <2>3
<1>5. /\ c \in Seq(S) /\ Len(c) = Len(t)
      /\ \A i \in 1 .. Len(t) : c[i] = u[Len(s) + i]
  <2> DEFINE m == Len(s) + 1
             n == Len(s) + Len(t)
  <2>1. m \in Int /\ n \in Int /\ n - m + 1 = Len(t)
        /\ \A i \in 1 .. Len(t) : m + i - 1 = Len(s) + i
    BY <1>1
  <2>2. \A i \in m .. n : u[i] \in S
    <3>1. \A i \in m .. n : i \in 1 .. Len(u)
      BY <1>1, <1>2, <1>3
    <3> QED BY <1>3, <3>1, ElementOfSeq
  <2>3. Len(t) = IF m <= n THEN n - m + 1 ELSE 0
    BY <1>1
  <2> HIDE DEF m, n
  <2>4. /\ SubSeq(u, m, n) \in Seq(S)
        /\ Len(SubSeq(u, m, n)) = IF m <= n THEN n - m + 1 ELSE 0
        /\ \A i \in 1 .. n - m + 1 : SubSeq(u, m, n)[i] = u[m + i - 1]
    BY <2>1, <2>2, SubSeqProperties
  <2> QED BY <2>1, <2>3, <2>4 DEF m, n
<1> HIDE DEF c
<1>6. \A i \in 1 .. Len(t) : c[i] = t[i]
  BY <1>4, <1>5
<1>7. c = t
  BY <1>5, <1>6, SeqEqual
<1> QED BY <1>7 DEF c, u

LEMMA StartCut ==
  ASSUME NEW S, NEW s \in Seq(S), NEW t \in Seq(S)
  PROVE  SubSeq(s \o t, 1, Len(s)) = s
<1> DEFINE e == <<>>
<1>1. e \in Seq(S) /\ Len(e) = 0 /\ e \o s = s /\ Len(s) \in Nat
  BY EmptySeq, ConcatEmptySeq, LenProperties
<1> HIDE DEF e
<1>2. SubSeq((e \o s) \o t, Len(e) + 1, Len(e) + Len(s)) = s
  BY <1>1, MiddleCut
<1>3. Len(e) + 1 = 1 /\ Len(e) + Len(s) = Len(s)
  BY <1>1
<1> QED BY <1>1, <1>2, <1>3

LEMMA CutTyped ==
  ASSUME NEW S, NEW s \in Seq(S), NEW i \in Nat, NEW j \in Nat, i <= j, j <= Len(s)
  PROVE  /\ SubSeq(s, i + 1, j) \in Seq(S) /\ Len(SubSeq(s, i + 1, j)) = j - i
         /\ \A k \in 1 .. j - i : SubSeq(s, i + 1, j)[k] = s[i + k]
<1> DEFINE m == i + 1
<1>1. m \in Int /\ j \in Int /\ j - m + 1 = j - i /\ \A k \in 1 .. j - i : m + k - 1 = i + k
  OBVIOUS
<1>2. \A k \in m .. j : s[k] \in S
  <2>1. \A k \in m .. j : k \in 1 .. Len(s)
    BY LenProperties
  <2> QED BY <2>1, ElementOfSeq
<1>3. (IF m <= j THEN j - m + 1 ELSE 0) = j - i
  OBVIOUS
<1> HIDE DEF m
<1>4. /\ SubSeq(s, m, j) \in Seq(S)
      /\ Len(SubSeq(s, m, j)) = IF m <= j THEN j - m + 1 ELSE 0
      /\ \A k \in 1 .. j - m + 1 : SubSeq(s, m, j)[k] = s[m + k - 1]
  BY <1>1, <1>2, SubSeqProperties
<1> QED BY <1>1, <1>3, <1>4 DEF m

(* A boundary cuts a well-formed text into well-formed texts.              *)
LEMMA WellFormedCut ==
  ASSUME NEW s \in Seq(Units), WellFormed(s), NEW i \in Nat, i <= Len(s), ~SplitsPair(s, i)
  PROVE  WellFormed(SubSeq(s, 1, i)) /\ WellFormed(SubSeq(s, i + 1, Len(s)))
<1>1. Len(s) \in Nat
  BY LenProperties
<1>2. WellFormed(SubSeq(s, 1, i))
  <2> DEFINE a == SubSeq(s, 1, i)
  <2>1. Len(a) = i /\ \A k \in 1 .. i : a[k] = s[k]
    <3>1. /\ Len(SubSeq(s, 0 + 1, i)) = i - 0
          /\ \A k \in 1 .. i - 0 : SubSeq(s, 0 + 1, i)[k] = s[0 + k]
      <4>1. 0 \in Nat /\ 0 <= i
        OBVIOUS
      <4> QED BY <4>1, CutTyped
    <3>2. 0 + 1 = 1 /\ i - 0 = i /\ \A k \in 1 .. i : 0 + k = k
      OBVIOUS
    <3> QED BY <3>1, <3>2
  <2> HIDE DEF a
  <2>2. ASSUME NEW k \in 1 .. Len(a)
        PROVE  /\ a[k] = "high" => k < Len(a) /\ a[k + 1] = "low"
               /\ a[k] = "low"  => k > 1 /\ a[k - 1] = "high"
    <3>1. k \in 1 .. i /\ k \in 1 .. Len(s) /\ a[k] = s[k]
      BY <1>1, <2>1
    <3>2. ASSUME s[k] = "high" PROVE k < i /\ a[k + 1] = "low"
      <4>1. k < Len(s) /\ s[k + 1] = "low"
        BY <3>1, <3>2 DEF WellFormed
      <4>2. k # i
        BY <3>1, <3>2, <4>1 DEF SplitsPair
      <4>3. k + 1 \in 1 .. i
        BY <3>1, <4>2
      <4> QED BY <2>1, <4>1, <4>3
    <3>3. ASSUME s[k] = "low" PROVE k > 1 /\ a[k - 1] = "high"
      <4>1. k > 1 /\ s[k - 1] = "high"
        BY <3>1, <3>3 DEF WellFormed
      <4>2. k - 1 \in 1 .. i
        BY <3>1, <4>1
      <4> QED BY <2>1, <4>1, <4>2
    <3> QED BY <2>1, <3>1, <3>2, <3>3
  <2>3. WellFormed(a)
    BY <2>2 DEF WellFormed
  <2> QED BY <2>3 DEF a
<1>3. WellFormed(SubSeq(s, i + 1, Len(s)))
  <2> DEFINE a == SubSeq(s, i + 1, Len(s))
             n == Len(s) - i
  <2>1. n \in Nat /\ Len(a) = n /\ \A k \in 1 .. n : a[k] = s[i + k]
    BY <1>1, CutTyped
  <2> HIDE DEF a
  <2>2. ASSUME NEW k \in 1 .. Len(a)
        PROVE  /\ a[k] = "high" => k < Len(a) /\ a[k + 1] = "low"
               /\ a[k] = "low"  => k > 1 /\ a[k - 1] = "high"
    <3>1. k \in 1 .. n /\ i + k \in 1 .. Len(s) /\ a[k] = s[i + k]
      BY <1>1, <2>1
    <3>2. ASSUME s[i + k] = "high" PROVE k < n /\ a[k + 1] = "low"
      <4>1. i + k < Len(s) /\ s[(i + k) + 1] = "low"
        BY <3>1, <3>2 DEF WellFormed
      <4>2. k + 1 \in 1 .. n /\ i + (k + 1) = (i + k) + 1 /\ k < n
        BY <1>1, <3>1, <4>1
      <4> QED BY <2>1, <4>1, <4>2
    <3>3. ASSUME s[i + k] = "low" PROVE k > 1 /\ a[k - 1] = "high"
      <4>1. i + k > 1 /\ s[(i + k) - 1] = "high"
        BY <3>1, <3>3 DEF WellFormed
      <4>2. k # 1
        <5>1. CASE k = 1
          <6>1. 0 < i /\ i < Len(s) /\ s[i] = "high" /\ s[i + 1] = "low"
            BY <1>1, <3>1, <3>3, <4>1, <5>1
          <6> QED BY <6>1 DEF SplitsPair
        <5> QED BY <5>1
      <4>3. k - 1 \in 1 .. n /\ i + (k - 1) = (i + k) - 1 /\ k > 1
        BY <1>1, <3>1, <4>2
      <4> QED BY <2>1, <4>1, <4>3
    <3> QED BY <2>1, <3>1, <3>2, <3>3
  <2>3. WellFormed(a)
    BY <2>2 DEF WellFormed
  <2> QED BY <2>3 DEF a
<1> QED BY <1>2, <1>3

(* Well-formed texts put together are well formed, and the joint is a      *)
(* boundary.                                                               *)
LEMMA WellFormedJoint ==
  ASSUME NEW s \in Seq(Units), NEW t \in Seq(Units), WellFormed(s), WellFormed(t)
  PROVE  /\ s \o t \in Seq(Units) /\ Len(s \o t) = Len(s) + Len(t)
         /\ WellFormed(s \o t) /\ ~SplitsPair(s \o t, Len(s))
<1> DEFINE u == s \o t
           n == Len(s)
<1>1. n \in Nat /\ Len(t) \in Nat
  BY LenProperties
<1>2. /\ u \in Seq(Units) /\ Len(u) = n + Len(t)
      /\ \A i \in 1 .. n + Len(t) : u[i] = IF i <= n THEN s[i] ELSE t[i - n]
  BY ConcatProperties
<1> HIDE DEF u
<1>3. /\ \A i \in 1 .. n : u[i] = s[i]
      /\ \A i \in 1 .. Len(t) : u[n + i] = t[i]
  <2>1. \A i \in 1 .. n : i \in 1 .. n + Len(t) /\ i <= n
    BY <1>1
  <2>2. \A i \in 1 .. Len(t) : n + i \in 1 .. n + Len(t) /\ ~(n + i <= n) /\ (n + i) - n = i
    BY <1>1
  <2> HIDE DEF n
  <2> QED BY <1>2, <2>1, <2>2
<1>4. ASSUME NEW i \in 1 .. n
      PROVE  /\ s[i] = "high" => i < n /\ s[i + 1] = "low"
             /\ s[i] = "low"  => i > 1 /\ s[i - 1] = "high"
  BY DEF WellFormed
<1>5. ASSUME NEW i \in 1 .. Len(t)
      PROVE  /\ t[i] = "high" => i < Len(t) /\ t[i + 1] = "low"
             /\ t[i] = "low"  => i > 1 /\ t[i - 1] = "high"
  BY DEF WellFormed
<1>6. ~SplitsPair(u, n)
  <2> SUFFICES ASSUME 0 < n, u[n] = "high" PROVE FALSE
    BY DEF SplitsPair
  <2>1. n \in 1 .. n
    BY <1>1
  <2>2. s[n] = "high"
    BY <1>3, <2>1
  <2> QED BY <1>1, <1>4, <2>1, <2>2
<1>7. ASSUME NEW k \in 1 .. Len(u)
      PROVE  /\ u[k] = "high" => k < Len(u) /\ u[k + 1] = "low"
             /\ u[k] = "low"  => k > 1 /\ u[k - 1] = "high"
  <2>1. CASE k <= n
    <3>1. k \in 1 .. n /\ u[k] = s[k]
      BY <1>1, <1>2, <1>3, <2>1
    <3>2. ASSUME s[k] = "high" PROVE k < Len(u) /\ u[k + 1] = "low"
      <4>1. k < n /\ s[k + 1] = "low"
        BY <1>4, <3>1, <3>2
      <4>2. k + 1 \in 1 .. n /\ k < Len(u)
        BY <1>1, <1>2, <3>1, <4>1
      <4> QED BY <1>3, <4>1, <4>2
    <3>3. ASSUME s[k] = "low" PROVE k > 1 /\ u[k - 1] = "high"
      <4>1. k > 1 /\ s[k - 1] = "high"
        BY <1>4, <3>1, <3>3
      <4>2. k - 1 \in 1 .. n
        BY <1>1, <3>1, <4>1
      <4> QED BY <1>3, <4>1, <4>2
    <3> QED BY <3>1, <3>2, <3>3
  <2>2. CASE ~(k <= n)
    <3> DEFINE i == k - n
    <3>1. i \in 1 .. Len(t) /\ k = n + i
      BY <1>1, <1>2, <2>2
    <3> HIDE DEF i
    <3>2. u[k] = t[i]
      BY <1>3, <3>1
    <3>3. ASSUME t[i] = "high" PROVE k < Len(u) /\ u[k + 1] = "low"
      <4>1. i < Len(t) /\ t[i + 1] = "low"
        BY <1>5, <3>1, <3>3
      <4>2. i + 1 \in 1 .. Len(t) /\ k < Len(u) /\ n + (i + 1) = k + 1
        BY <1>1, <1>2, <3>1, <4>1
      <4> QED BY <1>3, <4>1, <4>2
    <3>4. ASSUME t[i] = "low" PROVE k > 1 /\ u[k - 1] = "high"
      <4>1. i > 1 /\ t[i - 1] = "high"
        BY <1>5, <3>1, <3>4
      <4>2. i - 1 \in 1 .. Len(t) /\ k > 1 /\ n + (i - 1) = k - 1
        BY <1>1, <3>1, <4>1
      <4> QED BY <1>3, <4>1, <4>2
    <3> QED BY <3>2, <3>3, <3>4
  <2> QED BY <2>1, <2>2
<1>8. WellFormed(u)
  BY <1>7 DEF WellFormed
<1> QED BY <1>2, <1>6, <1>8 DEF u

(* The end of a window that begins at a boundary is one.                   *)
LEMMA EndSplitsNone ==
  ASSUME NEW s \in Seq(Units), NEW o \in 0 .. Len(s), ~SplitsPair(s, o), NEW x \in Int
  PROVE  ~SplitsPair(s, snapWindowEnd(s, o, x))
<1> DEFINE e == Clamp(o, x, Len(s))
<1>1. Len(s) \in Nat
  BY LenProperties
<1>2. e \in o .. Len(s)
  BY <1>1 DEF Clamp
<1>3. snapWindowEnd(s, o, x) = IF e > o /\ SplitsPair(s, e) THEN e - 1 ELSE e
  BY DEF snapWindowEnd
<1> HIDE DEF e
<1>4. CASE e > o /\ SplitsPair(s, e)
  <2>1. (e - 1) + 1 = e
    BY <1>2
  <2>2. ~SplitsPair(s, e - 1)
    BY <1>4, <2>1 DEF SplitsPair
  <2> QED BY <1>3, <1>4, <2>2
<1>5. CASE ~(e > o) \/ ~SplitsPair(s, e)
  <2>1. ~(e > o) => e = o
    BY <1>1, <1>2
  <2> QED BY <1>3, <1>5, <2>1
<1> QED BY <1>4, <1>5

(* A splice of a window between two boundaries keeps what lies around it.  *)
LEMMA WindowSplice ==
  ASSUME NEW s \in Seq(Units), NEW o \in Nat, NEW n \in Nat, NEW text \in Seq(Units),
         o + n <= Len(s), ~SplitsPair(s, o), ~SplitsPair(s, o + n)
  PROVE  Splice(s, o, n, text)
           = (SubSeq(s, 1, o) \o text) \o SubSeq(s, (o + n) + 1, Len(s))
<1>1. Len(s) \in Nat /\ o \in 0 .. Len(s)
  BY LenProperties
<1>2. clampBodyOffset(s, o) = o
  BY <1>1, BoundaryStays
<1>3. Clamp(o, o + n, Len(s)) = o + n
  BY <1>1 DEF Clamp
<1>4. snapWindowEnd(s, o, o + n) = o + n
  BY <1>3 DEF snapWindowEnd
<1> QED BY <1>2, <1>4, Zenon DEF Splice

LEMMA WindowSplicedBack ==
  ASSUME NEW s \in Seq(Units), NEW o \in Nat, NEW n \in Nat,
         o + n <= Len(s), ~SplitsPair(s, o), ~SplitsPair(s, o + n)
  PROVE  Splice(s, o, n, SubSeq(s, o + 1, o + n)) = s
<1> DEFINE e == o + n
           c == SubSeq(s, o + 1, e)
<1>1. Len(s) \in Nat /\ c \in Seq(Units)
  BY LenProperties, CutTyped
<1> HIDE DEF c
<1>2. Splice(s, o, n, c) = (SubSeq(s, 1, o) \o c) \o SubSeq(s, e + 1, Len(s))
  BY <1>1, WindowSplice
<1>3. SubSeq(s, 1, o) \o c = SubSeq(s, 1, e)
  <2>1. 1 \in 1 .. Len(s) + 1 /\ o \in 1 - 1 .. Len(s) /\ e \in o .. Len(s)
    BY <1>1
  <2> HIDE DEF e
  <2> QED BY <2>1, ConcatAdjacentSubSeq DEF c
<1>4. SubSeq(s, 1, e) \o SubSeq(s, e + 1, Len(s)) = SubSeq(s, 1, Len(s))
  <2>1. 1 \in 1 .. Len(s) + 1 /\ e \in 1 - 1 .. Len(s) /\ Len(s) \in e .. Len(s)
    BY <1>1
  <2> QED BY <2>1, ConcatAdjacentSubSeq
<1> QED BY <1>2, <1>3, <1>4, SubSeqFull DEF c

(* A page that is not the last holds something, but for bodyLimit 1.       *)
LEMMA PageProgress ==
  ASSUME NEW s \in Seq(Units), NEW o \in 0 .. Len(s), NEW l \in Int, l # 1,
         WindowEnd(s, o, l) # Len(s)
  PROVE  WindowEnd(s, o, l) > o
<1> DEFINE x == IF l > 0 THEN o + l ELSE Len(s)
           e == Clamp(o, x, Len(s))
<1>1. Len(s) \in Nat
  BY LenProperties
<1>2. WindowEnd(s, o, l) = IF e > o /\ SplitsPair(s, e) THEN e - 1 ELSE e
  BY DEF WindowEnd, snapWindowEnd
<1>3. e = Len(s) => WindowEnd(s, o, l) = Len(s)
  BY <1>1, <1>2 DEF SplitsPair
<1>4. e \in Nat /\ (e = Len(s) \/ e >= o + 2)
  <2>1. CASE l > 0
    <3>1. x = o + l /\ l >= 2
      BY <2>1
    <3> HIDE DEF x
    <3> QED BY <1>1, <3>1 DEF Clamp
  <2>2. CASE ~(l > 0)
    BY <1>1, <2>2 DEF Clamp
  <2> QED BY <2>1, <2>2
<1> HIDE DEF e
<1> QED BY <1>2, <1>3, <1>4

---------------------------------------------------------------------------
\* BodyWindows: the invariant

Pages == [offset : Nat, chunk : Seq(Units), seen : Seq(Units), got : Nat]

EndOf(p) == p.offset + Len(p.chunk)

(* A page is a window of the body it was cut from, between boundaries.     *)
Window(p) ==
  /\ p.seen # <<>> /\ EndOf(p) <= Len(p.seen)
  /\ ~SplitsPair(p.seen, p.offset) /\ ~SplitsPair(p.seen, EndOf(p))
  /\ p.chunk = SubSeq(p.seen, p.offset + 1, EndOf(p))

(* While nobody else has patched: the pages so far are one window.         *)
OneWindow ==
  /\ page.seen = body /\ at = PageEnd /\ first <= page.offset
  /\ given = SubSeq(body, first + 1, PageEnd)
  /\ more = "no" <=> PageEnd = Len(body)

WindowInv ==
  /\ body \in Seq(Units) /\ body # <<>> /\ WellFormed(body)
  /\ limit \in Limits /\ at \in Int /\ more \in {"yes", "no"} /\ first \in Nat
  /\ page \in Pages
  /\ page = NoPage => given = <<>> /\ more = "yes"
  /\ page # NoPage =>
       /\ Window(page)
       /\ steady = "yes" => OneWindow
       /\ more = "yes" /\ limit # 1 => page.got > 0

LEMMA NoPageTyped == NoPage \in Pages /\ NoPage.seen = <<>>
  BY DEF NoPage, Pages

LEMMA WindowInit == ASSUME WindowAssumption, WindowsInit PROVE WindowInv
<1>1. PICK n \in 1 .. MaxBody : body \in [1 .. n -> Units]
  BY DEF WindowsInit
<1>2. n \in Nat /\ body \in Seq(Units) /\ Len(body) = n
  <2>1. n \in Nat
    OBVIOUS
  <2> QED BY <1>1, <2>1, IsASeq, LenProperties
<1>3. body # <<>>
  BY <1>2, EmptySeq
<1> QED BY <1>2, <1>3, NoPageTyped, WindowAssumption DEF WindowAssumption, WindowsInit, WindowInv

(* A page is read.                                                         *)
LEMMA PageKeeps == ASSUME WindowAssumption, WindowInv, applyBodyPagination PROVE WindowInv'
<1> DEFINE s == body
           o == clampBodyOffset(s, at)
           e == WindowEnd(s, o, limit)
           c == SubSeq(s, o + 1, e)
<1>1. /\ s \in Seq(Units) /\ s # <<>> /\ WellFormed(s) /\ at \in Int /\ limit \in Int
      /\ Len(s) \in Nat /\ first \in Nat /\ limit \in Limits
  BY LenProperties, WindowAssumption DEF WindowInv, WindowAssumption
<1>2. o \in 0 .. Len(s) /\ ~SplitsPair(s, o) /\ o \in Nat
  BY <1>1, OffsetIsBoundary
<1>3. /\ page' = [offset |-> o, chunk |-> c, seen |-> s, got |-> Len(c)]
      /\ more' = (IF e < Len(s) THEN "yes" ELSE "no") /\ at' = e
      /\ given' = given \o c /\ first' = (IF page = NoPage THEN o ELSE first)
      /\ more = "yes" /\ UNCHANGED <<body, limit, steady, patches>>
  BY Zenon DEF applyBodyPagination
<1>4. at \in 0 .. Len(s) /\ ~SplitsPair(s, at) => o = at
  BY <1>1, BoundaryStays
<1> HIDE DEF o
<1>5. e \in o .. Len(s) /\ ~SplitsPair(s, e) /\ e \in Nat
  <2> DEFINE x == IF limit > 0 THEN o + limit ELSE Len(s)
  <2>1. x \in Int
    BY <1>1, <1>2
  <2>2. e = snapWindowEnd(s, o, x)
    BY DEF WindowEnd
  <2> HIDE DEF x, e
  <2> QED BY <1>1, <1>2, <2>1, <2>2, EndIsBoundary, EndSplitsNone
<1>6. limit # 1 /\ e # Len(s) => e > o
  BY <1>1, <1>2, PageProgress
<1> HIDE DEF e
<1>7. c \in Seq(Units) /\ Len(c) = e - o
  BY <1>1, <1>2, <1>5, CutTyped
<1>8. o + Len(c) = e
  BY <1>2, <1>5, <1>7
<1> DEFINE p == [offset |-> o, chunk |-> c, seen |-> s, got |-> Len(c)]
<1>9. /\ p.offset = o /\ p.chunk = c /\ p.seen = s /\ p.got = e - o
      /\ p \in Pages
  <2>1. e - o \in Nat
    BY <1>2, <1>5
  <2> HIDE DEF s, c
  <2> QED BY <1>1, <1>2, <1>7, <2>1 DEF Pages
<1>10. page' = p
  BY <1>3
<1>11. EndOf(p) = e /\ Window(p)
  BY <1>1, <1>2, <1>5, <1>8, <1>9 DEF Window, EndOf
<1>12. first' \in Nat /\ at' \in Int /\ more' \in {"yes", "no"}
  BY <1>1, <1>2, <1>3, <1>5
<1>13. page' # NoPage
  BY <1>1, <1>9, <1>10, NoPageTyped
<1>14. more' = "yes" /\ limit # 1 => p.got > 0
  BY <1>2, <1>3, <1>5, <1>6, <1>9
<1> HIDE DEF p, c
<1>15. ASSUME steady = "yes" PROVE OneWindow'
  <2>1. PageEnd' = e
    BY <1>10, <1>11 DEF PageEnd, EndOf
  <2>2. more' = "no" <=> e = Len(s)
    BY <1>1, <1>2, <1>3, <1>5
  <2>3. first' <= o /\ given' = SubSeq(s, first' + 1, e)
    <3>1. CASE page = NoPage
      <4>1. given = <<>> /\ first' = o
        BY <1>3, <3>1 DEF WindowInv
      <4> QED BY <1>2, <1>3, <1>7, <4>1, ConcatEmptySeq DEF c
    <3>2. CASE page # NoPage
      <4>1. OneWindow /\ Window(page) /\ page.offset \in Nat /\ page.chunk \in Seq(Units)
        BY <1>15, <3>2 DEF WindowInv, Pages
      <4>2. at = page.offset + Len(page.chunk) /\ at <= Len(s) /\ ~SplitsPair(s, at)
        BY <4>1 DEF OneWindow, Window, PageEnd, EndOf
      <4>3. at \in 0 .. Len(s) /\ first <= at
        <5>1. Len(page.chunk) \in Nat
          BY <4>1, LenProperties
        <5> QED BY <1>1, <4>1, <4>2, <5>1 DEF OneWindow
      <4>4. o = at
        BY <1>4, <4>2, <4>3
      <4>5. first' = first /\ given = SubSeq(s, first + 1, o)
        BY <1>3, <3>2, <4>1, <4>4 DEF OneWindow
      <4>6. SubSeq(s, first + 1, o) \o SubSeq(s, o + 1, e) = SubSeq(s, first + 1, e)
        <5>1. first + 1 \in 1 .. Len(s) + 1 /\ o \in (first + 1) - 1 .. Len(s) /\ e \in o .. Len(s)
          BY <1>1, <1>2, <1>5, <4>3, <4>4
        <5> QED BY <1>1, <5>1, ConcatAdjacentSubSeq
      <4> QED BY <1>3, <4>3, <4>4, <4>5, <4>6 DEF c
    <3> QED BY <3>1, <3>2
  <2>4. page'.seen = body' /\ at' = PageEnd' /\ page'.offset = o
    BY <1>3, <1>9, <1>10, <2>1
  <2> QED BY <1>3, <2>1, <2>2, <2>3, <2>4 DEF OneWindow
<1> QED BY <1>1, <1>3, <1>9, <1>10, <1>11, <1>12, <1>13, <1>14, <1>15 DEF WindowInv

(* The page just read is replaced.                                         *)
LEMMA WriteKeeps ==
  ASSUME WindowAssumption, WindowInv, NEW text \in Texts, writeBack(text)
  PROVE  WindowInv'
<1> DEFINE s == body
           o == page.offset
           k == Len(page.chunk)
           a == SubSeq(s, 1, o)
           c == SubSeq(s, (o + k) + 1, Len(s))
           b == (a \o text) \o c
           n == Len(text)
           p == [offset |-> o, chunk |-> text, seen |-> b, got |-> page.got]
<1>1. /\ s \in Seq(Units) /\ s # <<>> /\ WellFormed(s) /\ page \in Pages
      /\ Len(s) \in Nat /\ first \in Nat /\ limit \in Limits /\ more \in {"yes", "no"}
      /\ text \in Seq(Units) /\ WellFormed(text) /\ n \in Nat
  BY LenProperties, WindowAssumption DEF WindowInv, WindowAssumption
<1>2. page # NoPage /\ Window(page) /\ page.seen = s
  BY <1>1, NoPageTyped DEF WindowInv, writeBack
<1>3. /\ o \in Nat /\ k \in Nat /\ page.chunk \in Seq(Units) /\ page.got \in Nat
  BY <1>1, LenProperties DEF Pages
<1>4. /\ o + k <= Len(s) /\ ~SplitsPair(s, o) /\ ~SplitsPair(s, o + k)
      /\ page.chunk = SubSeq(s, o + 1, o + k)
  BY <1>2 DEF Window, EndOf
<1>5. Splice(s, o, k, text) = b
  <2> HIDE DEF k, o
  <2> QED BY <1>1, <1>3, <1>4, WindowSplice
<1>6. /\ b # <<>> /\ body' = b
      /\ page' = [page EXCEPT !.chunk = text, !.seen = b]
      /\ at' = o + n /\ given' = SubSeq(given, 1, Len(given) - k) \o text
      /\ UNCHANGED <<limit, more, first, steady>>
  BY <1>5, Zenon DEF writeBack, Patched, Acceptable
<1>7. page' = p
  <2> DEFINE q == [page EXCEPT !.chunk = text]
             g == page.got
             d == page.chunk
             z == page.seen
  <2>1. page = [offset |-> o, chunk |-> d, seen |-> z, got |-> g]
    BY <1>1 DEF Pages
  <2> HIDE DEF o, b, g, d, z
  <2>2. q = [offset |-> o, chunk |-> text, seen |-> z, got |-> g]
    BY <2>1
  <2>3. [page EXCEPT !.chunk = text, !.seen = b] = [q EXCEPT !.seen = b]
    OBVIOUS
  <2> HIDE DEF q
  <2>4. [q EXCEPT !.seen = b] = [offset |-> o, chunk |-> text, seen |-> b, got |-> g]
    BY <2>2
  <2> QED BY <1>6, <2>3, <2>4 DEF g
<1>8. /\ a \in Seq(Units) /\ Len(a) = o /\ WellFormed(a)
      /\ c \in Seq(Units) /\ Len(c) = Len(s) - (o + k) /\ WellFormed(c)
  <2> DEFINE e == o + k
             l == Len(s)
  <2>1. /\ SubSeq(s, 0 + 1, o) \in Seq(Units) /\ Len(SubSeq(s, 0 + 1, o)) = o - 0
        /\ SubSeq(s, e + 1, l) \in Seq(Units) /\ Len(SubSeq(s, e + 1, l)) = l - e
    <3>1. 0 \in Nat /\ 0 <= o /\ o <= l /\ e \in Nat /\ e <= l /\ l \in Nat /\ l <= l
      BY <1>1, <1>3, <1>4
    <3> HIDE DEF s, o, e, l
    <3>2. l <= Len(s)
      BY <3>1 DEF l
    <3>3. o <= Len(s)
      BY <3>1 DEF l
    <3>4. s \in Seq(Units)
      BY <1>1
    <3>5. SubSeq(s, 0 + 1, o) \in Seq(Units) /\ Len(SubSeq(s, 0 + 1, o)) = o - 0
      BY <1>3, <3>1, <3>3, <3>4, CutTyped
    <3>6. SubSeq(s, e + 1, l) \in Seq(Units) /\ Len(SubSeq(s, e + 1, l)) = l - e
      BY <3>1, <3>2, <3>4, CutTyped
    <3> QED BY <3>5, <3>6
  <2>2. WellFormed(SubSeq(s, 1, o)) /\ WellFormed(SubSeq(s, e + 1, l))
    <3>1. o <= Len(s) /\ e \in Nat
      BY <1>1, <1>3, <1>4
    <3> HIDE DEF s, o
    <3> QED BY <1>1, <1>3, <1>4, <3>1, WellFormedCut
  <2>3. 0 + 1 = 1 /\ o - 0 = o
    BY <1>3
  <2> QED BY <2>1, <2>2, <2>3
<1> HIDE DEF s, o, k, a, c, n
<1>9. /\ a \o text \in Seq(Units) /\ Len(a \o text) = o + n /\ WellFormed(a \o text)
  BY <1>1, <1>8, WellFormedJoint DEF n
<1>10. /\ b \in Seq(Units) /\ Len(b) = (o + n) + Len(c) /\ WellFormed(b)
       /\ ~SplitsPair(b, o + n)
  BY <1>8, <1>9, WellFormedJoint
<1>11. ~SplitsPair(b, o)
  <2>1. b = a \o (text \o c)
    <3>1. a \in Seq(Units) /\ text \in Seq(Units) /\ c \in Seq(Units)
      BY <1>1, <1>8
    <3> QED BY <3>1, ConcatAssociative
  <2>2. text \o c \in Seq(Units) /\ WellFormed(text \o c)
    BY <1>1, <1>8, WellFormedJoint
  <2>3. ~SplitsPair(a \o (text \o c), Len(a))
    BY <1>8, <2>2, WellFormedJoint
  <2> QED BY <1>8, <2>1, <2>3
<1>12. text = SubSeq(b, o + 1, o + n)
  BY <1>1, <1>8, MiddleCut DEF n
<1>13. /\ p.offset = o /\ p.chunk = text /\ p.seen = b /\ p.got = page.got /\ p \in Pages
  <2> HIDE DEF b
  <2> QED BY <1>1, <1>3, <1>10 DEF Pages
<1>14. EndOf(p) = o + n
  BY <1>13 DEF EndOf, n
<1>15. o + n <= Len(b) /\ at' \in Int /\ Len(c) \in Nat
  <2>1. Len(c) \in Nat
    BY <1>8, LenProperties
  <2>2. n \in Nat
    BY <1>1
  <2> QED BY <1>3, <1>6, <1>10, <2>1, <2>2
<1> HIDE DEF b, p
<1>16. Window(p)
  BY <1>6, <1>10, <1>11, <1>12, <1>13, <1>14, <1>15 DEF Window
<1>17. page' # NoPage
  BY <1>6, <1>7, <1>13, NoPageTyped
<1>18. ASSUME steady = "yes" PROVE OneWindow'
  <2>1. OneWindow /\ first <= o /\ given = SubSeq(s, first + 1, o + k)
        /\ (more = "no" <=> o + k = Len(s))
    BY <1>2, <1>18 DEF WindowInv, OneWindow, PageEnd, s, o, k
  <2>2. PageEnd' = o + n
    BY <1>7, <1>14 DEF PageEnd, EndOf
  <2>3. more' = "no" <=> o + n = Len(b)
    <3>1. o + n = Len(b) <=> o + k = Len(s)
      <4>1. n \in Nat /\ Len(s) \in Nat
        BY <1>1
      <4>2. Len(c) = Len(s) - (o + k) /\ Len(b) = (o + n) + Len(c) /\ o \in Nat /\ k \in Nat
        BY <1>3, <1>8, <1>10
      <4> QED BY <4>1, <4>2
    <3> QED BY <1>6, <2>1, <3>1
  <2> DEFINE u == SubSeq(s, first + 1, o)
             f == SubSeq(s, 1, first)
  <2>4. /\ u \in Seq(Units) /\ f \in Seq(Units) /\ Len(f) = first
        /\ f \o u = a /\ u \o page.chunk = given /\ Len(u) = o - first
    <3>1. first <= o /\ o <= o + k /\ o + k <= Len(s) /\ o <= Len(s) /\ first <= Len(s)
      BY <1>1, <1>3, <1>4, <2>1
    <3>2. u \in Seq(Units) /\ Len(u) = o - first
      BY <1>1, <1>3, <3>1, CutTyped
    <3>3. f \in Seq(Units) /\ Len(f) = first
      <4>1. /\ SubSeq(s, 0 + 1, first) \in Seq(Units)
            /\ Len(SubSeq(s, 0 + 1, first)) = first - 0
        <5>1. 0 \in Nat /\ 0 <= first
          BY <1>1
        <5> QED BY <1>1, <3>1, <5>1, CutTyped
      <4>2. 0 + 1 = 1 /\ first - 0 = first
        BY <1>1
      <4> QED BY <4>1, <4>2
    <3>4. f \o u = a
      <4>1. 1 \in 1 .. Len(s) + 1 /\ first \in 1 - 1 .. Len(s) /\ o \in first .. Len(s)
        BY <1>1, <1>3, <3>1
      <4> QED BY <1>1, <4>1, ConcatAdjacentSubSeq DEF a
    <3>5. u \o page.chunk = given
      <4> DEFINE m == first + 1
                 e == o + k
      <4>1. m \in 1 .. Len(s) + 1 /\ o \in m - 1 .. Len(s) /\ e \in o .. Len(s)
        BY <1>1, <1>3, <3>1
      <4> HIDE DEF m, e
      <4>2. SubSeq(s, m, o) \o SubSeq(s, o + 1, e) = SubSeq(s, m, e)
        BY <1>1, <4>1, ConcatAdjacentSubSeq
      <4> QED BY <1>4, <2>1, <4>2 DEF m, e
    <3> QED BY <3>2, <3>3, <3>4, <3>5
  <2> HIDE DEF u, f
  <2>5. SubSeq(given, 1, Len(given) - k) = u
    <3>1. Len(given) = Len(u) + k
      BY <1>3, <2>4, ConcatProperties DEF k
    <3>2. Len(u) \in Nat /\ Len(given) - k = Len(u)
      BY <1>3, <2>4, <3>1, LenProperties
    <3>3. SubSeq(u \o page.chunk, 1, Len(u)) = u
      BY <1>3, <2>4, StartCut
    <3> QED BY <2>4, <3>2, <3>3
  <2>6. SubSeq(b, first + 1, o + n) = u \o text
    <3>1. u \o text \in Seq(Units) /\ Len(u \o text) = (o - first) + n
      BY <1>1, <2>4, ConcatProperties DEF n
    <3>2. b = (f \o (u \o text)) \o c
      <4>1. (f \o u) \o text = f \o (u \o text)
        <5>1. f \in Seq(Units) /\ u \in Seq(Units) /\ text \in Seq(Units)
          BY <1>1, <2>4
        <5> QED BY <5>1, ConcatAssociative
      <4> QED BY <2>4, <4>1 DEF b
    <3>3. SubSeq((f \o (u \o text)) \o c, Len(f) + 1, Len(f) + Len(u \o text)) = u \o text
      BY <1>8, <2>4, <3>1, MiddleCut
    <3>4. Len(f) + Len(u \o text) = o + n
      BY <1>1, <1>3, <2>1, <2>4, <3>1
    <3> QED BY <2>4, <3>2, <3>3, <3>4
  <2>7. given' = SubSeq(b, first + 1, o + n)
    BY <1>6, <2>5, <2>6
  <2>8. page'.seen = body' /\ at' = PageEnd' /\ page'.offset = o /\ first' <= page'.offset
    BY <1>6, <1>7, <1>13, <2>1, <2>2
  <2> QED BY <1>6, <2>2, <2>3, <2>7, <2>8 DEF OneWindow
<1>19. more' = "yes" /\ limit' # 1 => page'.got > 0
  BY <1>2, <1>6, <1>7, <1>13 DEF WindowInv
<1> QED BY <1>1, <1>6, <1>7, <1>10, <1>13, <1>15, <1>16, <1>17, <1>18, <1>19 DEF WindowInv

(* Somebody else appends or prepends.                                      *)
LEMMA OtherKeeps ==
  ASSUME WindowAssumption, WindowInv, NEW text \in Texts, otherPatch(text)
  PROVE  WindowInv'
<1>1. /\ body \in Seq(Units) /\ WellFormed(body)
      /\ text \in Seq(Units) /\ WellFormed(text)
  BY WindowAssumption DEF WindowInv, WindowAssumption
<1>2. /\ body \o text \in Seq(Units) /\ WellFormed(body \o text)
      /\ text \o body \in Seq(Units) /\ WellFormed(text \o body)
  BY <1>1, WellFormedJoint
<1>3. body' # <<>> /\ body' \in {body \o text, text \o body}
  BY DEF otherPatch, Patched, Acceptable
<1>4. body' \in Seq(Units) /\ WellFormed(body')
  BY <1>2, <1>3
<1>5. steady' = "no" /\ UNCHANGED <<limit, at, more, page, given, first>>
  BY DEF otherPatch
<1> QED BY <1>3, <1>4, <1>5 DEF WindowInv

LEMMA WindowInvAlways == WindowsSpec => []WindowInv
<1>1. WindowsInit => WindowInv
  BY WindowInit, WindowAssumption
<1>2. WindowInv /\ [WindowsNext]_bwVars => WindowInv'
  <2> SUFFICES ASSUME WindowInv, [WindowsNext]_bwVars PROVE WindowInv'
    OBVIOUS
  <2>1. CASE UNCHANGED bwVars
    BY <2>1 DEF bwVars, WindowInv, OneWindow, PageEnd
  <2> QED BY <2>1, PageKeeps, WriteKeeps, OtherKeeps, WindowAssumption DEF WindowsNext
<1> QED BY <1>1, <1>2, PTL DEF WindowsSpec

\* For every body, limit and offset, and any number of patches, the pages
\* cover the body once and in order, split no pair and get on.
THEOREM PagesCover == WindowsSpec => []PagesCoverBody
<1>1. WindowInv => PagesCoverBody
  <2> SUFFICES ASSUME WindowInv, page.seen # <<>> PROVE PagesCoverBody
    BY DEF PagesCoverBody
  <2>1. page # NoPage /\ Window(page) /\ page \in Pages
    BY NoPageTyped DEF WindowInv
  <2>2. EndOf(page) = PageEnd
    BY DEF EndOf, PageEnd
  <2>3. ASSUME steady = "yes"
        PROVE  /\ given = SubSeq(body, first + 1, PageEnd)
               /\ more = "no" <=> PageEnd = Len(body)
               /\ ~SplitsPair(body, PageEnd)
    BY <2>1, <2>2, <2>3 DEF WindowInv, OneWindow, Window
  <2>4. more = "yes" /\ limit # 1 => page.got > 0
    BY <2>1 DEF WindowInv
  <2>5. ASSUME page.seen = body
        PROVE  Splice(body, page.offset, Len(page.chunk), page.chunk) = body
    <3> DEFINE o == page.offset
               n == Len(page.chunk)
    <3>1. o \in Nat /\ n \in Nat /\ body \in Seq(Units)
      BY <2>1, LenProperties DEF Pages, WindowInv
    <3>2. /\ o + n <= Len(body) /\ ~SplitsPair(body, o) /\ ~SplitsPair(body, o + n)
          /\ page.chunk = SubSeq(body, o + 1, o + n)
      BY <2>1, <2>5 DEF Window, EndOf
    <3> HIDE DEF o, n
    <3>3. Splice(body, o, n, SubSeq(body, o + 1, o + n)) = body
      BY <3>1, <3>2, WindowSplicedBack
    <3> QED BY <3>2, <3>3 DEF o, n
  <2> QED BY <2>3, <2>4, <2>5 DEF PagesCoverBody
<1> QED BY <1>1, WindowInvAlways, PTL

---------------------------------------------------------------------------
\* BufferRing: ends of sequences

LEMMA LastNProperties ==
  ASSUME NEW S, NEW s \in Seq(S), NEW n \in Nat
  PROVE  /\ LastN(s, n) \in Seq(S)
         /\ Len(LastN(s, n)) = IF Len(s) > n THEN n ELSE Len(s)
         /\ \A i \in 1 .. Len(LastN(s, n)) :
              LastN(s, n)[i] = s[i + Len(s) - Len(LastN(s, n))]
<1> DEFINE m == IF Len(s) > n THEN Len(s) - n + 1 ELSE 1
<1>1. Len(s) \in Nat /\ m \in Int /\ m >= 1 /\ m <= Len(s) + 1
  BY LenProperties
<1>2. \A i \in m .. Len(s) : s[i] \in S
  BY <1>1, ElementOfSeq
<1>3. /\ SubSeq(s, m, Len(s)) \in Seq(S)
      /\ Len(SubSeq(s, m, Len(s))) = IF m <= Len(s) THEN Len(s) - m + 1 ELSE 0
      /\ \A i \in 1 .. Len(s) - m + 1 : SubSeq(s, m, Len(s))[i] = s[m + i - 1]
  BY <1>1, <1>2, SubSeqProperties
<1>4. LastN(s, n) = SubSeq(s, m, Len(s))
  BY DEF LastN
<1>5. Len(s) - m + 1 = IF Len(s) > n THEN n ELSE Len(s)
  BY <1>1
<1> HIDE DEF m
<1>6. Len(LastN(s, n)) = Len(s) - m + 1
  <2>1. (IF m <= Len(s) THEN Len(s) - m + 1 ELSE 0) = Len(s) - m + 1
    BY <1>1
  <2> QED BY <1>3, <1>4, <2>1, Zenon
<1>7. ASSUME NEW i \in 1 .. Len(LastN(s, n))
      PROVE  LastN(s, n)[i] = s[i + Len(s) - Len(LastN(s, n))]
  <2>1. i \in 1 .. Len(s) - m + 1
    BY <1>6
  <2>2. i + Len(s) - Len(LastN(s, n)) = m + i - 1
    BY <1>1, <1>6
  <2> QED BY <1>3, <1>4, <2>1, <2>2
<1> QED BY <1>3, <1>4, <1>5, <1>6, <1>7

LEMMA LastNOfShort ==
  ASSUME NEW S, NEW s \in Seq(S), NEW n \in Nat, Len(s) <= n
  PROVE  LastN(s, n) = s
<1>1. ~(Len(s) > n)
  BY LenProperties
<1>2. LastN(s, n) = SubSeq(s, 1, Len(s))
  BY <1>1, Zenon DEF LastN
<1> QED BY <1>2, SubSeqFull

LEMMA FirstNProperties ==
  ASSUME NEW S, NEW s \in Seq(S), NEW n \in Nat
  PROVE  /\ FirstN(s, n) \in Seq(S)
         /\ Len(FirstN(s, n)) = IF Len(s) > n THEN n ELSE Len(s)
         /\ \A i \in 1 .. Len(FirstN(s, n)) : FirstN(s, n)[i] = s[i]
<1> DEFINE m == IF Len(s) > n THEN n ELSE Len(s)
<1>1. Len(s) \in Nat /\ m \in Nat /\ m <= Len(s)
  BY LenProperties
<1>2. \A i \in 1 .. m : s[i] \in S
  BY <1>1, ElementOfSeq
<1>3. /\ SubSeq(s, 1, m) \in Seq(S)
      /\ Len(SubSeq(s, 1, m)) = IF 1 <= m THEN m - 1 + 1 ELSE 0
      /\ \A i \in 1 .. m - 1 + 1 : SubSeq(s, 1, m)[i] = s[1 + i - 1]
  BY <1>1, <1>2, SubSeqProperties
<1> QED BY <1>1, <1>3 DEF FirstN

\* The last n of a sequence to which an element was added.
LEMMA LastNOfAppend ==
  ASSUME NEW S, NEW s \in Seq(S), NEW e \in S, NEW n \in Nat \ {0}
  PROVE  LastN(Append(s, e), n) = IF Len(s) < n THEN Append(s, e)
                                  ELSE Append(Tail(LastN(s, n)), e)
<1> DEFINE t == LastN(s, n)
           a == Append(s, e)
<1>1. Len(s) \in Nat
  BY LenProperties
<1>2. /\ a \in Seq(S) /\ Len(a) = Len(s) + 1
      /\ \A i \in 1 .. Len(s) : a[i] = s[i]
      /\ a[Len(s) + 1] = e
  BY AppendProperties
<1>3. CASE Len(s) < n
  <2>1. Len(a) <= n
    BY <1>1, <1>2, <1>3
  <2>2. LastN(a, n) = a
    BY <1>2, <2>1, LastNOfShort
  <2> QED BY <1>3, <2>2
<1>4. CASE ~(Len(s) < n)
  <2>1. /\ t \in Seq(S) /\ Len(t) = n
        /\ \A i \in 1 .. n : t[i] = s[i + Len(s) - n]
    <3>1. Len(t) = IF Len(s) > n THEN n ELSE Len(s)
      BY LastNProperties
    <3>2. Len(t) = n
      BY <1>1, <1>4, <3>1
    <3>3. t \in Seq(S) /\ \A i \in 1 .. Len(t) : t[i] = s[i + Len(s) - Len(t)]
      BY LastNProperties
    <3> QED BY <3>2, <3>3
  <2> HIDE DEF t, a
  <2>2. t # <<>>
    BY <2>1, EmptySeq
  <2>3. /\ Tail(t) \in Seq(S) /\ Len(Tail(t)) = n - 1
        /\ \A i \in 1 .. n - 1 : Tail(t)[i] = t[i + 1]
    BY <2>1, <2>2, HeadTailProperties
  <2>4. /\ Append(Tail(t), e) \in Seq(S) /\ Len(Append(Tail(t), e)) = n
        /\ \A i \in 1 .. n - 1 : Append(Tail(t), e)[i] = Tail(t)[i]
        /\ Append(Tail(t), e)[n] = e
    <3>1. Len(Tail(t)) + 1 = n
      BY <2>3
    <3> QED BY <2>3, <3>1, AppendProperties
  <2>5. /\ LastN(a, n) \in Seq(S) /\ Len(LastN(a, n)) = n
        /\ \A i \in 1 .. n : LastN(a, n)[i] = a[i + Len(s) + 1 - n]
    <3>1. Len(LastN(a, n)) = IF Len(a) > n THEN n ELSE Len(a)
      BY <1>2, LastNProperties
    <3>2. Len(LastN(a, n)) = n
      BY <1>1, <1>2, <1>4, <3>1
    <3>3. \A i \in 1 .. n : LastN(a, n)[i] = a[i + Len(a) - n]
      BY <1>2, <3>2, LastNProperties
    <3>4. \A i \in 1 .. n : i + Len(a) - n = i + Len(s) + 1 - n
      BY <1>1, <1>2
    <3>5. LastN(a, n) \in Seq(S)
      BY <1>2, LastNProperties
    <3> QED BY <3>2, <3>3, <3>4, <3>5
  <2>6. ASSUME NEW i \in 1 .. n
        PROVE  LastN(a, n)[i] = Append(Tail(t), e)[i]
    <3>1. CASE i = n
      <4>1. i + Len(s) + 1 - n = Len(s) + 1
        BY <1>1, <3>1
      <4> QED BY <1>2, <2>4, <2>5, <3>1, <4>1
    <3>2. CASE i # n
      <4>1. i \in 1 .. n - 1 /\ i + 1 \in 1 .. n
        BY <3>2
      <4>2. LastN(a, n)[i] = s[i + 1 + Len(s) - n]
        <5>1. i + Len(s) + 1 - n \in 1 .. Len(s) /\ i + Len(s) + 1 - n = i + 1 + Len(s) - n
          BY <1>1, <1>4, <4>1
        <5> QED BY <1>2, <2>5, <5>1
      <4>3. Append(Tail(t), e)[i] = s[i + 1 + Len(s) - n]
        BY <2>1, <2>3, <2>4, <4>1
      <4> QED BY <4>2, <4>3
    <3> QED BY <3>1, <3>2
  <2>7. LastN(a, n) = Append(Tail(t), e)
    BY <2>4, <2>5, <2>6, SeqEqual
  <2> QED BY <1>4, <2>7 DEF t, a
<1> QED BY <1>3, <1>4

\* What was appended last is what a sequence ends with.
LEMMA LastNOfConcat ==
  ASSUME NEW S, NEW s \in Seq(S), NEW t \in Seq(S)
  PROVE  LastN(s \o t, Len(t)) = t
<1>1. Len(s) \in Nat /\ Len(t) \in Nat
  BY LenProperties
<1>2. /\ s \o t \in Seq(S) /\ Len(s \o t) = Len(s) + Len(t)
      /\ \A i \in 1 .. Len(s) + Len(t) :
           (s \o t)[i] = IF i <= Len(s) THEN s[i] ELSE t[i - Len(s)]
  BY ConcatProperties
<1>3. Len(LastN(s \o t, Len(t))) = Len(t)
  <2>1. Len(LastN(s \o t, Len(t))) = IF Len(s \o t) > Len(t) THEN Len(t) ELSE Len(s \o t)
    BY <1>1, <1>2, LastNProperties
  <2> QED BY <1>1, <1>2, <2>1
<1>4. /\ LastN(s \o t, Len(t)) \in Seq(S)
      /\ \A i \in 1 .. Len(LastN(s \o t, Len(t))) :
           LastN(s \o t, Len(t))[i] = (s \o t)[i + Len(s \o t) - Len(LastN(s \o t, Len(t)))]
  BY <1>1, <1>2, LastNProperties
<1>5. ASSUME NEW i \in 1 .. Len(t) PROVE LastN(s \o t, Len(t))[i] = t[i]
  <2>1. LastN(s \o t, Len(t))[i] = (s \o t)[i + Len(s \o t) - Len(LastN(s \o t, Len(t)))]
    BY <1>3, <1>4
  <2>2. /\ i + Len(s \o t) - Len(LastN(s \o t, Len(t))) = i + Len(s)
        /\ i + Len(s) \in 1 .. Len(s) + Len(t) /\ ~(i + Len(s) <= Len(s))
        /\ (i + Len(s)) - Len(s) = i
    BY <1>1, <1>2, <1>3
  <2> QED BY <1>2, <2>1, <2>2
<1> QED BY <1>3, <1>4, <1>5, SeqEqual

---------------------------------------------------------------------------
\* BufferRing: the ring

RingEntries == 1 .. MaxEntries

(* What a ring is between two calls.  One that drops wraps around within   *)
(* its capacity; one that grows never wraps, and may hold one entry more   *)
(* than its capacity, unless that is one, until it has grown.              *)
GoodRing(r) ==
  /\ r \in [slots : Seq(RingEntries), capacity : Nat \ {0}, isFull : BOOLEAN, writeIndex : Nat]
  /\ ~r.isFull => r.writeIndex = Len(r.slots)
  /\ strategy # "resize" =>
       /\ r.isFull => Len(r.slots) = r.capacity /\ r.writeIndex < r.capacity
       /\ ~r.isFull => Len(r.slots) < r.capacity
  /\ strategy = "resize" =>
       /\ r.isFull => r.writeIndex = 0 /\ Len(r.slots) <= r.capacity + 1
       /\ ~r.isFull => Len(r.slots) <= r.capacity
       /\ r.capacity = 1 => Len(r.slots) = IF r.isFull THEN 1 ELSE 0
  /\ use # "memory" => r.capacity = Capacity

LEMMA Wraps ==
  ASSUME NEW n \in Nat \ {0}, NEW w \in 0 .. n - 1
  PROVE  (w + 1) % n = IF w + 1 = n THEN 0 ELSE w + 1
  BY SMT

(* The slots from the w-th on come before those up to it.                   *)
Unwound(s, w) == SubSeq(s, w + 1, Len(s)) \o SubSeq(s, 1, w)

LEMMA UnwoundProperties ==
  ASSUME NEW S, NEW s \in Seq(S), NEW n \in Nat, Len(s) = n, NEW w \in 0 .. n
  PROVE  /\ Unwound(s, w) \in Seq(S) /\ Len(Unwound(s, w)) = n
         /\ \A i \in 1 .. n - w : Unwound(s, w)[i] = s[w + i]
         /\ \A i \in 1 .. w : Unwound(s, w)[n - w + i] = s[i]
<1> DEFINE a == SubSeq(s, w + 1, n)
           b == SubSeq(s, 1, w)
<1>1. w \in Nat /\ w <= n /\ n - w \in Nat
  OBVIOUS
<1>2. \A i \in 1 .. n : s[i] \in S
  BY ElementOfSeq
<1>3. /\ a \in Seq(S) /\ Len(a) = n - w
      /\ \A i \in 1 .. n - w : a[i] = s[w + i]
  <2>1. /\ a \in Seq(S) /\ Len(a) = IF w + 1 <= n THEN n - (w + 1) + 1 ELSE 0
        /\ \A i \in 1 .. n - (w + 1) + 1 : a[i] = s[w + 1 + i - 1]
    BY <1>1, <1>2, SubSeqProperties
  <2>2. \A i \in 1 .. n - w : i \in 1 .. n - (w + 1) + 1 /\ w + 1 + i - 1 = w + i
    BY <1>1
  <2>3. (IF w + 1 <= n THEN n - (w + 1) + 1 ELSE 0) = n - w
    BY <1>1
  <2> HIDE DEF a
  <2> QED BY <2>1, <2>2, <2>3, Zenon
<1>4. /\ b \in Seq(S) /\ Len(b) = w
      /\ \A i \in 1 .. w : b[i] = s[i]
  <2>1. /\ b \in Seq(S) /\ Len(b) = IF 1 <= w THEN w - 1 + 1 ELSE 0
        /\ \A i \in 1 .. w - 1 + 1 : b[i] = s[1 + i - 1]
    BY <1>1, <1>2, SubSeqProperties
  <2> HIDE DEF b
  <2> QED BY <1>1, <2>1
<1>5. Unwound(s, w) = a \o b
  BY Zenon DEF Unwound
<1> HIDE DEF a, b
<1>6. /\ a \o b \in Seq(S) /\ Len(a \o b) = Len(a) + Len(b)
      /\ \A i \in 1 .. Len(a) + Len(b) :
           (a \o b)[i] = IF i <= Len(a) THEN a[i] ELSE b[i - Len(a)]
  BY <1>3, <1>4, ConcatProperties
<1>7. Len(a) + Len(b) = n
  BY <1>1, <1>3, <1>4
<1>8. ASSUME NEW i \in 1 .. n - w PROVE (a \o b)[i] = s[w + i]
  <2>1. i \in 1 .. n /\ i <= n - w
    BY <1>1
  <2> QED BY <1>3, <1>6, <1>7, <2>1, Zenon
<1>9. ASSUME NEW i \in 1 .. w PROVE (a \o b)[n - w + i] = s[i]
  <2>1. n - w + i \in 1 .. n /\ ~(n - w + i <= n - w) /\ (n - w + i) - (n - w) = i
    BY <1>1
  <2>2. (a \o b)[n - w + i] = b[(n - w + i) - (n - w)]
    BY <1>3, <1>6, <1>7, <2>1, Zenon
  <2> QED BY <1>4, <2>1, <2>2
<1> QED BY <1>5, <1>6, <1>7, <1>8, <1>9, Zenon

\* Overwriting the oldest entry: it goes, the rest moves up, the new one is
\* the last.
LEMMA OverwriteOldest ==
  ASSUME NEW S, NEW e \in S, NEW s \in Seq(S), NEW n \in Nat \ {0}, Len(s) = n,
         NEW w \in 0 .. n - 1, NEW v, v = IF w + 1 = n THEN 0 ELSE w + 1
  PROVE  Unwound([s EXCEPT ![w + 1] = e], v) = Append(Tail(Unwound(s, w)), e)
<1> DEFINE q == [s EXCEPT ![w + 1] = e]
           h == Unwound(s, w)
           g == Unwound(q, v)
<1>1. n \in Nat /\ w \in 0 .. n /\ w + 1 \in 1 .. n /\ v \in 0 .. n
  OBVIOUS
<1>2. /\ q \in Seq(S) /\ Len(q) = n
      /\ \A j \in 1 .. n : q[j] = IF j = w + 1 THEN e ELSE s[j]
  BY <1>1, ExceptSeq
<1> HIDE DEF q
<1>3. /\ h \in Seq(S) /\ Len(h) = n
      /\ \A i \in 1 .. n - w : h[i] = s[w + i]
      /\ \A i \in 1 .. w : h[n - w + i] = s[i]
  BY <1>1, UnwoundProperties
<1>4. /\ g \in Seq(S) /\ Len(g) = n
      /\ \A i \in 1 .. n - v : g[i] = q[v + i]
      /\ \A i \in 1 .. v : g[n - v + i] = q[i]
  <2>1. n \in Nat /\ v \in 0 .. n /\ q \in Seq(S) /\ Len(q) = n
    BY <1>1, <1>2
  <2> QED BY <2>1, UnwoundProperties
<1> HIDE DEF h, g
<1>5. h # <<>>
  BY <1>3, EmptySeq
<1>6. /\ Tail(h) \in Seq(S) /\ Len(Tail(h)) = n - 1
      /\ \A i \in 1 .. n - 1 : Tail(h)[i] = h[i + 1]
  BY <1>3, <1>5, HeadTailProperties
<1>7. /\ Append(Tail(h), e) \in Seq(S) /\ Len(Append(Tail(h), e)) = n
      /\ \A i \in 1 .. n - 1 : Append(Tail(h), e)[i] = h[i + 1]
      /\ Append(Tail(h), e)[n] = e
  <2>1. /\ Append(Tail(h), e) \in Seq(S) /\ Len(Append(Tail(h), e)) = Len(Tail(h)) + 1
        /\ \A i \in 1 .. Len(Tail(h)) : Append(Tail(h), e)[i] = Tail(h)[i]
        /\ Append(Tail(h), e)[Len(Tail(h)) + 1] = e
    BY <1>6, AppendProperties
  <2>2. Len(Tail(h)) + 1 = n
    BY <1>6
  <2> QED BY <1>6, <2>1, <2>2
<1>8. g[n] = e
  <2>1. CASE v = 0
    <3>1. n \in 1 .. n - v /\ v + n = w + 1
      BY <2>1
    <3> QED BY <1>1, <1>2, <1>4, <2>1, <3>1
  <2>2. CASE v # 0
    <3>1. v \in 1 .. v /\ n - v + v = n /\ v = w + 1
      BY <1>1, <2>2
    <3> QED BY <1>1, <1>2, <1>4, <3>1
  <2> QED BY <2>1, <2>2
<1>9. ASSUME NEW i \in 1 .. n - 1 PROVE g[i] = h[i + 1]
  <2>1. CASE i < n - w
    <3>1. i + 1 \in 1 .. n - w /\ i \in 1 .. n - v /\ v + i = w + (i + 1)
          /\ v + i \in 1 .. n /\ v + i # w + 1
      BY <2>1
    <3> QED BY <1>2, <1>3, <1>4, <3>1
  <2>2. CASE ~(i < n - w)
    <3> DEFINE j == i + 1 - (n - w)
    <3>1. j \in 1 .. w /\ n - w + j = i + 1 /\ j \in 1 .. n /\ j # w + 1
      BY <2>2
    <3>2. h[i + 1] = s[j]
      BY <1>3, <3>1
    <3>3. CASE v = 0
      <4>1. i \in 1 .. n - v /\ v + i = j
        BY <3>3
      <4> QED BY <1>2, <1>4, <3>1, <3>2, <4>1
    <3>4. CASE v # 0
      <4>1. j \in 1 .. v /\ n - v + j = i
        BY <3>1, <3>4
      <4> QED BY <1>2, <1>4, <3>1, <3>2, <4>1
    <3> QED BY <3>3, <3>4
  <2> QED BY <2>1, <2>2
<1>10. g = Append(Tail(h), e)
  <2>1. \A i \in 1 .. n : g[i] = Append(Tail(h), e)[i]
    BY <1>7, <1>8, <1>9
  <2> QED BY <1>4, <1>7, <2>1, SeqEqual
<1> QED BY <1>10 DEF g, h, q

(* The two forms of a ring.                                                *)
FullRing(s, cap, w) == [slots |-> s, capacity |-> cap, isFull |-> TRUE, writeIndex |-> w]
OpenRing(s, cap)    == [slots |-> s, capacity |-> cap, isFull |-> FALSE, writeIndex |-> Len(s)]

LEMMA RingForms ==
  ASSUME NEW r, GoodRing(r)
  PROVE  /\ r.isFull  => r = FullRing(r.slots, r.capacity, r.writeIndex)
         /\ ~r.isFull => r = OpenRing(r.slots, r.capacity)
  BY DEF GoodRing, FullRing, OpenRing

LEMMA FullRingFields ==
  ASSUME NEW s, NEW cap, NEW w
  PROVE  /\ FullRing(s, cap, w).slots = s /\ FullRing(s, cap, w).capacity = cap
         /\ FullRing(s, cap, w).isFull /\ FullRing(s, cap, w).writeIndex = w
         /\ Held(FullRing(s, cap, w)) = Unwound(s, w)
<1>1. /\ FullRing(s, cap, w).slots = s /\ FullRing(s, cap, w).capacity = cap
      /\ FullRing(s, cap, w).isFull /\ FullRing(s, cap, w).writeIndex = w
  BY DEF FullRing
<1> QED BY <1>1, Zenon DEF Held, Unwound

LEMMA OpenRingFields ==
  ASSUME NEW s \in Seq(RingEntries), NEW cap
  PROVE  /\ OpenRing(s, cap).slots = s /\ OpenRing(s, cap).capacity = cap
         /\ ~OpenRing(s, cap).isFull /\ OpenRing(s, cap).writeIndex = Len(s)
         /\ Held(OpenRing(s, cap)) = s
<1>1. /\ OpenRing(s, cap).slots = s /\ OpenRing(s, cap).capacity = cap
      /\ ~OpenRing(s, cap).isFull /\ OpenRing(s, cap).writeIndex = Len(s)
  BY DEF OpenRing
<1>2. Held(OpenRing(s, cap)) = SubSeq(s, 1, Len(s))
  BY <1>1, Zenon DEF Held
<1> QED BY <1>1, <1>2, SubSeqFull

LEMMA UnwoundFromStart ==
  ASSUME NEW s \in Seq(RingEntries)
  PROVE  Unwound(s, 0) = s
<1>1. SubSeq(s, 1, 0) = <<>> /\ 0 + 1 = 1
  BY SubSeqEmpty
<1> QED BY <1>1, SubSeqFull, ConcatEmptySeq, Zenon DEF Unwound

LEMMA GoodFullRing ==
  ASSUME NEW s \in Seq(RingEntries), NEW cap \in Nat \ {0}, NEW w \in Nat,
         strategy # "resize" => Len(s) = cap /\ w < cap,
         strategy = "resize" => w = 0 /\ Len(s) <= cap + 1 /\ (cap = 1 => Len(s) = 1),
         use # "memory" => cap = Capacity
  PROVE  GoodRing(FullRing(s, cap, w))
  BY DEF GoodRing, FullRing

LEMMA GoodOpenRing ==
  ASSUME NEW s \in Seq(RingEntries), NEW cap \in Nat \ {0},
         strategy # "resize" => Len(s) < cap,
         strategy = "resize" => Len(s) <= cap /\ (cap = 1 => Len(s) = 0),
         use # "memory" => cap = Capacity
  PROVE  GoodRing(OpenRing(s, cap))
<1>1. Len(s) \in Nat
  BY LenProperties
<1> QED BY <1>1 DEF GoodRing, OpenRing

LEMMA HeldProperties ==
  ASSUME NEW r, GoodRing(r)
  PROVE  /\ Held(r) \in Seq(RingEntries)
         /\ Len(Held(r)) = Len(r.slots)
<1>1. r.slots \in Seq(RingEntries) /\ Len(r.slots) \in Nat
  BY LenProperties DEF GoodRing
<1>2. CASE ~r.isFull
  BY <1>1, <1>2, RingForms, OpenRingFields
<1>3. CASE r.isFull
  <2>1. Held(r) = Unwound(r.slots, r.writeIndex)
    BY <1>3, Zenon DEF Held, Unwound
  <2>2. r.writeIndex \in 0 .. Len(r.slots)
    BY <1>1, <1>3 DEF GoodRing
  <2> QED BY <1>1, <2>1, <2>2, UnwoundProperties
<1> QED BY <1>2, <1>3

\* Entries that fit go into an empty ring as they are.
LEMMA FilledHolds ==
  ASSUME NEW cap \in Nat \ {0}, NEW s \in Seq(RingEntries), Len(s) <= cap,
         use # "memory" => cap = Capacity
  PROVE  /\ GoodRing(Filled(cap, s)) /\ Held(Filled(cap, s)) = s
         /\ Filled(cap, s).capacity = cap
         /\ Len(s) < cap => Filled(cap, s) = OpenRing(s, cap)
<1>1. Len(s) \in Nat
  BY LenProperties
<1>2. CASE Len(s) = cap
  <2>1. Filled(cap, s) = FullRing(s, cap, 0)
    BY <1>2, Zenon DEF Filled, FullRing
  <2>2. 0 \in Nat /\ 0 < cap /\ Len(s) <= cap + 1 /\ (cap = 1 => Len(s) = 1)
    BY <1>2
  <2>3. GoodRing(FullRing(s, cap, 0))
    BY <1>2, <2>2, GoodFullRing
  <2> QED BY <1>2, <2>1, <2>3, FullRingFields, UnwoundFromStart
<1>3. CASE Len(s) # cap
  <2>1. Filled(cap, s) = OpenRing(s, cap)
    BY <1>3, Zenon DEF Filled, OpenRing
  <2>2. Len(s) < cap /\ (cap = 1 => Len(s) = 0)
    BY <1>1, <1>3
  <2>3. GoodRing(OpenRing(s, cap))
    BY <1>1, <2>2, GoodOpenRing
  <2> QED BY <2>1, <2>3, OpenRingFields
<1> QED BY <1>2, <1>3

LEMMA PlacedAppends ==
  ASSUME NEW s \in Seq(RingEntries), NEW e
  PROVE  Placed(s, Len(s), e) = Append(s, e)
<1>1. ~(Len(s) < Len(s))
  BY LenProperties
<1> QED BY <1>1 DEF Placed

\* add() on a ring with room.
LEMMA AddedWithRoom ==
  ASSUME RingAssumption, NEW r, GoodRing(r), NEW e \in RingEntries, ~r.isFull
  PROVE  /\ GoodRing(Added(r, e)) /\ Held(Added(r, e)) = Append(Held(r), e)
         /\ Added(r, e).capacity = r.capacity
<1> DEFINE s == r.slots
           cap == r.capacity
           n == Len(s)
           a == Append(s, e)
<1>1. /\ s \in Seq(RingEntries) /\ n \in Nat /\ cap \in Nat \ {0}
      /\ r.writeIndex = n
  BY LenProperties DEF GoodRing
<1>2. r = OpenRing(s, cap)
  BY RingForms
<1>3. Placed(s, n, e) = a
  BY <1>1, PlacedAppends
<1>4. a \in Seq(RingEntries) /\ Len(a) = n + 1
  BY <1>1, AppendProperties
<1>5. Added(r, e) = [r EXCEPT !.slots = Placed(@, r.writeIndex, e),
                              !.isFull = n + 1 >= cap,
                              !.writeIndex = IF n + 1 >= cap THEN 0 ELSE n + 1]
  BY <1>1, Zenon DEF Added
<1>6. Held(r) = s
  BY <1>1, <1>2, OpenRingFields
<1>7. n <= cap /\ (strategy # "resize" => n < cap) /\ (strategy = "resize" /\ cap = 1 => n = 0)
  BY <1>1 DEF GoodRing
<1>8. use # "memory" => cap = Capacity
  BY DEF GoodRing
<1> HIDE DEF s, cap, a
<1>9. CASE n + 1 >= cap
  <2>1. (n + 1 >= cap) = TRUE
    BY <1>9
  <2>2. Added(r, e) = FullRing(a, cap, 0)
    BY <1>2, <1>3, <1>5, <2>1 DEF FullRing, OpenRing
  <2>3. /\ strategy # "resize" => Len(a) = cap /\ 0 < cap
        /\ Len(a) <= cap + 1 /\ (strategy = "resize" /\ cap = 1 => Len(a) = 1)
    BY <1>1, <1>4, <1>7, <1>9
  <2>4. GoodRing(FullRing(a, cap, 0))
    BY <1>1, <1>4, <1>8, <2>3, GoodFullRing
  <2>5. Held(FullRing(a, cap, 0)) = a /\ FullRing(a, cap, 0).capacity = cap
    BY <1>4, FullRingFields, UnwoundFromStart
  <2>6. a = Append(Held(r), e) /\ cap = r.capacity
    BY <1>6 DEF a, cap
  <2> QED BY <2>2, <2>4, <2>5, <2>6
<1>10. CASE ~(n + 1 >= cap)
  <2>1. (n + 1 >= cap) = FALSE
    BY <1>10
  <2>2. Added(r, e) = OpenRing(a, cap)
    BY <1>2, <1>3, <1>4, <1>5, <2>1 DEF OpenRing
  <2>3. GoodRing(OpenRing(a, cap))
    BY <1>1, <1>4, <1>7, <1>8, <1>10, GoodOpenRing
  <2>4. Held(OpenRing(a, cap)) = a /\ OpenRing(a, cap).capacity = cap
    BY <1>4, OpenRingFields
  <2>5. a = Append(Held(r), e) /\ cap = r.capacity
    BY <1>6 DEF a, cap
  <2> QED BY <2>2, <2>3, <2>4, <2>5
<1> QED BY <1>9, <1>10

\* add() on a full ring that drops its oldest entry.
LEMMA AddedOverOldest ==
  ASSUME RingAssumption, NEW r, GoodRing(r), NEW e \in RingEntries, r.isFull,
         strategy = "drop-oldest"
  PROVE  /\ GoodRing(Added(r, e)) /\ Held(Added(r, e)) = Append(Tail(Held(r)), e)
         /\ Added(r, e).capacity = r.capacity
<1> DEFINE s == r.slots
           n == r.capacity
           w == r.writeIndex
           a == [s EXCEPT ![w + 1] = e]
           v == IF w + 1 = n THEN 0 ELSE w + 1
<1>1. /\ s \in Seq(RingEntries) /\ Len(s) = n /\ n \in Nat \ {0}
      /\ w \in 0 .. n - 1 /\ w + 1 \in 1 .. Len(s) /\ w < n
  BY DEF GoodRing
<1>2. r = FullRing(s, n, w)
  BY RingForms
<1>3. Added(r, e) = [r EXCEPT !.slots = Placed(@, w, e), !.writeIndex = (@ + 1) % n]
  BY Zenon DEF Added
<1>4. use # "memory" => n = Capacity
  BY DEF GoodRing
<1>5. Held(r) = Unwound(s, w)
  BY <1>2, FullRingFields
<1> HIDE DEF s, n, w
<1>6. Placed(s, w, e) = a
  BY <1>1 DEF Placed
<1>7. (w + 1) % n = v
  BY <1>1, Wraps
<1>8. a \in Seq(RingEntries) /\ Len(a) = n
  BY <1>1, ExceptSeq
<1>9. Unwound(a, v) = Append(Tail(Unwound(s, w)), e)
  <2>1. n = Len(s) /\ v = IF w + 1 = n THEN 0 ELSE w + 1
    BY <1>1
  <2> HIDE DEF v
  <2> QED BY <1>1, <2>1, OverwriteOldest
<1>10. v \in Nat /\ v < n
  BY <1>1
<1> HIDE DEF a, v
<1>11. Added(r, e) = FullRing(a, n, v)
  BY <1>2, <1>3, <1>6, <1>7 DEF FullRing
<1>12. GoodRing(FullRing(a, n, v))
  BY <1>1, <1>4, <1>8, <1>10, GoodFullRing
<1> QED BY <1>5, <1>9, <1>11, <1>12, FullRingFields DEF n

\* add() on a full ring that grows.
LEMMA AddedByGrowing ==
  ASSUME RingAssumption, NEW r, GoodRing(r), NEW e \in RingEntries, r.isFull,
         strategy = "resize", use = "memory"
  PROVE  GoodRing(Added(r, e)) /\ Held(Added(r, e)) = Append(Held(r), e)
<1> DEFINE h == Held(r)
           a == Append(h, e)
           cap == 2 * r.capacity
<1>1. h \in Seq(RingEntries) /\ Len(h) \in Nat /\ Len(h) = Len(r.slots)
  BY HeldProperties, LenProperties
<1>2. r.capacity \in Nat \ {0} /\ Len(r.slots) <= r.capacity + 1
      /\ (r.capacity = 1 => Len(r.slots) = 1)
  BY DEF GoodRing
<1>3. Len(h) < cap /\ cap \in Nat \ {0} /\ cap # 1
  <2> DEFINE c == r.capacity
             n == Len(h)
  <2>1. c \in Nat \ {0} /\ n \in Nat /\ n <= c + 1 /\ (c = 1 => n = 1)
    BY <1>1, <1>2
  <2> HIDE DEF c, n
  <2>2. n < 2 * c /\ 2 * c \in Nat \ {0} /\ 2 * c # 1
    BY <2>1
  <2> QED BY <2>2 DEF c, n
<1>4. LastN(h, cap) = h
  BY <1>1, <1>3, LastNOfShort
<1>5. Resized(r, cap) = OpenRing(h, cap)
  <2>1. Resized(r, cap) = Filled(cap, h)
    BY <1>4, Zenon DEF Resized
  <2> HIDE DEF h, cap
  <2> QED BY <1>1, <1>3, <2>1, FilledHolds
<1>6. Added(r, e) = [OpenRing(h, cap) EXCEPT
                       !.slots = Placed(@, OpenRing(h, cap).writeIndex, e),
                       !.writeIndex = @ + 1]
  BY <1>5, Zenon DEF Added
<1> HIDE DEF h, cap
<1>7. Placed(h, Len(h), e) = a
  BY <1>1, PlacedAppends
<1>8. a \in Seq(RingEntries) /\ Len(a) = Len(h) + 1
  BY <1>1, AppendProperties
<1>9. Added(r, e) = OpenRing(a, cap)
  BY <1>6, <1>7, <1>8 DEF OpenRing
<1>10. Len(a) <= cap
  BY <1>1, <1>3, <1>8
<1> HIDE DEF a
<1>11. GoodRing(OpenRing(a, cap))
  BY <1>3, <1>8, <1>10, GoodOpenRing
<1>12. Held(OpenRing(a, cap)) = a
  BY <1>8, OpenRingFields
<1> QED BY <1>9, <1>11, <1>12 DEF a, h

---------------------------------------------------------------------------
\* BufferRing: what the calls keep

RingOptionsOK ==
  /\ strategy \in {"drop-oldest", "drop-newest", "resize", "error"}
  /\ use # "memory" => strategy = "drop-oldest"
  /\ appendMode \in {"yes", "no"}

(* A file that the entries 1 .. n went through: all of them, if it is one  *)
(* of lines, and otherwise no more than a new ring has room for.           *)
GoodFile(f, n) ==
  /\ f \in [kind : {"none", "lines", "snapshot"}, entries : Seq(RingEntries)]
  /\ appendMode = "no" => Len(f.entries) <= Capacity
  /\ use = "auto" /\ appendMode = "yes" => Range(f.entries) = 1 .. n

Latest(r, b) ==
  Held(r) = IF strategy = "resize" THEN b ELSE LastN(b, r.capacity)

EndsFile(s, f) ==
  use = "auto" /\ appendMode = "yes" => s = LastN(f.entries, Len(s))

(* The inductive invariant, of what a call works on.                       *)
Sound(st, n) ==
  /\ st = [ring |-> st.ring, ringFile |-> st.ringFile, base |-> st.base]
  /\ GoodRing(st.ring) /\ GoodFile(st.ringFile, n)
  /\ st.base \in Seq(RingEntries)
  /\ Latest(st.ring, st.base) /\ EndsFile(Held(st.ring), st.ringFile)

LEMMA HeldFits ==
  ASSUME NEW r, GoodRing(r), strategy # "resize"
  PROVE  Len(Held(r)) <= r.capacity
<1>1. r.capacity \in Nat /\ (r.isFull => Len(r.slots) = r.capacity)
      /\ (~r.isFull => Len(r.slots) < r.capacity) /\ Len(r.slots) \in Nat
  BY LenProperties DEF GoodRing
<1> QED BY <1>1, HeldProperties

LEMMA RangeOfLastN ==
  ASSUME NEW S, NEW s \in Seq(S), NEW n \in Nat
  PROVE  Range(LastN(s, n)) \subseteq Range(s)
<1> DEFINE t == LastN(s, n)
           k == Len(s) - Len(t)
<1>1. /\ t \in Seq(S) /\ Len(t) = IF Len(s) > n THEN n ELSE Len(s)
      /\ \A i \in 1 .. Len(t) : t[i] = s[i + Len(s) - Len(t)]
  BY LastNProperties
<1>2. Len(s) \in Nat /\ DOMAIN s = 1 .. Len(s) /\ DOMAIN t = 1 .. Len(t)
  BY <1>1, LenProperties
<1> HIDE DEF t
<1>3. \A i \in 1 .. Len(t) : i + Len(s) - Len(t) \in 1 .. Len(s)
  BY <1>1, <1>2
<1>4. Range(t) \subseteq Range(s)
  BY <1>1, <1>2, <1>3 DEF Range
<1> QED BY <1>4 DEF t

With(st, r, s) == [st EXCEPT !.ring = r, !.base = s]

LEMMA Recombined ==
  ASSUME NEW a, NEW f, NEW b, NEW st, st = [ring |-> a, ringFile |-> f, base |-> b],
         NEW r, NEW s
  PROVE  With(st, r, s) = [ring |-> r, ringFile |-> f, base |-> s]
<1> DEFINE q == [st EXCEPT !.ring = r]
<1>1. q = [ring |-> r, ringFile |-> f, base |-> b]
  OBVIOUS
<1>2. With(st, r, s) = [q EXCEPT !.base = s]
  BY DEF With
<1> HIDE DEF q
<1>3. [q EXCEPT !.base = s] = [ring |-> r, ringFile |-> f, base |-> s]
  BY <1>1
<1> QED BY <1>2, <1>3

\* Entries that go through add() into an empty ring leave everything sound.
LEMMA PersistedSound ==
  ASSUME RingAssumption, RingOptionsOK, NEW r, GoodRing(r), NEW n,
         NEW f, GoodFile(f, n), NEW s \in Seq(RingEntries), Held(r) = s,
         use = "auto" /\ appendMode = "yes" => Range(s) \subseteq Range(f.entries)
  PROVE  Sound(Persisted([ring |-> r, ringFile |-> f, base |-> s], s), n)
<1> DEFINE st == [ring |-> r, ringFile |-> f, base |-> s]
<1>1. Latest(r, s)
  <2>1. CASE strategy = "resize"
    BY <2>1 DEF Latest
  <2>2. CASE strategy # "resize"
    <3>1. r.capacity \in Nat /\ Len(s) <= r.capacity
      BY <2>2, HeldFits DEF GoodRing
    <3> QED BY <2>2, <3>1, LastNOfShort DEF Latest
  <2> QED BY <2>1, <2>2
<1>2. f.entries \in Seq(RingEntries) /\ Len(s) \in Nat
  BY LenProperties DEF GoodFile
<1>3. CASE s = <<>>
  <2>1. Len(s) = 0 /\ LastN(f.entries, 0) = <<>>
    <3>1. LastN(f.entries, 0) \in Seq(RingEntries) /\ Len(LastN(f.entries, 0)) = 0
      <4>1. Len(LastN(f.entries, 0)) = IF Len(f.entries) > 0 THEN 0 ELSE Len(f.entries)
        BY <1>2, LastNProperties
      <4>2. Len(f.entries) \in Nat
        BY <1>2, LenProperties
      <4> QED BY <1>2, <4>1, <4>2, LastNProperties
    <3> QED BY <1>3, <3>1, EmptySeq
  <2>2. Persisted(st, s) = st
    BY <1>3 DEF Persisted
  <2>3. EndsFile(s, f)
    BY <1>3, <2>1 DEF EndsFile
  <2> QED BY <1>1, <2>2, <2>3 DEF Sound
<1>4. CASE use # "auto"
  <2>1. Persisted(st, s) = st
    BY <1>4 DEF Persisted
  <2> QED BY <1>1, <1>4, <2>1 DEF Sound, EndsFile
<1>5. CASE s # <<>> /\ use = "auto" /\ appendMode = "yes"
  <2> DEFINE e == f.entries \o s
  <2>1. Persisted(st, s) = [ring |-> r, ringFile |-> Lines(e), base |-> s]
    BY <1>5 DEF Persisted
  <2>2. e \in Seq(RingEntries) /\ Range(e) = Range(f.entries) \cup Range(s)
    BY <1>2, ConcatProperties, RangeConcatenation
  <2>3. LastN(e, Len(s)) = s
    BY <1>2, LastNOfConcat
  <2>4. Range(e) = 1 .. n
    BY <1>5, <2>2 DEF GoodFile
  <2> HIDE DEF e
  <2>5. GoodFile(Lines(e), n) /\ EndsFile(s, Lines(e))
    BY <1>5, <2>2, <2>3, <2>4 DEF GoodFile, EndsFile, Lines
  <2> QED BY <1>1, <2>1, <2>5 DEF Sound
<1>6. CASE s # <<>> /\ use = "auto" /\ appendMode = "no"
  <2>1. Persisted(st, s) = [ring |-> r, ringFile |-> Snapshot(s), base |-> s]
    BY <1>6 DEF Persisted
  <2>2. Len(s) <= Capacity
    BY <1>6, HeldFits DEF RingOptionsOK, GoodRing
  <2>3. GoodFile(Snapshot(s), n) /\ EndsFile(s, Snapshot(s))
    BY <1>6, <2>2 DEF GoodFile, EndsFile, Snapshot
  <2> QED BY <1>1, <2>1, <2>3 DEF Sound
<1> QED BY <1>3, <1>4, <1>5, <1>6 DEF RingOptionsOK

\* The first read of a file of lines.
LEMMA LoadFromAppendSound ==
  ASSUME RingAssumption, RingOptionsOK, NEW n, NEW st, Sound(st, n)
  PROVE  Sound(LoadFromAppend(st), n)
<1> DEFINE f == st.ringFile
           cap == st.ring.capacity
           s == IF f.kind = "lines" THEN LastN(f.entries, cap) ELSE <<>>
           r == Filled(cap, s)
<1>1. /\ cap \in Nat \ {0} /\ f.entries \in Seq(RingEntries) /\ Len(f.entries) \in Nat
      /\ use # "memory" => cap = Capacity
  BY LenProperties DEF Sound, GoodRing, GoodFile
<1>2. /\ s \in Seq(RingEntries) /\ Len(s) <= cap /\ Range(s) \subseteq Range(f.entries)
  <2>1. CASE f.kind = "lines"
    <3>1. /\ LastN(f.entries, cap) \in Seq(RingEntries)
          /\ Len(LastN(f.entries, cap)) = IF Len(f.entries) > cap THEN cap ELSE Len(f.entries)
          /\ Range(LastN(f.entries, cap)) \subseteq Range(f.entries)
      BY <1>1, LastNProperties, RangeOfLastN
    <3>2. Len(LastN(f.entries, cap)) <= cap
      BY <1>1, <3>1
    <3> QED BY <2>1, <3>1, <3>2
  <2>2. CASE f.kind # "lines"
    <3>1. <<>> \in Seq(RingEntries) /\ Len(<<>>) = 0 /\ Range(<<>>) = {}
      BY EmptySeq DEF Range
    <3> QED BY <1>1, <2>2, <3>1
  <2> QED BY <2>1, <2>2
<1>3. GoodRing(r) /\ Held(r) = s
  <2> HIDE DEF s
  <2> QED BY <1>1, <1>2, FilledHolds
<1>4. CASE f.kind = "none"
  BY <1>4 DEF LoadFromAppend
<1>5. CASE f.kind # "none"
  <2>1. [st EXCEPT !.ring = r, !.base = s] = [ring |-> r, ringFile |-> f, base |-> s]
    <3> DEFINE a == st.ring
               b == st.base
    <3>1. st = [ring |-> a, ringFile |-> f, base |-> b]
      BY DEF Sound
    <3> HIDE DEF a, b, r, s, f
    <3>2. With(st, r, s) = [ring |-> r, ringFile |-> f, base |-> s]
      BY <3>1, Recombined
    <3> QED BY <3>2, Zenon DEF With
  <2>2. LoadFromAppend(st) = Persisted([ring |-> r, ringFile |-> f, base |-> s], s)
    BY <1>5, <2>1, Zenon DEF LoadFromAppend
  <2>3. GoodFile(f, n)
    BY DEF Sound
  <2> HIDE DEF r, s, f
  <2> QED BY <1>2, <1>3, <2>2, <2>3, PersistedSound
<1> QED BY <1>4, <1>5

LEMMA FirstReadSound ==
  ASSUME RingAssumption, RingOptionsOK, NEW n, NEW st, Sound(st, n)
  PROVE  Sound(FirstRead(st), n)
  BY LoadFromAppendSound DEF FirstRead

\* A snapshot put back into an empty ring.
LEMMA LoadFromDiskSound ==
  ASSUME RingAssumption, RingOptionsOK, appendMode = "no", use # "memory",
         NEW n, NEW st, Sound(st, n), st.ring.capacity = Capacity
  PROVE  Sound(LoadFromDisk(st), n)
<1> DEFINE f == st.ringFile
           s == f.entries
           r == Filled(Capacity, s)
<1>1. s \in Seq(RingEntries) /\ Len(s) <= Capacity /\ GoodFile(f, n)
  BY DEF Sound, GoodFile
<1>2. GoodRing(r) /\ Held(r) = s
  BY <1>1, FilledHolds, RingAssumption DEF RingAssumption
<1>3. CASE f.kind = "none"
  BY <1>3 DEF LoadFromDisk
<1>4. CASE f.kind # "none"
  <2>1. LoadFromDisk(st) = Persisted([st EXCEPT !.ring = r, !.base = s], s)
    BY <1>2, <1>4, Zenon DEF LoadFromDisk
  <2>2. [st EXCEPT !.ring = r, !.base = s] = [ring |-> r, ringFile |-> f, base |-> s]
    <3> DEFINE a == st.ring
               b == st.base
    <3>1. st = [ring |-> a, ringFile |-> f, base |-> b]
      BY DEF Sound
    <3> HIDE DEF a, b, r, s, f
    <3>2. With(st, r, s) = [ring |-> r, ringFile |-> f, base |-> s]
      BY <3>1, Recombined
    <3> QED BY <3>2, Zenon DEF With
  <2> HIDE DEF r, s, f
  <2> QED BY <1>1, <1>2, <2>1, <2>2, PersistedSound
<1> QED BY <1>3, <1>4

\* The empty ring, whatever the file.
LEMMA LastNone ==
  ASSUME NEW S, NEW s \in Seq(S)
  PROVE  LastN(s, 0) = <<>>
<1>1. Len(s) \in Nat /\ LastN(s, 0) \in Seq(S)
      /\ Len(LastN(s, 0)) = IF Len(s) > 0 THEN 0 ELSE Len(s)
  BY LenProperties, LastNProperties
<1>2. Len(LastN(s, 0)) = 0
  BY <1>1
<1> QED BY <1>1, <1>2, EmptySeq

LEMMA EmptySound ==
  ASSUME RingAssumption, RingOptionsOK, NEW cap \in Nat \ {0},
         use # "memory" => cap = Capacity, NEW n, NEW f, GoodFile(f, n)
  PROVE  Sound([ring |-> Filled(cap, <<>>), ringFile |-> f, base |-> <<>>], n)
<1> DEFINE r == Filled(cap, <<>>)
<1>1. <<>> \in Seq(RingEntries) /\ Len(<<>>) = 0 /\ Len(<<>>) <= cap
  BY EmptySeq
<1>2. GoodRing(r) /\ Held(r) = <<>> /\ r.capacity = cap
  BY <1>1, FilledHolds
<1>3. LastN(<<>>, cap) = <<>>
  BY <1>1, LastNOfShort
<1>4. LastN(f.entries, 0) = <<>>
  BY LastNone DEF GoodFile
<1> HIDE DEF r
<1>5. Latest(r, <<>>) /\ EndsFile(<<>>, f)
  BY <1>1, <1>2, <1>3, <1>4 DEF Latest, EndsFile
<1>6. Sound([ring |-> r, ringFile |-> f, base |-> <<>>], n)
  BY <1>1, <1>2, <1>5 DEF Sound
<1> QED BY <1>6 DEF r

\* What a sequence ends with grows with it.
LEMMA EndGrows ==
  ASSUME NEW S, NEW s \in Seq(S), NEW e \in S, NEW n \in Nat, n <= Len(s)
  PROVE  LastN(Append(s, e), n + 1) = Append(LastN(s, n), e)
<1> DEFINE a == Append(s, e)
           t == LastN(s, n)
           l == LastN(a, n + 1)
           k == Len(s) - n
<1>1. Len(s) \in Nat /\ k \in Nat
  BY LenProperties
<1>2. /\ a \in Seq(S) /\ Len(a) = Len(s) + 1
      /\ \A i \in 1 .. Len(s) : a[i] = s[i]
      /\ a[Len(s) + 1] = e
  BY AppendProperties
<1>3. t \in Seq(S) /\ Len(t) = n /\ \A i \in 1 .. n : t[i] = s[i + k]
  <2>1. /\ t \in Seq(S) /\ Len(t) = IF Len(s) > n THEN n ELSE Len(s)
        /\ \A i \in 1 .. Len(t) : t[i] = s[i + Len(s) - Len(t)]
    BY LastNProperties
  <2> HIDE DEF t
  <2>2. Len(t) = n /\ \A i \in 1 .. n : i + Len(s) - n = i + k
    BY <1>1, <2>1
  <2> QED BY <2>1, <2>2
<1> HIDE DEF a
<1>4. l \in Seq(S) /\ Len(l) = n + 1 /\ \A i \in 1 .. n + 1 : l[i] = a[i + k]
  <2>1. /\ l \in Seq(S) /\ Len(l) = IF Len(a) > n + 1 THEN n + 1 ELSE Len(a)
        /\ \A i \in 1 .. Len(l) : l[i] = a[i + Len(a) - Len(l)]
    <3>1. n + 1 \in Nat
      OBVIOUS
    <3> QED BY <1>2, <3>1, LastNProperties
  <2> HIDE DEF l
  <2>2. Len(l) = n + 1
    BY <1>1, <1>2, <2>1
  <2>3. \A i \in 1 .. n + 1 : i + Len(a) - (n + 1) = i + k
    BY <1>1, <1>2
  <2> QED BY <2>1, <2>2, <2>3
<1> HIDE DEF t, l
<1>5. /\ Append(t, e) \in Seq(S) /\ Len(Append(t, e)) = n + 1
      /\ \A i \in 1 .. n : Append(t, e)[i] = t[i]
      /\ Append(t, e)[n + 1] = e
  BY <1>3, AppendProperties
<1>6. ASSUME NEW i \in 1 .. n + 1 PROVE l[i] = Append(t, e)[i]
  <2>1. CASE i = n + 1
    <3>1. i + k = Len(s) + 1
      BY <1>1, <2>1
    <3> QED BY <1>2, <1>4, <1>5, <2>1, <3>1
  <2>2. CASE i # n + 1
    <3>1. i \in 1 .. n /\ i + k \in 1 .. Len(s)
      BY <1>1, <2>2
    <3> QED BY <1>2, <1>3, <1>4, <1>5, <3>1
  <2> QED BY <2>1, <2>2
<1>7. l = Append(t, e)
  BY <1>4, <1>5, <1>6, SeqEqual
<1> QED BY <1>7 DEF l, t, a

\* An entry that a ring takes.
TakesOne(r, q, e) ==
  /\ GoodRing(q)
  /\ strategy # "resize" => q.capacity = r.capacity
  /\ \/ Held(q) = Append(Held(r), e) /\ (strategy # "resize" => Len(Held(r)) < r.capacity)
     \/ /\ Held(q) = Append(Tail(Held(r)), e) /\ strategy # "resize"
        /\ Len(Held(r)) = r.capacity

LEMMA AddedTakes ==
  ASSUME RingAssumption, RingOptionsOK, NEW r, GoodRing(r), NEW e \in RingEntries,
         Accepts(r)
  PROVE  TakesOne(r, Added(r, e), e)
<1>1. CASE ~r.isFull
  <2>1. strategy # "resize" => Len(Held(r)) < r.capacity
    BY <1>1, HeldProperties DEF GoodRing
  <2> QED BY <1>1, <2>1, AddedWithRoom, Zenon DEF TakesOne
<1>2. CASE r.isFull /\ strategy = "drop-oldest"
  <2>1. Len(Held(r)) = r.capacity /\ strategy # "resize"
    BY <1>2, HeldProperties DEF GoodRing
  <2> QED BY <1>2, <2>1, AddedOverOldest, Zenon DEF TakesOne
<1>3. CASE r.isFull /\ strategy = "resize"
  <2>1. use = "memory"
    BY <1>3 DEF RingOptionsOK
  <2>2. GoodRing(Added(r, e)) /\ Held(Added(r, e)) = Append(Held(r), e)
    BY <1>3, <2>1, AddedByGrowing
  <2> QED BY <1>3, <2>2, Zenon DEF TakesOne
<1> QED BY <1>1, <1>2, <1>3 DEF Accepts

LEMMA TakenIsLatest ==
  ASSUME NEW r, GoodRing(r), NEW q, NEW e \in RingEntries, TakesOne(r, q, e),
         NEW b \in Seq(RingEntries), Latest(r, b)
  PROVE  Latest(q, Append(b, e))
<1>1. CASE strategy = "resize"
  BY <1>1 DEF TakesOne, Latest
<1>2. CASE strategy # "resize"
  <2> DEFINE cap == r.capacity
             h == Held(r)
  <2>1. cap \in Nat \ {0} /\ cap \in Nat /\ q.capacity = cap /\ Len(b) \in Nat
    BY <1>2, LenProperties DEF GoodRing, TakesOne
  <2>2. h = LastN(b, cap)
    BY <1>2 DEF Latest
  <2> HIDE DEF cap
  <2>3. Len(h) = IF Len(b) > cap THEN cap ELSE Len(b)
    BY <2>1, <2>2, LastNProperties
  <2>4. LastN(Append(b, e), cap) = IF Len(b) < cap THEN Append(b, e)
                                   ELSE Append(Tail(h), e)
    BY <2>1, <2>2, LastNOfAppend
  <2> HIDE DEF h
  <2>5. CASE Len(h) < cap
    <3>1. Len(b) < cap /\ Len(b) <= cap
      BY <2>1, <2>3, <2>5
    <3>2. h = b
      BY <2>1, <2>2, <3>1, LastNOfShort
    <3>3. Held(q) = Append(h, e)
      BY <1>2, <2>5 DEF TakesOne, h, cap
    <3> QED BY <1>2, <2>1, <2>4, <3>1, <3>2, <3>3 DEF Latest
  <2>6. CASE ~(Len(h) < cap)
    <3>1. ~(Len(b) < cap)
      BY <2>1, <2>3, <2>6
    <3>2. Held(q) = Append(Tail(h), e)
      BY <1>2, <2>6 DEF TakesOne, h, cap
    <3> QED BY <1>2, <2>1, <2>4, <3>1, <3>2 DEF Latest
  <2> QED BY <2>5, <2>6
<1> QED BY <1>1, <1>2

LEMMA TakenEndsFile ==
  ASSUME NEW r, GoodRing(r), NEW q, NEW e \in RingEntries, TakesOne(r, q, e),
         NEW s \in Seq(RingEntries), Held(r) = LastN(s, Len(Held(r)))
  PROVE  Held(q) = LastN(Append(s, e), Len(Held(q)))
<1> DEFINE h == Held(r)
           n == Len(h)
<1>1. h \in Seq(RingEntries) /\ n \in Nat /\ h = LastN(s, n) /\ Len(s) \in Nat
  BY HeldProperties, LenProperties
<1>2. n <= Len(s)
  <2>1. Len(LastN(s, n)) = IF Len(s) > n THEN n ELSE Len(s)
    BY <1>1, LastNProperties
  <2> QED BY <1>1, <2>1
<1>3. CASE Held(q) = Append(h, e)
  <2>1. Len(Held(q)) = n + 1
    BY <1>1, <1>3, AppendProperties
  <2>2. LastN(Append(s, e), n + 1) = Append(LastN(s, n), e)
    BY <1>1, <1>2, EndGrows
  <2> QED BY <1>1, <1>3, <2>1, <2>2
<1>4. CASE Held(q) = Append(Tail(h), e) /\ n = r.capacity
  <2>1. n \in Nat \ {0}
    BY <1>4 DEF GoodRing
  <2>2. h # <<>>
    BY <2>1, EmptySeq
  <2>3. Tail(h) \in Seq(RingEntries) /\ Len(Tail(h)) = n - 1
    BY <1>1, <2>2, HeadTailProperties
  <2>4. Len(Held(q)) = n
    <3>1. Len(Append(Tail(h), e)) = Len(Tail(h)) + 1
      BY <2>3, AppendProperties
    <3> QED BY <1>4, <2>1, <2>3, <3>1
  <2>5. LastN(Append(s, e), n) = IF Len(s) < n THEN Append(s, e)
                                 ELSE Append(Tail(LastN(s, n)), e)
    BY <2>1, LastNOfAppend
  <2>6. ~(Len(s) < n)
    BY <1>1, <1>2
  <2> HIDE DEF h, n
  <2> QED BY <1>1, <1>4, <2>4, <2>5, <2>6
<1> QED BY <1>3, <1>4 DEF TakesOne

\* An entry that a ring takes and the file may take as well.
LEMMA SoundForm ==
  ASSUME NEW r, GoodRing(r), NEW n, NEW f, GoodFile(f, n), NEW b \in Seq(RingEntries),
         Latest(r, b), EndsFile(Held(r), f)
  PROVE  Sound([ring |-> r, ringFile |-> f, base |-> b], n)
  BY DEF Sound

LEMMA TakenSound ==
  ASSUME RingAssumption, RingOptionsOK, NEW e \in RingEntries,
         NEW st, Sound(st, e - 1), NEW q, TakesOne(st.ring, q, e)
  PROVE  Sound(Persisted([ring |-> q, ringFile |-> st.ringFile, base |-> Append(st.base, e)],
                         <<e>>), e)
<1> DEFINE f == st.ringFile
           b == Append(st.base, e)
           u == [ring |-> q, ringFile |-> f, base |-> b]
<1>1. /\ GoodRing(st.ring) /\ GoodRing(q) /\ GoodFile(f, e - 1)
      /\ f.entries \in Seq(RingEntries) /\ st.base \in Seq(RingEntries)
      /\ <<e>> # <<>>
  BY DEF Sound, TakesOne, GoodFile
<1>2. b \in Seq(RingEntries)
  BY <1>1, AppendProperties
<1>3. Latest(q, b)
  BY <1>1, TakenIsLatest DEF Sound
<1> HIDE DEF b
<1>4. ASSUME use # "auto" PROVE Sound(Persisted(u, <<e>>), e)
  <2>1. Persisted(u, <<e>>) = u
    BY <1>4 DEF Persisted
  <2>2. GoodFile(f, e) /\ EndsFile(Held(q), f)
    BY <1>1, <1>4 DEF GoodFile, EndsFile
  <2> QED BY <1>1, <1>2, <1>3, <2>1, <2>2, SoundForm
<1>5. ASSUME use = "auto" /\ appendMode = "yes" PROVE Sound(Persisted(u, <<e>>), e)
  <2> DEFINE s == f.entries \o <<e>>
  <2>1. Persisted(u, <<e>>) = [ring |-> q, ringFile |-> Lines(s), base |-> b]
    BY <1>1, <1>5 DEF Persisted
  <2>2. s = Append(f.entries, e)
    BY <1>1, AppendIsConcat
  <2>3. s \in Seq(RingEntries)
    BY <1>1, <2>2, AppendProperties
  <2>4. Range(s) = 1 .. e
    <3>1. <<e>> \in Seq(RingEntries) /\ Range(<<e>>) = {e}
      BY DEF Range
    <3>2. Range(s) = Range(f.entries) \cup {e}
      <4> DEFINE t == <<e>>
      <4> HIDE DEF t
      <4>1. Range(f.entries \o t) = Range(f.entries) \cup Range(t)
        <5>1. t \in Seq(RingEntries)
          BY <3>1 DEF t
        <5> QED BY <1>1, <5>1, RangeConcatenation
      <4> QED BY <3>1, <4>1 DEF t
    <3>3. Range(f.entries) = 1 .. e - 1
      BY <1>1, <1>5 DEF GoodFile
    <3>4. (1 .. e - 1) \cup {e} = 1 .. e
      BY DEF RingEntries
    <3> QED BY <3>2, <3>3, <3>4
  <2>5. Held(st.ring) = LastN(f.entries, Len(Held(st.ring)))
    BY <1>5 DEF Sound, EndsFile
  <2>6. Held(q) = LastN(s, Len(Held(q)))
    BY <1>1, <2>2, <2>5, TakenEndsFile
  <2> HIDE DEF s
  <2>7. GoodFile(Lines(s), e) /\ EndsFile(Held(q), Lines(s))
    BY <1>5, <2>3, <2>4, <2>6 DEF GoodFile, EndsFile, Lines
  <2> QED BY <1>1, <1>2, <1>3, <2>1, <2>7, SoundForm
<1>6. ASSUME use = "auto" /\ appendMode = "no" PROVE Sound(Persisted(u, <<e>>), e)
  <2> DEFINE s == Held(q)
  <2>1. Persisted(u, <<e>>) = [ring |-> q, ringFile |-> Snapshot(s), base |-> b]
    BY <1>1, <1>6 DEF Persisted
  <2>2. s \in Seq(RingEntries) /\ Len(s) <= Capacity
    BY <1>1, <1>6, HeldFits, HeldProperties DEF RingOptionsOK, GoodRing
  <2> HIDE DEF s
  <2>3. GoodFile(Snapshot(s), e) /\ EndsFile(s, Snapshot(s))
    BY <1>6, <2>2 DEF GoodFile, EndsFile, Snapshot
  <2>4. Latest(q, b) /\ EndsFile(Held(q), Snapshot(s))
    BY <1>3, <2>3 DEF s
  <2> QED BY <1>1, <1>2, <2>1, <2>3, <2>4, SoundForm
<1>7. Sound(Persisted(u, <<e>>), e)
  BY <1>4, <1>5, <1>6 DEF RingOptionsOK
<1> QED BY <1>7 DEF b

\* compact() puts back what a ring holds.
LEMMA RefilledHolds ==
  ASSUME RingAssumption, RingOptionsOK, NEW r, GoodRing(r)
  PROVE  LET q == Refilled(r.capacity, Held(r)) IN GoodRing(q) /\ Held(q) = Held(r)
<1> DEFINE s == Held(r)
           cap == r.capacity
           g == Filled(cap, FirstN(s, cap))
<1>1. /\ s \in Seq(RingEntries) /\ Len(s) \in Nat /\ Len(s) = Len(r.slots)
      /\ cap \in Nat \ {0} /\ cap \in Nat
      /\ use # "memory" => cap = Capacity
  BY HeldProperties, LenProperties DEF GoodRing
<1>2. CASE Len(s) <= cap
  <2>1. Refilled(cap, s) = Filled(cap, s)
    BY <1>2 DEF Refilled
  <2> HIDE DEF s, cap
  <2>2. GoodRing(Filled(cap, s)) /\ Held(Filled(cap, s)) = s
    BY <1>1, <1>2, FilledHolds
  <2> QED BY <2>1, <2>2 DEF s, cap
<1>3. CASE ~(Len(s) <= cap)
  <2>1. strategy = "resize" /\ use = "memory"
    <3>1. strategy = "resize"
      BY <1>1, <1>3, HeldFits
    <3> QED BY <3>1 DEF RingOptionsOK
  <2>2. Len(s) = cap + 1
    <3>1. Len(r.slots) <= cap + 1
      BY <1>1, <2>1 DEF GoodRing
    <3> QED BY <1>1, <1>3, <3>1
  <2>3. Refilled(cap, s) = Added(g, s[Len(s)])
    BY <1>3, Zenon DEF Refilled
  <2> HIDE DEF s, cap
  <2>4. /\ FirstN(s, cap) \in Seq(RingEntries)
        /\ Len(FirstN(s, cap)) = cap /\ Len(FirstN(s, cap)) <= cap
        /\ \A i \in 1 .. cap : FirstN(s, cap)[i] = s[i]
    <3>1. /\ FirstN(s, cap) \in Seq(RingEntries)
          /\ Len(FirstN(s, cap)) = IF Len(s) > cap THEN cap ELSE Len(s)
          /\ \A i \in 1 .. Len(FirstN(s, cap)) : FirstN(s, cap)[i] = s[i]
      BY <1>1, FirstNProperties
    <3>2. Len(FirstN(s, cap)) = cap
      BY <1>1, <2>2, <3>1
    <3> QED BY <1>1, <3>1, <3>2
  <2>5. GoodRing(g) /\ Held(g) = FirstN(s, cap)
    BY <1>1, <2>4, FilledHolds
  <2>6. g.isFull
    <3>1. g.isFull = (Len(FirstN(s, cap)) = cap)
      BY DEF Filled
    <3> QED BY <2>4, <3>1
  <2>7. s[Len(s)] \in RingEntries
    BY <1>1, <2>2, ElementOfSeq
  <2> HIDE DEF g
  <2>8. /\ GoodRing(Added(g, s[Len(s)]))
        /\ Held(Added(g, s[Len(s)])) = Append(FirstN(s, cap), s[Len(s)])
    BY <2>1, <2>5, <2>6, <2>7, AddedByGrowing
  <2>9. Append(FirstN(s, cap), s[Len(s)]) = s
    <3> DEFINE e == s[Len(s)]
               a == Append(FirstN(s, cap), e)
    <3> HIDE DEF e
    <3>1. /\ a \in Seq(RingEntries) /\ Len(a) = cap + 1
          /\ \A i \in 1 .. cap : a[i] = FirstN(s, cap)[i]
          /\ a[cap + 1] = e
      <4>1. e \in RingEntries
        BY <2>7 DEF e
      <4> QED BY <2>4, <4>1, AppendProperties
    <3> HIDE DEF a
    <3>2. ASSUME NEW i \in 1 .. Len(s) PROVE a[i] = s[i]
      <4>1. CASE i = cap + 1
        BY <2>2, <3>1, <4>1 DEF e
      <4>2. CASE i # cap + 1
        <5>1. i \in 1 .. cap
          BY <1>1, <2>2, <4>2
        <5> QED BY <2>4, <3>1, <5>1
      <4> QED BY <4>1, <4>2
    <3>3. a = s
      BY <1>1, <2>2, <3>1, <3>2, SeqEqual
    <3> QED BY <3>3 DEF a, e
  <2> QED BY <2>3, <2>8, <2>9 DEF s, cap
<1> QED BY <1>2, <1>3

---------------------------------------------------------------------------
\* BufferRing: the invariant

RingInv ==
  /\ use \in Uses /\ strategy \in Strategies /\ preload \in {"yes", "no"}
  /\ appendLoaded \in {"yes", "no"}
  /\ RingOptionsOK
  /\ next \in 1 .. MaxEntries + 1
  /\ Sound(Here, next - 1)

LEMMA HereFields ==
  Here = [ring |-> ring, ringFile |-> ringFile, base |-> baseline]
  /\ Here.ring = ring /\ Here.ringFile = ringFile /\ Here.base = baseline
  BY DEF Here

LEMMA SoundHere ==
  ASSUME NEW n
  PROVE  Sound(Here, n) <=>
           /\ GoodRing(ring) /\ GoodFile(ringFile, n)
           /\ baseline \in Seq(RingEntries)
           /\ Latest(ring, baseline) /\ EndsFile(Held(ring), ringFile)
  BY HereFields DEF Sound

\* A call whose result is sound leaves the ring sound.
LEMMA BecomesSound ==
  ASSUME RingInv, NEW n, next' - 1 = n, NEW st, Sound(st, n), Becomes(st),
         UNCHANGED ringOptions, appendLoaded' \in {"yes", "no"},
         next' \in 1 .. MaxEntries + 1
  PROVE  RingInv'
<1>1. ring' = st.ring /\ ringFile' = st.ringFile /\ baseline' = st.base
  BY DEF Becomes
<1>2. /\ use' = use /\ strategy' = strategy /\ appendMode' = appendMode /\ preload' = preload
  BY DEF ringOptions
<1>3. /\ GoodRing(ring)' /\ GoodFile(ringFile, next - 1)' /\ (baseline \in Seq(RingEntries))'
      /\ Latest(ring, baseline)' /\ EndsFile(Held(ring), ringFile)'
  BY <1>1, <1>2 DEF Sound, GoodRing, GoodFile, Latest, EndsFile, RingEntries
<1>4. Sound(Here, next - 1)'
  BY <1>3 DEF Sound, Here
<1> QED BY <1>2, <1>4 DEF RingInv, RingOptionsOK

LEMMA RingInitInv == ASSUME RingAssumption, RingInit PROVE RingInv
<1>1. RingOptionsOK
  BY RingAssumption DEF RingAssumption, RingInit, RingOptionsOK
<1>2. GoodFile(NoFile, 0) /\ GoodFile(NoFile, next - 1)
  <2>1. Len(<<>>) = 0 /\ Len(<<>>) <= Capacity /\ <<>> \in Seq(RingEntries)
        /\ Range(<<>>) = {} /\ 1 .. 0 = {}
    BY EmptySeq, RingAssumption DEF RingAssumption, Range
  <2>2. next - 1 = 0
    BY DEF RingInit
  <2>3. GoodFile(NoFile, 0)
    BY <2>1 DEF GoodFile, NoFile
  <2> QED BY <2>2, <2>3
<1>3. Sound([ring |-> Filled(Capacity, <<>>), ringFile |-> NoFile, base |-> <<>>], next - 1)
  <2>1. Capacity \in Nat \ {0}
    BY RingAssumption DEF RingAssumption
  <2> QED BY <1>1, <1>2, <2>1, EmptySound
<1>4. Sound(Here, next - 1)
  BY <1>3 DEF Here, RingInit
<1>5. next \in 1 .. MaxEntries + 1
  BY RingAssumption DEF RingAssumption, RingInit
<1> QED BY <1>1, <1>4, <1>5 DEF RingInv, RingInit

\* What the constructor makes of a file.
LEMMA ConstructedSound ==
  ASSUME RingAssumption, RingOptionsOK, NEW n, NEW f, GoodFile(f, n)
  PROVE  Sound(Constructed(f), n)
<1> DEFINE st == [ring |-> Filled(Capacity, <<>>), ringFile |-> f, base |-> <<>>]
<1>1. Sound(st, n) /\ st.ring.capacity = Capacity
  <2>1. Capacity \in Nat \ {0}
    BY RingAssumption DEF RingAssumption
  <2>2. Sound(st, n)
    BY <2>1, EmptySound
  <2> QED BY <2>2 DEF Filled
<1>2. Constructed(f) = CASE use = "memory" -> st
        [] use # "memory" /\ appendMode = "no" -> LoadFromDisk(st)
        [] use # "memory" /\ appendMode = "yes" ->
             IF preload = "yes" THEN LoadFromAppend(st) ELSE st
  BY Zenon DEF Constructed
<1> HIDE DEF st
<1>3. CASE use = "memory"
  <2>1. Constructed(f) = st
    BY <1>2, <1>3
  <2> QED BY <1>1, <2>1
<1>4. CASE use # "memory" /\ appendMode = "no"
  <2>1. Constructed(f) = LoadFromDisk(st)
    BY <1>2, <1>4
  <2> QED BY <1>1, <1>4, <2>1, LoadFromDiskSound
<1>5. CASE use # "memory" /\ appendMode = "yes"
  <2>1. Constructed(f) = IF preload = "yes" THEN LoadFromAppend(st) ELSE st
    BY <1>2, <1>5
  <2> QED BY <1>1, <2>1, LoadFromAppendSound
<1> QED BY <1>3, <1>4, <1>5 DEF RingOptionsOK

LEMMA ReadOnceTyped ==
  ASSUME appendLoaded \in {"yes", "no"}, ReadOnce PROVE appendLoaded' \in {"yes", "no"}
  BY DEF ReadOnce

LEMMA RingInvStep ==
  ASSUME RingAssumption, RingInv, [RingNext]_ringVars
  PROVE  RingInv'
<1>1. /\ RingOptionsOK /\ Sound(Here, next - 1) /\ appendLoaded \in {"yes", "no"}
      /\ next \in 1 .. MaxEntries + 1 /\ next \in Nat /\ MaxEntries \in Nat
  BY RingAssumption DEF RingInv, RingAssumption
<1>2. /\ GoodRing(ring) /\ GoodFile(ringFile, next - 1) /\ baseline \in Seq(RingEntries)
      /\ ringFile.entries \in Seq(RingEntries)
      /\ ring.capacity \in Nat \ {0} /\ (use # "memory" => ring.capacity = Capacity)
  BY <1>1, SoundHere DEF GoodRing, GoodFile
<1>3. ASSUME add PROVE RingInv'
  <2>1. /\ next \in RingEntries /\ next' = next + 1 /\ next' - 1 = next
        /\ next' \in 1 .. MaxEntries + 1
        /\ UNCHANGED ringOptions /\ appendLoaded' \in {"yes", "no"}
    BY <1>1, <1>3 DEF add, RingEntries
  <2>2. CASE Accepts(ring)
    <3> DEFINE q == Added(ring, next)
               b == Append(baseline, next)
               u == [ring |-> q, ringFile |-> ringFile, base |-> b]
               st == Persisted(u, <<next>>)
    <3>1. [Here EXCEPT !.ring = q, !.base = Append(@, next)] = u
      <4> DEFINE h == [Here EXCEPT !.ring = q]
      <4>1. h = [ring |-> q, ringFile |-> ringFile, base |-> baseline]
        BY DEF Here
      <4>2. [Here EXCEPT !.ring = q, !.base = Append(@, next)] = [Here EXCEPT !.ring = q, !.base = b]
        BY DEF Here
      <4> HIDE DEF q, b
      <4>3. With(Here, q, b) = u
        BY HereFields, Recombined
      <4> QED BY <4>2, <4>3, Zenon DEF With
    <3>2. Becomes(st)
      BY <1>3, <2>2, <3>1, Zenon DEF add
    <3>3. TakesOne(Here.ring, q, next)
      BY <1>1, <1>2, <2>1, <2>2, AddedTakes, HereFields
    <3>4. Sound(st, next)
      <4>1. Sound(Persisted([ring |-> q, ringFile |-> Here.ringFile,
                             base |-> Append(Here.base, next)], <<next>>), next)
        <5> HIDE DEF q
        <5> QED BY <1>1, <2>1, <3>3, TakenSound
      <4> QED BY <4>1, HereFields
    <3> HIDE DEF st
    <3> QED BY <2>1, <3>2, <3>4, BecomesSound
  <2>3. CASE ~Accepts(ring)
    <3>1. Becomes(Here)
      BY <1>3, <2>3 DEF add
    <3>2. use = "memory"
      BY <1>1, <2>3 DEF Accepts, RingOptionsOK
    <3>3. Sound(Here, next)
      BY <1>1, <3>2, SoundHere DEF GoodFile
    <3> QED BY <2>1, <3>1, <3>3, BecomesSound
  <2> QED BY <2>2, <2>3
<1>4. ASSUME NEW st, Sound(st, next - 1), Becomes(st), UNCHANGED ringOptions, next' = next,
             appendLoaded' \in {"yes", "no"}
      PROVE  RingInv'
  BY <1>1, <1>4, BecomesSound
<1>5. Sound(FirstRead(Here), next - 1)
  BY <1>1, FirstReadSound
<1>6. ASSUME getAll PROVE RingInv'
  BY <1>1, <1>4, <1>5, <1>6, ReadOnceTyped DEF getAll
<1>7. ASSUME clear PROVE RingInv'
  <2> DEFINE u == [ring |-> Filled(ring.capacity, <<>>), ringFile |-> ringFile, base |-> <<>>]
  <2>1. [Here EXCEPT !.ring = Filled(ring.capacity, <<>>), !.base = <<>>] = u
    <3> DEFINE q == Filled(ring.capacity, <<>>)
               s == <<>>
    <3> HIDE DEF q, s
    <3>1. With(Here, q, s) = [ring |-> q, ringFile |-> ringFile, base |-> s]
      BY HereFields, Recombined
    <3> QED BY <3>1, Zenon DEF With, q, s
  <2>2. Sound(u, next - 1)
    BY <1>1, <1>2, EmptySound
  <2>3. Becomes(u) /\ UNCHANGED ringOptions /\ next' = next /\ appendLoaded' = appendLoaded
    BY <1>7, <2>1, Zenon DEF clear
  <2> HIDE DEF u
  <2> QED BY <1>1, <1>4, <2>2, <2>3
<1>8. ASSUME compact PROVE RingInv'
  <2> DEFINE st == FirstRead(Here)
             s  == Held(st.ring)
             f  == st.ringFile
             q  == Refilled(st.ring.capacity, s)
             u  == [ring |-> q, ringFile |-> f, base |-> s]
  <2>1. GoodRing(st.ring) /\ GoodFile(f, next - 1) /\ EndsFile(s, f)
    BY <1>5 DEF Sound
  <2>2. [st EXCEPT !.ring = q, !.base = s] = u
    <3> DEFINE a == st.ring
               b == st.base
    <3>1. st = [ring |-> a, ringFile |-> f, base |-> b]
      BY <1>5 DEF Sound
    <3> HIDE DEF a, b, f, q, s, st
    <3>2. With(st, q, s) = [ring |-> q, ringFile |-> f, base |-> s]
      BY <3>1, Recombined
    <3> QED BY <3>2, Zenon DEF With
  <2>3. GoodRing(q) /\ Held(q) = s
    BY <1>1, <2>1, RefilledHolds
  <2>4. Becomes(Persisted(u, s)) /\ UNCHANGED ringOptions /\ next' = next
        /\ appendLoaded' \in {"yes", "no"}
    <3>1. Becomes(Persisted([st EXCEPT !.ring = q, !.base = s], s))
          /\ UNCHANGED ringOptions /\ next' = next /\ ReadOnce
      BY <1>8, Zenon DEF compact
    <3> HIDE DEF f, q, s, st
    <3> QED BY <1>1, <2>2, <3>1, ReadOnceTyped
  <2>5. s \in Seq(RingEntries) /\ f.entries \in Seq(RingEntries)
    BY <2>1, HeldProperties DEF GoodFile
  <2> HIDE DEF f, q, s, st
  <2>6. use = "auto" /\ appendMode = "yes" => Range(s) \subseteq Range(f.entries)
    <3>1. Len(s) \in Nat
      BY <2>5, LenProperties
    <3> QED BY <2>1, <2>5, <3>1, RangeOfLastN DEF EndsFile
  <2>7. Sound(Persisted(u, s), next - 1)
    BY <1>1, <2>1, <2>3, <2>5, <2>6, PersistedSound
  <2> HIDE DEF u
  <2> QED BY <1>4, <2>4, <2>7
<1>9. ASSUME saveToDisk PROVE RingInv'
  <2> DEFINE st == FirstRead(Here)
             s  == Held(st.ring)
             u  == [st EXCEPT !.ringFile = Snapshot(s)]
  <2>1. Becomes(u) /\ UNCHANGED ringOptions /\ next' = next
        /\ use = "manual" /\ appendLoaded' \in {"yes", "no"}
    <3>1. Becomes(u) /\ UNCHANGED ringOptions /\ next' = next /\ use = "manual" /\ ReadOnce
      BY <1>9, Zenon DEF saveToDisk
    <3> QED BY <1>1, <3>1, ReadOnceTyped
  <2>2. GoodRing(st.ring) /\ st.base \in Seq(RingEntries) /\ Latest(st.ring, st.base)
        /\ st = [ring |-> st.ring, ringFile |-> st.ringFile, base |-> st.base]
    BY <1>5 DEF Sound
  <2>3. s \in Seq(RingEntries) /\ Len(s) <= Capacity
    BY <1>1, <2>1, <2>2, HeldFits, HeldProperties DEF RingOptionsOK, GoodRing
  <2> HIDE DEF st
  <2>4. u = [ring |-> st.ring, ringFile |-> Snapshot(s), base |-> st.base]
    BY <2>2
  <2> HIDE DEF s
  <2>5. GoodFile(Snapshot(s), next - 1) /\ EndsFile(Held(st.ring), Snapshot(s))
    BY <2>1, <2>3 DEF GoodFile, EndsFile, Snapshot
  <2>6. Sound(u, next - 1)
    BY <2>2, <2>4, <2>5, SoundForm
  <2> HIDE DEF u
  <2> QED BY <1>4, <2>1, <2>6
<1>10. ASSUME NEW cap \in 1 .. Capacity + 1, resize(cap) PROVE RingInv'
  <2> DEFINE s == LastN(Held(ring), cap)
             q == Filled(cap, s)
             u == [ring |-> q, ringFile |-> ringFile, base |-> s]
  <2>1. cap \in Nat \ {0} /\ cap \in Nat
    BY RingAssumption DEF RingAssumption
  <2>2. s \in Seq(RingEntries) /\ Len(s) <= cap
    <3>1. Held(ring) \in Seq(RingEntries) /\ Len(Held(ring)) \in Nat
      BY <1>2, HeldProperties, LenProperties
    <3>2. s \in Seq(RingEntries) /\ Len(s) = IF Len(Held(ring)) > cap THEN cap ELSE Len(Held(ring))
      BY <2>1, <3>1, LastNProperties
    <3> QED BY <2>1, <3>1, <3>2
  <2>3. Becomes([Here EXCEPT !.ring = q, !.base = s])
        /\ UNCHANGED ringOptions /\ next' = next /\ use = "memory" /\ appendLoaded' = appendLoaded
    BY <1>10, Zenon DEF resize, Resized
  <2> HIDE DEF s
  <2>4. GoodRing(q) /\ Held(q) = s /\ q.capacity = cap
    BY <2>1, <2>2, <2>3, FilledHolds
  <2> HIDE DEF q
  <2>5. [Here EXCEPT !.ring = q, !.base = s] = u
    <3>1. With(Here, q, s) = u
      BY HereFields, Recombined
    <3> QED BY <3>1, Zenon DEF With
  <2>6. Latest(q, s)
    BY <2>1, <2>2, <2>4, LastNOfShort DEF Latest
  <2>7. EndsFile(Held(q), ringFile)
    BY <2>3 DEF EndsFile
  <2>8. Sound(u, next - 1)
    BY <1>2, <2>2, <2>4, <2>6, <2>7, SoundForm
  <2>9. Becomes(u)
    BY <2>3, <2>5, Zenon
  <2> HIDE DEF u
  <2> QED BY <1>1, <1>4, <2>3, <2>8, <2>9
<1>11. ASSUME restartRing PROVE RingInv'
  <2>1. Becomes(Constructed(ringFile)) /\ UNCHANGED ringOptions /\ next' = next
        /\ appendLoaded' \in {"yes", "no"}
    BY <1>1, <1>11 DEF restartRing, RingInv
  <2>2. Sound(Constructed(ringFile), next - 1)
    BY <1>1, <1>2, ConstructedSound
  <2> QED BY <1>4, <2>1, <2>2
<1>12. ASSUME diesLoading PROVE RingInv'
  <2>1. PICK n \in 1 .. Len(ringFile.entries) :
          Becomes(Constructed(Snapshot(FirstN(ringFile.entries, n))))
    BY <1>12 DEF diesLoading
  <2>2. UNCHANGED ringOptions /\ next' = next /\ appendLoaded' \in {"yes", "no"}
        /\ use = "auto" /\ appendMode = "no"
    BY <1>1, <1>12 DEF diesLoading
  <2> DEFINE s == FirstN(ringFile.entries, n)
  <2>3. s \in Seq(RingEntries) /\ Len(s) <= Capacity
    <3>1. Len(ringFile.entries) \in Nat /\ n \in Nat /\ n <= Len(ringFile.entries)
          /\ Len(ringFile.entries) <= Capacity /\ Capacity \in Nat
      BY <1>2, <2>2, LenProperties, RingAssumption DEF GoodFile, RingAssumption
    <3>2. s \in Seq(RingEntries)
          /\ Len(s) = IF Len(ringFile.entries) > n THEN n ELSE Len(ringFile.entries)
      BY <1>2, <3>1, FirstNProperties
    <3> QED BY <3>1, <3>2
  <2> HIDE DEF s
  <2>4. GoodFile(Snapshot(s), next - 1)
    BY <2>2, <2>3 DEF GoodFile, Snapshot
  <2>5. Sound(Constructed(Snapshot(s)), next - 1)
    BY <1>1, <2>4, ConstructedSound
  <2> QED BY <1>4, <2>1, <2>2, <2>5 DEF s
<1>13. CASE UNCHANGED ringVars
  <2>1. Becomes(Here) /\ UNCHANGED ringOptions /\ next' = next /\ appendLoaded' = appendLoaded
    BY <1>13 DEF ringVars, Becomes, Here
  <2> QED BY <1>1, <1>4, <2>1
<1> QED BY <1>3, <1>6, <1>7, <1>8, <1>9, <1>10, <1>11, <1>12, <1>13 DEF RingNext

LEMMA RingInvAlways == RingSpec => []RingInv
<1>1. RingInit => RingInv
  BY RingInitInv, RingAssumption
<1>2. RingInv /\ [RingNext]_ringVars => RingInv'
  BY RingInvStep, RingAssumption
<1> QED BY <1>1, <1>2, PTL DEF RingSpec

\* A ring keeps its form, whatever was persisted, loaded or died half way.
THEOREM RingTypeCorrect == RingSpec => []RingTypeOK
<1>1. RingInv => RingTypeOK
  <2> SUFFICES ASSUME RingInv PROVE RingTypeOK
    OBVIOUS
  <2>1. /\ GoodRing(ring) /\ GoodFile(ringFile, next - 1)
        /\ baseline \in Seq(1 .. MaxEntries)
    BY SoundHere DEF RingInv, RingEntries
  <2>2. /\ ring.slots \in Seq(1 .. MaxEntries) /\ ring.isFull \in BOOLEAN
        /\ ring.capacity \in Nat \ {0}
    BY <2>1 DEF GoodRing, RingEntries
  <2>3. ring.writeIndex \in 0 .. Len(ring.slots)
    <3>1. Len(ring.slots) \in Nat /\ ring.writeIndex \in Nat
      BY <2>1, <2>2, LenProperties DEF GoodRing
    <3> QED BY <2>1, <3>1 DEF GoodRing
  <2>4. /\ ringFile.kind \in {"none", "lines", "snapshot"}
        /\ ringFile.entries \in Seq(1 .. MaxEntries)
    BY <2>1 DEF GoodFile, RingEntries
  <2> QED BY <2>1, <2>2, <2>3, <2>4 DEF RingTypeOK, RingInv, RingOptionsOK
<1> QED BY <1>1, RingInvAlways, PTL

\* A reader gets the latest entries, in their order, for every capacity and
\* every sequence of adds, reads, resizes, compactions and restarts.
THEOREM ReadersGetTheLatest == RingSpec => []RingIsLatest
<1>1. RingInv => RingIsLatest
  BY SoundHere DEF RingInv, Latest, RingIsLatest
<1> QED BY <1>1, RingInvAlways, PTL

\* The file of lines never loses an entry, and the ring is its end.
THEOREM LinesLoseNothing == RingSpec => []LinesKeepEverything
<1>1. RingInv => LinesKeepEverything
  BY SoundHere DEF RingInv, GoodFile, EndsFile, LinesKeepEverything
<1> QED BY <1>1, RingInvAlways, PTL

---------------------------------------------------------------------------
\* ToolCallLog: no failed write loses a call

FlightRecords ==
  [batch : Seq(Events), compacts : {"yes", "no"}, stage : Stages, upTo : 0 .. recorded]

TclTyped ==
  /\ appendLog \in AppendLogs /\ ringMode \in RingModes
  /\ events \in Seq(Events) /\ queue \in Seq(Events) /\ logFile \in Seq(Events)
  /\ snapFile \in Seq(Events) \cup {NoSnapshot}
  /\ flights \subseteq FlightRecords
  /\ recorded \in 0 .. MaxEvents /\ health \in {"good", "degraded"}
  /\ deaths \in Nat /\ mine \subseteq Events

(* The configurations the property is about.                               *)
Trusted == appendLog = "on" /\ (ringMode = "snapshot" \/ deaths = 0)

(* Nothing empties the ring behind a flush, and no timer saves it.         *)
RingStays ==
  saveDue = "no" /\ (ringMode = "lines" /\ ringRead = "no" => snapFile = NoSnapshot)

(* What a flush is about to remove from the log is in the snapshot.        *)
SnapshotCovers ==
  \A f \in flights : f.stage = "truncating" =>
    \A e \in mine : e <= f.upTo => e \in Range(Saved)

NothingLost == mine \ raced \subseteq Range(queue) \cup InFlight \cup OnDisk

CallsKept == RingStays /\ mine \subseteq Range(events) /\ SnapshotCovers /\ NothingLost

TclInv == TclTyped /\ (Trusted => CallsKept)

LEMMA RangeOfAppend ==
  ASSUME NEW S, NEW s \in Seq(S), NEW e \in S
  PROVE  Append(s, e) \in Seq(S) /\ Range(Append(s, e)) = Range(s) \cup {e}
<1> DEFINE t == <<e>>
<1>1. t \in Seq(S) /\ Range(t) = {e} /\ Append(s, e) = s \o t
  BY AppendIsConcat DEF Range
<1> HIDE DEF t
<1> QED BY <1>1, RangeConcatenation, ConcatProperties

LEMMA RangeOfConcat ==
  ASSUME NEW S, NEW s \in Seq(S), NEW t \in Seq(S)
  PROVE  s \o t \in Seq(S) /\ Range(s \o t) = Range(s) \cup Range(t)
  BY RangeConcatenation, ConcatProperties

LEMMA RangeOfNone == <<>> \in Seq(Events) /\ Range(<<>>) = {}
  BY DEF Range

LEMMA InFlightMembers ==
  \A e : e \in InFlight <=> \E f \in flights : f.stage = "writing" /\ e \in Range(f.batch)
  BY DEF InFlight

\* A snapshot of events is never mistaken for none.
LEMMA SavedSnapshot ==
  ASSUME NEW s \in Seq(Events)
  PROVE  s # NoSnapshot
<1>1. CASE s = NoSnapshot
  <2>1. Len(s) = 1 /\ s[1] = 0
    BY <1>1 DEF NoSnapshot
  <2>2. s[1] \in Events
    BY <2>1, ElementOfSeq
  <2> QED BY <2>1, <2>2 DEF Events
<1> QED BY <1>1

LEMMA SavedTyped ==
  ASSUME TclTyped PROVE Saved \in Seq(Events)
  BY RangeOfNone DEF TclTyped, Saved

LEMMA AccessTyped ==
  ASSUME TclTyped PROVE Access \in Seq(Events)
  BY RangeOfNone DEF TclTyped, Access

LEMMA AccessKeeps ==
  ASSUME RingStays PROVE Access = events
  BY DEF RingStays, Access

\* Steps that leave flights, queue and files alone lose nothing.
LEMMA NothingMoves ==
  ASSUME TclTyped, Trusted => CallsKept, Trusted' => Trusted,
         UNCHANGED <<queue, flights, logFile, snapFile, recorded, mine, raced, saveDue, ringMode>>,
         RingStays => events' = events, ringRead' \in {ringRead, "yes"}
  PROVE  (Trusted => CallsKept)'
  BY DEF CallsKept, RingStays, SnapshotCovers, NothingLost, InFlight, OnDisk, Saved

LEMMA FlightTyped ==
  ASSUME TclTyped, NEW f \in flights
  PROVE  /\ f.batch \in Seq(Events) /\ f.upTo \in 0 .. recorded /\ f.stage \in Stages
         /\ f.compacts \in {"yes", "no"}
         /\ f = [batch |-> f.batch, compacts |-> f.compacts, stage |-> f.stage, upTo |-> f.upTo]
  BY DEF TclTyped, FlightRecords

LEMMA MovedFlight ==
  ASSUME TclTyped, NEW f \in flights, NEW s \in Stages, FlightMoves(f, s),
         recorded' = recorded
  PROVE  /\ (flights \subseteq FlightRecords)'
         /\ \A g \in flights' : \/ g \in flights /\ g # f
                                \/ /\ g.stage = s /\ g.batch = f.batch
                                   /\ g.upTo = IF s = "truncating" THEN recorded ELSE 0
         /\ \A g \in flights : g \in flights' \/ g = f
<1> DEFINE u == IF s = "truncating" THEN recorded ELSE 0
           h == [batch |-> f.batch, compacts |-> f.compacts, stage |-> s, upTo |-> u]
<1>1. u \in 0 .. recorded /\ recorded \in Nat
  BY DEF TclTyped
<1>2. [f EXCEPT !.stage = s, !.upTo = u] = h
  <2> DEFINE q == [f EXCEPT !.stage = s]
             c == f.compacts
             b == f.batch
             v == f.upTo
             k == f.stage
  <2>1. f = [batch |-> b, compacts |-> c, stage |-> k, upTo |-> v]
    BY FlightTyped
  <2> HIDE DEF b, c, k, v, u
  <2>2. q = [batch |-> b, compacts |-> c, stage |-> s, upTo |-> v]
    BY <2>1
  <2>3. [f EXCEPT !.stage = s, !.upTo = u] = [q EXCEPT !.upTo = u]
    OBVIOUS
  <2> HIDE DEF q
  <2>4. [q EXCEPT !.upTo = u] = [batch |-> b, compacts |-> c, stage |-> s, upTo |-> u]
    BY <2>2
  <2> QED BY <2>3, <2>4 DEF b, c
<1>3. flights' = (flights \ {f}) \cup {h}
  BY <1>2, Zenon DEF FlightMoves
<1>4. h \in FlightRecords
  BY <1>1, FlightTyped DEF FlightRecords
<1>5. h.stage = s /\ h.batch = f.batch /\ h.upTo = u
  OBVIOUS
<1>6. (flights \subseteq FlightRecords)'
  <2>1. flights \subseteq FlightRecords
    BY DEF TclTyped
  <2>2. FlightRecords' = FlightRecords
    BY DEF FlightRecords
  <2> HIDE DEF h
  <2> QED BY <1>3, <1>4, <2>1, <2>2
<1> HIDE DEF h
<1> QED BY <1>3, <1>5, <1>6

\* A call is queued, or flushed with what was queued.
LEMMA RecordKeeps == ASSUME TclAssumption, TclInv, recordToolCall PROVE TclInv'
<1> DEFINE e == recorded + 1
           q == Append(queue, e)
<1>1. /\ e \in Events /\ recorded' = e /\ events' = Append(events, e) /\ mine' = mine \cup {e}
      /\ recorded \in Nat /\ MaxEvents \in Nat
      /\ UNCHANGED <<appendLog, ringMode, ringRead, logFile, snapFile, ioErrors, deaths, health, raced>>
  BY TclAssumption DEF TclAssumption, TclInv, TclTyped, recordToolCall, Events
<1>2. TclTyped /\ queue \in Seq(Events)
  BY DEF TclInv, TclTyped
<1>3. /\ q \in Seq(Events) /\ Range(q) = Range(queue) \cup {e}
      /\ events' \in Seq(Events) /\ Range(events') = Range(events) \cup {e}
  BY <1>1, <1>2, RangeOfAppend DEF TclTyped
<1>4. ASSUME NEW c \in {"yes", "no"} PROVE Flight(q, c) \in FlightRecords'
  <2>1. 0 \in 0 .. e
    BY <1>1
  <2> HIDE DEF q
  <2> QED BY <1>1, <1>3, <2>1 DEF Flight, FlightRecords, Stages
<1>5. flights \subseteq FlightRecords'
  <2>1. 0 .. recorded \subseteq 0 .. recorded'
    BY <1>1
  <2>2. FlightRecords \subseteq FlightRecords'
    BY <2>1 DEF FlightRecords
  <2> QED BY <1>2, <2>2 DEF TclTyped
<1>6. \/ flights' = flights /\ queue' = q
      \/ flights' = flights /\ queue' = queue /\ appendLog # "on"
      \/ /\ queue' = <<>>
         /\ \E c \in {"yes", "no"} : flights' = flights \cup {Flight(q, c)}
  <2>1. CASE appendLog = "on"
    BY <2>1 DEF recordToolCall, flushToolCallEvents
  <2>2. CASE appendLog # "on"
    BY <2>2 DEF recordToolCall
  <2> QED BY <2>1, <2>2
<1> HIDE DEF q
<1>7. TclTyped'
  <2>1. flights' \subseteq FlightRecords'
    BY <1>4, <1>5, <1>6
  <2>2. queue' \in Seq(Events)
    BY <1>2, <1>3, <1>6, RangeOfNone
  <2>3. recorded' \in 0 .. MaxEvents /\ mine' \subseteq Events
    BY <1>1, <1>2 DEF TclTyped, Events
  <2>4. /\ appendLog' \in AppendLogs /\ ringMode' \in RingModes /\ logFile' \in Seq(Events)
        /\ snapFile' \in Seq(Events) \cup {NoSnapshot}
        /\ health' \in {"good", "degraded"} /\ deaths' \in Nat
    BY <1>1, <1>2 DEF TclTyped
  <2> QED BY <1>3, <2>1, <2>2, <2>3, <2>4 DEF TclTyped
<1>8. ASSUME Trusted' PROVE CallsKept'
  <2>1. Trusted /\ CallsKept /\ appendLog = "on"
    BY <1>1, <1>8 DEF Trusted, TclInv
  <2>2. RingStays'
    BY <1>1, <2>1 DEF CallsKept, RingStays, recordToolCall
  <2>3. mine' \subseteq Range(events')
    BY <1>1, <1>3, <2>1 DEF CallsKept
  <2>4. Saved' = Saved /\ OnDisk' = OnDisk
    BY <1>1 DEF OnDisk, Saved
  <2>5. SnapshotCovers'
    <3> SUFFICES ASSUME NEW f \in flights', f.stage = "truncating",
                        NEW x \in mine', x <= f.upTo
                 PROVE  x \in Range(Saved)
      BY <2>4 DEF SnapshotCovers
    <3>1. f \in flights
      <4>1. \A c \in {"yes", "no"} : Flight(q, c).stage = "writing"
        BY DEF Flight
      <4> QED BY <1>6, <4>1
    <3>2. f.upTo \in 0 .. recorded
      BY <1>2, <3>1, FlightTyped
    <3>3. x # e
      BY <1>1, <3>2
    <3> QED BY <1>1, <2>1, <3>1, <3>3 DEF CallsKept, SnapshotCovers
  <2>6. NothingLost'
    <3> SUFFICES ASSUME NEW x \in mine', x \notin raced
                 PROVE  x \in Range(queue') \/ x \in InFlight' \/ x \in OnDisk
      BY <1>1, <2>4 DEF NothingLost
    <3>1. x \in Range(q) \/ x \in InFlight \/ x \in OnDisk
      BY <1>1, <1>3, <2>1 DEF CallsKept, NothingLost
    <3>2. CASE flights' = flights /\ queue' = q
      <4>1. InFlight' = InFlight
        BY <3>2 DEF InFlight
      <4> QED BY <3>1, <3>2, <4>1
    <3>3. CASE \E c \in {"yes", "no"} : flights' = flights \cup {Flight(q, c)}
      <4>1. PICK c \in {"yes", "no"} : flights' = flights \cup {Flight(q, c)}
        BY <3>3
      <4>2. Flight(q, c).stage = "writing" /\ Flight(q, c).batch = q
        BY DEF Flight
      <4>3. \A y : y \in InFlight' <=> \E f \in flights' : f.stage = "writing" /\ y \in Range(f.batch)
        BY DEF InFlight
      <4> QED BY <3>1, <4>1, <4>2, <4>3, InFlightMembers
    <3> QED BY <1>6, <2>1, <3>2, <3>3
  <2> QED BY <2>2, <2>3, <2>5, <2>6 DEF CallsKept
<1> QED BY <1>7, <1>8 DEF TclInv

LEMMA ReadKeeps == ASSUME TclInv, readEvents PROVE TclInv'
<1>1. TclTyped /\ Access \in Seq(Events)
  BY AccessTyped DEF TclInv
<1>2. TclTyped'
  BY <1>1 DEF readEvents, TclTyped, FlightRecords
<1>3. (Trusted => CallsKept)'
  <2>1. RingStays => events' = events
    BY AccessKeeps DEF readEvents
  <2>2. Trusted' => Trusted
    BY DEF readEvents, Trusted
  <2>3. /\ UNCHANGED <<queue, flights, logFile, snapFile, recorded, mine, raced, saveDue, ringMode>>
        /\ ringRead' \in {ringRead, "yes"}
    BY DEF readEvents
  <2> QED BY <1>1, <2>1, <2>2, <2>3, NothingMoves DEF TclInv
<1> QED BY <1>2, <1>3 DEF TclInv

\* The timer runs only where the log is off.
LEMMA TimerKeeps == ASSUME TclInv, saveTimer PROVE TclInv'
<1>1. TclTyped /\ Access \in Seq(Events)
  BY AccessTyped DEF TclInv
<1>2. TclTyped'
  BY <1>1 DEF saveTimer, saveSnapshot, recordPersistenceRecovery, recordPersistenceFailure,
              TclTyped, FlightRecords
<1>3. ~Trusted
  BY DEF TclInv, CallsKept, RingStays, saveTimer
<1>4. ~Trusted'
  BY <1>3 DEF saveTimer, Trusted
<1> QED BY <1>2, <1>4 DEF TclInv

\* A batch reaches the log.
LEMMA LandKeeps == ASSUME TclInv, NEW f \in flights, appendLands(f) PROVE TclInv'
<1>1. /\ f.stage = "writing" /\ logFile' = logFile \o f.batch /\ FlightMoves(f, "written")
      /\ UNCHANGED <<appendLog, ringMode, events, ringRead, queue, saveDue, snapFile,
                     recorded, ioErrors, deaths, health, mine, raced>>
      /\ TclTyped /\ logFile \in Seq(Events) /\ f.batch \in Seq(Events) /\ "written" \in Stages
  BY FlightTyped DEF appendLands, TclInv, TclTyped, Stages
<1>2. logFile' \in Seq(Events) /\ Range(logFile') = Range(logFile) \cup Range(f.batch)
  BY <1>1, RangeOfConcat
<1>3. /\ (flights \subseteq FlightRecords)'
      /\ \A g \in flights' : g \in flights \/ g.stage = "written"
      /\ \A g \in flights : g \in flights' \/ g = f
  BY <1>1, MovedFlight
<1>4. TclTyped'
  BY <1>1, <1>2, <1>3 DEF TclTyped
<1>5. ASSUME Trusted' PROVE CallsKept'
  <2>1. Trusted /\ CallsKept
    BY <1>1, <1>5 DEF Trusted, TclInv
  <2>2. Saved' = Saved
    BY <1>1 DEF Saved
  <2>3. RingStays' /\ mine' \subseteq Range(events')
    BY <1>1, <2>1 DEF CallsKept, RingStays
  <2>4. SnapshotCovers'
    BY <1>1, <1>3, <2>1, <2>2 DEF CallsKept, SnapshotCovers
  <2>5. NothingLost'
    <3> SUFFICES ASSUME NEW x \in mine', x \notin raced
                 PROVE  x \in Range(queue') \/ x \in InFlight' \/ x \in OnDisk'
      BY <1>1 DEF NothingLost
    <3>1. x \in Range(queue) \/ x \in InFlight \/ x \in OnDisk
      BY <1>1, <2>1 DEF CallsKept, NothingLost
    <3>2. x \in OnDisk \/ x \in Range(f.batch) => x \in OnDisk'
      BY <1>2, <2>2 DEF OnDisk
    <3>3. \A y : y \in InFlight' <=> \E g \in flights' : g.stage = "writing" /\ y \in Range(g.batch)
      BY DEF InFlight
    <3>4. x \in InFlight => x \in InFlight' \/ x \in Range(f.batch)
      BY <1>3, <3>3, InFlightMembers
    <3> QED BY <1>1, <3>1, <3>2, <3>4
  <2> QED BY <2>3, <2>4, <2>5 DEF CallsKept
<1> QED BY <1>4, <1>5 DEF TclInv

\* A batch that cannot be appended is queued again.
LEMMA FailKeeps == ASSUME TclInv, NEW f \in flights, appendFails(f) PROVE TclInv'
<1>1. /\ f.stage = "writing" /\ queue' = f.batch \o queue /\ flights' = flights \ {f}
      /\ health' = "degraded"
      /\ UNCHANGED <<appendLog, ringMode, events, ringRead, saveDue, logFile, snapFile,
                     recorded, deaths, mine, raced>>
      /\ TclTyped /\ queue \in Seq(Events) /\ f.batch \in Seq(Events)
  BY FlightTyped DEF appendFails, FlightEnds, recordPersistenceFailure, TclInv, TclTyped
<1>2. queue' \in Seq(Events) /\ Range(queue') = Range(f.batch) \cup Range(queue)
  BY <1>1, RangeOfConcat
<1>3. TclTyped'
  BY <1>1, <1>2 DEF TclTyped, FlightRecords
<1>4. ASSUME Trusted' PROVE CallsKept'
  <2>1. Trusted /\ CallsKept
    BY <1>1, <1>4 DEF Trusted, TclInv
  <2>2. Saved' = Saved /\ OnDisk' = OnDisk
    BY <1>1 DEF Saved, OnDisk
  <2>3. RingStays' /\ mine' \subseteq Range(events')
    BY <1>1, <2>1 DEF CallsKept, RingStays
  <2>4. SnapshotCovers'
    BY <1>1, <2>1, <2>2 DEF CallsKept, SnapshotCovers
  <2>5. NothingLost'
    <3> SUFFICES ASSUME NEW x \in mine', x \notin raced
                 PROVE  x \in Range(queue') \/ x \in InFlight' \/ x \in OnDisk
      BY <1>1, <2>2 DEF NothingLost
    <3>1. x \in Range(queue) \/ x \in InFlight \/ x \in OnDisk
      BY <1>1, <2>1 DEF CallsKept, NothingLost
    <3>2. \A y : y \in InFlight' <=> \E g \in flights' : g.stage = "writing" /\ y \in Range(g.batch)
      BY DEF InFlight
    <3> QED BY <1>1, <1>2, <3>1, <3>2, InFlightMembers
  <2> QED BY <2>3, <2>4, <2>5 DEF CallsKept
<1> QED BY <1>3, <1>4 DEF TclInv

\* A batch that has landed is none of those in flight.
LEMMA NotInFlight ==
  ASSUME NEW f \in flights, f.stage # "writing",
         \A g \in flights : g \in flights' \/ g = f
  PROVE  InFlight \subseteq InFlight'
<1>1. \A y : y \in InFlight' <=> \E g \in flights' : g.stage = "writing" /\ y \in Range(g.batch)
  BY DEF InFlight
<1> QED BY <1>1, InFlightMembers

\* After the append: the flush ends, or saves the ring before it empties the log.
LEMMA AppendedKeeps == ASSUME TclInv, NEW f \in flights, appended(f) PROVE TclInv'
<1>1. /\ f.stage = "written"
      /\ UNCHANGED <<appendLog, ringMode, queue, saveDue, logFile, recorded, deaths, mine, raced>>
      /\ TclTyped /\ Access \in Seq(Events)
  BY AccessTyped DEF appended, TclInv
<1>2. CASE flights' = flights \ {f} /\ snapFile' = snapFile
           /\ \/ events' = events /\ ringRead' = ringRead
              \/ events' = Access /\ ringRead' = "yes"
  <2>1. health' \in {"good", "degraded"}
    BY DEF appended, recordPersistenceRecovery, recordPersistenceFailure, TclInv, TclTyped
  <2>2. TclTyped'
    BY <1>1, <1>2, <2>1 DEF TclTyped, FlightRecords
  <2>3. ASSUME Trusted' PROVE CallsKept'
    <3>1. Trusted /\ CallsKept
      BY <1>1, <2>3 DEF Trusted, TclInv
    <3>2. events' = events /\ ringRead' \in {ringRead, "yes"}
      BY <1>2, <3>1, AccessKeeps DEF CallsKept
    <3>3. Saved' = Saved /\ OnDisk' = OnDisk
      BY <1>1, <1>2 DEF Saved, OnDisk
    <3>4. RingStays' /\ mine' \subseteq Range(events')
      BY <1>1, <1>2, <3>1, <3>2 DEF CallsKept, RingStays
    <3>5. SnapshotCovers'
      BY <1>1, <1>2, <3>1, <3>3 DEF CallsKept, SnapshotCovers
    <3>6. InFlight \subseteq InFlight'
      BY <1>1, <1>2, NotInFlight
    <3>7. NothingLost'
      BY <1>1, <3>1, <3>3, <3>6 DEF CallsKept, NothingLost
    <3> QED BY <3>4, <3>5, <3>7 DEF CallsKept
  <2> QED BY <2>2, <2>3 DEF TclInv
<1>3. CASE saveSnapshot /\ FlightMoves(f, "truncating") /\ health' = health
  <2>1. /\ (flights \subseteq FlightRecords)'
        /\ \A g \in flights' : g \in flights \/ g.upTo = recorded
        /\ \A g \in flights : g \in flights' \/ g = f
    <3>1. "truncating" \in Stages
      BY DEF Stages
    <3> QED BY <1>1, <1>3, <3>1, MovedFlight
  <2>2. snapFile' = Access /\ events' = Access /\ ringRead' = "yes"
    BY <1>3 DEF saveSnapshot
  <2>3. TclTyped'
    BY <1>1, <1>3, <2>1, <2>2 DEF TclTyped
  <2>4. ASSUME Trusted' PROVE CallsKept'
    <3>1. Trusted /\ CallsKept
      BY <1>1, <2>4 DEF Trusted, TclInv
    <3>2. events' = events /\ snapFile' = events
      BY <2>2, <3>1, AccessKeeps DEF CallsKept
    <3>3. Saved' = events
      <4>1. events # NoSnapshot
        BY <1>1, SavedSnapshot DEF TclTyped
      <4> QED BY <3>2, <4>1 DEF Saved
    <3>4. mine \subseteq Range(events)
      BY <3>1 DEF CallsKept
    <3>5. RingStays'
      BY <1>1, <2>2, <3>1 DEF CallsKept, RingStays
    <3>6. SnapshotCovers'
      BY <1>1, <3>3, <3>4 DEF SnapshotCovers
    <3>7. NothingLost'
      BY <1>1, <3>3, <3>4 DEF NothingLost, OnDisk
    <3> QED BY <1>1, <3>2, <3>4, <3>5, <3>6, <3>7 DEF CallsKept
  <2> QED BY <2>3, <2>4 DEF TclInv
<1> QED BY <1>2, <1>3 DEF appended, saveSnapshot, FlightEnds

\* The log is emptied, or is not.
LEMMA TruncatedKeeps == ASSUME TclInv, NEW f \in flights, truncated(f) PROVE TclInv'
<1>1. /\ f.stage = "truncating" /\ flights' = flights \ {f}
      /\ health' \in {"good", "degraded"}
      /\ UNCHANGED <<appendLog, ringMode, events, ringRead, queue, saveDue, snapFile,
                     recorded, deaths, mine>>
      /\ \/ logFile' = logFile /\ raced' = raced
         \/ logFile' = <<>> /\ raced' = raced \cup {e \in Range(logFile) : e > f.upTo}
      /\ TclTyped
  BY DEF truncated, FlightEnds, recordPersistenceRecovery, recordPersistenceFailure, TclInv
<1>2. TclTyped'
  BY <1>1, RangeOfNone DEF TclTyped, FlightRecords
<1>3. ASSUME Trusted' PROVE CallsKept'
  <2>1. Trusted /\ CallsKept
    BY <1>1, <1>3 DEF Trusted, TclInv
  <2>2. Saved' = Saved
    BY <1>1 DEF Saved
  <2>3. RingStays' /\ mine' \subseteq Range(events')
    BY <1>1, <2>1 DEF CallsKept, RingStays
  <2>4. SnapshotCovers'
    BY <1>1, <2>1, <2>2 DEF CallsKept, SnapshotCovers
  <2>5. InFlight \subseteq InFlight'
    BY <1>1, NotInFlight
  <2>6. NothingLost'
    <3> SUFFICES ASSUME NEW x \in mine, x \notin raced'
                 PROVE  x \in Range(queue) \/ x \in InFlight' \/ x \in OnDisk'
      BY <1>1 DEF NothingLost
    <3>1. x \in Range(queue) \/ x \in InFlight \/ x \in OnDisk
      BY <1>1, <2>1 DEF CallsKept, NothingLost
    <3>2. CASE logFile' = logFile
      BY <2>2, <2>5, <3>1, <3>2 DEF OnDisk
    <3>3. CASE raced' = raced \cup {e \in Range(logFile) : e > f.upTo}
      <4>1. x \in Range(logFile) => x \in Range(Saved)
        <5> SUFFICES ASSUME x \in Range(logFile) PROVE x \in Range(Saved)
          OBVIOUS
        <5>1. ~(x > f.upTo)
          BY <3>3
        <5>2. x \in Nat /\ f.upTo \in Nat
          <6>1. x \in Events /\ f.upTo \in 0 .. recorded /\ recorded \in Nat
            BY <1>1, FlightTyped DEF TclTyped
          <6> QED BY <6>1 DEF Events
        <5>3. x <= f.upTo
          BY <5>1, <5>2
        <5> QED BY <1>1, <2>1, <5>3 DEF CallsKept, SnapshotCovers
      <4> QED BY <2>2, <2>5, <3>1, <4>1 DEF OnDisk
    <3> QED BY <1>1, <3>2, <3>3
  <2> QED BY <2>3, <2>4, <2>6 DEF CallsKept
<1> QED BY <1>2, <1>3 DEF TclInv

\* A new process holds what was on disk.
LEMMA RestartKeeps == ASSUME TclInv, restartCollector PROVE TclInv'
<1>1. TclTyped /\ Saved \in Seq(Events) /\ logFile \in Seq(Events) /\ <<>> \in Seq(Events)
  BY SavedTyped, RangeOfNone DEF TclInv, TclTyped
<1>2. /\ events' = (IF ringMode = "snapshot" THEN Saved ELSE <<>>)
                   \o (IF appendLog = "on" THEN logFile ELSE <<>>)
      /\ queue' = <<>> /\ flights' = {} /\ saveDue' = "no" /\ health' = "good" /\ mine' = OnDisk
      /\ deaths' = deaths + 1 /\ deaths \in Nat
      /\ UNCHANGED <<appendLog, ringMode, logFile, snapFile, recorded, ioErrors, raced>>
  BY DEF restartCollector, TclInv, TclTyped
<1>3. OnDisk \subseteq Events
  <2>1. Range(logFile) \subseteq Events /\ Range(Saved) \subseteq Events
    BY <1>1, RangeOfSeq
  <2> QED BY <2>1 DEF OnDisk
<1>4. TclTyped'
  <2>1. events' \in Seq(Events)
    <3> DEFINE s == IF ringMode = "snapshot" THEN Saved ELSE <<>>
               t == IF appendLog = "on" THEN logFile ELSE <<>>
    <3>1. s \in Seq(Events) /\ t \in Seq(Events) /\ events' = s \o t
      BY <1>1, <1>2
    <3> HIDE DEF s, t
    <3> QED BY <3>1, RangeOfConcat
  <2>2. deaths' \in Nat
    BY <1>2
  <2> QED BY <1>1, <1>2, <1>3, <2>1, <2>2 DEF TclTyped
<1>5. ASSUME Trusted' PROVE CallsKept'
  <2>1. deaths' # 0
    BY <1>2
  <2>2. ringMode = "snapshot" /\ appendLog = "on"
    BY <1>2, <1>5, <2>1 DEF Trusted
  <2>3. events' = Saved \o logFile
    BY <1>2, <2>2
  <2>4. Saved' = Saved /\ OnDisk' = OnDisk
    BY <1>2 DEF Saved, OnDisk
  <2>5. mine' \subseteq Range(events')
    <3>1. Range(Saved \o logFile) = Range(Saved) \cup Range(logFile)
      BY <1>1, RangeOfConcat
    <3> QED BY <1>2, <2>3, <3>1 DEF OnDisk
  <2>6. RingStays'
    BY <1>2, <2>2 DEF RingStays
  <2>7. SnapshotCovers' /\ NothingLost'
    BY <1>2, <2>4 DEF SnapshotCovers, NothingLost
  <2> QED BY <2>5, <2>6, <2>7 DEF CallsKept
<1> QED BY <1>4, <1>5 DEF TclInv

LEMMA TclInitInv == ASSUME TclAssumption, TclInit PROVE TclInv
<1>1. TclTyped
  BY RangeOfNone, TclAssumption DEF TclAssumption, TclInit, TclTyped
<1>2. CallsKept
  BY DEF TclInit, CallsKept, RingStays, SnapshotCovers, NothingLost
<1> QED BY <1>1, <1>2 DEF TclInv

LEMMA TclInvStep == ASSUME TclAssumption, TclInv, [TclNext]_tclVars PROVE TclInv'
<1>1. CASE UNCHANGED tclVars
  <2>1. TclTyped' /\ (Trusted' => Trusted)
    BY <1>1 DEF tclVars, TclInv, TclTyped, FlightRecords, Trusted
  <2>2. (Trusted => CallsKept)'
    BY <1>1, <2>1, NothingMoves DEF tclVars, TclInv
  <2> QED BY <2>1, <2>2 DEF TclInv
<1>2. ASSUME NEW f \in flights,
             appendLands(f) \/ appendFails(f) \/ appended(f) \/ truncated(f)
      PROVE  TclInv'
  BY <1>2, LandKeeps, FailKeeps, AppendedKeeps, TruncatedKeeps
<1> QED BY <1>1, <1>2, RecordKeeps, ReadKeeps, TimerKeeps, RestartKeeps DEF TclNext

LEMMA TclInvAlways == TclSpec => []TclInv
<1>1. TclInit => TclInv
  BY TclInitInv, TclAssumption
<1>2. TclInv /\ [TclNext]_tclVars => TclInv'
  BY TclInvStep, TclAssumption
<1> QED BY <1>1, <1>2, PTL DEF TclSpec

\* The log, the snapshot and the queue hold calls, whichever flushes overlap.
THEOREM CallLogTypeCorrect == TclSpec => []TclTypeOK
<1>1. TclInv => TclTypeOK
  <2> SUFFICES ASSUME TclInv PROVE TclTypeOK
    OBVIOUS
  <2>1. TclTyped
    BY DEF TclInv
  <2>2. ASSUME NEW f \in flights
        PROVE  /\ f.batch \in Seq(Events) /\ f.compacts \in {"yes", "no"} /\ f.stage \in Stages
               /\ f.upTo \in 0 .. MaxEvents
    <3>1. f.upTo \in 0 .. recorded /\ recorded \in 0 .. MaxEvents
      BY <2>1, FlightTyped DEF TclTyped
    <3>2. f.upTo \in 0 .. MaxEvents
      BY <3>1, TclAssumption DEF TclAssumption
    <3> QED BY <2>1, <3>2, FlightTyped
  <2> QED BY <2>1, <2>2 DEF TclTypeOK, TclTyped
<1> QED BY <1>1, TclInvAlways, PTL

\* No write that fails loses a call, for any number of calls, of flushes at
\* once and of failures.
THEOREM FailedWritesLoseNothing == TclSpec => []FailureLosesNothing
<1>1. TclInv => FailureLosesNothing
  BY DEF TclInv, Trusted, CallsKept, NothingLost, FailureLosesNothing
<1> QED BY <1>1, TclInvAlways, PTL
=============================================================================
