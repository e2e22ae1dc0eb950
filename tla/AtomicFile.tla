----------------------------- MODULE AtomicFile -----------------------------
(***************************************************************************)
(* The writes of services/atomicFs.ts, on one file of a directory that     *)
(* several processes share: a temporary file with a unique name is written *)
(* and renamed over the file (atomicWriteJson), or linked to its name if   *)
(* nothing has that name (atomicCreateJson); a transient error starts over *)
(* with another temporary file, up to a number of attempts.                *)
(*                                                                         *)
(* Every file-system call is a step, so the synchronous and the            *)
(* asynchronous form, which sleeps between attempts, are one model: others *)
(* act between any two steps of a call.  A writer is a call under way, in  *)
(* whichever process.                                                      *)
(***************************************************************************)
EXTENDS Naturals

CONSTANTS
  Writers,
  Payloads,      \* what is written
  NoEntry,       \* there is no file
  MaxAttempts,   \* INDEX_SERVER_ATOMIC_WRITE_RETRIES, at least 1
  MaxWriteErrors, \* bound: file-system calls that fail
  MaxWriterDeaths

ASSUME AtomicAssumption == NoEntry \notin Payloads /\ MaxAttempts \in Nat \ {0}

Kinds     == {"write", "create"}
WriteSteps == {"idle", "writeTemp", "publish", "ok", "failed"}

VARIABLES
  entry,        \* the file
  wstep, wkind, wdata, attempt,
  temp,         \* the temporary file of the attempt
  litter,       \* "yes" once a temporary file was left behind
  writeErrors, writerDeaths

afCall  == <<wstep, wkind, wdata, attempt, temp>>
afVars  == <<entry, afCall, litter, writeErrors, writerDeaths>>

AtomicInit ==
  /\ entry \in Payloads \cup {NoEntry}
  /\ wstep = [p \in Writers |-> "idle"]
  /\ wkind = [p \in Writers |-> "write"]
  /\ wdata = [p \in Writers |-> NoEntry]
  /\ attempt = [p \in Writers |-> 1]
  /\ temp = [p \in Writers |-> NoEntry]
  /\ litter = "no" /\ writeErrors = 0 /\ writerDeaths = 0

WriteStep(p, s) == wstep' = [wstep EXCEPT ![p] = s]

atomicCall(p, k, d) ==
  /\ wstep[p] \in {"idle", "ok", "failed"}
  /\ WriteStep(p, "writeTemp")
  /\ wkind' = [wkind EXCEPT ![p] = k]
  /\ wdata' = [wdata EXCEPT ![p] = d]
  /\ attempt' = [attempt EXCEPT ![p] = 1]
  /\ UNCHANGED <<entry, temp, litter, writeErrors, writerDeaths>>

writeTemp(p) ==
  /\ wstep[p] = "writeTemp"
  /\ temp' = [temp EXCEPT ![p] = wdata[p]]
  /\ WriteStep(p, "publish")
  /\ UNCHANGED <<entry, wkind, wdata, attempt, litter, writeErrors, writerDeaths>>

(* renameSync takes the temporary file away.                               *)
rename(p) ==
  /\ wstep[p] = "publish" /\ wkind[p] = "write"
  /\ entry' = temp[p]
  /\ temp' = [temp EXCEPT ![p] = NoEntry]
  /\ WriteStep(p, "ok")
  /\ UNCHANGED <<wkind, wdata, attempt, litter, writeErrors, writerDeaths>>

(* An unlink of the temporary file may fail, and that is ignored.          *)
DropTemp(p) ==
  /\ temp' = [temp EXCEPT ![p] = NoEntry]
  /\ litter' \in IF temp[p] # NoEntry THEN {litter, "yes"} ELSE {litter}

link(p) ==
  /\ wstep[p] = "publish" /\ wkind[p] = "create" /\ entry = NoEntry
  /\ entry' = temp[p]
  /\ DropTemp(p)
  /\ WriteStep(p, "ok")
  /\ UNCHANGED <<wkind, wdata, attempt, writeErrors, writerDeaths>>

(* EEXIST is final.                                                        *)
linkExists(p) ==
  /\ wstep[p] = "publish" /\ wkind[p] = "create" /\ entry # NoEntry
  /\ DropTemp(p)
  /\ WriteStep(p, "failed")
  /\ UNCHANGED <<entry, wkind, wdata, attempt, writeErrors, writerDeaths>>

(* Mutant: the last attempt writes the file in place, and may not finish.  *)
callErrorInPlace(p) ==
  /\ wstep[p] \in {"writeTemp", "publish"}
  /\ writeErrors < MaxWriteErrors /\ writeErrors' = writeErrors + 1
  /\ entry' \in {entry, wdata[p]}
  /\ WriteStep(p, "failed")
  /\ DropTemp(p)
  /\ UNCHANGED <<wkind, wdata, attempt, writerDeaths>>

(* Any other error: a transient one starts over unless this was the last   *)
(* attempt, and no attempt falls back to writing the file in place.        *)
callError(p) ==
  /\ wstep[p] \in {"writeTemp", "publish"}
  /\ writeErrors < MaxWriteErrors /\ writeErrors' = writeErrors + 1
  /\ \/ /\ attempt[p] < MaxAttempts
        /\ attempt' = [attempt EXCEPT ![p] = @ + 1]
        /\ WriteStep(p, "writeTemp")
     \/ WriteStep(p, "failed") /\ UNCHANGED attempt
  /\ DropTemp(p)
  /\ UNCHANGED <<entry, wkind, wdata, writerDeaths>>

writerDies(p) ==
  /\ wstep[p] \in {"writeTemp", "publish"}
  /\ writerDeaths < MaxWriterDeaths /\ writerDeaths' = writerDeaths + 1
  /\ WriteStep(p, "idle")
  /\ temp' = [temp EXCEPT ![p] = NoEntry]
  /\ litter' \in {litter, "yes"}
  /\ UNCHANGED <<entry, wkind, wdata, attempt, writeErrors>>

(* An unlink by whoever removes the entry.                                 *)
entryRemoved ==
  /\ entry' = NoEntry
  /\ UNCHANGED <<afCall, litter, writeErrors, writerDeaths>>

AtomicNext ==
  \/ \E p \in Writers :
       \/ \E k \in Kinds, d \in Payloads : atomicCall(p, k, d)
       \/ writeTemp(p) \/ rename(p) \/ link(p) \/ linkExists(p)
       \/ callError(p) \/ writerDies(p)
  \/ entryRemoved

AtomicSpec == AtomicInit /\ [][AtomicNext]_afVars

(***************************************************************************)
(* Properties.                                                             *)
(***************************************************************************)
AtomicTypeOK ==
  /\ entry \in Payloads \cup {NoEntry}
  /\ wstep \in [Writers -> WriteSteps] /\ wkind \in [Writers -> Kinds]
  /\ wdata \in [Writers -> Payloads \cup {NoEntry}]
  /\ attempt \in [Writers -> 1 .. MaxAttempts]
  /\ temp \in [Writers -> Payloads \cup {NoEntry}]
  /\ litter \in {"yes", "no"}

Pending(p) == wstep[p] \in {"writeTemp", "publish"}

Register ==
  INSTANCE FileRegister
  WITH calls <- [p \in Writers |->
                   [state |-> IF Pending(p) THEN "pending" ELSE wstep[p],
                    kind |-> wkind[p], data |-> wdata[p]]]

(* However many processes write, retry, fail and die, the file changes as  *)
(* a register does: a success is one whole replacement within the call, a  *)
(* creation replaces nothing, a failure or a retry leaves no trace (module *)
(* FileRegister).                                                          *)
ImplementsRegister == Register!RegisterSpec
=============================================================================
