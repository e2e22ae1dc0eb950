-------------------------- MODULE InstanceRegistry --------------------------
(***************************************************************************)
(* The list of running dashboards (dashboard/server/InstanceManager.ts):   *)
(* each process keeps a port file named by its pid in a shared directory,  *)
(* and each removes the files of processes that are gone or do not answer. *)
(* With it, the end of a process (server/shutdownGuard.ts and the exits    *)
(* that server/index-server.ts routes through it): the cleanups run once,  *)
(* at once, and the process serves on until the first of its exit timers.  *)
(*                                                                         *)
(* A pid that is free may be taken by a new server or by another program.  *)
(***************************************************************************)
EXTENDS Naturals

CONSTANTS
  Pids,
  DashPorts,  \* ports the dashboards try
  NoPort, NoPid,
  Reasons,    \* why a process ends: subset of {"uncaughtException", "signal",
              \* "stdin-closed", "ppid-orphan"}
  MaxBirths,  \* bound: processes started
  MaxKills,   \* bound: processes that end without their cleanups
  MaxSlow     \* bound: answers that take longer than the ping waits

ASSUME RegistryAssumption == MaxBirths \in Nat /\ MaxKills \in Nat /\ MaxSlow \in Nat

VARIABLES
  proc,       \* "none", "running", "other" (not one of ours)
  listensOn,  \* the port of its dashboard
  portFile,   \* the port in dashboard-<pid>.json
  registered, \* _registeredPort
  exitTimers, \* reasons whose exit timer runs
  toCheck,    \* files a validation has still to look at
  pinging,    \* the pid and the port a validation waits for
  births, kills, slow,
  unclean     \* history: pids whose process was killed, or was asked for the
              \* list between its cleanups and its exit

regBounds == <<births, kills, slow>>
regVars   == <<proc, listensOn, portFile, registered, exitTimers, toCheck, pinging,
               regBounds, unclean>>

NoPing == [pid |-> NoPid, port |-> NoPort]

RegistryInit ==
  /\ proc = [p \in Pids |-> "none"]
  /\ listensOn = [p \in Pids |-> NoPort]
  /\ portFile = [p \in Pids |-> NoPort]
  /\ registered = [p \in Pids |-> NoPort]
  /\ exitTimers = [p \in Pids |-> {}]
  /\ toCheck = [p \in Pids |-> {}]
  /\ pinging = [p \in Pids |-> NoPing]
  /\ births = 0 /\ kills = 0 /\ slow = 0 /\ unclean = {}

Running(p)        == proc[p] = "running"
isProcessAlive(p) == proc[p] # "none"
Listed            == {p \in Pids : portFile[p] # NoPort}
Dead              == {p \in Pids : ~isProcessAlive(p)}
FreePorts         == DashPorts \ {listensOn[p] : p \in Pids}

WithoutFiles(S) == [p \in Pids |-> IF p \in S THEN NoPort ELSE portFile[p]]

(***************************************************************************)
(* Start-up: the dashboard takes a port it finds free; the stale files are *)
(* removed; the own file is written over whatever has its name.            *)
(***************************************************************************)
Born(p) ==
  /\ proc[p] = "none" /\ births < MaxBirths
  /\ births' = births + 1

startDashboard(p) ==
  /\ Born(p)
  /\ proc' = [proc EXCEPT ![p] = "running"]
  /\ \E port \in FreePorts :
       /\ listensOn' = [listensOn EXCEPT ![p] = port]
       /\ registered' = [registered EXCEPT ![p] = port]
       /\ portFile' = [WithoutFiles(Dead \ {p}) EXCEPT ![p] = port]
  /\ unclean' = unclean \ {p}
  /\ UNCHANGED <<exitTimers, toCheck, pinging, kills, slow>>

otherProgramStarts(p) ==
  /\ Born(p)
  /\ proc' = [proc EXCEPT ![p] = "other"]
  /\ UNCHANGED <<listensOn, portFile, registered, exitTimers, toCheck, pinging,
                 kills, slow, unclean>>

(***************************************************************************)
(* The list: files of the dead go, and the own file comes back if it was   *)
(* removed.                                                                *)
(***************************************************************************)
Healed(p, files) ==
  IF files[p] = NoPort THEN [files EXCEPT ![p] = registered[p]] ELSE files

ListsInstances(p) ==
  /\ portFile' = Healed(p, WithoutFiles(Dead))
  /\ unclean' = IF exitTimers[p] # {} THEN unclean \cup {p} ELSE unclean

getActiveInstances(p) ==
  /\ Running(p)
  /\ ListsInstances(p)
  /\ UNCHANGED <<proc, listensOn, registered, exitTimers, toCheck, pinging, regBounds>>

(***************************************************************************)
(* Validation, every 30 seconds: the names are listed, then each file is   *)
(* read, and the port in it pinged if its process is alive.  Whoever       *)
(* listens on that port answers, by listing the instances; the file is     *)
(* removed by its name when nobody did in three seconds.                   *)
(***************************************************************************)
validateInstances(v) ==
  /\ Running(v) /\ toCheck[v] = {} /\ pinging[v] = NoPing
  /\ Listed \ {v} # {}
  /\ toCheck' = [toCheck EXCEPT ![v] = Listed \ {v}]
  /\ UNCHANGED <<proc, listensOn, portFile, registered, exitTimers, pinging,
                 regBounds, unclean>>

(* Mutant: the file of a dead process is passed over.                      *)
checkNextSkips(v, q) ==
  /\ Running(v) /\ pinging[v] = NoPing /\ q \in toCheck[v]
  /\ toCheck' = [toCheck EXCEPT ![v] = @ \ {q}]
  /\ pinging' = IF isProcessAlive(q) /\ portFile[q] # NoPort
                THEN [pinging EXCEPT ![v] = [pid |-> q, port |-> portFile[q]]] ELSE pinging
  /\ UNCHANGED <<proc, listensOn, portFile, registered, exitTimers, regBounds, unclean>>

checkNext(v, q) ==
  /\ Running(v) /\ pinging[v] = NoPing /\ q \in toCheck[v]
  /\ toCheck' = [toCheck EXCEPT ![v] = @ \ {q}]
  /\ IF isProcessAlive(q) /\ portFile[q] # NoPort
     THEN /\ pinging' = [pinging EXCEPT ![v] = [pid |-> q, port |-> portFile[q]]]
          /\ UNCHANGED portFile
     ELSE /\ portFile' = WithoutFiles({q})
          /\ UNCHANGED pinging
  /\ UNCHANGED <<proc, listensOn, registered, exitTimers, regBounds, unclean>>

pingAnswers(v, w) ==
  /\ Running(v) /\ pinging[v] # NoPing
  /\ Running(w) /\ listensOn[w] = pinging[v].port
  /\ ListsInstances(w)
  /\ pinging' = [pinging EXCEPT ![v] = NoPing]
  /\ UNCHANGED <<proc, listensOn, registered, exitTimers, toCheck, regBounds>>

pingFails(v) ==
  /\ Running(v) /\ pinging[v] # NoPing
  /\ IF \E w \in Pids : listensOn[w] = pinging[v].port
     THEN slow < MaxSlow /\ slow' = slow + 1
     ELSE UNCHANGED slow
  /\ portFile' = WithoutFiles({pinging[v].pid})
  /\ pinging' = [pinging EXCEPT ![v] = NoPing]
  /\ UNCHANGED <<proc, listensOn, registered, exitTimers, toCheck, births, kills, unclean>>

(***************************************************************************)
(* The end of a process.  Several reasons may each set an exit timer; the  *)
(* cleanups run with the first.                                            *)
(***************************************************************************)
(* Mutant: the cleanups do not run.                                        *)
initiateShutdownBare(p, reason) ==
  /\ Running(p)
  /\ reason \notin exitTimers[p]
  /\ exitTimers' = [exitTimers EXCEPT ![p] = @ \cup {reason}]
  /\ UNCHANGED <<proc, listensOn, portFile, registered, toCheck, pinging, regBounds, unclean>>

initiateShutdown(p, reason) ==
  /\ Running(p)
  /\ reason \notin exitTimers[p]
  /\ exitTimers' = [exitTimers EXCEPT ![p] = @ \cup {reason}]
  /\ portFile' = IF exitTimers[p] = {} THEN WithoutFiles({p}) ELSE portFile
  /\ UNCHANGED <<proc, listensOn, registered, toCheck, pinging, regBounds, unclean>>

ProcessGone(p) ==
  /\ proc' = [proc EXCEPT ![p] = "none"]
  /\ listensOn' = [listensOn EXCEPT ![p] = NoPort]
  /\ registered' = [registered EXCEPT ![p] = NoPort]
  /\ exitTimers' = [exitTimers EXCEPT ![p] = {}]
  /\ toCheck' = [toCheck EXCEPT ![p] = {}]
  /\ pinging' = [pinging EXCEPT ![p] = NoPing]

processExits(p) ==
  /\ Running(p) /\ exitTimers[p] # {}
  /\ ProcessGone(p)
  /\ UNCHANGED <<portFile, regBounds, unclean>>

processKilled(p) ==
  /\ Running(p) /\ kills < MaxKills
  /\ kills' = kills + 1
  /\ ProcessGone(p)
  /\ unclean' = unclean \cup {p}
  /\ UNCHANGED <<portFile, births, slow>>

otherProgramEnds(p) ==
  /\ proc[p] = "other"
  /\ proc' = [proc EXCEPT ![p] = "none"]
  /\ UNCHANGED <<listensOn, portFile, registered, exitTimers, toCheck, pinging,
                 regBounds, unclean>>

RegistryNext ==
  \E p \in Pids :
    \/ startDashboard(p) \/ otherProgramStarts(p) \/ otherProgramEnds(p)
    \/ getActiveInstances(p) \/ validateInstances(p) \/ pingFails(p)
    \/ \E q \in Pids : checkNext(p, q) \/ pingAnswers(p, q)
    \/ \E reason \in Reasons : initiateShutdown(p, reason)
    \/ processExits(p) \/ processKilled(p)

RegistrySpec == RegistryInit /\ [][RegistryNext]_regVars

(***************************************************************************)
(* Properties.                                                             *)
(***************************************************************************)
RegistryTypeOK ==
  /\ proc \in [Pids -> {"none", "running", "other"}]
  /\ listensOn \in [Pids -> DashPorts \cup {NoPort}]
  /\ portFile \in [Pids -> DashPorts \cup {NoPort}]
  /\ registered \in [Pids -> DashPorts \cup {NoPort}]
  /\ exitTimers \in [Pids -> SUBSET Reasons]
  /\ toCheck \in [Pids -> SUBSET Pids]
  /\ pinging \in [Pids -> [pid : Pids \cup {NoPid}, port : DashPorts \cup {NoPort}]]
  /\ births \in 0 .. MaxBirths /\ kills \in 0 .. MaxKills /\ slow \in 0 .. MaxSlow
  /\ unclean \subseteq Pids

(* The file of a running process names the port that process listens on,   *)
(* whoever had its pid before; and a file outlives its process only if the *)
(* process was killed, or asked for the list after its cleanups: a         *)
(* validation that read a file before, a recycled pid or a late ping never *)
(* leave one behind.                                                       *)
PortFilesAreTrue ==
  \A p \in Listed :
    /\ Running(p)  => portFile[p] = listensOn[p]
    /\ ~Running(p) => p \in unclean

(* The file of a process that is gone goes, as long as some server runs    *)
(* and its pid is not taken again.                                         *)
StaleFilesGo ==
  \A p \in Pids :
    p \in Listed /\ proc[p] = "none"
      ~> p \notin Listed \/ proc[p] # "none" \/ \A q \in Pids : ~Running(q)
=============================================================================
