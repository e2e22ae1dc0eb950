--------------------------- MODULE LeaderElection ---------------------------
(***************************************************************************)
(* Leader election between server processes that share a state directory   *)
(* (src/src/dashboard/server/LeaderElection.ts).                           *)
(*                                                                         *)
(* The lock is the file leader.lock: created with O_CREAT|O_EXCL, then     *)
(* written through the descriptor, refreshed by a heartbeat that renames   *)
(* leader.lock.tmp over it, and removed by whoever finds it unreadable,    *)
(* its holder dead, or its heartbeat older than staleThresholdMs.  Every   *)
(* file-system call is a step of its own, so processes interleave between  *)
(* them.  A PID is never reused: a restarted server is another process.    *)
(* Time is abstracted to the age of the heartbeat: fresh or stale.         *)
(***************************************************************************)
EXTENDS Naturals, FiniteSets

CONSTANTS Procs,      \* PIDs
          Nobody,     \* no PID
          Mortals,    \* the processes that may die
          Stoppers,   \* the processes on which stop() may be called
          MaxFaults,  \* bound: heartbeat writes that fail
          MaxLapses   \* bound: heartbeats of a live leader that come too late

ASSUME LeaderElectionAssumption ==
    /\ Nobody \notin Procs
    /\ Mortals \subseteq Procs
    /\ Stoppers \subseteq Procs
    /\ MaxFaults \in Nat /\ MaxLapses \in Nat

VARIABLES
  lock,    \* leader.lock: who created it, the PID in it, is its heartbeat fresh
  tmp,     \* leader.lock.tmp: the PID in it, or Nobody when there is no file
  role,    \* role[p]: _role
  info,    \* info[p]: PID of _leaderInfo
  hb,      \* processes whose heartbeatTimer runs
  watch,   \* processes whose watchTimer runs
  pc,      \* pc[p]: where p is in LeaderElection's code
  ctx,     \* ctx[p]: who called tryAcquireLock()
  faults, lapses,
  elections  \* history: whether two processes were ever in tryAcquireLock() at a time

vars == <<lock, tmp, role, info, hb, watch, pc, ctx, faults, lapses, elections>>

Somebody == Procs \cup {Nobody}
Locks    == [maker : Somebody, pid : Somebody, fresh : BOOLEAN]
Roles    == {"candidate", "leader", "follower"}
Electing == {"open", "write", "read", "unlink"}
PCs      == Electing \cup {"unborn", "idle", "rename", "drop", "stopped", "dead"}

\* A file that is there has a maker; one just created has no PID in it yet.
NoFile      == [maker |-> Nobody, pid |-> Nobody, fresh |-> FALSE]
Empty(p)    == [maker |-> p, pid |-> Nobody, fresh |-> TRUE]
Written(p)  == [maker |-> p, pid |-> p, fresh |-> TRUE]

\* isProcessAlive(): signal 0 reaches the PID.
Alive(p) == p \in Procs /\ pc[p] \notin {"unborn", "dead"}

\* buildLockEntry() of a leader that runs normally keeps the lock fresh.
Leading(p) == p \in Procs /\ role[p] = "leader" /\ pc[p] # "dead"

Goto(p, l) == pc' = [pc EXCEPT ![p] = l]

Init ==
  /\ lock = NoFile /\ tmp = Nobody
  /\ role = [p \in Procs |-> "candidate"]
  /\ info = [p \in Procs |-> Nobody]
  /\ hb = {} /\ watch = {}
  /\ pc = [p \in Procs |-> "unborn"]
  /\ ctx = [p \in Procs |-> "start"]
  /\ faults = 0 /\ lapses = 0 /\ elections = "apart"

---------------------------------------------------------------------------
\* tryAcquireLock() and handleExistingLock()

\* tryAcquireLock() is called from c.
Elect(p, c) ==
  /\ Goto(p, "open") /\ ctx' = [ctx EXCEPT ![p] = c]
  /\ elections' = IF \E q \in Procs : pc[q] \in Electing THEN "overlap" ELSE elections

\* start() of a new process.
Start(p) ==
  /\ pc[p] = "unborn"
  /\ Elect(p, "start")
  /\ UNCHANGED <<lock, tmp, role, info, hb, watch, faults, lapses>>

\* Mutant: without O_EXCL an existing file is opened and truncated.
OpenTruncates(p) ==
  /\ pc[p] = "open"
  /\ lock' = Empty(p) /\ Goto(p, "write")
  /\ UNCHANGED <<tmp, role, info, hb, watch, ctx, faults, lapses, elections>>

\* openSync(O_CREAT | O_EXCL): creates the file, or fails since it exists.
Open(p) ==
  /\ pc[p] = "open"
  /\ \/ lock = NoFile /\ lock' = Empty(p) /\ Goto(p, "write")
     \/ lock # NoFile /\ UNCHANGED lock /\ Goto(p, "read")
  /\ UNCHANGED <<tmp, role, info, hb, watch, ctx, faults, lapses, elections>>

\* writeSync() through the descriptor reaches leader.lock only while that
\* still is the file p created.  p is leader either way; start() and the
\* watcher then start the heartbeat, a failed heartbeat has it running.
Write(p) ==
  /\ pc[p] = "write"
  /\ lock' = IF lock = Empty(p) THEN Written(p) ELSE lock
  /\ role' = [role EXCEPT ![p] = "leader"]
  /\ info' = [info EXCEPT ![p] = p]
  /\ hb' = hb \cup {p}
  /\ watch' = watch \ {p}
  /\ Goto(p, "idle")
  /\ UNCHANGED <<tmp, ctx, faults, lapses, elections>>

\* Mutant: the age is compared the wrong way round.
TakeOverReversed(l) == l.pid = Nobody \/ ~Alive(l.pid) \/ l.fresh

\* A lock that may be taken over: gone or unparsable, holder dead, or stale.
TakeOver(l) == l.pid = Nobody \/ ~Alive(l.pid) \/ ~l.fresh

\* readFileSync() finds a lock to respect: p follows its holder.  start()
\* then starts the watcher; a failed heartbeat starts nothing.
ReadAndFollow(p) ==
  /\ pc[p] = "read" /\ ~TakeOver(lock)
  /\ role' = [role EXCEPT ![p] = "follower"]
  /\ info' = [info EXCEPT ![p] = lock.pid]
  /\ watch' = IF ctx[p] = "start" THEN watch \cup {p} ELSE watch
  /\ Goto(p, "idle")
  /\ UNCHANGED <<lock, tmp, hb, ctx, faults, lapses, elections>>

\* readFileSync() fails or finds one to take over.
ReadAndTakeOver(p) ==
  /\ pc[p] = "read" /\ TakeOver(lock)
  /\ Goto(p, "unlink")
  /\ UNCHANGED <<lock, tmp, role, info, hb, watch, ctx, faults, lapses, elections>>

\* unlinkSync(), whatever file is there by now; then tryAcquireLock() again.
Unlink(p) ==
  /\ pc[p] = "unlink"
  /\ lock' = NoFile
  /\ Goto(p, "open")
  /\ UNCHANGED <<tmp, role, info, hb, watch, ctx, faults, lapses, elections>>

---------------------------------------------------------------------------
\* Heartbeat

\* updateHeartbeat(): the leader writes leader.lock.tmp ...
Heartbeat(p) ==
  /\ pc[p] = "idle" /\ p \in hb /\ role[p] = "leader"
  /\ tmp' = p
  /\ Goto(p, "rename")
  /\ UNCHANGED <<lock, role, info, hb, watch, ctx, faults, lapses, elections>>

\* ... and renames it over leader.lock, whoever wrote either of them.
Rename(p) ==
  /\ pc[p] = "rename" /\ tmp # Nobody
  /\ lock' = Written(tmp) /\ tmp' = Nobody
  /\ info' = [info EXCEPT ![p] = p]
  /\ Goto(p, "idle")
  /\ UNCHANGED <<role, hb, watch, ctx, faults, lapses, elections>>

\* The rename finds no file, because another leader has renamed it.
RenameFails(p) ==
  /\ pc[p] = "rename" /\ tmp = Nobody
  /\ Elect(p, "heartbeat")
  /\ UNCHANGED <<lock, tmp, role, info, hb, watch, faults, lapses>>

\* The write fails (disk full, permissions): the temporary file is removed.
HeartbeatFails(p) ==
  /\ pc[p] = "idle" /\ p \in hb /\ role[p] = "leader"
  /\ faults < MaxFaults /\ faults' = faults + 1
  /\ tmp' = Nobody
  /\ Elect(p, "heartbeat")
  /\ UNCHANGED <<lock, role, info, hb, watch, lapses>>

\* More than staleThresholdMs pass without a heartbeat.  A leader that lives
\* keeps its lock fresh, unless it is suspended or its event loop is blocked.
Age ==
  /\ lock.fresh
  /\ IF Leading(lock.pid) \/ lock.pid = Nobody
     THEN lapses < MaxLapses /\ lapses' = lapses + 1
     ELSE UNCHANGED lapses
  /\ lock' = [lock EXCEPT !.fresh = FALSE]
  /\ UNCHANGED <<tmp, role, info, hb, watch, pc, ctx, faults, elections>>

---------------------------------------------------------------------------
\* Watcher

\* Mutant: only the leader's death is noticed, not a stale heartbeat.
WatchTickAliveOnly(p) ==
  /\ pc[p] = "idle" /\ p \in watch
  /\ ~Alive(info[p])
  /\ Elect(p, "watch")
  /\ UNCHANGED <<lock, tmp, role, info, hb, watch, faults, lapses>>

\* The remembered leader is dead, or the lock is gone, unreadable or stale.
WatchTick(p) ==
  /\ pc[p] = "idle" /\ p \in watch
  /\ ~Alive(info[p]) \/ lock.pid = Nobody \/ ~lock.fresh
  /\ Elect(p, "watch")
  /\ UNCHANGED <<lock, tmp, role, info, hb, watch, faults, lapses>>

---------------------------------------------------------------------------
\* stop() and death

Retired(p) == hb' = hb \ {p} /\ watch' = watch \ {p}

\* stop() clears the timers; a leader whose PID is in the lock goes on to
\* remove it, anybody else is done.
Stop(p) ==
  /\ p \in Stoppers /\ pc[p] = "idle"
  /\ Retired(p)
  /\ IF role[p] = "leader" /\ lock.pid = p
     THEN Goto(p, "drop") /\ UNCHANGED role
     ELSE Goto(p, "stopped") /\ role' = [role EXCEPT ![p] = "candidate"]
  /\ UNCHANGED <<lock, tmp, info, ctx, faults, lapses, elections>>

\* Mutant: the file is emptied and not removed.
DropEmpties(p) ==
  /\ pc[p] = "drop"
  /\ lock' = [lock EXCEPT !.maker = Nobody, !.pid = Nobody]
  /\ role' = [role EXCEPT ![p] = "candidate"]
  /\ Goto(p, "stopped")
  /\ UNCHANGED <<tmp, info, hb, watch, ctx, faults, lapses, elections>>

\* releaseLock() removes the file, whoever's it is by now.
Drop(p) ==
  /\ pc[p] = "drop"
  /\ lock' = NoFile
  /\ role' = [role EXCEPT ![p] = "candidate"]
  /\ Goto(p, "stopped")
  /\ UNCHANGED <<tmp, info, hb, watch, ctx, faults, lapses, elections>>

Die(p) ==
  /\ p \in Mortals /\ Alive(p)
  /\ Retired(p)
  /\ Goto(p, "dead") /\ role' = [role EXCEPT ![p] = "candidate"]
  /\ UNCHANGED <<lock, tmp, info, ctx, faults, lapses, elections>>

---------------------------------------------------------------------------
\* What p does once started, its timers firing.
Run(p) ==
  \/ Open(p) \/ Write(p) \/ ReadAndFollow(p) \/ ReadAndTakeOver(p) \/ Unlink(p)
  \/ Heartbeat(p) \/ Rename(p) \/ RenameFails(p) \/ WatchTick(p) \/ Drop(p)

Step(p) == Start(p) \/ Run(p) \/ HeartbeatFails(p) \/ Stop(p) \/ Die(p)

Next == Age \/ \E p \in Procs : Step(p)

Spec == Init /\ [][Next]_vars

\* Live processes keep running, and time passes for a lock nobody refreshes.
Fairness == WF_vars(Age) /\ \A p \in Procs : WF_vars(Run(p))

FairSpec == Spec /\ Fairness

---------------------------------------------------------------------------
\* Properties

\* Every variable has its type.
TypeOK ==
  /\ lock \in Locks /\ (lock.maker = Nobody => lock = NoFile) /\ tmp \in Somebody
  /\ role \in [Procs -> Roles] /\ info \in [Procs -> Somebody]
  /\ hb \subseteq Procs /\ watch \subseteq Procs
  /\ pc \in [Procs -> PCs] /\ ctx \in [Procs -> {"start", "watch", "heartbeat"}]
  /\ faults \in 0..MaxFaults /\ lapses \in 0..MaxLapses /\ elections \in {"apart", "overlap"}

\* docs/multi_instance_design.md:318: "Leader serializes all disk writes. No
\* concurrent file access": at most one process believes it is the leader.
SingleLeader ==
  \A p, q \in Procs : Leading(p) /\ Leading(q) /\ pc[p] # "drop" /\ pc[q] # "drop" => p = q

\* Elections came one after the other and no live leader was late.
Orderly == elections = "apart" /\ lapses = 0

\* As long as that is so there is one leader, whatever dies, stops or fails.
OrderlySingleLeader == Orderly => SingleLeader

\* Nobody but the leader itself takes its fresh lock away.
OnlyLeaderGivesUp ==
  \A p \in Procs : Leading(p) /\ lock = Written(p) /\ lock'.pid # p => pc[p] = "drop"

\* ... as long as the elections are orderly.
LockIsRespected == [][Orderly' => OnlyLeaderGivesUp]_vars

\* As long as somebody watches, somebody leads in the end, and the lock says so.
LeaderReturns ==
  watch # {} ~> (watch = {} \/ \E p \in hb : role[p] = "leader" /\ lock.pid = p)
=============================================================================
