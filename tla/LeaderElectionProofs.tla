------------------------ MODULE LeaderElectionProofs ------------------------
(***************************************************************************)
(* As long as elections have not overlapped and no live leader was late    *)
(* with its heartbeat, there is at most one leader and nobody takes its    *)
(* lock away, for any number of processes, deaths, stops and failing       *)
(* heartbeat writes.                                                       *)
(***************************************************************************)
EXTENDS LeaderElection, TLAPS

LEMMA TypeInit == Init => TypeOK
  BY LeaderElectionAssumption
  DEF Init, TypeOK, NoFile, Locks, Somebody, Roles, PCs

LEMMA TypeStep == TypeOK /\ [Next]_vars => TypeOK'
<1> SUFFICES ASSUME TypeOK, [Next]_vars PROVE TypeOK'
  OBVIOUS
<1> USE LeaderElectionAssumption
<1> USE DEF TypeOK, Locks, Somebody, Roles, PCs, Electing, Goto, Elect, NoFile
<1>1. CASE UNCHANGED vars
  BY <1>1 DEF vars
<1>2. CASE Age
  <2>1. lock.maker # Nobody /\ lapses' \in 0..MaxLapses
    BY <1>2 DEF Age
  <2>2. lock' \in Locks /\ lock'.maker = lock.maker
    BY <1>2 DEF Age
  <2>3. UNCHANGED <<tmp, role, info, hb, watch, pc, ctx, faults, elections>>
    BY <1>2 DEF Age
  <2> QED BY <2>1, <2>2, <2>3
<1>3. ASSUME NEW p \in Procs, Step(p) PROVE TypeOK'
  <2>1. CASE Start(p)
    BY <2>1 DEF Start
  <2>2. CASE Open(p)
    <3>1. lock' \in Locks /\ (lock'.maker = Nobody => lock' = NoFile)
      <4>1. CASE lock' = Empty(p)
        BY <4>1 DEF Empty
      <4>2. CASE lock' = lock
        BY <4>2
      <4> QED BY <2>2, <4>1, <4>2 DEF Open
    <3> QED BY <2>2, <3>1 DEF Open
  <2>3. CASE Write(p)
    BY <2>3 DEF Write, Written
  <2>4. CASE ReadAndFollow(p)
    BY <2>4 DEF ReadAndFollow
  <2>5. CASE ReadAndTakeOver(p)
    BY <2>5 DEF ReadAndTakeOver
  <2>6. CASE Unlink(p)
    BY <2>6 DEF Unlink
  <2>7. CASE Heartbeat(p)
    BY <2>7 DEF Heartbeat
  <2>8. CASE Rename(p)
    BY <2>8 DEF Rename, Written
  <2>9. CASE RenameFails(p)
    BY <2>9 DEF RenameFails
  <2>10. CASE WatchTick(p)
    BY <2>10 DEF WatchTick
  <2>11. CASE Drop(p)
    BY <2>11 DEF Drop
  <2>12. CASE HeartbeatFails(p)
    BY <2>12 DEF HeartbeatFails
  <2>13. CASE Stop(p)
    BY <2>13 DEF Stop, Retired
  <2>14. CASE Die(p)
    BY <2>14 DEF Die, Retired
  <2> QED
    BY <1>3, <2>1, <2>2, <2>3, <2>4, <2>5, <2>6, <2>7, <2>8, <2>9, <2>10, <2>11,
       <2>12, <2>13, <2>14 DEF Step, Run
<1> QED BY <1>1, <1>2, <1>3 DEF Next

\* Every variable has its type in every reachable state.
THEOREM ElectionTypeCorrect == Spec => []TypeOK
  BY TypeInit, TypeStep, PTL DEF Spec

---------------------------------------------------------------------------
\* One leader

\* Elections exclude each other.
OneElection ==
  \A p, q \in Procs : pc[p] \in Electing /\ pc[q] \in Electing => p = q

\* A leader's lock is its own and fresh, and it is at a place where a leader
\* can be.
LeaderHoldsLock ==
  \A p \in Procs :
    role[p] = "leader" =>
      /\ lock = Written(p)
      /\ pc[p] \in {"idle", "rename", "drop", "open", "read"}

\* Who is about to take the lock does so while nobody leads.
TakesFreeLock ==
  \A p \in Procs :
    /\ pc[p] \in {"unlink", "write"} => \A q \in Procs : role[q] # "leader"
    /\ pc[p] = "write" => lock = Empty(p)

\* A leader about to rename finds its own temporary file.
OwnTmp ==
  \A p \in Procs : pc[p] = "rename" => role[p] = "leader" /\ tmp = p

DropsOwn == \A p \in Procs : pc[p] = "drop" => role[p] = "leader"

Order == OneElection /\ LeaderHoldsLock /\ TakesFreeLock /\ OwnTmp /\ DropsOwn

LeaderInv == TypeOK /\ (Orderly => Order)

\* Disorder is never forgotten.
LEMMA OrderIsOld == TypeOK /\ [Next]_vars /\ Orderly' => Orderly
<1> SUFFICES ASSUME TypeOK, [Next]_vars, Orderly' PROVE Orderly
  OBVIOUS
<1>1. lapses' = lapses \/ lapses' = lapses + 1
  BY DEF vars, Next, Age, Step, Run, Start, Open, Write, ReadAndFollow, ReadAndTakeOver,
         Unlink, Heartbeat, Rename, RenameFails, WatchTick, Drop, HeartbeatFails, Stop, Die
<1>2. \/ elections' = elections
      \/ \E p \in Procs, c \in {"start", "watch", "heartbeat"} : Elect(p, c)
  BY DEF vars, Next, Age, Step, Run, Start, Open, Write, ReadAndFollow, ReadAndTakeOver,
         Unlink, Heartbeat, Rename, RenameFails, WatchTick, Drop, HeartbeatFails, Stop, Die
<1>3. elections = "apart"
  BY <1>2 DEF Orderly, Elect
<1>4. lapses = 0
  BY <1>1, LeaderElectionAssumption DEF Orderly, TypeOK
<1> QED BY <1>3, <1>4 DEF Orderly

\* Who starts an election that does not overlap is alone in it.
LEMMA AloneInElection ==
  ASSUME NEW p \in Procs, NEW c, Elect(p, c), Orderly'
  PROVE  \A q \in Procs : pc[q] \notin Electing
  BY DEF Elect, Orderly

\* Two leaders would both be in the lock.
LEMMA OneLeader ==
  ASSUME Order, NEW p \in Procs, NEW q \in Procs,
         role[p] = "leader", role[q] = "leader"
  PROVE  p = q
  BY DEF Order, LeaderHoldsLock, Written

LEMMA LeaderInvInit == Init => LeaderInv
  BY TypeInit
  DEF Init, LeaderInv, Order, OneElection, LeaderHoldsLock, TakesFreeLock, OwnTmp, DropsOwn,
      Electing

LEMMA LeaderInvStep ==
  ASSUME TypeOK, Order, TypeOK', Orderly', NEW p \in Procs, Step(p)
  PROVE  Order'
<1> USE LeaderElectionAssumption
<1> USE DEF Order, TypeOK, OneElection, LeaderHoldsLock, TakesFreeLock, OwnTmp,
            DropsOwn, Electing, Goto, Written
<1>1. CASE Start(p)
  <2>1. \A q \in Procs : pc[q] \notin Electing
    BY <1>1, AloneInElection DEF Start
  <2>2. /\ pc' = [pc EXCEPT ![p] = "open"]
        /\ UNCHANGED <<lock, role>>
    BY <1>1 DEF Start, Elect
  <2> QED BY <1>1, <2>1, <2>2 DEF Start
<1>2. CASE Open(p)
  <2>1. CASE lock = NoFile
    <3>1. \A q \in Procs : role[q] # "leader"
      BY <2>1 DEF NoFile
    <3> QED BY <1>2, <2>1, <3>1 DEF Open
  <2>2. CASE lock # NoFile
    BY <1>2, <2>2 DEF Open
  <2> QED BY <2>1, <2>2
<1>3. CASE Write(p)
  <2>1. \A q \in Procs : role[q] # "leader"
    BY <1>3 DEF Write
  <2>2. lock' = Written(p)
    BY <1>3 DEF Write
  <2>3. /\ pc' = [pc EXCEPT ![p] = "idle"] /\ role' = [role EXCEPT ![p] = "leader"]
        /\ tmp' = tmp /\ pc[p] = "write"
    BY <1>3 DEF Write
  <2>4. \A q \in Procs : pc'[q] \notin {"write", "unlink", "rename", "drop"}
    BY <2>1, <2>3
  <2>5. LeaderHoldsLock' /\ DropsOwn' /\ OwnTmp' /\ TakesFreeLock'
    BY <2>1, <2>2, <2>3, <2>4
  <2>6. OneElection'
    BY <2>3
  <2> QED BY <2>5, <2>6
<1>4. CASE ReadAndFollow(p)
  BY <1>4 DEF ReadAndFollow
<1>5. CASE ReadAndTakeOver(p)
  <2>1. \A q \in Procs : role[q] # "leader"
    BY <1>5 DEF ReadAndTakeOver, TakeOver, Alive
  <2> QED BY <1>5, <2>1 DEF ReadAndTakeOver
<1>6. CASE Unlink(p)
  BY <1>6 DEF Unlink
<1>7. CASE Heartbeat(p)
  BY <1>7, OneLeader DEF Heartbeat
<1>8. CASE Rename(p)
  <2>1. tmp = p /\ role[p] = "leader"
    BY <1>8 DEF Rename
  <2>2. lock' = Written(p) /\ role' = role /\ pc' = [pc EXCEPT ![p] = "idle"]
    BY <1>8, <2>1 DEF Rename
  <2>3. \A q \in Procs : q # p => role[q] # "leader"
    BY <2>1, OneLeader
  <2>4. \A q \in Procs : pc'[q] \notin {"write", "unlink", "rename", "drop"}
    BY <2>1, <2>2, <2>3
  <2>5. LeaderHoldsLock'
    <3>1. SUFFICES ASSUME NEW q \in Procs, role'[q] = "leader"
                   PROVE  lock' = Written(q) /\ pc'[q] = "idle"
      OBVIOUS
    <3>2. q = p
      BY <2>2, <2>3, <3>1
    <3>3. pc'[p] = "idle"
      BY <2>2
    <3> QED BY <2>2, <3>2, <3>3
  <2>6. OneElection'
    BY <2>2
  <2> QED BY <2>4, <2>5, <2>6
<1>9. CASE RenameFails(p)
  BY <1>9 DEF RenameFails
<1>10. CASE WatchTick(p)
  <2>1. \A q \in Procs : pc[q] \notin Electing
    BY <1>10, AloneInElection DEF WatchTick
  <2>2. /\ pc' = [pc EXCEPT ![p] = "open"]
        /\ UNCHANGED <<lock, role>>
    BY <1>10 DEF WatchTick, Elect
  <2> QED BY <1>10, <2>1, <2>2 DEF WatchTick
<1>11. CASE Drop(p)
  BY <1>11, OneLeader DEF Drop
<1>12. CASE HeartbeatFails(p)
  <2>1. \A q \in Procs : pc[q] \notin Electing
    BY <1>12, AloneInElection DEF HeartbeatFails
  <2>2. /\ pc' = [pc EXCEPT ![p] = "open"]
        /\ UNCHANGED <<lock, role>>
    BY <1>12 DEF HeartbeatFails, Elect
  <2> QED BY <1>12, <2>1, <2>2, OneLeader DEF HeartbeatFails
<1>13. CASE Stop(p)
  BY <1>13 DEF Stop
<1>14. CASE Die(p)
  BY <1>14 DEF Die
<1> QED
  BY <1>1, <1>2, <1>3, <1>4, <1>5, <1>6, <1>7, <1>8, <1>9, <1>10, <1>11, <1>12, <1>13,
     <1>14 DEF Step, Run

LEMMA LeaderInvAge ==
  ASSUME TypeOK, Order, Orderly', Age
  PROVE  Order'
<1>1. lapses' = lapses
  BY DEF Age, Orderly, TypeOK
<1>2. lock.pid # Nobody /\ ~Leading(lock.pid)
  BY <1>1 DEF Age, TypeOK
<1>3. \A p \in Procs : role[p] # "leader" /\ pc[p] # "write"
  BY <1>2 DEF Order, LeaderHoldsLock, TakesFreeLock, Written, Empty, Leading
<1> QED
  BY <1>3 DEF Age, Order, OneElection, LeaderHoldsLock, TakesFreeLock, OwnTmp, DropsOwn

LEMMA LeaderInvNext == LeaderInv /\ TypeOK' /\ [Next]_vars => LeaderInv'
<1> SUFFICES ASSUME LeaderInv, TypeOK', [Next]_vars, Orderly' PROVE Order'
  BY DEF LeaderInv
<1>1. TypeOK /\ Order
  BY OrderIsOld DEF LeaderInv
<1>2. CASE UNCHANGED vars
  BY <1>1, <1>2
  DEF vars, Order, OneElection, LeaderHoldsLock, TakesFreeLock, OwnTmp, DropsOwn
<1>3. CASE Next
  BY <1>1, <1>3, LeaderInvStep, LeaderInvAge DEF Next
<1> QED BY <1>2, <1>3

\* While elections are orderly, at most one process believes it is the leader,
\* whatever dies, stops and fails to write.
THEOREM OneLeaderOnly == Spec => []OrderlySingleLeader
<1>1. LeaderInv => OrderlySingleLeader
  BY OneLeader DEF LeaderInv, OrderlySingleLeader, SingleLeader, Leading
<1> QED
  BY <1>1, LeaderInvInit, LeaderInvNext, ElectionTypeCorrect, PTL DEF Spec

\* While elections are orderly, a leader's fresh lock is its own to give up.
THEOREM LockRespected == Spec => LockIsRespected
<1>1. LeaderInv /\ [Next]_vars => [Orderly' => OnlyLeaderGivesUp]_vars
  <2> SUFFICES ASSUME LeaderInv, Next, Orderly',
                      NEW p \in Procs, Leading(p), lock = Written(p), lock'.pid # p
               PROVE  pc[p] = "drop"
    BY DEF vars, OnlyLeaderGivesUp
  <2> DEFINE Calm == \A q \in Procs : role[q] = "leader" => q = p
  <2>a. TypeOK /\ Order
    BY OrderIsOld DEF LeaderInv
  <2>0. Calm /\ role[p] = "leader"
    BY <2>a, OneLeader DEF Leading
  <2>1. CASE Age
    <3>1. lock'.pid = lock.pid
      BY <2>1, <2>a DEF Age, TypeOK, Locks
    <3> QED BY <3>1 DEF Written
  <2>2. ASSUME NEW q \in Procs, Step(q) PROVE pc[p] = "drop"
    <3>1. CASE Open(q)
      <4>1. lock # NoFile
        BY LeaderElectionAssumption DEF Written, NoFile
      <4>2. UNCHANGED lock
        BY <3>1, <4>1 DEF Open
      <4> QED BY <4>2 DEF Written
    <3>2. CASE Write(q) \/ Unlink(q)
      BY <2>0, <2>a, <3>2 DEF Write, Unlink, Order, TakesFreeLock
    <3>3. CASE Rename(q)
      BY <2>0, <2>a, <3>3 DEF Rename, Order, OwnTmp, Written
    <3>4. CASE Drop(q)
      BY <2>0, <2>a, <3>4 DEF Drop, Order, DropsOwn
    <3>5. CASE ~(Open(q) \/ Write(q) \/ Unlink(q) \/ Rename(q) \/ Drop(q))
      <4>1. UNCHANGED lock
        BY <2>2, <3>5
        DEF Step, Run, Start, ReadAndFollow, ReadAndTakeOver, Heartbeat, RenameFails,
            WatchTick, HeartbeatFails, Stop, Die
      <4> QED BY <4>1 DEF Written
    <3> QED BY <3>1, <3>2, <3>3, <3>4, <3>5
  <2> QED BY <2>1, <2>2 DEF Next
<1> QED
  BY <1>1, LeaderInvInit, LeaderInvNext, ElectionTypeCorrect, PTL DEF Spec, LockIsRespected
=============================================================================
