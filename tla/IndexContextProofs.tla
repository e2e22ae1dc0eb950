-------------------------- MODULE IndexContextProofs --------------------------
(***************************************************************************)
(* What holds of IndexContext for every set of processes, ids, pollers and *)
(* bound: its typing, that stale memory is always about to be found out,   *)
(* that the processes implement the shared catalogue, and that a handler's *)
(* answer contains what it wrote; and that a process alone in its          *)
(* directory answers from the disk and loses no update to a patch.         *)
(***************************************************************************)
EXTENDS IndexContext, TLAPS

---------------------------------------------------------------------------
\* Typing

LEMMA AnyIdTyped == AnyId \in Ids
  BY IndexContextAssumption DEF AnyId

LEMMA NoJobTyped == NoJob \in Jobs
  BY AnyIdTyped DEF NoJob, Jobs, Ops, ReadOps, Phases

LEMMA NextGenTyped ==
  ASSUME TypeOK, NEW id \in Ids, NEW l \in BOOLEAN
  PROVE  NextGen(id, l) \in Gens
  BY DEF TypeOK, NextGen, Views, Gens

\* Whatever follows an ensureLoaded() keeps pc and job typed.
LEMMA ContinueTyped ==
  ASSUME TypeOK, NEW p \in Procs, Continue(p)
  PROVE  pc' \in [Procs -> PCs] /\ job' \in [Procs -> Jobs]
  BY NoJobTyped DEF TypeOK, Continue, Goto, Finish, PCs

\* So does the mutation of the job's file, and it keeps disk typed.
LEMMA MutateTyped ==
  ASSUME TypeOK, NEW p \in Procs, NEW l \in BOOLEAN, Mutate(p, l)
  PROVE  /\ disk' \in Views
         /\ pc' \in [Procs -> PCs] /\ job' \in [Procs -> Jobs]
<1>1. job[p] \in Jobs /\ job[p].id \in Ids
  BY DEF TypeOK, Jobs
<1>2. NextGen(job[p].id, l) \in Gens
  BY <1>1, NextGenTyped
<1>3. disk' \in Views
  BY <1>1, <1>2 DEF TypeOK, Mutate, Views
<1>4. disk[job[p].id].n + 1 \in Nat
  BY <1>1 DEF TypeOK, Views, Gens
<1>5. job' \in [Procs -> Jobs]
  BY <1>1, <1>4 DEF TypeOK, Mutate, Jobs
<1>6. pc' \in [Procs -> PCs]
  BY DEF TypeOK, Mutate, Goto, PCs
<1> QED BY <1>3, <1>5, <1>6

LEMMA TypeInit == Init => TypeOK
<1> SUFFICES ASSUME Init PROVE TypeOK
  OBVIOUS
<1>1. NoGen \in Gens /\ [n |-> 0, live |-> TRUE] \in Gens
  BY DEF NoGen, Gens
<1>2. disk \in Views /\ [i \in Ids |-> NoGen] \in Views
  BY <1>1 DEF Init, Views
<1>3. job \in [Procs -> Jobs]
  BY NoJobTyped DEF Init
<1> QED BY <1>2, <1>3 DEF Init, TypeOK, PCs

\* Every variable has its type in every reachable state of the processes.
THEOREM TypeCorrect == Spec => []TypeOK
<1>1. TypeOK /\ [Next]_vars => TypeOK'
  <2> SUFFICES ASSUME TypeOK, [Next]_vars PROVE TypeOK'
    OBVIOUS
  <2>1. CASE UNCHANGED vars
    BY <2>1 DEF vars, TypeOK
  <2>2. ASSUME NEW p \in Procs, Step(p) PROVE TypeOK'
    <3> job[p] \in Jobs /\ job[p].id \in Ids
      BY DEF TypeOK, Jobs
    <3> NoGen \in Gens
      BY DEF NoGen, Gens
    <3>1. ASSUME NEW o \in Ops, NEW id \in Ids, NEW w \in Nat, Begin(p, o, id, w)
          PROVE  TypeOK'
      <4>1. [op |-> o, id |-> id, want |-> w, phase |-> "pre", mine |-> 0] \in Jobs
        BY DEF Jobs, Phases
      <4> QED BY <3>1, <4>1 DEF Begin, TypeOK, Goto, Invalidate, PCs
    <3>2. CASE BeginRead(p)
      BY <3>1, <3>2, AnyIdTyped DEF BeginRead, Ops, ReadOps
    <3>3. CASE BeginOther(p)
      <4>1. PICK o \in Serve \ {"read"}, id \in Ids :
              \E w \in IF o = "patch" THEN {view[q][id].n : q \in Procs} ELSE {0} :
                Begin(p, o, id, w)
        BY <3>3 DEF BeginOther
      <4>2. PICK w \in IF o = "patch" THEN {view[q][id].n : q \in Procs} ELSE {0} :
              Begin(p, o, id, w)
        BY <4>1
      <4>3. w \in Nat
        BY <4>2 DEF TypeOK, Views, Gens
      <4>4. o \in Ops
        BY IndexContextAssumption, <4>1
      <4> QED BY <3>1, <4>2, <4>3, <4>4
    <3>4. CASE EnsureHit(p)
      BY <3>4, ContinueTyped DEF EnsureHit, TypeOK
    <3>5. CASE EnsureMiss(p)
      BY <3>5 DEF EnsureMiss, TypeOK, Goto, PCs, Views
    <3>6. ASSUME NEW id \in Ids, ScanFile(p, id) PROVE TypeOK'
      BY <3>6 DEF ScanFile, TypeOK, Views
    <3>7. CASE LoadEnd(p)
      BY <3>7, ContinueTyped DEF LoadEnd, TypeOK, Views
    <3>8. CASE WriteEntry(p)
      <4>1. NextGen(job[p].id, TRUE) \in Gens
        BY NextGenTyped
      <4>2. disk' \in Views /\ pc' \in [Procs -> PCs] /\ job' \in [Procs -> Jobs]
        BY <3>8, MutateTyped DEF WriteEntry
      <4>3. view' \in [Procs -> Views] /\ dirty' \in [Procs -> BOOLEAN]
        BY <3>8, <4>1 DEF WriteEntry, Materialize, TypeOK, Views
      <4> QED BY <3>8, <4>2, <4>3 DEF WriteEntry, TypeOK
    <3>9. CASE AddDuplicate(p)
      <4>1. disk[job[p].id].n \in Nat
        BY DEF TypeOK, Views, Gens
      <4>2. job' \in [Procs -> Jobs]
        BY <3>9, <4>1 DEF AddDuplicate, TypeOK, Jobs, Phases
      <4>3. pc' \in [Procs -> PCs]
        BY <3>9 DEF AddDuplicate, TypeOK, Goto, PCs
      <4>4. UNCHANGED <<disk, torn, loaded, view, matched, dirty, polled, todo, part>>
        BY <3>9 DEF AddDuplicate
      <4> QED BY <4>2, <4>3, <4>4 DEF TypeOK
    <3>10. CASE LookDuplicate(p)
      <4>1. pc' \in [Procs -> PCs]
        BY <3>10 DEF LookDuplicate, TypeOK, Goto, Finish, PCs
      <4>2. [job[p] EXCEPT !.phase = "post"] \in Jobs
        BY DEF Jobs, Phases
      <4>3. job' \in [Procs -> Jobs]
        BY <3>10, <4>2, NoJobTyped DEF LookDuplicate, TypeOK, Finish
      <4>4. loaded' \in [Procs -> BOOLEAN] /\ dirty' \in [Procs -> BOOLEAN]
        BY <3>10 DEF LookDuplicate, TypeOK, Invalidate
      <4> QED BY <3>10, <4>1, <4>3, <4>4 DEF LookDuplicate, TypeOK
    <3>11. CASE RemoveEntry(p)
      BY <3>11, MutateTyped DEF RemoveEntry, TypeOK
    <3>12. CASE RemoveGone(p)
      <4>1. disk[job[p].id].n \in Nat
        BY DEF TypeOK, Views, Gens
      <4>2. job' \in [Procs -> Jobs]
        BY <3>12, <4>1 DEF RemoveGone, TypeOK, Jobs
      <4>3. pc' \in [Procs -> PCs]
        BY <3>12 DEF RemoveGone, TypeOK, Goto, PCs
      <4>4. /\ UNCHANGED <<disk, torn, loaded, view, matched, polled, todo, part>>
            /\ dirty' \in [Procs -> BOOLEAN]
        BY <3>12 DEF RemoveGone, TypeOK
      <4> QED BY <4>2, <4>3, <4>4 DEF TypeOK
    <3>13. CASE ArchiveOrRestore(p)
      <4>1. (job[p].op = "restore") \in BOOLEAN
        OBVIOUS
      <4>2. disk' \in Views /\ pc' \in [Procs -> PCs] /\ job' \in [Procs -> Jobs]
        BY <3>13, <4>1, MutateTyped DEF ArchiveOrRestore
      <4> QED BY <3>13, <4>2 DEF ArchiveOrRestore, Invalidate, TypeOK
    <3>14. CASE ArchiveOnly(p)
      BY <3>14 DEF ArchiveOnly, TypeOK, Goto, Invalidate, PCs
    <3>15. CASE BodyFails(p)
      BY <3>15, NoJobTyped DEF BodyFails, TypeOK, Goto, Finish, PCs
    <3>16. CASE Touch(p)
      <4>1. pc' \in [Procs -> PCs]
        BY <3>16 DEF Touch, TypeOK, Goto, Finish, PCs
      <4>2. [job[p] EXCEPT !.phase = "post"] \in Jobs
        BY DEF Jobs, Phases
      <4>3. job' \in [Procs -> Jobs]
        BY <3>16, <4>2, NoJobTyped DEF Touch, TypeOK, Finish
      <4>4. loaded' \in [Procs -> BOOLEAN] /\ dirty' \in [Procs -> BOOLEAN]
        BY <3>16 DEF Touch, TypeOK, Invalidate
      <4> QED BY <3>16, <4>1, <4>3, <4>4 DEF Touch, TouchIndexVersion, TypeOK
    <3>17. CASE Sync(p)
      BY <3>17, NoJobTyped DEF Sync, TypeOK, Goto, Finish, PCs
    <3>18. CASE TouchAgain(p)
      BY <3>18
      DEF TouchAgain, TouchIndexVersion, TypeOK, Goto, Invalidate, PCs, Jobs, Phases
    <3>19. CASE PollTick(p)
      BY <3>19 DEF PollTick, TypeOK
    <3>20. CASE Crash(p)
      BY <3>20, NoJobTyped DEF Crash, TypeOK, Goto, PCs, Views
    <3>21. CASE Restart(p)
      BY <3>21 DEF Restart, TypeOK, Goto, PCs
    <3> QED
      BY <2>2, <3>2, <3>3, <3>4, <3>5, <3>6, <3>7, <3>8, <3>9, <3>10, <3>11, <3>12,
         <3>13, <3>14, <3>15, <3>16, <3>17, <3>18, <3>19, <3>20, <3>21
      DEF Step, Work
  <2> QED BY <2>1, <2>2 DEF Next
<1> QED BY <1>1, TypeInit, PTL DEF Spec

---------------------------------------------------------------------------
\* Stale memory is detectable

\* What a running scan has read is as detectable as what it will be installed
\* as: no poll tick comes between, and a touch would change the marker.
ScanIsDetectable ==
  \A p \in Pollers :
    pc[p] = "scan" /\ p \in polled =>
      \A id \in Ids \ todo[p] : part[p][id] = disk[id] \/ Unannounced(id)

DownHasNoState == \A p \in Procs : pc[p] = "down" => ~loaded[p]

StaleInv == TypeOK /\ StaleIsDetectable /\ ScanIsDetectable /\ DownHasNoState

\* What the three parts of the invariant say of one process.
OwnPart(p) ==
  /\ p \in Pollers /\ p \in polled =>
       /\ loaded[p] /\ ~dirty[p] =>
            \A id \in Ids : view[p][id] = disk[id] \/ Unannounced(id)
       /\ pc[p] = "scan" =>
            \A id \in Ids \ todo[p] : part[p][id] = disk[id] \/ Unannounced(id)
  /\ pc[p] = "down" => ~loaded[p]

LEMMA InvByProcess ==
  (\A p \in Procs : OwnPart(p)) <=> StaleIsDetectable /\ ScanIsDetectable /\ DownHasNoState
  BY IndexContextAssumption
  DEF OwnPart, StaleIsDetectable, ScanIsDetectable, DownHasNoState

\* A step of p leaves the other processes' variables alone.
OnlyMoves(p) ==
  \A q \in Procs \ {p} :
    /\ loaded'[q] = loaded[q] /\ dirty'[q] = dirty[q] /\ view'[q] = view[q]
    /\ pc'[q] = pc[q] /\ job'[q] = job[q]
    /\ todo'[q] = todo[q] /\ part'[q] = part[q]
    /\ (q \in polled' => q \in polled)

\* A step of p that starts elsewhere than at the touch announces nothing.
LEMMA UnannouncedKept ==
  ASSUME NEW p \in Procs, OnlyMoves(p), pc[p] # "touch", torn \subseteq torn',
         NEW id \in Ids, Unannounced(id)
  PROVE  Unannounced(id)'
<1>1. CASE id \in torn
  BY <1>1 DEF Unannounced
<1>2. CASE \E q \in Procs : Announcing(q) /\ job[q].id = id
  <2>1. PICK q \in Procs : Announcing(q) /\ job[q].id = id
    BY <1>2
  <2>2. q # p
    BY <2>1 DEF Announcing
  <2>3. Announcing(q)' /\ job'[q].id = id
    BY <2>1, <2>2 DEF Announcing, OnlyMoves
  <2> QED BY <2>3 DEF Unannounced
<1> QED BY <1>1, <1>2 DEF Unannounced

\* It suffices to look at the process that moves, when what is unannounced
\* stays so and what changes on disk becomes so.
LEMMA StepOfOne ==
  ASSUME StaleInv, TypeOK', NEW p \in Procs, OnlyMoves(p),
         \A id \in Ids : Unannounced(id) => Unannounced(id)',
         \A id \in Ids : disk'[id] = disk[id] \/ Unannounced(id)',
         OwnPart(p)'
  PROVE  StaleInv'
<1>1. \A q \in Procs \ {p} : OwnPart(q)'
  <2> SUFFICES ASSUME NEW q \in Procs \ {p} PROVE OwnPart(q)'
    OBVIOUS
  <2>1. OwnPart(q)
    BY InvByProcess DEF StaleInv
  <2> QED BY <2>1 DEF OwnPart, OnlyMoves
<1>2. \A q \in Procs : OwnPart(q)'
  BY <1>1
<1>3. StaleIsDetectable' /\ ScanIsDetectable' /\ DownHasNoState'
  BY <1>2, IndexContextAssumption
  DEF OwnPart, StaleIsDetectable, ScanIsDetectable, DownHasNoState
<1> QED BY <1>3 DEF StaleInv

\* A step that writes no file, announces nothing and starts elsewhere than at
\* the touch: only the mover's own part is left to show.
LEMMA QuietStepOfOne ==
  ASSUME StaleInv, TypeOK', NEW p \in Procs, OnlyMoves(p), pc[p] # "touch",
         UNCHANGED <<disk, torn>>, OwnPart(p)'
  PROVE  StaleInv'
<1>1. \A id \in Ids : Unannounced(id) => Unannounced(id)'
  BY UnannouncedKept
<1>2. \A id \in Ids : disk'[id] = disk[id] \/ Unannounced(id)'
  OBVIOUS
<1> QED BY <1>1, <1>2, StepOfOne

\* A mutation changes one file, which is unannounced from then on.
LEMMA MutateUnannounces ==
  ASSUME TypeOK, NEW p \in Procs, NEW l \in BOOLEAN, Mutate(p, l),
         job[p].op \notin QuietOps
  PROVE  \A id \in Ids :
           IF id = job[p].id THEN Unannounced(id)' ELSE disk'[id] = disk[id]
<1>1. job[p] \in Jobs /\ job[p].id \in Ids
  BY DEF TypeOK, Jobs
<1>2. job'[p].op = job[p].op /\ job'[p].id = job[p].id /\ pc'[p] = "touch"
  BY <1>1 DEF Mutate, Goto, TypeOK, Jobs
<1>3. Announcing(p)'
  BY <1>2 DEF Announcing
<1> QED BY <1>1, <1>2, <1>3 DEF Unannounced, Mutate, TypeOK, Views

\* A handler's first effect on disk, whatever it leaves of the memory: what it
\* shows afterwards differs from before at most for the job's id.
LEMMA MutatingStep ==
  ASSUME StaleInv, TypeOK', NEW p \in Procs, OnlyMoves(p), pc[p] = "body",
         NEW l \in BOOLEAN, Mutate(p, l), job[p].op \notin QuietOps,
         UNCHANGED <<torn, polled>>,
         loaded'[p] /\ ~dirty'[p] =>
           /\ loaded[p] /\ ~dirty[p]
           /\ \A id \in Ids \ {job[p].id} : view'[p][id] = view[p][id]
  PROVE  StaleInv'
<1>1. \A id \in Ids : Unannounced(id) => Unannounced(id)'
  BY UnannouncedKept
<1>2. \A id \in Ids :
        IF id = job[p].id THEN Unannounced(id)' ELSE disk'[id] = disk[id]
  BY MutateUnannounces DEF StaleInv
<1>3. \A id \in Ids : disk'[id] = disk[id] \/ Unannounced(id)'
  BY <1>2
<1>4. pc'[p] = "touch"
  BY DEF Mutate, Goto, StaleInv, TypeOK
<1>5. OwnPart(p)
  BY InvByProcess DEF StaleInv
<1>6. OwnPart(p)'
  BY <1>1, <1>2, <1>4, <1>5 DEF OwnPart
<1> QED BY <1>1, <1>3, <1>6, StepOfOne

\* A touch gives every poller a marker it has not seen.
LEMMA TouchingStep ==
  ASSUME StaleInv, TypeOK', NEW p \in Procs, TouchIndexVersion, OnlyMoves(p),
         pc'[p] # "down"
  PROVE  StaleInv'
  BY DEF TouchIndexVersion, OnlyMoves, StaleInv, StaleIsDetectable, ScanIsDetectable,
         DownHasNoState

\* A step of Continue leads neither to a scan nor down.
LEMMA ContinueGoes ==
  ASSUME TypeOK, NEW p \in Procs, Continue(p)
  PROVE  /\ pc'[p] \in {"body", "look", "idle"}
         /\ \A q \in Procs \ {p} : pc'[q] = pc[q] /\ job'[q] = job[q]
  BY DEF Continue, Goto, Finish, TypeOK

LEMMA StaleInvInit == Init => StaleInv
<1> SUFFICES ASSUME Init PROVE StaleInv
  OBVIOUS
<1>1. TypeOK
  BY TypeInit
<1>2. \A p \in Procs : ~loaded[p] /\ pc[p] = "idle"
  BY DEF Init
<1> QED
  BY <1>1, <1>2, IndexContextAssumption
  DEF StaleInv, StaleIsDetectable, ScanIsDetectable, DownHasNoState

LEMMA StaleInvStep ==
  ASSUME StaleInv, TypeOK', NEW p \in Procs, Step(p)
  PROVE  StaleInv'
<1> TypeOK /\ OwnPart(p)
  BY InvByProcess DEF StaleInv
<1> job[p] \in Jobs /\ job[p].id \in Ids
  BY DEF TypeOK, Jobs
<1>1. ASSUME NEW o, NEW id, NEW w, Begin(p, o, id, w) PROVE StaleInv'
  <2>1. OnlyMoves(p) /\ pc[p] # "touch" /\ UNCHANGED <<disk, torn, view, polled>>
    BY <1>1 DEF Begin, Goto, Invalidate, OnlyMoves, TypeOK
  <2>2. /\ pc'[p] \in {"body", "ensure"}
        /\ loaded'[p] /\ ~dirty'[p] => loaded[p] /\ ~dirty[p]
    BY <1>1 DEF Begin, Goto, Invalidate, TypeOK
  <2>3. \A i \in Ids : Unannounced(i) => Unannounced(i)'
    BY <2>1, UnannouncedKept
  <2>4. OwnPart(p)'
    BY <2>1, <2>2, <2>3 DEF OwnPart
  <2> QED BY <2>1, <2>4, QuietStepOfOne
<1>2. CASE EnsureHit(p)
  <2>1. OnlyMoves(p) /\ pc[p] # "touch"
        /\ UNCHANGED <<disk, torn, loaded, view, dirty, polled, todo, part>>
    BY <1>2, ContinueGoes DEF EnsureHit, OnlyMoves
  <2>2. \A i \in Ids : Unannounced(i) => Unannounced(i)'
    BY <2>1, UnannouncedKept
  <2>3. OwnPart(p)'
    BY <1>2, <2>1, <2>2, ContinueGoes DEF OwnPart, EnsureHit
  <2> QED BY <2>1, <2>3, QuietStepOfOne
<1>3. CASE EnsureMiss(p)
  <2>1. OnlyMoves(p) /\ pc[p] # "touch"
        /\ UNCHANGED <<disk, torn, loaded, view, dirty, polled, job>>
    BY <1>3 DEF EnsureMiss, OnlyMoves, Goto, TypeOK
  <2>2. todo'[p] = Ids /\ pc'[p] = "scan"
    BY <1>3 DEF EnsureMiss, Goto, TypeOK
  <2>3. \A i \in Ids : Unannounced(i) => Unannounced(i)'
    BY <2>1, UnannouncedKept
  <2>4. OwnPart(p)'
    BY <2>1, <2>2, <2>3 DEF OwnPart
  <2> QED BY <2>1, <2>4, QuietStepOfOne
<1>4. ASSUME NEW id \in Ids, ScanFile(p, id) PROVE StaleInv'
  <2>1. OnlyMoves(p) /\ pc[p] # "touch"
        /\ UNCHANGED <<disk, torn, loaded, view, dirty, polled, pc, job>>
    BY <1>4 DEF ScanFile, OnlyMoves, TypeOK
  <2>2. /\ todo'[p] = todo[p] \ {id} /\ part'[p][id] = disk[id]
        /\ \A i \in Ids \ {id} : part'[p][i] = part[p][i]
    BY <1>4 DEF ScanFile, TypeOK, Views
  <2>3. \A i \in Ids : Unannounced(i) => Unannounced(i)'
    BY <2>1, UnannouncedKept
  <2>4. OwnPart(p)'
    BY <2>1, <2>2, <2>3 DEF OwnPart
  <2> QED BY <2>1, <2>4, QuietStepOfOne
<1>5. CASE LoadEnd(p)
  <2>1. OnlyMoves(p) /\ pc[p] # "touch" /\ UNCHANGED <<disk, torn, polled>>
    BY <1>5, ContinueGoes DEF LoadEnd, OnlyMoves, TypeOK
  <2>2. pc[p] = "scan" /\ todo[p] = {} /\ view'[p] = part[p]
    BY <1>5 DEF LoadEnd, TypeOK
  <2>3. \A i \in Ids : Unannounced(i) => Unannounced(i)'
    BY <2>1, UnannouncedKept
  <2>4. OwnPart(p)'
    BY <1>5, <2>1, <2>2, <2>3, ContinueGoes DEF OwnPart, LoadEnd
  <2> QED BY <2>1, <2>4, QuietStepOfOne
<1>6. CASE WriteEntry(p)
  <2>1. Mutate(p, TRUE) /\ UNCHANGED <<torn, polled>> /\ pc[p] = "body"
        /\ job[p].op \notin QuietOps
    BY <1>6 DEF WriteEntry, WriteOps, PutOps, QuietOps
  <2>2. OnlyMoves(p)
    BY <1>6 DEF WriteEntry, Mutate, Materialize, Goto, OnlyMoves, TypeOK
  <2>3. loaded'[p] /\ ~dirty'[p] =>
          /\ loaded[p] /\ ~dirty[p]
          /\ \A id \in Ids \ {job[p].id} : view'[p][id] = view[p][id]
    BY <1>6 DEF WriteEntry, Materialize, TypeOK, Views
  <2> QED BY <2>1, <2>2, <2>3, MutatingStep
<1>7. CASE RemoveEntry(p)
  <2>1. Mutate(p, FALSE) /\ UNCHANGED <<torn, polled>> /\ pc[p] = "body"
        /\ job[p].op \notin QuietOps
    BY <1>7 DEF RemoveEntry, QuietOps
  <2>2. OnlyMoves(p) /\ dirty'[p]
    BY <1>7 DEF RemoveEntry, Mutate, Goto, OnlyMoves, TypeOK
  <2> QED BY <2>1, <2>2, MutatingStep
<1>8. CASE ArchiveOrRestore(p)
  <2>1. /\ Mutate(p, job[p].op = "restore") /\ UNCHANGED <<torn, polled>>
        /\ pc[p] = "body" /\ job[p].op \notin QuietOps
    BY <1>8 DEF ArchiveOrRestore, QuietOps
  <2>2. OnlyMoves(p) /\ dirty'[p]
    BY <1>8 DEF ArchiveOrRestore, Mutate, Goto, Invalidate, OnlyMoves, TypeOK
  <2>3. (job[p].op = "restore") \in BOOLEAN
    OBVIOUS
  <2> QED BY <2>1, <2>2, <2>3, MutatingStep
<1>9. CASE AddDuplicate(p) \/ RemoveGone(p) \/ ArchiveOnly(p) \/ BodyFails(p) \/ LookDuplicate(p)
  <2>1. OnlyMoves(p) /\ pc[p] # "touch" /\ UNCHANGED <<disk, torn, view, polled>>
    BY <1>9
    DEF AddDuplicate, RemoveGone, ArchiveOnly, BodyFails, LookDuplicate, Goto, Finish,
        Invalidate, OnlyMoves, TypeOK
  <2>2. /\ pc'[p] \in {"ensure", "touch", "idle"}
        /\ loaded'[p] /\ ~dirty'[p] => loaded[p] /\ ~dirty[p]
    BY <1>9
    DEF AddDuplicate, RemoveGone, ArchiveOnly, BodyFails, LookDuplicate, Goto, Finish,
        Invalidate, TypeOK
  <2>3. \A i \in Ids : Unannounced(i) => Unannounced(i)'
    BY <2>1, UnannouncedKept
  <2>4. OwnPart(p)'
    BY <2>1, <2>2, <2>3 DEF OwnPart
  <2> QED BY <2>1, <2>4, QuietStepOfOne
<1>10. CASE Touch(p) \/ TouchAgain(p)
  <2>1. TouchIndexVersion
    BY <1>10 DEF Touch, TouchAgain
  <2>2. OnlyMoves(p) /\ pc'[p] # "down"
    BY <1>10
    DEF Touch, TouchAgain, TouchIndexVersion, Goto, Finish, Invalidate, OnlyMoves, TypeOK
  <2> QED BY <2>1, <2>2, TouchingStep
<1>11. CASE Sync(p) \/ PollTick(p)
  <2>1. OnlyMoves(p) /\ pc[p] # "touch"
        /\ UNCHANGED <<disk, torn, loaded, view, todo, part>>
    BY <1>11 DEF Sync, PollTick, Goto, Finish, OnlyMoves, TypeOK
  <2>2. /\ pc'[p] \in {"idle", "again"}
        /\ p \in Pollers /\ p \in polled' => p \in polled \/ dirty'[p]
        /\ ~dirty'[p] => ~dirty[p]
    BY <1>11 DEF Sync, PollTick, Goto, Finish, TypeOK
  <2>3. \A i \in Ids : Unannounced(i) => Unannounced(i)'
    BY <2>1, UnannouncedKept
  <2>4. OwnPart(p)'
    BY <2>1, <2>2, <2>3 DEF OwnPart
  <2> QED BY <2>1, <2>4, QuietStepOfOne
<1>12. CASE Crash(p)
  <2>1. OnlyMoves(p) /\ UNCHANGED disk
    BY <1>12 DEF Crash, Goto, OnlyMoves, TypeOK
  <2>2. ASSUME NEW id \in Ids, Unannounced(id) PROVE Unannounced(id)'
    <3>1. CASE Announcing(p) /\ job[p].id = id
      BY <1>12, <3>1 DEF Crash, Unannounced
    <3>2. CASE id \in torn
      BY <1>12, <3>2 DEF Crash, Unannounced
    <3>3. CASE \E q \in Procs \ {p} : Announcing(q) /\ job[q].id = id
      BY <2>1, <3>3 DEF Unannounced, Announcing, OnlyMoves
    <3> QED BY <2>2, <3>1, <3>2, <3>3 DEF Unannounced
  <2>3. OwnPart(p)'
    BY <1>12 DEF OwnPart, Crash, Goto, TypeOK
  <2> QED BY <2>1, <2>2, <2>3, StepOfOne
<1>13. CASE Restart(p)
  <2>1. OnlyMoves(p) /\ pc[p] # "touch" /\ UNCHANGED <<disk, torn>>
    BY <1>13 DEF Restart, Goto, OnlyMoves, TypeOK
  <2>2. OwnPart(p)'
    BY <1>13 DEF OwnPart, Restart, Goto, TypeOK
  <2> QED BY <2>1, <2>2, QuietStepOfOne
<1> QED
  BY <1>1, <1>2, <1>3, <1>4, <1>5, <1>6, <1>7, <1>8, <1>9, <1>10, <1>11, <1>12, <1>13
  DEF Step, Work, BeginRead, BeginOther

\* With the poller on, memory that differs from the disk is always about to be
\* found out, for every number of processes, instructions and mutations.
THEOREM StaleDetected == Spec => []StaleIsDetectable
<1>1. StaleInv /\ UNCHANGED vars => StaleInv'
  BY DEF vars, StaleInv, TypeOK, StaleIsDetectable, ScanIsDetectable, DownHasNoState,
         Unannounced, Announcing
<1>2. StaleInv /\ TypeOK' /\ [Next]_vars => StaleInv'
  BY <1>1, StaleInvStep DEF Next
<1>3. StaleInv => StaleIsDetectable
  BY DEF StaleInv
<1> QED BY <1>2, <1>3, StaleInvInit, TypeCorrect, PTL DEF Spec

---------------------------------------------------------------------------
\* The processes implement the shared catalogue

\* Nobody shows what was never on disk, and a scan reads nothing older than
\* what its process shows.
OnlyForward ==
  \A p \in Procs, id \in Ids :
    /\ view[p][id].n <= disk[id].n
    /\ pc[p] = "scan" /\ id \notin todo[p] =>
         view[p][id].n <= part[p][id].n /\ part[p][id].n <= disk[id].n

ForwardInv == TypeOK /\ OnlyForward

\* How a step of p looks from outside.
Mutates(p) ==
  /\ pc[p] # "down" /\ pc'[p] # "down"
  /\ \E id \in Ids :
       /\ disk'[id].n = disk[id].n + 1
       /\ \A i \in Ids \ {id} : disk'[i] = disk[i]
       /\ \/ view'[p] = view[p]
          \/ /\ view'[p][id].n = disk[id].n + 1
             /\ \A i \in Ids \ {id} : view'[p][i] = view[p][i]

Advances(p) ==
  /\ UNCHANGED disk /\ (pc[p] = "down" <=> pc'[p] = "down")
  /\ \A i \in Ids : view[p][i].n <= view'[p][i].n /\ view'[p][i].n <= disk[i].n

Dies(p) == /\ UNCHANGED disk /\ view'[p] = [i \in Ids |-> NoGen]
           /\ pc[p] # "down" /\ pc'[p] = "down"

Starts(p) == UNCHANGED <<disk, view>> /\ pc'[p] # "down"

LEMMA MutatesByMutate ==
  ASSUME TypeOK, NEW p \in Procs, NEW l \in BOOLEAN, Mutate(p, l), pc[p] = "body",
         view' = view \/ view' = [view EXCEPT ![p][job[p].id] = NextGen(job[p].id, l)]
  PROVE  Mutates(p)
<1>1. job[p].id \in Ids
  BY DEF TypeOK, Jobs
<1>2. /\ disk'[job[p].id].n = disk[job[p].id].n + 1
      /\ \A i \in Ids \ {job[p].id} : disk'[i] = disk[i]
  BY <1>1 DEF Mutate, NextGen, TypeOK, Views
<1>3. \/ view'[p] = view[p]
      \/ /\ view'[p][job[p].id].n = disk[job[p].id].n + 1
         /\ \A i \in Ids \ {job[p].id} : view'[p][i] = view[p][i]
  BY <1>1 DEF NextGen, TypeOK, Views
<1>4. pc[p] # "down" /\ pc'[p] # "down"
  BY DEF Mutate, Goto, TypeOK
<1> QED BY <1>1, <1>2, <1>3, <1>4 DEF Mutates

\* Every step of p mutates one file, advances p's view, or forgets it.
LEMMA StepSeen ==
  ASSUME ForwardInv, NEW p \in Procs, Step(p)
  PROVE  /\ Mutates(p) \/ Advances(p) \/ Dies(p) \/ Starts(p)
         /\ \A q \in Procs \ {p} : view'[q] = view[q] /\ pc'[q] = pc[q]
<1> TypeOK
  BY DEF ForwardInv
<1>1. CASE WriteEntry(p)
  <2>1. Mutate(p, TRUE) /\ pc[p] = "body"
        /\ (view' = view \/ view' = [view EXCEPT ![p][job[p].id] = NextGen(job[p].id, TRUE)])
    BY <1>1 DEF WriteEntry, Materialize
  <2>2. \A q \in Procs \ {p} : view'[q] = view[q] /\ pc'[q] = pc[q]
    BY <2>1 DEF TypeOK, Mutate, Goto
  <2> QED BY <2>1, <2>2, MutatesByMutate
<1>2. CASE RemoveEntry(p)
  <2>1. Mutate(p, FALSE) /\ pc[p] = "body" /\ view' = view
    BY <1>2 DEF RemoveEntry
  <2>2. \A q \in Procs \ {p} : pc'[q] = pc[q]
    BY <2>1 DEF TypeOK, Mutate, Goto
  <2> QED BY <2>1, <2>2, MutatesByMutate
<1>3. CASE ArchiveOrRestore(p)
  <2>1. Mutate(p, job[p].op = "restore") /\ pc[p] = "body" /\ view' = view
    BY <1>3 DEF ArchiveOrRestore
  <2>2. \A q \in Procs \ {p} : pc'[q] = pc[q]
    BY <2>1 DEF TypeOK, Mutate, Goto
  <2>3. (job[p].op = "restore") \in BOOLEAN
    OBVIOUS
  <2> QED BY <2>1, <2>2, <2>3, MutatesByMutate
<1>4. CASE LoadEnd(p)
  <2>1. /\ view'[p] = part[p] /\ pc[p] = "scan" /\ todo[p] = {} /\ UNCHANGED disk
        /\ \A q \in Procs \ {p} : view'[q] = view[q]
    BY <1>4 DEF LoadEnd, TypeOK
  <2> QED BY <1>4, <2>1, ContinueGoes DEF Advances, ForwardInv, OnlyForward, LoadEnd
<1>5. CASE Crash(p)
  BY <1>5 DEF Crash, Dies, Goto, TypeOK
<1>6. CASE Restart(p)
  BY <1>6 DEF Restart, Starts, Goto, TypeOK
<1>7. CASE ~(\/ WriteEntry(p) \/ RemoveEntry(p) \/ ArchiveOrRestore(p)
             \/ LoadEnd(p) \/ Crash(p) \/ Restart(p))
  <2>1. UNCHANGED <<disk, view>>
    BY <1>7
    DEF Step, Work, BeginRead, BeginOther, Begin, EnsureHit, EnsureMiss, ScanFile,
        AddDuplicate, LookDuplicate, RemoveGone, ArchiveOnly, BodyFails, Touch, Sync,
        TouchAgain, PollTick
  <2>2. \A i \in Ids : view[p][i].n <= view[p][i].n /\ view[p][i].n <= disk[i].n
    BY DEF ForwardInv, OnlyForward, TypeOK, Views, Gens
  <2>3. /\ pc[p] # "down" /\ pc'[p] # "down"
        /\ \A q \in Procs \ {p} : pc'[q] = pc[q]
    <3>1. CASE BeginRead(p) \/ BeginOther(p) \/ EnsureHit(p) \/ EnsureMiss(p)
               \/ \E id \in Ids : ScanFile(p, id)
      BY <3>1, ContinueGoes
      DEF BeginRead, BeginOther, Begin, EnsureHit, EnsureMiss, ScanFile, Goto, TypeOK
    <3>2. CASE AddDuplicate(p) \/ LookDuplicate(p) \/ RemoveGone(p) \/ ArchiveOnly(p)
      BY <3>2
      DEF AddDuplicate, LookDuplicate, RemoveGone, ArchiveOnly, Goto, Finish, TypeOK
    <3>3. CASE BodyFails(p) \/ Touch(p) \/ Sync(p) \/ TouchAgain(p) \/ PollTick(p)
      BY <3>3 DEF BodyFails, Touch, Sync, TouchAgain, PollTick, Goto, Finish, TypeOK
    <3> QED BY <1>7, <3>1, <3>2, <3>3 DEF Step, Work
  <2> QED BY <2>1, <2>2, <2>3 DEF Advances
<1> QED BY <1>1, <1>2, <1>3, <1>4, <1>5, <1>6, <1>7

\* Scans see what is on disk at the moment, which only grows.
LEMMA ScanStep ==
  ASSUME TypeOK, NEW p \in Procs, Step(p), NEW q \in Procs, NEW id \in Ids,
         pc'[q] = "scan", id \notin todo'[q]
  PROVE  \/ pc[q] = "scan" /\ id \notin todo[q] /\ part'[q][id] = part[q][id]
         \/ part'[q][id] = disk[id] /\ UNCHANGED disk /\ view'[q] = view[q]
<1>1. CASE \E i \in Ids : ScanFile(p, i)
  BY <1>1 DEF ScanFile, TypeOK, Views
<1>2. CASE EnsureMiss(p)
  BY <1>2 DEF EnsureMiss, Goto, TypeOK
<1>3. CASE EnsureHit(p)
  BY <1>3, ContinueGoes DEF EnsureHit
<1>4. CASE LoadEnd(p)
  BY <1>4, ContinueGoes DEF LoadEnd, TypeOK
<1>5. CASE BeginRead(p) \/ BeginOther(p)
  BY <1>5 DEF BeginRead, BeginOther, Begin, Goto, TypeOK
<1>9. CASE WriteEntry(p) \/ AddDuplicate(p) \/ LookDuplicate(p)
  <2>1. /\ pc'[p] # "scan" /\ \A r \in Procs \ {p} : pc'[r] = pc[r]
        /\ UNCHANGED <<todo, part>>
    BY <1>9 DEF WriteEntry, AddDuplicate, LookDuplicate, Mutate, Goto, Finish, TypeOK
  <2> QED BY <2>1
<1>6. CASE RemoveEntry(p) \/ RemoveGone(p) \/ ArchiveOrRestore(p) \/ ArchiveOnly(p) \/ BodyFails(p)
  BY <1>6
  DEF RemoveEntry, RemoveGone, ArchiveOrRestore, ArchiveOnly, BodyFails, Mutate, Goto,
      Finish, TypeOK
<1>7. CASE Touch(p) \/ Sync(p) \/ TouchAgain(p)
  BY <1>7 DEF Touch, Sync, TouchAgain, Goto, Finish, TypeOK
<1>8. CASE PollTick(p) \/ Crash(p) \/ Restart(p)
  BY <1>8 DEF PollTick, Crash, Restart, Goto, TypeOK
<1> QED
  BY <1>1, <1>2, <1>3, <1>4, <1>5, <1>6, <1>7, <1>8, <1>9 DEF Step, Work

\* While a process scans, its view is left alone.
LEMMA ScanKeepsView ==
  ASSUME TypeOK, NEW p \in Procs, Step(p), NEW q \in Procs, pc'[q] = "scan"
  PROVE  view'[q] = view[q]
<1>1. CASE WriteEntry(p)
  BY <1>1 DEF WriteEntry, Mutate, Materialize, Goto, TypeOK
<1>2. CASE LoadEnd(p)
  BY <1>2, ContinueGoes DEF LoadEnd, TypeOK
<1>3. CASE Crash(p)
  BY <1>3 DEF Crash, Goto, TypeOK
<1>4. CASE ~(WriteEntry(p) \/ LoadEnd(p) \/ Crash(p))
  BY <1>4
  DEF Step, Work, BeginRead, BeginOther, Begin, EnsureHit, EnsureMiss, ScanFile,
      AddDuplicate, LookDuplicate, RemoveEntry, RemoveGone, ArchiveOrRestore, ArchiveOnly,
      BodyFails, Touch, Sync, TouchAgain, PollTick, Restart
<1> QED BY <1>1, <1>2, <1>3, <1>4

LEMMA ForwardStep ==
  ASSUME ForwardInv, TypeOK', NEW p \in Procs, Step(p)
  PROVE  ForwardInv'
<1> TypeOK
  BY DEF ForwardInv
<1>1. ASSUME NEW id \in Ids PROVE disk[id].n <= disk'[id].n
  <2>1. disk[id].n \in Nat
    BY DEF TypeOK, Views, Gens
  <2>2. CASE Mutates(p)
    BY <2>1, <2>2 DEF Mutates
  <2>3. CASE Advances(p) \/ Dies(p) \/ Starts(p)
    BY <2>1, <2>3 DEF Advances, Dies, Starts
  <2> QED BY <2>2, <2>3, StepSeen
<1>2. ASSUME NEW q \in Procs, NEW id \in Ids
      PROVE  /\ view'[q][id].n <= disk'[id].n
             /\ view'[q][id] = view[q][id] \/ q = p
  <2>1. /\ \A i \in Ids : view[q][i].n <= disk[i].n
        /\ view[q][id].n \in Nat /\ disk[id].n \in Nat /\ disk'[id].n \in Nat
    BY DEF ForwardInv, OnlyForward, TypeOK, Views, Gens
  <2>2. CASE q = p /\ Mutates(p)
    <3>1. PICK j \in Ids :
            /\ disk'[j].n = disk[j].n + 1
            /\ \A i \in Ids \ {j} : disk'[i] = disk[i]
            /\ \/ view'[p] = view[p]
               \/ /\ view'[p][j].n = disk[j].n + 1
                  /\ \A i \in Ids \ {j} : view'[p][i] = view[p][i]
      BY <2>2 DEF Mutates
    <3>2. CASE id = j
      BY <2>1, <2>2, <3>1, <3>2
    <3>3. CASE id # j
      BY <2>1, <2>2, <3>1, <3>3
    <3> QED BY <3>2, <3>3
  <2>3. CASE q = p /\ Advances(p)
    BY <2>3 DEF Advances
  <2>4. CASE q = p /\ Dies(p)
    BY <2>1, <2>4 DEF Dies, NoGen
  <2>6. CASE q = p /\ Starts(p)
    BY <2>1, <2>6 DEF Starts
  <2>5. CASE q # p
    <3>1. view'[q] = view[q]
      BY <2>5, StepSeen
    <3> QED BY <2>1, <2>5, <3>1, <1>1
  <2> QED BY <2>2, <2>3, <2>4, <2>5, <2>6, StepSeen
<1>3. ASSUME NEW q \in Procs, NEW id \in Ids, pc'[q] = "scan", id \notin todo'[q]
      PROVE  view'[q][id].n <= part'[q][id].n /\ part'[q][id].n <= disk'[id].n
  <2>1. view[q][id].n \in Nat /\ part[q][id].n \in Nat /\ disk[id].n \in Nat /\ disk'[id].n \in Nat
    BY DEF TypeOK, Views, Gens
  <2>2. view'[q] = view[q]
    BY <1>3, ScanKeepsView
  <2>3. CASE pc[q] = "scan" /\ id \notin todo[q] /\ part'[q][id] = part[q][id]
    BY <1>1, <2>1, <2>2, <2>3 DEF ForwardInv, OnlyForward
  <2>4. CASE part'[q][id] = disk[id] /\ UNCHANGED disk
    BY <2>1, <2>2, <2>4 DEF ForwardInv, OnlyForward
  <2> QED BY <1>3, <2>3, <2>4, ScanStep
<1> QED BY <1>2, <1>3 DEF ForwardInv, OnlyForward

\* The refinement mapping.
BarNewest == [i \in Ids |-> disk[i].n]
BarShown  == [p \in Procs |-> [i \in Ids |-> view[p][i].n]]
BarUp     == {p \in Procs : pc[p] # "down"}

LEMMA StepRefines ==
  ASSUME ForwardInv, TypeOK', NEW p \in Procs, Step(p)
  PROVE  Catalog!Next
<1>1. \A q \in Procs \ {p} : view'[q] = view[q] /\ pc'[q] = pc[q]
  BY StepSeen
<1>2. CASE Mutates(p)
  <2>1. PICK id \in Ids :
          /\ disk'[id].n = disk[id].n + 1
          /\ \A i \in Ids \ {id} : disk'[i] = disk[i]
          /\ \/ view'[p] = view[p]
             \/ /\ view'[p][id].n = disk[id].n + 1
                /\ \A i \in Ids \ {id} : view'[p][i] = view[p][i]
    BY <1>2 DEF Mutates
  <2>2. BarNewest' = [BarNewest EXCEPT ![id] = @ + 1]
    BY <2>1 DEF BarNewest
  <2>3. p \in BarUp /\ BarUp' = BarUp
    BY <1>1, <1>2 DEF Mutates, BarUp
  <2>4. CASE view'[p] = view[p]
    <3>1. BarShown' = BarShown
      BY <1>1, <2>4 DEF BarShown
    <3>2. Catalog!Mutate(id)
      BY <2>2, <2>3, <3>1 DEF Catalog!Mutate, BarNewest, BarShown, BarUp
    <3> QED BY <3>2 DEF Catalog!Next
  <2>5. CASE /\ view'[p][id].n = disk[id].n + 1
             /\ \A i \in Ids \ {id} : view'[p][i] = view[p][i]
    <3>1. BarShown' = [BarShown EXCEPT ![p][id] = BarNewest[id] + 1]
      <4>1. [i \in Ids |-> view'[p][i].n]
              = [[i \in Ids |-> view[p][i].n] EXCEPT ![id] = disk[id].n + 1]
        BY <2>5
      <4> QED BY <1>1, <4>1 DEF BarShown, BarNewest
    <3>2. Catalog!Mutate(id)
      BY <2>2, <2>3, <3>1 DEF Catalog!Mutate, BarNewest, BarShown, BarUp
    <3> QED BY <3>2 DEF Catalog!Next
  <2> QED BY <2>1, <2>4, <2>5
<1>3. CASE Advances(p)
  <2>1. \A i \in Ids : view'[p][i].n \in view[p][i].n .. disk[i].n
    <3> TAKE i \in Ids
    <3>1. view[p][i].n \in Nat /\ disk[i].n \in Nat
      BY DEF ForwardInv, TypeOK, Views, Gens
    <3>2. view'[p][i].n \in Nat
      BY DEF TypeOK, Views, Gens
    <3> QED BY <1>3, <3>1, <3>2 DEF Advances
  <2>2. BarNewest' = BarNewest /\ BarUp' = BarUp
    BY <1>1, <1>3 DEF Advances, BarNewest, BarUp
  <2>3. /\ \A q \in Procs \ {p} : BarShown'[q] = BarShown[q]
        /\ \A i \in Ids : BarShown'[p][i] \in BarShown[p][i] .. BarNewest[i]
    BY <1>1, <2>1 DEF BarShown, BarNewest
  <2>4. Catalog!Advance(p)
    BY <2>2, <2>3 DEF Catalog!Advance, BarNewest, BarShown, BarUp
  <2> QED BY <2>4 DEF Catalog!Next
<1>4. CASE Dies(p)
  <2>1. BarNewest' = BarNewest
    BY <1>4 DEF Dies, BarNewest
  <2>2. [i \in Ids |-> view'[p][i].n] = [i \in Ids |-> 0]
    BY <1>4 DEF Dies, NoGen
  <2>3. BarShown' = [BarShown EXCEPT ![p] = [i \in Ids |-> 0]]
    BY <1>1, <2>2 DEF BarShown
  <2>4. p \in BarUp /\ BarUp' = BarUp \ {p}
    BY <1>1, <1>4 DEF Dies, BarUp
  <2>5. Catalog!Die(p)
    BY <2>1, <2>3, <2>4 DEF Catalog!Die, BarNewest, BarShown, BarUp
  <2> QED BY <2>5 DEF Catalog!Next
<1>5. CASE Starts(p)
  <2>1. BarNewest' = BarNewest /\ BarShown' = BarShown
    BY <1>5 DEF Starts, BarNewest, BarShown
  <2>2. BarUp' = BarUp \cup {p}
    BY <1>1, <1>5 DEF Starts, BarUp
  <2>3. Catalog!Start(p)
    BY <2>1, <2>2 DEF Catalog!Start, BarNewest, BarShown, BarUp
  <2> QED BY <2>3 DEF Catalog!Next
<1> QED BY <1>2, <1>3, <1>4, <1>5, StepSeen

\* Readers of the shared catalogue never go back, and show only what was
\* written, whatever the processes do: the refinement run for all constants.
THEOREM CatalogImplemented == Spec => ImplementsCatalog
<1>1. Init => Catalog!Init
  BY DEF Init, Catalog!Init, NoGen
<1>2. Init => OnlyForward
  <2> SUFFICES ASSUME Init, NEW p \in Procs, NEW id \in Ids
               PROVE  view[p][id].n <= disk[id].n /\ pc[p] # "scan"
    BY DEF OnlyForward
  <2>1. disk[id].n = 0 /\ view[p][id].n = 0
    BY DEF Init, NoGen
  <2> QED BY <2>1 DEF Init
<1>3. ForwardInv /\ TypeOK' /\ [Next]_vars => ForwardInv'
  <2>1. ForwardInv /\ TypeOK' /\ UNCHANGED vars => ForwardInv'
    BY DEF vars, ForwardInv, OnlyForward
  <2> QED BY <2>1, ForwardStep DEF Next
<1>4. ForwardInv /\ TypeOK' /\ [Next]_vars
      => [Catalog!Next]_<<BarNewest, BarShown, BarUp>>
  <2> SUFFICES ASSUME ForwardInv, TypeOK', [Next]_vars
               PROVE  [Catalog!Next]_<<BarNewest, BarShown, BarUp>>
    OBVIOUS
  <2>1. CASE UNCHANGED vars
    BY <2>1 DEF vars, BarNewest, BarShown, BarUp
  <2>2. ASSUME NEW p \in Procs, Step(p) PROVE Catalog!Next
    BY <2>2, StepRefines
  <2> QED BY <2>1, <2>2 DEF Next
<1> QED
  BY <1>1, <1>2, <1>3, <1>4, TypeCorrect, TypeInit, PTL
  DEF Spec, ImplementsCatalog, Catalog!Spec, ForwardInv, BarNewest, BarShown, BarUp

---------------------------------------------------------------------------
\* A handler's answer contains its own mutation

\* A process owes its answer no more than is on disk.  While the final reload
\* is due there is no memory to answer from, and what the scan has read of the
\* file is no older than what the handler wrote.
OwnWrite(p) ==
  /\ job[p].mine <= disk[job[p].id].n
  /\ job[p].phase = "post" =>
       /\ pc[p] \in {"ensure", "scan"} /\ ~loaded[p]
       /\ pc[p] = "scan" /\ job[p].id \notin todo[p] =>
            job[p].mine <= part[p][job[p].id].n

WritesInv == \A p \in Procs : OwnWrite(p)

LEMMA StepMoves ==
  ASSUME TypeOK, NEW p \in Procs, Step(p)
  PROVE  OnlyMoves(p)
<1>1. CASE BeginRead(p) \/ BeginOther(p)
  BY <1>1 DEF BeginRead, BeginOther, Begin, Goto, Invalidate, OnlyMoves, TypeOK
<1>2. CASE EnsureHit(p)
  BY <1>2, ContinueGoes DEF EnsureHit, OnlyMoves
<1>3. CASE EnsureMiss(p) \/ \E id \in Ids : ScanFile(p, id)
  BY <1>3 DEF EnsureMiss, ScanFile, Goto, OnlyMoves, TypeOK
<1>4. CASE LoadEnd(p)
  BY <1>4, ContinueGoes DEF LoadEnd, OnlyMoves, TypeOK
<1>5. CASE WriteEntry(p)
  BY <1>5 DEF WriteEntry, Mutate, Materialize, Goto, OnlyMoves, TypeOK
<1>6. CASE RemoveEntry(p) \/ ArchiveOrRestore(p)
  BY <1>6 DEF RemoveEntry, ArchiveOrRestore, Mutate, Goto, Invalidate, OnlyMoves, TypeOK
<1>7. CASE AddDuplicate(p) \/ RemoveGone(p) \/ ArchiveOnly(p) \/ BodyFails(p) \/ LookDuplicate(p)
  BY <1>7
  DEF AddDuplicate, RemoveGone, ArchiveOnly, BodyFails, LookDuplicate, Goto, Finish,
      Invalidate, OnlyMoves, TypeOK
<1>8. CASE Touch(p) \/ TouchAgain(p)
  BY <1>8
  DEF Touch, TouchAgain, TouchIndexVersion, Goto, Finish, Invalidate, OnlyMoves, TypeOK
<1>9. CASE Sync(p) \/ PollTick(p)
  BY <1>9 DEF Sync, PollTick, Goto, Finish, OnlyMoves, TypeOK
<1>10. CASE Crash(p) \/ Restart(p)
  BY <1>10 DEF Crash, Restart, Goto, OnlyMoves, TypeOK
<1> QED
  BY <1>1, <1>2, <1>3, <1>4, <1>5, <1>6, <1>7, <1>8, <1>9, <1>10 DEF Step, Work

\* A generation on disk is never withdrawn.
LEMMA DiskGrows ==
  ASSUME TypeOK, NEW p \in Procs, Step(p), NEW id \in Ids
  PROVE  disk[id].n <= disk'[id].n
<1>1. disk[id].n \in Nat /\ job[p].id \in Ids
  BY DEF TypeOK, Views, Gens, Jobs
<1>2. ASSUME NEW l \in BOOLEAN, Mutate(p, l) PROVE disk[id].n <= disk'[id].n
  BY <1>1, <1>2 DEF Mutate, NextGen, TypeOK, Views
<1>3. CASE WriteEntry(p) \/ RemoveEntry(p)
  BY <1>2, <1>3 DEF WriteEntry, RemoveEntry
<1>4. CASE ArchiveOrRestore(p)
  <2>1. (job[p].op = "restore") \in BOOLEAN
    OBVIOUS
  <2> QED BY <1>2, <1>4, <2>1 DEF ArchiveOrRestore
<1>5. CASE ~(WriteEntry(p) \/ RemoveEntry(p) \/ ArchiveOrRestore(p))
  <2>1. UNCHANGED disk
    BY <1>5
    DEF Step, Work, BeginRead, BeginOther, Begin, EnsureHit, EnsureMiss, ScanFile, LoadEnd,
        AddDuplicate, LookDuplicate, RemoveGone, ArchiveOnly, BodyFails, Touch, Sync,
        TouchAgain, PollTick, Crash, Restart
  <2> QED BY <1>1, <2>1
<1> QED BY <1>3, <1>4, <1>5

\* An ensureLoaded() that ends the handler leaves no job behind.
LEMMA ContinueLeavesNoPost ==
  ASSUME TypeOK, NEW p \in Procs, Continue(p)
  PROVE  /\ job'[p].phase # "post"
         /\ job'[p] = job[p] \/ (job'[p].mine = 0 /\ job'[p].id \in Ids)
<1>1. NoJob.phase = "pre" /\ NoJob.mine = 0 /\ NoJob.id \in Ids
  BY AnyIdTyped DEF NoJob
<1>2. CASE job[p].phase \in {"pre", "dup"} /\ job' = job
  BY <1>2
<1>3. CASE job' = [job EXCEPT ![p] = NoJob]
  BY <1>1, <1>3 DEF TypeOK
<1> QED BY <1>2, <1>3 DEF Continue, Finish

\* The three ways in which a step of p settles what p owes.
LEMMA OwesNothingNew ==
  ASSUME TypeOK, NEW p \in Procs, Step(p), OwnWrite(p), job'[p].phase # "post",
         job'[p] = job[p] \/ (job'[p].mine = 0 /\ job'[p].id \in Ids), TypeOK'
  PROVE  OwnWrite(p)'
<1>1. /\ job[p].id \in Ids /\ job[p].mine \in Nat
      /\ disk[job[p].id].n \in Nat /\ disk'[job[p].id].n \in Nat
  BY DEF TypeOK, Jobs, Views, Gens
<1>2. disk'[job'[p].id].n \in Nat
  BY DEF TypeOK, Jobs, Views, Gens
<1>3. disk[job[p].id].n <= disk'[job[p].id].n
  BY <1>1, DiskGrows
<1> QED BY <1>1, <1>2, <1>3 DEF OwnWrite

LEMMA OwesTheMutation ==
  ASSUME TypeOK, NEW p \in Procs, NEW l \in BOOLEAN, Mutate(p, l), job[p].phase # "post"
  PROVE  OwnWrite(p)'
<1>1. job[p] \in Jobs /\ job[p].id \in Ids /\ disk[job[p].id].n \in Nat
  BY DEF TypeOK, Jobs, Views, Gens
<1>2. job'[p] = [job[p] EXCEPT !.mine = disk[job[p].id].n + 1, !.want = 0]
  BY DEF Mutate, TypeOK
<1>3. /\ job'[p].id = job[p].id /\ job'[p].phase # "post"
      /\ job'[p].mine = disk[job[p].id].n + 1
  BY <1>1, <1>2 DEF Jobs
<1>4. disk'[job[p].id].n = disk[job[p].id].n + 1
  BY <1>1 DEF Mutate, NextGen, TypeOK, Views
<1> QED BY <1>1, <1>3, <1>4 DEF OwnWrite

LEMMA OwesWhatIsThere ==
  ASSUME TypeOK, NEW p \in Procs, OwnWrite(p), UNCHANGED disk, job'[p].id = job[p].id,
         job'[p].mine \in {job[p].mine, disk[job[p].id].n},
         job'[p].phase = "post" => pc'[p] = "ensure" /\ ~loaded'[p]
  PROVE  OwnWrite(p)'
<1>1. job[p].id \in Ids /\ disk[job[p].id].n \in Nat
  BY DEF TypeOK, Jobs, Views, Gens
<1> QED BY <1>1 DEF OwnWrite

\* Finishing a handler settles everything.
LEMMA FinishSettles ==
  ASSUME TypeOK, NEW p \in Procs, Finish(p)
  PROVE  job'[p].phase # "post" /\ job'[p].mine = 0 /\ job'[p].id \in Ids
  BY AnyIdTyped DEF Finish, NoJob, TypeOK

LEMMA MoverKeepsWrites ==
  ASSUME TypeOK, TypeOK', NEW p \in Procs, Step(p), OwnWrite(p)
  PROVE  OwnWrite(p)'
<1> job[p] \in Jobs /\ job[p].id \in Ids
  BY DEF TypeOK, Jobs
<1>1. ASSUME NEW o, NEW id, NEW w, Begin(p, o, id, w) PROVE OwnWrite(p)'
  <2>1. job'[p] = [op |-> o, id |-> id, want |-> w, phase |-> "pre", mine |-> 0]
    BY <1>1 DEF Begin, TypeOK
  <2>2. job'[p].id \in Ids
    BY DEF TypeOK, Jobs
  <2> QED BY <2>1, <2>2, OwesNothingNew
<1>2. CASE EnsureHit(p)
  BY <1>2, ContinueLeavesNoPost, OwesNothingNew DEF EnsureHit
<1>3. CASE EnsureMiss(p)
  BY <1>3 DEF EnsureMiss, Goto, OwnWrite, TypeOK
<1>4. ASSUME NEW id \in Ids, ScanFile(p, id) PROVE OwnWrite(p)'
  <2>1. UNCHANGED <<disk, loaded, pc, job>> /\ todo'[p] = todo[p] \ {id}
    BY <1>4 DEF ScanFile, TypeOK
  <2>2. part'[p][id] = disk[id] /\ \A i \in Ids \ {id} : part'[p][i] = part[p][i]
    BY <1>4 DEF ScanFile, TypeOK, Views
  <2> QED BY <2>1, <2>2 DEF OwnWrite
<1>5. CASE LoadEnd(p)
  BY <1>5, ContinueLeavesNoPost, OwesNothingNew DEF LoadEnd
<1>6. CASE WriteEntry(p) \/ RemoveEntry(p)
  <2>1. job[p].phase # "post"
    BY <1>6 DEF WriteEntry, RemoveEntry, OwnWrite
  <2> QED BY <1>6, <2>1, OwesTheMutation DEF WriteEntry, RemoveEntry
<1>7. CASE ArchiveOrRestore(p)
  <2>1. job[p].phase # "post" /\ (job[p].op = "restore") \in BOOLEAN
    BY <1>7 DEF ArchiveOrRestore, OwnWrite
  <2> QED BY <1>7, <2>1, OwesTheMutation DEF ArchiveOrRestore
<1>8. CASE AddDuplicate(p) \/ RemoveGone(p)
  <2>1. job'[p].id = job[p].id /\ job'[p].mine = disk[job[p].id].n /\ UNCHANGED disk
    BY <1>8 DEF AddDuplicate, RemoveGone, TypeOK, Jobs
  <2>2. job'[p].phase # "post"
    BY <1>8 DEF AddDuplicate, RemoveGone, OwnWrite, TypeOK, Jobs
  <2> QED BY <2>1, <2>2, OwesWhatIsThere
<1>9. CASE LookDuplicate(p)
  <2>1. CASE view[p][job[p].id].live
    BY <1>9, <2>1, FinishSettles, OwesNothingNew DEF LookDuplicate
  <2>2. CASE ~view[p][job[p].id].live
    <3>1. /\ job'[p].id = job[p].id /\ job'[p].mine = job[p].mine /\ UNCHANGED disk
          /\ pc'[p] = "ensure" /\ ~loaded'[p]
      BY <1>9, <2>2 DEF LookDuplicate, Goto, Invalidate, TypeOK, Jobs
    <3> QED BY <3>1, OwesWhatIsThere
  <2> QED BY <2>1, <2>2
<1>10. CASE ArchiveOnly(p) \/ PollTick(p) \/ Restart(p)
  BY <1>10 DEF ArchiveOnly, PollTick, Restart, OwnWrite
<1>11. CASE BodyFails(p)
  BY <1>11, FinishSettles, OwesNothingNew DEF BodyFails
<1>12. CASE Touch(p)
  <2>1. CASE job[p].op \in WriteOps /\ Goto(p, "sync") /\ UNCHANGED <<loaded, dirty, job>>
    BY <1>12, <2>1 DEF Touch, OwnWrite
  <2>2. CASE Invalidate(p) /\ Goto(p, "ensure") /\ job' = [job EXCEPT ![p].phase = "post"]
    <3>1. /\ job'[p].id = job[p].id /\ job'[p].mine = job[p].mine /\ UNCHANGED disk
          /\ pc'[p] = "ensure" /\ ~loaded'[p]
      BY <1>12, <2>2 DEF Touch, Goto, Invalidate, TypeOK, Jobs
    <3> QED BY <3>1, OwesWhatIsThere
  <2>3. CASE Finish(p)
    BY <1>12, <2>3, FinishSettles, OwesNothingNew
  <2> QED BY <1>12, <2>1, <2>2, <2>3 DEF Touch
<1>13. CASE Sync(p)
  <2>1. CASE Finish(p)
    BY <1>13, <2>1, FinishSettles, OwesNothingNew
  <2>2. CASE job' = job
    BY <1>13, <2>2 DEF Sync, OwnWrite
  <2> QED BY <1>13, <2>1, <2>2 DEF Sync
<1>14. CASE TouchAgain(p)
  <2>1. /\ job'[p].id = job[p].id /\ job'[p].mine = job[p].mine /\ UNCHANGED disk
        /\ pc'[p] = "ensure" /\ ~loaded'[p]
    BY <1>14 DEF TouchAgain, Goto, Invalidate, TypeOK, Jobs
  <2> QED BY <2>1, OwesWhatIsThere
<1>15. CASE Crash(p)
  <2>1. job'[p] = NoJob
    BY <1>15 DEF Crash, TypeOK
  <2>2. NoJob.phase = "pre" /\ NoJob.mine = 0 /\ NoJob.id \in Ids
    BY AnyIdTyped DEF NoJob
  <2> QED BY <2>1, <2>2, OwesNothingNew
<1> QED
  BY <1>1, <1>2, <1>3, <1>4, <1>5, <1>6, <1>7, <1>8, <1>9, <1>10, <1>11, <1>12, <1>13,
     <1>14, <1>15
  DEF Step, Work, BeginRead, BeginOther

LEMMA WritesInvStep ==
  ASSUME TypeOK, TypeOK', WritesInv, NEW p \in Procs, Step(p)
  PROVE  WritesInv'
<1> SUFFICES ASSUME NEW q \in Procs PROVE OwnWrite(q)'
  BY DEF WritesInv
<1>1. OwnWrite(p) /\ OwnWrite(q)
  BY DEF WritesInv
<1>2. CASE q = p
  BY <1>1, <1>2, MoverKeepsWrites
<1>3. CASE q # p
  <2>1. /\ job'[q] = job[q] /\ pc'[q] = pc[q] /\ loaded'[q] = loaded[q]
        /\ todo'[q] = todo[q] /\ part'[q] = part[q]
    BY <1>3, StepMoves DEF OnlyMoves
  <2>2. /\ job[q].id \in Ids /\ job[q].mine \in Nat
        /\ disk[job[q].id].n \in Nat /\ disk'[job[q].id].n \in Nat
    BY DEF TypeOK, Jobs, Views, Gens
  <2>3. disk[job[q].id].n <= disk'[job[q].id].n
    BY <2>2, DiskGrows
  <2>4. job'[q].mine <= disk'[job'[q].id].n
    BY <1>1, <2>1, <2>2, <2>3 DEF OwnWrite
  <2> QED BY <1>1, <2>1, <2>4 DEF OwnWrite
<1> QED BY <1>2, <1>3

\* The only step that ends a handler in its final phase is the end of a scan.
LEMMA AnswerAfterScan ==
  ASSUME TypeOK, NEW p \in Procs, Step(p), NEW q \in Procs, OwnWrite(q),
         pc[q] # "idle", pc'[q] = "idle", job[q].phase = "post"
  PROVE  loaded'[q] /\ view'[q][job[q].id].n >= job[q].mine
<1>1. q = p
  BY StepMoves DEF OnlyMoves
<1>2. pc[p] \in {"ensure", "scan"} /\ ~loaded[p]
  BY <1>1 DEF OwnWrite
<1>3. LoadEnd(p)
  BY <1>1, <1>2
  DEF Step, Work, BeginRead, BeginOther, Begin, EnsureHit, CacheValid, EnsureMiss, ScanFile,
      WriteEntry, AddDuplicate, LookDuplicate, RemoveEntry, RemoveGone, ArchiveOrRestore,
      ArchiveOnly, BodyFails, Touch, Sync, TouchAgain, PollTick, Crash, Restart, Goto, TypeOK
<1>4. /\ pc[p] = "scan" /\ todo[p] = {} /\ loaded'[p] /\ view'[p] = part[p]
  BY <1>3 DEF LoadEnd, TypeOK
<1>5. job[p].id \in Ids /\ job[p].mine \in Nat /\ part[p][job[p].id].n \in Nat
  BY DEF TypeOK, Jobs, Views, Gens
<1>6. job[p].mine <= part[p][job[p].id].n
  BY <1>1, <1>4 DEF OwnWrite
<1> QED BY <1>1, <1>4, <1>5, <1>6

\* A handler that ends with a reload answers from a catalogue that contains
\* its own mutation or a later one, whatever the other processes do meanwhile.
THEOREM AnswersContainWrites == Spec => ReadYourWrites
<1> DEFINE Answered == \A p \in Procs :
             pc[p] # "idle" /\ pc'[p] = "idle" /\ job[p].phase = "post" =>
               loaded'[p] /\ view'[p][job[p].id].n >= job[p].mine
<1>1. Init => WritesInv
  <2> SUFFICES ASSUME Init, NEW p \in Procs PROVE OwnWrite(p)
    BY DEF WritesInv
  <2>1. job[p].mine = 0 /\ job[p].phase = "pre" /\ job[p].id \in Ids
    BY AnyIdTyped DEF Init, NoJob
  <2>2. \A id \in Ids : disk[id].n \in Nat
    BY TypeInit DEF TypeOK, Views, Gens
  <2> QED BY <2>1, <2>2 DEF OwnWrite
<1>2. TypeOK /\ TypeOK' /\ WritesInv /\ [Next]_vars => WritesInv'
  <2>1. WritesInv /\ UNCHANGED vars => WritesInv'
    BY DEF vars, WritesInv, OwnWrite
  <2> QED BY <2>1, WritesInvStep DEF Next
<1>3. TypeOK /\ WritesInv /\ [Next]_vars => [Answered]_vars
  <2>1. ASSUME TypeOK, WritesInv, NEW p \in Procs, Step(p) PROVE Answered
    BY <2>1, AnswerAfterScan DEF WritesInv
  <2> QED BY <2>1 DEF Next
<1> QED BY <1>1, <1>2, <1>3, TypeCorrect, PTL DEF Spec, ReadYourWrites

---------------------------------------------------------------------------
\* A process alone in its directory

\* Memory that is not marked dirty is the disk; what a scan has read still is
\* what the files hold; and the body of a handler that began with an
\* ensureLoaded() works on the catalogue as it is on disk.
CleanMemoryIsDisk == \A p \in Procs : loaded[p] /\ ~dirty[p] => view[p] = disk

ScanIsDisk ==
  \A p \in Procs : pc[p] = "scan" => \A id \in Ids \ todo[p] : part[p][id] = disk[id]

BodySeesDisk ==
  \A p \in Procs :
    pc[p] = "body" /\ job[p].op \notin ArchiveOps \cup {"add"} => view[p] = disk

AloneInv == TypeOK /\ CleanMemoryIsDisk /\ ScanIsDisk /\ BodySeesDisk

LEMMA AloneStep ==
  ASSUME NEW p \in Procs, Procs = {p}, AloneInv, TypeOK', Step(p)
  PROVE  AloneInv'
<1> USE DEF AloneInv, CleanMemoryIsDisk, ScanIsDisk, BodySeesDisk
<1> TypeOK /\ job[p] \in Jobs /\ job[p].id \in Ids
  BY DEF TypeOK, Jobs
<1>1. CASE BeginRead(p) \/ BeginOther(p)
  BY <1>1 DEF BeginRead, BeginOther, Begin, Goto, Invalidate, TypeOK
<1>2. CASE EnsureHit(p)
  <2>1. view[p] = disk /\ UNCHANGED <<disk, loaded, dirty, view>>
    BY <1>2 DEF EnsureHit, CacheValid
  <2>2. pc'[p] # "scan"
    BY <1>2, ContinueGoes DEF EnsureHit
  <2> QED BY <2>1, <2>2
<1>3. CASE EnsureMiss(p)
  BY <1>3 DEF EnsureMiss, Goto, TypeOK
<1>4. CASE \E id \in Ids : ScanFile(p, id)
  BY <1>4 DEF ScanFile, TypeOK, Views
<1>5. CASE LoadEnd(p)
  <2>1. part[p] \in Views /\ disk \in Views
    BY DEF TypeOK
  <2>2. \A id \in Ids : part[p][id] = disk[id]
    BY <1>5 DEF LoadEnd
  <2>3. part[p] = disk
    BY <2>1, <2>2 DEF Views
  <2>4. view'[p] = disk' /\ pc'[p] # "scan"
    BY <1>5, <2>3, ContinueGoes DEF LoadEnd, TypeOK
  <2> QED BY <2>4
<1>6. CASE WriteEntry(p)
  <2> DEFINE g == NextGen(job[p].id, TRUE)
  <2>1. /\ disk' = [disk EXCEPT ![job[p].id] = g] /\ pc'[p] = "touch"
        /\ view' = IF loaded[p] THEN [view EXCEPT ![p][job[p].id] = g] ELSE view
        /\ dirty' = [dirty EXCEPT ![p] = @ \/ ~loaded[p]] /\ loaded' = loaded
    BY <1>6 DEF WriteEntry, Mutate, Materialize, Goto, TypeOK
  <2>2. loaded'[p] /\ ~dirty'[p] => view'[p] = [view[p] EXCEPT ![job[p].id] = g]
    BY <2>1 DEF TypeOK
  <2>3. loaded'[p] /\ ~dirty'[p] => view[p] = disk
    BY <2>1 DEF TypeOK
  <2> QED BY <2>1, <2>2, <2>3
<1>7. CASE RemoveEntry(p) \/ ArchiveOrRestore(p)
  BY <1>7 DEF RemoveEntry, ArchiveOrRestore, Mutate, Goto, Invalidate, TypeOK
<1>8. CASE AddDuplicate(p) \/ LookDuplicate(p) \/ RemoveGone(p) \/ ArchiveOnly(p) \/ BodyFails(p)
  BY <1>8
  DEF AddDuplicate, LookDuplicate, RemoveGone, ArchiveOnly, BodyFails, Goto, Finish,
      Invalidate, TypeOK
<1>9. CASE Touch(p) \/ Sync(p) \/ TouchAgain(p)
  BY <1>9 DEF Touch, Sync, TouchAgain, Goto, Finish, Invalidate, TypeOK
<1>10. CASE PollTick(p) \/ Crash(p) \/ Restart(p)
  BY <1>10 DEF PollTick, Crash, Restart, Goto, TypeOK
<1> QED
  BY <1>1, <1>2, <1>3, <1>4, <1>5, <1>6, <1>7, <1>8, <1>9, <1>10 DEF Step, Work

LEMMA AloneAlways ==
  ASSUME NEW p \in Procs, Procs = {p}
  PROVE  Spec => []AloneInv
<1>1. Init => AloneInv
  BY TypeInit DEF Init, AloneInv, CleanMemoryIsDisk, ScanIsDisk, BodySeesDisk
<1>2. AloneInv /\ TypeOK' /\ [Next]_vars => AloneInv'
  <2>1. AloneInv /\ TypeOK' /\ UNCHANGED vars => AloneInv'
    BY DEF vars, AloneInv, CleanMemoryIsDisk, ScanIsDisk, BodySeesDisk
  <2>2. AloneInv /\ TypeOK' /\ Next => AloneInv'
    BY AloneStep DEF Next
  <2> QED BY <2>1, <2>2
<1> QED BY <1>1, <1>2, TypeCorrect, PTL DEF Spec

\* Alone, a process needs neither the marker nor the poller: what it answers
\* from is the disk, through every mutation, death and restart.
THEOREM AloneMemoryIsDisk ==
  ASSUME NEW p \in Procs, Procs = {p}
  PROVE  Spec => []CleanMemoryIsDisk
  BY AloneAlways, PTL DEF AloneInv

\* What a patch that is let through has found.
PatchMatched ==
  \A p \in Procs : job[p].op = "patch" /\ pc[p] = "body" /\ pc'[p] = "touch" =>
                     disk[job[p].id].n = job[p].want

\* Alone, index_patch refuses every patch whose expectedSourceHash is not the
\* file's: it takes a second process to lose an update.
THEOREM AlonePatchesLoseNothing ==
  ASSUME NEW p \in Procs, Procs = {p}
  PROVE  Spec => PatchNeverLosesUpdate
<1>1. AloneInv /\ [Next]_vars => [PatchMatched]_vars
  <2> SUFFICES ASSUME AloneInv, Step(p), job[p].op = "patch", pc[p] = "body",
                      pc'[p] = "touch"
               PROVE  disk[job[p].id].n = job[p].want
    BY DEF Next, PatchMatched
  <2>1. view[p] = disk
    BY DEF AloneInv, BodySeesDisk, ArchiveOps
  <2>2. WriteEntry(p)
    BY DEF Step, Work, BeginRead, BeginOther, Begin, EnsureHit, EnsureMiss, ScanFile, LoadEnd,
           AddDuplicate, LookDuplicate, RemoveEntry, RemoveGone, ArchiveOrRestore, ArchiveOnly,
           QuietOps, BodyFails, Touch, Sync, TouchAgain, PollTick, Crash, Restart, Goto, Finish,
           AloneInv, TypeOK
  <2> QED BY <2>1, <2>2 DEF WriteEntry, MayWrite
<1> QED BY <1>1, AloneAlways, PTL DEF Spec, PatchNeverLosesUpdate, PatchMatched
=============================================================================
