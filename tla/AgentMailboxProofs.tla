------------------------- MODULE AgentMailboxProofs -------------------------
(***************************************************************************)
(* Proofs about AgentMailbox for any number of processes and messages:     *)
(* typing, that a reload never clobbers what a process holds, that nothing *)
(* is lost while everybody only sends and reads, and that a process alone  *)
(* in its directory loses nothing at all and brings nothing back.          *)
(***************************************************************************)
EXTENDS AgentMailbox, TLAPS

---------------------------------------------------------------------------
\* Typing

LEMMA MailboxTypeInit == Init => TypeOK
  BY AgentMailboxAssumption DEF Init, TypeOK, NoJob, Jobs, PCs, Ops

\* The part of the state that Begin() leaves alone keeps its type.
LEMMA MailboxTypeStep == TypeOK /\ [Next]_vars => TypeOK'
<1> SUFFICES ASSUME TypeOK, [Next]_vars PROVE TypeOK'
  OBVIOUS
<1> USE AgentMailboxAssumption DEF TypeOK, history
<1>1. ASSUME NEW p \in Procs, NEW o \in Ops, NEW M \in SUBSET Msgs, NEW k \in Marks,
             Begin(p, o, M, k)
      PROVE  TypeOK'
  <2>1. [op |-> o, msgs |-> M, mark |-> k] \in Jobs
    BY DEF Jobs
  <2> QED BY <1>1, <2>1 DEF Begin, Goto, PCs
<1>2. ASSUME NEW p \in Procs, Work(p) PROVE TypeOK'
  <2> USE DEF Goto, Of
  <2>1. CASE Load(p)
    BY <2>1 DEF Load, PCs
  <2>2. CASE Remember(p)
    BY <2>2 DEF Remember, PCs
  <2>3. NoJob \in Jobs
    BY DEF NoJob, Jobs, Ops
  <2>4. CASE Read(p)
    BY <2>3, <2>4 DEF Read, Finish, PCs
  <2>5. job[p] \in Jobs /\ job[p].msgs \subseteq Msgs /\ job[p].mark \in Marks
    BY DEF Jobs
  <2>6. CASE Send(p)
    <3>1. PICK k \in SUBSET {Keep} :
            LET new == job[p].msgs \X k IN
            /\ held' = [held EXCEPT ![p] = @ \cup job[p].msgs]
            /\ marks' = [marks EXCEPT ![p] = @ \cup new]
            /\ file' = file \cup job[p].msgs /\ written' = written \cup new
      BY <2>6 DEF Send
    <3>2. UNCHANGED <<job, current, expired, removed, swept, crashes>>
          /\ sent' = sent \cup job[p].msgs /\ pc' = [pc EXCEPT ![p] = "touch"]
      BY <2>6 DEF Send
    <3>3. written' \subseteq file' \X Marks
      BY <2>5, <3>1
    <3>4. /\ held' \in [Procs -> SUBSET Msgs]
          /\ marks' \in [Procs -> SUBSET (Msgs \X Marks)]
          /\ \A q \in Procs : marks'[q] \subseteq held'[q] \X Marks
      BY <2>5, <3>1
    <3> QED BY <2>5, <3>1, <3>2, <3>3, <3>4 DEF PCs
  <2>7. CASE Remark(p)
    <3> DEFINE new == (job[p].msgs \cap held[p]) \X {job[p].mark}
    <3>1. /\ marks' = [marks EXCEPT ![p] = @ \cup new] /\ held' = held
          /\ UNCHANGED <<current, expired, sent, removed, swept, crashes>>
      BY <2>7 DEF Remark
    <3>2. /\ marks' \in [Procs -> SUBSET (Msgs \X Marks)]
          /\ \A q \in Procs : marks'[q] \subseteq held'[q] \X Marks
      BY <2>5, <3>1
    <3>3. \/ PersistAll(p)
          \/ Finish(p) /\ UNCHANGED <<file, written>>
      BY <2>7 DEF Remark
    <3> HIDE DEF new
    <3> QED BY <2>3, <3>1, <3>2, <3>3 DEF PersistAll, Finish, PCs
  <2>8. CASE Remove(p)
    <3> DEFINE gone == Gone(p)
    <3>1. gone \subseteq held[p]
      BY DEF Gone
    <3>2. /\ held' = [held EXCEPT ![p] = @ \ gone]
          /\ marks' = [marks EXCEPT ![p] = Of(@, held[p] \ gone)]
          /\ removed' = removed \cup gone
          /\ swept' = IF job[p].op = "sweep" THEN swept \cup gone ELSE swept
          /\ UNCHANGED <<current, expired, sent, crashes>>
      BY <2>8 DEF Remove
    <3>3. /\ held' \in [Procs -> SUBSET Msgs]
          /\ marks' \in [Procs -> SUBSET (Msgs \X Marks)]
          /\ \A q \in Procs : marks'[q] \subseteq held'[q] \X Marks
      BY <3>2
    <3>4. \/ PersistAll(p)
          \/ Finish(p) /\ UNCHANGED <<file, written>>
      BY <2>8 DEF Remove
    <3> HIDE DEF gone
    <3> QED BY <2>3, <3>1, <3>2, <3>3, <3>4 DEF PersistAll, Finish, PCs
  <2>9. CASE Touch(p)
    BY <2>9 DEF Touch, PCs
  <2>10. CASE Sync(p)
    BY <2>3, <2>10 DEF Sync, Finish, PCs
  <2> QED BY <1>2, <2>1, <2>2, <2>4, <2>6, <2>7, <2>8, <2>9, <2>10 DEF Work
<1>3. ASSUME NEW p \in Procs, Crash(p) PROVE TypeOK'
  BY <1>3 DEF Crash, Finish, Goto, PCs, NoJob, Jobs, Ops
<1>4. ASSUME NEW m \in Msgs, Expire(m) PROVE TypeOK'
  BY <1>4 DEF Expire
<1>5. CASE UNCHANGED vars
  BY <1>5 DEF vars
<1> QED BY <1>1, <1>2, <1>3, <1>4, <1>5 DEF Next, Step, BeginRead, BeginOther, Ops

\* The typing invariant, of every file, Map and call.
THEOREM MailboxTypeCorrect == Spec => []TypeOK
  BY MailboxTypeInit, MailboxTypeStep, PTL DEF Spec

---------------------------------------------------------------------------
\* A reload never clobbers

\* Only a removal of its own or its death takes a message or a mark away from
\* a process: a load merges.
LEMMA ClobberStep == TypeOK /\ [Next]_vars =>
  \A p \in Procs :
    ~(held[p] \subseteq held'[p] /\ marks[p] \subseteq marks'[p]) =>
      \/ job[p].op \in {"delete", "purgeAll", "sweep"} /\ pc[p] = "apply"
      \/ crashes' # crashes
<1> SUFFICES ASSUME TypeOK, [Next]_vars, NEW p \in Procs
             PROVE  \/ held[p] \subseteq held'[p] /\ marks[p] \subseteq marks'[p]
                    \/ job[p].op \in {"delete", "purgeAll", "sweep"} /\ pc[p] = "apply"
                    \/ crashes' # crashes
  OBVIOUS
<1> USE DEF TypeOK
<1>1. ASSUME NEW q \in Procs, Work(q)
      PROVE  \/ held[p] \subseteq held'[p] /\ marks[p] \subseteq marks'[p]
             \/ job[p].op \in {"delete", "purgeAll", "sweep"} /\ pc[p] = "apply"
  <2>1. CASE Load(q)
    BY <2>1 DEF Load
  <2>2. CASE Send(q)
    BY <2>2 DEF Send
  <2>3. CASE Remark(q)
    BY <2>3 DEF Remark
  <2>4. CASE Remove(q)
    BY <2>4 DEF Remove
  <2>5. CASE Remember(q) \/ Read(q) \/ Touch(q) \/ Sync(q)
    BY <2>5 DEF Remember, Read, Touch, Sync
  <2> QED BY <1>1, <2>1, <2>2, <2>3, <2>4, <2>5 DEF Work
<1>2. ASSUME NEW q \in Procs, Crash(q) PROVE crashes' # crashes
  BY <1>2, AgentMailboxAssumption DEF Crash
<1>3. ASSUME NEW q \in Procs, BeginRead(q) \/ BeginOther(q) PROVE UNCHANGED <<held, marks>>
  BY <1>3 DEF BeginRead, BeginOther, Begin
<1>4. ASSUME NEW m \in Msgs, Expire(m) PROVE UNCHANGED <<held, marks>>
  BY <1>4 DEF Expire
<1>5. CASE UNCHANGED vars
  BY <1>5 DEF vars
<1> QED BY <1>1, <1>2, <1>3, <1>4, <1>5 DEF Next, Step

\* A process's own writes are never clobbered by a reload that races with the
\* write of another process.
THEOREM OwnWritesKept == Spec => OwnNeverClobbered
<1>1. TypeOK /\ [Next]_vars =>
        [\A p \in Procs :
           ~(held[p] \subseteq held'[p] /\ marks[p] \subseteq marks'[p]) =>
             \/ job[p].op \in {"delete", "purgeAll", "sweep"} /\ pc[p] = "apply"
             \/ crashes' # crashes]_vars
  BY ClobberStep
<1> QED BY <1>1, MailboxTypeCorrect, PTL DEF Spec, OwnNeverClobbered

---------------------------------------------------------------------------
\* While everybody only sends and reads

AppendInv ==
  /\ sent \subseteq file
  /\ \A p \in Procs : job[p].op \in {"read", "send"}

\* Appending never overwrites, so nobody's stale Map can reach the file.
THEOREM AppendsLoseNothing ==
  ASSUME Serve \subseteq {"read", "send"}
  PROVE  Spec => []NoDataLoss
<1>1. Init => AppendInv
  BY DEF Init, AppendInv, NoJob
<1>2. TypeOK /\ AppendInv /\ [Next]_vars => AppendInv'
  <2> SUFFICES ASSUME TypeOK, AppendInv, [Next]_vars PROVE AppendInv'
    OBVIOUS
  <2> USE DEF TypeOK, AppendInv, history
  <2>1. ASSUME NEW p \in Procs, Work(p) PROVE AppendInv'
    <3>1. CASE Send(p)
      BY <3>1 DEF Send
    <3>2. CASE Read(p) \/ Sync(p)
      BY <3>2 DEF Read, Sync, Finish, NoJob
    <3>3. CASE Load(p) \/ Remember(p) \/ Touch(p)
      BY <3>3 DEF Load, Remember, Touch
    <3>4. ~Remark(p) /\ ~Remove(p)
      BY DEF Remark, Remove
    <3> QED BY <2>1, <3>1, <3>2, <3>3, <3>4 DEF Work
  <2>2. ASSUME NEW p \in Procs, BeginRead(p) \/ BeginOther(p) PROVE AppendInv'
    BY <2>2 DEF BeginRead, BeginOther, Begin
  <2>3. ASSUME NEW p \in Procs, Crash(p) PROVE AppendInv'
    BY <2>3 DEF Crash, Finish, NoJob
  <2>4. ASSUME NEW m \in Msgs, Expire(m) PROVE AppendInv'
    BY <2>4 DEF Expire
  <2>5. CASE UNCHANGED vars
    BY <2>5 DEF vars
  <2> QED BY <2>1, <2>2, <2>3, <2>4, <2>5 DEF Next, Step
<1>3. AppendInv => NoDataLoss
  BY DEF AppendInv, NoDataLoss
<1> QED BY <1>1, <1>2, <1>3, MailboxTypeCorrect, PTL DEF Spec

---------------------------------------------------------------------------
\* A process alone in its directory

\* A Map that has been loaded is the file; one that has not is empty.
MapIsFile ==
  \A p \in Procs :
    /\ pc[p] = "apply" => p \in current
    /\ IF p \in current \/ pc[p] \in {"loaded", "touch", "sync"}
       THEN held[p] = file /\ marks[p] = written
       ELSE held[p] = {} /\ marks[p] = {}

\* A message about to be sent was never sent before.
SendsNew ==
  \A p \in Procs :
    job[p].op = "send" /\ pc[p] \in {"load", "loaded", "apply"} => job[p].msgs \cap sent = {}

AloneInv ==
  /\ TypeOK /\ MapIsFile /\ SendsNew
  /\ DiskIsTrue /\ removed \subseteq sent /\ file \subseteq sent
  /\ \A p \in Procs : pc[p] = "idle" => job[p] = NoJob

LEMMA AloneStep ==
  ASSUME NEW p \in Procs, Procs = {p}, AloneInv, TypeOK', [Next]_vars
  PROVE  AloneInv'
<1> USE DEF AloneInv, TypeOK, MapIsFile, SendsNew, DiskIsTrue,
            Goto, history
<1>1. CASE Load(p)
  BY <1>1 DEF Load, Of
<1>2. CASE Remember(p)
  BY <1>2 DEF Remember
<1>3. CASE Read(p)
  BY <1>3 DEF Read, Finish, NoJob
<1>4. CASE Send(p)
  BY <1>4 DEF Send
<1>5. CASE Remark(p)
  <2>1. CASE PersistAll(p)
    <3>1. /\ held' = held /\ file' = held[p] /\ written' = marks'[p]
          /\ UNCHANGED <<current, job, sent, removed, expired, swept, crashes>>
          /\ pc[p] = "apply" /\ pc' = [pc EXCEPT ![p] = "touch"]
      BY <1>5, <2>1 DEF Remark, PersistAll
    <3>2. file' = file
      BY <3>1
    <3>3. MapIsFile' /\ SendsNew'
      BY <3>1, <3>2
    <3> QED BY <3>1, <3>2, <3>3
  <2>2. CASE Finish(p) /\ UNCHANGED <<file, written>>
    <3>1. UNCHANGED <<file, written, held, current, sent, removed>>
          /\ pc[p] = "apply" /\ pc' = [pc EXCEPT ![p] = "idle"]
          /\ job' = [job EXCEPT ![p] = NoJob]
      BY <1>5, <2>2 DEF Remark, Finish
    <3>2. ~PersistAll(p)
      BY <3>1 DEF PersistAll
    <3>3. (job[p].msgs \cap held[p]) \X {job[p].mark} \subseteq marks[p]
      BY <1>5, <3>2 DEF Remark
    <3>4. marks' = marks
      BY <1>5, <3>3 DEF Remark
    <3> QED BY <3>1, <3>4 DEF NoJob
  <2> QED BY <1>5, <2>1, <2>2 DEF Remark
<1>6. CASE Remove(p)
  <2>1. Gone(p) \subseteq file
    BY <1>6 DEF Gone, Remove
  <2>2. CASE PersistAll(p)
    <3>1. file' = file \ Gone(p) /\ removed' = removed \cup Gone(p) /\ sent' = sent
      BY <1>6, <2>2 DEF Remove, PersistAll
    <3>2. DiskIsTrue' /\ removed' \subseteq sent' /\ file' \subseteq sent'
      BY <2>1, <3>1
    <3>3. MapIsFile' /\ SendsNew'
      BY <1>6, <2>2 DEF Remove, PersistAll
    <3>4. \A q \in Procs : pc'[q] # "idle"
      BY <2>2 DEF PersistAll
    <3> QED BY <3>2, <3>3, <3>4
  <2>3. CASE Gone(p) = {} /\ Finish(p) /\ UNCHANGED <<file, written>>
    <3>1. held' = held /\ removed' = removed
      BY <1>6, <2>3 DEF Remove
    <3>2. marks' = marks
      BY <1>6, <2>3 DEF Remove, Of
    <3> QED BY <1>6, <2>3, <3>1, <3>2 DEF Remove, Finish, NoJob
  <2> QED BY <1>6, <2>2, <2>3 DEF Remove
<1>7. CASE Touch(p)
  BY <1>7 DEF Touch
<1>8. CASE Sync(p)
  BY <1>8 DEF Sync, Finish, NoJob
<1>9. CASE Crash(p)
  BY <1>9 DEF Crash, Finish, NoJob
<1>10. CASE BeginRead(p) \/ BeginOther(p)
  BY <1>10 DEF BeginRead, BeginOther, Begin, NoJob
<1>11. CASE \E m \in Msgs : Expire(m)
  BY <1>11 DEF Expire
<1>12. CASE UNCHANGED vars
  BY <1>12 DEF vars
<1> QED
  BY <1>1, <1>2, <1>3, <1>4, <1>5, <1>6, <1>7, <1>8, <1>9, <1>10, <1>11, <1>12
  DEF Next, Step, Work

\* Alone, a process keeps every message on disk until it removes it, through
\* any number of deaths, and what it removed never comes back.
THEOREM AloneLosesNothing ==
  ASSUME NEW p \in Procs, Procs = {p}
  PROVE  Spec => []DiskIsTrue
<1>1. Init => AloneInv
  BY MailboxTypeInit
  DEF Init, AloneInv, MapIsFile, SendsNew, DiskIsTrue
<1>2. AloneInv /\ [Next]_vars => AloneInv'
  BY AloneStep, MailboxTypeStep DEF AloneInv
<1>3. AloneInv => DiskIsTrue
  BY DEF AloneInv
<1> QED BY <1>1, <1>2, <1>3, PTL DEF Spec

\* What a call works on and answers from: the messages and marks on disk.
AnswersAreTrue == \A p \in Procs : pc[p] = "apply" => held[p] = file /\ marks[p] = written

\* Alone, a process answers every call from what is on disk, however often it
\* was killed between a rename and the marker that announces it.
THEOREM AloneAnswersAreTrue ==
  ASSUME NEW p \in Procs, Procs = {p}
  PROVE  Spec => []AnswersAreTrue
<1>1. Init => AloneInv
  BY MailboxTypeInit DEF Init, AloneInv, MapIsFile, SendsNew, DiskIsTrue
<1>2. AloneInv /\ [Next]_vars => AloneInv'
  BY AloneStep, MailboxTypeStep DEF AloneInv
<1>3. AloneInv => AnswersAreTrue
  BY DEF AloneInv, MapIsFile, AnswersAreTrue
<1> QED BY <1>1, <1>2, <1>3, PTL DEF Spec

\* What the steps of that process do to the marks in the file.
MarksKept ==
  /\ \A x \in written : x[1] \in file' => x \in written'
  /\ \A m \in swept' \ swept : <<m, Keep>> \notin written

LEMMA AloneMarks ==
  ASSUME NEW p \in Procs, Procs = {p}, AloneInv, [Next]_vars
  PROVE  MarksKept
<1>1. CASE UNCHANGED <<file, written, swept>>
  BY <1>1 DEF MarksKept
<1>2. CASE Send(p)
  BY <1>2 DEF Send, MarksKept
<1>3. CASE Remark(p)
  <2>1. held[p] = file /\ marks[p] = written /\ swept' = swept
    BY <1>3 DEF Remark, AloneInv, MapIsFile, history
  <2>2. CASE PersistAll(p)
    BY <1>3, <2>1, <2>2 DEF Remark, PersistAll, MarksKept, AloneInv, TypeOK
  <2>3. CASE UNCHANGED <<file, written>>
    BY <1>1, <2>1, <2>3
  <2> QED BY <1>3, <2>2, <2>3 DEF Remark
<1>4. CASE Remove(p)
  <2>1. held[p] = file /\ marks[p] = written
    BY <1>4 DEF Remove, AloneInv, MapIsFile
  <2>2. \A m \in swept' \ swept : <<m, Keep>> \notin written
    BY <1>4, <2>1 DEF Remove, Gone, Sweepable
  <2>3. CASE PersistAll(p)
    <3>1. file' = held[p] \ Gone(p) /\ written' = Of(marks[p], held[p] \ Gone(p))
      BY <1>4, <2>3 DEF Remove, PersistAll, AloneInv, TypeOK
    <3> QED BY <2>1, <2>2, <3>1 DEF Of, MarksKept
  <2>4. CASE UNCHANGED <<file, written>>
    BY <2>2, <2>4 DEF MarksKept
  <2> QED BY <1>4, <2>3, <2>4 DEF Remove
<1>5. ASSUME Work(p), ~Send(p), ~Remark(p), ~Remove(p)
      PROVE  UNCHANGED <<file, written, swept>>
  BY <1>5 DEF Work, Load, Remember, Read, Touch, Sync, history
<1>6. ASSUME BeginRead(p) \/ BeginOther(p) \/ Crash(p)
      PROVE  UNCHANGED <<file, written, swept>>
  BY <1>6 DEF BeginRead, BeginOther, Begin, Crash, history
<1>7. ASSUME NEW m \in Msgs, Expire(m) PROVE UNCHANGED <<file, written, swept>>
  BY <1>7 DEF Expire, history
<1>8. CASE UNCHANGED vars
  BY <1>1, <1>8 DEF vars, history
<1> QED BY <1>1, <1>2, <1>3, <1>4, <1>5, <1>6, <1>7, <1>8 DEF Next, Step

\* Alone, a process keeps what was acknowledged or updated through every
\* rewrite, reload and death, and sweeps nothing that was made persistent.
THEOREM AloneKeepsMarks ==
  ASSUME NEW p \in Procs, Procs = {p}
  PROVE  Spec => MarksAreKept
<1>1. Init => AloneInv
  BY MailboxTypeInit DEF Init, AloneInv, MapIsFile, SendsNew, DiskIsTrue
<1>2. AloneInv /\ [Next]_vars => AloneInv'
  BY AloneStep, MailboxTypeStep DEF AloneInv
<1>3. AloneInv /\ [Next]_vars =>
        [/\ \A x \in written : x[1] \in file' => x \in written'
         /\ \A m \in swept' \ swept : <<m, Keep>> \notin written]_vars
  BY AloneMarks DEF MarksKept
<1> QED BY <1>1, <1>2, <1>3, PTL DEF Spec, MarksAreKept
=============================================================================
