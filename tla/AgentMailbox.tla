---------------------------- MODULE AgentMailbox ----------------------------
(***************************************************************************)
(* The inter-agent mailbox of several index-server processes that share    *)
(* one messaging directory (src/src/services/messaging/agentMailbox.ts and *)
(* messagingPersistence.ts, behind the tools of handlers.messaging.ts).    *)
(*                                                                         *)
(* On disk there are messages.jsonl and the marker .messages-version.      *)
(* Each process keeps the messages in a Map and merges the file into it    *)
(* whenever the marker changed.  send() appends to the file; every other   *)
(* change rewrites the whole file from the process's own Map.  A process   *)
(* runs one call at a time; processes interleave between a call's accesses *)
(* to the directory.                                                       *)
(*                                                                         *)
(* A message is its identity and its marks: the readers in readBy, or the  *)
(* updates made to it, of which Keep (persistent: true) matters to the     *)
(* sweep.  Of the marker a process remembers, the model keeps whether it   *)
(* still is the one on disk: every touch writes one that never occurred.   *)
(***************************************************************************)
EXTENDS Naturals, FiniteSets

CONSTANTS Procs,      \* the server processes
          Msgs,       \* message ids, each sent at most once
          Marks,      \* readers and updates
          Keep,       \* the update persistent: true
          Serve,      \* the operations that clients ask for
          MaxCrashes  \* bound: processes that die, and come back

Ops == {"read", "send", "markRead", "ack", "update", "delete", "purgeAll", "sweep"}

ASSUME AgentMailboxAssumption ==
    /\ Keep \in Marks
    /\ Serve \subseteq Ops
    /\ MaxCrashes \in Nat

VARIABLES
  file,    \* messages in messages.jsonl
  written, \* written: the marks they have there, as <<message, mark>>
  held,    \* held[p]: messages in p's Map
  marks,   \* marks[p]: their marks
  current, \* processes whose remembered marker is the one on disk
  pc,      \* pc[p]: where p's current call is
  job,     \* job[p]: the call's operation and arguments
  expired, \* messages whose TTL has passed
  sent,    \* history: messages that send() has appended
  removed, \* history: messages that were deleted, purged or swept
  swept,   \* history: those removed by the sweep
  crashes

vars == <<file, written, held, marks, current, pc, job, expired, sent, removed, swept,
          crashes>>
history == <<sent, removed, swept>>

PCs   == {"idle", "load", "loaded", "apply", "touch", "sync"}
NoJob == [op |-> "read", msgs |-> {}, mark |-> Keep]
Jobs  == [op : Ops, msgs : SUBSET Msgs, mark : Marks]

Init ==
  /\ file = {} /\ written = {}
  /\ held = [p \in Procs |-> {}] /\ marks = [p \in Procs |-> {}]
  /\ current = {}
  /\ pc = [p \in Procs |-> "idle"] /\ job = [p \in Procs |-> NoJob]
  /\ expired = {} /\ sent = {} /\ removed = {} /\ swept = {} /\ crashes = 0

Of(ms, M) == {x \in ms : x[1] \in M}

Goto(p, l) == pc' = [pc EXCEPT ![p] = l]

---------------------------------------------------------------------------
\* Starting a call

\* ensureLoaded() compares the marker on disk with the remembered one.
Begin(p, o, M, k) ==
  /\ pc[p] = "idle"
  /\ job' = [job EXCEPT ![p] = [op |-> o, msgs |-> M, mark |-> k]]
  /\ Goto(p, IF p \in current THEN "apply" ELSE "load")
  /\ UNCHANGED <<file, written, held, marks, current, expired, history, crashes>>

BeginRead(p) == Begin(p, "read", {}, Keep)

\* send() makes an id of a counter and the clock.  Another call names
\* messages by ids that clients know, a channel, or a filter.
BeginOther(p) ==
  \E o \in Serve \ {"read"}, M \in SUBSET Msgs, k \in Marks :
    /\ o = "send" =>
         Cardinality(M) = 1 /\ \A m \in M : m \notin sent /\ \A q \in Procs : m \notin job[q].msgs
    /\ o \in {"markRead", "ack"} => k # Keep
    /\ o = "update" => Cardinality(M) = 1
    /\ o \in {"delete", "purgeAll", "sweep"} => k = Keep
    /\ o \in {"purgeAll", "sweep"} => M = {}
    /\ o # "send" => M \subseteq sent
    /\ Begin(p, o, M, k)

---------------------------------------------------------------------------
\* ensureLoaded()

\* Mutant: the Map is replaced by what the file holds.
LoadReplaces(p) ==
  /\ pc[p] = "load"
  /\ held' = [held EXCEPT ![p] = file]
  /\ marks' = [marks EXCEPT ![p] = written]
  /\ Goto(p, "loaded")
  /\ UNCHANGED <<file, written, current, job, expired, history, crashes>>

\* Mutant: only the first load of a process reads the file.
LoadOnce(p) ==
  /\ pc[p] = "load"
  /\ IF held[p] = {}
     THEN /\ held' = [held EXCEPT ![p] = @ \cup file]
          /\ marks' = [marks EXCEPT ![p] = @ \cup Of(written, file \ held[p])]
     ELSE UNCHANGED <<held, marks>>
  /\ Goto(p, "loaded")
  /\ UNCHANGED <<file, written, current, job, expired, history, crashes>>

\* Mutant: readBy is not restored from the file.
LoadUnread(p) ==
  /\ pc[p] = "load"
  /\ held' = [held EXCEPT ![p] = @ \cup file]
  /\ UNCHANGED marks
  /\ Goto(p, "loaded")
  /\ UNCHANGED <<file, written, current, job, expired, history, crashes>>

\* loadMessages() and mergeDiskSnapshot(): messages already in the Map win.
Load(p) ==
  /\ pc[p] = "load"
  /\ held' = [held EXCEPT ![p] = @ \cup file]
  /\ marks' = [marks EXCEPT ![p] = @ \cup Of(written, file \ held[p])]
  /\ Goto(p, "loaded")
  /\ UNCHANGED <<file, written, current, job, expired, history, crashes>>

\* The marker is remembered as it is after the load.
Remember(p) ==
  /\ pc[p] = "loaded"
  /\ current' = current \cup {p}
  /\ Goto(p, "apply")
  /\ UNCHANGED <<file, written, held, marks, job, expired, history, crashes>>

---------------------------------------------------------------------------
\* What the calls do

Finish(p) == Goto(p, "idle") /\ job' = [job EXCEPT ![p] = NoJob]

\* read() without markRead, listChannels(), getStats(), getThread(), ...
Read(p) ==
  /\ pc[p] = "apply" /\ job[p].op = "read"
  /\ Finish(p)
  /\ UNCHANGED <<file, written, held, marks, current, expired, history, crashes>>

\* send() and reply(): into the Map and appended to the file, persistent or not.
Send(p) ==
  /\ pc[p] = "apply" /\ job[p].op = "send"
  /\ \E k \in SUBSET {Keep} :
       LET new == job[p].msgs \X k IN
       /\ held' = [held EXCEPT ![p] = @ \cup job[p].msgs]
       /\ marks' = [marks EXCEPT ![p] = @ \cup new]
       /\ file' = file \cup job[p].msgs /\ written' = written \cup new
  /\ sent' = sent \cup job[p].msgs
  /\ Goto(p, "touch")
  /\ UNCHANGED <<current, job, expired, removed, swept, crashes>>

\* persistAll(): rewriteMessages() renames a copy of p's Map over the file.
PersistAll(p) ==
  /\ file' = held'[p] /\ written' = marks'[p]
  /\ Goto(p, "touch") /\ UNCHANGED job

\* read() with markRead rewrites even if nothing changed, ack() only if it
\* did, updateMessage() only if the message is there.
Remark(p) ==
  LET new == (job[p].msgs \cap held[p]) \X {job[p].mark} IN
  /\ pc[p] = "apply" /\ job[p].op \in {"markRead", "ack", "update"}
  /\ marks' = [marks EXCEPT ![p] = @ \cup new]
  /\ UNCHANGED held
  /\ IF \/ job[p].op = "markRead"
        \/ job[p].op = "ack" /\ ~(new \subseteq marks[p])
        \/ job[p].op = "update" /\ new # {}
     THEN PersistAll(p)
     ELSE Finish(p) /\ UNCHANGED <<file, written>>
  /\ UNCHANGED <<current, expired, history, crashes>>

\* What sweepExpired() removes.
Sweepable(p) == {m \in held[p] \cap expired : <<m, Keep>> \notin marks[p]}

\* What deleteMessages() and purgeChannel(), purgeAll(), sweepExpired() remove.
Gone(p) ==
  {m \in held[p] : \/ job[p].op = "delete" /\ m \in job[p].msgs
                   \/ job[p].op = "purgeAll"
                   \/ job[p].op = "sweep" /\ m \in Sweepable(p)}

\* Mutant: the messages leave the Map, but the file is not rewritten.
RemoveInMemory(p) ==
  /\ pc[p] = "apply" /\ job[p].op \in {"delete", "purgeAll", "sweep"}
  /\ held' = [held EXCEPT ![p] = @ \ Gone(p)]
  /\ marks' = [marks EXCEPT ![p] = Of(@, held[p] \ Gone(p))]
  /\ removed' = removed \cup Gone(p)
  /\ swept' = IF job[p].op = "sweep" THEN swept \cup Gone(p) ELSE swept
  /\ Goto(p, "touch")
  /\ UNCHANGED <<file, written, current, job, expired, sent, crashes>>

\* Only purgeAll() rewrites the file when nothing is removed.
Remove(p) ==
  /\ pc[p] = "apply" /\ job[p].op \in {"delete", "purgeAll", "sweep"}
  /\ held' = [held EXCEPT ![p] = @ \ Gone(p)]
  /\ marks' = [marks EXCEPT ![p] = Of(@, held[p] \ Gone(p))]
  /\ IF Gone(p) # {} \/ job[p].op = "purgeAll"
     THEN PersistAll(p)
     ELSE Finish(p) /\ UNCHANGED <<file, written>>
  /\ removed' = removed \cup Gone(p)
  /\ swept' = IF job[p].op = "sweep" THEN swept \cup Gone(p) ELSE swept
  /\ UNCHANGED <<current, expired, sent, crashes>>

\* touchMessagesVersion(): a new marker.
Touch(p) ==
  /\ pc[p] = "touch"
  /\ current' = {}
  /\ Goto(p, "sync")
  /\ UNCHANGED <<file, written, held, marks, job, expired, history, crashes>>

\* syncVersionState(): the marker is remembered as it is by now.
Sync(p) ==
  /\ pc[p] = "sync"
  /\ current' = current \cup {p}
  /\ Finish(p)
  /\ UNCHANGED <<file, written, held, marks, expired, history, crashes>>

---------------------------------------------------------------------------
\* The environment

\* More than ttlSeconds have passed since the message was sent.
Expire(m) ==
  /\ m \in sent \ expired /\ "sweep" \in Serve
  /\ expired' = expired \cup {m}
  /\ UNCHANGED <<file, written, held, marks, current, pc, job, history, crashes>>

\* A process dies, and starts again with an empty Map.
Crash(p) ==
  /\ crashes < MaxCrashes /\ crashes' = crashes + 1
  /\ held' = [held EXCEPT ![p] = {}] /\ marks' = [marks EXCEPT ![p] = {}]
  /\ current' = current \ {p}
  /\ Finish(p)
  /\ UNCHANGED <<file, written, expired, history>>

---------------------------------------------------------------------------
Work(p) ==
  \/ Load(p) \/ Remember(p) \/ Read(p) \/ Send(p) \/ Remark(p) \/ Remove(p)
  \/ Touch(p) \/ Sync(p)

Step(p) == BeginRead(p) \/ BeginOther(p) \/ Work(p) \/ Crash(p)

Next == (\E p \in Procs : Step(p)) \/ \E m \in Msgs : Expire(m)

Spec == Init /\ [][Next]_vars

\* Calls run to their end, and every process is read from again and again.
Fairness == \A p \in Procs : WF_vars(Work(p)) /\ SF_vars(BeginRead(p))

FairSpec == Spec /\ Fairness

---------------------------------------------------------------------------
\* Properties

\* Every variable has its type.
TypeOK ==
  /\ file \subseteq Msgs /\ written \subseteq file \X Marks
  /\ held \in [Procs -> SUBSET Msgs]
  /\ marks \in [Procs -> SUBSET (Msgs \X Marks)]
  /\ \A p \in Procs : marks[p] \subseteq held[p] \X Marks
  /\ current \subseteq Procs /\ pc \in [Procs -> PCs] /\ job \in [Procs -> Jobs]
  /\ expired \subseteq Msgs /\ sent \subseteq Msgs
  /\ removed \subseteq Msgs /\ swept \subseteq removed /\ crashes \in 0..MaxCrashes

\* docs/messaging.md:35: "This preserves the no-data-loss guarantee above": a
\* message that was sent and never removed is on disk or in some process.
NoDataLoss ==
  \A m \in sent \ removed : m \in file \/ \E p \in Procs : m \in held[p]

\* Stronger: it is on disk, so that a crash of everybody loses nothing; and what
\* was removed does not come back there: docs/messaging.md:32, a process that
\* missed a purge "may still show already-purged messages" in memory only.
DiskIsTrue == sent \ removed \subseteq file /\ removed \cap file = {}

\* What a process acknowledged or updated stays so as long as the message does;
\* and "persistent", "If true, survives TTL sweep", holds whoever sweeps.
MarksAreKept ==
  [][/\ \A x \in written : x[1] \in file' => x \in written'
     /\ \A m \in swept' \ swept : <<m, Keep>> \notin written]_vars

\* docs/messaging.md:27: a reload never clobbers a process's own writes: what a
\* process holds it loses by its own removals only, or when it dies.
OwnNeverClobbered ==
  [][\A p \in Procs :
       ~(held[p] \subseteq held'[p] /\ marks[p] \subseteq marks'[p]) =>
         \/ job[p].op \in {"delete", "purgeAll", "sweep"} /\ pc[p] = "apply"
         \/ crashes' # crashes]_vars

\* docs/messaging.md:17: a process "stays in sync with other processes": a
\* message that stays on disk is held in the end, provided that the remembered
\* marker is found outdated again and again, by others going on to touch it.
LaterTrafficDelivers ==
  \A p \in Procs, m \in Msgs :
    <>[](m \in file) /\ []<>(pc[p] = "idle" /\ p \notin current) => <>(m \in held[p])
=============================================================================
