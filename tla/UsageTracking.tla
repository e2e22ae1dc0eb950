---------------------------- MODULE UsageTracking ----------------------------
(***************************************************************************)
(* Usage counters and signals of one instruction in one server process     *)
(* (src/src/services/indexUsage.ts, the overlay of indexContext.ts and     *)
(* storage/usageSnapshotFile.ts).                                          *)
(*                                                                         *)
(* The counters live in the entry that the catalogue holds in memory.      *)
(* They are flushed to usage-snapshot.json at once for the first two uses  *)
(* and for every call that carries an action, a signal or a comment, else  *)
(* by a timer; a reload of the catalogue takes them from the snapshot or   *)
(* from the entry file.  The process's authority maps are floors under     *)
(* what a later call may count.  A call runs without interruption, but the *)
(* process may die between its two flushes or in one, and a flush may fail *)
(* and take what was on disk with it.  Ids do not interact, so one is      *)
(* enough; signals are only compared.                                      *)
(***************************************************************************)
EXTENDS Integers

CONSTANTS Signals,   \* the feedback signals, which count as no use
          None,      \* no signal
          Null,      \* counters that are not set
          MaxUse,    \* bound: uses in all
          MaxFaults  \* bound: flushes that fail or are cut short by a death

ASSUME UsageTrackingAssumption ==
    /\ None \notin Signals
    /\ MaxUse \in Nat /\ MaxFaults \in Nat

Counters == {"retrieved", "applied"}
Counts   == [Counters -> Nat]

ASSUME NullAssumption == Null \notin Counts

VARIABLES
  snap,      \* the id's record in usage-snapshot.json
  baked,     \* counts and signal history in the entry file
  loaded,    \* the catalogue is in memory: state !== null
  counts,    \* retrievedCount and appliedCount of the entry in memory
  hist,      \* signalHistory of the entry in memory
  authority, \* retrievedAuthority and appliedAuthority; 0 when not set
  cached,    \* the id's record in lastGoodUsageSnapshot
  dirty,     \* usageDirty
  timer,     \* usageWriteTimer is set
  call,      \* where the running usage_track is, and its signal
  draft,     \* the record that a writeEntryAsync() in flight carries
  faults,
  undone,    \* history: a late write put older counts over newer ones
  tracked,   \* history: uses counted since ever
  told,      \* history: the counts this process has last answered
  lastSaid   \* history: the last signal a finished call carried

vars == <<snap, baked, loaded, counts, hist, authority, cached, dirty, timer, call,
          draft, faults, undone, tracked, told, lastSaid>>
write == <<baked, draft, undone>>

Zero    == [k \in Counters |-> 0]
Maybe   == Counts \cup {Null}
Saids   == Signals \cup {None}
Records == [counts : Maybe, sig : Saids, hist : SUBSET Signals]
Absent  == [counts |-> Null, sig |-> None, hist |-> {}]
Entries == [counts : Maybe, hist : SUBSET Signals]
NoDraft == [counts |-> Null, hist |-> {}]
Idle    == [at |-> "idle", sig |-> None]

Total(c)     == c["retrieved"] + c["applied"]
Known(c)     == IF c = Null THEN Zero ELSE c
Larger(m, n) == IF m < n THEN n ELSE m
AtMost(c, d) == \A k \in Counters : c[k] <= d[k]

Init ==
  /\ snap = Absent
  /\ baked \in [counts : {Null, Zero}, hist : {{}}] /\ draft = NoDraft
  /\ loaded = FALSE /\ counts = Null /\ hist = {}
  /\ authority = Zero /\ cached = Absent
  /\ dirty = FALSE /\ timer = FALSE /\ call = Idle
  /\ faults = 0 /\ undone = FALSE
  /\ tracked = Zero /\ told = Zero /\ lastSaid = None

---------------------------------------------------------------------------
\* Mutant: what was last seen is not remembered.
SnapshotForgotten == snap

\* loadUsageSnapshot(): the record on disk, or without one the last seen.
Snapshot == IF snap # Absent THEN snap ELSE cached

\* Mutant: counts in the entry file are never replaced.
OverlaidEntryWins == IF baked.counts = Null THEN Snapshot.counts ELSE baked.counts

\* Mutant: the two sides are added up.
OverlaidAdds ==
  IF baked.counts = Null \/ Snapshot.counts = Null \/ Total(baked.counts) + Total(Snapshot.counts) > MaxUse
  THEN Snapshot.counts
  ELSE [k \in Counters |-> baked.counts[k] + Snapshot.counts[k]]

\* Mutant: of the snapshot's split only the retrievals are taken.
OverlaidUnsplit ==
  IF Snapshot.counts = Null THEN baked.counts
  ELSE [k \in {"retrieved"} |-> Snapshot.counts[k]]

\* applyUsageSnapshotOverlay(): the snapshot's counts, unless it has none or
\* the entry file's total is at least as large.
Overlaid ==
  IF Snapshot.counts = Null THEN baked.counts
  ELSE IF baked.counts = Null \/ Total(Snapshot.counts) > Total(baked.counts)
  THEN Snapshot.counts
  ELSE baked.counts

\* Mutant: what the process has answered before is no floor.
RestoredNoFloor == IF counts # Null THEN counts ELSE Known(Snapshot.counts)

\* What a call starts to count from: the entry's counts, or, where they are
\* not set, the authority or the snapshot; never less than the authority.
Restored ==
  LET set(k) == IF counts # Null THEN counts[k]
                ELSE IF authority[k] # 0 THEN authority[k]
                ELSE Known(Snapshot.counts)[k]
  IN  [k \in Counters |-> Larger(set(k), authority[k])]

\* Mutant: the record is made from the entry only.
RecordBare(c, h, meta) == [counts |-> Known(c), sig |-> None, hist |-> h]

\* What a flush writes: the entry's counts and history, and the last signal
\* of the cached record.
Record(c, h, meta) == [counts |-> Known(c), sig |-> meta.sig, hist |-> h]

\* writeUsageSnapshotFile() renames a new file over the old one; if that fails
\* it overwrites the old file in place, which counts as a success here.  A
\* failure of that too, or a death in it, leaves the old file, or one that is
\* cut short and reads as {}.
WriteFails(left) ==
  /\ left \in {snap, Absent} /\ snap' = left
  /\ faults < MaxFaults /\ faults' = faults + 1

\* flushUsageSnapshot() with usageDirty set: without a catalogue nothing is
\* written, and an error of the write is swallowed.
Flush(c, h, meta) ==
  /\ dirty' = FALSE /\ timer' = FALSE
  /\ \/ /\ loaded
        /\ snap' = Record(c, h, meta) /\ cached' = Record(c, h, meta)
        /\ UNCHANGED faults
     \/ /\ loaded /\ (WriteFails(snap) \/ WriteFails(Absent))
        /\ cached' = meta
     \/ /\ ~loaded
        /\ cached' = meta
        /\ UNCHANGED <<snap, faults>>

\* Mutant: the timer is forgotten.
ScheduleUnarmed == dirty' = TRUE /\ UNCHANGED timer

\* scheduleUsageFlush()
Schedule == dirty' = TRUE /\ timer' = TRUE

---------------------------------------------------------------------------
\* usage_track

Heard(s)  == IF s = None THEN hist ELSE hist \cup {s}
Answer(c) == call' = Idle /\ told' = c

\* A use of kind k: the first two are flushed at once.  A call without action
\* and signal is done then, any other has its last action and signal recorded.
Track(k, s, bare) ==
  /\ call = Idle /\ loaded /\ Total(tracked) < MaxUse
  /\ bare => s = None
  /\ LET c == [Restored EXCEPT ![k] = @ + 1] IN
     /\ counts' = c
     /\ authority' = [authority EXCEPT ![k] = c[k]]
     /\ IF Total(c) <= 2
        THEN Flush(c, Heard(s), Snapshot)
        ELSE Schedule /\ cached' = Snapshot /\ UNCHANGED <<snap, faults>>
     /\ IF bare THEN Answer(c) ELSE call' = [at |-> "meta", sig |-> s] /\ UNCHANGED told
  /\ hist' = Heard(s)
  /\ tracked' = [tracked EXCEPT ![k] = @ + 1]
  /\ UNCHANGED <<write, loaded, lastSaid>>

\* A pure feedback signal counts as no use.
Signal(s) ==
  /\ call = Idle /\ loaded /\ s # None
  /\ counts' = Restored
  /\ hist' = Heard(s)
  /\ cached' = Snapshot
  /\ call' = [at |-> "meta", sig |-> s]
  /\ UNCHANGED <<snap, write, loaded, authority, dirty, timer, faults, tracked, told, lastSaid>>

\* The end of a call that carries something: the snapshot is read again, the
\* last signal put in, and everything flushed.
Meta ==
  /\ call.at = "meta"
  /\ LET s == call.sig IN
     /\ Flush(counts, hist, IF s = None THEN Snapshot ELSE [Snapshot EXCEPT !.sig = s])
     /\ lastSaid' = IF s = None THEN lastSaid ELSE s
  /\ Answer(counts)
  /\ UNCHANGED <<write, loaded, counts, hist, authority, tracked>>

\* The timer's flush.
TimerFires ==
  /\ call = Idle /\ timer /\ dirty
  /\ Flush(counts, hist, cached)
  /\ UNCHANGED <<write, loaded, counts, hist, authority, call, tracked, told, lastSaid>>

---------------------------------------------------------------------------
\* The catalogue around it

\* invalidate()
Invalidate ==
  /\ call = Idle
  /\ loaded' = FALSE /\ counts' = Null /\ hist' = {}
  /\ UNCHANGED <<snap, write, authority, cached, dirty, timer, call, faults, tracked, told,
                 lastSaid>>

\* An ensureLoaded() that reads the directory, for whatever reason.
Load ==
  /\ call = Idle
  /\ loaded' = TRUE /\ counts' = Overlaid /\ hist' = baked.hist
  /\ cached' = Snapshot
  /\ UNCHANGED <<snap, write, authority, dirty, timer, call, faults, tracked, told, lastSaid>>

\* restoreUsageInvariant() in getIndexState(): only counts that are not set
\* are repaired.
Repair ==
  /\ call = Idle /\ loaded /\ counts = Null
  /\ counts' = [k \in Counters |-> IF authority[k] # 0 THEN authority[k]
                                   ELSE Known(cached.counts)[k]]
  /\ UNCHANGED <<snap, write, loaded, hist, authority, cached, dirty, timer, call, faults,
                 tracked, told, lastSaid>>

\* A handler takes the entry from memory and passes it to writeEntryAsync().
StartWrite ==
  /\ call = Idle /\ loaded /\ draft = NoDraft /\ counts # Null
  /\ draft' = [counts |-> counts, hist |-> hist]
  /\ UNCHANGED <<snap, baked, loaded, counts, hist, authority, cached, dirty, timer, call,
                 faults, undone, tracked, told, lastSaid>>

\* It is in the file, and materializeWrittenEntry() assigns its fields to the
\* entry in memory, whatever that holds by now.
EndWrite ==
  /\ call = Idle /\ draft # NoDraft
  /\ baked' = draft
  /\ counts' = IF loaded THEN draft.counts ELSE counts
  /\ hist' = IF loaded /\ draft.hist # {} THEN draft.hist ELSE hist
  /\ undone' = (undone \/ ~AtMost(Known(counts), draft.counts))
  /\ draft' = NoDraft
  /\ UNCHANGED <<snap, loaded, authority, cached, dirty, timer, call, faults, tracked, told,
                 lastSaid>>

Forget ==
  /\ loaded' = FALSE /\ counts' = Null /\ hist' = {}
  /\ authority' = Zero /\ cached' = Absent
  /\ dirty' = FALSE /\ timer' = FALSE /\ call' = Idle /\ draft' = NoDraft /\ told' = Zero

\* The process ends orderly, with a last flush, and is started again.  (A last
\* flush that fails and leaves the old file ends like a Crash.)
Exit ==
  /\ call = Idle
  /\ IF dirty /\ loaded
     THEN (snap' = Record(counts, hist, cached) /\ UNCHANGED faults) \/ WriteFails(Absent)
     ELSE UNCHANGED <<snap, faults>>
  /\ Forget
  /\ UNCHANGED <<baked, undone, tracked, lastSaid>>

\* The process dies, perhaps in a flush, and is started again.
Crash ==
  /\ (loaded /\ WriteFails(Absent)) \/ UNCHANGED <<snap, faults>>
  /\ Forget
  /\ UNCHANGED <<baked, undone, tracked, lastSaid>>

Next ==
  \/ \E k \in Counters, s \in Saids, bare \in BOOLEAN : Track(k, s, bare)
  \/ \E s \in Signals : Signal(s)
  \/ Meta \/ TimerFires \/ Invalidate \/ Load \/ Repair \/ StartWrite \/ EndWrite
  \/ Exit \/ Crash

Spec == Init /\ [][Next]_vars

\* A call runs on, and the event loop serves an elapsed timer.
Fairness == WF_vars(Meta) /\ WF_vars(TimerFires)

FairSpec == Spec /\ Fairness

---------------------------------------------------------------------------
\* Properties

\* Every variable has its type.
TypeOK ==
  /\ snap \in Records /\ baked \in Entries /\ draft \in Entries
  /\ loaded \in BOOLEAN /\ counts \in Maybe /\ hist \subseteq Signals
  /\ authority \in Counts /\ cached \in Records
  /\ dirty \in BOOLEAN /\ timer \in BOOLEAN
  /\ call \in [at : {"idle", "meta"}, sig : Saids]
  /\ faults \in 0..MaxFaults /\ undone \in BOOLEAN
  /\ tracked \in Counts /\ told \in Counts /\ lastSaid \in Saids

\* docs/tools.md:1545: "two monotonic sub-counters": what a process answers
\* never goes back, through reloads, flushes that fail and rewritten files.
AnswersGrow == AtMost(told, told') \/ (told' = Zero /\ ~loaded')

\* indexContext.ts:331: the snapshot is "the AUTHORITATIVE source for
\* monotonic usage counters": no flush ever lowers what a reload will take from
\* it, unless a write that was in flight has put older counts back into memory.
\* That holds through flushes that fail: of a file they have cut short the
\* process remembers the counts, and only if it ends before the next flush
\* is the record gone, as a whole.
Lost == faults' > 0 /\ ~loaded' /\ Snapshot' = Absent

SnapshotGrows == ~undone => AtMost(Known(Snapshot.counts), Known(Snapshot'.counts)) \/ Lost

\* Monotonic in both places, whichever copy a reload or a repair prefers.
CountersNeverFall == [][AnswersGrow /\ SnapshotGrows]_vars

\* No use is counted twice, whichever copies are merged.
NeverOvercounts ==
  \A c \in {Known(snap.counts), Known(baked.counts), Known(counts), authority} :
    AtMost(c, tracked)

\* index_groom acts on the last signal: between calls it is on disk, although
\* every flush rewrites the record from the entry, unless a flush failed.
SignalKept == faults = 0 /\ call = Idle => snap.sig = lastSaid

\* Counts that are in no file are flushed in the end, or dropped by a reload,
\* unless a flush failed.
Unsaved ==
  /\ loaded /\ counts # Null /\ faults = 0
  /\ \E k \in Counters : /\ counts[k] > Known(snap.counts)[k]
                         /\ counts[k] > Known(baked.counts)[k]

EventuallySaved == Unsaved ~> ~Unsaved

\* src/tests/unit/signalHistoryDurability.spec.ts:2: "signalHistory must
\* survive a restart (schema v9)".
SignalHistoryDurable ==
  faults = 0 /\ call = Idle /\ loaded /\ lastSaid # None => lastSaid \in hist
=============================================================================
