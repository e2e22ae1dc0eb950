------------------------- MODULE UsageTrackingProofs -------------------------
(***************************************************************************)
(* What holds of UsageTracking for any signals and any number of uses and  *)
(* faults: no use is counted twice, counters never fall, the last signal   *)
(* is kept, and every variable has its type.  The invariant of the first   *)
(* adds to NeverOvercounts the copies of the counters it does not speak    *)
(* of, the draft of a write in flight and the cached record, which later   *)
(* become entry file and memory, and the types of all that holds counters. *)
(***************************************************************************)
EXTENDS UsageTracking, TLAPS

Typed ==
  /\ snap \in Records /\ cached \in Records
  /\ baked \in Entries /\ draft \in Entries
  /\ counts \in Maybe /\ hist \subseteq Signals
  /\ authority \in Counts /\ tracked \in Counts
  /\ call \in [at : {"idle", "meta"}, sig : Saids]

\* Counters c that may be unset hold no more than t.
Fits(c, t) == AtMost(Known(c), t)

Bounded ==
  /\ Fits(snap.counts, tracked) /\ Fits(cached.counts, tracked)
  /\ Fits(baked.counts, tracked) /\ Fits(draft.counts, tracked)
  /\ Fits(counts, tracked) /\ AtMost(authority, tracked)

IInv == Typed /\ Bounded

---------------------------------------------------------------------------
\* Counters taken as a number each have a type, and AtMost is transitive.
LEMMA KnownTyped == \A c \in Maybe : Known(c) \in Counts
  BY DEF Maybe, Known, Zero, Counts

LEMMA KnownSet == \A c \in Counts : Known(c) = c /\ c \in Maybe
  BY NullAssumption DEF Known, Maybe

LEMMA AtMostTransitive ==
  \A c, d, e \in Counts : AtMost(c, d) /\ AtMost(d, e) => AtMost(c, e)
  BY DEF AtMost, Counts, Counters

LEMMA FitsMore ==
  ASSUME NEW c \in Maybe, NEW t \in Counts, NEW u \in Counts, Fits(c, t), AtMost(t, u)
  PROVE  Fits(c, u)
  BY KnownTyped, AtMostTransitive DEF Fits

LEMMA NullFits == \A t \in Counts : Fits(Null, t)
  BY DEF Fits, AtMost, Known, Zero, Counts, Counters

LEMMA AbsentTyped == Absent \in Records /\ NoDraft \in Entries
  BY DEF Absent, Records, NoDraft, Entries, Maybe, Saids

---------------------------------------------------------------------------
\* What a reload or a call takes its counters from.

LEMMA SnapshotTyped == IInv => Snapshot \in Records /\ Fits(Snapshot.counts, tracked)
  BY DEF IInv, Typed, Bounded, Snapshot

LEMMA OverlaidTyped == IInv => Overlaid \in Maybe /\ Fits(Overlaid, tracked)
<1> SUFFICES ASSUME IInv PROVE Overlaid \in Maybe /\ Fits(Overlaid, tracked)
  OBVIOUS
<1>1. Overlaid = Snapshot.counts \/ Overlaid = baked.counts
  BY DEF Overlaid
<1>2. Snapshot.counts \in Maybe /\ baked.counts \in Maybe
  BY SnapshotTyped DEF IInv, Typed, Records, Entries
<1> QED BY <1>1, <1>2, SnapshotTyped DEF IInv, Bounded

LEMMA RestoredTyped == IInv => Restored \in Counts /\ AtMost(Restored, tracked)
<1> SUFFICES ASSUME IInv PROVE Restored \in Counts /\ AtMost(Restored, tracked)
  OBVIOUS
<1> DEFINE s == Known(Snapshot.counts)
<1>1. s \in Counts /\ AtMost(s, tracked)
  BY SnapshotTyped, KnownTyped DEF Fits, Records
<1>2. counts # Null => counts \in Counts /\ AtMost(counts, tracked)
  BY DEF IInv, Typed, Bounded, Fits, Known, Maybe
<1>3. authority \in Counts /\ AtMost(authority, tracked) /\ tracked \in Counts
  BY DEF IInv, Typed, Bounded
<1> HIDE DEF s
<1>4. Restored = [k \in Counters |->
         Larger(IF counts # Null THEN counts[k]
                ELSE IF authority[k] # 0 THEN authority[k] ELSE s[k], authority[k])]
  BY DEF Restored, s
<1> QED BY <1>1, <1>2, <1>3, <1>4 DEF Larger, AtMost, Counts

\* A flush writes counters that fit, and nothing else into the other copies.
LEMMA FlushFits ==
  ASSUME NEW c \in Maybe, NEW h \in SUBSET Signals, NEW meta \in Records,
         NEW t \in Counts, Fits(c, t), Fits(meta.counts, t),
         snap \in Records, Fits(snap.counts, t), Flush(c, h, meta)
  PROVE  /\ snap' \in Records /\ Fits(snap'.counts, t)
         /\ cached' \in Records /\ Fits(cached'.counts, t)
<1>1. Record(c, h, meta) \in Records
  BY KnownTyped DEF Record, Records, Maybe
<1>2. Fits(Record(c, h, meta).counts, t)
  <2>1. Record(c, h, meta).counts = Known(c)
    BY DEF Record
  <2>2. Known(Known(c)) = Known(c)
    BY KnownTyped, KnownSet
  <2> QED BY <2>1, <2>2 DEF Fits
<1>3. snap' \in {snap, Absent, Record(c, h, meta)} /\ cached' \in {meta, Record(c, h, meta)}
  BY DEF Flush, WriteFails
<1>4. Absent \in Records /\ Fits(Absent.counts, t)
  BY AbsentTyped, NullFits DEF Absent
<1> QED BY <1>1, <1>2, <1>3, <1>4

---------------------------------------------------------------------------
LEMMA InitFits == Init => IInv
<1> SUFFICES ASSUME Init PROVE IInv
  OBVIOUS
<1>1. Zero \in Counts /\ Known(Zero) = Zero /\ AtMost(Zero, Zero)
  <2>1. Zero \in Counts
    BY DEF Zero, Counts
  <2>2. AtMost(Zero, Zero)
    BY DEF AtMost, Zero
  <2> QED BY <2>1, <2>2, KnownSet
<1>2. baked.counts \in {Null, Zero} /\ baked.hist = {} /\ baked \in Entries
  BY <1>1 DEF Init, Entries, Maybe
<1>3. Typed
  BY <1>1, <1>2, AbsentTyped DEF Init, Typed, Maybe, Idle, Saids
<1>4. Fits(Null, Zero) /\ Fits(Zero, Zero)
  BY <1>1, NullFits DEF Fits
<1>5. Bounded
  BY <1>1, <1>2, <1>4 DEF Init, Bounded, Absent, NoDraft
<1> QED BY <1>3, <1>5 DEF IInv

---------------------------------------------------------------------------
\* The counters a use starts from and ends with.
LEMMA TrackFits ==
  ASSUME IInv, NEW k \in Counters, NEW s \in Saids, NEW bare \in BOOLEAN, Track(k, s, bare)
  PROVE  IInv'
<1> DEFINE c == [Restored EXCEPT ![k] = @ + 1]
           t == [tracked EXCEPT ![k] = @ + 1]
<1>1. Restored \in Counts /\ AtMost(Restored, tracked) /\ tracked \in Counts
  BY RestoredTyped DEF IInv, Typed
<1>2. c \in Counts /\ t \in Counts /\ AtMost(c, t) /\ AtMost(tracked, t)
  BY <1>1 DEF Counts, AtMost, Counters
<1>3. /\ tracked' = t /\ counts' = c
      /\ authority' = [authority EXCEPT ![k] = c[k]]
      /\ baked' = baked /\ draft' = draft /\ hist' = Heard(s)
  BY DEF Track, write
<1>4. \/ Flush(c, Heard(s), Snapshot)
      \/ cached' = Snapshot /\ snap' = snap
  BY DEF Track
<1>5. call' \in {Idle, [at |-> "meta", sig |-> s]}
  BY DEF Track, Answer
<1> HIDE DEF c, t
<1>6. c \in Maybe /\ Fits(c, t)
  BY <1>2, KnownSet DEF Fits
<1>7. Heard(s) \in SUBSET Signals
  BY DEF Heard, IInv, Typed, Saids
<1>8. Snapshot \in Records /\ Fits(Snapshot.counts, t) /\ snap \in Records /\ Fits(snap.counts, t)
  BY <1>1, <1>2, SnapshotTyped, FitsMore DEF IInv, Typed, Bounded, Records
<1>9. /\ snap' \in Records /\ Fits(snap'.counts, t)
      /\ cached' \in Records /\ Fits(cached'.counts, t)
  BY <1>2, <1>4, <1>6, <1>7, <1>8, FlushFits
<1>10. authority' \in Counts /\ AtMost(authority', t)
  <2>1. authority \in Counts /\ AtMost(authority, t)
    BY <1>1, <1>2, AtMostTransitive DEF IInv, Typed, Bounded
  <2> QED BY <1>2, <1>3, <2>1 DEF Counts, AtMost
<1>11. /\ baked.counts \in Maybe /\ Fits(baked.counts, t)
       /\ draft.counts \in Maybe /\ Fits(draft.counts, t)
  BY <1>1, <1>2, FitsMore DEF IInv, Typed, Bounded, Entries
<1>12. Typed'
  BY <1>2, <1>3, <1>5, <1>6, <1>7, <1>9, <1>10 DEF IInv, Typed, Idle, Saids
<1>13. Bounded'
  BY <1>3, <1>6, <1>9, <1>10, <1>11 DEF Bounded
<1> QED BY <1>12, <1>13 DEF IInv

LEMMA SignalFits ==
  ASSUME IInv, NEW s \in Signals, Signal(s)
  PROVE  IInv'
<1>1. /\ counts' = Restored /\ hist' = Heard(s) /\ cached' = Snapshot
      /\ call' = [at |-> "meta", sig |-> s]
      /\ UNCHANGED <<snap, baked, draft, authority, tracked>>
  BY DEF Signal, write
<1>2. Restored \in Maybe /\ Fits(Restored, tracked)
  BY RestoredTyped, KnownSet DEF Fits
<1>3. Typed'
  BY <1>1, <1>2, SnapshotTyped DEF IInv, Typed, Heard, Saids
<1>4. Bounded'
  BY <1>1, <1>2, SnapshotTyped DEF IInv, Bounded
<1> QED BY <1>3, <1>4 DEF IInv

\* Any step that flushes what is in memory and leaves the rest alone.
LEMMA FlushStepFits ==
  ASSUME IInv, NEW meta \in Records, Fits(meta.counts, tracked),
         Flush(counts, hist, meta), call' \in {Idle, call},
         UNCHANGED <<baked, draft, counts, hist, authority, tracked>>
  PROVE  IInv'
<1>1. /\ snap' \in Records /\ Fits(snap'.counts, tracked)
      /\ cached' \in Records /\ Fits(cached'.counts, tracked)
  BY FlushFits DEF IInv, Typed, Bounded
<1>2. Typed'
  BY <1>1 DEF IInv, Typed, Idle, Saids
<1>3. Bounded'
  BY <1>1 DEF IInv, Bounded
<1> QED BY <1>2, <1>3 DEF IInv

LEMMA MetaFits == ASSUME IInv, Meta PROVE IInv'
<1> DEFINE s == call.sig
           meta == IF s = None THEN Snapshot ELSE [Snapshot EXCEPT !.sig = s]
<1>1. /\ Flush(counts, hist, meta) /\ call' = Idle
      /\ UNCHANGED <<baked, draft, counts, hist, authority, tracked>>
  BY DEF Meta, Answer, write
<1>2. s \in Saids
  BY DEF IInv, Typed
<1>3. meta \in Records /\ meta.counts = Snapshot.counts
  BY <1>2, SnapshotTyped DEF Records
<1> HIDE DEF meta
<1>4. Fits(meta.counts, tracked)
  BY <1>3, SnapshotTyped
<1> QED BY <1>1, <1>3, <1>4, FlushStepFits

LEMMA TimerFits == ASSUME IInv, TimerFires PROVE IInv'
<1>1. /\ Flush(counts, hist, cached)
      /\ UNCHANGED <<baked, draft, counts, hist, authority, tracked, call>>
  BY DEF TimerFires, write
<1> QED BY <1>1, FlushStepFits DEF IInv, Typed, Bounded

LEMMA CatalogueFits ==
  ASSUME IInv, Invalidate \/ Load \/ Repair
  PROVE  IInv'
<1>1. /\ UNCHANGED <<snap, baked, draft, authority, tracked, call>>
      /\ cached' \in {cached, Snapshot}
      /\ hist' \in {{}, hist, baked.hist}
  BY DEF Invalidate, Load, Repair, write
<1>2. counts' \in Maybe /\ Fits(counts', tracked)
  <2>1. CASE Invalidate
    BY <2>1, NullFits DEF Invalidate, IInv, Typed, Maybe
  <2>2. CASE Load
    BY <2>2, OverlaidTyped DEF Load
  <2>3. CASE Repair
    <3> DEFINE s == Known(cached.counts)
    <3>1. s \in Counts /\ AtMost(s, tracked)
      BY KnownTyped DEF IInv, Typed, Bounded, Fits, Records
    <3>2. authority \in Counts /\ AtMost(authority, tracked)
      BY DEF IInv, Typed, Bounded
    <3>3. counts' = [k \in Counters |-> IF authority[k] # 0 THEN authority[k] ELSE s[k]]
      BY <2>3 DEF Repair
    <3> HIDE DEF s
    <3>4. counts' \in Counts /\ AtMost(counts', tracked)
      BY <3>1, <3>2, <3>3 DEF Counts, AtMost
    <3> QED BY <3>4, KnownSet DEF Fits
  <2> QED BY <2>1, <2>2, <2>3
<1>3. Typed'
  BY <1>1, <1>2, SnapshotTyped DEF IInv, Typed, Entries
<1>4. Bounded'
  BY <1>1, <1>2, SnapshotTyped DEF IInv, Bounded
<1> QED BY <1>3, <1>4 DEF IInv

LEMMA WriteFits ==
  ASSUME IInv, StartWrite \/ EndWrite
  PROVE  IInv'
<1>1. UNCHANGED <<snap, authority, cached, call, tracked>>
  BY DEF StartWrite, EndWrite
<1>2. CASE StartWrite
  <2>1. draft' = [counts |-> counts, hist |-> hist] /\ UNCHANGED <<baked, counts, hist>>
    BY <1>2 DEF StartWrite
  <2> QED BY <1>1, <2>1 DEF IInv, Typed, Bounded, Entries
<1>3. CASE EndWrite
  <2>1. /\ baked' = draft /\ draft' = NoDraft
        /\ counts' \in {counts, draft.counts} /\ hist' \in {hist, draft.hist}
    BY <1>3 DEF EndWrite
  <2>2. Fits(NoDraft.counts, tracked)
    BY NullFits DEF NoDraft, IInv, Typed
  <2>3. Typed'
    BY <1>1, <2>1, AbsentTyped DEF IInv, Typed, Entries
  <2>4. Bounded'
    BY <1>1, <2>1, <2>2 DEF IInv, Bounded
  <2> QED BY <2>3, <2>4 DEF IInv
<1> QED BY <1>2, <1>3

LEMMA EndFits ==
  ASSUME IInv, Exit \/ Crash
  PROVE  IInv'
<1>1. Forget /\ UNCHANGED <<baked, tracked>>
  BY DEF Exit, Crash
<1>2. snap' \in {snap, Absent, Record(counts, hist, cached)}
  BY DEF Exit, Crash, WriteFails
<1>3. Record(counts, hist, cached) \in Records
  BY KnownTyped DEF Record, Records, Maybe, IInv, Typed
<1>4. Fits(Record(counts, hist, cached).counts, tracked)
  <2>1. Record(counts, hist, cached).counts = Known(counts)
    BY DEF Record
  <2>2. Known(Known(counts)) = Known(counts)
    BY KnownTyped, KnownSet DEF IInv, Typed
  <2> QED BY <2>1, <2>2 DEF Fits, IInv, Bounded
<1>5. Zero \in Counts /\ AtMost(Zero, tracked) /\ Fits(Null, tracked)
  <2>1. Fits(Null, tracked) /\ Zero \in Counts
    BY NullFits DEF IInv, Typed, Zero, Counts
  <2> QED BY <2>1 DEF IInv, Typed, AtMost, Zero, Counts
<1>6. Typed'
  BY <1>1, <1>2, <1>3, <1>5, AbsentTyped DEF IInv, Typed, Forget, Idle, Saids, Maybe
<1>7. Bounded'
  <2>1. Absent.counts = Null /\ NoDraft.counts = Null
    BY DEF Absent, NoDraft
  <2>2. Fits(snap'.counts, tracked)
    BY <1>2, <1>4, <1>5, <2>1 DEF IInv, Bounded
  <2> QED BY <1>1, <1>5, <2>1, <2>2 DEF IInv, Bounded, Forget
<1> QED BY <1>6, <1>7 DEF IInv

LEMMA StepFits == IInv /\ [Next]_vars => IInv'
<1> SUFFICES ASSUME IInv, [Next]_vars PROVE IInv'
  OBVIOUS
<1>1. ASSUME NEW k \in Counters, NEW s \in Saids, NEW bare \in BOOLEAN, Track(k, s, bare)
      PROVE  IInv'
  BY <1>1, TrackFits
<1>2. ASSUME NEW s \in Signals, Signal(s) PROVE IInv'
  BY <1>2, SignalFits
<1>3. CASE Meta
  BY <1>3, MetaFits
<1>4. CASE TimerFires
  BY <1>4, TimerFits
<1>5. CASE Invalidate \/ Load \/ Repair
  BY <1>5, CatalogueFits
<1>6. CASE StartWrite \/ EndWrite
  BY <1>6, WriteFits
<1>7. CASE Exit \/ Crash
  BY <1>7, EndFits
<1>8. CASE UNCHANGED vars
  BY <1>8 DEF vars, IInv, Typed, Bounded
<1> QED
  BY <1>1, <1>2, <1>3, <1>4, <1>5, <1>6, <1>7, <1>8 DEF Next

\* No copy of the counters, on disk or in memory, ever holds more uses than
\* were tracked, whatever copies reloads, repairs and late writes merge
\* (applyUsageSnapshotOverlay(), incrementUsage(), restoreUsageInvariant()).
THEOREM NothingCountedTwice == Spec => []NeverOvercounts
<1>1. IInv => NeverOvercounts
  BY DEF IInv, Bounded, Fits, NeverOvercounts
<1> QED BY <1>1, InitFits, StepFits, PTL DEF Spec

---------------------------------------------------------------------------
(***************************************************************************)
(* The copies of the counters are ordered by age, and what this process    *)
(* has counted stands in its authority maps: a counter that it has counted *)
(* is nowhere larger than there; one that it has not is, in memory and in  *)
(* a write in flight, the larger of the two on disk.                       *)
(***************************************************************************)
Copies == {Known(Snapshot.counts), Known(baked.counts), Known(draft.counts), Known(counts)}

Comparable(c, d) == AtMost(c, d) \/ AtMost(d, c)
Chain == \A c, d \in Copies : Comparable(c, d)

Highest(k) == Larger(Known(Snapshot.counts)[k], Known(baked.counts)[k])

Counted == \A k \in Counters : authority[k] # 0 =>
  /\ \A c \in Copies : c[k] <= authority[k]
  /\ told[k] <= authority[k]

Uncounted == \A k \in Counters : authority[k] = 0 =>
  /\ counts # Null => counts[k] = Highest(k)
  /\ draft.counts # Null => draft.counts[k] = Highest(k)
  /\ told[k] <= Highest(k)

\* What the process remembers is the snapshot it sees, once it has a catalogue.
CachedIsSnap ==
  /\ cached.counts \in {Null, Snapshot.counts}
  /\ loaded => cached.counts = Snapshot.counts

\* Counters that are not set in memory are set nowhere.
Unset == loaded /\ counts = Null => Known(Snapshot.counts) = Zero /\ baked.counts = Null

InCall   == call.at = "meta" => loaded /\ counts # Null /\ AtMost(told, counts)
DraftSet == draft.counts = Null => draft = NoDraft

\* Until a late write has put older counters back, memory is ahead of the snapshot.
Ahead == ~undone /\ loaded => AtMost(Known(Snapshot.counts), Known(counts))

Ages ==
  /\ told \in Counts
  /\ Chain /\ Counted /\ Uncounted
  /\ CachedIsSnap /\ Unset /\ InCall /\ DraftSet /\ Ahead

---------------------------------------------------------------------------
LEMMA ZeroLeast ==
  /\ Zero \in Counts /\ Known(Null) = Zero
  /\ \A c \in Counts : AtMost(Zero, c) /\ AtMost(c, c)
  BY DEF Zero, Counts, Known, AtMost

LEMMA CopiesTyped == IInv => Copies \subseteq Counts
  BY SnapshotTyped, KnownTyped DEF IInv, Typed, Copies, Records, Entries

LEMMA HighestTyped ==
  ASSUME IInv, NEW k \in Counters
  PROVE  /\ Known(Snapshot.counts)[k] \in Nat /\ Known(baked.counts)[k] \in Nat
         /\ Highest(k) \in Nat
         /\ Known(Snapshot.counts)[k] <= Highest(k) /\ Known(baked.counts)[k] <= Highest(k)
<1>1. Known(Snapshot.counts) \in Counts /\ Known(baked.counts) \in Counts
  BY CopiesTyped DEF Copies
<1>2. Known(Snapshot.counts)[k] \in Nat /\ Known(baked.counts)[k] \in Nat
  BY <1>1 DEF Counts
<1> QED BY <1>2 DEF Highest, Larger

\* No copy of a counter that this process has not counted is above the two on disk.
LEMMA NoneHigher ==
  ASSUME IInv, Ages, NEW k \in Counters, authority[k] = 0, NEW c \in Copies
  PROVE  c[k] <= Highest(k)
<1>1. Highest(k) \in Nat
  BY HighestTyped
<1>2. CASE c \in {Known(Snapshot.counts), Known(baked.counts)}
  BY <1>2, HighestTyped
<1>3. ASSUME NEW d, d \in {draft.counts, counts}, c = Known(d) PROVE c[k] <= Highest(k)
  <2>1. CASE d = Null
    BY <1>1, <1>3, <2>1 DEF Known, Zero
  <2>2. CASE d # Null
    BY <1>1, <1>3, <2>2 DEF Known, Ages, Uncounted
  <2> QED BY <2>1, <2>2
<1> QED BY <1>2, <1>3 DEF Copies

\* Copies above which all others are, or none at all, leave the copies ordered.
LEMMA ChainKept ==
  ASSUME IInv, Chain, NEW x \in Counts,
         x \in Copies \/ \A c \in Copies : AtMost(c, x),
         Copies' \subseteq Copies \cup {Zero, x}
  PROVE  Chain'
<1>1. Copies \subseteq Counts
  BY CopiesTyped
<1> QED BY <1>1, ZeroLeast DEF Chain, Comparable

LEMMA CountedKept ==
  ASSUME IInv, Counted, authority' = authority, told' = told, NEW x \in Counts,
         \A k \in Counters : authority[k] # 0 => x[k] <= authority[k],
         Copies' \subseteq Copies \cup {Zero, x}
  PROVE  Counted'
<1> SUFFICES ASSUME NEW k \in Counters, authority[k] # 0, NEW c \in Copies'
             PROVE  c[k] <= authority[k]
  BY DEF Counted
<1>1. authority[k] \in Nat /\ Zero[k] = 0
  BY DEF IInv, Typed, Counts, Zero
<1> QED BY <1>1 DEF Counted

LEMMA UncountedKept ==
  ASSUME IInv, Uncounted, authority' = authority, told' = told,
         \A k \in Counters : authority[k] = 0 =>
           /\ Known(Snapshot.counts)'[k] \in {Known(Snapshot.counts)[k], Highest(k)}
           /\ Known(baked.counts)'[k] \in {Known(baked.counts)[k], Highest(k)}
           /\ counts' # Null => counts'[k] = Highest(k)
           /\ draft'.counts # Null => draft'.counts[k] = Highest(k)
  PROVE  Uncounted'
<1> SUFFICES ASSUME NEW k \in Counters, authority[k] = 0
             PROVE  Highest(k)' = Highest(k)
  BY DEF Uncounted
<1> QED BY HighestTyped DEF Highest, Larger

---------------------------------------------------------------------------
\* With a catalogue in memory, what a call counts from is above every copy.
LEMMA RestoredHighest ==
  ASSUME IInv, Ages, loaded
  PROVE  /\ Restored \in Counts
         /\ \A c \in Copies : AtMost(c, Restored)
         /\ AtMost(told, Restored)
         /\ \A k \in Counters : Restored[k] = IF authority[k] # 0 THEN authority[k]
                                                                  ELSE Highest(k)
<1>1. Restored \in Counts
  BY RestoredTyped
<1>2. Snapshot.counts \in {Snapshot.counts, cached.counts} /\ cached.counts = Snapshot.counts
  BY DEF Snapshot, Ages, CachedIsSnap
<1>3. ASSUME NEW k \in Counters
      PROVE  Restored[k] = IF authority[k] # 0 THEN authority[k] ELSE Highest(k)
  <2>1. authority[k] \in Nat /\ Highest(k) \in Nat
    BY HighestTyped DEF IInv, Typed, Counts
  <2>2. Restored[k] = Larger(IF counts # Null THEN counts[k]
                             ELSE IF authority[k] # 0 THEN authority[k]
                             ELSE Known(Snapshot.counts)[k], authority[k])
    BY DEF Restored
  <2>3. CASE counts # Null
    <3>1. counts \in Copies /\ counts[k] \in Nat
      BY <2>3 DEF Copies, Known, IInv, Typed, Maybe, Counts
    <3>2. authority[k] # 0 => counts[k] <= authority[k]
      BY <3>1 DEF Ages, Counted
    <3>3. authority[k] = 0 => counts[k] = Highest(k)
      BY <2>3 DEF Ages, Uncounted
    <3> QED BY <2>1, <2>2, <2>3, <3>1, <3>2, <3>3 DEF Larger
  <2>4. CASE counts = Null
    <3>1. Known(Snapshot.counts)[k] = Known(Snapshot.counts)[k]
      BY <1>2
    <3>2. Known(Snapshot.counts)[k] = 0 /\ Known(baked.counts)[k] = 0
      BY <2>4, ZeroLeast DEF Ages, Unset, Zero
    <3>3. Highest(k) = 0
      BY <3>2 DEF Highest, Larger
    <3> QED BY <2>1, <2>2, <2>4, <3>1, <3>2, <3>3 DEF Larger
  <2> QED BY <2>3, <2>4
<1>4. ASSUME NEW c \in Copies, NEW k \in Counters PROVE c[k] <= Restored[k]
  BY <1>3, NoneHigher DEF Ages, Counted
<1>5. ASSUME NEW k \in Counters PROVE told[k] <= Restored[k]
  BY <1>3 DEF Ages, Counted, Uncounted
<1> QED BY <1>1, <1>3, <1>4, <1>5 DEF AtMost

LEMMA AgesInit == Init => Ages
<1> SUFFICES ASSUME Init PROVE Ages
  OBVIOUS
<1>1. baked.counts \in {Null, Zero} /\ NoDraft.counts = Null /\ Absent.counts = Null
  BY DEF Init, NoDraft, Absent
<1>2. Known(Zero) = Zero
  BY ZeroLeast, KnownSet
<1>3. Copies = {Zero}
  BY <1>1, <1>2, ZeroLeast DEF Init, Copies, Snapshot
<1>4. Chain
  BY <1>3, ZeroLeast DEF Chain, Comparable
<1>5. Counted /\ Uncounted
  <2>1. Known(Snapshot.counts) = Zero /\ Known(baked.counts) = Zero
    BY <1>3 DEF Copies
  <2>2. \A k \in Counters : Zero[k] = 0 /\ Highest(k) = 0
    BY <2>1 DEF Highest, Larger, Zero
  <2> QED BY <1>1, <2>2 DEF Init, Counted, Uncounted
<1> QED BY <1>1, <1>4, <1>5, ZeroLeast
        DEF Init, Ages, CachedIsSnap, Unset, InCall, DraftSet, Ahead, Idle, Snapshot

---------------------------------------------------------------------------
\* A step that leaves the file, and reads it at most, sees the same snapshot.
LEMMA SeenKept ==
  ASSUME snap' = snap, cached' \in {cached, Snapshot}
  PROVE  Snapshot' = Snapshot
  BY DEF Snapshot

\* A flush touches the snapshot only, and writes what is in memory; whatever a
\* flush that fails leaves of the file, the process sees the counts of before.
LEMMA FlushWrites ==
  ASSUME NEW c \in Maybe, NEW h, NEW meta, loaded, Flush(c, h, meta),
         meta.counts = Snapshot.counts
  PROVE  \/ Snapshot'.counts = Known(c) /\ cached'.counts = Known(c)
         \/ Snapshot'.counts = Snapshot.counts /\ cached'.counts = Snapshot.counts
<1>1. Known(c) # Null /\ Absent.counts = Null /\ Record(c, h, meta).counts = Known(c)
  BY KnownTyped, NullAssumption DEF Absent, Record
<1>2. CASE snap' = Record(c, h, meta) /\ cached' = Record(c, h, meta)
  BY <1>1, <1>2 DEF Snapshot
<1>3. CASE snap' \in {snap, Absent} /\ cached' = meta
  BY <1>3 DEF Snapshot
<1> QED BY <1>2, <1>3 DEF Flush, WriteFails

\* Between calls: a flush of what is in memory.
LEMMA FlushAges ==
  ASSUME IInv, IInv', Ages, NEW meta \in Records,
         meta.counts = Snapshot.counts \/ meta = cached,
         Flush(counts, hist, meta), call' = Idle, told' \in {told, counts},
         told' # told => call.at = "meta",
         UNCHANGED <<baked, draft, undone, loaded, counts, authority>>
  PROVE  Ages' /\ AnswersGrow /\ SnapshotGrows
<1> DEFINE S == Known(Snapshot.counts)
<1>1. CASE ~loaded
  <2>1. Snapshot'.counts = Snapshot.counts /\ cached'.counts \in {Null, Snapshot.counts}
    <3>1. snap' = snap /\ cached' = meta
      BY <1>1 DEF Flush
    <3> QED BY <3>1 DEF Snapshot, Ages, CachedIsSnap
  <2>2. told' = told
    BY <1>1 DEF Ages, InCall
  <2>3. Copies' = Copies /\ \A k \in Counters : Highest(k)' = Highest(k)
    BY <2>1 DEF Copies, Highest
  <2>4. Chain' /\ Counted' /\ Uncounted'
    BY <2>2, <2>3 DEF Ages, Chain, Counted, Uncounted
  <2>5. AnswersGrow /\ SnapshotGrows
    BY <2>1, <2>2, ZeroLeast, CopiesTyped DEF AnswersGrow, SnapshotGrows, Ages, Copies
  <2> QED BY <1>1, <2>1, <2>2, <2>4, <2>5
          DEF Ages, CachedIsSnap, Unset, InCall, DraftSet, Ahead, Idle
<1>2. CASE loaded
  <2>1. \/ Snapshot'.counts = Known(counts) /\ cached'.counts = Known(counts)
        \/ Snapshot'.counts = Snapshot.counts /\ cached'.counts = Snapshot.counts
    BY <1>2, FlushWrites DEF Ages, CachedIsSnap, IInv, Typed
  <2>2. Known(counts) \in Counts /\ Known(Known(counts)) = Known(counts)
    BY KnownTyped, KnownSet DEF IInv, Typed
  <2>3. Known(Snapshot.counts)' \in {S, Known(counts)}
    BY <2>1, <2>2
  <2>4. Copies' \subseteq Copies \cup {Zero, Zero}
    BY <2>3 DEF Copies
  <2>5. Chain'
    BY <2>4, ChainKept, ZeroLeast, CopiesTyped DEF Ages, Chain, Copies
  <2>6. told' \in Counts /\ AtMost(told, told')
    BY ZeroLeast DEF Ages, InCall, IInv, Typed, Maybe
  <2>7. Counted'
    <3> SUFFICES ASSUME NEW k \in Counters, authority[k] # 0
                 PROVE  (\A c \in Copies' : c[k] <= authority[k]) /\ told'[k] <= authority[k]
      BY DEF Counted
    <3>1. Zero[k] <= authority[k]
      BY DEF Zero, IInv, Typed, Counts
    <3>2. \A c \in Copies : c[k] <= authority[k]
      BY DEF Ages, Counted
    <3>3. told' = told \/ told' \in Copies
      BY DEF Ages, InCall, Copies, Known
    <3> QED BY <2>4, <3>1, <3>2, <3>3 DEF Ages, Counted
  <2>8. Uncounted'
    <3> SUFFICES ASSUME NEW k \in Counters, authority[k] = 0
                 PROVE  /\ counts # Null => counts[k] = Highest(k)'
                        /\ draft.counts # Null => draft.counts[k] = Highest(k)'
                        /\ told'[k] <= Highest(k)'
      BY DEF Uncounted
    <3>1. Known(counts)[k] \in {S[k], Highest(k)}
      BY <1>2 DEF Ages, Uncounted, Unset, Known
    <3>2. Highest(k)' = Highest(k)
      BY <2>3, <3>1, HighestTyped DEF Highest, Larger
    <3>3. told'[k] <= Highest(k)
      BY HighestTyped DEF Ages, Uncounted, InCall
    <3> QED BY <3>2, <3>3 DEF Ages, Uncounted
  <2>9. CachedIsSnap'
    BY <1>2, <2>1 DEF CachedIsSnap
  <2>10. Unset'
    BY <1>2, <2>3, ZeroLeast DEF Ages, Unset
  <2>11. Ahead'
    BY <2>2, <2>3, ZeroLeast DEF Ages, Ahead
  <2>12. AnswersGrow /\ SnapshotGrows
    BY <1>2, <2>3, <2>6, ZeroLeast, CopiesTyped
       DEF AnswersGrow, SnapshotGrows, Ages, Ahead, Copies
  <2> QED BY <2>5, <2>6, <2>7, <2>8, <2>9, <2>10, <2>11, <2>12 DEF Ages, InCall, DraftSet, Idle
<1> QED BY <1>1, <1>2

\* A use is counted above every copy, and in the authority map.
LEMMA TrackAges ==
  ASSUME IInv, IInv', Ages, NEW k \in Counters, NEW s \in Saids, NEW bare \in BOOLEAN,
         Track(k, s, bare)
  PROVE  Ages' /\ AnswersGrow /\ SnapshotGrows
<1> DEFINE c == [Restored EXCEPT ![k] = @ + 1]
<1>1. /\ loaded /\ counts' = c /\ authority' = [authority EXCEPT ![k] = c[k]]
      /\ UNCHANGED <<loaded, baked, draft, undone>>
  BY DEF Track, write
<1>2. \/ Snapshot'.counts = Known(c) /\ cached'.counts = Known(c)
      \/ Snapshot'.counts = Snapshot.counts /\ cached'.counts = Snapshot.counts
  <2>1. c \in Maybe
    <3>1. c \in Counts
      BY RestoredTyped DEF Counts
    <3> QED BY <3>1, KnownSet
  <2>2. Flush(c, Heard(s), Snapshot) \/ (cached' = Snapshot /\ snap' = snap)
    BY DEF Track
  <2> HIDE DEF c
  <2> QED BY <1>1, <2>1, <2>2, FlushWrites, SeenKept
<1>3. (told' = c /\ call' = Idle) \/ told' = told
  BY DEF Track, Answer
<1>4. /\ Restored \in Counts /\ AtMost(told, Restored)
      /\ \A d \in Copies : AtMost(d, Restored)
      /\ \A j \in Counters : Restored[j] = IF authority[j] # 0 THEN authority[j]
                                                                ELSE Highest(j)
  BY <1>1, RestoredHighest
<1>5. c \in Counts /\ AtMost(Restored, c) /\ c[k] # 0 /\ \A j \in Counters \ {k} : c[j] = Restored[j]
  BY <1>4 DEF Counts, AtMost
<1>6. told \in Counts /\ Copies \subseteq Counts
  BY CopiesTyped DEF Ages
<1> HIDE DEF c
<1>7. Known(c) = c /\ c # Null
  BY <1>5, KnownSet, NullAssumption
<1>8. AtMost(told, c) /\ \A d \in Copies : AtMost(d, c)
  BY <1>4, <1>5, <1>6, AtMostTransitive
<1>9. Known(Snapshot.counts)' \in {Known(Snapshot.counts), c}
  BY <1>2, <1>7
<1>10. Copies' \subseteq Copies \cup {Zero, c}
  BY <1>1, <1>7, <1>9 DEF Copies
<1>11. Chain'
  BY <1>5, <1>8, <1>10, ChainKept DEF Ages
<1>12. told' \in Counts /\ AtMost(told', c)
  BY <1>3, <1>5, <1>6, <1>8, ZeroLeast
<1>13. \A j \in Counters : authority'[j] = IF j = k THEN c[k] ELSE authority[j]
  BY <1>1 DEF IInv, Typed, Counts
<1>14. ASSUME NEW j \in Counters, authority'[j] # 0
       PROVE  (\A d \in Copies' : d[j] <= authority'[j]) /\ told'[j] <= authority'[j]
  <2>1. c[j] = authority'[j]
    BY <1>4, <1>5, <1>13, <1>14
  <2>2. \A d \in Copies' : AtMost(d, c)
    BY <1>5, <1>8, <1>10, ZeroLeast
  <2> QED BY <1>12, <2>1, <2>2 DEF AtMost
<1>15. ASSUME NEW j \in Counters, authority'[j] = 0
       PROVE  /\ counts'[j] = Highest(j)'
              /\ draft'.counts # Null => draft'.counts[j] = Highest(j)'
              /\ told'[j] <= Highest(j)'
  <2>1. j # k /\ authority[j] = 0
    BY <1>5, <1>13, <1>15
  <2>2. c[j] = Highest(j)
    BY <1>4, <1>5, <2>1
  <2>3. Highest(j)' = Highest(j)
    BY <1>1, <1>9, <2>2, HighestTyped DEF Highest, Larger
  <2>4. told'[j] <= Highest(j)
    BY <1>12, <2>2 DEF AtMost
  <2> QED BY <1>1, <2>1, <2>2, <2>3, <2>4 DEF Ages, Uncounted
<1>16. Counted' /\ Uncounted'
  BY <1>14, <1>15 DEF Counted, Uncounted
<1>17. CachedIsSnap'
  BY <1>1, <1>2 DEF Ages, CachedIsSnap, Snapshot
<1>18. Unset' /\ InCall'
  BY <1>1, <1>7, <1>12 DEF Unset, InCall
<1>19. Ahead'
  BY <1>1, <1>5, <1>7, <1>8, <1>9, ZeroLeast DEF Ahead, Copies
<1>20. AnswersGrow /\ SnapshotGrows
  <2>1. AtMost(told, told')
    BY <1>3, <1>6, <1>8, ZeroLeast
  <2>2. AtMost(Known(Snapshot.counts), Known(Snapshot'.counts))
    BY <1>6, <1>8, <1>9, ZeroLeast DEF Copies
  <2> QED BY <2>1, <2>2 DEF AnswersGrow, SnapshotGrows
<1> QED BY <1>1, <1>11, <1>12, <1>16, <1>17, <1>18, <1>19, <1>20 DEF Ages, DraftSet

\* A step that puts counters x into memory, above every copy, and changes no
\* other copy.
LEMMA RaiseAges ==
  ASSUME IInv, IInv', Ages, NEW x \in Counts, loaded, counts' = x,
         \A c \in Copies : AtMost(c, x), AtMost(told, x),
         \A k \in Counters : x[k] = IF authority[k] # 0 THEN authority[k] ELSE Highest(k),
         cached' \in {cached, Snapshot},
         UNCHANGED <<snap, baked, draft, undone, loaded, authority, told>>
  PROVE  Ages'
<1>1. Known(x) = x /\ x # Null /\ Snapshot' = Snapshot
  BY KnownSet, NullAssumption, SeenKept
<1>2. Copies' \subseteq Copies \cup {Zero, x}
  BY <1>1 DEF Copies
<1>3. Chain'
  BY <1>2, ChainKept DEF Ages
<1>4. \A k \in Counters : authority[k] # 0 => x[k] <= authority[k]
  BY DEF IInv, Typed, Counts
<1>5. Counted'
  BY <1>2, <1>4, CountedKept DEF Ages
<1>6. Uncounted'
  BY <1>1, UncountedKept DEF Ages, Uncounted
<1>7. CachedIsSnap'
  BY <1>1 DEF Ages, CachedIsSnap
<1>8. Unset' /\ InCall'
  BY <1>1 DEF Unset, InCall
<1>9. Ahead'
  BY <1>1 DEF Ahead, Copies
<1> QED BY <1>3, <1>5, <1>6, <1>7, <1>8, <1>9 DEF Ages, DraftSet

LEMMA SignalAges ==
  ASSUME IInv, IInv', Ages, NEW s \in Signals, Signal(s)
  PROVE  Ages'
<1>1. /\ loaded /\ counts' = Restored /\ cached' = Snapshot
      /\ UNCHANGED <<snap, baked, draft, undone, loaded, authority, told>>
  BY DEF Signal, write
<1> QED BY <1>1, RestoredHighest, RaiseAges

LEMMA RepairAges == ASSUME IInv, IInv', Ages, Repair PROVE Ages'
<1> DEFINE s == Known(cached.counts)
<1>1. /\ loaded /\ counts = Null
      /\ counts' = [k \in Counters |-> IF authority[k] # 0 THEN authority[k] ELSE s[k]]
      /\ UNCHANGED <<cached, snap, baked, draft, undone, loaded, authority, told>>
  BY DEF Repair, write
<1>2. s = Zero /\ Known(baked.counts) = Zero /\ Known(Snapshot.counts) = Zero
  BY <1>1, ZeroLeast DEF Ages, CachedIsSnap, Unset
<1> HIDE DEF s
<1>3. \A k \in Counters : Highest(k) = 0
  BY <1>2 DEF Highest, Larger, Zero
<1>4. \A k \in Counters : counts'[k] = IF authority[k] # 0 THEN authority[k] ELSE Highest(k)
  BY <1>1, <1>2, <1>3 DEF Zero
<1>5. counts' \in Counts
  BY <1>1, <1>2 DEF IInv, Typed, Counts, Zero
<1>6. ASSUME NEW c \in Copies, NEW k \in Counters PROVE c[k] <= counts'[k]
  BY <1>4, NoneHigher DEF Ages, Counted
<1>7. ASSUME NEW k \in Counters PROVE told[k] <= counts'[k]
  BY <1>4 DEF Ages, Counted, Uncounted
<1> QED BY <1>1, <1>4, <1>5, <1>6, <1>7, RaiseAges DEF AtMost

---------------------------------------------------------------------------
\* The snapshot a process sees has the counters of the one on disk.
LEMMA SnapshotIsSnap == IInv /\ Ages => Snapshot.counts = Snapshot.counts
  BY DEF Snapshot, Ages, CachedIsSnap, Absent

\* Of two ordered copies the overlay takes the larger.
LEMMA OverlaidHighest ==
  ASSUME IInv, Ages
  PROVE  /\ Overlaid \in {Snapshot.counts, baked.counts}
         /\ Overlaid = Null => Snapshot.counts = Null /\ baked.counts = Null
         /\ Overlaid # Null => \A k \in Counters : Overlaid[k] = Highest(k)
         /\ AtMost(Known(Snapshot.counts), Known(Overlaid))
<1> DEFINE S == Known(Snapshot.counts)
           B == Known(baked.counts)
<1>1. Overlaid = IF Snapshot.counts = Null THEN baked.counts
                 ELSE IF baked.counts = Null \/ Total(Snapshot.counts) > Total(baked.counts)
                 THEN Snapshot.counts ELSE baked.counts
  BY SnapshotIsSnap DEF Overlaid
<1>2. S \in Counts /\ B \in Counts /\ Comparable(S, B)
  BY CopiesTyped DEF Copies, Ages, Chain
<1>3. \A k \in Counters : Highest(k) = Larger(S[k], B[k])
  BY DEF Highest
<1>4. /\ S = (IF Snapshot.counts = Null THEN Zero ELSE Snapshot.counts)
      /\ B = (IF baked.counts = Null THEN Zero ELSE baked.counts)
  BY DEF Known
<1> HIDE DEF S, B
<1>5. ASSUME Snapshot.counts # Null, baked.counts # Null, NEW k \in Counters
      PROVE  Overlaid[k] = Highest(k)
  <2>1. Overlaid = IF Total(S) > Total(B) THEN S ELSE B
    BY <1>1, <1>4, <1>5
  <2> QED BY <1>2, <1>3, <2>1 DEF Comparable, AtMost, Total, Larger, Counts, Counters
<1>6. ASSUME Snapshot.counts = Null \/ baked.counts = Null, Overlaid # Null, NEW k \in Counters
      PROVE  Overlaid[k] = Highest(k)
  BY <1>1, <1>2, <1>3, <1>4, <1>6 DEF Larger, Zero, Counts
<1>7. Known(Overlaid) \in Counts /\ (Overlaid # Null => Known(Overlaid) = Overlaid)
  BY OverlaidTyped, KnownTyped DEF Known
<1>8. AtMost(S, Known(Overlaid))
  <2>1. CASE Overlaid = Null
    BY <1>1, <1>4, <2>1, ZeroLeast
  <2>2. CASE Overlaid # Null
    BY <1>2, <1>3, <1>5, <1>6, <1>7, <2>2 DEF AtMost, Larger, Counts
  <2> QED BY <2>1, <2>2
<1> QED BY <1>1, <1>5, <1>6, <1>8 DEF S

LEMMA MetaAges == ASSUME IInv, IInv', Ages, Meta PROVE Ages' /\ AnswersGrow /\ SnapshotGrows
<1> DEFINE s == call.sig
           meta == IF s = None THEN Snapshot ELSE [Snapshot EXCEPT !.sig = s]
<1>1. /\ Flush(counts, hist, meta) /\ call' = Idle /\ told' = counts /\ call.at = "meta"
      /\ UNCHANGED <<baked, draft, undone, loaded, counts, authority>>
  BY DEF Meta, Answer, write
<1>2. meta \in Records /\ meta.counts = Snapshot.counts
  BY SnapshotTyped, SnapshotIsSnap DEF Records, IInv, Typed, Saids
<1> HIDE DEF meta
<1> QED BY <1>1, <1>2, FlushAges

LEMMA TimerAges ==
  ASSUME IInv, IInv', Ages, TimerFires
  PROVE  Ages' /\ AnswersGrow /\ SnapshotGrows
<1>1. /\ Flush(counts, hist, cached) /\ call' = Idle /\ told' = told
      /\ UNCHANGED <<baked, draft, undone, loaded, counts, authority>>
  BY DEF TimerFires, write
<1>2. /\ cached \in Records /\ cached.counts \in {Null, Snapshot.counts}
      /\ loaded => cached.counts = Snapshot.counts
  BY DEF IInv, Typed, Ages, CachedIsSnap
<1> QED BY <1>1, <1>2, FlushAges

\* Steps that put counters into memory that are unset or stand on disk.
LEMMA LoadAges ==
  ASSUME IInv, IInv', Ages, Invalidate \/ Load
  PROVE  Ages'
<1>1. /\ UNCHANGED <<snap, baked, draft, undone, authority, told, call>> /\ call = Idle
      /\ counts' \in {Null, Overlaid} /\ cached' \in {cached, Snapshot}
      /\ Snapshot' = Snapshot
  BY SeenKept DEF Invalidate, Load, write
<1>2. Copies' \subseteq Copies \cup {Zero, Zero}
  BY <1>1, OverlaidHighest, ZeroLeast DEF Copies
<1>3. Chain'
  BY <1>1, <1>2, ChainKept, ZeroLeast, CopiesTyped DEF Ages, Chain, Copies
<1>4. Counted'
  BY <1>1, <1>2, CountedKept, ZeroLeast DEF Ages, Zero, IInv, Typed, Counts
<1>5. Uncounted'
  BY <1>1, OverlaidHighest, UncountedKept DEF Ages, Uncounted
<1>6. CachedIsSnap' /\ Unset' /\ Ahead'
  <2>1. CASE Invalidate
    BY <1>1, <2>1 DEF Invalidate, Ages, CachedIsSnap, Unset, Ahead
  <2>2. CASE Load
    BY <1>1, <2>2, OverlaidHighest, SnapshotIsSnap, ZeroLeast
       DEF Load, CachedIsSnap, Unset, Ahead
  <2> QED BY <2>1, <2>2
<1> QED BY <1>1, <1>3, <1>4, <1>5, <1>6 DEF Ages, InCall, DraftSet, Idle

LEMMA WriteAges ==
  ASSUME IInv, IInv', Ages, StartWrite \/ EndWrite
  PROVE  Ages'
<1>1. UNCHANGED <<snap, authority, cached, loaded, call, told>> /\ call = Idle
  BY DEF StartWrite, EndWrite
<1> Snapshot' = Snapshot
  BY <1>1, SeenKept
<1>2. CASE StartWrite
  <2>1. draft'.counts = counts /\ counts # Null /\ UNCHANGED <<baked, counts, undone>>
    BY <1>2 DEF StartWrite
  <2>2. Copies' \subseteq Copies \cup {Zero, Zero}
    BY <1>1, <2>1 DEF Copies
  <2>3. Chain'
    BY <2>2, ChainKept, ZeroLeast, CopiesTyped DEF Ages, Chain, Copies
  <2>4. Counted'
    BY <1>1, <2>2, CountedKept, ZeroLeast DEF Ages, Zero, IInv, Typed, Counts
  <2>5. Uncounted'
    BY <1>1, <2>1, UncountedKept DEF Ages, Uncounted
  <2> QED BY <1>1, <2>1, <2>3, <2>4, <2>5
          DEF Ages, CachedIsSnap, Unset, InCall, DraftSet, Ahead, Idle
<1>3. CASE EndWrite
  <2>1. /\ draft # NoDraft /\ baked' = draft /\ draft' = NoDraft
        /\ counts' = IF loaded THEN draft.counts ELSE counts
        /\ undone' = (undone \/ ~AtMost(Known(counts), draft.counts))
    BY <1>3 DEF EndWrite
  <2>2. draft.counts # Null /\ draft.counts \in Counts /\ Known(draft.counts) = draft.counts
    BY <2>1 DEF Ages, DraftSet, IInv, Typed, Entries, Maybe, Known
  <2>3. draft'.counts = Null
    BY <2>1 DEF NoDraft
  <2>4. Copies' \subseteq Copies \cup {Zero, Zero}
    BY <1>1, <2>1, <2>3, ZeroLeast DEF Copies
  <2>5. Chain'
    BY <2>4, ChainKept, ZeroLeast, CopiesTyped DEF Ages, Chain, Copies
  <2>6. Counted'
    BY <1>1, <2>4, CountedKept, ZeroLeast DEF Ages, Zero, IInv, Typed, Counts
  <2>7. Uncounted'
    BY <1>1, <2>1, <2>2, <2>3, UncountedKept DEF Ages, Uncounted
  <2>8. Unset'
    BY <1>1, <2>1, <2>2 DEF Unset
  <2>9. Ahead'
    <3> SUFFICES ASSUME ~undone, loaded, AtMost(Known(counts), draft.counts)
                 PROVE  AtMost(Known(Snapshot.counts), draft.counts)
      BY <1>1, <2>1, <2>2 DEF Ahead
    <3> QED BY <2>2, AtMostTransitive, CopiesTyped DEF Ages, Ahead, Copies
  <2> QED BY <1>1, <2>1, <2>5, <2>6, <2>7, <2>8, <2>9
          DEF Ages, CachedIsSnap, InCall, DraftSet, Idle
<1> QED BY <1>2, <1>3

\* A process sees counters that are not on disk only after a flush that failed.
Remembered == faults \in Nat /\ (faults = 0 /\ snap = Absent => cached.counts = Null)

LEMMA RememberedStep ==
  ASSUME IInv, Ages, Remembered, [Next]_vars
  PROVE  Remembered'
<1>1. ASSUME NEW c, NEW h, NEW meta, meta.counts = Snapshot.counts \/ meta = cached,
             Flush(c, h, meta)
      PROVE  Remembered'
  <2>1. Record(c, h, meta) # Absent
    BY NullAssumption, ZeroLeast DEF Record, Absent, Known
  <2> QED BY <1>1, <2>1 DEF Flush, WriteFails, Remembered, Snapshot
<1>2. ASSUME snap' = snap, faults' = faults, cached' \in {cached, Snapshot} PROVE Remembered'
  BY <1>2 DEF Remembered, Snapshot
<1>3. ASSUME NEW k \in Counters, NEW s \in Saids, NEW bare \in BOOLEAN, Track(k, s, bare)
      PROVE  Remembered'
  BY <1>1, <1>2, <1>3 DEF Track
<1>4. ASSUME Meta PROVE Remembered'
  <2> DEFINE s == call.sig
             meta == IF s = None THEN Snapshot ELSE [Snapshot EXCEPT !.sig = s]
  <2>1. Flush(counts, hist, meta)
    BY <1>4 DEF Meta
  <2>2. meta.counts = Snapshot.counts
    BY SnapshotTyped DEF Records
  <2> HIDE DEF meta
  <2> QED BY <1>1, <2>1, <2>2
<1>5. ASSUME TimerFires PROVE Remembered'
  BY <1>1, <1>5 DEF TimerFires
<1>6. ASSUME \/ \E s \in Signals : Signal(s)
             \/ Invalidate \/ Load \/ Repair \/ StartWrite \/ EndWrite
      PROVE  Remembered'
  BY <1>2, <1>6 DEF Signal, Invalidate, Load, Repair, StartWrite, EndWrite
<1>7. ASSUME Exit \/ Crash PROVE Remembered'
  <2>1. cached'.counts = Null
    BY <1>7 DEF Exit, Crash, Forget, Absent
  <2>2. faults' \in {faults, faults + 1}
    BY <1>7 DEF Exit, Crash, WriteFails
  <2> QED BY <2>1, <2>2 DEF Remembered
<1> QED BY <1>2, <1>3, <1>4, <1>5, <1>6, <1>7 DEF Next, vars

\* A new process starts from the two copies on disk.
LEMMA EndAges ==
  ASSUME IInv, IInv', Ages, Remembered, Exit \/ Crash
  PROVE  Ages' /\ AnswersGrow /\ SnapshotGrows
<1>1. Forget /\ UNCHANGED <<baked, undone>>
  BY DEF Exit, Crash
<1>2. Known(counts) \in Counts /\ Known(Known(counts)) = Known(counts)
  BY KnownTyped, KnownSet DEF IInv, Typed
<1>3. \/ Snapshot' = Snapshot
      \/ loaded /\ Snapshot'.counts = Known(counts)
      \/ Snapshot' = Absent /\ (snap # Absent => faults' = faults + 1)
  <2>1. cached' = Absent
    BY <1>1 DEF Forget
  <2>2. \/ snap' = snap
        \/ loaded /\ snap' = Record(counts, hist, cached)
        \/ snap' = Absent /\ faults' = faults + 1
    BY DEF Exit, Crash, WriteFails
  <2>3. Record(counts, hist, cached).counts = Known(counts) /\ Known(counts) # Absent.counts
    BY <1>2, NullAssumption DEF Record, Absent
  <2> QED BY <2>1, <2>2, <2>3 DEF Snapshot
<1>4. Known(Snapshot.counts)' \in {Known(Snapshot.counts), Known(counts), Zero}
  BY <1>2, <1>3, ZeroLeast DEF Absent
<1>5. draft'.counts = Null /\ cached'.counts = Null
  BY <1>1 DEF Forget, NoDraft, Absent
<1>6. Copies' \subseteq Copies \cup {Zero, Zero}
  BY <1>1, <1>4, <1>5, ZeroLeast DEF Copies, Forget
<1>7. Chain'
  BY <1>6, ChainKept, ZeroLeast, CopiesTyped DEF Ages, Chain, Copies
<1>8. Counted' /\ Uncounted'
  <2>1. \A k \in Counters : authority'[k] = 0 /\ told'[k] = 0
    BY <1>1 DEF Forget, Zero
  <2>2. \A k \in Counters : Highest(k)' \in Nat
    <3>1. Snapshot'.counts \in Maybe /\ baked'.counts \in Maybe
      BY DEF IInv, Typed, Records, Entries, Snapshot
    <3>2. Known(Snapshot'.counts) \in Counts /\ Known(baked'.counts) \in Counts
      BY <3>1, KnownTyped
    <3> QED BY <3>2 DEF Highest, Larger, Counts
  <2> QED BY <1>1, <1>5, <2>1, <2>2 DEF Counted, Uncounted, Forget
<1>9. CachedIsSnap' /\ Unset' /\ InCall' /\ DraftSet' /\ Ahead'
  BY <1>1, <1>5 DEF Forget, CachedIsSnap, Unset, InCall, DraftSet, Ahead, Idle
<1>10. AnswersGrow
  BY <1>1 DEF AnswersGrow, Forget
<1>11. SnapshotGrows
  <2> SUFFICES ASSUME ~undone, ~Lost
               PROVE  AtMost(Known(Snapshot.counts), Known(Snapshot'.counts))
    BY DEF SnapshotGrows
  <2> DEFINE S == Known(Snapshot.counts)
  <2>1. S \in Counts /\ AtMost(S, S) /\ (loaded => AtMost(S, Known(counts)))
    BY ZeroLeast, CopiesTyped DEF Ages, Ahead, Copies
  <2>2. CASE Snapshot' = Snapshot \/ (loaded /\ Snapshot'.counts = Known(counts))
    BY <1>2, <2>1, <2>2
  <2>3. CASE Snapshot' = Absent /\ (snap # Absent => faults' = faults + 1)
    <3>1. faults' \in {faults, faults + 1} /\ faults \in Nat /\ loaded' = FALSE
      BY <1>1 DEF Exit, Crash, WriteFails, Forget, Remembered
    <3>2. faults = 0 /\ snap = Absent
      BY <2>3, <3>1 DEF Lost
    <3>3. S = Zero
      BY <3>2, ZeroLeast DEF Remembered, Snapshot
    <3> QED BY <2>1, <2>3, <3>3, ZeroLeast DEF Absent
  <2> QED BY <1>3, <2>2, <2>3
<1> QED BY <1>1, <1>7, <1>8, <1>9, <1>10, <1>11, ZeroLeast DEF Ages, Forget

\* A step that changes neither the answers nor the file lowers neither.
LEMMA StillGrow ==
  ASSUME IInv, Ages, UNCHANGED <<told, snap>>, cached' \in {cached, Snapshot}
  PROVE  AnswersGrow /\ SnapshotGrows
  BY SeenKept, ZeroLeast, CopiesTyped DEF AnswersGrow, SnapshotGrows, Ages, Copies

LEMMA AgesStep ==
  IInv /\ Ages /\ Remembered /\ [Next]_vars => Ages' /\ AnswersGrow /\ SnapshotGrows
<1> SUFFICES ASSUME IInv, Ages, Remembered, [Next]_vars PROVE Ages' /\ AnswersGrow /\ SnapshotGrows
  OBVIOUS
<1> IInv'
  BY StepFits
<1>1. ASSUME NEW k \in Counters, NEW s \in Saids, NEW bare \in BOOLEAN, Track(k, s, bare)
      PROVE  Ages' /\ AnswersGrow /\ SnapshotGrows
  BY <1>1, TrackAges
<1>2. ASSUME NEW s \in Signals, Signal(s) PROVE Ages' /\ AnswersGrow /\ SnapshotGrows
  BY <1>2, SignalAges, StillGrow DEF Signal
<1>3. CASE Meta
  BY <1>3, MetaAges
<1>4. CASE TimerFires
  BY <1>4, TimerAges
<1>5. CASE Invalidate \/ Load
  BY <1>5, LoadAges, StillGrow DEF Invalidate, Load
<1>6. CASE Repair
  BY <1>6, RepairAges, StillGrow DEF Repair
<1>7. CASE StartWrite \/ EndWrite
  BY <1>7, WriteAges, StillGrow DEF StartWrite, EndWrite
<1>8. CASE Exit \/ Crash
  BY <1>8, EndAges
<1>9. CASE UNCHANGED vars
  <2>1. Ages'
    BY <1>9 DEF vars, Ages, Chain, Copies, Counted, Uncounted, Highest, CachedIsSnap,
                Unset, InCall, DraftSet, Ahead, Snapshot
  <2> QED BY <1>9, <2>1, StillGrow DEF vars
<1> QED
  BY <1>1, <1>2, <1>3, <1>4, <1>5, <1>6, <1>7, <1>8, <1>9 DEF Next

---------------------------------------------------------------------------
\* Typing: what Typed leaves out.
LEMMA FlushTyped ==
  ASSUME faults \in 0..MaxFaults, NEW c, NEW h, NEW meta, Flush(c, h, meta)
  PROVE  /\ dirty' = FALSE /\ timer' = FALSE
         /\ faults' \in 0..MaxFaults
<1>1. faults' = faults \/ (faults < MaxFaults /\ faults' = faults + 1)
  BY DEF Flush, WriteFails
<1>2. dirty' = FALSE /\ timer' = FALSE
  BY DEF Flush
<1> QED BY <1>1, <1>2, UsageTrackingAssumption DEF UsageTrackingAssumption

LEMMA TypeInit == Init => TypeOK
<1>1. Init => IInv
  BY InitFits
<1>2. Zero \in Counts
  BY DEF Zero, Counts
<1>3. 0 \in 0..MaxFaults
  BY UsageTrackingAssumption DEF UsageTrackingAssumption
<1> QED BY <1>1, <1>2, <1>3 DEF Init, TypeOK, IInv, Typed, Saids

LEMMA TypeStep == TypeOK /\ IInv /\ Ages /\ [Next]_vars => TypeOK'
<1> SUFFICES ASSUME TypeOK, IInv, Ages, [Next]_vars PROVE TypeOK'
  OBVIOUS
<1>1. Typed'
  BY StepFits DEF IInv
<1> DEFINE Rest ==
      /\ loaded \in BOOLEAN /\ dirty \in BOOLEAN /\ timer \in BOOLEAN
      /\ faults \in 0..MaxFaults /\ undone \in BOOLEAN
      /\ told \in Counts /\ lastSaid \in Saids
<1>2. ASSUME NEW k \in Counters, NEW s \in Saids, NEW bare \in BOOLEAN, Track(k, s, bare)
      PROVE  Rest'
  <2>1. [Restored EXCEPT ![k] = @ + 1] \in Counts
    BY RestoredTyped DEF Counts
  <2>2. told' \in {told, [Restored EXCEPT ![k] = @ + 1]}
    BY <1>2 DEF Track, Answer
  <2>3. UNCHANGED <<loaded, undone, lastSaid>>
    BY <1>2 DEF Track, write
  <2>4. dirty' \in BOOLEAN /\ timer' \in BOOLEAN /\ faults' \in 0..MaxFaults
    BY <1>2, FlushTyped DEF Track, Schedule, TypeOK
  <2> QED BY <2>1, <2>2, <2>3, <2>4 DEF TypeOK
<1>3. ASSUME NEW s \in Signals, Signal(s) PROVE Rest'
  BY <1>3 DEF Signal, write, TypeOK
<1>4. ASSUME Meta PROVE Rest'
  <2>1. counts \in Counts
    BY <1>4 DEF Meta, Ages, InCall, TypeOK, Maybe
  <2> QED BY <1>4, <2>1, FlushTyped DEF Meta, Answer, write, TypeOK
<1>5. ASSUME TimerFires PROVE Rest'
  BY <1>5, FlushTyped DEF TimerFires, write, TypeOK
<1>6. ASSUME Invalidate \/ Load \/ Repair PROVE Rest'
  BY <1>6 DEF Invalidate, Load, Repair, write, TypeOK
<1>7. ASSUME StartWrite \/ EndWrite PROVE Rest'
  BY <1>7 DEF StartWrite, EndWrite, TypeOK
<1>8. ASSUME Exit \/ Crash PROVE Rest'
  <2>1. Zero \in Counts
    BY DEF Zero, Counts
  <2>2. faults' \in 0..MaxFaults
    BY <1>8, UsageTrackingAssumption
       DEF Exit, Crash, WriteFails, TypeOK, UsageTrackingAssumption
  <2> QED BY <1>8, <2>1, <2>2 DEF Exit, Crash, Forget, TypeOK
<1>9. ASSUME UNCHANGED vars PROVE Rest'
  BY <1>9 DEF vars, TypeOK
<1>10. Rest'
  BY <1>2, <1>3, <1>4, <1>5, <1>6, <1>7, <1>8, <1>9 DEF Next
<1> QED BY <1>1, <1>10 DEF Typed, TypeOK

\* Every variable has its type.  That a call answers with counters that are
\* set takes the order of the copies.
THEOREM UsageTypeCorrect == Spec => []TypeOK
<1>1. Init => TypeOK /\ IInv /\ Ages /\ Remembered
  BY TypeInit, InitFits, AgesInit DEF Init, Remembered, Absent
<1>2. TypeOK /\ IInv /\ Ages /\ Remembered /\ [Next]_vars
        => (TypeOK /\ IInv /\ Ages /\ Remembered)'
  BY TypeStep, StepFits, AgesStep, RememberedStep
<1> QED BY <1>1, <1>2, PTL DEF Spec

\* What a process answers never goes back, whichever copies its reloads,
\* repairs and rewritten files bring into memory; and no flush, done, failed or
\* cut short, lowers the counters a reload takes from the snapshot, unless a
\* late write has put older ones back, or the process ends with a file cut
\* short: then all are gone, and never only some
\* (incrementUsage(), restoreUsageInvariant(), applyUsageSnapshotOverlay()).
THEOREM CountersAreMonotonic == Spec => CountersNeverFall
<1>1. Init => IInv /\ Ages /\ Remembered
  BY InitFits, AgesInit DEF Init, Remembered, Absent
<1>2. IInv /\ Ages /\ Remembered /\ [Next]_vars
        => (IInv /\ Ages /\ Remembered)' /\ [AnswersGrow /\ SnapshotGrows]_vars
  BY StepFits, AgesStep, RememberedStep
<1> QED BY <1>1, <1>2, PTL DEF Spec, CountersNeverFall

---------------------------------------------------------------------------
(***************************************************************************)
(* Unless a flush has failed, the last signal is in the record on disk and *)
(* in whatever record a flush will take it from.                           *)
(***************************************************************************)
SignalInv == faults = 0 =>
  /\ snap.sig = lastSaid
  /\ cached.sig = lastSaid \/ cached = Absent
  /\ loaded => cached.sig = lastSaid

LEMMA FlushKeepsSignal ==
  ASSUME faults \in Nat, faults' = 0, loaded, NEW c, NEW h, NEW meta, Flush(c, h, meta)
  PROVE  faults = 0 /\ snap'.sig = meta.sig /\ cached'.sig = meta.sig
<1>1. \/ snap' = Record(c, h, meta) /\ cached' = Record(c, h, meta) /\ faults' = faults
      \/ faults' = faults + 1
  BY DEF Flush, WriteFails
<1>2. Record(c, h, meta).sig = meta.sig
  BY DEF Record
<1> QED BY <1>1, <1>2

LEMMA SignalStep ==
  ASSUME TypeOK, Ages, SignalInv, [Next]_vars
  PROVE  SignalInv'
<1> SUFFICES ASSUME faults' = 0
             PROVE  /\ snap'.sig = lastSaid'
                    /\ cached'.sig = lastSaid' \/ cached' = Absent
                    /\ loaded' => cached'.sig = lastSaid'
  BY DEF SignalInv
<1> faults \in Nat
  BY DEF TypeOK
<1>1. faults = 0 => Snapshot.sig = lastSaid
  BY DEF Snapshot, SignalInv, Absent
<1>2. ASSUME NEW k \in Counters, NEW s \in Saids, NEW bare \in BOOLEAN, Track(k, s, bare)
      PROVE  SignalInv'
  <2>1. loaded /\ lastSaid' = lastSaid
    BY <1>2 DEF Track
  <2>2. \/ Flush([Restored EXCEPT ![k] = @ + 1], Heard(s), Snapshot)
        \/ cached' = Snapshot /\ snap' = snap /\ faults' = faults
    BY <1>2 DEF Track
  <2> QED BY <1>1, <2>1, <2>2, FlushKeepsSignal DEF SignalInv
<1>3. ASSUME NEW s \in Signals, Signal(s) PROVE SignalInv'
  BY <1>1, <1>3 DEF Signal, SignalInv
<1>4. ASSUME Meta PROVE SignalInv'
  <2> DEFINE s == call.sig
             meta == IF s = None THEN Snapshot ELSE [Snapshot EXCEPT !.sig = s]
  <2>1. /\ Flush(counts, hist, meta) /\ loaded
        /\ lastSaid' = IF s = None THEN lastSaid ELSE s
    BY <1>4 DEF Meta, Ages, InCall
  <2>2. Snapshot \in Records
    BY DEF Snapshot, TypeOK
  <2>3. s # None => meta.sig = s
    BY <2>2 DEF Records
  <2>4. s = None => meta.sig = Snapshot.sig
    OBVIOUS
  <2> HIDE DEF meta
  <2>5. faults = 0 /\ snap'.sig = meta.sig /\ cached'.sig = meta.sig
    BY <2>1, FlushKeepsSignal
  <2> QED BY <1>1, <2>1, <2>3, <2>4, <2>5 DEF SignalInv
<1>5. ASSUME TimerFires PROVE SignalInv'
  <2>1. Flush(counts, hist, cached) /\ lastSaid' = lastSaid /\ loaded' = loaded
    BY <1>5 DEF TimerFires
  <2>2. CASE loaded
    BY <2>1, <2>2, FlushKeepsSignal DEF SignalInv
  <2>3. CASE ~loaded
    BY <2>1, <2>3 DEF SignalInv, Flush
  <2> QED BY <2>2, <2>3
<1>6. ASSUME Invalidate \/ Load \/ Repair \/ StartWrite \/ EndWrite PROVE SignalInv'
  BY <1>1, <1>6 DEF Invalidate, Load, Repair, StartWrite, EndWrite, SignalInv
<1>7. ASSUME Exit \/ Crash PROVE SignalInv'
  <2>1. /\ cached' = Absent /\ loaded' = FALSE
        /\ lastSaid' = lastSaid /\ faults' \in {faults, faults + 1}
    BY <1>7 DEF Exit, Crash, WriteFails, Forget
  <2>2. faults' = faults => snap' = snap \/ (loaded /\ snap'.sig = cached.sig)
    BY <1>7 DEF Exit, Crash, WriteFails, Record
  <2> QED BY <2>1, <2>2 DEF SignalInv
<1>8. ASSUME UNCHANGED vars PROVE SignalInv'
  BY <1>8 DEF vars, SignalInv
<1> QED
  BY <1>2, <1>3, <1>4, <1>5, <1>6, <1>7, <1>8 DEF Next, SignalInv

\* Between calls the last signal that was given is on disk, through every
\* flush that rewrites the record from the entry, unless a flush has failed
\* (flushUsageSnapshot(), the last part of incrementUsage()).
THEOREM SignalsAreKept == Spec => []SignalKept
<1>1. Init => SignalInv
  BY DEF Init, SignalInv, Absent
<1>2. SignalInv => SignalKept
  BY DEF SignalInv, SignalKept
<1>3. Init => IInv /\ Ages /\ Remembered
  BY InitFits, AgesInit DEF Init, Remembered, Absent
<1>4. IInv /\ Ages /\ Remembered /\ [Next]_vars => (IInv /\ Ages /\ Remembered)'
  BY StepFits, AgesStep, RememberedStep
<1> QED BY <1>1, <1>2, <1>3, <1>4, SignalStep, UsageTypeCorrect, PTL DEF Spec
=============================================================================
