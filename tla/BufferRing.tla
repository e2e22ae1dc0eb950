----------------------------- MODULE BufferRing -----------------------------
(***************************************************************************)
(* The circular buffer behind the dashboard's metrics (utils/BufferRing.ts)*)
(* with its two ways to persist: a file of lines that grows by one line    *)
(* per entry, read back at the first access (the default), or a snapshot   *)
(* rewritten as a whole, read back by the constructor.                     *)
(*                                                                         *)
(* A ring is used in one of three ways: "auto" persists every entry,       *)
(* "manual" only when saveToDisk is called, "memory" never.  An entry is   *)
(* the number of the call that added it.                                   *)
(***************************************************************************)
EXTENDS Naturals, Sequences, Functions

CONSTANTS
  Capacity,     \* of a ring when it is constructed
  Uses,         \* subset of {"auto", "manual", "memory"}; those that persist
                \* drop their oldest entry
  Strategies,   \* subset of the four overflow strategies
  MaxEntries,   \* bound: entries added
  MaxRestarts,  \* bound: restarts of the process
  MaxResizes    \* bound: calls of resize and compact

ASSUME RingAssumption ==
  /\ Capacity \in Nat \ {0}
  /\ MaxEntries \in Nat
  /\ Strategies \subseteq {"drop-oldest", "drop-newest", "resize", "error"}

VARIABLES
  use, strategy, appendMode, preload,   \* options, for ever
  ring,        \* [slots, writeIndex, isFull, capacity]
  appendLoaded,\* whether the file of lines was read (or tried) in this life
  ringFile,    \* [kind, entries]: "none", "lines" or "snapshot"
  next,        \* the next entry
  restarts, resizes,
  baseline     \* history: what the ring held when it was last loaded or
               \* emptied, and every entry accepted since

ringOptions == <<use, strategy, appendMode, preload>>
ringVars == <<ringOptions, ring, appendLoaded, ringFile, next, restarts, resizes, baseline>>

LastN(s, n)  == SubSeq(s, IF Len(s) > n THEN Len(s) - n + 1 ELSE 1, Len(s))
FirstN(s, n) == SubSeq(s, 1, IF Len(s) > n THEN n ELSE Len(s))

(* Entries added one by one to an empty ring with room for them.           *)
Filled(cap, s) ==
  [slots |-> s, capacity |-> cap, isFull |-> Len(s) = cap,
   writeIndex |-> IF Len(s) = cap THEN 0 ELSE Len(s)]

Empty(cap) == Filled(cap, <<>>)

(* The entries of a ring, oldest first (what getAll returns).              *)
Held(r) ==
  IF r.isFull
  THEN SubSeq(r.slots, r.writeIndex + 1, Len(r.slots)) \o SubSeq(r.slots, 1, r.writeIndex)
  ELSE SubSeq(r.slots, 1, r.writeIndex)

Placed(s, i, e) == IF i < Len(s) THEN [s EXCEPT ![i + 1] = e] ELSE Append(s, e)

Snapshot(s) == [kind |-> "snapshot", entries |-> s]
Lines(s)    == [kind |-> "lines", entries |-> s]
NoFile      == [kind |-> "none", entries |-> <<>>]

(***************************************************************************)
(* What a call makes of <<ring, ringFile, baseline>>, as a record st.      *)
(* Persisted: entries s went through add() and the ring ends as st.ring.   *)
(***************************************************************************)
Here == [ring |-> ring, ringFile |-> ringFile, base |-> baseline]

(* Mutant: the file is overwritten, not appended to.                       *)
PersistedOver(st, s) ==
  IF use # "auto" \/ s = <<>> THEN st
  ELSE [st EXCEPT !.ringFile = IF appendMode = "yes" THEN Lines(s)
                                                 ELSE Snapshot(Held(st.ring))]

Persisted(st, s) ==
  IF use # "auto" \/ s = <<>> THEN st
  ELSE [st EXCEPT !.ringFile = IF appendMode = "yes" THEN Lines(@.entries \o s)
                                                 ELSE Snapshot(Held(st.ring))]

(* add() without the persistence; a full ring that may grow is doubled, in *)
(* which case isFull is not looked at again.                               *)
Resized(r, cap) == Filled(cap, LastN(Held(r), cap))

(* Mutant: a full ring goes on at its second slot.                         *)
AddedAtSecond(r, e) ==
  LET w == r.writeIndex + 1
  IN IF r.isFull THEN r
     ELSE [r EXCEPT !.slots = Placed(@, r.writeIndex, e),
                    !.isFull = w >= r.capacity,
                    !.writeIndex = IF w >= r.capacity THEN 1 ELSE w]

Added(r, e) ==
  LET w == r.writeIndex + 1
      g == Resized(r, 2 * r.capacity)
  IN CASE ~r.isFull ->
            [r EXCEPT !.slots = Placed(@, r.writeIndex, e),
                      !.isFull = w >= r.capacity,
                      !.writeIndex = IF w >= r.capacity THEN 0 ELSE w]
       [] r.isFull /\ strategy = "drop-oldest" ->
            [r EXCEPT !.slots = Placed(@, r.writeIndex, e),
                      !.writeIndex = (@ + 1) % r.capacity]
       [] r.isFull /\ strategy = "resize" ->
            [g EXCEPT !.slots = Placed(@, g.writeIndex, e), !.writeIndex = @ + 1]
       [] r.isFull /\ strategy \in {"drop-newest", "error"} -> r

(* The entries of a ring put back one by one.  A ring that has just grown   *)
(* may hold one more than its capacity, which makes it grow again.         *)
Refilled(cap, s) ==
  IF Len(s) <= cap THEN Filled(cap, s)
                   ELSE Added(Filled(cap, FirstN(s, cap)), s[Len(s)])

Accepts(r) == ~r.isFull \/ strategy \in {"drop-oldest", "resize"}

(* The first access reads the lines: they replace what the ring holds and  *)
(* go through add() again.  No line of a snapshot parses.                  *)
NeedsLoad == appendMode = "yes" /\ use # "memory" /\ appendLoaded = "no"

LoadFromAppend(st) ==
  LET s == IF st.ringFile.kind = "lines"
           THEN LastN(st.ringFile.entries, st.ring.capacity) ELSE <<>>
  IN IF st.ringFile.kind = "none" THEN st
     ELSE Persisted([st EXCEPT !.ring = Filled(st.ring.capacity, s), !.base = s], s)

LoadFromDisk(st) ==
  LET r == Filled(st.ring.capacity, st.ringFile.entries)
  IN IF st.ringFile.kind = "none" THEN st
     ELSE Persisted([st EXCEPT !.ring = r, !.base = Held(r)], st.ringFile.entries)

FirstRead(st) == IF NeedsLoad THEN LoadFromAppend(st) ELSE st

ReadOnce == appendLoaded' = IF NeedsLoad THEN "yes" ELSE appendLoaded

Becomes(st) == ring' = st.ring /\ ringFile' = st.ringFile /\ baseline' = st.base

Constructed(f) ==
  LET st == [ring |-> Filled(Capacity, <<>>), ringFile |-> f, base |-> <<>>]
  IN CASE use = "memory"                        -> st
       [] use # "memory" /\ appendMode = "no"   -> LoadFromDisk(st)
       [] use # "memory" /\ appendMode = "yes"  ->
            IF preload = "yes" THEN LoadFromAppend(st) ELSE st

RingInit ==
  /\ use \in Uses /\ strategy \in Strategies
  /\ use # "memory" => strategy = "drop-oldest"
  /\ appendMode \in {"yes", "no"} /\ preload \in {"yes", "no"}
  /\ ring = Filled(Capacity, <<>>) /\ baseline = <<>> /\ ringFile = NoFile
  /\ appendLoaded = preload
  /\ next = 1 /\ restarts = 0 /\ resizes = 0

(***************************************************************************)
(* Operations.                                                             *)
(***************************************************************************)
add ==
  /\ next <= MaxEntries
  /\ next' = next + 1
  /\ IF Accepts(ring)
     THEN Becomes(Persisted([Here EXCEPT !.ring = Added(ring, next),
                                         !.base = Append(@, next)], <<next>>))
     ELSE Becomes(Here)
  /\ UNCHANGED <<ringOptions, appendLoaded, restarts, resizes>>

getAll ==
  /\ Becomes(FirstRead(Here))
  /\ ReadOnce
  /\ UNCHANGED <<ringOptions, next, restarts, resizes>>

(* The file keeps what is cleared.                                         *)
clear ==
  /\ Becomes([Here EXCEPT !.ring = Filled(ring.capacity, <<>>), !.base = <<>>])
  /\ UNCHANGED <<ringOptions, appendLoaded, next, restarts, resizes>>

compact ==
  LET st == FirstRead(Here)
      s  == Held(st.ring)
  IN /\ resizes < MaxResizes
     /\ resizes' = resizes + 1
     /\ Becomes(Persisted([st EXCEPT !.ring = Refilled(st.ring.capacity, s), !.base = s], s))
     /\ ReadOnce
     /\ UNCHANGED <<ringOptions, next, restarts>>

saveToDisk ==
  LET st == FirstRead(Here)
  IN /\ use = "manual"
     /\ Becomes([st EXCEPT !.ringFile = Snapshot(Held(st.ring))])
     /\ ReadOnce
     /\ UNCHANGED <<ringOptions, next, restarts, resizes>>

(* resize(), and updateConfig() with another capacity.                     *)
resize(cap) ==
  /\ use = "memory" /\ resizes < MaxResizes
  /\ resizes' = resizes + 1
  /\ Becomes([Here EXCEPT !.ring = Resized(ring, cap), !.base = LastN(Held(ring), cap)])
  /\ UNCHANGED <<ringOptions, appendLoaded, next, restarts>>

restartRing ==
  /\ restarts < MaxRestarts
  /\ restarts' = restarts + 1
  /\ Becomes(Constructed(ringFile))
  /\ appendLoaded' = IF use = "memory" THEN appendLoaded ELSE preload
  /\ UNCHANGED <<ringOptions, next, resizes>>

(* The process dies while the constructor puts a snapshot back: each entry *)
(* that an "auto" ring takes rewrites the file with those taken so far.    *)
diesLoading ==
  /\ restarts < MaxRestarts
  /\ restarts' = restarts + 1
  /\ use = "auto" /\ appendMode = "no" /\ ringFile.entries # <<>>
  /\ \E n \in 1 .. Len(ringFile.entries) :
       Becomes(Constructed(Snapshot(FirstN(ringFile.entries, n))))
  /\ UNCHANGED <<ringOptions, appendLoaded, next, resizes>>

RingNext ==
  \/ add \/ getAll \/ clear \/ compact \/ saveToDisk
  \/ \E cap \in 1 .. Capacity + 1 : resize(cap)
  \/ restartRing \/ diesLoading

RingSpec == RingInit /\ [][RingNext]_ringVars

(***************************************************************************)
(* Properties.                                                             *)
(***************************************************************************)
RingTypeOK ==
  /\ use \in Uses /\ strategy \in Strategies
  /\ appendMode \in {"yes", "no"} /\ preload \in {"yes", "no"}
  /\ appendLoaded \in {"yes", "no"}
  /\ ring.slots \in Seq(1 .. MaxEntries) /\ ring.writeIndex \in 0 .. Len(ring.slots)
  /\ ring.isFull \in BOOLEAN /\ ring.capacity \in Nat \ {0}
  /\ ringFile.kind \in {"none", "lines", "snapshot"} /\ ringFile.entries \in Seq(1 .. MaxEntries)
  /\ next \in 1 .. MaxEntries + 1
  /\ baseline \in Seq(1 .. MaxEntries)

(* What a reader gets is the latest entries that fit, in the order they    *)
(* came, of all that were accepted since the ring was loaded or emptied;   *)
(* all of them if the ring may grow.                                       *)
RingIsLatest ==
  Held(ring) = IF strategy = "resize" THEN baseline
                                          ELSE LastN(baseline, ring.capacity)

(* Where every entry is appended to the file, none is lost, whatever the   *)
(* first read of the file throws away in memory, and the ring holds what   *)
(* the file ends with (not once each: a load appends what it loads again). *)
LinesKeepEverything ==
  use = "auto" /\ appendMode = "yes" =>
    /\ Range(ringFile.entries) = 1 .. next - 1
    /\ Held(ring) = LastN(ringFile.entries, Len(Held(ring)))
=============================================================================
