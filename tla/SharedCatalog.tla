--------------------------- MODULE SharedCatalog ---------------------------
(***************************************************************************)
(* What the processes sharing an instructions directory promise a client:  *)
(* for every id, the content a process shows once existed and never goes   *)
(* back to an older one while the process lives.  Nothing is said about    *)
(* how far behind a process may be.                                        *)
(***************************************************************************)
EXTENDS Naturals

CONSTANTS Procs, Ids

VARIABLES newest,  \* newest[id]: generation of the latest mutation of id
          shown,   \* shown[p][id]: generation that process p shows
          up       \* the processes that live

Init ==
  /\ newest = [i \in Ids |-> 0]
  /\ shown = [p \in Procs |-> [i \in Ids |-> 0]]
  /\ up = Procs

\* Somebody mutates id; a process that does so may show its own mutation.
Mutate(id) ==
  /\ newest' = [newest EXCEPT ![id] = @ + 1]
  /\ \/ UNCHANGED shown
     \/ \E p \in up : shown' = [shown EXCEPT ![p][id] = newest[id] + 1]
  /\ UNCHANGED up

\* A process catches up, on some ids and by any amount.
Advance(p) ==
  /\ \A q \in Procs \ {p} : shown'[q] = shown[q]
  /\ \A i \in Ids : shown'[p][i] \in shown[p][i]..newest[i]
  /\ UNCHANGED <<newest, up>>

\* A process dies, and with it what it shows.
Die(p) ==
  /\ p \in up /\ up' = up \ {p}
  /\ shown' = [shown EXCEPT ![p] = [i \in Ids |-> 0]]
  /\ UNCHANGED newest

Start(p) == up' = up \cup {p} /\ UNCHANGED <<newest, shown>>

Next ==
  \/ \E id \in Ids : Mutate(id)
  \/ \E p \in Procs : Advance(p) \/ Die(p) \/ Start(p)

Spec == Init /\ [][Next]_<<newest, shown, up>>
=============================================================================
