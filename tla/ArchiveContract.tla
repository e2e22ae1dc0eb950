--------------------------- MODULE ArchiveContract ---------------------------
(***************************************************************************)
(* What IInstructionStore promises of one instruction                      *)
(* (src/src/services/storage/types.ts): writes are whole, a move between   *)
(* the active and the archived set happens entirely or not at all, what    *)
(* must be refused is refused, and a call that throws has changed nothing. *)
(* A bulk call (a migration) is a series of writes and moves.              *)
(***************************************************************************)
CONSTANTS Dbs, Versions, NoRow

VARIABLES
  live,   \* the active entry
  kept,   \* the archived entry
  calls   \* of each process: [op, state]

contractVars == <<live, kept, calls>>

Restores  == {"restore", "restoreOver"}
Bulk      == {"migrate", "ingest", "export"}
StoreCalls == Restores \cup Bulk \cup
              {"write", "create", "remove", "archive", "purge", "updateArchived"}

ArchivedAs(v, e) == [ver |-> v, eligible |-> e]
NotArchived == ArchivedAs(NoRow, TRUE)

Init ==
  /\ live = NoRow /\ kept = NotArchived
  /\ calls = [p \in Dbs |-> [op |-> "none", state |-> "idle"]]

CallEnds(p, s) == calls' = [calls EXCEPT ![p] = [op |-> "none", state |-> s]]
Asked(p, O)   == calls[p].state = "pending" /\ calls[p].op \in O

Request(p) ==
  /\ calls[p].state \in {"idle", "done", "refused"}
  /\ calls'[p] \in [op : StoreCalls, state : {"pending"}]
  /\ calls' = [calls EXCEPT ![p] = calls'[p]]
  /\ UNCHANGED <<live, kept>>

Write == live' \in Versions /\ UNCHANGED kept

Remove == live' = NoRow /\ UNCHANGED kept

Archive ==
  /\ live # NoRow /\ live' = NoRow
  /\ \E e \in BOOLEAN : kept' = ArchivedAs(live, e)

Restore ==
  /\ kept.ver # NoRow /\ kept.eligible
  /\ live' = kept.ver /\ kept' = NotArchived

Purge == kept' = NotArchived /\ UNCHANGED live

UpdateArchived ==
  /\ kept.ver # NoRow
  /\ \E v \in Versions, e \in BOOLEAN : kept' = ArchivedAs(v, e)
  /\ UNCHANGED live

(* The one effect of a call, when or before it returns.                    *)
Effect(p) ==
  /\ \/ Asked(p, {"write"}) /\ Write
     \/ Asked(p, {"create"}) /\ live = NoRow /\ Write
     \/ Asked(p, {"remove"}) /\ Remove
     \/ Asked(p, {"archive"}) /\ Archive
     \/ Asked(p, {"restore"}) /\ live = NoRow /\ Restore
     \/ Asked(p, {"restoreOver"}) /\ Restore
     \/ Asked(p, {"purge"}) /\ Purge
     \/ Asked(p, {"updateArchived"}) /\ UpdateArchived
  /\ CallEnds(p, "done") \/ calls' = [calls EXCEPT ![p] = [op |-> calls[p].op, state |-> "effected"]]

BulkEffect(p) == Asked(p, Bulk) /\ (Write \/ Archive) /\ UNCHANGED calls

Return(p) ==
  /\ calls[p].state = "effected" \/ Asked(p, Bulk)
  /\ CallEnds(p, "done")
  /\ UNCHANGED <<live, kept>>

Refuse(p) ==
  /\ calls[p].state = "pending"
  /\ CallEnds(p, "refused")
  /\ UNCHANGED <<live, kept>>

Die(p) ==
  /\ calls[p].state \in {"pending", "effected"}
  /\ CallEnds(p, "idle")
  /\ UNCHANGED <<live, kept>>

Next == \E p \in Dbs : \/ Request(p) \/ Effect(p) \/ BulkEffect(p)
                       \/ Return(p) \/ Refuse(p) \/ Die(p)

ContractSpec == Init /\ [][Next]_contractVars
=============================================================================
