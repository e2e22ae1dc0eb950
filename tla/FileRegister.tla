---------------------------- MODULE FileRegister ----------------------------
(***************************************************************************)
(* What services/atomicFs.ts promises of a file that several processes     *)
(* write: a call that succeeds has replaced, or created, the whole file at *)
(* one moment between its begin and its return; a call that fails has done *)
(* nothing; a call whose process dies has done all or nothing.             *)
(***************************************************************************)
CONSTANTS Writers, Payloads, NoEntry

VARIABLES
  entry,    \* the content of the file, NoEntry if there is none
  calls     \* of each writer: [state, kind, data]

regFileVars == <<entry, calls>>

Call(state, kind, data) == [state |-> state, kind |-> kind, data |-> data]
Resting == {"idle", "ok", "failed"}

Init ==
  /\ entry \in Payloads \cup {NoEntry}
  /\ calls = [p \in Writers |-> Call("idle", "write", NoEntry)]

Moves(p, state) == calls' = [calls EXCEPT ![p].state = state]

Request(p) ==
  /\ calls[p].state \in Resting
  /\ \E k \in {"write", "create"}, d \in Payloads :
       calls' = [calls EXCEPT ![p] = Call("pending", k, d)]
  /\ UNCHANGED entry

Succeed(p) ==
  /\ calls[p].state = "pending"
  /\ calls[p].kind = "create" => entry = NoEntry
  /\ entry' = calls[p].data
  /\ Moves(p, "ok")

Fail(p) ==
  /\ calls[p].state = "pending"
  /\ Moves(p, "failed")
  /\ UNCHANGED entry

Die(p) ==
  /\ calls[p].state = "pending"
  /\ Moves(p, "idle")
  /\ UNCHANGED entry

Delete == entry' = NoEntry /\ UNCHANGED calls

Next == Delete \/ \E p \in Writers : Request(p) \/ Succeed(p) \/ Fail(p) \/ Die(p)

RegisterSpec == Init /\ [][Next]_regFileVars
=============================================================================
