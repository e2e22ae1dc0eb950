--------------------------- MODULE BootstrapGate ---------------------------
(***************************************************************************)
(* The confirmation gate of a new workspace (services/bootstrapGating.ts,  *)
(* its tools in services/handlers.bootstrap.ts, and the mutations that     *)
(* consult it): while a catalogue holds only the canonical seeds, the      *)
(* gated mutations wait for an operator to give back a token.              *)
(*                                                                         *)
(* Several servers share the instructions directory, and with it the       *)
(* confirmation file; each reads that file once, and keeps its token in    *)
(* memory.                                                                 *)
(***************************************************************************)
EXTENDS Naturals

CONSTANTS
  Gates,         \* the server processes
  ReferenceMode, \* those started with INDEX_SERVER_REFERENCE_MODE=1
  AutoConfirm,   \* those started with INDEX_SERVER_BOOTSTRAP_AUTOCONFIRM=1
  MaxTokens,     \* bound: tokens issued
  MaxStarts      \* bound: times a process is started again

ASSUME GateAssumption ==
  /\ ReferenceMode \subseteq Gates /\ AutoConfirm \subseteq Gates
  /\ MaxTokens \in Nat /\ MaxStarts \in Nat

Tokens == 1 .. MaxTokens

VARIABLES
  confirmFile, \* bootstrap.confirmed.json: "absent" or "present"
  content,     \* what the directory holds: "seeds" or "more"
  view,        \* each process's catalogue of it
  latch,       \* loaded and confirmed: "unread", "shut" or "open"
  pending,     \* inMemoryPending: the token, 0 for none
  issued,      \* tokens issued so far, over all processes
  expiredTokens,     \* tokens past their expiresAt
  starts,
  used,        \* history: tokens that confirmed
  evidence,    \* history: why a gate may be open: "token", "auto", "content"
  lookedEarly  \* history: processes that read before the file was written

gateLocal == <<view, latch, pending>>
gateHist  == <<used, evidence, lookedEarly>>
gateVars  == <<confirmFile, content, gateLocal, issued, expiredTokens, starts, gateHist>>

GateInit ==
  /\ confirmFile = "absent" /\ content = "seeds"
  /\ view = [p \in Gates |-> "seeds"]
  /\ latch = [p \in Gates |-> "unread"]
  /\ pending = [p \in Gates |-> 0]
  /\ issued = 0 /\ expiredTokens = {} /\ starts = 0
  /\ used = {} /\ evidence = {} /\ lookedEarly = {}

(***************************************************************************)
(* The gate as process p evaluates it; every evaluation first reads the    *)
(* file if that was never done.                                            *)
(***************************************************************************)
loadState(p) ==
  IF latch[p] # "unread" THEN latch[p]
  ELSE IF p \notin ReferenceMode /\ confirmFile = "present" THEN "open" ELSE "shut"

Latched(p) == [latch EXCEPT ![p] = loadState(p)]

ReadsEarly(p) ==
  lookedEarly' = IF latch[p] = "unread" /\ confirmFile = "absent"
                 THEN lookedEarly \cup {p} ELSE lookedEarly

(* Mutant: a file that was never read counts as confirmed.                 *)
mutationGatedReasonUnread(p) ==
  IF p \in ReferenceMode THEN "reference_mode_read_only"
  ELSE IF latch[p] = "shut" /\ view[p] = "seeds" THEN "bootstrap_confirmation_required"
  ELSE "none"

mutationGatedReason(p) ==
  IF p \in ReferenceMode THEN "reference_mode_read_only"
  ELSE IF loadState(p) # "open" /\ view[p] = "seeds"
  THEN "bootstrap_confirmation_required"
  ELSE "none"

(***************************************************************************)
(* The bootstrap tools.                                                    *)
(***************************************************************************)
getBootstrapStatus(p) ==
  /\ latch' = Latched(p)
  /\ ReadsEarly(p)
  /\ UNCHANGED <<confirmFile, content, view, pending, issued, expiredTokens, starts,
                 used, evidence>>

(* A pending token that is still good is not shown again.                  *)
requestBootstrapToken(p) ==
  LET reissued == pending[p] \notin expiredTokens \cup {0}
  IN /\ p \notin ReferenceMode
     /\ latch' = Latched(p)
     /\ ReadsEarly(p)
     /\ IF loadState(p) = "open" \/ reissued
        THEN UNCHANGED <<pending, issued>>
        ELSE /\ issued < MaxTokens
             /\ issued' = issued + 1
             /\ pending' = [pending EXCEPT ![p] = issued + 1]
     /\ UNCHANGED <<confirmFile, content, view, expiredTokens, starts, used, evidence>>

(* The write of the file may fail: the process is confirmed all the same.  *)
WritesConfirmFile == confirmFile' = "present" \/ UNCHANGED confirmFile

(* Mutant: the token stays pending.                                        *)
finalizeKeepsToken(p, token) ==
  /\ p \notin ReferenceMode
  /\ ReadsEarly(p)
  /\ loadState(p) = "shut" /\ token = pending[p] /\ token \notin expiredTokens
  /\ latch' = [latch EXCEPT ![p] = "open"]
  /\ WritesConfirmFile
  /\ used' = used \cup {token}
  /\ evidence' = evidence \cup {"token"}
  /\ UNCHANGED <<content, view, pending, issued, expiredTokens, starts>>

finalizeBootstrapToken(p, token) ==
  /\ p \notin ReferenceMode
  /\ ReadsEarly(p)
  /\ IF loadState(p) = "shut" /\ pending[p] # 0 /\ pending[p] \notin expiredTokens
          /\ token = pending[p]
     THEN /\ latch' = [latch EXCEPT ![p] = "open"]
          /\ WritesConfirmFile
          /\ pending' = [pending EXCEPT ![p] = 0]
          /\ used' = used \cup {token}
          /\ evidence' = evidence \cup {"token"}
     ELSE /\ latch' = Latched(p)
          /\ pending' = IF loadState(p) = "shut" /\ pending[p] \in expiredTokens
                        THEN [pending EXCEPT ![p] = 0] ELSE pending
          /\ UNCHANGED <<confirmFile, used, evidence>>
  /\ UNCHANGED <<content, view, issued, expiredTokens, starts>>

tokenExpires ==
  /\ \E t \in 1 .. issued : t \notin expiredTokens /\ expiredTokens' = expiredTokens \cup {t}
  /\ UNCHANGED <<confirmFile, content, gateLocal, issued, starts, gateHist>>

(* At start-up, for tests: confirmed only if the file could be written.    *)
forceBootstrapConfirmForTests(p) ==
  /\ p \in AutoConfirm \ ReferenceMode
  /\ latch[p] # "open"
  /\ confirmFile' = "present"
  /\ latch' = [latch EXCEPT ![p] = "open"]
  /\ evidence' = evidence \cup {"auto"}
  /\ UNCHANGED <<content, view, pending, issued, expiredTokens, starts, used, lookedEarly>>

(***************************************************************************)
(* Mutations.  Those of the dispatcher, the groomer and the archive ask    *)
(* the gate; the tools called by their own names do not.  A mutation adds  *)
(* an instruction or removes the last that is not a seed.                  *)
(***************************************************************************)
Mutates(p) ==
  \E c \in {"seeds", "more"} :
    /\ content' = c
    /\ view' = [view EXCEPT ![p] = c]
    /\ evidence' = IF c = "more" THEN evidence \cup {"content"} ELSE evidence

dispatchMutation(p) ==
  /\ latch' = IF p \in ReferenceMode THEN latch ELSE Latched(p)
  /\ IF p \in ReferenceMode THEN UNCHANGED lookedEarly ELSE ReadsEarly(p)
  /\ IF mutationGatedReason(p) = "none"
     THEN Mutates(p)
     ELSE UNCHANGED <<content, view, evidence>>
  /\ UNCHANGED <<confirmFile, pending, issued, expiredTokens, starts, used>>

directMutation(p) ==
  /\ Mutates(p)
  /\ UNCHANGED <<confirmFile, latch, pending, issued, expiredTokens, starts, used, lookedEarly>>

(* The catalogue catches up with the directory (module IndexContext).      *)
ensureLoaded(p) ==
  /\ view' = [view EXCEPT ![p] = content]
  /\ view[p] # content
  /\ UNCHANGED <<confirmFile, content, latch, pending, issued, expiredTokens, starts, gateHist>>

restartGate(p) ==
  /\ starts < MaxStarts
  /\ starts' = starts + 1
  /\ latch' = [latch EXCEPT ![p] = "unread"]
  /\ pending' = [pending EXCEPT ![p] = 0]
  /\ view' = [view EXCEPT ![p] = content]
  /\ lookedEarly' = lookedEarly \ {p}
  /\ UNCHANGED <<confirmFile, content, issued, expiredTokens, used, evidence>>

GateNext ==
  \/ \E p \in Gates :
       \/ getBootstrapStatus(p) \/ requestBootstrapToken(p)
       \/ \E t \in Tokens : finalizeBootstrapToken(p, t)
       \/ forceBootstrapConfirmForTests(p)
       \/ dispatchMutation(p) \/ directMutation(p)
       \/ ensureLoaded(p) \/ restartGate(p)
  \/ tokenExpires

GateSpec == GateInit /\ [][GateNext]_gateVars

(***************************************************************************)
(* Properties.                                                             *)
(***************************************************************************)
GateTypeOK ==
  /\ confirmFile \in {"absent", "present"} /\ content \in {"seeds", "more"}
  /\ view \in [Gates -> {"seeds", "more"}]
  /\ latch \in [Gates -> {"unread", "shut", "open"}]
  /\ pending \in [Gates -> 0 .. MaxTokens]
  /\ issued \in 0 .. MaxTokens /\ expiredTokens \subseteq Tokens /\ starts \in 0 .. MaxStarts
  /\ used \subseteq Tokens /\ evidence \subseteq {"token", "auto", "content"}
  /\ lookedEarly \subseteq Gates

(* A gated mutation passes only in a workspace somebody confirmed, with a  *)
(* token or by the test option, or that has held more than the seeds; and  *)
(* never in reference mode.  Once confirmed (the file is there) it passes  *)
(* everywhere else, across restarts, but in a process that looked before   *)
(* the file was written (bootstrapGating.ts:9-12).                         *)
GateHolds ==
  \A p \in Gates :
    /\ mutationGatedReason(p) = "none" => evidence # {} /\ p \notin ReferenceMode
    /\ mutationGatedReason(p) = "bootstrap_confirmation_required"
       /\ confirmFile = "present" => p \in lookedEarly

(* A token confirms once, and only in the process that issued it: never    *)
(* after it was replaced or after a restart.                               *)
TokenConfirmsOnce ==
  /\ \A p \in Gates : pending[p] \notin used
  /\ \A p, q \in Gates : pending[p] = pending[q] /\ pending[p] # 0 => p = q
  /\ "token" \in evidence => used # {}
=============================================================================
