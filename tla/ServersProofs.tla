---------------------------- MODULE ServersProofs ----------------------------
(***************************************************************************)
(* Proofs about the server processes: a forwarded request is executed once *)
(* and a promoted follower listens first (FollowerProxy), port files tell  *)
(* the truth (InstanceRegistry), the gate before the mutations holds       *)
(* (BootstrapGate), and a session opens without losing a chunk             *)
(* (Handshake): for any number of processes, ports, tokens and chunks.     *)
(***************************************************************************)
EXTENDS FollowerProxy, InstanceRegistry, BootstrapGate, Handshake, SequenceTheorems,
        TLAPS

---------------------------------------------------------------------------
\* FollowerProxy: typing

LEMMA ProxyTypeInit == ProxyInit => ProxyTypeOK
  BY ProxyAssumption DEF ProxyInit, ProxyTypeOK, Roles, Listens, CallStates, Tries

LEMMA ResolveType ==
  ASSUME ProxyTypeOK, NEW p \in Servers
  PROVE  resolveLeaderUrl(p) \in Ports \cup {NoServer}
  BY ProxyAssumption DEF ProxyTypeOK, resolveLeaderUrl

\* A try that failed leaves a number of tries within the bound.
LEMMA TryFailedType ==
  ASSUME ProxyTypeOK, NEW c \in Calls, callState[c] \in {"trying", "waiting"}, tryFailed(c)
  PROVE  /\ callState' \in [Calls -> CallStates]
         /\ callTry' \in [Calls -> 0 .. MaxRetries]
         /\ leaderUrl' \in [Servers -> Ports \cup {NoServer}]
<1>1. CASE callTry[c] < MaxRetries
  <2>1. callTry[c] + 1 \in 0 .. MaxRetries
    BY <1>1, ProxyAssumption DEF ProxyTypeOK
  <2> QED BY <1>1, <2>1 DEF tryFailed, ProxyTypeOK, CallStates
<1>2. CASE ~(callTry[c] < MaxRetries)
  BY <1>2 DEF tryFailed, ProxyTypeOK, CallStates
<1> QED BY <1>1, <1>2

\* A call in progress has been tried at least once.
TryCounted == \A c \in Calls : callState[c] \in {"trying", "waiting"} => callTry[c] >= 1

LEMMA ProxyTypeStep ==
  ASSUME ProxyTypeOK, TryCounted, [ProxyNext]_fpVars
  PROVE  ProxyTypeOK'
<1> USE ProxyAssumption DEF ProxyTypeOK, Roles, Listens
<1>1. ASSUME NEW p \in Servers,
             startAsLeader(p) \/ startAsFollower(p) \/ promoted(p) \/ heartbeat(p)
      PROVE  ProxyTypeOK'
  BY <1>1 DEF startAsLeader, startAsFollower, promoted, heartbeat, fpCall, fpServe, fpBound
<1>2. ASSUME NEW p \in Servers, listening(p) \/ listenError(p) \/ retryError(p)
      PROVE  ProxyTypeOK'
  BY <1>2 DEF listening, listenError, retryError, ListenFails, electionStop, Release,
              fpLock, fpCall, fpBound
<1>3. ASSUME NEW p \in Servers, exit(p)
      PROVE  ProxyTypeOK'
  <2>1. lock' \in Servers \cup {NoServer}
    BY <1>3 DEF exit, Release
  <2>2. callState' \in [Calls -> CallStates]
    BY <1>3 DEF exit, CallStates
  <2>3. bound' \in [Ports -> Servers \cup {NoServer, Foreign}]
    BY <1>3 DEF exit
  <2> QED BY <1>3, <2>1, <2>2, <2>3 DEF exit
<1>4. CASE foreignLeaves
  BY <1>4 DEF foreignLeaves, fpLock, fpCall, fpBound
<1>5. ASSUME NEW c \in Calls, NEW p \in Servers, callHere(c, p)
      PROVE  ProxyTypeOK'
  <2>1. <<c, 0>> \in Calls \X (0 .. MaxRetries)
    OBVIOUS
  <2> QED BY <1>5, <2>1 DEF callHere, fpLock, fpServe, fpBound, CallStates
<1>6. ASSUME NEW c \in Calls, NEW p \in Servers, callLeader(c, p)
      PROVE  ProxyTypeOK'
  <2>1. resolveLeaderUrl(p) \in Ports \cup {NoServer}
    BY ResolveType
  <2>2. 0 \in 0 .. MaxRetries /\ 1 \in 0 .. MaxRetries
    OBVIOUS
  <2> QED BY <1>6, <2>1, <2>2 DEF callLeader, fpLock, fpServe, fpBound, CallStates
<1>7. ASSUME NEW c \in Calls, httpPost(c)
      PROVE  ProxyTypeOK'
  <2>1. CASE bound[callPort[c]] \in Servers
    <3>1. callTry[c] \in 1 .. MaxRetries
      BY <1>7 DEF httpPost, TryCounted
    <3>2. requests' \subseteq Calls \X (1 .. MaxRetries) \X Servers
      BY <1>7, <2>1, <3>1 DEF httpPost
    <3> QED BY <1>7, <2>1, <3>2 DEF httpPost, fpLock, fpServe, fpBound, CallStates
  <2>2. CASE bound[callPort[c]] \notin Servers
    <3>1. tryFailed(c) /\ callState[c] \in {"trying", "waiting"}
      BY <1>7, <2>2 DEF httpPost
    <3> QED BY <1>7, <2>2, <3>1, TryFailedType DEF httpPost, fpLock, fpServe, fpBound
  <2> QED BY <2>1, <2>2
<1>8. ASSUME NEW r \in requests \cup begun, rpc(r) \/ answerSent(r) \/ refused(r)
      PROVE  ProxyTypeOK'
  <2>1. <<r[1], r[2]>> \in Tries /\ <<r[1], r[2]>> \in Calls \X (0 .. MaxRetries)
    BY DEF Tries
  <2> QED BY <1>8, <2>1 DEF rpc, answerSent, refused, fpLock, fpServe, fpBound, CallStates
<1>9. ASSUME NEW c \in Calls, answered(c)
      PROVE  ProxyTypeOK'
  BY <1>9 DEF answered, fpLock, fpServe, fpBound, CallStates
<1>10. ASSUME NEW c \in Calls, timeout(c)
       PROVE  ProxyTypeOK'
  <2>1. <<c, callTry[c]>> \in Tries
    BY <1>10 DEF timeout, TryCounted, Tries
  <2>2. tryFailed(c) /\ callState[c] \in {"trying", "waiting"}
    BY <1>10 DEF timeout
  <2> QED BY <1>10, <2>1, <2>2, TryFailedType DEF timeout, fpLock, fpServe, fpBound
<1>11. CASE UNCHANGED fpVars
  BY <1>11 DEF fpVars, fpLock, fpServe, fpCall, fpBound
<1> QED
  BY <1>1, <1>2, <1>3, <1>4, <1>5, <1>6, <1>7, <1>8, <1>9, <1>10, <1>11 DEF ProxyNext

---------------------------------------------------------------------------
\* FollowerProxy: a promoted follower listens before it stops forwarding

(* The strengthening: only servers that have started were followers, and a *)
(* follower has not tried to listen.                                       *)
LocalInv ==
  /\ ListensBeforeLocal
  /\ \A p \in wasFollower : role[p] # "new"
  /\ \A p \in Servers : role[p] \in {"new", "follower"} => listens[p] = "no"

LEMMA LocalStep ==
  ASSUME ProxyTypeOK, LocalInv, [ProxyNext]_fpVars
  PROVE  LocalInv'
<1> USE ProxyAssumption DEF LocalInv, ListensBeforeLocal, Up
<1>1. ASSUME NEW p \in Servers,
             startAsLeader(p) \/ startAsFollower(p) \/ promoted(p) \/ heartbeat(p)
      PROVE  LocalInv'
  BY <1>1 DEF ProxyTypeOK, startAsLeader, startAsFollower, promoted, heartbeat,
              fpCall, fpServe, fpBound
<1>2. ASSUME NEW p \in Servers, listening(p)
      PROVE  LocalInv'
  BY <1>2 DEF ProxyTypeOK, listening, Free, Up, fpLock, fpCall, fpBound
<1>3. ASSUME NEW p \in Servers, listenError(p) \/ retryError(p)
      PROVE  LocalInv'
  BY <1>3 DEF ProxyTypeOK, listenError, retryError, ListenFails, electionStop, Up,
              fpLock, fpCall, fpBound
<1>4. ASSUME NEW p \in Servers, exit(p)
      PROVE  LocalInv'
  BY <1>4 DEF ProxyTypeOK, exit
<1>5. CASE foreignLeaves
  BY <1>5 DEF ProxyTypeOK, foreignLeaves, fpLock, fpCall, fpBound
<1>6. CASE UNCHANGED <<fpLock, fpServe>>
  BY <1>6 DEF fpLock, fpServe
<1> QED
  BY <1>1, <1>2, <1>3, <1>4, <1>5, <1>6
  DEF ProxyNext, fpVars, callHere, callLeader, httpPost, answered,
      timeout, rpc, answerSent, refused

---------------------------------------------------------------------------
\* FollowerProxy: executed once unless given up

(* Try k of call c has reached a leader.                                   *)
Sent(c, k) == <<c, k>> \in executed \/ \E q \in Servers : <<c, k, q>> \in requests

(* The strengthening.  A call that was not made has left no trace; a try   *)
(* that reached a leader was given up, unless it is the last one and the   *)
(* call waits or has ended; the server's own handler means no try at all.  *)
NotMadeYet(c) == callState[c] = "idle" => callTry[c] = 0 /\ callAt[c] = NoServer
SentTry(c) ==
  \A k \in 1 .. MaxRetries :
    Sent(c, k) =>
      /\ k <= callTry[c]
      /\ \/ <<c, k>> \in givenUp
         \/ k = callTry[c] /\ callState[c] \in {"waiting", "cut", "ok", "failed"}
OwnHandler(c) == <<c, 0>> \in executed => callState[c] = "ok" /\ callTry[c] = 0
SuccessExecuted(c) ==
  callState[c] = "ok" => \E k \in 0 .. MaxRetries : <<c, k>> \in executed

AnsweredExecuted ==
  answers \subseteq executed /\ \A r \in begun : <<r[1], r[2]>> \in executed

OnceInv ==
  /\ TryCounted
  /\ AnsweredExecuted
  /\ \A c \in Calls : NotMadeYet(c) /\ SentTry(c) /\ OwnHandler(c) /\ SuccessExecuted(c)

LEMMA OnceInit == ProxyInit => OnceInv
  BY DEF ProxyInit, OnceInv, TryCounted, NotMadeYet, SentTry, OwnHandler,
         SuccessExecuted, AnsweredExecuted, Sent

LEMMA OnceImplies ==
  ASSUME ProxyTypeOK, OnceInv
  PROVE  OnceUnlessGivenUp
<1>1. SUFFICES ASSUME NEW c \in Calls, NEW j \in 0 .. MaxRetries,
                      NEW k \in 0 .. MaxRetries,
                      <<c, j>> \in executed, <<c, k>> \in executed, j < k
               PROVE  <<c, j>> \in givenUp
  BY DEF OnceInv, SuccessExecuted, OnceUnlessGivenUp
<1>2. k \in 1 .. MaxRetries /\ k <= callTry[c]
  BY <1>1, ProxyAssumption DEF OnceInv, SentTry, Sent
<1>3. j # 0
  BY <1>1, <1>2, ProxyAssumption DEF OnceInv, OwnHandler
<1>4. j \in 1 .. MaxRetries /\ (<<c, j>> \in givenUp \/ j = callTry[c])
  BY <1>1, <1>3, ProxyAssumption DEF OnceInv, SentTry, Sent
<1> QED BY <1>1, <1>2, <1>4, ProxyAssumption DEF ProxyTypeOK

(* What keeps the invariant for one call, whatever happens to the others.  *)
LEMMA OnceOthers ==
  ASSUME OnceInv, NEW d \in Calls,
         callState'[d] = callState[d], callTry'[d] = callTry[d], callAt'[d] = callAt[d],
         \A k \in 0 .. MaxRetries : <<d, k>> \in executed' <=> <<d, k>> \in executed,
         \A k \in 0 .. MaxRetries, q \in Servers :
           <<d, k, q>> \in requests' => <<d, k, q>> \in requests,
         givenUp \subseteq givenUp'
  PROVE  (NotMadeYet(d) /\ SentTry(d) /\ OwnHandler(d) /\ SuccessExecuted(d))'
<1>1. NotMadeYet(d) /\ SentTry(d) /\ OwnHandler(d) /\ SuccessExecuted(d)
  BY DEF OnceInv
<1>2. NotMadeYet(d)'
  BY <1>1 DEF NotMadeYet
<1>3. SentTry(d)'
  <2> SUFFICES ASSUME NEW k \in 1 .. MaxRetries, Sent(d, k)'
               PROVE  /\ k <= callTry'[d]
                      /\ \/ <<d, k>> \in givenUp'
                         \/ /\ k = callTry'[d]
                            /\ callState'[d] \in {"waiting", "cut", "ok", "failed"}
    BY DEF SentTry
  <2>1. k \in 0 .. MaxRetries
    BY ProxyAssumption
  <2>2. Sent(d, k)
    BY <2>1 DEF Sent
  <2> QED BY <1>1, <2>2 DEF SentTry
<1>4. OwnHandler(d)'
  <2>1. 0 \in 0 .. MaxRetries
    BY ProxyAssumption
  <2> QED BY <1>1, <2>1 DEF OwnHandler
<1>5. SuccessExecuted(d)'
  BY <1>1 DEF SuccessExecuted
<1> QED BY <1>2, <1>3, <1>4, <1>5

(* A try that ended without success is the last, or another follows it.    *)
LEMMA TryFailedOnce ==
  ASSUME ProxyTypeOK, OnceInv, NEW c \in Calls,
         callState[c] \in {"trying", "waiting"}, tryFailed(c),
         \A k \in 1 .. MaxRetries : Sent(c, k)' => Sent(c, k),
         \A k \in 1 .. MaxRetries : Sent(c, k) => <<c, k>> \in givenUp',
         <<c, 0>> \in executed' => <<c, 0>> \in executed
  PROVE  (NotMadeYet(c) /\ SentTry(c) /\ OwnHandler(c) /\ SuccessExecuted(c))'
<1>1. SentTry(c) /\ OwnHandler(c)
  BY DEF OnceInv
<1>2. callState'[c] \in {"trying", "failed"}
  BY DEF tryFailed, ProxyTypeOK
<1>3. callTry[c] \in 0 .. MaxRetries /\ callTry'[c] \in Nat /\ callTry[c] <= callTry'[c]
  BY ProxyAssumption DEF tryFailed, ProxyTypeOK
<1>4. SentTry(c)'
  <2> SUFFICES ASSUME NEW k \in 1 .. MaxRetries, Sent(c, k)'
               PROVE  k <= callTry'[c] /\ <<c, k>> \in givenUp'
    BY DEF SentTry
  <2>1. Sent(c, k) /\ k <= callTry[c]
    BY <1>1 DEF SentTry
  <2> QED BY <1>3, <2>1, ProxyAssumption
<1>5. OwnHandler(c)'
  BY <1>1 DEF OwnHandler
<1>6. NotMadeYet(c)' /\ SuccessExecuted(c)'
  BY <1>2 DEF NotMadeYet, SuccessExecuted
<1> QED BY <1>4, <1>5, <1>6

LEMMA TryCountedStep ==
  ASSUME ProxyTypeOK, OnceInv, [ProxyNext]_fpVars
  PROVE  TryCounted'
<1> USE ProxyAssumption DEF TryCounted, OnceInv, ProxyTypeOK
<1>5. ASSUME NEW r \in requests, refused(r)
      PROVE  TryCounted'
  BY <1>5 DEF refused
<1>1. ASSUME NEW p \in Servers, exit(p)
      PROVE  TryCounted'
  BY <1>1 DEF exit
<1>2. CASE UNCHANGED <<callState, callTry>>
  BY <1>2
<1>3. ASSUME NEW c \in Calls, NEW p \in Servers, callHere(c, p) \/ callLeader(c, p)
      PROVE  TryCounted'
  BY <1>3 DEF callHere, callLeader
<1>4. ASSUME NEW c \in Calls, httpPost(c) \/ timeout(c) \/ answered(c)
      PROVE  TryCounted'
  BY <1>4 DEF httpPost, timeout, answered, tryFailed
<1> QED
  BY <1>1, <1>2, <1>3, <1>4, <1>5
  DEF ProxyNext, fpVars, fpCall, fpBound, fpServe, fpLock, startAsLeader,
      startAsFollower, promoted, heartbeat, listening, listenError, electionStop,
      retryError, ListenFails, foreignLeaves, rpc, answerSent

(* No try of a call that was not tried has reached a leader.               *)
LEMMA NoTryYet ==
  ASSUME NEW c \in Calls, SentTry(c), callTry[c] = 0
  PROVE  \A k \in 1 .. MaxRetries : ~Sent(c, k)
<1> SUFFICES ASSUME NEW k \in 1 .. MaxRetries, Sent(c, k) PROVE FALSE
  OBVIOUS
<1>1. k <= callTry[c]
  BY DEF SentTry
<1> QED BY <1>1

LEMMA OnceStep ==
  ASSUME ProxyTypeOK, OnceInv, [ProxyNext]_fpVars
  PROVE  OnceInv'
<1> DEFINE Ok(c) == NotMadeYet(c) /\ SentTry(c) /\ OwnHandler(c) /\ SuccessExecuted(c)
<1>a. TryCounted'
  BY TryCountedStep
<1> SUFFICES AnsweredExecuted' /\ \A c \in Calls : Ok(c)'
  BY <1>a DEF OnceInv
<1>b. \A c \in Calls : Ok(c)
  BY DEF OnceInv
<1>c. \A c \in Calls : <<c, 0>> \in executed => callState[c] = "ok"
  BY DEF OnceInv, OwnHandler
<1>1. CASE UNCHANGED fpCall
  <2>1. \A c \in Calls : Ok(c)'
    BY <1>1, OnceOthers DEF fpCall
  <2> QED BY <1>1, <2>1 DEF fpCall, OnceInv, AnsweredExecuted
<1>2. ASSUME NEW p \in Servers, exit(p)
      PROVE  AnsweredExecuted' /\ \A c \in Calls : Ok(c)'
  <2>1. AnsweredExecuted'
    BY <1>2 DEF exit, OnceInv, AnsweredExecuted
  <2>2. SUFFICES ASSUME NEW c \in Calls PROVE Ok(c)'
    BY <2>1
  <2>3. CASE callAt[c] = p /\ callState[c] # "ok"
    <3>1. callState'[c] = "failed" /\ callTry'[c] = callTry[c] /\ executed' = executed
          /\ givenUp' = givenUp
      BY <1>2, <2>3 DEF exit
    <3>2. \A k \in 1 .. MaxRetries : Sent(c, k)' => Sent(c, k)
      BY <1>2 DEF exit, Sent
    <3>3. SentTry(c)'
      BY <1>b, <3>1, <3>2 DEF SentTry
    <3> QED BY <1>b, <2>3, <3>1, <3>3 DEF NotMadeYet, OwnHandler, SuccessExecuted
  <2>4. CASE ~(callAt[c] = p /\ callState[c] # "ok") /\ callState'[c] = callState[c]
    BY <1>2, <2>4, OnceOthers DEF exit
  <2>5. CASE ~(callAt[c] = p /\ callState[c] # "ok") /\ callState'[c] # callState[c]
    <3>1. /\ callState[c] = "waiting" /\ callState'[c] = "cut"
          /\ callTry'[c] = callTry[c] /\ executed' = executed /\ givenUp' = givenUp
      BY <1>2, <2>5 DEF exit, halfAnswered
    <3>2. \A k \in 1 .. MaxRetries : Sent(c, k)' => Sent(c, k)
      BY <1>2 DEF exit, Sent
    <3>3. SentTry(c)'
      BY <1>b, <3>1, <3>2 DEF SentTry
    <3> QED BY <1>b, <3>1, <3>3 DEF NotMadeYet, OwnHandler, SuccessExecuted
  <2> QED BY <2>3, <2>4, <2>5
<1>3. ASSUME NEW c \in Calls, NEW p \in Servers, callHere(c, p)
      PROVE  AnsweredExecuted' /\ \A d \in Calls : Ok(d)'
  <2>1. \A d \in Calls \ {c} : Ok(d)'
    BY <1>3, OnceOthers DEF callHere, ProxyTypeOK
  <2>2. callState[c] = "idle" /\ callTry[c] = 0 /\ callTry' = callTry
        /\ callState'[c] = "ok" /\ requests' = requests
    BY <1>3, <1>b DEF callHere, NotMadeYet, ProxyTypeOK
  <2>3. \A k \in 1 .. MaxRetries : ~Sent(c, k)'
    <3>1. \A k \in 1 .. MaxRetries : ~Sent(c, k)
      BY <1>b, <2>2, NoTryYet
    <3>2. ASSUME NEW k \in 1 .. MaxRetries PROVE <<c, k>> # <<c, 0>>
      OBVIOUS
    <3> QED BY <1>3, <2>2, <3>1, <3>2 DEF callHere, Sent
  <2>4. <<c, 0>> \in executed' /\ 0 \in 0 .. MaxRetries
    BY <1>3, ProxyAssumption DEF callHere
  <2>5. Ok(c)'
    BY <2>2, <2>3, <2>4 DEF NotMadeYet, SentTry, OwnHandler, SuccessExecuted
  <2>6. AnsweredExecuted'
    BY <1>3 DEF callHere, OnceInv, AnsweredExecuted
  <2> QED BY <2>1, <2>5, <2>6
<1>4. ASSUME NEW c \in Calls, NEW p \in Servers, callLeader(c, p)
      PROVE  AnsweredExecuted' /\ \A d \in Calls : Ok(d)'
  <2>1. \A d \in Calls \ {c} : Ok(d)'
    BY <1>4, OnceOthers DEF callLeader, ProxyTypeOK
  <2>2. callState[c] = "idle" /\ callTry[c] = 0 /\ requests' = requests
        /\ executed' = executed /\ callState'[c] \in {"failed", "trying"}
    BY <1>4, <1>b DEF callLeader, NotMadeYet, ProxyTypeOK
  <2>3. \A k \in 1 .. MaxRetries : ~Sent(c, k)'
    BY <1>b, <2>2, NoTryYet DEF Sent
  <2>4. <<c, 0>> \notin executed'
    BY <1>c, <2>2
  <2>5. Ok(c)'
    BY <2>2, <2>3, <2>4 DEF NotMadeYet, SentTry, OwnHandler, SuccessExecuted
  <2>6. AnsweredExecuted'
    BY <1>4 DEF callLeader, OnceInv, AnsweredExecuted
  <2> QED BY <2>1, <2>5, <2>6
<1>5. ASSUME NEW c \in Calls, httpPost(c)
      PROVE  AnsweredExecuted' /\ \A d \in Calls : Ok(d)'
  <2>1. \A d \in Calls \ {c} : Ok(d)'
    BY <1>5, OnceOthers DEF httpPost, tryFailed, ProxyTypeOK
  <2>2. AnsweredExecuted' /\ executed' = executed /\ givenUp' = givenUp
        /\ callState[c] = "trying"
    BY <1>5 DEF httpPost, OnceInv, AnsweredExecuted
  <2>3. \A k \in 1 .. MaxRetries : Sent(c, k) => <<c, k>> \in givenUp /\ k <= callTry[c]
    BY <1>b, <2>2 DEF SentTry
  <2>4. <<c, 0>> \notin executed
    BY <1>c, <2>2
  <2>5. CASE bound[callPort[c]] \in Servers
    <3>1. callState'[c] = "waiting" /\ callTry' = callTry /\ callTry[c] \in Nat
          /\ requests' = requests \cup {<<c, callTry[c], bound[callPort[c]]>>}
      BY <1>5, <2>5, ProxyAssumption DEF httpPost, ProxyTypeOK
    <3>2. \A k \in 1 .. MaxRetries : Sent(c, k)' => Sent(c, k) \/ k = callTry[c]
      BY <2>2, <3>1 DEF Sent
    <3>3. SentTry(c)'
      BY <2>2, <2>3, <3>1, <3>2, ProxyAssumption DEF SentTry
    <3>4. Ok(c)'
      BY <2>2, <2>4, <3>1, <3>3 DEF NotMadeYet, OwnHandler, SuccessExecuted
    <3> QED BY <2>1, <2>2, <3>4
  <2>6. CASE bound[callPort[c]] \notin Servers
    <3>1. tryFailed(c) /\ requests' = requests
      BY <1>5, <2>6 DEF httpPost
    <3>2. \A k \in 1 .. MaxRetries : Sent(c, k)' => Sent(c, k)
      BY <2>2, <3>1 DEF Sent
    <3>3. Ok(c)'
      BY <2>2, <2>3, <3>1, <3>2, TryFailedOnce
    <3> QED BY <2>1, <2>2, <3>3
  <2> QED BY <2>5, <2>6
<1>6. ASSUME NEW c \in Calls, timeout(c)
      PROVE  AnsweredExecuted' /\ \A d \in Calls : Ok(d)'
  <2>1. \A d \in Calls \ {c} : Ok(d)'
    BY <1>6, OnceOthers DEF timeout, tryFailed, ProxyTypeOK
  <2>2. AnsweredExecuted' /\ executed' = executed /\ requests' = requests
        /\ givenUp' = givenUp \cup {<<c, callTry[c]>>} /\ callState[c] = "waiting"
        /\ tryFailed(c)
    BY <1>6 DEF timeout, OnceInv, AnsweredExecuted
  <2>3. \A k \in 1 .. MaxRetries : Sent(c, k) => <<c, k>> \in givenUp'
    BY <1>b, <2>2 DEF SentTry
  <2>4. \A k \in 1 .. MaxRetries : Sent(c, k)' => Sent(c, k)
    BY <2>2 DEF Sent
  <2>5. Ok(c)'
    BY <2>2, <2>3, <2>4, TryFailedOnce
  <2> QED BY <2>1, <2>2, <2>5
<1>7. ASSUME NEW c \in Calls, answered(c)
      PROVE  AnsweredExecuted' /\ \A d \in Calls : Ok(d)'
  <2>1. \A d \in Calls \ {c} : Ok(d)'
    BY <1>7, OnceOthers DEF answered, ProxyTypeOK
  <2>2. AnsweredExecuted' /\ executed' = executed /\ requests' = requests
        /\ givenUp' = givenUp /\ callState[c] = "waiting"
        /\ callState'[c] \in {"ok", "failed"}
        /\ callTry' = callTry /\ <<c, callTry[c]>> \in executed
    BY <1>7 DEF answered, OnceInv, AnsweredExecuted, ProxyTypeOK
  <2>3. SentTry(c)'
    BY <1>b, <2>2 DEF SentTry, Sent
  <2>4. <<c, 0>> \notin executed
    BY <1>c, <2>2
  <2>5. SuccessExecuted(c)'
    BY <2>2 DEF SuccessExecuted, ProxyTypeOK
  <2>6. Ok(c)'
    BY <2>2, <2>3, <2>4, <2>5 DEF NotMadeYet, OwnHandler
  <2> QED BY <2>1, <2>2, <2>6
<1>8. ASSUME NEW r \in requests, rpc(r)
      PROVE  AnsweredExecuted' /\ \A d \in Calls : Ok(d)'
  <2>1. PICK c \in Calls, k \in 1 .. MaxRetries, q \in Servers : r = <<c, k, q>>
    BY DEF ProxyTypeOK
  <2>2. executed' = executed \cup {<<c, k>>} /\ begun' = begun \cup {r}
        /\ requests' \subseteq requests
        /\ UNCHANGED <<callState, callAt, callTry, givenUp, answers>>
    BY <1>8, <2>1 DEF rpc
  <2>3. \A d \in Calls \ {c} : Ok(d)'
    BY <2>1, <2>2, OnceOthers
  <2>4. \A j \in 1 .. MaxRetries : Sent(c, j)' => Sent(c, j)
    BY <1>8, <2>1, <2>2 DEF Sent
  <2>5. SentTry(c)'
    BY <1>b, <2>2, <2>4 DEF SentTry
  <2>6. <<c, 0>> \in executed' => <<c, 0>> \in executed
    BY <2>1, <2>2
  <2>7. Ok(c)'
    BY <1>b, <2>2, <2>5, <2>6 DEF NotMadeYet, OwnHandler, SuccessExecuted
  <2>8. AnsweredExecuted'
    BY <2>1, <2>2 DEF OnceInv, AnsweredExecuted
  <2> QED BY <2>3, <2>7, <2>8
<1>9. ASSUME NEW r \in begun, answerSent(r)
      PROVE  AnsweredExecuted' /\ \A d \in Calls : Ok(d)'
  <2>1. \A d \in Calls : Ok(d)'
    BY <1>9, OnceOthers DEF answerSent
  <2> QED BY <1>9, <2>1 DEF answerSent, OnceInv, AnsweredExecuted
<1>10. ASSUME NEW r \in requests, refused(r)
       PROVE  AnsweredExecuted' /\ \A d \in Calls : Ok(d)'
  <2>1. AnsweredExecuted'
    BY <1>10 DEF refused, OnceInv, AnsweredExecuted
  <2>2. SUFFICES ASSUME NEW c \in Calls PROVE Ok(c)'
    BY <2>1
  <2>3. CASE callState'[c] = callState[c]
    BY <1>10, <2>3, OnceOthers DEF refused
  <2>4. CASE callState'[c] # callState[c]
    <3>1. /\ callState[c] = "waiting" /\ callState'[c] = "failed"
          /\ callTry' = callTry /\ executed' = executed /\ givenUp' = givenUp
      BY <1>10, <2>4 DEF refused, ProxyTypeOK
    <3>2. \A k \in 1 .. MaxRetries : Sent(c, k)' => Sent(c, k)
      BY <1>10 DEF refused, Sent
    <3>3. SentTry(c)'
      BY <1>b, <3>1, <3>2 DEF SentTry
    <3> QED BY <1>b, <3>1, <3>3 DEF NotMadeYet, OwnHandler, SuccessExecuted
  <2> QED BY <2>3, <2>4
<1> QED
  BY <1>1, <1>2, <1>3, <1>4, <1>5, <1>6, <1>7, <1>8, <1>9, <1>10
  DEF ProxyNext, fpVars, startAsLeader, startAsFollower, promoted, heartbeat, listening,
      listenError, electionStop, retryError, ListenFails, foreignLeaves

(* Every state is typed: the strengthening says that a call in progress    *)
(* has been tried.                                                         *)
THEOREM ProxyTyped == ProxySpec => []ProxyTypeOK
<1>1. ProxyInit => ProxyTypeOK /\ OnceInv
  BY ProxyTypeInit, OnceInit
<1>2. ProxyTypeOK /\ OnceInv /\ [ProxyNext]_fpVars => (ProxyTypeOK /\ OnceInv)'
  BY ProxyTypeStep, OnceStep DEF OnceInv
<1> QED BY <1>1, <1>2, PTL DEF ProxySpec

(* A call that succeeds was executed, and twice only after a try was given *)
(* up (OnceUnlessGivenUp), for any servers, calls, ports and tries.        *)
THEOREM ProxyExecutesOnce == ProxySpec => []OnceUnlessGivenUp
<1>1. ProxyInit => ProxyTypeOK /\ OnceInv
  BY ProxyTypeInit, OnceInit
<1>2. ProxyTypeOK /\ OnceInv /\ [ProxyNext]_fpVars => (ProxyTypeOK /\ OnceInv)'
  BY ProxyTypeStep, OnceStep DEF OnceInv
<1>3. ProxyTypeOK /\ OnceInv => OnceUnlessGivenUp
  BY OnceImplies
<1> QED BY <1>1, <1>2, <1>3, PTL DEF ProxySpec

(* A promoted follower listens before it stops forwarding.                 *)
THEOREM ProxyListensFirst == ProxySpec => []ListensBeforeLocal
<1>1. ProxyInit => LocalInv
  BY DEF ProxyInit, LocalInv, ListensBeforeLocal
<1>2. ProxyTypeOK /\ LocalInv /\ [ProxyNext]_fpVars => LocalInv'
  BY LocalStep
<1>3. LocalInv => ListensBeforeLocal
  BY DEF LocalInv
<1> QED BY <1>1, <1>2, <1>3, ProxyTyped, PTL DEF ProxySpec

---------------------------------------------------------------------------
\* InstanceRegistry: the port files tell the truth

(* What the proofs need of the types; the bounds play no part.             *)
RegTyped ==
  /\ DOMAIN proc = Pids
  /\ listensOn \in [Pids -> DashPorts \cup {NoPort}]
  /\ portFile \in [Pids -> DashPorts \cup {NoPort}]
  /\ registered \in [Pids -> DashPorts \cup {NoPort}]
  /\ exitTimers \in [Pids -> SUBSET Reasons]
  /\ unclean \subseteq Pids

(* The strengthening: a running process registered the port it listens on, *)
(* only a running process has exit timers, and the file of one that is     *)
(* about to exit is there only if it was asked for the list meanwhile.     *)
RegInv ==
  /\ RegTyped
  /\ PortFilesAreTrue
  /\ \A p \in Pids : Running(p) => registered[p] = listensOn[p]
  /\ \A p \in Pids : ~Running(p) => exitTimers[p] = {}
  /\ \A p \in Listed : exitTimers[p] # {} => p \in unclean

LEMMA RegInit == RegistryInit => RegInv
  BY DEF RegistryInit, RegInv, RegTyped, PortFilesAreTrue, Listed, Running

LEMMA RegStart ==
  ASSUME RegInv, NEW p \in Pids, startDashboard(p)
  PROVE  RegInv'
<1>1. PICK port \in FreePorts :
        /\ listensOn' = [listensOn EXCEPT ![p] = port]
        /\ registered' = [registered EXCEPT ![p] = port]
        /\ portFile' = [WithoutFiles(Dead \ {p}) EXCEPT ![p] = port]
  BY DEF startDashboard
<1>2. port \in DashPorts
  BY <1>1 DEF FreePorts
<1>3. /\ ~Running(p)
      /\ proc' = [proc EXCEPT ![p] = "running"]
      /\ unclean' = unclean \ {p}
      /\ exitTimers' = exitTimers
  BY DEF startDashboard, Born, Running
<1>4. RegTyped'
  BY <1>1, <1>2, <1>3 DEF RegInv, RegTyped, WithoutFiles
<1>5. \A q \in Pids \ {p} : q \in Listed' => q \in Listed /\ portFile'[q] = portFile[q]
  BY <1>1 DEF Listed, WithoutFiles, RegInv, RegTyped
<1>6. PortFilesAreTrue'
  <2>1. portFile'[p] = listensOn'[p] /\ proc'[p] = "running"
    BY <1>1, <1>3 DEF RegInv, RegTyped, WithoutFiles
  <2>2. \A q \in Pids \ {p} : proc'[q] = proc[q] /\ listensOn'[q] = listensOn[q]
    BY <1>1, <1>3 DEF RegInv, RegTyped
  <2> QED BY <1>3, <1>5, <2>1, <2>2 DEF RegInv, PortFilesAreTrue, Listed, Running
<1>7. \A q \in Pids : Running(q)' => registered'[q] = listensOn'[q]
  BY <1>1, <1>3 DEF RegInv, RegTyped, Running
<1>8. \A q \in Pids : ~Running(q)' => exitTimers'[q] = {}
  BY <1>3 DEF RegInv, RegTyped, Running
<1>9. \A q \in Listed' : exitTimers'[q] # {} => q \in unclean'
  BY <1>3, <1>5 DEF RegInv, Listed
<1> QED BY <1>4, <1>6, <1>7, <1>8, <1>9 DEF RegInv

(* Whoever lists the instances writes at most its own file back, with the  *)
(* port it listens on.                                                     *)
LEMMA RegLists ==
  ASSUME RegInv, NEW p \in Pids, Running(p), ListsInstances(p),
         UNCHANGED <<proc, listensOn, registered, exitTimers>>
  PROVE  RegInv'
<1>1. portFile' \in [Pids -> DashPorts \cup {NoPort}]
  BY DEF ListsInstances, Healed, WithoutFiles, RegInv, RegTyped
<1>2. RegTyped'
  BY <1>1 DEF ListsInstances, RegInv, RegTyped
<1>3. \A q \in Pids \ {p} : q \in Listed' => q \in Listed /\ portFile'[q] = portFile[q]
  BY DEF ListsInstances, Healed, WithoutFiles, Listed, RegInv, RegTyped
<1>4. portFile'[p] = listensOn[p]
  <2>1. portFile'[p] = IF portFile[p] = NoPort THEN registered[p] ELSE portFile[p]
    BY DEF ListsInstances, Healed, WithoutFiles, Dead, isProcessAlive, Running, RegInv,
           RegTyped
  <2> QED BY <2>1 DEF RegInv, PortFilesAreTrue, Listed
<1>5. unclean \subseteq unclean' /\ (exitTimers[p] # {} => p \in unclean')
  BY DEF ListsInstances
<1>6. PortFilesAreTrue'
  BY <1>3, <1>4, <1>5 DEF RegInv, PortFilesAreTrue, Listed, Running
<1>7. \A q \in Listed' : exitTimers'[q] # {} => q \in unclean'
  BY <1>3, <1>5 DEF RegInv, Listed
<1> QED BY <1>2, <1>6, <1>7 DEF RegInv, Running

(* Removing files, and nothing else, keeps the invariant.                  *)
LEMMA RegRemoves ==
  ASSUME RegInv, NEW S, portFile' = WithoutFiles(S) \/ UNCHANGED portFile,
         UNCHANGED <<proc, listensOn, registered, exitTimers, unclean>>
  PROVE  RegInv'
<1>1. RegTyped'
  BY DEF RegInv, RegTyped, WithoutFiles
<1>2. \A q \in Pids : q \in Listed' => q \in Listed /\ portFile'[q] = portFile[q]
  BY DEF WithoutFiles, Listed, RegInv, RegTyped
<1>3. Listed' \subseteq Pids
  BY DEF Listed
<1> QED BY <1>1, <1>2, <1>3 DEF RegInv, PortFilesAreTrue, Running

LEMMA RegShutdown ==
  ASSUME RegInv, NEW p \in Pids, NEW reason \in Reasons, initiateShutdown(p, reason)
  PROVE  RegInv'
<1>1. /\ UNCHANGED <<proc, listensOn, registered, unclean>>
      /\ exitTimers' = [exitTimers EXCEPT ![p] = @ \cup {reason}]
      /\ Running(p)
      /\ portFile' = IF exitTimers[p] = {} THEN WithoutFiles({p}) ELSE portFile
  BY DEF initiateShutdown
<1>2. RegTyped'
  BY <1>1 DEF RegInv, RegTyped, WithoutFiles
<1>3. \A q \in Pids : q \in Listed' => q \in Listed /\ portFile'[q] = portFile[q]
  BY <1>1 DEF WithoutFiles, Listed, RegInv, RegTyped
<1>4. Listed' \subseteq Pids
  BY DEF Listed
<1>5. \A q \in Listed' : exitTimers'[q] # {} => q \in unclean'
  <2>1. exitTimers[p] = {} => p \notin Listed'
    BY <1>1 DEF WithoutFiles, Listed, RegInv, RegTyped
  <2>2. \A q \in Pids \ {p} : exitTimers'[q] = exitTimers[q]
    BY <1>1 DEF RegInv, RegTyped
  <2> QED BY <1>1, <1>3, <1>4, <2>1, <2>2 DEF RegInv
<1>6. \A q \in Pids : ~Running(q)' => exitTimers'[q] = {}
  BY <1>1 DEF RegInv, RegTyped, Running
<1> QED BY <1>1, <1>2, <1>3, <1>4, <1>5, <1>6 DEF RegInv, PortFilesAreTrue, Running

(* A process that is gone leaves its file only if it is accounted for.     *)
LEMMA RegGone ==
  ASSUME RegInv, NEW p \in Pids, Running(p), ProcessGone(p), UNCHANGED portFile,
         unclean \subseteq unclean', unclean' \subseteq Pids,
         exitTimers[p] # {} \/ p \in unclean'
  PROVE  RegInv'
<1>1. RegTyped'
  BY DEF RegInv, RegTyped, ProcessGone
<1>2. \A q \in Pids \ {p} : /\ proc'[q] = proc[q] /\ listensOn'[q] = listensOn[q]
                            /\ registered'[q] = registered[q]
                            /\ exitTimers'[q] = exitTimers[q]
  BY DEF RegInv, RegTyped, ProcessGone
<1>3. proc'[p] = "none" /\ exitTimers'[p] = {}
  BY DEF RegInv, RegTyped, ProcessGone
<1>4. Listed' = Listed /\ Listed \subseteq Pids
  BY DEF Listed
<1>5. p \in Listed => p \in unclean'
  BY DEF RegInv
<1>6. PortFilesAreTrue'
  BY <1>2, <1>3, <1>4, <1>5 DEF RegInv, PortFilesAreTrue, Running
<1> QED BY <1>1, <1>2, <1>3, <1>4, <1>6 DEF RegInv, Running

LEMMA RegStep ==
  ASSUME RegInv, [RegistryNext]_regVars
  PROVE  RegInv'
<1>1. ASSUME NEW p \in Pids, startDashboard(p)
      PROVE  RegInv'
  BY <1>1, RegStart
<1>2. ASSUME NEW p \in Pids, otherProgramStarts(p) \/ otherProgramEnds(p)
      PROVE  RegInv'
  <2>1. /\ proc' \in [Pids -> {proc[q] : q \in Pids} \cup {"other", "none"}]
        /\ \A q \in Pids \ {p} : proc'[q] = proc[q]
        /\ ~Running(p) /\ ~Running(p)'
        /\ UNCHANGED <<listensOn, portFile, registered, exitTimers, unclean>>
    BY <1>2 DEF otherProgramStarts, otherProgramEnds, Born, Running, RegInv, RegTyped
  <2>2. \A q \in Pids : Running(q)' <=> Running(q)
    BY <2>1 DEF Running
  <2>3. Listed \subseteq Pids
    BY DEF Listed
  <2> QED BY <2>1, <2>2, <2>3 DEF RegInv, RegTyped, PortFilesAreTrue, Listed
<1>3. ASSUME NEW p \in Pids, getActiveInstances(p)
      PROVE  RegInv'
  BY <1>3, RegLists DEF getActiveInstances
<1>4. ASSUME NEW v \in Pids, NEW w \in Pids, pingAnswers(v, w)
      PROVE  RegInv'
  BY <1>4, RegLists DEF pingAnswers
<1>5. ASSUME NEW v \in Pids, validateInstances(v) \/ pingFails(v)
      PROVE  RegInv'
  BY <1>5, RegRemoves DEF validateInstances, pingFails
<1>6. ASSUME NEW v \in Pids, NEW q \in Pids, checkNext(v, q)
      PROVE  RegInv'
  BY <1>6, RegRemoves DEF checkNext
<1>7. ASSUME NEW p \in Pids, NEW reason \in Reasons, initiateShutdown(p, reason)
      PROVE  RegInv'
  BY <1>7, RegShutdown
<1>8. ASSUME NEW p \in Pids, processExits(p) \/ processKilled(p)
      PROVE  RegInv'
  BY <1>8, RegGone DEF processExits, processKilled, RegInv, RegTyped
<1>9. CASE UNCHANGED regVars
  BY <1>9, RegRemoves DEF regVars
<1> QED
  BY <1>1, <1>2, <1>3, <1>4, <1>5, <1>6, <1>7, <1>8, <1>9 DEF RegistryNext

(* The port file of a running process names its port, and a file outlives  *)
(* its process only for one of the two reasons that PortFilesAreTrue names: *)
(* for any number of pids and ports, however validations interleave.       *)
THEOREM RegistryIsTrue == RegistrySpec => []PortFilesAreTrue
<1>1. RegistryInit => RegInv
  BY RegInit
<1>2. RegInv /\ [RegistryNext]_regVars => RegInv'
  BY RegStep
<1>3. RegInv => PortFilesAreTrue
  BY DEF RegInv
<1> QED BY <1>1, <1>2, <1>3, PTL DEF RegistrySpec

---------------------------------------------------------------------------
\* InstanceRegistry: typing

LEMMA FilesTyped ==
  ASSUME RegistryTypeOK, NEW S
  PROVE  WithoutFiles(S) \in [Pids -> DashPorts \cup {NoPort}]
  BY DEF RegistryTypeOK, WithoutFiles

LEMMA ListsTyped ==
  ASSUME RegistryTypeOK, NEW p \in Pids, ListsInstances(p)
  PROVE  portFile' \in [Pids -> DashPorts \cup {NoPort}] /\ unclean' \subseteq Pids
  BY FilesTyped DEF RegistryTypeOK, ListsInstances, Healed

LEMMA RegistryTypeStep ==
  ASSUME RegistryTypeOK, [RegistryNext]_regVars
  PROVE  RegistryTypeOK'
<1> USE DEF RegistryTypeOK, regBounds
<1>0. /\ MaxBirths \in Nat /\ MaxKills \in Nat /\ MaxSlow \in Nat
      /\ NoPing \in [pid : Pids \cup {NoPid}, port : DashPorts \cup {NoPort}]
  BY RegistryAssumption DEF RegistryAssumption, NoPing
<1> HIDE DEF NoPing
<1>1. ASSUME NEW p \in Pids, startDashboard(p)
      PROVE  RegistryTypeOK'
  <2>1. PICK port \in FreePorts :
          /\ listensOn' = [listensOn EXCEPT ![p] = port]
          /\ registered' = [registered EXCEPT ![p] = port]
          /\ portFile' = [WithoutFiles(Dead \ {p}) EXCEPT ![p] = port]
    BY <1>1 DEF startDashboard
  <2>2. port \in DashPorts /\ births' \in 0 .. MaxBirths
    BY <1>0, <1>1, <2>1 DEF startDashboard, Born, FreePorts
  <2>3. portFile' \in [Pids -> DashPorts \cup {NoPort}]
    BY <2>1, <2>2, FilesTyped
  <2> QED BY <1>1, <2>1, <2>2, <2>3 DEF startDashboard, Born
<1>2. ASSUME NEW p \in Pids, otherProgramStarts(p) \/ otherProgramEnds(p)
      PROVE  RegistryTypeOK'
  BY <1>0, <1>2 DEF otherProgramStarts, otherProgramEnds, Born
<1>3. ASSUME NEW p \in Pids, getActiveInstances(p)
      PROVE  RegistryTypeOK'
  BY <1>3, ListsTyped DEF getActiveInstances
<1>4. ASSUME NEW v \in Pids, NEW w \in Pids, pingAnswers(v, w)
      PROVE  RegistryTypeOK'
  BY <1>0, <1>4, ListsTyped DEF pingAnswers
<1>5. ASSUME NEW v \in Pids, validateInstances(v)
      PROVE  RegistryTypeOK'
  BY <1>5 DEF validateInstances, Listed
<1>6. ASSUME NEW v \in Pids, pingFails(v)
      PROVE  RegistryTypeOK'
  <2>1. slow' \in 0 .. MaxSlow
    BY <1>0, <1>6 DEF pingFails
  <2> QED BY <1>0, <1>6, <2>1, FilesTyped DEF pingFails
<1>7. ASSUME NEW v \in Pids, NEW q \in Pids, checkNext(v, q)
      PROVE  RegistryTypeOK'
  <2>1. pinging' \in [Pids -> [pid : Pids \cup {NoPid}, port : DashPorts \cup {NoPort}]]
    BY <1>7 DEF checkNext
  <2>2. portFile' \in [Pids -> DashPorts \cup {NoPort}]
    BY <1>7, FilesTyped DEF checkNext
  <2> QED BY <1>7, <2>1, <2>2 DEF checkNext
<1>8. ASSUME NEW p \in Pids, NEW reason \in Reasons, initiateShutdown(p, reason)
      PROVE  RegistryTypeOK'
  <2>1. portFile' \in [Pids -> DashPorts \cup {NoPort}]
    BY <1>8, FilesTyped DEF initiateShutdown
  <2> QED BY <1>8, <2>1 DEF initiateShutdown
<1>9. ASSUME NEW p \in Pids, processExits(p) \/ processKilled(p)
      PROVE  RegistryTypeOK'
  BY <1>0, <1>9 DEF processExits, processKilled, ProcessGone
<1>10. CASE UNCHANGED regVars
  BY <1>10 DEF regVars
<1> QED
  BY <1>1, <1>2, <1>3, <1>4, <1>5, <1>6, <1>7, <1>8, <1>9, <1>10 DEF RegistryNext

(* Every variable of the registry has its type.                            *)
THEOREM RegistryTypeCorrect == RegistrySpec => []RegistryTypeOK
<1>1. RegistryInit => RegistryTypeOK
  BY RegistryAssumption DEF RegistryAssumption, RegistryInit, RegistryTypeOK, NoPing
<1> QED BY <1>1, RegistryTypeStep, PTL DEF RegistrySpec

---------------------------------------------------------------------------
\* BootstrapGate: the gate

GateTyped ==
  /\ view \in [Gates -> {"seeds", "more"}]
  /\ latch \in [Gates -> {"unread", "shut", "open"}]
  /\ content \in {"seeds", "more"} /\ confirmFile \in {"absent", "present"}

(* The strengthening: an open latch, a file and every sign of more than    *)
(* the seeds are traced to a reason; a shut latch to an early look.        *)
GateInv ==
  /\ GateTyped
  /\ confirmFile = "present" => evidence # {}
  /\ content = "more" => "content" \in evidence
  /\ \A p \in Gates :
       /\ view[p] = "more" => "content" \in evidence
       /\ latch[p] = "open" => evidence # {} /\ p \notin ReferenceMode
       /\ latch[p] = "shut" /\ p \notin ReferenceMode => p \in lookedEarly

LEMMA GateInitial == GateInit => GateInv
  BY DEF GateInit, GateInv, GateTyped

LEMMA GateImplies == GateInv => GateHolds
  BY DEF GateInv, GateTyped, GateHolds, mutationGatedReason, loadState

(* Reading the file keeps the invariant.                                   *)
LEMMA LatchedKeeps ==
  ASSUME GateInv, NEW p \in Gates, latch' = Latched(p), ReadsEarly(p),
         UNCHANGED <<confirmFile, content, view, evidence>>
  PROVE  GateInv'
<1>1. latch' = [latch EXCEPT ![p] = loadState(p)]
  BY DEF Latched
<1>2. lookedEarly \subseteq lookedEarly'
  BY DEF ReadsEarly
<1>3. loadState(p) \in {"shut", "open"}
  BY DEF GateInv, GateTyped, loadState
<1>4. GateTyped'
  BY <1>1, <1>3 DEF GateInv, GateTyped
<1>5. loadState(p) = "open" => evidence # {} /\ p \notin ReferenceMode
  BY DEF GateInv, loadState
<1>6. loadState(p) = "shut" /\ p \notin ReferenceMode => p \in lookedEarly'
  BY DEF GateInv, GateTyped, loadState, ReadsEarly
<1> QED BY <1>1, <1>2, <1>4, <1>5, <1>6 DEF GateInv, GateTyped

LEMMA FinalizeKeeps ==
  ASSUME GateInv, NEW p \in Gates, NEW t \in Tokens, finalizeBootstrapToken(p, t)
  PROVE  GateInv'
<1>1. CASE evidence' = evidence \cup {"token"} /\ latch' = [latch EXCEPT ![p] = "open"]
  BY <1>1 DEF GateInv, GateTyped, finalizeBootstrapToken, WritesConfirmFile, ReadsEarly
<1>2. CASE latch' = Latched(p) /\ UNCHANGED <<confirmFile, evidence>>
  BY <1>2, LatchedKeeps DEF finalizeBootstrapToken
<1> QED BY <1>1, <1>2 DEF finalizeBootstrapToken

LEMMA MutatesKeeps ==
  ASSUME GateInv, NEW p \in Gates, Mutates(p), UNCHANGED <<confirmFile, latch>>,
         lookedEarly \subseteq lookedEarly'
  PROVE  GateInv'
<1>1. PICK c \in {"seeds", "more"} :
        /\ content' = c
        /\ view' = [view EXCEPT ![p] = c]
        /\ evidence' = IF c = "more" THEN evidence \cup {"content"} ELSE evidence
  BY DEF Mutates
<1> QED BY <1>1 DEF GateInv, GateTyped

LEMMA DispatchKeeps ==
  ASSUME GateInv, NEW p \in Gates, dispatchMutation(p)
  PROVE  GateInv'
<1>1. CASE p \in ReferenceMode
  <2>1. mutationGatedReason(p) # "none"
    BY <1>1 DEF mutationGatedReason
  <2> QED BY <1>1, <2>1 DEF dispatchMutation, GateInv, GateTyped
<1>2. CASE p \notin ReferenceMode
  <2>1. latch' = Latched(p) /\ ReadsEarly(p) /\ UNCHANGED confirmFile
    BY <1>2 DEF dispatchMutation
  <2>2. CASE UNCHANGED <<content, view, evidence>>
    BY <2>1, <2>2, LatchedKeeps
  <2>3. CASE Mutates(p)
    <3>1. latch' = [latch EXCEPT ![p] = loadState(p)] /\ loadState(p) \in {"shut", "open"}
      BY <2>1 DEF Latched, GateInv, GateTyped, loadState
    <3>2. PICK c \in {"seeds", "more"} :
            /\ content' = c
            /\ view' = [view EXCEPT ![p] = c]
            /\ evidence' = IF c = "more" THEN evidence \cup {"content"} ELSE evidence
      BY <2>3 DEF Mutates
    <3>3. loadState(p) = "open" => evidence # {}
      BY DEF GateInv, loadState
    <3>4. loadState(p) = "shut" => p \in lookedEarly'
      BY <1>2, <2>1 DEF GateInv, GateTyped, loadState, ReadsEarly
    <3>5. lookedEarly \subseteq lookedEarly'
      BY <2>1 DEF ReadsEarly
    <3>6. GateTyped'
      BY <2>1, <3>1, <3>2 DEF GateInv, GateTyped
    <3> QED BY <1>2, <2>1, <3>1, <3>2, <3>3, <3>4, <3>5, <3>6 DEF GateInv, GateTyped
  <2> QED BY <2>2, <2>3 DEF dispatchMutation
<1> QED BY <1>1, <1>2

LEMMA GateStep ==
  ASSUME GateInv, [GateNext]_gateVars
  PROVE  GateInv'
<1>1. ASSUME NEW p \in Gates, getBootstrapStatus(p) \/ requestBootstrapToken(p)
      PROVE  GateInv'
  BY <1>1, LatchedKeeps DEF getBootstrapStatus, requestBootstrapToken
<1>2. ASSUME NEW p \in Gates, NEW t \in Tokens, finalizeBootstrapToken(p, t)
      PROVE  GateInv'
  BY <1>2, FinalizeKeeps
<1>3. ASSUME NEW p \in Gates, forceBootstrapConfirmForTests(p)
      PROVE  GateInv'
  BY <1>3 DEF GateInv, GateTyped, forceBootstrapConfirmForTests
<1>4. ASSUME NEW p \in Gates, dispatchMutation(p)
      PROVE  GateInv'
  BY <1>4, DispatchKeeps
<1>5. ASSUME NEW p \in Gates, directMutation(p)
      PROVE  GateInv'
  BY <1>5, MutatesKeeps DEF directMutation
<1>6. ASSUME NEW p \in Gates, ensureLoaded(p) \/ restartGate(p)
      PROVE  GateInv'
  BY <1>6 DEF GateInv, GateTyped, ensureLoaded, restartGate, gateHist
<1>7. CASE tokenExpires
  BY <1>7 DEF GateInv, GateTyped, tokenExpires, gateLocal, gateHist
<1>8. CASE UNCHANGED gateVars
  BY <1>8 DEF GateInv, GateTyped, gateVars, gateLocal, gateHist
<1> QED BY <1>1, <1>2, <1>3, <1>4, <1>5, <1>6, <1>7, <1>8 DEF GateNext

(* A gated mutation passes only in a confirmed or grown workspace, and in  *)
(* one that is confirmed it is refused only where the file was looked for  *)
(* too early (GateHolds), whoever shares the directory and restarts.       *)
THEOREM GateAlwaysHolds == GateSpec => []GateHolds
<1>1. GateInit => GateInv
  BY GateInitial
<1>2. GateInv /\ [GateNext]_gateVars => GateInv'
  BY GateStep
<1> QED BY <1>1, <1>2, GateImplies, PTL DEF GateSpec

---------------------------------------------------------------------------
\* BootstrapGate: typing

LEMMA LatchedTyped ==
  ASSUME GateTypeOK, NEW p \in Gates
  PROVE  Latched(p) \in [Gates -> {"unread", "shut", "open"}]
  BY DEF GateTypeOK, Latched, loadState

LEMMA MutatesTyped ==
  ASSUME GateTypeOK, NEW p \in Gates, Mutates(p)
  PROVE  /\ content' \in {"seeds", "more"} /\ view' \in [Gates -> {"seeds", "more"}]
         /\ evidence' \subseteq {"token", "auto", "content"}
  BY DEF GateTypeOK, Mutates

LEMMA GateTypeStep ==
  ASSUME GateTypeOK, [GateNext]_gateVars
  PROVE  GateTypeOK'
<1> USE DEF GateTypeOK, ReadsEarly
<1>0. MaxTokens \in Nat /\ MaxStarts \in Nat
  BY GateAssumption DEF GateAssumption
<1>1. ASSUME NEW p \in Gates, getBootstrapStatus(p)
      PROVE  GateTypeOK'
  BY <1>1, LatchedTyped DEF getBootstrapStatus
<1>2. ASSUME NEW p \in Gates, requestBootstrapToken(p)
      PROVE  GateTypeOK'
  <2>1. latch' \in [Gates -> {"unread", "shut", "open"}]
    BY <1>2, LatchedTyped DEF requestBootstrapToken
  <2>2. issued' \in 0 .. MaxTokens /\ pending' \in [Gates -> 0 .. MaxTokens]
    BY <1>0, <1>2 DEF requestBootstrapToken
  <2> QED BY <1>2, <2>1, <2>2 DEF requestBootstrapToken
<1>3. ASSUME NEW p \in Gates, NEW t \in Tokens, finalizeBootstrapToken(p, t)
      PROVE  GateTypeOK'
  <2>1. latch' \in [Gates -> {"unread", "shut", "open"}]
    BY <1>3, LatchedTyped DEF finalizeBootstrapToken
  <2>2. pending' \in [Gates -> 0 .. MaxTokens]
    BY <1>0, <1>3 DEF finalizeBootstrapToken
  <2> QED BY <1>3, <2>1, <2>2 DEF finalizeBootstrapToken, WritesConfirmFile
<1>4. ASSUME NEW p \in Gates, forceBootstrapConfirmForTests(p)
      PROVE  GateTypeOK'
  BY <1>4 DEF forceBootstrapConfirmForTests
<1>5. ASSUME NEW p \in Gates, dispatchMutation(p)
      PROVE  GateTypeOK'
  <2>1. latch' \in [Gates -> {"unread", "shut", "open"}]
    BY <1>5, LatchedTyped DEF dispatchMutation
  <2>2. /\ content' \in {"seeds", "more"} /\ view' \in [Gates -> {"seeds", "more"}]
        /\ evidence' \subseteq {"token", "auto", "content"}
    BY <1>5, MutatesTyped DEF dispatchMutation
  <2> QED BY <1>5, <2>1, <2>2 DEF dispatchMutation
<1>6. ASSUME NEW p \in Gates, directMutation(p)
      PROVE  GateTypeOK'
  BY <1>6, MutatesTyped DEF directMutation
<1>7. ASSUME NEW p \in Gates, ensureLoaded(p)
      PROVE  GateTypeOK'
  BY <1>7 DEF ensureLoaded, gateHist
<1>8. ASSUME NEW p \in Gates, restartGate(p)
      PROVE  GateTypeOK'
  BY <1>0, <1>8 DEF restartGate
<1>9. CASE tokenExpires
  BY <1>0, <1>9 DEF tokenExpires, gateLocal, gateHist, Tokens
<1>10. CASE UNCHANGED gateVars
  BY <1>10 DEF gateVars, gateLocal, gateHist
<1> QED
  BY <1>1, <1>2, <1>3, <1>4, <1>5, <1>6, <1>7, <1>8, <1>9, <1>10 DEF GateNext

(* Every variable of the gate has its type.                                *)
THEOREM GateTypeCorrect == GateSpec => []GateTypeOK
<1>1. GateInit => GateTypeOK
  BY GateAssumption DEF GateAssumption, GateInit, GateTypeOK
<1> QED BY <1>1, GateTypeStep, PTL DEF GateSpec

---------------------------------------------------------------------------
\* BootstrapGate: the tokens

(* The strengthening: the tokens are numbered in the order of their issue. *)
TokenInv ==
  /\ TokenConfirmsOnce
  /\ issued \in Nat
  /\ pending \in [Gates -> 0 .. issued]
  /\ used \subseteq 1 .. issued

LEMMA TokenStep ==
  ASSUME TokenInv, [GateNext]_gateVars
  PROVE  TokenInv'
<1> USE DEF TokenInv, TokenConfirmsOnce
<1>1. CASE UNCHANGED <<pending, issued, used>> /\ ("token" \in evidence' <=> "token" \in evidence)
  BY <1>1
<1>2. ASSUME NEW p \in Gates, requestBootstrapToken(p)
      PROVE  TokenInv'
  <2>1. CASE issued' = issued + 1 /\ pending' = [pending EXCEPT ![p] = issued + 1]
    <3>1. issued' \in Nat /\ \A n \in 0 .. issued : n \in 0 .. issued' /\ n # issued + 1
      BY <2>1
    <3>2. issued + 1 \in 0 .. issued' /\ issued + 1 # 0
      BY <2>1
    <3>3. pending' \in [Gates -> 0 .. issued']
      BY <2>1, <3>1, <3>2
    <3>4. used' = used /\ evidence' = evidence
      BY <1>2 DEF requestBootstrapToken
    <3>5. used' \subseteq 1 .. issued' /\ issued + 1 \notin used
      BY <2>1, <3>4
    <3> QED BY <2>1, <3>1, <3>2, <3>3, <3>4, <3>5
  <2>2. CASE UNCHANGED <<pending, issued>>
    BY <1>2, <2>2 DEF requestBootstrapToken
  <2> QED BY <1>2, <2>1, <2>2 DEF requestBootstrapToken
<1>3. ASSUME NEW p \in Gates, NEW t \in Tokens, finalizeBootstrapToken(p, t)
      PROVE  TokenInv'
  <2>1. 0 \in 0 .. issued /\ 0 \notin 1 .. issued /\ issued' = issued
    BY <1>3 DEF finalizeBootstrapToken
  <2>2. CASE /\ t = pending[p] /\ pending[p] # 0
             /\ pending' = [pending EXCEPT ![p] = 0]
             /\ used' = used \cup {t}
             /\ evidence' = evidence \cup {"token"}
    <3>1. t \in 1 .. issued
      BY <2>2
    <3> QED BY <2>1, <2>2, <3>1
  <2>3. CASE /\ pending' \in {pending, [pending EXCEPT ![p] = 0]}
             /\ UNCHANGED <<used, evidence>>
    <3>1. 0 \notin used
      BY <2>1
    <3> QED BY <2>1, <2>3, <3>1
  <2> QED BY <1>3, <2>2, <2>3 DEF finalizeBootstrapToken
<1>4. ASSUME NEW p \in Gates, restartGate(p)
      PROVE  TokenInv'
  <2>1. 0 \in 0 .. issued /\ 0 \notin used
    OBVIOUS
  <2> QED BY <1>4, <2>1 DEF restartGate
<1>5. ASSUME NEW p \in Gates, Mutates(p)
      PROVE  "token" \in evidence' <=> "token" \in evidence
  BY <1>5 DEF Mutates
<1>6. ASSUME NEW p \in Gates, getBootstrapStatus(p) \/ forceBootstrapConfirmForTests(p)
                              \/ dispatchMutation(p) \/ directMutation(p) \/ ensureLoaded(p)
      PROVE  TokenInv'
  BY <1>1, <1>5, <1>6 DEF getBootstrapStatus, forceBootstrapConfirmForTests,
     dispatchMutation, directMutation, ensureLoaded, gateHist
<1>7. CASE tokenExpires \/ UNCHANGED gateVars
  BY <1>1, <1>7 DEF tokenExpires, gateVars, gateLocal, gateHist
<1> QED BY <1>2, <1>3, <1>4, <1>6, <1>7 DEF GateNext

(* A token confirms once, and only in the process that issued it.          *)
THEOREM GateTokensConfirmOnce == GateSpec => []TokenConfirmsOnce
<1>1. GateInit => TokenInv
  BY DEF GateInit, TokenInv, TokenConfirmsOnce
<1>2. TokenInv /\ [GateNext]_gateVars => TokenInv'
  BY TokenStep
<1>3. TokenInv => TokenConfirmsOnce
  BY DEF TokenInv
<1> QED BY <1>1, <1>2, <1>3, PTL DEF GateSpec

---------------------------------------------------------------------------
\* Sequences

(* Moving the head of the second of two sequences to the end of the first  *)
(* leaves what they are together.                                          *)
LEMMA HeadMoves ==
  ASSUME NEW S, NEW s \in Seq(S), NEW t \in Seq(S), t # <<>>
  PROVE  /\ Append(s, Head(t)) \in Seq(S) /\ Tail(t) \in Seq(S)
         /\ Append(s, Head(t)) \o Tail(t) = s \o t
<1>1. Head(t) \in S /\ Tail(t) \in Seq(S) /\ <<Head(t)>> \in Seq(S)
  BY HeadTailProperties
<1>2. Append(s, Head(t)) = s \o <<Head(t)>> /\ Append(s, Head(t)) \in Seq(S)
  BY <1>1, AppendIsConcat, AppendProperties
<1>3. <<Head(t)>> \o Tail(t) = t
  <2>1. /\ Len(<<Head(t)>>) = 1 /\ <<Head(t)>>[1] = t[1]
        /\ Len(Tail(t)) = Len(t) - 1 /\ Len(t) \in Nat \ {0}
        /\ \A i \in 1 .. Len(Tail(t)) : Tail(t)[i] = t[i + 1]
    BY HeadTailProperties, EmptySeq
  <2>2. /\ <<Head(t)>> \o Tail(t) \in Seq(S)
        /\ Len(<<Head(t)>> \o Tail(t)) = 1 + Len(Tail(t))
        /\ \A i \in 1 .. 1 + Len(Tail(t)) : (<<Head(t)>> \o Tail(t))[i] =
                     IF i <= 1 THEN <<Head(t)>>[i] ELSE Tail(t)[i - 1]
    BY <1>1, <2>1, ConcatProperties
  <2>3. ASSUME NEW i \in 1 .. Len(t)
        PROVE  (<<Head(t)>> \o Tail(t))[i] = t[i]
    <3>1. CASE i = 1
      BY <2>1, <2>2, <3>1
    <3>2. CASE i # 1
      <4>1. i - 1 \in 1 .. Len(Tail(t)) /\ i \in 1 .. 1 + Len(Tail(t)) /\ ~(i <= 1)
        BY <2>1, <3>2
      <4> QED BY <2>1, <2>2, <4>1
    <3> QED BY <3>1, <3>2
  <2> QED BY <2>1, <2>2, <2>3, SeqEqual
<1>4. (s \o <<Head(t)>>) \o Tail(t) = s \o (<<Head(t)>> \o Tail(t))
  <2>1. \A u \in Seq(S), v \in Seq(S) : (s \o u) \o v = s \o (u \o v)
    BY ConcatAssociative
  <2> QED BY <1>1, <2>1
<1> QED BY <1>1, <1>2, <1>3, <1>4

---------------------------------------------------------------------------
\* Handshake: no chunk is lost

(* The strengthening: once the server is up nothing is left to replay.     *)
ChunkInv ==
  /\ wire \in Seq(Chunks) /\ clientWrote \in Seq(Chunks)
  /\ early \in Seq(Chunks) /\ taken \in Seq(Chunks)
  /\ boot = "up" => early = <<>>
  /\ NoChunkLost

LEMMA ChunkInit == HandshakeInit => ChunkInv
<1>1. <<>> \in Seq(Chunks)
  BY EmptySeq
<1>2. <<>> \o <<>> \o <<>> = <<>>
  BY <1>1, ConcatEmptySeq
<1> QED BY <1>1, <1>2 DEF HandshakeInit, ChunkInv, NoChunkLost

LEMMA ChunkStep ==
  ASSUME ChunkInv, [HandshakeNext]_hsVars
  PROVE  ChunkInv'
<1>1. CASE ClientWrites
  <2>1. PICK c \in Chunks : wire' = Append(wire, c) /\ clientWrote' = Append(clientWrote, c)
    BY <1>1 DEF ClientWrites
  <2>2. taken \o early \in Seq(Chunks)
    BY ConcatProperties DEF ChunkInv
  <2>3. /\ <<c>> \in Seq(Chunks)
        /\ wire' = wire \o <<c>> /\ wire' \in Seq(Chunks)
        /\ clientWrote' = clientWrote \o <<c>> /\ clientWrote' \in Seq(Chunks)
    BY <2>1, AppendIsConcat, AppendProperties DEF ChunkInv
  <2>4. (taken \o early) \o (wire \o <<c>>) = ((taken \o early) \o wire) \o <<c>>
    BY <2>2, <2>3, ConcatAssociative DEF ChunkInv
  <2>5. UNCHANGED <<features, boot, early, taken>>
    BY <1>1 DEF ClientWrites
  <2> QED BY <2>3, <2>4, <2>5 DEF ChunkInv, NoChunkLost
<1>2. CASE earlyCapture
  <2>1. /\ wire' = Tail(wire) /\ wire # <<>> /\ boot = "loading"
        /\ early' = IF On("disableEarlyStdinBuffer") THEN early ELSE Append(early, Head(wire))
        /\ UNCHANGED <<features, boot, taken, clientWrote>>
    BY <1>2 DEF earlyCapture
  <2>2. /\ Append(early, Head(wire)) \in Seq(Chunks) /\ Tail(wire) \in Seq(Chunks)
        /\ Append(early, Head(wire)) \o Tail(wire) = early \o wire
    BY <2>1, HeadMoves DEF ChunkInv
  <2>3. /\ (taken \o early) \o wire = taken \o (early \o wire)
        /\ (taken \o Append(early, Head(wire))) \o Tail(wire)
             = taken \o (Append(early, Head(wire)) \o Tail(wire))
    <3> taken \in Seq(Chunks)
      BY DEF ChunkInv
    <3>1. \A u \in Seq(Chunks), v \in Seq(Chunks) : (taken \o u) \o v = taken \o (u \o v)
      BY ConcatAssociative
    <3> QED BY <2>2, <3>1 DEF ChunkInv
  <2>4. early' \in Seq(Chunks) /\ wire' \in Seq(Chunks)
    BY <2>1, <2>2 DEF ChunkInv
  <2>5. NoChunkLost'
    BY <2>1, <2>2, <2>3 DEF ChunkInv, NoChunkLost, On
  <2> QED BY <2>1, <2>4, <2>5 DEF ChunkInv
<1>3. CASE replayEarly
  <2>1. /\ taken' = Append(taken, Head(early)) /\ early' = Tail(early) /\ early # <<>>
        /\ boot = "replaying" /\ UNCHANGED <<features, boot, wire, clientWrote>>
    BY <1>3 DEF replayEarly, Data
  <2>2. /\ taken' \in Seq(Chunks) /\ early' \in Seq(Chunks)
        /\ taken' \o early' = taken \o early
    BY <2>1, HeadMoves DEF ChunkInv
  <2> QED BY <2>1, <2>2 DEF ChunkInv, NoChunkLost
<1>4. CASE stdinData
  <2>1. /\ taken' = Append(taken, Head(wire)) /\ wire' = Tail(wire) /\ wire # <<>>
        /\ boot = "up" /\ early = <<>> /\ UNCHANGED <<features, boot, early, clientWrote>>
    BY <1>4 DEF stdinData, Data, ChunkInv
  <2>2. /\ taken' \in Seq(Chunks) /\ wire' \in Seq(Chunks)
        /\ taken' \o wire' = taken \o wire
    BY <2>1, HeadMoves DEF ChunkInv
  <2>3. taken \o early = taken /\ taken' \o early = taken'
    BY <2>1, <2>2, ConcatEmptySeq DEF ChunkInv
  <2> QED BY <2>1, <2>2, <2>3 DEF ChunkInv, NoChunkLost
<1>5. CASE startSdkServer \/ replayDone
  BY <1>5 DEF startSdkServer, replayDone, ChunkInv, NoChunkLost
<1>6. CASE UNCHANGED <<features, wire, clientWrote, boot, early, taken>>
  BY <1>6 DEF ChunkInv, NoChunkLost
<1> QED
  BY <1>1, <1>2, <1>3, <1>4, <1>5, <1>6
  DEF HandshakeNext, hsVars, initializeSent, readyWatchdog, safetyTimeout,
      unconditionalFallback, handleInitializeDetected, scheduleSyntheticInitDispatch,
      scheduleForcedInitResult, fallbackSent, Fires

(* The transport is given every chunk, once and in order, whether it was   *)
(* read during the boot, the replay or later.                              *)
THEOREM HandshakeLosesNothing == HandshakeSpec => []NoChunkLost
<1>1. ChunkInv /\ [HandshakeNext]_hsVars => ChunkInv'
  BY ChunkStep
<1>2. ChunkInv => NoChunkLost
  BY DEF ChunkInv
<1> QED BY <1>1, <1>2, ChunkInit, PTL DEF HandshakeSpec

---------------------------------------------------------------------------
\* Handshake: server/ready once, after a result

(* ReadyOnceAfterResult of any sequence of frames.                         *)
WellOpened(s) ==
  \A i \in 1 .. Len(s) :
    s[i] = "ready" =>
      /\ \E j \in 1 .. i - 1 : s[j] = "result"
      /\ \A j \in 1 .. i - 1 : s[j] # "ready"
Written(s, f) == \E i \in 1 .. Len(s) : s[i] = f

LEMMA OpenedAppend ==
  ASSUME NEW s \in Seq(Frames), WellOpened(s), NEW f \in Frames \ {"ready"}
  PROVE  /\ Append(s, f) \in Seq(Frames) /\ WellOpened(Append(s, f))
         /\ Written(Append(s, f), f)
         /\ Written(s, "result") => Written(Append(s, f), "result")
         /\ Written(Append(s, f), "ready") => Written(s, "ready")
<1>1. /\ Len(Append(s, f)) = Len(s) + 1 /\ Len(s) \in Nat /\ Append(s, f) \in Seq(Frames)
      /\ \A i \in 1 .. Len(s) : Append(s, f)[i] = s[i]
      /\ Append(s, f)[Len(s) + 1] = f
  BY AppendProperties, LenProperties
<1>2. \A i \in 1 .. Len(s) + 1 : i \in 1 .. Len(s) \/ i = Len(s) + 1
  BY <1>1
<1>3. ASSUME NEW i \in 1 .. Len(s) + 1, Append(s, f)[i] = "ready"
      PROVE  /\ i \in 1 .. Len(s)
             /\ \E j \in 1 .. i - 1 : Append(s, f)[j] = "result"
             /\ \A j \in 1 .. i - 1 : Append(s, f)[j] # "ready"
  <2>1. i \in 1 .. Len(s) /\ s[i] = "ready"
    BY <1>1, <1>2, <1>3
  <2>2. \A j \in 1 .. i - 1 : j \in 1 .. Len(s)
    BY <1>1, <2>1
  <2> QED BY <1>1, <2>1, <2>2 DEF WellOpened
<1>4. \A i \in 1 .. Len(s) : i \in 1 .. Len(s) + 1
  BY <1>1
<1>5. Len(s) + 1 \in 1 .. Len(s) + 1
  BY <1>1
<1> QED BY <1>1, <1>3, <1>4, <1>5 DEF WellOpened, Written

(* server/ready, then frames that are not, after a result and no other.    *)
LEMMA OpenedReady ==
  ASSUME NEW s \in Seq(Frames), Written(s, "result"), ~Written(s, "ready"),
         NEW t \in Seq(Frames), t # <<>>, \A i \in 2 .. Len(t) : t[i] # "ready"
  PROVE  s \o t \in Seq(Frames) /\ WellOpened(s \o t) /\ Written(s \o t, "result")
<1>1. Len(s) \in Nat /\ Len(t) \in Nat
  BY LenProperties
<1>2. /\ Len(s \o t) = Len(s) + Len(t) /\ s \o t \in Seq(Frames)
      /\ \A i \in 1 .. Len(s) + Len(t) :
           (s \o t)[i] = IF i <= Len(s) THEN s[i] ELSE t[i - Len(s)]
  BY ConcatProperties
<1>3. PICK r \in 1 .. Len(s) : s[r] = "result"
  BY DEF Written
<1>4. ASSUME NEW i \in 1 .. Len(s) + Len(t), (s \o t)[i] = "ready"
      PROVE  i = Len(s) + 1
  <2>1. CASE i <= Len(s)
    <3>1. i \in 1 .. Len(s)
      BY <1>1, <2>1
    <3> QED BY <1>2, <1>4, <2>1, <3>1 DEF Written
  <2>2. CASE ~(i <= Len(s)) /\ i # Len(s) + 1
    <3>1. i - Len(s) \in 2 .. Len(t)
      BY <1>1, <2>2
    <3> QED BY <1>2, <1>4, <2>2, <3>1
  <2> QED BY <2>1, <2>2
<1>5. r \in 1 .. Len(s) + Len(t) /\ (s \o t)[r] = "result"
  BY <1>1, <1>2, <1>3
<1>6. WellOpened(s \o t)
  <2> SUFFICES ASSUME NEW i \in 1 .. Len(s) + Len(t), (s \o t)[i] = "ready"
               PROVE  /\ \E j \in 1 .. i - 1 : (s \o t)[j] = "result"
                      /\ \A j \in 1 .. i - 1 : (s \o t)[j] # "ready"
    BY <1>2 DEF WellOpened
  <2>1. i = Len(s) + 1
    BY <1>4
  <2>2. r \in 1 .. i - 1
    BY <1>1, <2>1
  <2>3. \A j \in 1 .. i - 1 : j \in 1 .. Len(s) + Len(t) /\ j # Len(s) + 1
    BY <1>1, <2>1
  <2> QED BY <1>4, <1>5, <2>2, <2>3
<1> QED BY <1>2, <1>5, <1>6 DEF Written

(* The strengthening: what may lead to server/ready comes after a result,  *)
(* and server/ready leaves a flag that nobody takes back.                  *)
OpenInv ==
  /\ out \in Seq(Frames) /\ immediates \in Nat
  /\ WellOpened(out)
  /\ Written(out, "ready") => "notified" \in flags
  /\ "respSent" \in flags \/ immediates > 0 \/ draining # {} => Written(out, "result")

LEMMA OpenInit == HandshakeInit => OpenInv
<1>1. <<>> \in Seq(Frames) /\ Len(<<>>) = 0
  BY EmptySeq
<1> QED BY <1>1 DEF HandshakeInit, OpenInv, WellOpened, Written

LEMMA OpenImplies == OpenInv => ReadyOnceAfterResult
  BY DEF OpenInv, WellOpened, ReadyOnceAfterResult

(* A step that writes nothing, and takes no flag away.                     *)
LEMMA OpenQuiet ==
  ASSUME OpenInv, UNCHANGED out, flags \subseteq flags', immediates' \in Nat,
         "respSent" \in flags' \/ immediates' > 0 \/ draining' # {}
           => "respSent" \in flags \/ immediates > 0 \/ draining # {}
  PROVE  OpenInv'
BY DEF OpenInv

(* A step that writes one frame, a result if it arms anything.             *)
LEMMA OpenFrame ==
  ASSUME OpenInv, NEW f \in Frames \ {"ready"}, out' = Append(out, f),
         flags \subseteq flags', immediates' \in Nat,
         f = "result" \/ ("respSent" \in flags' \/ immediates' > 0 \/ draining' # {}
                            => "respSent" \in flags \/ immediates > 0 \/ draining # {})
  PROVE  OpenInv'
BY OpenedAppend DEF OpenInv

(* A step that writes server/ready, and perhaps answers a ping.            *)
LEMMA OpenReady ==
  ASSUME OpenInv, Written(out, "result"), "notified" \notin flags, "notified" \in flags',
         immediates' \in Nat,
         out' \in {out \o <<"ready", "listChanged">>,
                   out \o <<"ready", "listChanged", "answer">>}
  PROVE  OpenInv'
<1>1. ASSUME NEW t \in Seq(Frames), t # <<>>, out' = out \o t,
             \A i \in 2 .. Len(t) : t[i] # "ready"
      PROVE  OpenInv'
  <2>1. out \in Seq(Frames) /\ ~Written(out, "ready")
    BY DEF OpenInv
  <2>2. out' \in Seq(Frames) /\ WellOpened(out') /\ Written(out', "result")
    BY <1>1, <2>1, OpenedReady
  <2> QED BY <2>2 DEF OpenInv
<1>2. CASE out' = out \o <<"ready", "listChanged">>
  <2> DEFINE t == <<"ready", "listChanged">>
  <2>1. t \in Seq(Frames) /\ t # <<>> /\ \A i \in 2 .. Len(t) : t[i] # "ready"
    BY DEF Frames
  <2> QED BY <1>1, <1>2, <2>1
<1>3. CASE out' = out \o <<"ready", "listChanged", "answer">>
  <2> DEFINE t == <<"ready", "listChanged", "answer">>
  <2>1. t \in Seq(Frames) /\ t # <<>> /\ \A i \in 2 .. Len(t) : t[i] # "ready"
    BY DEF Frames
  <2> QED BY <1>1, <1>3, <2>1
<1> QED BY <1>2, <1>3

(* The emitter, with flags that hold respSent or a made-up result written. *)
LEMMA OpenEmits ==
  ASSUME OpenInv, NEW fl, NEW reason, flags \subseteq fl, emitReadyGlobal(fl, reason),
         immediates' \in Nat,
         "notified" \in fl => "notified" \in flags,
         "respSent" \in fl \/ reason \in MadeUp => Written(out, "result"),
         immediates' > 0 => immediates > 0,
         draining' # {} => draining # {}
  PROVE  OpenInv'
<1>1. CASE MayEmit(fl, reason)
  <2>1. "notified" \notin fl /\ Written(out, "result")
    BY <1>1 DEF MayEmit
  <2>2. flags' = fl \cup {"notified"} /\ out' = out \o <<"ready", "listChanged">>
    BY <1>1 DEF emitReadyGlobal
  <2> QED BY <2>1, <2>2, OpenReady
<1>2. CASE ~MayEmit(fl, reason)
  <2>1. flags' = fl /\ out' = out
    BY <1>2 DEF emitReadyGlobal
  <2> QED BY <2>1 DEF OpenInv
<1> QED BY <1>1, <1>2

LEMMA OpenData ==
  ASSUME OpenInv, NEW c \in Chunks, Data(c), UNCHANGED draining
  PROVE  OpenInv'
<1>1. PICK detected \in BOOLEAN :
        LET fl == Sniffed(detected)
        IN CASE c = "init"  -> initialize(fl)
             [] c = "tail"  -> IF half = "yes" THEN initialize(fl) ELSE Quiet(fl)
             [] c = "head"  -> Quiet(fl)
             [] c = "ping"  -> ping(fl)
             [] c = "call"  -> /\ flags' = fl
                               /\ out' = Append(out, "answer")
                               /\ UNCHANGED immediates
  BY DEF Data
<1> DEFINE fl == Sniffed(detected)
<1>2. flags \subseteq fl /\ fl \subseteq flags \cup {"sniffed"}
  BY DEF Sniffed
<1>3. \/ initialize(fl) \/ Quiet(fl) \/ ping(fl)
      \/ flags' = fl /\ out' = Append(out, "answer") /\ UNCHANGED immediates
  BY <1>1 DEF Chunks
<1> HIDE DEF fl
<1>4. immediates \in Nat /\ immediates + 1 \in Nat
  BY DEF OpenInv
<1>5. CASE initialize(fl)
  BY <1>2, <1>4, <1>5, OpenFrame DEF initialize, Frames
<1>6. CASE Quiet(fl)
  BY <1>2, <1>4, <1>6, OpenQuiet DEF Quiet
<1>7. CASE flags' = fl /\ out' = Append(out, "answer") /\ UNCHANGED immediates
  BY <1>2, <1>4, <1>7, OpenFrame DEF Frames
<1>8. CASE ping(fl)
  <2>1. CASE {"sawInit", "respSent"} \subseteq fl /\ MayEmit(fl, "ping-trigger")
    <3>1. "respSent" \in flags /\ "notified" \notin flags
      BY <1>2, <2>1 DEF MayEmit
    <3>2. Written(out, "result")
      BY <3>1 DEF OpenInv
    <3>3. /\ flags' = fl \cup {"notified"} /\ immediates' = immediates
          /\ out' = out \o <<"ready", "listChanged", "answer">>
      BY <1>8, <2>1 DEF ping
    <3> QED BY <1>4, <3>1, <3>2, <3>3, OpenReady
  <2>2. CASE ~({"sawInit", "respSent"} \subseteq fl /\ MayEmit(fl, "ping-trigger"))
    <3>1. flags' = fl /\ immediates' = immediates /\ out' = out \o <<"answer">>
      BY <1>8, <2>2 DEF ping
    <3>2. out' = Append(out, "answer")
      BY <3>1, AppendIsConcat DEF OpenInv, Frames
    <3> QED BY <1>2, <1>4, <3>1, <3>2, OpenFrame DEF Frames
  <2> QED BY <2>1, <2>2
<1> QED BY <1>3, <1>5, <1>6, <1>7, <1>8

LEMMA OpenStep ==
  ASSUME OpenInv, ChunkInv, [HandshakeNext]_hsVars
  PROVE  OpenInv'
<1>0. immediates \in Nat
  BY DEF OpenInv
<1>1. CASE stdinData
  <2>1. Head(wire) \in Chunks
    BY <1>1, HeadTailProperties DEF stdinData, ChunkInv
  <2> QED BY <1>1, <2>1, OpenData DEF stdinData
<1>2. CASE replayEarly
  <2>1. Head(early) \in Chunks
    BY <1>2, HeadTailProperties DEF replayEarly, ChunkInv
  <2> QED BY <1>2, <2>1, OpenData DEF replayEarly
<1>3. CASE initializeSent
  <2>1. /\ immediates > 0 /\ immediates' = immediates - 1 /\ immediates' \in Nat
        /\ draining' = draining
        /\ emitReadyGlobal(flags \cup {"respSent"}, "initialize-handler")
    BY <1>0, <1>3 DEF initializeSent
  <2>2. Written(out, "result")
    BY <2>1 DEF OpenInv
  <2> QED BY <2>1, <2>2, OpenEmits DEF MadeUp
<1>4. CASE readyWatchdog
  <2>1. CASE emitReadyGlobal(flags, "watchdog")
    BY <1>0, <1>4, <2>1, OpenEmits DEF readyWatchdog, MadeUp, OpenInv
  <2>2. CASE UNCHANGED <<flags, out>>
    BY <1>0, <1>4, <2>2, OpenQuiet DEF readyWatchdog
  <2> QED BY <1>4, <2>1, <2>2 DEF readyWatchdog
<1>5. CASE safetyTimeout
  <2>1. CASE emitReadyGlobal(flags, "safety-timeout-100ms")
    BY <1>0, <1>5, <2>1, OpenEmits DEF safetyTimeout, MadeUp, OpenInv
  <2>2. CASE UNCHANGED <<flags, out>>
    BY <1>0, <1>5, <2>2, OpenQuiet DEF safetyTimeout
  <2> QED BY <1>5, <2>1, <2>2 DEF safetyTimeout
<1>6. CASE handleInitializeDetected
  <2> DEFINE fl == flags \cup {"sawInit"}
  <2>1. immediates' = immediates /\ draining' = draining
    BY <1>6 DEF handleInitializeDetected
  <2>2. CASE emitReadyGlobal(fl, "stdin-sniff-fallback")
    BY <1>0, <2>1, <2>2, OpenEmits DEF MadeUp, OpenInv
  <2>3. CASE flags' = fl /\ UNCHANGED out
    BY <1>0, <2>1, <2>3, OpenQuiet
  <2> QED BY <1>6, <2>2, <2>3 DEF handleInitializeDetected
<1>7. CASE scheduleSyntheticInitDispatch
  <2> DEFINE fl == flags \cup {"dispatched"}
  <2>1. draining' = draining /\ immediates + 1 \in Nat
    BY <1>0, <1>7 DEF scheduleSyntheticInitDispatch
  <2>2. CASE initialize(fl)
    BY <2>1, <2>2, OpenFrame DEF initialize, Frames
  <2>3. CASE Quiet(fl)
    BY <1>0, <2>1, <2>3, OpenQuiet DEF Quiet
  <2>4. CASE UNCHANGED <<flags, out, immediates>>
    BY <1>0, <2>1, <2>4, OpenQuiet
  <2> QED BY <1>7, <2>2, <2>3, <2>4 DEF scheduleSyntheticInitDispatch
<1>8. CASE unconditionalFallback \/ scheduleForcedInitResult
  <2>1. immediates' = immediates
    BY <1>8 DEF unconditionalFallback, scheduleForcedInitResult
  <2>2. ASSUME NEW reason, MakeUpResult(reason)
        PROVE  OpenInv'
    BY <1>0, <2>1, <2>2, OpenFrame DEF MakeUpResult, Frames
  <2>3. CASE UNCHANGED <<flags, out, draining>>
    BY <1>0, <2>1, <2>3, OpenQuiet
  <2> QED BY <1>8, <2>2, <2>3 DEF unconditionalFallback, scheduleForcedInitResult
<1>9. CASE fallbackSent
  <2>1. PICK reason \in draining :
          draining' = draining \ {reason} /\ emitReadyGlobal(flags, reason)
    BY <1>9 DEF fallbackSent
  <2>2. immediates' = immediates /\ Written(out, "result")
    BY <1>9, <2>1 DEF fallbackSent, OpenInv
  <2> QED BY <1>0, <2>1, <2>2, OpenEmits
<1>10. CASE UNCHANGED <<flags, immediates, draining, out>>
  BY <1>0, <1>10, OpenQuiet
<1> QED
  BY <1>1, <1>2, <1>3, <1>4, <1>5, <1>6, <1>7, <1>8, <1>9, <1>10
  DEF HandshakeNext, hsVars, ClientWrites, earlyCapture, startSdkServer, replayDone

(* server/ready is written once, and only after a result: whatever options *)
(* are on and in whatever order the callbacks that may write it come.      *)
THEOREM HandshakeReadyOnce == HandshakeSpec => []ReadyOnceAfterResult
<1>1. HandshakeInit => OpenInv /\ ChunkInv
  BY OpenInit, ChunkInit
<1>2. OpenInv /\ ChunkInv /\ [HandshakeNext]_hsVars => (OpenInv /\ ChunkInv)'
  BY OpenStep, ChunkStep
<1> QED BY <1>1, <1>2, OpenImplies, PTL DEF HandshakeSpec

---------------------------------------------------------------------------
\* Handshake: typing

(* What the types say besides ChunkInv and OpenInv.                        *)
MarksTyped ==
  /\ features \subseteq Options
  /\ boot \in {"loading", "replaying", "up"} /\ half \in {"no", "yes"}
  /\ flags \subseteq Flags /\ timers \subseteq Timers /\ draining \subseteq MadeUp

LEMMA EmitsTyped ==
  ASSUME NEW fl \in SUBSET Flags, NEW reason, emitReadyGlobal(fl, reason)
  PROVE  flags' \subseteq Flags
  BY DEF emitReadyGlobal, Flags

LEMMA DataTyped ==
  ASSUME MarksTyped, NEW c \in Chunks, Data(c)
  PROVE  half' \in {"no", "yes"} /\ flags' \subseteq Flags /\ timers' \subseteq Timers
<1>1. PICK detected \in BOOLEAN :
        /\ timers' = timers \cup (IF detected THEN {"detect"} ELSE {})
        /\ LET fl == Sniffed(detected)
           IN CASE c = "init"  -> initialize(fl)
                [] c = "tail"  -> IF half = "yes" THEN initialize(fl) ELSE Quiet(fl)
                [] c = "head"  -> Quiet(fl)
                [] c = "ping"  -> ping(fl)
                [] c = "call"  -> /\ flags' = fl
                                  /\ out' = Append(out, "answer")
                                  /\ UNCHANGED immediates
  BY DEF Data
<1> DEFINE fl == Sniffed(detected)
<1>2. fl \subseteq Flags
  BY DEF Sniffed, MarksTyped, Flags
<1>3. initialize(fl) \/ Quiet(fl) \/ ping(fl) \/ flags' = fl
  BY <1>1 DEF Chunks
<1> HIDE DEF fl
<1>4. flags' \subseteq Flags
  BY <1>2, <1>3 DEF initialize, Quiet, ping, Flags
<1> QED BY <1>1, <1>4 DEF Data, MarksTyped, Timers

LEMMA MarksStep ==
  ASSUME MarksTyped, ChunkInv, [HandshakeNext]_hsVars
  PROVE  MarksTyped'
<1> USE DEF MarksTyped
<1>1. CASE ClientWrites \/ earlyCapture \/ replayDone \/ UNCHANGED hsVars
  BY <1>1 DEF ClientWrites, earlyCapture, replayDone, hsVars
<1>2. CASE startSdkServer
  BY <1>2 DEF startSdkServer, Timers
<1>3. CASE replayEarly
  <2>1. Head(early) \in Chunks
    BY <1>3, HeadTailProperties DEF replayEarly, ChunkInv
  <2> QED BY <1>3, <2>1, DataTyped DEF replayEarly
<1>4. CASE stdinData
  <2>1. Head(wire) \in Chunks
    BY <1>4, HeadTailProperties DEF stdinData, ChunkInv
  <2> QED BY <1>4, <2>1, DataTyped DEF stdinData
<1>5. CASE initializeSent
  <2>1. flags \cup {"respSent"} \in SUBSET Flags
    BY DEF Flags
  <2> QED BY <1>5, <2>1, EmitsTyped DEF initializeSent
<1>6. CASE readyWatchdog \/ safetyTimeout
  BY <1>6, EmitsTyped DEF readyWatchdog, safetyTimeout, Fires
<1>7. CASE unconditionalFallback \/ scheduleForcedInitResult
  BY <1>7 DEF unconditionalFallback, scheduleForcedInitResult, MakeUpResult, Fires, Flags,
     MadeUp
<1>8. CASE handleInitializeDetected
  <2>1. flags \cup {"sawInit"} \in SUBSET Flags
    BY DEF Flags
  <2>2. flags' \subseteq Flags
    BY <1>8, <2>1, EmitsTyped DEF handleInitializeDetected
  <2> QED BY <1>8, <2>2 DEF handleInitializeDetected, Fires, Timers
<1>9. CASE scheduleSyntheticInitDispatch
  <2>1. flags' \subseteq Flags
    BY <1>9 DEF scheduleSyntheticInitDispatch, initialize, Quiet, Flags
  <2> QED BY <1>9, <2>1 DEF scheduleSyntheticInitDispatch, Fires
<1>10. CASE fallbackSent
  BY <1>10, EmitsTyped DEF fallbackSent
<1> QED
  BY <1>1, <1>2, <1>3, <1>4, <1>5, <1>6, <1>7, <1>8, <1>9, <1>10 DEF HandshakeNext

(* Every variable of the handshake has its type, however much is written.  *)
THEOREM HandshakeTypeCorrect == HandshakeSpec => []HandshakeTypeOK
<1>1. HandshakeInit => OpenInv /\ ChunkInv /\ MarksTyped
  BY OpenInit, ChunkInit DEF HandshakeInit, MarksTyped
<1>2. OpenInv /\ ChunkInv /\ MarksTyped /\ [HandshakeNext]_hsVars
        => (OpenInv /\ ChunkInv /\ MarksTyped)'
  BY OpenStep, ChunkStep, MarksStep
<1>3. OpenInv /\ ChunkInv /\ MarksTyped => HandshakeTypeOK
  BY DEF OpenInv, ChunkInv, MarksTyped, HandshakeTypeOK
<1> QED BY <1>1, <1>2, <1>3, PTL DEF HandshakeSpec
=============================================================================
