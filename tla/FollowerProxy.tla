--------------------------- MODULE FollowerProxy ---------------------------
(***************************************************************************)
(* What start-up does with the outcome of the leader election              *)
(* (server/multiInstanceStartup.ts): a leader listens on its port for the  *)
(* calls of the others, a follower forwards every tool call to the leader  *)
(* through a thin client (dashboard/server/ThinClient.ts) and the          *)
(* transport executes it there (HttpTransport.ts, server/registry.ts), a   *)
(* promoted follower starts to listen and stops forwarding.                *)
(*                                                                         *)
(* The election itself is module LeaderElection; here it is the lock: who  *)
(* is named in it, won when nobody alive holds it, taken over from a       *)
(* leader that looks stale, taken back by that leader's next heartbeat.    *)
(*                                                                         *)
(* A call is tried up to MaxRetries times.  A try may find nobody on the   *)
(* port, be answered, or be given up (the socket fails or ten seconds      *)
(* pass) while the leader still has the request, and executes it later or  *)
(* never.  An answer arrives in pieces: if its leader ends between them,   *)
(* the caller hears of it only when the connection is reset, for it has no *)
(* listener for a response that is aborted, and no socket is left to time. *)
(***************************************************************************)
EXTENDS Naturals

CONSTANTS
  Servers,     \* the server processes
  Calls,       \* tool calls their clients make
  Ports,
  PortOf,      \* INDEX_SERVER_LEADER_PORT of each server
  NoServer,    \* nobody: no lock, a free port
  Foreign,     \* a program that is none of the servers
  MaxRetries,  \* tries per call (5 in the code)
  MaxSteals,   \* bound: times a live leader looks stale
  MaxErrors,   \* bound: times listening fails for another reason
  MaxExits     \* bound: servers that exit or are killed

ASSUME ProxyAssumption ==
  /\ PortOf \in [Servers -> Ports]
  /\ NoServer \notin Servers /\ Foreign \notin Servers
  /\ MaxRetries \in Nat \ {0}

Roles    == {"new", "leader", "follower", "stopped", "gone"}
Listens  == {"no", "starting", "retrying", "failed", "yes"}
CallStates == {"idle", "trying", "waiting", "cut", "ok", "failed"}
Tries    == Calls \X (1 .. MaxRetries)

VARIABLES
  lock,      \* the server named in leader.lock
  role,      \* its own idea of its role
  listens,   \* state of its HTTP transport
  bound,     \* who has each port
  proxy,     \* whether installHandlerProxy has a function
  wasFollower, \* history: servers that started as followers
  leaderUrl, \* the port the thin client has cached
  callState, callAt, callPort, callTry,
  requests,  \* requests delivered and not executed: <<call, try, server>>
  begun,     \* requests executed whose answer is being sent
  answers,   \* answers sent as a whole: <<call, try>>
  executed,  \* history: tries executed; try 0 is the server's own handler
  givenUp,   \* history: tries delivered and then given up
  steals, errors, exits

fpLock  == <<lock, role>>
fpServe == <<listens, bound, proxy, wasFollower>>
fpCall  == <<leaderUrl, callState, callAt, callPort, callTry, requests,
             begun, answers, executed, givenUp>>
fpBound == <<steals, errors, exits>>
fpVars  == <<fpLock, fpServe, fpCall, fpBound>>

ProxyInit ==
  /\ lock = NoServer
  /\ role = [p \in Servers |-> "new"]
  /\ listens = [p \in Servers |-> "no"]
  /\ bound \in [Ports -> {NoServer, Foreign}]
  /\ proxy = [p \in Servers |-> "off"]
  /\ wasFollower = {}
  /\ leaderUrl = [p \in Servers |-> NoServer]
  /\ callState = [c \in Calls |-> "idle"]
  /\ callAt = [c \in Calls |-> NoServer]
  /\ callPort = [c \in Calls |-> NoServer]
  /\ callTry = [c \in Calls |-> 0]
  /\ requests = {} /\ begun = {} /\ answers = {} /\ executed = {} /\ givenUp = {}
  /\ steals = 0 /\ errors = 0 /\ exits = 0

Up(p) == role[p] \in {"leader", "follower", "stopped"}

(***************************************************************************)
(* The election, as start-up sees it.                                      *)
(***************************************************************************)
LockIsFree == lock \notin {q \in Servers : Up(q)}

startAsLeader(p) ==
  /\ role[p] = "new" /\ LockIsFree
  /\ lock' = p
  /\ role' = [role EXCEPT ![p] = "leader"]
  /\ listens' = [listens EXCEPT ![p] = "starting"]
  /\ UNCHANGED <<bound, proxy, wasFollower, fpCall, fpBound>>

startAsFollower(p) ==
  /\ role[p] = "new" /\ ~LockIsFree
  /\ role' = [role EXCEPT ![p] = "follower"]
  /\ proxy' = [proxy EXCEPT ![p] = "on"]
  /\ wasFollower' = wasFollower \cup {p}
  /\ UNCHANGED <<lock, listens, bound, fpCall, fpBound>>

(* Mutant: the proxy is removed at once.                                   *)
promotedLocal(p) ==
  /\ role[p] = "follower" /\ LockIsFree
  /\ lock' = p
  /\ role' = [role EXCEPT ![p] = "leader"]
  /\ listens' = [listens EXCEPT ![p] = "starting"]
  /\ proxy' = [proxy EXCEPT ![p] = "off"]
  /\ UNCHANGED <<bound, wasFollower, fpCall, fpBound>>

(* The 'promoted' handler: listen first, the proxy stays.                  *)
promoted(p) ==
  /\ role[p] = "follower"
  /\ \/ LockIsFree /\ UNCHANGED steals
     \/ /\ lock \in Servers \ {p} /\ steals < MaxSteals
        /\ steals' = steals + 1
  /\ lock' = p
  /\ role' = [role EXCEPT ![p] = "leader"]
  /\ listens' = [listens EXCEPT ![p] = "starting"]
  /\ UNCHANGED <<bound, proxy, wasFollower, fpCall, errors, exits>>

(* A leader's heartbeat renames its own lock over whatever is there.       *)
heartbeat(p) ==
  /\ role[p] = "leader" /\ lock # p
  /\ lock' = p
  /\ UNCHANGED <<role, fpServe, fpCall, fpBound>>

Release(p) == lock' = IF lock = p THEN NoServer ELSE lock

electionStop(p) ==
  /\ Release(p)
  /\ role' = [role EXCEPT ![p] = "stopped"]

(***************************************************************************)
(* Listening.  Express (version 5) hands listen()'s callback the error     *)
(* event as well as the success: a promoted server's callback removes the  *)
(* proxy in both cases.  A server that cannot listen gives the lock up and *)
(* goes on alone; a promoted one whose port is taken tries once more after *)
(* two seconds, and nothing but that callback hears of a second failure.   *)
(***************************************************************************)
Free(p) == bound[PortOf[p]] = NoServer

listening(p) ==
  /\ listens[p] \in {"starting", "retrying"} /\ Up(p) /\ Free(p)
  /\ listens' = [listens EXCEPT ![p] = "yes"]
  /\ bound' = [bound EXCEPT ![PortOf[p]] = p]
  /\ proxy' = [proxy EXCEPT ![p] = "off"]
  /\ UNCHANGED <<fpLock, wasFollower, fpCall, fpBound>>

(* Mutant: a leader that cannot listen keeps the lock.                     *)
listenErrorKeeps(p) ==
  /\ listens[p] = "starting" /\ Up(p)
  /\ errors < MaxErrors /\ errors' = errors + 1
  /\ listens' = [listens EXCEPT ![p] = "failed"]
  /\ UNCHANGED <<fpLock, bound, proxy, wasFollower, fpCall, steals, exits>>

ListenFails(p) ==
  /\ Up(p)
  /\ \/ ~Free(p) /\ UNCHANGED errors
     \/ Free(p) /\ errors < MaxErrors /\ errors' = errors + 1
  /\ proxy' = [proxy EXCEPT ![p] = "off"]
  /\ UNCHANGED <<bound, wasFollower, fpCall, steals, exits>>

listenError(p) ==
  /\ listens[p] = "starting"
  /\ ListenFails(p)
  /\ IF p \in wasFollower /\ ~Free(p)
     THEN listens' = [listens EXCEPT ![p] = "retrying"] /\ UNCHANGED fpLock
     ELSE listens' = [listens EXCEPT ![p] = "failed"] /\ electionStop(p)

retryError(p) ==
  /\ listens[p] = "retrying"
  /\ ListenFails(p)
  /\ listens' = [listens EXCEPT ![p] = "failed"]
  /\ UNCHANGED fpLock

(* A server that ends takes its port, the requests it has and its clients' *)
(* calls with it.  Of the calls whose answer it was sending, those whose   *)
(* connection ends without a reset after the first piece are cut off.      *)
halfAnswered(p) == {c \in Calls : callState[c] = "waiting" /\ <<c, callTry[c], p>> \in begun}

exit(p) ==
  /\ Up(p) /\ exits < MaxExits
  /\ exits' = exits + 1
  /\ Release(p) \/ UNCHANGED lock        \* in order, or killed
  /\ role' = [role EXCEPT ![p] = "gone"]
  /\ listens' = [listens EXCEPT ![p] = "no"]
  /\ bound' = [q \in Ports |-> IF bound[q] = p THEN NoServer ELSE bound[q]]
  /\ requests' = {r \in requests : r[3] # p}
  /\ begun' = {r \in begun : r[3] # p}
  /\ \E cut \in SUBSET halfAnswered(p) :
       callState' = [c \in Calls |-> IF callAt[c] = p /\ callState[c] # "ok" THEN "failed"
                                    ELSE IF c \in cut THEN "cut" ELSE callState[c]]
  /\ UNCHANGED <<proxy, wasFollower, leaderUrl, callAt, callPort, callTry,
                 answers, executed, givenUp, steals, errors>>

foreignLeaves ==
  /\ \E q \in Ports : bound[q] = Foreign /\ bound' = [bound EXCEPT ![q] = NoServer]
  /\ UNCHANGED <<fpLock, listens, proxy, wasFollower, fpCall, fpBound>>

(***************************************************************************)
(* A tool call: executed here, or forwarded.  The URL is resolved once,    *)
(* from the lock or else from the cache, and kept for all the tries.       *)
(***************************************************************************)
resolveLeaderUrl(p) == IF lock \in Servers THEN PortOf[lock] ELSE leaderUrl[p]

callHere(c, p) ==
  /\ callState[c] = "idle" /\ Up(p) /\ proxy[p] = "off"
  /\ callState' = [callState EXCEPT ![c] = "ok"]
  /\ callAt' = [callAt EXCEPT ![c] = p]
  /\ executed' = executed \cup {<<c, 0>>}
  /\ UNCHANGED <<fpLock, fpServe, leaderUrl, callPort, callTry, requests, begun, answers,
                 givenUp, fpBound>>

callLeader(c, p) ==
  LET url == resolveLeaderUrl(p)
  IN /\ callState[c] = "idle" /\ Up(p) /\ proxy[p] = "on"
     /\ leaderUrl' = [leaderUrl EXCEPT ![p] = url]
     /\ callAt' = [callAt EXCEPT ![c] = p]
     /\ callPort' = [callPort EXCEPT ![c] = url]
     /\ callState' = [callState EXCEPT ![c] = IF url = NoServer THEN "failed" ELSE "trying"]
     /\ callTry' = [callTry EXCEPT ![c] = IF url = NoServer THEN 0 ELSE 1]
     /\ UNCHANGED <<fpLock, fpServe, requests, begun, answers, executed, givenUp, fpBound>>

(* Mutant: the tries are not counted.                                      *)
tryFailedUncounted(c) ==
  /\ callState' = [callState EXCEPT ![c] = "trying"]
  /\ leaderUrl' = [leaderUrl EXCEPT ![callAt[c]] = NoServer]
  /\ UNCHANGED callTry

(* The catch of sendRpc: forget the URL, sleep, and try again.             *)
tryFailed(c) ==
  IF callTry[c] < MaxRetries
  THEN /\ callState' = [callState EXCEPT ![c] = "trying"]
       /\ callTry' = [callTry EXCEPT ![c] = @ + 1]
       /\ leaderUrl' = [leaderUrl EXCEPT ![callAt[c]] = NoServer]
  ELSE /\ callState' = [callState EXCEPT ![c] = "failed"]
       /\ UNCHANGED <<callTry, leaderUrl>>

(* Mutant: the answer is not waited for, as if the connection had failed.  *)
httpPostUnread(c) ==
  LET q == bound[callPort[c]]
  IN /\ callState[c] = "trying"
     /\ tryFailed(c)
     /\ requests' = IF q \in Servers THEN requests \cup {<<c, callTry[c], q>>} ELSE requests
     /\ UNCHANGED <<fpLock, fpServe, callAt, callPort, begun, answers, executed, givenUp,
                    fpBound>>

httpPost(c) ==
  LET q == bound[callPort[c]]
  IN /\ callState[c] = "trying"
     /\ IF q \in Servers
        THEN /\ callState' = [callState EXCEPT ![c] = "waiting"]
             /\ requests' = requests \cup {<<c, callTry[c], q>>}
             /\ UNCHANGED <<callTry, leaderUrl>>
        ELSE tryFailed(c) /\ UNCHANGED requests
     /\ UNCHANGED <<fpLock, fpServe, callAt, callPort, begun, answers, executed, givenUp,
                    fpBound>>

(* The transport runs the server's own handler, whatever proxy is there,   *)
(* and answers, in one or more pieces.                                     *)
rpc(r) ==
  /\ r \in requests
  /\ requests' = requests \ {r}
  /\ executed' = executed \cup {<<r[1], r[2]>>}
  /\ begun' = begun \cup {r}
  /\ UNCHANGED <<fpLock, fpServe, leaderUrl, callState, callAt, callPort, callTry,
                 answers, givenUp, fpBound>>

answerSent(r) ==
  /\ r \in begun
  /\ begun' = begun \ {r}
  /\ answers' = answers \cup {<<r[1], r[2]>>}
  /\ UNCHANGED <<fpLock, fpServe, leaderUrl, callState, callAt, callPort, callTry,
                 requests, executed, givenUp, fpBound>>

(* Or it refuses the call (authentication, guardToolInvocation()), and the *)
(* caller, if it still waits for that try, has an error.                   *)
refused(r) ==
  /\ r \in requests
  /\ requests' = requests \ {r}
  /\ callState' = [callState EXCEPT ![r[1]] = IF @ = "waiting" /\ callTry[r[1]] = r[2]
                                             THEN "failed" ELSE @]
  /\ UNCHANGED <<fpLock, fpServe, leaderUrl, callAt, callPort, callTry, begun, answers,
                 executed, givenUp, fpBound>>

(* The answer is a result, or the error of the handler, which is thrown.   *)
answered(c) ==
  /\ callState[c] = "waiting" /\ <<c, callTry[c]>> \in answers
  /\ \E outcome \in {"ok", "failed"} : callState' = [callState EXCEPT ![c] = outcome]
  /\ answers' = answers \ {<<c, callTry[c]>>}
  /\ UNCHANGED <<fpLock, fpServe, leaderUrl, callAt, callPort, callTry, requests, begun,
                 executed, givenUp, fpBound>>

(* The request fails or times out: not once the connection of a call that  *)
(* was cut off is closed.                                                  *)
timeout(c) ==
  /\ callState[c] = "waiting"
  /\ givenUp' = givenUp \cup {<<c, callTry[c]>>}
  /\ tryFailed(c)
  /\ UNCHANGED <<fpLock, fpServe, callAt, callPort, requests, begun, answers, executed,
                 fpBound>>

ProxyNext ==
  \/ \E p \in Servers :
       \/ startAsLeader(p) \/ startAsFollower(p) \/ promoted(p) \/ heartbeat(p)
       \/ listening(p) \/ listenError(p) \/ retryError(p) \/ exit(p)
       \/ \E c \in Calls : callHere(c, p) \/ callLeader(c, p)
  \/ foreignLeaves
  \/ \E c \in Calls : httpPost(c) \/ answered(c) \/ timeout(c)
  \/ \E r \in requests : rpc(r) \/ refused(r)
  \/ \E r \in begun : answerSent(r)

ProxySpec == ProxyInit /\ [][ProxyNext]_fpVars

(***************************************************************************)
(* Properties.                                                             *)
(***************************************************************************)
ProxyTypeOK ==
  /\ lock \in Servers \cup {NoServer}
  /\ role \in [Servers -> Roles]
  /\ listens \in [Servers -> Listens]
  /\ bound \in [Ports -> Servers \cup {NoServer, Foreign}]
  /\ proxy \in [Servers -> {"on", "off"}]
  /\ wasFollower \subseteq Servers
  /\ leaderUrl \in [Servers -> Ports \cup {NoServer}]
  /\ callState \in [Calls -> CallStates]
  /\ callAt \in [Calls -> Servers \cup {NoServer}]
  /\ callPort \in [Calls -> Ports \cup {NoServer}]
  /\ callTry \in [Calls -> 0 .. MaxRetries]
  /\ requests \subseteq Calls \X (1 .. MaxRetries) \X Servers
  /\ begun \subseteq Calls \X (1 .. MaxRetries) \X Servers
  /\ answers \subseteq Tries /\ givenUp \subseteq Tries
  /\ executed \subseteq Calls \X (0 .. MaxRetries)

(* A call that reports success was executed, here or by a leader, and a    *)
(* second time only if a try that had been delivered was given up: a       *)
(* refused connection, a missing leader, another's answer or a promotion   *)
(* never loses or doubles a mutation.                                      *)
OnceUnlessGivenUp ==
  \A c \in Calls :
    /\ callState[c] = "ok" => \E k \in 0 .. MaxRetries : <<c, k>> \in executed
    /\ \A j, k \in 0 .. MaxRetries :
         <<c, j>> \in executed /\ <<c, k>> \in executed /\ j < k => <<c, j>> \in givenUp

(* A follower that has been promoted stops forwarding only when it listens *)
(* itself or its listening has failed: while the new transport starts, and *)
(* whoever takes the lock meanwhile, its calls go to a leader and not past *)
(* it ("starting HTTP transport before removing proxy",                    *)
(* multiInstanceStartup.ts:85).                                            *)
ListensBeforeLocal ==
  \A p \in wasFollower :
    Up(p) /\ proxy[p] = "off" => bound[PortOf[p]] = p \/ listens[p] \in {"retrying", "failed"}

(* A leader named in the lock comes to listen on its port, or gives the    *)
(* lock up, unless it is a promoted one that has failed twice: followers   *)
(* do not forward for ever to a leader that does not serve.                *)
LockHolderServes ==
  \A p \in Servers :
    lock = p /\ role[p] = "leader"
      ~> \/ bound[PortOf[p]] = p \/ lock # p \/ role[p] # "leader"
         \/ p \in wasFollower /\ listens[p] = "failed"

(* Every forwarded call is answered or fails, whatever becomes of the      *)
(* leaders it is tried on, unless one ends while it sends the answer.      *)
EveryCallReturns ==
  \A c \in Calls : callState[c] \in {"trying", "waiting"}
                     ~> callState[c] \in {"ok", "failed", "cut"}

(* Forwarding does not hang, on either side: its leader comes to serve or  *)
(* gives up the lock, and its caller gets an answer or an error, unless it *)
(* is cut off.                                                             *)
ForwardingIsLive == LockHolderServes /\ EveryCallReturns
=============================================================================
