---------------------------- MODULE MCServerParts ----------------------------
(***************************************************************************)
(* Bounded instances for TLC of the parts of the server that share no      *)
(* state with each other, in one model: the first state chooses the part   *)
(* that acts, and the variables of the others keep one initial value, so   *)
(* the state spaces of the parts add up and do not multiply.               *)
(***************************************************************************)
EXTENDS ArchiveStore, AgentMailbox, Handshake, FollowerProxy, BootstrapGate,
        BufferRing, ToolCallLog, Backups, InstanceRegistry, AtomicFile,
        BodyWindows, SqliteStore, TLC

CONSTANTS p1, p2, p3, c1, c2, c3, c4, m1, m2, reader, i1, portA, portB,
          HandshakeCases, \* sets of options the handshake is checked with
          Parts           \* parts that are checked

(* AgentMailbox: one process, every operation.                             *)
OneProc   == {p1}
TwoMsgs   == {m1, m2}
BothMarks == {reader, "persistent"}
AllOps    == Ops

(* BodyWindows: offsets on both sides of the body's start; text that is    *)
(* empty, one unit and one pair.                                           *)
SomeOffsets == -1 .. 2
SomeTexts   == {<<>>, <<"plain">>, <<"high", "low">>}

(* FollowerProxy: two servers told to use one port.                        *)
OnePort == [p \in Servers |-> portA]

VARIABLE part

At(p) == part = p

PartsInit ==
  /\ part \in Parts
  /\ StoreInit /\ (~At("archive") => active = None /\ archived = Nothing)
  /\ Init
  /\ HandshakeInit
  /\ features \in (IF At("handshake") THEN HandshakeCases ELSE {{}})
  /\ ProxyInit /\ (~At("proxy") => bound = [q \in Ports |-> NoServer])
  /\ GateInit
  /\ RingInit
  /\ ~At("ring") => /\ use = "memory" /\ strategy = "drop-oldest"
                    /\ appendMode = "no" /\ preload = "no"
  /\ TclInit /\ (~At("calls") => appendLog = "off" /\ ringMode = "snapshot")
  /\ BkInit /\ (~At("backups") => inDir = {})
  /\ RegistryInit
  /\ AtomicInit /\ (~At("atomic") => entry = NoEntry)
  /\ WindowsInit
  /\ ~At("windows") => body = <<"plain">> /\ limit = 0 /\ at = 0
  /\ SqliteInit /\ (~At("sqlite") => jsonFile = NoRow /\ jsonArchive = NoKept)

Others(p) ==
  /\ part' = part
  /\ p # "archive"   => UNCHANGED storeVars
  /\ p # "mailbox"   => UNCHANGED vars
  /\ p # "handshake" => UNCHANGED hsVars
  /\ p # "proxy"     => UNCHANGED fpVars
  /\ p # "gate"      => UNCHANGED gateVars
  /\ p # "ring"      => UNCHANGED ringVars
  /\ p # "calls"     => UNCHANGED tclVars
  /\ p # "backups"   => UNCHANGED bkVars
  /\ p # "registry"  => UNCHANGED regVars
  /\ p # "atomic"    => UNCHANGED afVars
  /\ p # "windows"   => UNCHANGED bwVars
  /\ p # "sqlite"    => UNCHANGED sqVars

PartsNext ==
  \/ At("archive")   /\ StoreNext     /\ Others("archive")
  \/ At("mailbox")   /\ Next          /\ Others("mailbox")
  \/ At("handshake") /\ HandshakeNext /\ Others("handshake")
  \/ At("proxy")     /\ ProxyNext     /\ Others("proxy")
  \/ At("gate")      /\ GateNext      /\ Others("gate")
  \/ At("ring")      /\ RingNext      /\ Others("ring")
  \/ At("calls")     /\ TclNext       /\ Others("calls")
  \/ At("backups")   /\ BkNext        /\ Others("backups")
  \/ At("registry")  /\ RegistryNext  /\ Others("registry")
  \/ At("atomic")    /\ AtomicNext    /\ Others("atomic")
  \/ At("windows")   /\ WindowsNext   /\ Others("windows")
  \/ At("sqlite")    /\ SqliteNext    /\ Others("sqlite")

partsVars == <<part, storeVars, vars, hsVars, fpVars, gateVars, ringVars, tclVars,
               bkVars, regVars, afVars, bwVars, sqVars>>

(***************************************************************************)
(* Fairness.  Handshake: the process boots, and reads what it is sent;     *)
(* setImmediate callbacks run.  Proxy: listening succeeds or fails, a      *)
(* request is posted and, unless its answer is cut off, given up after ten *)
(* seconds.  Registry: the validation timer fires and its pings end.       *)
(***************************************************************************)
HandshakeFair ==
  /\ WF_hsVars(At("handshake") /\ startSdkServer)
  /\ WF_hsVars(At("handshake") /\ replayEarly)
  /\ WF_hsVars(At("handshake") /\ replayDone)
  /\ WF_hsVars(At("handshake") /\ stdinData)
  /\ WF_hsVars(At("handshake") /\ initializeSent)

ProxyFair ==
  /\ \A p \in Servers : /\ WF_fpVars(At("proxy") /\ listening(p))
                        /\ WF_fpVars(At("proxy") /\ listenError(p))
                        /\ WF_fpVars(At("proxy") /\ retryError(p))
  /\ \A c \in Calls : /\ WF_fpVars(At("proxy") /\ httpPost(c))
                      /\ WF_fpVars(At("proxy") /\ timeout(c))

RegistryFair ==
  \A p \in Pids :
    /\ WF_regVars(At("registry") /\ validateInstances(p))
    /\ WF_regVars(At("registry") /\ \E q \in Pids : checkNext(p, q))
    /\ WF_regVars(At("registry") /\ (pingFails(p) \/ \E q \in Pids : pingAnswers(p, q)))

PartsSpec ==
  PartsInit /\ [][PartsNext]_partsVars /\ HandshakeFair /\ ProxyFair /\ RegistryFair

(* Every variable of every part has its type.                              *)
PartsTypeOK ==
  /\ StoreTypeOK /\ TypeOK /\ HandshakeTypeOK /\ ProxyTypeOK /\ GateTypeOK
  /\ RingTypeOK /\ TclTypeOK /\ BkTypeOK /\ RegistryTypeOK /\ AtomicTypeOK
  /\ SqliteTypeOK
=============================================================================
