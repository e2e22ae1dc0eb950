-------------------------- MODULE ServerPartsProofs --------------------------
(***************************************************************************)
(* What MCServerParts says of the parts: each part of the run's model      *)
(* behaves as its own specification allows, so a theorem about a part is a *)
(* theorem about the run, and every variable keeps its type.               *)
(***************************************************************************)
EXTENDS MCServerParts, AgentMailboxProofs, ArchiveStoreProofs, ServersProofs,
        FilesProofs

(* The run starts every part in an initial state of that part.             *)
LEMMA PartsStart ==
  PartsInit => /\ StoreInit /\ Init /\ HandshakeInit /\ ProxyInit /\ GateInit
               /\ RingInit /\ TclInit /\ BkInit /\ RegistryInit /\ AtomicInit
               /\ WindowsInit /\ SqliteInit
  BY DEF PartsInit

(* A step of the run is a step, or a stutter, of every part: the part that *)
(* acts takes one of its own steps, and the others keep their variables.   *)
LEMMA PartsStep ==
  [PartsNext]_partsVars =>
    /\ [StoreNext]_storeVars /\ [Next]_vars /\ [HandshakeNext]_hsVars
    /\ [ProxyNext]_fpVars /\ [GateNext]_gateVars /\ [RingNext]_ringVars
    /\ [TclNext]_tclVars /\ [BkNext]_bkVars /\ [RegistryNext]_regVars
    /\ [AtomicNext]_afVars /\ [WindowsNext]_bwVars /\ [SqliteNext]_sqVars
<1>1. CASE UNCHANGED partsVars
  BY <1>1 DEF partsVars
<1>2. CASE PartsNext
  BY <1>2 DEF PartsNext, Others, At
<1> QED BY <1>1, <1>2

(* The composition of independent parts is each of them: every behaviour   *)
(* of the run is, for each part, a behaviour of that part's specification. *)
(* So whatever is proved of the mailbox, the stores, the servers or the    *)
(* files holds in the model that TLC explores.                             *)
THEOREM PartsAreTheirSpecs ==
  PartsSpec => /\ StoreSpec /\ Spec /\ HandshakeSpec /\ ProxySpec /\ GateSpec
               /\ RingSpec /\ TclSpec /\ BkSpec /\ RegistrySpec /\ AtomicSpec
               /\ WindowsSpec /\ SqliteSpec
  BY PartsStart, PartsStep, PTL
     DEF PartsSpec, StoreSpec, Spec, HandshakeSpec, ProxySpec, GateSpec, RingSpec,
         TclSpec, BkSpec, RegistrySpec, AtomicSpec, WindowsSpec, SqliteSpec

(* Whichever part acts, every variable of every part keeps its type.       *)
THEOREM PartsTypeCorrect == PartsSpec => []PartsTypeOK
<1>1. PartsTypeOK <=> /\ StoreTypeOK /\ TypeOK /\ HandshakeTypeOK /\ ProxyTypeOK
                      /\ GateTypeOK /\ RingTypeOK /\ TclTypeOK /\ BkTypeOK
                      /\ RegistryTypeOK /\ AtomicTypeOK /\ SqliteTypeOK
  BY DEF PartsTypeOK
<1> QED
  BY <1>1, PartsAreTheirSpecs, ArchiveTypeCorrect, MailboxTypeCorrect,
     HandshakeTypeCorrect, ProxyTyped, GateTypeCorrect, RingTypeCorrect,
     CallLogTypeCorrect, BackupsTypeCorrect, RegistryTypeCorrect,
     AtomicTypeCorrect, SqliteTypeCorrect, PTL

(* The safety of the run, for any values of its constants: the parts whose *)
(* theorems ask for nothing else keep every promise that TLC checks there. *)
THEOREM PartsKeepTheirPromises ==
  PartsSpec =>
    /\ [](OnceUnlessGivenUp /\ ListensBeforeLocal /\ PortFilesAreTrue)
    /\ [](GateHolds /\ TokenConfirmsOnce)
    /\ [](NoChunkLost /\ ReadyOnceAfterResult)
    /\ [](RingIsLatest /\ LinesKeepEverything /\ FailureLosesNothing)
    /\ [](BulkRemoveKeepsACopy /\ PagesCoverBody)
    /\ NeverBelowMax /\ ImplementsRegister
  BY PartsAreTheirSpecs, ProxyExecutesOnce, ProxyListensFirst, RegistryIsTrue,
     GateAlwaysHolds, GateTokensConfirmOnce, HandshakeLosesNothing, HandshakeReadyOnce,
     ReadersGetTheLatest, LinesLoseNothing, FailedWritesLoseNothing,
     BulkRemoveIsBackedUp, PagesCover, PruningKeepsMax, AtomicImplementsRegister, PTL

(* The safety of the run that one process alone in its directory keeps:    *)
(* the mailbox, the archive and the SQLite store, as TLC checks them.      *)
THEOREM AlonePartsKeepTheirPromises ==
  ASSUME NEW p, NEW q, NEW w, Procs = {p}, Stores = {q}, Dbs = {w}
  PROVE  PartsSpec =>
           /\ []DiskIsTrue /\ MarksAreKept
           /\ NothingVanishes /\ []OneCopyAtRest
           /\ CleanMigrationIsFaithful /\ ImplementsContract
<1>1. p \in Procs
  OBVIOUS
<1>2. Spec => []DiskIsTrue
  BY <1>1, AloneLosesNothing
<1>3. Spec => MarksAreKept
  BY <1>1, AloneKeepsMarks
<1>4. StoreSpec => NothingVanishes
  BY AloneNothingVanishes
<1>5. StoreSpec => []OneCopyAtRest
  BY AloneOneCopyAtRest
<1>6. SqliteSpec => CleanMigrationIsFaithful
  BY AloneMigrationIsFaithful
<1>7. SqliteSpec => ImplementsContract
  BY AloneImplementsContract
<1> QED BY <1>2, <1>3, <1>4, <1>5, <1>6, <1>7, PartsAreTheirSpecs, PTL
=============================================================================
