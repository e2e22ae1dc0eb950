----------------------------- MODULE Handshake -----------------------------
(***************************************************************************)
(* How one server process opens an MCP session on its standard streams:    *)
(* the early capture of stdin while the process boots and its replay       *)
(* (server/index-server.ts), the initialize and ping handlers              *)
(* (server/sdkServer.ts), the sniffer of stdin with the requests and       *)
(* results it makes up (server/handshake/stdinSniffer.ts), the safety      *)
(* timers (safetyFallbacks.ts) and the emitter of server/ready             *)
(* (readyEmitter.ts).                                                      *)
(*                                                                         *)
(* A step is one callback of the event loop with the microtasks it leaves  *)
(* behind, so a handler's answer is written in the step that takes the     *)
(* request.  The request "init" may also come in two chunks, "head" (with  *)
(* the method's name) and "tail".  Timers fire in any order and as late as *)
(* they like.                                                              *)
(***************************************************************************)
EXTENDS Naturals, Sequences

CONSTANTS
  Options,    \* what INDEX_SERVER_INIT_FEATURES, healthMixed and
              \* INDEX_SERVER_DISABLE_EARLY_STDIN_BUFFER may switch on
  MaxChunks   \* bound: chunks the client writes

Chunks  == {"init", "head", "tail", "ping", "call"}
Timers  == {"watchdog", "safety", "unconditional", "detect", "synthetic", "forced"}
Flags   == {"sawInit", "respSent", "notified", "sniffed", "dispatched"}
Frames  == {"result", "answer", "ready", "listChanged"}

VARIABLES
  features,   \* the options that are on, for the life of the process
  wire,       \* chunks written by the client and not read yet
  clientWrote, \* history: every chunk the client has written
  boot,       \* "loading", "replaying" the early chunks, or "up"
  early,      \* __earlyInitChunks
  taken,      \* history: the chunks the transport was given
  half,       \* whether the transport holds the head of a request
  flags,      \* the __ properties of the server object that are set
  timers,     \* timers armed
  immediates, \* setImmediate callbacks of initialize handlers that wait
  draining,   \* made-up results whose send is not resolved yet
  out         \* frames written to stdout

hsVars == <<features, wire, clientWrote, boot, early, taken, half, flags, timers,
            immediates, draining, out>>

On(option) == option \in features

HandshakeInit ==
  /\ features \in SUBSET Options
  /\ wire = <<>> /\ clientWrote = <<>> /\ early = <<>> /\ taken = <<>> /\ out = <<>>
  /\ boot = "loading" /\ half = "no"
  /\ flags = {} /\ timers = {} /\ draining = {}
  /\ immediates = 0

(***************************************************************************)
(* The emitter: whether it writes, for a reason and the flags it finds.    *)
(***************************************************************************)
MadeUp == {"forced-init-fallback", "unconditional-init-fallback"}

(* Mutant: nobody looks whether it was written before.                     *)
MayEmitAgain(fl, reason) ==
  "respSent" \in fl \/ (On("handshakeFallbacks") /\ reason \in MadeUp)

MayEmit(fl, reason) ==
  /\ "notified" \notin fl
  /\ "respSent" \in fl \/ (On("handshakeFallbacks") /\ reason \in MadeUp)

emitReadyGlobal(fl, reason) ==
  IF MayEmit(fl, reason)
  THEN flags' = fl \cup {"notified"} /\ out' = out \o <<"ready", "listChanged">>
  ELSE flags' = fl /\ out' = out

(***************************************************************************)
(* The client.                                                             *)
(***************************************************************************)
ClientWrites ==
  /\ Len(clientWrote) < MaxChunks
  /\ \E c \in Chunks :
       /\ c = "tail" <=> (clientWrote # <<>> /\ clientWrote[Len(clientWrote)] = "head")
       /\ wire' = Append(wire, c)
       /\ clientWrote' = Append(clientWrote, c)
  /\ UNCHANGED <<features, boot, early, taken, half, flags, timers, immediates,
                 draining, out>>

(***************************************************************************)
(* Boot.  Until the transport is connected a chunk goes to the capture,    *)
(* and is lost when that is switched off: other listeners keep stdin       *)
(* flowing.                                                                *)
(***************************************************************************)
earlyCapture ==
  /\ boot = "loading" /\ wire # <<>>
  /\ wire' = Tail(wire)
  /\ early' = IF On("disableEarlyStdinBuffer") THEN early ELSE Append(early, Head(wire))
  /\ UNCHANGED <<features, clientWrote, boot, taken, half, flags, timers, immediates,
                 draining, out>>

startSdkServer ==
  /\ boot = "loading"
  /\ boot' = "replaying"
  /\ timers' = IF On("handshakeFallbacks")
               THEN {"watchdog", "safety", "unconditional"} ELSE {}
  /\ UNCHANGED <<features, wire, clientWrote, early, taken, half, flags, immediates,
                 draining, out>>

(***************************************************************************)
(* A chunk reaches the sniffer, then the transport.  The sniffer finds the *)
(* method by its name, and may take any other traffic for it (it looks for *)
(* the letters of "initialize" in sequence).                               *)
(***************************************************************************)
Sniffed(detected) == flags \cup (IF detected THEN {"sniffed"} ELSE {})

initialize(fl) ==
  /\ flags' = fl \cup {"sawInit"}
  /\ out' = Append(out, "result")
  /\ immediates' = immediates + 1

ping(fl) ==
  LET emits == {"sawInit", "respSent"} \subseteq fl /\ MayEmit(fl, "ping-trigger")
  IN /\ flags' = fl \cup (IF emits THEN {"notified"} ELSE {})
     /\ out' = out \o (IF emits THEN <<"ready", "listChanged", "answer">>
                                ELSE <<"answer">>)
     /\ UNCHANGED immediates

Quiet(fl) == flags' = fl /\ UNCHANGED <<out, immediates>>

Data(c) ==
  /\ taken' = Append(taken, c)
  /\ half' = IF c = "head" THEN "yes" ELSE "no"
  /\ \E detected \in BOOLEAN :
       /\ detected => "sniffed" \notin flags /\ ~On("disableSniff")
       /\ c \in {"init", "head"} /\ "sniffed" \notin flags /\ ~On("disableSniff")
            => detected
       /\ timers' = timers \cup (IF detected THEN {"detect"} ELSE {})
       /\ LET fl == Sniffed(detected)
          IN CASE c = "init"  -> initialize(fl)
               [] c = "tail"  -> IF half = "yes" THEN initialize(fl) ELSE Quiet(fl)
               [] c = "head"  -> Quiet(fl)
               [] c = "ping"  -> ping(fl)
               [] c = "call"  -> /\ flags' = fl
                                 /\ out' = Append(out, "answer")
                                 /\ UNCHANGED immediates

replayEarly ==
  /\ boot = "replaying" /\ early # <<>>
  /\ Data(Head(early))
  /\ early' = Tail(early)
  /\ UNCHANGED <<features, wire, clientWrote, boot, draining>>

(* Mutant: the transport takes new chunks before the replay is over.       *)
replayDoneEarly ==
  /\ boot = "replaying"
  /\ boot' = "up"
  /\ UNCHANGED <<features, wire, clientWrote, early, taken, half, flags, timers,
                 immediates, draining, out>>

replayDone ==
  /\ boot = "replaying" /\ early = <<>>
  /\ boot' = "up"
  /\ UNCHANGED <<features, wire, clientWrote, early, taken, half, flags, timers,
                 immediates, draining, out>>

stdinData ==
  /\ boot = "up" /\ wire # <<>>
  /\ Data(Head(wire))
  /\ wire' = Tail(wire)
  /\ UNCHANGED <<features, clientWrote, boot, early, draining>>

(* Mutant: the emitter is asked before the flag is set.                    *)
initializeSentUnset ==
  /\ boot = "up" /\ immediates > 0
  /\ immediates' = immediates - 1
  /\ emitReadyGlobal(flags, "initialize-handler")
  /\ UNCHANGED <<features, wire, clientWrote, boot, early, taken, half, timers, draining>>

(* The setImmediate of the initialize handler. *)
initializeSent ==
  /\ boot = "up" /\ immediates > 0
  /\ immediates' = immediates - 1
  /\ emitReadyGlobal(flags \cup {"respSent"}, "initialize-handler")
  /\ UNCHANGED <<features, wire, clientWrote, boot, early, taken, half, timers, draining>>

(***************************************************************************)
(* The timers, each of which fires once.                                   *)
(***************************************************************************)
Fires(t, armed) ==
  /\ boot = "up"
  /\ t \in timers
  /\ timers' = (timers \ {t}) \cup armed
  /\ UNCHANGED <<features, wire, clientWrote, boot, early, taken, half>>

readyWatchdog ==
  /\ Fires("watchdog", {})
  /\ IF "sawInit" \in flags THEN emitReadyGlobal(flags, "watchdog")
                            ELSE UNCHANGED <<flags, out>>
  /\ UNCHANGED <<immediates, draining>>

safetyTimeout ==
  /\ Fires("safety", {})
  /\ IF {"sawInit", "respSent"} \subseteq flags
     THEN emitReadyGlobal(flags, "safety-timeout-100ms")
     ELSE UNCHANGED <<flags, out>>
  /\ UNCHANGED <<immediates, draining>>

(* A result nobody may have asked for; server/ready once it is sent. *)
MakeUpResult(reason) ==
  /\ flags' = flags \cup {"respSent"}
  /\ out' = Append(out, "result")
  /\ draining' = draining \cup {reason}

unconditionalFallback ==
  /\ Fires("unconditional", {})
  /\ IF {"healthMixed", "initFallback"} \subseteq features /\ "respSent" \notin flags
     THEN MakeUpResult("unconditional-init-fallback")
     ELSE UNCHANGED <<flags, out, draining>>
  /\ UNCHANGED immediates

handleInitializeDetected ==
  LET fl == flags \cup {"sawInit"}
  IN /\ Fires("detect", IF On("initFallback") /\ "respSent" \notin flags
                        THEN {"synthetic", "forced"} ELSE {})
     /\ IF On("handshakeFallbacks") /\ "respSent" \in fl
        THEN emitReadyGlobal(fl, "stdin-sniff-fallback")
        ELSE flags' = fl /\ UNCHANGED out
     /\ UNCHANGED <<immediates, draining>>

(* The request is made up and dispatched to the same initialize handler,   *)
(* if the library has the method it is dispatched with.                    *)
scheduleSyntheticInitDispatch ==
  /\ Fires("synthetic", {})
  /\ IF flags \cap {"respSent", "dispatched"} = {}
     THEN \/ initialize(flags \cup {"dispatched"})
          \/ Quiet(flags \cup {"dispatched"})
     ELSE UNCHANGED <<flags, out, immediates>>
  /\ UNCHANGED draining

scheduleForcedInitResult ==
  /\ "synthetic" \notin timers
  /\ Fires("forced", {})
  /\ IF "respSent" \notin flags
     THEN MakeUpResult("forced-init-fallback")
     ELSE UNCHANGED <<flags, out, draining>>
  /\ UNCHANGED immediates

fallbackSent ==
  /\ boot = "up"
  /\ \E reason \in draining :
       /\ draining' = draining \ {reason}
       /\ emitReadyGlobal(flags, reason)
  /\ UNCHANGED <<features, wire, clientWrote, boot, early, taken, half, timers, immediates>>

HandshakeNext ==
  \/ ClientWrites
  \/ earlyCapture \/ startSdkServer \/ replayEarly \/ replayDone
  \/ stdinData \/ initializeSent
  \/ readyWatchdog \/ safetyTimeout \/ unconditionalFallback
  \/ handleInitializeDetected \/ scheduleSyntheticInitDispatch
  \/ scheduleForcedInitResult \/ fallbackSent

HandshakeSpec == HandshakeInit /\ [][HandshakeNext]_hsVars

(***************************************************************************)
(* Properties.                                                             *)
(***************************************************************************)
HandshakeTypeOK ==
  /\ features \subseteq Options
  /\ wire \in Seq(Chunks) /\ clientWrote \in Seq(Chunks)
  /\ early \in Seq(Chunks) /\ taken \in Seq(Chunks)
  /\ boot \in {"loading", "replaying", "up"} /\ half \in {"no", "yes"}
  /\ flags \subseteq Flags /\ timers \subseteq Timers
  /\ draining \subseteq MadeUp
  /\ immediates \in Nat
  /\ out \in Seq(Frames)

(* server/ready is written at most once, whichever of the seven callbacks  *)
(* that may emit it come first, and never before a result of initialize:   *)
(* with every fallback, and whatever the sniffer took for an initialize    *)
(* request (readyEmitter.ts).                                              *)
ReadyOnceAfterResult ==
  \A i \in 1 .. Len(out) :
    out[i] = "ready" =>
      /\ \E j \in 1 .. i - 1 : out[j] = "result"
      /\ \A j \in 1 .. i - 1 : out[j] # "ready"

(* No request is lost, doubled or reordered between the early capture, its *)
(* replay and the transport.                                               *)
NoChunkLost ==
  "disableEarlyStdinBuffer" \notin features => taken \o early \o wire = clientWrote

(* A client that sends initialize, in one chunk or two and as early as it  *)
(* likes, is sent server/ready.                                            *)
Has(s, S) == \E i \in 1 .. Len(s) : s[i] \in S

ReadyComes ==
  Has(clientWrote, {"init", "tail"}) /\ "disableEarlyStdinBuffer" \notin features
    ~> Has(out, {"ready"})
=============================================================================
