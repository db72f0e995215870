------------------------------- MODULE Runtime -------------------------------
(***************************************************************************)
(* The process (cmd/serve/main.go): Launcher.Start builds the components   *)
(* in a goroutine while Runtime.Run waits for one signal or for Start to   *)
(* fail; HTTP requests (internal/server/server.go) are answered meanwhile  *)
(* and may replace the configuration (internal/config/store.go).           *)
(*                                                                         *)
(* Start and Stop share the launcher's fields without a lock: Stop finds   *)
(* what Start has stored by the time it looks.  Once Run has returned, or  *)
(* a goroutine has panicked, nothing in the process takes another step.    *)
(***************************************************************************)
EXTENDS Integers, Sequences

CONSTANTS Configs,      \* configurations a request may post
          Default,      \* DefaultMMAConfig()
          MaxBootstrapAttempts,
          MaxRequests,  \* bound: HTTP requests
          MaxSignals    \* bound: signals sent

\* What ValidateConfig and a reload read of an MMAConfig.
MMAConfig == [version : STRING, mode : STRING, transport : STRING, address : STRING, tls : BOOLEAN,
              defaultTTL : Int, maxTTL : Int, poolSize : Int, timeout : Int]

ValidateConfig(c) ==
  /\ c.mode \in {"sidecar", "ambient", "sdk"}
  /\ c.transport \in {"grpc_uds", "grpc_tcp"} /\ c.address # ""
  /\ c.defaultTTL > 0 /\ c.maxTTL >= c.defaultTTL
  /\ c.poolSize > 0 /\ c.timeout > 0

ControlChannel(c) == <<c.address, c.transport, c.tls>>

ASSUME RuntimeConstantsOK ==
  /\ Configs \subseteq MMAConfig /\ Default \in Configs /\ ValidateConfig(Default)
  /\ MaxBootstrapAttempts \in Nat \ {0} /\ {MaxRequests, MaxSignals} \subseteq Nat

VARIABLES
  launch,    \* where Launcher.Start stands
  attempt,   \* certificates asked for
  hyphae,    \* HyphaeConfig.Enabled, with a tunnel address
  fields,    \* the launcher's fields that are not nil
  server,    \* the HTTP server
  requests,  \* HTTP requests accepted so far
  inFlight,  \* and those being handled
  config,    \* Store.config
  consumer,  \* the event consumer: running, its streamers, whether eventCh is closed
  signals,   \* Runtime.signals
  sent,      \* signals sent so far
  run,       \* where Run stands
  stopList,  \* what Launcher.Stop has yet to stop
  ctxDone,   \* whether Run has called cancel()
  reload,    \* the two copies a reload has read
  exit,      \* how the process ended
  applied,   \* history: the configuration last applied
  complete,  \* history: whether all had been started as Run took the signal to stop
  late       \* history: whether Shutdown gave up after 30 seconds

launchVars == <<launch, attempt, hyphae, fields>>
httpVars   == <<server, requests, inFlight>>
storeVars  == <<config, applied>>
signalVars == <<signals, sent>>
runVars    == <<run, stopList, ctxDone, reload, complete, late>>
vars == <<launchVars, httpVars, storeVars, consumer, signalVars, runVars, exit>>

Init ==
  /\ launch = "discovery" /\ attempt = 0 /\ hyphae \in BOOLEAN /\ fields = {}
  /\ server = "none" /\ requests = 0 /\ inFlight = 0
  /\ config = Default /\ applied = Default
  /\ consumer = [running |-> FALSE, streamers |-> 0, closed |-> FALSE]
  /\ signals = <<>> /\ sent = 0
  /\ run = "waiting" /\ stopList = <<>> /\ ctxDone = FALSE
  /\ complete = FALSE /\ late = FALSE
  /\ reload = [old |-> Default, new |-> Default]
  /\ exit = "none"

-----------------------------------------------------------------------------
(* Launcher.Start.                                                         *)

Launch(from, to) == launch = from /\ launch' = to
Store(f) == fields' = fields \cup {f} /\ UNCHANGED <<attempt, hyphae>>
StoreNothing == UNCHANGED <<attempt, hyphae, fields>>

NewEventConsumer ==
  /\ Launch("discovery", IF hyphae THEN "bootstrap" ELSE "consume")
  /\ Store("consumer") /\ UNCHANGED <<server, consumer>>

\* IssueLocalCertificate: an error is final only at the last attempt.
AskCertificate ==
  /\ \/ Launch("bootstrap", IF attempt + 1 < MaxBootstrapAttempts THEN "backoff" ELSE "failed")
     \/ Launch("bootstrap", "exposure")
  /\ attempt' = attempt + 1
  /\ UNCHANGED <<hyphae, fields, server, consumer>>

BackOff ==
  /\ Launch("backoff", "bootstrap") \/ (ctxDone /\ Launch("backoff", "failed"))
  /\ StoreNothing /\ UNCHANGED <<server, consumer>>

\* No kernel to ask, a certificate that cannot be parsed, no provider, or no
\* registration of its handlers.
WiringFails ==
  /\ \/ attempt = 0 /\ Launch("bootstrap", "failed")
     \/ Launch("exposure", "failed") \/ Launch("handlers", "failed")
  /\ StoreNothing /\ UNCHANGED <<server, consumer>>

NewExposureProvider ==
  Launch("exposure", "handlers") /\ Store("exposure") /\ UNCHANGED <<server, consumer>>

\* The handlers of links and channels, before any event comes in.
RegisterHandlers ==
  Launch("handlers", "consume") /\ StoreNothing /\ UNCHANGED <<server, consumer>>

\* EventConsumer.Start makes a new stopChan and keeps eventCh.
Started(c) == [c EXCEPT !.running = TRUE, !.streamers = @ + 1]

\* EventConsumer.Start.  It cannot fail for its TLS credentials: the consumer was
\* given the default configuration, before any could be applied, which has no TLS.
StartConsumer ==
  /\ \/ ~consumer.running /\ Launch("consume", "telemetry") /\ consumer' = Started(consumer)
     \/ consumer.running /\ Launch("consume", "failed") /\ UNCHANGED consumer
  /\ StoreNothing /\ UNCHANGED server

StartTelemetry == Launch("telemetry", "engine") /\ Store("telemetry") /\ UNCHANGED <<server, consumer>>
StartEngine    == Launch("engine", "server") /\ Store("engine") /\ UNCHANGED <<server, consumer>>

\* The server listens before the launcher has it in its field.
StartServer == /\ Launch("server", "storeServer") /\ server' = "up"
               /\ StoreNothing /\ UNCHANGED consumer
StoreServer == Launch("storeServer", "done") /\ Store("server") /\ UNCHANGED <<server, consumer>>

Start == \/ NewEventConsumer \/ AskCertificate \/ BackOff \/ WiringFails \/ NewExposureProvider
         \/ RegisterHandlers \/ StartConsumer \/ StartTelemetry \/ StartEngine \/ StartServer
         \/ StoreServer

-----------------------------------------------------------------------------
(* HTTP.                                                                   *)

\* ListenAndServe returns an error, which is logged and noticed by nobody.
ListenFails == server = "up" /\ requests = 0 /\ server' = "down"
               /\ UNCHANGED <<requests, inFlight, storeVars>>

Accept == /\ server = "up" /\ requests < MaxRequests
          /\ requests' = requests + 1 /\ inFlight' = inFlight + 1
          /\ UNCHANGED <<server, storeVars>>

Answer == /\ inFlight > 0 /\ inFlight' = inFlight - 1
          /\ UNCHANGED <<server, requests>>

\* Mutant of HandleConfigApply: ValidateConfig is not called.
HandleConfigApplyAny(c) == Answer /\ config' = c /\ applied' = c

\* handleConfigApply answers 400 to a configuration without a version or
\* that is not valid.
HandleConfigApply(c) ==
  /\ Answer
  /\ c.version # "" /\ ValidateConfig(c)
  /\ config' = c /\ applied' = c

HTTP == \/ ListenFails \/ Accept \/ (Answer /\ UNCHANGED storeVars)
        \/ \E c \in Configs : HandleConfigApply(c)

-----------------------------------------------------------------------------
(* The consumer's streamers.  One ends when the consumer is stopped, the   *)
(* context is done or the UA cancels the stream, and closes eventCh.       *)

StreamerEnds ==
  /\ consumer.streamers > 0
  /\ consumer' = [consumer EXCEPT !.streamers = @ - 1, !.closed = TRUE]
  /\ exit' = IF consumer.closed THEN "panic" ELSE exit

\* An event comes in after eventCh was closed.
StreamerSends ==
  /\ consumer.streamers > 0 /\ consumer.closed
  /\ exit' = "panic" /\ UNCHANGED consumer

-----------------------------------------------------------------------------
(* Runtime.Run and Launcher.Stop.                                          *)

\* The channel holds one signal; signal.Notify drops what does not fit.
Signal(s) == /\ sent < MaxSignals /\ sent' = sent + 1
             /\ signals' = IF signals = <<>> THEN <<s>> ELSE signals

Goto(s) == run' = s

ReturnError ==
  /\ run = "waiting" /\ launch = "failed"
  /\ exit' = "error"
  /\ UNCHANGED <<runVars, signals, server, config, consumer>>

\* Mutant of StopOrder: the engine comes first.
EngineFirst == <<"engine", "server", "exposure", "telemetry", "consumer">>

StopOrder == <<"server", "engine", "exposure", "telemetry", "consumer">>

\* SIGINT or SIGTERM: the context is cancelled, then the components are stopped.
Terminate ==
  /\ run = "waiting" /\ signals = <<"TERM">>
  /\ signals' = <<>> /\ ctxDone' = TRUE
  /\ Goto("stopping") /\ stopList' = StopOrder /\ complete' = (launch = "done")
  /\ UNCHANGED <<reload, late, server, config, consumer, exit>>

Stopping(c) == run = "stopping" /\ stopList # <<>> /\ Head(stopList) = c
StopNext    == run' = "stopping" /\ stopList' = Tail(stopList)

\* Server.Stop: no request comes in from now on.
ShutdownBegins ==
  /\ Stopping("server") /\ "server" \in fields
  /\ Goto("draining") /\ server' = "down"
  /\ UNCHANGED <<stopList, ctxDone, reload, complete, late, signals, config, consumer, exit>>

\* Mutants of ShutdownEnds: the requests are cut off, or waited for without end.
ShutdownAtOnce ==
  /\ run = "draining" /\ StopNext
  /\ UNCHANGED <<ctxDone, reload, complete, late, signals, server, config, consumer, exit>>
ShutdownWaits ==
  /\ run = "draining" /\ inFlight = 0 /\ StopNext
  /\ UNCHANGED <<ctxDone, reload, complete, late, signals, server, config, consumer, exit>>

\* Shutdown waits for the requests, but for 30 seconds at most.
ShutdownEnds ==
  /\ run = "draining" /\ StopNext
  /\ late' = (inFlight > 0)
  /\ UNCHANGED <<ctxDone, reload, complete, signals, server, config, consumer, exit>>

\* The other components; one whose field is nil is passed over.
StopComponent(c) ==
  /\ Stopping(c) /\ StopNext
  /\ IF c = "consumer" /\ c \in fields
     THEN consumer' = [consumer EXCEPT !.running = FALSE] ELSE UNCHANGED consumer
  /\ UNCHANGED <<ctxDone, reload, complete, late, signals, server, config, exit>>

Stop == \/ ShutdownBegins \/ ShutdownEnds
        \/ \E c \in {"server", "engine", "exposure", "telemetry", "consumer"} :
             (c = "server" => c \notin fields) /\ StopComponent(c)

\* SIGHUP: Get, and Get again.
ReadOld ==
  /\ run = "waiting" /\ signals = <<"HUP">>
  /\ signals' = <<>> /\ reload' = [reload EXCEPT !.old = config] /\ Goto("readNew")
  /\ UNCHANGED <<stopList, ctxDone, complete, late, server, config, consumer, exit>>
ReadNew ==
  /\ run = "readNew"
  /\ reload' = [reload EXCEPT !.new = config] /\ Goto("set")
  /\ UNCHANGED <<stopList, ctxDone, complete, late, signals, server, config, consumer, exit>>

\* Mutant of ConfigChanged: against the configuration at the start.
ConfigChangedSinceStart == ControlChannel(Default) # ControlChannel(reload.new)

ConfigChanged == ControlChannel(reload.old) # ControlChannel(reload.new)

\* Mutant of Reload: the default is put back.
ReloadDefault ==
  /\ run = "set" /\ config' = Default
  /\ Goto(IF ConfigChanged /\ "consumer" \in fields THEN "restart" ELSE "end")
  /\ UNCHANGED <<stopList, ctxDone, reload, complete, late, signals, server, consumer, exit>>

\* What was read is written back.
Reload ==
  /\ run = "set"
  /\ IF ValidateConfig(reload.new)
     THEN /\ config' = reload.new
          /\ Goto(IF ConfigChanged /\ "consumer" \in fields THEN "restart" ELSE "end")
     ELSE Goto("end") /\ UNCHANGED config
  /\ UNCHANGED <<stopList, ctxDone, reload, complete, late, signals, server, consumer, exit>>

\* EventConsumer.Stop, a pause of 100 ms, and EventConsumer.Start.
RestartStop ==
  /\ run = "restart" /\ Goto("pause")
  /\ consumer' = [consumer EXCEPT !.running = FALSE]
  /\ UNCHANGED <<stopList, ctxDone, reload, complete, late, signals, server, config, exit>>
RestartStart ==
  /\ run = "pause" /\ Goto("end")
  /\ consumer' = IF consumer.running THEN consumer ELSE Started(consumer)
  /\ UNCHANGED <<stopList, ctxDone, reload, complete, late, signals, server, config, exit>>

\* "runtime stopped", also after SIGHUP.
Return ==
  /\ run = "end" \/ (run = "stopping" /\ stopList = <<>>)
  /\ exit' = "ok"
  /\ UNCHANGED <<runVars, signals, server, config, consumer>>

RunStep == \/ ReturnError \/ Terminate \/ Stop \/ ReadOld \/ ReadNew \/ Reload
           \/ RestartStop \/ RestartStart \/ Return

-----------------------------------------------------------------------------
Ended == exit # "none" /\ UNCHANGED vars

RunNext == RunStep /\ UNCHANGED <<launchVars, requests, inFlight, applied, sent>>

Next ==
  \/ exit = "none" /\
     \/ Start /\ UNCHANGED <<requests, inFlight, storeVars, signalVars, runVars, exit>>
     \/ HTTP  /\ UNCHANGED <<launchVars, consumer, signalVars, runVars, exit>>
     \/ (StreamerEnds \/ StreamerSends) /\ UNCHANGED <<launchVars, httpVars, storeVars, signalVars, runVars>>
     \/ (\E s \in {"TERM", "HUP"} : Signal(s))
          /\ UNCHANGED <<launchVars, httpVars, storeVars, consumer, runVars, exit>>
     \/ RunNext
  \/ Ended

\* Run and its timer go on; requests, the kernel and the UA owe nothing.
Spec == Init /\ [][Next]_vars /\ WF_vars(exit = "none" /\ RunNext)

-----------------------------------------------------------------------------
TypeOK ==
  /\ launch \in {"discovery", "bootstrap", "backoff", "exposure", "handlers", "consume",
                 "telemetry", "engine", "server", "storeServer", "done", "failed"}
  /\ attempt \in 0..MaxBootstrapAttempts /\ hyphae \in BOOLEAN
  /\ fields \subseteq {"server", "engine", "exposure", "telemetry", "consumer"}
  /\ server \in {"none", "up", "down"} /\ requests \in 0..MaxRequests /\ inFlight \in 0..requests
  /\ consumer \in [running : BOOLEAN, streamers : 0..2, closed : BOOLEAN]
  /\ signals \in {<<>>, <<"TERM">>, <<"HUP">>} /\ sent \in 0..MaxSignals
  /\ run \in {"waiting", "stopping", "draining", "readNew", "set", "restart", "pause", "end"}
  /\ stopList \in Seq({"server", "engine", "exposure", "telemetry", "consumer"})
  /\ {ctxDone, complete, late} \subseteq BOOLEAN /\ exit \in {"none", "ok", "error", "panic"}
  /\ config \in Configs /\ applied \in Configs /\ reload \in [old : Configs, new : Configs]

Reloading == run \in {"readNew", "set", "restart", "pause", "end"}

\* A stop cuts no request off: of a process that was up when it was told to stop,
\* the engine and all that follows it are stopped, and the process ends, when no
\* request is being handled or can come in any more, or the 30 seconds are over.
RequestsFinish ==
  complete /\ run = "stopping" /\ "engine" \notin {stopList[i] : i \in DOMAIN stopList} =>
    server = "down" /\ (inFlight = 0 \/ late)

\* The store holds a valid configuration, the one last applied; a reload may put
\* back an older one, but only in a process that then ends.
ConfigIsApplied ==
  /\ ValidateConfig(config)
  /\ config # applied => Reloading /\ config = reload.new

\* The process ends because it was told to, or could not start; it panics only if
\* a configuration with another control channel was applied between the two reads
\* of a reload, which then starts the consumer a second time.
ExitIsExplained ==
  /\ exit = "ok" => ctxDone \/ Reloading
  /\ exit = "error" => launch = "failed" /\ ~ctxDone
  /\ exit = "panic" => Reloading /\ ControlChannel(reload.old) # ControlChannel(reload.new)

\* A signal, or a failed start, ends the process, whatever the requests, the
\* kernel and the UA do.
EndsWhenTold == (signals # <<>> \/ launch = "failed") ~> exit # "none"
=============================================================================
