---------------------------- MODULE RuntimeProofs ----------------------------
(* What TLAPS proves of Runtime, for all values of its constants. *)
EXTENDS Runtime, TLAPS

-----------------------------------------------------------------------------
(* The inductive invariant.                                                *)

NotYetStarted == {"discovery", "bootstrap", "backoff", "exposure", "handlers", "consume"}

\* An attempt is left while Start still asks for a certificate.
AttemptsLeft == launch \in {"discovery", "bootstrap", "backoff"} => attempt < MaxBootstrapAttempts

\* What Start stores last is there when it is done, and it was done when a process
\* that was up was told to stop.
StartedAsWhole ==
  /\ launch = "done" => "server" \in fields
  /\ complete => launch = "done"

\* What is left of StopOrder after the server.
Rests == {<<"engine", "exposure", "telemetry", "consumer">>, <<"exposure", "telemetry", "consumer">>,
          <<"telemetry", "consumer">>, <<"consumer">>, <<>>}

\* Run has cancelled the context exactly while it stops, and stops in order.
StopsInOrder ==
  /\ ctxDone <=> run \in {"stopping", "draining"}
  /\ run = "draining" => stopList = StopOrder
  /\ run = "stopping" => stopList \in {StopOrder} \cup Rests

\* Past the shutdown of a process that was up, the server is down for good.
ServerIsDown ==
  complete =>
    /\ run = "draining" \/ (run = "stopping" /\ stopList # StopOrder) => server = "down"
    /\ run = "stopping" /\ stopList # StopOrder => inFlight = 0 \/ late

ChannelDiffers == ControlChannel(reload.old) # ControlChannel(reload.new)

\* There is at most one streamer, and none beside a closed channel, until a
\* reload has started the consumer again; then there are two at most.
StreamersCounted ==
  /\ run \in {"restart", "pause"} => ChannelDiffers
  /\ ~(run = "end" /\ ChannelDiffers) =>
       /\ consumer.streamers = 0 \/ (consumer.streamers = 1 /\ ~consumer.closed)
       /\ launch \in NotYetStarted => consumer = [running |-> FALSE, streamers |-> 0, closed |-> FALSE]
  /\ launch \in NotYetStarted =>
       consumer.streamers = 0 \/ (consumer.streamers = 1 /\ consumer.running)

IInv ==
  /\ TypeOK /\ AttemptsLeft /\ StartedAsWhole /\ StopsInOrder /\ ServerIsDown /\ StreamersCounted
  /\ ConfigIsApplied /\ ExitIsExplained

-----------------------------------------------------------------------------
(* Typing.                                                                 *)

Components == {"server", "engine", "exposure", "telemetry", "consumer"}

Consumers == [running : BOOLEAN, streamers : 0..2, closed : BOOLEAN]

(* The consumer started once more, and one whose streamer has ended. *)
LEMMA StartedType == ASSUME NEW c \in Consumers, c.streamers <= 1 PROVE Started(c) \in Consumers
  <1>1. c.streamers + 1 \in 0..2  BY DEF Consumers
  <1> QED  BY <1>1 DEF Started, Consumers

(* The consumer one of whose streamers has ended. *)
LEMMA EndedType ==
  ASSUME NEW c \in Consumers, c.streamers > 0
  PROVE  [c EXCEPT !.streamers = @ - 1, !.closed = TRUE] \in Consumers
  <1>1. c.streamers - 1 \in 0..2  BY DEF Consumers
  <1> QED  BY <1>1 DEF Consumers

(* Before Start has done anything, every variable has its type. *)
LEMMA InitTypeOK == ASSUME Init PROVE TypeOK
  <1> USE RuntimeConstantsOK DEF Init, RuntimeConstantsOK, Consumers
  <1>1. attempt \in 0..MaxBootstrapAttempts /\ sent \in 0..MaxSignals  OBVIOUS
  <1>2. requests \in 0..MaxRequests /\ inFlight \in 0..requests  OBVIOUS
  <1>3. signals \in {<<>>, <<"TERM">>, <<"HUP">>} /\ stopList \in Seq(Components)  OBVIOUS
  <1>4. {ctxDone, complete, late} \subseteq BOOLEAN  OBVIOUS
  <1>5. consumer \in Consumers  OBVIOUS
  <1>6. reload \in [old : Configs, new : Configs]  OBVIOUS
  <1> QED  BY <1>1, <1>2, <1>3, <1>4, <1>5, <1>6 DEF TypeOK, Components, Consumers

(* No step takes a variable out of its type. *)
LEMMA NextTypeOK == ASSUME IInv, [Next]_vars PROVE TypeOK'
  <1> USE RuntimeConstantsOK DEF RuntimeConstantsOK, TypeOK, Consumers, Components
  <1> USE DEF IInv
  <1>1. CASE Start /\ UNCHANGED <<requests, inFlight, storeVars, signalVars, runVars, exit>>
    <2> USE <1>1 DEF Launch, Store, StoreNothing, storeVars, signalVars, runVars
    <2>1. CASE NewEventConsumer  BY <2>1 DEF NewEventConsumer
    <2>2. CASE AskCertificate
      <3>1. attempt' \in 0..MaxBootstrapAttempts  BY <2>2 DEF AskCertificate, AttemptsLeft
      <3>2. launch' \in {"backoff", "failed", "exposure"}  BY <2>2 DEF AskCertificate
      <3> QED  BY <2>2, <3>1, <3>2 DEF AskCertificate
    <2>3. CASE BackOff  BY <2>3 DEF BackOff
    <2>4. CASE WiringFails  BY <2>4 DEF WiringFails
    <2>5. CASE NewExposureProvider  BY <2>5 DEF NewExposureProvider
    <2>6. CASE RegisterHandlers  BY <2>6 DEF RegisterHandlers
    <2>7. CASE StartConsumer
      <3>1. launch = "consume" /\ launch' \in {"telemetry", "failed"}
        BY <2>7 DEF StartConsumer
      <3>2. consumer' = consumer \/ (consumer' = Started(consumer) /\ consumer.streamers <= 1)
        BY <2>7, <3>1 DEF StartConsumer, StreamersCounted, NotYetStarted
      <3>3. consumer' \in Consumers
        BY <3>2, StartedType
      <3> QED  BY <2>7, <3>1, <3>3 DEF StartConsumer
    <2>8. CASE StartTelemetry  BY <2>8 DEF StartTelemetry
    <2>9. CASE StartEngine     BY <2>9 DEF StartEngine
    <2>10. CASE StartServer    BY <2>10 DEF StartServer
    <2>11. CASE StoreServer    BY <2>11 DEF StoreServer
    <2> QED  BY <1>1, <2>1, <2>2, <2>3, <2>4, <2>5, <2>6, <2>7, <2>8, <2>9, <2>10, <2>11, Zenon DEF Start
  <1>2. CASE HTTP  /\ UNCHANGED <<launchVars, consumer, signalVars, runVars, exit>>
    <2> USE <1>2 DEF Answer, launchVars, signalVars, runVars, storeVars
    <2>1. CASE ListenFails  BY <2>1 DEF ListenFails
    <2>2. CASE Accept  BY <2>2 DEF Accept
    <2>3. CASE Answer /\ UNCHANGED storeVars  BY <2>3
    <2>4. ASSUME NEW c \in Configs, HandleConfigApply(c) PROVE TypeOK'
      <3>1. config' \in Configs /\ applied' \in Configs  BY <2>4 DEF HandleConfigApply
      <3>2. inFlight > 0 /\ inFlight' = inFlight - 1 /\ UNCHANGED <<server, requests>>
        BY <2>4, Zenon DEF HandleConfigApply
      <3> QED  BY <1>2, <3>1, <3>2
    <2> QED  BY <2>1, <2>2, <2>3, <2>4 DEF HTTP
  <1>3. CASE /\ StreamerEnds \/ StreamerSends
             /\ UNCHANGED <<launchVars, httpVars, storeVars, signalVars, runVars>>
    <2>1. consumer' \in Consumers
      BY <1>3, EndedType DEF StreamerEnds, StreamerSends
    <2>2. exit' \in {"none", "ok", "error", "panic"}  BY <1>3 DEF StreamerEnds, StreamerSends
    <2> QED  BY <1>3, <2>1, <2>2 DEF launchVars, httpVars, signalVars, runVars, storeVars
  <1>4. ASSUME NEW s \in {"TERM", "HUP"}, Signal(s),
               UNCHANGED <<launchVars, httpVars, storeVars, consumer, runVars, exit>>
        PROVE TypeOK'
    BY <1>4 DEF Signal, launchVars, httpVars, runVars, storeVars
  <1>5. CASE RunNext
    <2> USE <1>5 DEF RunNext, Goto, launchVars, runVars
    <2>1. CASE ReturnError \/ Return  BY <2>1 DEF ReturnError, Return
    <2>2. CASE Terminate
      <3>1. stopList' \in Seq(Components) /\ complete' \in BOOLEAN
        BY <2>2 DEF Terminate, StopOrder, Components
      <3> QED  BY <2>2, <3>1 DEF Terminate, Components
    <2>3. CASE ShutdownBegins  BY <2>3 DEF ShutdownBegins
    <2>4. CASE ShutdownEnds
      <3>1. run = "draining" /\ stopList' = Tail(stopList)  BY <2>4, Zenon DEF ShutdownEnds, StopNext
      <3>2. stopList' \in Seq(Components)
        <4>1. stopList = StopOrder  BY <3>1, Zenon DEF StopsInOrder
        <4> QED  BY <3>1, <4>1 DEF StopOrder
      <3>3. late' \in BOOLEAN
        <4>1. CASE inFlight > 0     BY <2>4, <4>1, Zenon DEF ShutdownEnds
        <4>2. CASE ~(inFlight > 0)
          <5>1. (inFlight > 0) = FALSE  BY <4>2
          <5> QED  BY <2>4, <5>1, Zenon DEF ShutdownEnds
        <4> QED  BY <4>1, <4>2
      <3>4. /\ UNCHANGED <<ctxDone, reload, complete, signals, server, config, consumer, exit>>
            /\ run' = "stopping"
        BY <2>4, Zenon DEF ShutdownEnds, StopNext
      <3> QED  BY <3>2, <3>3, <3>4
    <2>5. ASSUME NEW c, StopComponent(c) PROVE TypeOK'
      <3>1. stopList' \in Seq(Components)
        BY <2>5 DEF StopComponent, Stopping, StopNext, Components
      <3>2. consumer' \in Consumers
        BY <2>5 DEF StopComponent
      <3> QED  BY <2>5, <3>1, <3>2 DEF StopComponent, StopNext, Components
    <2>6. CASE ReadOld \/ ReadNew
      <3>1. reload' \in [old : Configs, new : Configs]  BY <2>6 DEF ReadOld, ReadNew
      <3> QED  BY <2>6, <3>1 DEF ReadOld, ReadNew
    <2>7. CASE Reload
      <3>1. config' \in Configs /\ run' \in {"restart", "end"}  BY <2>7 DEF Reload
      <3> QED  BY <2>7, <3>1 DEF Reload
    <2>8. CASE RestartStop \/ RestartStart
      <3>1. consumer' \in Consumers
        <4>1. CASE RestartStop  BY <4>1 DEF RestartStop
        <4>2. CASE RestartStart
          <5>1. consumer' = consumer \/ (consumer' = Started(consumer) /\ consumer.streamers <= 1)
            <6>1. run = "pause"  BY <4>2, Zenon DEF RestartStart
            <6>2. consumer.streamers <= 1  BY <6>1 DEF StreamersCounted
            <6> QED  BY <4>2, <6>2, Zenon DEF RestartStart
          <5> QED  BY <5>1, StartedType
        <4> QED  BY <2>8, <4>1, <4>2
      <3> QED  BY <2>8, <3>1 DEF RestartStop, RestartStart
    <2> QED  BY <2>1, <2>2, <2>3, <2>4, <2>5, <2>6, <2>7, <2>8 DEF RunStep, Stop
  <1>6. CASE UNCHANGED vars
    BY <1>6 DEF vars, launchVars, httpVars, runVars, storeVars, signalVars
  <1> QED BY <1>1, <1>2, <1>3, <1>4, <1>5, <1>6 DEF Next, Ended

-----------------------------------------------------------------------------
(* The steps of the other conjuncts.                                       *)

(* What Start does to where it stands, in one step. *)
LEMMA StartSteps ==
  ASSUME Start
  PROVE  /\ launch # "done"
         /\ launch' = "done" => "server" \in fields'
         /\ fields \subseteq fields'
         /\ launch' \in {"discovery", "bootstrap", "backoff"} =>
              \/ launch \in {"discovery", "backoff"} /\ UNCHANGED attempt
              \/ attempt' = attempt + 1 /\ attempt + 1 < MaxBootstrapAttempts
         /\ launch' \in NotYetStarted => launch \in NotYetStarted
         /\ server' # server => launch = "server"
         /\ \/ UNCHANGED consumer
            \/ /\ launch = "consume" /\ launch' = "telemetry"
               /\ ~consumer.running /\ consumer' = Started(consumer)
  <1> USE DEF Launch, Store, StoreNothing, NotYetStarted
  <1>1. CASE NewEventConsumer  BY <1>1 DEF NewEventConsumer
  <1>2. CASE AskCertificate  BY <1>2 DEF AskCertificate
  <1>3. CASE BackOff  BY <1>3 DEF BackOff
  <1>4. CASE WiringFails  BY <1>4 DEF WiringFails
  <1>5. CASE NewExposureProvider \/ RegisterHandlers  BY <1>5 DEF NewExposureProvider, RegisterHandlers
  <1>6. CASE StartConsumer  BY <1>6 DEF StartConsumer
  <1>7. CASE StartTelemetry \/ StartEngine \/ StartServer \/ StoreServer
    BY <1>7 DEF StartTelemetry, StartEngine, StartServer, StoreServer
  <1> QED  BY <1>1, <1>2, <1>3, <1>4, <1>5, <1>6, <1>7 DEF Start

(* A step of Run or of Stop, in a process that has not ended: where Run goes. *)
LEMMA RunSteps ==
  ASSUME IInv, RunNext
  PROVE  \/ Terminate \/ ShutdownBegins \/ ShutdownEnds
         \/ \E c : StopComponent(c) /\ (c = "server" => c \notin fields)
         \/ /\ run' \in {"readNew", "set", "restart", "pause", "end"}
            /\ UNCHANGED <<ctxDone, stopList, complete, late, server>>
         \/ UNCHANGED <<runVars, server>>
  BY Zenon DEF RunNext, RunStep, Stop, ReadOld, ReadNew, Reload, RestartStop, RestartStart,
               ReturnError, Return, Goto

(* What is left of the order of Stop, and that it does not start again. *)
LEMMA RestOfStopOrder ==
  /\ \A s \in {StopOrder} \cup Rests : s # <<>> => Tail(s) \in Rests
  /\ StopOrder \notin Rests /\ StopOrder # <<>> /\ Head(StopOrder) = "server"
  /\ \A s \in Rests : s # <<>> => Head(s) # "server"
  BY DEF StopOrder, Rests

(* An attempt stays left until Start goes on or fails. *)
LEMMA NextAttemptsLeft == ASSUME IInv, [Next]_vars PROVE AttemptsLeft'
  <1> USE DEF IInv, AttemptsLeft
  <1>1. CASE Start  BY <1>1, StartSteps, RuntimeConstantsOK DEF RuntimeConstantsOK, TypeOK
  <1>2. CASE UNCHANGED <<launch, attempt>>  BY <1>2
  <1> QED
    BY <1>1, <1>2, Zenon DEF Next, RunNext, Ended, vars, launchVars

(* Start ends with the server stored and takes no step afterwards. *)
LEMMA NextStartedAsWhole == ASSUME IInv, [Next]_vars PROVE StartedAsWhole'
  <1> USE DEF IInv, StartedAsWhole
  <1>1. CASE Start /\ UNCHANGED complete  BY <1>1, StartSteps, Zenon
  <1>2. CASE Terminate /\ UNCHANGED launchVars
    <2>1. complete' = (launch = "done")  BY <1>2, Zenon DEF Terminate
    <2> QED  BY <1>2, <2>1, Zenon DEF launchVars
  <1>3. CASE UNCHANGED <<launchVars, complete>>  BY <1>3, Zenon DEF launchVars
  <1>4. ASSUME RunNext PROVE StartedAsWhole'
    <2>1. UNCHANGED launchVars  BY <1>4 DEF RunNext
    <2> QED
      BY <1>2, <1>3, <1>4, <2>1, RunSteps, Zenon
      DEF ShutdownBegins, ShutdownEnds, StopComponent, runVars
  <1> QED
    BY <1>1, <1>3, <1>4, Zenon DEF Next, Ended, vars, runVars

(* Run passes through the stop in the order of Stop, under a cancelled context. *)
LEMMA NextStopsInOrder == ASSUME IInv, [Next]_vars PROVE StopsInOrder'
  <1> USE DEF IInv, StopsInOrder, Goto, StopNext
  <1>1. CASE Terminate  BY <1>1, Zenon DEF Terminate
  <1>2. CASE ShutdownBegins
    <2>1. run = "stopping" /\ stopList # <<>> /\ Head(stopList) = "server"
      BY <1>2, Zenon DEF ShutdownBegins, Stopping
    <2>2. stopList = StopOrder  BY <2>1, RestOfStopOrder, Zenon
    <2> QED  BY <1>2, <2>1, <2>2, Zenon DEF ShutdownBegins
  <1>3. CASE ShutdownEnds
    <2>1. stopList' \in Rests /\ run' = "stopping" /\ run = "draining" /\ UNCHANGED ctxDone
      BY <1>3, RestOfStopOrder, Zenon DEF ShutdownEnds
    <2> QED  BY <2>1, Zenon
  <1>4. ASSUME NEW c, StopComponent(c) PROVE StopsInOrder'
    <2>1. stopList' \in Rests /\ run' = "stopping" /\ run = "stopping" /\ UNCHANGED ctxDone
      BY <1>4, RestOfStopOrder, Zenon DEF StopComponent, Stopping
    <2> QED  BY <2>1, Zenon
  <1>5. CASE UNCHANGED <<ctxDone, run, stopList>>  BY <1>5, Zenon
  <1>6. CASE /\ RunNext
             /\ run' \in {"readNew", "set", "restart", "pause", "end"}
             /\ UNCHANGED <<ctxDone, stopList>>
    <2>1. run \notin {"stopping", "draining"}
      BY <1>6 DEF RunNext, RunStep, ReturnError, Terminate, Stop, ShutdownBegins, ShutdownEnds, StopComponent,
         ReadOld, ReadNew, Reload, RestartStop, RestartStart, Return, runVars, Stopping
    <2> QED  BY <1>6, <2>1, Zenon
  <1> QED
    BY <1>1, <1>2, <1>3, <1>4, <1>5, <1>6, RunSteps, Zenon DEF Next, Ended, vars, runVars

(* A process that was up takes no request once its server is down, and none is
   left when the shutdown is over, or it was late.                          *)
LEMMA NextServerIsDown == ASSUME IInv, [Next]_vars PROVE ServerIsDown'
  <1> USE DEF IInv, ServerIsDown, StopNext
  <1>1. CASE Start /\ UNCHANGED <<complete, run, stopList, inFlight, late>>
    <2>1. complete => launch = "done"  BY DEF StartedAsWhole
    <2>2. launch # "done"  BY <1>1, StartSteps
    <2> QED  BY <1>1, <2>1, <2>2, Zenon
  <1>2. CASE HTTP /\ UNCHANGED runVars
    <2>1. server = "down" => server' = "down" /\ (inFlight = 0 => inFlight' = 0)
      <3>1. ListenFails \/ Accept \/ Answer  BY <1>2, Zenon DEF HTTP, HandleConfigApply
      <3> QED  BY <3>1 DEF ListenFails, Accept, Answer
    <2> QED  BY <1>2, <2>1, Zenon DEF runVars
  <1>3. CASE UNCHANGED <<complete, run, server, stopList, inFlight, late>>  BY <1>3, Zenon
  <1>4. ASSUME RunNext PROVE ServerIsDown'
    <2>1. UNCHANGED inFlight  BY <1>4 DEF RunNext
    <2>2. CASE Terminate
      <3>1. run' = "stopping" /\ stopList' = StopOrder  BY <2>2, Zenon DEF Terminate, Goto
      <3> QED  BY <3>1, Zenon
    <2>3. CASE ShutdownBegins
      <3>1. run' = "draining" /\ server' = "down"  BY <2>3, Zenon DEF ShutdownBegins, Goto
      <3> QED  BY <3>1, Zenon
    <2>4. CASE ShutdownEnds
      <3>1. run = "draining" /\ run' = "stopping" /\ UNCHANGED <<server, complete>> /\ late' = (inFlight > 0)
        BY <2>4, Zenon DEF ShutdownEnds
      <3>2. ~(inFlight > 0) => inFlight = 0  BY DEF TypeOK
      <3> QED  BY <2>1, <3>1, <3>2, Zenon
    <2>5. ASSUME NEW c, StopComponent(c), c = "server" => c \notin fields PROVE ServerIsDown'
      <3>1. /\ run = "stopping" /\ run' = "stopping" /\ Head(stopList) = c
            /\ UNCHANGED <<server, complete, late>>
        BY <2>5, Zenon DEF StopComponent, Stopping
      <3>2. CASE stopList = StopOrder /\ complete
        <4>1. c = "server" /\ "server" \in fields
          BY <3>1, <3>2, RestOfStopOrder, Zenon DEF StartedAsWhole
        <4> QED  BY <2>5, <4>1
      <3> QED  BY <2>1, <3>1, <3>2, Zenon
    <2>6. CASE run' \in {"readNew", "set", "restart", "pause", "end"}  BY <2>6
    <2> QED
      BY <1>3, <1>4, <2>1, <2>2, <2>3, <2>4, <2>5, <2>6, RunSteps, Zenon DEF runVars, RunNext
  <1> QED
    BY <1>1, <1>2, <1>3, <1>4, Zenon DEF Next, Ended, vars, runVars, httpVars

(* A second streamer comes in with the last step of a reload only. *)
LEMMA NextStreamersCounted == ASSUME IInv, [Next]_vars PROVE StreamersCounted'
  <1> USE DEF IInv, StreamersCounted
  <1> DEFINE Single == /\ consumer.streamers = 0 \/ (consumer.streamers = 1 /\ ~consumer.closed)
                       /\ launch \in NotYetStarted =>
                            consumer = [running |-> FALSE, streamers |-> 0, closed |-> FALSE]
             Few    == launch \in NotYetStarted =>
                         consumer.streamers = 0 \/ (consumer.streamers = 1 /\ consumer.running)
  <1>t. consumer \in Consumers  BY DEF TypeOK, Consumers
  <1>1. CASE Start /\ UNCHANGED <<run, reload>>
    <2>1. Few' /\ (Single => Single')
      <3>1. CASE UNCHANGED consumer
        BY <1>1, <3>1, StartSteps
      <3>2. CASE /\ launch = "consume" /\ launch' = "telemetry"
                 /\ ~consumer.running /\ consumer' = Started(consumer)
        <4>1. Few'  BY <3>2 DEF NotYetStarted
        <4>2. Single => Single'  BY <3>2 DEF NotYetStarted, Started
        <4> QED  BY <4>1, <4>2
      <3> QED  BY <1>1, <3>1, <3>2, StartSteps
    <2> QED  BY <1>1, <2>1 DEF ChannelDiffers
  <1>2. CASE (StreamerEnds \/ StreamerSends) /\ UNCHANGED <<launch, run, reload>>
    <2>1. CASE UNCHANGED consumer  BY <1>2, <2>1 DEF ChannelDiffers
    <2>2. CASE /\ consumer.streamers > 0
               /\ consumer' = [consumer EXCEPT !.streamers = @ - 1, !.closed = TRUE]
      <3>1. /\ consumer'.streamers = consumer.streamers - 1
            /\ consumer'.running = consumer.running
        BY <1>t, <2>2 DEF Consumers
      <3>2. consumer.streamers \in 1..2  BY <1>t, <2>2 DEF Consumers
      <3>3. Few'  BY <1>2, <3>1, <3>2
      <3>4. Single => Single'  BY <1>2, <3>1, <3>2
      <3> QED  BY <1>2, <3>3, <3>4 DEF ChannelDiffers
    <2> QED  BY <1>2, <2>1, <2>2, Zenon DEF StreamerEnds, StreamerSends
  <1>3. CASE UNCHANGED <<launch, run, reload, consumer>>  BY <1>3 DEF ChannelDiffers
  <1>4. ASSUME RunNext PROVE StreamersCounted'
    <2>1. UNCHANGED launch  BY <1>4 DEF RunNext, launchVars
    <2>2. CASE UNCHANGED <<run, reload, consumer>>  BY <2>1, <2>2 DEF ChannelDiffers
    <2>3. CASE /\ run' \in {"waiting", "stopping", "draining", "readNew", "set"}
               /\ UNCHANGED consumer /\ run # "end"
      BY <2>1, <2>3
    <2>4. CASE Reload
      <3>1. UNCHANGED <<reload, consumer>> /\ run' \in {"restart", "end"} /\ run = "set"
        BY <2>4, Zenon DEF Reload, Goto
      <3>2. run' = "restart" => ChannelDiffers
        BY <2>4, Zenon DEF Reload, Goto, ConfigChanged, ChannelDiffers
      <3> QED  BY <2>1, <3>1, <3>2 DEF ChannelDiffers
    <2>5. CASE RestartStop
      <3>1. /\ UNCHANGED reload /\ run = "restart" /\ run' = "pause"
            /\ consumer' = [consumer EXCEPT !.running = FALSE]
        BY <2>5, Zenon DEF RestartStop, Goto
      <3>2. /\ consumer'.streamers = consumer.streamers /\ consumer'.closed = consumer.closed
            /\ consumer = [running |-> FALSE, streamers |-> 0, closed |-> FALSE] => consumer' = consumer
        BY <1>t, <3>1 DEF Consumers
      <3>3. Single /\ ChannelDiffers  BY <3>1
      <3>4. Single'  BY <2>1, <3>2, <3>3, Zenon
      <3>5. Few'  BY <2>1, <3>2, <3>3, Zenon
      <3>6. ChannelDiffers'  BY <3>1, <3>3, Zenon DEF ChannelDiffers
      <3> QED  BY <3>1, <3>4, <3>5, <3>6, Zenon
    <2>6. CASE RestartStart
      <3>1. UNCHANGED reload /\ run = "pause" /\ run' = "end" /\ ChannelDiffers /\ ChannelDiffers'
        BY <2>6, Zenon DEF RestartStart, Goto, ChannelDiffers
      <3>2. consumer' = IF consumer.running THEN consumer ELSE Started(consumer)
        BY <2>6, Zenon DEF RestartStart
      <3>3. Few'
        <4>1. CASE consumer.running  BY <2>1, <3>2, <4>1
        <4>2. CASE ~consumer.running
          <5>1. consumer'.running /\ consumer'.streamers = consumer.streamers + 1
            BY <1>t, <3>2, <4>2 DEF Started, Consumers
          <5> QED  BY <2>1, <3>1, <5>1
        <4> QED  BY <4>1, <4>2
      <3> QED  BY <3>1, <3>3
    <2>7. ASSUME NEW c, StopComponent(c) PROVE StreamersCounted'
      <3>1. /\ UNCHANGED reload /\ run' = "stopping" /\ run = "stopping"
            /\ UNCHANGED consumer \/ consumer' = [consumer EXCEPT !.running = FALSE]
        BY <2>7, Zenon DEF StopComponent, Stopping, StopNext
      <3>2. Single'  BY <1>t, <2>1, <3>1 DEF Consumers
      <3>3. Few'  BY <1>t, <2>1, <3>1 DEF Consumers
      <3> QED  BY <3>1, <3>2, <3>3
    <2> QED
      BY <1>4, <2>2, <2>3, <2>4, <2>5, <2>6, <2>7, Zenon
      DEF RunNext, RunStep, Stop, ReturnError, Return, Terminate, ShutdownBegins, ShutdownEnds, Stopping,
          StopNext, ReadOld, ReadNew, Goto, runVars
  <1> QED
    BY <1>1, <1>2, <1>3, <1>4, Zenon DEF Next, Ended, vars, runVars, launchVars

(* A configuration gets into the store from a request that was answered well, or
   back into it from a reload.                                              *)
LEMMA NextConfigIsApplied == ASSUME IInv, [Next]_vars PROVE ConfigIsApplied'
  <1> USE DEF IInv, ConfigIsApplied, Reloading
  <1>1. CASE UNCHANGED <<config, applied, run, reload>>  BY <1>1, Zenon
  <1>2. ASSUME HTTP, UNCHANGED runVars PROVE ConfigIsApplied'
    <2>1. CASE UNCHANGED storeVars  BY <1>1, <1>2, <2>1, Zenon DEF storeVars, runVars
    <2>2. ASSUME NEW c \in Configs, HandleConfigApply(c) PROVE ConfigIsApplied'
      <3>1. ValidateConfig(c) /\ config' = c /\ applied' = c  BY <2>2, Zenon DEF HandleConfigApply
      <3>2. ValidateConfig(config')  BY <3>1
      <3> QED  BY <3>1, <3>2, Zenon
    <2> QED  BY <1>2, <2>1, <2>2, Zenon DEF HTTP, ListenFails, Accept
  <1>3. ASSUME RunNext PROVE ConfigIsApplied'
    <2>1. UNCHANGED applied  BY <1>3 DEF RunNext
    <2>2. CASE ReadOld
      <3>1. run = "waiting" /\ UNCHANGED config  BY <2>2, Zenon DEF ReadOld
      <3>2. config = applied  BY <3>1
      <3> QED  BY <2>1, <3>1, <3>2, Zenon
    <2>3. CASE ReadNew
      <3>1. run' = "set" /\ UNCHANGED config /\ reload' = [reload EXCEPT !.new = config]
        BY <2>3, Zenon DEF ReadNew, Goto
      <3>2. reload'.new = config  BY <3>1 DEF TypeOK
      <3> QED  BY <3>1, <3>2, Zenon
    <2>4. CASE Reload
      <3>1. run' \in {"restart", "end"} /\ UNCHANGED reload  BY <2>4, Zenon DEF Reload, Goto
      <3>2. \/ UNCHANGED config /\ run = "set"
            \/ config' = reload.new /\ ValidateConfig(reload.new)
        BY <2>4, Zenon DEF Reload
      <3>3. ValidateConfig(config')  BY <3>2, Zenon
      <3> QED  BY <2>1, <3>1, <3>2, <3>3, Zenon
    <2>5. CASE RestartStop \/ RestartStart
      <3>1. run \in {"restart", "pause"} /\ run' \in {"pause", "end"} /\ UNCHANGED <<config, reload>>
        BY <2>5, Zenon DEF RestartStop, RestartStart, Goto
      <3> QED  BY <2>1, <3>1, Zenon
    <2>6. CASE UNCHANGED config /\ ~Reloading /\ UNCHANGED reload  BY <2>1, <2>6, Zenon
    <2> QED
      BY <1>1, <1>3, <2>1, <2>2, <2>3, <2>4, <2>5, <2>6, Zenon
      DEF RunNext, RunStep, Stop, ReturnError, Return, Terminate, ShutdownBegins, ShutdownEnds,
          StopComponent, Stopping, runVars
  <1> QED
    BY <1>1, <1>2, <1>3, Zenon DEF Next, Ended, vars, runVars, storeVars

(* The process ends once, in one of the four ways it can. *)
LEMMA NextExitIsExplained == ASSUME IInv, [Next]_vars PROVE ExitIsExplained'
  <1> USE DEF IInv, ExitIsExplained, Reloading, ChannelDiffers
  <1>1. CASE exit' = "none"  BY <1>1
  <1>2. CASE UNCHANGED vars
    <2>1. UNCHANGED <<exit, ctxDone, run, launch, reload>>  BY <1>2 DEF vars, runVars, launchVars
    <2> QED  BY <2>1, Zenon
  <1>3. ASSUME StreamerEnds \/ StreamerSends, exit = "none", UNCHANGED <<run, reload>>
        PROVE ExitIsExplained'
    <2>1. consumer.streamers > 0 /\ (exit' = "none" \/ (exit' = "panic" /\ consumer.closed))
      BY <1>3, Zenon DEF StreamerEnds, StreamerSends
    <2>2. consumer.closed => run = "end" /\ ChannelDiffers
      BY <2>1 DEF StreamersCounted, TypeOK
    <2> QED  BY <1>3, <2>1, <2>2, Zenon
  <1>4. ASSUME RunNext, exit = "none" PROVE ExitIsExplained'
    <2>1. CASE ReturnError
      <3>1. run = "waiting" /\ launch = "failed" /\ exit' = "error" /\ UNCHANGED <<run, ctxDone, launch>>
        BY <1>4, <2>1, Zenon DEF ReturnError, RunNext, runVars, launchVars
      <3>2. ~ctxDone  BY <3>1 DEF StopsInOrder
      <3> QED  BY <3>1, <3>2, Zenon
    <2>2. CASE Return
      <3>1. run \in {"end", "stopping"} /\ exit' = "ok" /\ UNCHANGED <<run, ctxDone>>
        BY <2>2, Zenon DEF Return, runVars
      <3>2. run = "stopping" => ctxDone  BY DEF StopsInOrder
      <3> QED  BY <3>1, <3>2, Zenon
    <2>3. CASE UNCHANGED exit  BY <1>1, <1>4, <2>3, Zenon
    <2> QED
      BY <1>4, <2>1, <2>2, <2>3, Zenon
      DEF RunNext, RunStep, Stop, Terminate, ShutdownBegins, ShutdownEnds, StopComponent,
          ReadOld, ReadNew, Reload, RestartStop, RestartStart
  <1> QED
    BY <1>1, <1>2, <1>3, <1>4, Zenon DEF Next, Ended, runVars

-----------------------------------------------------------------------------
(* The theorems.                                                           *)

(* The process that has just begun satisfies the invariant. *)
LEMMA InitIInv == ASSUME Init PROVE IInv
  <1> USE DEF Init
  <1>1. TypeOK  BY InitTypeOK
  <1>2. AttemptsLeft  BY RuntimeConstantsOK DEF AttemptsLeft, RuntimeConstantsOK
  <1>3. StartedAsWhole /\ StopsInOrder /\ ServerIsDown
    BY Zenon DEF StartedAsWhole, StopsInOrder, ServerIsDown
  <1>4. StreamersCounted  BY DEF StreamersCounted, ChannelDiffers
  <1>5. ConfigIsApplied
    <2>1. ValidateConfig(Default)  BY RuntimeConstantsOK, Zenon DEF RuntimeConstantsOK
    <2>2. ValidateConfig(config)  BY <2>1, Zenon
    <2> QED  BY <2>2, Zenon DEF ConfigIsApplied
  <1>6. ExitIsExplained  BY Zenon DEF ExitIsExplained
  <1> QED  BY <1>1, <1>2, <1>3, <1>4, <1>5, <1>6 DEF IInv

(* The invariant of the process holds in every state it reaches. *)
THEOREM Invariance == Spec => []IInv
  <1>1. Init => IInv  BY InitIInv
  <1>2. IInv /\ [Next]_vars => IInv'
    BY NextTypeOK, NextAttemptsLeft, NextStartedAsWhole, NextStopsInOrder, NextServerIsDown,
       NextStreamersCounted, NextConfigIsApplied, NextExitIsExplained DEF IInv
  <1> QED  BY <1>1, <1>2, PTL DEF Spec

(* Every variable keeps its type; the consumer has two streamers at most. *)
THEOREM Typing == Spec => []TypeOK
  <1>1. IInv => TypeOK  BY DEF IInv
  <1> QED  BY <1>1, Invariance, PTL

(* A stop cuts no request off: when the engine's turn is over, no request is
   being handled and none can come in, or Shutdown had given up.            *)
THEOREM StopWaitsForRequests == Spec => []RequestsFinish
  <1>1. IInv => RequestsFinish
    <2> SUFFICES ASSUME IInv, complete, run = "stopping",
                        "engine" \notin {stopList[i] : i \in DOMAIN stopList}
                 PROVE  server = "down" /\ (inFlight = 0 \/ late)
      BY DEF RequestsFinish
    <2>1. DOMAIN StopOrder = 1..5 /\ StopOrder[2] = "engine"  BY DEF StopOrder
    <2>2. stopList # StopOrder  BY <2>1
    <2> QED  BY <2>2, Zenon DEF IInv, ServerIsDown
  <1> QED  BY <1>1, Invariance, PTL

(* The store holds the configuration last applied, but for the end of a reload. *)
THEOREM StoreHoldsApplied == Spec => []ConfigIsApplied
  <1>1. IInv => ConfigIsApplied  BY DEF IInv
  <1> QED  BY <1>1, Invariance, PTL

(* Every end of the process has its cause; a panic has a reload that read two
   configurations with different control channels.                          *)
THEOREM EndHasItsCause == Spec => []ExitIsExplained
  <1>1. IInv => ExitIsExplained  BY DEF IInv
  <1> QED  BY <1>1, Invariance, PTL
=============================================================================
