--------------------------- MODULE EventConsumer ---------------------------
(***************************************************************************)
(* The UA event consumer (internal/discovery/ua_event_consumer.go): the    *)
(* goroutine streamFromGRPC keeps a stream to the UA open and pushes every *)
(* event it receives into the buffered channel eventCh; the goroutine      *)
(* processEventLoop takes events off the channel and runs HandleEvent,     *)
(* which skips what was seen, records the sequence number and calls the    *)
(* handler.  After a disconnect the stream is resumed from the recorded    *)
(* numbers, so events still in the channel are received a second time.     *)
(*                                                                         *)
(* A lock region of EventConsumer.mu is one step.  One Start and one Stop  *)
(* are modelled, what cmd/serve/main.go does at launch and shutdown.       *)
(***************************************************************************)
EXTENDS Naturals, Sequences

CONSTANTS Nodes,         \* origin nodes of events (UAEvent.NodeID)
          MaxSeq,        \* bound: events a node emits; their Seq is 1..MaxSeq
          QueueCap,      \* capacity of eventCh (1000 in NewEventConsumer)
          MaxFailures,   \* bound: dials, stream requests and streams that fail
          ServerCancels  \* whether the UA may end a stream with codes.Canceled

ASSUME ConstantsOK == /\ MaxSeq \in Nat
                      /\ QueueCap \in Nat \ {0}
                      /\ MaxFailures \in Nat
                      /\ ServerCancels \in BOOLEAN

VARIABLES
  emitted,        \* UA: [Nodes -> 0..MaxSeq], the events it has emitted per node
  pos,            \* UA: per node, the last event the open stream has delivered
  failures,       \* UA and network: failures so far
  running,        \* EventConsumer.running
  stopped,        \* stopChan is closed
  cancelled,      \* the context passed to Start is done
  grpcConn,       \* EventConsumer.grpcConn: "nil", the streamer's "current" one, or a "stale" one
  connOpen,       \* the streamer's own conn is usable
  eventCh,        \* the channel's buffer
  chClosed,       \* eventCh is closed
  nodeSequences,  \* EventConsumer.nodeSequences; an absent key reads 0
  lastSeen,       \* LastSeenSeq of the last StreamEventsRequest
  spc,            \* where streamFromGRPC / consumeStream stands
  hand,           \* the event consumeStream holds while it sends to eventCh
  lpc,            \* where processEventLoop / HandleEvent stands
  event,          \* the event HandleEvent works on
  calls,          \* history: handler calls per event
  handlerErred    \* history: some handler has returned an error

uaVars       == <<emitted, pos, failures>>
lifeVars     == <<running, stopped, cancelled>>
connVars     == <<grpcConn, connOpen>>
chVars       == <<eventCh, chClosed>>
streamerVars == <<spc, hand, lastSeen>>
loopVars     == <<lpc, event, nodeSequences, calls, handlerErred>>
vars == <<uaVars, lifeVars, connVars, chVars, streamerVars, loopVars>>

Event == [node : Nodes, seq : 1..MaxSeq]
NoEvent == [node |-> "none", seq |-> 0]

Init ==
  /\ emitted = [n \in Nodes |-> 0] /\ pos = [n \in Nodes |-> 0] /\ failures = 0
  /\ running = FALSE /\ stopped = FALSE /\ cancelled = FALSE
  /\ grpcConn = "nil" /\ connOpen = FALSE
  /\ eventCh = <<>> /\ chClosed = FALSE
  /\ nodeSequences = [n \in Nodes |-> 0]
  /\ lastSeen = [n \in Nodes |-> 0]
  /\ spc = "idle" /\ hand = NoEvent
  /\ lpc = "idle" /\ event = NoEvent
  /\ calls = [e \in Event |-> 0] /\ handlerErred = FALSE

-----------------------------------------------------------------------------
(* The UA and the network, as the agent uses them (external).              *)

\* The UA emits the next event of node n; its log is append-only.
UAEmit(n) ==
  /\ emitted[n] < MaxSeq
  /\ emitted' = [emitted EXCEPT ![n] = @ + 1]
  /\ UNCHANGED <<pos, failures, lifeVars, connVars, chVars, streamerVars, loopVars>>

\* The environment uses one of its MaxFailures failures.
Fail == failures < MaxFailures /\ failures' = failures + 1

-----------------------------------------------------------------------------
(* Start, Stop and the context.                                            *)

Start ==
  /\ ~running /\ spc = "idle" /\ lpc = "idle"
  /\ running' = TRUE
  /\ spc' = "check" /\ lpc' = "select"
  /\ UNCHANGED <<uaVars, stopped, cancelled, connVars, chVars, hand, lastSeen,
                 event, nodeSequences, calls, handlerErred>>

Stop ==
  /\ running
  /\ running' = FALSE
  /\ stopped' = TRUE
  /\ connOpen' = (connOpen /\ grpcConn # "current")
  /\ grpcConn' = "nil"
  /\ UNCHANGED <<uaVars, cancelled, chVars, streamerVars, loopVars>>

\* The runtime cancels the context (cmd/serve/main.go, Runtime.Run).
CancelContext ==
  /\ spc # "idle" /\ ~cancelled
  /\ cancelled' = TRUE
  /\ UNCHANGED <<uaVars, running, stopped, connVars, chVars, streamerVars, loopVars>>

-----------------------------------------------------------------------------
(* streamFromGRPC.                                                         *)

\* conn.Close() on the streamer's own connection; the field keeps pointing at it.
CloseConn ==
  /\ connOpen' = FALSE
  /\ grpcConn' = IF grpcConn = "current" THEN "stale" ELSE grpcConn

\* The select at the top of the loop.
CheckStop ==
  /\ spc = "check"
  /\ IF stopped \/ cancelled
     THEN spc' = "done" /\ chClosed' = TRUE
     ELSE spc' = "dial" /\ UNCHANGED chClosed
  /\ UNCHANGED <<uaVars, lifeVars, connVars, eventCh, hand, lastSeen, loopVars>>

Dial ==
  /\ spc = "dial"
  /\ \/ spc' = "dialled" /\ connOpen' = TRUE /\ UNCHANGED failures
     \/ spc' = "sleep" /\ Fail /\ UNCHANGED connOpen
  /\ UNCHANGED <<emitted, pos, lifeVars, grpcConn, chVars, hand, lastSeen, loopVars>>

\* ec.grpcConn = conn, under the lock.
StoreConn ==
  /\ spc = "dialled"
  /\ grpcConn' = "current"
  /\ spc' = "request"
  /\ UNCHANGED <<uaVars, lifeVars, connOpen, chVars, hand, lastSeen, loopVars>>

\* getLastSeenSeq: the request carries a copy of nodeSequences.
BuildRequest ==
  /\ spc = "request"
  /\ lastSeen' = nodeSequences
  /\ spc' = "open"
  /\ UNCHANGED <<uaVars, lifeVars, connVars, chVars, hand, loopVars>>

\* client.StreamEvents succeeds.  The UA resumes no later than lastSeen + 1
\* and may replay older events.
OpenStream ==
  /\ spc = "open" /\ connOpen
  /\ pos' \in {p \in [Nodes -> 0..MaxSeq] : \A n \in Nodes : p[n] <= lastSeen[n]}
  /\ spc' = "stream"
  /\ UNCHANGED <<emitted, failures, lifeVars, connVars, chVars, hand, lastSeen, loopVars>>

\* client.StreamEvents fails: the network or the UA failed, or Stop or the
\* context ended the connection.
OpenFails ==
  /\ spc = "open"
  /\ IF connOpen /\ ~cancelled THEN Fail ELSE UNCHANGED failures
  /\ CloseConn
  /\ spc' = "sleep"
  /\ UNCHANGED <<emitted, pos, lifeVars, chVars, hand, lastSeen, loopVars>>

\* Mutant of EndStream: the channel is closed after every stream.
EndStreamAlwaysCloses(canceled) ==
  /\ CloseConn
  /\ hand' = NoEvent /\ chClosed' = TRUE
  /\ spc' = IF canceled THEN "done" ELSE "sleep"

\* consumeStream returned: a Canceled status ends the streamer for good and
\* closes the channel, anything else is retried after the backoff.
EndStream(canceled) ==
  /\ CloseConn
  /\ hand' = NoEvent
  /\ IF canceled THEN spc' = "done" /\ chClosed' = TRUE
                 ELSE spc' = "sleep" /\ UNCHANGED chClosed

\* The select at the top of consumeStream's loop.  ctx.Err() carries no
\* status, so the caller takes it for an ordinary error.
CheckStream ==
  /\ spc = "stream"
  /\ \/ stopped /\ EndStream(TRUE)
     \/ cancelled /\ EndStream(FALSE)
     \/ ~stopped /\ ~cancelled /\ spc' = "recv" /\ UNCHANGED <<connVars, hand, chClosed>>
  /\ UNCHANGED <<uaVars, lifeVars, eventCh, lastSeen, loopVars>>

\* stream.Recv returns the next event of some node, already converted.
Recv(n) ==
  /\ spc = "recv"
  /\ pos[n] < emitted[n]
  /\ pos' = [pos EXCEPT ![n] = @ + 1]
  /\ hand' = [node |-> n, seq |-> pos[n] + 1]
  /\ spc' = "push"
  /\ UNCHANGED <<emitted, failures, lifeVars, connVars, chVars, lastSeen, loopVars>>

\* stream.Recv fails with Canceled after Stop closed the connection or the
\* context ended.
RecvCanceled ==
  /\ spc = "recv"
  /\ ~connOpen \/ cancelled
  /\ EndStream(TRUE)
  /\ UNCHANGED <<uaVars, lifeVars, eventCh, lastSeen, loopVars>>

\* The UA or the network ends the stream.
StreamBreaks ==
  /\ spc = "recv" /\ connOpen
  /\ Fail
  /\ EndStream(FALSE)
  /\ UNCHANGED <<emitted, pos, lifeVars, eventCh, lastSeen, loopVars>>

\* The UA itself ends the stream with status Canceled, say as it shuts down.
ServerCancel ==
  /\ ServerCancels
  /\ spc = "recv" /\ connOpen
  /\ EndStream(TRUE)
  /\ UNCHANGED <<uaVars, lifeVars, eventCh, lastSeen, loopVars>>

\* Mutants of Push: it drops the event if the channel is full, blocks without
\* watching stopChan and the context, or does not block at all.
PushOrDrop ==
  /\ spc = "push"
  /\ eventCh' = IF Len(eventCh) < QueueCap THEN Append(eventCh, hand) ELSE eventCh
  /\ spc' = "stream" /\ hand' = NoEvent
  /\ UNCHANGED <<uaVars, lifeVars, connVars, chClosed, lastSeen, loopVars>>

PushBlocking == Len(eventCh) < QueueCap /\ PushOrDrop

PushUnbounded ==
  /\ spc = "push"
  /\ eventCh' = Append(eventCh, hand)
  /\ spc' = "stream" /\ hand' = NoEvent
  /\ UNCHANGED <<uaVars, lifeVars, connVars, chClosed, lastSeen, loopVars>>

\* The select that sends to eventCh; it blocks while the channel is full.
Push ==
  /\ spc = "push"
  /\ \/ /\ Len(eventCh) < QueueCap
        /\ eventCh' = Append(eventCh, hand)
        /\ spc' = "stream" /\ hand' = NoEvent
        /\ UNCHANGED <<connVars, chClosed>>
     \/ stopped /\ EndStream(TRUE) /\ UNCHANGED eventCh
     \/ cancelled /\ EndStream(FALSE) /\ UNCHANGED eventCh
  /\ UNCHANGED <<uaVars, lifeVars, lastSeen, loopVars>>

\* time.Sleep(backoff) ends; it does not watch stopChan.
Wake ==
  /\ spc = "sleep"
  /\ spc' = "check"
  /\ UNCHANGED <<uaVars, lifeVars, connVars, chVars, hand, lastSeen, loopVars>>

Streamer == \/ CheckStop \/ Dial \/ StoreConn \/ BuildRequest \/ OpenStream \/ OpenFails
            \/ CheckStream \/ (\E n \in Nodes : Recv(n)) \/ RecvCanceled \/ Push \/ Wake

-----------------------------------------------------------------------------
(* processEventLoop and HandleEvent.                                       *)

\* The select takes a ready case: stop or context, an event, or the close of
\* a drained channel.
TakeEvent ==
  /\ lpc = "select"
  /\ eventCh # <<>>
  /\ event' = Head(eventCh)
  /\ eventCh' = Tail(eventCh)
  /\ lpc' = "check"
  /\ UNCHANGED <<uaVars, lifeVars, connVars, chClosed, streamerVars, nodeSequences,
                 calls, handlerErred>>

\* Mutant of LeaveLoop: a closed channel ends the loop before it is drained.
LeaveUndrained ==
  /\ lpc = "select"
  /\ stopped \/ cancelled \/ chClosed
  /\ lpc' = "done"
  /\ UNCHANGED <<uaVars, lifeVars, connVars, chVars, streamerVars, event, nodeSequences,
                 calls, handlerErred>>

LeaveLoop ==
  /\ lpc = "select"
  /\ stopped \/ cancelled \/ (chClosed /\ eventCh = <<>>)
  /\ lpc' = "done"
  /\ UNCHANGED <<uaVars, lifeVars, connVars, chVars, streamerVars, event, nodeSequences,
                 calls, handlerErred>>

\* Mutants of Seen: the last event again, or an older one, is not recognised.
SeenOlder(e) == e.seq < nodeSequences[e.node]
SeenLast(e)  == e.seq = nodeSequences[e.node]

\* HandleEvent's guard: what is not newer than the recorded number is skipped.
Seen(e) == e.seq <= nodeSequences[e.node] /\ nodeSequences[e.node] > 0

CheckSequence ==
  /\ lpc = "check"
  /\ IF Seen(event) THEN lpc' = "select" /\ event' = NoEvent
                    ELSE lpc' = "mark" /\ UNCHANGED event
  /\ UNCHANGED <<uaVars, lifeVars, connVars, chVars, streamerVars, nodeSequences,
                 calls, handlerErred>>

\* The sequence number is recorded before the handler is looked up and called.
MarkSequence ==
  /\ lpc = "mark"
  /\ nodeSequences' = [nodeSequences EXCEPT ![event.node] = event.seq]
  /\ calls' = [calls EXCEPT ![event] = @ + 1]
  /\ lpc' = "handle"
  /\ UNCHANGED <<uaVars, lifeVars, connVars, chVars, streamerVars, event, handlerErred>>

\* The handler returns; its error is logged by the loop and nothing else.
FinishEvent ==
  /\ lpc = "handle"
  /\ handlerErred' \in {handlerErred, TRUE}
  /\ lpc' = "select" /\ event' = NoEvent
  /\ UNCHANGED <<uaVars, lifeVars, connVars, chVars, streamerVars, nodeSequences, calls>>

Loop == TakeEvent \/ LeaveLoop \/ CheckSequence \/ MarkSequence \/ FinishEvent

-----------------------------------------------------------------------------
\* Both goroutines have ended; what is left is the UA on its own.
Terminated == spc = "done" /\ lpc = "done" /\ UNCHANGED vars

Next == \/ \E n \in Nodes : UAEmit(n)
        \/ Start \/ Stop \/ CancelContext
        \/ Streamer \/ StreamBreaks \/ ServerCancel
        \/ Loop \/ Terminated

Spec == Init /\ [][Next]_vars

\* The Go scheduler runs both goroutines and handlers return; nothing forces
\* the UA, the network or the runtime to act.
FairSpec == Spec /\ WF_vars(Streamer) /\ WF_vars(Loop)

-----------------------------------------------------------------------------
(* Properties.                                                             *)

TypeOK ==
  /\ emitted \in [Nodes -> 0..MaxSeq] /\ pos \in [Nodes -> 0..MaxSeq]
  /\ failures \in 0..MaxFailures
  /\ running \in BOOLEAN /\ stopped \in BOOLEAN /\ cancelled \in BOOLEAN
  /\ grpcConn \in {"nil", "current", "stale"} /\ connOpen \in BOOLEAN
  /\ eventCh \in Seq(Event) /\ Len(eventCh) <= QueueCap /\ chClosed \in BOOLEAN
  /\ nodeSequences \in [Nodes -> 0..MaxSeq] /\ lastSeen \in [Nodes -> 0..MaxSeq]
  /\ spc \in {"idle", "check", "dial", "dialled", "request", "open", "stream", "recv",
              "push", "sleep", "done"}
  /\ hand \in Event \cup {NoEvent} /\ (spc = "push" <=> hand \in Event)
  /\ lpc \in {"idle", "select", "check", "mark", "handle", "done"}
  /\ event \in Event \cup {NoEvent}
  /\ lpc \in {"check", "mark", "handle"} => event \in Event
  /\ calls \in [Event -> Nat] /\ handlerErred \in BOOLEAN

\* The events on their way to a handler: held by the loop and not yet
\* recorded, in the channel, or held by the streamer.
InLoop   == IF lpc \in {"check", "mark"} THEN {event} ELSE {}
InFlight == InLoop \cup {eventCh[i] : i \in 1..Len(eventCh)}
                   \cup (IF spc = "push" THEN {hand} ELSE {})

\* While a stream is open every event it has delivered is recorded or still on
\* its way: consumeStream, the channel and the resumption from nodeSequences
\* lose none between them, across any number of disconnects.
NothingLost ==
  spc \in {"stream", "recv", "push"} =>
    \A n \in Nodes : \A s \in (nodeSequences[n] + 1)..pos[n] : [node |-> n, seq |-> s] \in InFlight

\* Every event of the UA's log up to the recorded number has been handed to a
\* handler exactly once and none beyond it, however often a reconnect made the
\* UA send it again while an older copy sat in the channel.
HandledExactlyOnce ==
  \A e \in Event : calls[e] = IF e.seq <= nodeSequences[e.node] THEN 1 ELSE 0

\* HandleEvent applies the UA's log of each node in order, without gaps and
\* only as far as the UA has emitted it: the consumer implements the abstract
\* delivery service.
Delivery == INSTANCE InOrderDelivery WITH applied <- nodeSequences
ImplementsDelivery == Delivery!Spec

\* Nothing is sent to the channel once it is closed (a send would panic), and
\* it is closed at most once: only the streamer's last step closes it.
ClosedForGood == chClosed <=> spc = "done"

\* Stop or the end of the context lets both goroutines end, whatever they were
\* doing: sleeping, dialling, blocked in Recv or on the full channel.
StopEndsGoroutines == (stopped \/ cancelled) ~> (spc = "done" /\ lpc = "done")

\* Every event the UA emits reaches a handler, unless the consumer is stopped
\* or the streamer has ended: failed dials, broken streams, replays and a full
\* channel only delay it.
EventsReachHandlers ==
  \A n \in Nodes : \A s \in 1..MaxSeq :
    (running /\ emitted[n] >= s) ~> (nodeSequences[n] >= s \/ stopped \/ spc = "done")

\* What was received before the stream was cancelled is still applied: the loop
\* drains the closed channel unless it is told to stop.
DrainedAfterClose == chClosed ~> (stopped \/ cancelled \/ eventCh = <<>>)

-----------------------------------------------------------------------------
(* The inductive invariant behind the safety properties.                   *)

\* What HandleEvent will see before the i-th event of the channel.
Ahead(i) == InLoop \cup {eventCh[j] : j \in 1..(i - 1)}

\* An event in the channel is preceded there, or in the loop, by every event
\* of its node that is older and not recorded yet.
ChannelInOrder ==
  \A i \in 1..Len(eventCh) : \A s \in 1..MaxSeq :
    nodeSequences[eventCh[i].node] < s /\ s < eventCh[i].seq
      => [node |-> eventCh[i].node, seq |-> s] \in Ahead(i)

\* The loop's event extends what is recorded by at most one, and exactly by one
\* once it has passed the guard.
LoopInOrder ==
  /\ lpc = "check" => event.seq <= nodeSequences[event.node] + 1
  /\ lpc = "mark"  => event.seq = nodeSequences[event.node] + 1

\* The streamer's event is the last one its stream has delivered for the node.
HandIsLatest == spc = "push" => hand.seq = pos[hand.node]

\* Positions and recorded numbers stay within the UA's log, and a request never
\* resumes past what is recorded.
WithinLog ==
  /\ \A n \in Nodes : /\ pos[n] <= emitted[n]
                      /\ nodeSequences[n] <= emitted[n]
                      /\ lastSeen[n] <= nodeSequences[n]
  /\ \A e \in InFlight : e.seq <= emitted[e.node]

IInv == /\ TypeOK /\ NothingLost /\ HandledExactlyOnce /\ ClosedForGood
        /\ ChannelInOrder /\ LoopInOrder /\ HandIsLatest /\ WithinLog

-----------------------------------------------------------------------------
(* What comments say of the code, and the code does not do.                *)

\* consumeStream: "sequence will be updated after processing in HandleEvent"
\* (ua_event_consumer.go:316).  Then the numbers a request resumes from cover
\* no event whose handler is still at work or has failed: the UA would never
\* send that event again.
ResumesAfterProcessed ==
  [][BuildRequest => ~handlerErred /\ lpc # "handle"]_vars
=============================================================================
