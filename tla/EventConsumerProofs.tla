------------------------ MODULE EventConsumerProofs ------------------------
(* What TLAPS proves of EventConsumer, for all values of its constants. *)
EXTENDS EventConsumer, TLAPS

(* Events are told from NoEvent by their sequence number, which is positive. *)
LEMMA EventFacts ==
  /\ NoEvent \notin Event
  /\ \A e \in Event : e.node \in Nodes /\ e.seq \in 1..MaxSeq
  /\ \A n \in Nodes, s \in 1..MaxSeq : [node |-> n, seq |-> s] \in Event
  <1>1. NoEvent \notin Event
    <2> SUFFICES ASSUME NoEvent \in Event PROVE FALSE
      OBVIOUS
    <2>1. NoEvent.seq \in 1..MaxSeq  BY DEF Event
    <2>2. NoEvent.seq = 0  BY DEF NoEvent
    <2> QED  BY <2>1, <2>2, ConstantsOK DEF ConstantsOK
  <1> QED  BY <1>1 DEF Event

(* Every variable starts within its type. *)
LEMMA InitTypeOK == Init => TypeOK
  <1> SUFFICES ASSUME Init PROVE TypeOK
    OBVIOUS
  <1>1. eventCh \in Seq(Event) /\ Len(eventCh) <= QueueCap
    BY ConstantsOK DEF Init, ConstantsOK
  <1>2. /\ emitted \in [Nodes -> 0..MaxSeq] /\ pos \in [Nodes -> 0..MaxSeq]
        /\ nodeSequences \in [Nodes -> 0..MaxSeq] /\ lastSeen \in [Nodes -> 0..MaxSeq]
        /\ calls \in [Event -> Nat]
    BY ConstantsOK DEF Init, ConstantsOK
  <1>3. failures \in 0..MaxFailures /\ hand = NoEvent /\ event = NoEvent
    BY ConstantsOK DEF Init, ConstantsOK
  <1>4. /\ running \in BOOLEAN /\ stopped \in BOOLEAN /\ cancelled \in BOOLEAN
        /\ connOpen \in BOOLEAN /\ chClosed \in BOOLEAN /\ handlerErred \in BOOLEAN
    BY DEF Init
  <1> QED  BY <1>1, <1>2, <1>3, <1>4, EventFacts DEF Init, TypeOK

(* The streamer's steps keep the types. *)
LEMMA StreamerTypeOK ==
  ASSUME TypeOK, Streamer \/ StreamBreaks \/ ServerCancel
  PROVE  TypeOK'
  <1> USE ConstantsOK, EventFacts DEF ConstantsOK, TypeOK, lifeVars, loopVars, uaVars,
          connVars, chVars, CloseConn, EndStream, Fail
  <1>1. CASE CheckStop  BY <1>1, ZenonT(40) DEF CheckStop
  <1>2. CASE Dial
    <2>1. failures' \in 0..MaxFailures  BY <1>2 DEF Dial
    <2>2. connOpen' \in BOOLEAN  BY <1>2 DEF Dial
    <2> QED  BY <1>2, <2>1, <2>2 DEF Dial
  <1>3. CASE StoreConn  BY <1>3 DEF StoreConn
  <1>4. CASE BuildRequest  BY <1>4 DEF BuildRequest
  <1>5. CASE OpenStream  BY <1>5 DEF OpenStream
  <1>6. CASE OpenFails
    <2>1. failures' \in 0..MaxFailures  BY <1>6 DEF OpenFails
    <2>2. grpcConn' \in {"nil", "current", "stale"}  BY <1>6 DEF OpenFails
    <2> QED  BY <1>6, <2>1, <2>2 DEF OpenFails
  <1>7. CASE CheckStream  BY <1>7, ZenonT(40) DEF CheckStream
  <1>8. ASSUME NEW n \in Nodes, Recv(n) PROVE TypeOK'
    <2>1. pos[n] + 1 \in 1..MaxSeq  BY <1>8 DEF Recv
    <2> QED  BY <1>8, <2>1 DEF Recv
  <1>9. CASE RecvCanceled  BY <1>9 DEF RecvCanceled
  <1>10. CASE Push
    <2>1. CASE eventCh' = Append(eventCh, hand) /\ Len(eventCh) < QueueCap
      BY <1>10, <2>1 DEF Push
    <2>2. CASE stopped /\ EndStream(TRUE) /\ UNCHANGED eventCh
      BY <1>10, <2>2 DEF Push
    <2>3. CASE cancelled /\ EndStream(FALSE) /\ UNCHANGED eventCh
      BY <1>10, <2>3, ZenonT(40) DEF Push
    <2> QED  BY <1>10, <2>1, <2>2, <2>3 DEF Push
  <1>11. CASE Wake  BY <1>11 DEF Wake
  <1>12. CASE StreamBreaks
    <2>1. failures' \in 0..MaxFailures  BY <1>12 DEF StreamBreaks
    <2>2. grpcConn' \in {"nil", "current", "stale"}  BY <1>12 DEF StreamBreaks
    <2> QED  BY <1>12, <2>1, <2>2 DEF StreamBreaks
  <1>13. CASE ServerCancel  BY <1>13 DEF ServerCancel
  <1> QED  BY <1>1, <1>2, <1>3, <1>4, <1>5, <1>6, <1>7, <1>8, <1>9, <1>10, <1>11, <1>12,
              <1>13 DEF Streamer

(* The loop's steps and those of the environment keep the types. *)
LEMMA OtherTypeOK ==
  ASSUME TypeOK, \/ \E n \in Nodes : UAEmit(n)
                 \/ Start \/ Stop \/ CancelContext \/ Loop \/ UNCHANGED vars
  PROVE  TypeOK'
  <1> USE ConstantsOK, EventFacts DEF ConstantsOK, TypeOK, lifeVars, loopVars, uaVars,
          connVars, chVars, streamerVars
  <1>1. ASSUME NEW n \in Nodes, UAEmit(n) PROVE TypeOK'  BY <1>1 DEF UAEmit
  <1>2. CASE Start  BY <1>2 DEF Start
  <1>3. CASE Stop  BY <1>3, ZenonT(40) DEF Stop
  <1>4. CASE CancelContext  BY <1>4 DEF CancelContext
  <1>5. CASE TakeEvent
    <2>1. Head(eventCh) \in Event /\ Tail(eventCh) \in Seq(Event)
          /\ Len(Tail(eventCh)) <= QueueCap
      BY <1>5 DEF TakeEvent
    <2> QED  BY <1>5, <2>1, SMTT(30) DEF TakeEvent
  <1>6. CASE LeaveLoop  BY <1>6 DEF LeaveLoop
  <1>7. CASE CheckSequence  BY <1>7 DEF CheckSequence
  <1>8. CASE MarkSequence  BY <1>8, SMTT(30) DEF MarkSequence
  <1>9. CASE FinishEvent
    <2>1. handlerErred' \in BOOLEAN  BY <1>9 DEF FinishEvent
    <2> QED  BY <1>9, <2>1 DEF FinishEvent
  <1>10. CASE UNCHANGED vars  BY <1>10 DEF vars
  <1> QED  BY <1>1, <1>2, <1>3, <1>4, <1>5, <1>6, <1>7, <1>8, <1>9, <1>10 DEF Loop

(* The variables of the consumer keep their types in every behaviour.        *)
THEOREM Typing == Spec => []TypeOK
  <1>1. TypeOK /\ [Next]_vars => TypeOK'
    BY StreamerTypeOK, OtherTypeOK DEF Next, Terminated
  <1> QED  BY InitTypeOK, <1>1, PTL DEF Spec

-----------------------------------------------------------------------------
(* A step that touches neither the channel nor the loop keeps what is said   *)
(* of them alone.                                                            *)
LEMMA LoopFrame ==
  ASSUME ChannelInOrder, LoopInOrder, HandledExactlyOnce, UNCHANGED <<eventCh, loopVars>>
  PROVE  ChannelInOrder' /\ LoopInOrder' /\ HandledExactlyOnce' /\ InLoop' = InLoop
  BY DEF ChannelInOrder, LoopInOrder, HandledExactlyOnce, Ahead, InLoop, loopVars

(* A step after which no stream is open, and which moves no event, keeps the *)
(* invariant: what the streamer held is dropped and will be sent again.      *)
LEMMA NoStreamStep ==
  ASSUME IInv, TypeOK', ClosedForGood', spc' \notin {"stream", "recv", "push"},
         UNCHANGED <<emitted, pos, eventCh, loopVars>>,
         lastSeen' = lastSeen \/ lastSeen' = nodeSequences
  PROVE  IInv'
  <1>1. ChannelInOrder' /\ LoopInOrder' /\ HandledExactlyOnce' /\ InLoop' = InLoop
    BY LoopFrame DEF IInv
  <1>2. NothingLost' /\ HandIsLatest'
    BY DEF NothingLost, HandIsLatest
  <1>3. InFlight' \subseteq InFlight
    BY <1>1 DEF InFlight
  <1>4. \A n \in Nodes : (pos[n] <= emitted[n] /\ nodeSequences[n] <= emitted[n]
                          /\ lastSeen[n] <= nodeSequences[n])'
    BY DEF IInv, TypeOK, WithinLog, loopVars
  <1>5. WithinLog'
    BY <1>3, <1>4 DEF IInv, WithinLog
  <1> QED  BY <1>1, <1>2, <1>5 DEF IInv

(* Opening a stream resumes each node at or before what is recorded.         *)
LEMMA OpenStreamInv == ASSUME IInv, TypeOK', OpenStream PROVE IInv'
  <1> USE DEF OpenStream, lifeVars, connVars, chVars
  <1>1. ChannelInOrder' /\ LoopInOrder' /\ HandledExactlyOnce' /\ InLoop' = InLoop
    BY LoopFrame DEF IInv
  <1>2. \A n \in Nodes : pos'[n] <= nodeSequences'[n]
    BY DEF IInv, TypeOK, WithinLog, loopVars
  <1>3. NothingLost'
    BY <1>2 DEF NothingLost, IInv, TypeOK
  <1>4. InFlight' = InFlight
    BY <1>1 DEF InFlight
  <1>5. WithinLog'
    BY <1>2, <1>4 DEF IInv, TypeOK, WithinLog, loopVars
  <1>6. HandIsLatest' /\ ClosedForGood'
    BY DEF HandIsLatest, ClosedForGood, IInv
  <1> QED  BY <1>1, <1>3, <1>5, <1>6 DEF IInv

(* consumeStream goes on to Recv with nothing in hand.                       *)
LEMMA ReceivingInv ==
  ASSUME IInv, TypeOK', CheckStream, spc' = "recv",
         UNCHANGED <<emitted, pos, eventCh, chClosed, lastSeen, loopVars>>
  PROVE  IInv'
  <1>1. ChannelInOrder' /\ LoopInOrder' /\ HandledExactlyOnce' /\ InLoop' = InLoop
    BY LoopFrame DEF IInv
  <1>2. spc = "stream" /\ InFlight' = InFlight
    BY <1>1 DEF CheckStream, InFlight
  <1>3. NothingLost' /\ WithinLog'
    BY <1>2 DEF NothingLost, WithinLog, IInv, loopVars
  <1>4. HandIsLatest' /\ ClosedForGood'
    BY <1>2 DEF HandIsLatest, ClosedForGood, IInv
  <1> QED  BY <1>1, <1>3, <1>4 DEF IInv

(* Recv takes the next event of a node, so the streamer's hand continues     *)
(* what the stream has delivered.                                            *)
LEMMA RecvInv == ASSUME IInv, TypeOK', NEW n \in Nodes, Recv(n) PROVE IInv'
  <1> USE DEF Recv, lifeVars, connVars, chVars
  <1>1. ChannelInOrder' /\ LoopInOrder' /\ HandledExactlyOnce' /\ InLoop' = InLoop
    BY LoopFrame DEF IInv
  <1>2. InFlight' = InFlight \cup {[node |-> n, seq |-> pos[n] + 1]}
    BY <1>1 DEF InFlight
  <1>3. /\ pos'[n] = pos[n] + 1 /\ pos[n] \in Nat
        /\ \A m \in Nodes \ {n} : pos'[m] = pos[m]
    BY DEF IInv, TypeOK
  <1>4. NothingLost'
    <2> SUFFICES ASSUME NEW m \in Nodes, NEW s \in (nodeSequences[m] + 1)..pos'[m]
                 PROVE  [node |-> m, seq |-> s] \in InFlight'
      BY DEF NothingLost, loopVars
    <2>1. CASE s \in (nodeSequences[m] + 1)..pos[m]
      BY <1>2, <2>1 DEF IInv, NothingLost
    <2>2. CASE s \notin (nodeSequences[m] + 1)..pos[m]
      <3>1. m = n /\ s = pos[n] + 1  BY <1>3, <2>2 DEF IInv, TypeOK
      <3> QED  BY <1>2, <3>1
    <2> QED  BY <2>1, <2>2
  <1>5. WithinLog'
    <2>1. pos[n] + 1 <= emitted[n]  BY DEF IInv, TypeOK
    <2>2. \A e \in InFlight' : e.seq <= emitted'[e.node]
      BY <1>2, <2>1 DEF IInv, WithinLog
    <2>3. \A m \in Nodes : (pos[m] <= emitted[m] /\ nodeSequences[m] <= emitted[m]
                            /\ lastSeen[m] <= nodeSequences[m])'
      BY <1>3, <2>1 DEF IInv, WithinLog, loopVars
    <2> QED  BY <2>2, <2>3 DEF WithinLog
  <1>6. HandIsLatest' /\ ClosedForGood'
    BY <1>3 DEF HandIsLatest, ClosedForGood, IInv
  <1> QED  BY <1>1, <1>4, <1>5, <1>6 DEF IInv

(* Sending the streamer's event appends it behind all that is on its way.    *)
LEMMA SendInv ==
  ASSUME IInv, TypeOK', Push, eventCh' = Append(eventCh, hand), spc' = "stream",
         hand' = NoEvent, UNCHANGED <<connVars, chClosed>>
  PROVE  IInv'
  <1> USE DEF lifeVars, connVars, uaVars, loopVars
  <1>1. /\ spc = "push" /\ hand \in Event /\ hand.seq = pos[hand.node]
        /\ hand = [node |-> hand.node, seq |-> hand.seq]
        /\ hand.node \in Nodes /\ hand.seq \in 1..MaxSeq
    BY DEF Push, IInv, TypeOK, HandIsLatest, Event
  <1>2. /\ UNCHANGED <<emitted, pos, nodeSequences, lastSeen, lpc, event, calls>>
        /\ InLoop' = InLoop
    BY DEF Push, InLoop
  <1>3. /\ Len(eventCh) \in Nat /\ Len(eventCh') = Len(eventCh) + 1
        /\ eventCh'[Len(eventCh) + 1] = hand
        /\ \A i \in 1..Len(eventCh) : eventCh'[i] = eventCh[i]
    BY <1>1, SMTT(30) DEF IInv, TypeOK
  <1>4. InFlight' = InFlight
    <2>1. {eventCh'[i] : i \in 1..Len(eventCh')} = {eventCh[i] : i \in 1..Len(eventCh)} \cup {hand}
      BY <1>3
    <2> QED  BY <1>1, <1>2, <2>1 DEF InFlight
  <1>5. ChannelInOrder'
    <2> SUFFICES ASSUME NEW i \in 1..Len(eventCh'), NEW s \in 1..MaxSeq,
                        nodeSequences[eventCh'[i].node] < s, s < eventCh'[i].seq
                 PROVE  [node |-> eventCh'[i].node, seq |-> s] \in Ahead(i)'
      BY <1>2 DEF ChannelInOrder
    <2>1. CASE i \in 1..Len(eventCh)
      <3>1. [node |-> eventCh[i].node, seq |-> s] \in Ahead(i)
        BY <1>3, <2>1 DEF IInv, ChannelInOrder
      <3>2. Ahead(i) = Ahead(i)'
        BY <1>2, <1>3, <2>1 DEF Ahead
      <3> QED  BY <1>3, <2>1, <3>1, <3>2
    <2>2. CASE i = Len(eventCh) + 1
      <3>1. eventCh'[i] = hand  BY <1>3, <2>2
      <3>2. s \in (nodeSequences[hand.node] + 1)..pos[hand.node]
        <4>1. nodeSequences[hand.node] \in Nat  BY <1>1 DEF IInv, TypeOK
        <4>2. nodeSequences[hand.node] < s /\ s < pos[hand.node]  BY <1>1, <3>1
        <4>3. pos[hand.node] \in Nat  BY <1>1 DEF IInv, TypeOK
        <4> QED  BY <4>1, <4>2, <4>3
      <3>3. [node |-> hand.node, seq |-> s] \in InFlight
        BY <1>1, <3>2 DEF IInv, NothingLost
      <3>4. [node |-> hand.node, seq |-> s] # hand
        BY <1>1, <3>1
      <3>5. Ahead(i)' = InLoop \cup {eventCh[j] : j \in 1..Len(eventCh)}
        BY <1>2, <1>3, <2>2 DEF Ahead
      <3> QED  BY <1>1, <3>1, <3>3, <3>4, <3>5 DEF InFlight
    <2> QED  BY <1>3, <2>1, <2>2
  <1>6. NothingLost'
    BY <1>1, <1>2, <1>4 DEF NothingLost, IInv
  <1>7. LoopInOrder' /\ HandledExactlyOnce' /\ WithinLog'
    BY <1>2, <1>4 DEF LoopInOrder, HandledExactlyOnce, WithinLog, IInv
  <1>8. HandIsLatest' /\ ClosedForGood'
    BY <1>1 DEF HandIsLatest, ClosedForGood, IInv
  <1> QED  BY <1>5, <1>6, <1>7, <1>8 DEF IInv

-----------------------------------------------------------------------------
(* Taking the channel's head moves it into the loop, where it is checked     *)
(* before everything that was behind it.                                     *)
LEMMA TakeInv == ASSUME IInv, TypeOK', TakeEvent PROVE IInv'
  <1> USE DEF lifeVars, connVars, uaVars, streamerVars
  <1>1. /\ lpc = "select" /\ lpc' = "check" /\ event' = eventCh[1]
        /\ UNCHANGED <<emitted, pos, nodeSequences, lastSeen, spc, hand, chClosed, calls>>
        /\ InLoop = {} /\ InLoop' = {eventCh[1]}
    BY DEF TakeEvent, IInv, TypeOK, InLoop
  <1>2. /\ Len(eventCh) \in Nat \ {0} /\ Len(eventCh') = Len(eventCh) - 1
        /\ \A i \in 1..Len(eventCh') : eventCh'[i] = eventCh[i + 1]
        /\ \A i \in 1..Len(eventCh) : eventCh[i] \in Event
    BY DEF TakeEvent, IInv, TypeOK
  <1>3. \A k \in 0..Len(eventCh') :
          {eventCh[1]} \cup {eventCh'[j] : j \in 1..k} = {eventCh[j] : j \in 1..(k + 1)}
    <2> SUFFICES ASSUME NEW k \in 0..Len(eventCh')
                 PROVE  {eventCh[1]} \cup {eventCh'[j] : j \in 1..k}
                          = {eventCh[j] : j \in 1..(k + 1)}
      OBVIOUS
    <2>1. \A j \in 1..k : j + 1 \in 1..(k + 1) /\ eventCh'[j] = eventCh[j + 1]
      BY <1>2
    <2>2. \A j \in 1..(k + 1) : j = 1 \/ (j - 1 \in 1..k /\ eventCh'[j - 1] = eventCh[j])
      BY <1>2
    <2>3. 1 \in 1..(k + 1)
      BY <1>2
    <2>4. ASSUME NEW e \in {eventCh[1]} \cup {eventCh'[j] : j \in 1..k}
          PROVE  e \in {eventCh[j] : j \in 1..(k + 1)}
      <3>1. CASE e = eventCh[1]  BY <3>1, <2>3
      <3>2. ASSUME NEW j \in 1..k, e = eventCh'[j]
            PROVE  e \in {eventCh[i] : i \in 1..(k + 1)}
        BY <2>1, <3>2
      <3> QED  BY <2>4, <3>1, <3>2
    <2>5. ASSUME NEW j \in 1..(k + 1)
          PROVE  eventCh[j] \in {eventCh[1]} \cup {eventCh'[i] : i \in 1..k}
      BY <2>2
    <2> QED  BY <2>4, <2>5
  <1>4. InFlight' = InFlight
    <2>1. Len(eventCh') \in 0..Len(eventCh') /\ Len(eventCh') + 1 = Len(eventCh)  BY <1>2
    <2>2. {eventCh[1]} \cup {eventCh'[j] : j \in 1..Len(eventCh')}
            = {eventCh[j] : j \in 1..Len(eventCh)}
      BY <1>3, <2>1
    <2> QED  BY <1>1, <2>2 DEF InFlight
  <1>5. ChannelInOrder'
    <2> SUFFICES ASSUME NEW i \in 1..Len(eventCh'), NEW s \in 1..MaxSeq,
                        nodeSequences[eventCh'[i].node] < s, s < eventCh'[i].seq
                 PROVE  [node |-> eventCh'[i].node, seq |-> s] \in Ahead(i)'
      BY <1>1 DEF ChannelInOrder
    <2>1. [node |-> eventCh[i + 1].node, seq |-> s] \in Ahead(i + 1)
      BY <1>2 DEF IInv, ChannelInOrder
    <2>2. Ahead(i)' = {eventCh[j] : j \in 1..i} /\ Ahead(i + 1) = {eventCh[j] : j \in 1..i}
      <3>1. i - 1 \in 0..Len(eventCh') /\ (i - 1) + 1 = i /\ (i + 1) - 1 = i  BY <1>2
      <3>2. {eventCh[1]} \cup {eventCh'[j] : j \in 1..(i - 1)} = {eventCh[j] : j \in 1..i}
        BY <1>3, <3>1
      <3> QED  BY <1>1, <3>1, <3>2 DEF Ahead
    <2> QED  BY <1>2, <2>1, <2>2
  <1>6. LoopInOrder'
    <2>1. 1 \in 1..Len(eventCh) /\ eventCh[1].node \in Nodes /\ eventCh[1].seq \in 1..MaxSeq
      BY <1>2, EventFacts
    <2>2. Ahead(1) = {}  BY <1>1 DEF Ahead
    <2>3. \A s \in 1..MaxSeq : ~(nodeSequences[eventCh[1].node] < s /\ s < eventCh[1].seq)
      BY <2>1, <2>2 DEF IInv, ChannelInOrder
    <2>4. eventCh[1].seq <= nodeSequences[eventCh[1].node] + 1
      <3>1. nodeSequences[eventCh[1].node] \in Nat  BY <2>1 DEF IInv, TypeOK
      <3> SUFFICES ASSUME ~(eventCh[1].seq <= nodeSequences[eventCh[1].node] + 1) PROVE FALSE
        OBVIOUS
      <3>2. nodeSequences[eventCh[1].node] + 1 \in 1..MaxSeq  BY <2>1, <3>1, ConstantsOK DEF ConstantsOK
      <3> QED  BY <2>1, <2>3, <3>1, <3>2
    <2> QED  BY <1>1, <2>4 DEF LoopInOrder
  <1>7. NothingLost' /\ HandledExactlyOnce' /\ WithinLog' /\ HandIsLatest' /\ ClosedForGood'
    BY <1>1, <1>4 DEF NothingLost, HandledExactlyOnce, WithinLog, HandIsLatest, ClosedForGood,
                      IInv
  <1> QED  BY <1>5, <1>6, <1>7 DEF IInv

(* An event that is skipped is recorded already, so nothing waits for it.    *)
LEMMA CheckInv == ASSUME IInv, TypeOK', CheckSequence PROVE IInv'
  <1> USE DEF lifeVars, connVars, uaVars, streamerVars, chVars
  <1>1. /\ lpc = "check" /\ event \in Event /\ InLoop = {event}
        /\ event.node \in Nodes /\ event.seq \in 1..MaxSeq
        /\ nodeSequences[event.node] \in Nat
        /\ event.seq <= nodeSequences[event.node] + 1
        /\ UNCHANGED <<emitted, pos, eventCh, chClosed, nodeSequences, lastSeen, spc, hand, calls>>
    BY EventFacts DEF CheckSequence, IInv, TypeOK, LoopInOrder, InLoop
  <1>2. /\ HandledExactlyOnce' /\ HandIsLatest' /\ ClosedForGood'
    BY <1>1 DEF HandledExactlyOnce, HandIsLatest, ClosedForGood, IInv
  <1>3. CASE Seen(event)
    <2>1. lpc' = "select" /\ InLoop' = {} /\ event.seq <= nodeSequences[event.node]
      BY <1>3 DEF CheckSequence, InLoop, Seen
    <2>2. InFlight' \subseteq InFlight /\ \A e \in InFlight : e \in InFlight' \/ e = event
      BY <1>1, <2>1 DEF InFlight
    <2>3. NothingLost'
      <3> SUFFICES ASSUME spc \in {"stream", "recv", "push"}, NEW n \in Nodes,
                          NEW s \in (nodeSequences[n] + 1)..pos[n]
                   PROVE  [node |-> n, seq |-> s] \in InFlight'
        BY <1>1 DEF NothingLost
      <3>1. [node |-> n, seq |-> s] \in InFlight  BY DEF IInv, NothingLost
      <3>2. nodeSequences[n] \in Nat /\ pos[n] \in Nat  BY DEF IInv, TypeOK
      <3>3. [node |-> n, seq |-> s] # event  BY <2>1, <3>2
      <3> QED  BY <2>2, <3>1, <3>3
    <2>4. ChannelInOrder'
      <3> SUFFICES ASSUME NEW i \in 1..Len(eventCh), NEW s \in 1..MaxSeq,
                          nodeSequences[eventCh[i].node] < s, s < eventCh[i].seq
                   PROVE  [node |-> eventCh[i].node, seq |-> s] \in Ahead(i)'
        BY <1>1 DEF ChannelInOrder
      <3>1. [node |-> eventCh[i].node, seq |-> s] \in Ahead(i)
        BY DEF IInv, ChannelInOrder
      <3>2. eventCh[i] \in Event  BY DEF IInv, TypeOK
      <3>3. nodeSequences[eventCh[i].node] \in Nat  BY <3>2, EventFacts, SMTT(30) DEF IInv, TypeOK
      <3>4. [node |-> eventCh[i].node, seq |-> s] # event  BY <2>1, <3>3
      <3> QED  BY <1>1, <2>1, <3>1, <3>4 DEF Ahead
    <2>5. LoopInOrder'
      BY <2>1 DEF LoopInOrder
    <2>6. WithinLog'
      BY <1>1, <2>2 DEF WithinLog, IInv
    <2> QED  BY <1>2, <2>3, <2>4, <2>5, <2>6 DEF IInv
  <1>4. CASE ~Seen(event)
    <2>1. lpc' = "mark" /\ event' = event /\ InLoop' = InLoop
      BY <1>1, <1>4 DEF CheckSequence, InLoop
    <2>2. event.seq = nodeSequences[event.node] + 1
      BY <1>1, <1>4 DEF Seen
    <2>3. InFlight' = InFlight  BY <1>1, <2>1 DEF InFlight
    <2>4. LoopInOrder'  BY <1>1, <2>1, <2>2 DEF LoopInOrder
    <2>5. ChannelInOrder'  BY <1>1, <2>1 DEF ChannelInOrder, Ahead, IInv
    <2>6. NothingLost' /\ WithinLog'  BY <1>1, <2>3 DEF NothingLost, WithinLog, IInv
    <2> QED  BY <1>2, <2>4, <2>5, <2>6 DEF IInv
  <1> QED  BY <1>3, <1>4

(* Recording an event advances its node by exactly one.                      *)
LEMMA MarkAdvances ==
  ASSUME IInv, MarkSequence
  PROVE  /\ event \in Event /\ event.node \in Nodes /\ event.seq \in 1..MaxSeq
         /\ nodeSequences[event.node] \in Nat
         /\ event.seq = nodeSequences[event.node] + 1
         /\ event.seq <= emitted[event.node]
         /\ nodeSequences' = [nodeSequences EXCEPT ![event.node] = @ + 1]
         /\ InLoop = {event} /\ InLoop' = {}
  <1>1. lpc = "mark" /\ event \in Event  BY DEF MarkSequence, IInv, TypeOK
  <1>2. InLoop = {event} /\ event \in InFlight  BY <1>1 DEF InLoop, InFlight
  <1>3. event.seq <= emitted[event.node]  BY <1>2 DEF IInv, WithinLog
  <1>4. event.seq = nodeSequences[event.node] + 1  BY <1>1 DEF IInv, LoopInOrder
  <1>5. InLoop' = {}  BY DEF MarkSequence, InLoop
  <1> QED  BY <1>1, <1>2, <1>3, <1>4, <1>5, EventFacts DEF MarkSequence, IInv, TypeOK

(* Recording an event keeps the invariant. *)
LEMMA MarkInv == ASSUME IInv, TypeOK', MarkSequence PROVE IInv'
  <1> USE DEF lifeVars, connVars, uaVars, streamerVars, chVars
  <1>1. /\ event \in Event /\ event.node \in Nodes /\ event.seq \in 1..MaxSeq
        /\ nodeSequences[event.node] \in Nat
        /\ event.seq = nodeSequences[event.node] + 1
        /\ event.seq <= emitted[event.node]
        /\ nodeSequences' = [nodeSequences EXCEPT ![event.node] = @ + 1]
        /\ InLoop = {event} /\ InLoop' = {}
    BY MarkAdvances
  <1>2. UNCHANGED <<emitted, pos, eventCh, chClosed, lastSeen, spc, hand, event>>
    BY DEF MarkSequence
  <1>3. \A n \in Nodes : /\ nodeSequences[n] \in Nat /\ nodeSequences'[n] \in Nat
                         /\ nodeSequences[n] <= nodeSequences'[n]
                         /\ n # event.node => nodeSequences'[n] = nodeSequences[n]
                         /\ n = event.node => nodeSequences'[n] = event.seq
    <2> SUFFICES ASSUME NEW n \in Nodes
                 PROVE  /\ nodeSequences[n] \in Nat /\ nodeSequences'[n] \in Nat
                        /\ nodeSequences[n] <= nodeSequences'[n]
                        /\ n # event.node => nodeSequences'[n] = nodeSequences[n]
                        /\ n = event.node => nodeSequences'[n] = event.seq
      OBVIOUS
    <2>1. DOMAIN nodeSequences = Nodes /\ nodeSequences[n] \in Nat  BY DEF IInv, TypeOK
    <2>2. nodeSequences'[n] = IF n = event.node THEN nodeSequences[n] + 1 ELSE nodeSequences[n]
      BY <1>1, <2>1
    <2> QED  BY <1>1, <2>1, <2>2
  <1>4. InFlight' \subseteq InFlight /\ \A e \in InFlight : e \in InFlight' \/ e = event
    BY <1>1, <1>2 DEF InFlight
  <1>5. NothingLost'
    <2> SUFFICES ASSUME spc \in {"stream", "recv", "push"}, NEW n \in Nodes,
                        NEW s \in (nodeSequences'[n] + 1)..pos[n]
                 PROVE  [node |-> n, seq |-> s] \in InFlight'
      BY <1>2 DEF NothingLost
    <2>1. pos[n] \in Nat  BY DEF IInv, TypeOK
    <2>2. s \in (nodeSequences[n] + 1)..pos[n]  BY <1>3, <2>1
    <2>3. [node |-> n, seq |-> s] \in InFlight  BY <2>2 DEF IInv, NothingLost
    <2>4. [node |-> n, seq |-> s] # event  BY <1>3, <2>1
    <2> QED  BY <1>4, <2>3, <2>4
  <1>6. ChannelInOrder'
    <2> SUFFICES ASSUME NEW i \in 1..Len(eventCh), NEW s \in 1..MaxSeq,
                        nodeSequences'[eventCh[i].node] < s, s < eventCh[i].seq
                 PROVE  [node |-> eventCh[i].node, seq |-> s] \in Ahead(i)'
      BY <1>2 DEF ChannelInOrder
    <2>1. eventCh[i] \in Event /\ eventCh[i].node \in Nodes
      BY EventFacts DEF IInv, TypeOK
    <2>2. nodeSequences[eventCh[i].node] < s  BY <1>3, <2>1
    <2>3. [node |-> eventCh[i].node, seq |-> s] \in Ahead(i)
      BY <2>2 DEF IInv, ChannelInOrder
    <2>4. [node |-> eventCh[i].node, seq |-> s] # event  BY <1>3, <2>1
    <2> QED  BY <1>1, <1>2, <2>3, <2>4 DEF Ahead
  <1>7. HandledExactlyOnce'
    <2> SUFFICES ASSUME NEW e \in Event
                 PROVE  calls'[e] = IF e.seq <= nodeSequences'[e.node] THEN 1 ELSE 0
      BY DEF HandledExactlyOnce
    <2>1. e.node \in Nodes /\ e.seq \in 1..MaxSeq  BY EventFacts
    <2>2. /\ calls[e] = IF e.seq <= nodeSequences[e.node] THEN 1 ELSE 0
          /\ calls[event] = IF event.seq <= nodeSequences[event.node] THEN 1 ELSE 0
      BY <1>1 DEF IInv, HandledExactlyOnce
    <2>3. calls' = [calls EXCEPT ![event] = @ + 1] /\ calls \in [Event -> Nat]
      BY DEF MarkSequence, IInv, TypeOK
    <2>4. CASE e = event  BY <1>1, <1>3, <2>2, <2>3, <2>4
    <2>5. CASE e # event
      <3>1. e.node = event.node => e.seq # event.seq  BY <1>1, <2>5 DEF Event
      <3>2. e.seq <= nodeSequences'[e.node] <=> e.seq <= nodeSequences[e.node]
        BY <1>1, <1>3, <2>1, <3>1
      <3> QED  BY <2>2, <2>3, <2>5, <3>2
    <2> QED  BY <2>4, <2>5
  <1>8. LoopInOrder' /\ HandIsLatest' /\ ClosedForGood'
    BY <1>2 DEF LoopInOrder, HandIsLatest, ClosedForGood, MarkSequence, IInv
  <1>9. WithinLog'
    <2>1. \A e \in InFlight' : e.seq <= emitted'[e.node]
      BY <1>2, <1>4 DEF IInv, WithinLog
    <2>2. \A n \in Nodes : (pos[n] <= emitted[n] /\ nodeSequences[n] <= emitted[n]
                            /\ lastSeen[n] <= nodeSequences[n])'
      <3> SUFFICES ASSUME NEW n \in Nodes
                   PROVE  (pos[n] <= emitted[n] /\ nodeSequences[n] <= emitted[n]
                           /\ lastSeen[n] <= nodeSequences[n])'
        OBVIOUS
      <3>1. /\ pos[n] <= emitted[n] /\ nodeSequences[n] <= emitted[n]
            /\ lastSeen[n] <= nodeSequences[n] /\ lastSeen[n] \in Nat
        BY DEF IInv, WithinLog, TypeOK
      <3> QED  BY <1>1, <1>2, <1>3, <3>1
    <2> QED  BY <2>1, <2>2 DEF WithinLog
  <1> QED  BY <1>5, <1>6, <1>7, <1>8, <1>9 DEF IInv

(* The other steps of the loop and of the environment.                       *)
LEMMA OtherInv ==
  ASSUME IInv, TypeOK', \/ LeaveLoop \/ FinishEvent \/ Stop \/ CancelContext
                        \/ (\E n \in Nodes : UAEmit(n)) \/ UNCHANGED vars
  PROVE  IInv'
  <1>1. /\ UNCHANGED <<pos, eventCh, chClosed, nodeSequences, lastSeen, spc, hand, calls>>
        /\ \A n \in Nodes : emitted[n] \in Nat /\ emitted'[n] \in Nat /\ emitted[n] <= emitted'[n]
    <2> USE DEF lifeVars, connVars, uaVars, streamerVars, chVars, loopVars, IInv, TypeOK
    <2>1. ASSUME NEW n \in Nodes, UAEmit(n) PROVE <1>1  BY <2>1 DEF UAEmit
    <2>2. CASE LeaveLoop  BY <2>2 DEF LeaveLoop
    <2>3. CASE FinishEvent  BY <2>3 DEF FinishEvent
    <2>4. CASE Stop  BY <2>4 DEF Stop
    <2>5. CASE CancelContext  BY <2>5 DEF CancelContext
    <2>6. CASE UNCHANGED vars  BY <2>6 DEF vars
    <2> QED  BY <2>1, <2>2, <2>3, <2>4, <2>5, <2>6
  <1>2. InLoop' = InLoop /\ LoopInOrder'
    BY DEF LeaveLoop, FinishEvent, Stop, CancelContext, UAEmit, vars, loopVars, InLoop,
           LoopInOrder, IInv
  <1>3. InFlight' = InFlight /\ \A i \in 1..Len(eventCh) : Ahead(i)' = Ahead(i)
    BY <1>1, <1>2 DEF InFlight, Ahead
  <1>4. NothingLost' /\ ChannelInOrder' /\ HandledExactlyOnce' /\ HandIsLatest' /\ ClosedForGood'
    BY <1>1, <1>3 DEF NothingLost, ChannelInOrder, HandledExactlyOnce, HandIsLatest,
                      ClosedForGood, IInv
  <1>5. \A e \in InFlight : e.node \in Nodes /\ e.seq \in Nat
    <2>1. InLoop \subseteq Event  BY DEF InLoop, IInv, TypeOK
    <2>2. \A i \in 1..Len(eventCh) : eventCh[i] \in Event  BY DEF IInv, TypeOK
    <2>3. spc = "push" => hand \in Event  BY DEF IInv, TypeOK
    <2>4. InFlight \subseteq Event  BY <2>1, <2>2, <2>3 DEF InFlight
    <2> QED  BY <2>4, EventFacts
  <1>6. \A e \in InFlight' : e.seq <= emitted'[e.node]
    BY <1>1, <1>3, <1>5 DEF IInv, WithinLog
  <1>7. \A n \in Nodes : (pos[n] <= emitted[n] /\ nodeSequences[n] <= emitted[n]
                          /\ lastSeen[n] <= nodeSequences[n])'
    <2> SUFFICES ASSUME NEW n \in Nodes
                 PROVE  (pos[n] <= emitted[n] /\ nodeSequences[n] <= emitted[n]
                         /\ lastSeen[n] <= nodeSequences[n])'
      OBVIOUS
    <2>1. pos[n] \in Nat /\ nodeSequences[n] \in Nat  BY DEF IInv, TypeOK
    <2> QED  BY <1>1, <2>1 DEF IInv, WithinLog
  <1>8. WithinLog'  BY <1>6, <1>7 DEF WithinLog
  <1> QED  BY <1>2, <1>4, <1>8 DEF IInv

(* Start finds nothing on its way and no stream.                             *)
LEMMA StartInv == ASSUME IInv, TypeOK', Start PROVE IInv'
  <1> USE DEF Start, uaVars, connVars, chVars
  <1>1. UNCHANGED <<emitted, pos, eventCh, nodeSequences, lastSeen, calls>>
    OBVIOUS
  <1>2. InLoop' = {} /\ LoopInOrder' /\ NothingLost' /\ HandIsLatest' /\ ClosedForGood'
    BY DEF InLoop, LoopInOrder, NothingLost, HandIsLatest, ClosedForGood, IInv
  <1>3. InLoop = {}  BY DEF InLoop
  <1>4. InFlight' \subseteq InFlight  BY <1>1, <1>2 DEF InFlight
  <1>5. \A i \in 1..Len(eventCh) : Ahead(i)' = Ahead(i)  BY <1>1, <1>2, <1>3 DEF Ahead
  <1> QED  BY <1>1, <1>2, <1>4, <1>5 DEF ChannelInOrder, HandledExactlyOnce, WithinLog, IInv

(* The invariant holds initially and every step of the specification keeps   *)
(* it.                                                                       *)
LEMMA InitIInv == Init => IInv
  <1> SUFFICES ASSUME Init PROVE IInv
    OBVIOUS
  <1>1. TypeOK  BY InitTypeOK
  <1>2. InFlight = {}  BY DEF Init, InFlight, InLoop
  <1>3. \A n \in Nodes : pos[n] = 0 /\ emitted[n] = 0 /\ nodeSequences[n] = 0 /\ lastSeen[n] = 0
    BY DEF Init
  <1>4. WithinLog  BY <1>2, <1>3 DEF WithinLog
  <1>5. HandledExactlyOnce
    <2> SUFFICES ASSUME NEW e \in Event
                 PROVE  calls[e] = IF e.seq <= nodeSequences[e.node] THEN 1 ELSE 0
      BY DEF HandledExactlyOnce
    <2>1. e.seq \in 1..MaxSeq /\ nodeSequences[e.node] = 0  BY <1>3, EventFacts
    <2>2. ~(e.seq <= nodeSequences[e.node])  BY <2>1
    <2> QED  BY <2>2 DEF Init
  <1>6. NothingLost /\ ClosedForGood /\ ChannelInOrder /\ LoopInOrder /\ HandIsLatest
    BY DEF Init, NothingLost, ClosedForGood, ChannelInOrder, LoopInOrder, HandIsLatest
  <1> QED  BY <1>1, <1>4, <1>5, <1>6 DEF IInv

(* Every step does. *)
LEMMA NextIInv == ASSUME IInv, [Next]_vars PROVE IInv'
  <1>1. TypeOK'
    BY StreamerTypeOK, OtherTypeOK DEF IInv, Next, Terminated
  <1> USE <1>1 DEF lifeVars, connVars, uaVars, chVars, streamerVars
  <1>2. CASE Start
    BY <1>2, StartInv
  <1>3. CASE CheckStop
    BY <1>3, NoStreamStep DEF CheckStop, ClosedForGood, IInv
  <1>4. CASE Dial
    BY <1>4, NoStreamStep DEF Dial, ClosedForGood, IInv
  <1>5. CASE StoreConn
    BY <1>5, NoStreamStep DEF StoreConn, ClosedForGood, IInv
  <1>6. CASE BuildRequest
    BY <1>6, NoStreamStep DEF BuildRequest, ClosedForGood, IInv
  <1>7. CASE OpenFails
    BY <1>7, NoStreamStep DEF OpenFails, ClosedForGood, IInv
  <1>8. CASE CheckStream
    <2>1. CASE spc' = "recv"
      BY <1>8, <2>1, ReceivingInv DEF CheckStream, EndStream
    <2>2. CASE spc' # "recv"
      BY <1>8, <2>2, NoStreamStep DEF CheckStream, EndStream, ClosedForGood, IInv
    <2> QED  BY <2>1, <2>2
  <1>9. CASE OpenStream
    BY <1>9, OpenStreamInv DEF IInv
  <1>10. ASSUME NEW n \in Nodes, Recv(n) PROVE IInv'
    BY <1>10, RecvInv
  <1>11. CASE RecvCanceled
    BY <1>11, NoStreamStep DEF RecvCanceled, EndStream, ClosedForGood, IInv
  <1>12. CASE Push
    <2>1. CASE spc' = "stream"
      BY <1>12, <2>1, SendInv DEF Push, EndStream
    <2>2. CASE spc' # "stream"
      BY <1>12, <2>2, NoStreamStep DEF Push, EndStream, ClosedForGood, IInv
    <2> QED  BY <2>1, <2>2
  <1>13. CASE Wake
    BY <1>13, NoStreamStep DEF Wake, ClosedForGood, IInv
  <1>14. CASE StreamBreaks
    BY <1>14, NoStreamStep DEF StreamBreaks, EndStream, ClosedForGood, IInv
  <1>15. CASE ServerCancel
    BY <1>15, NoStreamStep DEF ServerCancel, EndStream, ClosedForGood, IInv
  <1>16. CASE Loop
    BY <1>16, TakeInv, CheckInv, MarkInv, OtherInv DEF Loop
  <1>17. CASE Stop \/ CancelContext \/ (\E n \in Nodes : UAEmit(n)) \/ UNCHANGED vars
    BY <1>17, OtherInv
  <1> QED  BY <1>2, <1>3, <1>4, <1>5, <1>6, <1>7, <1>8, <1>9, <1>10, <1>11, <1>12, <1>13, <1>14,
              <1>15, <1>16, <1>17 DEF Next, Streamer, Terminated

(* The conjunction of TypeOK, NothingLost, HandledExactlyOnce and their      *)
(* strengthening is an invariant of the consumer.                            *)
THEOREM Invariance == Spec => []IInv
  BY InitIInv, NextIInv, PTL DEF Spec

(* consumeStream, the channel and the resumption lose no event between them, *)
(* for any number of nodes, events and failures and any channel capacity.    *)
THEOREM NothingIsLost == Spec => []NothingLost
  <1>1. IInv => NothingLost  BY DEF IInv
  <1> QED  BY Invariance, <1>1, PTL

(* Each event up to the recorded sequence number was handed to a handler     *)
(* once, whatever the UA replays after a reconnect.                          *)
THEOREM ExactlyOnce == Spec => []HandledExactlyOnce
  <1>1. IInv => HandledExactlyOnce  BY DEF IInv
  <1> QED  BY Invariance, <1>1, PTL

-----------------------------------------------------------------------------
(* The consumer implements in-order delivery: recording a sequence number in *)
(* HandleEvent applies the next event of the node, the UA's step emits one,  *)
(* and nothing else changes the log or what is applied of it.                *)
THEOREM Refinement == Spec => ImplementsDelivery
  <1>1. Init => Delivery!Init
    BY DEF Init, Delivery!Init
  <1>2. IInv /\ [Next]_vars => [Delivery!Next]_<<emitted, nodeSequences>>
    <2> SUFFICES ASSUME IInv, [Next]_vars
                 PROVE  Delivery!Next \/ UNCHANGED <<emitted, nodeSequences>>
      OBVIOUS
    <2>1. CASE MarkSequence
      <3>1. /\ event.node \in Nodes
            /\ nodeSequences[event.node] < emitted[event.node]
            /\ nodeSequences' = [nodeSequences EXCEPT ![event.node] = @ + 1]
        BY <2>1, MarkAdvances DEF IInv, TypeOK
      <3>2. emitted' = emitted
        BY <2>1 DEF MarkSequence, uaVars
      <3> QED  BY <3>1, <3>2 DEF Delivery!Next, Delivery!Apply
    <2>2. ASSUME NEW n \in Nodes, UAEmit(n) PROVE Delivery!Next
      BY <2>2 DEF UAEmit, loopVars, Delivery!Next, Delivery!Emit
    <2>3. CASE UNCHANGED vars
      BY <2>3 DEF vars, uaVars, loopVars
    <2>4. CASE Start \/ Stop \/ CancelContext \/ Streamer \/ StreamBreaks \/ ServerCancel
      BY <2>4 DEF Start, Stop, CancelContext, Streamer, CheckStop, Dial, StoreConn, BuildRequest,
                  OpenStream, OpenFails, CheckStream, Recv, RecvCanceled, Push, Wake, StreamBreaks,
                  ServerCancel, uaVars, loopVars
    <2>5. CASE TakeEvent \/ LeaveLoop \/ CheckSequence \/ FinishEvent
      BY <2>5 DEF TakeEvent, LeaveLoop, CheckSequence, FinishEvent, uaVars
    <2> QED  BY <2>1, <2>2, <2>3, <2>4, <2>5 DEF Next, Loop, Terminated
  <1> QED  BY <1>1, <1>2, Invariance, PTL DEF Spec, ImplementsDelivery, Delivery!Spec
=============================================================================
