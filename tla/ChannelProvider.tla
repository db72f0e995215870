-------------------------- MODULE ChannelProvider --------------------------
(***************************************************************************)
(* The channel provider (internal/channel/hyphae_provider.go).  A listener *)
(* keeps a session with Hyphae and accepts streams from it; an initiator   *)
(* dials until the listener is there, opens a port on the loopback and     *)
(* relays the first connection to it.  Both outlive the handler that       *)
(* started them and end when Hyphae drops them or the channel is unbound,  *)
(* unless a local service that does not read holds them up.                *)
(*                                                                         *)
(* The routes from a stream's purpose to a local address are in module     *)
(* ChannelRoutes: here a stream may find none.  HyphaeProvider.Close has   *)
(* no caller.                                                              *)
(***************************************************************************)
EXTENDS LinkHandler

CONSTANT MaxAttempts  \* bindInitiator's maxAttempts

ASSUME MaxAttemptsOK == MaxAttempts \in Nat \ {0}

VARIABLES
  binds,  \* every bind that passed the idempotency guard, in order
  active  \* HyphaeProvider.active: the number of each link's bind, or 0

channelVars == <<binds, active>>

\* remote is the connection or session with Hyphae, ln the loopback listener,
\* relay the goroutine runInitiatorRelay or acceptLoop, and stream one of the
\* goroutines in forwardStream.  A splice is "stalled" while its copy from Hyphae
\* is blocked on a write to the local service.
Bind == [link : Links, remote : {"none", "open", "closed"}, ln : {"none", "open", "closed"},
         cancelled : BOOLEAN, stream : {"none", "waiting", "dialing", "splicing", "stalled"},
         relay : {"none", "started", "accepting", "splicing", "stalled", "done"}]

ChannelInit == binds = <<>> /\ active = [l \in Links |-> 0]

NewBind(l) == [link |-> l, remote |-> "none", ln |-> "none", cancelled |-> FALSE,
               relay |-> "none", stream |-> "none"]

-----------------------------------------------------------------------------
(* BindChannel.                                                            *)

NoGrant ==
  /\ At("bind", "start", {"initiator"})
  /\ Return(FALSE)
  /\ UNCHANGED <<reports, requests, ctxDone, channelVars>>

\* Mutant of CheckActive: the table is not looked at.
CheckNothing ==
  /\ At("bind", "start", Channels)
  /\ binds' = Append(binds, NewBind(call.link))
  /\ call' = [call EXCEPT !.step = "dial", !.made = Len(binds) + 1, !.attempt = 1]
  /\ UNCHANGED <<reports, requests, ctxDone, active>>

\* The idempotency guard: a channel in the table is taken to be bound.
CheckActive ==
  /\ At("bind", "start", Channels)
  /\ IF active[call.link] # 0
     THEN Return(TRUE) /\ UNCHANGED binds
     ELSE /\ binds' = Append(binds, NewBind(call.link))
          /\ call' = [call EXCEPT !.step = "dial", !.made = Len(binds) + 1, !.attempt = 1]
  /\ UNCHANGED <<reports, requests, ctxDone, active>>

SetRemote(b, r) == binds' = [binds EXCEPT ![b].remote = r]

DialFails ==
  /\ At("bind", "dial", Channels)
  /\ SetRemote(call.made, "closed") /\ Return(FALSE)
  /\ UNCHANGED <<reports, requests, ctxDone, active>>

\* 503: the listener is not registered yet.
NotReady ==
  /\ At("bind", "dial", {"initiator"})
  /\ SetRemote(call.made, "closed")
  /\ IF call.attempt < MaxAttempts THEN Continue("backoff") ELSE Return(FALSE)
  /\ UNCHANGED <<reports, requests, ctxDone, active>>

BackOff ==
  /\ At("bind", "backoff", {"initiator"})
  /\ \/ ctxDone /\ Return(FALSE)
     \/ call' = [call EXCEPT !.step = "dial", !.attempt = @ + 1]
  /\ UNCHANGED <<reports, requests, ctxDone, channelVars>>

Upgraded ==
  /\ At("bind", "dial", Channels)
  /\ SetRemote(call.made, "open") /\ Continue("establish")
  /\ UNCHANGED <<reports, requests, ctxDone, active>>

EstablishListener ==
  /\ At("bind", "establish", {"listener"})
  /\ binds' = [binds EXCEPT ![call.made].relay = "accepting"]
  /\ active' = [active EXCEPT ![call.link] = call.made]
  /\ Return(TRUE)
  /\ UNCHANGED <<reports, requests, ctxDone>>

NoLocalPort ==
  /\ At("bind", "establish", {"initiator"})
  /\ binds' = [binds EXCEPT ![call.made].remote = "closed", ![call.made].cancelled = TRUE]
  /\ Return(FALSE)
  /\ UNCHANGED <<reports, requests, ctxDone, active>>

EstablishInitiator ==
  /\ At("bind", "establish", {"initiator"})
  /\ binds' = [binds EXCEPT ![call.made].ln = "open", ![call.made].relay = "started"]
  /\ active' = [active EXCEPT ![call.link] = call.made]
  /\ Continue("ready")
  /\ UNCHANGED <<reports, requests, ctxDone>>

\* <-readyCh
Ready ==
  /\ At("bind", "ready", {"initiator"}) /\ binds[call.made].relay # "started"
  /\ Return(TRUE)
  /\ UNCHANGED <<reports, requests, ctxDone, channelVars>>

-----------------------------------------------------------------------------
(* UnbindChannel.                                                          *)

EndBind(newBinds) ==
  /\ At("unbind", "start", Channels)
  /\ active' = [active EXCEPT ![call.link] = 0]
  /\ binds' = newBinds
  /\ Return(TRUE)
  /\ UNCHANGED <<reports, requests, ctxDone>>

\* Mutant of UnbindChannel: only the connection is closed.
UnbindWithoutCancel ==
  LET old == active[call.link]
  IN  EndBind([b \in DOMAIN binds |->
        IF b = old THEN [binds[b] EXCEPT !.remote = "closed"] ELSE binds[b]])

UnbindChannel ==
  LET old == active[call.link]
  IN  EndBind([b \in DOMAIN binds |->
        IF b = old THEN [binds[b] EXCEPT !.remote = "closed", !.cancelled = TRUE] ELSE binds[b]])

-----------------------------------------------------------------------------
(* The goroutines of a bind, and Hyphae.                                   *)

Update(b, r) == binds' = [binds EXCEPT ![b] = r] /\ UNCHANGED <<handlerVars, active>>

\* Hyphae ends the connection or the session.
RemoteEnds(b) ==
  binds[b].remote = "open" /\ Update(b, [binds[b] EXCEPT !.remote = "closed"])

RelayReady(b) ==
  binds[b].relay = "started" /\ Update(b, [binds[b] EXCEPT !.relay = "accepting"])

\* The goroutine that closes the listener with the context.
CloseListener(b) ==
  /\ binds[b].cancelled /\ binds[b].ln = "open"
  /\ Update(b, [binds[b] EXCEPT !.ln = "closed"])

\* A local service connects; what Hyphae has sent by then may stall the splice.
AcceptLocal(b) ==
  /\ binds[b].relay = "accepting" /\ binds[b].ln = "open"
  /\ \E at \in {"splicing", "stalled"} : Update(b, [binds[b] EXCEPT !.relay = at])

RelayDone(b) == Update(b, [binds[b] EXCEPT !.relay = "done", !.ln = "closed", !.remote = "closed"])

AcceptFails(b) == binds[b].relay = "accepting" /\ binds[b].ln = "closed" /\ RelayDone(b)

\* Both copies of the splice have ended: one does with its side, and closes the
\* other's.  One that is stalled ends only when the local service closes.
SpliceEnds(b) == binds[b].relay \in {"splicing", "stalled"} /\ RelayDone(b)

AcceptStream(b) ==
  /\ binds[b].relay = "accepting" /\ binds[b].ln = "none" /\ binds[b].remote = "open"
  /\ binds[b].stream = "none"
  /\ Update(b, [binds[b] EXCEPT !.stream = "waiting"])

AcceptLoopEnds(b) ==
  /\ binds[b].relay = "accepting" /\ binds[b].ln = "none" /\ binds[b].remote = "closed"
  /\ Update(b, [binds[b] EXCEPT !.relay = "done"])

FirstByte(b) ==
  /\ binds[b].stream = "waiting" /\ binds[b].remote = "open"
  /\ Update(b, [binds[b] EXCEPT !.stream = "dialing"])

DialLocal(b) ==
  /\ binds[b].stream = "dialing" /\ ~binds[b].cancelled
  /\ \E at \in {"splicing", "stalled"} : Update(b, [binds[b] EXCEPT !.stream = at])

\* No route, no first byte, no local service, or an end of the splice.
StreamEnds(b) ==
  binds[b].stream # "none" /\ Update(b, [binds[b] EXCEPT !.stream = "none"])

\* A local service does not read what is written to it.  Nothing comes in after
\* the connection has closed, so a stall on the rest of it has begun before.
LocalStalls(b) ==
  /\ binds[b].remote = "open"
  /\ \/ binds[b].relay  = "splicing" /\ Update(b, [binds[b] EXCEPT !.relay = "stalled"])
     \/ binds[b].stream = "splicing" /\ Update(b, [binds[b] EXCEPT !.stream = "stalled"])

\* It reads again.
LocalReads(b) ==
  \/ binds[b].relay  = "stalled" /\ Update(b, [binds[b] EXCEPT !.relay = "splicing"])
  \/ binds[b].stream = "stalled" /\ Update(b, [binds[b] EXCEPT !.stream = "splicing"])

ChannelStep ==
  \/ NoGrant \/ CheckActive \/ DialFails \/ NotReady \/ BackOff \/ Upgraded
  \/ EstablishListener \/ NoLocalPort \/ EstablishInitiator \/ Ready \/ UnbindChannel
  \/ \E b \in DOMAIN binds :
       \/ RemoteEnds(b) \/ RelayReady(b) \/ CloseListener(b) \/ AcceptLocal(b) \/ AcceptFails(b)
       \/ SpliceEnds(b) \/ AcceptStream(b) \/ AcceptLoopEnds(b) \/ FirstByte(b) \/ DialLocal(b)
       \/ StreamEnds(b) \/ LocalStalls(b) \/ LocalReads(b)

\* What a goroutine does whatever its peers do: it runs on when it can, a dial
\* ends, and the copies of a splice that is not stalled end with the connection.
Goroutines(b) ==
  /\ b \in DOMAIN binds
  /\ \/ RelayReady(b) \/ CloseListener(b) \/ AcceptFails(b) \/ AcceptLoopEnds(b)
     \/ binds[b].remote = "closed" /\ binds[b].relay = "splicing" /\ SpliceEnds(b)
     \/ binds[b].remote = "closed" /\ binds[b].stream \in {"waiting", "splicing"} /\ StreamEnds(b)
     \/ binds[b].stream = "dialing" /\ StreamEnds(b)

-----------------------------------------------------------------------------
Owned(b) == \/ active[binds[b].link] = b
            \/ call.op = "bind" /\ call.link = binds[b].link /\ call.made = b

\* A connection with Hyphae that is open, and a relay whose context lives, is
\* the one in the table or the one being made: no sequence of binds, failures,
\* hang-ups and unbinds leaves one that UnbindChannel can no longer reach.
ChannelsAreOwned ==
  \A b \in DOMAIN binds :
    (\/ binds[b].remote = "open"
     \/ binds[b].relay \in {"started", "accepting", "splicing", "stalled"} /\ ~binds[b].cancelled)
    => Owned(b)

\* Nothing of a bind is left: no connection, port, relay or stream.
Released(b) == /\ binds[b].remote = "closed" /\ binds[b].ln # "open"
               /\ binds[b].relay \in {"none", "done"} /\ binds[b].stream = "none"

Stalled(b) == binds[b].relay = "stalled" \/ binds[b].stream = "stalled"
=============================================================================
