-------------------------- MODULE ExposureProvider --------------------------
(***************************************************************************)
(* The exposure provider (internal/exposure/hyphae_provider.go): a tunnel  *)
(* client per exposure, the goroutine that forwards its traffic, and for a *)
(* URL a reverse proxy on a loopback port (url_proxy.go).                  *)
(*                                                                         *)
(* The tunnel client is the Hyphae SDK's: Connect may fail, Close shuts    *)
(* its session down for good, and Forward returns when its context or its  *)
(* client ends, or earlier.                                                *)
(***************************************************************************)
EXTENDS LinkHandler

VARIABLES
  tunnels,        \* every tunnel that Bind has begun to make, in order
  activeTunnels,  \* HyphaeProvider.activeTunnels: the number of each link's tunnel, or 0
  closed          \* whether Close was called

exposureVars == <<tunnels, activeTunnels, closed>>

Tunnel == [link : Links, client : {"none", "open", "closed"}, proxy : {"none", "open", "stopped"},
           cancelled : BOOLEAN, forward : {"none", "running", "done"}]

ExposureInit == tunnels = <<>> /\ activeTunnels = [l \in Links |-> 0] /\ closed = FALSE

NewTunnel(l) == [link |-> l, client |-> "none", proxy |-> "none",
                 cancelled |-> FALSE, forward |-> "none"]

\* Cancelling a tunnel's context and closing its client.
TornDown(t) == [t EXCEPT !.cancelled = TRUE, !.client = "closed"]

-----------------------------------------------------------------------------
(* Bind.  The handlers are the only writers of activeTunnels.              *)

BeginBind(newTunnels, newActive) ==
  /\ At("bind", "start", Exposed)
  /\ tunnels' = Append(newTunnels, NewTunnel(call.link))
  /\ activeTunnels' = newActive
  /\ call' = [call EXCEPT !.step = "proxy", !.made = Len(tunnels) + 1]
  /\ UNCHANGED <<reports, requests, ctxDone, closed>>

\* Mutants of TearDown: no teardown, or the table keeps the stale tunnel.
TearNothingDown  == BeginBind(tunnels, activeTunnels)
TearDownButKeep ==
  LET old == activeTunnels[call.link]
  IN  BeginBind([t \in DOMAIN tunnels |-> IF t = old THEN TornDown(tunnels[t]) ELSE tunnels[t]],
                activeTunnels)

\* "Tear down any existing tunnel for this exposure before creating a new one."
TearDown ==
  LET old == activeTunnels[call.link]
  IN  BeginBind([t \in DOMAIN tunnels |-> IF t = old THEN TornDown(tunnels[t]) ELSE tunnels[t]],
                [activeTunnels EXCEPT ![call.link] = 0])

\* One step of Bind, which leaves the tunnel it is making as t.
Making(t) ==
  /\ tunnels' = [tunnels EXCEPT ![call.made] = t]
  /\ UNCHANGED <<reports, requests, ctxDone, activeTunnels, closed>>

made == tunnels[call.made]

StartProxy ==
  /\ At("bind", "proxy", Exposed)
  /\ IF Kind[call.link] = "url"
     THEN \/ Making([made EXCEPT !.proxy = "open"]) /\ Continue("connect")
          \/ Making(made) /\ Return(FALSE)
     ELSE Making(made) /\ Continue("connect")

Connect ==
  /\ At("bind", "connect", Exposed)
  /\ \/ Making([made EXCEPT !.client = "open"]) /\ Continue("dial")
     \/ Making([made EXCEPT !.client = "closed"]) /\ Return(FALSE)

\* The local service, or the proxy, is dialled before success is reported.
HealthCheck ==
  /\ At("bind", "dial", Exposed)
  /\ \/ made.proxy # "stopped" /\ Making(made) /\ Continue("forward")
     \/ Making([made EXCEPT !.client = "closed"]) /\ Return(FALSE)

Forward ==
  /\ At("bind", "forward", Exposed)
  /\ tunnels' = [tunnels EXCEPT ![call.made].forward = "running"]
  /\ activeTunnels' = [activeTunnels EXCEPT ![call.link] = call.made]
  /\ Return(TRUE)
  /\ UNCHANGED <<reports, requests, ctxDone, closed>>

-----------------------------------------------------------------------------
(* Unbind, and the end of what runs in the background.                     *)

Unbind ==
  LET old == activeTunnels[call.link]
  IN  /\ At("unbind", "start", Exposed)
      /\ IF old = 0
         THEN Return(TRUE) /\ UNCHANGED <<tunnels, activeTunnels>>
         ELSE /\ activeTunnels' = [activeTunnels EXCEPT ![call.link] = 0]
              /\ tunnels' = [tunnels EXCEPT ![old] =
                   [TornDown(tunnels[old]) EXCEPT !.proxy = IF @ = "open" THEN "stopped" ELSE @]]
              /\ call' = [call EXCEPT !.step = "wait", !.made = old]
      /\ UNCHANGED <<reports, requests, ctxDone, closed>>

\* Forward has returned, or five seconds have passed or the context is done.
WaitForForward ==
  /\ At("unbind", "wait", Exposed)
  /\ (made.forward = "done" /\ Return(TRUE)) \/ Return(FALSE)
  /\ UNCHANGED <<reports, requests, ctxDone, exposureVars>>

ForwardEnds(t) ==
  /\ tunnels[t].forward = "running"
  /\ tunnels' = [tunnels EXCEPT ![t].forward = "done"]
  /\ UNCHANGED <<handlerVars, activeTunnels, closed>>

\* The proxy was started with the handler's context, which is the runtime's.
ProxyStops(t) ==
  /\ ctxDone /\ tunnels[t].proxy = "open"
  /\ tunnels' = [tunnels EXCEPT ![t].proxy = "stopped"]
  /\ UNCHANGED <<handlerVars, activeTunnels, closed>>

\* Close, called as the launcher stops.  The table keeps its entries.
CloseTunnels ==
  /\ ctxDone /\ ~closed /\ closed' = TRUE
  /\ tunnels' = [t \in DOMAIN tunnels |->
       IF activeTunnels[tunnels[t].link] = t THEN TornDown(tunnels[t]) ELSE tunnels[t]]
  /\ UNCHANGED <<handlerVars, activeTunnels>>

ExposureStep ==
  \/ TearDown \/ StartProxy \/ Connect \/ HealthCheck \/ Forward
  \/ Unbind \/ WaitForForward \/ CloseTunnels
  \/ \E t \in DOMAIN tunnels : ForwardEnds(t) \/ ProxyStops(t)

-----------------------------------------------------------------------------
\* A tunnel that is open, or whose traffic is forwarded under a live context,
\* is the one its exposure is bound to, or the one that is being made: bind
\* twice, fail half-way, unbind or close in any order and no client is left
\* whose supervisor would compete for the same lease.
TunnelsAreOwned ==
  \A t \in DOMAIN tunnels :
    (tunnels[t].client = "open" \/ (tunnels[t].forward = "running" /\ ~tunnels[t].cancelled))
    => \/ activeTunnels[tunnels[t].link] = t
       \/ call.op = "bind" /\ call.link = tunnels[t].link /\ call.made = t
=============================================================================
