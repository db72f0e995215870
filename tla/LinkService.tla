---------------------------- MODULE LinkService ----------------------------
(***************************************************************************)
(* Links (internal/link/handlers.go): the handlers of link.bind.requested  *)
(* and link.unbind.requested over the exposure and the channel provider.   *)
(* The routes of streams are read by forwardStream only, whose streams may *)
(* end at any time here; so a behaviour follows the links or the routes.   *)
(***************************************************************************)
EXTENDS ExposureProvider, ChannelProvider, ChannelRoutes

VARIABLE followed  \* "links" or "routes"

linkVars == <<handlerVars, exposureVars, channelVars>>
vars == <<linkVars, routesVars, followed>>

Init == /\ HandlerInit /\ ExposureInit /\ ChannelInit /\ RoutesInit
        /\ followed \in {"links", "routes"}

\* LocalAddr: the relay address of an initiator that is in the table.
LocalAddr(l) == IF active[l] # 0 /\ Kind[l] = "initiator" THEN active[l] ELSE 0

\* The completion of a bind of a channel carries its relay address.
Complete == Emit(IF call.op = "bind" THEN LocalAddr(call.link) ELSE 0)

HandlerNext == \/ CancelContext \/ Complete
               \/ \E l \in Links, op \in {"bind", "unbind"} : Receive(op, l)

LinkNext == \/ HandlerNext  /\ UNCHANGED <<exposureVars, channelVars>>
            \/ ExposureStep /\ UNCHANGED channelVars
            \/ ChannelStep  /\ UNCHANGED exposureVars

Next ==
  /\ UNCHANGED followed
  /\ \/ followed = "links"  /\ LinkNext   /\ UNCHANGED routesVars
     \/ followed = "routes" /\ RoutesNext /\ UNCHANGED linkVars

Spec == Init /\ [][Next]_vars

\* Goroutines run.  The handler itself, Hyphae and the local services owe nothing,
\* not even that they read.
FairSpec == Spec /\ \A b \in 1..MaxRequests :
                      WF_vars(Goroutines(b) /\ UNCHANGED <<exposureVars, routesVars, followed>>)

-----------------------------------------------------------------------------
TypeOK ==
  /\ call \in Call /\ call.made <= Len(tunnels) + Len(binds) /\ call.attempt <= MaxAttempts
  /\ reports \in [Links -> Report] /\ requests \in 0..MaxRequests /\ ctxDone \in BOOLEAN
  /\ tunnels \in Seq(Tunnel) /\ activeTunnels \in [Links -> 0..Len(tunnels)] /\ closed \in BOOLEAN
  /\ binds \in Seq(Bind) /\ active \in [Links -> 0..Len(binds)]
  /\ dynamicRoutes \in [RoutePrefixes -> Addrs \cup {"none"}]
  /\ registered \in Seq([prefix : RoutePrefixes, addr : Addrs])
  /\ followed \in {"links", "routes"}

\* The last completion the kernel got agrees with the provider's table unless a
\* later one was lost: what was reported bound is there, what was reported
\* unbound is not, a failed bind leaves no exposure behind, also when it
\* replaced one, and a relay address is the one of the bind in the table.
ReportedAsIs ==
  \A l \in Links : call.link # l =>
    LET bound == activeTunnels[l] # 0 \/ active[l] # 0
    IN  /\ reports[l].status = "bound" => bound
        /\ reports[l].status \in {"unbound", "unbindFailed"} => ~bound
        /\ reports[l].status = "bindFailed" /\ Kind[l] \in Exposed => ~bound
        /\ reports[l].addr # 0 => reports[l].addr = active[l]

\* A bind that failed or was unbound gives back all it holds: the relay leaves
\* Accept or its splice, the port closes, every stream ends.  Only a local
\* service that never reads again can keep it: an unbind closes the connection
\* with Hyphae, not the one with the service.
UnbindReleases ==
  \A b \in 1..MaxRequests :
    <>[](b \in DOMAIN binds => ~Stalled(b)) =>
      ((b \in DOMAIN binds /\ ~Owned(b)) ~> (b \in DOMAIN binds /\ Released(b)))
=============================================================================
