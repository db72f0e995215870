---------------------------- MODULE ChannelRoutes ----------------------------
(***************************************************************************)
(* Where the streams of a listener go (internal/channel): an event of the  *)
(* UA routes a prefix of purposes to a local address, each stream resolves *)
(* its listener's purpose as its goroutine starts, and dials what it found *)
(* once the first byte is there, however much later.                       *)
(*                                                                         *)
(* A purpose is the sequence of its parts between colons, so that a prefix *)
(* followed by a colon is a shorter sequence.                              *)
(***************************************************************************)
EXTENDS Integers, SequencesExt

CONSTANTS Purposes,    \* purposes of listeners
          RoutePrefixes,    \* what events route
          Addrs,       \* local addresses
          Static,      \* HyphaeConfig.ChannelRoutes
          HostPorts,   \* the purposes that are a host and a numeric port
          Streams,     \* streams that Hyphae opens
          MaxRoutes    \* bound: events

ASSUME RoutesConstantsOK ==
  /\ DOMAIN Static \subseteq Purposes /\ HostPorts \subseteq Purposes
  /\ "none" \notin Addrs /\ MaxRoutes \in Nat

VARIABLES
  dynamicRoutes,  \* HyphaeProvider.dynamicRoutes, "none" where there is no entry
  streams,        \* each stream: where forwardStream stands, its purpose, what it resolved to
  registered      \* history: the events so far

routesVars == <<dynamicRoutes, streams, registered>>

RoutesInit ==
  /\ dynamicRoutes = [p \in RoutePrefixes |-> "none"] /\ registered = <<>>
  /\ streams = [s \in Streams |-> [at |-> "none"]]

-----------------------------------------------------------------------------
\* Mutant of RegisterRoute: an entry that is there stays.
RegisterRouteOnce(prefix, addr) ==
  dynamicRoutes' = [dynamicRoutes EXCEPT ![prefix] = IF @ = "none" THEN addr ELSE @]

RegisterRoute(prefix, addr) == dynamicRoutes' = [dynamicRoutes EXCEPT ![prefix] = addr]

\* channel.route.register
RouteRegistered(prefix, addr) ==
  /\ Len(registered) < MaxRoutes
  /\ RegisterRoute(prefix, addr)
  /\ registered' = Append(registered, [prefix |-> prefix, addr |-> addr])
  /\ UNCHANGED streams

\* Without a dynamic route: the configuration's, or a purpose that is an address.
Fallback(purpose) == IF purpose \in DOMAIN Static THEN Static[purpose]
                     ELSE IF purpose \in HostPorts THEN "itself" ELSE "none"

\* The answers of resolveLocalAddr: the routes are ranged over in Go's map order,
\* and the first that matches is taken.
resolveLocalAddr(purpose) ==
  LET matching == {p \in RoutePrefixes : dynamicRoutes[p] # "none" /\ IsPrefix(p, purpose)}
  IN  IF matching # {} THEN {dynamicRoutes[p] : p \in matching} ELSE {Fallback(purpose)}

\* acceptLoop starts forwardStream ...
Accepted(s, purpose) ==
  /\ streams[s].at = "none"
  /\ streams' = [streams EXCEPT ![s] = [at |-> "started", purpose |-> purpose, since |-> Len(registered)]]
  /\ UNCHANGED <<dynamicRoutes, registered>>

\* ... which resolves the purpose, and closes the stream if there is no address,
Resolve(s) ==
  /\ streams[s].at = "started"
  /\ \E addr \in resolveLocalAddr(streams[s].purpose) :
       streams' = [streams EXCEPT ![s] = [at |-> IF addr = "none" THEN "closed" ELSE "waiting",
                                          purpose |-> @.purpose, since |-> @.since, addr |-> addr]]
  /\ UNCHANGED <<dynamicRoutes, registered>>

\* ... and dials the address with the first byte, if one comes.
FirstByteDials(s) ==
  /\ streams[s].at = "waiting"
  /\ streams' = [streams EXCEPT ![s].at = "dialled"]
  /\ UNCHANGED <<dynamicRoutes, registered>>

RoutesNext ==
  \/ \E p \in RoutePrefixes, a \in Addrs : RouteRegistered(p, a)
  \/ \E s \in Streams : \/ Resolve(s) \/ FirstByteDials(s)
                        \/ \E purpose \in Purposes : Accepted(s, purpose)

-----------------------------------------------------------------------------
\* What events had routed a purpose to after the first n of them, by any prefix.
RoutedBy(purpose, n) ==
  LET Latest(i) == \A j \in i + 1..n : registered[j].prefix # registered[i].prefix
  IN  {registered[i].addr : i \in {k \in 1..n : IsPrefix(registered[k].prefix, purpose) /\ Latest(k)}}

\* A stream goes where the newest event of a matching prefix says, at some time
\* since it was accepted: never to an address that had been replaced by then, and
\* to none, or the configured one, only if no event had routed its purpose.
StreamsFollowRoutes ==
  \A s \in Streams : streams[s].at \in {"waiting", "dialled", "closed"} =>
    LET Routed(n) == RoutedBy(streams[s].purpose, n)
    IN  \E n \in streams[s].since..Len(registered) :
          streams[s].addr \in IF Routed(n) # {} THEN Routed(n) ELSE {Fallback(streams[s].purpose)}
=============================================================================
