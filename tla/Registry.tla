------------------------------ MODULE Registry ------------------------------
(***************************************************************************)
(* The service registry (internal/discovery/registry.go) and the handlers  *)
(* by which the event consumer's loop fills it (the handle* methods of     *)
(* ua_event_consumer.go).  The loop runs one handler at a time; a handler  *)
(* that calls the registry more than once releases its lock in between, so *)
(* the handlers are split into steps, and other goroutines read the        *)
(* registry between any two of them.                                       *)
(*                                                                         *)
(* The maps hold pointers: a provider is an object that handlers change in *)
(* place while a binding request may hold it.  An endpoint matters by its  *)
(* being there: a service that starts without one becomes no provider.     *)
(* What endpoints say, labels other than trust_tier, a member's status and *)
(* a service's heartbeat are left out: nothing decides on them.            *)
(***************************************************************************)
EXTENDS Locality

CONSTANTS Nodes, Sites,  \* node IDs; values of the "site" tag
          Services,      \* service IDs
          Caps,          \* capability IDs
          Endpoints,     \* endpoints a service.started event may carry
          Tiers,         \* trust tiers a service.started event may carry
          Identities,    \* SPIFFE IDs other than ""
          MaxEvents      \* bound: events handled

ASSUME RegistryConstantsOK == MaxEvents \in Nat /\ "torn" \notin Identities

VARIABLES
  members,    \* Registry.members: a node's tags, or "absent"
  services,   \* Registry.services: a service's entry, or NoService
  objects,    \* every Provider object made so far, in order
  providers,  \* Registry.providers: per capability, pointers into objects
  cache,      \* the IDs in Registry.cache
  handler,    \* the handler the event loop is in, or Waiting
  events      \* events handled so far

dirVars == <<members, services, objects, providers, cache>>
registryVars == <<dirVars, handler, events>>

Ids == Identities \cup {"", "torn"}
\* CapabilitiesProvided is what the service offers; "listed" is no field of the
\* code: what of it the start has made providers for.
Entry == [node : Nodes, offers : SUBSET Caps, listed : SUBSET Caps, identity : Ids, revoked : BOOLEAN]
NoService == [node |-> "none", offers |-> {}, listed |-> {}, identity |-> "", revoked |-> FALSE]
Provider == [service : Services, node : Nodes, tier : Tiers, identity : Ids, available : BOOLEAN]

Waiting == [step |-> "waiting"]

Init ==
  /\ members = [n \in Nodes |-> "absent"] /\ services = [s \in Services |-> NoService]
  /\ objects = <<>> /\ providers = [c \in Caps |-> <<>>] /\ cache = {}
  /\ handler = Waiting /\ events = 0

\* The loop takes an event whose payload can be read and loaded, and the
\* handler's first step is to reach the given state.
Handle(next) == /\ handler = Waiting /\ events < MaxEvents
                /\ events' = events + 1 /\ handler' = next

-----------------------------------------------------------------------------
(* Members and the capability cache.                                       *)

\* Mutant of ClusterSnapshot: Clear forgets to reset the services.
SnapshotKeepsServices(snapshot) ==
  /\ Handle([step |-> "members", left |-> {n \in Nodes : snapshot[n] # "absent"},
             tags |-> snapshot])
  /\ members' = [n \in Nodes |-> "absent"] /\ providers' = [c \in Caps |-> <<>>]
  /\ UNCHANGED <<services, objects, cache>>

\* handleClusterSnapshot: Clear, then the snapshot's members one at a time.
\* Clear also drops services and providers, which the snapshot does not carry.
ClusterSnapshot(snapshot) ==
  /\ Handle([step |-> "members", left |-> {n \in Nodes : snapshot[n] # "absent"},
             tags |-> snapshot])
  /\ members' = [n \in Nodes |-> "absent"] /\ services' = [s \in Services |-> NoService]
  /\ providers' = [c \in Caps |-> <<>>]
  /\ UNCHANGED <<objects, cache>>

SnapshotMember ==
  /\ handler.step = "members"
  /\ IF handler.left = {}
     THEN handler' = Waiting /\ UNCHANGED members
     ELSE \E n \in handler.left :
            /\ members' = [members EXCEPT ![n] = handler.tags[n]]
            /\ handler' = [handler EXCEPT !.left = @ \ {n}]
  /\ UNCHANGED <<services, objects, providers, cache, events>>

MemberJoined(n, tags) ==
  /\ Handle(Waiting)
  /\ members' = [members EXCEPT ![n] = tags]
  /\ UNCHANGED <<services, objects, providers, cache>>

\* An update without tags, and a health event, leave the tags alone.
MemberUpdated(n, tags) ==
  /\ Handle(Waiting)
  /\ members' = IF members[n] = "absent" THEN members ELSE [members EXCEPT ![n] = tags]
  /\ UNCHANGED <<services, objects, providers, cache>>

MemberLeft(n) ==
  /\ Handle(Waiting)
  /\ members' = [members EXCEPT ![n] = "absent"]
  /\ UNCHANGED <<services, objects, providers, cache>>

\* A snapshot and a delta of the capability cache do the same: what is loaded
\* replaces the cache as a whole.
CacheUpdated(loaded) ==
  /\ Handle(Waiting)
  /\ cache' = loaded
  /\ UNCHANGED <<members, services, objects, providers>>

-----------------------------------------------------------------------------
(* Services and providers.                                                 *)

\* handleServiceStarted: the service entry, then for each capability it offers a
\* provider per endpoint, of which the last one's stays; so none at all if the
\* event has no endpoint.  A later service.updated changes no provider.
ServiceStarted(s, n, offers, endpoints, tier, id) ==
  /\ Handle([step |-> "providers", left |-> offers \X endpoints,
             provider |-> [service |-> s, node |-> n, tier |-> tier, identity |-> id,
                           available |-> TRUE]])
  /\ services' = [services EXCEPT ![s] =
       [node |-> n, offers |-> offers, listed |-> {c \in offers : endpoints # {}},
        identity |-> id, revoked |-> FALSE]]
  /\ UNCHANGED <<members, objects, providers, cache>>

\* Mutants of WithProvider: the new object is appended always, or only if the
\* service is not listed.
AppendProvider(list, s, o) == Append(list, o)
KeepProvider(list, s, o) ==
  IF \E i \in DOMAIN list : objects[list[i]].service = s THEN list ELSE Append(list, o)

\* AddOrUpdateProvider: a service's new object takes the place of its old one.
WithProvider(list, s, o) ==
  IF \E i \in DOMAIN list : objects[list[i]].service = s
  THEN [i \in DOMAIN list |-> IF objects[list[i]].service = s THEN o ELSE list[i]]
  ELSE Append(list, o)

\* A round of the two loops.  The capabilities come in any order, as the event has
\* them; that their endpoints may take turns here makes no difference to the lists.
StartedProvider ==
  /\ handler.step = "providers"
  /\ IF handler.left = {}
     THEN handler' = Waiting /\ UNCHANGED <<objects, providers>>
     ELSE \E round \in handler.left :
            /\ objects' = Append(objects, handler.provider)
            /\ providers' = [providers EXCEPT
                 ![round[1]] = WithProvider(@, handler.provider.service, Len(objects) + 1)]
            /\ handler' = [handler EXCEPT !.left = @ \ {round}]
  /\ UNCHANGED <<members, services, cache, events>>

\* handleServiceStopped removes the entry and leaves the providers.
ServiceStopped(s) ==
  /\ Handle(Waiting)
  /\ services' = [services EXCEPT ![s] = NoService]
  /\ UNCHANGED <<members, objects, providers, cache>>

-----------------------------------------------------------------------------
(* Service identities.                                                     *)

\* The objects of service s that ListAllProviders returns.
ProvidersOf(s) == {o \in UNION {ToSet(providers[c]) : c \in Caps} : objects[o].service = s}

\* The service entry is written first; the providers are listed after it and
\* written one by one, outside the registry's lock.  A string is written in
\* two words: a reader in between finds neither the old nor the new identity.
IdentityIssued(s, id) ==
  /\ Handle([step |-> "identity", left |-> ProvidersOf(s), id |-> id, revoke |-> FALSE])
  /\ services' = IF services[s] = NoService THEN services
                 ELSE [services EXCEPT ![s].identity = id]
  /\ UNCHANGED <<members, objects, providers, cache>>

\* Mutant of IdentityRevoked: a marker is written instead of no identity.
IdentityMarkedRevoked(s) ==
  /\ Handle([step |-> "identity", left |-> ProvidersOf(s), id |-> "revoked", revoke |-> TRUE])
  /\ services' = IF services[s] = NoService THEN services
                 ELSE [services EXCEPT ![s].identity = "revoked", ![s].revoked = TRUE]
  /\ UNCHANGED <<members, objects, providers, cache>>

IdentityRevoked(s) ==
  /\ Handle([step |-> "identity", left |-> ProvidersOf(s), id |-> "", revoke |-> TRUE])
  /\ services' = IF services[s] = NoService THEN services
                 ELSE [services EXCEPT ![s].identity = "", ![s].revoked = TRUE]
  /\ UNCHANGED <<members, objects, providers, cache>>

WriteIdentity ==
  /\ handler.step = "identity"
  /\ IF handler.left = {}
     THEN handler' = Waiting /\ UNCHANGED objects
     ELSE \E o \in handler.left :
            /\ \A q \in handler.left \ {o} : objects[q].identity # "torn"
            /\ IF objects[o].identity # "torn"
               THEN /\ objects' = [objects EXCEPT ![o].identity = "torn",
                                     ![o].available = @ /\ ~handler.revoke]
                    /\ UNCHANGED handler
               ELSE /\ objects' = [objects EXCEPT ![o].identity = handler.id]
                    /\ handler' = [handler EXCEPT !.left = @ \ {o}]
  /\ UNCHANGED <<members, services, providers, cache, events>>

-----------------------------------------------------------------------------
HandlerStep == SnapshotMember \/ StartedProvider \/ WriteIdentity

EventHandled ==
  \/ \E snapshot \in [Nodes -> Tags(Sites) \cup {"absent"}] : ClusterSnapshot(snapshot)
  \/ \E n \in Nodes : MemberLeft(n) \/ \E tags \in Tags(Sites) :
                        MemberJoined(n, tags) \/ MemberUpdated(n, tags)
  \/ \E loaded \in SUBSET Caps : CacheUpdated(loaded)
  \/ \E s \in Services : 
       \/ ServiceStopped(s) \/ IdentityRevoked(s) \/ \E id \in Identities : IdentityIssued(s, id)
       \/ \E n \in Nodes, offers \in SUBSET Caps, endpoints \in SUBSET Endpoints, tier \in Tiers,
             id \in Identities \cup {""} : ServiceStarted(s, n, offers, endpoints, tier, id)

\* The loop waits for an event that does not come.
OutOfEvents == handler = Waiting /\ events = MaxEvents /\ UNCHANGED registryVars

Next == EventHandled \/ HandlerStep \/ OutOfEvents
Spec == Init /\ [][Next]_registryVars

-----------------------------------------------------------------------------
(* Properties.                                                             *)

TypeOK ==
  /\ members \in [Nodes -> Tags(Sites) \cup {"absent"}]
  /\ services \in [Services -> Entry \cup {NoService}]
  /\ objects \in Seq(Provider)
  /\ providers \in [Caps -> Seq(1..Len(objects))]
  /\ cache \subseteq Caps /\ events \in 0..MaxEvents
  /\ \/ handler = Waiting
     \/ handler \in [step : {"members"}, left : SUBSET Nodes,
                     tags : [Nodes -> Tags(Sites) \cup {"absent"}]]
     \/ handler \in [step : {"providers"}, left : SUBSET (Caps \X Endpoints), provider : Provider]
     \/ handler \in [step : {"identity"}, left : SUBSET (1..Len(objects)), id : Ids, revoke : BOOLEAN]

\* The provider object of a service under a capability, of which there is one.
EntriesOf(s, c) == {i \in DOMAIN providers[c] : objects[providers[c][i]].service = s}

\* A capability lists each service at most once, at every moment: restarts and
\* identity events replace a service's object and never add another.
ListedOnce == \A c \in Caps, s \in Services : Cardinality(EntriesOf(s, c)) <= 1

\* Between two events a running service that has started with an endpoint is
\* listed under every capability that it started with, although a snapshot clears
\* services and providers alike and the entry is written before the providers.
ServicesAreListed ==
  handler = Waiting => \A s \in Services : \A c \in services[s].listed : EntriesOf(s, c) # {}

\* Between two events the providers that a running service has by its last start
\* carry the identity of its entry, and are available exactly if that is not
\* revoked: the copies are written apart and do not diverge.  Nothing is said of
\* a provider that an earlier start has left under another capability: it keeps
\* what it had until the next identity event.
IdentitiesAgree ==
  handler = Waiting =>
    \A s \in Services : \A c \in services[s].listed : \A i \in EntriesOf(s, c) :
      LET o == objects[providers[c][i]] IN
      /\ o.identity = services[s].identity
      /\ services[s].revoked <=> ~o.available
=============================================================================
