# TLA+ models of the Mycelium Mesh Agent

The Mycelium Mesh Agent (MMA) is a Go process that runs beside the Universe
Agent (UA) on a node. It follows the UA's stream of mesh events, keeps a
registry of members, services and capability providers, decides which provider
a client service may bind to, keeps the resulting grants, buffers audit events
for the UA, and opens tunnels and channels through Hyphae.

This directory holds TLA+ models of that program, TLC configurations that check
them on small instances, and proofs, checked by TLAPS, of what holds for every
size. Paths below are relative to the repository's root.

1. [The system](#the-system)
2. [The modules](#the-modules)
3. [The runs](#the-runs)
4. [Fairness](#fairness)
5. [The proofs](#the-proofs)
6. [Where the code and its documents disagree](#where-the-code-and-its-documents-disagree)
7. [What is not modelled](#what-is-not-modelled)
8. [The plan](#the-plan)

## The system

### Who talks to whom

```
            StreamEvents (gRPC)                    HTTP API
   UA  ------------------------>  event consumer     |
    ^                             (streamer, loop)   v
    |                               |    |    |    binding engine ---> grants
    |      handlers write           |    |    |      |        |          ^
    |   +---------------------------+    |    |      |reads   |asks      | ticker
    |   v                                v    |      v        v          |
    |  registry (members, services,   policy  |   registry  policy   monitor
    |  providers, cache)            evaluator |             evaluator
    |                                         v
    |  link.*.completed            link handlers ---> exposure provider --+
    +------- kernel emitter <------              ---> channel provider ---+--> Hyphae
```

* The event consumer's loop runs one handler at a time. Handlers write the
  registry, the evaluator and the providers of links.
* HTTP requests run concurrently with the loop and with one another. A binding
  request reads the registry and the evaluator in several calls, takes no lock
  over all of them, and writes a grant and an audit event.
* Three goroutines run on their own: the streamer, the loop, and the grant
  monitor. Links add one per tunnel, one per relay or accept loop, and one per
  stream.
* Above all of them stands the launcher. `Start` builds the components one after
  the other in a goroutine of its own, while `Run` waits for a signal, and `Stop`
  takes down what has been built by then. A request may meanwhile replace the
  configuration that a reload on SIGHUP reads.

### Components

| Component | State | Operations | What is hard | What makes it correct |
|---|---|---|---|---|
| UA event consumer (`internal/discovery/ua_event_consumer.go`) | `eventCh`, `nodeSequences`, `running`, `stopChan`, `grpcConn` | `Start`, `Stop`, `streamFromGRPC`, `consumeStream`, `processEventLoop`, `HandleEvent` | two goroutines, a bounded channel, reconnects that replay what is still queued, a stop at any point | no event lost, none handled twice, each node's order kept, both goroutines end |
| Registry and event handlers (`registry.go`, the `handle*` methods) | members, services, providers, cache | one handler per event type, the readers | handlers that call the registry several times; provider objects written in place; a read lock taken twice | one listing per service and capability it started with, copies of identities agree, no reader stuck |
| Policy evaluator (`internal/policy_evaluator`) | policy, consents, a token bucket per client and capability | `EvaluateBinding`, `UpdatePolicy`, `UpdateConsent`, `checkRateLimit`, `Allow` | rules tried in map order; nested read lock; order of the tests; a bucket found under one lock and used under another | an "allow" satisfies tier, consent and rules that agree; a higher tier meets the same verdicts; a client gets its rate, no more and no less |
| Binding engine: requests (`internal/binding_engine/engine.go`) | none of its own | `RequestBinding` | what was read is stale when it is used | no eligible provider overlooked, the nearest first, recorded as answered |
| Binding engine: grants (`grants.go`, `engine.go`) | the map of grants, their states | `IssueGrant`, `RevokeGrant`, `ListActiveGrants`, `CheckExpiration`, `GetBinding`, the monitor | ticker, listing and revocation race; fields read outside the lock | states only move on, expiry is timely, a status is that of the grant at one moment |
| Telemetry (`internal/telemetry`) | buffer and its size, counters and their maps | `recordEvent`, `FlushRequest`, `RecordBinding*`, `GenerateSummary`, `ResetCounters` | the limit, flushes with a time, sizes kept incrementally; counting between a summary and its reset | sizes add up, no event twice, the oldest dropped first and only as another is recorded; counters and summaries add up |
| Link service (`internal/link`) | none of its own | handlers of bind and unbind requests | a provider fails half-way, the report may be lost | reports agree with what is bound |
| Exposure provider (`internal/exposure`) | `activeTunnels` | `Bind`, `Unbind`, `Close`, forwarding, URL proxy | rebinding, failure after the old tunnel was torn down | no client of a tunnel without an owner |
| Channel provider (`internal/channel`) | `active`, `dynamicRoutes` | `BindChannel` as listener or initiator, `UnbindChannel`, `RegisterRoute`, relay, accept loop, streams | goroutines blocked in Accept, dial or splice when the channel goes; a stream that dials long after it resolved its route | what is unbound is released unless a local service never reads again; a stream goes where the newest events route it |
| Launcher and runtime (`cmd/serve`) | the components' fields, the signal | `Start`, `Run`, `Stop`, reload | signals during start-up, while `Start` still writes the fields; a consumer started twice | requests are finished first, the process ends when told to and for a reason |
| Configuration store (`internal/config`) | one struct | `Get`, `Set`, `ValidateConfig` | reload against an HTTP update | the last applied configuration stands |
| HTTP server (`internal/server`) | up or down, requests in flight | routes, `Start`, `Stop` | shutdown with requests in flight, a listener that fails unnoticed | each route is one call of a component |
| Kernel client and emitter (`internal/kernel`) | none | HTTP and gRPC calls | | pure I/O |
| Transport (`internal/transport`) | none | TLS, peer credentials | | pure I/O |
| Host adapter (`internal/host_adapter`) | | | | wired to nothing in the program |
| Types, logging, version, SDK | none | | | data declarations |
| Event stream protocol (`proto/ua_mma/v1`) | none | `StreamEvents` | resumption by sequence number | the environment of the event consumer |

`PROJECT.json` lists the same components with what is left out of each, the
source lines behind every definition, and every hazard with the property that
would notice it.

## The modules

```
InOrderDelivery  <-- refined by --  EventConsumer <-- EventConsumerProofs

Locality <-- Registry <-- PolicyEvaluator <-- BindingEngine <-- MCBindingEngine
                ^              ^
                |              '------------- BindingRules <-- MCBindingRules
                |-- MCRegistry    RateLimiter <--'
                '-- RegistryProofs
BindingRules, BindingEngine, RegistryProofs <-- BindingProofs
RegistryLock

GrantManager <-- GrantManagerProofs, MCGrantManager

Telemetry, Collector <-- FlushRequests <-- FlushRequestsProofs

LinkHandler <-- ExposureProvider, ChannelProvider
ExposureProvider, ChannelProvider, ChannelRoutes <-- LinkService
LinkService <-- LinkServiceProofs, MCLinkService

Runtime <-- RuntimeProofs, MCRuntime

Induction <-- RegistryProofs, FlushRequestsProofs, BindingProofs
```

An arrow points from the module that EXTENDS to the one it extends. `MC*`
modules hold only what TLC needs: symmetry sets, constant values, and for
`MCBindingEngine` a populated initial state. `*Proofs` modules hold the inductive
invariants, the lemmas and the theorems, and `Induction` what several of them
need of numbers, folds and recursive functions. A module's type invariant documents
its variables; `consumer` and `registry` also check it, and the other modules'
properties are spent on the hazards.

Three modules put components side by side that share no state: `BindingRules`
(the sort, the verdicts, the rate limit), `FlushRequests` (the buffer, the
counters) and `LinkService` (the links, the routes). A variable, `decision` or
`followed`, is chosen at first and never changed, and says which of them a
behaviour moves. Every behaviour of each component is there; their interleavings
are not, as none of their properties speaks of two of them. Each component keeps a *mutant* of
some of its definitions next to the original, as a comment above it says: a
plausible bug that a named property detects. Mutants are no part of `Next`.

### EventConsumer and InOrderDelivery

| Model | Code |
|---|---|
| `spc` and the actions of `Streamer` | where `streamFromGRPC` and `consumeStream` stand: the select, the dial, storing the connection, building and sending the request, `Recv`, the send to the channel, the backoff |
| `lpc` and the actions of `Loop` | where `processEventLoop` and `HandleEvent` stand |
| `eventCh`, `chClosed` | the buffered channel; only the streamer's `defer` closes it |
| `nodeSequences`, `lastSeen` | the recorded numbers and the copy a request carries |
| `grpcConn`, `connOpen` | the field that `Stop` closes and the streamer's own variable: `Stop` may find none, the current or an old one |
| `emitted`, `pos`, `failures` | the UA's log per node, what the open stream has delivered, and the failures used (external) |

A region of `EventConsumer.mu` is one step. The UA may resume at any point up to
`lastSeen + 1`, which covers the one it is asked for and any replay. The backoff
is a step without a duration. `InOrderDelivery` is the promise: the handlers of
a node see its events in order, without gaps, and no event before it is
emitted. `nodeSequences` refines its `applied`.

### Locality, Registry and RegistryLock

`Locality` translates distances, scores and the exchange sort of
`SortProvidersByLocality`; the sort is a recursive function over the same pairs of
indices as the two loops, with exchanges where the code exchanges. Two members without a
"site" tag compare equal, as the code's map look-ups have it.

`Registry` has one action per event type, and one action per further call a
handler makes into the registry: `SnapshotMember`, the providers of a started
service, the identities copied into provider objects. `objects` is the heap of
`Provider` objects and `providers` holds pointers, because handlers write
objects while a request holds them. `handleServiceStarted` makes its providers
inside a loop over the endpoints, so that there are endpoints counts though what
they say does not: `left` is the rounds of both loops that are to come, and the
entry's `listed` the capabilities that have one. A start without endpoints
lists the service nowhere. The value `"torn"` stands for an identity
read while it is being written: a Go string is two words and the write is under
no lock, so a reader may see a mix.

`RegistryLock` is the lock by itself: the sort holds it to read, takes it again
for each candidate, and Go's `RWMutex` lets no reader in once a writer waits.
`BindingEngine` takes the sort as one step, which is what it is whenever it
returns.

### PolicyEvaluator and BindingRules

`Verdicts` is the set of answers `EvaluateBinding` may give: a set, because the
rules are ranged over in Go's map order and the first one decides, and because
the token bucket may or may not have a token, which `RateLimiter` settles. A rule
has a priority, which the code stores and reads nowhere, and a decision that may be any
string: rules with one that is neither allow nor deny are passed over
(`Deciding`). `MeshPolicyUpdated` and
`ConsentStateUpdated` are the handlers. `EvalCaps` is the cache handed to
`NewEvaluator`: empty in the shipped binary (`cmd/serve/main.go:80`), so the
runs give it entries, as the constructor's parameter allows. The theorems hold for
any value.

`BindingRules` has no process for these two. It enumerates inputs: every list of
up to `MaxProviders` distances for the sort, every sequence of updates for the
verdicts.

### RateLimiter

`CheckRateLimit` is the part of `checkRateLimit` under `rateMu`, `Allow` the part
under the bucket's own lock, and other evaluations take steps in between: two may
hold the same bucket, or one an old bucket that another has replaced. The code's
tokens and rates are floating-point numbers and its clock has nanoseconds; here
they are multiples of units chosen so that a refill is exact (`One`). `passed`
and `refused` are the histories the properties count in. Both properties speak of
a client that keeps to one rate. One that changes it gets a full bucket with
each change: the code compares the rate and makes a new bucket.

### BindingEngine

`RequestBinding` is cut at every call: context check, capability, client,
providers, sort, one round per candidate, grant. Between any two of them a
handler of `Registry`, or an update of the evaluator, may take a step. `home`,
`steady`, `gone` and `rejected` are history variables that the properties use:
where the client was as the request came in, the providers listed all along,
those already unavailable, those refused. `ListedFor` drops every provider from
`steady` as soon as its listing, the capability or the client's entry goes, so
the properties speak of what a request could not have missed.

### GrantManager

Every method of `GrantManager` is one step. `GetBinding` is three: it looks the grant
up, then copies its state and its error after the manager's lock is released.
`RevokeBinding` needs the engine's lock to write, which waits for readers. It stores
whatever reason it is given, also an empty one (`lastError` says whether it is not
empty); nothing in the program calls it. The ticker fires every `Interval`; expiry is
seen by the ticker or by a listing. `stored` and `grant` are apart because an object
outlives its entry.

### Telemetry

The audit buffer: recording with the oldest dropped to make room, flushing all or from a
time on. An event larger than the buffer is kept if the buffer is empty; otherwise
everything is dropped for it before it is rejected. Sizes and times are what the code
decides on; an event is named by its number.

### Collector and FlushRequests

The counters are atomic and the maps beside them are under a lock, so a binding
is counted in two steps. A flush request takes four: is a summary due, make it,
reset the counters, reset the maps. Anything counted between the second and its
reset is in no summary. `during` and `duringTop` count just that, so `MetricsAddUp` is exact
about what else may happen: nothing. `overlapped` excludes two flushes that both
found a summary due, whose summaries report the same counts twice. `FlushRequest`
is the only entry to both parts; the model lets a behaviour follow one.

### LinkHandler, ExposureProvider, ChannelProvider, LinkService

`LinkHandler` is what all handlers share: one call at a time, and a completion report
that may be lost. The providers add their steps: `call.step` names the place in `Bind`
or `BindChannel`, `call.made` the tunnel or bind under construction. Every external step
may fail. Tunnels and binds are kept in order of creation, also after they left the
table, so that what has no owner is still seen. A splice is two copies, and ends with
the second: `"stalled"` is a splice whose copy from Hyphae is blocked on a write to a
local service that does not read (`LocalStalls`, `LocalReads`). Closing the connection
with Hyphae does not end that one, and nothing closes the one with the service.
`LinkService` composes them and states what relates reports, tables and resources.

### ChannelRoutes

A purpose such as `secrets:s1` is the sequence of its parts, and a prefix
followed by a colon is a prefix of that sequence. `resolveLocalAddr` is the *set*
of answers, because the routes are ranged over in Go's map order. `Resolve` and
`FirstByteDials` are the two places where `forwardStream` acts: a stream dials
what it resolved, however many events later. `registered` remembers the events,
and `StreamsFollowRoutes` compares what a stream resolved with what they said at
some time since it was accepted.

### Runtime

| Model | Code |
|---|---|
| `launch`, `attempt`, the actions of `Start` | where `Launcher.Start` stands; with Hyphae it asks the kernel for a certificate first, with retries |
| `fields` | the launcher's fields that are not nil, which `Stop` reads while `Start` may still write them |
| `server`, `inFlight` | the HTTP server and the requests being handled |
| `config`, `applied`, `HandleConfigApply` | the store, and the last configuration a request applied |
| `consumer` | the event consumer as the launcher sees it: `running`, its streamers, whether `eventCh` is closed |
| `signals`, `run`, `stopList`, `reload` | the channel of one signal, where `Run` stands, what `Stop` has yet to stop, the two copies a reload has read |
| `exit` | how the process ended; nothing moves afterwards |

The model is above the others: what `EventConsumer` does in detail is two actions
here, a streamer that ends and closes `eventCh` and one that sends on a closed
channel, which is a panic. `Configs` has the fields that validation and reload
read. `ShutdownEnds` may come at any time because `Shutdown` gives up after 30
seconds; `late` remembers that it did.

## The runs

States are distinct states found by TLC. All runs check deadlock, except where
the bound on the clock, the events or the requests stops the model and nothing
else is wrong (the runs of `telemetry`, `links` and `rules`), and in `registry_lock`, where the
deadlock is to be reported as what it does to the request.

| Run | Question | Instance | States |
|---|---|---|---|
| `consumer` | Is every delivered event kept, handled once and in order across replays, failures and stops? Does the consumer implement `InOrderDelivery`? Do both goroutines end after a stop, do events reach handlers, is a closed channel drained? | 2 nodes, 2 events each, channel of 1, 1 failure, no symmetry | 308,284 |
| `consumer_resume` | Is the resumption point updated after processing? (no) | 1 node, 2 events | |
| `registry` | Do listings and copied identities stay consistent? | 1 node, 2 services, 2 capabilities, 2 endpoints, 4 events | 2,101,692 |
| `registry_lock` | Does a sort return? (no) | 1 request, 1 candidate | |
| `rules` | Does the sort keep exactly the eligible providers, nearest first? Is every "allow" justified, and no tier refused where a lower one may be allowed? Does a client get its rate, no more and no less? | lists of 4, 5 tiers, 3 risks, 2 updates, rules of 2 priorities that allow, deny or do neither; 2 evaluations at a time, 4 in all | 75,584 |
| `rules_priority` | Does the rule of the highest priority decide? (no) | as `rules` | |
| `binding` | Is a provider overlooked, or a far one preferred, while events interleave? Is each answer recorded? | 2 nodes, 3 services, 1 request, 2 events | 535,946 |
| `binding_revoked` | Is a revoked service granted later? (yes) | as `binding` | |
| `grants` | Are states monotone, expiry timely, statuses current? | 2 grants, 1 reader, lifetimes negative, default and short, reasons empty or not, 8 time units | 705,594 |
| `telemetry` | Do sizes add up, is each event delivered once, the oldest dropped, and no more of them than an event that is taken in needs? Do counters and summaries add up? | 5 events of 3 sizes, 3 flushes; 3 bindings counted by 2 goroutines, 3 metrics flushes by 2 | 1,136,315 |
| `links` | Is a tunnel's client or a channel left without an owner, or reported wrongly? Is a channel released once unbound, if local services go on reading? Do streams go where events route them? | a URL tunnel, a listener, an initiator; 3 requests, 2 dial attempts; 4 route events, 1 stream | 533,743 |
| `runtime` | Are requests finished before the engine stops? Does the store hold what was applied? Does the process end when told to, and for a reason? | with and without Hyphae, 3 requests, 4 configurations, 2 signals | 56,553 |

Why the bounds are enough:

* `consumer`. A replay needs an event still queued at a reconnect: two events of
  a node and room for one. A channel of one is full after one event, so the
  streamer blocks in every way it can, and losing an event at a full channel
  takes two events of any nodes; there are four. A failure gives a reconnect at
  every point of the story. Liveness under symmetry is unsound, so there is
  none. The proofs cover the safety of all other sizes.
* `registry`. The longest story the properties tell is start, revoke, issue,
  restart: four events. Two services suffice for one to be mistaken for
  another, two capabilities for a handler to be half-way, two endpoints for a
  service to be listed again by the same handler.
* `rules`. An exchange sort that works on four entries of three different
  scores (and the excluded zero) has gone through each case of its inner loop,
  equal scores included. Any set of rules is a policy: two priorities and
  three decisions have rules that agree, that disagree, and that are passed over.
  Two updates reach every pair of policy and consent
  from the default ones. For the rate limit, a rate stands for halves of a
  request a second and a tick for half a second: one rate is below one a second,
  whose burst is raised to one, one is 2.5 and refills a bucket of two by
  fractions, one is over the maximum, one is not limited. Four evaluations spend
  the largest burst, of two, twice; four ticks refill it. Two evaluations at a
  time hold one bucket, or an old and a new one.
* `binding`. `PopulatedInit` is what two joins, three starts and a cache
  snapshot leave: a client and a provider on one node and a provider on
  another. A single event between two reads makes one of them stale and the
  second can undo that, so every pair of reads is separated by a change, by a
  change and its reversal, or by two changes. Requests write nothing that
  another reads, so one is enough. The model allows more.
* `grants`. A grant of the default lifetime of 3 is issued, expires, waits for
  the tick at an interval of 2, is kept for 2 and is forgotten within 8 units,
  while the other is issued at any point of that story.
* `telemetry`. A limit of 4 with sizes 1, 2 and 5: several drops for one event,
  an exact fit, and an event larger than the buffer, into a buffer empty or not.
  For the counters, two flushes stand in any two places of `FlushRequest`, two
  recorders each between counter and map, and a third flush follows an overlap.
* `links`. Three requests are bind, rebind, unbind of one link, or of two interleaved
  with the background of the first. Two attempts: one that is followed by a backoff and
  a last one. Splices stall and go on at any point. For the routes, streams do not meet,
  so one suffices; four events set both of two overlapping prefixes and replace both.
  The purposes are one that only the shorter prefix matches, one both match, one that is
  an address as well, and one that nothing routes.
* `runtime`. Two applied configurations put a change between the two reads of a
  reload or after them; a third request is in flight as the server stops. The
  channel takes one signal, so a second is the one that is dropped. The attempts
  for a certificate are the code's five.

Every property of a passing run has a mutant in `PROJECT.json`: a change of a mapped definition
that TLC finds to violate it under the run's own configuration.

## Fairness

* `EventConsumer`: weak fairness of `Streamer` and of `Loop`, each a goroutine
  that the Go scheduler runs as long as it can go on; handlers return and
  sleeps end. The UA, the network, `Stop` and the context owe nothing, so a
  stream may stay silent for ever. Failures are bounded by `MaxFailures`: events
  reach handlers provided the network stops failing at some point, which is
  what retrying assumes.
* `RegistryLock`: weak fairness of the writer once it has called `Lock`, strong
  fairness of the readers, because `RWMutex` lets waiting readers in before the
  next writer. The request hangs all the same.
* `LinkService`: weak fairness of the goroutines of each bind, and of nothing
  else; of a splice, and of a stream, only when the connection with Hyphae is closed and
  no copy is blocked on the local service. The handler may be stuck in Hyphae for
  ever, and local services owe nothing: they may never close a connection and
  never read from it. `UnbindReleases` is therefore about binds with no
  service that stops reading for good.
* `Runtime`: weak fairness of `Run`'s own steps, which includes the limit of 30
  seconds on the shutdown and the calls that stop components. Those return: each
  takes a lock that is held briefly, and the Hyphae client's `Close` is taken to
  return. `Start`, requests, the kernel, the UA and whoever sends signals owe
  nothing.
* No other module states liveness.

## The proofs

Eight modules hold theorems for all values of the constants: any number of nodes,
services, events, requests, providers, evaluations, links, tunnels and configurations,
and the bounds that a run puts on a counter are arbitrary numbers, so no restriction.
Each theorem is of the specification the run checks; those about links are of `Spec`,
without the fairness that `FairSpec` adds for `UnbindReleases`, and those about requests
are of `BindingSpec`, which starts from an empty registry. The run's `PopulatedInit` is
what six of its events leave, so the theorems cover it. All rest on the named
assumptions about constants, which TLC evaluates in the runs:

| Assumption | Says | Because |
|---|---|---|
| `ConstantsOK` | `MaxSeq` and `MaxFailures` are natural, `QueueCap` positive, `ServerCancels` Boolean | bounds; the channel has room for 1000 |
| `GrantConstantsOK` | lifetimes are integers, the other times natural, `Interval` positive | a request may ask for a negative lifetime; the monitor's ticker needs a positive interval |
| `RegistryConstantsOK` | `MaxEvents` is natural, `"torn"` is no identity | a bound; a value only the model has |
| `EvaluatorConstantsOK` | tiers have a rank, the evaluator's cache is of capabilities, a rule has an integer priority and any string for a decision | the types of `internal/types/mesh.go` |
| `RateConstantsOK` | rates are integers, their units positive, the maximum and the bounds natural, `"none"` is no key | a request's rate may be zero or negative; the units and `"none"` are the model's |
| `EngineConstantsOK` | clients are services, a constraint has a locality preference, or none, and a rate or none | the types of a request |
| `MaxProvidersOK` | `MaxProviders` is natural | a bound |
| `TelemetryConstantsOK` | sizes and the limit are positive, the bounds natural | an event is encoded as an object, so has bytes; `NewBuffer` replaces a limit that is not positive |
| `RuntimeConstantsOK` | the default configuration is valid, attempts are positive | `DefaultConfig` passes `Validate`; the code has five |
| `MaxAttemptsOK` | dial attempts are positive | the code's loop makes ten |
| `LinkConstantsOK` | every link has one of the kinds the handlers dispatch on | the handler refuses others before it calls a provider |
| `RoutesConstantsOK` | static routes are for purposes, `"none"` is no address | values of the model |

| Theorem | Says |
|---|---|
| `EventConsumerProofs!Typing` | `TypeOK`, with the channel within its capacity |
| `EventConsumerProofs!Invariance` | `IInv` is invariant |
| `EventConsumerProofs!NothingIsLost` | `NothingLost` |
| `EventConsumerProofs!ExactlyOnce` | `HandledExactlyOnce` |
| `EventConsumerProofs!Refinement` | the consumer implements `InOrderDelivery` |
| `GrantManagerProofs!Typing` | `TypeOK` |
| `GrantManagerProofs!Invariance` | `IInv` is invariant |
| `GrantManagerProofs!StatesOnlyMoveOn` | `StatesMoveOn` |
| `GrantManagerProofs!TimelyExpiry` | `ExpiryIsTimely` |
| `GrantManagerProofs!CurrentStatus` | `StatusIsCurrent` |
| `GrantManagerProofs!ForgettingIsSafe` | `ForgetsOnlyOldExpired` |
| `RegistryProofs!Typing` | `TypeOK` |
| `RegistryProofs!Invariance` | `IInv` is invariant |
| `RegistryProofs!NoDuplicates` | `ListedOnce` |
| `RegistryProofs!NoServiceMissing` | `ServicesAreListed` |
| `RegistryProofs!IdentitiesStayTogether` | `IdentitiesAgree` |
| `BindingProofs!SortKeepsThem` | `SortKeepsEligible` |
| `BindingProofs!NearestIsFirst` | `NearestFirst` |
| `BindingProofs!AllowingIsJustified` | `AllowIsJustified` |
| `BindingProofs!HigherIsNoWorse` | `HigherTierNoWorse` |
| `BindingProofs!RateInvariance` | `RateInv` is invariant |
| `BindingProofs!RateIsKept` | `RateIsBounded` |
| `BindingProofs!RefusalsAreSpent` | `RefusedOnlyWhenSpent` |
| `BindingProofs!BindingTyping` | `BindingTypeOK` |
| `BindingProofs!BindingInvariance` | `BindingInv` is invariant |
| `BindingProofs!NobodyOverlooked` | `NoProviderOverlooked` |
| `BindingProofs!OwnNodeIsFirst` | `OwnNodeFirst` |
| `BindingProofs!RecordsAreAnswers` | `RecordedAsAnswered` |
| `FlushRequestsProofs!SummariesAddUp` | `MetricsAddUp` |
| `FlushRequestsProofs!AuditInvariance` | `AuditIInv` is invariant |
| `FlushRequestsProofs!SizeAccounting` | `SizeIsAccounted` |
| `FlushRequestsProofs!HandedOutOnce` | `DeliveredOnce` |
| `FlushRequestsProofs!OldestGoFirst` | `OldestDropped` |
| `FlushRequestsProofs!RoomIsNeeded` | `MakesNeededRoom` |
| `LinkServiceProofs!Typing` | `TypeOK` |
| `LinkServiceProofs!Invariance` | `IInv` is invariant |
| `LinkServiceProofs!NoTunnelIsLost` | `TunnelsAreOwned` |
| `LinkServiceProofs!NoChannelIsLost` | `ChannelsAreOwned` |
| `LinkServiceProofs!ReportsHold` | `ReportedAsIs` |
| `LinkServiceProofs!NoStaleRoute` | `StreamsFollowRoutes` |
| `RuntimeProofs!Typing` | `TypeOK` |
| `RuntimeProofs!Invariance` | `IInv` is invariant |
| `RuntimeProofs!StopWaitsForRequests` | `RequestsFinish` |
| `RuntimeProofs!StoreHoldsApplied` | `ConfigIsApplied` |
| `RuntimeProofs!EndHasItsCause` | `ExitIsExplained` |

**Event consumer.** `HandledExactlyOnce` is not inductive: that `HandleEvent`
marks exactly the next number of a node depends on what the channel holds.
`IInv` adds the conjuncts that carry the argument from the stream to the handler:

* `HandIsLatest` and `NothingLost`: the event in the streamer's hand is the last
  delivered one, and all delivered before it are recorded or on their way.
  Therefore
* `ChannelInOrder`: when the event enters the channel, every older unrecorded
  event of its node is ahead of it. It stays so as the loop takes the head and
  records it. Replayed copies satisfy it too, since their predecessors are
  recorded or ahead in the channel. Therefore
* `LoopInOrder`: the event the loop takes extends the record by at most one. The
  guard of `HandleEvent` leaves exactly one, which gives `HandledExactlyOnce`
  and the step of the refinement;
* `WithinLog` bounds everything by the UA's log (the refinement's guard), and
  keeps a request from resuming past the record (needed for `NothingLost` when
  a stream opens);
* `ClosedForGood`: only the streamer's last step closes the channel.

The step `MarkSequence` of the refinement is the abstract `Apply`, `UAEmit` is
the abstract emission, and everything else stutters.

**Grants.** `ExpiryIsTimely` needs `TickIsNear`: a running monitor's next tick is
within an interval of an active grant's expiry, or of its creation if it had
expired as it was issued. `StatusIsCurrent` says that what `GetBinding` returns is
the grant as it is when the second field is copied. It needs
`CopyIsCurrent`: between the two copies the grant cannot become
revoked, because `RevokeBinding` waits for the engine's lock; it may expire.
And it needs `KnownIsIssued`: a grant that was looked up is not issued a second time.
Whether the reason of a revocation is empty does not matter. `StatesMoveOn` and
`ForgetsOnlyOldExpired` are action properties that follow from typing and the actions.

**Registry.** None of its properties is inductive, as a handler changes the lists and
the objects in several steps under several locks. The invariant says what it still has
to do. `Unique` and `Listed`: a capability has one entry of each service whose last
start offers it at an endpoint, unless the handler is about to make it (`BeingStarted`).
`Whole`: a half-written identity is the one being written. `Agreed`: an entry's object
says what the service's entry says (`Agrees`), or is still to be written and then
`Pending`: the entry already has the new identity, and availability is on the way from
the old value to the new. `HandlerAgrees` is why the loop's new objects agree as they
are made. When the handler is back to `Waiting` nothing is pending, which is
`ServicesAreListed` and `IdentitiesAgree`. Neither speaks of a provider that an earlier
start has left under a capability the last one does not offer.

**The sort.** `SortDescending` is the two nested loops as one function over the rounds;
`RecursionExists` says that there is such a function, `SortUnfolds` what each round
does. An exchange permutes (`ExchangeKeeps`), so no provider is lost or repeated. For the
order, `Ordered` is the loop invariant: of any two places compared by round `k`, the
front one has no lower score. A round establishes it for its pair and keeps it for
those before (`ExchangeOrders`), which needs that rows come one after another
(`RowsFollow`). `SortByScoreIs` is what the rest cites: from a list without
repetitions, of any length, the sort makes the list of the eligible, highest score
first.

**The evaluator.** `AllowIsJustified` and `HigherTierNoWorse` are statements about
`Verdicts` for every policy and consent, so they need no invariant: `AllowedIs`
says what an "allow" takes, `TiersAreRanked` that a tier which is high enough stays so
as it rises, and `VerdictsAgree` that two tiers past the same tests meet the same
verdicts. Of rules that disagree neither theorem says which decides: in the code, any may.

**Binding requests.** What a request has read may be stale, so the invariant is
about `steady`, the providers listed all along. `Listing`: they are listed now,
`AtHome`: the node the request has read is then the client's, `Fetched`: they were
in the list it got, `Kept`: those the sort did not exclude are still ahead or rejected,
`OwnFirst`: the sorted list has those on the client's node ahead of the others. When the
request ends, these give `Answered`, and `Recorded` goes with the answer.
Handlers that interleave take providers out of `steady`, and rewrite of an object
the identity and the availability only (`RegistryKept`), never its node or service.

**The rate limit.** `RateIsBounded` is about all stretches of time and does not speak
of the bucket. `Bounded` adds it: from any request on, the number let through *and*
what is left in the bucket are within burst plus refill, up to the time of the last
refill. `Spent` is the opposite bound: the bucket is full, or from some request on no
less than that has been used or is left. A request let through moves one token from the
bucket to the count and keeps both (`PassKey`); one refused keeps both, and leaves
`Spent` with less than a token in the bucket (`RefuseKey`). All this holds of
one bucket, so `OwnBuckets`, `Held` and `Unasked` say that a client that keeps to
one rate has one: it is made full as the client first asks, nobody replaces it, and
nobody of another key holds it. Levels are products of counts, times and rates: non-linear
arithmetic, split until each leaf names its products.

**Telemetry.** `SizeIsAccounted` is about a sum over a sequence, which a fold computes
and the code keeps up by adding and subtracting. The library states induction for an
operator, which the provers cannot instantiate. `Induction` states it for a *set* of
numbers instead (`UpTo`: a set that has 0 and with each number the next has all), and
derives from it that the function inside the library's `FoldLeft` exists (`FoldExists`)
and what it does from the first element on (`FoldUnfolds`); likewise `RecursionExists`
for a recursive function. `SizeUnfolds` then names the running sums of a sequence, from
which follow its size after an append, and those of a prefix and its rest: all that
recording and flushing do. `DeliveredOnce` and `OldestDropped` rest on `IdsAreOld`: ids
increase along the buffer, and none is new. `MakesNeededRoom` is an action property: for
an event that is taken in, the drop is the least prefix that makes room, and with one
event less of it there was none. For an event that is rejected there is no such bound.
For the metrics, `OneInside` says that a second flush past its summary sets
`overlapped`, and `AddsUp` is `MetricsAddUp` at every moment of a flush: counters that
are yet to be reset have been reported (`Unreset`), and what came in since is in
`during`.

**Links and routes.** The tunnels and the binds are each a table and what is under
construction, and the proof treats the two providers as sides that do
not touch each other (`BindSideKept`, `TunnelSideKept`). `TunnelIsNew` and
`BindIsNew`: while a call makes a resource, its link is not in the table and
nothing runs for it yet, so that a failure has just what it made to close.
`TablesMatch`: a link's entry is its own. With these `TunnelsAreOwned` and
`ChannelsAreOwned` are inductive, and a goroutine keeps them because it reopens
nothing (`UpdateKeeps`). `TunnelsAreOwned` is about clients and forwarding, not about
URL proxies. `OutcomeIsTrue` carries `ReportedAsIs` from the
provider's return to the completion. For the routes, `RoutesAreNewest` says that the map
has the newest event of each prefix; what events said up to some time is not
changed by later ones (`RoutedStays`), so a resolved stream follows them still.

**Runtime.** `RequestsFinish` needs to know how far `Stop` is: `StopsInOrder` says what of
the order may be left, `ServerIsDown` that past the shutdown no request is in flight
or the limit has passed, and `StartedAsWhole` that a process that was up has
a server to stop. `ExitIsExplained` needs `StreamersCounted`: until a reload has
started the consumer a second time there is one streamer at most, and none
beside a closed channel; so only what follows such a reload can send on one.

**Only model-checked.** Liveness (`StopEndsGoroutines`, `EventsReachHandlers`,
`DrainedAfterClose`, `SortReturns`, `UnbindReleases`, `EndsWhenTold`), as TLAPS is
used without `ENABLED`. Every safety invariant and every action property that a
passing run checks has its theorem.

## Where the code and its documents disagree

Each of these is a run that violates one property, which states the quoted
document.

1. **`consumer_resume`**. `HandleEvent` records the sequence number before it
   calls the handler (`ua_event_consumer.go:445`); a comment says "sequence
   will be updated after processing" (`:316`). After a handler's error, or a
   reconnect while it runs, the UA is asked to continue after that event.
2. **`binding_revoked`**. A revocation sets `Available` to false
   (`ua_event_consumer.go:911`), which nothing that selects providers reads; the
   comment says "the service can no longer be used as a provider" (`:898`).
3. **`registry_lock`**. `SortProvidersByLocality` holds the read lock and takes it
   again per candidate (`registry.go:246`). With a writer waiting in between,
   neither goes on, and neither does any later event.
4. **`rules_priority`**. Rules are tried in map order and no priority is read
   (`policy_evaluator/evaluator.go:163`), so of two that disagree either may decide;
   "highest priority first" says the comment above it (`:162`).

The next ones the models have as the code does, and their properties are stated so
that they hold of it:

* Providers are made in the loop over the endpoints (`ua_event_consumer.go:682`), so
  a running service that advertises a capability and has no endpoint is none; to the
  RFC a provider is "A running service advertising a capability"
  (`agent_docs/MYCELLIUM_MESH_AGENT_RFC.md:54`). `ServicesAreListed` speaks of what a
  service started with *and* an endpoint.
* The same handler lists a service under whatever capabilities the event names
  (`:703`); "MMA MUST reject provider advertisements for unknown capabilities"
  (`agent_docs/INTERFACE_CONTRACT.md:361`).
* The launcher gives the evaluator an empty cache that no event fills
  (`cmd/serve/main.go:80`), so it finds every capability unknown;
  `agent_docs/INTERFACE_CONTRACT.md:209` explains the refusal as "not in UA cache". In the
  models the cache is the constant `EvalCaps`.
* An event larger than a buffer that is not empty is rejected after everything else
  has been dropped for it (`telemetry/buffer.go:117`); "reject this single event" says the
  comment (`:129`). `MakesNeededRoom` speaks of events that are taken in.
* `splice` waits for both copies (`channel/hyphae_provider.go:533`), so it outlives the
  connection with Hyphae while a local service does not read; "until either side
  closes" says its comment (`:515`). Neither a hang-up nor an unbind closes the local
  connection. `UnbindReleases` leaves out binds with such a service.
* A channel whose relay has ended stays in the table; a bind finds it
  (`channel/hyphae_provider.go:127`, `:284`) and reports success with the address of a closed
  port, though `channel/provider.go:12` has `LocalAddr` return none that is not
  available and `hyphae_provider.go:385` guarantees that the listener is ready.
  `ReportedAsIs` compares reports with the table only.

Observed while reading, without a run:

* The URL proxy of a tunnel is stopped by `Unbind` only; a rebind, a failed bind
  and `Close` leave it running until the runtime's context ends, although
  `url_proxy.go:18` asks the caller to stop it. The model has it as it is.
* A restart with fewer capabilities leaves the providers of those it dropped, with the
  old node and identity (`ua_event_consumer.go:681`), and a stop leaves them all.
  Capabilities that come with `service.updated` are ignored.
* A count made between `GenerateSummary` and `ResetCounters` is in no summary, and
  two flushes that both find one due report the same counts twice
  (`telemetry/flusher.go:80`). `MetricsAddUp` says that nothing else is lost.
* `Run` waits for a single signal: after SIGHUP it returns and the process ends
  without `Stop`. The reload reads the store twice, so it compares the
  configuration with itself unless one is applied in between; then it starts the
  consumer a second time with the channel that its first streamer closes, and
  the process may panic (`cmd/serve/main.go:366`, `:388`). `ExitIsExplained`
  bounds it to that case.
* A configuration applied over HTTP is stored and reaches no running component.
* `Stop` says it goes in reverse order of initialisation (`cmd/serve/main.go:289`),
  but `Run` has cancelled the context before (`:374`), which ends the consumer and
  the grant monitor while the server still answers requests.
* `ListenAndServe` fails in a goroutine that only logs it: the process runs on
  without its API (`server/server.go:423`).
* A client that varies its requested rate gets a full bucket with each change
  (`policy_evaluator/evaluator.go:252`).
* For a purpose that is an address, the map of routes "is not consulted" according
  to `config/config.go:180`; `resolveLocalAddr` consults both maps first.
* Routes whose prefixes overlap are tried in map order
  (`channel/hyphae_provider.go:476`).
* An initiator's bind retries, and reads a response without a deadline, inside
  the event loop (`channel/hyphae_provider.go:308`).
* `EvaluateBinding` calls `hasConsent` under the read lock it takes again
  (`evaluator.go:191`), the pattern of `registry_lock`.

## What is not modelled

* Within modelled components: the file source of events, a second `Start`, and
  events numbered 0; what endpoints say (that there are any is in the model),
  labels other than the trust tier, a member's
  status and heartbeats, on which nothing decides; rule conditions, which the code
  does not read (it reads no priorities either, but they are in the model, to
  state what a comment says of them); a failure to load TLS credentials as the
  consumer starts, whose default configuration has no TLS; the introspection and health routes,
  which only read; operations that nothing in the program calls
  (`RemoveProvider`, `AddOrUpdateCapability`, `SendTelemetrySummary`, `Update` of
  the store, the channel provider's `Close`); counters that nothing increments
  (expiries, connections, bytes). Revocation has no caller either: the HTTP server has
  no route for it (`server/server.go:65`) and no event asks for it. It is in the
  model all the same, as the API of the engine, with its locks.
* The kernel client, transport and the event stream's generated code are I/O
  without state of their own. The host adapter is wired to nothing. Types,
  logging and version are data and wording.
* The detail of a second `Start` of the consumer: `Runtime` has that it shares
  `eventCh` with the first and what closing it twice does, but not which events
  are handled in the fraction of a second until the process ends.
* Restarts of the process persist nothing, so there is no recovery to model: a
  new process starts from `Init` and asks for everything.
* Memory and time: a backoff has no duration, and bounds of the models are
  constants named in each module.

## The plan

Done, in the order of importance to the program: the event consumer with its
abstract specification and proofs; grants with proofs; registry and locality;
evaluator; binding requests; the registry's lock; telemetry; links; the rate
limit; the metrics; the routes of channels; the runtime with the configuration
store and the shutdown of the server.

What is left to model is listed above with the reason it is left out.

Proved: the safety of every module that a passing run checks.

Next: the hazards that `PROJECT.json` lists without a property. For each, what the
code does keep, as an invariant with its proof in the module of its component: what
may still be granted after a service has stopped, and which proxies run beside which
tunnels.
