---------------------------- MODULE BindingEngine ----------------------------
(***************************************************************************)
(* RequestBinding (internal/binding_engine/engine.go) with the registry it *)
(* reads, the evaluator it asks and the event handlers that change both    *)
(* while it runs.  Engine.mu is not taken: every call into the registry or *)
(* the evaluator is a step, and several requests and one event handler     *)
(* interleave between them.                                                *)
(***************************************************************************)
EXTENDS PolicyEvaluator

CONSTANTS Requests,     \* HTTP requests in flight
          Clients,      \* services that ask for bindings
          Constraints   \* the constraints a request may carry

ASSUME EngineConstantsOK ==
  /\ Clients \subseteq Services
  /\ Constraints \subseteq [locality : Preferences \cup {""}, limited : BOOLEAN]

VARIABLES
  step,      \* where RequestBinding stands, per request
  ask,       \* the request: client, capability, constraints
  node,      \* clientService.NodeID
  list,      \* the candidates, then what is left of the sorted ones
  grant,     \* the BindingGrant issued: its provider object and the identity read
  answer,    \* the BindingResponse: "allow" or the reason
  emitted,   \* the telemetry events recorded for the request
  rejected,  \* history: the providers that EvaluateBinding did not allow
  home,      \* history: the client's node as the request came in
  steady,    \* history: providers listed ever since, the client registered at home
  gone       \* history: the provider objects unavailable as the request came in

requestVars == <<step, ask, node, list, grant, answer, emitted, rejected>>
historyVars == <<home, steady, gone>>
vars == <<registryVars, evaluatorVars, requestVars, historyVars>>

NoGrant == [provider |-> 0, identity |-> ""]

NoRequest == [client |-> "none", cap |-> "none", locality |-> "", limited |-> FALSE]

All(v) == [r \in Requests |-> v]

EngineInit ==
  /\ step = All("idle") /\ ask = All(NoRequest) /\ node = All("none") /\ list = All(<<>>)
  /\ grant = All(NoGrant) /\ answer = All("") /\ emitted = All(<<>>)
  /\ rejected = All({}) /\ home = All("none") /\ steady = All({}) /\ gone = All({})

BindingInit == Init /\ EvaluatorInit /\ EngineInit

-----------------------------------------------------------------------------
(* RequestBinding.  A step does not change the registry or the evaluator.  *)

Goto(r, s) == step' = [step EXCEPT ![r] = s]

\* Mutant of Deny: the denial is not recorded.
DenySilently(r, reason) == /\ Goto(r, "done")
                           /\ answer' = [answer EXCEPT ![r] = reason]
                           /\ UNCHANGED emitted

\* emitBindingDenied, and the response.
Deny(r, reason) == /\ Goto(r, "done")
                   /\ answer' = [answer EXCEPT ![r] = reason]
                   /\ emitted' = [emitted EXCEPT ![r] = Append(@, "denied")]

\* The request has a client and a capability.
Submit(r, client, c, con) ==
  /\ step[r] = "idle"
  /\ Goto(r, "capability")
  /\ ask' = [ask EXCEPT ![r] = [client |-> client, cap |-> c, locality |-> con.locality,
                                limited |-> con.limited]]
  /\ UNCHANGED <<node, list, grant, answer, emitted, rejected>>

\* The context is done at one of the checks: no event is recorded.
Cancelled(r) ==
  /\ step[r] = "capability" \/ (step[r] = "evaluate" /\ list[r] # <<>>)
  /\ Goto(r, "done") /\ answer' = [answer EXCEPT ![r] = "INTERNAL_ERROR"]
  /\ UNCHANGED <<ask, node, list, grant, emitted, rejected>>

GetCapability(r) ==
  /\ step[r] = "capability"
  /\ IF ask[r].cap \in cache THEN Goto(r, "client") /\ UNCHANGED <<answer, emitted>>
                             ELSE Deny(r, "CAPABILITY_UNKNOWN")
  /\ UNCHANGED <<ask, node, list, grant, rejected>>

GetClient(r) ==
  /\ step[r] = "client"
  /\ IF services[ask[r].client] # NoService
     THEN /\ Goto(r, "providers")
          /\ node' = [node EXCEPT ![r] = services[ask[r].client].node]
          /\ UNCHANGED <<answer, emitted>>
     ELSE Deny(r, "NO_PROVIDER_AVAILABLE") /\ UNCHANGED node
  /\ UNCHANGED <<ask, list, grant, rejected>>

GetProviders(r) ==
  /\ step[r] = "providers"
  /\ list' = [list EXCEPT ![r] = providers[ask[r].cap]]
  /\ IF list'[r] # <<>> THEN Goto(r, "sort") /\ UNCHANGED <<answer, emitted>>
                        ELSE Deny(r, "NO_PROVIDER_AVAILABLE")
  /\ UNCHANGED <<ask, node, grant, rejected>>

Preference(r) == IF ask[r].locality = "" THEN "lan_preferred" ELSE ask[r].locality

\* The sort holds the registry's lock, so it sees one state of the members.
SortProviders(r) ==
  /\ step[r] = "sort"
  /\ LET distance(o) == Distance(members, node[r], objects[o].node)
     IN  list' = [list EXCEPT ![r] = SortByScore([o \in ToSet(@) |->
                                       Score(distance(o), Preference(r))], @)]
  /\ IF list'[r] # <<>> THEN Goto(r, "evaluate") /\ UNCHANGED <<answer, emitted>>
                        ELSE Deny(r, "NO_PROVIDER_AVAILABLE")
  /\ UNCHANGED <<ask, node, grant, rejected>>

\* One round of the loop over the candidates: the reason of a refusal is dropped.
Evaluate(r) ==
  /\ step[r] = "evaluate" /\ list[r] # <<>>
  /\ \E v \in Verdicts(ask[r].client, ask[r].cap, objects[Head(list[r])].tier, ask[r].limited) :
       IF v = "allow"
       THEN Goto(r, "grant") /\ UNCHANGED <<list, rejected>>
       ELSE /\ list' = [list EXCEPT ![r] = Tail(@)]
            /\ rejected' = [rejected EXCEPT ![r] = @ \cup {Head(list[r])}]
            /\ UNCHANGED step
  /\ UNCHANGED <<ask, node, grant, answer, emitted>>

NoneAccepted(r) ==
  /\ step[r] = "evaluate" /\ list[r] = <<>>
  /\ Deny(r, "POLICY_DENIED")
  /\ UNCHANGED <<ask, node, list, grant, rejected>>

\* The grant carries the provider's identity as the object reads by now.
IssueGrant(r) ==
  /\ step[r] = "grant"
  /\ grant' = [grant EXCEPT ![r] = [provider |-> Head(list[r]),
                                    identity |-> objects[Head(list[r])].identity]]
  /\ emitted' = [emitted EXCEPT ![r] = Append(@, "granted")]
  /\ answer' = [answer EXCEPT ![r] = "allow"]
  /\ Goto(r, "done")
  /\ UNCHANGED <<ask, node, list, rejected>>

RequestStep(r) ==
  \/ Cancelled(r) \/ GetCapability(r) \/ GetClient(r) \/ GetProviders(r) \/ SortProviders(r)
  \/ Evaluate(r) \/ NoneAccepted(r) \/ IssueGrant(r)

-----------------------------------------------------------------------------
(* History.                                                                *)

Working(r) == step[r] \notin {"idle", "done"}

\* The providers listed for the request now, if its client is where it was.
ListedFor(r) ==
  IF ask[r].cap \in cache /\ services[ask[r].client] # NoService
     /\ services[ask[r].client].node = home[r]
  THEN ToSet(providers[ask[r].cap]) ELSE {}

NoteSubmit(r) ==
  /\ home' = [home EXCEPT ![r] = services[ask'[r].client].node]
  /\ steady' = [steady EXCEPT ![r] = ListedFor(r)']
  /\ gone' = [gone EXCEPT ![r] = {o \in DOMAIN objects : handler = Waiting /\ ~objects[o].available}]

NoteEvent ==
  /\ UNCHANGED <<home, gone>>
  /\ steady' = [r \in Requests |-> IF Working(r) THEN steady[r] \cap ListedFor(r)' ELSE steady[r]]

Events == EventHandled \/ HandlerStep

BindingNext ==
  \/ \E r \in Requests, client \in Clients, c \in Caps, con \in Constraints :
       /\ UNCHANGED <<registryVars, evaluatorVars>>
       /\ Submit(r, client, c, con) /\ NoteSubmit(r)
  \/ \E r \in Requests : RequestStep(r) /\ UNCHANGED <<registryVars, evaluatorVars, historyVars>>
  \/ Events /\ UNCHANGED <<evaluatorVars, requestVars>> /\ NoteEvent
  \/ PolicyEvent /\ UNCHANGED requestVars /\ NoteEvent
  \/ OutOfEvents /\ UNCHANGED <<evaluatorVars, requestVars, historyVars>>

BindingSpec == BindingInit /\ [][BindingNext]_vars

-----------------------------------------------------------------------------
(* Properties.                                                             *)

Refs == 1..Len(objects)

BindingTypeOK ==
  /\ TypeOK
  /\ policy \in Policies \cup {DefaultPolicy} /\ consents \subseteq Services \X Caps
  /\ step \in [Requests -> {"idle", "capability", "client", "providers", "sort", "evaluate",
                            "grant", "done"}]
  /\ ask \in [Requests -> {NoRequest} \cup [client : Clients, cap : Caps, limited : BOOLEAN,
                                            locality : Preferences \cup {""}]]
  /\ node \in [Requests -> Nodes \cup {"none"}]
  /\ list \in [Requests -> Seq(Refs)]
  /\ grant \in [Requests -> {NoGrant} \cup [provider : Refs, identity : Ids]]
  /\ answer \in [Requests -> {"", "allow", "CAPABILITY_UNKNOWN", "NO_PROVIDER_AVAILABLE",
                              "POLICY_DENIED", "INTERNAL_ERROR"}]
  /\ emitted \in [Requests -> Seq({"granted", "denied"})]
  /\ home \in [Requests -> Nodes \cup {"none"}]
  /\ \A h \in {rejected, steady, gone} : h \in [Requests -> SUBSET Refs]

\* A provider that the request may use wherever it is.
UsableAnywhere(r, o) == \/ objects[o].node = home[r]
                        \/ Preference(r) \in {"lan_preferred", "wan_allowed"}

\* No provider is overlooked, whatever events are handled between the steps of
\* the request: one that was listed from its beginning to its end, and that its
\* preference never excludes, has been put to the evaluator before the request
\* is answered with "no provider" or "denied".
NoProviderOverlooked ==
  \A r \in Requests :
    answer[r] \in {"NO_PROVIDER_AVAILABLE", "POLICY_DENIED"} =>
      \A o \in steady[r] : UsableAnywhere(r, o) => o \in rejected[r]

\* Locality first: a provider on another node is granted only if every provider
\* that was there on the client's own node all along has been refused.
OwnNodeFirst ==
  \A r \in Requests :
    grant[r] # NoGrant /\ objects[grant[r].provider].node # home[r] =>
      \A o \in steady[r] : objects[o].node = home[r] => o \in rejected[r]

\* A request is recorded once and as it was answered, unless its context ended;
\* it is granted if and only if a grant has been issued.
RecordedAsAnswered ==
  \A r \in Requests : step[r] = "done" =>
    /\ answer[r] = "allow" <=> grant[r] # NoGrant
    /\ emitted[r] = IF answer[r] = "allow" THEN <<"granted">>
                    ELSE IF answer[r] = "INTERNAL_ERROR" THEN <<>> ELSE <<"denied">>

-----------------------------------------------------------------------------
(* What comments say of the code, and the code does not do.                *)

\* handleIdentityServiceRevoked: "the service can no longer be used as a
\* provider" (ua_event_consumer.go:898): no request that comes in after the
\* revocation was handled is granted a provider it made unavailable.
RevokedNotUsed == \A r \in Requests : grant[r].provider \notin gone[r]
=============================================================================
