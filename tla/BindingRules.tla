---------------------------- MODULE BindingRules ----------------------------
(***************************************************************************)
(* The decisions RequestBinding rests on, over every input: the order in   *)
(* which SortProvidersByLocality puts the candidates, for every list of up *)
(* to MaxProviders distances under every preference; the verdict of the    *)
(* evaluator after every sequence of policy and consent updates; and the   *)
(* rate limit, for every schedule of evaluations.  The three share no      *)
(* state, so a behaviour explores one of them.                             *)
(***************************************************************************)
EXTENDS PolicyEvaluator, RateLimiter

CONSTANT MaxProviders  \* bound: the providers of one capability

ASSUME MaxProvidersOK == MaxProviders \in Nat

VARIABLES decision,    \* which of the three is explored
          candidates,  \* what GetProviders returned: for each provider, its place and distance
          preference   \* the locality preference of the request

orderVars == <<candidates, preference>>
rulesVars == <<registryVars, evaluatorVars, rateVars, orderVars, decision>>

RulesInit ==
  /\ Init /\ EvaluatorInit /\ RateInit
  /\ decision \in {"order", "policy", "rate"}
  /\ candidates = <<>>
  /\ IF decision = "order" THEN preference \in Preferences ELSE preference = "lan_preferred"

\* The registry lists one provider more.
AddCandidate(d) ==
  /\ Len(candidates) < MaxProviders
  /\ candidates' = Append(candidates, [place |-> Len(candidates) + 1, distance |-> d])
  /\ UNCHANGED preference

RulesNext ==
  /\ UNCHANGED decision
  /\ \/ /\ decision = "order" /\ \E d \in Distances : AddCandidate(d)
        /\ UNCHANGED <<registryVars, evaluatorVars, rateVars>>
     \/ /\ decision = "policy" /\ PolicyEvent
        /\ UNCHANGED <<rateVars, orderVars>>
     \/ /\ decision = "rate" /\ RateNext
        /\ UNCHANGED <<registryVars, evaluatorVars, orderVars>>

RulesSpec == RulesInit /\ [][RulesNext]_rulesVars

-----------------------------------------------------------------------------
sorted == SortByScore([c \in ToSet(candidates) |-> Score(c.distance, preference)], candidates)

\* The sorted list names every eligible provider once and no other: the
\* exchange sort loses and repeats none.
SortKeepsEligible ==
  LET eligible == {c \in ToSet(candidates) : Score(c.distance, preference) > 0}
  IN  Len(sorted) = Cardinality(eligible) /\ ToSet(sorted) = eligible

\* No provider is offered after one that is farther away, and what a strict
\* preference excludes is not offered at all: "node_only" offers the client's
\* node only, "lan_only" nothing across the WAN, the others everything.
NearestFirst ==
  /\ \A k, l \in DOMAIN sorted : k < l =>
       /\ sorted[l].distance = "same_node" => sorted[k].distance = "same_node"
       /\ sorted[k].distance = "wan" => sorted[l].distance = "wan"
  /\ \A c \in ToSet(sorted) :
       /\ preference = "node_only" => c.distance = "same_node"
       /\ preference = "lan_only"  => c.distance # "wan"
  /\ preference \in {"lan_preferred", "wan_allowed"} => Len(sorted) = Len(candidates)
=============================================================================
