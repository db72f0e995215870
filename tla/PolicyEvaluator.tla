-------------------------- MODULE PolicyEvaluator --------------------------
(***************************************************************************)
(* The policy evaluator (internal/policy_evaluator/evaluator.go) and the   *)
(* two handlers of the event consumer that update it.  EvaluateBinding     *)
(* runs under the evaluator's read lock and the updates under its write    *)
(* lock, so a verdict is a function of one policy and one consent state.   *)
(*                                                                         *)
(* Left out: the conditions of rules, which evaluatePolicy does not read.  *)
(* It does not read their priorities either: they are here for what its    *)
(* comment says of them.  The token bucket is module RateLimiter: here a   *)
(* limited request may pass or not.                                        *)
(***************************************************************************)
EXTENDS Registry

CONSTANTS EvalCaps,  \* the capCache given to NewEvaluator: the risk class of each ID in it
          Policies   \* the policies the UA may distribute

\* checkTrustTier's table.
Rank == [local |-> 0, experimental |-> 1, community |-> 2, certified |-> 3, official |-> 4]

\* A rule's decision is any string; these two decide.
Decisions == {"allow", "deny"}

ASSUME EvaluatorConstantsOK ==
  /\ Tiers \subseteq DOMAIN Rank
  /\ DOMAIN EvalCaps \subseteq Caps /\ \A c \in DOMAIN EvalCaps : EvalCaps[c] \in STRING
  /\ \A p \in Policies : /\ p.rules \subseteq [priority : Int, decision : STRING]
                         /\ p.minTier \in STRING

VARIABLES policy,   \* Evaluator.policy: its rules and MinTrustTier
          consents  \* Evaluator.consentStates: the pairs that read true

evaluatorVars == <<policy, consents>>

DefaultPolicy == [rules |-> {}, minTier |-> "certified"]

EvaluatorInit == policy = DefaultPolicy /\ consents = {}

MeshPolicyUpdated(p) ==
  /\ Handle(Waiting)
  /\ policy' = p
  /\ UNCHANGED <<dirVars, consents>>

ConsentStateUpdated(s, c, consented) ==
  /\ Handle(Waiting)
  /\ consents' = IF consented THEN consents \cup {<<s, c>>} ELSE consents \ {<<s, c>>}
  /\ UNCHANGED <<dirVars, policy>>

PolicyEvent == \/ \E p \in Policies : MeshPolicyUpdated(p)
               \/ \E s \in Services, c \in Caps, b \in BOOLEAN : ConsentStateUpdated(s, c, b)

-----------------------------------------------------------------------------
\* Mutant of TierAtLeast: no tier but the required one.
TierEqual(tier, min) == tier \in DOMAIN Rank /\ tier = min

TierAtLeast(tier, min) == {tier, min} \subseteq DOMAIN Rank /\ Rank[tier] >= Rank[min]

MinTier == IF policy.minTier = "" THEN "certified" ELSE policy.minTier

\* The rules that evaluatePolicy does not pass over.
Deciding == {r \in policy.rules : r.decision \in Decisions}

Decided(r) == IF r.decision = "allow" THEN "allow" ELSE "POLICY_DENIED"

\* evaluatePolicy returns the decision of the first rule that has one; Go's map
\* has no first rule, so it may be any one's.  Without one the risk class decides.
RuleVerdicts(risk, tier) ==
  IF Deciding # {} THEN {Decided(r) : r \in Deciding}
  ELSE IF risk = "low" \/ (risk = "medium" /\ TierAtLeast(tier, "certified")) THEN {"allow"}
  ELSE IF risk = "medium" THEN {"TRUST_TIER_INSUFFICIENT"}
  ELSE {"POLICY_DENIED"}

\* Mutant of AfterRules: consent is not asked for.
AfterRulesNoConsent(client, c, limited) ==
  IF limited THEN {"allow", "RATE_LIMITED"} ELSE {"allow"}

\* What follows evaluatePolicy: consent, then the rate limit.
AfterRules(client, c, limited) ==
  IF EvalCaps[c] = "high" /\ <<client, c>> \notin consents THEN {"CONSENT_REQUIRED"}
  ELSE IF limited THEN {"allow", "RATE_LIMITED"}
  ELSE {"allow"}

\* EvaluateBinding: "allow" or the reason it may return.
Verdicts(client, c, tier, limited) ==
  IF c \notin DOMAIN EvalCaps THEN {"CAPABILITY_UNKNOWN"}
  ELSE IF ~TierAtLeast(tier, MinTier) THEN {"TRUST_TIER_INSUFFICIENT"}
  ELSE IF EvalCaps[c] = "high" /\ ~TierAtLeast(tier, "certified") THEN {"PROVENANCE_MISMATCH"}
  ELSE UNION {IF v = "allow" THEN AfterRules(client, c, limited) ELSE {v} :
              v \in RuleVerdicts(EvalCaps[c], tier)}

-----------------------------------------------------------------------------
(* Properties.                                                             *)

RulesAgree == \A r, q \in Deciding : r.decision = q.decision

\* What EvaluateBinding allows satisfies the RFC's defaults (11.2) under any
\* sequence of policy and consent updates: no provider below the policy's
\* tier; high risk only by a rule, with the client's consent and a certified
\* provider; without rules, medium risk only for a certified one; and rules that
\* agree allow it.  What rules that disagree decide is PriorityDecides.
AllowIsJustified ==
  \A s \in Services, c \in Caps, tier \in Tiers, limited \in BOOLEAN :
    "allow" \in Verdicts(s, c, tier, limited) =>
      /\ c \in DOMAIN EvalCaps
      /\ TierAtLeast(tier, MinTier)
      /\ EvalCaps[c] = "high" => /\ Deciding # {} /\ <<s, c>> \in consents
                                 /\ tier \in {"certified", "official"}
      /\ Deciding = {} => \/ EvalCaps[c] = "low"
                          \/ EvalCaps[c] = "medium" /\ tier \in {"certified", "official"}
      /\ RulesAgree => \A r \in Deciding : r.decision = "allow"

\* Where a provider of one tier may be allowed, a provider of a higher tier
\* meets the same verdicts: nothing refuses it for its tier.  A rule that
\* disagrees with another, or the rate limit, may refuse either of the two.
HigherTierNoWorse ==
  \A s \in Services, c \in Caps, limited \in BOOLEAN, low, high \in Tiers :
    Rank[low] <= Rank[high] /\ "allow" \in Verdicts(s, c, low, limited)
      => Verdicts(s, c, high, limited) = Verdicts(s, c, low, limited)

\* What evaluatePolicy's comment says of it, and it does not do: "Check matching
\* rules in policy (highest priority first)" (evaluator.go:162).  An allow, or a
\* refusal by policy where there are rules, is that of a rule none outranks.
PriorityDecides ==
  \A s \in Services, c \in Caps, tier \in Tiers, limited \in BOOLEAN :
    \A v \in Verdicts(s, c, tier, limited) \cap {"allow", "POLICY_DENIED"} :
      Deciding # {} => \E r \in Deciding : /\ Decided(r) = v
                                           /\ \A q \in Deciding : q.priority <= r.priority
=============================================================================
