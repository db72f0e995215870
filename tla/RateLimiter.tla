---------------------------- MODULE RateLimiter ----------------------------
(***************************************************************************)
(* The rate limit of EvaluateBinding (checkRateLimit and rateLimiter in    *)
(* internal/policy_evaluator/evaluator.go).  A request looks its bucket up *)
(* under Evaluator.rateMu and takes a token under the bucket's own lock:   *)
(* between the two, others may put a new bucket in its place.              *)
(*                                                                         *)
(* The code's tokens are fractions.  Here a rate r stands for r/RateUnit   *)
(* requests a second, time passes in ticks of 1/TickRate second, and a     *)
(* token is One = RateUnit * TickRate units, of which a tick brings r.     *)
(***************************************************************************)
EXTENDS Integers, Sequences, FiniteSets

CONSTANTS Callers,       \* evaluations in flight
          Keys,          \* client and capability
          Rates,         \* the rates requests name, in RateUnits a second
          RateUnit, TickRate,
          MaxRPSPerClient,
          MaxCalls,      \* bound: calls of checkRateLimit
          MaxTicks       \* bound on the clock

ASSUME RateConstantsOK ==
  /\ Rates \subseteq Int /\ {RateUnit, TickRate} \subseteq Nat \ {0}
  /\ {MaxRPSPerClient, MaxCalls, MaxTicks} \subseteq Nat
  /\ "none" \notin Keys

VARIABLES
  clock,     \* time.Now(), in ticks
  limiters,  \* every rateLimiter made, in order
  current,   \* Evaluator.rateLimiters: the number of each key's, or 0
  caller,    \* per evaluation: its key and the limiter it holds, 0 if none
  calls,     \* calls of checkRateLimit so far
  asked,     \* history: the rates that were named for each key
  passed,    \* history: the requests let through, each with its key and time
  refused    \* history: the last refusal by a bucket, and how many had passed by then

rateVars == <<clock, limiters, current, caller, calls, asked, passed, refused>>

One == RateUnit * TickRate

Limiter  == [rps : Rates, burst : Nat \ {0}, tokens : Nat, last : 0..MaxTicks]
NotCalling == [key |-> "none", limiter |-> 0]
NoRefusal  == [key |-> "none", at |-> 0, after |-> 0]

RateInit ==
  /\ clock = 0 /\ limiters = <<>> /\ current = [k \in Keys |-> 0] /\ calls = 0
  /\ caller = [c \in Callers |-> NotCalling]
  /\ asked = [k \in Keys |-> {}] /\ passed = <<>> /\ refused = NoRefusal

-----------------------------------------------------------------------------
Least(a, b) == IF a <= b THEN a ELSE b

\* Mutant of Burst: a rate below one a second leaves no room for a token.
BurstRoundedDown(r) == r \div RateUnit

\* int64(requestedRPS), and one at least.
Burst(r) == IF r < RateUnit THEN 1 ELSE r \div RateUnit

newRateLimiter(r) == [rps |-> r, burst |-> Burst(r), tokens |-> Burst(r) * One, last |-> clock]

\* Mutant of Lookup: the rate of the bucket is not compared, but renewed always.
LookupRenews(c, k, r) ==
  /\ limiters' = Append(limiters, newRateLimiter(r))
  /\ current' = [current EXCEPT ![k] = Len(limiters) + 1]
  /\ caller' = [caller EXCEPT ![c] = [key |-> k, limiter |-> Len(limiters) + 1]]
  /\ UNCHANGED <<passed, refused>>

\* checkRateLimit up to the unlock of rateMu, for a rate it limits.
Lookup(c, k, r) ==
  /\ IF current[k] # 0 /\ limiters[current[k]].rps = r
     THEN UNCHANGED <<limiters, current>>
     ELSE /\ limiters' = Append(limiters, newRateLimiter(r))
          /\ current' = [current EXCEPT ![k] = Len(limiters) + 1]
  /\ caller' = [caller EXCEPT ![c] = [key |-> k, limiter |-> current'[k]]]
  /\ UNCHANGED <<passed, refused>>

Passes(k) == passed' = Append(passed, [key |-> k, at |-> clock])

\* checkRateLimit: a rate of 0 or less is not limited, one over the maximum is
\* refused before it reaches a bucket.
CheckRateLimit(c, k, r) ==
  /\ caller[c] = NotCalling /\ calls < MaxCalls
  /\ calls' = calls + 1
  /\ asked' = [asked EXCEPT ![k] = @ \cup {r}]
  /\ IF r <= 0 THEN Passes(k) /\ UNCHANGED <<limiters, current, caller, refused>>
     ELSE IF r > MaxRPSPerClient * RateUnit
          THEN UNCHANGED <<limiters, current, caller, passed, refused>>
     ELSE Lookup(c, k, r)
  /\ UNCHANGED clock

\* Mutant of Refilled: the bucket overflows.
RefilledWithoutLimit(l) == l.tokens + (clock - l.last) * l.rps

Refilled(l) == Least(l.tokens + (clock - l.last) * l.rps, l.burst * One)

\* rateLimiter.Allow
Allow(c) ==
  /\ caller[c].limiter # 0
  /\ LET n      == caller[c].limiter
         k      == caller[c].key
         tokens == Refilled(limiters[n])
         Keep(t) == limiters' = [limiters EXCEPT ![n].tokens = t, ![n].last = clock]
     IN  \/ /\ tokens >= One
            /\ Keep(tokens - One) /\ Passes(k) /\ UNCHANGED refused
         \/ /\ tokens < One
            /\ Keep(tokens) /\ UNCHANGED passed
            /\ refused' = [key |-> k, at |-> clock, after |-> Len(passed)]
  /\ caller' = [caller EXCEPT ![c] = NotCalling]
  /\ UNCHANGED <<clock, current, calls, asked>>

Tick == /\ clock < MaxTicks /\ clock' = clock + 1
        /\ UNCHANGED <<limiters, current, caller, calls, asked, passed, refused>>

RateNext ==
  \/ Tick
  \/ \E c \in Callers : Allow(c) \/ \E k \in Keys, r \in Rates : CheckRateLimit(c, k, r)

-----------------------------------------------------------------------------
RateTypeOK ==
  /\ clock \in 0..MaxTicks /\ calls \in 0..MaxCalls
  /\ limiters \in Seq(Limiter) /\ current \in [Keys -> 0..Len(limiters)]
  /\ caller \in [Callers -> {NotCalling} \cup [key : Keys, limiter : 1..Len(limiters)]]

\* The client has named one rate only, and one that is limited by a bucket.
Steady(k, r) == asked[k] = {r} /\ 0 < r /\ r <= MaxRPSPerClient * RateUnit

PassedFrom(k, i) == {j \in i..Len(passed) : passed[j].key = k}

\* A client that keeps to one rate gets no more than the burst and what the rate
\* allows in any stretch of time, however its evaluations interleave between
\* finding the bucket and taking from it.
RateIsBounded ==
  \A k \in Keys, r \in Rates : Steady(k, r) =>
    \A i \in DOMAIN passed : \A j \in PassedFrom(k, i) :
      Cardinality({m \in PassedFrom(k, i) : m <= j}) * One
        <= Burst(r) * One + (passed[j].at - passed[i].at) * r

\* Nobody is refused who has not used his rate up: when such a client is turned
\* away, then in some stretch of time up to then he has had all but less than one
\* of the requests that burst and rate allow.
RefusedOnlyWhenSpent ==
  \A k \in Keys, r \in Rates : Steady(k, r) /\ refused.key = k =>
    \E i \in 1..refused.after :
      /\ passed[i].key = k
      /\ Cardinality({m \in PassedFrom(k, i) : m <= refused.after}) * One
           > (Burst(r) - 1) * One + (refused.at - passed[i].at) * r
=============================================================================
