\* Lists of four; two updates reach every policy with one consent and without;
\* four rate-limited requests of one client, at rates below one a second and
\* between the whole ones.
SPECIFICATION RulesSpec
CONSTANTS
  Nodes = {"n1"}
  Sites = {}
  Services = {"client"}
  Caps = {"low", "medium", "high"}
  Endpoints = {}
  Tiers = {"local", "experimental", "community", "certified", "official"}
  Identities = {}
  MaxEvents = 2
  EvalCaps <- Risks
  Policies <- EveryPolicy
  MaxProviders = 4
  Callers = {"e1", "e2"}
  Keys = {"client:cap"}
  Rates = {0, 1, 5, 9}
  RateUnit = 2
  TickRate = 2
  MaxRPSPerClient = 4
  MaxCalls = 4
  MaxTicks = 4
INVARIANTS SortKeepsEligible NearestFirst AllowIsJustified HigherTierNoWorse
  RateIsBounded RefusedOnlyWhenSpent
CHECK_DEADLOCK FALSE
