\* Two updates: a policy whose rules disagree.
SPECIFICATION RulesSpec
CONSTANTS
  Nodes = {"n1"}
  Sites = {}
  Services = {"client"}
  Caps = {"low", "medium", "high"}
  Endpoints = {}
  Tiers = {"local", "experimental", "community", "certified", "official"}
  Identities = {}
  MaxEvents = 2
  EvalCaps <- Risks
  Policies <- EveryPolicy
  MaxProviders = 4
  Callers = {"e1", "e2"}
  Keys = {"client:cap"}
  Rates = {0, 1, 5, 9}
  RateUnit = 2
  TickRate = 2
  MaxRPSPerClient = 4
  MaxCalls = 4
  MaxTicks = 4
INVARIANT PriorityDecides
CHECK_DEADLOCK FALSE
