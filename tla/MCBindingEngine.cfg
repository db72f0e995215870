\* One request against a populated registry while two events are handled.
SPECIFICATION PopulatedSpec
CONSTANTS
  Nodes = {"n1", "n2"}
  Sites = {}
  Services = {"client", "near", "far"}
  Caps = {"cap"}
  Endpoints = {"e1"}
  Tiers = {"certified"}
  Identities = {"id1"}
  MaxEvents = 2
  EvalCaps <- Low
  Policies <- MCPolicies
  Requests = {"r1"}
  Clients = {"client"}
  Constraints <- MCConstraints
INVARIANTS NoProviderOverlooked OwnNodeFirst RecordedAsAnswered
