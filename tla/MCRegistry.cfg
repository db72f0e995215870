\* Four events from an empty registry: start, revoke, issue, restart.
SPECIFICATION Spec
CONSTANTS
  Nodes = {n1}
  Sites = {}
  Services = {s1, s2}
  Caps = {c1, c2}
  Endpoints = {e1, e2}
  Tiers = {"certified"}
  Identities = {"id1"}
  MaxEvents = 4
INVARIANTS TypeOK ListedOnce  IdentitiesAgree
SYMMETRY RegistrySymmetry
