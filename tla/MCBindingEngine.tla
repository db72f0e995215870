--------------------------- MODULE MCBindingEngine ---------------------------
(* Instances of BindingEngine for TLC. *)
EXTENDS BindingEngine

\* What the handlers of two joins, three starts and a cache snapshot leave: a
\* client and a certified provider on n1 and another on n2.
Populated ==
  /\ members = [n \in Nodes |-> "nosite"] /\ cache = Caps
  /\ services = [s \in Services |->
       LET offers == IF s = "client" THEN {} ELSE Caps
       IN  [node |-> IF s = "far" THEN "n2" ELSE "n1", offers |-> offers, listed |-> offers,
            identity |-> "id1", revoked |-> FALSE]]
  /\ objects = << [service |-> "far", node |-> "n2", tier |-> "certified", identity |-> "id1", available |-> TRUE],
                  [service |-> "near", node |-> "n1", tier |-> "certified", identity |-> "id1", available |-> TRUE] >>
  /\ providers = [c \in Caps |-> <<1, 2>>]
  /\ handler = Waiting /\ events = 0

PopulatedInit == Populated /\ EvaluatorInit /\ EngineInit
PopulatedSpec == PopulatedInit /\ [][BindingNext]_vars

High == [c \in Caps |-> "high"]
Low  == [c \in Caps |-> "low"]
Rule(n, d) == [priority |-> n, decision |-> d]
MCPolicies == {[rules |-> {Rule(1, "allow")}, minTier |-> ""],
               [rules |-> {Rule(1, "allow"), Rule(2, "deny")}, minTier |-> "official"]}
MCConstraints == {[locality |-> l, limited |-> FALSE] : l \in {"node_only", "lan_only"}}
                   \cup {[locality |-> "", limited |-> TRUE]}
=============================================================================
