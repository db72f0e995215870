--------------------------- MODULE MCBindingRules ---------------------------
(* An instance of BindingRules for TLC: one capability of each risk class, *)
(* and every policy of rules of two priorities.                            *)
EXTENDS BindingRules

Risks == [c \in Caps |-> c]
Rules == [priority : {1, 2}, decision : {"allow", "deny", ""}]
EveryPolicy == [rules : SUBSET Rules, minTier : Tiers \cup {"", "unknown"}]
=============================================================================
