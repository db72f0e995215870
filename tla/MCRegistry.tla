----------------------------- MODULE MCRegistry -----------------------------
(* An instance of Registry for TLC. *)
EXTENDS Registry

RegistrySymmetry == Permutations(Nodes) \cup Permutations(Services) \cup Permutations(Caps) \cup Permutations(Endpoints)
=============================================================================
