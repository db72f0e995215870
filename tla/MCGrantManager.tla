--------------------------- MODULE MCGrantManager ---------------------------
(* An instance of GrantManager for TLC. *)
EXTENDS GrantManager, TLC

Symmetry == Permutations(GrantIds) \cup Permutations(Readers)
MCTTLs == {-1, 0, 1}
=============================================================================
