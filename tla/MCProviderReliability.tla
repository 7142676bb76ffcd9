------------------------ MODULE MCProviderReliability ------------------------
(* Model-checking instance of ProviderReliability.                         *)
EXTENDS ProviderReliability, TLC

Symmetry == Permutations(Providers) \cup Permutations(Calls)
=============================================================================
