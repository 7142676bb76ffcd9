----------------------------- MODULE MCProviderCard -----------------------------
(* Model-checking instance of ProviderCard: two providers, one of them in   *)
(* the catalog, and two endpoints, one of which needs no key.               *)
EXTENDS ProviderCard

CONSTANTS p1, p2, k1, k2, e1, e2

Symmetric == Permutations({k1, k2})
=============================================================================
