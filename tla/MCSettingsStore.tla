--------------------------- MODULE MCSettingsStore ---------------------------
(* Model-checking instance of SettingsStore: two providers whose ids derive *)
(* the same credential reference, as "a-b" and "a.b" do.                   *)
EXTENDS SettingsStore, TLC

CONSTANT shared

OneRef == [p \in Providers |-> shared]

Symmetry == Permutations(Providers) \cup Permutations(Keys) \cup Permutations(StagingRefs)
=============================================================================
