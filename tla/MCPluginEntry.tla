----------------------------- MODULE MCPluginEntry -----------------------------
(* Model-checking instance of PluginEntry: two other plugins that use the   *)
(* same owner name, as two instances of one plugin do across a reload.      *)
EXTENDS PluginEntry, TLC

CONSTANTS im, x, y, p, q

MCOwnerOf == im :> "image-mind" @@ x :> "other" @@ y :> "other"
Symmetry == Permutations({x, y})
=============================================================================
