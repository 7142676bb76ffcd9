------------------------------- MODULE Omission -------------------------------
(***************************************************************************)
(* Leaving elements out of a sequence.  The code filters arrays and the    *)
(* entries of maps in insertion order throughout; this is the filter, as a *)
(* recursive function, which proofs can unfold.                            *)
(***************************************************************************)
EXTENDS Naturals, Sequences

(* What is left of the first n elements of s, for every n.                 *)
KeptUpTo(s, drop) ==
  LET kept[n \in Nat] ==
        IF n = 0 THEN <<>>
        ELSE IF s[n] \in drop THEN kept[n - 1]
        ELSE Append(kept[n - 1], s[n])
  IN  kept

(* s without the elements of drop.  (There is one sequence to choose; TLC  *)
(* evaluates s and drop once for it, and not in every step of the above.)  *)
Omit(s, drop) ==
  CHOOSE kept \in {KeptUpTo(t, out)[Len(t)] : t \in {s}, out \in {drop}} : TRUE
=============================================================================
