---------------------------- MODULE AdmissionGate ----------------------------
(***************************************************************************)
(* What the execution gate promises: at most Limit operations are inside,  *)
(* nobody waits while there is room, and the operations that wait enter in *)
(* the order they arrived.  An operation that waits may give up.           *)
(***************************************************************************)
EXTENDS Integers, Sequences, FiniteSets, SequencesExt, Omission

CONSTANTS Ops, Limit

VARIABLES
  inside,  \* the operations that hold a slot
  line     \* the operations that wait, oldest first

Init == inside = {} /\ line = <<>>

Arrive(w) ==
  /\ w \notin inside /\ w \notin ToSet(line)
  /\ IF Cardinality(inside) < Limit
     THEN inside' = inside \cup {w} /\ UNCHANGED line
     ELSE line' = Append(line, w) /\ UNCHANGED inside

GiveUp(w) ==
  /\ w \in ToSet(line)
  /\ line' = Omit(line, {w})
  /\ UNCHANGED inside

(* The slot passes to the oldest waiter, if there is one.                  *)
Leave(w) ==
  /\ w \in inside
  /\ IF line = <<>>
     THEN inside' = inside \ {w} /\ UNCHANGED line
     ELSE /\ inside' = (inside \ {w}) \cup {Head(line)}
          /\ line' = Tail(line)

Next == \E w \in Ops : Arrive(w) \/ GiveUp(w) \/ Leave(w)

Spec == Init /\ [][Next]_<<inside, line>>
=============================================================================
