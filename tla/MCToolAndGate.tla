----------------------------- MODULE MCToolAndGate -----------------------------
(* One instance that answers two questions: the tool and the gate share no  *)
(* state, so a behaviour is about one of them, and the other stays at one   *)
(* initial state.                                                           *)
EXTENDS MCUnderstandImage, ExecutionGate

VARIABLE component

NoCallYet == ~local /\ \A c \in Calls : args[c] = Asking(<<>>, "use", FALSE, FALSE)

ToolOrGateInit ==
  /\ component \in {"tool", "gate"}
  /\ ToolInit /\ Init
  /\ component = "gate" => NoCallYet

ToolStep == component = "tool" /\ ToolNext /\ UNCHANGED <<component, vars>>

GateStep == component = "gate" /\ Next /\ UNCHANGED <<component, toolVars>>

ToolOrGate == ToolStep \/ GateStep

ToolAndGate ==
  /\ ToolOrGateInit
  /\ [][ToolOrGate]_<<component, toolVars, vars>>
  /\ ToolFairness /\ Fairness
=============================================================================
