------------------------- MODULE MCAdapterAndInstaller -------------------------
(* One instance that answers two questions: the adapter and the installer   *)
(* share no state, so a behaviour is about one of them, and the other stays *)
(* at one initial state.                                                    *)
EXTENDS MCAdapterCall, MCInstaller

VARIABLE component

NoCallYet == \A c \in Calls : request[c].pinned = "provider"

NotRunYet == running = Version(1, <<>>) /\ others = {}

AdapterOrInstallerInit ==
  /\ component \in {"adapter", "installer"}
  /\ CallInit /\ Init
  /\ IF component = "adapter" THEN NotRunYet ELSE NoCallYet

AdapterStep == component = "adapter" /\ CallNext /\ UNCHANGED <<component, vars>>

InstallerStep == component = "installer" /\ Next /\ UNCHANGED <<component, callVars>>

AdapterOrInstaller == AdapterStep \/ InstallerStep

AdapterAndInstaller ==
  /\ AdapterOrInstallerInit
  /\ [][AdapterOrInstaller]_<<component, callVars, vars>>
  /\ CallFairness
=============================================================================
