------------------------------ MODULE MCInstaller ------------------------------
(* Model-checking instance of Installer: the versions are those of the     *)
(* example of precedence in the semver document, and a later patch.        *)
EXTENDS Installer

CONSTANT o

Number(n) == [numeric |-> TRUE, rank |-> n]
Alpha == [numeric |-> FALSE, rank |-> 1]
Beta == [numeric |-> FALSE, rank |-> 2]
Rc == [numeric |-> FALSE, rank |-> 3]

Version(patch, pre) == [core |-> <<1, 0, patch>>, pre |-> pre]

MCChain == <<
  Version(0, <<Alpha>>), Version(0, <<Alpha, Number(1)>>), Version(0, <<Alpha, Beta>>),
  Version(0, <<Beta>>), Version(0, <<Beta, Number(2)>>), Version(0, <<Beta, Number(11)>>),
  Version(0, <<Rc, Number(1)>>), Version(0, <<>>), Version(1, <<>>)>>
=============================================================================
