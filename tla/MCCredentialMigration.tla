------------------------ MODULE MCCredentialMigration ------------------------
(* Model-checking instance of CredentialMigration: two providers with      *)
(* derived references of their own.                                        *)
EXTENDS CredentialMigration, TLC

CONSTANTS p, q, pRef, qRef

TwoRefs == p :> pRef @@ q :> qRef
=============================================================================
