------------------------- MODULE CredentialMigration -------------------------
(***************************************************************************)
(* Moving inline API keys out of the settings document                     *)
(* (packages/image-mind/src/credentials/migrate.ts).  When the plugin is   *)
(* applied, every provider's inline key is stored in the vault, one at a   *)
(* time, and the stored ones are then unset in the document at once.  What *)
(* a provider's key is for a call is decided elsewhere (config.ts,         *)
(* resolveProvider; credentials/resolve.ts), by the document as it is then.*)
(*                                                                         *)
(* Stores and the unset may fail, and the process may stop and start again *)
(* at any moment.  A blank reference (a keyless endpoint) and what the     *)
(* settings card saves meanwhile are left out.                             *)
(***************************************************************************)
EXTENDS Naturals

CONSTANTS
  Providers,    \* provider ids
  Keys,         \* API keys
  Refs,         \* credential references
  DerivedRef,   \* DerivedRef[p]: deriveKeyRef(p)
  DefaultRef,   \* DEFAULT_API_KEY_ENV
  None,         \* undefined
  MaxRestarts   \* bound on the restarts

VARIABLES
  doc,        \* doc[p]: the inline key (apiKey) and reference (apiKeyEnv) of p
  vault,      \* vault[r]: the key stored under r, or None
  phase,      \* of the migration: "off", "storing" or "done"
  todo,       \* the keys it has still to store
  stored,     \* the providers whose inline key it stored
  restarts

vars == <<doc, vault, phase, todo, stored, restarts>>

Record == [apiKey : Keys \cup {None}, apiKeyEnv : Refs \cup {None}]

LegacyKey == [provider : Providers, ref : Refs, value : Keys]

(* The type of every variable.                                             *)
TypeOK ==
  /\ doc \in [Providers -> Record]
  /\ vault \in [Refs -> Keys \cup {None}]
  /\ phase \in {"off", "storing", "done"}
  /\ todo \subseteq LegacyKey
  /\ stored \subseteq Providers
  /\ restarts \in 0..MaxRestarts

(* Documents from before the vault: inline keys, some with a reference of  *)
(* their own.                                                              *)
Init ==
  /\ doc \in [Providers -> {r \in Record : r.apiKey # None}]
  /\ vault = [r \in Refs |-> None]
  /\ phase = "off" /\ todo = {} /\ stored = {}
  /\ restarts = 0
-----------------------------------------------------------------------------
Target(p) == IF doc[p].apiKeyEnv # None THEN doc[p].apiKeyEnv ELSE DerivedRef[p]

CollectLegacyInlineKeys ==
  {[provider |-> p, ref |-> Target(p), value |-> doc[p].apiKey] :
     p \in {q \in Providers : doc[q].apiKey # None}}

(* Without a credential store, or without inline keys, nothing is done.    *)
Migrate ==
  /\ phase = "off"
  /\ \/ phase' = "storing" /\ todo' = CollectLegacyInlineKeys /\ todo' # {}
     \/ phase' = "done" /\ UNCHANGED todo
  /\ stored' = {}
  /\ UNCHANGED <<doc, vault, restarts>>

StoreKey(key) ==
  /\ phase = "storing"
  /\ todo' = todo \ {key}
  /\ vault' = [vault EXCEPT ![key.ref] = key.value]
  /\ stored' = stored \cup {key.provider}
  /\ UNCHANGED <<doc, phase, restarts>>

(* The store rejects the key: it is left inline.                           *)
StoreKeyFails(key) ==
  /\ phase = "storing"
  /\ todo' = todo \ {key}
  /\ UNCHANGED <<doc, vault, phase, stored, restarts>>

(* One change of the document, not fenced by its revision, unsets the      *)
(* inline keys that were stored.                                           *)
UnsetInlineKeys ==
  /\ phase = "storing" /\ todo = {}
  /\ doc' = [p \in Providers |->
               IF p \in stored THEN [doc[p] EXCEPT !.apiKey = None] ELSE doc[p]]
  /\ phase' = "done"
  /\ UNCHANGED <<vault, todo, stored, restarts>>

UnsetFails ==
  /\ phase = "storing" /\ todo = {}
  /\ phase' = "done"
  /\ UNCHANGED <<doc, vault, todo, stored, restarts>>

Restart ==
  /\ restarts < MaxRestarts
  /\ restarts' = restarts + 1
  /\ phase' = "off" /\ todo' = {} /\ stored' = {}
  /\ UNCHANGED <<doc, vault>>

Next ==
  \/ Migrate
  \/ \E key \in todo : StoreKey(key) \/ StoreKeyFails(key)
  \/ UnsetInlineKeys \/ UnsetFails
  \/ Restart

Spec == Init /\ [][Next]_vars
-----------------------------------------------------------------------------
(* The key of a call: the inline key, else what the vault has under the    *)
(* reference of the document, which is VISION_API_KEY if there is none.    *)
ResolvedKey(p) ==
  IF doc[p].apiKey # None THEN doc[p].apiKey
  ELSE vault[IF doc[p].apiKeyEnv # None THEN doc[p].apiKeyEnv ELSE DefaultRef]

(* A provider that had a key has one: moving keys, failures and restarts   *)
(* included, never leaves a call without (migrate.ts: "a failed migration  *)
(* never silently drops the user's configuration").                        *)
KeysResolve == \A p \in Providers : ResolvedKey(p) # None
=============================================================================
