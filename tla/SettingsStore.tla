---------------------------- MODULE SettingsStore ----------------------------
(***************************************************************************)
(* The settings card's store in the browser                                *)
(* (packages/image-mind/src/client/settings/store.ts): a view of the host's *)
(* settings document, drafts of its providers, and a save that first       *)
(* stores the typed keys under references no committed provider uses and   *)
(* then commits the document, once, fenced by its revision.                *)
(*                                                                         *)
(* The document is shared with other windows, and the view follows it with *)
(* a delay and across disconnections.  The fields of a provider other than *)
(* its credential reference are one, its endpoint.  The top-level fields,  *)
(* the status lamps of the credentials and the failure shown are left out. *)
(***************************************************************************)
EXTENDS Integers, FiniteSets, Functions

CONSTANTS
  Providers,    \* provider ids
  Endpoints,    \* what the fields of a provider may say
  Keys,         \* keys a user may type
  StagingRefs,  \* the unique references a save may generate
  DerivedRef,   \* DerivedRef[p]: deriveKeyRef(p); ids may share one
  None,         \* undefined
  MaxEdits,     \* bound on the edits of the user
  MaxSaves,     \* bound on the saves begun
  MaxOthers     \* bound on the commits of other windows

NamedRefs == {DerivedRef[p] : p \in Providers}

Refs == NamedRefs \cup StagingRefs

ASSUME RefAssumption ==
  NamedRefs \cap StagingRefs = {} /\ None \notin Refs /\ None \notin Keys

VARIABLES
  doc,        \* doc[p]: the committed record of p, or None
  revision,   \* of the document
  vault,      \* vault[r]: the key stored under r, or None
  view,       \* the store's snapshot of the document
  draft,      \* draft[p]: what the card shows for p, or None
  save,       \* the save under way, or None
  edits, saves, others

host == <<doc, revision, vault, others>>
card == <<view, draft, edits, saves>>
vars == <<doc, revision, vault, view, draft, save, edits, saves, others>>

Record == [endpoint : Endpoints \cup {None}, ref : Refs \cup {None}]

Draft == [endpoint : Endpoints \cup {None}, env : Refs \cup {None},
          key : Keys \cup {None}, staging : StagingRefs \cup {None}]

NoRecords == [p \in Providers |-> None]

TypeOK ==
  /\ doc \in [Providers -> Record \cup {None}]
  /\ vault \in [Refs -> Keys \cup {None}]
  /\ view.doc \in [Providers -> Record \cup {None}]
  /\ view.ready => view.revision \in 0..revision
  /\ ~view.ready => view.doc = NoRecords /\ view.revision = None
  /\ draft \in [Providers -> Draft \cup {None}]
  /\ save # None =>
       /\ save.phase \in {"storing", "sent", "committed"}
       /\ save.phase # "storing" => save.writes = {}

(* The references the committed providers use.                             *)
RefsIn(records) == {records[p].ref : p \in {q \in Providers : records[q] # None}} \ {None}

Snapshot == [ready |-> TRUE, doc |-> doc, revision |-> revision]

Disconnected == [ready |-> FALSE, doc |-> NoRecords, revision |-> None]

(* The card is opened on any document with its keys in place.              *)
Init ==
  /\ doc \in {d \in [Providers -> [endpoint : Endpoints, ref : NamedRefs \cup {None}] \cup {None}] :
                \A p \in Providers : d[p] = None \/ d[p].ref \in {None, DerivedRef[p]}}
  /\ revision = 0
  /\ \E k \in Keys : vault = [r \in Refs |-> IF r \in RefsIn(doc) THEN k ELSE None]
  /\ view = Disconnected
  /\ draft = NoRecords
  /\ save = None
  /\ edits = 0 /\ saves = 0 /\ others = 0
-----------------------------------------------------------------------------
(* The view.                                                               *)

DraftOf(record) ==
  [endpoint |-> record.endpoint, env |-> record.ref, key |-> None, staging |-> None]

(* A draft is made for every provider of the document and kept until the   *)
(* provider leaves the document.                                           *)
Rederive(drafts, records) ==
  [p \in Providers |-> IF records[p] = None THEN None
                       ELSE IF drafts[p] = None THEN DraftOf(records[p])
                       ELSE drafts[p]]

Load(snapshot) ==
  /\ view' = snapshot
  /\ draft' = Rederive(draft, snapshot.doc)

(* The mirror of the document changes and load() runs.                     *)
MirrorUpdates ==
  /\ view # Snapshot
  /\ Load(Snapshot)
  /\ UNCHANGED <<host, save, edits, saves>>

MirrorDisconnects ==
  /\ view.ready
  /\ Load(Disconnected)
  /\ UNCHANGED <<host, save, edits, saves>>
-----------------------------------------------------------------------------
(* The user.  Edits are possible whenever the document can be written,     *)
(* also during a save.                                                     *)

Row(p) == draft[p] # None \/ view.doc[p] # None

Shown(p) == IF draft[p] # None THEN draft[p] ELSE DraftOf(view.doc[p])

Edits(p, new) ==
  /\ view.ready /\ edits < MaxEdits
  /\ edits' = edits + 1
  /\ draft' = [draft EXCEPT ![p] = new]
  /\ UNCHANGED <<host, view, save, saves>>

EditProvider(p) ==
  /\ Row(p)
  /\ \/ \E e \in Endpoints : Edits(p, [Shown(p) EXCEPT !.endpoint = e])
     \/ \E r \in NamedRefs \cup {None} : Edits(p, [Shown(p) EXCEPT !.env = r])
     \/ \E k \in Keys : Edits(p, [Shown(p) EXCEPT !.key = k])

(* A catalog entry names its reference, a custom provider has none yet.    *)
AddProvider(p) ==
  /\ ~Row(p)
  /\ \E e \in Endpoints, r \in {None, DerivedRef[p]} :
       Edits(p, DraftOf([endpoint |-> e, ref |-> r]))

DeleteProvider(p) == draft[p] # None /\ Edits(p, None)

(* The providers with a newly typed key.                                   *)
Typed == {p \in Providers : draft[p] # None /\ draft[p].key # None}

Dirty ==
  \/ Typed # {}
  \/ \E p \in Providers :
       IF draft[p] = None THEN view.doc[p] # None
       ELSE IF view.doc[p] = None THEN TRUE
       ELSE \/ draft[p].endpoint # view.doc[p].endpoint
            \/ draft[p].env # view.doc[p].ref

(* The card disables discarding during a save.                             *)
Discard ==
  /\ Dirty /\ save = None
  /\ draft' = Rederive(NoRecords, view.doc)
  /\ UNCHANGED <<host, view, save, edits, saves>>
-----------------------------------------------------------------------------
(* The plan of a save.                                                     *)

(* Mutant: only the provider's own reference is looked at.                 *)
LiveOwn == {view.doc[p].ref : p \in {q \in Typed : view.doc[q] # None}} \ {None}

Live == RefsIn(view.doc)

Base(p) == IF draft[p].env # None THEN draft[p].env ELSE DerivedRef[p]

(* Mutant: a generated reference is not compared with those in use.        *)
FreshAny == StagingRefs

Fresh == {r \in StagingRefs : vault[r] = None /\ \A p \in Providers :
                                draft[p] # None => draft[p].staging # r}

(* Where the typed keys may go, whatever the order of the drafts: under    *)
(* the reference of the draft if nobody uses it, else under the draft's    *)
(* staging reference or a new one.  The save is refused if there is none.  *)
Destinations ==
  {dest \in [Typed -> Refs] :
     \A p \in Typed :
       LET used == {dest[q] : q \in Typed \ {p}}
       IN  /\ dest[p] \notin used
           /\ IF Base(p) \notin Live \cup used THEN dest[p] = Base(p)
              ELSE IF draft[p].staging \notin Live \cup used \cup {None}
              THEN dest[p] = draft[p].staging
              ELSE dest[p] \in Fresh}

Target(p, dest) ==
  [endpoint |-> draft[p].endpoint, ref |-> IF p \in Typed THEN dest[p] ELSE draft[p].env]

(* The fields an operation sets, or the removal of the whole record.       *)
Operation(p, dest) ==
  LET old == view.doc[p]
  IN  IF draft[p] = None
      THEN [unset |-> old # None, set |-> << >>]
      ELSE LET new == Target(p, dest)
           IN  [unset |-> FALSE,
                set |-> Restrict(new, {f \in DOMAIN new : old = None \/ new[f] # old[f]})]

NoOperation == [unset |-> FALSE, set |-> << >>]

Apply(op, record) ==
  IF op.unset THEN None
  ELSE IF DOMAIN op.set = {} THEN record
  ELSE [f \in {"endpoint", "ref"} |->
          IF f \in DOMAIN op.set THEN op.set[f]
          ELSE IF record = None THEN None ELSE record[f]]
-----------------------------------------------------------------------------
(* The save.                                                               *)

SaveStarts ==
  /\ save = None /\ Dirty /\ view.ready
  /\ saves < MaxSaves /\ saves' = saves + 1
  /\ \E dest \in Destinations :
       LET ops == [p \in Providers |-> Operation(p, dest)]
       IN  /\ \E p \in Providers : ops[p] # NoOperation
           /\ save' = [phase  |-> "storing",
                       ops    |-> ops,
                       writes |-> {<<dest[p], draft[p].key>> : p \in Typed},
                       typed  |-> [p \in Typed |-> draft[p].key],
                       base   |-> view.revision,
                       fence  |-> None]
           /\ draft' = [p \in Providers |->
                          IF p \in Typed /\ dest[p] # Base(p)
                          THEN [draft[p] EXCEPT !.staging = dest[p]] ELSE draft[p]]
  /\ UNCHANGED <<host, view, edits>>

(* Mutant: the document is committed before the keys are stored.           *)
StoreKeyLater ==
  /\ save # None /\ save.phase = "storing" /\ save.writes # {}
  /\ save' = [save EXCEPT !.writes = {}]
  /\ UNCHANGED <<card, host>>

(* The keys are stored one at a time.                                      *)
StoreKey ==
  /\ save # None /\ save.phase = "storing"
  /\ \E w \in save.writes :
       /\ vault' = [vault EXCEPT ![w[1]] = w[2]]
       /\ save' = [save EXCEPT !.writes = @ \ {w}]
  /\ UNCHANGED <<card, doc, revision, others>>

(* A key is refused, or stored without the answer getting back.            *)
StoreKeyFails ==
  /\ save # None /\ save.phase = "storing"
  /\ \E w \in save.writes : vault' \in {vault, [vault EXCEPT ![w[1]] = w[2]]}
  /\ save' = None
  /\ UNCHANGED <<card, doc, revision, others>>

(* The request carries the revision of the view as it is now.              *)
SendCommit ==
  /\ save # None /\ save.phase = "storing" /\ save.writes = {}
  /\ save' = [save EXCEPT !.phase = "sent", !.fence = view.revision]
  /\ UNCHANGED <<card, host>>

HostCommits ==
  /\ save # None /\ save.phase = "sent"
  /\ save.fence \in {revision, None}
  /\ doc' = [p \in Providers |-> Apply(save.ops[p], doc[p])]
  /\ revision' = revision + 1
  /\ save' = [save EXCEPT !.phase = "committed"]
  /\ UNCHANGED <<card, vault, others>>

(* The commit conflicts or is refused, or its answer is lost: the drafts   *)
(* stay.                                                                   *)
SaveFails ==
  /\ save # None /\ save.phase \in {"sent", "committed"}
  /\ save' = None
  /\ UNCHANGED <<card, host>>

(* The answer brings the new document; every draft is dropped.             *)
Saved ==
  /\ save # None /\ save.phase = "committed"
  /\ save' = None
  /\ view' = Snapshot
  /\ draft' = Rederive(NoRecords, doc)
  /\ UNCHANGED <<host, edits, saves>>

(* Another window removes a provider, changes its endpoint, or adds one    *)
(* with its key, under a reference that is not in use.                     *)
OtherWindowCommits(p) ==
  /\ others < MaxOthers
  /\ others' = others + 1
  /\ revision' = revision + 1
  /\ \/ /\ doc[p] # None
        /\ \E new \in {None} \cup {[doc[p] EXCEPT !.endpoint = e] : e \in Endpoints} :
             new # doc[p] /\ doc' = [doc EXCEPT ![p] = new]
        /\ UNCHANGED vault
     \/ /\ doc[p] = None /\ DerivedRef[p] \notin RefsIn(doc)
        /\ \E e \in Endpoints, k \in Keys :
             /\ doc' = [doc EXCEPT ![p] = [endpoint |-> e, ref |-> DerivedRef[p]]]
             /\ vault' = [vault EXCEPT ![DerivedRef[p]] = k]
  /\ UNCHANGED <<card, save>>

Next ==
  \/ MirrorUpdates \/ MirrorDisconnects
  \/ \E p \in Providers : EditProvider(p) \/ AddProvider(p) \/ DeleteProvider(p)
  \/ Discard
  \/ SaveStarts \/ StoreKey \/ StoreKeyFails \/ SendCommit
  \/ HostCommits \/ SaveFails \/ Saved
  \/ \E p \in Providers : OtherWindowCommits(p)

Spec == Init /\ [][Next]_vars
-----------------------------------------------------------------------------
(* No two committed providers share a generated reference, however often   *)
(* saves fail and are tried again.                                         *)
NoSharedStaging ==
  \A p, q \in Providers :
    p # q /\ doc[p] # None /\ doc[q] # None /\ doc[p].ref = doc[q].ref
      => doc[p].ref \notin StagingRefs

(* The save never writes a key under a reference a committed provider      *)
(* uses, as long as no other window has committed since it was planned: a  *)
(* save that fails leaves every committed endpoint with its own key.       *)
LiveKeysKept ==
  [][save # None /\ save.phase = "storing" /\ save.base = revision =>
       \A r \in RefsIn(doc) : vault'[r] = vault[r] \/ doc' # doc]_vars

(* The document is committed, and not by another window.                   *)
SaveCommits == revision' > revision /\ others' = others

(* A commit is made only after all its keys are stored: unless another     *)
(* window committed since it was planned, every provider with a typed key  *)
(* resolves to that key from the commit on.                                *)
CommittedKeysStored ==
  [][SaveCommits /\ save.base = revision =>
       \A p \in DOMAIN save.typed : vault[doc'[p].ref] = save.typed[p]]_vars
=============================================================================
