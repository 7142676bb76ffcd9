------------------------- MODULE SettingsStoreProofs -------------------------
(***************************************************************************)
(* Proofs about SettingsStore: for any providers, references and keys, and *)
(* for any number of edits, saves and commits of other windows, a save     *)
(* overwrites no key in use, commits after its keys, and gives no two      *)
(* providers one generated reference.                                      *)
(***************************************************************************)
EXTENDS SettingsStore, TLAPS

Records == Record \cup {None}

Fields == {"endpoint", "ref"}

Operations ==
  {op \in [unset : BOOLEAN, set : UNION {[F -> Endpoints \cup Refs \cup {None}] : F \in SUBSET Fields}] :
     /\ "endpoint" \in DOMAIN op.set => op.set["endpoint"] \in Endpoints \cup {None}
     /\ "ref" \in DOMAIN op.set => op.set["ref"] \in Refs \cup {None}}

Saves == [phase  : {"storing", "sent", "committed"},
          ops    : [Providers -> Operations],
          writes : SUBSET (Refs \X Keys),
          typed  : UNION {[T -> Keys] : T \in SUBSET Providers},
          base   : Nat,
          fence  : Nat \cup {None}]

(* Every record has its fields.                                            *)
Types ==
  /\ doc \in [Providers -> Records]
  /\ view \in [ready : BOOLEAN, doc : [Providers -> Records], revision : Nat \cup {None}]
  /\ draft \in [Providers -> Draft \cup {None}]
  /\ vault \in [Refs -> Keys \cup {None}]
  /\ save \in Saves \cup {None}
  /\ revision \in Nat /\ others \in Nat

(* What the store takes for the document at some revision was the document *)
(* at that revision.                                                       *)
ViewIsTrue ==
  /\ view.ready => /\ view.revision \in Nat /\ view.revision <= revision
                   /\ view.revision = revision => view.doc = doc
  /\ ~view.ready => view.doc = NoRecords /\ view.revision = None

Names(record, r) == record # None /\ record.ref = r

(* The save under way puts p under r.                                      *)
Puts(p, r) ==
  save # None /\ "ref" \in DOMAIN save.ops[p].set /\ save.ops[p].set["ref"] = r

(* r is, or was, or is to be the reference of p.                           *)
Claims(p, r) ==
  \/ Names(doc[p], r) \/ Names(view.doc[p], r)
  \/ draft[p] # None /\ r \in {draft[p].env, draft[p].staging}
  \/ Puts(p, r)

EachItsOwn ==
  \A p, q \in Providers, r \in StagingRefs : Claims(p, r) /\ Claims(q, r) => p = q

(* A generated reference is taken for unused if no key is stored under it, *)
(* so one that is used must have a key.                                    *)
UsedIsStored ==
  \A p \in Providers, r \in StagingRefs :
    /\ \/ Names(doc[p], r) \/ Names(view.doc[p], r)
       \/ draft[p] # None /\ draft[p].env = r
       => vault[r] # None
    /\ Puts(p, r) => vault[r] # None \/ \E k \in Keys : <<r, k>> \in save.writes

Write(p) == <<save.ops[p].set["ref"], save.typed[p]>>

(* The keys of the save under way go each under a reference of its own,    *)
(* which nobody uses unless another window committed; they are stored, or  *)
(* still to be written.                                                    *)
SaveIsSafe ==
  save # None =>
    /\ save.phase # "storing" => save.writes = {}
    /\ save.base <= revision
    /\ \A p \in DOMAIN save.typed :
         /\ ~save.ops[p].unset /\ "ref" \in DOMAIN save.ops[p].set
         /\ save.ops[p].set["ref"] \in Refs
         /\ save.base = revision => Write(p) \in save.writes \/ vault[Write(p)[1]] = save.typed[p]
         /\ save.base = revision /\ save.phase = "storing" =>
              \A q \in Providers : ~Names(doc[q], Write(p)[1])
    /\ \A p, q \in DOMAIN save.typed : Write(p)[1] = Write(q)[1] => p = q
    /\ \A w \in save.writes : \E p \in DOMAIN save.typed : w = Write(p)

IInv == Types /\ ViewIsTrue /\ EachItsOwn /\ UsedIsStored /\ SaveIsSafe
-----------------------------------------------------------------------------
LEMMA InitKeeps == Init => IInv
<1> SUFFICES ASSUME Init PROVE IInv
  OBVIOUS
<1>1. Types
  BY DEF Init, Types, Records, Record, Disconnected, NoRecords, Refs, NamedRefs
<1>2. ViewIsTrue /\ SaveIsSafe
  BY DEF Init, ViewIsTrue, SaveIsSafe, Disconnected
<1>3. \A p \in Providers, r \in StagingRefs : ~Claims(p, r)
  BY RefAssumption DEF Init, Claims, Names, Puts, Disconnected, NoRecords, Refs, NamedRefs
<1>4. EachItsOwn /\ UsedIsStored
  BY <1>3 DEF EachItsOwn, UsedIsStored, Claims
<1> QED BY <1>1, <1>2, <1>4 DEF IInv

(* A draft that is derived anew names what its record names.               *)
LEMMA RederiveOutcome ==
  ASSUME NEW drafts \in [Providers -> Draft \cup {None}],
         NEW records \in [Providers -> Records]
  PROVE  /\ Rederive(drafts, records) \in [Providers -> Draft \cup {None}]
         /\ \A p \in Providers :
              LET new == Rederive(drafts, records)[p] IN
              new # None =>
                \/ drafts[p] # None /\ new = drafts[p]
                \/ records[p] # None /\ new.env = records[p].ref /\ new.staging = None
BY DEF Rederive, DraftOf, Draft, Records, Record

(* The card follows the document or drops its drafts; the save goes on or  *)
(* ends.                                                                   *)
LEMMA ViewKeeps ==
  ASSUME IInv, UNCHANGED host, view' \in {view, Snapshot, Disconnected},
         NEW drafts \in {draft, NoRecords}, draft' = Rederive(drafts, view'.doc),
         save' \in {save, None}
  PROVE  IInv'
<1>1. drafts \in [Providers -> Draft \cup {None}]
  BY DEF IInv, Types, NoRecords
<1>2. view' \in [ready : BOOLEAN, doc : [Providers -> Records], revision : Nat \cup {None}]
  <2>1. Snapshot \in [ready : BOOLEAN, doc : [Providers -> Records], revision : Nat \cup {None}]
    BY DEF IInv, Types, Snapshot
  <2>2. Disconnected \in [ready : BOOLEAN, doc : [Providers -> Records], revision : Nat \cup {None}]
    BY DEF Disconnected, NoRecords, Records
  <2> QED BY <2>1, <2>2 DEF IInv, Types
<1>3. Types'
  BY <1>1, <1>2, RederiveOutcome DEF IInv, Types, host
<1>4. ViewIsTrue'
  BY DEF IInv, Types, ViewIsTrue, Snapshot, Disconnected, host
<1>5. \A p \in Providers, r \in StagingRefs :
        /\ Names(doc'[p], r) => Names(doc[p], r)
        /\ Names(view'.doc[p], r) => Names(doc[p], r) \/ Names(view.doc[p], r)
        /\ draft'[p] # None /\ draft'[p].env = r =>
             \/ Names(doc[p], r) \/ Names(view.doc[p], r)
             \/ draft[p] # None /\ draft[p].env = r
        /\ draft'[p] # None /\ draft'[p].staging = r => draft[p] # None /\ draft[p].staging = r
        /\ Puts(p, r)' => Puts(p, r)
  BY <1>1, <1>2, RederiveOutcome, RefAssumption
     DEF IInv, Types, Names, Puts, Snapshot, Disconnected, NoRecords, host, Refs
<1>6. EachItsOwn'
  <2>1. ASSUME NEW p \in Providers, NEW r \in StagingRefs, Claims(p, r)' PROVE Claims(p, r)
    BY <1>5, <2>1 DEF Claims, Names, Puts
  <2> QED BY <2>1 DEF IInv, EachItsOwn
<1>7. UsedIsStored'
  <2> SUFFICES ASSUME NEW p \in Providers, NEW r \in StagingRefs
               PROVE  /\ \/ Names(doc[p], r)' \/ Names(view.doc[p], r)'
                         \/ draft'[p] # None /\ draft'[p].env = r
                         => vault'[r] # None
                      /\ Puts(p, r)' => vault'[r] # None \/ \E k \in Keys : <<r, k>> \in save'.writes
    BY DEF UsedIsStored
  <2>1. vault' = vault
    BY DEF host
  <2>2. Puts(p, r)' => vault'[r] # None \/ \E k \in Keys : <<r, k>> \in save'.writes
    BY <2>1 DEF IInv, UsedIsStored, Puts
  <2> QED BY <1>5, <2>1, <2>2 DEF IInv, UsedIsStored, Names, Puts
<1>8. SaveIsSafe'
  BY DEF IInv, SaveIsSafe, Names, Write, host
<1> QED BY <1>3, <1>4, <1>6, <1>7, <1>8 DEF IInv

(* An edit leaves a generated reference only where it already was.         *)
LEMMA EditsKeep ==
  ASSUME IInv, NEW p \in Providers, NEW new \in Draft \cup {None}, Edits(p, new),
         new # None =>
           /\ \/ new.env \in NamedRefs \cup {None}
              \/ draft[p] # None /\ new.env = draft[p].env
              \/ view.doc[p] # None /\ new.env = view.doc[p].ref
           /\ \/ new.staging = None
              \/ draft[p] # None /\ new.staging = draft[p].staging
  PROVE  IInv'
<1>1. /\ UNCHANGED <<host, view, save>> /\ draft' = [draft EXCEPT ![p] = new]
  BY DEF Edits
<1>2. Types' /\ ViewIsTrue' /\ SaveIsSafe'
  BY <1>1 DEF IInv, Types, ViewIsTrue, SaveIsSafe, Names, Write, host
<1>3. ASSUME NEW q \in Providers, NEW r \in StagingRefs, draft'[q] # None
      PROVE  /\ draft'[q].env = r => \/ Names(view.doc[q], r)
                                     \/ draft[q] # None /\ draft[q].env = r
             /\ draft'[q].staging = r => draft[q] # None /\ draft[q].staging = r
  BY <1>1, <1>3, RefAssumption DEF IInv, Types, Names, Refs
<1>4. EachItsOwn'
  <2>1. ASSUME NEW q \in Providers, NEW r \in StagingRefs, Claims(q, r)' PROVE Claims(q, r)
    BY <1>1, <1>3, <2>1 DEF Claims, Names, Puts, host
  <2> QED BY <2>1 DEF IInv, EachItsOwn
<1>5. UsedIsStored'
  BY <1>1, <1>3 DEF IInv, UsedIsStored, Names, Puts, host
<1> QED BY <1>2, <1>4, <1>5 DEF IInv

LEMMA UserKeeps ==
  ASSUME IInv, NEW p \in Providers, EditProvider(p) \/ AddProvider(p) \/ DeleteProvider(p)
  PROVE  IInv'
<1>1. NamedRefs \subseteq Refs /\ DerivedRef[p] \in NamedRefs
  BY DEF Refs, NamedRefs
<1>2. CASE EditProvider(p)
  <2>1. /\ Shown(p) \in Draft
        /\ \/ draft[p] # None /\ Shown(p) = draft[p]
           \/ view.doc[p] # None /\ Shown(p).env = view.doc[p].ref /\ Shown(p).staging = None
    BY <1>2 DEF EditProvider, Row, Shown, DraftOf, Draft, IInv, Types, Records, Record
  <2>2. ASSUME NEW e \in Endpoints, Edits(p, [Shown(p) EXCEPT !.endpoint = e]) PROVE IInv'
    <3>1. \E new \in Draft : new.env = Shown(p).env /\ new.staging = Shown(p).staging /\ Edits(p, new)
      BY <1>1, <2>1, <2>2 DEF Draft
    <3> QED BY <2>1, <3>1, EditsKeep
  <2>3. ASSUME NEW r \in NamedRefs \cup {None}, Edits(p, [Shown(p) EXCEPT !.env = r]) PROVE IInv'
    <3>1. \E new \in Draft : new.env = r /\ new.staging = Shown(p).staging /\ Edits(p, new)
      BY <1>1, <2>1, <2>3 DEF Draft
    <3> QED BY <2>1, <3>1, EditsKeep
  <2>4. ASSUME NEW k \in Keys, Edits(p, [Shown(p) EXCEPT !.key = k]) PROVE IInv'
    <3>1. \E new \in Draft : new.env = Shown(p).env /\ new.staging = Shown(p).staging /\ Edits(p, new)
      BY <1>1, <2>1, <2>4 DEF Draft
    <3> QED BY <2>1, <3>1, EditsKeep
  <2> QED BY <1>2, <2>2, <2>3, <2>4 DEF EditProvider
<1>3. CASE AddProvider(p)
  <2> PICK e \in Endpoints, r \in {None, DerivedRef[p]} :
             Edits(p, DraftOf([endpoint |-> e, ref |-> r]))
    BY <1>3 DEF AddProvider
  <2>1. \E new \in Draft : new.env = r /\ new.staging = None /\ Edits(p, new)
    BY <1>1 DEF Draft, DraftOf
  <2> QED BY <1>1, <2>1, EditsKeep
<1>4. CASE DeleteProvider(p)
  BY <1>4, EditsKeep DEF DeleteProvider
<1> QED BY <1>2, <1>3, <1>4

(* A key is stored under a reference nobody uses.                          *)
LEMMA StoreKeeps ==
  ASSUME IInv, save # None, save.phase = "storing", NEW w \in save.writes,
         UNCHANGED <<card, doc, revision, others>>,
         \/ /\ vault' = [vault EXCEPT ![w[1]] = w[2]]
            /\ save' = [save EXCEPT !.writes = @ \ {w}]
         \/ /\ vault' \in {vault, [vault EXCEPT ![w[1]] = w[2]]}
            /\ save' = None
  PROVE  IInv'
<1>1. w[1] \in Refs /\ w[2] \in Keys /\ w = <<w[1], w[2]>>
  BY DEF IInv, Types, Saves
<1>2. Types' /\ ViewIsTrue'
  BY <1>1 DEF IInv, Types, ViewIsTrue, Saves, card
<1>3. \A r \in Refs : vault'[r] = vault[r] \/ (r = w[1] /\ vault'[r] = w[2])
  BY <1>1 DEF IInv, Types
<1>4. EachItsOwn'
  <2>1. ASSUME NEW q \in Providers, NEW r \in StagingRefs, Claims(q, r)' PROVE Claims(q, r)
    BY <2>1 DEF Claims, Names, Puts, card, IInv, Types, Saves
  <2> QED BY <2>1 DEF IInv, EachItsOwn
<1>5. UsedIsStored'
  <2> SUFFICES ASSUME NEW q \in Providers, NEW r \in StagingRefs
               PROVE  /\ \/ Names(doc[q], r)' \/ Names(view.doc[q], r)'
                         \/ draft'[q] # None /\ draft'[q].env = r
                         => vault'[r] # None
                      /\ Puts(q, r)' => vault'[r] # None \/ \E k \in Keys : <<r, k>> \in save'.writes
    BY DEF UsedIsStored
  <2>1. r \in Refs /\ (vault[r] # None => vault'[r] # None)
    BY <1>1, <1>3, RefAssumption DEF Refs
  <2>2. Puts(q, r)' => vault'[r] # None \/ \E k \in Keys : <<r, k>> \in save'.writes
    <3> SUFFICES ASSUME Puts(q, r)' PROVE vault'[r] # None \/ \E k \in Keys : <<r, k>> \in save'.writes
      OBVIOUS
    <3>1. /\ vault' = [vault EXCEPT ![w[1]] = w[2]]
          /\ save' = [save EXCEPT !.writes = @ \ {w}] /\ save \in Saves
      BY DEF Puts, IInv, Types
    <3>2. Puts(q, r)
      BY <3>1 DEF Puts, Saves
    <3>3. CASE vault[r] # None
      BY <3>3, <2>1
    <3>4. CASE vault[r] = None
      <4> PICK k \in Keys : <<r, k>> \in save.writes
        BY <3>2, <3>4 DEF IInv, UsedIsStored
      <4>1. CASE <<r, k>> = w
        BY <4>1, <3>1, <2>1, RefAssumption DEF IInv, Types
      <4>2. CASE <<r, k>> # w
        BY <4>2, <3>1 DEF Saves
      <4> QED BY <4>1, <4>2
    <3> QED BY <3>3, <3>4
  <2> QED BY <2>1, <2>2 DEF IInv, UsedIsStored, Names, card
<1>6. SaveIsSafe'
  <2> SUFFICES ASSUME save' # None PROVE SaveIsSafe'
    BY DEF SaveIsSafe
  <2>1. /\ vault' = [vault EXCEPT ![w[1]] = w[2]]
        /\ save' = [save EXCEPT !.writes = @ \ {w}] /\ save \in Saves
    BY DEF IInv, Types
  <2>2. /\ save'.phase = save.phase /\ save'.ops = save.ops /\ save'.typed = save.typed
        /\ save'.base = save.base /\ save'.writes = save.writes \ {w}
    BY <2>1 DEF Saves
  <2>3. \A p \in DOMAIN save.typed : Write(p)' = Write(p)
    BY <2>2 DEF Write
  <2>4. ASSUME NEW p \in DOMAIN save.typed, save.base = revision
        PROVE  Write(p) \in save'.writes \/ vault'[Write(p)[1]] = save.typed[p]
    <3>1. PICK q \in DOMAIN save.typed : w = Write(q)
      BY DEF IInv, SaveIsSafe
    <3>2. Write(p)[1] \in Refs /\ Write(p)[2] = save.typed[p]
      BY DEF IInv, SaveIsSafe, Write
    <3>3. CASE p = q
      BY <3>1, <3>2, <3>3, <2>1 DEF IInv, Types
    <3>4. CASE p # q
      <4>1. Write(p)[1] # Write(q)[1]
        BY <3>4 DEF IInv, SaveIsSafe
      <4>2. vault'[Write(p)[1]] = vault[Write(p)[1]]
        BY <4>1, <3>1, <3>2, <2>1 DEF IInv, Types
      <4>3. Write(p) \in save.writes \/ vault[Write(p)[1]] = save.typed[p]
        BY <2>4 DEF IInv, SaveIsSafe
      <4> QED BY <4>1, <4>2, <4>3, <3>1, <2>2
    <3> QED BY <3>3, <3>4
  <2>5. SaveIsSafe
    BY DEF IInv
  <2> QED BY <2>2, <2>3, <2>4, <2>5 DEF SaveIsSafe, Names, Write, card
<1> QED BY <1>2, <1>4, <1>5, <1>6 DEF IInv

(* The host commits, or the save ends and its drafts stay.                 *)
LEMMA ApplyOutcome ==
  ASSUME NEW op \in Operations, NEW record \in Records
  PROVE  /\ Apply(op, record) \in Records
         /\ \A r \in StagingRefs : Names(Apply(op, record), r) =>
              \/ "ref" \in DOMAIN op.set /\ op.set["ref"] = r
              \/ Names(record, r)
<1>1. CASE op.unset \/ DOMAIN op.set = {}
  BY <1>1 DEF Apply, Records, Names
<1>2. CASE ~op.unset /\ DOMAIN op.set # {}
  <2> DEFINE value(f) == IF f \in DOMAIN op.set THEN op.set[f]
                         ELSE IF record = None THEN None ELSE record[f]
  <2>1. Apply(op, record) = [f \in {"endpoint", "ref"} |-> value(f)]
    BY <1>2 DEF Apply
  <2>2. value("endpoint") \in Endpoints \cup {None} /\ value("ref") \in Refs \cup {None}
    BY DEF Operations, Records, Record
  <2>3. Apply(op, record) \in Record
    BY <2>1, <2>2 DEF Record
  <2>4. ASSUME NEW r \in StagingRefs, Apply(op, record).ref = r
        PROVE  \/ "ref" \in DOMAIN op.set /\ op.set["ref"] = r
               \/ Names(record, r)
    BY <2>1, <2>4, RefAssumption DEF Names, Refs
  <2> QED BY <2>3, <2>4 DEF Records, Names
<1> QED BY <1>1, <1>2

LEMMA CommitKeeps == ASSUME IInv, HostCommits PROVE IInv'
<1>1. /\ save \in Saves /\ save.phase = "sent" /\ save.writes = {} /\ save.base <= revision
      /\ doc' = [p \in Providers |-> Apply(save.ops[p], doc[p])]
      /\ revision' = revision + 1 /\ UNCHANGED <<view, draft, vault, others>>
      /\ save' = [save EXCEPT !.phase = "committed"] /\ save # None
  BY DEF IInv, Types, SaveIsSafe, HostCommits, card
<1>2. \A p \in Providers : save.ops[p] \in Operations /\ doc[p] \in Records
  BY <1>1 DEF IInv, Types, Saves
<1>3. Types' /\ ViewIsTrue'
  BY <1>1, <1>2, ApplyOutcome DEF IInv, Types, ViewIsTrue, Saves
<1>4. \A p \in Providers, r \in StagingRefs :
        /\ Names(doc'[p], r) => Puts(p, r) \/ Names(doc[p], r)
        /\ Puts(p, r)' => Puts(p, r)
  <2> SUFFICES ASSUME NEW p \in Providers, NEW r \in StagingRefs
               PROVE  /\ Names(doc'[p], r) => Puts(p, r) \/ Names(doc[p], r)
                      /\ Puts(p, r)' => Puts(p, r)
    OBVIOUS
  <2>1. doc'[p] = Apply(save.ops[p], doc[p])
    BY <1>1
  <2>2. save'.ops = save.ops
    BY <1>1 DEF Saves
  <2> QED BY <1>1, <1>2, <2>1, <2>2, ApplyOutcome DEF Puts
<1>5. EachItsOwn'
  <2>1. ASSUME NEW p \in Providers, NEW r \in StagingRefs, Claims(p, r)' PROVE Claims(p, r)
    BY <1>1, <1>4, <2>1 DEF Claims, Names, Puts
  <2> QED BY <2>1 DEF IInv, EachItsOwn
<1>6. UsedIsStored'
  BY <1>1, <1>4 DEF IInv, UsedIsStored, Names, Puts
<1>7. SaveIsSafe'
  <2>1. /\ save'.ops = save.ops /\ save'.typed = save.typed /\ save'.writes = save.writes
        /\ save'.base = save.base /\ save'.phase = "committed" /\ save.base # revision'
        /\ save.base <= revision'
    BY <1>1 DEF Saves, IInv, Types
  <2> QED BY <1>1, <2>1 DEF IInv, SaveIsSafe, Write
<1> QED BY <1>3, <1>5, <1>6, <1>7 DEF IInv

LEMMA EndKeeps == ASSUME IInv, SendCommit \/ SaveFails PROVE IInv'
<1>1. UNCHANGED <<doc, view, draft, vault, revision, others>>
  BY DEF SendCommit, SaveFails, card, host
<1>2. CASE SaveFails
  BY <1>1, <1>2 DEF SaveFails, IInv, Types, ViewIsTrue, EachItsOwn, UsedIsStored, SaveIsSafe,
                    Claims, Names, Puts
<1>3. CASE SendCommit
  <2>1. /\ save \in Saves /\ save # None /\ save.writes = {} /\ view.revision \in Nat \cup {None}
        /\ save' = [save EXCEPT !.phase = "sent", !.fence = view.revision]
    BY <1>3 DEF SendCommit, IInv, Types
  <2>2. /\ save'.ops = save.ops /\ save'.typed = save.typed /\ save'.writes = save.writes
        /\ save'.base = save.base /\ save'.phase = "sent" /\ save' \in Saves
    BY <2>1 DEF Saves
  <2>3. Types' /\ ViewIsTrue'
    BY <1>1, <2>2 DEF IInv, Types, ViewIsTrue
  <2>4. EachItsOwn' /\ UsedIsStored'
    BY <1>1, <2>1, <2>2 DEF IInv, EachItsOwn, UsedIsStored, Claims, Names, Puts
  <2>5. SaveIsSafe'
    BY <1>1, <2>1, <2>2 DEF IInv, SaveIsSafe, Write
  <2> QED BY <2>3, <2>4, <2>5 DEF IInv
<1> QED BY <1>2, <1>3

LEMMA OtherKeeps == ASSUME IInv, NEW p \in Providers, OtherWindowCommits(p) PROVE IInv'
<1>1. /\ UNCHANGED <<view, draft, save>> /\ revision' = revision + 1 /\ others' = others + 1
      /\ DerivedRef[p] \in Refs \ StagingRefs
      /\ doc' \in [Providers -> Records]
      /\ \A q \in Providers, r \in StagingRefs : Names(doc'[q], r) => Names(doc[q], r)
      /\ vault' \in [Refs -> Keys \cup {None}]
      /\ \A r \in StagingRefs : vault'[r] = vault[r]
  <2>1. /\ UNCHANGED <<view, draft, save>> /\ revision' = revision + 1 /\ others' = others + 1
    BY DEF OtherWindowCommits, card
  <2>2. DerivedRef[p] \in Refs \ StagingRefs /\ StagingRefs \subseteq Refs
    BY RefAssumption DEF Refs, NamedRefs
  <2>3. CASE /\ doc[p] # None /\ UNCHANGED vault
             /\ \E new \in {None} \cup {[doc[p] EXCEPT !.endpoint = e] : e \in Endpoints} :
                  new # doc[p] /\ doc' = [doc EXCEPT ![p] = new]
    <3> PICK new \in {None} \cup {[doc[p] EXCEPT !.endpoint = e] : e \in Endpoints} :
               doc' = [doc EXCEPT ![p] = new]
      BY <2>3
    <3>1. new \in Records /\ \A r \in StagingRefs : Names(new, r) => Names(doc[p], r)
      BY <2>3 DEF IInv, Types, Records, Record, Names
    <3> QED BY <2>1, <2>2, <2>3, <3>1 DEF IInv, Types
  <2>4. CASE \E e \in Endpoints, k \in Keys :
               /\ doc' = [doc EXCEPT ![p] = [endpoint |-> e, ref |-> DerivedRef[p]]]
               /\ vault' = [vault EXCEPT ![DerivedRef[p]] = k]
    <3> PICK e \in Endpoints, k \in Keys :
               /\ doc' = [doc EXCEPT ![p] = [endpoint |-> e, ref |-> DerivedRef[p]]]
               /\ vault' = [vault EXCEPT ![DerivedRef[p]] = k]
      BY <2>4
    <3> DEFINE new == [endpoint |-> e, ref |-> DerivedRef[p]]
    <3>1. new \in Records /\ \A r \in StagingRefs : ~Names(new, r)
      BY <2>2 DEF Records, Record, Names
    <3> QED BY <2>1, <2>2, <3>1 DEF IInv, Types
  <2> QED BY <2>3, <2>4 DEF OtherWindowCommits
<1>2. Types' /\ ViewIsTrue'
  BY <1>1 DEF IInv, Types, ViewIsTrue
<1>3. EachItsOwn'
  <2>1. ASSUME NEW q \in Providers, NEW r \in StagingRefs, Claims(q, r)' PROVE Claims(q, r)
    BY <1>1, <2>1 DEF Claims, Names, Puts
  <2> QED BY <2>1 DEF IInv, EachItsOwn
<1>4. UsedIsStored'
  BY <1>1 DEF IInv, UsedIsStored, Names, Puts
<1>5. SaveIsSafe'
  <2>1. save # None => save.base # revision' /\ save.base <= revision'
    BY <1>1 DEF IInv, Types, Saves, SaveIsSafe
  <2> QED BY <1>1, <2>1 DEF IInv, SaveIsSafe, Write
<1> QED BY <1>2, <1>3, <1>4, <1>5 DEF IInv

(* A save gives each typed key a reference that nobody uses and that no    *)
(* other provider has a claim to.                                          *)
LEMMA DestinationsFree ==
  ASSUME IInv, save = None, view.ready, NEW dest \in Destinations
  PROVE  /\ dest \in [Typed -> Refs] /\ Typed \subseteq Providers
         /\ \A p \in Typed, q \in Typed : dest[p] = dest[q] => p = q
         /\ \A p \in Typed : dest[p] = Base(p) \/ dest[p] \in StagingRefs
         /\ \A p \in Typed, q \in Providers : ~Names(view.doc[q], dest[p])
         /\ \A p \in Typed, q \in Providers :
              dest[p] \in StagingRefs /\ Claims(q, dest[p]) => p = q
<1>1. dest \in [Typed -> Refs] /\ Typed \subseteq Providers
  BY DEF Destinations, Typed
<1>2. ASSUME NEW p \in Typed, NEW q \in Typed, dest[p] = dest[q] PROVE p = q
  BY <1>1, <1>2 DEF Destinations
<1>3. ASSUME NEW p \in Typed
      PROVE  \/ dest[p] \notin Live /\ dest[p] = Base(p)
             \/ dest[p] \notin Live /\ dest[p] = draft[p].staging
             \/ dest[p] \in Fresh
  BY <1>1 DEF Destinations
<1>4. ASSUME NEW p \in Typed, dest[p] \in Fresh, NEW q \in Providers
      PROVE  ~Claims(q, dest[p])
  <2>1. dest[p] \in StagingRefs /\ vault[dest[p]] = None
    BY <1>4 DEF Fresh
  <2>2. draft[q] # None => draft[q].staging # dest[p]
    BY <1>4 DEF Fresh
  <2>3. ~Puts(q, dest[p])
    BY DEF Puts
  <2> QED BY <2>1, <2>2, <2>3 DEF IInv, UsedIsStored, Claims, Names
<1>5. ASSUME NEW p \in Typed, NEW q \in Providers PROVE ~Names(view.doc[q], dest[p])
  <2>1. CASE dest[p] \notin Live
    BY <2>1, <1>1, RefAssumption DEF Live, RefsIn, Names
  <2>2. CASE dest[p] \in Fresh
    BY <2>2, <1>4 DEF Claims
  <2> QED BY <1>3, <2>1, <2>2
<1>6. ASSUME NEW p \in Typed, NEW q \in Providers, dest[p] \in StagingRefs, Claims(q, dest[p])
      PROVE  p = q
  <2>1. CASE dest[p] = Base(p) \/ dest[p] = draft[p].staging
    <3>1. draft[p] # None /\ p \in Providers
      BY DEF Typed
    <3>2. dest[p] = draft[p].env \/ dest[p] = draft[p].staging
      BY <1>1, <1>6, <2>1, <3>1, RefAssumption DEF Base, NamedRefs
    <3>3. Claims(p, dest[p])
      BY <3>1, <3>2 DEF Claims
    <3> QED BY <1>6, <3>1, <3>3 DEF IInv, EachItsOwn
  <2>2. CASE dest[p] \in Fresh
    BY <2>2, <1>4, <1>6
  <2> QED BY <1>3, <2>1, <2>2
<1>7. \A p \in Typed : dest[p] = Base(p) \/ dest[p] \in StagingRefs
  BY <1>1, <1>3, RefAssumption DEF Typed, Fresh, IInv, Types, Draft
<1> QED BY <1>1, <1>2, <1>5, <1>6, <1>7

(* What the operation of p says of its reference.                          *)
LEMMA OperationOutcome ==
  ASSUME IInv, save = None, view.ready, NEW dest \in Destinations, NEW p \in Providers
  PROVE  /\ Operation(p, dest) \in Operations
         /\ p \in Typed => /\ ~Operation(p, dest).unset
                           /\ "ref" \in DOMAIN Operation(p, dest).set
         /\ "ref" \in DOMAIN Operation(p, dest).set =>
              /\ p \in Typed => Operation(p, dest).set["ref"] = dest[p]
              /\ p \notin Typed => /\ draft[p] # None
                                   /\ Operation(p, dest).set["ref"] = draft[p].env
<1>1. /\ dest \in [Typed -> Refs] /\ Typed \subseteq Providers
      /\ p \in Typed => ~Names(view.doc[p], dest[p])
  BY DestinationsFree
<1>2. CASE draft[p] = None
  <2>1. p \notin Typed
    BY <1>2 DEF Typed
  <2>2. Operation(p, dest) = [unset |-> view.doc[p] # None, set |-> << >>]
    BY <1>2 DEF Operation
  <2>3. /\ DOMAIN << >> = {} /\ << >> \in [{} -> Endpoints \cup Refs \cup {None}]
    OBVIOUS
  <2>4. << >> \in UNION {[F -> Endpoints \cup Refs \cup {None}] : F \in SUBSET Fields}
    <3>1. {} \in SUBSET Fields
      OBVIOUS
    <3> QED BY <2>3, <3>1
  <2>5. /\ Operation(p, dest).set = << >>
        /\ "ref" \notin DOMAIN Operation(p, dest).set
        /\ "endpoint" \notin DOMAIN Operation(p, dest).set
    BY <2>2, <2>3
  <2>6. Operation(p, dest) \in
          [unset : BOOLEAN, set : UNION {[F -> Endpoints \cup Refs \cup {None}] : F \in SUBSET Fields}]
    BY <2>2, <2>4
  <2>7. Operation(p, dest) \in Operations
    BY <2>5, <2>6 DEF Operations
  <2> QED BY <2>1, <2>5, <2>7
<1>3. CASE draft[p] # None
  <2> DEFINE old == view.doc[p]
             new == Target(p, dest)
             fields == {f \in DOMAIN new : old = None \/ new[f] # old[f]}
  <2>1. /\ DOMAIN new = Fields
        /\ new["endpoint"] \in Endpoints \cup {None} /\ new["ref"] \in Refs \cup {None}
        /\ new["ref"] = IF p \in Typed THEN dest[p] ELSE draft[p].env
    BY <1>1, <1>3 DEF Target, Fields, IInv, Types, Draft
  <2>2. Operation(p, dest) = [unset |-> FALSE, set |-> [f \in fields |-> new[f]]]
    BY <1>3 DEF Operation, Restrict
  <2>3. p \in Typed => "ref" \in fields
    BY <1>1, <2>1 DEF Names, Fields
  <2> HIDE DEF new
  <2>4. fields \in SUBSET Fields /\ \A f \in fields : new[f] \in Endpoints \cup Refs \cup {None}
    BY <2>1 DEF Fields
  <2> HIDE DEF fields
  <2>5. Operation(p, dest) \in Operations
    BY <2>1, <2>2, <2>4 DEF Operations
  <2>6. "ref" \in fields => Operation(p, dest).set["ref"] = new["ref"]
    BY <2>2
  <2> QED BY <1>3, <2>1, <2>2, <2>3, <2>5, <2>6
<1> QED BY <1>2, <1>3

LEMMA SaveStartsKeeps == ASSUME IInv, SaveStarts PROVE IInv'
<1>1. PICK dest \in Destinations :
        /\ save' = [phase  |-> "storing",
                    ops    |-> [p \in Providers |-> Operation(p, dest)],
                    writes |-> {<<dest[p], draft[p].key>> : p \in Typed},
                    typed  |-> [p \in Typed |-> draft[p].key],
                    base   |-> view.revision,
                    fence  |-> None]
        /\ draft' = [p \in Providers |->
                       IF p \in Typed /\ dest[p] # Base(p)
                       THEN [draft[p] EXCEPT !.staging = dest[p]] ELSE draft[p]]
  BY DEF SaveStarts
<1>2. /\ save = None /\ view.ready
      /\ UNCHANGED <<doc, revision, vault, others, view>>
  BY DEF SaveStarts, host
<1>3. /\ dest \in [Typed -> Refs] /\ Typed \subseteq Providers
      /\ \A p \in Typed, q \in Typed : dest[p] = dest[q] => p = q
      /\ \A p \in Typed : dest[p] = Base(p) \/ dest[p] \in StagingRefs
      /\ \A p \in Typed, q \in Providers : ~Names(view.doc[q], dest[p])
      /\ \A p \in Typed, q \in Providers :
           dest[p] \in StagingRefs /\ Claims(q, dest[p]) => p = q
  BY <1>2, DestinationsFree
<1>4. \A p \in Providers :
        LET op == Operation(p, dest) IN
        /\ op \in Operations
        /\ p \in Typed => ~op.unset /\ "ref" \in DOMAIN op.set
        /\ "ref" \in DOMAIN op.set =>
             /\ p \in Typed => op.set["ref"] = dest[p]
             /\ p \notin Typed => draft[p] # None /\ op.set["ref"] = draft[p].env
  BY <1>2, OperationOutcome
<1>5. \A p \in Typed : draft[p] \in Draft /\ draft[p].key \in Keys
  BY <1>3 DEF Typed, IInv, Types, Draft
<1>7. \A p \in Providers : save'.ops[p] = Operation(p, dest)
  BY <1>1
<1>8. save' \in Saves /\ save'.base = view.revision /\ save'.base <= revision
  <2>1. save'.writes \in SUBSET (Refs \X Keys)
    BY <1>1, <1>3, <1>5
  <2>2. save'.typed \in UNION {[T -> Keys] : T \in SUBSET Providers}
    BY <1>1, <1>3, <1>5
  <2>3. save'.ops \in [Providers -> Operations]
    BY <1>1, <1>4
  <2>4. view.revision \in Nat /\ view.revision <= revision
    BY <1>2 DEF IInv, ViewIsTrue
  <2>5. save'.base = view.revision /\ save'.phase = "storing" /\ save'.fence = None
    BY <1>1
  <2> QED BY <1>1, <2>1, <2>2, <2>3, <2>4, <2>5 DEF Saves
<1>9. /\ draft' \in [Providers -> Draft \cup {None}]
      /\ \A p \in Providers : draft'[p] # None =>
           /\ draft[p] # None /\ draft'[p].env = draft[p].env
           /\ \/ draft'[p].staging = draft[p].staging
              \/ p \in Typed /\ draft'[p].staging = dest[p]
  <2>1. ASSUME NEW p \in Typed, dest[p] # Base(p)
        PROVE  LET new == [draft[p] EXCEPT !.staging = dest[p]] IN
               new \in Draft /\ new.env = draft[p].env /\ new.staging = dest[p]
    BY <1>3, <1>5, <2>1 DEF Draft
  <2>2. \A p \in Typed : draft[p] # None
    BY DEF Typed
  <2>3. draft \in [Providers -> Draft \cup {None}]
    BY DEF IInv, Types
  <2> QED BY <1>1, <2>1, <2>2, <2>3
<1>10. Types' /\ ViewIsTrue'
  BY <1>2, <1>8, <1>9 DEF IInv, Types, ViewIsTrue
<1>11. ASSUME NEW p \in Providers, NEW r \in StagingRefs, Puts(p, r)'
       PROVE  \/ p \in Typed /\ dest[p] = r
              \/ draft[p] # None /\ draft[p].env = r
  BY <1>4, <1>7, <1>11 DEF Puts
<1>12. EachItsOwn'
  <2>1. ASSUME NEW p \in Providers, NEW r \in StagingRefs, Claims(p, r)'
        PROVE  Claims(p, r) \/ (p \in Typed /\ dest[p] = r)
    BY <1>2, <1>9, <1>11, <2>1 DEF Claims, Names, Puts
  <2>2. SUFFICES ASSUME NEW p \in Providers, NEW q \in Providers, NEW r \in StagingRefs,
                        Claims(p, r)', Claims(q, r)'
                 PROVE  p = q
    BY DEF EachItsOwn
  <2>3. /\ Claims(p, r) \/ (p \in Typed /\ dest[p] = r)
        /\ Claims(q, r) \/ (q \in Typed /\ dest[q] = r)
    BY <2>1, <2>2
  <2>4. CASE Claims(p, r) /\ Claims(q, r)
    BY <2>4 DEF IInv, EachItsOwn
  <2>5. CASE p \in Typed /\ dest[p] = r /\ Claims(q, r)
    BY <1>3, <2>5
  <2>6. CASE q \in Typed /\ dest[q] = r /\ Claims(p, r)
    BY <1>3, <2>6
  <2>7. CASE p \in Typed /\ dest[p] = r /\ q \in Typed /\ dest[q] = r
    BY <1>3, <2>7
  <2> QED BY <2>3, <2>4, <2>5, <2>6, <2>7
<1>13. UsedIsStored'
  <2> SUFFICES ASSUME NEW p \in Providers, NEW r \in StagingRefs
               PROVE  /\ \/ Names(doc[p], r)' \/ Names(view.doc[p], r)'
                         \/ draft'[p] # None /\ draft'[p].env = r
                         => vault'[r] # None
                      /\ Puts(p, r)' => vault'[r] # None \/ \E k \in Keys : <<r, k>> \in save'.writes
    BY DEF UsedIsStored
  <2>1. \/ Names(doc[p], r)' \/ Names(view.doc[p], r)'
        \/ draft'[p] # None /\ draft'[p].env = r
        => vault'[r] # None
    BY <1>2, <1>9 DEF IInv, UsedIsStored, Names
  <2>2. ASSUME Puts(p, r)' PROVE vault'[r] # None \/ \E k \in Keys : <<r, k>> \in save'.writes
    <3>1. CASE p \in Typed /\ dest[p] = r
      BY <1>1, <1>5, <3>1
    <3>2. CASE draft[p] # None /\ draft[p].env = r
      BY <1>2, <3>2 DEF IInv, UsedIsStored
    <3> QED BY <1>11, <2>2, <3>1, <3>2
  <2> QED BY <2>1, <2>2
<1>14. SaveIsSafe'
  <2>1. DOMAIN save'.typed = Typed /\ \A p \in Typed : save'.typed[p] = draft[p].key
    BY <1>1
  <2>2. \A p \in Typed : save'.ops[p].set["ref"] = dest[p] /\ dest[p] \in Refs
    BY <1>3, <1>4, <1>7
  <2>3. \A p \in Typed : <<dest[p], draft[p].key>> \in save'.writes
    BY <1>1
  <2>4. \A w \in save'.writes : \E p \in Typed : w = <<dest[p], draft[p].key>>
    BY <1>1
  <2>5. view.revision = revision => view.doc = doc
    BY <1>2 DEF IInv, ViewIsTrue
  <2>6. \A p \in Typed : ~save'.ops[p].unset /\ "ref" \in DOMAIN save'.ops[p].set
    BY <1>3, <1>4, <1>7
  <2>7. save'.phase = "storing"
    BY <1>1
  <2>8. \A p \in Typed : Write(p)' = <<dest[p], draft[p].key>>
    BY <2>1, <2>2 DEF Write
  <2>9. \A p \in Typed :
          save'.base = revision' => \A q \in Providers : ~Names(doc'[q], dest[p])
    BY <1>2, <1>3, <1>8, <2>5
  <2> QED BY <1>2, <1>3, <1>8, <2>1, <2>2, <2>3, <2>4, <2>6, <2>7, <2>8, <2>9
          DEF SaveIsSafe, Write, Names
<1> QED BY <1>10, <1>12, <1>13, <1>14 DEF IInv

LEMMA StepKeeps == ASSUME IInv, [Next]_vars PROVE IInv'
<1>1. CASE UNCHANGED vars
  <2>1. UNCHANGED <<doc, revision, vault, view, draft, save, others>>
    BY <1>1 DEF vars
  <2>2. Types' /\ ViewIsTrue'
    BY <2>1 DEF IInv, Types, ViewIsTrue
  <2>3. EachItsOwn'
    BY <2>1 DEF IInv, EachItsOwn, Claims, Names, Puts
  <2>4. UsedIsStored'
    BY <2>1 DEF IInv, UsedIsStored, Names, Puts
  <2>5. SaveIsSafe'
    BY <2>1 DEF IInv, SaveIsSafe, Names, Write
  <2> QED BY <2>2, <2>3, <2>4, <2>5 DEF IInv
<1>2. CASE MirrorUpdates \/ MirrorDisconnects
  <2>1. \E v \in {Snapshot, Disconnected} : view' = v /\ draft' = Rederive(draft, v.doc)
    BY <1>2 DEF MirrorUpdates, MirrorDisconnects, Load
  <2>2. draft' = Rederive(draft, view'.doc) /\ view' \in {view, Snapshot, Disconnected}
    BY <2>1
  <2>3. UNCHANGED <<host, save>>
    BY <1>2 DEF MirrorUpdates, MirrorDisconnects
  <2> QED BY <2>2, <2>3, ViewKeeps
<1>3. CASE \E p \in Providers : EditProvider(p) \/ AddProvider(p) \/ DeleteProvider(p)
  BY <1>3, UserKeeps
<1>4. CASE Discard
  BY <1>4, ViewKeeps DEF Discard
<1>5. CASE Saved
  <2>1. /\ view' = Snapshot /\ Snapshot.doc = doc /\ save' = None
        /\ draft' = Rederive(NoRecords, doc) /\ UNCHANGED host
    BY <1>5 DEF Saved, Snapshot
  <2>2. draft' = Rederive(NoRecords, view'.doc)
    BY <2>1
  <2> QED BY <2>1, <2>2, ViewKeeps
<1>6. CASE SaveStarts
  BY <1>6, SaveStartsKeeps
<1>7. CASE StoreKey \/ StoreKeyFails
  BY <1>7, StoreKeeps DEF StoreKey, StoreKeyFails
<1>8. CASE SendCommit \/ SaveFails
  BY <1>8, EndKeeps
<1>9. CASE HostCommits
  BY <1>9, CommitKeeps
<1>10. CASE \E p \in Providers : OtherWindowCommits(p)
  BY <1>10, OtherKeeps
<1> QED BY <1>1, <1>2, <1>3, <1>4, <1>5, <1>6, <1>7, <1>8, <1>9, <1>10 DEF Next
-----------------------------------------------------------------------------
(* The inductive invariant holds in every reachable state.                 *)
THEOREM InvariantHolds == Spec => []IInv
BY InitKeeps, StepKeeps, PTL DEF Spec

(* Every variable keeps its type.                                          *)
THEOREM TypeCorrect == Spec => []TypeOK
<1>1. IInv => TypeOK
  BY DEF IInv, Types, ViewIsTrue, SaveIsSafe, TypeOK, Records, Saves
<1> QED BY <1>1, InvariantHolds, PTL

(* No two committed providers share a generated reference (store.ts        *)
(* planning of a save, which tries staging references that are unused).    *)
THEOREM StagingNotShared == Spec => []NoSharedStaging
<1>1. IInv => NoSharedStaging
  BY DEF IInv, EachItsOwn, NoSharedStaging, Claims, Names
<1> QED BY <1>1, InvariantHolds, PTL

LEMMA KeysKeptStep ==
  ASSUME IInv, [Next]_vars, save # None, save.phase = "storing", save.base = revision,
         NEW r \in RefsIn(doc)
  PROVE  vault'[r] = vault[r] \/ doc' # doc
<1>1. PICK q \in Providers : Names(doc[q], r)
  BY DEF RefsIn, Names
<1>2. CASE StoreKey \/ StoreKeyFails
  <2>1. PICK w \in save.writes : vault' \in {vault, [vault EXCEPT ![w[1]] = w[2]]}
    BY <1>2 DEF StoreKey, StoreKeyFails
  <2>2. w[1] # r
    BY <1>1, <2>1 DEF IInv, SaveIsSafe
  <2>3. r \in Refs /\ vault \in [Refs -> Keys \cup {None}]
    BY <1>1, RefAssumption DEF IInv, Types, Records, Record, Names, RefsIn
  <2> QED BY <2>1, <2>2, <2>3
<1>3. CASE \E p \in Providers : OtherWindowCommits(p)
  <2> PICK p \in Providers : OtherWindowCommits(p)
    BY <1>3
  <2>1. CASE UNCHANGED vault
    BY <2>1
  <2>2. CASE DerivedRef[p] \notin RefsIn(doc) /\ \E k \in Keys : vault' = [vault EXCEPT ![DerivedRef[p]] = k]
    <3>1. r # DerivedRef[p] /\ r \in Refs /\ vault \in [Refs -> Keys \cup {None}]
      BY <2>2 DEF IInv, Types, Records, Record, RefsIn
    <3> QED BY <2>2, <3>1
  <2> QED BY <2>1, <2>2 DEF OtherWindowCommits
<1>4. CASE ~(StoreKey \/ StoreKeyFails \/ \E p \in Providers : OtherWindowCommits(p))
  <2>1. UNCHANGED vault
    BY <1>4 DEF Next, vars, host, card, MirrorUpdates, MirrorDisconnects, EditProvider, AddProvider,
                DeleteProvider, Edits, Discard, SaveStarts, SendCommit, HostCommits, SaveFails, Saved
  <2> QED BY <2>1
<1> QED BY <1>2, <1>3, <1>4

(* A save overwrites no key that a committed provider uses, unless another *)
(* window committed since the save was planned (store.ts save).            *)
THEOREM KeysKept == Spec => LiveKeysKept
<1>1. IInv /\ [Next]_vars =>
        [save # None /\ save.phase = "storing" /\ save.base = revision =>
           \A r \in RefsIn(doc) : vault'[r] = vault[r] \/ doc' # doc]_vars
  BY KeysKeptStep
<1> QED BY <1>1, InvariantHolds, PTL DEF Spec, LiveKeysKept

LEMMA CommitStep ==
  ASSUME IInv, Next, SaveCommits, save.base = revision
  PROVE  \A p \in DOMAIN save.typed : vault[doc'[p].ref] = save.typed[p]
<1>1. HostCommits
  <2>1. revision' > revision /\ others' = others /\ revision \in Nat /\ others \in Nat
    BY DEF SaveCommits, IInv, Types
  <2>2. ~(MirrorUpdates \/ MirrorDisconnects \/ Discard \/ SaveStarts \/ StoreKey \/ StoreKeyFails
          \/ SendCommit \/ SaveFails \/ Saved)
    BY <2>1 DEF MirrorUpdates, MirrorDisconnects, Discard, SaveStarts, StoreKey, StoreKeyFails,
                SendCommit, SaveFails, Saved, host
  <2>3. ASSUME NEW p \in Providers
        PROVE  ~(EditProvider(p) \/ AddProvider(p) \/ DeleteProvider(p) \/ OtherWindowCommits(p))
    <3>1. EditProvider(p) \/ AddProvider(p) \/ DeleteProvider(p) => UNCHANGED host
      BY DEF EditProvider, AddProvider, DeleteProvider, Edits
    <3>2. ~OtherWindowCommits(p)
      BY <2>1 DEF OtherWindowCommits
    <3> QED BY <2>1, <3>1, <3>2 DEF host
  <2> QED BY <2>2, <2>3 DEF Next
<1>2. /\ save \in Saves /\ save # None /\ save.phase = "sent" /\ save.writes = {}
      /\ doc' = [p \in Providers |-> Apply(save.ops[p], doc[p])]
  BY <1>1 DEF HostCommits, IInv, Types, SaveIsSafe
<1> SUFFICES ASSUME NEW p \in DOMAIN save.typed PROVE vault[doc'[p].ref] = save.typed[p]
  OBVIOUS
<1>3. /\ p \in Providers /\ ~save.ops[p].unset /\ "ref" \in DOMAIN save.ops[p].set
      /\ vault[save.ops[p].set["ref"]] = save.typed[p]
  BY <1>2 DEF IInv, SaveIsSafe, Write, Saves
<1>4. doc'[p].ref = save.ops[p].set["ref"]
  BY <1>2, <1>3 DEF Apply
<1> QED BY <1>3, <1>4

(* From its commit on a provider whose key was typed resolves to that key  *)
(* (store.ts save: the keys are stored first).                             *)
THEOREM KeysBeforeCommit == Spec => CommittedKeysStored
<1>1. IInv /\ [Next]_vars =>
        [SaveCommits /\ save.base = revision =>
           \A p \in DOMAIN save.typed : vault[doc'[p].ref] = save.typed[p]]_vars
  BY CommitStep
<1> QED BY <1>1, InvariantHolds, PTL DEF Spec, CommittedKeysStored
=============================================================================
