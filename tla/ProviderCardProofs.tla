--------------------------- MODULE ProviderCardProofs ---------------------------
(***************************************************************************)
(* The lamps and the model lists of the settings card, for any providers,  *)
(* forms and keys and any number of edits, tests and discoveries: a late   *)
(* answer never lights a lamp or fills a list it does not belong to.       *)
(***************************************************************************)
EXTENDS ProviderCard, TLAPS

Forms == [endpoint : Endpoints, option : Options \cup {None}, key : Keys \cup {None, Mask}]

Prints == [endpoint : Endpoints, option : Options \cup {None}, key : {"typed", None, Mask}]

(* What is sent, and what the host makes of it.                            *)
Connections == [endpoint : Endpoints, option : Options \cup {None}, key : Keys \cup {None}]

TestStates ==
  [status : {"testing", "ok", "fail"}, wire : Connections \cup {None}, fingerprint : Prints]

TestRequests ==
  [kind : {"test"}, id : Nat, provider : Providers, sent : Connections,
   fingerprint : Prints, wire : Connections \cup {None}]

ModelsRequests == [kind : {"models"}, id : Nat, provider : Providers]

RowsType ==
  /\ form \in [Providers -> Forms \cup {None}]
  /\ saved \in [Providers -> Connections \cup {None}]

TypeOK ==
  /\ RowsType
  /\ tests \in [Providers -> TestStates \cup {None}]
  /\ runs \in Nat
  /\ models \in [Providers -> [loading : BOOLEAN, gen : Nat] \cup {None}]
  /\ gen \in Nat
  /\ latest \in [Providers -> Nat]
  /\ flight \subseteq TestRequests \cup ModelsRequests

(* A wire request made the connection the fingerprint stands for.          *)
Covers(wire, print) ==
  /\ wire.endpoint = print.endpoint
  /\ print.option # None => wire.option = print.option
  /\ print.key = "typed" => wire.key \in Keys

(* A passed test is of the connection it is kept for, and a test under way *)
(* will be.                                                                *)
TestsCover ==
  /\ \A p \in Providers :
       tests[p] # None /\ tests[p].status = "ok" =>
         tests[p].wire # None /\ Covers(tests[p].wire, tests[p].fingerprint)
  /\ \A r \in flight : r.kind = "test" =>
       /\ Covers(r.sent, r.fingerprint)
       /\ r.wire # None => Covers(r.wire, r.fingerprint)

(* A discovery that still carries the current generation is its provider's *)
(* last one.                                                               *)
LoadsAreOrdered ==
  /\ \A p \in Providers : latest[p] <= gen
  /\ \A r \in flight : r.kind = "models" => r.id <= latest[r.provider]

IInv == TypeOK /\ TestsCover /\ LoadsAreOrdered /\ ListIsLatest
-----------------------------------------------------------------------------
LEMMA FormFacts ==
  ASSUME NEW f \in Forms
  PROVE  /\ Fingerprint(f) \in Prints
         /\ Overrides(f) \in Connections
         /\ Covers(Overrides(f), Fingerprint(f))
BY NamesAssumption DEF Forms, Prints, Connections, Fingerprint, Overrides, Covers

LEMMA DraftFacts ==
  ASSUME NEW sent \in Connections, NEW record \in Connections \cup {None}, NEW print \in Prints,
         Covers(sent, print)
  PROVE  /\ DraftProvider(sent, record) \in Connections
         /\ Covers(DraftProvider(sent, record), print)
BY NamesAssumption DEF Connections, Prints, DraftProvider, Covers

LEMMA ShownType ==
  ASSUME NEW record \in Connections \cup {None}
  PROVE  Shown(record) \in Forms \cup {None}
BY DEF Connections, Forms, Shown

LEMMA InvariantImplies == IInv => LampCoversFields /\ ListIsLatest
<1> SUFFICES ASSUME IInv, NEW p \in Rows, Lamp(p) = "ok"
             PROVE  /\ Tested(tests[p].wire, form[p])
                    /\ form[p].key \in Keys => tests[p].wire.key \in Keys
  BY DEF LampCoversFields, IInv
<1>1. p \in Providers /\ form[p] \in Forms
  BY DEF Rows, IInv, TypeOK, RowsType
<1>2. tests[p] # None /\ tests[p].status = "ok" /\ tests[p].fingerprint = Fingerprint(form[p])
  BY DEF Lamp
<1>3. Covers(tests[p].wire, Fingerprint(form[p]))
  BY <1>1, <1>2 DEF IInv, TestsCover
<1> QED BY <1>1, <1>3 DEF Covers, Tested, Fingerprint, Forms

LEMMA InitKeeps == Init => IInv
<1> SUFFICES ASSUME Init PROVE IInv
  OBVIOUS
<1>1. RowsType
  BY DEF Init, RowsType, Forms, Connections
<1> QED BY <1>1 DEF Init, IInv, TypeOK, TestsCover, LoadsAreOrdered, ListIsLatest
-----------------------------------------------------------------------------
(* The steps that touch neither tests, models nor requests.                *)
LEMMA RowsKeep ==
  ASSUME IInv, RowsType', UNCHANGED <<testing, loading, flight>>
  PROVE  IInv'
BY DEF IInv, TypeOK, TestsCover, LoadsAreOrdered, ListIsLatest, testing, loading

LEMMA LoadKeeps ==
  ASSUME IInv, NEW p \in Providers, LoadModels(p), RowsType', UNCHANGED testing
  PROVE  IInv'
<1>1. /\ gen' = gen + 1 /\ gen \in Nat
      /\ models' = [models EXCEPT ![p] = [loading |-> TRUE, gen |-> gen']]
      /\ latest' = [latest EXCEPT ![p] = gen']
      /\ flight' = flight \cup {ModelsRequest(p)}
      /\ ModelsRequest(p) \in ModelsRequests
      /\ ModelsRequest(p).kind = "models" /\ ModelsRequest(p).id = gen'
      /\ ModelsRequest(p).provider = p
  BY DEF LoadModels, IInv, TypeOK, ModelsRequest, ModelsRequests
<1>2. TypeOK'
  BY <1>1 DEF IInv, TypeOK, testing
<1>3. TestsCover'
  BY <1>1 DEF IInv, TestsCover, testing
<1>4. LoadsAreOrdered'
  <2>1. \A q \in Providers : latest'[q] <= gen'
    BY <1>1 DEF IInv, TypeOK, LoadsAreOrdered
  <2>2. ASSUME NEW r \in flight', r.kind = "models" PROVE r.id <= latest'[r.provider]
    <3>1. CASE r = ModelsRequest(p)
      BY <1>1, <3>1 DEF IInv, TypeOK
    <3>2. CASE r \in flight
      <4>1. r.provider \in Providers /\ r.id \in Nat /\ r.id <= latest[r.provider]
        BY <2>2, <3>2 DEF IInv, TypeOK, TestRequests, ModelsRequests, LoadsAreOrdered
      <4>2. latest[r.provider] \in Nat /\ latest[r.provider] <= gen /\ gen <= gen'
        BY <1>1, <4>1 DEF IInv, TypeOK, LoadsAreOrdered
      <4>3. latest'[r.provider] \in {latest[r.provider], gen'}
        BY <1>1, <4>1 DEF IInv, TypeOK
      <4> QED BY <1>1, <4>1, <4>2, <4>3
    <3> QED BY <1>1, <3>1, <3>2
  <2> QED BY <2>1, <2>2 DEF LoadsAreOrdered
<1>5. ListIsLatest'
  BY <1>1 DEF IInv, TypeOK, ListIsLatest
<1> QED BY <1>2, <1>3, <1>4, <1>5 DEF IInv

LEMMA RunTestKeeps == ASSUME IInv, NEW p \in Providers, RunTest(p) PROVE IInv'
<1> DEFINE state == [status |-> "testing", wire |-> None, fingerprint |-> Fingerprint(form[p])]
<1>1. /\ tests' = [tests EXCEPT ![p] = state]
      /\ flight' = flight \cup {TestRequest(p)}
      /\ runs' = runs + 1
      /\ UNCHANGED <<rows, loading>>
      /\ form[p] \in Forms
  BY DEF RunTest, Rows, IInv, TypeOK, RowsType
<1>2. TestRequest(p) \in TestRequests /\ state \in TestStates
  BY <1>1, FormFacts DEF TestRequest, TestRequests, TestStates, IInv, TypeOK
<1>3. TypeOK'
  BY <1>1, <1>2 DEF IInv, TypeOK, RowsType, rows, loading
<1>4. TestsCover'
  <2>1. \A q \in Providers : tests'[q] = IF q = p THEN state ELSE tests[q]
    BY <1>1 DEF IInv, TypeOK
  <2>2. /\ TestRequest(p).wire = None
        /\ Covers(TestRequest(p).sent, TestRequest(p).fingerprint)
    BY <1>1, FormFacts DEF TestRequest
  <2>3. state.status # "ok"
    OBVIOUS
  <2> HIDE DEF state
  <2> QED BY <1>1, <2>1, <2>2, <2>3 DEF IInv, TestsCover
<1>5. LoadsAreOrdered' /\ ListIsLatest'
  BY <1>1 DEF IInv, LoadsAreOrdered, ListIsLatest, loading, TestRequest
<1> QED BY <1>3, <1>4, <1>5 DEF IInv

LEMMA HostReadsKeeps == ASSUME IInv, NEW r \in flight, HostReads(r) PROVE IInv'
<1> DEFINE read == [r EXCEPT !.wire = DraftProvider(r.sent, saved[r.provider])]
<1>1. r \in TestRequests /\ r.kind = "test" /\ Covers(r.sent, r.fingerprint)
  BY DEF HostReads, IInv, TypeOK, TestRequests, ModelsRequests, TestsCover
<1>2. /\ flight' = (flight \ {r}) \cup {read}
      /\ UNCHANGED <<rows, testing, loading>>
  BY DEF HostReads
<1>3. saved[r.provider] \in Connections \cup {None}
  BY <1>1 DEF IInv, TypeOK, RowsType, TestRequests
<1>4. /\ DraftProvider(r.sent, saved[r.provider]) \in Connections
      /\ Covers(DraftProvider(r.sent, saved[r.provider]), r.fingerprint)
  BY <1>1, <1>3, DraftFacts DEF TestRequests
<1>5. /\ read \in TestRequests /\ read.kind = "test"
      /\ read.sent = r.sent /\ read.fingerprint = r.fingerprint
      /\ Covers(read.wire, read.fingerprint)
  BY <1>1, <1>4 DEF TestRequests
<1> HIDE DEF read
<1>6. TypeOK'
  BY <1>2, <1>5 DEF IInv, TypeOK, RowsType, rows, testing, loading
<1>7. TestsCover'
  BY <1>1, <1>2, <1>5 DEF IInv, TestsCover, testing
<1>8. LoadsAreOrdered' /\ ListIsLatest'
  BY <1>2, <1>5 DEF IInv, LoadsAreOrdered, ListIsLatest, loading
<1> QED BY <1>6, <1>7, <1>8 DEF IInv

LEMMA TestAnsweredKeeps == ASSUME IInv, NEW r \in flight, TestAnswered(r) PROVE IInv'
<1>1. /\ r \in TestRequests /\ r.wire \in Connections
      /\ Covers(r.wire, r.fingerprint) /\ r.wire # None
  BY DEF TestAnswered, IInv, TypeOK, TestRequests, ModelsRequests, TestsCover
<1>2. PICK status \in {"ok", "fail"} :
        tests' = IF tests[r.provider] # None
                    /\ tests[r.provider].fingerprint = r.fingerprint
                 THEN [tests EXCEPT ![r.provider] =
                         [status |-> status, wire |-> r.wire, fingerprint |-> r.fingerprint]]
                 ELSE tests
  BY DEF TestAnswered
<1>3. /\ flight' = flight \ {r}
      /\ UNCHANGED <<rows, runs, loading>>
  BY DEF TestAnswered
<1> DEFINE state == [status |-> status, wire |-> r.wire, fingerprint |-> r.fingerprint]
<1>4. state \in TestStates /\ state.wire # None /\ Covers(state.wire, state.fingerprint)
  BY <1>1 DEF TestRequests, TestStates
<1>5. \A p \in Providers : tests'[p] = tests[p] \/ tests'[p] = state
  BY <1>2 DEF IInv, TypeOK
<1>6. tests' \in [Providers -> TestStates \cup {None}]
  BY <1>2, <1>4 DEF IInv, TypeOK
<1> HIDE DEF state
<1>7. TypeOK'
  BY <1>3, <1>6 DEF IInv, TypeOK, RowsType, rows, loading
<1>8. TestsCover'
  BY <1>3, <1>4, <1>5 DEF IInv, TestsCover
<1>9. LoadsAreOrdered' /\ ListIsLatest'
  BY <1>3 DEF IInv, LoadsAreOrdered, ListIsLatest, loading
<1> QED BY <1>7, <1>8, <1>9 DEF IInv

LEMMA ModelsArriveKeeps == ASSUME IInv, NEW r \in flight, ModelsArrive(r) PROVE IInv'
<1>1. r \in ModelsRequests /\ r.id <= latest[r.provider]
  BY DEF ModelsArrive, IInv, TypeOK, TestRequests, ModelsRequests, LoadsAreOrdered
<1>2. /\ flight' = flight \ {r}
      /\ models' = IF r.id = gen
                   THEN [models EXCEPT ![r.provider] = [loading |-> FALSE, gen |-> r.id]]
                   ELSE models
      /\ UNCHANGED <<rows, testing, gen, latest>>
  BY DEF ModelsArrive
<1>3. r.provider \in Providers /\ r.id \in Nat
  BY <1>1 DEF ModelsRequests
<1>4. r.id = gen => r.id = latest[r.provider]
  BY <1>1, <1>3 DEF IInv, TypeOK, LoadsAreOrdered
<1>5. TypeOK' /\ TestsCover' /\ LoadsAreOrdered'
  BY <1>2, <1>3 DEF IInv, TypeOK, RowsType, TestsCover, LoadsAreOrdered, rows, testing
<1>6. ListIsLatest'
  BY <1>2, <1>3, <1>4 DEF IInv, TypeOK, ListIsLatest
<1> QED BY <1>5, <1>6 DEF IInv

LEMMA EditorKeeps ==
  ASSUME IInv, NEW p \in Providers, LoadClicked(p) \/ RowClicked(p)
  PROVE  IInv'
<1>1. CASE LoadModels(p)
  BY <1>1, LoadKeeps DEF LoadClicked, RowClicked, rows, IInv, TypeOK, RowsType
<1>2. CASE UNCHANGED <<loading, flight>>
  BY <1>2, RowsKeep DEF LoadClicked, RowClicked, rows, IInv, TypeOK, RowsType
<1> QED BY <1>1, <1>2 DEF LoadClicked, RowClicked, Edit

LEMMA FormsKeep ==
  ASSUME IInv, NEW p \in Providers, EditProvider(p) \/ AddProvider(p)
  PROVE  IInv'
<1>1. PICK f \in Forms : Change(p, f)
  <2>1. CASE EditProvider(p)
    <3>1. form[p] \in Forms
      BY <2>1 DEF EditProvider, Rows, IInv, TypeOK, RowsType
    <3>2. /\ \A e \in Endpoints : [form[p] EXCEPT !.endpoint = e] \in Forms
          /\ \A o \in Options \cup {None} : [form[p] EXCEPT !.option = o] \in Forms
          /\ \A k \in Keys \cup {None} : [form[p] EXCEPT !.key = k] \in Forms
      BY <3>1 DEF Forms
    <3> QED BY <2>1, <3>2 DEF EditProvider
  <2>2. CASE AddProvider(p)
    BY <2>2 DEF AddProvider, Forms
  <2> QED BY <2>1, <2>2
<1>2. RowsType'
  BY <1>1 DEF Change, IInv, TypeOK, RowsType
<1>3. CASE UNCHANGED <<testing, loading, flight>>
  BY <1>2, <1>3, RowsKeep
<1>4. CASE LoadModels(p) /\ UNCHANGED testing
  BY <1>2, <1>4, LoadKeeps
<1> QED BY <1>3, <1>4 DEF EditProvider, AddProvider

LEMMA DeleteKeeps == ASSUME IInv, NEW p \in Providers, DeleteProvider(p) PROVE IInv'
<1>1. /\ form' = [form EXCEPT ![p] = Shown(saved[p])]
      /\ tests' = [tests EXCEPT ![p] = None] /\ models' = [models EXCEPT ![p] = None]
      /\ UNCHANGED <<saved, runs, gen, latest, flight>>
  BY DEF DeleteProvider, Deletes
<1>2. Shown(saved[p]) \in Forms \cup {None}
  BY ShownType DEF IInv, TypeOK, RowsType
<1>3. TypeOK'
  BY <1>1, <1>2 DEF IInv, TypeOK, RowsType
<1>4. TestsCover' /\ LoadsAreOrdered' /\ ListIsLatest'
  BY <1>1 DEF IInv, TypeOK, TestsCover, LoadsAreOrdered, ListIsLatest
<1> QED BY <1>3, <1>4 DEF IInv

LEMMA SaveKeeps == ASSUME IInv, Save \/ Discard PROVE IInv'
<1>1. saved' \in [Providers -> Connections \cup {None}]
  <2>1. CASE Save
    <3>1. ASSUME NEW p \in Providers PROVE Stored(p) \in Connections \cup {None}
      BY DEF Stored, Rows, Forms, Connections, IInv, TypeOK, RowsType
    <3> QED BY <2>1, <3>1 DEF Save
  <2>2. CASE Discard
    BY <2>2 DEF Discard, IInv, TypeOK, RowsType
  <2> QED BY <2>1, <2>2
<1>2. form' = [p \in Providers |-> Shown(saved'[p])]
  BY DEF Save, Discard
<1>3. RowsType'
  BY <1>1, <1>2, ShownType DEF RowsType
<1> QED BY <1>3, RowsKeep DEF Save, Discard
-----------------------------------------------------------------------------
(* Whatever the user does and in whatever order answers come.              *)
LEMMA StepKeeps == ASSUME IInv, [Next]_vars PROVE IInv'
<1>1. ASSUME NEW p \in Providers,
             \/ RunTest(p) \/ LoadClicked(p) \/ RowClicked(p)
             \/ EditProvider(p) \/ AddProvider(p) \/ DeleteProvider(p)
      PROVE  IInv'
  BY <1>1, RunTestKeeps, EditorKeeps, FormsKeep, DeleteKeeps
<1>2. ASSUME NEW r \in flight, HostReads(r) \/ TestAnswered(r) \/ ModelsArrive(r)
      PROVE  IInv'
  BY <1>2, HostReadsKeeps, TestAnsweredKeeps, ModelsArriveKeeps
<1>3. CASE TimerFires
  BY <1>3, LoadKeeps DEF TimerFires, Rows, rows, IInv, TypeOK, RowsType
<1>4. CASE UNCHANGED <<rows, testing, loading, flight>>
  BY <1>4, RowsKeep DEF rows, IInv, TypeOK, RowsType
<1> QED BY <1>1, <1>2, <1>3, <1>4, SaveKeeps DEF Next, OpenAdd, CatalogArrives, vars

(* The inductive invariant holds in every reachable state.                 *)
THEOREM InvariantHolds == Spec => []IInv
BY InitKeeps, StepKeeps, PTL DEF Spec

(* A green lamp stands for a test of the fields the row shows, up to which *)
(* key was typed (settings-card.tsx runTest, identity.ts keyStateOf).      *)
THEOREM LampsCoverFields == Spec => []LampCoversFields
BY InvariantHolds, InvariantImplies, PTL

(* A stale response never overwrites a newer model list (settings-card.tsx *)
(* loadModels).                                                            *)
THEOREM ListsAreLatest == Spec => []ListIsLatest
BY InvariantHolds, InvariantImplies, PTL
=============================================================================
