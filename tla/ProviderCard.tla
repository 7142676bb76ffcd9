------------------------------ MODULE ProviderCard ------------------------------
(***************************************************************************)
(* The provider rows of the settings card                                  *)
(* (packages/image-mind/src/client/settings-card.tsx) and the two requests *)
(* the host answers for them (runtime/vision-rpc.ts): a connection test,   *)
(* whose result the status lamp of a row shows, and the discovery of the   *)
(* endpoint's models.  The user edits, deletes and saves while requests    *)
(* are under way, and their answers come in any order.                     *)
(*                                                                         *)
(* A form has the fields that are always sent (base URL, model and whether *)
(* the endpoint needs no key), one of those a blank of which is not sent   *)
(* (protocol, output cap, credential reference), and the key field, which  *)
(* is blank, a mask, or a typed key.                                       *)
(* How a save is done is SettingsStore's matter; here it is one step.      *)
(***************************************************************************)
EXTENDS Integers, FiniteSets, TLC

CONSTANTS
  Providers,   \* provider ids
  Endpoints,
  Keyless,     \* those that need no key
  Options,     \* values of the optional field
  Keys,        \* keys a user may type
  None,        \* undefined, or a blank field
  Mask,        \* what the key field shows of a stored key
  Catalog,     \* the ids the catalog has templates for
  MaxEdits,    \* bound on the changes of the forms
  MaxTests,    \* bound on the tests
  MaxLoads     \* bound on the discoveries

ASSUME NamesAssumption ==
  /\ {None, Mask} \cap (Options \cup Keys \cup Providers \cup {"typed"}) = {}
  /\ Catalog \subseteq Providers /\ Keyless \subseteq Endpoints

VARIABLES
  form,      \* form[p]: the row of p, or None
  dropped,   \* the rows deleted since the last save that are still saved
  saved,     \* saved[p]: the record the host has of p, or None
  tests,     \* tests[p]: the test state of p, or None
  models,    \* models[p]: the model list of p, or None
  gen,       \* discoveryGen
  editing,   \* the row whose editor is open, or None
  timer,     \* the editor's debounced discovery is due
  addMode,   \* "none", "catalog" or "custom"
  catalog,   \* the templates have arrived
  flight,    \* the requests under way
  edits, runs,  \* how often a form was changed, and a test begun
  latest     \* history: latest[p], the generation of p's last discovery

rows == <<form, dropped, saved, edits>>
testing == <<tests, runs>>
loading == <<models, gen, latest>>
ui == <<editing, timer, addMode, catalog>>
vars == <<rows, testing, loading, ui, flight>>

(* The card opens on one saved provider, a custom one.                     *)
Init ==
  /\ \E p \in Providers \ Catalog, e \in Endpoints, k \in Keys :
       /\ saved = [q \in Providers |->
                     IF q = p THEN [endpoint |-> e, option |-> None, key |-> k] ELSE None]
       /\ form = [q \in Providers |->
                     IF q = p THEN [endpoint |-> e, option |-> None, key |-> Mask] ELSE None]
  /\ tests = [p \in Providers |-> None] /\ runs = 0
  /\ models = [p \in Providers |-> None] /\ gen = 0
  /\ latest = [p \in Providers |-> 0]
  /\ editing = None /\ timer = FALSE /\ addMode = "none" /\ catalog = FALSE
  /\ flight = {} /\ edits = 0 /\ dropped = {}

Rows == {p \in Providers : form[p] # None}

(* What a row shows of a saved record, whose key it does not know.         *)
Shown(record) ==
  IF record = None THEN None
  ELSE [record EXCEPT !.key = IF @ = None THEN None ELSE Mask]

(* A blank key field still has the stored key behind it.                   *)
ValidKey(p) ==
  \/ form[p].endpoint \in Keyless
  \/ form[p].key # None
  \/ saved[p] # None /\ saved[p].key # None

(* keyStateOf keeps of a typed key only that it was typed.                 *)
Fingerprint(f) == [f EXCEPT !.key = IF f.key \in Keys THEN "typed" ELSE f.key]

(* providerOverrides, and the key beside it: a blank field or a mask is    *)
(* not sent.                                                               *)
Overrides(f) == [f EXCEPT !.key = IF f.key \in Keys THEN f.key ELSE None]
-----------------------------------------------------------------------------
(* The connection test.                                                    *)

(* testConnection: what is sent, and the connection it will be kept for.   *)
TestRequest(p) ==
  [kind |-> "test", id |-> runs + 1, provider |-> p, sent |-> Overrides(form[p]),
   fingerprint |-> Fingerprint(form[p]), wire |-> None]

(* runTest, up to its await.  The button needs a complete row and a key,   *)
(* or an endpoint that asks for none.                                      *)
RunTest(p) ==
  /\ editing = p /\ p \in Rows /\ ValidKey(p) /\ runs < MaxTests
  /\ runs' = runs + 1
  /\ tests' = [tests EXCEPT ![p] = [status |-> "testing", wire |-> None,
                                    fingerprint |-> Fingerprint(form[p])]]
  /\ flight' = flight \cup {TestRequest(p)}
  /\ UNCHANGED <<rows, loading, ui>>

(* draftProvider: what was sent, over the saved record.                    *)
DraftProvider(sent, record) ==
  [endpoint |-> sent.endpoint,
   option |-> IF sent.option # None \/ record = None THEN sent.option ELSE record.option,
   key |-> IF sent.key # None \/ record = None THEN sent.key ELSE record.key]

(* runConnectionTest begins: the probe holds its snapshot from here on.    *)
HostReads(r) ==
  /\ r.kind = "test" /\ r.wire = None
  /\ flight' = (flight \ {r}) \cup
                 {[r EXCEPT !.wire = DraftProvider(r.sent, saved[r.provider])]}
  /\ UNCHANGED <<rows, testing, loading, ui>>

(* Mutant: the result belongs to the row, whatever it says by now.         *)
TestAnsweredAnyway(r) ==
  /\ r.kind = "test" /\ r.wire # None
  /\ flight' = flight \ {r}
  /\ \E status \in {"ok", "fail"} :
       tests' = IF tests[r.provider] = None THEN tests
                ELSE [tests EXCEPT ![r.provider].status = status, ![r.provider].wire = r.wire]
  /\ UNCHANGED <<rows, runs, loading, ui>>

(* A result is kept if the row's test state is of the same connection.     *)
TestAnswered(r) ==
  /\ r.kind = "test" /\ r.wire # None
  /\ flight' = flight \ {r}
  /\ \E status \in {"ok", "fail"} :
       tests' = IF tests[r.provider] # None
                   /\ tests[r.provider].fingerprint = r.fingerprint
                THEN [tests EXCEPT ![r.provider] =
                        [status |-> status, wire |-> r.wire, fingerprint |-> r.fingerprint]]
                ELSE tests
  /\ UNCHANGED <<rows, runs, loading, ui>>

(* What the lamp of a row shows.                                           *)
Lamp(p) ==
  IF tests[p] # None /\ tests[p].fingerprint = Fingerprint(form[p])
  THEN tests[p].status ELSE "untested"
-----------------------------------------------------------------------------
(* The discovery of models.                                                *)

(* listModels: what is listed depends on nothing the properties tell apart.*)
ModelsRequest(p) == [kind |-> "models", id |-> gen + 1, provider |-> p]

(* loadModels, up to its await.                                            *)
LoadModels(p) ==
  /\ gen < MaxLoads
  /\ gen' = gen + 1
  /\ models' = [models EXCEPT ![p] = [loading |-> TRUE, gen |-> gen']]
  /\ latest' = [latest EXCEPT ![p] = gen']
  /\ flight' = flight \cup {ModelsRequest(p)}

(* Mutant: the answer is taken, whatever was asked since.                  *)
ModelsArriveAnyway(r) ==
  /\ r.kind = "models"
  /\ flight' = flight \ {r}
  /\ models' = [models EXCEPT ![r.provider] = [loading |-> FALSE, gen |-> r.id]]
  /\ UNCHANGED <<rows, testing, gen, latest, ui>>

(* listEndpointModels always has candidates or a reason.                   *)
ModelsArrive(r) ==
  /\ r.kind = "models"
  /\ flight' = flight \ {r}
  /\ models' = IF r.id = gen
               THEN [models EXCEPT ![r.provider] = [loading |-> FALSE, gen |-> r.id]]
               ELSE models
  /\ UNCHANGED <<rows, testing, gen, latest, ui>>

(* The button of the model field is off while its list is loading.         *)
LoadClicked(p) ==
  /\ editing = p /\ p \in Rows
  /\ models[p] # None => ~models[p].loading
  /\ LoadModels(p)
  /\ UNCHANGED <<rows, testing, ui>>

(* The debounced discovery for a typed key.                                *)
TimerFires ==
  /\ timer /\ editing \in Rows
  /\ timer' = FALSE
  /\ LoadModels(editing)
  /\ UNCHANGED <<rows, testing, editing, addMode, catalog>>
-----------------------------------------------------------------------------
(* Opening and closing editors.                                            *)

(* The effect of a new editor: the list is loaded once, if there is none   *)
(* and the row can authenticate.                                           *)
Edit(p) ==
  /\ editing' = p /\ timer' = FALSE
  /\ IF p \in Rows /\ models[p] = None /\ ValidKey(p)
     THEN LoadModels(p)
     ELSE UNCHANGED <<loading, flight>>

RowClicked(p) ==
  /\ p \in Rows
  /\ IF editing = p
     THEN /\ editing' = None /\ timer' = FALSE
          /\ UNCHANGED <<loading, flight>>
     ELSE Edit(p)
  /\ UNCHANGED <<rows, testing, addMode, catalog>>

(* openCatalog, or the button for a custom provider.                       *)
OpenAdd(mode) ==
  /\ addMode' = IF mode = addMode /\ mode = "custom" THEN "none" ELSE mode
  /\ addMode' # addMode
  /\ UNCHANGED <<rows, testing, loading, editing, timer, catalog, flight>>

(* The templates are fetched when the list is opened, until it has them.   *)
CatalogArrives ==
  /\ addMode = "catalog" /\ ~catalog
  /\ catalog' = TRUE
  /\ UNCHANGED <<rows, testing, loading, editing, timer, addMode, flight>>
-----------------------------------------------------------------------------
(* The forms.                                                              *)

Change(p, f) ==
  /\ edits < MaxEdits
  /\ edits' = edits + 1
  /\ form' = [form EXCEPT ![p] = f]
  /\ dropped' = dropped \ {p}
  /\ UNCHANGED saved

(* A new base URL stops the timer; so does a key that is typed, which may  *)
(* start it anew: that depends on which of the editor's effects first sees *)
(* the key.                                                                *)
EditProvider(p) ==
  /\ editing = p /\ p \in Rows
  /\ \/ \E e \in Endpoints \ {form[p].endpoint} :
          Change(p, [form[p] EXCEPT !.endpoint = e]) /\ timer' = FALSE
     \/ \E o \in (Options \cup {None}) \ {form[p].option} :
          Change(p, [form[p] EXCEPT !.option = o]) /\ UNCHANGED timer
     \/ \E k \in (Keys \cup {None}) \ {form[p].key} :
          /\ Change(p, [form[p] EXCEPT !.key = k])
          /\ timer' \in IF k = None THEN {FALSE} ELSE BOOLEAN
  /\ UNCHANGED <<testing, loading, editing, addMode, catalog, flight>>

(* pickFromCatalog and addCustom: refused if the id is taken.  The editor  *)
(* of the new row opens and loads its models if the template needs no key; *)
(* a custom row has no base URL yet.                                       *)
AddProvider(p) ==
  /\ p \notin Rows
  /\ \E e \in Endpoints :
       /\ Change(p, [endpoint |-> e, option |-> None, key |-> None])
       /\ \/ addMode = "custom" /\ UNCHANGED <<loading, flight>>
          \/ /\ addMode = "catalog" /\ catalog /\ p \in Catalog
             /\ IF models[p] = None /\ e \in Keyless
                THEN LoadModels(p)
                ELSE UNCHANGED <<loading, flight>>
  /\ addMode' = "none"
  /\ editing' = p /\ timer' = FALSE
  /\ UNCHANGED <<testing, catalog>>

Deletes(p) ==
  /\ p \in Rows /\ edits < MaxEdits
  /\ edits' = edits + 1
  /\ form' = [form EXCEPT ![p] = Shown(saved[p])]
  /\ dropped' = IF saved[p] = None THEN dropped ELSE dropped \cup {p}
  /\ editing' = None /\ timer' = FALSE

(* A row that is saved is shown as it was saved until the next save.       *)
DeleteProvider(p) ==
  /\ Deletes(p)
  /\ tests' = [tests EXCEPT ![p] = None]
  /\ models' = [models EXCEPT ![p] = None]
  /\ UNCHANGED <<saved, runs, gen, latest, addMode, catalog, flight>>

(* A typed key is stored; a blank key field leaves the stored key alone.   *)
Stored(p) ==
  IF p \in dropped \/ p \notin Rows THEN None
  ELSE [form[p] EXCEPT !.key = IF @ \in Keys THEN @
                               ELSE IF saved[p] = None THEN None ELSE saved[p].key]

Save ==
  /\ edits < MaxEdits
  /\ edits' = edits + 1
  /\ saved' = [p \in Providers |-> Stored(p)]
  /\ form' = [p \in Providers |-> Shown(saved'[p])]
  /\ dropped' = {}
  /\ UNCHANGED <<testing, loading, ui, flight>>

Discard ==
  /\ edits < MaxEdits
  /\ edits' = edits + 1
  /\ form' = [p \in Providers |-> Shown(saved[p])]
  /\ dropped' = {}
  /\ UNCHANGED <<saved, testing, loading, ui, flight>>

Next ==
  \/ \E p \in Providers :
       \/ RunTest(p) \/ LoadClicked(p) \/ RowClicked(p)
       \/ EditProvider(p) \/ AddProvider(p) \/ DeleteProvider(p)
  \/ \E r \in flight : HostReads(r) \/ TestAnswered(r) \/ ModelsArrive(r)
  \/ \E mode \in {"catalog", "custom"} : OpenAdd(mode)
  \/ CatalogArrives \/ TimerFires \/ Save \/ Discard

Spec == Init /\ [][Next]_vars
-----------------------------------------------------------------------------
(* A wire request made the connection that a form describes, up to what    *)
(* the form leaves to the saved record.                                    *)
Tested(wire, f) ==
  /\ wire.endpoint = f.endpoint
  /\ f.option # None => wire.option = f.option

(* What a green lamp of the card stands for, however edits, saves,         *)
(* deletions and late answers fall: a test passed on the base URL and      *)
(* model of its row, on the other fields the row fills in, and, if a key   *)
(* is typed, on some typed key.  settings-card.tsx:9-13 and identity.ts:35 *)
(* say more, that typing another key invalidates the result; it does not,  *)
(* because the fingerprint does not tell typed keys apart.                 *)
LampCoversFields ==
  \A p \in Rows : Lamp(p) = "ok" =>
    /\ Tested(tests[p].wire, form[p])
    /\ form[p].key \in Keys => tests[p].wire.key \in Keys

(* A model list that is shown is the answer to the last discovery of its   *)
(* provider: "a stale response can never overwrite a newer one".           *)
ListIsLatest ==
  \A p \in Providers :
    models[p] # None => models[p].gen = latest[p]
=============================================================================
