--------------------------- MODULE PluginEntryProofs ---------------------------
(***************************************************************************)
(* Safety of the vision service under its plugins, for any plugins,        *)
(* providers, owner names and numbers of changes: nothing is stranded or   *)
(* taken in the registry, the plugin knows what it has registered, and no  *)
(* strategy outlives its plugin.  And safety of the tool the plugin        *)
(* registers, for any calls, images, bounds and changes of the settings:   *)
(* what it asks is loaded whole, and what it keeps for reuse is broad.     *)
(***************************************************************************)
EXTENDS PluginEntry, UnderstandImage, SequenceLemmas

(* The values the service takes.                                           *)
Services ==
  [adapters   : [Providers -> Fibers \cup {None}],
   routes     : [Fibers -> SUBSET Providers],
   live       : [Fibers -> BOOLEAN],
   directory  : SUBSET Providers,
   held       : [Declarations -> SUBSET Providers],
   standalone : SUBSET Providers,
   default    : Fibers \cup {None}]

(* RegistryIsOwned of a value of the service, its two halves.              *)
RoutesOwned(r) ==
  \A p \in Providers, f \in Fibers :
    r.adapters[p] = f <=> r.live[f] /\ p \in r.routes[f]

DirectoryOwned(r) ==
  /\ r.directory = r.standalone \cup UNION {r.held[d] : d \in Declarations}
  /\ \A d \in Declarations :
       /\ r.held[d] \cap r.standalone = {}
       /\ \A e \in Declarations \ {d} : r.held[d] \cap r.held[e] = {}

Sound(r) == r \in Services /\ RoutesOwned(r) /\ DirectoryOwned(r)

(* A plugin that is not loaded has left nothing behind.                    *)
Gone(r, f) == ~r.live[f] /\ r.routes[f] = {} /\ r.default # f

-----------------------------------------------------------------------------
(* What each operation of the service does to a sound value, and that it   *)
(* leaves a sound one.                                                     *)

LEMMA EmptyIsSound ==
  Sound(EmptyRuntime) /\ \A f \in Fibers : Gone(EmptyRuntime, f)
BY RuntimeAssumption
   DEF Sound, Services, RoutesOwned, DirectoryOwned, Gone, EmptyRuntime

LEMMA RegisterKeeps ==
  ASSUME NEW r, Sound(r), NEW f \in Fibers, NEW ps \in SUBSET Providers,
         CanRegister(r, ps), r.routes[f] = {}
  PROVE  LET s == RegisterAdapter(r, f, ps)
         IN  /\ Sound(s)
             /\ s.routes = [r.routes EXCEPT ![f] = ps]
             /\ s.live = [r.live EXCEPT ![f] = TRUE]
             /\ s.held = r.held /\ s.default = r.default
<1> DEFINE s == RegisterAdapter(r, f, ps)
<1>1. /\ s \in Services
      /\ s.adapters = [p \in Providers |-> IF p \in ps THEN f ELSE r.adapters[p]]
      /\ s.routes = [r.routes EXCEPT ![f] = ps]
      /\ s.live = [r.live EXCEPT ![f] = TRUE]
      /\ s.directory = r.directory /\ s.standalone = r.standalone
      /\ s.held = r.held /\ s.default = r.default
  BY DEF Sound, Services, RegisterAdapter
<1>2. RoutesOwned(s)
  <2> SUFFICES ASSUME NEW p \in Providers, NEW g \in Fibers
               PROVE  s.adapters[p] = g <=> s.live[g] /\ p \in s.routes[g]
    BY DEF RoutesOwned
  <2>1. p \in ps => r.adapters[p] = None
    BY DEF CanRegister, PrepareRoutes, Live
  <2>2. r.adapters[p] = g <=> r.live[g] /\ p \in r.routes[g]
    BY DEF Sound, RoutesOwned
  <2>3. r.live \in [Fibers -> BOOLEAN] /\ r.routes \in [Fibers -> SUBSET Providers] /\ None \notin Fibers
    BY RuntimeAssumption DEF Sound, Services
  <2> QED BY <1>1, <2>1, <2>2, <2>3
<1>3. DirectoryOwned(s)
  BY <1>1 DEF Sound, DirectoryOwned
<1> QED BY <1>1, <1>2, <1>3 DEF Sound

LEMMA ReplaceKeeps ==
  ASSUME NEW r, Sound(r), NEW f \in Fibers, NEW ps \in SUBSET Providers,
         CanReplace(r, f, ps)
  PROVE  LET s == Replace(r, f, ps)
         IN  /\ Sound(s)
             /\ s.routes = [r.routes EXCEPT ![f] = ps]
             /\ s.live = r.live /\ s.held = r.held /\ s.default = r.default
<1> DEFINE s == Replace(r, f, ps)
<1>1. /\ s \in Services
      /\ s.adapters = [p \in Providers |-> IF p \in ps THEN f
                                           ELSE IF p \in r.routes[f] THEN None ELSE r.adapters[p]]
      /\ s.routes = [r.routes EXCEPT ![f] = ps]
      /\ s.live = r.live
      /\ s.directory = r.directory /\ s.standalone = r.standalone
      /\ s.held = r.held /\ s.default = r.default
  BY DEF Sound, Services, Replace
<1>2. RoutesOwned(s)
  <2> SUFFICES ASSUME NEW p \in Providers, NEW g \in Fibers
               PROVE  s.adapters[p] = g <=> s.live[g] /\ p \in s.routes[g]
    BY DEF RoutesOwned
  <2>1. r.live[f] /\ (p \in ps /\ r.adapters[p] # None => p \in r.routes[f])
    BY DEF CanReplace, PrepareRoutes, Live
  <2>2. /\ r.adapters[p] = g <=> r.live[g] /\ p \in r.routes[g]
        /\ r.adapters[p] = f <=> r.live[f] /\ p \in r.routes[f]
    BY DEF Sound, RoutesOwned
  <2>3. r.live \in [Fibers -> BOOLEAN] /\ r.routes \in [Fibers -> SUBSET Providers] /\ None \notin Fibers
    BY RuntimeAssumption DEF Sound, Services
  <2> QED BY <1>1, <2>1, <2>2, <2>3
<1>3. DirectoryOwned(s)
  BY <1>1 DEF Sound, DirectoryOwned
<1> QED BY <1>1, <1>2, <1>3 DEF Sound

LEMMA ReleaseKeeps ==
  ASSUME NEW r, Sound(r), NEW f \in Fibers
  PROVE  LET s == Release(r, f)
         IN  /\ Sound(s)
             /\ s.live = [r.live EXCEPT ![f] = FALSE]
             /\ s.routes = r.routes /\ s.held = r.held /\ s.default = r.default
<1> DEFINE s == Release(r, f)
<1>1. /\ s \in Services
      /\ s.adapters = [p \in Providers |-> IF p \in r.routes[f] /\ r.adapters[p] = f
                                           THEN None ELSE r.adapters[p]]
      /\ s.live = [r.live EXCEPT ![f] = FALSE]
      /\ s.directory = r.directory /\ s.standalone = r.standalone
      /\ s.routes = r.routes /\ s.held = r.held /\ s.default = r.default
  BY DEF Sound, Services, Release
<1>2. RoutesOwned(s)
  <2> SUFFICES ASSUME NEW p \in Providers, NEW g \in Fibers
               PROVE  s.adapters[p] = g <=> s.live[g] /\ p \in s.routes[g]
    BY DEF RoutesOwned
  <2>1. /\ r.adapters[p] = g <=> r.live[g] /\ p \in r.routes[g]
        /\ r.adapters[p] = f <=> r.live[f] /\ p \in r.routes[f]
    BY DEF Sound, RoutesOwned
  <2>2. r.live \in [Fibers -> BOOLEAN] /\ None \notin Fibers
    BY RuntimeAssumption DEF Sound, Services
  <2> QED BY <1>1, <2>1, <2>2
<1>3. DirectoryOwned(s)
  BY <1>1 DEF Sound, DirectoryOwned
<1> QED BY <1>1, <1>2, <1>3 DEF Sound

LEMMA DeclareKeeps ==
  ASSUME NEW r, Sound(r), NEW d \in Declarations, NEW ids \in SUBSET Providers,
         CanDeclare(r, d, ids)
  PROVE  LET s == Declare(r, d, ids)
         IN  /\ Sound(s)
             /\ s.held = [r.held EXCEPT ![d] = ids]
             /\ s.routes = r.routes /\ s.live = r.live /\ s.default = r.default
<1> DEFINE s == Declare(r, d, ids)
<1>1. /\ s \in Services
      /\ s.directory = (r.directory \ r.held[d]) \cup ids
      /\ s.held = [r.held EXCEPT ![d] = ids]
      /\ s.adapters = r.adapters /\ s.standalone = r.standalone
      /\ s.routes = r.routes /\ s.live = r.live /\ s.default = r.default
  BY DEF Sound, Services, Declare
<1>2. r.held \in [Declarations -> SUBSET Providers] /\ DirectoryOwned(r)
  BY DEF Sound, Services
<1>3. \A e \in Declarations : s.held[e] = IF e = d THEN ids ELSE r.held[e]
  BY <1>1, <1>2
<1>4. s.directory = s.standalone \cup UNION {s.held[e] : e \in Declarations}
  <2>1. /\ r.directory = r.standalone \cup UNION {r.held[e] : e \in Declarations}
        /\ r.held[d] \cap r.standalone = {}
        /\ \A e \in Declarations \ {d} : r.held[d] \cap r.held[e] = {}
    BY <1>2 DEF DirectoryOwned
  <2> QED BY <1>1, <1>3, <2>1
<1>5. \A e \in Declarations : e # d => r.held[e] \cap ids = {}
  BY <1>2 DEF DirectoryOwned, CanDeclare
<1>6. ASSUME NEW e \in Declarations
      PROVE  /\ s.held[e] \cap s.standalone = {}
             /\ \A g \in Declarations \ {e} : s.held[e] \cap s.held[g] = {}
  <2>1. ids \cap r.standalone = {}
    BY <1>2 DEF DirectoryOwned, CanDeclare
  <2>2. s.held[e] \cap s.standalone = {}
    BY <1>1, <1>2, <1>3, <2>1 DEF DirectoryOwned
  <2>3. \A g \in Declarations \ {e} : s.held[e] \cap s.held[g] = {}
    BY <1>2, <1>3, <1>5 DEF DirectoryOwned
  <2> QED BY <2>2, <2>3
<1>7. RoutesOwned(s)
  BY <1>1 DEF Sound, RoutesOwned
<1> QED BY <1>1, <1>4, <1>6, <1>7 DEF Sound, DirectoryOwned

(* An entry that no registration holds.                                    *)
LEMMA RegisterProviderKeeps ==
  ASSUME NEW r, Sound(r), NEW p \in Providers, CanRegisterProvider(r, p)
  PROVE  LET s == RegisterProvider(r, p)
         IN  /\ Sound(s)
             /\ s.routes = r.routes /\ s.live = r.live
             /\ s.held = r.held /\ s.default = r.default
<1> DEFINE s == RegisterProvider(r, p)
<1>1. /\ s \in Services
      /\ s.directory = r.directory \cup {p} /\ s.standalone = r.standalone \cup {p}
      /\ s.adapters = r.adapters /\ s.held = r.held
      /\ s.routes = r.routes /\ s.live = r.live /\ s.default = r.default
  BY DEF Sound, Services, RegisterProvider
<1>2. \A d \in Declarations : p \notin r.held[d]
  BY DEF Sound, DirectoryOwned, CanRegisterProvider
<1>3. DirectoryOwned(s)
  BY <1>1, <1>2 DEF Sound, DirectoryOwned
<1>4. RoutesOwned(s)
  BY <1>1 DEF Sound, RoutesOwned
<1> QED BY <1>1, <1>3, <1>4 DEF Sound

(* The strategy is in neither half.                                        *)
LEMMA OwnDefaultKeeps ==
  ASSUME NEW r, Sound(r), NEW f \in Fibers
  PROVE  LET s == OwnDefault(r, f)
         IN  /\ Sound(s)
             /\ s.routes = r.routes /\ s.live = r.live /\ s.held = r.held
             /\ s.default = f
BY DEF Sound, Services, RoutesOwned, DirectoryOwned, OwnDefault

LEMMA DropDefaultKeeps ==
  ASSUME NEW r, Sound(r), NEW f \in Fibers
  PROVE  LET s == DropDefault(r, f)
         IN  /\ Sound(s)
             /\ s.routes = r.routes /\ s.live = r.live /\ s.held = r.held
             /\ s.default \in {None, r.default} /\ s.default # f
BY RuntimeAssumption
   DEF Sound, Services, RoutesOwned, DirectoryOwned, DropDefault

LEMMA TeardownKeeps ==
  ASSUME NEW r, Sound(r), NEW f \in Fibers, NEW ds \in SUBSET Declarations
  PROVE  LET s == [Teardown(r, f, ds) EXCEPT !.routes[f] = {}]
         IN  /\ Sound(s) /\ Gone(s, f)
             /\ s.routes = [r.routes EXCEPT ![f] = {}]
             /\ s.live = [r.live EXCEPT ![f] = FALSE]
             /\ \A d \in Declarations \ ds : s.held[d] = r.held[d]
             /\ s.default \in {None, r.default}
<1> DEFINE released == Release(r, f)
           rest == DropDefault(released, f)
           gone == UNION {rest.held[d] : d \in ds}
           s == [Teardown(r, f, ds) EXCEPT !.routes[f] = {}]
<1>1. /\ Sound(released)
      /\ released.live = [r.live EXCEPT ![f] = FALSE]
      /\ released.routes = r.routes /\ released.held = r.held /\ released.default = r.default
  BY ReleaseKeeps
<1>2. /\ Sound(rest)
      /\ rest.live = released.live
      /\ rest.routes = r.routes /\ rest.held = r.held
      /\ rest.default \in {None, r.default} /\ rest.default # f
  <2> HIDE DEF released
  <2> QED BY <1>1, DropDefaultKeeps
<1>3. s = [[rest EXCEPT !.directory = @ \ gone,
                        !.held = [d \in Declarations |-> IF d \in ds THEN {} ELSE @[d]]]
             EXCEPT !.routes[f] = {}]
  BY <1>2 DEF Teardown, WithdrawAll
<1> HIDE DEF rest, released, s
<1>4. /\ s \in Services
      /\ s.adapters = rest.adapters /\ s.live = rest.live /\ s.standalone = rest.standalone
      /\ s.routes = [rest.routes EXCEPT ![f] = {}]
      /\ s.directory = rest.directory \ gone
      /\ s.held = [d \in Declarations |-> IF d \in ds THEN {} ELSE rest.held[d]]
      /\ s.default = rest.default
  BY <1>2, <1>3 DEF Sound, Services
<1>5. RoutesOwned(s)
  <2> SUFFICES ASSUME NEW p \in Providers, NEW g \in Fibers
               PROVE  s.adapters[p] = g <=> s.live[g] /\ p \in s.routes[g]
    BY DEF RoutesOwned
  <2>1. rest.adapters[p] = g <=> rest.live[g] /\ p \in rest.routes[g]
    BY <1>2 DEF Sound, RoutesOwned
  <2>2. r.live \in [Fibers -> BOOLEAN] /\ r.routes \in [Fibers -> SUBSET Providers]
    BY DEF Sound, Services
  <2>3. ~rest.live[f]
    BY <1>1, <1>2, <2>2
  <2> QED BY <1>2, <1>4, <2>1, <2>2, <2>3
<1>6. DirectoryOwned(s)
  <2>1. DirectoryOwned(rest) /\ rest.held \in [Declarations -> SUBSET Providers]
    BY <1>2 DEF Sound, Services
  <2>2. \A d \in Declarations : s.held[d] = IF d \in ds THEN {} ELSE rest.held[d]
    BY <1>4
  <2>3. s.directory = s.standalone \cup UNION {s.held[d] : d \in Declarations}
    <3>1. ASSUME NEW p \in s.directory, p \notin s.standalone
          PROVE  \E d \in Declarations : p \in s.held[d]
      BY <1>4, <2>1, <2>2, <3>1 DEF DirectoryOwned
    <3>2. ASSUME NEW d \in Declarations, NEW p \in s.held[d]
          PROVE  p \in s.directory
      <4>1. d \notin ds /\ p \in rest.held[d] /\ p \in rest.directory
        BY <2>1, <2>2 DEF DirectoryOwned
      <4>2. \A e \in ds : p \notin rest.held[e]
        BY <2>1, <4>1 DEF DirectoryOwned
      <4> QED BY <1>4, <4>1, <4>2
    <3>3. ASSUME NEW p \in s.standalone
          PROVE  p \in s.directory
      <4>1. p \in rest.directory /\ \A d \in Declarations : p \notin rest.held[d]
        BY <1>4, <2>1 DEF DirectoryOwned
      <4> QED BY <1>4, <4>1
    <3> QED BY <3>1, <3>2, <3>3
  <2>4. ASSUME NEW d \in Declarations
        PROVE  /\ s.held[d] \cap s.standalone = {}
               /\ \A e \in Declarations \ {d} : s.held[d] \cap s.held[e] = {}
    BY <1>4, <2>1, <2>2 DEF DirectoryOwned
  <2> QED BY <2>3, <2>4 DEF DirectoryOwned
<1>7. /\ Gone(s, f)
      /\ s.routes = [r.routes EXCEPT ![f] = {}]
      /\ s.live = [r.live EXCEPT ![f] = FALSE]
  BY <1>1, <1>2, <1>4 DEF Gone, Sound, Services
<1>8. \A d \in Declarations \ ds : s.held[d] = r.held[d]
  BY <1>2, <1>4
<1>9. s.default \in {None, r.default}
  BY <1>2, <1>4
<1> QED BY <1>4, <1>5, <1>6, <1>7, <1>8, <1>9 DEF Sound, s
-----------------------------------------------------------------------------
(* What the plugin remembers of its routes.                                *)
Known(r, note) ==
  note = r.routes[ImageMind] /\ (~r.live[ImageMind] => r.routes[ImageMind] = {})

LEMMA EnsureRegistrationKeeps ==
  ASSUME NEW r, Sound(r), NEW note, NEW routes \in SUBSET Providers,
         Known(r, note) \/ (note = None /\ r.routes[ImageMind] = {})
  PROVE  LET e == EnsureRegistration(r, note, routes)
         IN  /\ e.ok \in BOOLEAN
             /\ Sound(e.rt)
             /\ e.ok => e.note = routes /\ Known(e.rt, routes)
             /\ ~e.ok => e.rt = r /\ e.note = note
             /\ \A f \in Fibers \ {ImageMind} :
                  e.rt.routes[f] = r.routes[f] /\ e.rt.live[f] = r.live[f]
             /\ e.rt.held = r.held /\ e.rt.default = r.default
<1> DEFINE e == EnsureRegistration(r, note, routes)
<1>0. /\ ImageMind \in Fibers
      /\ r.live \in [Fibers -> BOOLEAN] /\ r.routes \in [Fibers -> SUBSET Providers]
  BY EntryAssumption DEF Sound, Services
<1>1. CASE note # None /\ r.live[ImageMind]
  <2>1. Known(r, note)
    BY <1>1
  <2>2. CASE note = routes
    BY <1>1, <2>1, <2>2 DEF EnsureRegistration
  <2>3. CASE note # routes /\ CanReplace(r, ImageMind, routes)
    <3>1. e = [ok |-> TRUE, rt |-> Replace(r, ImageMind, routes), note |-> routes]
      BY <1>1, <2>3 DEF EnsureRegistration
    <3>2. /\ Sound(e.rt)
          /\ e.rt.routes = [r.routes EXCEPT ![ImageMind] = routes]
          /\ e.rt.live = r.live /\ e.rt.held = r.held /\ e.rt.default = r.default
      BY <1>0, <2>3, <3>1, ReplaceKeeps
    <3> QED BY <1>0, <1>1, <3>1, <3>2 DEF Known
  <2>4. CASE note # routes /\ ~CanReplace(r, ImageMind, routes)
    BY <1>1, <2>4 DEF EnsureRegistration
  <2> QED BY <2>2, <2>3, <2>4
<1>2. CASE ~(note # None /\ r.live[ImageMind])
  <2>1. r.routes[ImageMind] = {}
    BY <1>0, <1>2, EntryAssumption DEF Known
  <2>2. CASE routes = {}
    <3>1. e = [ok |-> TRUE, rt |-> r, note |-> {}]
      BY <1>2, <2>2 DEF EnsureRegistration
    <3>2. e.ok = TRUE /\ e.rt = r /\ e.note = routes
      BY <2>2, <3>1
    <3>3. Known(e.rt, routes)
      BY <2>1, <2>2, <3>2 DEF Known
    <3> QED BY <3>2, <3>3
  <2>3. CASE routes # {} /\ CanRegister(r, routes)
    <3>1. e = [ok |-> TRUE, rt |-> RegisterAdapter(r, ImageMind, routes), note |-> routes]
      BY <1>2, <2>3 DEF EnsureRegistration
    <3>2. /\ Sound(e.rt)
          /\ e.rt.routes = [r.routes EXCEPT ![ImageMind] = routes]
          /\ e.rt.live = [r.live EXCEPT ![ImageMind] = TRUE]
          /\ e.rt.held = r.held /\ e.rt.default = r.default
      BY <1>0, <2>1, <2>3, <3>1, RegisterKeeps
    <3> QED BY <1>0, <3>1, <3>2 DEF Known
  <2>4. CASE routes # {} /\ ~CanRegister(r, routes)
    BY <1>2, <2>4 DEF EnsureRegistration
  <2> QED BY <2>2, <2>3, <2>4
<1> QED BY <1>1, <1>2

LEMMA EnsureDirectoryKeeps ==
  ASSUME NEW r, Sound(r), NEW note, NEW providers \in SUBSET Providers
  PROVE  LET e == EnsureDirectory(r, note, providers)
         IN  /\ e.ok \in BOOLEAN
             /\ Sound(e.rt)
             /\ e.ok => e.note = providers \ CatalogIds /\ e.rt.held["user"] = e.note
             /\ ~e.ok => e.rt = r /\ e.note = note
             /\ e.rt.routes = r.routes /\ e.rt.live = r.live /\ e.rt.default = r.default
<1> DEFINE e == EnsureDirectory(r, note, providers)
           ids == providers \ CatalogIds
<1>0. "user" \in Declarations /\ ids \in SUBSET Providers
  BY EntryAssumption
<1>1. CASE CanDeclare(r, "user", ids)
  <2>1. e = [ok |-> TRUE, rt |-> Declare(r, "user", ids), note |-> ids]
    BY <1>1 DEF EnsureDirectory
  <2>2. /\ Sound(e.rt)
        /\ e.rt.held = [r.held EXCEPT !["user"] = ids]
        /\ e.rt.routes = r.routes /\ e.rt.live = r.live /\ e.rt.default = r.default
    BY <1>0, <1>1, <2>1, DeclareKeeps
  <2>3. e.rt.held["user"] = ids
    BY <1>0, <2>2 DEF Sound, Services
  <2>4. e.ok = TRUE /\ e.note = ids
    BY <2>1
  <2> QED BY <2>2, <2>3, <2>4
<1>2. CASE ~CanDeclare(r, "user", ids)
  BY <1>2 DEF EnsureDirectory
<1> QED BY <1>1, <1>2

-----------------------------------------------------------------------------
(* The inductive invariant.  Beside the three properties it says what the  *)
(* unloaded plugins have left, which is what lets a plugin register again, *)
(* and that what image-mind remembers is the state of its registration.    *)
InForce ==
  /\ lastGood \in Configs
  /\ Known(rt, registered)
  /\ named = rt.held["user"]
  /\ ~refused => /\ registered = lastGood.providers
                 /\ named = lastGood.providers \ CatalogIds

IInv ==
  /\ Sound(rt)
  /\ config \in Configs
  /\ loaded \subseteq Fibers
  /\ \A f \in Fibers \ loaded : Gone(rt, f)
  /\ ImageMind \in loaded => InForce

(* No step hands the strategy to another owner.                            *)
OwnerKept ==
  rt.default # None /\ rt'.default # None => OwnerOf[rt'.default] = OwnerOf[rt.default]

LEMMA InvariantImplies == IInv => RegistryIsOwned /\ PluginInStep /\ NoStaleResolver
BY DEF IInv, Sound, Services, RoutesOwned, DirectoryOwned, Gone, InForce, Known,
       RegistryIsOwned, PluginInStep, NoStaleResolver

LEMMA InitKeeps == Init => IInv
BY EmptyIsSound, EntryAssumption DEF Init, IInv

LEMMA LoadKeeps == ASSUME IInv, Load PROVE IInv' /\ OwnerKept
<1> DEFINE owned == OwnDefault(rt, ImageMind)
           routes == EnsureRegistration(owned, None, config.providers)
           catalog == Declare(routes.rt, "catalog", CatalogIds)
           user == EnsureDirectory(catalog, None, config.providers)
<1>1. /\ ImageMind \in Fibers /\ Sound(rt) /\ Gone(rt, ImageMind)
      /\ config.providers \in SUBSET Providers /\ config \in Configs
      /\ "catalog" \in Declarations /\ "user" \in Declarations
      /\ CatalogIds \in SUBSET Providers
  BY EntryAssumption DEF IInv, Load, Configs
<1>2. /\ routes.ok /\ CanDeclare(routes.rt, "catalog", CatalogIds) /\ user.ok
      /\ rt' = user.rt /\ registered' = routes.note /\ named' = user.note
      /\ loaded' = loaded \cup {ImageMind} /\ lastGood' = config /\ config' = config
  BY DEF Load
<1>3. /\ Sound(owned)
      /\ owned.routes = rt.routes /\ owned.live = rt.live
      /\ owned.default = ImageMind
  BY <1>1, OwnDefaultKeeps
<1>4. /\ Sound(routes.rt)
      /\ routes.note = config.providers /\ Known(routes.rt, config.providers)
      /\ \A f \in Fibers \ {ImageMind} :
           routes.rt.routes[f] = rt.routes[f] /\ routes.rt.live[f] = rt.live[f]
      /\ routes.rt.default = ImageMind
  BY <1>1, <1>2, <1>3, EnsureRegistrationKeeps DEF Gone
<1>5. /\ Sound(catalog)
      /\ catalog.routes = routes.rt.routes /\ catalog.live = routes.rt.live
      /\ catalog.default = routes.rt.default
  <2> DEFINE r == routes.rt
             d == "catalog"
  <2>1. /\ Sound(r) /\ CanDeclare(r, d, CatalogIds) /\ d \in Declarations
        /\ CatalogIds \in SUBSET Providers
    BY <1>1, <1>2, <1>4
  <2> HIDE DEF r, d
  <2>2. /\ Sound(Declare(r, d, CatalogIds))
        /\ Declare(r, d, CatalogIds).routes = r.routes
        /\ Declare(r, d, CatalogIds).live = r.live
        /\ Declare(r, d, CatalogIds).default = r.default
    BY <2>1, DeclareKeeps
  <2> QED BY <2>2 DEF r, d
<1>6. /\ Sound(rt')
      /\ named' = config.providers \ CatalogIds /\ named' = rt'.held["user"]
      /\ rt'.routes = routes.rt.routes /\ rt'.live = routes.rt.live
      /\ rt'.default = ImageMind
  BY <1>1, <1>2, <1>4, <1>5, EnsureDirectoryKeeps
<1>7. InForce'
  BY <1>1, <1>2, <1>4, <1>6 DEF InForce, Known
<1>8. ASSUME NEW f \in Fibers \ loaded' PROVE Gone(rt', f)
  <2>1. f \in Fibers \ {ImageMind} /\ Gone(rt, f)
    BY <1>2 DEF IInv
  <2>2. rt'.routes[f] = rt.routes[f] /\ rt'.live[f] = rt.live[f] /\ rt'.default # f
    BY <1>4, <1>6, <2>1
  <2> QED BY <2>1, <2>2 DEF Gone
<1>9. OwnerKept
  BY <1>6 DEF Load, CanOwnDefault, OwnerKept
<1> QED BY <1>1, <1>2, <1>6, <1>7, <1>8, <1>9 DEF IInv

LEMMA SettingsChangeKeeps == ASSUME IInv, SettingsChange PROVE IInv' /\ OwnerKept
<1> DEFINE routes == EnsureRegistration(rt, registered, lastGood'.providers)
           user == EnsureDirectory(routes.rt, named, lastGood'.providers)
<1>1. /\ ImageMind \in loaded /\ ImageMind \in Fibers /\ Sound(rt) /\ InForce
      /\ config' \in Configs /\ lastGood' \in Configs /\ loaded' = loaded
      /\ lastGood'.providers \in SUBSET Providers
  BY EntryAssumption DEF IInv, InForce, SettingsChange, Configs
<1>2. /\ registered' = routes.note
      /\ rt' = IF routes.ok THEN user.rt ELSE rt
      /\ named' = IF routes.ok THEN user.note ELSE named
      /\ refused' = ~(routes.ok /\ user.ok)
  BY DEF SettingsChange
<1>3. /\ routes.ok \in BOOLEAN
      /\ Sound(routes.rt)
      /\ routes.ok => routes.note = lastGood'.providers /\ Known(routes.rt, lastGood'.providers)
      /\ ~routes.ok => routes.rt = rt /\ routes.note = registered
      /\ \A f \in Fibers \ {ImageMind} :
           routes.rt.routes[f] = rt.routes[f] /\ routes.rt.live[f] = rt.live[f]
      /\ routes.rt.held = rt.held /\ routes.rt.default = rt.default
  BY <1>1, EnsureRegistrationKeeps DEF InForce
<1>4. /\ user.ok \in BOOLEAN
      /\ Sound(user.rt)
      /\ user.ok => user.note = lastGood'.providers \ CatalogIds /\ user.rt.held["user"] = user.note
      /\ ~user.ok => user.rt = routes.rt /\ user.note = named
      /\ user.rt.routes = routes.rt.routes /\ user.rt.live = routes.rt.live
      /\ user.rt.default = routes.rt.default
  BY <1>1, <1>3, EnsureDirectoryKeeps
<1> HIDE DEF routes, user
<1>5. Sound(rt')
  BY <1>1, <1>2, <1>3, <1>4
<1>6. \A f \in Fibers \ {ImageMind} :
        rt'.routes[f] = rt.routes[f] /\ rt'.live[f] = rt.live[f]
  BY <1>2, <1>3, <1>4
<1>7. rt'.default = rt.default
  BY <1>2, <1>3, <1>4
<1>8. InForce'
  <2>1. CASE routes.ok
    BY <1>1, <1>2, <1>3, <1>4, <2>1 DEF InForce, Known
  <2>2. CASE ~routes.ok
    BY <1>1, <1>2, <1>3, <2>2 DEF InForce, Known
  <2> QED BY <2>1, <2>2
<1>9. \A f \in Fibers \ loaded' : Gone(rt', f)
  BY <1>1, <1>6, <1>7 DEF IInv, Gone
<1> QED BY <1>1, <1>5, <1>7, <1>8, <1>9 DEF IInv, OwnerKept

LEMMA UnloadKeeps == ASSUME IInv, Unload PROVE IInv' /\ OwnerKept
<1>1. /\ ImageMind \in Fibers /\ Sound(rt) /\ {"catalog", "user"} \in SUBSET Declarations
  BY EntryAssumption DEF IInv
<1>2. /\ Sound(rt') /\ Gone(rt', ImageMind)
      /\ rt'.routes = [rt.routes EXCEPT ![ImageMind] = {}]
      /\ rt'.live = [rt.live EXCEPT ![ImageMind] = FALSE]
      /\ rt'.default \in {None, rt.default}
  BY <1>1, TeardownKeeps DEF Unload
<1>3. loaded' = loaded \ {ImageMind} /\ config' = config
  BY DEF Unload
<1>4. \A f \in Fibers \ loaded' : Gone(rt', f)
  BY <1>1, <1>2, <1>3, RuntimeAssumption DEF IInv, Gone, Sound, Services
<1> QED BY <1>2, <1>3, <1>4 DEF IInv, OwnerKept

(* A step of another plugin that leaves the registration and the entries   *)
(* of image-mind alone.                                                    *)
LEMMA ForeignEffect ==
  ASSUME IInv, NEW f \in Others, UNCHANGED plugin, Sound(rt'),
         \A g \in Fibers \ {f} : rt'.routes[g] = rt.routes[g] /\ rt'.live[g] = rt.live[g],
         rt'.held["user"] = rt.held["user"],
         rt'.default \in {None, rt.default} \/ (rt'.default = f /\ CanOwnDefault(rt, f)),
         loaded' = loaded \/ (loaded' = loaded \ {f} /\ Gone(rt', f)),
         f \in loaded
  PROVE  IInv' /\ OwnerKept
<1>1. ImageMind \in Fibers /\ f \in Fibers /\ f # ImageMind
  BY EntryAssumption DEF Others
<1>2. ImageMind \in loaded' => InForce'
  BY <1>1 DEF IInv, InForce, Known, plugin
<1>3. \A g \in Fibers \ loaded' : Gone(rt', g)
  BY <1>1, RuntimeAssumption DEF IInv, Gone
<1>4. OwnerKept
  BY DEF OwnerKept, CanOwnDefault
<1> QED BY <1>2, <1>3, <1>4 DEF IInv, plugin

LEMMA ForeignKeeps ==
  ASSUME IInv, NEW f \in Others,
         \/ ForeignLoads(f) \/ ForeignRegisters(f) \/ ForeignReplaces(f)
         \/ ForeignDisposes(f) \/ ForeignDeclares(f) \/ ForeignRegistersProvider(f)
         \/ ForeignOwnsDefault(f) \/ ForeignDropsDefault(f) \/ ForeignUnloads(f)
  PROVE  IInv' /\ OwnerKept
<1>0. /\ f \in Fibers /\ f \in Declarations /\ f # "user" /\ f # "catalog"
      /\ "user" \in Declarations
      /\ Sound(rt) /\ loaded \subseteq Fibers
      /\ rt.routes \in [Fibers -> SUBSET Providers] /\ rt.live \in [Fibers -> BOOLEAN]
      /\ rt.held \in [Declarations -> SUBSET Providers]
  BY EntryAssumption DEF Others, IInv, Sound, Services
<1>1. CASE ForeignLoads(f)
  BY <1>0, <1>1 DEF ForeignLoads, IInv, InForce, plugin, Others, OwnerKept
<1>2. CASE ForeignRegisters(f)
  <2>1. PICK ps \in SUBSET Providers : CanRegister(rt, ps) /\ rt' = RegisterAdapter(rt, f, ps)
    BY <1>2 DEF ForeignRegisters
  <2>2. /\ Sound(rt')
        /\ rt'.routes = [rt.routes EXCEPT ![f] = ps] /\ rt'.live = [rt.live EXCEPT ![f] = TRUE]
        /\ rt'.held = rt.held /\ rt'.default = rt.default
    BY <1>0, <1>2, <2>1, RegisterKeeps DEF ForeignRegisters
  <2> QED BY <1>0, <1>2, <2>2, ForeignEffect DEF ForeignRegisters, Foreign
<1>3. CASE ForeignReplaces(f)
  <2>1. PICK ps \in SUBSET Providers : CanReplace(rt, f, ps) /\ rt' = Replace(rt, f, ps)
    BY <1>3 DEF ForeignReplaces
  <2>2. /\ Sound(rt')
        /\ rt'.routes = [rt.routes EXCEPT ![f] = ps] /\ rt'.live = rt.live
        /\ rt'.held = rt.held /\ rt'.default = rt.default
    BY <1>0, <2>1, ReplaceKeeps
  <2> QED BY <1>0, <1>3, <2>2, ForeignEffect DEF ForeignReplaces, Foreign
<1>4. CASE ForeignDisposes(f)
  <2>1. /\ Sound(rt')
        /\ rt'.live = [rt.live EXCEPT ![f] = FALSE]
        /\ rt'.routes = rt.routes /\ rt'.held = rt.held /\ rt'.default = rt.default
    BY <1>0, <1>4, ReleaseKeeps DEF ForeignDisposes
  <2> QED BY <1>0, <1>4, <2>1, ForeignEffect DEF ForeignDisposes, Foreign
<1>5. CASE ForeignDeclares(f)
  <2>1. PICK ids \in SUBSET Providers : CanDeclare(rt, f, ids) /\ rt' = Declare(rt, f, ids)
    BY <1>5 DEF ForeignDeclares
  <2>2. /\ Sound(rt')
        /\ rt'.held = [rt.held EXCEPT ![f] = ids]
        /\ rt'.routes = rt.routes /\ rt'.live = rt.live /\ rt'.default = rt.default
    BY <1>0, <2>1, DeclareKeeps
  <2> QED BY <1>0, <1>5, <2>2, ForeignEffect DEF ForeignDeclares, Foreign
<1>6. CASE ForeignOwnsDefault(f)
  <2>1. /\ Sound(rt')
        /\ rt'.routes = rt.routes /\ rt'.live = rt.live /\ rt'.held = rt.held
        /\ rt'.default = f
    BY <1>0, <1>6, OwnDefaultKeeps DEF ForeignOwnsDefault
  <2> QED BY <1>0, <1>6, <2>1, ForeignEffect DEF ForeignOwnsDefault, Foreign
<1>7. CASE ForeignDropsDefault(f)
  <2>1. /\ Sound(rt')
        /\ rt'.routes = rt.routes /\ rt'.live = rt.live /\ rt'.held = rt.held
        /\ rt'.default \in {None, rt.default}
    BY <1>0, <1>7, DropDefaultKeeps DEF ForeignDropsDefault
  <2> QED BY <1>0, <1>7, <2>1, ForeignEffect DEF ForeignDropsDefault, Foreign
<1>8. CASE ForeignUnloads(f)
  <2>1. /\ Sound(rt') /\ Gone(rt', f)
        /\ rt'.routes = [rt.routes EXCEPT ![f] = {}]
        /\ rt'.live = [rt.live EXCEPT ![f] = FALSE]
        /\ \A d \in Declarations \ {f} : rt'.held[d] = rt.held[d]
        /\ rt'.default \in {None, rt.default}
    <3> DEFINE ds == {f}
               s == [Teardown(rt, f, ds) EXCEPT !.routes[f] = {}]
    <3>1. ds \in SUBSET Declarations
      BY <1>0
    <3>2. rt' = s
      BY <1>8 DEF ForeignUnloads
    <3>3. /\ Sound(s) /\ Gone(s, f)
          /\ s.routes = [rt.routes EXCEPT ![f] = {}]
          /\ s.live = [rt.live EXCEPT ![f] = FALSE]
          /\ \A d \in Declarations \ ds : s.held[d] = rt.held[d]
          /\ s.default \in {None, rt.default}
      <4> HIDE DEF ds
      <4> QED BY <1>0, <3>1, TeardownKeeps
    <3> HIDE DEF s
    <3> QED BY <3>2, <3>3
  <2>2. UNCHANGED plugin /\ f \in loaded /\ loaded' = loaded \ {f}
    BY <1>8 DEF ForeignUnloads
  <2>3. \A g \in Fibers \ {f} : rt'.routes[g] = rt.routes[g] /\ rt'.live[g] = rt.live[g]
    BY <1>0, <2>1
  <2>4. rt'.held["user"] = rt.held["user"]
    BY <1>0, <2>1
  <2> QED BY <2>1, <2>2, <2>3, <2>4, ForeignEffect
<1>9. CASE ForeignRegistersProvider(f)
  <2>1. PICK p \in Providers : CanRegisterProvider(rt, p) /\ rt' = RegisterProvider(rt, p)
    BY <1>9 DEF ForeignRegistersProvider
  <2>2. /\ Sound(rt')
        /\ rt'.routes = rt.routes /\ rt'.live = rt.live
        /\ rt'.held = rt.held /\ rt'.default = rt.default
    BY <1>0, <2>1, RegisterProviderKeeps
  <2> QED BY <1>0, <1>9, <2>2, ForeignEffect DEF ForeignRegistersProvider, Foreign
<1> QED BY <1>1, <1>2, <1>3, <1>4, <1>5, <1>6, <1>7, <1>8, <1>9

(* The second conjunct of a step: where a request without a provider goes. *)
NoFallback ==
  request' # request /\ request'.requested = None /\ request'.active # None
    => request'.to \subseteq {request'.active}

LEMMA CallKeeps == ASSUME IInv, Call PROVE IInv' /\ OwnerKept /\ NoFallback
<1>1. IInv' /\ OwnerKept
  BY DEF Call, IInv, InForce, plugin, OwnerKept
<1>2. PICK p \in Providers \cup {None} :
        request' = [requested |-> p, to |-> Resolve(rt, p, Active), active |-> Active]
  BY DEF Call
<1>3. ASSUME p = None, Active # None
      PROVE  Resolve(rt, p, Active) \subseteq {Active}
  <2>1. rt.default # None
    BY <1>3, RuntimeAssumption, EntryAssumption DEF Active
  <2> QED BY <1>3, <2>1 DEF Resolve
<1> QED BY <1>1, <1>2, <1>3 DEF NoFallback

LEMMA StepKeeps == ASSUME IInv, [Next]_vars PROVE IInv' /\ OwnerKept /\ NoFallback
<1>1. CASE Load
  BY <1>1, LoadKeeps DEF Load, NoFallback
<1>2. CASE SettingsChange
  BY <1>2, SettingsChangeKeeps DEF SettingsChange, NoFallback
<1>3. CASE Unload
  BY <1>3, UnloadKeeps DEF Unload, NoFallback
<1>4. CASE Call
  BY <1>4, CallKeeps
<1>5. ASSUME NEW f \in Others,
             \/ ForeignLoads(f) \/ ForeignRegisters(f) \/ ForeignReplaces(f)
             \/ ForeignDisposes(f) \/ ForeignDeclares(f) \/ ForeignRegistersProvider(f)
             \/ ForeignOwnsDefault(f) \/ ForeignDropsDefault(f) \/ ForeignUnloads(f)
      PROVE  IInv' /\ OwnerKept /\ NoFallback
  <2>1. IInv' /\ OwnerKept
    BY <1>5, ForeignKeeps
  <2>2. request' = request
    BY <1>5 DEF ForeignLoads, ForeignRegisters, ForeignReplaces, ForeignDisposes, ForeignDeclares,
                ForeignRegistersProvider, ForeignOwnsDefault, ForeignDropsDefault, ForeignUnloads,
                Foreign
  <2> QED BY <2>1, <2>2 DEF NoFallback
<1>6. CASE UNCHANGED vars
  BY <1>6 DEF vars, IInv, InForce, plugin, OwnerKept, NoFallback
<1> QED BY <1>1, <1>2, <1>3, <1>4, <1>5, <1>6 DEF Next

(* Whatever the plugins do, the invariant is kept.                         *)
THEOREM InvariantHolds == Spec => []IInv
<1>1. Init => IInv
  BY InitKeeps
<1>2. IInv /\ [Next]_vars => IInv'
  BY StepKeeps
<1> QED BY <1>1, <1>2, PTL DEF Spec

(* Every route belongs to the one live registration that lists it, and     *)
(* every directory entry to the one declaration that holds it or to none,  *)
(* having been added alone: no declaration takes, hides or withdraws an    *)
(* entry that is not its own (runtime.ts registerAdapter, replace,         *)
(* release, registerConfigurableProviders, registerProvider).              *)
THEOREM RegistryOwned == Spec => []RegistryIsOwned
BY InvariantHolds, InvariantImplies, PTL

(* What image-mind remembers is what the service has, also after refusals  *)
(* (index.ts onChange).                                                    *)
THEOREM PluginStaysInStep == Spec => []PluginInStep
BY InvariantHolds, InvariantImplies, PTL

(* No strategy of an unloaded plugin is consulted (runtime.ts              *)
(* registerDefaultProviderResolver).                                       *)
THEOREM StrategyIsLoaded == Spec => []NoStaleResolver
BY InvariantHolds, InvariantImplies, PTL

(* A request that names no provider goes to the configured one or nowhere, *)
(* and the strategy never passes from one owner to another (runtime.ts     *)
(* resolveProviderId, registerDefaultProviderResolver).                    *)
THEOREM FallbackIsRefused == Spec => NoSilentFallback
<1>1. IInv /\ [Next]_vars
      => [/\ request' # request /\ request'.requested = None /\ request'.active # None
               => request'.to \subseteq {request'.active}
          /\ rt.default # None /\ rt'.default # None
               => OwnerOf[rt'.default] = OwnerOf[rt.default]]_vars
  BY StepKeeps DEF NoFallback, OwnerKept
<1> QED BY <1>1, InvariantHolds, PTL DEF Spec, NoSilentFallback
-----------------------------------------------------------------------------
(* The understand_image tool: what its calls load, and what is kept of     *)
(* their answers as evidence.                                              *)

Stages == {"idle", "finding", "loading", "loaded", "asking"} \cup Ended

Evidence ==
  [key : Seq(Images) \X BOOLEAN, call : Calls, asked : Nat]

ToolTypes ==
  /\ stage \in [Calls -> Stages] /\ args \in [Calls -> Arguments]
  /\ cursor \in [Calls -> Nat]
  /\ busy \in [Calls -> SUBSET Nat] /\ got \in [Calls -> SUBSET Nat]
  /\ asked \in [Calls -> [layer : BOOLEAN, mode : Modes, epoch : Nat]]
  /\ evidence \in Seq(Evidence) /\ epoch \in Nat

(* The two workers of a call have taken the first indices, each once, and  *)
(* both are at work until no index is left.                                *)
LoadsOK(c) ==
  LET n == Len(args[c].images)
  IN  /\ busy[c] \subseteq 1..cursor[c] /\ got[c] \subseteq 1..cursor[c]
      /\ IsFiniteSet(busy[c]) /\ Cardinality(busy[c]) <= 2
      /\ stage[c] \in {"idle", "finding"} => cursor[c] = 0
      /\ stage[c] = "loading" =>
           /\ busy[c] # {} /\ got[c] \cup busy[c] = 1..cursor[c] /\ cursor[c] <= n
           /\ cursor[c] < n => Cardinality(busy[c]) = 2
      /\ stage[c] \in {"loaded", "asking", "answered", "reused"} =>
           busy[c] = {} /\ got[c] = 1..n /\ got[c] # {}
      /\ got[c] # {} => TotalBytes(args[c].images, got[c]) <= TotalCap

(* The evidence layer is on only for a broad question, asked of the        *)
(* default provider and with its answer to be kept.                        *)
AskedOK(c) ==
  stage[c] \in {"asking", "answered"} /\ asked[c].layer =>
    ~args[c].named /\ args[c].reusable /\ "no-store" \notin {args[c].mode, asked[c].mode}

ToolIInv ==
  /\ ToolTypes
  /\ \A c \in Calls : LoadsOK(c) /\ AskedOK(c)
  /\ EvidenceIsBroad

(* The operations of the cache leave entries out, or add the one they are  *)
(* given.                                                                  *)
LEMMA WithoutKeeps ==
  ASSUME NEW cache \in Seq(Evidence), NEW key
  PROVE  /\ Without(cache, key) \in Seq(Evidence)
         /\ ToSet(Without(cache, key)) \subseteq ToSet(cache)
BY OmitKeeps DEF Without

LEMMA TouchedKeeps ==
  ASSUME NEW cache \in Seq(Evidence), NEW key, Holds(cache, key)
  PROVE  /\ Touched(cache, key) \in Seq(Evidence)
         /\ ToSet(Touched(cache, key)) \subseteq ToSet(cache)
<1> DEFINE rest == Without(cache, key)
           e    == Entry(cache, key)
<1>1. rest \in Seq(Evidence) /\ ToSet(rest) \subseteq ToSet(cache)
  BY WithoutKeeps
<1>2. e \in ToSet(cache)
  BY DEF Holds, Entry
<1>3. ToSet(cache) \subseteq Evidence
  BY DEF ToSet
<1> HIDE DEF rest, e
<1>4. Append(rest, e) \in Seq(Evidence) /\ ToSet(Append(rest, e)) = ToSet(rest) \cup {e}
  BY <1>1, <1>2, <1>3, ToSetAppend
<1> QED BY <1>1, <1>2, <1>4 DEF Touched, rest, e

LEMMA WithKeeps ==
  ASSUME NEW cache \in Seq(Evidence), NEW entry \in Evidence
  PROVE  /\ With(cache, entry) \in Seq(Evidence)
         /\ ToSet(With(cache, entry)) \subseteq ToSet(cache) \cup {entry}
<1> DEFINE rest == Without(cache, entry.key)
           next == Append(rest, entry)
<1>1. rest \in Seq(Evidence) /\ ToSet(rest) \subseteq ToSet(cache)
  BY WithoutKeeps
<1> HIDE DEF rest
<1>2. next \in Seq(Evidence) /\ ToSet(next) = ToSet(rest) \cup {entry} /\ next # <<>>
  BY <1>1, ToSetAppend
<1>3. Tail(next) \in Seq(Evidence) /\ ToSet(Tail(next)) \subseteq ToSet(next)
  <2> HIDE DEF next
  <2> QED BY <1>2, TailElements
<1> QED BY <1>1, <1>2, <1>3 DEF With, rest

(* A call moves, and entries may leave the cache: the invariant holds as   *)
(* far as it speaks of other calls, and of this one if it does so.         *)
LEMMA OneCallMoves ==
  ASSUME ToolIInv, NEW c \in Calls, UNCHANGED <<args, epoch>>,
         evidence' \in Seq(Evidence), ToSet(evidence') \subseteq ToSet(evidence),
         stage' \in [Calls -> Stages], stage[c] # "answered",
         \A d \in Calls \ {c} :
           /\ stage'[d] = stage[d] /\ cursor'[d] = cursor[d] /\ busy'[d] = busy[d]
           /\ got'[d] = got[d] /\ asked'[d] = asked[d],
         cursor' \in [Calls -> Nat], busy' \in [Calls -> SUBSET Nat],
         got' \in [Calls -> SUBSET Nat],
         asked' \in [Calls -> [layer : BOOLEAN, mode : Modes, epoch : Nat]],
         LoadsOK(c)', AskedOK(c)'
  PROVE  ToolIInv'
<1>1. ToolTypes'
  BY DEF ToolIInv, ToolTypes
<1>2. ASSUME NEW d \in Calls PROVE LoadsOK(d)' /\ AskedOK(d)'
  <2>1. CASE d = c
    BY <2>1
  <2>2. CASE d # c
    <3>1. /\ stage'[d] = stage[d] /\ cursor'[d] = cursor[d] /\ busy'[d] = busy[d]
          /\ got'[d] = got[d] /\ asked'[d] = asked[d] /\ args' = args
      BY <2>2
    <3>2. LoadsOK(d) /\ AskedOK(d)
      BY DEF ToolIInv
    <3>3. LoadsOK(d)'
      BY <3>1, <3>2 DEF LoadsOK
    <3>4. AskedOK(d)'
      BY <3>1, <3>2 DEF AskedOK
    <3> QED BY <3>3, <3>4
  <2> QED BY <2>1, <2>2
<1>3. EvidenceIsBroad'
  <2> SUFFICES ASSUME NEW e \in ToSet(evidence), e \in ToSet(evidence')
               PROVE  /\ stage'[e.call] = "answered" /\ Key(e.call)' = e.key
                      /\ ~args'[e.call].named /\ args'[e.call].reusable
                      /\ "no-store" \notin {args'[e.call].mode, asked'[e.call].mode}
    BY DEF EvidenceIsBroad
  <2>1. e \in Evidence
    BY DEF ToolIInv, ToolTypes, ToSet
  <2>2. e.call \in Calls /\ stage[e.call] = "answered" /\ Key(e.call) = e.key
        /\ ~args[e.call].named /\ args[e.call].reusable
        /\ "no-store" \notin {args[e.call].mode, asked[e.call].mode}
    BY <2>1 DEF ToolIInv, EvidenceIsBroad, Evidence
  <2>3. e.call # c
    BY <2>2
  <2> QED BY <2>2, <2>3 DEF Key
<1> QED BY <1>1, <1>2, <1>3 DEF ToolIInv

(* What is known of one call.                                              *)
LEMMA CallFacts ==
  ASSUME ToolIInv, NEW c \in Calls
  PROVE  /\ LoadsOK(c) /\ AskedOK(c)
         /\ stage \in [Calls -> Stages] /\ cursor \in [Calls -> Nat]
         /\ busy \in [Calls -> SUBSET Nat] /\ got \in [Calls -> SUBSET Nat]
         /\ asked \in [Calls -> [layer : BOOLEAN, mode : Modes, epoch : Nat]]
         /\ epoch \in Nat /\ evidence \in Seq(Evidence)
         /\ args[c] \in Arguments /\ args[c].images \in Seq(Images)
         /\ Len(args[c].images) \in Nat /\ args[c].mode \in Modes
         /\ args[c].named \in BOOLEAN /\ args[c].reusable \in BOOLEAN
<1>1. args[c] \in Arguments
  BY DEF ToolIInv, ToolTypes
<1>2. /\ args[c].images \in Seq(Images) /\ args[c].mode \in Modes
      /\ args[c].named \in BOOLEAN /\ args[c].reusable \in BOOLEAN
  BY <1>1, ArgumentsAssumption
<1>3. Len(args[c].images) \in Nat
  BY <1>2
<1> QED BY <1>1, <1>2, <1>3 DEF ToolIInv, ToolTypes

(* The workers take their first indices.                                   *)
LEMMA StartLoadingKeeps ==
  ASSUME ToolIInv, NEW c \in Calls, stage[c] \in {"idle", "finding"}, StartLoading(c),
         UNCHANGED <<args, got, asked, evidence, epoch>>
  PROVE  ToolIInv'
<1> DEFINE n == Len(args[c].images)
<1>1. cursor[c] = 0 /\ busy[c] = {} /\ got[c] = {}
  <2>1. cursor[c] = 0 /\ busy[c] \subseteq 1..cursor[c] /\ got[c] \subseteq 1..cursor[c]
    BY CallFacts DEF LoadsOK
  <2> QED BY <2>1
<1>2. n \in Nat /\ args' = args /\ got' = got /\ asked' = asked
  BY CallFacts
<1>3. CASE n \in 1..MaxImages
  <2>1. /\ stage' = [stage EXCEPT ![c] = "loading"]
        /\ busy' = [busy EXCEPT ![c] = 1..n \cap {1, 2}]
        /\ cursor' = [cursor EXCEPT ![c] = IF n = 1 THEN 1 ELSE 2]
    BY <1>3 DEF StartLoading, Goto
  <2>2. n >= 1
    BY <1>3, ArgumentsAssumption
  <2>3. /\ stage'[c] = "loading" /\ busy'[c] = 1..n \cap {1, 2}
        /\ cursor'[c] = (IF n = 1 THEN 1 ELSE 2) /\ got'[c] = {}
    BY <2>1, <1>1, <1>2, CallFacts
  <2>4. /\ busy'[c] = 1..cursor'[c] /\ cursor'[c] <= n /\ cursor'[c] \in 1..2
        /\ cursor'[c] < n => cursor'[c] = 2
    <3> HIDE DEF n
    <3>1. CASE n = 1
      <4>1. 1..n \cap {1, 2} = 1..1
        BY <3>1
      <4> QED BY <4>1, <3>1, <2>3
    <3>2. CASE n # 1
      <4>1. n >= 2 /\ n \in Nat
        BY <3>2, <2>2, <1>2
      <4>2. 1..n \cap {1, 2} = 1..2
        BY <4>1
      <4> QED BY <4>1, <4>2, <3>2, <2>3
    <3> QED BY <3>1, <3>2
  <2>5. IsFiniteSet(busy'[c]) /\ Cardinality(busy'[c]) = cursor'[c] /\ busy'[c] # {}
    <3>1. IsFiniteSet(1..cursor'[c]) /\ Cardinality(1..cursor'[c]) = cursor'[c]
      BY <2>4, FS_Interval
    <3> QED BY <3>1, <2>4
  <2>6. LoadsOK(c)'
    BY <1>2, <2>3, <2>4, <2>5 DEF LoadsOK
  <2>7. AskedOK(c)'
    BY <2>3 DEF AskedOK
  <2>8. /\ stage' \in [Calls -> Stages] /\ cursor' \in [Calls -> Nat]
        /\ busy' \in [Calls -> SUBSET Nat]
    BY <2>1, CallFacts DEF Stages
  <2> QED BY <2>1, <2>6, <2>7, <2>8, <1>2, CallFacts, OneCallMoves
<1>4. CASE n \notin 1..MaxImages
  <2>1. stage' = [stage EXCEPT ![c] = "failed"] /\ UNCHANGED <<busy, cursor>>
    BY <1>4 DEF StartLoading, Goto
  <2>2. stage'[c] = "failed" /\ stage' \in [Calls -> Stages]
    BY <2>1, CallFacts DEF Stages, Ended
  <2>3. LoadsOK(c)' /\ AskedOK(c)'
    BY <2>1, <2>2, <1>1, <1>2, CallFacts DEF LoadsOK, AskedOK
  <2> QED BY <2>1, <2>2, <2>3, <1>2, CallFacts, OneCallMoves
<1> QED BY <1>3, <1>4

(* The call goes on without its workers: from one stage to the next.        *)
LEMMA StageKeeps ==
  ASSUME ToolIInv, NEW c \in Calls, NEW where, stage' = [stage EXCEPT ![c] = where],
         \/ stage[c] = "idle" /\ where = "finding"
         \/ stage[c] = "finding" /\ where = "failed"
         \/ stage[c] = "asking" /\ where = "failed"
         \/ stage[c] = "loaded" /\ where = "reused",
         evidence' \in Seq(Evidence), ToSet(evidence') \subseteq ToSet(evidence),
         UNCHANGED <<args, cursor, busy, got, asked, epoch>>
  PROVE  ToolIInv'
<1>1. stage'[c] = where /\ stage' \in [Calls -> Stages] /\ stage[c] # "answered"
  BY CallFacts DEF Stages, Ended
<1>2. LoadsOK(c)' /\ AskedOK(c)'
  BY <1>1, CallFacts DEF LoadsOK, AskedOK
<1> QED BY <1>1, <1>2, CallFacts, OneCallMoves

(* A worker ends: the call it works for fails, or an image is there and    *)
(* the next one is taken.                                                  *)
LEMMA ImageFailsKeeps == ASSUME ToolIInv, NEW c \in Calls, ImageFails(c) PROVE ToolIInv'
<1>1. PICK i \in busy[c] :
        /\ busy' = [busy EXCEPT ![c] = @ \ {i}] /\ stage' = [stage EXCEPT ![c] = "failed"]
        /\ UNCHANGED <<args, cursor, got, asked, evidence, epoch>>
  BY DEF ImageFails, Goto
<1>2. stage'[c] = "failed" /\ stage' \in [Calls -> Stages] /\ busy' \in [Calls -> SUBSET Nat]
      /\ busy'[c] = busy[c] \ {i}
  BY <1>1, CallFacts DEF Stages, Ended
<1>3. stage[c] # "answered"
  BY <1>1, CallFacts DEF LoadsOK
<1>4. IsFiniteSet(busy[c]) /\ Cardinality(busy[c]) <= 2
      /\ busy[c] \subseteq 1..cursor[c] /\ got[c] \subseteq 1..cursor[c]
      /\ (got[c] # {} => TotalBytes(args[c].images, got[c]) <= TotalCap)
  BY CallFacts DEF LoadsOK
<1>5. IsFiniteSet(busy'[c]) /\ Cardinality(busy'[c]) <= 2
  <2>1. Cardinality(busy[c]) \in Nat /\ IsFiniteSet(busy[c] \ {i})
        /\ Cardinality(busy[c] \ {i}) = Cardinality(busy[c]) - 1
    BY <1>1, <1>4, FS_RemoveElement, FS_CardinalityType
  <2> QED BY <2>1, <1>2, <1>4
<1>6. LoadsOK(c)' /\ AskedOK(c)'
  BY <1>1, <1>2, <1>4, <1>5 DEF LoadsOK, AskedOK
<1> QED BY <1>1, <1>2, <1>3, <1>6, CallFacts, OneCallMoves

LEMMA ImageLoadsKeeps == ASSUME ToolIInv, NEW c \in Calls, ImageLoads(c) PROVE ToolIInv'
<1> DEFINE n == Len(args[c].images)
           next == cursor[c] + 1
<1>1. PICK i \in busy[c] :
        /\ TakesNext(c, i) /\ TotalBytes(args[c].images, got[c] \cup {i}) <= TotalCap
        /\ got' = [got EXCEPT ![c] = @ \cup {i}]
        /\ stage' = [stage EXCEPT ![c] = IF stage[c] = "loading" /\ busy'[c] = {} THEN "loaded" ELSE stage[c]]
        /\ UNCHANGED <<args, asked, evidence, epoch>>
  BY DEF ImageLoads, Goto, WithinCap
<1>2. /\ n \in Nat /\ cursor[c] \in Nat /\ stage[c] \in Stages
      /\ busy[c] \subseteq 1..cursor[c] /\ got[c] \subseteq 1..cursor[c]
      /\ IsFiniteSet(busy[c]) /\ Cardinality(busy[c]) <= 2 /\ Cardinality(busy[c]) \in Nat
      /\ i \in 1..cursor[c]
  <2>1. busy[c] \subseteq 1..cursor[c] /\ IsFiniteSet(busy[c]) /\ Cardinality(busy[c]) <= 2
        /\ got[c] \subseteq 1..cursor[c]
    BY CallFacts DEF LoadsOK
  <2> QED BY <2>1, <1>1, CallFacts, FS_CardinalityType
<1>3. /\ stage[c] = "loading" \/ stage[c] = "failed"
      /\ stage[c] = "loading" =>
           /\ got[c] \cup busy[c] = 1..cursor[c] /\ cursor[c] <= n
           /\ cursor[c] < n => Cardinality(busy[c]) = 2
  <2>1. /\ stage[c] \in {"idle", "finding"} => cursor[c] = 0
        /\ stage[c] \in {"loaded", "asking", "answered", "reused"} => busy[c] = {}
        /\ stage[c] = "loading" =>
             /\ got[c] \cup busy[c] = 1..cursor[c] /\ cursor[c] <= n
             /\ cursor[c] < n => Cardinality(busy[c]) = 2
    BY CallFacts DEF LoadsOK
  <2>2. stage[c] \notin {"idle", "finding"}
    BY <2>1, <1>2
  <2> QED BY <2>1, <2>2, <1>1, <1>2 DEF Stages, Ended
<1>4. IsFiniteSet(busy[c] \ {i}) /\ Cardinality(busy[c] \ {i}) = Cardinality(busy[c]) - 1
  BY <1>1, <1>2, FS_RemoveElement
<1>5. got'[c] = got[c] \cup {i} /\ args' = args /\ asked' = asked
      /\ got' \in [Calls -> SUBSET Nat]
  BY <1>1, <1>2, CallFacts
<1>6. /\ busy' \in [Calls -> SUBSET Nat] /\ cursor' \in [Calls -> Nat]
      /\ \A d \in Calls \ {c} : busy'[d] = busy[d] /\ cursor'[d] = cursor[d]
      /\ IF next <= n
         THEN busy'[c] = (busy[c] \ {i}) \cup {next} /\ cursor'[c] = next
         ELSE busy'[c] = busy[c] \ {i} /\ cursor'[c] = cursor[c]
  <2>1. CASE next <= n
    <3>1. busy' = [busy EXCEPT ![c] = (@ \ {i}) \cup {next}] /\ cursor' = [cursor EXCEPT ![c] = next]
      BY <2>1, <1>1 DEF TakesNext
    <3> QED BY <3>1, <2>1, <1>2, CallFacts
  <2>2. CASE ~(next <= n)
    <3>1. busy' = [busy EXCEPT ![c] = @ \ {i}] /\ cursor' = cursor
      BY <2>2, <1>1 DEF TakesNext
    <3> QED BY <3>1, <2>2, <1>2, CallFacts
  <2> QED BY <2>1, <2>2
<1>7. /\ busy'[c] \subseteq 1..cursor'[c] /\ got'[c] \subseteq 1..cursor'[c]
      /\ IsFiniteSet(busy'[c]) /\ Cardinality(busy'[c]) <= 2
      /\ stage[c] = "loading" =>
           /\ got'[c] \cup busy'[c] = 1..cursor'[c] /\ cursor'[c] <= n
           /\ cursor'[c] < n => Cardinality(busy'[c]) = 2
           /\ busy'[c] = {} => cursor'[c] = n
  <2>1. CASE next <= n
    <3>1. next \notin busy[c] \ {i}
      BY <1>2
    <3>2. IsFiniteSet(busy'[c]) /\ Cardinality(busy'[c]) = Cardinality(busy[c])
      <4> DEFINE rest == busy[c] \ {i}
      <4>1. IsFiniteSet(rest) /\ next \notin rest /\ Cardinality(rest) = Cardinality(busy[c]) - 1
        BY <3>1, <1>4
      <4>2. busy'[c] = rest \cup {next}
        BY <1>6, <2>1
      <4> HIDE DEF rest, next
      <4>3. IsFiniteSet(rest \cup {next}) /\ Cardinality(rest \cup {next}) = Cardinality(rest) + 1
        BY <4>1, FS_AddElement
      <4>4. Cardinality(busy[c]) - 1 + 1 = Cardinality(busy[c])
        BY <1>2
      <4> QED BY <4>1, <4>2, <4>3, <4>4
    <3>3. 1..next = 1..cursor[c] \cup {next}
      BY <1>2
    <3>4. /\ busy'[c] = (busy[c] \ {i}) \cup {next} /\ cursor'[c] = next
          /\ got'[c] = got[c] \cup {i}
      BY <1>5, <1>6, <2>1
    <3>5. /\ busy'[c] # {} /\ busy'[c] \subseteq 1..cursor'[c] /\ got'[c] \subseteq 1..cursor'[c]
          /\ got[c] \cup busy[c] = 1..cursor[c] => got'[c] \cup busy'[c] = 1..cursor'[c]
      <4> HIDE DEF next
      <4> QED BY <3>3, <3>4, <1>2
    <3>6. cursor'[c] <= n /\ Cardinality(busy'[c]) <= 2
      BY <3>2, <3>4, <2>1, <1>2
    <3>7. stage[c] = "loading" => Cardinality(busy'[c]) = 2
      BY <3>2, <2>1, <1>2, <1>3
    <3> QED BY <3>2, <3>5, <3>6, <3>7, <1>3
  <2>2. CASE ~(next <= n)
    <3>1. stage[c] = "loading" => cursor[c] = n
      BY <2>2, <1>2, <1>3
    <3>2. busy'[c] = busy[c] \ {i} /\ cursor'[c] = cursor[c] /\ got'[c] = got[c] \cup {i}
      BY <1>5, <1>6, <2>2
    <3>3. IsFiniteSet(busy'[c]) /\ Cardinality(busy'[c]) = Cardinality(busy[c]) - 1
      BY <3>2, <1>4
    <3>4. Cardinality(busy'[c]) <= 2
      BY <3>3, <1>2
    <3>5. /\ busy'[c] \subseteq 1..cursor'[c] /\ got'[c] \subseteq 1..cursor'[c]
          /\ got[c] \cup busy[c] = 1..cursor[c] => got'[c] \cup busy'[c] = 1..cursor'[c]
      BY <3>2, <1>2
    <3>6. stage[c] = "loading" => cursor'[c] = n
      BY <3>1, <3>2
    <3> QED BY <3>3, <3>4, <3>5, <3>6, <1>2, <1>3
  <2> QED BY <2>1, <2>2
<1>8. /\ stage' \in [Calls -> Stages] /\ \A d \in Calls \ {c} : stage'[d] = stage[d] /\ got'[d] = got[d]
      /\ stage'[c] = IF stage[c] = "loading" /\ busy'[c] = {} THEN "loaded" ELSE stage[c]
  BY <1>1, CallFacts DEF Stages
<1>9. LoadsOK(c)'
  <2>1. got'[c] # {} /\ TotalBytes(args'[c].images, got'[c]) <= TotalCap
    BY <1>1, <1>5
  <2>2. CASE stage[c] = "loading" /\ busy'[c] = {}
    <3>1. stage'[c] = "loaded" /\ got'[c] = 1..n
      BY <2>2, <1>7, <1>8
    <3> QED BY <3>1, <2>1, <2>2, <1>5, <1>7 DEF LoadsOK
  <2>3. CASE stage[c] = "loading" /\ busy'[c] # {}
    BY <2>1, <2>3, <1>5, <1>7, <1>8 DEF LoadsOK
  <2>4. CASE stage[c] = "failed"
    BY <2>1, <2>4, <1>5, <1>7, <1>8 DEF LoadsOK
  <2> QED BY <2>2, <2>3, <2>4, <1>3
<1>10. AskedOK(c)'
  BY <1>3, <1>8 DEF AskedOK
<1> HIDE DEF n, next
<1> QED BY <1>1, <1>3, <1>5, <1>6, <1>8, <1>9, <1>10, CallFacts, OneCallMoves

(* A call asks the service, and whether its answer will be kept is settled *)
(* with the question.                                                      *)
LEMMA AskKeeps ==
  ASSUME ToolIInv, NEW c \in Calls, NEW layer \in BOOLEAN, NEW mode \in Modes,
         stage[c] = "loaded", stage' = [stage EXCEPT ![c] = "asking"],
         asked' = [asked EXCEPT ![c] = [layer |-> layer, mode |-> mode, epoch |-> epoch]],
         layer => ~args[c].named /\ args[c].reusable /\ "no-store" \notin {args[c].mode, mode},
         evidence' \in Seq(Evidence), ToSet(evidence') \subseteq ToSet(evidence),
         UNCHANGED <<args, cursor, busy, got, epoch>>
  PROVE  ToolIInv'
<1>1. stage'[c] = "asking" /\ stage' \in [Calls -> Stages]
  BY CallFacts DEF Stages
<1>2. asked'[c] = [layer |-> layer, mode |-> mode, epoch |-> epoch]
      /\ asked' \in [Calls -> [layer : BOOLEAN, mode : Modes, epoch : Nat]]
      /\ \A d \in Calls \ {c} : asked'[d] = asked[d]
  BY CallFacts
<1>3. LoadsOK(c)'
  BY <1>1, CallFacts DEF LoadsOK
<1>4. AskedOK(c)'
  BY <1>1, <1>2 DEF AskedOK
<1> QED BY <1>1, <1>2, <1>3, <1>4, CallFacts, OneCallMoves

(* The evidence loses entries.                                             *)
LEMMA FewerKeeps ==
  ASSUME ToolIInv, evidence' \in Seq(Evidence), ToSet(evidence') \subseteq ToSet(evidence),
         UNCHANGED <<stage, args, cursor, busy, got, asked, epoch>>
  PROVE  ToolIInv'
<1>1. ToolTypes'
  BY DEF ToolIInv, ToolTypes
<1>2. \A c \in Calls : LoadsOK(c)' /\ AskedOK(c)'
  BY DEF ToolIInv, LoadsOK, AskedOK
<1>3. EvidenceIsBroad'
  BY DEF ToolIInv, EvidenceIsBroad, Key
<1> QED BY <1>1, <1>2, <1>3 DEF ToolIInv

(* The service answers: only an answer of the evidence layer is kept.      *)
LEMMA AnsweredKeeps == ASSUME ToolIInv, NEW c \in Calls, Answered(c) PROVE ToolIInv'
<1>1. /\ stage[c] = "asking" /\ stage' = [stage EXCEPT ![c] = "answered"]
      /\ evidence' = IF asked[c].layer THEN With(evidence, Filled(c)) ELSE evidence
      /\ UNCHANGED <<args, cursor, busy, got, asked, epoch>>
  BY DEF Answered, Goto, loader
<1>2. stage'[c] = "answered" /\ stage' \in [Calls -> Stages]
      /\ \A d \in Calls \ {c} : stage'[d] = stage[d]
  BY <1>1, CallFacts DEF Stages, Ended
<1>3. Filled(c) \in Evidence
  <2>1. Key(c) \in Seq(Images) \X BOOLEAN /\ asked[c].epoch \in Nat /\ epoch \in Nat
    BY CallFacts DEF Key
  <2> QED BY <2>1 DEF Filled, Evidence
<1>4. evidence \in Seq(Evidence)
  BY DEF ToolIInv, ToolTypes
<1>5. /\ evidence' \in Seq(Evidence)
      /\ \A e \in ToSet(evidence') : e \in ToSet(evidence) \/ (asked[c].layer /\ e = Filled(c))
  <2>1. CASE asked[c].layer
    <3>1. evidence' = With(evidence, Filled(c))
      BY <2>1, <1>1
    <3>2. /\ With(evidence, Filled(c)) \in Seq(Evidence)
          /\ ToSet(With(evidence, Filled(c))) \subseteq ToSet(evidence) \cup {Filled(c)}
      BY <1>3, <1>4, WithKeeps
    <3> QED BY <3>1, <3>2, <2>1
  <2>2. CASE ~asked[c].layer
    BY <2>2, <1>1, <1>4
  <2> QED BY <2>1, <2>2
<1>6. ToolTypes'
  BY <1>1, <1>2, <1>5 DEF ToolIInv, ToolTypes
<1>7. ASSUME NEW d \in Calls PROVE LoadsOK(d)' /\ AskedOK(d)'
  <2>1. LoadsOK(d) /\ AskedOK(d)
    BY DEF ToolIInv
  <2>2. stage'[d] = stage[d] \/ (stage[d] = "asking" /\ stage'[d] = "answered")
    BY <1>1, <1>2
  <2>3. LoadsOK(d)'
    BY <2>1, <2>2, <1>1 DEF LoadsOK
  <2>4. AskedOK(d)'
    BY <2>1, <2>2, <1>1 DEF AskedOK
  <2> QED BY <2>3, <2>4
<1>8. EvidenceIsBroad'
  <2> SUFFICES ASSUME NEW e \in ToSet(evidence')
               PROVE  /\ stage'[e.call] = "answered" /\ Key(e.call)' = e.key
                      /\ ~args'[e.call].named /\ args'[e.call].reusable
                      /\ "no-store" \notin {args'[e.call].mode, asked'[e.call].mode}
    BY DEF EvidenceIsBroad
  <2>1. CASE e \in ToSet(evidence)
    <3>1. e \in Evidence
      BY <2>1, <1>4 DEF ToSet
    <3>2. /\ e.call \in Calls /\ stage[e.call] = "answered" /\ Key(e.call) = e.key
          /\ ~args[e.call].named /\ args[e.call].reusable
          /\ "no-store" \notin {args[e.call].mode, asked[e.call].mode}
      BY <2>1, <3>1 DEF ToolIInv, EvidenceIsBroad, Evidence
    <3>3. stage'[e.call] = stage[e.call]
      BY <3>2, <1>1, <1>2
    <3> QED BY <3>2, <3>3, <1>1 DEF Key
  <2>2. CASE asked[c].layer /\ e = Filled(c)
    <3>1. e.call = c /\ e.key = Key(c)
      BY <2>2 DEF Filled
    <3>2. ~args[c].named /\ args[c].reusable /\ "no-store" \notin {args[c].mode, asked[c].mode}
      BY <2>2, <1>1, CallFacts DEF AskedOK
    <3> QED BY <3>1, <3>2, <1>1, <1>2 DEF Key
  <2> QED BY <2>1, <2>2, <1>5
<1> QED BY <1>6, <1>7, <1>8 DEF ToolIInv

(* A change of the settings starts with an empty cache.                    *)
LEMMA ConfigReplacedKeeps == ASSUME ToolIInv, ConfigReplaced PROVE ToolIInv'
<1>1. evidence' = <<>> /\ epoch' = epoch + 1 /\ UNCHANGED <<stage, args, cursor, busy, got, asked>>
  BY DEF ConfigReplaced, loader
<1>2. ToolTypes'
  BY <1>1 DEF ToolIInv, ToolTypes
<1>3. \A c \in Calls : LoadsOK(c)' /\ AskedOK(c)'
  BY <1>1 DEF ToolIInv, LoadsOK, AskedOK
<1>4. ToSet(evidence') = {}
  BY <1>1, ToSetEmpty
<1> QED BY <1>2, <1>3, <1>4 DEF ToolIInv, EvidenceIsBroad

(* Every step of the tool keeps the invariant.                             *)
LEMMA ToolStepKeeps == ASSUME ToolIInv, [ToolNext]_toolVars PROVE ToolIInv'
<1>0. evidence \in Seq(Evidence)
  BY DEF ToolIInv, ToolTypes
<1>1. ASSUME NEW c \in Calls, BeginCall(c) PROVE ToolIInv'
  <2>1. CASE args[c].session
    <3>1. stage[c] = "idle" /\ stage' = [stage EXCEPT ![c] = "finding"]
          /\ UNCHANGED <<args, cursor, busy, got, asked, evidence, epoch>>
      BY <1>1, <2>1 DEF BeginCall, Goto
    <3> QED BY <3>1, <1>0, StageKeeps
  <2>2. CASE ~args[c].session
    BY <1>1, <2>2, StartLoadingKeeps DEF BeginCall
  <2> QED BY <2>1, <2>2
<1>2. ASSUME NEW c \in Calls, SessionRefs(c) PROVE ToolIInv'
  BY <1>2, StartLoadingKeeps DEF SessionRefs
<1>3. ASSUME NEW c \in Calls, SessionRefsFail(c) PROVE ToolIInv'
  <2>1. /\ stage[c] = "finding" /\ stage' = [stage EXCEPT ![c] = "failed"]
        /\ UNCHANGED <<args, cursor, busy, got, asked, evidence, epoch>>
    BY <1>3 DEF SessionRefsFail, Goto, loader
  <2> QED BY <2>1, <1>0, StageKeeps
<1>4. ASSUME NEW c \in Calls, AskFails(c) PROVE ToolIInv'
  <2>1. /\ stage[c] = "asking" /\ stage' = [stage EXCEPT ![c] = "failed"]
        /\ UNCHANGED <<args, cursor, busy, got, asked, evidence, epoch>>
    BY <1>4 DEF AskFails, Goto, loader
  <2> QED BY <2>1, <1>0, StageKeeps
<1>5. ASSUME NEW c \in Calls, Reuse(c) PROVE ToolIInv'
  <2>1. /\ stage[c] = "loaded" /\ Holds(evidence, Key(c)) /\ evidence' = Touched(evidence, Key(c))
        /\ stage' = [stage EXCEPT ![c] = "reused"]
        /\ UNCHANGED <<args, cursor, busy, got, asked, epoch>>
    BY <1>5 DEF Reuse, Goto, loader
  <2>2. evidence' \in Seq(Evidence) /\ ToSet(evidence') \subseteq ToSet(evidence)
    BY <2>1, <1>0, TouchedKeeps
  <2> QED BY <2>1, <2>2, StageKeeps
<1>6. ASSUME NEW c \in Calls, Refocus(c) PROVE ToolIInv'
  <2>1. /\ stage[c] = "loaded" /\ Holds(evidence, Key(c)) /\ evidence' = Touched(evidence, Key(c))
        /\ stage' = [stage EXCEPT ![c] = "asking"]
        /\ asked' = [asked EXCEPT ![c] = [layer |-> FALSE, mode |-> "no-store", epoch |-> epoch]]
        /\ UNCHANGED <<args, cursor, busy, got, epoch>>
    BY <1>6 DEF Refocus, Ask, Goto, loader
  <2>2. evidence' \in Seq(Evidence) /\ ToSet(evidence') \subseteq ToSet(evidence)
    BY <2>1, <1>0, TouchedKeeps
  <2>3. "no-store" \in Modes
    BY DEF Modes
  <2> QED BY <2>1, <2>2, <2>3, AskKeeps
<1>7. ASSUME NEW c \in Calls, AskService(c) PROVE ToolIInv'
  <2>1. /\ stage[c] = "loaded" /\ stage' = [stage EXCEPT ![c] = "asking"]
        /\ asked' = [asked EXCEPT ![c] =
                        [layer |-> EvidenceLayer(c), mode |-> args[c].mode, epoch |-> epoch]]
        /\ UNCHANGED <<args, cursor, busy, got, evidence, epoch>>
    BY <1>7 DEF AskService, Ask, Goto, loader
  <2>2. /\ EvidenceLayer(c) \in BOOLEAN /\ args[c].mode \in Modes
        /\ EvidenceLayer(c) =>
             ~args[c].named /\ args[c].reusable /\ "no-store" \notin {args[c].mode, args[c].mode}
    BY CallFacts DEF EvidenceLayer
  <2> QED BY <2>1, <2>2, <1>0, AskKeeps
<1>8. ASSUME Expire PROVE ToolIInv'
  <2>1. PICK e \in ToSet(evidence) : evidence' = Without(evidence, e.key)
    BY <1>8 DEF Expire, Expired
  <2>2. UNCHANGED <<stage, args, cursor, busy, got, asked, epoch>>
    BY <1>8 DEF Expire, loader
  <2> QED BY <2>1, <2>2, <1>0, WithoutKeeps, FewerKeeps
<1>9. CASE UNCHANGED toolVars
  BY <1>9, <1>0, FewerKeeps DEF toolVars, loader
<1> QED BY <1>1, <1>2, <1>3, <1>4, <1>5, <1>6, <1>7, <1>8, <1>9, ImageLoadsKeeps, ImageFailsKeeps,
           AnsweredKeeps, ConfigReplacedKeeps DEF ToolNext

LEMMA ToolInitKeeps == ASSUME ToolInit PROVE ToolIInv
<1>1. /\ stage = [c \in Calls |-> "idle"] /\ args \in [Calls -> Arguments]
      /\ cursor = [c \in Calls |-> 0] /\ busy = [c \in Calls |-> {}] /\ got = [c \in Calls |-> {}]
      /\ asked = [c \in Calls |-> [layer |-> FALSE, mode |-> "use", epoch |-> 0]]
      /\ evidence = <<>> /\ epoch = 0
  BY DEF ToolInit, NotAsked
<1>2. ToolTypes
  BY <1>1 DEF ToolTypes, Stages, Modes
<1>3. IsFiniteSet({}) /\ Cardinality({}) = 0
  BY FS_EmptySet
<1>4. \A c \in Calls : LoadsOK(c) /\ AskedOK(c)
  BY <1>1, <1>3 DEF LoadsOK, AskedOK
<1>5. ToSet(evidence) = {}
  BY <1>1, ToSetEmpty
<1> QED BY <1>2, <1>4, <1>5 DEF ToolIInv, EvidenceIsBroad

(* What the calls of the tool have loaded, asked and left behind is as the *)
(* invariant says, however they overlap and the settings change.           *)
THEOREM ToolInvariantHolds == ToolSpec => []ToolIInv
BY ToolInitKeeps, ToolStepKeeps, PTL DEF ToolSpec

(* A question goes out with every image of its call, within the combined   *)
(* bound, and with no worker left at work (loadImagesConcurrent).          *)
THEOREM LoadedWholeAlways == ToolSpec => []LoadedWhole
<1>1. ASSUME ToolIInv PROVE LoadedWhole
  <2> SUFFICES ASSUME NEW c \in Calls
               PROVE  /\ Cardinality(busy[c]) <= 2
                      /\ stage[c] \in {"loaded", "asking", "answered", "reused"} =>
                           /\ busy[c] = {} /\ got[c] = DOMAIN args[c].images
                           /\ TotalBytes(args[c].images, got[c]) <= TotalCap
    BY DEF LoadedWhole
  <2>1. LoadsOK(c) /\ args[c].images \in Seq(Images)
    BY <1>1, CallFacts
  <2>2. DOMAIN args[c].images = 1..Len(args[c].images)
    BY <2>1
  <2> QED BY <2>1, <2>2 DEF LoadsOK
<1> QED BY <1>1, ToolInvariantHolds, PTL

(* Reusable evidence is the answer to a broad question, asked of the       *)
(* default provider by a call that wanted its answer kept.                 *)
THEOREM EvidenceIsBroadAlways == ToolSpec => []EvidenceIsBroad
<1>1. ToolIInv => EvidenceIsBroad
  BY DEF ToolIInv
<1> QED BY <1>1, ToolInvariantHolds, PTL
=============================================================================
