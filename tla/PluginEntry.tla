------------------------------ MODULE PluginEntry ------------------------------
(***************************************************************************)
(* The image-mind plugin as a user of the vision service                   *)
(* (packages/image-mind/src/index.ts): at mount it registers the strategy, *)
(* its adapter for every configured provider, and the directory entries;   *)
(* after each change of the settings it brings all of them in step with    *)
(* the configuration, or keeps what stands when another plugin is in the   *)
(* way.  Other plugins register, replace, dispose and unload as they like. *)
(***************************************************************************)
EXTENDS VisionRuntime, Naturals

CONSTANTS
  ImageMind,       \* the fiber of the plugin
  CatalogIds,      \* providers of the static catalog
  MaxChanges,      \* bound on changes of the settings
  MaxForeign       \* bound on operations of other plugins

Others == Fibers \ {ImageMind}

ASSUME EntryAssumption ==
  /\ ImageMind \in Fibers
  /\ Declarations = {"catalog", "user"} \cup Others
  /\ {"catalog", "user"} \cap Fibers = {}
  /\ CatalogIds \subseteq Providers
  /\ \A ps \in SUBSET Providers : ps # None

VARIABLES
  rt,           \* the vision service
  loaded,       \* the fibers that are loaded
  config,       \* what current() returns
  lastGood,     \* the configuration in force
  registered,   \* registeredRoutes, None while undefined
  named,        \* registeredUserEntries, None while undefined
  refused,      \* history: another plugin was in the way of the last change
  request,      \* the latest request and where it went
  changes, foreign

counters == <<changes, foreign>>
plugin == <<config, lastGood, registered, named, refused>>
vars == <<rt, loaded, plugin, request, counters>>

(* A settings document: the providers, the active one, which may dangle,   *)
(* and whether every other field passes its checks.                        *)
Configs == [providers : SUBSET Providers, active : Providers \cup {None}, sound : BOOLEAN]
NoRequest == [requested |-> None, to |-> {}, active |-> None]

(* resolveConfig does not throw.                                           *)
ResolveConfig(c) == c.sound /\ c.active \in c.providers \cup {None}

Init ==
  /\ rt = EmptyRuntime
  /\ loaded = {}
  /\ config \in Configs
  /\ lastGood = None /\ registered = None /\ named = None
  /\ refused = FALSE
  /\ request = NoRequest
  /\ changes = 0 /\ foreign = 0
-----------------------------------------------------------------------------
(* Bringing the service in step: the outcome of ensureRegistration and     *)
(* ensureDirectory as [ok, rt, note], note being what they remember.       *)

(* Mutant: the routes are remembered although the service refused them.    *)
EnsureRegistrationEarly(r, note, routes) ==
  IF note # None /\ r.live[ImageMind]
  THEN IF note = routes THEN [ok |-> TRUE, rt |-> r, note |-> note]
       ELSE IF CanReplace(r, ImageMind, routes)
            THEN [ok |-> TRUE, rt |-> Replace(r, ImageMind, routes), note |-> routes]
            ELSE [ok |-> FALSE, rt |-> r, note |-> routes]
  ELSE IF routes = {} THEN [ok |-> TRUE, rt |-> r, note |-> {}]
       ELSE IF CanRegister(r, routes)
            THEN [ok |-> TRUE, rt |-> RegisterAdapter(r, ImageMind, routes), note |-> routes]
            ELSE [ok |-> FALSE, rt |-> r, note |-> routes]

EnsureRegistration(r, note, routes) ==
  IF note # None /\ r.live[ImageMind]
  THEN IF note = routes THEN [ok |-> TRUE, rt |-> r, note |-> note]
       ELSE IF CanReplace(r, ImageMind, routes)
            THEN [ok |-> TRUE, rt |-> Replace(r, ImageMind, routes), note |-> routes]
            ELSE [ok |-> FALSE, rt |-> r, note |-> note]
  ELSE IF routes = {} THEN [ok |-> TRUE, rt |-> r, note |-> {}]
       ELSE IF CanRegister(r, routes)
            THEN [ok |-> TRUE, rt |-> RegisterAdapter(r, ImageMind, routes), note |-> routes]
            ELSE [ok |-> FALSE, rt |-> r, note |-> note]

(* The user's own providers; those of the catalog are declared for good.   *)
EnsureDirectory(r, note, providers) ==
  LET ids == providers \ CatalogIds
  IN  IF CanDeclare(r, "user", ids)
      THEN [ok |-> TRUE, rt |-> Declare(r, "user", ids), note |-> ids]
      ELSE [ok |-> FALSE, rt |-> r, note |-> note]

(* apply: any refusal fails the fiber, whose effects are then withdrawn.   *)
Load ==
  /\ ImageMind \notin loaded
  /\ ResolveConfig(config)
  /\ CanOwnDefault(rt, ImageMind)
  /\ LET routes == EnsureRegistration(OwnDefault(rt, ImageMind), None, config.providers)
         user   == EnsureDirectory(Declare(routes.rt, "catalog", CatalogIds), None, config.providers)
     IN  /\ routes.ok
         /\ CanDeclare(routes.rt, "catalog", CatalogIds)
         /\ user.ok
         /\ rt' = user.rt
         /\ registered' = routes.note
         /\ named' = user.note
  /\ loaded' = loaded \cup {ImageMind}
  /\ lastGood' = config
  /\ refused' = FALSE
  /\ UNCHANGED <<config, request, counters>>

(* onChange of the settings section: an invalid section leaves the last    *)
(* good configuration in force; a refusal leaves what is registered.       *)
SettingsChange ==
  /\ ImageMind \in loaded /\ changes < MaxChanges
  /\ changes' = changes + 1
  /\ config' \in Configs
  /\ lastGood' = IF ResolveConfig(config') THEN config' ELSE lastGood
  /\ LET routes == EnsureRegistration(rt, registered, lastGood'.providers)
         user   == EnsureDirectory(routes.rt, named, lastGood'.providers)
     IN  /\ registered' = routes.note
         /\ rt' = IF routes.ok THEN user.rt ELSE rt
         /\ named' = IF routes.ok THEN user.note ELSE named
         /\ refused' = ~(routes.ok /\ user.ok)
  /\ UNCHANGED <<loaded, request, foreign>>

Unload ==
  /\ ImageMind \in loaded
  /\ loaded' = loaded \ {ImageMind}
  /\ rt' = [Teardown(rt, ImageMind, {"catalog", "user"}) EXCEPT !.routes[ImageMind] = {}]
  /\ lastGood' = None /\ registered' = None /\ named' = None
  /\ refused' = FALSE
  /\ UNCHANGED <<config, request, counters>>

(* vision.call: resolved and dispatched in one synchronous section.        *)
Active == IF rt.default = ImageMind THEN lastGood.active ELSE None

Call ==
  \E p \in Providers \cup {None} :
    /\ request' = [requested |-> p, to |-> Resolve(rt, p, Active), active |-> Active]
    /\ UNCHANGED <<rt, loaded, plugin, counters>>
-----------------------------------------------------------------------------
(* Other plugins.                                                          *)

Foreign(f) ==
  /\ f \in loaded /\ foreign < MaxForeign
  /\ foreign' = foreign + 1
  /\ UNCHANGED <<loaded, plugin, request, changes>>

ForeignLoads(f) ==
  /\ f \notin loaded
  /\ loaded' = loaded \cup {f}
  /\ UNCHANGED <<rt, plugin, request, counters>>

ForeignRegisters(f) ==
  /\ Foreign(f)
  /\ rt.routes[f] = {}
  /\ \E ps \in SUBSET Providers : CanRegister(rt, ps) /\ rt' = RegisterAdapter(rt, f, ps)

ForeignReplaces(f) ==
  /\ Foreign(f)
  /\ \E ps \in SUBSET Providers : CanReplace(rt, f, ps) /\ rt' = Replace(rt, f, ps)

ForeignDisposes(f) ==
  /\ Foreign(f)
  /\ rt.live[f]
  /\ rt' = Release(rt, f)

ForeignDeclares(f) ==
  /\ Foreign(f)
  /\ \E ids \in SUBSET Providers :
       CanDeclare(rt, f, ids) /\ rt' = Declare(rt, f, ids)

(* Any plugin may add an entry that no registration of it holds.           *)
ForeignRegistersProvider(f) ==
  /\ Foreign(f)
  /\ \E p \in Providers : CanRegisterProvider(rt, p) /\ rt' = RegisterProvider(rt, p)

ForeignOwnsDefault(f) ==
  /\ Foreign(f)
  /\ CanOwnDefault(rt, f) /\ rt' = OwnDefault(rt, f)

(* The disposer of a strategy, also of one that was replaced since.        *)
ForeignDropsDefault(f) ==
  /\ Foreign(f)
  /\ rt.default \in Others /\ rt' = DropDefault(rt, f)

ForeignUnloads(f) ==
  /\ f \in loaded
  /\ loaded' = loaded \ {f}
  /\ rt' = [Teardown(rt, f, {f}) EXCEPT !.routes[f] = {}]
  /\ UNCHANGED <<plugin, request, counters>>

Next ==
  \/ Load \/ SettingsChange \/ Unload \/ Call
  \/ \E f \in Others :
       \/ ForeignLoads(f) \/ ForeignRegisters(f) \/ ForeignReplaces(f)
       \/ ForeignDisposes(f) \/ ForeignDeclares(f) \/ ForeignRegistersProvider(f)
       \/ ForeignOwnsDefault(f) \/ ForeignDropsDefault(f) \/ ForeignUnloads(f)

Spec == Init /\ [][Next]_vars
-----------------------------------------------------------------------------
(* Every route belongs to the one live registration that lists it, and an  *)
(* entry of the directory to the one declaration that holds it, or to none *)
(* because registerProvider added it: nothing else is stranded by a        *)
(* teardown after a manual disposal, by a refused replacement or by a      *)
(* reload, and no declaration takes or withdraws the entry of another      *)
(* plugin, nor the standalone ones, which outlive the plugin that added    *)
(* them.                                                                   *)
RegistryIsOwned ==
  /\ \A p \in Providers, f \in Fibers :
       rt.adapters[p] = f <=> rt.live[f] /\ p \in rt.routes[f]
  /\ rt.directory = rt.standalone \cup UNION {rt.held[d] : d \in Declarations}
  /\ \A d \in Declarations :
       /\ rt.held[d] \cap rt.standalone = {}
       /\ \A e \in Declarations \ {d} : rt.held[d] \cap rt.held[e] = {}

(* The plugin knows what it has registered, also after refusals, and       *)
(* unless another plugin was in the way that is what the configuration in  *)
(* force says, so that the next change starts from the truth.              *)
PluginInStep ==
  ImageMind \in loaded =>
    /\ registered = rt.routes[ImageMind]
    /\ named = rt.held["user"]
    /\ ~refused => /\ registered = lastGood.providers
                   /\ named = lastGood.providers \ CatalogIds

(* A strategy never outlives the plugin that registered it.                *)
NoStaleResolver == rt.default # None => rt.default \in loaded

(* A default provider that is configured but not served is a refusal and   *)
(* never a silent fallback (runtime.ts:414), and no plugin takes the       *)
(* strategy from another owner.                                            *)
NoSilentFallback ==
  [][/\ request' # request /\ request'.requested = None /\ request'.active # None
          => request'.to \subseteq {request'.active}
     /\ rt.default # None /\ rt'.default # None
          => OwnerOf[rt'.default] = OwnerOf[rt.default]]_vars
=============================================================================
