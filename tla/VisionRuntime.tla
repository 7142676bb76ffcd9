----------------------------- MODULE VisionRuntime -----------------------------
(***************************************************************************)
(* The vision service as a value (packages/vision/src/runtime.ts): which   *)
(* adapter serves each provider, what each registration holds, the         *)
(* directory of configurable providers and the default-provider strategy.  *)
(* Every operation of the code is one synchronous section, so it is an     *)
(* operator from one value to the next with a guard that says when the     *)
(* code does not throw.                                                    *)
(*                                                                         *)
(* A fiber is one loaded plugin; it registers one adapter.  A directory    *)
(* registration is named by a member of Declarations.  A list of routes is *)
(* a set: a list with repetitions or empty names is refused.  Listeners    *)
(* of the topology and of requests change nothing.  The field "standalone" *)
(* is history: the code keeps the directory only, and no registration      *)
(* knows of an entry that registerProvider added.                          *)
(***************************************************************************)
EXTENDS FiniteSets

CONSTANTS
  Fibers,        \* the plugins that use the service
  Providers,     \* provider ids
  Declarations,  \* the directory registrations of all fibers
  OwnerOf,       \* OwnerOf[f]: the name under which f owns the default strategy
  None

ASSUME RuntimeAssumption ==
  /\ None \notin Fibers /\ None \notin Providers
  /\ DOMAIN OwnerOf = Fibers

EmptyRuntime ==
  [adapters   |-> [p \in Providers |-> None],       \* the fiber that serves p
   routes     |-> [f \in Fibers |-> {}],            \* what the handle of f lists
   live       |-> [f \in Fibers |-> FALSE],         \* ~released
   directory  |-> {},                               \* the declared providers
   held       |-> [d \in Declarations |-> {}],
   standalone |-> {},                               \* entries of no registration
   default    |-> None]                             \* the fiber of the strategy

Live(rt) == {p \in Providers : rt.adapters[p] # None}
-----------------------------------------------------------------------------
(* registerAdapter                                                         *)

(* prepareRoutes: no route of ps belongs to another registration.          *)
PrepareRoutes(rt, ps, own) == ps \cap Live(rt) \subseteq own

CanRegister(rt, ps) == ps # {} /\ PrepareRoutes(rt, ps, {})

RegisterAdapter(rt, f, ps) ==
  [rt EXCEPT !.adapters = [p \in Providers |-> IF p \in ps THEN f ELSE @[p]],
             !.routes[f] = ps,
             !.live[f] = TRUE]

(* Mutant: the route is deleted whoever serves it now.                     *)
ReleaseAny(rt, f) ==
  [rt EXCEPT !.adapters = [p \in Providers |-> IF p \in rt.routes[f] THEN None ELSE @[p]],
             !.live[f] = FALSE]

(* release: the fiber's teardown runs it again after a manual disposal, so *)
(* a route is deleted only while it is still this adapter's.               *)
Release(rt, f) ==
  [rt EXCEPT !.adapters = [p \in Providers |->
                             IF p \in rt.routes[f] /\ @[p] = f THEN None ELSE @[p]],
             !.live[f] = FALSE]

CanReplace(rt, f, ps) == rt.live[f] /\ PrepareRoutes(rt, ps, rt.routes[f])

Replace(rt, f, ps) ==
  [rt EXCEPT !.adapters = [p \in Providers |-> IF p \in ps THEN f
                                               ELSE IF p \in rt.routes[f] THEN None ELSE @[p]],
             !.routes[f] = ps]
-----------------------------------------------------------------------------
(* registerConfigurableProviders                                           *)

CanDeclare(rt, d, ids) == ids \cap rt.directory \subseteq rt.held[d]

(* commit: validated as a whole, then swapped.                             *)
Declare(rt, d, ids) ==
  [rt EXCEPT !.directory = (@ \ rt.held[d]) \cup ids,
             !.held[d] = ids]

(* The effect of the fiber withdraws what its registrations ds hold.       *)
WithdrawAll(rt, ds) ==
  [rt EXCEPT !.directory = @ \ UNION {rt.held[d] : d \in ds},
             !.held = [d \in Declarations |-> IF d \in ds THEN {} ELSE @[d]]]
-----------------------------------------------------------------------------
(* registerProvider: an entry without an owner, which nothing withdraws.   *)

CanRegisterProvider(rt, p) == p \notin rt.directory

RegisterProvider(rt, p) ==
  [rt EXCEPT !.directory = @ \cup {p},
             !.standalone = @ \cup {p}]
-----------------------------------------------------------------------------
(* registerDefaultProviderResolver                                         *)

CanOwnDefault(rt, f) == rt.default # None => OwnerOf[rt.default] = OwnerOf[f]

OwnDefault(rt, f) == [rt EXCEPT !.default = f]

(* Mutant: the strategy survives the fiber that registered it.             *)
DropDefaultNever(rt, f) == rt

(* The disposer and the teardown compare the names of the owners.          *)
DropDefault(rt, f) ==
  [rt EXCEPT !.default = IF @ # None /\ OwnerOf[@] = OwnerOf[f] THEN None ELSE @]

(* Everything the teardown of f withdraws.                                 *)
Teardown(rt, f, ds) ==
  WithdrawAll(DropDefault(Release(rt, f), f), ds)
-----------------------------------------------------------------------------
(* call                                                                    *)

(* Mutant: a default provider without a live route is skipped.             *)
ResolveAny(rt, requested, active) ==
  LET wanted == IF requested # None THEN requested
                ELSE IF rt.default # None /\ active \in Live(rt) THEN active ELSE None
  IN  IF wanted # None THEN {wanted} \cap Live(rt)
      ELSE IF Cardinality(Live(rt)) = 1 THEN Live(rt) ELSE {}

(* resolveProviderId: the provider of a call, or none when it is refused.  *)
(* "active" is what the registered strategy answers.                       *)
Resolve(rt, requested, active) ==
  LET wanted == IF requested # None THEN requested
                ELSE IF rt.default # None THEN active ELSE None
  IN  IF wanted # None THEN {wanted} \cap Live(rt)
      ELSE IF Cardinality(Live(rt)) = 1 THEN Live(rt) ELSE {}
=============================================================================
