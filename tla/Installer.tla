------------------------------- MODULE Installer -------------------------------
(***************************************************************************)
(* The lifecycle command line of the plugin (packages/image-mind/src/cli): *)
(* install, update, status and uninstall for one profile.  Every command   *)
(* reads the profile, decides, and leaves what is to be done to one run of *)
(* the official tool, `dsh plugin add' or `dsh plugin remove', which works *)
(* in several steps and may fail, time out or be interrupted between them. *)
(*                                                                         *)
(* Commands are run one after the other; the profile is what the earlier   *)
(* ones left.  The official tool is modelled from what the commands expect *)
(* of it: the manifest entry, the installed package and the layer list are *)
(* changed one by one, in no order that is relied on, and its exit code is *)
(* 0 only when all of them are.                                            *)
(***************************************************************************)
EXTENDS Integers, Sequences, SequencesExt, FiniteSets

CONSTANTS
  Chain,        \* versions, in ascending order by the rules of semver
  Others,       \* other packages that depend on the vision service
  None,         \* no version
  Unparsable,   \* any version that parseVersion does not accept
  MaxCommands   \* bound on the commands

(* A version: core is <<major, minor, patch>>, pre the identifiers of the  *)
(* prerelease.  An identifier is numeric, or a word with its rank.         *)
SemVer == [core : Nat \X Nat \X Nat, pre : Seq([numeric : BOOLEAN, rank : Nat])]

ASSUME ChainAssumption ==
  /\ Chain \in Seq(SemVer) /\ \A i \in DOMAIN Chain : Chain[i] \notin {None, Unparsable}
  /\ None # Unparsable

Versions == ToSet(Chain)

VARIABLES
  running,   \* the version of the CLI
  depends,   \* the manifest lists the plugin as a dependency
  plugin,    \* the installed version of the plugin, or None
  layer,     \* the layer list has the plugin
  service,   \* the vision service is installed
  others,    \* the other packages of the profile
  pc,        \* "idle", "official" while the tool runs, or "reported"
  command,   \* the command, and the version it asked for
  todo,      \* what the official tool still has to do
  report,    \* what the command reported
  count      \* the commands so far

profile == <<depends, plugin, layer, service, others>>
vars == <<running, profile, pc, command, todo, report, count>>

NoReport == [ok |-> FALSE, action |-> "none", relation |-> "none", retained |-> {}]

Init ==
  /\ running \in Versions
  /\ depends = FALSE /\ plugin = None /\ layer = FALSE
  /\ others \in SUBSET Others
  /\ service = (others # {})
  /\ pc = "idle"
  /\ command = [name |-> "none", version |-> running]
  /\ todo = {}
  /\ report = NoReport
  /\ count = 0
-----------------------------------------------------------------------------
(* semver.ts                                                               *)

Sign(n) == IF n = 0 THEN 0 ELSE IF n < 0 THEN -1 ELSE 1

(* One identifier of a prerelease against another: a numeric one is lower. *)
CompareIdentifier(a, b) ==
  IF a.numeric = b.numeric THEN Sign(a.rank - b.rank)
  ELSE IF a.numeric THEN -1 ELSE 1

FirstDifference(a, b) ==
  LET D == {i \in 1..Len(a) : i <= Len(b) /\ a[i] # b[i]}
  IN  IF D = {} THEN 0 ELSE CHOOSE i \in D : \A j \in D : i <= j

(* Mutant: the longer list is higher, the empty one the lowest.            *)
ComparePreByLength(a, b) ==
  IF FirstDifference(a, b) # 0
  THEN CompareIdentifier(a[FirstDifference(a, b)], b[FirstDifference(a, b)])
  ELSE Sign(Len(a) - Len(b))

(* A release is above its prereleases; a list is above its prefixes.       *)
ComparePre(a, b) ==
  IF a = <<>> \/ b = <<>> THEN Sign(Len(b) - Len(a))
  ELSE IF FirstDifference(a, b) # 0
  THEN CompareIdentifier(a[FirstDifference(a, b)], b[FirstDifference(a, b)])
  ELSE Sign(Len(a) - Len(b))

CompareVersions(a, b) ==
  LET D == {i \in 1..3 : a.core[i] # b.core[i]}
  IN  IF D = {} THEN ComparePre(a.pre, b.pre)
      ELSE LET i == CHOOSE i \in D : \A j \in D : i <= j IN Sign(a.core[i] - b.core[i])

(* The CLI's own version is one of the chain.                              *)
VersionRelation(installed, cli) ==
  IF installed = Unparsable THEN "unknown"
  ELSE CASE CompareVersions(installed, cli) = 0 -> "same"
         [] CompareVersions(installed, cli) < 0 -> "older"
         [] OTHER -> "newer"
-----------------------------------------------------------------------------
(* What readProfileState makes of the profile.                             *)

PluginPresent == depends /\ plugin # None

(* sharedServiceReferencers *)
Referencers == others

Relation == IF PluginPresent THEN VersionRelation(plugin, running) ELSE "absent"

Reports(name, version, r) ==
  /\ pc' = "reported"
  /\ command' = [name |-> name, version |-> version]
  /\ report' = r
  /\ UNCHANGED <<running, profile, todo>>

(* runOfficial: the effects of `add' and of `remove'.                      *)
Effects == {"dependency", "package", "layer"}

RunOfficial(name, version) ==
  /\ pc' = "official"
  /\ command' = [name |-> name, version |-> version]
  /\ todo' = Effects
  /\ report' = NoReport
  /\ UNCHANGED <<running, profile>>

Succeeds(action) == [NoReport EXCEPT !.ok = TRUE, !.action = action]

Begin == pc \in {"idle", "reported"} /\ count < MaxCommands /\ count' = count + 1

(* There is no official launcher.                                          *)
NoLauncher ==
  /\ Begin
  /\ Reports("install", running, NoReport)

(* What a command line may ask for: the CLI's own version or the one that  *)
(* --from names exactly, or an artifact of any version.                    *)
Requests ==
  [exact : {TRUE}, version : Versions] \cup
  [exact : {FALSE}, version : Versions \cup {Unparsable}]

(* Mutant: what is installed is taken to be active.                        *)
InstallIsDoneUnlayered(request) ==
  request.exact /\ PluginPresent /\ plugin = request.version

(* decideInstall: an exact request that is met, and active.                *)
InstallIsDone(request) ==
  request.exact /\ PluginPresent /\ plugin = request.version /\ layer

Install ==
  /\ Begin
  /\ \E request \in Requests :
       IF InstallIsDone(request)
       THEN Reports("install", request.version, Succeeds("noop"))
       ELSE RunOfficial("install", request.version)

(* decideUpdate: the same version needs nothing.                           *)
UpdateIsDone == PluginPresent /\ VersionRelation(plugin, running) = "same"

(* --from counts only when there is something to update.                   *)
Update ==
  /\ Begin
  /\ \/ ~PluginPresent /\ Reports("update", running, NoReport)
     \/ UpdateIsDone /\ Reports("update", running, Succeeds("noop"))
     \/ /\ PluginPresent /\ ~UpdateIsDone
        /\ \E request \in Requests : RunOfficial("update", request.version)

(* What an uninstall says still needs the service that is left.            *)
Retained == IF service THEN Referencers ELSE {}

UninstallIsDone == ~PluginPresent /\ ~layer

Uninstall ==
  /\ Begin
  /\ IF UninstallIsDone
     THEN Reports("uninstall", running,
                  [Succeeds("noop") EXCEPT !.retained = Retained])
     ELSE RunOfficial("uninstall", running)

(* executeStatus, which only reads.                                        *)
Status ==
  /\ Begin
  /\ Reports("status", running, [Succeeds("noop") EXCEPT !.relation = Relation])
-----------------------------------------------------------------------------
(* The official tool.                                                      *)

OfficialAdds(effect) ==
  /\ depends' = (depends \/ effect = "dependency")
  /\ plugin' = IF effect = "package" THEN command.version ELSE plugin
  /\ layer' = (layer \/ effect = "layer")
  /\ service' = (service \/ effect = "package")

(* The service is pruned when nothing refers to it.                        *)
OfficialRemoves(effect) ==
  /\ depends' = (depends /\ effect # "dependency")
  /\ plugin' = IF effect = "package" THEN None ELSE plugin
  /\ layer' = (layer /\ effect # "layer")
  /\ service' = (service /\ ~(effect = "package" /\ others = {}))

OfficialStep ==
  /\ pc = "official"
  /\ \E effect \in todo :
       /\ todo' = todo \ {effect}
       /\ IF command.name = "uninstall" THEN OfficialRemoves(effect) ELSE OfficialAdds(effect)
  /\ UNCHANGED <<running, others, pc, command, report, count>>

(* The child exits with 0, and the command reads the profile again.        *)
OfficialSucceeds ==
  /\ pc = "official" /\ todo = {}
  /\ pc' = "reported"
  /\ report' = [Succeeds("official") EXCEPT
                  !.retained = IF command.name = "uninstall" THEN Retained ELSE {}]
  /\ UNCHANGED <<running, profile, command, todo, count>>

(* The child fails or runs into the timeout.                               *)
OfficialFails ==
  /\ pc = "official"
  /\ pc' = "reported"
  /\ todo' = {}
  /\ report' = [NoReport EXCEPT
                  !.action = "official",
                  !.retained = IF command.name = "uninstall" THEN Retained ELSE {}]
  /\ UNCHANGED <<running, profile, command, count>>

(* The CLI dies, and its child with it, as when a terminal interrupts      *)
(* both.  A child that outlives a killed CLI would go on beside the next   *)
(* command; like any two commands at a time that is left out.              *)
Crash ==
  /\ pc = "official"
  /\ pc' = "idle"
  /\ todo' = {}
  /\ UNCHANGED <<running, profile, command, report, count>>

(* Other packages come and go, and another CLI is used.                    *)
Elsewhere ==
  /\ pc \in {"idle", "reported"}
  /\ pc' = "idle"
  /\ report' = NoReport
  /\ running' \in Versions
  /\ others' \in SUBSET Others
  /\ service' = (others' # {} \/ plugin # None)
  /\ UNCHANGED <<depends, plugin, layer, command, todo, count>>

Next ==
  \/ NoLauncher \/ Install \/ Update \/ Uninstall \/ Status
  \/ OfficialStep \/ OfficialSucceeds \/ OfficialFails \/ Crash \/ Elsewhere

Spec == Init /\ [][Next]_vars
-----------------------------------------------------------------------------
(* Success is real: whatever earlier commands left half done, an install   *)
(* that reports success leaves the plugin at the version it asked for and  *)
(* active, an update leaves it installed, and an uninstall leaves it       *)
(* neither installed nor active.                                           *)
SuccessIsReal ==
  pc = "reported" /\ report.ok =>
    /\ command.name = "install" => PluginPresent /\ plugin = command.version /\ layer
    /\ command.name = "update" => PluginPresent /\ plugin = command.version
    /\ command.name = "uninstall" => ~PluginPresent /\ ~layer

(* The relation that status reports is the one of the order of semver,     *)
(* prereleases included, and "unknown" when there is none to report.       *)
RelationFollowsChain ==
  pc = "reported" /\ report.relation \notin {"none", "absent"} =>
    LET place(v) == CHOOSE i \in DOMAIN Chain : Chain[i] = v IN
    report.relation =
      IF plugin = Unparsable THEN "unknown"
      ELSE CASE place(plugin) = place(running) -> "same"
             [] place(plugin) < place(running) -> "older"
             [] OTHER -> "newer"
=============================================================================
