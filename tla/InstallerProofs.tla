--------------------------- MODULE InstallerProofs ---------------------------
(***************************************************************************)
(* Proofs about Installer: versions that compare as equal are equal, and a *)
(* command that reports success has left the profile as it says, for any   *)
(* versions, any other packages and any number of commands.                *)
(***************************************************************************)
EXTENDS Installer, SequenceLemmas

LEMMA VersionsType ==
  Versions \subseteq SemVer /\ None \notin Versions \cup {Unparsable} /\ Unparsable \notin Versions
BY ChainAssumption DEF Versions, ToSet

(* Two identifiers compare as equal only if they are.                      *)
LEMMA IdentifiersEqual ==
  ASSUME NEW a \in [numeric : BOOLEAN, rank : Nat], NEW b \in [numeric : BOOLEAN, rank : Nat],
         CompareIdentifier(a, b) = 0
  PROVE  a = b
<1>1. a.numeric = b.numeric
  BY DEF CompareIdentifier
<1>2. a.rank - b.rank = 0
  BY <1>1 DEF CompareIdentifier, Sign
<1>3. a.rank = b.rank
  BY <1>2
<1> QED BY <1>1, <1>3

LEMMA PrereleasesEqual ==
  ASSUME NEW a \in Seq([numeric : BOOLEAN, rank : Nat]),
         NEW b \in Seq([numeric : BOOLEAN, rank : Nat]), ComparePre(a, b) = 0
  PROVE  a = b
<1> DEFINE D == {i \in 1..Len(a) : i <= Len(b) /\ a[i] # b[i]}
<1>1. CASE a = <<>> \/ b = <<>>
  <2>1. Len(b) - Len(a) = 0 /\ Len(a) \in Nat /\ Len(b) \in Nat
    BY <1>1 DEF ComparePre, Sign
  <2> QED BY <1>1, <2>1
<1>2. CASE ~(a = <<>> \/ b = <<>>)
  <2>1. CASE D = {}
    <3>1. FirstDifference(a, b) = 0
      BY <2>1 DEF FirstDifference
    <3>2. Len(a) = Len(b)
      BY <1>2, <3>1 DEF ComparePre, Sign
    <3>3. \A i \in 1..Len(a) : a[i] = b[i]
      BY <2>1, <3>2
    <3> QED BY <3>2, <3>3, SeqEqual
  <2>2. CASE D # {}
    <3>1. \E i \in D : \A j \in D : i <= j
      <4>1. D \subseteq Nat
        OBVIOUS
      <4> HIDE DEF D
      <4> QED BY <2>2, <4>1, LeastOf
    <3>2. PICK i \in D : FirstDifference(a, b) = i
      BY <2>2, <3>1 DEF FirstDifference
    <3>3. CompareIdentifier(a[i], b[i]) = 0
      BY <1>2, <3>2 DEF ComparePre
    <3>4. a[i] = b[i]
      <4> DEFINE Identifier == [numeric : BOOLEAN, rank : Nat]
      <4>1. i \in 1..Len(a) /\ i \in 1..Len(b) /\ a \in Seq(Identifier) /\ b \in Seq(Identifier)
        BY <3>2
      <4> HIDE DEF Identifier
      <4>2. a[i] \in Identifier /\ b[i] \in Identifier
        BY <4>1
      <4> QED BY <3>3, <4>2, IdentifiersEqual DEF Identifier
    <3> QED BY <3>2, <3>4
  <2> QED BY <2>1, <2>2
<1> QED BY <1>1, <1>2

(* Versions that compare as equal are equal (semver.ts compareVersions), so *)
(* that what `update' takes for the same version is the same version.      *)
THEOREM ComparedEqual ==
  ASSUME NEW a \in Versions, NEW b \in Versions, CompareVersions(a, b) = 0
  PROVE  a = b
<1> DEFINE D == {i \in 1..3 : a.core[i] # b.core[i]}
<1>1. a \in SemVer /\ b \in SemVer
  BY VersionsType
<1>2. \A i \in 1..3 : a.core[i] \in Nat /\ b.core[i] \in Nat
  BY <1>1 DEF SemVer
<1>3. CASE D = {}
  <2>1. a.core = b.core
    BY <1>1, <1>3 DEF SemVer
  <2>2. a.pre = b.pre
    BY <1>1, <1>3, PrereleasesEqual DEF CompareVersions, SemVer
  <2> QED BY <1>1, <2>1, <2>2 DEF SemVer
<1>4. CASE D # {}
  <2>1. \E i \in D : \A j \in D : i <= j
    BY <1>4, LeastOf
  <2>2. PICK i \in D : CompareVersions(a, b) = Sign(a.core[i] - b.core[i])
    BY <1>4, <2>1 DEF CompareVersions
  <2>3. a.core[i] - b.core[i] = 0
    BY <1>2, <2>2 DEF Sign
  <2> QED BY <1>2, <2>2, <2>3
<1> QED BY <1>3, <1>4

LEMMA SameIsEqual ==
  ASSUME NEW a \in Versions \cup {Unparsable}, NEW b \in Versions, VersionRelation(a, b) = "same"
  PROVE  a = b
BY ComparedEqual DEF VersionRelation
-----------------------------------------------------------------------------
Names == {"none", "install", "update", "uninstall", "status"}

Types ==
  /\ running \in Versions
  /\ depends \in BOOLEAN /\ layer \in BOOLEAN
  /\ plugin \in Versions \cup {None, Unparsable}
  /\ pc \in {"idle", "official", "reported"}
  /\ command \in [name : Names, version : Versions \cup {Unparsable}]

(* What the official tool has no longer to do is done: a run of it that    *)
(* was cut short left no debt to this one.                                 *)
WorkIsDone ==
  pc = "official" =>
    /\ command.name \in {"install", "update", "uninstall"}
    /\ command.name # "uninstall" =>
         /\ "dependency" \notin todo => depends
         /\ "package" \notin todo => plugin = command.version
         /\ "layer" \notin todo => layer
    /\ command.name = "uninstall" =>
         /\ "dependency" \notin todo => ~depends
         /\ "layer" \notin todo => ~layer

IInv == Types /\ WorkIsDone /\ SuccessIsReal

LEMMA InitKeeps == Init => IInv
<1> SUFFICES ASSUME Init PROVE IInv
  OBVIOUS
<1>1. Types
  BY DEF Init, Types, Names
<1>2. WorkIsDone /\ SuccessIsReal
  BY DEF Init, WorkIsDone, SuccessIsReal
<1> QED BY <1>1, <1>2 DEF IInv

(* A command decides and reports, or leaves it to the official tool.       *)
LEMMA ReportKeeps ==
  ASSUME IInv, NEW name \in Names, NEW version \in Versions \cup {Unparsable}, NEW r, Reports(name, version, r),
         r.ok => /\ name = "install" => PluginPresent /\ plugin = version /\ layer
                 /\ name = "update" => PluginPresent /\ plugin = version
                 /\ name = "uninstall" => ~PluginPresent /\ ~layer
  PROVE  IInv'
BY DEF Reports, IInv, Types, WorkIsDone, SuccessIsReal, PluginPresent, profile

LEMMA RunKeeps ==
  ASSUME IInv, NEW name \in {"install", "update", "uninstall"}, NEW version \in Versions \cup {Unparsable},
         RunOfficial(name, version)
  PROVE  IInv'
BY DEF RunOfficial, IInv, Types, WorkIsDone, SuccessIsReal, NoReport, Effects, Names, profile

LEMMA CommandKeeps ==
  ASSUME IInv, NoLauncher \/ Install \/ Update \/ Uninstall \/ Status
  PROVE  IInv'
<1>1. ~NoReport.ok
  BY DEF NoReport
<1>2. running \in Versions /\ \A q \in Requests : q.version \in Versions \cup {Unparsable}
  BY DEF IInv, Types, Requests
<1>3. CASE NoLauncher
  BY <1>1, <1>2, <1>3, ReportKeeps DEF NoLauncher, Names
<1>4. CASE Install
  <2> PICK q \in Requests : IF InstallIsDone(q)
                            THEN Reports("install", q.version, Succeeds("noop"))
                            ELSE RunOfficial("install", q.version)
    BY <1>4 DEF Install
  <2>1. CASE InstallIsDone(q)
    BY <1>1, <1>2, <2>1, ReportKeeps DEF InstallIsDone, Names
  <2>2. CASE ~InstallIsDone(q)
    BY <1>2, <2>2, RunKeeps
  <2> QED BY <2>1, <2>2
<1>5. CASE Update
  <2>1. CASE ~PluginPresent /\ Reports("update", running, NoReport)
    BY <1>1, <1>2, <2>1, ReportKeeps DEF Names
  <2>2. CASE UpdateIsDone /\ Reports("update", running, Succeeds("noop"))
    <3>1. PluginPresent /\ plugin = running
      BY <1>2, <2>2, SameIsEqual DEF UpdateIsDone, PluginPresent, IInv, Types
    <3> QED BY <1>1, <1>2, <2>2, <3>1, ReportKeeps DEF Names
  <2>3. CASE \E q \in Requests : RunOfficial("update", q.version)
    BY <1>2, <2>3, RunKeeps
  <2> QED BY <1>5, <2>1, <2>2, <2>3 DEF Update
<1>6. CASE Uninstall
  <2>1. CASE /\ UninstallIsDone
             /\ Reports("uninstall", running, [Succeeds("noop") EXCEPT !.retained = Retained])
    BY <1>1, <1>2, <2>1, ReportKeeps DEF UninstallIsDone, Names
  <2>2. CASE RunOfficial("uninstall", running)
    BY <1>2, <2>2, RunKeeps
  <2> QED BY <1>6, <2>1, <2>2 DEF Uninstall
<1>7. CASE Status
  BY <1>1, <1>2, <1>7, ReportKeeps DEF Status, Names
<1> QED BY <1>3, <1>4, <1>5, <1>6, <1>7

LEMMA OfficialKeeps ==
  ASSUME IInv, OfficialStep \/ OfficialSucceeds \/ OfficialFails \/ Crash \/ Elsewhere
  PROVE  IInv'
<1>1. CASE OfficialStep
  <2> PICK effect \in todo :
        /\ todo' = todo \ {effect}
        /\ IF command.name = "uninstall" THEN OfficialRemoves(effect) ELSE OfficialAdds(effect)
    BY <1>1 DEF OfficialStep
  <2>1. pc = "official" /\ UNCHANGED <<running, others, pc, command, report>>
    BY <1>1 DEF OfficialStep
  <2>2. CASE command.name = "uninstall"
    BY <2>1, <2>2 DEF OfficialRemoves, IInv, Types, WorkIsDone, SuccessIsReal
  <2>3. CASE command.name # "uninstall"
    BY <2>1, <2>3 DEF OfficialAdds, IInv, Types, WorkIsDone, SuccessIsReal
  <2> QED BY <2>2, <2>3
<1>2. CASE OfficialSucceeds
  <2>1. /\ pc = "official" /\ todo = {} /\ pc' = "reported"
        /\ UNCHANGED <<running, depends, plugin, layer, others, command, todo>>
    BY <1>2 DEF OfficialSucceeds, profile
  <2> QED BY <2>1, VersionsType DEF IInv, Types, WorkIsDone, SuccessIsReal, PluginPresent
<1>3. CASE OfficialFails
  <2>1. /\ pc' = "reported"
        /\ UNCHANGED <<running, depends, plugin, layer, others, command>>
    BY <1>3 DEF OfficialFails, profile
  <2>2. ~report'.ok
    BY <1>3 DEF OfficialFails, NoReport
  <2> QED BY <2>1, <2>2 DEF IInv, Types, WorkIsDone, SuccessIsReal
<1>4. CASE Crash
  BY <1>4 DEF Crash, IInv, Types, WorkIsDone, SuccessIsReal, profile
<1>5. CASE Elsewhere
  BY <1>5 DEF Elsewhere, IInv, Types, WorkIsDone, SuccessIsReal, NoReport
<1> QED BY <1>1, <1>2, <1>3, <1>4, <1>5

(* The inductive invariant holds in every reachable state.                 *)
THEOREM InvariantHolds == Spec => []IInv
<1>1. ASSUME IInv, [Next]_vars PROVE IInv'
  <2>1. CASE UNCHANGED vars
    BY <1>1, <2>1 DEF vars, profile, IInv, Types, WorkIsDone, SuccessIsReal, PluginPresent
  <2> QED BY <1>1, <2>1, CommandKeeps, OfficialKeeps DEF Next
<1> QED BY <1>1, InitKeeps, PTL DEF Spec

(* A success that a command reports is real (execute.ts).                  *)
THEOREM SuccessHolds == Spec => []SuccessIsReal
<1>1. IInv => SuccessIsReal
  BY DEF IInv
<1> QED BY <1>1, InvariantHolds, PTL
-----------------------------------------------------------------------------
(* The comparison orders the versions.                                     *)

Identifier == [numeric : BOOLEAN, rank : Nat]

IdentifierLess(x, y) == CompareIdentifier(x, y) < 0

(* The one is lower at the first place where they differ.                  *)
CoreLess(x, y) == \E i \in 1..3 : x[i] < y[i] /\ \A j \in 1..i - 1 : x[j] = y[j]

(* ... or ends first; and no prerelease is the highest.                    *)
PreLess(s, t) ==
  /\ s # <<>>
  /\ \/ t = <<>>
     \/ \E i \in 1..Len(s) :
          i <= Len(t) /\ IdentifierLess(s[i], t[i]) /\ \A j \in 1..i - 1 : s[j] = t[j]
     \/ Len(s) < Len(t) /\ \A j \in 1..Len(s) : s[j] = t[j]

Less(a, b) == CompareVersions(a, b) < 0

LEMMA SignLess ==
  ASSUME NEW n \in Int
  PROVE  (Sign(n) < 0 <=> n < 0) /\ (Sign(n) = 0 <=> n = 0)
BY DEF Sign

(* Identifiers are ordered.                                                *)
LEMMA IdentifierOrder ==
  ASSUME NEW x \in Identifier, NEW y \in Identifier
  PROVE  /\ ~IdentifierLess(x, x)
         /\ \A z \in Identifier : IdentifierLess(x, y) /\ IdentifierLess(y, z) => IdentifierLess(x, z)
<1>1. \A u, v \in Identifier :
        IdentifierLess(u, v) <=>
          \/ u.numeric = v.numeric /\ u.rank < v.rank
          \/ u.numeric /\ ~v.numeric
  <2> SUFFICES ASSUME NEW u \in Identifier, NEW v \in Identifier
               PROVE  IdentifierLess(u, v) <=>
                        \/ u.numeric = v.numeric /\ u.rank < v.rank
                        \/ u.numeric /\ ~v.numeric
    OBVIOUS
  <2>1. u.numeric \in BOOLEAN /\ v.numeric \in BOOLEAN /\ u.rank - v.rank \in Int
        /\ u.rank \in Nat /\ v.rank \in Nat
    BY DEF Identifier
  <2>2. CASE u.numeric = v.numeric
    <3>1. CompareIdentifier(u, v) = Sign(u.rank - v.rank)
      BY <2>2 DEF CompareIdentifier
    <3>2. IdentifierLess(u, v) <=> u.rank - v.rank < 0
      BY <2>1, <3>1, SignLess DEF IdentifierLess
    <3> QED BY <2>1, <2>2, <3>2
  <2>3. CASE u.numeric # v.numeric
    <3>1. CompareIdentifier(u, v) = IF u.numeric THEN -1 ELSE 1
      BY <2>3 DEF CompareIdentifier
    <3>2. IdentifierLess(u, v) <=> u.numeric
      BY <3>1, <2>1 DEF IdentifierLess
    <3> QED BY <2>1, <2>3, <3>2
  <2> QED BY <2>2, <2>3
<1>2. \A u \in Identifier : u.rank \in Nat /\ u.numeric \in BOOLEAN
  BY DEF Identifier
<1> QED BY <1>1, <1>2

(* Which of two prereleases is lower.                                      *)
LEMMA PreMeans ==
  ASSUME NEW s \in Seq(Identifier), NEW t \in Seq(Identifier)
  PROVE  ComparePre(s, t) < 0 <=> PreLess(s, t)
<1>1. Len(s) \in Nat /\ Len(t) \in Nat /\ (s = <<>> <=> Len(s) = 0) /\ (t = <<>> <=> Len(t) = 0)
  OBVIOUS
<1>2. CASE s = <<>> \/ t = <<>>
  <2>1. ComparePre(s, t) = Sign(Len(t) - Len(s)) /\ Len(t) - Len(s) \in Int
    BY <1>1, <1>2 DEF ComparePre
  <2>2. ComparePre(s, t) < 0 <=> Len(t) - Len(s) < 0
    BY <2>1, SignLess
  <2>3. Len(t) - Len(s) < 0 <=> s # <<>>
    BY <1>1, <1>2
  <2>4. PreLess(s, t) <=> s # <<>>
    BY <1>2 DEF PreLess
  <2> QED BY <2>2, <2>3, <2>4
<1>3. CASE ~(s = <<>> \/ t = <<>>)
  <2> DEFINE D == {i \in 1..Len(s) : i <= Len(t) /\ s[i] # t[i]}
  <2>1. CASE D = {}
    <3>1. FirstDifference(s, t) = 0
      BY <2>1 DEF FirstDifference
    <3>2. ComparePre(s, t) = Sign(Len(s) - Len(t)) /\ Len(s) - Len(t) \in Int
      BY <1>1, <1>3, <3>1 DEF ComparePre
    <3>3. ComparePre(s, t) < 0 <=> Len(s) - Len(t) < 0
      BY <3>2, SignLess
    <3>4. \A i \in 1..Len(s) : i <= Len(t) => s[i] = t[i]
      BY <2>1
    <3>5. \A i \in 1..Len(s) : i <= Len(t) => ~IdentifierLess(s[i], t[i])
      <4> SUFFICES ASSUME NEW i \in 1..Len(s), i <= Len(t) PROVE ~IdentifierLess(s[i], t[i])
        OBVIOUS
      <4>1. s[i] = t[i] /\ s[i] \in Identifier
        BY <3>4
      <4> QED BY <4>1, IdentifierOrder
    <3>6. PreLess(s, t) <=> Len(s) < Len(t)
      <4>1. Len(s) < Len(t) => \A j \in 1..Len(s) : s[j] = t[j]
        BY <1>1, <3>4
      <4> QED BY <4>1, <1>3, <3>5 DEF PreLess
    <3> QED BY <1>1, <3>3, <3>6
  <2>2. CASE D # {}
    <3>1. \E i \in D : \A j \in D : i <= j
      <4>1. D \subseteq Nat
        OBVIOUS
      <4> HIDE DEF D
      <4> QED BY <2>2, <4>1, LeastOf
    <3>2. PICK i \in D : FirstDifference(s, t) = i /\ \A j \in D : i <= j
      BY <2>2, <3>1 DEF FirstDifference
    <3>3. i \in 1..Len(s) /\ i <= Len(t) /\ s[i] # t[i] /\ i # 0
      BY <3>2
    <3>4. \A j \in 1..i - 1 : s[j] = t[j] /\ j \in 1..Len(s) /\ j <= Len(t)
      BY <1>1, <3>2, <3>3
    <3>5. ComparePre(s, t) < 0 <=> IdentifierLess(s[i], t[i])
      BY <1>3, <3>2, <3>3 DEF ComparePre, IdentifierLess
    <3>6. \A j \in 1..Len(s) :
            j <= Len(t) /\ IdentifierLess(s[j], t[j]) /\ (\A k \in 1..j - 1 : s[k] = t[k]) => j = i
      <4> SUFFICES ASSUME NEW j \in 1..Len(s), j <= Len(t), IdentifierLess(s[j], t[j]),
                          \A k \in 1..j - 1 : s[k] = t[k]
                   PROVE  j = i
        OBVIOUS
      <4>1. s[j] # t[j]
        <5>1. s[j] \in Identifier
          OBVIOUS
        <5> QED BY <5>1, IdentifierOrder
      <4>2. i <= j
        BY <4>1, <3>2
      <4>3. ~(i < j)
        BY <3>3
      <4> QED BY <4>2, <4>3, <3>3
    <3>7. ~(Len(s) < Len(t) /\ \A j \in 1..Len(s) : s[j] = t[j])
      BY <3>3
    <3>8. PreLess(s, t) <=> IdentifierLess(s[i], t[i])
      BY <1>3, <3>3, <3>4, <3>6, <3>7 DEF PreLess
    <3> QED BY <3>5, <3>8
  <2> QED BY <2>1, <2>2
<1> QED BY <1>2, <1>3

(* Which of two versions is lower.                                         *)
LEMMA LessMeans ==
  ASSUME NEW a \in SemVer, NEW b \in SemVer
  PROVE  Less(a, b) <=> \/ CoreLess(a.core, b.core)
                        \/ a.core = b.core /\ PreLess(a.pre, b.pre)
<1> DEFINE D == {i \in 1..3 : a.core[i] # b.core[i]}
<1>1. /\ \A i \in 1..3 : a.core[i] \in Nat /\ b.core[i] \in Nat
      /\ a.core \in Nat \X Nat \X Nat /\ b.core \in Nat \X Nat \X Nat
      /\ a.pre \in Seq(Identifier) /\ b.pre \in Seq(Identifier)
  BY DEF SemVer, Identifier
<1>2. CASE D = {}
  <2>1. a.core = b.core
    BY <1>1, <1>2
  <2>2. CompareVersions(a, b) = ComparePre(a.pre, b.pre)
    BY <1>2 DEF CompareVersions
  <2>3. ~CoreLess(a.core, b.core)
    BY <1>1, <2>1 DEF CoreLess
  <2> QED BY <1>1, <2>1, <2>2, <2>3, PreMeans DEF Less
<1>3. CASE D # {}
  <2>1. \E i \in D : \A j \in D : i <= j
    BY <1>3, LeastOf
  <2>2. PICK i \in D : /\ CompareVersions(a, b) = Sign(a.core[i] - b.core[i])
                       /\ \A j \in D : i <= j
    BY <1>3, <2>1 DEF CompareVersions
  <2>3. i \in 1..3 /\ a.core[i] # b.core[i]
    BY <2>2
  <2>4. Less(a, b) <=> a.core[i] < b.core[i]
    <3> DEFINE x == a.core[i]
               y == b.core[i]
    <3>1. CompareVersions(a, b) = Sign(x - y)
      BY <2>2
    <3>2. x \in Nat /\ y \in Nat
      BY <2>3, <1>1
    <3> HIDE DEF x, y
    <3>3. Sign(x - y) < 0 <=> x - y < 0
      BY <3>2, SignLess
    <3>4. Less(a, b) <=> x < y
      BY <3>1, <3>2, <3>3 DEF Less
    <3> QED BY <3>4 DEF x, y
  <2>5. \A j \in 1..i - 1 : a.core[j] = b.core[j]
    BY <2>2, <2>3
  <2>6. CoreLess(a.core, b.core) <=> a.core[i] < b.core[i]
    <3>1. ASSUME NEW j \in 1..3, a.core[j] < b.core[j], \A k \in 1..j - 1 : a.core[k] = b.core[k]
          PROVE  j = i
      <4>1. a.core[j] # b.core[j]
        BY <1>1, <3>1
      <4>2. i <= j
        BY <4>1, <2>2
      <4>3. ~(i < j)
        BY <2>3, <3>1
      <4> QED BY <4>2, <4>3, <2>3
    <3> QED BY <3>1, <2>3, <2>5 DEF CoreLess
  <2> QED BY <2>3, <2>4, <2>6
<1> QED BY <1>2, <1>3

LEMMA CoreOrder ==
  ASSUME NEW x \in Nat \X Nat \X Nat, NEW y \in Nat \X Nat \X Nat, NEW z \in Nat \X Nat \X Nat
  PROVE  /\ ~CoreLess(x, x)
         /\ CoreLess(x, y) /\ CoreLess(y, z) => CoreLess(x, z)
<1>1. \A i \in 1..3 : x[i] \in Nat /\ y[i] \in Nat /\ z[i] \in Nat
  OBVIOUS
<1>2. ~CoreLess(x, x)
  BY <1>1 DEF CoreLess
<1>3. ASSUME CoreLess(x, y), CoreLess(y, z) PROVE CoreLess(x, z)
  <2>1. PICK i \in 1..3 : x[i] < y[i] /\ \A k \in 1..i - 1 : x[k] = y[k]
    BY <1>3 DEF CoreLess
  <2>2. PICK j \in 1..3 : y[j] < z[j] /\ \A k \in 1..j - 1 : y[k] = z[k]
    BY <1>3 DEF CoreLess
  <2> HIDE DEF CoreLess
  <2>3. CASE i < j
    <3>1. y[i] = z[i] /\ \A k \in 1..i - 1 : x[k] = z[k]
      BY <2>1, <2>2, <2>3
    <3> QED BY <2>1, <3>1 DEF CoreLess
  <2>4. CASE i = j
    <3>1. \A k \in 1..i - 1 : x[k] = z[k]
      BY <2>1, <2>2, <2>4
    <3>2. x[i] < z[i]
      BY <1>1, <2>1, <2>2, <2>4
    <3> QED BY <3>1, <3>2 DEF CoreLess
  <2>5. CASE j < i
    <3>1. x[j] = y[j] /\ \A k \in 1..j - 1 : x[k] = z[k]
      BY <2>1, <2>2, <2>5
    <3> QED BY <2>2, <3>1 DEF CoreLess
  <2> QED BY <2>3, <2>4, <2>5
<1> QED BY <1>2, <1>3

LEMMA PreOrder ==
  ASSUME NEW s \in Seq(Identifier), NEW t \in Seq(Identifier), NEW u \in Seq(Identifier)
  PROVE  /\ ~PreLess(s, s)
         /\ PreLess(s, t) /\ PreLess(t, u) => PreLess(s, u)
<1>1. /\ Len(s) \in Nat /\ Len(t) \in Nat /\ Len(u) \in Nat
      /\ \A i \in 1..Len(s) : s[i] \in Identifier
      /\ \A i \in 1..Len(t) : t[i] \in Identifier
      /\ \A i \in 1..Len(u) : u[i] \in Identifier
  OBVIOUS
<1>2. ~PreLess(s, s)
  <2>1. \A i \in 1..Len(s) : ~IdentifierLess(s[i], s[i])
    BY <1>1, IdentifierOrder
  <2> QED BY <1>1, <2>1 DEF PreLess
<1>3. ASSUME PreLess(s, t), PreLess(t, u) PROVE PreLess(s, u)
  <2>1. s # <<>> /\ t # <<>>
    BY <1>3 DEF PreLess
  <2>2. CASE u = <<>>
    BY <2>1, <2>2 DEF PreLess
  <2>3. ASSUME u # <<>>,
               NEW i \in 1..Len(s), i <= Len(t), IdentifierLess(s[i], t[i]),
               \A k \in 1..i - 1 : s[k] = t[k]
        PROVE  PreLess(s, u)
    <3>1. ASSUME NEW j \in 1..Len(t), j <= Len(u), IdentifierLess(t[j], u[j]),
                 \A k \in 1..j - 1 : t[k] = u[k]
          PROVE  PreLess(s, u)
      <4>1. CASE i < j
        <5>1. i <= Len(u) /\ t[i] = u[i] /\ \A k \in 1..i - 1 : s[k] = u[k]
          BY <1>1, <2>3, <3>1, <4>1
        <5>2. IdentifierLess(s[i], u[i])
          BY <2>3, <5>1
        <5> QED BY <2>1, <5>1, <5>2 DEF PreLess
      <4>2. CASE i = j
        <5>1. \A k \in 1..i - 1 : s[k] = u[k]
          BY <2>3, <3>1, <4>2
        <5>2. s[i] \in Identifier /\ t[i] \in Identifier /\ u[i] \in Identifier /\ i <= Len(u)
          BY <1>1, <3>1, <4>2
        <5>3. IdentifierLess(t[i], u[i])
          BY <3>1, <4>2
        <5>4. IdentifierLess(s[i], u[i])
          BY <2>3, <5>2, <5>3, IdentifierOrder
        <5> QED BY <2>1, <5>1, <5>2, <5>4 DEF PreLess
      <4>3. CASE j < i
        <5>1. j \in 1..Len(s) /\ s[j] = t[j] /\ \A k \in 1..j - 1 : s[k] = u[k]
          BY <1>1, <2>3, <3>1, <4>3
        <5>2. IdentifierLess(s[j], u[j])
          BY <3>1, <5>1
        <5> QED BY <2>1, <3>1, <5>1, <5>2 DEF PreLess
      <4> QED BY <4>1, <4>2, <4>3
    <3>2. CASE Len(t) < Len(u) /\ \A k \in 1..Len(t) : t[k] = u[k]
      <4>0. i \in 1..Len(t) /\ i <= Len(u) /\ \A k \in 1..i - 1 : k \in 1..Len(t)
        BY <1>1, <2>3, <3>2
      <4>1. i <= Len(u) /\ t[i] = u[i] /\ \A k \in 1..i - 1 : s[k] = u[k]
        BY <4>0, <2>3, <3>2
      <4>2. IdentifierLess(s[i], u[i])
        BY <2>3, <4>1
      <4> QED BY <2>1, <4>1, <4>2 DEF PreLess
    <3> QED BY <1>3, <2>3, <3>1, <3>2 DEF PreLess
  <2>4. ASSUME u # <<>>, Len(s) < Len(t), \A k \in 1..Len(s) : s[k] = t[k]
        PROVE  PreLess(s, u)
    <3>1. ASSUME NEW j \in 1..Len(t), j <= Len(u), IdentifierLess(t[j], u[j]),
                 \A k \in 1..j - 1 : t[k] = u[k]
          PROVE  PreLess(s, u)
      <4>1. CASE j <= Len(s)
        <5>1. j \in 1..Len(s) /\ s[j] = t[j] /\ \A k \in 1..j - 1 : s[k] = u[k]
          BY <1>1, <2>4, <3>1, <4>1
        <5>2. IdentifierLess(s[j], u[j])
          BY <3>1, <5>1
        <5> QED BY <2>1, <3>1, <5>1, <5>2 DEF PreLess
      <4>2. CASE Len(s) < j
        <5>1. Len(s) < Len(u) /\ \A k \in 1..Len(s) : s[k] = u[k]
          BY <1>1, <2>4, <3>1, <4>2
        <5> QED BY <2>1, <5>1 DEF PreLess
      <4> QED BY <1>1, <4>1, <4>2
    <3>2. CASE Len(t) < Len(u) /\ \A k \in 1..Len(t) : t[k] = u[k]
      <4>1. Len(s) < Len(u) /\ \A k \in 1..Len(s) : s[k] = u[k]
        BY <1>1, <2>4, <3>2
      <4> QED BY <2>1, <4>1 DEF PreLess
    <3> QED BY <1>3, <2>4, <3>1, <3>2 DEF PreLess
  <2> QED BY <1>3, <2>1, <2>2, <2>3, <2>4 DEF PreLess
<1> QED BY <1>2, <1>3

LEMMA ComparedSame == ASSUME NEW a \in SemVer PROVE CompareVersions(a, a) = 0
<1>1. a.pre \in Seq(Identifier) /\ Len(a.pre) - Len(a.pre) = 0
  BY DEF SemVer, Identifier
<1>2. FirstDifference(a.pre, a.pre) = 0
  BY DEF FirstDifference
<1>3. ComparePre(a.pre, a.pre) = 0
  BY <1>1, <1>2 DEF ComparePre, Sign
<1>4. {i \in 1..3 : a.core[i] # a.core[i]} = {}
  OBVIOUS
<1> QED BY <1>3, <1>4 DEF CompareVersions

(* Versions are ordered: no version is below itself, nor below one that is *)
(* below it.                                                               *)
LEMMA VersionOrder ==
  ASSUME NEW a \in SemVer, NEW b \in SemVer, NEW c \in SemVer
  PROVE  /\ ~Less(a, a)
         /\ Less(a, b) /\ Less(b, c) => Less(a, c)
<1> DEFINE Core == Nat \X Nat \X Nat
<1>1. /\ a.core \in Core /\ b.core \in Core /\ c.core \in Core
      /\ a.pre \in Seq(Identifier) /\ b.pre \in Seq(Identifier) /\ c.pre \in Seq(Identifier)
  BY DEF SemVer, Identifier
<1>2. ~Less(a, a)
  BY <1>1, LessMeans, CoreOrder, PreOrder
<1>3. ASSUME Less(a, b), Less(b, c) PROVE Less(a, c)
  <2>1. \/ CoreLess(a.core, b.core)
        \/ a.core = b.core /\ PreLess(a.pre, b.pre)
    BY <1>3, LessMeans
  <2>2. \/ CoreLess(b.core, c.core)
        \/ b.core = c.core /\ PreLess(b.pre, c.pre)
    BY <1>3, LessMeans
  <2>3. \/ CoreLess(a.core, c.core)
        \/ a.core = c.core /\ PreLess(a.pre, c.pre)
    <3>1. CoreLess(a.core, b.core) /\ CoreLess(b.core, c.core) => CoreLess(a.core, c.core)
      BY <1>1, CoreOrder
    <3>2. PreLess(a.pre, b.pre) /\ PreLess(b.pre, c.pre) => PreLess(a.pre, c.pre)
      BY <1>1, PreOrder
    <3> QED BY <2>1, <2>2, <3>1, <3>2
  <2> QED BY <2>3, LessMeans
<1> QED BY <1>2, <1>3
-----------------------------------------------------------------------------
(* What status reports follows the chain.                                  *)

(* The chain is in order: every version is below the next one.             *)
Ascending == \A i \in 1..Len(Chain) - 1 : Less(Chain[i], Chain[i + 1])

(* ... so every version is below all the later ones.                       *)
LEMMA ChainOrder ==
  ASSUME Ascending
  PROVE  \A i, j \in DOMAIN Chain : i < j => Less(Chain[i], Chain[j])
<1>1. /\ Len(Chain) \in Nat /\ DOMAIN Chain = 1..Len(Chain)
      /\ \A i \in 1..Len(Chain) : Chain[i] \in SemVer
  BY ChainAssumption
<1> DEFINE P == {n \in Nat : \A i \in 1..Len(Chain) :
                               i + n + 1 <= Len(Chain) => Less(Chain[i], Chain[i + n + 1])}
<1>2. 0 \in P
  BY <1>1 DEF Ascending
<1>3. ASSUME NEW n \in Nat, n \in P PROVE n + 1 \in P
  <2> SUFFICES ASSUME NEW i \in 1..Len(Chain), i + (n + 1) + 1 <= Len(Chain)
               PROVE  Less(Chain[i], Chain[i + (n + 1) + 1])
    OBVIOUS
  <2> DEFINE k == i + n + 1
  <2>1. /\ k \in 1..Len(Chain) /\ k \in 1..Len(Chain) - 1 /\ k + 1 \in 1..Len(Chain)
        /\ i + (n + 1) + 1 = k + 1
    BY <1>1
  <2>2. Less(Chain[i], Chain[k])
    BY <1>3, <2>1
  <2> HIDE DEF k
  <2>3. Less(Chain[k], Chain[k + 1])
    BY <2>1 DEF Ascending
  <2>4. Less(Chain[i], Chain[k + 1])
    BY <1>1, <2>1, <2>2, <2>3, VersionOrder
  <2> QED BY <2>1, <2>4
<1> HIDE DEF P
<1>4. \A n \in Nat : n \in P
  BY <1>2, <1>3, EveryNatural
<1>5. ASSUME NEW i \in DOMAIN Chain, NEW j \in DOMAIN Chain, i < j
      PROVE  Less(Chain[i], Chain[j])
  <2> DEFINE n == j - i - 1
  <2>1. n \in Nat /\ i + n + 1 = j /\ i \in 1..Len(Chain) /\ j <= Len(Chain)
    BY <1>1, <1>5
  <2> HIDE DEF n
  <2>2. n \in P
    BY <1>4, <2>1
  <2> QED BY <2>1, <2>2 DEF P
<1> QED BY <1>5

(* The relation of two versions of the chain is that of their places.      *)
LEMMA RelationOfPlaces ==
  ASSUME Ascending, NEW v \in Versions, NEW w \in Versions
  PROVE  LET place(x) == CHOOSE i \in DOMAIN Chain : Chain[i] = x IN
         VersionRelation(v, w) = CASE place(v) = place(w) -> "same"
                                   [] place(v) < place(w) -> "older"
                                   [] OTHER -> "newer"
<1> DEFINE i == CHOOSE n \in DOMAIN Chain : Chain[n] = v
           j == CHOOSE n \in DOMAIN Chain : Chain[n] = w
<1>1. i \in DOMAIN Chain /\ Chain[i] = v /\ j \in DOMAIN Chain /\ Chain[j] = w
  BY DEF Versions, ToSet
<1>2. i \in Int /\ j \in Int /\ v \in SemVer /\ w \in SemVer
  BY <1>1, ChainAssumption
<1> HIDE DEF i, j
<1>3. \A n, m \in DOMAIN Chain : n < m => Less(Chain[n], Chain[m])
  BY ChainOrder
<1>4. i < j => Less(v, w)
  BY <1>1, <1>3
<1>5. j < i => Less(w, v)
  BY <1>1, <1>3
<1>6. CompareVersions(v, w) = 0 <=> v = w
  BY <1>2, ComparedEqual, ComparedSame
<1>7. CompareVersions(v, w) < 0 <=> i < j
  <2>1. i < j => CompareVersions(v, w) < 0
    BY <1>4 DEF Less
  <2>2. i = j => ~Less(v, w)
    BY <1>1, <1>2, VersionOrder
  <2>3. j < i => ~Less(v, w)
    BY <1>2, <1>5, VersionOrder
  <2> QED BY <1>2, <2>1, <2>2, <2>3 DEF Less
<1>8. v = w <=> i = j
  <2>1. v = w => ~Less(v, w) /\ ~Less(w, v)
    BY <1>2, VersionOrder
  <2> QED BY <1>1, <1>2, <1>4, <1>5, <2>1
<1> DEFINE places == CASE i = j -> "same" [] i < j -> "older" [] OTHER -> "newer"
<1>9. VersionRelation(v, w) = places
  <2>1. CASE i = j
    <3>1. ~(i < j) /\ CompareVersions(v, w) = 0 /\ ~(CompareVersions(v, w) < 0)
      BY <1>2, <1>6, <1>7, <1>8, <2>1
    <3> QED BY <2>1, <3>1, VersionsType DEF VersionRelation
  <2>2. CASE i < j
    <3>1. i # j /\ CompareVersions(v, w) # 0 /\ CompareVersions(v, w) < 0
      BY <1>2, <1>6, <1>7, <1>8, <2>2
    <3> QED BY <2>2, <3>1, VersionsType DEF VersionRelation
  <2>3. CASE j < i
    <3>1. i # j /\ ~(i < j) /\ CompareVersions(v, w) # 0 /\ ~(CompareVersions(v, w) < 0)
      BY <1>2, <1>6, <1>7, <1>8, <2>3
    <3> QED BY <3>1, VersionsType DEF VersionRelation
  <2>4. i = j \/ i < j \/ j < i
    BY <1>2
  <2> HIDE DEF places
  <2> QED BY <2>1, <2>2, <2>3, <2>4
<1> QED BY <1>9 DEF i, j

(* A relation that is still reported is the one of the profile.            *)
ReportedRelation ==
  pc = "reported" /\ report.relation \notin {"none", "absent"} =>
    PluginPresent /\ report.relation = VersionRelation(plugin, running)

LEMMA RelationsNamed ==
  ASSUME NEW v, NEW w
  PROVE  VersionRelation(v, w) \in {"unknown", "same", "older", "newer"}
BY DEF VersionRelation

LEMMA RelationKeeps ==
  ASSUME ReportedRelation, [Next]_vars
  PROVE  ReportedRelation'
<1>1. ASSUME NEW name, NEW version, NEW r, Reports(name, version, r), r.relation = "none"
      PROVE  ReportedRelation'
  BY <1>1 DEF Reports, ReportedRelation
<1>2. ASSUME NEW name, NEW version, RunOfficial(name, version) PROVE ReportedRelation'
  BY <1>2 DEF RunOfficial, ReportedRelation
<1>3. /\ NoReport.relation = "none"
      /\ \A action : /\ Succeeds(action).relation = "none"
                     /\ [Succeeds(action) EXCEPT !.retained = Retained].relation = "none"
  BY DEF NoReport, Succeeds
<1>4. CASE UNCHANGED vars
  BY <1>4 DEF vars, profile, ReportedRelation, PluginPresent
<1>5. CASE NoLauncher
  BY <1>1, <1>3, <1>5 DEF NoLauncher
<1>6. CASE Install
  <2> PICK q \in Requests : IF InstallIsDone(q)
                            THEN Reports("install", q.version, Succeeds("noop"))
                            ELSE RunOfficial("install", q.version)
    BY <1>6 DEF Install
  <2> QED BY <1>1, <1>2, <1>3
<1>7. CASE Update
  BY <1>1, <1>2, <1>3, <1>7 DEF Update
<1>8. CASE Uninstall
  BY <1>1, <1>2, <1>3, <1>8 DEF Uninstall
<1>9. CASE Status
  <2>1. /\ pc' = "reported" /\ UNCHANGED <<running, depends, plugin>>
        /\ report' = [Succeeds("noop") EXCEPT !.relation = Relation]
    BY <1>9 DEF Status, Reports, profile
  <2>2. report'.relation = Relation
    <3> DEFINE rel == Relation
    <3>1. report' = [[[ok |-> FALSE, action |-> "none", relation |-> "none", retained |-> {}]
                        EXCEPT !.ok = TRUE, !.action = "noop"] EXCEPT !.relation = rel]
      BY <2>1 DEF Succeeds, NoReport
    <3> HIDE DEF rel
    <3>2. report'.relation = rel
      BY <3>1
    <3> QED BY <3>2 DEF rel
  <2>3. PluginPresent' <=> PluginPresent
    BY <2>1 DEF PluginPresent
  <2>4. VersionRelation(plugin, running)' = VersionRelation(plugin, running)
    BY <2>1
  <2>5. CASE PluginPresent
    BY <2>2, <2>3, <2>4, <2>5 DEF ReportedRelation, Relation
  <2>6. CASE ~PluginPresent
    BY <2>2, <2>6 DEF ReportedRelation, Relation
  <2> QED BY <2>5, <2>6
<1>10. CASE OfficialStep
  BY <1>10 DEF OfficialStep, ReportedRelation
<1>11. CASE OfficialSucceeds
  <2>1. report'.relation = "none"
    BY <1>11 DEF OfficialSucceeds, Succeeds, NoReport
  <2> QED BY <2>1 DEF ReportedRelation
<1>12. CASE OfficialFails
  <2>1. report'.relation = "none"
    BY <1>12 DEF OfficialFails, NoReport
  <2> QED BY <2>1 DEF ReportedRelation
<1>13. CASE Crash
  BY <1>13 DEF Crash, ReportedRelation
<1>14. CASE Elsewhere
  BY <1>14 DEF Elsewhere, ReportedRelation
<1> QED BY <1>4, <1>5, <1>6, <1>7, <1>8, <1>9, <1>10, <1>11, <1>12, <1>13, <1>14 DEF Next

(* What status reports of the plugin and the command line is the order of  *)
(* their versions (semver.ts compareVersions, status.ts): the comparison   *)
(* is a strict order, so it agrees with any chain of versions of which     *)
(* every one is below the next.                                            *)
THEOREM RelationFollowsChainHolds ==
  ASSUME Ascending
  PROVE  Spec => []RelationFollowsChain
<1>1. Init => ReportedRelation
  BY DEF Init, ReportedRelation
<1>2. IInv /\ ReportedRelation => RelationFollowsChain
  <2> SUFFICES ASSUME IInv, ReportedRelation, pc = "reported",
                      report.relation \notin {"none", "absent"}
               PROVE  RelationFollowsChain
    BY DEF RelationFollowsChain
  <2>1. PluginPresent /\ report.relation = VersionRelation(plugin, running)
    BY DEF ReportedRelation
  <2>2. plugin \in Versions \cup {Unparsable} /\ running \in Versions
    BY <2>1 DEF PluginPresent, IInv, Types
  <2>3. plugin # Unparsable => LET place(x) == CHOOSE i \in DOMAIN Chain : Chain[i] = x IN
        VersionRelation(plugin, running) = CASE place(plugin) = place(running) -> "same"
                                             [] place(plugin) < place(running) -> "older"
                                             [] OTHER -> "newer"
    BY <2>2, RelationOfPlaces
  <2>4. CASE plugin = Unparsable
    <3>1. report.relation = "unknown"
      BY <2>1, <2>4 DEF VersionRelation
    <3> QED BY <2>4, <3>1 DEF RelationFollowsChain
  <2>5. CASE plugin # Unparsable
    <3> DEFINE place(v) == CHOOSE i \in DOMAIN Chain : Chain[i] = v
               places == CASE place(plugin) = place(running) -> "same"
                           [] place(plugin) < place(running) -> "older"
                           [] OTHER -> "newer"
    <3>1. report.relation = places
      BY <2>1, <2>3, <2>5
    <3>2. (IF plugin = Unparsable THEN "unknown" ELSE places) = places
      BY <2>5
    <3> QED BY <3>1, <3>2 DEF RelationFollowsChain
  <2> QED BY <2>4, <2>5
<1>3. Spec => []ReportedRelation
  BY <1>1, RelationKeeps, PTL DEF Spec
<1> QED BY <1>2, <1>3, InvariantHolds, PTL
=============================================================================
