---------------------------- MODULE UnderstandImage ----------------------------
(***************************************************************************)
(* The understand_image tool (packages/image-mind/src/tools/               *)
(* understand-image.ts): a call finds its images, loads them with two      *)
(* workers that share a cursor, may answer from reusable evidence, and     *)
(* otherwise asks the vision service and keeps its answer as evidence.     *)
(* Calls overlap, and a change of the settings replaces the evidence cache *)
(* behind them (index.ts).                                                 *)
(*                                                                         *)
(* A call that is aborted fails at its next load or in the service; that   *)
(* is among the outcomes every load and every question may have.           *)
(***************************************************************************)
EXTENDS EvidenceCache, FiniteSets, FiniteSetsExt

CONSTANTS
  Calls,
  Images,      \* image references
  SizeOf,      \* SizeOf[i]: bytes of image i
  IsLocal,     \* the references that are paths of local files
  Arguments,   \* what calls may ask, see ArgumentsAssumption
  TotalCap,    \* maxBytes * MAX_TOTAL_IMAGE_BYTES_FACTOR
  MaxImages,   \* MAX_IMAGES_PER_REQUEST
  MaxEpochs   \* bound on changes of the settings

Modes == {"use", "refresh", "no-store"}

(* session: the images are those of a batch of the session, not named.     *)
(* named: a provider or a model is named.  reusable: the task the prompt   *)
(* was classified as has reusable evidence.  focused: the prompt asks for  *)
(* a detail.                                                               *)
ASSUME ArgumentsAssumption ==
  /\ IsLocal \subseteq Images /\ SizeOf \in [Images -> Nat] /\ MaxImages \in Nat
  /\ \A a \in Arguments :
       /\ a.images \in Seq(Images) /\ a.mode \in Modes
       /\ {a.session, a.named, a.reusable, a.focused} \subseteq BOOLEAN

VARIABLES
  stage,         \* stage[c]: where call c is
  args,       \* args[c]
  allowed,    \* allowed[c]: local files were allowed when c read the policy
  cursor,     \* cursor[c]: the last index a worker has taken
  busy,       \* busy[c]: the indices being loaded
  got,        \* got[c]: the indices loaded
  asked,      \* asked[c]: the request c sent to the service
  evidence,   \* the evidence cache
  local,      \* the policy for local files in force
  epoch       \* history: how often the settings changed

loader == <<cursor, busy, got>>
toolVars == <<stage, args, allowed, loader, asked, evidence, local, epoch>>

Ended == {"answered", "reused", "failed"}
NotAsked == [layer |-> FALSE, mode |-> "use", epoch |-> 0]

ToolInit ==
  /\ stage = [c \in Calls |-> "idle"]
  /\ args \in [Calls -> Arguments]
  /\ allowed = [c \in Calls |-> FALSE]
  /\ cursor = [c \in Calls |-> 0]
  /\ busy = [c \in Calls |-> {}]
  /\ got = [c \in Calls |-> {}]
  /\ asked = [c \in Calls |-> NotAsked]
  /\ evidence = <<>>
  /\ local \in BOOLEAN
  /\ epoch = 0

Goto(c, where) == stage' = [stage EXCEPT ![c] = where]
-----------------------------------------------------------------------------
(* Finding the images.                                                     *)

(* Either list of references: refused when empty or too long.              *)
StartLoading(c) ==
  LET n == Len(args[c].images)
  IN  IF n \in 1..MaxImages
      THEN /\ Goto(c, "loading")
           /\ busy' = [busy EXCEPT ![c] = 1..n \cap {1, 2}]
           /\ cursor' = [cursor EXCEPT ![c] = IF n = 1 THEN 1 ELSE 2]
      ELSE Goto(c, "failed") /\ UNCHANGED <<busy, cursor>>

(* execute, up to its first await.                                         *)
BeginCall(c) ==
  /\ stage[c] = "idle"
  /\ allowed' = [allowed EXCEPT ![c] = local]
  /\ IF args[c].session
     THEN Goto(c, "finding") /\ UNCHANGED <<busy, cursor>>
     ELSE StartLoading(c)
  /\ UNCHANGED <<args, got, asked, evidence, local, epoch>>

(* sessionAttachmentRefsByOffset answers.                                  *)
SessionRefs(c) ==
  /\ stage[c] = "finding"
  /\ StartLoading(c)
  /\ UNCHANGED <<args, allowed, got, asked, evidence, local, epoch>>

SessionRefsFail(c) ==
  /\ stage[c] = "finding"
  /\ Goto(c, "failed")
  /\ UNCHANGED <<args, allowed, loader, asked, evidence, local, epoch>>
-----------------------------------------------------------------------------
(* loadImagesConcurrent                                                    *)

(* local-file-policy.ts: a path needs the policy; one that does not lie in *)
(* an allowed root may still be rejected, see ImageFails.                  *)
IsAuthorized(c) == allowed[c]

(* loadImage does not reject by itself.                                    *)
LoadImage(c, i) == args[c].images[i] \in IsLocal => IsAuthorized(c)

(* Mutant: an image is checked alone.                                      *)
WithinCapSingly(c, i) == SizeOf[args[c].images[i]] <= TotalCap

TotalBytes(images, indices) == MapThenSumSet(LAMBDA k : SizeOf[images[k]], indices)

WithinCap(c, i) == TotalBytes(args[c].images, got[c] \cup {i}) <= TotalCap

(* The worker that finished index i takes the next one.                    *)
TakesNext(c, i) ==
  LET next == cursor[c] + 1
  IN  IF next <= Len(args[c].images)
      THEN /\ busy' = [busy EXCEPT ![c] = (@ \ {i}) \cup {next}]
           /\ cursor' = [cursor EXCEPT ![c] = next]
      ELSE busy' = [busy EXCEPT ![c] = @ \ {i}] /\ UNCHANGED cursor

(* Also after the call has failed: the other worker runs on.               *)
ImageLoads(c) ==
  \E i \in busy[c] :
    /\ LoadImage(c, i) /\ WithinCap(c, i)
    /\ TakesNext(c, i)
    /\ got' = [got EXCEPT ![c] = @ \cup {i}]
    /\ Goto(c, IF stage[c] = "loading" /\ busy'[c] = {} THEN "loaded" ELSE stage[c])
    /\ UNCHANGED <<args, allowed, asked, evidence, local, epoch>>

(* Mutant: a failed load ends its worker only.                             *)
ImageFailsQuietly(c) ==
  \E i \in busy[c] :
    /\ busy' = [busy EXCEPT ![c] = @ \ {i}]
    /\ UNCHANGED <<stage, args, allowed, cursor, got, asked, evidence, local, epoch>>

(* A load that rejects, exceeds the cap, or is aborted by the failure of   *)
(* another ends its worker and the call.                                   *)
ImageFails(c) ==
  \E i \in busy[c] :
    /\ busy' = [busy EXCEPT ![c] = @ \ {i}]
    /\ Goto(c, "failed")
    /\ UNCHANGED <<args, allowed, cursor, got, asked, evidence, local, epoch>>
-----------------------------------------------------------------------------
(* From the images to the answer.                                          *)

Key(c) == <<args[c].images, args[c].reusable>>

(* useEvidenceLayer, before the evidence was looked at.                    *)
EvidenceLayer(c) == ~args[c].named /\ args[c].mode # "no-store" /\ args[c].reusable

Ask(c, layer, mode) ==
  /\ Goto(c, "asking")
  /\ asked' = [asked EXCEPT ![c] = [layer |-> layer, mode |-> mode, epoch |-> epoch]]

(* The prompt asks for a detail; whether the facts hold it is either way.  *)
MayRefocus(c) == args[c].focused

Reuse(c) ==
  /\ stage[c] = "loaded"
  /\ EvidenceLayer(c) /\ args[c].mode = "use" /\ Holds(evidence, Key(c))
  /\ evidence' = Touched(evidence, Key(c))
  /\ Goto(c, "reused")
  /\ UNCHANGED <<args, allowed, loader, asked, local, epoch>>

(* Mutant: only the cache mode is changed.                                 *)
RefocusKeepingLayer(c) ==
  /\ stage[c] = "loaded"
  /\ EvidenceLayer(c) /\ args[c].mode = "use" /\ Holds(evidence, Key(c))
  /\ MayRefocus(c)
  /\ evidence' = Touched(evidence, Key(c))
  /\ Ask(c, TRUE, "no-store")
  /\ UNCHANGED <<args, allowed, loader, local, epoch>>

(* A broad answer was found, but the prompt asks for a detail it may not   *)
(* hold: the call goes on as one that stores nothing.                      *)
Refocus(c) ==
  /\ stage[c] = "loaded"
  /\ EvidenceLayer(c) /\ args[c].mode = "use" /\ Holds(evidence, Key(c))
  /\ MayRefocus(c)
  /\ evidence' = Touched(evidence, Key(c))
  /\ Ask(c, FALSE, "no-store")
  /\ UNCHANGED <<args, allowed, loader, local, epoch>>

AskService(c) ==
  /\ stage[c] = "loaded"
  /\ ~(EvidenceLayer(c) /\ args[c].mode = "use" /\ Holds(evidence, Key(c)))
  /\ Ask(c, EvidenceLayer(c), args[c].mode)
  /\ UNCHANGED <<args, allowed, loader, evidence, local, epoch>>

(* The service refuses: no provider, an abort, an error of the adapter.    *)
AskFails(c) ==
  /\ stage[c] = "asking"
  /\ Goto(c, "failed")
  /\ UNCHANGED <<args, allowed, loader, asked, evidence, local, epoch>>

(* What is kept of the answer: who asked, and under which settings.        *)
Filled(c) == [key |-> Key(c), call |-> c, asked |-> asked[c].epoch]

Answered(c) ==
  /\ stage[c] = "asking"
  /\ evidence' = IF asked[c].layer THEN With(evidence, Filled(c)) ELSE evidence
  /\ Goto(c, "answered")
  /\ UNCHANGED <<args, allowed, loader, asked, local, epoch>>
-----------------------------------------------------------------------------
Expire ==
  /\ \E e \in ToSet(evidence) : evidence' = Expired(evidence, e.key)
  /\ UNCHANGED <<stage, args, allowed, loader, asked, local, epoch>>

(* onChange, when the change is accepted.                                  *)
ConfigReplaced ==
  /\ epoch < MaxEpochs
  /\ epoch' = epoch + 1
  /\ local' \in BOOLEAN
  /\ evidence' = <<>>
  /\ UNCHANGED <<stage, args, allowed, loader, asked>>

ToolNext ==
  \/ \E c \in Calls :
       \/ BeginCall(c) \/ SessionRefs(c) \/ SessionRefsFail(c)
       \/ ImageLoads(c) \/ ImageFails(c)
       \/ Reuse(c) \/ Refocus(c) \/ AskService(c) \/ AskFails(c) \/ Answered(c)
  \/ Expire \/ ConfigReplaced

(* Loads settle, the service answers or refuses (it has a timeout of its   *)
(* own), and continuations run.                                            *)
ToolFairness ==
  \A c \in Calls :
    /\ WF_toolVars(SessionRefs(c) \/ SessionRefsFail(c))
    /\ WF_toolVars(ImageLoads(c) \/ ImageFails(c))
    /\ WF_toolVars(Reuse(c) \/ Refocus(c) \/ AskService(c))
    /\ WF_toolVars(AskFails(c) \/ Answered(c))

ToolSpec == ToolInit /\ [][ToolNext]_toolVars /\ ToolFairness
-----------------------------------------------------------------------------
(* A question reaches the service with every image of the call, within the *)
(* combined bound and while no worker is still loading.                    *)
LoadedWhole ==
  \A c \in Calls :
    /\ Cardinality(busy[c]) <= 2
    /\ stage[c] \in {"loaded", "asking", "answered", "reused"} =>
         /\ busy[c] = {} /\ got[c] = DOMAIN args[c].images
         /\ TotalBytes(args[c].images, got[c]) <= TotalCap

(* Reusable evidence is the answer of a call that asked broadly, of the    *)
(* default provider, and wanted its answer kept.  A call that named a      *)
(* provider, asked for a detail of evidence it found, or asked not to be   *)
(* stored leaves nothing behind.                                           *)
EvidenceIsBroad ==
  \A e \in ToSet(evidence) :
    LET c == e.call
    IN  /\ stage[c] = "answered" /\ Key(c) = e.key
        /\ ~args[c].named /\ args[c].reusable
        /\ "no-store" \notin {args[c].mode, asked[c].mode}

(* Reusable evidence was asked for under the settings in force             *)
(* (CHANGELOG.md:140-141: settings and provider changes invalidate         *)
(* reusable evidence).                                                     *)
EvidenceIsCurrent == \A e \in ToSet(evidence) : e.asked = epoch

(* Every call ends, and so does every worker.                              *)
CallsEnd == \A c \in Calls : stage[c] = "finding" \/ busy[c] # {} ~> stage[c] \in Ended /\ busy[c] = {}
=============================================================================
