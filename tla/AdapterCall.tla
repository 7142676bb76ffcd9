------------------------------ MODULE AdapterCall ------------------------------
(***************************************************************************)
(* A call of the OpenAI-compatible adapter (packages/image-mind/src/       *)
(* adapters/openai-compatible/adapter.ts), from the request to the answer: *)
(* the semantic cache, the slot of the execution gate, the split of a      *)
(* batch that is too large, the fallback to another model and the fallback *)
(* to another provider.  Calls share the cache and the gate and may be     *)
(* aborted anywhere; the configuration and the stored credential change    *)
(* behind them.                                                            *)
(*                                                                         *)
(* The gate is the abstract one, which ExecutionGate implements.  A batch  *)
(* is the sequence of the ordinals of its images in the request.  Splits   *)
(* nest: work[c] is the stack of batches c is in the middle of, the one it *)
(* asks about first.                                                       *)
(***************************************************************************)
EXTENDS Integers, Sequences, FiniteSets, SequencesExt, Omission

CONSTANTS
  Calls,
  Providers,
  Workloads,     \* what the calls may ask, see WorkloadsAssumption
  Plans,         \* the fallbacks that resolveProviderFallbacks may return
  Models,        \* models of an endpoint: 0 is the configured one
  Slots,         \* limit of the execution gate
  MaxRetries,    \* retries of one batch
  MaxFallbacks,  \* MAX_PROVIDER_FALLBACKS
  MaxEntries,    \* capacity of the semantic cache
  MaxChanges     \* bound on changes of configuration and credential

(* images: the contents, by ordinal.  pinned: what the request names.      *)
ASSUME WorkloadsAssumption ==
  /\ \A load \in Workloads : \A c \in Calls : LET r == load[c] IN
       /\ r.provider \in Providers /\ Len(r.images) \in Nat \ {0}
       /\ r.pinned \in {"nothing", "provider", "model"}
       /\ r.mode \in {"use", "refresh", "no-store"}
  /\ Plans \subseteq Seq([provider : Providers, probe : BOOLEAN])
  /\ Slots \in Nat \ {0} /\ MaxEntries \in Nat \ {0}
  /\ Models \in Nat \ {0} /\ MaxRetries \in Nat /\ MaxFallbacks \in Nat

VARIABLES
  inside, line,  \* the gate: the calls with a slot, and those that wait
  cache,         \* the semantic cache, oldest entry first
  config,        \* the version of the configuration in force
  credential,    \* the version of the credential in the store
  phase,         \* phase[c]: where call c is
  request,       \* request[c]
  route,         \* route[c]: the snapshot c works with
  backups,       \* backups[c]: the providers c may still fall back to
  work,          \* work[c]: see above
  cancelled,     \* cancelled[c]: the signal of c
  answer,        \* answer[c]: what c returned, <<>> if nothing
  wires          \* history: wires[c].tried, the models c tried, oldest first;
                 \* wires[c].sent[b], how often it sent batch b to the last

gate == <<inside, line>>
world == <<config, credential>>
mine == <<request, route, backups, work, answer, wires>>
callVars == <<gate, cache, world, phase, mine, cancelled>>

CallGate == INSTANCE AdmissionGate WITH Ops <- Calls, Limit <- Slots

NoRoute == [provider |-> "none", model |-> 0, config |-> 0, credential |-> 0,
            mode |-> "use"]
Unsent == [tried |-> <<>>, sent |-> [b \in {} |-> 0]]
NotPlanned == [planned |-> FALSE, left |-> <<>>]

CallInit ==
  /\ CallGate!Init
  /\ cache = <<>>
  /\ config = 0 /\ credential = 0
  /\ phase = [c \in Calls |-> "idle"]
  /\ request \in Workloads
  /\ route = [c \in Calls |-> NoRoute]
  /\ backups = [c \in Calls |-> NotPlanned]
  /\ work = [c \in Calls |-> <<>>]
  /\ cancelled = [c \in Calls |-> FALSE]
  /\ answer = [c \in Calls |-> <<>>]
  /\ wires = [c \in Calls |-> Unsent]

Goto(c, where) == phase' = [phase EXCEPT ![c] = where]

Count(c) == Len(request[c].images)
All(c) == [i \in 1..Count(c) |-> i]

(* A batch that is to be asked about.  left: the parts a split has still   *)
(* to ask about; text: what the parts before said.                         *)
Frame(batch) == [batch |-> batch, left |-> <<>>, text |-> <<>>, retries |-> 0]
Top(c) == Head(work[c])

(* The whole request goes to another model.                                *)
Afresh(c, provider, model) ==
  /\ work' = [work EXCEPT ![c] = <<Frame(All(c))>>]
  /\ wires' = [wires EXCEPT ![c] = [tried |-> Append(@.tried, <<provider, model>>),
                                    sent |-> Unsent.sent]]
-----------------------------------------------------------------------------
(* The semantic cache.                                                     *)

Contents(c, batch) == [i \in DOMAIN batch |-> request[c].images[batch[i]]]

(* Mutant: the place of the images in the request is not in the key.       *)
SemanticKeyUnplaced(c, batch) ==
  [route |-> [route[c] EXCEPT !.mode = "use"], contents |-> Contents(c, batch)]

(* The connection of the snapshot, the credential it resolved to, and what *)
(* is asked; the prompt is one.                                            *)
SemanticKey(c, batch) ==
  [route |-> [route[c] EXCEPT !.mode = "use"], contents |-> Contents(c, batch),
   ordinals |-> batch, of |-> Count(c)]

Cached(key) == {i \in DOMAIN cache : cache[i].key = key}

(* A key keeps its place when its text is replaced; the oldest go.         *)
CacheSet(key, text) ==
  LET entry == [key |-> key, text |-> text]
      set == IF Cached(key) = {} THEN Append(cache, entry)
             ELSE [i \in DOMAIN cache |-> IF i \in Cached(key) THEN entry ELSE cache[i]]
  IN  IF Len(set) > MaxEntries THEN Tail(set) ELSE set

(* An entry outlives its time: a read or a write drops it.                 *)
Expire ==
  /\ \E i \in DOMAIN cache : cache' = RemoveAt(cache, i)
  /\ UNCHANGED <<gate, world, phase, mine, cancelled>>
-----------------------------------------------------------------------------
(* The start of a call, and of every provider it falls back to.            *)

(* callProvider: the snapshot; the credential is resolved next.            *)
TryProvider(c, provider, mode) ==
  /\ route' = [route EXCEPT ![c] = [provider |-> provider, model |-> 0, config |-> config,
                                    credential |-> 0, mode |-> mode]]
  /\ Afresh(c, provider, 0)
  /\ Goto(c, "resolving")

Call(c) ==
  /\ phase[c] = "idle"
  /\ TryProvider(c, request[c].provider, request[c].mode)
  /\ UNCHANGED <<gate, cache, world, request, backups, cancelled, answer>>

KeyResolves(c) ==
  /\ phase[c] = "resolving"
  /\ route' = [route EXCEPT ![c].credential = credential]
  /\ Goto(c, "asking")
  /\ UNCHANGED <<gate, cache, world, request, backups, work, cancelled, answer, wires>>

Settle(c, text) ==
  /\ Goto(c, "settled")
  /\ answer' = [answer EXCEPT ![c] = text]
  /\ work' = [work EXCEPT ![c] = <<>>]
  /\ wires' = [wires EXCEPT ![c] = Unsent]
  /\ backups' = [backups EXCEPT ![c] = NotPlanned]
  /\ route' = IF text = <<>> THEN [route EXCEPT ![c] = NoRoute] ELSE route
  /\ UNCHANGED request

(* There is no credential, or the provider is no longer configured: no     *)
(* other model or provider is tried.                                       *)
KeyFails(c) ==
  /\ phase[c] = "resolving"
  /\ Settle(c, <<>>)
  /\ UNCHANGED <<gate, cache, world, cancelled>>
-----------------------------------------------------------------------------
(* callSelectedModel                                                       *)

(* The text of the topmost batch is the next part of the one below it.     *)
Told(stack, text) ==
  <<[stack[2] EXCEPT !.text = @ \o text]>> \o SubSeq(stack, 3, Len(stack))

(* What the current batch answers is the answer, or a part of a split.     *)
Gained(c, text) ==
  IF Len(work[c]) = 1 THEN Settle(c, text)
  ELSE /\ Goto(c, "joining")
       /\ work' = [work EXCEPT ![c] = Told(@, text)]
       /\ UNCHANGED <<request, route, backups, answer, wires>>

(* cacheMode 'use' reads, 'refresh' only writes, 'no-store' does neither.  *)
Hit(c) ==
  /\ route[c].mode = "use"
  /\ Cached(SemanticKey(c, Top(c).batch)) # {}

FromCache(c) ==
  /\ phase[c] = "asking"
  /\ \E i \in Cached(SemanticKey(c, Top(c).batch)) :
       Hit(c) /\ Gained(c, cache[i].text)
  /\ UNCHANGED <<gate, cache, world, cancelled>>

(* globalVisionExecutionGate.run, for the first time or after the backoff. *)
EnterGate(c) ==
  /\ \/ phase[c] = "asking" /\ ~Hit(c)
     \/ phase[c] = "sleeping"
  /\ ~cancelled[c]
  /\ CallGate!Arrive(c)
  /\ Goto(c, "admitted")
  /\ UNCHANGED <<cache, world, request, route, backups, work, cancelled, answer, wires>>

(* The abort is seen by the gate, by its waiter, or by the backoff.        *)
Abandon(c) ==
  /\ cancelled[c]
  /\ \/ phase[c] = "asking" /\ ~Hit(c) /\ UNCHANGED gate
     \/ phase[c] = "sleeping" /\ UNCHANGED gate
     \/ phase[c] = "admitted" /\ CallGate!GiveUp(c)
  /\ Settle(c, <<>>)
  /\ UNCHANGED <<cache, world, cancelled>>

(* History: the batch is sent once more.                                   *)
Counted(sent, batch) ==
  [b \in DOMAIN sent \cup {batch} |->
     (IF b \in DOMAIN sent THEN sent[b] ELSE 0) + (IF b = batch THEN 1 ELSE 0)]

(* callVisionOnce, up to the response.                                     *)
Send(c) ==
  /\ phase[c] = "admitted" /\ c \in inside
  /\ Goto(c, "sent")
  /\ wires' = [wires EXCEPT ![c].sent = Counted(@, Top(c).batch)]
  /\ UNCHANGED <<gate, cache, world, request, route, backups, work, cancelled, answer>>

(* What the endpoint says of a batch: who said it, and of which images.    *)
Said(c, batch) ==
  [i \in DOMAIN batch |-> [by |-> [route[c] EXCEPT !.mode = "use"], ordinal |-> batch[i],
                           of |-> Count(c), content |-> request[c].images[batch[i]]]]

Keep(c, text) ==
  cache' = IF route[c].mode = "no-store" THEN cache
           ELSE CacheSet(SemanticKey(c, Top(c).batch), text)

Responds(c) ==
  /\ phase[c] = "sent"
  /\ CallGate!Leave(c)
  /\ Keep(c, Said(c, Top(c).batch))
  /\ Gained(c, Said(c, Top(c).batch))
  /\ UNCHANGED <<world, cancelled>>

(* The first part that is left is to be asked about.                       *)
PartTaken(stack) ==
  <<Frame(Head(stack[1].left)), [stack[1] EXCEPT !.left = Tail(@)]>> \o Tail(stack)

(* callSplitImages: the next half, or the joint answer.                    *)
NextPart(c) ==
  /\ phase[c] = "joining" /\ Top(c).left # <<>>
  /\ work' = [work EXCEPT ![c] = PartTaken(@)]
  /\ Goto(c, "asking")
  /\ UNCHANGED <<gate, cache, world, request, route, backups, cancelled, answer, wires>>

Join(c) ==
  /\ phase[c] = "joining" /\ Top(c).left = <<>>
  /\ Keep(c, Top(c).text)
  /\ Gained(c, Top(c).text)
  /\ UNCHANGED <<gate, world, cancelled>>
-----------------------------------------------------------------------------
(* Errors.  transient: 429, 5xx, timeout, network.  broken: no status, a   *)
(* body that breaks off.  large: 413.  unfit: the model is unknown or has  *)
(* no vision.  refused: credentials, other 4xx, an answer without text.    *)

Errors == {"transient", "broken", "large", "unfit", "refused"}

Retryable == {"transient", "broken"}
ModelFallbackEligible == {"unfit"}
ProviderFallbackEligible == {"transient", "large"}

(* Mutant: a retry too many.                                               *)
MayRetryOver(c, error) == error \in Retryable /\ Top(c).retries <= MaxRetries

MayRetry(c, error) == error \in Retryable /\ Top(c).retries < MaxRetries

(* The planned providers, each once, without the one that failed.          *)
Candidates(c, plan) ==
  LET stale == {i \in DOMAIN plan : \/ plan[i].provider = request[c].provider
                                    \/ \E j \in 1..i - 1 : plan[j].provider = plan[i].provider}
      fresh == Omit([i \in DOMAIN plan |-> i], stale)
  IN  [k \in 1..(IF Len(fresh) < MaxFallbacks THEN Len(fresh) ELSE MaxFallbacks) |->
         plan[fresh[k]]]

(* The backups left after a provider has failed, planned at the first      *)
(* failure.                                                                *)
Backups(c) ==
  IF request[c].pinned # "nothing" THEN {<<>>}
  ELSE IF backups[c].planned THEN {backups[c].left}
  ELSE {Candidates(c, plan) : plan \in Plans}

(* automaticFallbackVisionModels has another one for the endpoint, and the *)
(* request has not named its own.                                          *)
HasNextModel(c) == request[c].pinned # "model" /\ route[c].model + 1 < Models

(* The error leaves callSelectedModel, whatever splits it was in: another  *)
(* model, else another provider, else the caller sees it.                  *)
Fails(c, error) ==
  \/ /\ error \in ModelFallbackEligible /\ HasNextModel(c)
     /\ route' = [route EXCEPT ![c].model = @ + 1]
     /\ Afresh(c, route[c].provider, route[c].model + 1)
     /\ Goto(c, "asking")
     /\ UNCHANGED <<request, backups, answer>>
  \/ /\ error \in ProviderFallbackEligible
     /\ \E left \in Backups(c) \ {<<>>} :
          /\ backups' = [backups EXCEPT ![c] = [planned |-> TRUE, left |-> Tail(left)]]
          /\ TryProvider(c, Head(left).provider,
                         IF Head(left).probe THEN "no-store" ELSE request[c].mode)
     /\ UNCHANGED <<request, answer>>
  \/ /\ \/ error \notin ModelFallbackEligible \cup ProviderFallbackEligible
        \/ error \in ModelFallbackEligible /\ ~HasNextModel(c)
        \/ error \in ProviderFallbackEligible /\ <<>> \in Backups(c)
     /\ Settle(c, <<>>)

(* Two halves, the first not shorter than the second.                      *)
Halved(stack) ==
  LET batch == stack[1].batch
      middle == (Len(batch) + 1) \div 2
  IN  <<[Frame(batch) EXCEPT !.left = <<SubSeq(batch, 1, middle),
                                        SubSeq(batch, middle + 1, Len(batch))>>]>>
      \o Tail(stack)

Split(c) ==
  /\ work' = [work EXCEPT ![c] = Halved(@)]
  /\ Goto(c, "joining")
  /\ UNCHANGED <<request, route, backups, answer, wires>>

(* The topmost batch is to be asked about once more.                       *)
Again(stack) == [stack EXCEPT ![1].retries = @ + 1]

(* Mutant: the halves are asked from inside the slot.                      *)
EndpointFailsInside(c, error) ==
  /\ phase[c] = "sent"
  /\ IF error = "large" /\ Len(Top(c).batch) > 1 /\ ~cancelled[c]
     THEN UNCHANGED gate /\ Split(c)
     ELSE /\ CallGate!Leave(c)
          /\ IF cancelled[c] THEN Settle(c, <<>>) ELSE Fails(c, error)
  /\ UNCHANGED <<cache, world, cancelled>>

(* The slot is free before the catch block looks at the error.             *)
EndpointFails(c, error) ==
  /\ phase[c] = "sent"
  /\ CallGate!Leave(c)
  /\ \/ cancelled[c] /\ Settle(c, <<>>)
     \/ ~cancelled[c] /\ error = "large" /\ Len(Top(c).batch) > 1 /\ Split(c)
     \/ /\ ~cancelled[c] /\ MayRetry(c, error)
        /\ work' = [work EXCEPT ![c] = Again(@)]
        /\ Goto(c, "sleeping")
        /\ UNCHANGED <<request, route, backups, answer, wires>>
     \/ /\ ~cancelled[c] /\ ~MayRetry(c, error)
        /\ ~(error = "large" /\ Len(Top(c).batch) > 1)
        /\ Fails(c, error)
  /\ UNCHANGED <<cache, world, cancelled>>
-----------------------------------------------------------------------------
(* The surroundings.                                                       *)

AbortCall(c) ==
  /\ phase[c] \notin {"idle", "settled"} /\ ~cancelled[c]
  /\ cancelled' = [cancelled EXCEPT ![c] = TRUE]
  /\ UNCHANGED <<gate, cache, world, phase, mine>>

ConfigChanges ==
  /\ config + credential < MaxChanges
  /\ config' = config + 1
  /\ UNCHANGED <<gate, cache, credential, phase, mine, cancelled>>

CredentialChanges ==
  /\ config + credential < MaxChanges
  /\ credential' = credential + 1
  /\ UNCHANGED <<gate, cache, config, phase, mine, cancelled>>

Step(c) ==
  \/ KeyResolves(c) \/ KeyFails(c)
  \/ FromCache(c) \/ EnterGate(c) \/ Abandon(c) \/ Send(c) \/ Responds(c)
  \/ NextPart(c) \/ Join(c)
  \/ \E error \in Errors : EndpointFails(c, error)

CallNext ==
  \/ \E c \in Calls : Call(c) \/ AbortCall(c) \/ Step(c)
  \/ Expire \/ ConfigChanges \/ CredentialChanges

(* A continuation that is due runs, the timer of a backoff fires, and a    *)
(* wire call settles: it has a timeout of its own.                         *)
CallFairness == \A c \in Calls : WF_callVars(Step(c))

CallSpec == CallInit /\ [][CallNext]_callVars /\ CallFairness
-----------------------------------------------------------------------------
(* An answer is about the images of its own request, each once and in      *)
(* order, and every part of it was said by the provider, model, endpoint   *)
(* and credential of the call's snapshot, however it was split, retried,   *)
(* moved to another model or provider, or taken from the cache that other  *)
(* calls fill.                                                             *)
AnswerIsWhole ==
  \A c \in Calls : answer[c] # <<>> => answer[c] = Said(c, All(c))

(* Retries, splits and fallbacks do not multiply: a call comes to no model *)
(* of a provider twice, and sends it one batch at most MaxRetries + 1      *)
(* times.                                                                  *)
WorkIsBounded ==
  \A c \in Calls :
    /\ IsInjective(wires[c].tried)
    /\ \A b \in DOMAIN wires[c].sent : wires[c].sent[b] <= MaxRetries + 1

(* Every call settles, however few slots there are: nobody waits for a     *)
(* slot while holding one, neither a batch that was split nor one that     *)
(* sleeps.  (A call is made once, so the system comes to rest.)            *)
CallsSettle == []<>(\A c \in Calls : phase[c] \in {"idle", "settled"})
=============================================================================
