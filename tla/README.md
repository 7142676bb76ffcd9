# A verification development for dsh-vision

dsh-vision gives a text-only model eyes: a host plugin (`packages/image-mind`)
registers OpenAI-compatible vision providers with a small runtime
(`packages/vision`), serves an `understand_image` tool, and lets a browser user
attach images to a message. These TLA+ modules model the parts of it whose
correctness depends on the order of events. TLC checks them on small instances,
and TLAPS proves the central invariants for every value of the constants.

All paths below are relative to `src/packages/`.

## 1. The system

```
 browser                                   host process
 -------                                   ------------
 composer --send--> send hook              routes --> attachment index --> file
    |                | upload, commit,        ^           |
    |                | discard over HTTP -----+           +--> session history
 settings card       |                                    |
    | settings store +--> DSH session --> model --> understand_image tool
    |   |                                             | evidence cache
    |   +- credentials, settings document             v
    |                                             VisionRuntime (registry)
    +------- onChange: routes, directory,             |
             cache reset                              v
                                             OpenAI-compatible adapter
                                             | execution gate | answer cache
                                             | reliability tracker (breakers)
                                             v
                                             HTTP endpoints
```

| Component (code) | State | Operations | What makes it correct | Module |
|---|---|---|---|---|
| Circuit breaker (`vision/src/circuit-breaker.ts`) | state, failures, opening time, probe time | admission, allow, success, failure | one probe after each cooldown; no trip below the threshold | `CircuitBreaker` |
| Reliability tracker (`image-mind/src/runtime/provider-reliability.ts`, `reliability-adapter.ts`) | one breaker and one shown health per provider | success, failure, reachable, release, fallbacks | shown health follows the breaker; an attempt settles the probe it was reserved for; a closed circuit is of a provider that answers, and a cached answer proves nothing | `ProviderReliability` |
| Provider loop of the adapter (`adapter.ts`) | none of its own between calls | one call: primary, then planned backups | every attempt is reported once, with what it proves | `ProviderReliability` |
| Execution gate (`image-mind/src/runtime/execution-gate.ts`) | counter, queue of waiters | acquire, pump, release, abort listener | a FIFO semaphore without lost wake-ups | `AdmissionGate`, `ExecutionGate` |
| Attachment index (`image-mind/src/attachments/ref-index.ts`) | published index, file, load promise, mutation queue | load, remember, commit, discard, queries | one atomic durable value; committed batches stay resolvable | `AttachmentBatches`, `AttachmentLedger`, `AttachmentIndex` |
| Session history (`attachments/session-history.ts`) | reads the index | offset to batch | every committed batch is reachable | `AttachmentBatches` (`ByOffset`) |
| Routes (`attachments/routes.ts`, `routes-core.ts`) | none | upload, commit, discard, history | answers say what happened | `SendHook` (host side) |
| Send hook (`client/send-hook.ts`, `client/attach.ts`) | pending drafts, wrapped `sendSession` | send: upload all, prompt, commit or discard | history lists admitted sends only, whole and in order | `SendHook` |
| Settings store (`client/settings/`) | view, drafts, the save under way | load, edit, add, delete, discard, save | a key is never written under a reference in use; a commit comes after its keys | `SettingsStore` |
| Adapter call (`adapters/openai-compatible/`, `cache/vision-cache.ts`) | stack of batches, models tried, semantic cache, slot of the gate | split, retry, model fallback, provider fallback, abort | an answer is about its own images, in their places, from one route; bounded work; nobody waits for a slot while holding one | `AdapterCall` |
| VisionRuntime (`vision/src/runtime.ts`) | routes, registrations, directory, default strategy | register, replace, release, declare, add a standalone entry, teardown, resolve | ownership; all-or-nothing replacement; no silent fallback | `VisionRuntime` |
| Plugin entry (`image-mind/src/index.ts`, `config.ts`) | last good configuration, what it registered and declared | mount, settings change, unmount | keeps the last good routes; knows what it has registered | `PluginEntry` |
| Evidence cache (`vision/src/cache.ts`) | entries with age, least recently used first | get, set, expire | bounded | `EvidenceCache` |
| `understand_image` (`tools/understand-image.ts`, `media/`) | per call: cursor and results of two loaders | find, load, reuse, refocus, ask, keep | loaded whole; only broad answers are kept, and only as long as the settings stand | `UnderstandImage` |
| Credential migration (`credentials/migrate.ts`) | vault, settings document | move inline keys | no key is lost, every migrated provider resolves | `CredentialMigration` |
| Provider rows of the settings card (`client/settings-card.tsx`, `card-ui.tsx`, `runtime/vision-rpc.ts`) | forms, test states, model lists, generation, timer, requests under way | edit, add, delete, test, discover, save, discard | a green lamp and a model list say what they seem to say | `ProviderCard` |
| Installer (`cli/`) | profile files, plan, the official tool's work | install, update, status, uninstall | success is real; versions compare as semver | `Installer` |
| Selector, health, task router, token budget, history preview, network guard, wording, scripts | pure, rendering or input/output | | | not modelled (section 6) |

The hard behaviours: calls of the adapter overlap and report late (breakers,
reservations); aborts race the gate's pump; a mutation of the index spans
several awaits and a crash; HTTP answers are lost and requests arrive after the
browser gave up; two sends of one session overlap; another window changes the
settings during an edit or a save; a settings change falls between a call's
question and its answer; requests of the card are answered after the row they
are about changed; a command leaves the profile half done. `PROJECT.json`
lists each hazard at its line.

## 2. Modules and how they correspond to the code

JavaScript runs to completion between awaits, so an action is the code between
two awaits, and the interleaving of actions is the interleaving of promises.
`MC*` modules give the constants their values and hold nothing else, but for
the two of section 3 that join two components in one run.
Where the code filters an array or the entries of a map, the modules use `Omit`
of **Omission**, which is a recursive function so that proofs can unfold it.

**CircuitBreaker** is the class as a value: a record and pure operators on it
(`Admission`, `Allow`, `RecordSuccess`, `RecordFailure`), so that modules hold
one breaker per provider. Time is a number; `NextProbeAt` is -1 when undefined.

**ProviderReliability** runs calls of the adapter against the tracker. A call
(`StartCall`) attempts its primary; each attempt ends in one of the outcomes
`recordProviderAttempt` tells apart (`AttemptSucceeds`, `AttemptHitsCache`,
`AttemptNotMade`, `AttemptRefused`, `AttemptFails`), reports it, and goes on,
all in one step, as the code does. After an outage of the primary a call plans
its backups in a step of its own (`PlanFallbacks`), which reserves the probes
of recovering ones. The order in which the selector ranks the backups is any
order. `probes` says which backups a call planned as probes; `probedAt`,
`prober` (when and by which call a probe was last reserved) and `silent` (outages
of a provider reported since it last answered from the wire) are history
variables.

**AdmissionGate** is the abstract gate: a set of holders and a FIFO line; a
call that finds a free slot and nobody waiting enters at once. **ExecutionGate**
is the class: the counter, the array of waiters, the `released` flag of each
release callback, and the abort listener that runs after the abort flag is set
(a waiter may be popped in between). `Pump` is the `while` loop as one step:
it pops up to the last waiter it grants and drops aborted ones on the way.

**AdapterCall** is the inside of an attempt and the loop around it. A batch is
the sequence of the ordinals of its images in the request, and `work[c]` the
stack of batches call `c` is in the middle of. Each batch looks into the
semantic cache, waits for a slot of the (abstract) gate, is sent, and then is
answered, retried after a backoff that gives the slot up, split in two, moved
to the next model of the endpoint, or given up so that the next planned
provider is asked. Calls share the cache and the gate; the signal of a call may
be aborted at any time; the configuration and the stored credential change
behind it, and the call goes on with its snapshot (`route`). Its specification is
`CallSpec`, its definitions named apart from those of the gate. How backups are
planned is `ProviderReliability`'s matter; here a plan is any of `Plans`.

**EvidenceCache** is the bounded cache of the service as a sequence.
**UnderstandImage** is the handler of the tool: it finds the images (named, or
those of a session), loads them with two workers that share a cursor and a
bound on the combined size, and then answers from evidence (`Reuse`), asks for
a detail beside evidence (`Refocus`), or asks broadly (`AskService`), and keeps
the answer if it may. `ConfigReplaced` replaces the cache behind the calls.

**VisionRuntime** is the service as a value. Every operation of it is
synchronous, so that each is an operator with a guard that says when the code
does not throw. The directory has two sources: declarations, which their plugin's
teardown withdraws, and `registerProvider`, whose entries belong to nobody
(`standalone` is history: it remembers which these are). **PluginEntry** composes it with the image-mind plugin and with
other plugins that load, register, replace, dispose, declare, add
standalone entries, take the default strategy and unload in any order. `Load`, `SettingsChange` and `Unload` are the
whole of what `index.ts` does at these moments: the strategy, the routes
(`EnsureRegistration`), the directory (`EnsureDirectory`), and keeping what
stands when another plugin is in the way.

**AttachmentBatches** holds the pure operations on the index: `Remember`,
`Commit`, `Discard`, `TrimRefs`, `Reload` (what parsing a file keeps),
`Latest`, `ByOffset`. **AttachmentLedger** is the abstract index: one value;
every call takes effect once between its start and its answer, or fails and
changes nothing; a crash may or may not have let one pending call through.
**AttachmentIndex** is the real thing: lazy load, promise queue, draft, write
of a temporary file, rename, publication, crash and restart. Its refinement
mapping shows the ledger the published value once loaded, and before that what
a load of the file would give; an operation takes effect when it is published.

**SendHook** composes the browser's wrapped `sendSession` with the host's
routes over `AttachmentBatches`; its definitions are named apart (`SendInit`,
`SendNext`, ...) from those of the index, as the tool's are (`ToolInit`, ...), so
that one module can prove about both. A message is a request the browser awaits;
responses and requests may be lost or late (`MaxFaults` bounds how many).

**SettingsStore** is the card's store against the host's settings document and
credential vault: a delayed view, drafts, the plan of a save (which reference
each typed key goes to), the keys stored one at a time, and the fenced commit.
Another window and disconnections happen at any moment. The fields of a
provider other than its credential reference are one field.

**ProviderCard** is the part of the card above the store: the rows, the editor,
the status lamps and the model lists, with the two requests (`vision-rpc.ts`)
they wait for. Some endpoints need no key (`Keyless`); the rows of others cannot
be tested or load models without one. A request is in `flight` until it is answered; the host reads
the saved record when it handles it (`HostReads`), which may be after further
edits and a save. Saving is one step here and five in `SettingsStore`.

**CredentialMigration** moves inline keys to the vault one store at a time and
then unsets the stored ones in the document at once; stores and the unset may
fail, and the process may restart in between. `ResolvedKey` is what a call then
finds. The order of the stores is any order.

**Installer** is the command line over one profile. Each command reads the
profile and decides in one step, and leaves the rest to one run of the official
tool, which changes the manifest, the package and the layer list one by one and
may fail, time out or be killed between them. `ComparePre` and
`CompareVersions` are the comparison of `semver.ts`; what an artifact that does
not name its version leaves installed may be `Unparsable`.

## 3. Runs

| Run | Asks | Bounds |
|---|---|---|
| `provider_reliability` | do breakers and shown cooldowns stay consistent? does every attempt settle its probe, and is a closed circuit one that answers? | 3 calls, 3 providers, threshold 1, cooldown 2, clock to 4 |
| `stranded_probe` (violated) | is a half-open circuit always one that a call in flight will report about? | the same |
| `tool_and_gate` | *tool*: is a call loaded whole? what may become evidence? does every call end? *gate*: is it a FIFO semaphore, and is every waiter served? | *tool*: 2 calls, 3 images of which 1 local, combined bound 3, a cache of 1, 2 changes; *gate*: 5 operations, 2 slots, aborts at any time |
| `stale_evidence` (violated) | is all evidence of the settings in force? | those of the tool |
| `adapter_and_installer` | *adapter*: is every answer about its own images from one route? is the work bounded? does every call settle? *installer*: is a reported success real? is the reported relation that of semver? | *adapter*: 2 calls of up to 3 images, 3 providers, 2 models each, 1 slot, 1 retry, 1 fallback, a cache of 1, 1 change of the configuration or the credential; *installer*: 9 versions and one that does not parse, 4 commands, 1 other package that needs the service |
| `vision_runtime` | who owns routes and directory, does the plugin keep in step, is there a silent fallback? | 3 plugins, 2 providers, 4 declarations, 2 changes, 3 operations of others |
| `attachment_index` | is the index one atomic durable value? do committed batches survive, is every call answered? | 2 callers, 3 batches, 2 references, 1 session, 1 history entry, 4 mutations, 1 crash, failing loads and writes |
| `attachment_restart` (violated) | and across a restart? | 1 caller, 5 mutations, 1 crash |
| `send_hook` | does the history hold exactly the admitted sends? does every send settle? | 3 sends of one session, 2 history entries, 2 faults |
| `settings_store` | does a save ever overwrite a key in use, or commit before its keys? | 2 providers that derive the same reference, 2 keys, 2 generated references, 3 edits, 2 saves, 1 foreign commit |
| `provider_card` | do green lamps and model lists say what they seem to say? | 2 rows, one of them in the catalog, 2 endpoints of which 1 needs no key, 2 keys, 2 edits, 2 tests, 2 discoveries |
| `migrated_key` (violated) | does a provider that had a key still resolve one? | 2 providers, 2 keys, 1 restart |

Two of the runs explore two components each (`MCToolAndGate`,
`MCAdapterAndInstaller`). The components of a pair share no state and no
action, so nothing is learnt from their interleavings: in every behaviour one of
the two runs, under its own next-state relation and fairness, while the other stays
at an initial state. The reachable states of each are thus all there, and add up
instead of multiplying.

Why the bounds are enough.

- *Breakers*: one failure opens, so that three calls suffice to open, probe,
  report late and plan again; the clock covers two whole cooldowns, hence two
  probes of one provider; three providers let a plan hold two probes.
  Thresholds above one are covered by the proofs. `MaxFallbacks` = 2 is that
  of the code.
- *Gate*: with two slots and five operations the queue holds three, so an
  aborted waiter can stand in front of, between and behind live ones while two
  slots free.
- *Adapter*: three images split into a pair and a single one, and the pair
  again, so splits nest; one slot makes each call wait for the other; a cache of
  one is evicted, and hits come from the other call; the plans of both calls and
  two models let every kind of fallback follow every other.
- *Evidence*: the third image finds both workers busy; the combined bound
  admits three small images and refuses one of them beside the large one; two
  changes put one before and one after a question or an answer.
- *Runtime*: two providers let a replacement be refused half way; a third
  plugin shares the strategy's owner name with the second; a plugin that added a
  standalone entry unloads and another declares the same id.
- *Index*: the caps are smaller than the images in play, so every trim
  happens, and four mutations fill, commit, replace and evict.
- *Sends*: two overlap while a third replaces the routing batch; two faults
  let an upload and its discard both be lost.
- *Settings*: one failed and one repeated save with two keys that need the
  same reference. *Card*: two tests of one row, or of two, and two discoveries
  are under way at once, with an edit and a save or deletion between them.
- *Installer*: two commands cut short, and two that meet what they left; the
  nine versions have numeric, word, longer, and equal prerelease prefixes.

The limits of the code (256 references and so on) are constants of the modules,
lowered in the configurations.

Deadlock is not checked: every instance is bounded and simply stops when its
calls are spent.

**Fairness.** The gate, the adapter, the tool, the index and the send hook are
checked for liveness. Weak fairness is put on the steps that the JavaScript
engine runs by itself (a continuation after a settled promise, an abort
listener, a timer), on file operations (`fs` promises settle), on the end of a
wire call, a load or an admitted operation (each has a timeout of its own), and
on a request under way being answered or refused by the host. Nothing is
assumed of the user, of crashes, of losses, of aborts or of changes of the
settings. The slot a call of `AdapterCall` waits for comes from the other call
settling, not from an assumption. The other modules claim safety only.

**What the runs show.** The invariants hold, except four that the comments,
the change log and the tests of the repository state and the code does not keep
(`findings` in `PROJECT.json`):

1. `CommittedSurvive`: the file may hold more pinned references than a restart
   loads, so committed batches lose images.
2. `KeysResolve`: an inline key of a provider without a reference is stored
   under a derived one that the document never names, so the provider ends
   without a key.
3. `HalfOpenIsReserved`: a call that reserved two probes and is answered by the
   first leaves the second circuit half-open with nobody to report about it, and
   plans skip it from then on. `OnlySkippedStranded` says that this is the only
   way: an attempt that was made has settled its probe, however it ended.
4. `EvidenceIsCurrent`: a question asked before a change of the settings and
   answered after it fills the new evidence cache with the answer of the old
   provider (the view at `image-mind/src/index.ts:72` stores into whichever cache is
   current). `EvidenceIsBroad` speaks of the settings a call was asked under.

Further behaviours that a reader of the code might not expect, each a
reachable behaviour of these models that no property forbids:

- A late failure reopens a half-open circuit, so that a second probe may go
  out beside the first (but not sooner than a cooldown after it).
- An entry that `registerProvider` added outlives its plugin: nothing withdraws
  it, and from then on a declaration of its id is refused, also when image-mind
  loads with it in its catalog. `RegistryIsOwned` tells these entries apart.
- Of two overlapping sends in one session the first may be admitted and yet
  neither listed nor routed, though the user is told that the model can analyze
  it (`SentIsListed` speaks of those reported as sent with preview).
- The untouched draft of a provider that another window changed is written
  back by the next save.
- A refused change of the settings does not reset the evidence cache.
- The host fills the blank fields of a connection test from the record saved by
  the time it reads; so a lamp may be green over a blank field though the test
  still used the value the field had before.
- The fingerprint of a connection test says that a key is typed, not which one
  (`client/settings/identity.ts:58`), so a lamp stays green over a key typed
  after the test, although the header of the card
  (`client/settings-card.tsx:9-13`) says that editing a wire field invalidates a
  result. `LampCoversFields` is what holds: the test was of the fields the row
  shows and of some typed key.
- One generation counts the discoveries of all rows, so that a discovery in
  one row drops the answer to another row's, which goes on loading until it is
  asked again. `ListIsLatest` is about lists that are shown.
- `update --from` does nothing when the version is the same, a no-op update
  does not look at the layer list, and an uninstall says "already absent" while
  a dependency without its package is left. `SuccessIsReal` says what remains.

Some properties hold under a condition that their statement names: `LiveKeysKept` and
`CommittedKeysStored` speak of saves during which no other window committed
(the fence is read when the request is sent, not when the save is planned),
`FailedNotRouted` of sends without faults, and `PluginInStep` excepts the
moments when another plugin was in the way.

Every property of a passing run has a mutant: a definition changed the way a
plausible bug would change the code, under which TLC finds the property violated
(`mutants` in `PROJECT.json`; the mutated forms stand before the
definitions they replace).

## 4. Proofs

The theorems hold for every value of the constants that meets the named
assumptions (`LimitAssumption`, `FallbackAssumption`, `PolicyAssumption`,
`RefAssumption`, `RuntimeAssumption`, `EntryAssumption`, `NamesAssumption`,
`ChainAssumption`, `BatchAssumption`, `IndexAssumption`, `SendAssumption`,
`ArgumentsAssumption`, `EntriesAssumption`, `WorkloadsAssumption`), which TLC evaluates in every run.
They are about safety, and follow one scheme: an inductive invariant, a lemma
for the initial states, a lemma per action, and the properties from the
invariant or from a step that starts in it.

**SequenceLemmas** holds what several of them need about sequences: what `Omit`
keeps and in which order, that it commutes with append, concatenation and
itself, and the counting of a sequence without repetition. The library's
induction theorems take an operator as a parameter, which the provers cannot
instantiate; `EveryNatural` and `EverySequence` take a set instead (a set that
holds 0, or <<>>, and is closed under successor, or append, holds all), proved
from the least counterexample (`LeastOf`), and `KeptUnfolds` shows once that the
recursion of `Omit` is well defined.

**AdapterProofs**. The first part is the gate, for every limit and finite set of
operations. The invariant is `TypeOK`, `CounterCounts`, `QueueMatches`, `NoIdleSlot` and
`DoneReleased`. `NoIdleSlot` alone is not inductive: that a release leaves no
free slot beside a waiter needs the counter to count the holders and the queue
to be the waiters without repetition. `PumpBound` says what the pump's loop
grants. Theorems: `GateCounts`, `NoSlotIdles`, `QueueIsWaiting`,
`AbortRespected`, and the refinement `ImplementsGateAlways`. For the last, the
abstract line is the queue without its aborted waiters. A release hands slots on:
by `NoIdleSlot` and the count the slot it gives back is the only free one when
somebody waits, so the pump lets in exactly the first of the line, whatever aborted
waiters it drops before it; the listener of an aborted waiter then changes nothing.
The second part is the calls, for any number of them and of images, models, plans,
retries and cache entries. Neither property is inductive: an answer is put
together over many steps. The invariant (`CallIInv`) says of the stack of a call
that every batch is a run of ordinals, that the last is the whole request, and that
a batch that was split has the text of what lies before the batch above it, while its
parts left make up what lies behind (`SplitOK`); so a part that is answered
extends the text (`PartGained`), and a split whose parts are all answered has said
its batch (`JoinedSaid`). That a batch is not sent too often needs that the parts
left were never sent: each batch sent so far lies before such a part or
contains it (`Clear`), and the count of the batch asked about is its number of
retries. That no model is tried twice needs that the backups left are providers not
tried yet, each once (`TriedOK`, `CandidatesFacts`). The cache is shared, so the invariant says
of every entry that its text is what its key says (`CacheOK`), whichever call
wrote it. Theorems: `CallsInvariant`, `AnswerIsWholeAlways`, `WorkIsBoundedAlways`.

**ProviderReliabilityProofs**, for all providers, calls, thresholds, cooldowns
and plan lengths. The invariant is `TypeOK`, `CircuitsConsistent`,
`HealthMirrorsCircuit`, `ProbeOrder` (a circuit was opened no earlier than its
last probe was reserved, which spacing needs), `CallsWellFormed` (a call's
fields fit its program counter), `OutagesCounted` (a closed breaker has counted
every outage since the last answer, from which `ClosedIsAnswering` follows, as a
breaker that has counted up to the threshold is open) and `OnlySkippedStranded`. The lemmas
`FailureOutcome`, `SuccessOutcome` and `AllowOutcome` say what the breaker
returns; `ReportEffect` what any report does to the tracker, so that each
outcome of an attempt follows from one lemma, and `SettleCounts` what it does to
the outages counted. Theorems: `TypeCorrect`,
`TrackerConsistent`, `CooldownShownTruly`, `AttemptsSettleProbes`,
`ClosedAnswers`, `ProbesSpaced`.

**PluginEntryProofs**, for all plugins, providers, catalogs and owner names,
and without the bounds on changes. Each operation of the service has a lemma that says it keeps the
registry `Sound` and what else it leaves alone (`RegisterKeeps`, `ReplaceKeeps`,
`ReleaseKeeps`, `DeclareKeeps`, `RegisterProviderKeeps`, `TeardownKeeps`); `EnsureRegistrationKeeps` and
`EnsureDirectoryKeeps` build the plugin's step from them. The invariant adds
that an unloaded plugin has left nothing behind (`Gone`), without which a later
registration could meet its remains, and that what image-mind remembers is the
state of its registration (`InForce`, `Known`). Theorems: `RegistryOwned`,
`PluginStaysInStep`, `StrategyIsLoaded`, `FallbackIsRefused`.
The second half is about the tool, for all images, sizes, numbers of calls and
changes. `LoadsOK` follows the two workers: between them they hold every index
taken from the cursor that is not loaded yet, and both are at work until none is
left, so a call goes on only with all of its images. `AskedOK` says when an answer
still under way may be kept, in terms of the settings it was asked under and of
the arguments, and with it `EvidenceIsBroad` is inductive. Theorems:
`LoadedWholeAlways`, `EvidenceIsBroadAlways`.

**AttachmentProofs**, for any images, batches, sessions and caps. The first part
says what one operation on the index does to it (`Sound`, `Uploads`, `Commits`,
`Discards`), which is where filtering and trimming are reasoned about. The
invariant of the index is that file and memory are well formed (`IsIndex`: known
images without repetition, sessions of the right shape), memory is within its
caps (`Capped`: only pinned images exceed `MaxRefs`), the queue holds mutations
somebody awaits (`QueueOK`), the draft under way is what the first of them makes of
the published value (`DraftOK`), every image of a batch is known as long as
nothing crashed (`RootedOK`), and memory is the file (`MemoryMatchesFile`).
`DraftOK` is what carries the refinement: the rename publishes the effect of
the operation at the head of the queue and of no other. Theorems: `TypeCorrect`,
`MemoryMatchesFileAlways`, `CommittedResolveAlways`, `CapHoldsAlways`,
`HistoryOnlyGrowsAlways`, and the refinement `ImplementsLedgerAlways`.
The invariant of the sends is about both sides and what is between them
(`SendsOK`, `LateOK`: requests, late ones included, fit the state of their send).
The order of the history needs `RoutedLast`: an admitted routing batch that is
not committed yet comes after all committed ones. That failed sends do not
route needs `RoutedInFlight`: without faults, the send of a routing batch was
admitted or is still on its way there or to its discard. `SentIsListed` needs to
start at the host's answer (`CommittedListed`) and holds while there is room for
every session (finitely many, at most `MaxSessions`); beyond that the code
drops whole sessions, and the theorem says so in its hypothesis. The last part is
about reading by offset: a position is found by the number of distinct ones
before it (`AtRank`), so that whatever is among the candidates is found at its
first position (`CandidateFound`); committed batches are among them because every
image of a batch stays known (`RootedStep`). Theorems: `SendTypeCorrect`,
`HistoryIsAdmittedAlways`, `HistoryInOrderAlways`, `SentIsListedAlways`,
`FailedNotRoutedAlways`, `OffsetsReachHistoryAlways`.

**SettingsStoreProofs**, for all providers, keys, references and derivations of
references from ids, any number of edits, saves and foreign commits. A generated
reference passes for unused when no key is stored under it, so the invariant says
that one in use has a key (`UsedIsStored`), and follows who has a claim to it
through document, view, drafts and the save under way (`EachItsOwn`); `SaveIsSafe`
says that a save writes each key under a reference of its own, which no provider
uses unless the document has moved on, and `ViewIsTrue` that a view at the
current revision is the document, which is why the plan made on the view is a plan
for the document. `DestinationsFree` is the lemma about the plan. Theorems:
`TypeCorrect`, `StagingNotShared`, `KeysKept`, `KeysBeforeCommit`.

**InstallerProofs**, for any versions of the shape of semver, other packages and
number of commands. `update` takes what compares as equal for the version it
would install, so the first theorem, `ComparedEqual`, is that only equal versions
do; `LeastOf` makes the first difference of two prereleases exist. The invariant says that what the official
tool has no longer to do is done (`WorkIsDone`), although earlier runs of it may
have been cut short. The last part shows that the comparison is a strict order
(`LessMeans` says what it is, `VersionOrder` that it is irreflexive and
transitive), so that it agrees with any chain of versions of which each is below
the next (`Ascending`, which is what `Chain` is meant to be; the instance TLC
checks is such a chain), and that an installed version outside it is reported as
unknown. Theorems: `SuccessHolds`, `RelationFollowsChainHolds`.

**ProviderCardProofs**, for all providers, endpoints, options and keys. A green
lamp is about a test that answered; the invariant therefore speaks of the ones
under way: the request a row is waiting for tests, or will test, what the
kept fingerprint covers (`Covers`, `TestsCover`), whatever the host has saved
when it reads. For the lists it orders the generations: a request in flight is no newer than the
last of its provider, and none is newer than the counter. Theorems:
`LampsCoverFields`, `ListsAreLatest`.

Type correctness is part of each invariant; it is proved and not run where a
theorem has it.

Only model-checked: liveness, because fairness and ENABLED are beyond the prover.
Every safety invariant and every action property of the runs that pass is proved.

## 5. Abstractions

- Contents are identities: an image, a key, an endpoint is a model value.
- Health scores, latencies and the ranking of backups only order candidates;
  the planner takes any order.
- Expiry of a cache may happen to any entry at any moment.
- Prompts are abstracted to what they decide: whether the task has reusable
  evidence, and whether a detail is asked for.
- Settings are a set of providers, an active one and whether the rest is
  valid; which addresses the network guard rejects is any.
- Authentication, body parsing and image scaling on the routes have no state.
- The temporary file of an atomic write is never read, so a write either
  fails or renames.
- The settings card's top-level fields are left out; so is the store's
  `dispose`.
- Generated references are random; the model picks any unused one.
- Commands of the installer run one after the other; the code takes no lock
  against a second one. When the CLI dies the official tool dies with it
  (`Crash`), as when a terminal interrupts both; a child that outlives a killed
  CLI would be a second writer beside the next command.
- `ByOffset` reads the index once. The code reads it several times with an await
  of the load before each (`session-history.ts:51-58`); once loaded these awaits
  are settled promises, which run on before the event loop turns, while a
  mutation publishes only after its file was written (an index without a
  file, which there is when the attachment store of the host has no root, is not modelled).

## 6. Not modelled

- *Selector, health counters, task router, token budget, planner*: pure
  ranking, classification and arithmetic; the models take any result of them.
- *History preview*: aligns thumbnails with the host's rendered messages and
  almost all of it reads a DOM that is not in this repository. `HistoryInOrder`
  is what it relies on.
- *Rendering, wording, toasts, locales*: no state that a property is about.
- *Scripts and benchmarks*: offline tools.
- *Optional mounts* (system prompt, web server) and the installation and
  disposal of the send wrapper: they depend on the life cycle of the host, which
  is not in this repository.
- *Parsing of answers and of discovered models*: data only.

What could be added: the gate of `AdapterCall` replaced by `ExecutionGate`
itself; `ProviderCard` joined to `SettingsStore`, so that a save of the card is
the five steps it is; the send wrapper of two plugins disposed in either order.
