--------------------------- MODULE AttachmentIndex ---------------------------
(***************************************************************************)
(* The durable attachment index of the host                                *)
(* (packages/image-mind/src/attachments/ref-index.ts): one file, one       *)
(* in-memory value, one queue of mutations.                                *)
(*                                                                         *)
(* The first call of a process loads the file; calls that come meanwhile   *)
(* wait for that load.  Mutations run one at a time: compute a draft,      *)
(* write it to a temporary file, rename it over the index, and only then   *)
(* publish it in memory and answer.  Loads and writes may fail, and the    *)
(* process may stop between any two steps.  Queries read the published     *)
(* value without queueing.                                                 *)
(***************************************************************************)
EXTENDS AttachmentBatches

CONSTANTS
  Callers,       \* each makes one call at a time
  Requests,    \* the calls they may make (AttachmentLedger, Legal)
  MaxMutations,  \* bound on the mutations begun
  MaxCrashes     \* bound on the crashes

VARIABLES
  file,      \* the index file; none yet is EmptyIndex
  value,     \* the published in-memory index
  load,      \* loadPromise: "cold" (undefined), "loading" or "loaded"
  queue,     \* mutations that wait for the load or for their turn
  stage,     \* of the first of them: "idle", "writing" or "renamed"
  draft,     \* its outcome
  call, result,       \* as in AttachmentLedger
  clock,     \* Date.now(), counted in mutations
  crashes

disk == <<file, crashes>>
calls == <<call, result>>
vars == <<file, value, load, queue, stage, draft, call, result, clock, crashes>>

L == INSTANCE AttachmentLedger WITH Times <- 0..MaxMutations

ASSUME IndexAssumption ==
  /\ Requests \subseteq L!Legal /\ None \notin Requests
  /\ MaxMutations \in Nat /\ MaxCrashes \in Nat

NoDraft == Unchanged(None, EmptyIndex)

TypeOK ==
  /\ \A index \in {file, value, draft.index} :
       /\ index.refs \in Seq(Images) /\ IsInjective(index.refs)
       /\ \A s \in Open(index.sessions) :
            LET session == index.sessions[s]
            IN  /\ \A h \in ToSet(session.history) : h \in Batch /\ Complete(h)
                /\ session.batch \in Batches /\ SessionOf[session.batch] = s
                /\ DOMAIN session.images = DOMAIN ImagesOf[session.batch]
                /\ Len(session.history) <= MaxHistory
  /\ load \in {"cold", "loading", "loaded"}
  /\ queue \in Seq(Callers) /\ IsInjective(queue)
  /\ stage \in {"idle", "writing", "renamed"}
  /\ call \in [Callers -> Requests \cup {None}]
  /\ clock \in 0..MaxMutations

Init ==
  /\ file = EmptyIndex
  /\ value = EmptyIndex
  /\ load = "cold"
  /\ queue = <<>>
  /\ stage = "idle"
  /\ draft = NoDraft
  /\ call = [c \in Callers |-> None]
  /\ result = [c \in Callers |-> None]
  /\ clock = 0
  /\ crashes = 0

Query(o) == o.kind = "latest"

Respond(c, answer) ==
  /\ call' = [call EXCEPT ![c] = None]
  /\ result' = [result EXCEPT ![c] = answer]

(* A call starts the load unless one is done or under way (ensureLoaded).  *)
Begin(c, o) ==
  /\ call[c] = None
  /\ Query(o) \/ clock + Len(queue) < MaxMutations
  /\ load' = IF load = "cold" THEN "loading" ELSE load
  /\ queue' = IF Query(o) THEN queue ELSE Append(queue, c)
  /\ call' = [call EXCEPT ![c] = o]
  /\ result' = [result EXCEPT ![c] = None]
  /\ UNCHANGED <<disk, value, stage, draft, clock>>

(* The file is read; a missing file is the empty index.                    *)
Load ==
  /\ load = "loading"
  /\ load' = "loaded"
  /\ value' = Reload(file)
  /\ UNCHANGED <<disk, queue, stage, draft, calls, clock>>

(* Mutant: a failed read passes for an empty index.                        *)
LoadFailsEmpty ==
  /\ load = "loading"
  /\ load' = "loaded"
  /\ value' = EmptyIndex
  /\ UNCHANGED <<disk, queue, stage, draft, calls, clock>>

(* The read fails: whoever waits for it is rejected, the next call loads   *)
(* again.                                                                  *)
LoadFails ==
  /\ load = "loading"
  /\ load' = "cold"
  /\ queue' = <<>>
  /\ L!Reject(L!Pending, L!Failed)
  /\ UNCHANGED <<disk, value, stage, draft, clock>>

Read(c) ==
  /\ load = "loaded" /\ call[c] # None /\ Query(call[c])
  /\ Respond(c, L!Perform(value, call[c], clock).result)
  /\ UNCHANGED <<disk, value, load, queue, stage, draft, clock>>

(* The turn of the first mutation: without a change it is answered at      *)
(* once, with a change its draft is written.                               *)
Mutate ==
  /\ load = "loaded" /\ stage = "idle" /\ queue # <<>>
  /\ clock' = clock + 1
  /\ \E outcome \in {L!Perform(value, call[Head(queue)], clock)} :
       \/ /\ outcome.changed
          /\ stage' = "writing"
          /\ draft' = outcome
          /\ UNCHANGED <<queue, calls>>
       \/ /\ ~outcome.changed
          /\ queue' = Tail(queue)
          /\ Respond(Head(queue), outcome.result)
          /\ UNCHANGED <<stage, draft>>
  /\ UNCHANGED <<disk, value, load>>

(* Mutant: the draft is published although it was not written.             *)
WriteFailsPublished ==
  /\ stage = "writing"
  /\ stage' = "idle"
  /\ value' = draft.index
  /\ draft' = NoDraft
  /\ queue' = Tail(queue)
  /\ L!Reject({Head(queue)}, L!Failed)
  /\ UNCHANGED <<disk, load, clock>>

(* Mutant: a failed mutation ends the queue.                               *)
WriteFailsForGood ==
  /\ stage = "writing"
  /\ stage' = "poisoned"
  /\ draft' = NoDraft
  /\ L!Reject({Head(queue)}, L!Failed)
  /\ UNCHANGED <<disk, value, load, queue, clock>>

(* mkdir, writeFile or rename fails: the draft is dropped, the queue goes  *)
(* on.                                                                     *)
WriteFails ==
  /\ stage = "writing"
  /\ stage' = "idle"
  /\ draft' = NoDraft
  /\ queue' = Tail(queue)
  /\ L!Reject({Head(queue)}, L!Failed)
  /\ UNCHANGED <<disk, value, load, clock>>

Rename ==
  /\ stage = "writing"
  /\ stage' = "renamed"
  /\ file' = draft.index
  /\ UNCHANGED <<value, load, queue, draft, calls, clock, crashes>>

(* The temporary file is cleaned up and the draft published.               *)
Publish ==
  /\ stage = "renamed"
  /\ stage' = "idle"
  /\ value' = draft.index
  /\ draft' = NoDraft
  /\ queue' = Tail(queue)
  /\ Respond(Head(queue), draft.result)
  /\ UNCHANGED <<disk, load, clock>>

(* The process stops and starts again; only the file is left.              *)
Crash ==
  /\ crashes < MaxCrashes
  /\ crashes' = crashes + 1
  /\ value' = EmptyIndex
  /\ load' = "cold"
  /\ queue' = <<>>
  /\ stage' = "idle"
  /\ draft' = NoDraft
  /\ L!Reject(L!Pending, L!CutOff)
  /\ UNCHANGED <<file, clock>>

Next ==
  \/ \E c \in Callers : (\E o \in Requests : Begin(c, o)) \/ Read(c)
  \/ Load \/ LoadFails
  \/ Mutate \/ WriteFails \/ Rename \/ Publish
  \/ Crash

(* File operations settle and continuations run; nobody has to call.       *)
Fairness ==
  /\ \A c \in Callers : WF_vars(Read(c))
  /\ WF_vars(Load \/ LoadFails)
  /\ WF_vars(Mutate)
  /\ WF_vars(WriteFails \/ Rename)
  /\ WF_vars(Publish)

Spec == Init /\ [][Next]_vars /\ Fairness
-----------------------------------------------------------------------------
(* Commit after persist: once loaded, memory is never ahead of the file,   *)
(* and behind it only between the rename and the publication.  It may lack *)
(* images the file still lists beyond the load cap, and nothing else.      *)
MemoryMatchesFile ==
  /\ load = "loaded" => Reload(file) = Reload(IF stage = "renamed" THEN draft.index ELSE value)
  /\ stage # "idle" => load = "loaded" /\ queue # <<>>

(* Images of committed batches stay resolvable, whatever the caps drop and *)
(* however often the process restarts (ref-index.ts:388, :412-413).         *)
CommittedSurvive ==
  load = "loaded" =>
    \A s \in Open(value.sessions) :
      \A h \in ToSet(value.sessions[s].history) : Resolves(value, h)

(* They do as long as the process runs.                                    *)
CommittedResolve == crashes = 0 => CommittedSurvive

(* Refs are trimmed to the cap except for pinned ones.                     *)
CapHolds ==
  Len(value.refs) > MaxRefs => ToSet(value.refs) \subseteq Pinned(value.sessions)

(* A committed batch never changes; it goes only with its session, or      *)
(* oldest first beyond the cap, in the order of commitment.                *)
HistoryOnlyGrows ==
  [][\A s \in Open(value.sessions) :
       load = "loaded" /\ load' = "loaded" /\ s \in Open(value'.sessions) =>
         LET old == value.sessions[s].history
             new == value'.sessions[s].history
         IN  \/ new = old
             \/ /\ new # <<>>
                /\ new = Newest(Append(old, Last(new)), MaxHistory)]_vars

(* The index implements the atomic ledger: until the load, the ledger's    *)
(* value is what a load would give.                                        *)
Ledger == INSTANCE AttachmentLedger WITH
            value <- IF load = "loaded" THEN value ELSE Reload(file),
            Times <- 0..MaxMutations

ImplementsLedger == Ledger!Spec

(* Every call is answered.                                                 *)
CallsAnswered == \A c \in Callers : call[c] # None ~> call[c] = None
=============================================================================
