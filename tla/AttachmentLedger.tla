-------------------------- MODULE AttachmentLedger --------------------------
(***************************************************************************)
(* What the attachment index promises its callers: it is one atomic value. *)
(* A call takes effect once, as a whole, at one moment between its start   *)
(* and its answer, and an answered mutation survives a crash.  A call that *)
(* is answered with an error changed nothing; a call cut off by a crash    *)
(* took effect or did not.                                                 *)
(***************************************************************************)
EXTENDS AttachmentBatches

CONSTANTS
  Callers,   \* each makes one call at a time
  Times      \* the update times

VARIABLES
  value,     \* the index
  call,      \* call[c]: the call c awaits, or None
  result     \* result[c]: the answer to c's last call

vars == <<value, call, result>>

Pending == {c \in Callers : call[c] # None}

(* The calls of cs are answered with an error.                             *)
Reject(cs, error) ==
  /\ call' = [c \in Callers |-> IF c \in cs THEN None ELSE call[c]]
  /\ result' = [c \in Callers |-> IF c \in cs THEN error ELSE result[c]]

Failed == <<"error">>

CutOff == <<"cut off">>

Operations ==
  [kind : {"upload"}, batch : Batches, slot : UNION {DOMAIN ImagesOf[b] : b \in Batches}]
    \cup [kind : {"commit", "discard"}, batch : Batches]
    \cup [kind : {"attach"}, image : Images]
    \cup [kind : {"latest"}, session : Sessions]

(* The operations there are: an upload fills one slot of its batch.        *)
Legal == {o \in Operations : o.kind = "upload" => o.slot \in DOMAIN ImagesOf[o.batch]}

Perform(index, o, now) ==
  CASE o.kind = "upload"  -> RememberAt(index, o.batch, o.slot, now)
    [] o.kind = "attach"  -> Remember(index, o.image)
    [] o.kind = "commit"  -> Commit(index, o.batch, now)
    [] o.kind = "discard" -> Discard(index, o.batch)
    [] o.kind = "latest"  -> Unchanged(Latest(index, o.session), index)

Init ==
  /\ value = EmptyIndex
  /\ call = [c \in Callers |-> None]
  /\ result = [c \in Callers |-> None]

Begin(c, o) ==
  /\ call[c] = None
  /\ call' = [call EXCEPT ![c] = o]
  /\ result' = [result EXCEPT ![c] = None]
  /\ UNCHANGED value

Answer(c) ==
  /\ call[c] # None
  /\ call' = [call EXCEPT ![c] = None]
  /\ \E outcome \in {Perform(value, call[c], now) : now \in Times} :
       /\ value' = outcome.index
       /\ result' = [result EXCEPT ![c] = outcome.result]

(* Some of the pending calls fail together.                                *)
Fail ==
  /\ UNCHANGED value
  /\ \E failed \in SUBSET Pending : Reject(failed, Failed)

(* The process stops.  One of the pending calls may have taken effect.     *)
Crash ==
  /\ Reject(Pending, CutOff)
  /\ \/ value' = Reload(value)
     \/ \E outcome \in {Perform(value, call[c], now) : c \in Pending, now \in Times} :
          value' = Reload(outcome.index)

Next ==
  \/ \E c \in Callers : (\E o \in Legal : Begin(c, o)) \/ Answer(c)
  \/ Fail
  \/ Crash

Spec == Init /\ [][Next]_vars
=============================================================================
