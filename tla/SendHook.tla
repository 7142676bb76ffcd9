------------------------------ MODULE SendHook ------------------------------
(***************************************************************************)
(* Sending messages with images                                            *)
(* (packages/image-mind/src/client/send-hook.ts): the browser uploads the  *)
(* images of a batch one by one, prompts the session with plain text, and  *)
(* commits the batch when the prompt was admitted or discards it when      *)
(* anything failed.  The host keeps the attachment index, which its routes *)
(* (attachments/routes.ts) change atomically: AttachmentIndex implements   *)
(* AttachmentLedger.                                                       *)
(*                                                                         *)
(* Nothing serializes the sends of one session.  A request may fail on the *)
(* host, its response may be lost, and a request the browser has given up  *)
(* may still take effect later, or never.  A send is named by its batch.   *)
(***************************************************************************)
EXTENDS AttachmentBatches

CONSTANT
  MaxFaults  \* bound on lost responses and failures of the host

VARIABLES
  hostIndex,  \* the attachment index of the host
  pc,         \* pc[b]: where send b is
  slot,       \* slot[b]: the image it uploads
  request,    \* request[b]: None, Posted, or the answer on its way
  late,       \* given-up requests that may still reach the host
  admitted,   \* history: the sends whose prompt was admitted, in order
  hostClock,  \* Date.now(), counted in host operations
  faults      \* lost responses and failures of the host so far

host == <<hostIndex, hostClock>>
sendVars == <<hostIndex, pc, slot, request, late, admitted, hostClock, faults>>

Posted == <<"posted">>

ASSUME SendAssumption == None \notin {Posted, Yes, No} /\ MaxFaults \in Nat

(* "unlisted": sent, but not in the preview history.                       *)
Settled == {"failed", "sent", "unlisted"}

SendTypeOK ==
  /\ ToSet(hostIndex.refs) \subseteq Images
  /\ pc \in [Batches -> {"idle", "uploading", "prompting", "discarding", "committing"} \cup Settled]
  /\ slot \in [Batches -> Nat]
  /\ \A b \in Batches :
       /\ pc[b] # "idle" => slot[b] \in DOMAIN ImagesOf[b]
       /\ pc[b] \in {"discarding", "committing"} <=> request[b] # None /\ pc[b] # "uploading"
  /\ \A r \in late : r.slot <= slot[r.batch]
  /\ admitted \in Seq(Batches) /\ IsInjective(admitted)

SendInit ==
  /\ hostIndex = EmptyIndex
  /\ pc = [b \in Batches |-> "idle"]
  /\ slot = [b \in Batches |-> 0]
  /\ request = [b \in Batches |-> None]
  /\ late = {}
  /\ admitted = <<>>
  /\ hostClock = 0
  /\ faults = 0
-----------------------------------------------------------------------------
(* The browser.                                                            *)

Goto(b, where, posted) ==
  /\ pc' = [pc EXCEPT ![b] = where]
  /\ request' = [request EXCEPT ![b] = posted]

(* A send passed the checks on its images and its session.                 *)
StartSend(b) ==
  /\ pc[b] = "idle"
  /\ Goto(b, "uploading", None)
  /\ slot' = [slot EXCEPT ![b] = 1]
  /\ UNCHANGED <<host, late, admitted, faults>>

(* Mutant: a partial batch is not discarded.                               *)
GiveUpSilently(b) == Goto(b, "failed", None)

(* An upload did not complete: the batch is discarded if one did before.   *)
GiveUp(b) ==
  IF slot[b] > 1 THEN Goto(b, "discarding", Posted) ELSE Goto(b, "failed", None)

PostUpload(b) ==
  /\ pc[b] = "uploading" /\ request[b] = None
  /\ Goto(b, "uploading", Posted)
  /\ UNCHANGED <<host, slot, late, admitted, faults>>

PrepareFails(b) ==
  /\ pc[b] = "uploading" /\ request[b] = None
  /\ GiveUp(b)
  /\ UNCHANGED <<host, slot, late, admitted, faults>>

Uploaded(b) ==
  IF slot[b] < Len(ImagesOf[b])
  THEN Goto(b, "uploading", None) /\ slot' = [slot EXCEPT ![b] = @ + 1]
  ELSE Goto(b, "prompting", None) /\ UNCHANGED slot

(* Mutant: the answer to a commit is not looked at.                        *)
ResumeSent(b, ok) ==
  CASE pc[b] = "uploading"  -> IF ok THEN Uploaded(b) ELSE GiveUp(b) /\ UNCHANGED slot
    [] pc[b] = "discarding" -> Goto(b, "failed", None) /\ UNCHANGED slot
    [] pc[b] = "committing" -> Goto(b, "sent", None) /\ UNCHANGED slot

(* The request of b settles, for the browser, with or without success.     *)
Resume(b, ok) ==
  CASE pc[b] = "uploading"  -> IF ok THEN Uploaded(b) ELSE GiveUp(b) /\ UNCHANGED slot
    [] pc[b] = "discarding" -> Goto(b, "failed", None) /\ UNCHANGED slot
    [] pc[b] = "committing" -> Goto(b, IF ok THEN "sent" ELSE "unlisted", None) /\ UNCHANGED slot

(* Mutant: a refusal of the host is not handled.                           *)
ResponseArrivesOk(b) ==
  /\ request[b] = Yes
  /\ Resume(b, TRUE)
  /\ UNCHANGED <<host, late, admitted, faults>>

ResponseArrives(b) ==
  /\ request[b] \in {Yes, No}
  /\ Resume(b, request[b] = Yes)
  /\ UNCHANGED <<host, late, admitted, faults>>

Message(b) == [batch |-> b, kind |-> pc[b], slot |-> slot[b]]

(* fetch throws or the body is no envelope.                                *)
ResponseLost(b) ==
  /\ request[b] # None /\ faults < MaxFaults
  /\ faults' = faults + 1
  /\ late' = IF request[b] = Posted THEN late \cup {Message(b)} ELSE late
  /\ Resume(b, FALSE)
  /\ UNCHANGED <<host, admitted>>

PromptAdmitted(b) ==
  /\ pc[b] = "prompting"
  /\ admitted' = Append(admitted, b)
  /\ Goto(b, "committing", Posted)
  /\ UNCHANGED <<host, slot, late, faults>>

(* The prompt is refused or throws.                                        *)
PromptFails(b) ==
  /\ pc[b] = "prompting"
  /\ Goto(b, "discarding", Posted)
  /\ UNCHANGED <<host, slot, late, admitted, faults>>
-----------------------------------------------------------------------------
(* The host.                                                               *)

Handle(m) ==
  CASE m.kind = "uploading"  -> RememberAt(hostIndex, m.batch, m.slot, hostClock)
    [] m.kind = "discarding" -> Discard(hostIndex, m.batch)
    [] m.kind = "committing" -> Commit(hostIndex, m.batch, hostClock)

Performs(m) ==
  /\ hostIndex' = Handle(m).index
  /\ hostClock' = hostClock + 1

HostHandles(b) ==
  /\ request[b] = Posted
  /\ Performs(Message(b))
  /\ request' = [request EXCEPT ![b] = Handle(Message(b)).result]
  /\ UNCHANGED <<pc, slot, late, admitted, faults>>

(* The store rejects the image, or the index cannot be persisted.          *)
HostFails(b) ==
  /\ request[b] = Posted /\ faults < MaxFaults
  /\ faults' = faults + 1
  /\ request' = [request EXCEPT ![b] = No]
  /\ UNCHANGED <<host, pc, slot, late, admitted>>

LateRequest ==
  \E m \in late :
    /\ Performs(m)
    /\ late' = late \ {m}
    /\ UNCHANGED <<pc, slot, request, admitted, faults>>

SendNext ==
  \/ \E b \in Batches :
       \/ StartSend(b) \/ PostUpload(b) \/ PrepareFails(b)
       \/ ResponseArrives(b) \/ ResponseLost(b)
       \/ PromptAdmitted(b) \/ PromptFails(b)
       \/ HostHandles(b) \/ HostFails(b)
  \/ LateRequest

(* Continuations run, the host answers, fetch settles and the session      *)
(* answers a prompt.  Nobody has to send, and a given-up request need not  *)
(* arrive.                                                                 *)
SendFairness ==
  \A b \in Batches :
    /\ WF_sendVars(PostUpload(b) \/ PrepareFails(b))
    /\ WF_sendVars(ResponseArrives(b))
    /\ WF_sendVars(PromptAdmitted(b) \/ PromptFails(b))
    /\ WF_sendVars(HostHandles(b) \/ HostFails(b))

SendSpec == SendInit /\ [][SendNext]_sendVars /\ SendFairness
-----------------------------------------------------------------------------
History(s) == IF s \in Open(hostIndex.sessions) THEN hostIndex.sessions[s].history ELSE <<>>

(* The history of a session holds only admitted sends, each with its own   *)
(* images in order, whatever other sends and late requests did meanwhile.  *)
HistoryIsAdmitted ==
  \A s \in Sessions : \A h \in ToSet(History(s)) :
    /\ SessionOf[h.batch] = s
    /\ h.batch \in ToSet(admitted)
    /\ h.images = ImagesOf[h.batch]

(* The history is in the order of admission, which is the order of the     *)
(* messages it is shown beside (history-preview.ts aligns them by order).  *)
HistoryInOrder ==
  \A s \in Sessions : \A i, j \in DOMAIN History(s) :
    i < j => \E k, l \in DOMAIN admitted :
               k < l /\ admitted[k] = History(s)[i].batch /\ admitted[l] = History(s)[j].batch

(* A send reported as sent with preview is in the history, unless the cap  *)
(* has dropped it.                                                         *)
SentIsListed ==
  \A b \in Batches :
    pc[b] = "sent" =>
      \/ \E h \in ToSet(History(SessionOf[b])) : h.batch = b
      \/ Len(History(SessionOf[b])) = MaxHistory
      \/ SessionOf[b] \notin Open(hostIndex.sessions)

(* Without faults a failed send leaves no trace: once the sends of a       *)
(* session have settled, its routing batch is that of an admitted send.    *)
FailedNotRouted ==
  faults = 0 => \A s \in Open(hostIndex.sessions) :
    (\A b \in Batches : SessionOf[b] = s => pc[b] \in Settled \cup {"idle"})
      => hostIndex.sessions[s].batch \in ToSet(admitted)

(* Every committed batch can be reached by some recency offset, and offset *)
(* 0 is the routing batch, or the newest committed one while that is       *)
(* incomplete.                                                             *)
OffsetsReachHistory ==
  \A s \in Open(hostIndex.sessions) :
    LET session == hostIndex.sessions[s]
    IN  /\ \A h \in ToSet(session.history) :
             \E k \in 0..Len(session.history) : ByOffset(hostIndex, s, k) = h.images
        /\ ByOffset(hostIndex, s, 0) = IF Complete(session) THEN session.images
                                   ELSE IF session.history = <<>> THEN <<>>
                                   ELSE Last(session.history).images

(* Every send settles.                                                     *)
SendsSettle == \A b \in Batches : pc[b] = "uploading" ~> pc[b] \in Settled
=============================================================================
