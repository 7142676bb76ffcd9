---------------------------- MODULE ExecutionGate ----------------------------
(***************************************************************************)
(* The process-wide gate on wire operations                                *)
(* (packages/image-mind/src/runtime/execution-gate.ts): a FIFO semaphore   *)
(* that knows about abort signals.                                         *)
(*                                                                         *)
(* An operation asks for a slot, holds it or queues, and releases it once, *)
(* though the release callback may be called again.  A signal first reads  *)
(* as aborted and then runs its listeners; a release made by another       *)
(* listener falls between the two, which is why the pump looks at the      *)
(* signal of every waiter it takes off the queue.                          *)
(***************************************************************************)
EXTENDS Integers, Sequences, FiniteSets, SequencesExt, Omission

CONSTANTS
  Ops,    \* operations; each asks for a slot at most once
  Limit   \* concurrent wire operations (4 in the process-wide gate)

ASSUME LimitAssumption == Limit \in Nat \ {0} /\ IsFiniteSet(Ops)

VARIABLES
  active,    \* the gate's counter of slots in use
  queue,     \* waiters, oldest first
  pc,        \* pc[w]: where operation w is
  aborted,   \* aborted[w]: w's signal reads as aborted
  released   \* released[w]: the flag of w's release callback

vars == <<active, queue, pc, aborted, released>>

(* A granted operation has its slot but its continuation has not run yet.  *)
Holding == {"granted", "running"}

TypeOK ==
  /\ active \in Nat
  /\ queue \in Seq(Ops)
  /\ pc \in [Ops -> Holding \cup {"idle", "queued", "done", "rejected"}]
  /\ aborted \in [Ops -> BOOLEAN]
  /\ released \in [Ops -> BOOLEAN]

Init ==
  /\ active = 0
  /\ queue = <<>>
  /\ pc = [w \in Ops |-> "idle"]
  /\ aborted = [w \in Ops |-> FALSE]
  /\ released = [w \in Ops |-> FALSE]

(* Mutant: one slot too many.                                              *)
AcquireOver(w) ==
  /\ pc[w] = "idle" /\ ~aborted[w]
  /\ IF active <= Limit
     THEN /\ pc' = [pc EXCEPT ![w] = "granted"]
          /\ active' = active + 1
          /\ UNCHANGED queue
     ELSE /\ pc' = [pc EXCEPT ![w] = "queued"]
          /\ queue' = Append(queue, w)
          /\ UNCHANGED active
  /\ UNCHANGED <<aborted, released>>

Acquire(w) ==
  /\ pc[w] = "idle"
  /\ \/ /\ aborted[w]
        /\ pc' = [pc EXCEPT ![w] = "rejected"]
        /\ UNCHANGED <<active, queue>>
     \/ /\ ~aborted[w] /\ active < Limit
        /\ pc' = [pc EXCEPT ![w] = "granted"]
        /\ active' = active + 1
        /\ UNCHANGED queue
     \/ /\ ~aborted[w] /\ active >= Limit
        /\ pc' = [pc EXCEPT ![w] = "queued"]
        /\ queue' = Append(queue, w)
        /\ UNCHANGED active
  /\ UNCHANGED <<aborted, released>>

(* The awaiting run() goes on, even if the signal was aborted since.       *)
Begin(w) ==
  /\ pc[w] = "granted"
  /\ pc' = [pc EXCEPT ![w] = "running"]
  /\ UNCHANGED <<active, queue, aborted, released>>

(* The signal of w reads as aborted.                                       *)
Abort(w) ==
  /\ ~aborted[w]
  /\ aborted' = [aborted EXCEPT ![w] = TRUE]
  /\ UNCHANGED <<active, queue, pc, released>>

(* The listener of a waiter, removed once the waiter is off the queue.     *)
OnAbort(w) ==
  /\ aborted[w] /\ pc[w] = "queued"
  /\ \E i \in DOMAIN queue : queue[i] = w /\ queue' = RemoveAt(queue, i)
  /\ pc' = [pc EXCEPT ![w] = "rejected"]
  /\ UNCHANGED <<active, aborted, released>>

(* Mutant: the pump does not look at the signals.                          *)
LiveAny(k) == {queue[i] : i \in 1..k}

(* The waiters among the first k that the pump grants a slot.              *)
Live(k) == {queue[i] : i \in {j \in 1..k : ~aborted[queue[j]]}}

(* Mutant: the pump takes one waiter, live or not.                         *)
PumpsOne(k, free) == k = IF queue = <<>> THEN 0 ELSE 1

(* The pump takes waiters off the queue until the free slots are used or   *)
(* nobody is left.                                                         *)
Pumps(k, free) ==
  /\ k \in 0..Len(queue)
  /\ k < Len(queue) => Cardinality(Live(k)) = free
  /\ \A j \in 0..k - 1 : Cardinality(Live(j)) < free

Pump(w, free) ==
  \E k \in 0..Len(queue) :
    /\ Pumps(k, free)
    /\ queue' = SubSeq(queue, k + 1, Len(queue))
    /\ active' = Limit - free + Cardinality(Live(k))
    /\ pc' = [v \in Ops |->
                IF v = w THEN "done"
                ELSE IF v \in Live(k) THEN "granted"
                ELSE IF \E i \in 1..k : queue[i] = v THEN "rejected"
                ELSE pc[v]]

(* The operation settled, or a holder calls its callback once more.        *)
Release(w) ==
  /\ pc[w] \in {"running", "done"}
  /\ IF released[w]
     THEN UNCHANGED vars
     ELSE /\ released' = [released EXCEPT ![w] = TRUE]
          /\ Pump(w, Limit - (active - 1))
          /\ UNCHANGED aborted

Next == \E w \in Ops :
          Acquire(w) \/ Begin(w) \/ Abort(w) \/ OnAbort(w) \/ Release(w)

(* A continuation or listener that is due runs, and a running operation    *)
(* settles: every wire call has a timeout (adapter.ts, callVisionOnce).    *)
Fairness == \A w \in Ops : WF_vars(Begin(w)) /\ WF_vars(OnAbort(w)) /\ WF_vars(Release(w))

Spec == Init /\ [][Next]_vars /\ Fairness
-----------------------------------------------------------------------------
Holders == {w \in Ops : pc[w] \in Holding}

(* The counter counts: it equals the number of operations that hold a slot *)
(* and never passes the limit, however aborts and repeated releases fall.  *)
CounterCounts == active = Cardinality(Holders) /\ active <= Limit

(* No lost wake-up: while somebody waits, every slot is in use.            *)
NoIdleSlot == queue # <<>> => active = Limit

(* The queue holds exactly the waiting operations, each once.              *)
QueueMatches ==
  /\ ToSet(queue) = {w \in Ops : pc[w] = "queued"}
  /\ IsInjective(queue)

(* Gate refines AdmissionGate: a waiter gives up when its signal aborts.   *)
Gate == INSTANCE AdmissionGate WITH
          inside <- Holders,
          line   <- Omit(queue, {w \in Ops : aborted[w]})

(* The gate is a first-come-first-served semaphore.                        *)
ImplementsGate == Gate!Spec

(* An operation that queues is granted a slot or rejected.                 *)
WaitersServed == \A w \in Ops : pc[w] = "queued" ~> pc[w] # "queued"

(* An aborted waiter gets no slot afterwards.                              *)
AbortedNotGranted ==
  [][\A w \in Ops : aborted[w] /\ pc'[w] = "granted" => pc[w] = "granted"]_vars
=============================================================================
