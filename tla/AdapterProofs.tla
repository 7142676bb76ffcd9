---------------------------- MODULE AdapterProofs ----------------------------
(***************************************************************************)
(* The adapter.  First the execution gate, for every limit and every       *)
(* finite set of operations: the counter counts, no wake-up is lost, and   *)
(* the queue holds exactly the waiting operations.  Then the calls, for    *)
(* any of them and any images, plans and limits: an answer is whole, and   *)
(* the work for it is bounded.                                             *)
(***************************************************************************)
EXTENDS ExecutionGate, AdapterCall, SequenceLemmas

(* An operation that is done has used its release callback.                *)
DoneReleased == \A w \in Ops : pc[w] = "done" => released[w]

IInv == TypeOK /\ CounterCounts /\ QueueMatches /\ NoIdleSlot /\ DoneReleased

(* The queue in terms of its positions.                                    *)
LEMMA QueueFacts ==
  ASSUME TypeOK, QueueMatches
  PROVE  /\ Len(queue) \in Nat
         /\ DOMAIN queue = 1..Len(queue)
         /\ \A i \in 1..Len(queue) : queue[i] \in Ops /\ pc[queue[i]] = "queued"
         /\ \A i, j \in 1..Len(queue) : queue[i] = queue[j] => i = j
         /\ \A w \in Ops : pc[w] = "queued" => \E i \in 1..Len(queue) : queue[i] = w
<1>1. Len(queue) \in Nat /\ DOMAIN queue = 1..Len(queue)
      /\ \A i \in 1..Len(queue) : queue[i] \in Ops
  BY DEF TypeOK
<1>2. QED BY <1>1 DEF QueueMatches, ToSet, IsInjective

(* The operations that hold a slot are finitely many, so they can be      *)
(* counted.                                                                *)
LEMMA HoldersFinite ==
  IsFiniteSet(Holders) /\ Cardinality(Holders) \in Nat
BY LimitAssumption, FS_Subset, FS_CardinalityType DEF Holders

(* What the pump pops is the first k waiters: it grants at most the free   *)
(* slots, and leaves somebody waiting only if it granted them all.         *)
LEMMA PumpBound ==
  ASSUME TypeOK, QueueMatches, NEW free \in Nat \ {0}, NEW k \in 0..Len(queue), Pumps(k, free)
  PROVE  /\ Live(k) \subseteq Ops
         /\ IsFiniteSet(Live(k))
         /\ Cardinality(Live(k)) \in Nat
         /\ Cardinality(Live(k)) <= free
         /\ k < Len(queue) => Cardinality(Live(k)) = free
<1> USE QueueFacts
<1>1. Live(k) \subseteq Ops
  BY DEF Live
<1>2. IsFiniteSet(Live(k)) /\ Cardinality(Live(k)) \in Nat
  BY <1>1, LimitAssumption, FS_Subset, FS_CardinalityType
<1>3. CASE k = 0
  <2>1. Live(k) = {}
    BY <1>3 DEF Live
  <2>2. QED BY <2>1, <1>1, <1>2, FS_EmptySet DEF Pumps
<1>4. CASE k # 0
  <2>1. k - 1 \in 0..k - 1 /\ k - 1 \in 0..Len(queue) /\ k \in 1..Len(queue)
    BY <1>4
  <2>2. Cardinality(Live(k - 1)) < free
    BY <2>1 DEF Pumps
  <2>3. Live(k - 1) \subseteq Ops
    BY <2>1 DEF Live
  <2>4. IsFiniteSet(Live(k - 1)) /\ Cardinality(Live(k - 1)) \in Nat
    BY <2>3, LimitAssumption, FS_Subset, FS_CardinalityType
  <2>5. Live(k) \subseteq Live(k - 1) \cup {queue[k]}
    BY <2>1 DEF Live
  <2>6. /\ IsFiniteSet(Live(k - 1) \cup {queue[k]})
        /\ Cardinality(Live(k - 1) \cup {queue[k]}) <= Cardinality(Live(k - 1)) + 1
    <3> HIDE QueueFacts
    <3> DEFINE S == Live(k - 1)
               x == queue[k]
    <3> HIDE DEF S, x
    <3>1. IsFiniteSet(S) /\ Cardinality(S) \in Nat
      BY <2>4 DEF S
    <3>2. /\ IsFiniteSet(S \cup {x})
          /\ Cardinality(S \cup {x}) = IF x \in S THEN Cardinality(S) ELSE Cardinality(S) + 1
      BY <3>1, FS_AddElement
    <3>3. Cardinality(S \cup {x}) <= Cardinality(S) + 1
      BY <3>1, <3>2
    <3>4. QED BY <3>2, <3>3 DEF S, x
  <2>7. Cardinality(Live(k)) <= Cardinality(Live(k - 1) \cup {queue[k]})
    BY <2>5, <2>6, FS_Subset
  <2>8. Cardinality(Live(k - 1) \cup {queue[k]}) \in Nat
    BY <2>6, FS_CardinalityType
  <2>9. Cardinality(Live(k)) <= free
    BY <2>2, <2>4, <2>6, <2>7, <2>8, <1>2
  <2>10. QED BY <2>9, <1>1, <1>2 DEF Pumps
<1>5. QED BY <1>3, <1>4

(* An idle gate satisfies the invariant.                                   *)
THEOREM InitInv == Init => IInv
<1> SUFFICES ASSUME Init PROVE IInv
  OBVIOUS
<1>1. Holders = {}
  BY DEF Init, Holders, Holding
<1>2. QED BY <1>1, FS_EmptySet, LimitAssumption
  DEF Init, IInv, TypeOK, CounterCounts, QueueMatches, NoIdleSlot, DoneReleased, ToSet, IsInjective

(* An arrival takes a free slot only when there is one, and otherwise      *)
(* joins the end of the queue.                                             *)
LEMMA AcquireInv == ASSUME IInv, NEW w \in Ops, Acquire(w) PROVE IInv'
<1> USE DEF IInv
<1>0. DoneReleased'
  BY DEF DoneReleased, Acquire, TypeOK
<1>1. QueueMatches /\ TypeOK /\ CounterCounts /\ NoIdleSlot
  OBVIOUS
<1>2. pc[w] = "idle" /\ UNCHANGED <<aborted, released>>
  BY DEF Acquire
<1>3. CASE aborted[w] /\ pc' = [pc EXCEPT ![w] = "rejected"] /\ UNCHANGED <<active, queue>>
  <2>1. Holders' = Holders
    BY <1>1, <1>2, <1>3 DEF Holders, Holding, TypeOK
  <2>2. TypeOK' /\ CounterCounts' /\ NoIdleSlot'
    BY <2>1, <1>1, <1>2, <1>3 DEF TypeOK, Holding, CounterCounts, NoIdleSlot
  <2>3. QueueMatches'
    BY <1>1, <1>2, <1>3 DEF QueueMatches, TypeOK
  <2>4. QED BY <1>0, <2>2, <2>3
<1>4. CASE /\ ~aborted[w] /\ active < Limit
           /\ pc' = [pc EXCEPT ![w] = "granted"]
           /\ active' = active + 1
           /\ UNCHANGED queue
  <2>1. Holders' = Holders \cup {w} /\ w \notin Holders
    BY <1>1, <1>2, <1>4 DEF Holders, Holding, TypeOK
  <2>2. Cardinality(Holders') = Cardinality(Holders) + 1
    BY <2>1, HoldersFinite, FS_AddElement
  <2>3. TypeOK' /\ CounterCounts'
    BY <2>2, <1>1, <1>2, <1>4, LimitAssumption DEF TypeOK, Holding, CounterCounts
  <2>4. NoIdleSlot'
    BY <1>1, <1>4, LimitAssumption DEF NoIdleSlot, TypeOK
  <2>5. QueueMatches'
    BY <1>1, <1>2, <1>4 DEF QueueMatches, TypeOK
  <2>6. QED BY <1>0, <2>3, <2>4, <2>5
<1>5. CASE /\ ~aborted[w] /\ active >= Limit
           /\ pc' = [pc EXCEPT ![w] = "queued"]
           /\ queue' = Append(queue, w)
           /\ UNCHANGED active
  <2>1. Holders' = Holders
    BY <1>1, <1>2, <1>5 DEF Holders, Holding, TypeOK
  <2>2. TypeOK' /\ CounterCounts' /\ NoIdleSlot'
    BY <2>1, <1>1, <1>2, <1>5, LimitAssumption DEF TypeOK, Holding, CounterCounts, NoIdleSlot
  <2>3. /\ DOMAIN queue' = 1..Len(queue) + 1
        /\ \A i \in 1..Len(queue) : queue'[i] = queue[i]
        /\ queue'[Len(queue) + 1] = w
    BY <1>5, <1>1, QueueFacts DEF TypeOK
  <2>4. IsInjective(queue)'
    BY <2>3, <1>1, <1>2, QueueFacts DEF IsInjective
  <2>5. ToSet(queue)' = ToSet(queue) \cup {w}
    BY <2>3, <1>1, QueueFacts DEF ToSet
  <2>6. {v \in Ops : pc[v] = "queued"}' = {v \in Ops : pc[v] = "queued"} \cup {w}
    BY <1>1, <1>5 DEF TypeOK
  <2>7. QueueMatches'
    BY <2>4, <2>5, <2>6, <1>1 DEF QueueMatches
  <2>8. QED BY <1>0, <2>2, <2>7
<1>6. QED BY <1>0, <1>3, <1>4, <1>5 DEF Acquire

(* Starting the operation leaves its slot with it.                         *)
LEMMA BeginInv == ASSUME IInv, NEW w \in Ops, Begin(w) PROVE IInv'
<1> USE DEF IInv, Begin
<1>1. Holders' = Holders
  BY DEF Holders, Holding, TypeOK
<1>2. TypeOK' /\ CounterCounts' /\ NoIdleSlot'
  BY <1>1 DEF TypeOK, Holding, CounterCounts, NoIdleSlot
<1>3. QueueMatches'
  BY DEF QueueMatches, TypeOK
<1>4. DoneReleased'
  BY DEF DoneReleased, TypeOK
<1>5. QED BY <1>2, <1>3, <1>4

(* Raising the abort flag changes nothing the gate keeps.                  *)
LEMMA AbortInv == ASSUME IInv, NEW w \in Ops, Abort(w) PROVE IInv'
<1>1. Holders' = Holders
  BY DEF Holders, Abort
<1>2. QED BY <1>1 DEF IInv, Abort, TypeOK, CounterCounts, NoIdleSlot, QueueMatches, DoneReleased,
              ToSet, IsInjective

(* The listener takes exactly its own waiter off the queue.                *)
LEMMA OnAbortInv == ASSUME IInv, NEW w \in Ops, OnAbort(w) PROVE IInv'
<1> USE DEF IInv
<1>1. PICK i \in DOMAIN queue : queue[i] = w /\ queue' = RemoveAt(queue, i)
  BY DEF OnAbort
<1>2. pc' = [pc EXCEPT ![w] = "rejected"] /\ pc[w] = "queued" /\ UNCHANGED <<active, aborted, released>>
  BY DEF OnAbort
<1>3. Holders' = Holders
  BY <1>2 DEF Holders, Holding, TypeOK
<1>4. /\ i \in 1..Len(queue)
      /\ Len(queue') = Len(queue) - 1
      /\ queue' \in Seq(Ops)
      /\ \A j \in 1..Len(queue) - 1 : queue'[j] = IF j < i THEN queue[j] ELSE queue[j + 1]
  <2> DEFINE front == SubSeq(queue, 1, i - 1)
             back  == SubSeq(queue, i + 1, Len(queue))
  <2>1. i \in 1..Len(queue) /\ Len(queue) \in Nat /\ queue \in Seq(Ops)
    BY QueueFacts DEF TypeOK
  <2>2. /\ front \in Seq(Ops) /\ Len(front) = i - 1
        /\ \A j \in 1..i - 1 : front[j] = queue[j]
    BY <2>1
  <2>3. /\ back \in Seq(Ops) /\ Len(back) = Len(queue) - i
        /\ \A j \in 1..Len(queue) - i : back[j] = queue[i + j]
    BY <2>1
  <2>4. queue' = front \o back
    BY <1>1 DEF RemoveAt
  <2> HIDE DEF front, back
  <2>5. /\ queue' \in Seq(Ops) /\ Len(queue') = Len(front) + Len(back)
        /\ \A j \in 1..Len(front) + Len(back) :
             queue'[j] = IF j <= Len(front) THEN front[j] ELSE back[j - Len(front)]
    BY <2>2, <2>3, <2>4
  <2> DEFINE n == Len(queue)
             m == i - 1
  <2>6. /\ n \in Nat /\ m \in 0..n - 1 /\ Len(front) = m /\ Len(back) = n - i /\ i = m + 1
        /\ Len(front) + Len(back) = n - 1
    BY <2>1, <2>2, <2>3
  <2>7. ASSUME NEW j \in 1..Len(queue) - 1
        PROVE  queue'[j] = IF j < i THEN queue[j] ELSE queue[j + 1]
    <3>1. CASE j < i
      <4>1. j \in 1..n - 1 /\ j <= m /\ j \in 1..m
        BY <3>1, <2>6
      <4>2. queue'[j] = front[j]
        BY <4>1, <2>5, <2>6
      <4>3. front[j] = queue[j]
        BY <4>1, <2>2
      <4>4. QED BY <4>2, <4>3, <3>1
    <3>2. CASE ~(j < i)
      <4>1. j \in 1..n - 1 /\ ~(j <= m) /\ j - m \in 1..n - i /\ i + (j - m) = j + 1
        <5>1. j \in 1..n - 1 /\ n \in Nat /\ m \in 0..n - 1 /\ i = m + 1 /\ ~(j < i)
          BY <3>2, <2>6
        <5> HIDE DEF n, m
        <5> QED BY ONLY <5>1
      <4>0. j \in 1..Len(front) + Len(back) /\ ~(j <= Len(front)) /\ j - Len(front) = j - m
        BY <4>1, <2>6
      <4>2. queue'[j] = back[j - m]
        BY <4>0, <2>5
      <4>3. back[j - m] = queue[i + (j - m)]
        BY <4>1, <2>3
      <4>4. QED BY <4>1, <4>2, <4>3, <3>2
    <3>3. QED BY <3>1, <3>2
  <2>8. QED BY <2>1, <2>2, <2>3, <2>5, <2>7
<1>5. TypeOK' /\ CounterCounts'
  BY <1>2, <1>3, <1>4 DEF TypeOK, Holding, CounterCounts
<1>6. NoIdleSlot'
  <2>1. queue # <<>>
    BY <1>4, QueueFacts
  <2>2. QED BY <2>1, <1>2 DEF NoIdleSlot
<1>7. IsInjective(queue)'
  BY <1>4, QueueFacts DEF IsInjective
<1>8. ToSet(queue)' = ToSet(queue) \ {w}
  <2>1. ToSet(queue)' \subseteq ToSet(queue) \ {w}
    <3>1. ASSUME NEW j \in DOMAIN queue' PROVE queue'[j] \in ToSet(queue) \ {w}
      <4>1. j \in 1..Len(queue) - 1
        BY <1>4
      <4>2. CASE j < i
        <5>1. j \in 1..Len(queue) /\ j # i /\ queue'[j] = queue[j]
          BY <4>1, <4>2, <1>4, QueueFacts
        <5>2. QED BY <5>1, <1>1, <1>4, QueueFacts DEF ToSet
      <4>3. CASE ~(j < i)
        <5>1. j + 1 \in 1..Len(queue) /\ j + 1 # i /\ queue'[j] = queue[j + 1]
          BY <4>1, <4>3, <1>4, QueueFacts
        <5>2. QED BY <5>1, <1>1, <1>4, QueueFacts DEF ToSet
      <4>4. QED BY <4>2, <4>3
    <3>2. QED BY <3>1 DEF ToSet
  <2>2. ASSUME NEW j \in 1..Len(queue), queue[j] # w PROVE queue[j] \in ToSet(queue)'
    <3>1. CASE j < i
      <4>1. j \in DOMAIN queue' /\ queue'[j] = queue[j]
        BY <3>1, <1>4, QueueFacts
      <4>2. QED BY <4>1 DEF ToSet
    <3>2. CASE ~(j < i)
      <4>1. j - 1 \in DOMAIN queue' /\ queue'[j - 1] = queue[j]
        BY <3>2, <2>2, <1>1, <1>4, QueueFacts
      <4>2. QED BY <4>1 DEF ToSet
    <3>3. QED BY <3>1, <3>2
  <2>3. QED BY <2>1, <2>2, QueueFacts DEF ToSet
<1>9. {v \in Ops : pc[v] = "queued"}' = {v \in Ops : pc[v] = "queued"} \ {w}
  BY <1>2 DEF TypeOK
<1>10. DoneReleased'
  BY <1>2 DEF DoneReleased, TypeOK
<1>11. QED BY <1>5, <1>6, <1>7, <1>8, <1>9, <1>10 DEF QueueMatches

(* Who holds a slot after the first release of a running operation: the    *)
(* waiters the pump found alive take the place of the releaser.            *)
LEMMA ReleaseMoves ==
  ASSUME IInv, NEW w \in Ops, pc[w] = "running", Pump(w, Limit - (active - 1))
  PROVE  /\ w \in Holders /\ active > 0
         /\ \E k \in 0..Len(queue) :
              /\ Pumps(k, Limit - (active - 1))
              /\ queue' = SubSeq(queue, k + 1, Len(queue))
              /\ active' = Limit - (Limit - (active - 1)) + Cardinality(Live(k))
              /\ pc' = [v \in Ops |->
                          IF v = w THEN "done"
                          ELSE IF v \in Live(k) THEN "granted"
                          ELSE IF \E i \in 1..k : queue[i] = v THEN "rejected"
                          ELSE pc[v]]
              /\ Live(k) \subseteq Ops
              /\ IsFiniteSet(Live(k))
              /\ Cardinality(Live(k)) \in Nat
              /\ Cardinality(Live(k)) <= Limit - (active - 1)
              /\ k < Len(queue) => Cardinality(Live(k)) = Limit - (active - 1)
              /\ \A v \in Live(k) : pc[v] = "queued" /\ \E i \in 1..k : queue[i] = v
              /\ Holders' = (Holders \ {w}) \cup Live(k)
<1> USE DEF IInv
<1> DEFINE free == Limit - (active - 1)
<1>1. active \in Nat /\ active = Cardinality(Holders) /\ active <= Limit /\ w \in Holders
  BY DEF TypeOK, CounterCounts, Holders, Holding
<1>2. active > 0
  <2>1. Holders # {}
    BY <1>1
  <2>2. QED BY <2>1, <1>1, HoldersFinite, FS_EmptySet
<1>3. free \in Nat \ {0}
  BY <1>1, <1>2, LimitAssumption
<1>4. PICK k \in 0..Len(queue) :
        /\ Pumps(k, free)
        /\ queue' = SubSeq(queue, k + 1, Len(queue))
        /\ active' = Limit - free + Cardinality(Live(k))
        /\ pc' = [v \in Ops |->
                    IF v = w THEN "done"
                    ELSE IF v \in Live(k) THEN "granted"
                    ELSE IF \E i \in 1..k : queue[i] = v THEN "rejected"
                    ELSE pc[v]]
  BY DEF Pump
<1>5. /\ Live(k) \subseteq Ops
      /\ IsFiniteSet(Live(k))
      /\ Cardinality(Live(k)) \in Nat
      /\ Cardinality(Live(k)) <= free
      /\ k < Len(queue) => Cardinality(Live(k)) = free
  BY <1>3, <1>4, PumpBound
<1>6. \A v \in Live(k) : pc[v] = "queued" /\ \E i \in 1..k : queue[i] = v
  BY <1>4, QueueFacts DEF Live
<1>7. Holders' = (Holders \ {w}) \cup Live(k)
  <2>1. ASSUME NEW v \in Ops PROVE v \in Holders' <=> v \in (Holders \ {w}) \cup Live(k)
    <3>1. CASE v = w
      BY <3>1, <1>4, <1>6 DEF Holders, Holding
    <3>2. CASE v # w /\ v \in Live(k)
      BY <3>2, <1>4 DEF Holders, Holding
    <3>3. CASE v # w /\ v \notin Live(k) /\ \E i \in 1..k : queue[i] = v
      BY <3>3, <1>4, QueueFacts DEF Holders, Holding
    <3>4. CASE v # w /\ v \notin Live(k) /\ ~ \E i \in 1..k : queue[i] = v
      BY <3>4, <1>4 DEF Holders, Holding
    <3>5. QED BY <3>1, <3>2, <3>3, <3>4
  <2>2. QED BY <2>1, <1>5 DEF Holders
<1> QED BY <1>1, <1>2, <1>4, <1>5, <1>6, <1>7

(* A release hands its slot, and any other free one, to the oldest live    *)
(* waiters.                                                                *)
LEMMA ReleaseInv ==
  ASSUME IInv, NEW w \in Ops, pc[w] = "running", ~released[w],
         released' = [released EXCEPT ![w] = TRUE],
         Pump(w, Limit - (active - 1)), UNCHANGED aborted
  PROVE  IInv'
<1> USE DEF IInv
<1> DEFINE free == Limit - (active - 1)
<1>1. active \in Nat /\ active = Cardinality(Holders) /\ active <= Limit /\ w \in Holders
  BY ReleaseMoves DEF TypeOK, CounterCounts
<1>2. active > 0
  BY ReleaseMoves
<1>3. free \in Nat \ {0}
  BY <1>1, <1>2, LimitAssumption
<1>4. PICK k \in 0..Len(queue) :
        /\ Pumps(k, free)
        /\ queue' = SubSeq(queue, k + 1, Len(queue))
        /\ active' = Limit - free + Cardinality(Live(k))
        /\ pc' = [v \in Ops |->
                    IF v = w THEN "done"
                    ELSE IF v \in Live(k) THEN "granted"
                    ELSE IF \E i \in 1..k : queue[i] = v THEN "rejected"
                    ELSE pc[v]]
        /\ Live(k) \subseteq Ops
        /\ IsFiniteSet(Live(k))
        /\ Cardinality(Live(k)) \in Nat
        /\ Cardinality(Live(k)) <= free
        /\ k < Len(queue) => Cardinality(Live(k)) = free
        /\ \A v \in Live(k) : pc[v] = "queued" /\ \E i \in 1..k : queue[i] = v
        /\ Holders' = (Holders \ {w}) \cup Live(k)
  BY ReleaseMoves
<1>5. /\ Live(k) \subseteq Ops
      /\ IsFiniteSet(Live(k))
      /\ Cardinality(Live(k)) \in Nat
      /\ Cardinality(Live(k)) <= free
      /\ k < Len(queue) => Cardinality(Live(k)) = free
  BY <1>4
<1>6. \A v \in Live(k) : pc[v] = "queued" /\ \E i \in 1..k : queue[i] = v
  BY <1>4
<1>7. Holders' = (Holders \ {w}) \cup Live(k)
  BY <1>4
<1>8. Cardinality(Holders') = active - 1 + Cardinality(Live(k))
  <2>1. IsFiniteSet(Holders \ {w}) /\ Cardinality(Holders \ {w}) = active - 1
    BY <1>1, HoldersFinite, FS_RemoveElement
  <2>2. (Holders \ {w}) \cap Live(k) = {}
    BY <1>6 DEF Holders, Holding
  <2>3. Cardinality((Holders \ {w}) \cap Live(k)) = 0
    BY <2>2, FS_EmptySet
  <2>4. Cardinality((Holders \ {w}) \cup Live(k)) = active - 1 + Cardinality(Live(k)) - 0
    BY <2>1, <2>3, <1>5, FS_Union
  <2>5. QED BY <2>4, <1>1, <1>5, <1>7
<1>9. CounterCounts' /\ active' \in Nat
  <2>1. Limit - free = active - 1 /\ active - 1 \in Nat
    BY <1>1, <1>2, LimitAssumption
  <2>2. active' = active - 1 + Cardinality(Live(k))
    BY <1>4, <2>1
  <2>3. active' \in Nat /\ active' <= Limit
    BY <1>1, <1>5, <2>1, <2>2, LimitAssumption
  <2> QED BY <1>8, <2>2, <2>3 DEF CounterCounts
<1>10. /\ queue' \in Seq(Ops)
       /\ Len(queue') = Len(queue) - k
       /\ DOMAIN queue' = 1..Len(queue) - k
       /\ \A i \in 1..Len(queue) - k : queue'[i] = queue[i + k]
  BY <1>4, QueueFacts DEF TypeOK
<1>11. TypeOK'
  BY <1>4, <1>9, <1>10 DEF TypeOK, Holding
<1>12. NoIdleSlot'
  <2>1. ASSUME queue' # <<>> PROVE k < Len(queue)
    <3>1. Len(queue') # 0
      BY <2>1, <1>10
    <3>2. Len(queue) \in Nat
      BY QueueFacts
    <3>3. QED BY <3>1, <3>2, <1>10
  <2>2. QED BY <2>1, <1>1, <1>3, <1>4, <1>5, LimitAssumption DEF NoIdleSlot
<1>13. IsInjective(queue)'
  <2>1. ASSUME NEW i \in 1..Len(queue) - k, NEW j \in 1..Len(queue) - k, queue'[i] = queue'[j]
        PROVE  i = j
    <3>1. i + k \in 1..Len(queue) /\ j + k \in 1..Len(queue)
      BY <1>4, QueueFacts
    <3>2. queue[i + k] = queue[j + k]
      BY <2>1, <1>10
    <3>3. i + k = j + k
      BY <3>1, <3>2, QueueFacts
    <3>4. QED BY <3>3, <1>4
  <2>2. QED BY <2>1, <1>10 DEF IsInjective
<1>14. ASSUME NEW v \in Ops PROVE v \in ToSet(queue)' <=> pc'[v] = "queued"
  <2>1. v \in ToSet(queue)' <=> \E i \in k + 1..Len(queue) : queue[i] = v
    <3>1. ASSUME NEW i \in k + 1..Len(queue) PROVE i - k \in 1..Len(queue) - k /\ queue'[i - k] = queue[i]
      <4>1. i - k \in 1..Len(queue) - k /\ (i - k) + k = i
        BY <1>4, QueueFacts
      <4>2. queue'[i - k] = queue[(i - k) + k]
        BY <4>1, <1>10
      <4>3. QED BY <4>1, <4>2
    <3>2. ASSUME NEW i \in 1..Len(queue) - k PROVE i + k \in k + 1..Len(queue) /\ queue'[i] = queue[i + k]
      <4>1. i + k \in k + 1..Len(queue)
        BY <1>4, QueueFacts
      <4>2. queue'[i] = queue[i + k]
        BY <1>10
      <4>3. QED BY <4>1, <4>2
    <3>3. v \in ToSet(queue)' <=> \E i \in 1..Len(queue) - k : queue'[i] = v
      BY <1>10 DEF ToSet
    <3>4. ASSUME NEW i \in k + 1..Len(queue), queue[i] = v PROVE v \in ToSet(queue)'
      BY <3>1, <3>3, <3>4
    <3>5. ASSUME NEW i \in 1..Len(queue) - k, queue'[i] = v
          PROVE  \E j \in k + 1..Len(queue) : queue[j] = v
      BY <3>2, <3>5
    <3>6. QED BY <3>3, <3>4, <3>5
  <2>2. CASE v = w
    <3>1. \A i \in 1..Len(queue) : queue[i] # w
      BY QueueFacts
    <3>2. QED BY <2>1, <2>2, <3>1, <1>4, QueueFacts
  <2>3. CASE v # w /\ \E i \in 1..k : queue[i] = v
    <3>1. ASSUME NEW j \in k + 1..Len(queue), queue[j] = v PROVE FALSE
      <4>1. PICK i \in 1..k : queue[i] = v
        BY <2>3
      <4>2. i \in 1..Len(queue) /\ j \in 1..Len(queue) /\ i # j
        BY <1>4, QueueFacts
      <4>3. QED BY <4>1, <4>2, <3>1, QueueFacts
    <3>2. pc'[v] # "queued"
      BY <2>3, <1>4
    <3>3. QED BY <2>1, <3>1, <3>2
  <2>4. CASE v # w /\ ~ \E i \in 1..k : queue[i] = v
    <3>1. pc'[v] = pc[v]
      BY <2>4, <1>4, <1>6
    <3>2. pc[v] = "queued" <=> \E i \in k + 1..Len(queue) : queue[i] = v
      BY <2>4, <1>4, QueueFacts
    <3>3. QED BY <2>1, <3>1, <3>2
  <2>5. QED BY <2>2, <2>3, <2>4
<1>15. ToSet(queue)' \subseteq Ops
  BY <1>10 DEF ToSet
<1>16. QueueMatches'
  BY <1>13, <1>14, <1>15 DEF QueueMatches
<1>17. DoneReleased'
  BY <1>4, <1>6 DEF DoneReleased, TypeOK
<1>18. QED BY <1>9, <1>11, <1>12, <1>16, <1>17

(* Every step of the gate keeps the invariant.                             *)
LEMMA StepInv == ASSUME IInv, [Next]_vars PROVE IInv'
<1>1. CASE UNCHANGED vars
  BY <1>1 DEF vars, IInv, TypeOK, CounterCounts, NoIdleSlot, QueueMatches, DoneReleased,
              Holders, ToSet, IsInjective
<1>2. ASSUME NEW w \in Ops, Release(w) PROVE IInv'
  <2>1. CASE released[w]
    BY <2>1, <1>1, <1>2 DEF Release
  <2>2. CASE ~released[w] /\ pc[w] = "running"
    BY <2>2, <1>2, ReleaseInv DEF Release
  <2>3. QED BY <2>1, <2>2, <1>2 DEF Release, IInv, DoneReleased
<1>3. QED BY <1>1, <1>2, AcquireInv, BeginInv, AbortInv, OnAbortInv DEF Next

(* The inductive invariant holds in every reachable state.                 *)
THEOREM InvariantHolds == Spec => []IInv
BY InitInv, StepInv, PTL DEF Spec

(* The gate's counter equals the number of operations that hold a slot and *)
(* never passes the limit, for every limit and any number of operations.   *)
THEOREM GateCounts == Spec => []CounterCounts
<1>1. IInv => CounterCounts
  BY DEF IInv
<1>2. QED BY <1>1, InvariantHolds, PTL

(* No wake-up is lost: a waiter is in the queue only while all slots are   *)
(* in use.                                                                 *)
THEOREM NoSlotIdles == Spec => []NoIdleSlot
<1>1. IInv => NoIdleSlot
  BY DEF IInv
<1>2. QED BY <1>1, InvariantHolds, PTL

(* The queue holds exactly the waiting operations, each once.              *)
THEOREM QueueIsWaiting == Spec => [](TypeOK /\ QueueMatches)
<1>1. IInv => TypeOK /\ QueueMatches
  BY DEF IInv
<1>2. QED BY <1>1, InvariantHolds, PTL

(* An aborted waiter is never granted a slot: the pump looks at the signal *)
(* again when it takes a waiter off the queue.                             *)
THEOREM AbortRespected == Spec => AbortedNotGranted
<1>1. ASSUME TypeOK, QueueMatches, [Next]_vars
      PROVE  [\A w \in Ops : aborted[w] /\ pc'[w] = "granted" => pc[w] = "granted"]_vars
  <2> SUFFICES ASSUME NEW v \in Ops, aborted[v], pc'[v] = "granted"
               PROVE  pc[v] = "granted" \/ UNCHANGED vars
    OBVIOUS
  <2>1. ASSUME NEW w \in Ops, Acquire(w) PROVE pc[v] = "granted"
    BY <1>1, <2>1 DEF Acquire, TypeOK
  <2>2. ASSUME NEW w \in Ops, Begin(w) \/ Abort(w) \/ OnAbort(w) PROVE pc[v] = "granted"
    BY <1>1, <2>2 DEF Begin, Abort, OnAbort, TypeOK
  <2>3. ASSUME NEW w \in Ops, Pump(w, Limit - (active - 1)) PROVE pc[v] = "granted"
    <3>1. PICK k \in 0..Len(queue) :
             pc' = [u \in Ops |->
                      IF u = w THEN "done"
                      ELSE IF u \in Live(k) THEN "granted"
                      ELSE IF \E i \in 1..k : queue[i] = u THEN "rejected"
                      ELSE pc[u]]
      BY <2>3 DEF Pump
    <3>2. v \notin Live(k)
      BY DEF Live
    <3>3. QED BY <3>1, <3>2
  <2>4. ASSUME NEW w \in Ops, Release(w) PROVE pc[v] = "granted" \/ UNCHANGED vars
    BY <2>3, <2>4 DEF Release
  <2>5. QED BY <1>1, <2>1, <2>2, <2>4 DEF Next
<1>2. IInv => TypeOK /\ QueueMatches
  BY DEF IInv
<1>3. QED BY <1>1, <1>2, InvariantHolds, PTL DEF Spec, AbortedNotGranted
-----------------------------------------------------------------------------
(* The gate implements AdmissionGate.                                      *)

(* The operations whose signal reads as aborted, and the line as the       *)
(* abstract gate sees it.                                                  *)
Aborted == {w \in Ops : aborted[w]}

Line == Omit(queue, Aborted)

(* The operators AdmissionGate takes from the libraries are the usual ones.*)
LEMMA GateOperators ==
  /\ \A s, drop : Gate!Omit(s, drop) = Omit(s, drop)
  /\ \A s : Gate!ToSet(s) = ToSet(s)
  /\ \A S : Gate!Cardinality(S) = Cardinality(S)
BY DEF Gate!Omit, Omit, Gate!KeptUpTo, KeptUpTo, Gate!ToSet, ToSet, Gate!Cardinality, Cardinality

(* The line is made of the live waiters, each once.                        *)
LEMMA LineFacts ==
  ASSUME TypeOK, QueueMatches
  PROVE  /\ Line \in Seq(Ops)
         /\ ToSet(Line) = {w \in Ops : pc[w] = "queued" /\ ~aborted[w]}
<1>1. queue \in Seq(Ops) /\ ToSet(queue) = {w \in Ops : pc[w] = "queued"}
  BY DEF TypeOK, QueueMatches
<1>2. Omit(queue, Aborted) \in Seq(Ops) /\ ToSet(Omit(queue, Aborted)) = ToSet(queue) \ Aborted
  BY <1>1, OmitKeeps
<1>3. QED BY <1>1, <1>2 DEF Line, Aborted

(* The actions of the abstract gate, in the words of the detailed one.     *)
LEMMA GateActions ==
  ASSUME NEW w \in Ops
  PROVE  /\ Gate!Arrive(w) <=>
              /\ w \notin Holders /\ w \notin ToSet(Line)
              /\ IF Cardinality(Holders) < Limit
                 THEN Holders' = Holders \cup {w} /\ UNCHANGED Line
                 ELSE Line' = Append(Line, w) /\ UNCHANGED Holders
         /\ Gate!GiveUp(w) <=>
              w \in ToSet(Line) /\ Line' = Omit(Line, {w}) /\ UNCHANGED Holders
         /\ Gate!Leave(w) <=>
              /\ w \in Holders
              /\ IF Line = <<>>
                 THEN Holders' = Holders \ {w} /\ UNCHANGED Line
                 ELSE Holders' = (Holders \ {w}) \cup {Head(Line)} /\ Line' = Tail(Line)
BY GateOperators DEF Gate!Arrive, Gate!GiveUp, Gate!Leave, Line, Aborted

(* An operation that arrives goes in when there is room and otherwise to   *)
(* the end of the line; one that was aborted before goes away.             *)
LEMMA AcquireImplements ==
  ASSUME IInv, NEW w \in Ops, Acquire(w)
  PROVE  Gate!Arrive(w) \/ UNCHANGED <<Holders, Line>>
<1>1. TypeOK /\ QueueMatches /\ CounterCounts
  BY DEF IInv
<1>2. pc[w] = "idle" /\ UNCHANGED <<aborted, released>>
  BY DEF Acquire
<1>3. Aborted' = Aborted
  BY <1>2 DEF Aborted
<1>4. w \notin Holders /\ w \notin ToSet(Line)
  BY <1>1, <1>2, LineFacts DEF Holders, Holding
<1>5. CASE aborted[w] /\ pc' = [pc EXCEPT ![w] = "rejected"] /\ UNCHANGED <<active, queue>>
  <2>1. Holders' = Holders
    BY <1>1, <1>2, <1>5 DEF Holders, Holding, TypeOK
  <2>2. Line' = Line
    BY <1>3, <1>5 DEF Line
  <2>3. QED BY <2>1, <2>2
<1>6. CASE /\ ~aborted[w] /\ active < Limit
           /\ pc' = [pc EXCEPT ![w] = "granted"]
           /\ active' = active + 1
           /\ UNCHANGED queue
  <2>1. Holders' = Holders \cup {w}
    BY <1>1, <1>2, <1>6 DEF Holders, Holding, TypeOK
  <2>2. Line' = Line
    BY <1>3, <1>6 DEF Line
  <2>3. Cardinality(Holders) < Limit
    BY <1>1, <1>6 DEF CounterCounts
  <2>4. QED BY <1>4, <2>1, <2>2, <2>3, GateActions
<1>7. CASE /\ ~aborted[w] /\ active >= Limit
           /\ pc' = [pc EXCEPT ![w] = "queued"]
           /\ queue' = Append(queue, w)
           /\ UNCHANGED active
  <2>1. Holders' = Holders
    BY <1>1, <1>2, <1>7 DEF Holders, Holding, TypeOK
  <2>2. ~(Cardinality(Holders) < Limit)
    <3>1. active = Cardinality(Holders) /\ active \in Nat /\ Limit \in Nat
      BY <1>1, LimitAssumption DEF CounterCounts, TypeOK
    <3>2. QED BY <3>1, <1>7
  <2>3. Line' = Append(Line, w)
    <3>1. w \notin Aborted /\ queue \in Seq(Ops)
      BY <1>1, <1>7 DEF Aborted, TypeOK
    <3>2. Omit(Append(queue, w), Aborted) = Append(Omit(queue, Aborted), w)
      BY <3>1, OmitAppend
    <3>3. QED BY <3>2, <1>3, <1>7 DEF Line
  <2>4. QED BY <1>4, <2>1, <2>2, <2>3, GateActions
<1>8. QED BY <1>5, <1>6, <1>7 DEF Acquire

(* A continuation that starts to run changes nothing the abstract gate     *)
(* sees.                                                                   *)
LEMMA BeginImplements ==
  ASSUME IInv, NEW w \in Ops, Begin(w)
  PROVE  UNCHANGED <<Holders, Line>>
<1>1. Holders' = Holders
  BY DEF IInv, Begin, Holders, Holding, TypeOK
<1>2. Line' = Line
  BY DEF Begin, Line, Aborted
<1>3. QED BY <1>1, <1>2

(* A signal that is raised takes its waiter out of the line, where it      *)
(* still is in the queue.                                                  *)
LEMMA AbortImplements ==
  ASSUME IInv, NEW w \in Ops, Abort(w)
  PROVE  Gate!GiveUp(w) \/ UNCHANGED <<Holders, Line>>
<1>1. TypeOK /\ QueueMatches
  BY DEF IInv
<1>2. Holders' = Holders
  BY DEF Abort, Holders
<1>3. Aborted' = Aborted \cup {w}
  BY <1>1 DEF Abort, Aborted, TypeOK
<1>4. Line' = Omit(Line, {w})
  <2>1. queue \in Seq(Ops)
    BY <1>1 DEF TypeOK
  <2>2. Omit(Omit(queue, Aborted), {w}) = Omit(queue, Aborted \cup {w})
    BY <2>1, OmitTwice
  <2>3. queue' = queue
    BY DEF Abort
  <2>4. QED BY <2>2, <2>3, <1>3 DEF Line
<1>5. CASE w \in ToSet(Line)
  BY <1>2, <1>4, <1>5, GateActions
<1>6. CASE w \notin ToSet(Line)
  <2>1. Line \in Seq(Ops) /\ ToSet(Line) \cap {w} = {}
    BY <1>1, <1>6, LineFacts
  <2>2. Omit(Line, {w}) = Line
    BY <2>1, OmitNothing
  <2>3. QED BY <2>2, <1>2, <1>4
<1>7. QED BY <1>5, <1>6

(* The listener takes a waiter off the queue that had left the line.       *)
LEMMA OnAbortImplements ==
  ASSUME IInv, NEW w \in Ops, OnAbort(w)
  PROVE  UNCHANGED <<Holders, Line>>
<1>1. TypeOK
  BY DEF IInv
<1>2. Holders' = Holders
  BY <1>1 DEF OnAbort, Holders, Holding, TypeOK
<1>3. PICK i \in DOMAIN queue : queue[i] = w /\ queue' = RemoveAt(queue, i)
  BY DEF OnAbort
<1>4. queue \in Seq(Ops) /\ i \in 1..Len(queue) /\ queue[i] \in Aborted
  BY <1>1, <1>3 DEF TypeOK, OnAbort, Aborted
<1>5. Omit(RemoveAt(queue, i), Aborted) = Omit(queue, Aborted)
  BY <1>4, OmitRemoveAt
<1>6. Aborted' = Aborted
  BY DEF OnAbort, Aborted
<1>7. Line' = Line
  BY <1>3, <1>5, <1>6 DEF Line
<1>8. QED BY <1>2, <1>7

(* A release passes its slot to the oldest live waiter, and to no other.   *)
LEMMA ReleaseImplements ==
  ASSUME IInv, NEW w \in Ops, Release(w)
  PROVE  Gate!Leave(w) \/ UNCHANGED <<Holders, Line>>
<1>1. CASE released[w]
  <2>1. UNCHANGED vars
    BY <1>1 DEF Release
  <2>2. Holders' = Holders /\ Line' = Line
    BY <2>1 DEF vars, Holders, Line, Aborted
  <2>3. QED BY <2>2
<1>2. CASE ~released[w]
  <2>1. pc[w] = "running" /\ Pump(w, Limit - (active - 1)) /\ aborted' = aborted
    BY <1>2 DEF Release, IInv, DoneReleased
  <2> DEFINE free == Limit - (active - 1)
  <2>2. w \in Holders
    BY <2>1, ReleaseMoves
  <2>3. PICK k \in 0..Len(queue) :
          /\ queue' = SubSeq(queue, k + 1, Len(queue))
          /\ Live(k) \subseteq Ops
          /\ IsFiniteSet(Live(k))
          /\ Cardinality(Live(k)) \in Nat
          /\ Cardinality(Live(k)) <= free
          /\ k < Len(queue) => Cardinality(Live(k)) = free
          /\ Holders' = (Holders \ {w}) \cup Live(k)
    BY <2>1, ReleaseMoves
  <2> DEFINE taken == SubSeq(queue, 1, k)
             left  == SubSeq(queue, k + 1, Len(queue))
             live  == Omit(taken, Aborted)
  <2>4. queue \in Seq(Ops) /\ Len(queue) \in Nat /\ IsInjective(queue)
    BY DEF IInv, TypeOK, QueueMatches
  <2>5. /\ taken \in Seq(Ops) /\ Len(taken) = k /\ \A i \in 1..k : taken[i] = queue[i]
        /\ left \in Seq(Ops) /\ Len(left) = Len(queue) - k
        /\ queue = taken \o left
    <3>1. k \in 0..Len(queue) /\ queue \in Seq(Ops)
      BY <2>3, <2>4
    <3>2. queue = taken \o left /\ taken \in Seq(Ops) /\ left \in Seq(Ops)
      BY ONLY <3>1, SplitAt
    <3>3. Len(taken) = k /\ Len(left) = Len(queue) - k
      BY ONLY <3>1, SplitAt
    <3>4. \A i \in 1..k : taken[i] = queue[i]
      BY ONLY <3>1, SplitAt
    <3> QED BY ONLY <3>2, <3>3, <3>4
  <2>6. Aborted' = Aborted
    BY <2>1 DEF Aborted
  <2>7. Line = live \o Line' /\ Line' \in Seq(Ops)
    <3>1. Omit(taken \o left, Aborted) = Omit(taken, Aborted) \o Omit(left, Aborted)
          /\ Omit(left, Aborted) \in Seq(Ops)
      <4>1. taken \in Seq(Ops) /\ left \in Seq(Ops)
        BY <2>5
      <4> HIDE DEF taken, left, live
      <4>2. Omit(taken \o left, Aborted) = Omit(taken, Aborted) \o Omit(left, Aborted)
        BY <4>1, OmitConcat
      <4>3. Omit(left, Aborted) \in Seq(Ops)
        BY <4>1, OmitKeeps
      <4>4. QED BY <4>2, <4>3
    <3>2. Omit(queue, Aborted) = live \o Omit(left, Aborted)
      BY <3>1, <2>5
    <3>3. Line' = Omit(left, Aborted)
      BY <2>3, <2>6 DEF Line
    <3>4. QED BY <3>1, <3>2, <3>3 DEF Line
  <2>8. /\ live \in Seq(Ops) /\ ToSet(live) = Live(k)
        /\ Len(live) = Cardinality(Live(k))
    <3>1. IsInjective(taken)
      <4> HIDE DEF taken, left
      <4>1. DOMAIN taken = 1..k /\ 1..k \subseteq DOMAIN queue
        BY <2>4, <2>5
      <4>2. QED BY <4>1, <2>4, <2>5 DEF IsInjective
    <3>2. live \in Seq(Ops) /\ ToSet(live) = ToSet(taken) \ Aborted /\ IsInjective(live)
      <4> HIDE DEF taken, left
      <4>1. QED BY <3>1, <2>5, OmitKeeps, OmitInjective
    <3>3. ToSet(taken) = {queue[i] : i \in 1..k}
      <4> HIDE DEF taken, left
      <4>1. DOMAIN taken = 1..k
        BY <2>4, <2>5
      <4>2. QED BY <4>1, <2>5 DEF ToSet
    <3>4. \A i \in 1..k : queue[i] \in Aborted <=> aborted[queue[i]]
      <4>1. \A i \in 1..k : queue[i] \in Ops
        BY <2>4
      <4>2. QED BY <4>1 DEF Aborted
    <3>5. ToSet(live) = Live(k)
      BY <3>2, <3>3, <3>4 DEF Live
    <3>6. Len(live) = Cardinality(ToSet(live))
      <4> HIDE DEF live, taken
      <4>1. QED BY <3>2, InjectiveCount
    <3>7. QED BY <3>2, <3>5, <3>6
  <2>9. Cardinality(Live(k)) <= 1 /\ (k < Len(queue) => Cardinality(Live(k)) = 1)
    <3>1. active \in Nat /\ Limit \in Nat /\ (queue # <<>> => active = Limit)
      BY LimitAssumption DEF IInv, TypeOK, NoIdleSlot
    <3>2. CASE queue # <<>>
      <4>1. free = 1
        BY <3>1, <3>2
      <4>2. QED BY <4>1, <2>3
    <3>3. CASE queue = <<>>
      <4>1. k = 0 /\ Len(queue) = 0
        BY <3>3
      <4>2. Live(k) = {}
        BY <4>1 DEF Live
      <4>3. QED BY <4>1, <4>2, FS_EmptySet
    <3>4. QED BY <3>2, <3>3
  <2> HIDE DEF free, taken, live
  <2>10. CASE Len(live) = 0
    <3>1. live = <<>> /\ Live(k) = {}
      <4>1. live = <<>>
        BY <2>8, <2>10
      <4>2. QED BY <4>1, <2>8, ToSetEmpty
    <3>2. left = <<>>
      <4>1. ~(k < Len(queue))
        BY <2>8, <2>9, <2>10
      <4>2. Len(left) = 0
        BY <4>1, <2>4, <2>5
      <4> HIDE DEF left
      <4>3. QED BY <4>2, <2>5
    <3>3. Line' = <<>>
      BY <3>2, <2>3, OmitEmpty DEF Line
    <3>4. Line = <<>>
      BY <3>1, <3>3, <2>7
    <3>5. Holders' = Holders \ {w}
      BY <3>1, <2>3
    <3>6. QED BY <3>3, <3>4, <3>5, <2>2, GateActions
  <2>11. CASE Len(live) = 1
    <3>1. PICK v \in Ops : live = <<v>>
      <4>1. live[1] \in Ops /\ live = <<live[1]>>
        BY <2>8, <2>11
      <4>2. QED BY <4>1
    <3>2. Live(k) = {v}
      BY <3>1, <2>8 DEF ToSet
    <3>3. Line = <<v>> \o Line' /\ Line' \in Seq(Ops)
      BY <3>1, <2>7
    <3>4. Line # <<>> /\ Head(Line) = v /\ Tail(Line) = Line'
      <4> DEFINE rest == Line'
                 whole == <<v>> \o rest
      <4>1. rest \in Seq(Ops) /\ Line = whole
        BY <3>3
      <4> HIDE DEF rest
      <4>2. whole \in Seq(Ops) /\ Len(whole) = Len(rest) + 1 /\ whole[1] = v
            /\ \A i \in 1..Len(rest) : whole[i + 1] = rest[i]
        BY <4>1
      <4> HIDE DEF whole
      <4>3. whole # <<>> /\ Head(whole) = v
        BY <4>1, <4>2
      <4>4. Tail(whole) = rest
        <5>1. Tail(whole) \in Seq(Ops) /\ Len(Tail(whole)) = Len(rest)
              /\ \A i \in 1..Len(rest) : Tail(whole)[i] = whole[i + 1]
          BY <4>1, <4>2, <4>3
        <5> DEFINE t == Tail(whole)
        <5>2. t \in Seq(Ops) /\ Len(t) = Len(rest) /\ \A i \in 1..Len(rest) : t[i] = rest[i]
          BY <5>1, <4>2
        <5> HIDE DEF t
        <5>3. t = rest
          BY <5>2, <4>1
        <5>4. QED BY <5>3 DEF t
      <4>5. QED BY <4>1, <4>3, <4>4 DEF rest
    <3>5. Holders' = (Holders \ {w}) \cup {Head(Line)}
      BY <3>2, <3>4, <2>3
    <3>6. QED BY <3>4, <3>5, <2>2, GateActions
  <2>12. QED BY <2>8, <2>9, <2>10, <2>11
<1>3. QED BY <1>1, <1>2

(* The gate is a first-come-first-served semaphore: every step of the code *)
(* admits the oldest live waiter, lets one arrive, give up or leave as     *)
(* AdmissionGate says, or changes nothing it speaks of.                    *)
THEOREM ImplementsGateAlways == Spec => ImplementsGate
<1>1. Init => Gate!Init
  <2> SUFFICES ASSUME Init PROVE Gate!Init
    OBVIOUS
  <2>1. Holders = {}
    BY DEF Init, Holders, Holding
  <2>2. Line = <<>>
    BY OmitEmpty DEF Init, Line
  <2>3. QED BY <2>1, <2>2, GateOperators DEF Gate!Init, Line, Aborted
<1>2. IInv /\ [Next]_vars => [Gate!Next]_<<Holders, Line>>
  <2> SUFFICES ASSUME IInv, [Next]_vars PROVE Gate!Next \/ UNCHANGED <<Holders, Line>>
    OBVIOUS
  <2>1. CASE UNCHANGED vars
    BY <2>1 DEF vars, Holders, Line, Aborted
  <2>2. ASSUME NEW w \in Ops, Acquire(w) \/ Begin(w) \/ Abort(w) \/ OnAbort(w) \/ Release(w)
        PROVE  Gate!Arrive(w) \/ Gate!GiveUp(w) \/ Gate!Leave(w) \/ UNCHANGED <<Holders, Line>>
    BY <2>2, AcquireImplements, BeginImplements, AbortImplements, OnAbortImplements,
       ReleaseImplements
  <2>3. QED BY <2>1, <2>2 DEF Next, Gate!Next
<1>3. [Gate!Next]_<<Holders, Line>> => [Gate!Next]_<<Holders, Omit(queue, {w \in Ops : aborted[w]})>>
  BY DEF Line, Aborted
<1>4. QED BY <1>1, <1>2, <1>3, InvariantHolds, GateOperators, PTL DEF Spec, ImplementsGate, Gate!Spec
-----------------------------------------------------------------------------
(***************************************************************************)
(* A call of the adapter: its answer is whole and its work is bounded.     *)
(***************************************************************************)

(* The ordinals from l to h.                                               *)
Span(l, h) == [i \in 1..h - l + 1 |-> l + i - 1]
Lo(batch) == batch[1]
Hi(batch) == batch[Len(batch)]

Spans(n) == {Span(x[1], x[2]) : x \in {y \in (1..n) \X (1..n) : y[1] <= y[2]}}

(* What is said of a batch of request r on a route.                        *)
SaidOf(r, rt, batch) ==
  [i \in DOMAIN batch |-> [by |-> [rt EXCEPT !.mode = "use"], ordinal |-> batch[i],
                           of |-> Len(r.images), content |-> r.images[batch[i]]]]

Texts(r, rt) ==
  {SaidOf(r, rt, Span(x[1], x[2])) : x \in (1..Len(r.images)) \X (0..Len(r.images))}

Frames(r, rt) ==
  [batch : Spans(Len(r.images)), left : Seq(Spans(Len(r.images))), text : Texts(r, rt),
   retries : 0..MaxRetries]

(* Concatenation, by name: lemmas about it can be cited.                   *)
Followed(s, t) == s \o t

(* Every batch that was sent is done with, or holds this one.              *)
Clear(sent, batch) ==
  \A s \in DOMAIN sent : \/ Hi(s) < Lo(batch)
                         \/ Lo(s) <= Lo(batch) /\ Hi(batch) <= Hi(s)

Times(sent, batch) == IF batch \in DOMAIN sent THEN sent[batch] ELSE 0

(* The parts that are left make up the ordinals from m to hi.              *)
Covers(left, m, hi) ==
  \/ left = <<>> /\ m = hi + 1
  \/ left = <<Span(m, hi)>> /\ m <= hi
  \/ \E k \in m..hi - 1 : left = <<Span(m, k), Span(k + 1, hi)>>

(* A batch that was split: its text is about the ordinals before m, those  *)
(* up to h are being asked about, and the parts left are about the rest.   *)
SplitOK(r, rt, sent, f, m, h) ==
  \E lo, hi \in 1..Len(r.images) :
    /\ f.batch = Span(lo, hi) /\ lo <= m /\ m <= h + 1 /\ h <= hi /\ lo <= hi
    /\ f.text = SaidOf(r, rt, Span(lo, m - 1))
    /\ Covers(f.left, h + 1, hi)
    /\ \A i \in DOMAIN f.left : Clear(sent, f.left[i]) /\ f.left[i] \notin DOMAIN sent

(* A batch that is asked about as a whole.                                 *)
AskOK(sent, f) == f.left = <<>> /\ f.text = <<>> /\ Clear(sent, f.batch)

(* The stack of a call: every batch is being asked about for the one below *)
(* it, and the last is the whole request.                                  *)
StackOK(r, rt, sent, w) ==
  /\ w \in Seq(Frames(r, rt)) /\ w # <<>>
  /\ w[Len(w)].batch = Span(1, Len(r.images))
  /\ \A k \in 2..Len(w) :
       SplitOK(r, rt, sent, w[k], Lo(w[k - 1].batch), Hi(w[k - 1].batch))
  /\ \A j, k \in 1..Len(w) : j <= k => Hi(w[j].batch) <= Hi(w[k].batch)

SentOK(r, sent) ==
  sent = [s \in DOMAIN sent |-> sent[s]] /\ \A s \in DOMAIN sent :
    s \in Spans(Len(r.images)) /\ sent[s] \in 1..MaxRetries + 1

(* The models that were tried, and the providers that may be tried yet.    *)
TriedOK(r, rt, backup, tried) ==
  /\ tried \in Seq(Providers \X Nat) /\ IsInjective(tried)
  /\ \A t \in ToSet(tried) : t[1] = rt.provider => t[2] <= rt.model
  /\ backup \in [planned : BOOLEAN, left : Seq([provider : Providers, probe : BOOLEAN])]
  /\ \A i, j \in DOMAIN backup.left :
       backup.left[i].provider = backup.left[j].provider => i = j
  /\ \A t \in ToSet(tried), i \in DOMAIN backup.left : t[1] # backup.left[i].provider
  /\ ~backup.planned => backup.left = <<>> /\ \A t \in ToSet(tried) : t[1] = r.provider

Asks == {"asking", "admitted", "sent", "sleeping"}

Routes == [provider : Providers \cup {"none"}, model : Nat, config : Nat, credential : Nat,
           mode : {"use", "refresh", "no-store"}]

CallOK(c) ==
  /\ phase[c] \in {"idle", "resolving", "joining", "settled"} \cup Asks
  /\ route[c] \in Routes
  /\ wires[c] = [tried |-> wires[c].tried, sent |-> wires[c].sent]
  /\ SentOK(request[c], wires[c].sent)
  /\ TriedOK(request[c], route[c], backups[c], wires[c].tried)
  /\ phase[c] \in {"idle", "resolving"} => wires[c].sent = Unsent.sent
  /\ phase[c] = "idle" => wires[c].tried = <<>> /\ ~backups[c].planned
  /\ phase[c] \notin {"idle", "settled"} =>
       <<route[c].provider, route[c].model>> \in ToSet(wires[c].tried)
  /\ phase[c] = "resolving" => work[c] = <<Frame(All(c))>>
  /\ phase[c] \in Asks \cup {"joining"} =>
       StackOK(request[c], route[c], wires[c].sent, work[c])
  /\ phase[c] = "joining" =>
       \E m \in 1..Count(c) + 1 :
         SplitOK(request[c], route[c], wires[c].sent, work[c][1], m, m - 1)
  /\ phase[c] \in Asks =>
       /\ AskOK(wires[c].sent, work[c][1])
       /\ Times(wires[c].sent, work[c][1].batch) =
            work[c][1].retries + (IF phase[c] = "sent" THEN 1 ELSE 0)
  /\ phase[c] # "settled" => answer[c] = <<>>
  /\ answer[c] # <<>> => answer[c] = Said(c, All(c))

(* The text of an entry is what its key says.                              *)
TextOf(key) ==
  [i \in DOMAIN key.ordinals |-> [by |-> key.route, ordinal |-> key.ordinals[i],
                                  of |-> key.of, content |-> key.contents[i]]]

CacheOK ==
  /\ cache \in Seq(ToSet(cache))
  /\ \A e \in ToSet(cache) : e.text = TextOf(e.key)

(* The functions of the calls.                                             *)
CallTypes ==
  /\ request \in Workloads
  /\ config \in Nat /\ credential \in Nat
  /\ phase \in [Calls -> {"idle", "resolving", "joining", "settled"} \cup Asks]
  /\ route \in [Calls -> Routes]
  /\ backups = [c \in Calls |-> backups[c]]
  /\ work = [c \in Calls |-> work[c]]
  /\ answer = [c \in Calls |-> answer[c]]
  /\ wires = [c \in Calls |-> wires[c]]

CallIInv == CallTypes /\ CacheOK /\ \A c \in Calls : CallOK(c)

-----------------------------------------------------------------------------
(* Spans.                                                                  *)

(* What a run of ordinals is.                                              *)
LEMMA SpanFacts ==
  ASSUME NEW l \in Nat \ {0}, NEW h \in Nat, l <= h + 1
  PROVE  /\ Span(l, h) \in Seq(Nat) /\ Len(Span(l, h)) = h - l + 1
         /\ DOMAIN Span(l, h) = 1..h - l + 1
         /\ \A i \in 1..h - l + 1 : Span(l, h)[i] = l + i - 1
         /\ l <= h => Lo(Span(l, h)) = l /\ Hi(Span(l, h)) = h
<1>1. h - l + 1 \in Nat /\ \A i \in 1..h - l + 1 : l + i - 1 \in Nat
  OBVIOUS
<1>2. /\ Span(l, h) \in Seq(Nat) /\ Len(Span(l, h)) = h - l + 1
      /\ DOMAIN Span(l, h) = 1..h - l + 1
      /\ \A i \in 1..h - l + 1 : Span(l, h)[i] = l + i - 1
  BY <1>1 DEF Span
<1>3. ASSUME l <= h PROVE Lo(Span(l, h)) = l /\ Hi(Span(l, h)) = h
  <2>1. 1 \in 1..h - l + 1 /\ h - l + 1 \in 1..h - l + 1
        /\ l + 1 - 1 = l /\ l + (h - l + 1) - 1 = h
    BY <1>3
  <2>2. Lo(Span(l, h)) = l
    BY <1>2, <2>1 DEF Lo
  <2>3. Hi(Span(l, h)) = h
    BY <1>2, <2>1 DEF Hi
  <2> QED BY <2>2, <2>3
<1> QED BY <1>2, <1>3

(* A span is given by its ends.                                            *)
LEMMA SpansMember ==
  ASSUME NEW n \in Nat, NEW b \in Spans(n)
  PROVE  /\ Lo(b) \in 1..n /\ Hi(b) \in 1..n /\ Lo(b) <= Hi(b) /\ b = Span(Lo(b), Hi(b))
         /\ b \in Seq(Nat) /\ Len(b) = Hi(b) - Lo(b) + 1
<1>1. PICK x \in (1..n) \X (1..n) : x[1] <= x[2] /\ b = Span(x[1], x[2])
  BY DEF Spans
<1> DEFINE l == x[1]
           h == x[2]
<1>2. l \in 1..n /\ h \in 1..n /\ l <= h /\ b = Span(l, h)
  BY <1>1
<1> HIDE DEF l, h
<1>3. l \in Nat \ {0} /\ h \in Nat /\ l <= h + 1
  BY <1>2
<1>4. /\ Span(l, h) \in Seq(Nat) /\ Len(Span(l, h)) = h - l + 1
      /\ Lo(Span(l, h)) = l /\ Hi(Span(l, h)) = h
  BY <1>2, <1>3, SpanFacts
<1> QED BY ONLY <1>2, <1>4

(* A run within the request is a batch.                                    *)
LEMMA SpansHas ==
  ASSUME NEW n \in Nat, NEW l \in 1..n, NEW h \in 1..n, l <= h
  PROVE  Span(l, h) \in Spans(n)
<1>1. <<l, h>> \in {y \in (1..n) \X (1..n) : y[1] <= y[2]}
  OBVIOUS
<1>2. <<l, h>>[1] = l /\ <<l, h>>[2] = h
  OBVIOUS
<1> QED BY <1>1, <1>2 DEF Spans

(* The halves of a span are spans.                                         *)
LEMMA SpanCut ==
  ASSUME NEW l \in Nat \ {0}, NEW h \in Nat, NEW k \in Nat, l <= k, k < h
  PROVE  /\ SubSeq(Span(l, h), 1, k - l + 1) = Span(l, k)
         /\ SubSeq(Span(l, h), k - l + 2, Len(Span(l, h))) = Span(k + 1, h)
<1> DEFINE s == Span(l, h)
           a == Span(l, k)
           b == Span(k + 1, h)
           m == k - l + 1
           n == h - l + 1
<1>1. /\ s \in Seq(Nat) /\ Len(s) = n
      /\ \A i \in 1..n : s[i] = l + i - 1
  BY SpanFacts
<1>2. /\ a \in Seq(Nat) /\ Len(a) = m
      /\ \A i \in 1..m : a[i] = l + i - 1
  BY SpanFacts
<1>3. /\ b \in Seq(Nat) /\ Len(b) = n - m
      /\ \A i \in 1..n - m : b[i] = l + (m + i) - 1
  <2>1. k + 1 \in Nat \ {0} /\ k + 1 <= h + 1 /\ h - (k + 1) + 1 = n - m
        /\ \A i \in 1..n - m : (k + 1) + i - 1 = l + (m + i) - 1
    OBVIOUS
  <2> QED BY <2>1, SpanFacts
<1>4. m \in 1..n /\ n \in Nat /\ k - l + 2 = m + 1 /\ m < n
  OBVIOUS
<1> HIDE DEF s, a, b, m, n
<1>5. /\ SubSeq(s, 1, m) \in Seq(Nat) /\ Len(SubSeq(s, 1, m)) = m
      /\ \A i \in 1..m : SubSeq(s, 1, m)[i] = s[i] /\ i \in 1..n
  BY <1>1, <1>4
<1>6. /\ SubSeq(s, m + 1, n) \in Seq(Nat) /\ Len(SubSeq(s, m + 1, n)) = n - m
      /\ \A i \in 1..n - m : SubSeq(s, m + 1, n)[i] = s[m + i] /\ m + i \in 1..n
  BY <1>1, <1>4
<1>7. SubSeq(s, 1, m) = a
  <2>1. \A i \in 1..m : SubSeq(s, 1, m)[i] = a[i]
    BY <1>1, <1>2, <1>5
  <2> QED BY <1>2, <1>5, <2>1, SeqEqual
<1>8. SubSeq(s, m + 1, n) = b
  <2>1. \A i \in 1..n - m : SubSeq(s, m + 1, n)[i] = b[i]
    BY <1>1, <1>3, <1>6
  <2> QED BY <1>3, <1>6, <2>1, SeqEqual
<1> QED BY <1>1, <1>4, <1>7, <1>8 DEF s, a, b, m, n

(* What is said of two spans that meet is what is said of both.            *)
LEMMA SaidJoins ==
  ASSUME NEW r, NEW rt, NEW l \in Nat \ {0}, NEW m \in Nat, NEW h \in Nat, l <= m, m <= h + 1
  PROVE  Followed(SaidOf(r, rt, Span(l, m - 1)), SaidOf(r, rt, Span(m, h)))
           = SaidOf(r, rt, Span(l, h))
<1> DEFINE say(i) == [by |-> [rt EXCEPT !.mode = "use"], ordinal |-> i,
                      of |-> Len(r.images), content |-> r.images[i]]
           S == {say(i) : i \in Nat}
           a == SaidOf(r, rt, Span(l, m - 1))
           b == SaidOf(r, rt, Span(m, h))
           s == SaidOf(r, rt, Span(l, h))
<1>1. ASSUME NEW x \in Nat \ {0}, NEW y \in Nat, x <= y + 1
      PROVE  /\ SaidOf(r, rt, Span(x, y)) \in Seq(S) /\ Len(SaidOf(r, rt, Span(x, y))) = y - x + 1
             /\ \A i \in 1..y - x + 1 : SaidOf(r, rt, Span(x, y))[i] = say(x + i - 1)
  <2>1. /\ DOMAIN Span(x, y) = 1..y - x + 1
        /\ \A i \in 1..y - x + 1 : Span(x, y)[i] = x + i - 1
    BY <1>1, SpanFacts
  <2>2. SaidOf(r, rt, Span(x, y)) = [i \in 1..y - x + 1 |-> say(Span(x, y)[i])]
    BY <2>1 DEF SaidOf
  <2> HIDE DEF say
  <2>3. y - x + 1 \in Nat /\ \A i \in 1..y - x + 1 : x + i - 1 \in Nat
    BY <1>1
  <2>4. \A i \in 1..y - x + 1 : say(Span(x, y)[i]) = say(x + i - 1) /\ say(x + i - 1) \in S
    BY <2>1, <2>3
  <2> HIDE DEF S
  <2> QED BY <2>2, <2>3, <2>4
<1> DEFINE p == m - l
           q == h - m + 1
<1>2. /\ a \in Seq(S) /\ Len(a) = p /\ \A i \in 1..p : a[i] = say(l + i - 1)
  <2>1. m - 1 \in Nat /\ l <= (m - 1) + 1 /\ (m - 1) - l + 1 = p
    OBVIOUS
  <2> HIDE DEF say, S
  <2> QED BY <1>1, <2>1
<1>3. /\ b \in Seq(S) /\ Len(b) = q /\ \A i \in 1..q : b[i] = say(m + i - 1)
  <2>1. m \in Nat \ {0}
    OBVIOUS
  <2> HIDE DEF say, S
  <2> QED BY <1>1, <2>1
<1>4. /\ s \in Seq(S) /\ Len(s) = p + q /\ \A i \in 1..p + q : s[i] = say(l + i - 1)
  <2>1. l <= h + 1 /\ h - l + 1 = p + q
    OBVIOUS
  <2> HIDE DEF say, S
  <2> QED BY <1>1, <2>1
<1>5. p \in Nat /\ q \in Nat /\ \A i \in 1..p + q : m + (i - p) - 1 = l + i - 1
  OBVIOUS
<1> HIDE DEF say, S, a, b, s, p, q
<1>6. /\ a \o b \in Seq(S) /\ Len(a \o b) = p + q
      /\ \A i \in 1..p + q : (a \o b)[i] = IF i <= p THEN a[i] ELSE b[i - p]
  <2>1. a \in Seq(S) /\ b \in Seq(S) /\ Len(a) = p /\ Len(b) = q
    BY <1>2, <1>3
  <2> QED BY ONLY <2>1, ConcatProperties
<1>7. \A i \in 1..p + q : (a \o b)[i] = s[i]
  <2> SUFFICES ASSUME NEW i \in 1..p + q PROVE (a \o b)[i] = s[i]
    OBVIOUS
  <2>1. CASE i <= p
    BY <1>2, <1>4, <1>5, <1>6, <2>1
  <2>2. CASE ~(i <= p)
    <3>1. i - p \in 1..q /\ m + (i - p) - 1 = l + i - 1
      BY <1>5, <2>2
    <3>2. b[i - p] = say(l + i - 1)
      BY <1>3, <3>1
    <3> QED BY <1>4, <1>6, <2>2, <3>2
  <2> QED BY <2>1, <2>2
<1>8. a \o b = s
  BY <1>4, <1>6, <1>7, SeqEqual
<1> QED BY <1>8 DEF a, b, s, Followed

(* Nothing is said of an empty run.                                        *)
LEMMA SaidNothing ==
  ASSUME NEW r, NEW rt, NEW l \in Nat
  PROVE  SaidOf(r, rt, Span(l, l - 1)) = <<>>
<1>1. DOMAIN Span(l, l - 1) = {}
  BY DEF Span
<1> QED BY <1>1 DEF SaidOf

(* What is said of a run that starts in the request is a text.             *)
LEMMA TextsHas ==
  ASSUME NEW r, NEW rt, NEW l \in 1..Len(r.images), NEW h \in 0..Len(r.images)
  PROVE  SaidOf(r, rt, Span(l, h)) \in Texts(r, rt)
<1>1. <<l, h>> \in (1..Len(r.images)) \X (0..Len(r.images)) /\ <<l, h>>[1] = l /\ <<l, h>>[2] = h
  OBVIOUS
<1> QED BY <1>1 DEF Texts

-----------------------------------------------------------------------------
(* The parts and the stack of a call.                                      *)

(* The parts that are left are batches, within what is left.               *)
LEMMA PartsFacts ==
  ASSUME NEW n \in Nat, NEW m \in Nat \ {0}, NEW hi \in 1..n, NEW left, Covers(left, m, hi)
  PROVE  /\ left \in Seq(Spans(n))
         /\ \A i \in DOMAIN left : m <= Lo(left[i]) /\ Hi(left[i]) <= hi
<1>1. CASE left = <<>>
  BY <1>1
<1>2. CASE left = <<Span(m, hi)>> /\ m <= hi
  <2>1. m \in 1..n
    BY <1>2
  <2>2. Span(m, hi) \in Spans(n) /\ Lo(Span(m, hi)) = m /\ Hi(Span(m, hi)) = hi
    <3>1. m <= hi /\ m <= hi + 1 /\ hi \in Nat
      BY <1>2
    <3>2. Span(m, hi) \in Spans(n)
      BY <2>1, <3>1, SpansHas
    <3> QED BY <3>1, <3>2, SpanFacts
  <2> DEFINE a == Span(m, hi)
  <2>3. a \in Spans(n) /\ Lo(a) = m /\ Hi(a) = hi /\ left = <<a>>
    BY <1>2, <2>2
  <2> HIDE DEF a
  <2>4. left \in Seq(Spans(n)) /\ DOMAIN left = {1} /\ left[1] = a
    BY <2>3
  <2> QED BY <2>3, <2>4
<1>3. CASE \E k \in m..hi - 1 : left = <<Span(m, k), Span(k + 1, hi)>>
  <2>1. PICK k \in m..hi - 1 : left = <<Span(m, k), Span(k + 1, hi)>>
    BY <1>3
  <2>2. k \in Nat /\ m \in 1..n /\ k \in 1..n /\ k + 1 \in 1..n /\ m <= k /\ k + 1 <= hi /\ k <= hi
        /\ k + 1 \in Nat \ {0} /\ m <= k + 1 /\ k + 1 <= hi + 1 /\ hi \in Nat
    OBVIOUS
  <2>3. Span(m, k) \in Spans(n) /\ Lo(Span(m, k)) = m /\ Hi(Span(m, k)) = k
    BY <2>2, SpansHas, SpanFacts
  <2>4. Span(k + 1, hi) \in Spans(n) /\ Lo(Span(k + 1, hi)) = k + 1 /\ Hi(Span(k + 1, hi)) = hi
    <3> DEFINE l == k + 1
    <3>1. l \in 1..n /\ l \in Nat \ {0} /\ l <= hi /\ l <= hi + 1 /\ hi \in Nat
      BY <2>2
    <3> HIDE DEF l
    <3>2. Span(l, hi) \in Spans(n) /\ Lo(Span(l, hi)) = l /\ Hi(Span(l, hi)) = hi
      BY <3>1, SpansHas, SpanFacts
    <3> QED BY <3>2 DEF l
  <2> DEFINE a == Span(m, k)
             b == Span(k + 1, hi)
  <2>5. /\ a \in Spans(n) /\ Lo(a) = m /\ Hi(a) = k
        /\ b \in Spans(n) /\ Lo(b) = k + 1 /\ Hi(b) = hi /\ left = <<a, b>>
    BY <2>1, <2>3, <2>4
  <2> HIDE DEF a, b
  <2>6. left \in Seq(Spans(n)) /\ DOMAIN left = 1..2 /\ left[1] = a /\ left[2] = b
    BY <2>5
  <2> QED BY <2>2, <2>5, <2>6
<1> QED BY <1>1, <1>2, <1>3 DEF Covers

(* The stack of a call consists of frames.                                 *)
LEMMA FrameFields ==
  ASSUME NEW r, NEW rt, NEW f \in Frames(r, rt), Len(r.images) \in Nat
  PROVE  /\ f = [batch |-> f.batch, left |-> f.left, text |-> f.text, retries |-> f.retries]
         /\ f.batch \in Spans(Len(r.images)) /\ f.left \in Seq(Spans(Len(r.images)))
         /\ f.text \in Texts(r, rt) /\ f.retries \in 0..MaxRetries
         /\ Lo(f.batch) \in 1..Len(r.images) /\ Hi(f.batch) \in 1..Len(r.images)
         /\ Lo(f.batch) <= Hi(f.batch) /\ f.batch = Span(Lo(f.batch), Hi(f.batch))
         /\ Len(f.batch) = Hi(f.batch) - Lo(f.batch) + 1
<1> DEFINE S == Spans(Len(r.images))
           Q == Seq(S)
           T == Texts(r, rt)
<1>1. f \in [batch : S, left : Q, text : T, retries : 0..MaxRetries]
  BY DEF Frames
<1> HIDE DEF S, Q, T
<1>2. /\ f = [batch |-> f.batch, left |-> f.left, text |-> f.text, retries |-> f.retries]
      /\ f.batch \in S /\ f.left \in Q /\ f.text \in T /\ f.retries \in 0..MaxRetries
  BY <1>1
<1>3. f.batch \in Spans(Len(r.images))
  BY <1>2 DEF S
<1> QED BY <1>2, <1>3, SpansMember DEF S, Q, T

(* Each of them is about images of the request.                            *)
LEMMA StackFrames ==
  ASSUME NEW r, NEW rt, NEW sent, NEW w, StackOK(r, rt, sent, w), Len(r.images) \in Nat
  PROVE  /\ w \in Seq(Frames(r, rt)) /\ Len(w) \in Nat /\ Len(w) # 0 /\ 1 \in 1..Len(w)
         /\ \A k \in 1..Len(w) :
              /\ w[k] \in Frames(r, rt) /\ w[k].batch \in Spans(Len(r.images))
              /\ Lo(w[k].batch) \in 1..Len(r.images) /\ Hi(w[k].batch) \in 1..Len(r.images)
              /\ Lo(w[k].batch) <= Hi(w[k].batch)
<1>1. w \in Seq(Frames(r, rt)) /\ w # <<>>
  BY DEF StackOK
<1>2. Len(w) \in Nat /\ Len(w) # 0 /\ \A k \in 1..Len(w) : w[k] \in Frames(r, rt)
  BY <1>1
<1>3. ASSUME NEW k \in 1..Len(w)
      PROVE  /\ w[k].batch \in Spans(Len(r.images))
             /\ Lo(w[k].batch) \in 1..Len(r.images) /\ Hi(w[k].batch) \in 1..Len(r.images)
             /\ Lo(w[k].batch) <= Hi(w[k].batch)
  <2> DEFINE f == w[k]
  <2>1. f \in Frames(r, rt)
    BY <1>2
  <2> HIDE DEF f
  <2>2. /\ f.batch \in Spans(Len(r.images))
        /\ Lo(f.batch) \in 1..Len(r.images) /\ Hi(f.batch) \in 1..Len(r.images)
        /\ Lo(f.batch) <= Hi(f.batch)
    BY <2>1, FrameFields
  <2> QED BY <2>2 DEF f
<1>4. 1 \in 1..Len(w)
  BY <1>1, <1>2
<1> QED BY <1>1, <1>2, <1>3, <1>4

(* The stack keeps being one when its top changes, or makes way for what   *)
(* is below it.                                                            *)
LEMMA Restack ==
  ASSUME NEW r, NEW rt, NEW sent, NEW w, StackOK(r, rt, sent, w),
         NEW d \in Nat, d < Len(w), NEW v \in Seq(Frames(r, rt)), Len(v) = Len(w) - d,
         v[1].batch = w[1 + d].batch, \A k \in 2..Len(v) : v[k] = w[k + d]
  PROVE  StackOK(r, rt, sent, v)
<1>1. /\ Len(w) \in Nat /\ Len(v) \in Nat /\ Len(v) # 0 /\ v # <<>>
      /\ \A k \in 1..Len(v) : k + d \in 1..Len(w)
      /\ \A k \in 2..Len(v) : k + d \in 2..Len(w) /\ (k + d) - 1 = (k - 1) + d /\ k - 1 \in 1..Len(v)
  BY DEF StackOK
<1>2. \A k \in 1..Len(v) : v[k].batch = w[k + d].batch
  <2> SUFFICES ASSUME NEW k \in 1..Len(v) PROVE v[k].batch = w[k + d].batch
    OBVIOUS
  <2>1. CASE k = 1
    BY <2>1
  <2>2. CASE k # 1
    <3>1. k \in 2..Len(v)
      BY <2>2
    <3> QED BY <3>1
  <2> QED BY <2>1, <2>2
<1>3. v[Len(v)].batch = Span(1, Len(r.images))
  <2>1. Len(v) \in 1..Len(v) /\ Len(v) + d = Len(w)
    BY <1>1
  <2>2. w[Len(w)].batch = Span(1, Len(r.images))
    BY DEF StackOK
  <2> QED BY <1>2, <2>1, <2>2
<1>4. ASSUME NEW k \in 2..Len(v)
      PROVE  SplitOK(r, rt, sent, v[k], Lo(v[k - 1].batch), Hi(v[k - 1].batch))
  <2>1. SplitOK(r, rt, sent, w[k + d], Lo(w[(k + d) - 1].batch), Hi(w[(k + d) - 1].batch))
    BY <1>1 DEF StackOK
  <2>2. v[k] = w[k + d] /\ v[k - 1].batch = w[(k + d) - 1].batch
    BY <1>1, <1>2
  <2> QED BY <2>1, <2>2
<1>5. ASSUME NEW i \in 1..Len(v), NEW k \in 1..Len(v), i <= k
      PROVE  Hi(v[i].batch) <= Hi(v[k].batch)
  <2>1. i + d \in 1..Len(w) /\ k + d \in 1..Len(w) /\ i + d <= k + d
    BY <1>1, <1>5
  <2>2. Hi(w[i + d].batch) <= Hi(w[k + d].batch)
    BY <2>1 DEF StackOK
  <2> QED BY <1>2, <2>2
<1> QED BY <1>1, <1>3, <1>4, <1>5 DEF StackOK

(* A part of the topmost batch comes to lie on it.                         *)
LEMMA Stacked ==
  ASSUME NEW r, NEW rt, NEW sent, NEW w, StackOK(r, rt, sent, w), Len(r.images) \in Nat,
         NEW f \in Frames(r, rt), Hi(f.batch) <= Hi(w[1].batch),
         SplitOK(r, rt, sent, w[1], Lo(f.batch), Hi(f.batch))
  PROVE  StackOK(r, rt, sent, <<f>> \o w) /\ (<<f>> \o w)[1] = f
<1> DEFINE v == <<f>> \o w
<1>0. w \in Seq(Frames(r, rt)) /\ Len(w) \in Nat /\ Len(w) # 0
  BY DEF StackOK
<1>1. /\ v \in Seq(Frames(r, rt)) /\ Len(v) = Len(w) + 1 /\ v[1] = f
      /\ \A k \in 2..Len(v) : v[k] = w[k - 1]
  <2>1. <<f>> \in Seq(Frames(r, rt)) /\ Len(<<f>>) = 1 /\ <<f>>[1] = f
    OBVIOUS
  <2>2. /\ v \in Seq(Frames(r, rt)) /\ Len(v) = 1 + Len(w)
        /\ \A k \in 1..1 + Len(w) : v[k] = IF k <= 1 THEN <<f>>[k] ELSE w[k - 1]
    BY <1>0, <2>1, ConcatProperties
  <2> HIDE DEF v
  <2>3. 1 \in 1..1 + Len(w) /\ 1 + Len(w) = Len(w) + 1
        /\ \A k \in 2..1 + Len(w) : k \in 1..1 + Len(w) /\ ~(k <= 1)
    BY <1>0
  <2> QED BY <2>1, <2>2, <2>3
<1> HIDE DEF v
<1>2. /\ v # <<>> /\ \A k \in 2..Len(v) : k - 1 \in 1..Len(w) /\ (k # 2 => k - 1 \in 2..Len(w))
      /\ \A k \in 1..Len(v) : k # 1 => k \in 2..Len(v)
      /\ Len(v) \in 2..Len(v) /\ Len(v) - 1 = Len(w)
  BY <1>0, <1>1
<1>3. v[Len(v)].batch = Span(1, Len(r.images))
  BY <1>1, <1>2 DEF StackOK
<1>4. ASSUME NEW k \in 2..Len(v)
      PROVE  SplitOK(r, rt, sent, v[k], Lo(v[k - 1].batch), Hi(v[k - 1].batch))
  <2>1. CASE k = 2
    <3>1. v[k] = w[1] /\ v[k - 1] = f
      BY <1>1, <2>1
    <3> QED BY <3>1
  <2>2. CASE k # 2
    <3>1. k - 1 \in 2..Len(w) /\ v[k] = w[k - 1]
      BY <1>1, <1>2, <2>2
    <3>2. k - 1 \in 2..Len(v) /\ v[k - 1] = w[(k - 1) - 1]
      BY <1>1, <3>1
    <3>3. SplitOK(r, rt, sent, w[k - 1], Lo(w[(k - 1) - 1].batch), Hi(w[(k - 1) - 1].batch))
      BY <3>1 DEF StackOK
    <3> QED BY <3>1, <3>2, <3>3
  <2> QED BY <2>1, <2>2
<1>5. \A j, k \in 1..Len(w) : j <= k => Hi(w[j].batch) <= Hi(w[k].batch)
  BY DEF StackOK
<1>6. \A k \in 1..Len(w) : Hi(w[k].batch) \in Int
  BY StackFrames
<1>7. Hi(f.batch) \in Int
  BY FrameFields
<1>8. ASSUME NEW i \in 1..Len(v), NEW k \in 1..Len(v), i <= k
      PROVE  Hi(v[i].batch) <= Hi(v[k].batch)
  <2>1. CASE k = 1
    <3>1. i = 1
      BY <1>8, <2>1
    <3> QED BY <1>1, <1>7, <2>1, <3>1
  <2>2. CASE k # 1 /\ i # 1
    <3>1. i - 1 \in 1..Len(w) /\ k - 1 \in 1..Len(w) /\ i - 1 <= k - 1
          /\ v[i] = w[i - 1] /\ v[k] = w[k - 1]
      BY <1>1, <1>2, <1>8, <2>2
    <3> QED BY <1>5, <3>1
  <2>3. CASE k # 1 /\ i = 1
    <3>1. k - 1 \in 1..Len(w) /\ 1 \in 1..Len(w) /\ 1 <= k - 1
          /\ v[i] = f /\ v[k] = w[k - 1]
      BY <1>0, <1>1, <1>2, <2>3
    <3>2. Hi(w[1].batch) <= Hi(w[k - 1].batch)
      BY <1>5, <3>1
    <3>3. Hi(w[1].batch) \in Int /\ Hi(w[k - 1].batch) \in Int /\ Hi(f.batch) <= Hi(w[1].batch)
      BY <1>6, <3>1
    <3> DEFINE x == Hi(f.batch)
               y == Hi(w[1].batch)
               z == Hi(w[k - 1].batch)
    <3>4. x \in Int /\ y \in Int /\ z \in Int /\ x <= y /\ y <= z
      BY <1>7, <3>2, <3>3
    <3> HIDE DEF x, y, z
    <3>5. x <= z
      BY ONLY <3>4
    <3> QED BY <3>1, <3>5 DEF x, z
  <2> QED BY <2>1, <2>2, <2>3
<1>9. StackOK(r, rt, sent, v)
  BY <1>1, <1>2, <1>3, <1>4, <1>8 DEF StackOK
<1> QED BY <1>1, <1>9 DEF v

(* Sending the topmost batch leaves the parts that are left alone.         *)
LEMMA SentGrows ==
  ASSUME NEW r, NEW rt, NEW sent, NEW w, StackOK(r, rt, sent, w), Len(r.images) \in Nat,
         NEW sent2, DOMAIN sent2 = DOMAIN sent \cup {w[1].batch}
  PROVE  StackOK(r, rt, sent2, w)
<1> DEFINE n == Len(r.images)
           b == w[1].batch
<1>1. w \in Seq(Frames(r, rt)) /\ Len(w) \in Nat /\ Len(w) # 0
  BY DEF StackOK
<1>2. \A k \in 1..Len(w) : w[k].batch \in Spans(n)
  BY StackFrames
<1>3. ASSUME NEW k \in 2..Len(w)
      PROVE  SplitOK(r, rt, sent2, w[k], Lo(w[k - 1].batch), Hi(w[k - 1].batch))
  <2> DEFINE f == w[k]
             m == Lo(w[k - 1].batch)
             h == Hi(w[k - 1].batch)
  <2>0. SplitOK(r, rt, sent, f, m, h)
    BY DEF StackOK
  <2>1. 1 \in 1..Len(w) /\ k - 1 \in 1..Len(w) /\ 1 <= k - 1
    BY <1>1
  <2>2. Hi(b) <= h
    BY <2>1 DEF StackOK
  <2>3. Hi(b) \in 1..n /\ h \in 1..n /\ Lo(b) \in 1..n /\ Lo(b) <= Hi(b) /\ m \in 1..n
    BY <1>2, <2>1, SpansMember
  <2> HIDE DEF f, m, h, b, n
  <2>4. PICK lo \in 1..Len(r.images), hi \in 1..Len(r.images) :
          /\ f.batch = Span(lo, hi) /\ lo <= m /\ m <= h + 1 /\ h <= hi /\ lo <= hi
          /\ f.text = SaidOf(r, rt, Span(lo, m - 1))
          /\ Covers(f.left, h + 1, hi)
          /\ \A i \in DOMAIN f.left : Clear(sent, f.left[i]) /\ f.left[i] \notin DOMAIN sent
    BY <2>0 DEF SplitOK
  <2>5. ASSUME NEW i \in DOMAIN f.left
        PROVE  Clear(sent2, f.left[i]) /\ f.left[i] \notin DOMAIN sent2
    <3> DEFINE p == f.left[i]
    <3>1. n \in Nat /\ h + 1 \in Nat \ {0} /\ hi \in 1..n
      BY <2>3 DEF n
    <3>2. f.left \in Seq(Spans(n)) /\ h + 1 <= Lo(p) /\ Hi(p) <= hi
      BY <2>4, <3>1, PartsFacts
    <3>3. p \in Spans(n)
      BY <3>2
    <3>4. Lo(p) \in 1..n
      BY <3>1, <3>3, SpansMember
    <3>5. Clear(sent, p) /\ p \notin DOMAIN sent
      BY <2>4
    <3> HIDE DEF p
    <3>6. Hi(b) < Lo(p)
      BY <2>2, <2>3, <3>2, <3>4
    <3>7. p # b
      <4>1. Lo(p) <= Hi(p) /\ Hi(p) \in 1..n
        BY <3>1, <3>3, SpansMember
      <4> QED BY <2>3, <3>4, <3>6, <4>1
    <3>8. DOMAIN sent2 = DOMAIN sent \cup {b}
      BY DEF b
    <3>9. Clear(sent2, p) /\ p \notin DOMAIN sent2
      BY <3>5, <3>6, <3>7, <3>8 DEF Clear
    <3> QED BY <3>9 DEF p
  <2>6. SplitOK(r, rt, sent2, f, m, h)
    BY <2>4, <2>5 DEF SplitOK
  <2> QED BY <2>6 DEF f, m, h
<1> QED BY <1>3 DEF StackOK

-----------------------------------------------------------------------------
(* What the steps of a call do to its stack.                               *)

(* A sequence with a new head.                                             *)
LEMMA Consed ==
  ASSUME NEW S, NEW f \in S, NEW t \in Seq(S), NEW v, v = <<f>> \o t
  PROVE  /\ v \in Seq(S) /\ Len(v) = Len(t) + 1 /\ v[1] = f
         /\ \A k \in 2..Len(t) + 1 : v[k] = t[k - 1]
<1>1. <<f>> \in Seq(S) /\ Len(<<f>>) = 1 /\ <<f>>[1] = f
  OBVIOUS
<1>2. v \in Seq(S) /\ Len(v) = 1 + Len(t)
  BY <1>1
<1>3. \A k \in 1..1 + Len(t) : v[k] = IF k <= 1 THEN <<f>>[k] ELSE t[k - 1]
  BY <1>1, ConcatProperties
<1>4. /\ 1 \in 1..1 + Len(t) /\ 1 + Len(t) = Len(t) + 1
      /\ \A k \in 2..Len(t) + 1 : k \in 1..1 + Len(t) /\ ~(k <= 1)
  OBVIOUS
<1> QED BY <1>1, <1>2, <1>3, <1>4

(* A sequence whose head is replaced.                                      *)
LEMMA TopReplaced ==
  ASSUME NEW S, NEW w \in Seq(S), w # <<>>, NEW f \in S, NEW v, v = <<f>> \o Tail(w)
  PROVE  v \in Seq(S) /\ Len(v) = Len(w) /\ v[1] = f /\ \A k \in 2..Len(w) : v[k] = w[k]
<1>1. /\ Tail(w) \in Seq(S) /\ Len(Tail(w)) = Len(w) - 1 /\ Len(w) \in Nat /\ Len(w) # 0
      /\ \A i \in 1..Len(w) - 1 : Tail(w)[i] = w[i + 1]
  OBVIOUS
<1> DEFINE t == Tail(w)
           n == Len(w)
<1>2. /\ t \in Seq(S) /\ Len(t) = n - 1 /\ v = <<f>> \o t /\ n \in Nat /\ n # 0
      /\ \A i \in 1..n - 1 : t[i] = w[i + 1]
  BY <1>1
<1> HIDE DEF t, n
<1>3. /\ v \in Seq(S) /\ Len(v) = Len(t) + 1 /\ v[1] = f
      /\ \A k \in 2..Len(t) + 1 : v[k] = t[k - 1]
  BY ONLY <1>2, f \in S, Consed
<1>4. /\ (n - 1) + 1 = n
      /\ \A k \in 2..n : k - 1 \in 1..n - 1 /\ (k - 1) + 1 = k
  BY <1>2
<1> QED BY <1>2, <1>3, <1>4 DEF n

(* What follows the first k elements.                                      *)
LEMMA RestFrom ==
  ASSUME NEW S, NEW s \in Seq(S), NEW k \in 0..Len(s)
  PROVE  /\ SubSeq(s, k + 1, Len(s)) \in Seq(S) /\ Len(SubSeq(s, k + 1, Len(s))) = Len(s) - k
         /\ \A i \in 1..Len(s) - k : SubSeq(s, k + 1, Len(s))[i] = s[k + i]
OBVIOUS

(* A sequence without its head, and with another second element.           *)
LEMMA SecondReplaced ==
  ASSUME NEW S, NEW w \in Seq(S), 1 < Len(w), NEW f \in S,
         NEW v, v = Followed(<<f>>, SubSeq(w, 3, Len(w)))
  PROVE  /\ v \in Seq(S) /\ Len(v) = Len(w) - 1 /\ v[1] = f
         /\ \A k \in 2..Len(w) - 1 : v[k] = w[k + 1]
<1> DEFINE t == SubSeq(w, 3, Len(w))
           n == Len(w)
<1>1. t \in Seq(S) /\ Len(t) = n - 2 /\ \A i \in 1..n - 2 : t[i] = w[2 + i]
  <2>1. 2 \in 0..Len(w) /\ 2 + 1 = 3
    OBVIOUS
  <2> QED BY <2>1, RestFrom
<1>2. n \in Nat /\ 1 < n /\ v = <<f>> \o t
  BY DEF Followed
<1> HIDE DEF t, n
<1>3. /\ v \in Seq(S) /\ Len(v) = Len(t) + 1 /\ v[1] = f
      /\ \A k \in 2..Len(t) + 1 : v[k] = t[k - 1]
  BY ONLY <1>1, <1>2, f \in S, Consed
<1>4. /\ (n - 2) + 1 = n - 1
      /\ \A k \in 2..n - 1 : k - 1 \in 1..n - 2 /\ 2 + (k - 1) = k + 1
  BY <1>2
<1> QED BY <1>1, <1>3, <1>4 DEF n

(* Fields of a frame that change.                                          *)
LEMMA FrameSet ==
  ASSUME NEW b, NEW l, NEW t, NEW x, NEW y,
         NEW f, f = [batch |-> b, left |-> l, text |-> t, retries |-> x]
  PROVE  /\ [f EXCEPT !.text = y] = [batch |-> b, left |-> l, text |-> y, retries |-> x]
         /\ [f EXCEPT !.left = y] = [batch |-> b, left |-> y, text |-> t, retries |-> x]
         /\ [f EXCEPT !.retries = y] = [batch |-> b, left |-> l, text |-> t, retries |-> y]
OBVIOUS

(* The whole request is the last batch.                                    *)
LEMMA AllIsSpan ==
  ASSUME NEW n \in Nat \ {0}
  PROVE  [i \in 1..n |-> i] = Span(1, n) /\ Span(1, n) \in Spans(n)
<1>1. n - 1 + 1 = n /\ \A i \in 1..n : 1 + i - 1 = i
  OBVIOUS
<1>2. [i \in 1..n |-> i] = Span(1, n)
  BY <1>1 DEF Span
<1>3. 1 \in 1..n /\ n \in 1..n /\ 1 <= n
  OBVIOUS
<1> QED BY <1>2, <1>3, SpansHas

(* A batch nobody has answered yet, whole or split, is a frame.            *)
LEMMA FrameIsFrame ==
  ASSUME NEW r, NEW rt, Len(r.images) \in Nat \ {0}, NEW b \in Spans(Len(r.images)),
         NEW left \in Seq(Spans(Len(r.images)))
  PROVE  [batch |-> b, left |-> left, text |-> <<>>, retries |-> 0] \in Frames(r, rt)
<1>1. SaidOf(r, rt, Span(1, 0)) = <<>>
  <2>1. 1 \in Nat /\ 1 - 1 = 0
    OBVIOUS
  <2> QED BY <2>1, SaidNothing
<1>2. 1 \in 1..Len(r.images) /\ 0 \in 0..Len(r.images)
  OBVIOUS
<1>3. <<>> \in Texts(r, rt)
  BY <1>1, <1>2, TextsHas
<1>4. 0 \in 0..MaxRetries
  BY WorkloadsAssumption
<1> DEFINE S == Spans(Len(r.images))
           Q == Seq(S)
           T == Texts(r, rt)
<1>5. b \in S /\ left \in Q /\ <<>> \in T
  BY <1>3
<1> HIDE DEF S, Q, T
<1>6. [batch |-> b, left |-> left, text |-> <<>>, retries |-> 0]
        \in [batch : S, left : Q, text : T, retries : 0..MaxRetries]
  BY <1>4, <1>5
<1> QED BY <1>6 DEF S, Q, T, Frames

(* The stack a call starts with on a model.                                *)
LEMMA Started ==
  ASSUME NEW r, NEW rt, Len(r.images) \in Nat \ {0}, NEW sent, DOMAIN sent = {}, NEW w,
         w = <<Frame(Span(1, Len(r.images)))>>
  PROVE  /\ StackOK(r, rt, sent, w) /\ AskOK(sent, w[1])
         /\ w[1].retries = 0 /\ Times(sent, w[1].batch) = 0
<1> DEFINE n == Len(r.images)
           b == Span(1, n)
           f == [batch |-> b, left |-> <<>>, text |-> <<>>, retries |-> 0]
<1>1. b \in Spans(n) /\ w = <<f>>
  BY AllIsSpan DEF Frame
<1>2. f \in Frames(r, rt)
  <2>1. <<>> \in Seq(Spans(n))
    OBVIOUS
  <2> QED BY <1>1, <2>1, FrameIsFrame
<1>3. f.batch = b /\ f.left = <<>> /\ f.text = <<>> /\ f.retries = 0
  OBVIOUS
<1> HIDE DEF f
<1>4. /\ w \in Seq(Frames(r, rt)) /\ w # <<>> /\ Len(w) = 1 /\ w[1] = f /\ 2..Len(w) = {}
      /\ 1..Len(w) = {1}
  BY <1>1, <1>2
<1>5. Hi(b) \in 1..n
  BY <1>1, SpansMember
<1>6. Hi(b) <= Hi(b)
  BY <1>5
<1> HIDE DEF b, n
<1>7. StackOK(r, rt, sent, w)
  BY <1>3, <1>4, <1>6 DEF StackOK, b, n
<1> QED BY <1>3, <1>4, <1>7 DEF AskOK, Clear, Times

(* The parts have all been asked about.                                    *)
LEMMA JoinedSaid ==
  ASSUME NEW r, NEW rt, NEW sent, NEW f, NEW m \in 1..Len(r.images) + 1,
         Len(r.images) \in Nat \ {0},
         SplitOK(r, rt, sent, f, m, m - 1), f.left = <<>>
  PROVE  f.text = SaidOf(r, rt, f.batch)
<1>1. PICK lo \in 1..Len(r.images), hi \in 1..Len(r.images) :
        /\ f.batch = Span(lo, hi)
        /\ f.text = SaidOf(r, rt, Span(lo, m - 1))
        /\ Covers(f.left, (m - 1) + 1, hi)
  BY DEF SplitOK
<1>2. (m - 1) + 1 = hi + 1
  BY <1>1 DEF Covers
<1>3. m - 1 = hi
  BY <1>2
<1> QED BY <1>1, <1>3

(* The topmost batch has been answered: the answer is a part of the next.  *)
LEMMA PartGained ==
  ASSUME NEW r, NEW rt, NEW sent, NEW w, StackOK(r, rt, sent, w),
         Len(r.images) \in Nat \ {0}, Len(w) # 1,
         NEW said, said = SaidOf(r, rt, w[1].batch), NEW v,
         v = Told(w, said)
  PROVE  /\ StackOK(r, rt, sent, v)
         /\ \E m \in 1..Len(r.images) + 1 : SplitOK(r, rt, sent, v[1], m, m - 1)
<1> DEFINE size == Len(r.images)
           below == w[2]
           asked == w[1].batch
           from == Lo(asked)
           upto == Hi(asked)
           text == below.text \o said
           grown == [batch |-> below.batch, left |-> below.left, text |-> text, retries |-> below.retries]
<1>0. size \in Nat \ {0}
  OBVIOUS
<1>1. /\ w \in Seq(Frames(r, rt)) /\ Len(w) \in Nat /\ 2 \in 2..Len(w) /\ 1 < Len(w)
      /\ 1 \in 1..Len(w) /\ 2 \in 1..Len(w)
  <2>1. StackOK(r, rt, sent, w) /\ Len(r.images) \in Nat /\ Len(w) # 1
    OBVIOUS
  <2>2. w \in Seq(Frames(r, rt)) /\ Len(w) \in Nat /\ Len(w) # 0
    BY <2>1 DEF StackOK
  <2> DEFINE size2 == Len(w)
  <2>3. size2 \in Nat /\ size2 # 0 /\ size2 # 1
    BY <2>1, <2>2
  <2> HIDE DEF size2
  <2>4. 2 \in 2..size2 /\ 1 < size2 /\ 1 \in 1..size2 /\ 2 \in 1..size2
    BY ONLY <2>3
  <2> QED BY <2>2, <2>4 DEF size2
<1>2. below \in Frames(r, rt) /\ asked \in Spans(size) /\ from \in 1..size /\ upto \in 1..size /\ from <= upto
  BY <1>1, StackFrames
<1>3. /\ below = [batch |-> below.batch, left |-> below.left, text |-> below.text, retries |-> below.retries]
      /\ below.batch \in Spans(size) /\ below.left \in Seq(Spans(size)) /\ below.retries \in 0..MaxRetries
  BY <1>2, FrameFields
<1>4. SplitOK(r, rt, sent, below, from, upto)
  <2>1. 2 - 1 = 1
    OBVIOUS
  <2> QED BY <1>1, <2>1 DEF StackOK
<1>5. [w[2] EXCEPT !.text = @ \o said] = grown
  <2> HIDE DEF below
  <2> DEFINE gb == below.batch
             gl == below.left
             gt == below.text
             gr == below.retries
  <2>0. below = [batch |-> gb, left |-> gl, text |-> gt, retries |-> gr]
    BY <1>3
  <2> HIDE DEF gb, gl, gt, gr
  <2> HIDE DEF text
  <2>1. [below EXCEPT !.text = text] = [batch |-> gb, left |-> gl, text |-> text, retries |-> gr]
    BY ONLY <2>0, FrameSet
  <2>2. [below EXCEPT !.text = @ \o said] = [below EXCEPT !.text = text]
    BY Zenon DEF text
  <2>3. [below EXCEPT !.text = @ \o said] = grown
    BY <2>1, <2>2, Zenon DEF grown, gb, gl, gr
  <2> QED BY <2>3, Zenon DEF below
<1> HIDE DEF below, asked, from, upto
<1>6. PICK lo \in 1..size, hi \in 1..size :
        /\ below.batch = Span(lo, hi) /\ lo <= from /\ from <= upto + 1 /\ upto <= hi /\ lo <= hi
        /\ below.text = SaidOf(r, rt, Span(lo, from - 1))
        /\ Covers(below.left, upto + 1, hi)
        /\ \A i \in DOMAIN below.left : Clear(sent, below.left[i]) /\ below.left[i] \notin DOMAIN sent
  BY <1>4 DEF SplitOK
<1>7. text = SaidOf(r, rt, Span(lo, upto))
  <2>1. asked = Span(from, upto)
    BY <1>2, <1>0, SpansMember DEF from, upto
  <2>2. lo \in Nat \ {0} /\ from \in Nat /\ upto \in Nat /\ lo <= from /\ from <= upto + 1
    BY <1>2, <1>6
  <2> HIDE DEF text, size, grown
  <2>3. Followed(SaidOf(r, rt, Span(lo, from - 1)), SaidOf(r, rt, Span(from, upto)))
          = SaidOf(r, rt, Span(lo, upto))
    BY ONLY <2>2, SaidJoins
  <2> QED BY <1>6, <2>1, <2>3 DEF text, asked, Followed
<1>8. text \in Texts(r, rt)
  <2>1. upto \in 0..size
    BY <1>2
  <2> QED BY <1>7, <2>1, TextsHas
<1> HIDE DEF text
<1>9. grown \in Frames(r, rt)
  <2> DEFINE S == Spans(size)
             Q == Seq(S)
             T == Texts(r, rt)
  <2>1. below.batch \in S /\ below.left \in Q /\ text \in T /\ below.retries \in 0..MaxRetries
    BY <1>3, <1>8
  <2> HIDE DEF S, Q, T
  <2>2. grown \in [batch : S, left : Q, text : T, retries : 0..MaxRetries]
    BY <2>1
  <2> QED BY <2>2 DEF S, Q, T, Frames
<1>10. grown.batch = below.batch /\ grown.left = below.left /\ grown.text = text
  OBVIOUS
<1> HIDE DEF grown
<1>11. SplitOK(r, rt, sent, grown, upto + 1, (upto + 1) - 1)
  <2>1. /\ lo <= upto + 1 /\ upto + 1 <= ((upto + 1) - 1) + 1 /\ (upto + 1) - 1 <= hi /\ (upto + 1) - 1 = upto
        /\ ((upto + 1) - 1) + 1 = upto + 1
    BY <1>2, <1>6
  <2> QED BY <1>6, <1>7, <1>10, <2>1 DEF SplitOK
<1>14. v = Followed(<<grown>>, SubSeq(w, 3, Len(w)))
  BY <1>5 DEF Followed, Told
<1>15. /\ v \in Seq(Frames(r, rt)) /\ Len(v) = Len(w) - 1 /\ v[1] = grown
       /\ \A k \in 2..Len(w) - 1 : v[k] = w[k + 1]
  <2> DEFINE F == Frames(r, rt)
  <2>1. w \in Seq(F) /\ grown \in F /\ 1 < Len(w)
    BY <1>1, <1>9
  <2> HIDE DEF F
  <2>2. /\ v \in Seq(F) /\ Len(v) = Len(w) - 1 /\ v[1] = grown
        /\ \A k \in 2..Len(w) - 1 : v[k] = w[k + 1]
    BY ONLY <2>1, <1>14, SecondReplaced
  <2> QED BY <2>2 DEF F
<1>16. StackOK(r, rt, sent, v)
  <2>1. 1 \in Nat /\ Len(v) = Len(w) - 1 /\ 1 + 1 = 2
    BY <1>15
  <2>2. v[1].batch = w[1 + 1].batch
    BY <1>10, <1>15, <2>1 DEF below
  <2>3. \A k \in 2..Len(v) : v[k] = w[k + 1]
    BY <1>15
  <2>4. StackOK(r, rt, sent, w) /\ v \in Seq(Frames(r, rt))
    BY <1>15
  <2> QED BY ONLY <1>1, <2>1, <2>2, <2>3, <2>4, Restack
<1>17. upto + 1 \in 1..Len(r.images) + 1
  BY <1>2
<1> QED BY <1>11, <1>15, <1>16, <1>17

(* The first part that is left, and those after it.                        *)
LEMMA PartsHead ==
  ASSUME NEW n \in Nat, NEW m \in Nat \ {0}, NEW hi \in 1..n, NEW left,
         Covers(left, m, hi), left # <<>>
  PROVE  /\ 1 \in DOMAIN left /\ left[1] = Head(left)
         /\ \A i \in DOMAIN Tail(left) : i + 1 \in DOMAIN left /\ Tail(left)[i] = left[i + 1]
         /\ \E k \in m..hi : Head(left) = Span(m, k) /\ Covers(Tail(left), k + 1, hi)
<1>1. CASE left = <<Span(m, hi)>> /\ m <= hi
  <2> DEFINE a == Span(m, hi)
  <2>1. left = <<a>>
    BY <1>1
  <2> HIDE DEF a
  <2>2. DOMAIN left = {1} /\ left[1] = a /\ Head(left) = a /\ Tail(left) = <<>>
        /\ DOMAIN Tail(left) = {}
    BY <2>1
  <2>3. hi \in m..hi /\ Covers(Tail(left), hi + 1, hi)
    BY <1>1, <2>2 DEF Covers
  <2> QED BY <2>2, <2>3 DEF a
<1>2. CASE \E k \in m..hi - 1 : left = <<Span(m, k), Span(k + 1, hi)>>
  <2>1. PICK k \in m..hi - 1 : left = <<Span(m, k), Span(k + 1, hi)>>
    BY <1>2
  <2> DEFINE a == Span(m, k)
             b == Span(k + 1, hi)
  <2>2. left = <<a, b>>
    BY <2>1
  <2> HIDE DEF a, b
  <2>3. /\ DOMAIN left = {1, 2} /\ left[1] = a /\ left[2] = b /\ Head(left) = a
        /\ Tail(left) = <<b>> /\ DOMAIN Tail(left) = {1} /\ Tail(left)[1] = b
    BY <2>2
  <2>4. k \in m..hi /\ k + 1 <= hi
    OBVIOUS
  <2>5. Covers(Tail(left), k + 1, hi)
    BY <2>3, <2>4 DEF Covers, b
  <2>6. \A i \in DOMAIN Tail(left) : i + 1 \in DOMAIN left /\ Tail(left)[i] = left[i + 1]
    BY <2>3
  <2>7. Head(left) = Span(m, k)
    BY <2>3 DEF a
  <2> QED BY <2>3, <2>4, <2>5, <2>6, <2>7
<1> QED BY <1>1, <1>2 DEF Covers

(* The next part comes to lie on the batch it is a part of.                *)
LEMMA PartIsTaken ==
  ASSUME NEW r, NEW rt, NEW sent, NEW w, StackOK(r, rt, sent, w),
         Len(r.images) \in Nat \ {0}, NEW m \in 1..Len(r.images) + 1,
         SplitOK(r, rt, sent, w[1], m, m - 1), w[1].left # <<>>, NEW v,
         v = PartTaken(w)
  PROVE  /\ StackOK(r, rt, sent, v) /\ AskOK(sent, v[1])
         /\ v[1].retries = 0 /\ Times(sent, v[1].batch) = 0
<1> DEFINE size == Len(r.images)
           below == w[1]
           gl == below.left
           part == Head(gl)
           rest == Tail(gl)
           grown == [batch |-> below.batch, left |-> rest, text |-> below.text,
                     retries |-> below.retries]
           top == [batch |-> part, left |-> <<>>, text |-> <<>>, retries |-> 0]
           F == Frames(r, rt)
           tail == Tail(w)
<1>0. size \in Nat \ {0} /\ m \in 1..size + 1
  OBVIOUS
<1>1. /\ w \in Seq(F) /\ Len(w) \in Nat /\ Len(w) # 0 /\ 1 \in 1..Len(w) /\ w # <<>>
      /\ below \in F
  BY StackFrames DEF StackOK
<1>2. /\ below = [batch |-> below.batch, left |-> gl, text |-> below.text, retries |-> below.retries]
      /\ below.batch \in Spans(size) /\ gl \in Seq(Spans(size)) /\ below.text \in Texts(r, rt)
      /\ below.retries \in 0..MaxRetries
  BY <1>1, FrameFields
<1>3. [w[1] EXCEPT !.left = Tail(@)] = grown
  <2> HIDE DEF below
  <2>1. [below EXCEPT !.left = rest] = grown
    <3> HIDE DEF rest, gl
    <3> QED BY ONLY <1>2, FrameSet DEF grown
  <2> QED BY <2>1 DEF below
<1>4. Frame(Head(w[1].left)) = top
  BY DEF Frame
<1> HIDE DEF below, size
<1>5. PICK lo \in 1..size, hi \in 1..size :
        /\ below.batch = Span(lo, hi) /\ lo <= m /\ m <= (m - 1) + 1 /\ m - 1 <= hi /\ lo <= hi
        /\ below.text = SaidOf(r, rt, Span(lo, m - 1))
        /\ Covers(gl, (m - 1) + 1, hi)
        /\ \A i \in DOMAIN gl : Clear(sent, gl[i]) /\ gl[i] \notin DOMAIN sent
  BY DEF SplitOK, below, size
<1>6. (m - 1) + 1 = m /\ m \in Nat \ {0} /\ size \in Nat
  BY <1>0
<1>7. gl # <<>>
  BY DEF below
<1> HIDE DEF gl, rest, part
<1>8. /\ 1 \in DOMAIN gl /\ gl[1] = part
      /\ \A i \in DOMAIN rest : i + 1 \in DOMAIN gl /\ rest[i] = gl[i + 1]
      /\ \E k \in m..hi : part = Span(m, k) /\ Covers(rest, k + 1, hi)
  BY <1>5, <1>6, <1>7, PartsHead DEF part, rest
<1>9. PICK k \in m..hi : part = Span(m, k) /\ Covers(rest, k + 1, hi)
  BY <1>8
<1>10. /\ k \in 1..size /\ m \in 1..size /\ m <= k /\ m <= k + 1 /\ k <= hi /\ k \in Nat
  BY <1>0, <1>6
<1>11. part \in Spans(size) /\ Lo(part) = m /\ Hi(part) = k
  BY <1>6, <1>9, <1>10, SpansHas, SpanFacts
<1>12. rest \in Seq(Spans(size))
  BY <1>2, <1>7 DEF rest
<1>13. grown \in F
  <2> DEFINE S == Spans(size)
             Q == Seq(S)
             T == Texts(r, rt)
  <2>1. below.batch \in S /\ rest \in Q /\ below.text \in T /\ below.retries \in 0..MaxRetries
    BY <1>2, <1>12
  <2> HIDE DEF S, Q, T
  <2>2. grown \in [batch : S, left : Q, text : T, retries : 0..MaxRetries]
    BY <2>1
  <2> QED BY <2>2 DEF S, Q, T, Frames, size
<1>14. top \in F
  <2>1. <<>> \in Seq(Spans(size))
    OBVIOUS
  <2> QED BY <1>11, <2>1, FrameIsFrame DEF size
<1>15. grown.batch = below.batch /\ grown.left = rest /\ grown.text = below.text
  OBVIOUS
<1>16. top.batch = part /\ top.left = <<>> /\ top.text = <<>> /\ top.retries = 0
  OBVIOUS
<1> DEFINE u == <<grown>> \o tail
<1>17. v = <<top>> \o u
  <2>1. v = <<top, grown>> \o tail
    BY <1>3, <1>4 DEF PartTaken
  <2> HIDE DEF top, grown
  <2>2. tail \in Seq(F)
    BY <1>1
  <2> HIDE DEF F, tail
  <2>3. <<top, grown>> = <<top>> \o <<grown>>
    OBVIOUS
  <2>4. <<top>> \in Seq(F) /\ <<grown>> \in Seq(F)
    BY <1>13, <1>14
  <2>5. (<<top>> \o <<grown>>) \o tail = <<top>> \o (<<grown>> \o tail)
    BY <2>2, <2>4, ConcatAssociative
  <2> QED BY <2>1, <2>3, <2>5
<1> HIDE DEF top, grown, F
<1>18. u \in Seq(F) /\ Len(u) = Len(w) /\ u[1] = grown /\ \A i \in 2..Len(w) : u[i] = w[i]
  <2> HIDE DEF u
  <2>1. u = <<grown>> \o Tail(w)
    BY DEF u
  <2> QED BY ONLY <1>1, <1>13, <2>1, TopReplaced
<1> HIDE DEF u, tail
<1>19. StackOK(r, rt, sent, u)
  <2>1. 0 \in Nat /\ 0 < Len(w) /\ Len(u) = Len(w) - 0 /\ 1 + 0 = 1
    BY <1>1, <1>18
  <2>2. u[1].batch = w[1 + 0].batch
    BY <1>15, <1>18, <2>1 DEF below
  <2>3. \A i \in 2..Len(u) : u[i] = w[i + 0]
    BY <1>18
  <2>4. StackOK(r, rt, sent, w) /\ u \in Seq(Frames(r, rt))
    BY <1>18 DEF F
  <2> QED BY ONLY <2>1, <2>2, <2>3, <2>4, Restack
<1>20. SplitOK(r, rt, sent, grown, m, k)
  <2>1. \A i \in DOMAIN rest : Clear(sent, rest[i]) /\ rest[i] \notin DOMAIN sent
    BY <1>5, <1>8
  <2>2. lo \in 1..Len(r.images) /\ hi \in 1..Len(r.images)
    BY DEF size
  <2> QED BY <1>5, <1>9, <1>10, <1>15, <2>1, <2>2 DEF SplitOK
<1>21. StackOK(r, rt, sent, v) /\ v[1] = top
  <2>1. Hi(top.batch) <= Hi(u[1].batch)
    <3>1. lo \in Nat \ {0} /\ hi \in Nat /\ lo <= hi /\ lo <= hi + 1
      BY <1>5
    <3>2. Hi(below.batch) = hi
      BY <1>5, <3>1, SpanFacts
    <3> QED BY <1>10, <1>11, <1>15, <1>16, <1>18, <3>2
  <2>2. SplitOK(r, rt, sent, u[1], Lo(top.batch), Hi(top.batch))
    BY <1>11, <1>16, <1>18, <1>20
  <2>3. Len(r.images) \in Nat /\ top \in Frames(r, rt)
    BY <1>14 DEF F
  <2>4. StackOK(r, rt, sent, <<top>> \o u) /\ (<<top>> \o u)[1] = top
    BY <1>19, <2>1, <2>2, <2>3, Stacked
  <2> QED BY <1>17, <2>4
<1>22. AskOK(sent, top) /\ Times(sent, top.batch) = 0
  <2>1. Clear(sent, part) /\ part \notin DOMAIN sent
    BY <1>5, <1>8
  <2> QED BY <1>16, <2>1 DEF AskOK, Times
<1> QED BY <1>16, <1>21, <1>22

(* Both halves of two or more are not empty.                               *)
LEMMA HalfOf ==
  ASSUME NEW l \in Nat, l > 1
  PROVE  (l + 1) \div 2 \in Nat /\ 1 <= (l + 1) \div 2 /\ (l + 1) \div 2 < l
OBVIOUS

(* The halves of a batch that nobody has asked about.                      *)
LEMMA StackHalved ==
  ASSUME NEW r, NEW rt, NEW sent, NEW w, StackOK(r, rt, sent, w), AskOK(sent, w[1]),
         Len(r.images) \in Nat \ {0}, \A s \in DOMAIN sent : s \in Spans(Len(r.images)),
         Len(w[1].batch) > 1, NEW v, v = Halved(w)
  PROVE  /\ StackOK(r, rt, sent, v)
         /\ \E m \in 1..Len(r.images) + 1 : SplitOK(r, rt, sent, v[1], m, m - 1)
<1> DEFINE size == Len(r.images)
           asked == w[1].batch
           lo == Lo(asked)
           hi == Hi(asked)
           middle == (Len(asked) + 1) \div 2
           k == lo + middle - 1
           first == SubSeq(asked, 1, middle)
           second == SubSeq(asked, middle + 1, Len(asked))
           whole == [batch |-> asked, left |-> <<first, second>>, text |-> <<>>, retries |-> 0]
           F == Frames(r, rt)
<1>1. /\ w \in Seq(F) /\ Len(w) \in Nat /\ Len(w) # 0 /\ w # <<>> /\ w[1] \in F
  BY StackFrames DEF StackOK
<1>2. /\ asked \in Spans(size) /\ lo \in 1..size /\ hi \in 1..size /\ lo <= hi
      /\ asked = Span(lo, hi) /\ Len(asked) = hi - lo + 1
  BY <1>1, FrameFields
<1>3. [Frame(w[1].batch) EXCEPT
        !.left = <<SubSeq(w[1].batch, 1, middle),
                   SubSeq(w[1].batch, middle + 1, Len(w[1].batch))>>] = whole
  <2> DEFINE g == Frame(asked)
             y == <<first, second>>
  <2>1. g = [batch |-> asked, left |-> <<>>, text |-> <<>>, retries |-> 0]
    BY DEF Frame
  <2> HIDE DEF g, y, asked
  <2>2. [g EXCEPT !.left = y] = [batch |-> asked, left |-> y, text |-> <<>>, retries |-> 0]
    BY ONLY <2>1, FrameSet
  <2> QED BY <2>2 DEF g, y, asked
<1> HIDE DEF asked, lo, hi, size
<1>4. /\ middle \in Nat /\ 1 <= middle /\ middle < hi - lo + 1
  <2>1. Len(asked) \in Nat /\ Len(asked) > 1 /\ middle = (Len(asked) + 1) \div 2
    BY <1>2 DEF asked
  <2>2. middle \in Nat /\ 1 <= middle /\ middle < Len(asked)
    BY ONLY <2>1, HalfOf
  <2> QED BY <1>2, <2>2
<1>5. /\ k \in Nat /\ k \in lo..hi - 1 /\ lo <= k /\ k < hi /\ k - lo + 1 = middle
      /\ k - lo + 2 = middle + 1 /\ lo \in Nat \ {0} /\ hi \in Nat /\ k + 1 <= hi /\ k <= hi
      /\ k \in 1..size /\ k + 1 \in 1..size
  <2>1. size \in Nat
    BY DEF size
  <2>2. lo \in Nat /\ hi \in Nat /\ 1 <= lo /\ hi <= size /\ lo \in Nat \ {0}
    BY <1>2, <2>1
  <2>3. k \in Nat /\ lo <= k /\ k < hi /\ k - lo + 1 = middle /\ k - lo + 2 = middle + 1
    BY ONLY <1>4, <2>2 DEF k
  <2> HIDE DEF k
  <2> QED BY ONLY <2>1, <2>2, <2>3
<1> HIDE DEF k
<1>6. first = Span(lo, k) /\ second = Span(k + 1, hi)
  <2>1. /\ SubSeq(Span(lo, hi), 1, k - lo + 1) = Span(lo, k)
        /\ SubSeq(Span(lo, hi), k - lo + 2, Len(Span(lo, hi))) = Span(k + 1, hi)
    BY ONLY <1>5, SpanCut
  <2> QED BY <1>2, <1>5, <2>1
<1> HIDE DEF first, second
<1>7. /\ first \in Spans(size) /\ Lo(first) = lo /\ Hi(first) = k
      /\ second \in Spans(size) /\ Lo(second) = k + 1 /\ Hi(second) = hi
  <2>1. size \in Nat
    BY DEF size
  <2>2. first \in Spans(size) /\ Lo(first) = lo /\ Hi(first) = k
    <3>1. lo <= k + 1
      BY <1>5
    <3> QED BY <1>2, <1>5, <1>6, <2>1, <3>1, SpansHas, SpanFacts
  <2>3. second \in Spans(size) /\ Lo(second) = k + 1 /\ Hi(second) = hi
    <3> DEFINE j == k + 1
    <3>1. j \in Nat \ {0} /\ j <= hi /\ j <= hi + 1 /\ j \in 1..size /\ second = Span(j, hi)
      BY <1>5, <1>6
    <3> HIDE DEF j
    <3>2. second \in Spans(size) /\ Lo(second) = j /\ Hi(second) = hi
      BY <1>2, <1>5, <2>1, <3>1, SpansHas, SpanFacts
    <3> QED BY <3>2 DEF j
  <2> QED BY <2>2, <2>3
<1>8. whole \in F
  <2>1. <<first, second>> \in Seq(Spans(size))
    BY <1>7
  <2> QED BY <1>2, <2>1, FrameIsFrame DEF size
<1>9. whole.batch = asked /\ whole.left = <<first, second>> /\ whole.text = <<>>
  OBVIOUS
<1> HIDE DEF whole, F
<1>10. Covers(whole.left, lo, hi)
  BY <1>5, <1>6, <1>9 DEF Covers
<1>11. Clear(sent, asked)
  BY DEF AskOK, asked
<1>12. \A s \in DOMAIN sent : /\ Lo(s) \in Int /\ Hi(s) \in Int /\ Lo(s) <= Hi(s)
                              /\ (Hi(s) < lo \/ (Lo(s) <= lo /\ hi <= Hi(s)))
  <2> SUFFICES ASSUME NEW s \in DOMAIN sent
               PROVE  /\ Lo(s) \in Int /\ Hi(s) \in Int /\ Lo(s) <= Hi(s)
                      /\ (Hi(s) < lo \/ (Lo(s) <= lo /\ hi <= Hi(s)))
    OBVIOUS
  <2>1. s \in Spans(Len(r.images)) /\ Len(r.images) \in Nat
    OBVIOUS
  <2>2. Lo(s) \in Int /\ Hi(s) \in Int /\ Lo(s) <= Hi(s)
    BY <2>1, SpansMember
  <2> QED BY <1>11, <2>2 DEF Clear, lo, hi
<1>13. Clear(sent, first) /\ first \notin DOMAIN sent
  <2>1. \A s \in DOMAIN sent : Hi(s) < Lo(first) \/ (Lo(s) <= Lo(first) /\ Hi(first) <= Hi(s))
    BY <1>2, <1>5, <1>7, <1>12
  <2>2. first \notin DOMAIN sent
    BY <1>2, <1>5, <1>7, <1>12
  <2> QED BY <2>1, <2>2 DEF Clear
<1>14. Clear(sent, second) /\ second \notin DOMAIN sent
  <2>1. \A s \in DOMAIN sent : Hi(s) < Lo(second) \/ (Lo(s) <= Lo(second) /\ Hi(second) <= Hi(s))
    BY <1>2, <1>5, <1>7, <1>12
  <2>2. second \notin DOMAIN sent
    BY <1>2, <1>5, <1>7, <1>12
  <2> QED BY <2>1, <2>2 DEF Clear
<1>15. \A i \in DOMAIN whole.left : Clear(sent, whole.left[i]) /\ whole.left[i] \notin DOMAIN sent
  BY <1>9, <1>13, <1>14
<1>16. whole.text = SaidOf(r, rt, Span(lo, lo - 1))
  BY <1>5, <1>9, SaidNothing
<1>17. SplitOK(r, rt, sent, whole, lo, lo - 1)
  <2>1. lo <= lo /\ lo <= (lo - 1) + 1 /\ lo - 1 <= hi /\ (lo - 1) + 1 = lo
        /\ lo \in 1..Len(r.images) /\ hi \in 1..Len(r.images)
    BY <1>2, <1>5 DEF size
  <2> QED BY <1>2, <1>9, <1>10, <1>15, <1>16, <2>1 DEF SplitOK
<1>18. v \in Seq(F) /\ Len(v) = Len(w) /\ v[1] = whole /\ \A i \in 2..Len(w) : v[i] = w[i]
  <2>1. v = <<whole>> \o Tail(w)
    BY <1>3 DEF Halved, asked
  <2> QED BY ONLY <1>1, <1>8, <2>1, TopReplaced
<1>19. StackOK(r, rt, sent, v)
  <2>1. 0 \in Nat /\ 0 < Len(w) /\ Len(v) = Len(w) - 0 /\ 1 + 0 = 1
    BY <1>1, <1>18
  <2>2. v[1].batch = w[1 + 0].batch
    BY <1>9, <1>18, <2>1 DEF asked
  <2>3. \A i \in 2..Len(v) : v[i] = w[i + 0]
    <3>1. \A i \in 2..Len(v) : i \in 2..Len(w) /\ i + 0 = i
      BY <1>18
    <3> QED BY <1>18, <3>1
  <2>4. StackOK(r, rt, sent, w) /\ v \in Seq(Frames(r, rt))
    BY <1>18 DEF F
  <2> QED BY ONLY <2>1, <2>2, <2>3, <2>4, Restack
<1>20. lo \in 1..Len(r.images) + 1
  BY <1>2 DEF size
<1> QED BY <1>17, <1>18, <1>19, <1>20

(* The topmost batch is to be asked about again.                           *)
LEMMA Retried ==
  ASSUME NEW r, NEW rt, NEW sent, NEW w, StackOK(r, rt, sent, w), AskOK(sent, w[1]),
         Len(r.images) \in Nat \ {0}, w[1].retries < MaxRetries, NEW v,
         v = Again(w)
  PROVE  /\ StackOK(r, rt, sent, v) /\ AskOK(sent, v[1])
         /\ v[1].batch = w[1].batch /\ v[1].retries = w[1].retries + 1
<1> DEFINE size == Len(r.images)
           below == w[1]
           again == [batch |-> below.batch, left |-> below.left, text |-> below.text,
                     retries |-> below.retries + 1]
           F == Frames(r, rt)
<1>1. /\ w \in Seq(F) /\ Len(w) \in Nat /\ Len(w) # 0 /\ 1 \in 1..Len(w) /\ below \in F
  BY StackFrames
<1>2. /\ below = [batch |-> below.batch, left |-> below.left, text |-> below.text,
                  retries |-> below.retries]
      /\ below.batch \in Spans(size) /\ below.left \in Seq(Spans(size))
      /\ below.text \in Texts(r, rt) /\ below.retries \in 0..MaxRetries
  BY <1>1, FrameFields
<1>3. [below EXCEPT !.retries = @ + 1] = again
  <2> HIDE DEF below
  <2> QED BY ONLY <1>2, FrameSet DEF again
<1>4. below.retries + 1 \in 0..MaxRetries
  BY <1>2, WorkloadsAssumption
<1>5. again \in F
  <2> DEFINE S == Spans(size)
             Q == Seq(S)
             T == Texts(r, rt)
             x == below.retries + 1
  <2>1. below.batch \in S /\ below.left \in Q /\ below.text \in T /\ x \in 0..MaxRetries
    BY <1>2, <1>4
  <2> HIDE DEF S, Q, T, below, x
  <2>2. [batch |-> below.batch, left |-> below.left, text |-> below.text, retries |-> x]
          \in [batch : S, left : Q, text : T, retries : 0..MaxRetries]
    BY <2>1
  <2> QED BY <2>2 DEF S, Q, T, x, Frames
<1>6. /\ again.batch = below.batch /\ again.left = below.left /\ again.text = below.text
      /\ again.retries = below.retries + 1
  OBVIOUS
<1>7. v = [w EXCEPT ![1] = again]
  <2>1. v = [w EXCEPT ![1] = [below EXCEPT !.retries = @ + 1]]
    BY DEF Again
  <2> QED BY <1>3, <2>1
<1> HIDE DEF again, F
<1>8. v \in Seq(F) /\ Len(v) = Len(w) /\ v[1] = again /\ \A i \in 2..Len(w) : v[i] = w[i]
  BY <1>1, <1>5, <1>7
<1>9. StackOK(r, rt, sent, v)
  <2>1. 0 \in Nat /\ 0 < Len(w) /\ Len(v) = Len(w) - 0 /\ 1 + 0 = 1
    BY <1>1, <1>8
  <2>2. v[1].batch = w[1 + 0].batch
    BY <1>6, <1>8, <2>1 DEF below
  <2>3. \A i \in 2..Len(v) : v[i] = w[i + 0]
    BY <1>8
  <2>4. StackOK(r, rt, sent, w) /\ v \in Seq(Frames(r, rt))
    BY <1>8 DEF F
  <2> QED BY ONLY <2>1, <2>2, <2>3, <2>4, Restack
<1> QED BY <1>6, <1>8, <1>9 DEF AskOK

-----------------------------------------------------------------------------
(* The models that are tried.                                              *)

Backup == [provider : Providers, probe : BOOLEAN]

(* A call that has not begun.                                              *)
LEMMA TriedNothing ==
  ASSUME NEW r, NEW rt
  PROVE  TriedOK(r, rt, NotPlanned, <<>>)
<1>1. <<>> \in Seq(Providers \X Nat) /\ IsInjective(<<>>) /\ ToSet(<<>>) = {}
  BY ToSetEmpty DEF IsInjective
<1>2. /\ NotPlanned.planned = FALSE /\ NotPlanned.left = <<>>
      /\ NotPlanned \in [planned : BOOLEAN, left : Seq([provider : Providers, probe : BOOLEAN])]
      /\ DOMAIN NotPlanned.left = {}
  BY DEF NotPlanned
<1> QED BY <1>1, <1>2 DEF TriedOK

(* One more model may be tried: nobody has tried it, and it is no backup.  *)
MayTry(r, b, tried, p, m) ==
  /\ p \in Providers /\ m \in Nat
  /\ b \in [planned : BOOLEAN, left : Seq([provider : Providers, probe : BOOLEAN])]
  /\ \A i, j \in DOMAIN b.left : b.left[i].provider = b.left[j].provider => i = j
  /\ \A t \in ToSet(tried), i \in DOMAIN b.left : t[1] # b.left[i].provider
  /\ \A i \in DOMAIN b.left : p # b.left[i].provider
  /\ ~b.planned => b.left = <<>> /\ p = r.provider /\ \A t \in ToSet(tried) : t[1] = r.provider
  /\ \A t \in ToSet(tried) : t[1] = p => t[2] < m

(* It is tried, and the history and the backups stay apart.                *)
LEMMA TriedMore ==
  ASSUME NEW r, NEW rt, NEW b, NEW tried, TriedOK(r, rt, b, tried),
         NEW b2, NEW rt2, NEW p, NEW m, MayTry(r, b2, tried, p, m),
         rt2.provider = p, rt2.model = m
  PROVE  /\ TriedOK(r, rt2, b2, Append(tried, <<p, m>>))
         /\ <<rt2.provider, rt2.model>> \in ToSet(Append(tried, <<p, m>>))
<1>0. /\ p \in Providers /\ m \in Nat
      /\ b2 \in [planned : BOOLEAN, left : Seq([provider : Providers, probe : BOOLEAN])]
      /\ \A i, j \in DOMAIN b2.left : b2.left[i].provider = b2.left[j].provider => i = j
      /\ \A t \in ToSet(tried), i \in DOMAIN b2.left : t[1] # b2.left[i].provider
      /\ \A i \in DOMAIN b2.left : p # b2.left[i].provider
      /\ ~b2.planned => b2.left = <<>> /\ p = r.provider /\ \A t \in ToSet(tried) : t[1] = r.provider
      /\ \A t \in ToSet(tried) : t[1] = p => t[2] < m
  BY DEF MayTry
<1> DEFINE x == <<p, m>>
           more == Append(tried, x)
<1>1. tried \in Seq(Providers \X Nat) /\ IsInjective(tried)
  BY DEF TriedOK
<1>2. x \in Providers \X Nat /\ x[1] = p /\ x[2] = m
  BY <1>0
<1> HIDE DEF x
<1>3. more \in Seq(Providers \X Nat)
  BY <1>1, <1>2
<1>4. ToSet(more) = ToSet(tried) \cup {x}
  BY <1>1, ToSetAppend
<1>5. x \notin ToSet(tried)
  BY <1>0, <1>2
<1>6. IsInjective(more)
  BY <1>1, <1>5, InjectiveAppend
<1> HIDE DEF more
<1>7. \A t \in ToSet(tried) : t[2] \in Nat
  <2> SUFFICES ASSUME NEW t \in ToSet(tried) PROVE t[2] \in Nat
    OBVIOUS
  <2>1. PICK i \in DOMAIN tried : t = tried[i]
    BY DEF ToSet
  <2>2. tried[i] \in Providers \X Nat
    BY <1>1
  <2> QED BY <2>1, <2>2
<1>8. \A t \in ToSet(more) : t[1] = rt2.provider => t[2] <= rt2.model
  BY <1>0, <1>2, <1>4, <1>7
<1>9. \A t \in ToSet(more), i \in DOMAIN b2.left : t[1] # b2.left[i].provider
  BY <1>0, <1>2, <1>4
<1>10. ~b2.planned => b2.left = <<>> /\ \A t \in ToSet(more) : t[1] = r.provider
  BY <1>0, <1>2, <1>4
<1>11. TriedOK(r, rt2, b2, more)
  BY <1>0, <1>3, <1>6, <1>8, <1>9, <1>10 DEF TriedOK
<1>12. <<rt2.provider, rt2.model>> \in ToSet(more)
  BY <1>4 DEF x
<1> QED BY <1>11, <1>12 DEF more, x

(* The primary provider is tried.                                          *)
LEMMA TriedFirst ==
  ASSUME NEW r, NEW rt, NEW b, TriedOK(r, rt, b, <<>>), ~b.planned, r.provider \in Providers,
         NEW rt2, rt2.provider = r.provider, rt2.model = 0
  PROVE  /\ TriedOK(r, rt2, b, Append(<<>>, <<r.provider, 0>>))
         /\ <<rt2.provider, rt2.model>> \in ToSet(Append(<<>>, <<r.provider, 0>>))
<1>1. /\ b \in [planned : BOOLEAN, left : Seq([provider : Providers, probe : BOOLEAN])]
      /\ b.left = <<>> /\ ToSet(<<>>) = {}
  BY ToSetEmpty DEF TriedOK
<1>2. DOMAIN b.left = {} /\ 0 \in Nat
  BY <1>1
<1>3. MayTry(r, b, <<>>, r.provider, 0)
  BY <1>1, <1>2 DEF MayTry
<1> QED BY <1>3, TriedMore

(* The next model of the provider is tried.                                *)
LEMMA TriedNextModel ==
  ASSUME NEW r, NEW rt, NEW b, NEW tried, TriedOK(r, rt, b, tried),
         <<rt.provider, rt.model>> \in ToSet(tried),
         NEW rt2, rt2.provider = rt.provider, rt2.model = rt.model + 1
  PROVE  /\ TriedOK(r, rt2, b, Append(tried, <<rt.provider, rt.model + 1>>))
         /\ <<rt2.provider, rt2.model>> \in ToSet(Append(tried, <<rt.provider, rt.model + 1>>))
<1> DEFINE p == rt.provider
           m == rt.model + 1
<1>1. tried \in Seq(Providers \X Nat)
  BY DEF TriedOK
<1>2. rt.provider \in Providers /\ rt.model \in Nat
  <2>1. PICK i \in DOMAIN tried : <<rt.provider, rt.model>> = tried[i]
    BY DEF ToSet
  <2>2. tried[i] \in Providers \X Nat
    BY <1>1
  <2> QED BY <2>1, <2>2
<1>3. p \in Providers /\ m \in Nat /\ rt2.provider = p /\ rt2.model = m
  BY <1>2
<1>4. \A t \in ToSet(tried) : t[2] \in Nat
  <2> SUFFICES ASSUME NEW t \in ToSet(tried) PROVE t[2] \in Nat
    OBVIOUS
  <2>1. PICK i \in DOMAIN tried : t = tried[i]
    BY DEF ToSet
  <2>2. tried[i] \in Providers \X Nat
    BY <1>1
  <2> QED BY <2>1, <2>2
<1>5. \A t \in ToSet(tried) : t[1] = p => t[2] < m
  BY <1>2, <1>4 DEF TriedOK
<1>6. \A i \in DOMAIN b.left : p # b.left[i].provider
  <2>1. <<rt.provider, rt.model>>[1] = p
    OBVIOUS
  <2> QED BY <2>1 DEF TriedOK
<1>7. ~b.planned => b.left = <<>> /\ p = r.provider /\ \A t \in ToSet(tried) : t[1] = r.provider
  <2>1. <<rt.provider, rt.model>>[1] = p
    OBVIOUS
  <2> QED BY <2>1 DEF TriedOK
<1>8. /\ b \in [planned : BOOLEAN, left : Seq([provider : Providers, probe : BOOLEAN])]
      /\ \A i, j \in DOMAIN b.left : b.left[i].provider = b.left[j].provider => i = j
      /\ \A t \in ToSet(tried), i \in DOMAIN b.left : t[1] # b.left[i].provider
  BY DEF TriedOK
<1> HIDE DEF p, m
<1>9. /\ TriedOK(r, rt2, b, Append(tried, <<p, m>>))
      /\ <<rt2.provider, rt2.model>> \in ToSet(Append(tried, <<p, m>>))
  <2>1. TriedOK(r, rt, b, tried) /\ rt2.provider = p /\ rt2.model = m
    BY <1>3
  <2>2. MayTry(r, b, tried, p, m)
    BY <1>3, <1>5, <1>6, <1>7, <1>8 DEF MayTry
  <2> QED BY ONLY <2>1, <2>2, TriedMore
<1> QED BY <1>9 DEF p, m

(* The next backup is another provider than those tried and those left.    *)
LEMMA TriedNextProvider ==
  ASSUME NEW r, NEW rt, NEW b, NEW tried, TriedOK(r, rt, b, tried), NEW left \in Seq(Backup),
         left # <<>>,
         \A i, j \in DOMAIN left : left[i].provider = left[j].provider => i = j,
         \A t \in ToSet(tried), i \in DOMAIN left : t[1] # left[i].provider,
         NEW rt2, rt2.provider = Head(left).provider, rt2.model = 0,
         NEW b2, b2 = [planned |-> TRUE, left |-> Tail(left)]
  PROVE  /\ Head(left).provider \in Providers
         /\ TriedOK(r, rt2, b2, Append(tried, <<Head(left).provider, 0>>))
         /\ <<rt2.provider, rt2.model>> \in ToSet(Append(tried, <<Head(left).provider, 0>>))
<1> DEFINE p == Head(left).provider
           rest == Tail(left)
<1>1. /\ rest \in Seq(Backup) /\ Len(left) \in Nat /\ Len(left) # 0
      /\ DOMAIN left = 1..Len(left) /\ DOMAIN rest = 1..Len(left) - 1
      /\ \A i \in 1..Len(left) - 1 : rest[i] = left[i + 1]
      /\ Head(left) = left[1] /\ left[1] \in Backup
  OBVIOUS
<1>2. p \in Providers /\ p = left[1].provider
  BY <1>1 DEF Backup
<1> HIDE DEF p, rest
<1>3. /\ 1 \in DOMAIN left
      /\ \A i \in DOMAIN rest : i + 1 \in DOMAIN left /\ i + 1 # 1 /\ rest[i] = left[i + 1]
      /\ \A i, j \in DOMAIN rest : i + 1 = j + 1 => i = j
  BY <1>1
<1>4. b2.planned = TRUE /\ b2.left = rest
  BY DEF rest
<1>5. b2 \in [planned : BOOLEAN, left : Seq([provider : Providers, probe : BOOLEAN])]
  BY <1>1 DEF Backup, rest
<1>6. \A i, j \in DOMAIN rest : rest[i].provider = rest[j].provider => i = j
  BY <1>3
<1>7. \A t \in ToSet(tried), i \in DOMAIN rest : t[1] # rest[i].provider
  BY <1>3
<1>8. \A i \in DOMAIN rest : p # rest[i].provider
  BY <1>2, <1>3
<1>9. \A t \in ToSet(tried) : t[1] = p => t[2] < 0
  BY <1>2, <1>3
<1>10. rt2.provider = p /\ 0 \in Nat
  BY DEF p
<1>11. /\ TriedOK(r, rt2, b2, Append(tried, <<p, 0>>))
       /\ <<rt2.provider, rt2.model>> \in ToSet(Append(tried, <<p, 0>>))
  <2>1. /\ \A i, j \in DOMAIN b2.left : b2.left[i].provider = b2.left[j].provider => i = j
        /\ \A t \in ToSet(tried), i \in DOMAIN b2.left : t[1] # b2.left[i].provider
        /\ \A i \in DOMAIN b2.left : p # b2.left[i].provider
    BY <1>4, <1>6, <1>7, <1>8
  <2>2. ~b2.planned =>
          b2.left = <<>> /\ p = r.provider /\ \A t \in ToSet(tried) : t[1] = r.provider
    BY <1>4
  <2> DEFINE m == 0
  <2>3. m \in Nat /\ rt2.model = m /\ \A t \in ToSet(tried) : t[1] = p => t[2] < m
    BY <1>9
  <2> HIDE DEF m
  <2>4. MayTry(r, b2, tried, p, m)
    BY <1>2, <1>5, <2>1, <2>2, <2>3 DEF MayTry
  <2>5. /\ TriedOK(r, rt2, b2, Append(tried, <<p, m>>))
        /\ <<rt2.provider, rt2.model>> \in ToSet(Append(tried, <<p, m>>))
    <3>1. TriedOK(r, rt, b, tried)
      OBVIOUS
    <3> QED BY ONLY <1>10, <2>3, <2>4, <3>1, TriedMore
  <2> QED BY <2>5 DEF m
<1> QED BY <1>2, <1>11 DEF p

(* The candidates are different providers, none the one that failed.       *)
LEMMA CandidatesFacts ==
  ASSUME NEW c \in Calls, NEW plan \in Seq(Backup)
  PROVE  /\ Candidates(c, plan) \in Seq(Backup)
         /\ \A i, j \in DOMAIN Candidates(c, plan) :
              Candidates(c, plan)[i].provider = Candidates(c, plan)[j].provider => i = j
         /\ \A i \in DOMAIN Candidates(c, plan) :
              Candidates(c, plan)[i].provider # request[c].provider
<1> DEFINE size == Len(plan)
           all == [i \in DOMAIN plan |-> i]
           stale == {i \in DOMAIN plan :
                       \/ plan[i].provider = request[c].provider
                       \/ \E j \in 1..i - 1 : plan[j].provider = plan[i].provider}
           fresh == Omit(all, stale)
           most == IF Len(fresh) < MaxFallbacks THEN Len(fresh) ELSE MaxFallbacks
           left == [k \in 1..most |-> plan[fresh[k]]]
<1>1. size \in Nat /\ DOMAIN plan = 1..size /\ \A i \in 1..size : plan[i] \in Backup
  OBVIOUS
<1>2. all \in Seq(1..size) /\ ToSet(all) \subseteq 1..size /\ IsInjective(all)
  <2>1. all = [i \in 1..size |-> i]
    BY <1>1
  <2> HIDE DEF all
  <2>2. all \in Seq(1..size) /\ DOMAIN all = 1..size /\ \A i \in 1..size : all[i] = i
    BY <1>1, <2>1
  <2> QED BY <2>2 DEF ToSet, IsInjective
<1>3. Candidates(c, plan) = left
  BY DEF Candidates
<1> HIDE DEF all
<1>4. fresh \in Seq(1..size) /\ ToSet(fresh) = ToSet(all) \ stale
  BY <1>2, OmitKeeps
<1>5. IsInjective(fresh)
  BY <1>2, OmitInjective
<1> HIDE DEF fresh
<1>6. Len(fresh) \in Nat /\ DOMAIN fresh = 1..Len(fresh) /\ \A k \in 1..Len(fresh) : fresh[k] \in 1..size
  BY <1>4
<1>7. \A k \in 1..Len(fresh) : fresh[k] \notin stale
  BY <1>4, <1>6 DEF ToSet
<1>8. most \in Nat /\ most <= Len(fresh)
  BY <1>6, WorkloadsAssumption
<1> HIDE DEF most
<1>9. /\ left \in Seq(Backup) /\ DOMAIN left = 1..most
      /\ \A k \in 1..most : left[k] = plan[fresh[k]] /\ k \in 1..Len(fresh)
  BY <1>1, <1>6, <1>8
<1> HIDE DEF left
<1>10. \A k \in 1..Len(fresh) :
         /\ plan[fresh[k]].provider # request[c].provider
         /\ \A j \in 1..fresh[k] - 1 : plan[j].provider # plan[fresh[k]].provider
  BY <1>1, <1>6, <1>7
<1>11. ASSUME NEW i \in DOMAIN left, NEW j \in DOMAIN left, left[i].provider = left[j].provider
       PROVE  i = j
  <2>1. /\ i \in 1..Len(fresh) /\ j \in 1..Len(fresh)
        /\ plan[fresh[i]].provider = plan[fresh[j]].provider
    BY <1>9, <1>11
  <2>2. fresh[i] \in 1..size /\ fresh[j] \in 1..size
    BY <1>6, <2>1
  <2>3. ~(fresh[i] < fresh[j]) /\ ~(fresh[j] < fresh[i])
    <3>1. ASSUME fresh[i] < fresh[j] PROVE FALSE
      <4>1. fresh[i] \in 1..fresh[j] - 1
        BY <1>1, <2>2, <3>1
      <4> QED BY <1>10, <2>1, <4>1
    <3>2. ASSUME fresh[j] < fresh[i] PROVE FALSE
      <4>1. fresh[j] \in 1..fresh[i] - 1
        BY <1>1, <2>2, <3>2
      <4> QED BY <1>10, <2>1, <4>1
    <3> QED BY <3>1, <3>2
  <2>4. fresh[i] = fresh[j]
    BY <1>1, <2>2, <2>3
  <2> QED BY <1>5, <1>6, <2>1, <2>4 DEF IsInjective
<1>12. \A i \in DOMAIN left : left[i].provider # request[c].provider
  BY <1>9, <1>10
<1> QED BY <1>3, <1>9, <1>11, <1>12

(* The backups a failure leaves: each once, none tried before.             *)
LEMMA BackupsFacts ==
  ASSUME NEW c \in Calls, NEW rt, NEW tried, TriedOK(request[c], rt, backups[c], tried),
         NEW left \in Backups(c), left # <<>>
  PROVE  /\ left \in Seq(Backup)
         /\ \A i, j \in DOMAIN left : left[i].provider = left[j].provider => i = j
         /\ \A t \in ToSet(tried), i \in DOMAIN left : t[1] # left[i].provider
<1>1. CASE backups[c].planned
  <2>1. left = backups[c].left
    BY <1>1 DEF Backups
  <2>2. backups[c] \in [planned : BOOLEAN, left : Seq(Backup)]
    BY DEF TriedOK, Backup
  <2> QED BY <2>1, <2>2 DEF TriedOK
<1>2. CASE ~backups[c].planned
  <2>1. PICK plan \in Plans : left = Candidates(c, plan)
    BY <1>2 DEF Backups
  <2>2. plan \in Seq(Backup)
    BY WorkloadsAssumption DEF Backup
  <2>3. /\ left \in Seq(Backup)
        /\ \A i, j \in DOMAIN left : left[i].provider = left[j].provider => i = j
        /\ \A i \in DOMAIN left : left[i].provider # request[c].provider
    BY <2>1, <2>2, CandidatesFacts
  <2>4. \A t \in ToSet(tried) : t[1] = request[c].provider
    BY <1>2 DEF TriedOK
  <2> QED BY <2>3, <2>4
<1> QED BY <1>1, <1>2

(* What was sent.                                                          *)
LEMMA SentNothing ==
  ASSUME NEW r
  PROVE  SentOK(r, Unsent.sent) /\ DOMAIN Unsent.sent = {}
BY DEF SentOK, Unsent

(* A batch with a retry left is sent.                                      *)
LEMMA SentMore ==
  ASSUME NEW r, NEW sent, SentOK(r, sent), NEW b \in Spans(Len(r.images)),
         Times(sent, b) \in 0..MaxRetries
  PROVE  SentOK(r, Counted(sent, b))
<1> DEFINE sent2 == Counted(sent, b)
<1>1. MaxRetries \in Nat
  BY WorkloadsAssumption
<1>2. DOMAIN sent2 = DOMAIN sent \cup {b} /\ sent2 = [s \in DOMAIN sent2 |-> sent2[s]]
  BY DEF Counted
<1>3. \A s \in DOMAIN sent : s \in Spans(Len(r.images)) /\ sent[s] \in 1..MaxRetries + 1
  BY DEF SentOK
<1>4. sent2[b] = Times(sent, b) + 1
  BY DEF Times, Counted
<1>5. ASSUME NEW s \in DOMAIN sent2, s # b PROVE s \in DOMAIN sent /\ sent2[s] = sent[s]
  <2>1. s \in DOMAIN sent
    BY <1>2, <1>5
  <2>2. sent[s] \in Int
    BY <1>3, <2>1
  <2> QED BY <1>5, <2>1, <2>2 DEF Counted
<1>6. \A s \in DOMAIN sent2 : s \in Spans(Len(r.images)) /\ sent2[s] \in 1..MaxRetries + 1
  <2> SUFFICES ASSUME NEW s \in DOMAIN sent2
               PROVE  s \in Spans(Len(r.images)) /\ sent2[s] \in 1..MaxRetries + 1
    OBVIOUS
  <2>1. CASE s = b
    BY <1>1, <1>4, <2>1
  <2>2. CASE s # b
    BY <1>3, <1>5, <2>2
  <2> QED BY <2>1, <2>2
<1> QED BY <1>2, <1>6 DEF SentOK
-----------------------------------------------------------------------------
(* The cache.                                                              *)

(* A cache of good entries is good.                                        *)
LEMMA CacheFrom ==
  ASSUME NEW S, \A e \in S : e.text = TextOf(e.key), cache' \in Seq(S)
  PROVE  CacheOK'
<1> DEFINE s == cache'
<1>1. DOMAIN s = 1..Len(s) /\ Len(s) \in Nat /\ \A i \in DOMAIN s : s[i] \in S
  OBVIOUS
<1>2. s = [i \in DOMAIN s |-> s[i]]
  OBVIOUS
<1> HIDE DEF s
<1>3. \A i \in DOMAIN s : s[i] \in ToSet(s)
  BY DEF ToSet
<1>4. s \in Seq(ToSet(s))
  BY <1>1, <1>2, <1>3
<1>5. \A e \in ToSet(s) : e.text = TextOf(e.key)
  BY <1>1 DEF ToSet
<1> QED BY <1>4, <1>5 DEF CacheOK, s

(* An answer is stored under its key.                                      *)
LEMMA CacheKept ==
  ASSUME CacheOK, NEW key, NEW text, text = TextOf(key), cache' = CacheSet(key, text)
  PROVE  CacheOK'
<1> DEFINE entry == [key |-> key, text |-> text]
           S == ToSet(cache) \cup {entry}
           set == IF Cached(key) = {} THEN Append(cache, entry)
                  ELSE [i \in DOMAIN cache |-> IF i \in Cached(key) THEN entry ELSE cache[i]]
<1>1. entry.key = key /\ entry.text = text
  OBVIOUS
<1>2. cache' = IF Len(set) > MaxEntries THEN Tail(set) ELSE set
  BY DEF CacheSet
<1> HIDE DEF entry
<1>3. \A e \in S : e.text = TextOf(e.key)
  BY <1>1 DEF CacheOK
<1>4. cache \in Seq(S) /\ entry \in S
  BY DEF CacheOK
<1> HIDE DEF S
<1>5. set \in Seq(S)
  BY <1>4
<1>6. Len(set) > MaxEntries => set # <<>>
  <2>1. MaxEntries \in Nat
    BY WorkloadsAssumption
  <2> HIDE DEF set
  <2> QED BY <1>5, <2>1
<1> HIDE DEF set
<1>7. cache' \in Seq(S)
  BY <1>2, <1>5, <1>6
<1> QED BY <1>3, <1>7, CacheFrom

(* An entry expires.                                                       *)
LEMMA CacheExpires ==
  ASSUME CacheOK, Expire
  PROVE  CacheOK'
<1> DEFINE S == ToSet(cache)
<1>1. PICK i \in DOMAIN cache : cache' = RemoveAt(cache, i)
  BY DEF Expire
<1>2. cache \in Seq(S) /\ \A e \in S : e.text = TextOf(e.key)
  BY DEF CacheOK
<1> HIDE DEF S
<1>3. i \in 1..Len(cache) /\ Len(cache) \in Nat /\ DOMAIN cache = 1..Len(cache)
  BY <1>2
<1>4. RemoveAt(cache, i) \in Seq(S)
  <2>1. SubSeq(cache, 1, i - 1) \in Seq(S) /\ SubSeq(cache, i + 1, Len(cache)) \in Seq(S)
    <3>1. i - 1 \in 0..Len(cache) /\ i \in 0..Len(cache)
      BY <1>3
    <3> QED BY <1>2, <3>1, SplitAt
  <2> QED BY <2>1 DEF RemoveAt
<1> QED BY <1>1, <1>2, <1>4, CacheFrom

(* An entry of the cache says of a batch what the endpoint would say.      *)
LEMMA CacheSays ==
  ASSUME NEW c \in Calls, NEW b
  PROVE  /\ TextOf(SemanticKey(c, b)) = Said(c, b)
         /\ Said(c, b) = SaidOf(request[c], route[c], b)
         /\ CacheOK => \A i \in Cached(SemanticKey(c, b)) : cache[i].text = Said(c, b)
<1>1. TextOf(SemanticKey(c, b)) = Said(c, b)
  BY DEF TextOf, SemanticKey, Said, Contents
<1>2. Said(c, b) = SaidOf(request[c], route[c], b)
  BY DEF Said, SaidOf, Count
<1>3. ASSUME CacheOK, NEW i \in Cached(SemanticKey(c, b)) PROVE cache[i].text = Said(c, b)
  <2>1. i \in DOMAIN cache /\ cache[i].key = SemanticKey(c, b)
    BY DEF Cached
  <2>2. cache[i] \in ToSet(cache)
    BY <2>1 DEF ToSet
  <2> QED BY <1>1, <1>3, <2>1, <2>2 DEF CacheOK
<1> QED BY <1>1, <1>2, <1>3

-----------------------------------------------------------------------------
(* The steps.  Only call c moves:                                          *)
Only(c) ==
  /\ request' = request
  /\ \A d \in Calls : d # c =>
       /\ phase'[d] = phase[d] /\ route'[d] = route[d] /\ backups'[d] = backups[d]
       /\ work'[d] = work[d] /\ answer'[d] = answer[d] /\ wires'[d] = wires[d]

(* What a step of c has to show.                                           *)
Moves(c) == CallTypes' /\ Only(c) /\ CallOK(c)'

(* A call that does not move.                                              *)
LEMMA CallStays ==
  ASSUME NEW d \in Calls, CallOK(d), request' = request, phase'[d] = phase[d],
         route'[d] = route[d], backups'[d] = backups[d], work'[d] = work[d],
         answer'[d] = answer[d], wires'[d] = wires[d]
  PROVE  CallOK(d)'
BY DEF CallOK, All, Count, Said

(* The calls that do not move keep the invariant.                          *)
LEMMA CallsMove ==
  ASSUME CallIInv, NEW c \in Calls, Moves(c), CacheOK'
  PROVE  CallIInv'
<1>1. ASSUME NEW d \in Calls PROVE CallOK(d)'
  <2>1. CASE d = c
    BY <2>1 DEF Moves
  <2>2. CASE d # c
    BY <2>2, CallStays DEF Moves, Only, CallIInv
  <2> QED BY <2>1, <2>2
<1> QED BY <1>1 DEF CallIInv, Moves

(* The request of a call.                                                  *)
LEMMA RequestOf ==
  ASSUME CallTypes, NEW c \in Calls
  PROVE  /\ request[c].provider \in Providers
         /\ request[c].mode \in {"use", "refresh", "no-store"}
         /\ Len(request[c].images) \in Nat \ {0} /\ Len(request[c].images) \in Nat
         /\ Count(c) = Len(request[c].images) /\ All(c) = Span(1, Len(request[c].images))
         /\ All(c) \in Spans(Len(request[c].images))
<1>1. request \in Workloads
  BY DEF CallTypes
<1>2. /\ request[c].provider \in Providers
      /\ request[c].mode \in {"use", "refresh", "no-store"}
      /\ Len(request[c].images) \in Nat \ {0}
  BY <1>1, WorkloadsAssumption
<1> DEFINE n == Len(request[c].images)
<1>3. n \in Nat \ {0}
  BY <1>2
<1>4. All(c) = [i \in 1..n |-> i]
  BY DEF All, Count
<1> HIDE DEF n
<1>5. All(c) = Span(1, n) /\ Span(1, n) \in Spans(n)
  BY <1>3, <1>4, AllIsSpan
<1> QED BY <1>2, <1>5 DEF Count, n

(* A call settles, with an answer to the whole request or none.            *)
LEMMA Settles ==
  ASSUME CallTypes, NEW c \in Calls, CallOK(c), NEW text, Settle(c, text),
         text # <<>> => text = Said(c, All(c)), UNCHANGED world
  PROVE  Moves(c)
<1>1. /\ phase' = [phase EXCEPT ![c] = "settled"] /\ answer' = [answer EXCEPT ![c] = text]
      /\ work' = [work EXCEPT ![c] = <<>>] /\ wires' = [wires EXCEPT ![c] = Unsent]
      /\ backups' = [backups EXCEPT ![c] = NotPlanned] /\ request' = request
      /\ route' = IF text = <<>> THEN [route EXCEPT ![c] = NoRoute] ELSE route
      /\ config' = config /\ credential' = credential
  BY DEF Settle, Goto, world
<1>2. NoRoute \in Routes /\ route[c] \in Routes
  BY DEF NoRoute, Routes, CallTypes
<1>3. CallTypes'
  BY <1>1, <1>2 DEF CallTypes
<1>4. Only(c)
  BY <1>1 DEF Only, CallTypes
<1>5. /\ phase'[c] = "settled" /\ answer'[c] = text /\ wires'[c] = Unsent
      /\ backups'[c] = NotPlanned /\ route'[c] \in Routes
      /\ (text # <<>> => route'[c] = route[c])
  BY <1>1, <1>2 DEF CallTypes
<1>6. wires'[c] = [tried |-> <<>>, sent |-> Unsent.sent]
  BY <1>5 DEF Unsent
<1>7. /\ wires'[c].tried = <<>> /\ wires'[c].sent = Unsent.sent
  BY <1>6
<1>8. SentOK(request'[c], wires'[c].sent) /\ TriedOK(request'[c], route'[c], backups'[c], wires'[c].tried)
  BY <1>5, <1>7, SentNothing, TriedNothing
<1>9. answer'[c] # <<>> => answer'[c] = Said(c, All(c))'
  BY <1>1, <1>5 DEF Said, All, Count
<1>10. CallOK(c)'
  BY <1>5, <1>6, <1>7, <1>8, <1>9 DEF CallOK, Asks
<1> QED BY <1>3, <1>4, <1>10 DEF Moves

(* A provider is tried: the call starts with it.                           *)
LEMMA Begins ==
  ASSUME CallTypes, NEW c \in Calls, NEW p \in Providers,
         NEW mode \in {"use", "refresh", "no-store"}, TryProvider(c, p, mode),
         request' = request, UNCHANGED world, answer' = answer, answer[c] = <<>>,
         backups' = [d \in Calls |-> backups'[d]],
         \A d \in Calls : d # c => backups'[d] = backups[d],
         TriedOK(request[c], route'[c], backups'[c], Append(wires[c].tried, <<p, 0>>)),
         <<route'[c].provider, route'[c].model>> \in ToSet(Append(wires[c].tried, <<p, 0>>))
  PROVE  Moves(c)
<1> DEFINE rt2 == [provider |-> p, model |-> 0, config |-> config, credential |-> 0, mode |-> mode]
           w2 == <<Frame(All(c))>>
           tried2 == Append(wires[c].tried, <<p, 0>>)
           wires2 == [tried |-> tried2, sent |-> Unsent.sent]
<1>1. /\ phase' = [phase EXCEPT ![c] = "resolving"] /\ route' = [route EXCEPT ![c] = rt2]
      /\ work' = [work EXCEPT ![c] = w2] /\ wires' = [wires EXCEPT ![c] = wires2]
      /\ config' = config /\ credential' = credential
  BY DEF TryProvider, Afresh, Goto, world
<1>2. rt2 \in Routes
  BY DEF Routes, CallTypes
<1> HIDE DEF rt2, w2, tried2
<1>3. CallTypes'
  <2> HIDE DEF wires2
  <2> QED BY <1>1, <1>2 DEF CallTypes
<1>4. Only(c)
  BY <1>1 DEF Only, CallTypes
<1>5. /\ phase'[c] = "resolving" /\ route'[c] = rt2 /\ work'[c] = w2 /\ wires'[c] = wires2
  BY <1>1 DEF CallTypes
<1>6. wires'[c].tried = tried2 /\ wires'[c].sent = Unsent.sent /\ answer'[c] = <<>>
  BY <1>5
<1>7. TriedOK(request'[c], route'[c], backups'[c], wires'[c].tried)
  BY <1>5, <1>6 DEF tried2
<1>8. <<route'[c].provider, route'[c].model>> \in ToSet(wires'[c].tried)
  BY <1>6 DEF tried2
<1>9. SentOK(request'[c], wires'[c].sent)
  BY <1>6, SentNothing
<1>10. work'[c] = <<Frame(All(c)')>>
  BY <1>5 DEF w2, All, Count
<1>11. CallOK(c)'
  BY <1>2, <1>5, <1>6, <1>7, <1>8, <1>9, <1>10 DEF CallOK, Asks
<1> QED BY <1>3, <1>4, <1>11 DEF Moves

(* A call is made.                                                         *)
LEMMA CallMoves ==
  ASSUME CallTypes, NEW c \in Calls, CallOK(c), Call(c)
  PROVE  Moves(c)
<1> DEFINE r == request[c]
           p == r.provider
<1>1. /\ phase[c] = "idle" /\ TryProvider(c, p, r.mode) /\ request' = request
      /\ backups' = backups /\ answer' = answer /\ UNCHANGED world
  BY DEF Call
<1>2. p \in Providers /\ r.mode \in {"use", "refresh", "no-store"}
  BY RequestOf
<1>3. wires[c].tried = <<>> /\ ~backups[c].planned /\ answer[c] = <<>>
      /\ TriedOK(r, route[c], backups[c], <<>>)
  BY <1>1 DEF CallOK
<1>4. route'[c].provider = p /\ route'[c].model = 0
  BY <1>1 DEF TryProvider, CallTypes
<1>5. /\ TriedOK(r, route'[c], backups[c], Append(<<>>, <<p, 0>>))
      /\ <<route'[c].provider, route'[c].model>> \in ToSet(Append(<<>>, <<p, 0>>))
  BY <1>2, <1>3, <1>4, TriedFirst
<1>6. backups' = [d \in Calls |-> backups'[d]] /\ backups'[c] = backups[c]
      /\ \A d \in Calls : d # c => backups'[d] = backups[d]
  BY <1>1 DEF CallTypes
<1>7. TryProvider(c, p, r.mode)
  BY <1>1
<1> DEFINE mode == r.mode
<1>8. p \in Providers /\ mode \in {"use", "refresh", "no-store"} /\ TryProvider(c, p, mode)
  BY <1>2, <1>7
<1>9. /\ TriedOK(request[c], route'[c], backups'[c], Append(wires[c].tried, <<p, 0>>))
      /\ <<route'[c].provider, route'[c].model>> \in ToSet(Append(wires[c].tried, <<p, 0>>))
  BY <1>3, <1>5, <1>6
<1> HIDE DEF p, r, mode
<1> QED BY <1>1, <1>3, <1>6, <1>8, <1>9, Begins

(* The credential arrives: the first batch is asked about.                 *)
LEMMA KeyResolvesMoves ==
  ASSUME CallTypes, NEW c \in Calls, CallOK(c), KeyResolves(c)
  PROVE  Moves(c)
<1> DEFINE rt == route[c]
           rt2 == [provider |-> rt.provider, model |-> rt.model, config |-> rt.config,
                   credential |-> credential, mode |-> rt.mode]
<1>1. /\ phase[c] = "resolving" /\ phase' = [phase EXCEPT ![c] = "asking"]
      /\ route' = [route EXCEPT ![c].credential = credential]
      /\ UNCHANGED <<world, request, backups, work, answer, wires>>
  BY DEF KeyResolves, Goto
<1>2. rt \in Routes /\ credential \in Nat
  BY DEF CallTypes
<1>3. /\ rt = [provider |-> rt.provider, model |-> rt.model, config |-> rt.config,
               credential |-> rt.credential, mode |-> rt.mode]
      /\ rt2 \in Routes
  <2> HIDE DEF rt
  <2> QED BY <1>2 DEF Routes
<1>4. route'[c] = rt2 /\ route' = [route EXCEPT ![c] = rt2]
  <2>1. route' = [route EXCEPT ![c] = [rt EXCEPT !.credential = credential]]
    BY <1>1
  <2> HIDE DEF rt
  <2>2. [rt EXCEPT !.credential = credential] = rt2
    BY <1>3
  <2> HIDE DEF rt2
  <2> QED BY <2>1, <2>2 DEF CallTypes
<1>5. rt2.provider = rt.provider /\ rt2.model = rt.model
  OBVIOUS
<1> HIDE DEF rt, rt2
<1>6. CallTypes'
  <2>1. route' \in [Calls -> Routes]
    BY ONLY <1>3, <1>4, CallTypes DEF CallTypes
  <2>2. phase' = [phase EXCEPT ![c] = "asking"]
        /\ UNCHANGED <<config, credential, request, backups, work, answer, wires>>
    BY <1>1 DEF world
  <2> QED BY ONLY <2>1, <2>2, CallTypes DEF CallTypes, Asks
<1>7. Only(c)
  BY <1>1, <1>4 DEF Only, CallTypes
<1>8. /\ phase'[c] = "asking" /\ request'[c] = request[c] /\ backups'[c] = backups[c]
      /\ work'[c] = work[c] /\ answer'[c] = answer[c] /\ wires'[c] = wires[c]
  BY <1>1 DEF CallTypes
<1>9. /\ wires[c] = [tried |-> wires[c].tried, sent |-> wires[c].sent]
      /\ SentOK(request[c], wires[c].sent) /\ wires[c].sent = Unsent.sent
      /\ TriedOK(request[c], rt, backups[c], wires[c].tried) /\ answer[c] = <<>>
      /\ <<rt.provider, rt.model>> \in ToSet(wires[c].tried) /\ work[c] = <<Frame(All(c))>>
  BY <1>1 DEF CallOK, rt
<1>10. TriedOK(request[c], rt2, backups[c], wires[c].tried)
  BY <1>5, <1>9 DEF TriedOK
<1>11. /\ StackOK(request[c], rt2, wires[c].sent, work[c])
       /\ AskOK(wires[c].sent, work[c][1]) /\ work[c][1].retries = 0
       /\ Times(wires[c].sent, work[c][1].batch) = 0
  <2>1. DOMAIN wires[c].sent = {}
    BY <1>9, SentNothing
  <2>2. Len(request[c].images) \in Nat \ {0}
        /\ work[c] = <<Frame(Span(1, Len(request[c].images)))>>
    BY <1>9, RequestOf
  <2> DEFINE r == request[c]
             sent == wires[c].sent
             w == work[c]
  <2>3. Len(r.images) \in Nat \ {0} /\ DOMAIN sent = {} /\ w = <<Frame(Span(1, Len(r.images)))>>
    BY <2>1, <2>2
  <2> HIDE DEF r, sent, w
  <2>4. /\ StackOK(r, rt2, sent, w) /\ AskOK(sent, w[1]) /\ w[1].retries = 0
        /\ Times(sent, w[1].batch) = 0
    BY ONLY <2>3, Started
  <2> QED BY <2>4 DEF r, sent, w
<1>12. CallOK(c)'
  BY <1>3, <1>4, <1>5, <1>8, <1>9, <1>10, <1>11 DEF CallOK, Asks
<1> QED BY <1>6, <1>7, <1>12 DEF Moves

(* A call that stays with its provider and its model.                      *)
LEMMA GainedMoves ==
  ASSUME CallTypes, NEW c \in Calls, CallOK(c), phase[c] \in Asks \cup {"joining"},
         NEW text, text = Said(c, Top(c).batch), Gained(c, text), UNCHANGED world
  PROVE  Moves(c)
<1> DEFINE r == request[c]
           rt == route[c]
           w == work[c]
           sent == wires[c].sent
<1>1. /\ StackOK(r, rt, sent, w) /\ Len(r.images) \in Nat \ {0} /\ Len(r.images) \in Nat
      /\ All(c) = Span(1, Len(r.images))
  BY RequestOf DEF CallOK
<1>2. w # <<>> /\ Head(w) = w[1]
  <2> HIDE DEF w, r, rt, sent
  <2> QED BY <1>1 DEF StackOK
<1>3. text = SaidOf(r, rt, w[1].batch)
  BY <1>2, CacheSays DEF Top
<1>4. CASE Len(w) = 1
  <2>1. w[1].batch = All(c)
    <3> HIDE DEF w, r, rt, sent
    <3> QED BY <1>1, <1>4 DEF StackOK
  <2>2. text = Said(c, All(c))
    BY <1>2, <2>1 DEF Top
  <2>3. Settle(c, text)
    BY <1>4 DEF Gained
  <2> QED BY <2>2, <2>3, Settles
<1>5. CASE Len(w) # 1
  <2> DEFINE v == Told(w, text)
  <2>1. /\ phase' = [phase EXCEPT ![c] = "joining"] /\ work' = [work EXCEPT ![c] = v]
        /\ UNCHANGED <<request, route, backups, answer, wires, world>>
    <3>1. Goto(c, "joining")
      BY <1>5, Zenon DEF Gained
    <3>3. UNCHANGED <<request, route, backups, answer, wires>>
      BY <1>5, Zenon DEF Gained
    <3>2. work' = [work EXCEPT ![c] = v]
      BY <1>5 DEF Gained
    <3> QED BY <3>1, <3>2, <3>3 DEF Goto
  <2>2. /\ StackOK(r, rt, sent, v)
        /\ \E m \in 1..Len(r.images) + 1 : SplitOK(r, rt, sent, v[1], m, m - 1)
    <3> DEFINE u == v
    <3>1. u = Told(w, text)
      OBVIOUS
    <3> HIDE DEF u, w, r, rt, sent
    <3>2. /\ StackOK(r, rt, sent, u)
          /\ \E m \in 1..Len(r.images) + 1 : SplitOK(r, rt, sent, u[1], m, m - 1)
      BY ONLY <1>1, <1>3, <1>5, <3>1, PartGained
    <3> QED BY <3>2 DEF u
  <2> HIDE DEF v
  <2>3. /\ phase'[c] = "joining" /\ work'[c] = v /\ answer'[c] = answer[c] /\ wires'[c] = wires[c]
        /\ request'[c] = r /\ route'[c] = rt /\ backups'[c] = backups[c]
    BY <2>1 DEF CallTypes
  <2>4. CallTypes' /\ Only(c)
    BY <2>1 DEF CallTypes, Only, world
  <2>5. /\ phase[c] \notin {"idle", "settled", "resolving"}
        /\ phase'[c] \notin {"idle", "settled", "resolving"} /\ phase'[c] \notin Asks
    BY <2>3 DEF Asks
  <2>6. \E m \in 1..Count(c)' + 1 :
          SplitOK(request'[c], route'[c], wires'[c].sent, work'[c][1], m, m - 1)
    BY <2>2, <2>3 DEF Count
  <2>7. /\ StackOK(request'[c], route'[c], wires'[c].sent, work'[c])
    BY <2>2, <2>3
  <2> HIDE DEF r, rt, w, sent
  <2>8. CallOK(c)'
    <3>1. /\ rt \in Routes /\ wires[c] = [tried |-> wires[c].tried, sent |-> wires[c].sent]
          /\ SentOK(r, wires[c].sent) /\ TriedOK(r, rt, backups[c], wires[c].tried)
          /\ <<rt.provider, rt.model>> \in ToSet(wires[c].tried) /\ answer[c] = <<>>
      BY <2>5 DEF CallOK, r, rt
    <3> QED BY <2>3, <2>5, <2>6, <2>7, <3>1 DEF CallOK
  <2> QED BY <2>4, <2>8 DEF Moves
<1> QED BY <1>4, <1>5

(* A call that goes on with its provider and its model.                    *)
LEMMA Continues ==
  ASSUME CallTypes, NEW c \in Calls, CallOK(c), phase[c] \in Asks \cup {"joining"},
         NEW where \in Asks \cup {"joining"}, NEW w,
         phase' = [phase EXCEPT ![c] = where], work' = [work EXCEPT ![c] = w],
         UNCHANGED <<request, route, backups, answer, wires, world>>,
         StackOK(request[c], route[c], wires[c].sent, w),
         where = "joining" =>
           \E m \in 1..Len(request[c].images) + 1 :
             SplitOK(request[c], route[c], wires[c].sent, w[1], m, m - 1),
         where # "joining" =>
           /\ AskOK(wires[c].sent, w[1])
           /\ Times(wires[c].sent, w[1].batch) = w[1].retries + (IF where = "sent" THEN 1 ELSE 0)
  PROVE  Moves(c)
<1>1. /\ phase'[c] = where /\ work'[c] = w /\ answer'[c] = answer[c] /\ wires'[c] = wires[c]
      /\ request'[c] = request[c] /\ route'[c] = route[c] /\ backups'[c] = backups[c]
  BY DEF CallTypes
<1>2. CallTypes' /\ Only(c)
  BY DEF CallTypes, Only, world
<1>3. /\ phase[c] \notin {"idle", "settled", "resolving"}
      /\ where \notin {"idle", "settled", "resolving"} /\ (where \in Asks => where # "joining")
  BY DEF Asks
<1>4. /\ route[c] \in Routes /\ wires[c] = [tried |-> wires[c].tried, sent |-> wires[c].sent]
      /\ SentOK(request[c], wires[c].sent)
      /\ TriedOK(request[c], route[c], backups[c], wires[c].tried)
      /\ <<route[c].provider, route[c].model>> \in ToSet(wires[c].tried) /\ answer[c] = <<>>
  BY <1>3 DEF CallOK
<1>5. Count(c)' = Len(request[c].images)
  BY DEF Count
<1>6. CallOK(c)'
  BY <1>1, <1>3, <1>4, <1>5 DEF CallOK
<1> QED BY <1>2, <1>6 DEF Moves

(* What a call knows of the batch it asks about.                           *)
LEMMA Asking ==
  ASSUME CallTypes, NEW c \in Calls, CallOK(c), phase[c] \in Asks
  PROVE  /\ StackOK(request[c], route[c], wires[c].sent, work[c]) /\ Top(c) = work[c][1]
         /\ work[c][1].batch \in Spans(Len(request[c].images)) /\ work[c][1].retries \in 0..MaxRetries
         /\ AskOK(wires[c].sent, work[c][1])
         /\ Times(wires[c].sent, work[c][1].batch) =
              work[c][1].retries + (IF phase[c] = "sent" THEN 1 ELSE 0)
<1>1. /\ StackOK(request[c], route[c], wires[c].sent, work[c])
      /\ AskOK(wires[c].sent, work[c][1])
      /\ Times(wires[c].sent, work[c][1].batch) =
           work[c][1].retries + (IF phase[c] = "sent" THEN 1 ELSE 0)
  BY DEF CallOK
<1>2. Len(request[c].images) \in Nat
  BY RequestOf
<1> DEFINE w == work[c]
           r == request[c]
           rt == route[c]
           sent == wires[c].sent
           f == w[1]
<1>3. StackOK(r, rt, sent, w) /\ Len(r.images) \in Nat
  BY <1>1, <1>2
<1> HIDE DEF w, r, rt, sent
<1>4. w \in Seq(Frames(r, rt)) /\ 1 \in 1..Len(w) /\ f \in Frames(r, rt) /\ f.batch \in Spans(Len(r.images))
  BY ONLY <1>3, StackFrames DEF f
<1>5. w # <<>>
  BY <1>3 DEF StackOK
<1>6. Head(w) = w[1]
  BY <1>4, <1>5
<1> HIDE DEF f
<1>7. f.retries \in 0..MaxRetries
  BY <1>3, <1>4, FrameFields
<1> QED BY <1>1, <1>4, <1>6, <1>7 DEF w, r, rt, sent, f, Top

(* The gate is entered.                                                    *)
LEMMA EnterGateMoves ==
  ASSUME CallTypes, NEW c \in Calls, CallOK(c), EnterGate(c)
  PROVE  Moves(c)
<1>1. /\ phase[c] \in {"asking", "sleeping"} /\ phase' = [phase EXCEPT ![c] = "admitted"]
      /\ UNCHANGED <<request, route, backups, answer, wires, world>> /\ work' = work
  BY DEF EnterGate, Goto
<1>2. phase[c] \in Asks /\ phase[c] # "sent" /\ "admitted" \in Asks \cup {"joining"}
  BY <1>1 DEF Asks
<1>3. work' = [work EXCEPT ![c] = work[c]]
  BY <1>1 DEF CallTypes
<1>4. /\ StackOK(request[c], route[c], wires[c].sent, work[c])
      /\ AskOK(wires[c].sent, work[c][1])
      /\ Times(wires[c].sent, work[c][1].batch) = work[c][1].retries + 0
  BY <1>2, Asking
<1> DEFINE where == "admitted"
<1>5. /\ where \in Asks \cup {"joining"} /\ where # "joining" /\ where # "sent"
      /\ phase' = [phase EXCEPT ![c] = where] /\ phase[c] \in Asks \cup {"joining"}
  BY <1>1, <1>2
<1> HIDE DEF where
<1> QED BY <1>1, <1>3, <1>4, <1>5, Continues

(* The next half of a split is asked about.                                *)
LEMMA NextPartMoves ==
  ASSUME CallTypes, NEW c \in Calls, CallOK(c), NextPart(c)
  PROVE  Moves(c)
<1> DEFINE r == request[c]
           rt == route[c]
           sent == wires[c].sent
           w == work[c]
           v == PartTaken(w)
           where == "asking"
<1>1. /\ phase[c] = "joining" /\ phase' = [phase EXCEPT ![c] = where]
      /\ UNCHANGED <<request, route, backups, answer, wires, world>>
      /\ work' = [work EXCEPT ![c] = v] /\ Head(w).left # <<>>
  BY DEF NextPart, Goto, Top
<1>2. /\ StackOK(r, rt, sent, w) /\ Len(r.images) \in Nat \ {0}
      /\ \E m \in 1..Len(r.images) + 1 : SplitOK(r, rt, sent, w[1], m, m - 1)
  BY <1>1, RequestOf DEF CallOK, Count
<1>3. where \in Asks \cup {"joining"} /\ where # "joining" /\ where # "sent"
      /\ phase[c] \in Asks \cup {"joining"}
  BY <1>1 DEF Asks
<1>4. v = PartTaken(w)
  OBVIOUS
<1> HIDE DEF r, rt, sent, w, v, where
<1>5. w[1].left # <<>>
  <2>1. w # <<>>
    BY <1>2 DEF StackOK
  <2> QED BY <1>1, <2>1
<1>6. PICK m \in 1..Len(r.images) + 1 : SplitOK(r, rt, sent, w[1], m, m - 1)
  BY <1>2
<1>7. /\ StackOK(r, rt, sent, v) /\ AskOK(sent, v[1])
      /\ v[1].retries = 0 /\ Times(sent, v[1].batch) = 0
  BY ONLY <1>2, <1>4, <1>5, <1>6, PartIsTaken
<1>8. Times(sent, v[1].batch) = v[1].retries + (IF where = "sent" THEN 1 ELSE 0)
  BY <1>3, <1>7
<1>9. /\ StackOK(request[c], route[c], wires[c].sent, v) /\ AskOK(wires[c].sent, v[1])
      /\ Times(wires[c].sent, v[1].batch) = v[1].retries + (IF where = "sent" THEN 1 ELSE 0)
  BY <1>7, <1>8 DEF r, rt, sent
<1> QED BY <1>1, <1>3, <1>9, Continues

(* The batch was too large.                                                *)
LEMMA SplitMoves ==
  ASSUME CallTypes, NEW c \in Calls, CallOK(c), phase[c] \in Asks, Len(Top(c).batch) > 1,
         Split(c), UNCHANGED world
  PROVE  Moves(c)
<1> DEFINE r == request[c]
           rt == route[c]
           sent == wires[c].sent
           w == work[c]
           v == Halved(w)
           where == "joining"
<1>1. /\ phase' = [phase EXCEPT ![c] = where] /\ work' = [work EXCEPT ![c] = v]
      /\ UNCHANGED <<request, route, backups, answer, wires, world>>
  BY DEF Split, Goto
<1>2. /\ StackOK(r, rt, sent, w) /\ AskOK(sent, w[1]) /\ Len(r.images) \in Nat \ {0}
      /\ Len(w[1].batch) > 1
  BY Asking, RequestOf
<1>3. \A s \in DOMAIN sent : s \in Spans(Len(r.images))
  BY DEF CallOK, SentOK
<1>4. where \in Asks \cup {"joining"} /\ where = "joining" /\ phase[c] \in Asks \cup {"joining"}
  OBVIOUS
<1>5. v = Halved(w)
  OBVIOUS
<1> HIDE DEF r, rt, sent, w, v, where
<1>6. /\ StackOK(r, rt, sent, v)
      /\ \E m \in 1..Len(r.images) + 1 : SplitOK(r, rt, sent, v[1], m, m - 1)
  BY ONLY <1>2, <1>3, <1>5, StackHalved
<1>7. /\ StackOK(request[c], route[c], wires[c].sent, v)
      /\ \E m \in 1..Len(request[c].images) + 1 :
           SplitOK(request[c], route[c], wires[c].sent, v[1], m, m - 1)
  BY <1>6 DEF r, rt, sent
<1> QED BY <1>1, <1>4, <1>7, Continues

(* A failure that may be retried.                                          *)
LEMMA RetryMoves ==
  ASSUME CallTypes, NEW c \in Calls, CallOK(c), phase[c] = "sent", Top(c).retries < MaxRetries,
         work' = [work EXCEPT ![c] = Again(@)], Goto(c, "sleeping"),
         UNCHANGED <<request, route, backups, answer, wires, world>>
  PROVE  Moves(c)
<1> DEFINE r == request[c]
           rt == route[c]
           sent == wires[c].sent
           w == work[c]
           v == Again(w)
           where == "sleeping"
<1>1. phase' = [phase EXCEPT ![c] = where] /\ work' = [work EXCEPT ![c] = v]
  BY DEF Goto
<1>2. phase[c] \in Asks /\ phase[c] \in Asks \cup {"joining"}
  BY DEF Asks
<1>3. /\ StackOK(r, rt, sent, w) /\ AskOK(sent, w[1]) /\ Len(r.images) \in Nat \ {0}
      /\ w[1].retries < MaxRetries /\ w[1].retries \in 0..MaxRetries
      /\ Times(sent, w[1].batch) = w[1].retries + 1
  BY <1>2, Asking, RequestOf
<1>4. where \in Asks \cup {"joining"} /\ where # "joining" /\ where # "sent"
  BY DEF Asks
<1>5. v = Again(w)
  OBVIOUS
<1> HIDE DEF r, rt, sent, w, v, where
<1>6. /\ StackOK(r, rt, sent, v) /\ AskOK(sent, v[1])
      /\ v[1].batch = w[1].batch /\ v[1].retries = w[1].retries + 1
  <2>1. /\ StackOK(r, rt, sent, w) /\ AskOK(sent, w[1]) /\ Len(r.images) \in Nat \ {0}
        /\ w[1].retries < MaxRetries
    BY <1>3
  <2> QED BY ONLY <1>5, <2>1, Retried
<1>7. Times(sent, v[1].batch) = v[1].retries + (IF where = "sent" THEN 1 ELSE 0)
  BY <1>3, <1>4, <1>6
<1>8. /\ StackOK(request[c], route[c], wires[c].sent, v) /\ AskOK(wires[c].sent, v[1])
      /\ Times(wires[c].sent, v[1].batch) = v[1].retries + (IF where = "sent" THEN 1 ELSE 0)
  BY <1>6, <1>7 DEF r, rt, sent
<1> QED BY <1>1, <1>2, <1>4, <1>8, Continues

(* The batch is sent.                                                      *)
LEMMA SendMoves ==
  ASSUME CallTypes, NEW c \in Calls, CallOK(c), Send(c)
  PROVE  Moves(c)
<1> DEFINE r == request[c]
           rt == route[c]
           sent == wires[c].sent
           w == work[c]
           b == w[1].batch
           sent2 == Counted(sent, b)
           wires2 == [tried |-> wires[c].tried, sent |-> sent2]
<1>1. /\ phase[c] = "admitted" /\ phase' = [phase EXCEPT ![c] = "sent"]
      /\ UNCHANGED <<request, route, backups, work, answer, world>>
  BY DEF Send, Goto
<1>2. phase[c] \in Asks /\ phase[c] # "sent"
  BY <1>1 DEF Asks
<1>3. /\ StackOK(r, rt, sent, w) /\ Top(c) = w[1] /\ b \in Spans(Len(r.images))
      /\ w[1].retries \in 0..MaxRetries /\ AskOK(sent, w[1]) /\ Times(sent, b) = w[1].retries + 0
      /\ Len(r.images) \in Nat
  BY <1>2, Asking, RequestOf
<1>4. /\ SentOK(r, sent) /\ wires[c] = [tried |-> wires[c].tried, sent |-> sent]
      /\ rt \in Routes /\ TriedOK(r, rt, backups[c], wires[c].tried)
      /\ <<rt.provider, rt.model>> \in ToSet(wires[c].tried) /\ answer[c] = <<>>
  BY <1>1 DEF CallOK
<1>5. wires' = [wires EXCEPT ![c] = wires2]
  <2>1. wires' = [wires EXCEPT ![c] = [wires[c] EXCEPT !.sent = sent2]]
    BY <1>3 DEF Send
  <2> HIDE DEF sent2
  <2>2. [wires[c] EXCEPT !.sent = sent2] = wires2
    BY <1>4
  <2> QED BY <2>1, <2>2
<1>6. wires2.tried = wires[c].tried /\ wires2.sent = sent2
  OBVIOUS
<1>7. /\ SentOK(r, sent2) /\ Times(sent2, b) = Times(sent, b) + 1
      /\ DOMAIN sent2 = DOMAIN sent \cup {b}
  <2> HIDE DEF sent, b, r
  <2>1. Times(sent, b) \in 0..MaxRetries
    BY <1>3, WorkloadsAssumption
  <2>2. SentOK(r, sent) /\ b \in Spans(Len(r.images))
    BY <1>3, <1>4
  <2>3. SentOK(r, Counted(sent, b))
    BY ONLY <2>1, <2>2, SentMore
  <2>4. DOMAIN Counted(sent, b) = DOMAIN sent \cup {b}
    BY DEF Counted
  <2>5. Times(Counted(sent, b), b) = Times(sent, b) + 1
    BY DEF Times, Counted
  <2> QED BY <2>3, <2>4, <2>5
<1> HIDE DEF sent2
<1>8. StackOK(r, rt, sent2, w)
  <2> HIDE DEF r, rt, sent, w
  <2> QED BY <1>3, <1>7, SentGrows DEF b
<1>9. AskOK(sent2, w[1])
  <2>1. Lo(b) <= Lo(b) /\ Hi(b) <= Hi(b)
    <3> HIDE DEF b, r
    <3> QED BY <1>3, SpansMember
  <2> HIDE DEF sent
  <2> QED BY <1>3, <1>7, <2>1 DEF AskOK, Clear
<1>10. Times(sent2, w[1].batch) = w[1].retries + 1
  BY <1>3, <1>7
<1> HIDE DEF wires2
<1>11. /\ phase'[c] = "sent" /\ request'[c] = r /\ route'[c] = rt /\ backups'[c] = backups[c]
       /\ work'[c] = w /\ answer'[c] = answer[c] /\ wires'[c] = wires2
  BY <1>1, <1>5 DEF CallTypes
<1>12. CallTypes' /\ Only(c)
  BY <1>1, <1>5 DEF CallTypes, Only, world, Asks
<1>13. /\ wires'[c].tried = wires[c].tried /\ wires'[c].sent = sent2
       /\ wires'[c] = [tried |-> wires'[c].tried, sent |-> wires'[c].sent]
  BY <1>6, <1>11 DEF wires2
<1> HIDE DEF r, rt, w, sent, b
<1>14. CallOK(c)'
  BY <1>4, <1>7, <1>8, <1>9, <1>10, <1>11, <1>13 DEF CallOK, Asks, b
<1> QED BY <1>12, <1>14 DEF Moves

(* The fallback to another model.                                          *)
LEMMA NextModelMoves ==
  ASSUME CallTypes, NEW c \in Calls, CallOK(c), phase[c] = "sent",
         route' = [route EXCEPT ![c].model = @ + 1],
         Afresh(c, route[c].provider, route[c].model + 1), Goto(c, "asking"),
         UNCHANGED <<request, backups, answer, world>>
  PROVE  Moves(c)
<1> DEFINE r == request[c]
           rt == route[c]
           m == rt.model + 1
           rt2 == [provider |-> rt.provider, model |-> m, config |-> rt.config,
                   credential |-> rt.credential, mode |-> rt.mode]
           tried2 == Append(wires[c].tried, <<rt.provider, m>>)
           w2 == <<Frame(All(c))>>
           wires2 == [tried |-> tried2, sent |-> Unsent.sent]
<1>1. /\ phase' = [phase EXCEPT ![c] = "asking"] /\ work' = [work EXCEPT ![c] = w2]
      /\ wires' = [wires EXCEPT ![c] = wires2]
      /\ UNCHANGED <<request, backups, answer, world>>
  BY DEF Afresh, Goto
<1>2. /\ rt \in Routes /\ TriedOK(r, rt, backups[c], wires[c].tried)
      /\ <<rt.provider, rt.model>> \in ToSet(wires[c].tried) /\ answer[c] = <<>>
      /\ Len(r.images) \in Nat \ {0} /\ All(c) = Span(1, Len(r.images))
  BY RequestOf DEF CallOK
<1>3. /\ rt = [provider |-> rt.provider, model |-> rt.model, config |-> rt.config,
               credential |-> rt.credential, mode |-> rt.mode]
      /\ m \in Nat /\ rt2 \in Routes
  <2> HIDE DEF rt
  <2> QED BY <1>2 DEF Routes
<1>4. route' = [route EXCEPT ![c] = rt2]
  <2>1. route' = [route EXCEPT ![c] = [rt EXCEPT !.model = m]]
    OBVIOUS
  <2> HIDE DEF rt, m
  <2>2. [rt EXCEPT !.model = m] = rt2
    BY <1>3
  <2> HIDE DEF rt2
  <2> QED BY <2>1, <2>2
<1>5. rt2.provider = rt.provider /\ rt2.model = rt.model + 1
  OBVIOUS
<1>6. wires2.tried = tried2 /\ wires2.sent = Unsent.sent
  OBVIOUS
<1>7. /\ TriedOK(r, rt2, backups[c], tried2)
      /\ <<rt2.provider, rt2.model>> \in ToSet(tried2)
  <2> HIDE DEF r, rt, rt2
  <2> QED BY <1>2, <1>5, TriedNextModel
<1> HIDE DEF tried2
<1>8. SentOK(r, Unsent.sent) /\ DOMAIN Unsent.sent = {}
  BY SentNothing
<1>9. /\ StackOK(r, rt2, Unsent.sent, w2) /\ AskOK(Unsent.sent, w2[1])
      /\ w2[1].retries = 0 /\ Times(Unsent.sent, w2[1].batch) = 0
  <2> DEFINE w == w2
             sent == Unsent.sent
  <2>1. w = <<Frame(Span(1, Len(r.images)))>> /\ Len(r.images) \in Nat \ {0} /\ DOMAIN sent = {}
    BY <1>2, <1>8
  <2> HIDE DEF w, sent, r, rt2
  <2>2. /\ StackOK(r, rt2, sent, w) /\ AskOK(sent, w[1])
        /\ w[1].retries = 0 /\ Times(sent, w[1].batch) = 0
    BY ONLY <2>1, Started
  <2> QED BY <2>2 DEF w, sent
<1> HIDE DEF w2, rt2, wires2
<1>10. /\ phase'[c] = "asking" /\ request'[c] = r /\ route'[c] = rt2 /\ backups'[c] = backups[c]
       /\ work'[c] = w2 /\ answer'[c] = answer[c] /\ wires'[c] = wires2
  BY <1>1, <1>4 DEF CallTypes
<1>11. CallTypes' /\ Only(c)
  <2>1. route' \in [Calls -> Routes]
    BY <1>3, <1>4 DEF CallTypes
  <2> QED BY <1>1, <1>4, <2>1 DEF CallTypes, Only, world, Asks
<1>12. /\ wires'[c].tried = tried2 /\ wires'[c].sent = Unsent.sent
       /\ wires'[c] = [tried |-> wires'[c].tried, sent |-> wires'[c].sent]
  BY <1>6, <1>10 DEF wires2
<1> HIDE DEF r, rt
<1>13. /\ AskOK(wires'[c].sent, work'[c][1])
       /\ Times(wires'[c].sent, work'[c][1].batch) = work'[c][1].retries + 0
       /\ StackOK(request'[c], route'[c], wires'[c].sent, work'[c])
  BY <1>9, <1>10, <1>12
<1>14. /\ SentOK(request'[c], wires'[c].sent) /\ route'[c] \in Routes /\ answer'[c] = <<>>
       /\ TriedOK(request'[c], route'[c], backups'[c], wires'[c].tried)
       /\ <<route'[c].provider, route'[c].model>> \in ToSet(wires'[c].tried)
  BY <1>2, <1>3, <1>7, <1>8, <1>10, <1>12
<1>15. CallOK(c)'
  BY <1>10, <1>12, <1>13, <1>14 DEF CallOK, Asks
<1> QED BY <1>11, <1>15 DEF Moves

(* The fallback to another provider.                                       *)
LEMMA NextProviderMoves ==
  ASSUME CallTypes, NEW c \in Calls, CallOK(c), phase[c] = "sent",
         NEW left \in Backups(c), left # <<>>,
         backups' = [backups EXCEPT ![c] = [planned |-> TRUE, left |-> Tail(left)]],
         TryProvider(c, Head(left).provider,
                     IF Head(left).probe THEN "no-store" ELSE request[c].mode),
         UNCHANGED <<request, answer, world>>
  PROVE  Moves(c)
<1> DEFINE r == request[c]
           rt == route[c]
           rt2 == route'[c]
           p == Head(left).provider
           mode == IF Head(left).probe THEN "no-store" ELSE request[c].mode
           b == backups[c]
           b2 == [planned |-> TRUE, left |-> Tail(left)]
           tried == wires[c].tried
<1>1. TriedOK(r, rt, b, tried) /\ answer[c] = <<>>
  BY DEF CallOK
<1>2. /\ left \in Seq(Backup)
      /\ \A i, j \in DOMAIN left : left[i].provider = left[j].provider => i = j
      /\ \A t \in ToSet(tried), i \in DOMAIN left : t[1] # left[i].provider
  <2>1. TriedOK(request[c], rt, backups[c], tried) /\ c \in Calls
        /\ left \in Backups(c) /\ left # <<>>
    BY <1>1
  <2> HIDE DEF rt, tried
  <2> QED BY ONLY <2>1, BackupsFacts
<1>3. rt2.provider = p /\ rt2.model = 0
  BY DEF TryProvider, CallTypes
<1>4. mode \in {"use", "refresh", "no-store"} /\ TryProvider(c, p, mode)
  BY RequestOf
<1>5. backups' = [backups EXCEPT ![c] = b2]
  OBVIOUS
<1>6. b2 = [planned |-> TRUE, left |-> Tail(left)]
  OBVIOUS
<1> HIDE DEF r, rt, rt2, mode, b, b2, tried
<1>7. /\ p \in Providers
      /\ TriedOK(r, rt2, b2, Append(tried, <<p, 0>>))
      /\ <<rt2.provider, rt2.model>> \in ToSet(Append(tried, <<p, 0>>))
  BY <1>1, <1>2, <1>3, <1>6, TriedNextProvider
<1>8. /\ backups' = [d \in Calls |-> backups'[d]] /\ backups'[c] = b2
      /\ \A d \in Calls : d # c => backups'[d] = backups[d]
  BY <1>5 DEF CallTypes
<1>9. /\ TriedOK(request[c], route'[c], backups'[c], Append(wires[c].tried, <<p, 0>>))
      /\ <<route'[c].provider, route'[c].model>> \in ToSet(Append(wires[c].tried, <<p, 0>>))
  BY <1>7, <1>8 DEF r, rt2, tried
<1>10. request' = request /\ answer' = answer /\ UNCHANGED world
  OBVIOUS
<1> HIDE DEF p
<1> QED BY ONLY <1>1, <1>4, <1>7, <1>8, <1>9, <1>10, CallTypes, c \in Calls, Begins

(* The error leaves the batch.                                             *)
LEMMA FailsMoves ==
  ASSUME CallTypes, NEW c \in Calls, CallOK(c), phase[c] = "sent", NEW error, Fails(c, error),
         UNCHANGED world
  PROVE  Moves(c)
<1>1. CASE /\ route' = [route EXCEPT ![c].model = @ + 1]
           /\ Afresh(c, route[c].provider, route[c].model + 1)
           /\ Goto(c, "asking")
           /\ UNCHANGED <<request, backups, answer>>
  BY <1>1, NextModelMoves
<1>2. CASE /\ \E left \in Backups(c) \ {<<>>} :
                /\ backups' = [backups EXCEPT ![c] = [planned |-> TRUE, left |-> Tail(left)]]
                /\ TryProvider(c, Head(left).provider,
                               IF Head(left).probe THEN "no-store" ELSE request[c].mode)
           /\ UNCHANGED <<request, answer>>
  BY <1>2, NextProviderMoves
<1>3. CASE Settle(c, <<>>)
  BY <1>3, Settles
<1> QED BY <1>1, <1>2, <1>3 DEF Fails

(* The endpoint fails.                                                     *)
LEMMA EndpointFailsMoves ==
  ASSUME CallTypes, NEW c \in Calls, CallOK(c), NEW error, EndpointFails(c, error)
  PROVE  Moves(c)
<1>1. phase[c] = "sent" /\ phase[c] \in Asks /\ UNCHANGED world
  BY DEF EndpointFails, Asks
<1>2. CASE Settle(c, <<>>)
  BY <1>1, <1>2, Settles
<1>3. CASE Len(Top(c).batch) > 1 /\ Split(c)
  BY <1>1, <1>3, SplitMoves
<1>4. CASE /\ MayRetry(c, error)
           /\ work' = [work EXCEPT ![c] = Again(@)]
           /\ Goto(c, "sleeping")
           /\ UNCHANGED <<request, route, backups, answer, wires>>
  BY <1>1, <1>4, RetryMoves DEF MayRetry
<1>5. CASE Fails(c, error)
  BY <1>1, <1>5, FailsMoves
<1> QED BY <1>2, <1>3, <1>4, <1>5 DEF EndpointFails

(* What is kept is said.                                                   *)
LEMMA KeepsSaying ==
  ASSUME CacheOK, NEW c \in Calls, Keep(c, Said(c, Top(c).batch))
  PROVE  CacheOK'
<1> DEFINE key == SemanticKey(c, Top(c).batch)
           text == Said(c, Top(c).batch)
<1>1. text = TextOf(key)
  BY CacheSays
<1>2. cache' = cache \/ cache' = CacheSet(key, text)
  BY DEF Keep
<1> HIDE DEF key, text
<1>3. CASE cache' = cache
  BY <1>3 DEF CacheOK
<1>4. CASE cache' = CacheSet(key, text)
  BY <1>1, <1>4, CacheKept
<1> QED BY <1>2, <1>3, <1>4

(* The endpoint answers.                                                   *)
LEMMA RespondsMoves ==
  ASSUME CallTypes, CacheOK, NEW c \in Calls, CallOK(c), Responds(c)
  PROVE  Moves(c) /\ CacheOK'
<1> DEFINE text == Said(c, Top(c).batch)
<1>1. /\ phase[c] \in Asks \cup {"joining"} /\ Keep(c, text) /\ Gained(c, text) /\ UNCHANGED world
  BY DEF Responds, Asks
<1>2. CacheOK'
  BY <1>1, KeepsSaying
<1>3. text = Said(c, Top(c).batch)
  OBVIOUS
<1> HIDE DEF text
<1> QED BY <1>1, <1>2, <1>3, GainedMoves

(* The parts were all answered: the text of the topmost batch says them.   *)
LEMMA JoinMoves ==
  ASSUME CallTypes, CacheOK, NEW c \in Calls, CallOK(c), Join(c)
  PROVE  Moves(c) /\ CacheOK'
<1> DEFINE r == request[c]
           rt == route[c]
           sent == wires[c].sent
           f == Top(c)
           text == f.text
<1>1. /\ phase[c] = "joining" /\ f.left = <<>> /\ Keep(c, text) /\ Gained(c, text)
      /\ UNCHANGED world
  BY DEF Join
<1>2. /\ StackOK(r, rt, sent, work[c]) /\ Len(r.images) \in Nat \ {0}
      /\ \E m \in 1..Len(r.images) + 1 : SplitOK(r, rt, sent, work[c][1], m, m - 1)
  BY <1>1, RequestOf DEF CallOK, Count
<1>3. f = work[c][1]
  <2> DEFINE w == work[c]
  <2> HIDE DEF r, rt, sent, w
  <2>1. w # <<>>
    BY <1>2 DEF StackOK, w
  <2> QED BY <2>1 DEF w, Top
<1>4. Said(c, f.batch) = SaidOf(r, rt, f.batch)
  BY CacheSays
<1> HIDE DEF r, rt, sent, f
<1>5. PICK m \in 1..Len(r.images) + 1 : SplitOK(r, rt, sent, f, m, m - 1)
  BY <1>2, <1>3
<1>6. f.text = SaidOf(r, rt, f.batch)
  BY <1>1, <1>2, <1>5, JoinedSaid
<1>7. text = Said(c, Top(c).batch)
  BY <1>4, <1>6 DEF f
<1> HIDE DEF text
<1>8. CacheOK'
  BY <1>1, <1>7, KeepsSaying
<1>9. phase[c] \in Asks \cup {"joining"}
  BY <1>1
<1> QED BY <1>1, <1>7, <1>8, <1>9, GainedMoves

(* The cache answers.                                                      *)
LEMMA FromCacheMoves ==
  ASSUME CallTypes, CacheOK, NEW c \in Calls, CallOK(c), FromCache(c)
  PROVE  Moves(c)
<1>1. PICK i \in Cached(SemanticKey(c, Top(c).batch)) : Gained(c, cache[i].text)
  BY DEF FromCache
<1> DEFINE text == cache[i].text
<1>2. text = Said(c, Top(c).batch)
  BY CacheSays
<1>3. phase[c] \in Asks \cup {"joining"} /\ Gained(c, text) /\ UNCHANGED world
  BY <1>1 DEF FromCache, Asks
<1> HIDE DEF text
<1> QED BY <1>2, <1>3, GainedMoves

(* An abort moves nothing of the call but its signal.                      *)
LEMMA AbortCallMoves ==
  ASSUME CallTypes, NEW c \in Calls, CallOK(c), UNCHANGED <<phase, mine, world>>
  PROVE  Moves(c)
<1>1. UNCHANGED <<phase, request, route, backups, work, answer, wires, config, credential>>
  BY DEF mine, world
<1>2. CallTypes' /\ Only(c)
  BY <1>1 DEF CallTypes, Only
<1>3. CallOK(c)'
  BY <1>1, CallStays
<1> QED BY <1>2, <1>3 DEF Moves

(* A step of a call.                                                       *)
LEMMA StepMoves ==
  ASSUME CallTypes, CacheOK, NEW c \in Calls, CallOK(c),
         Call(c) \/ AbortCall(c) \/ Step(c)
  PROVE  Moves(c) /\ CacheOK'
<1> USE CallTypes, CacheOK, CallOK(c)
<1>1. CASE Call(c)
  BY <1>1, CallMoves DEF Call, CacheOK
<1>2. CASE AbortCall(c)
  BY <1>2, AbortCallMoves DEF AbortCall, CacheOK
<1>3. CASE KeyResolves(c)
  BY <1>3, KeyResolvesMoves DEF KeyResolves, CacheOK
<1>4. CASE KeyFails(c)
  BY <1>4, Settles DEF KeyFails, CacheOK
<1>5. CASE FromCache(c)
  BY <1>5, FromCacheMoves DEF FromCache, CacheOK
<1>6. CASE EnterGate(c)
  BY <1>6, EnterGateMoves DEF EnterGate, CacheOK
<1>7. CASE Abandon(c)
  BY <1>7, Settles DEF Abandon, CacheOK
<1>8. CASE Send(c)
  BY <1>8, SendMoves DEF Send, CacheOK
<1>9. CASE Responds(c)
  BY <1>9, RespondsMoves
<1>10. CASE NextPart(c)
  BY <1>10, NextPartMoves DEF NextPart, CacheOK
<1>11. CASE Join(c)
  BY <1>11, JoinMoves
<1>12. CASE \E error \in Errors : EndpointFails(c, error)
  BY <1>12, EndpointFailsMoves DEF EndpointFails, CacheOK
<1> QED BY <1>1, <1>2, <1>3, <1>4, <1>5, <1>6, <1>7, <1>8, <1>9, <1>10, <1>11, <1>12 DEF Step
-----------------------------------------------------------------------------
(* Calls that were not made satisfy the invariant.                         *)
LEMMA CallInitIInv ==
  ASSUME CallInit
  PROVE  CallIInv
<1>1. /\ cache = <<>> /\ config = 0 /\ credential = 0 /\ request \in Workloads
      /\ phase = [c \in Calls |-> "idle"] /\ route = [c \in Calls |-> NoRoute]
      /\ backups = [c \in Calls |-> NotPlanned] /\ work = [c \in Calls |-> <<>>]
      /\ answer = [c \in Calls |-> <<>>] /\ wires = [c \in Calls |-> Unsent]
  BY DEF CallInit
<1>2. NoRoute \in Routes
  BY DEF NoRoute, Routes
<1>3. CallTypes
  BY <1>1, <1>2 DEF CallTypes, Asks
<1>4. CacheOK
  <2>1. cache \in Seq(ToSet(cache)) /\ ToSet(cache) = {}
    BY <1>1, ToSetEmpty
  <2> QED BY <2>1 DEF CacheOK
<1>5. ASSUME NEW c \in Calls PROVE CallOK(c)
  <2>1. /\ phase[c] = "idle" /\ route[c] \in Routes /\ backups[c] = NotPlanned
        /\ answer[c] = <<>> /\ wires[c] = Unsent
    BY <1>1, <1>2
  <2>2. /\ Unsent = [tried |-> <<>>, sent |-> Unsent.sent] /\ Unsent.tried = <<>>
    BY DEF Unsent
  <2>3. ~NotPlanned.planned
    BY DEF NotPlanned
  <2>4. SentOK(request[c], Unsent.sent) /\ TriedOK(request[c], route[c], NotPlanned, <<>>)
    BY SentNothing, TriedNothing
  <2> QED BY <2>1, <2>2, <2>3, <2>4 DEF CallOK, Asks
<1> QED BY <1>3, <1>4, <1>5 DEF CallIInv

(* No step breaks it.                                                      *)
LEMMA CallNextIInv ==
  ASSUME CallIInv, [CallNext]_callVars
  PROVE  CallIInv'
<1>1. ASSUME NEW c \in Calls, Call(c) \/ AbortCall(c) \/ Step(c) PROVE CallIInv'
  <2>1. CallTypes /\ CacheOK /\ CallOK(c)
    BY DEF CallIInv
  <2>2. Moves(c) /\ CacheOK'
    BY <1>1, <2>1, StepMoves
  <2> QED BY <2>2, CallsMove
<1>2. ASSUME UNCHANGED <<phase, mine>>, CacheOK', config' \in Nat, credential' \in Nat
      PROVE  CallIInv'
  <2>1. UNCHANGED <<phase, request, route, backups, work, answer, wires>>
    BY <1>2 DEF mine
  <2>2. CallTypes'
    BY <1>2, <2>1 DEF CallTypes, CallIInv
  <2>3. ASSUME NEW c \in Calls PROVE CallOK(c)'
    BY <2>1, CallStays DEF CallIInv
  <2> QED BY <1>2, <2>2, <2>3 DEF CallIInv
<1>3. CacheOK /\ config \in Nat /\ credential \in Nat
  BY DEF CallIInv, CallTypes
<1>4. CASE Expire
  <2>1. CacheOK' /\ UNCHANGED <<phase, mine>> /\ config' = config /\ credential' = credential
    BY <1>3, <1>4, CacheExpires DEF Expire, world
  <2> QED BY <1>2, <1>3, <2>1
<1>5. CASE ConfigChanges
  <2>1. CacheOK' /\ UNCHANGED <<phase, mine>> /\ config' = config + 1 /\ credential' = credential
    BY <1>3, <1>5 DEF ConfigChanges, CacheOK
  <2> QED BY <1>2, <1>3, <2>1
<1>6. CASE CredentialChanges
  <2>1. CacheOK' /\ UNCHANGED <<phase, mine>> /\ config' = config /\ credential' = credential + 1
    BY <1>3, <1>6 DEF CredentialChanges, CacheOK
  <2> QED BY <1>2, <1>3, <2>1
<1>7. CASE UNCHANGED callVars
  <2>1. CacheOK' /\ UNCHANGED <<phase, mine>> /\ config' = config /\ credential' = credential
    BY <1>3, <1>7 DEF callVars, CacheOK, world
  <2> QED BY <1>2, <1>3, <2>1
<1> QED BY <1>1, <1>4, <1>5, <1>6, <1>7 DEF CallNext

(* The invariant says what the properties do: an answer is what its own    *)
(* provider says of the whole request, and no model is tried twice nor a   *)
(* batch sent too often.                                                   *)
LEMMA CallIInvSuffices ==
  ASSUME CallIInv
  PROVE  AnswerIsWhole /\ WorkIsBounded
<1>1. MaxRetries \in Nat
  BY WorkloadsAssumption
<1>2. ASSUME NEW c \in Calls
      PROVE  /\ answer[c] # <<>> => answer[c] = Said(c, All(c))
             /\ SentOK(request[c], wires[c].sent)
             /\ TriedOK(request[c], route[c], backups[c], wires[c].tried)
  BY DEF CallIInv, CallOK
<1>3. AnswerIsWhole
  BY <1>2 DEF AnswerIsWhole
<1>4. ASSUME NEW c \in Calls
      PROVE  /\ IsInjective(wires[c].tried)
             /\ \A b \in DOMAIN wires[c].sent : wires[c].sent[b] <= MaxRetries + 1
  <2> DEFINE sent == wires[c].sent
  <2>1. SentOK(request[c], sent)
    BY <1>2
  <2> HIDE DEF sent
  <2>2. \A b \in DOMAIN sent : sent[b] \in 1..MaxRetries + 1
    BY ONLY <2>1 DEF SentOK
  <2>3. \A b \in DOMAIN sent : sent[b] <= MaxRetries + 1
    BY <1>1, <2>2
  <2>4. IsInjective(wires[c].tried)
    BY <1>2 DEF TriedOK
  <2> QED BY <2>3, <2>4 DEF sent
<1> QED BY <1>3, <1>4 DEF WorkIsBounded

(* The stack of every call, the models it tried and what it sent, and the  *)
(* cache that all calls share are always well formed: each batch that is   *)
(* asked about extends the text of the one it was split from, in order.    *)
THEOREM CallsInvariant == CallSpec => []CallIInv
<1>1. CallInit => CallIInv
  BY CallInitIInv
<1>2. CallIInv /\ [CallNext]_callVars => CallIInv'
  BY CallNextIInv
<1> QED BY <1>1, <1>2, PTL DEF CallSpec

(* Whatever is split, retried, moved to another model or provider, taken   *)
(* from the cache that other calls fill or aborted, with any number of     *)
(* calls and images, any limits and any plans of fallbacks: a call that    *)
(* answers answers about each of its own images once, in order, all of it  *)
(* said by the provider, model, endpoint and credential of its snapshot.   *)
THEOREM AnswerIsWholeAlways == CallSpec => []AnswerIsWhole
<1>1. CallIInv => AnswerIsWhole
  BY CallIInvSuffices
<1> QED BY <1>1, CallsInvariant, PTL

(* No call comes to a model of a provider twice, nor sends it one batch    *)
(* more often than the retries allow: splits, retries and fallbacks do not *)
(* multiply.                                                               *)
THEOREM WorkIsBoundedAlways == CallSpec => []WorkIsBounded
<1>1. CallIInv => WorkIsBounded
  BY CallIInvSuffices
<1> QED BY <1>1, CallsInvariant, PTL
=============================================================================
