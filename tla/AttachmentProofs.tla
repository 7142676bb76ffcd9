-------------------------- MODULE AttachmentProofs --------------------------
(***************************************************************************)
(* Proofs about the attachment index and about the sends that change it,   *)
(* for every set of sessions, batches and callers and all caps.            *)
(***************************************************************************)
EXTENDS AttachmentIndex, SendHook, SequenceLemmas

(* A batch in the history of session s has all its images, in order.       *)
Entry(s, h) ==
  /\ h \in Batch
  /\ SessionOf[h.batch] = s
  /\ h.images = ImagesOf[h.batch]
  /\ Complete(h)

(* A routing batch of session s: images of its own at their positions.     *)
Routed(s, r) ==
  /\ r \in Session
  /\ SessionOf[r.batch] = s
  /\ DOMAIN r.images = DOMAIN ImagesOf[r.batch]
  /\ \A i \in DOMAIN r.images : r.images[i] \in {ImagesOf[r.batch][i], None}
  /\ Len(r.history) <= MaxHistory
  /\ \A h \in ToSet(r.history) : Entry(s, h)

SessionsOK(sessions) ==
  /\ sessions \in [Sessions -> Session \cup {None}]
  /\ \A s \in Open(sessions) : Routed(s, sessions[s])

IsIndex(index) ==
  /\ index = [refs |-> index.refs, sessions |-> index.sessions]
  /\ index.refs \in Seq(Images) /\ IsInjective(index.refs)
  /\ SessionsOK(index.sessions)

(* The images of all batches are known.                                    *)
Rooted(index) == Pinned(index.sessions) \ {None} \subseteq ToSet(index.refs)

Capped(index) == Len(index.refs) > MaxRefs => ToSet(index.refs) \subseteq Pinned(index.sessions)

(* The histories that stay do so, but for a batch at the end.              *)
Grows(old, new) ==
  \A s \in Open(old.sessions) : s \in Open(new.sessions) =>
    \/ new.sessions[s].history = old.sessions[s].history
    \/ /\ new.sessions[s].history # <<>>
       /\ new.sessions[s].history =
            Newest(Append(old.sessions[s].history, Last(new.sessions[s].history)), MaxHistory)

(* The newest elements are some of them, at most n, and the last is last.  *)
LEMMA NewestFacts ==
  ASSUME NEW S, NEW q \in Seq(S), NEW n \in Nat
  PROVE  /\ Newest(q, n) \in Seq(S)
         /\ Len(Newest(q, n)) <= n
         /\ Newest(Newest(q, n), n) = Newest(q, n)
         /\ ToSet(Newest(q, n)) \subseteq ToSet(q)
         /\ IsInjective(q) => IsInjective(Newest(q, n))
         /\ n # 0 /\ q # <<>> => Newest(q, n) # <<>> /\ Last(Newest(q, n)) = Last(q)
<1> DEFINE m == Len(q) - n
           new == SubSeq(q, m + 1, Len(q))
<1>1. CASE ~(Len(q) > n)
  <2>1. Newest(q, n) = q
    BY <1>1 DEF Newest
  <2> QED BY <1>1, <2>1
<1>2. CASE Len(q) > n
  <2>1. Newest(q, n) = new
    BY <1>2 DEF Newest
  <2>2. /\ m \in Nat /\ m + 1 \in 1..Len(q) + 1
        /\ new \in Seq(S) /\ Len(new) = n
        /\ \A i \in 1..n : new[i] = q[m + i]
    BY <1>2
  <2>3. /\ DOMAIN new = 1..n /\ DOMAIN q = 1..Len(q)
        /\ \A i \in 1..n : m + i \in 1..Len(q)
    BY <1>2, <2>2
  <2> HIDE DEF new
  <2>4. ToSet(new) \subseteq ToSet(q)
    <3>1. \A i \in DOMAIN new : m + i \in DOMAIN q /\ new[i] = q[m + i]
      BY <2>2, <2>3
    <3> HIDE DEF m
    <3> QED BY ONLY <3>1 DEF ToSet
  <2>5. IsInjective(q) => IsInjective(new)
    <3> SUFFICES ASSUME IsInjective(q), NEW i \in DOMAIN new, NEW j \in DOMAIN new,
                        new[i] = new[j]
                 PROVE  i = j
      BY DEF IsInjective
    <3>0. i \in 1..n /\ j \in 1..n
      BY <2>3
    <3>1. q[m + i] = q[m + j] /\ m + i \in DOMAIN q /\ m + j \in DOMAIN q
      BY <2>2, <2>3, <3>0
    <3>2. m + i = m + j
      BY <3>1 DEF IsInjective
    <3> QED BY <2>2, <3>0, <3>2
  <2>6. n # 0 => new # <<>> /\ Last(new) = Last(q)
    <3> SUFFICES ASSUME n # 0 PROVE new # <<>> /\ Last(new) = Last(q)
      OBVIOUS
    <3>1. n \in 1..n /\ m + n = Len(q)
      BY <1>2
    <3> QED BY <2>2, <3>1 DEF Last
  <2>7. Newest(new, n) = new
    BY <2>2 DEF Newest
  <2> QED BY <2>1, <2>2, <2>4, <2>5, <2>6, <2>7
<1> QED BY <1>1, <1>2

(* Trimming leaves the sessions alone and the pinned images in place, and  *)
(* goes down to the cap or to the pinned images.                           *)
LEMMA TrimFacts ==
  ASSUME NEW index,
         index = [refs |-> index.refs, sessions |-> index.sessions],
         index.refs \in Seq(Images), IsInjective(index.refs)
  PROVE  /\ TrimRefs(index) = [refs |-> TrimRefs(index).refs, sessions |-> index.sessions]
         /\ TrimRefs(index).sessions = index.sessions
         /\ TrimRefs(index).refs \in Seq(Images) /\ IsInjective(TrimRefs(index).refs)
         /\ ToSet(index.refs) \cap Pinned(index.sessions) \subseteq ToSet(TrimRefs(index).refs)
         /\ Capped(TrimRefs(index))
<1> DEFINE refs == index.refs
           pinned == Pinned(index.sessions)
           loose == Omit(refs, pinned)
           excess == Len(refs) - MaxRefs
           drop == {loose[i] : i \in 1..excess \cap DOMAIN loose}
           new == Omit(refs, drop)
<1>0. MaxRefs \in Nat /\ Len(refs) \in Nat /\ excess \in Int
  BY BatchAssumption
<1>1. CASE excess <= 0
  <2>1. TrimRefs(index) = index
    BY <1>1 DEF TrimRefs
  <2>2. ~(Len(refs) > MaxRefs)
    BY <1>0, <1>1
  <2> HIDE DEF excess
  <2> QED BY <2>1, <2>2 DEF Capped
<1>2. CASE ~(excess <= 0)
  <2>1. TrimRefs(index) = [index EXCEPT !.refs = Omit(@, drop)]
    BY <1>2 DEF TrimRefs
  <2>2. TrimRefs(index) = [refs |-> new, sessions |-> index.sessions]
    <3> HIDE DEF drop, new
    <3>1. TrimRefs(index) = [index EXCEPT !.refs = new]
      BY <2>1 DEF new
    <3>2. index = [refs |-> refs, sessions |-> index.sessions]
      OBVIOUS
    <3>3. [[refs |-> refs, sessions |-> index.sessions] EXCEPT !.refs = new]
             = [refs |-> new, sessions |-> index.sessions]
      OBVIOUS
    <3> QED BY <3>1, <3>2, <3>3
  <2>3. /\ loose \in Seq(Images) /\ IsInjective(loose)
        /\ ToSet(loose) = ToSet(refs) \ pinned
    BY OmitKeeps, OmitInjective
  <2>4. drop \subseteq ToSet(loose)
    <3> HIDE DEF loose
    <3> QED BY DEF ToSet
  <2>5. /\ new \in Seq(Images) /\ IsInjective(new)
        /\ ToSet(new) = ToSet(refs) \ drop
    <3> HIDE DEF drop
    <3> QED BY OmitKeeps, OmitInjective
  <2>6. ToSet(refs) \cap pinned \subseteq ToSet(new)
    <3> HIDE DEF new, drop, loose, pinned
    <3> QED BY <2>3, <2>4, <2>5
  <2>7. Len(new) > MaxRefs => ToSet(new) \subseteq pinned
    <3>1. CASE Len(loose) <= excess
      <4>1. ToSet(loose) \subseteq drop
        <5>1. DOMAIN loose \subseteq 1..excess
          BY <3>1, <1>0, <2>3
        <5> HIDE DEF loose, excess
        <5> QED BY <5>1 DEF ToSet
      <4> HIDE DEF new, drop, loose, pinned
      <4> QED BY <4>1, <2>3, <2>5
    <3>2. CASE ~(Len(loose) <= excess)
      <4> HIDE DEF loose, new
      <4>0. Len(loose) \in Nat /\ excess \in Nat /\ excess \in 1..Len(loose)
        BY <3>2, <1>0, <1>2, <2>3
      <4> DEFINE first == SubSeq(loose, 1, excess)
      <4>1. /\ first \in Seq(Images) /\ Len(first) = excess /\ DOMAIN first = 1..excess
            /\ DOMAIN loose = 1..Len(loose)
            /\ \A i \in 1..excess : first[i] = loose[i] /\ i \in 1..Len(loose)
        BY <2>3, <4>0
      <4> HIDE DEF first, excess
      <4>2. IsInjective(first)
        BY <4>1, <2>3 DEF IsInjective
      <4>3. ToSet(first) = drop
        <5>1. 1..excess \cap DOMAIN loose = 1..excess
          BY <4>1
        <5> QED BY <4>1, <5>1 DEF ToSet
      <4>4. IsFiniteSet(drop) /\ Cardinality(drop) = excess
        BY <4>1, <4>2, <4>3, InjectiveCount
      <4>5. IsFiniteSet(ToSet(refs)) /\ Cardinality(ToSet(refs)) = Len(refs)
        BY InjectiveCount
      <4>6. IsFiniteSet(ToSet(new)) /\ Cardinality(ToSet(new)) = Len(new)
        BY <2>5, InjectiveCount
      <4> HIDE DEF drop
      <4>7. drop \subseteq ToSet(refs)
        BY <2>3, <2>4
      <4>8. Cardinality(ToSet(refs) \ drop) = Len(refs) - excess
        <5>1. Cardinality(ToSet(refs) \ drop) =
                Cardinality(ToSet(refs)) - Cardinality(ToSet(refs) \cap drop)
          BY <4>5, FS_Difference
        <5>2. ToSet(refs) \cap drop = drop
          BY <4>7
        <5> QED BY <5>1, <5>2, <4>4, <4>5
      <4>9. Len(new) = Len(refs) - excess
        BY <4>6, <4>8, <2>5
      <4> QED BY <4>9, <1>0 DEF excess
    <3> QED BY <3>1, <3>2
  <2> HIDE DEF new, pinned
  <2>8. TrimRefs(index).refs = new /\ TrimRefs(index).sessions = index.sessions
    BY <2>2
  <2> QED BY <2>2, <2>5, <2>6, <2>7, <2>8 DEF Capped, pinned
<1> QED BY <1>1, <1>2

(* So a mutation ends well whose draft, before it is trimmed, is sound.    *)
LEMMA TrimKeeps ==
  ASSUME NEW old, NEW index,
         index = [refs |-> index.refs, sessions |-> index.sessions],
         index.refs \in Seq(Images), IsInjective(index.refs),
         SessionsOK(index.sessions),
         Rooted(old) => Rooted(index),
         Grows(old, index)
  PROVE  /\ IsIndex(TrimRefs(index)) /\ Capped(TrimRefs(index))
         /\ Rooted(old) => Rooted(TrimRefs(index))
         /\ Grows(old, TrimRefs(index))
         /\ TrimRefs(index).sessions = index.sessions
<1> DEFINE new == TrimRefs(index)
<1>1. /\ new = [refs |-> new.refs, sessions |-> index.sessions]
      /\ new.sessions = index.sessions
      /\ new.refs \in Seq(Images) /\ IsInjective(new.refs)
      /\ ToSet(index.refs) \cap Pinned(index.sessions) \subseteq ToSet(new.refs)
      /\ Capped(new)
  BY TrimFacts
<1> HIDE DEF new
<1>2. IsIndex(new)
  BY <1>1 DEF IsIndex
<1>3. Rooted(old) => Rooted(new)
  BY <1>1 DEF Rooted
<1>4. Grows(old, new)
  BY <1>1 DEF Grows
<1> QED BY <1>1, <1>2, <1>3, <1>4 DEF new

(* What a mutation may put in the place of one session: nothing, or a      *)
(* session with known images and the history of before, but for a batch at *)
(* the end.                                                                *)
Fits(old, refs, s, r) ==
  r # None =>
    /\ Routed(s, r)
    /\ ToSet(r.images) \subseteq Pinned(old.sessions) \cup ToSet(refs) \cup {None}
    /\ \A h \in ToSet(r.history) : ToSet(h.images) \subseteq Pinned(old.sessions)
    /\ s \in Open(old.sessions) =>
         \/ r.history = old.sessions[s].history
         \/ /\ r.history # <<>>
            /\ r.history = Newest(Append(old.sessions[s].history, Last(r.history)), MaxHistory)

(* A mutation changes the entry of one session, may drop others, and knows *)
(* all images it pins.                                                     *)
LEMMA OneSession ==
  ASSUME NEW old, IsIndex(old),
         NEW s \in Sessions, NEW r,
         NEW refs \in Seq(Images), IsInjective(refs), ToSet(old.refs) \subseteq ToSet(refs),
         NEW sessions \in [Sessions -> Session \cup {None}],
         \A t \in Open(sessions) : sessions[t] = [old.sessions EXCEPT ![s] = r][t],
         Fits(old, refs, s, r),
         NEW index, index = [refs |-> refs, sessions |-> sessions]
  PROVE  /\ IsIndex(TrimRefs(index)) /\ Capped(TrimRefs(index))
         /\ Rooted(old) => Rooted(TrimRefs(index))
         /\ Grows(old, TrimRefs(index))
         /\ TrimRefs(index).sessions = sessions
<1>0. /\ index.refs = refs /\ index.sessions = sessions
      /\ index = [refs |-> index.refs, sessions |-> index.sessions]
  OBVIOUS
<1>1. /\ old.sessions \in [Sessions -> Session \cup {None}]
      /\ \A t \in Open(old.sessions) : Routed(t, old.sessions[t])
  BY DEF IsIndex, SessionsOK
<1>2. ASSUME NEW t \in Open(sessions)
      PROVE  /\ t \in Sessions /\ sessions[t] # None
             /\ t = s => sessions[t] = r /\ r # None
             /\ t # s => sessions[t] = old.sessions[t] /\ t \in Open(old.sessions)
  <2>1. t \in Sessions /\ sessions[t] # None
    BY DEF Open
  <2>2. sessions[t] = [old.sessions EXCEPT ![s] = r][t]
    OBVIOUS
  <2>3. [old.sessions EXCEPT ![s] = r][t] = IF t = s THEN r ELSE old.sessions[t]
    BY <1>1, <2>1
  <2> QED BY <2>1, <2>2, <2>3 DEF Open
<1>3. SessionsOK(sessions)
  BY <1>1, <1>2 DEF SessionsOK, Fits
<1>4. Rooted(old) => Rooted(index)
  <2> SUFFICES ASSUME Rooted(old), NEW t \in Open(sessions), NEW x, x # None,
                      \/ x \in ToSet(sessions[t].images)
                      \/ \E h \in ToSet(sessions[t].history) : x \in ToSet(h.images)
               PROVE  x \in ToSet(refs)
    BY <1>0 DEF Rooted, Pinned
  <2>1. x \in Pinned(old.sessions) \/ x \in ToSet(refs)
    <3>1. CASE t = s
      BY <3>1, <1>2 DEF Fits
    <3>2. CASE t # s
      BY <3>2, <1>2 DEF Pinned
    <3> QED BY <3>1, <3>2
  <2> QED BY <2>1 DEF Rooted
<1>5. Grows(old, index)
  <2> SUFFICES ASSUME NEW t \in Open(old.sessions), t \in Open(sessions)
               PROVE  \/ sessions[t].history = old.sessions[t].history
                      \/ /\ sessions[t].history # <<>>
                         /\ sessions[t].history =
                              Newest(Append(old.sessions[t].history, Last(sessions[t].history)),
                                     MaxHistory)
    BY <1>0 DEF Grows
  <2>1. CASE t = s
    <3>1. sessions[t] = r /\ r # None /\ s \in Open(old.sessions)
      BY <2>1, <1>2
    <3> QED BY <2>1, <3>1 DEF Fits
  <2>2. CASE t # s
    BY <2>2, <1>2
  <2> QED BY <2>1, <2>2
<1> QED BY <1>0, <1>3, <1>4, <1>5, TrimKeeps
-----------------------------------------------------------------------------
(* What an operation makes of an index.                                    *)
Sound(old, outcome) ==
  /\ IsIndex(outcome.index)
  /\ Rooted(old) => Rooted(outcome.index)
  /\ Capped(old) => Capped(outcome.index)
  /\ Grows(old, outcome.index)
  /\ outcome.changed \in BOOLEAN
  /\ ~outcome.changed => outcome.index = old

(* There is room for every session.                                        *)
Room == IsFiniteSet(Sessions) /\ Cardinality(Sessions) <= MaxSessions

(* How a mutation for batch b changes the sessions: none but that of b, and *)
(* while there is room for all sessions none is lost.                      *)
OnlySessionOf(b, old, new) ==
  /\ \A t \in Open(new.sessions) :
       t # SessionOf[b] => t \in Open(old.sessions) /\ new.sessions[t] = old.sessions[t]
  /\ Room => \A t \in Open(old.sessions) : t # SessionOf[b] => t \in Open(new.sessions)

(* An upload makes its batch the routing batch.                            *)
Uploads(b, old, new) ==
  LET s == SessionOf[b]
  IN  /\ OnlySessionOf(b, old, new)
      /\ s \in Open(new.sessions) =>
           /\ new.sessions[s].batch = b
           /\ new.sessions[s].history =
                IF s \in Open(old.sessions) THEN old.sessions[s].history ELSE <<>>
      /\ Room => s \in Open(new.sessions)

(* A commit puts its batch at the end of the history, if it is the routing *)
(* batch and not there yet.                                                *)
Commits(b, old, new, done) ==
  LET s == SessionOf[b]
      history == old.sessions[s].history
  IN  /\ OnlySessionOf(b, old, new)
      /\ s \in Open(new.sessions) <=> s \in Open(old.sessions)
      /\ s \in Open(new.sessions) =>
           /\ new.sessions[s].batch = old.sessions[s].batch
           /\ \/ new.sessions[s].history = history
              \/ /\ old.sessions[s].batch = b /\ ~Committed(old.sessions[s], b)
                 /\ \E entry \in Batch :
                      entry.batch = b
                        /\ new.sessions[s].history = Newest(Append(history, entry), MaxHistory)
      /\ done => s \in Open(new.sessions) /\ \E h \in ToSet(new.sessions[s].history) : h.batch = b

(* A discard puts the newest batch of the history, if there is one, in the *)
(* place of its own.                                                       *)
Discards(b, old, new) ==
  LET s == SessionOf[b]
  IN  /\ OnlySessionOf(b, old, new)
      /\ s \in Open(new.sessions) =>
           /\ s \in Open(old.sessions)
           /\ new.sessions[s].history = old.sessions[s].history
           /\ \/ /\ new.sessions[s].batch = old.sessions[s].batch
                 /\ old.sessions[s].batch = b => Committed(old.sessions[s], b)
              \/ /\ new.sessions[s].history # <<>>
                 /\ new.sessions[s].batch = Last(new.sessions[s].history).batch
      /\ s \in Open(old.sessions) /\ s \notin Open(new.sessions) =>
           old.sessions[s].history = <<>>

(* A mutation that changes nothing.                                        *)
LEMMA UnchangedSound ==
  ASSUME NEW index, IsIndex(index), NEW answer
  PROVE  Sound(index, Unchanged(answer, index))
BY DEF Sound, Unchanged, Grows

(* An image remembered without a batch.                                    *)
LEMMA RememberSound ==
  ASSUME NEW index, IsIndex(index), NEW r \in Images
  PROVE  Sound(index, Remember(index, r))
<1>1. CASE r \in ToSet(index.refs)
  BY <1>1, UnchangedSound DEF Remember
<1>2. CASE r \notin ToSet(index.refs)
  <2> DEFINE new == [index EXCEPT !.refs = Append(@, r)]
  <2>1. /\ index.refs \in Seq(Images) /\ IsInjective(index.refs)
        /\ index = [refs |-> index.refs, sessions |-> index.sessions]
        /\ SessionsOK(index.sessions)
    BY DEF IsIndex
  <2>2. new = [refs |-> Append(index.refs, r), sessions |-> index.sessions]
    <3> DEFINE refs == index.refs
               sessions == index.sessions
    <3>1. index = [refs |-> refs, sessions |-> sessions]
      BY <2>1
    <3> HIDE DEF refs, sessions
    <3>2. new = [refs |-> Append(refs, r), sessions |-> sessions]
      BY <3>1
    <3> QED BY <3>2 DEF refs, sessions
  <2>3. /\ new = [refs |-> new.refs, sessions |-> new.sessions]
        /\ new.refs = Append(index.refs, r) /\ new.sessions = index.sessions
    BY <2>2
  <2> HIDE DEF new
  <2>4. new.refs \in Seq(Images) /\ IsInjective(new.refs)
    BY <2>1, <2>3, <1>2, InjectiveAppend
  <2>5. ToSet(new.refs) = ToSet(index.refs) \cup {r}
    BY <2>1, <2>3, ToSetAppend
  <2>6. (Rooted(index) => Rooted(new)) /\ Grows(index, new)
    BY <2>3, <2>5 DEF Rooted, Grows
  <2>7. /\ IsIndex(TrimRefs(new)) /\ Capped(TrimRefs(new))
        /\ Rooted(index) => Rooted(TrimRefs(new))
        /\ Grows(index, TrimRefs(new))
    BY <2>1, <2>3, <2>4, <2>6, TrimKeeps
  <2>8. Remember(index, r) = Outcome(Yes, TrimRefs(new))
    BY <1>2 DEF Remember, new
  <2> QED BY <2>7, <2>8 DEF Sound, Outcome
<1> QED BY <1>1, <1>2

(* The images of a batch.                                                  *)
LEMMA ImagesOfBatch ==
  ASSUME NEW b \in Batches
  PROVE  /\ ImagesOf[b] \in Seq(Images) /\ SessionOf[b] \in Sessions
         /\ DOMAIN ImagesOf[b] = 1..Len(ImagesOf[b]) /\ Len(ImagesOf[b]) \in Nat
         /\ \A i \in DOMAIN ImagesOf[b] : ImagesOf[b][i] \in Images
BY BatchAssumption

(* What an index pins.                                                     *)
LEMMA PinnedFacts ==
  ASSUME NEW index, NEW s \in Open(index.sessions)
  PROVE  /\ ToSet(index.sessions[s].images) \subseteq Pinned(index.sessions)
         /\ \A h \in ToSet(index.sessions[s].history) : ToSet(h.images) \subseteq Pinned(index.sessions)
BY DEF Pinned

(* The two caps on sessions and histories.                                 *)
LEMMA TrimOldestFacts ==
  ASSUME NEW sessions \in [Sessions -> Session \cup {None}]
  PROVE  /\ TrimOldest(sessions) \in [Sessions -> Session \cup {None}]
         /\ \A t \in Open(TrimOldest(sessions)) :
              t \in Open(sessions) /\ TrimOldest(sessions)[t] = sessions[t]
         /\ Room => Open(TrimOldest(sessions)) = Open(sessions)
<1> DEFINE Newer(t) == {u \in Open(sessions) : sessions[u].updatedAt > sessions[t].updatedAt}
           Keep(t) == /\ t \in Open(sessions)
                      /\ Cardinality(Newer(t)) < MaxSessions
<1>1. TrimOldest(sessions) = [t \in Sessions |-> IF Keep(t) THEN sessions[t] ELSE None]
  BY DEF TrimOldest
<1>2. \A t \in Sessions : Keep(t) => t \in Open(sessions)
  OBVIOUS
<1>3. ASSUME Room, NEW t \in Open(sessions)
      PROVE  Keep(t)
  <2>1. t \in Sessions /\ sessions[t] \in Session
    BY DEF Open
  <2>2. ~(sessions[t].updatedAt > sessions[t].updatedAt)
    BY <2>1 DEF Session
  <2>3. Newer(t) \subseteq Sessions \ {t}
    BY <2>2 DEF Open
  <2>4. IsFiniteSet(Sessions \ {t}) /\ Cardinality(Sessions \ {t}) = Cardinality(Sessions) - 1
    BY <1>3, <2>1, FS_RemoveElement DEF Room
  <2> HIDE DEF Newer
  <2>5. Cardinality(Newer(t)) <= Cardinality(Sessions \ {t}) /\ Cardinality(Newer(t)) \in Nat
    BY <2>3, <2>4, FS_Subset, FS_CardinalityType
  <2>6. Cardinality(Sessions) \in Nat /\ MaxSessions \in Nat
    BY <1>3, FS_CardinalityType, BatchAssumption DEF Room
  <2>7. Cardinality(Newer(t)) < MaxSessions
    BY <1>3, <2>4, <2>5, <2>6 DEF Room
  <2> QED BY <2>7
<1> HIDE DEF Keep
<1>4. /\ TrimOldest(sessions) \in [Sessions -> Session \cup {None}]
      /\ \A t \in Open(TrimOldest(sessions)) :
           t \in Open(sessions) /\ TrimOldest(sessions)[t] = sessions[t]
  BY <1>1, <1>2 DEF Open
<1>5. ASSUME Room
      PROVE  Open(TrimOldest(sessions)) = Open(sessions)
  BY <1>1, <1>3, <1>4, <1>5 DEF Open
<1> QED BY <1>4, <1>5

(* An upload: the image at its place of its batch, which becomes the       *)
(* routing batch.                                                          *)
LEMMA RememberAtSound ==
  ASSUME NEW index, IsIndex(index), NEW b \in Batches, NEW i \in DOMAIN ImagesOf[b], NEW now \in Nat
  PROVE  /\ Sound(index, RememberAt(index, b, i, now))
         /\ Uploads(b, index, RememberAt(index, b, i, now).index)
         /\ RememberAt(index, b, i, now).result = Yes
<1> DEFINE s == SessionOf[b]
           old == index.sessions[s]
           x == ImagesOf[b][i]
           record == IF old = None THEN Fresh(b, <<>>, now)
                     ELSE IF old.batch = b THEN old
                     ELSE Fresh(b, old.history, now)
           session == [record EXCEPT !.images[i] = x, !.updatedAt = now]
           sessions == TrimOldest([index.sessions EXCEPT ![s] = session])
           refs == WithRef(index.refs, x)
           new == [refs |-> refs, sessions |-> sessions]
<1>1. /\ index.refs \in Seq(Images) /\ IsInjective(index.refs)
      /\ index.sessions \in [Sessions -> Session \cup {None}]
      /\ \A t \in Open(index.sessions) : Routed(t, index.sessions[t])
  BY DEF IsIndex, SessionsOK
<1>2. s \in Sessions /\ x \in Images
  BY ImagesOfBatch
<1>3. old # None => s \in Open(index.sessions) /\ Routed(s, old)
  BY <1>1, <1>2 DEF Open
<1>4. ASSUME NEW history \in Seq(Batch), Len(history) <= MaxHistory,
             \A h \in ToSet(history) : Entry(s, h)
      PROVE  /\ Routed(s, Fresh(b, history, now))
             /\ Fresh(b, history, now).history = history
             /\ Fresh(b, history, now).batch = b
             /\ ToSet(Fresh(b, history, now).images) \subseteq {None}
  <2> DEFINE images == [k \in DOMAIN ImagesOf[b] |-> None]
  <2>1. images \in Seq(Images \cup {None}) /\ DOMAIN images = DOMAIN ImagesOf[b]
    BY ImagesOfBatch
  <2>2. \A k \in DOMAIN images : images[k] = None
    OBVIOUS
  <2> HIDE DEF images
  <2>3. Fresh(b, history, now) = [batch |-> b, images |-> images, updatedAt |-> now, history |-> history]
    BY DEF Fresh, images
  <2> QED BY <2>1, <2>2, <2>3, <1>4 DEF Routed, Session, ToSet
<1>5. /\ Routed(s, record) /\ record.batch = b
      /\ old = None => record.history = <<>>
      /\ ToSet(record.images) \subseteq Pinned(index.sessions) \cup {None}
      /\ \A h \in ToSet(record.history) : ToSet(h.images) \subseteq Pinned(index.sessions)
      /\ old # None => record.history = old.history
  <2> HIDE DEF s
  <2>1. CASE old = None
    <3>1. record = Fresh(b, <<>>, now)
      BY <2>1
    <3>2. <<>> \in Seq(Batch) /\ Len(<<>>) <= MaxHistory /\ ToSet(<<>>) = {}
      BY ToSetEmpty, BatchAssumption
    <3> HIDE DEF record
    <3> QED BY <2>1, <3>1, <3>2, <1>4
  <2>2. CASE old # None
    <3>1. /\ Routed(s, old)
          /\ ToSet(old.images) \subseteq Pinned(index.sessions)
          /\ \A h \in ToSet(old.history) : ToSet(h.images) \subseteq Pinned(index.sessions)
      BY <2>2, <1>3, PinnedFacts
    <3>2. CASE old.batch = b
      <4>1. record = old
        BY <2>2, <3>2
      <4> HIDE DEF record, old
      <4> QED BY <2>2, <3>1, <3>2, <4>1
    <3>3. CASE old.batch # b
      <4>1. record = Fresh(b, old.history, now)
        BY <2>2, <3>3
      <4>2. /\ old.history \in Seq(Batch) /\ Len(old.history) <= MaxHistory
            /\ \A h \in ToSet(old.history) : Entry(s, h)
        BY <3>1 DEF Routed, Session
      <4> HIDE DEF record, old
      <4> QED BY <2>2, <3>1, <4>1, <4>2, <1>4
    <3> QED BY <3>2, <3>3
  <2> QED BY <2>1, <2>2
<1> HIDE DEF record
<1>6. /\ Routed(s, session) /\ session.history = record.history /\ session.batch = record.batch
      /\ ToSet(session.images) \subseteq ToSet(record.images) \cup {x}
  <2> DEFINE images == [record.images EXCEPT ![i] = x]
  <2>1. /\ record \in Session
        /\ record.images \in Seq(Images \cup {None})
        /\ DOMAIN record.images = DOMAIN ImagesOf[b]
        /\ \A k \in DOMAIN record.images : record.images[k] \in {ImagesOf[b][k], None}
    BY <1>5 DEF Routed, Session
  <2>2. /\ images \in Seq(Images \cup {None})
        /\ DOMAIN images = DOMAIN ImagesOf[b]
        /\ \A k \in DOMAIN images : images[k] = IF k = i THEN x ELSE record.images[k]
    BY <2>1, <1>2
  <2> HIDE DEF images, x
  <2>3. \A k \in DOMAIN images : images[k] \in {ImagesOf[b][k], None}
    BY <2>1, <2>2 DEF x
  <2>4. ToSet(images) \subseteq ToSet(record.images) \cup {x}
    BY <2>1, <2>2 DEF ToSet
  <2>5. session = [batch |-> record.batch, images |-> images, updatedAt |-> now,
                   history |-> record.history]
    <3> DEFINE Of(img, at) == [batch |-> record.batch, images |-> img, updatedAt |-> at,
                               history |-> record.history]
    <3>1. record = Of(record.images, record.updatedAt)
      BY <2>1 DEF Session
    <3>2. [record EXCEPT !.images = images] = Of(images, record.updatedAt)
      BY <3>1
    <3>3. [Of(images, record.updatedAt) EXCEPT !.updatedAt = now] = Of(images, now)
      OBVIOUS
    <3>4. session = [[record EXCEPT !.images = images] EXCEPT !.updatedAt = now]
      BY DEF images
    <3> HIDE DEF session, Of
    <3>5. session = Of(images, now)
      BY <3>2, <3>3, <3>4
    <3> QED BY <3>5 DEF Of
  <2>6. /\ session \in Session /\ session.batch = record.batch
        /\ session.images = images /\ session.history = record.history
    BY <2>1, <2>2, <2>5 DEF Session
  <2> HIDE DEF session
  <2> QED BY <1>5, <2>2, <2>3, <2>4, <2>6 DEF Routed
<1>7. /\ refs \in Seq(Images) /\ IsInjective(refs) /\ ToSet(refs) = ToSet(index.refs) \cup {x}
  <2>1. CASE x \in ToSet(index.refs)
    BY <2>1, <1>1 DEF WithRef
  <2>2. CASE x \notin ToSet(index.refs)
    <3>1. refs = Append(index.refs, x)
      BY <2>2 DEF WithRef
    <3> HIDE DEF refs, x
    <3> QED BY <2>2, <3>1, <1>1, <1>2, InjectiveAppend, ToSetAppend
  <2> QED BY <2>1, <2>2
<1> HIDE DEF refs, session, s, x
<1>8. /\ sessions \in [Sessions -> Session \cup {None}]
      /\ \A t \in Open(sessions) : sessions[t] = [index.sessions EXCEPT ![s] = session][t]
      /\ Room => Open(sessions) = Open([index.sessions EXCEPT ![s] = session])
  <2> DEFINE f == [index.sessions EXCEPT ![s] = session]
  <2>1. session \in Session
    BY <1>6 DEF Routed
  <2>2. f \in [Sessions -> Session \cup {None}]
    BY <1>1, <2>1
  <2> HIDE DEF f
  <2>3. sessions = TrimOldest(f)
    BY DEF f
  <2>4. /\ sessions \in [Sessions -> Session \cup {None}]
        /\ \A t \in Open(sessions) : sessions[t] = f[t]
        /\ Room => Open(sessions) = Open(f)
    BY <2>2, <2>3, TrimOldestFacts
  <2> QED BY <2>4 DEF f
<1>9. Fits(index, refs, s, session)
  <2>1. /\ ToSet(session.images) \subseteq Pinned(index.sessions) \cup ToSet(refs) \cup {None}
        /\ \A h \in ToSet(session.history) : ToSet(h.images) \subseteq Pinned(index.sessions)
        /\ s \in Open(index.sessions) => session.history = index.sessions[s].history
    BY <1>5, <1>6, <1>7 DEF Open
  <2> QED BY <1>6, <2>1 DEF Fits
<1> HIDE DEF sessions
<1>10. /\ IsIndex(TrimRefs(new)) /\ Capped(TrimRefs(new))
       /\ Rooted(index) => Rooted(TrimRefs(new))
       /\ Grows(index, TrimRefs(new))
       /\ TrimRefs(new).sessions = sessions
  <2>1. /\ new = [refs |-> refs, sessions |-> sessions] /\ s \in Sessions
        /\ ToSet(index.refs) \subseteq ToSet(refs)
    BY <1>2, <1>7
  <2> HIDE DEF new
  <2> QED BY <1>7, <1>8, <1>9, <2>1, OneSession
<1>11. RememberAt(index, b, i, now) = Outcome(Yes, TrimRefs(new))
  BY DEF RememberAt, s, x, record, session, sessions, refs
<1> HIDE DEF new
<1>12. Uploads(b, index, TrimRefs(new))
  <2> DEFINE f == [index.sessions EXCEPT ![s] = session]
  <2>1. f \in [Sessions -> Session \cup {None}] /\ f[s] = session
        /\ \A t \in Sessions : t # s => f[t] = index.sessions[t]
    BY <1>1, <1>2, <1>6 DEF Routed
  <2>2. session # None
    BY <1>6, BatchAssumption DEF Routed
  <2>3. s \in Open(f) /\ \A t \in Sessions : t # s => (t \in Open(f) <=> t \in Open(index.sessions))
    BY <1>2, <2>1, <2>2 DEF Open
  <2>4. \A t \in Open(sessions) : t \in Sessions /\ sessions[t] = f[t] /\ sessions[t] # None
    BY <1>8 DEF Open
  <2>5. \A t \in Open(sessions) : t \in Open(f)
    BY <2>4 DEF Open
  <2>6. session.batch = b /\
          session.history = IF s \in Open(index.sessions) THEN index.sessions[s].history ELSE <<>>
    BY <1>2, <1>5, <1>6 DEF Open
  <2>7. \A t \in Open(index.sessions) : t \in Sessions
    BY DEF Open
  <2>8. Room => Open(sessions) = Open(f)
    BY <1>8
  <2> HIDE DEF f
  <2>9. OnlySessionOf(b, index, TrimRefs(new))
    BY <1>10, <2>1, <2>3, <2>4, <2>5, <2>7, <2>8 DEF OnlySessionOf, s
  <2> QED BY <1>10, <2>1, <2>3, <2>4, <2>6, <2>8, <2>9 DEF Uploads, s
<1>13. Outcome(Yes, TrimRefs(new)).index = TrimRefs(new) /\ Outcome(Yes, TrimRefs(new)).result = Yes
  BY DEF Outcome
<1> QED BY <1>10, <1>11, <1>12, <1>13 DEF Sound, Outcome

(* An index with one session replaced.                                     *)
LEMMA SessionReplaced ==
  ASSUME NEW index, index = [refs |-> index.refs, sessions |-> index.sessions],
         NEW s, NEW r
  PROVE  [index EXCEPT !.sessions[s] = r] =
           [refs |-> index.refs, sessions |-> [index.sessions EXCEPT ![s] = r]]
<1> DEFINE f == [index.sessions EXCEPT ![s] = r]
           g == index.sessions
           refs == index.refs
<1>1. [index EXCEPT !.sessions[s] = r] = [index EXCEPT !.sessions = f]
  OBVIOUS
<1>2. index = [refs |-> refs, sessions |-> g]
  OBVIOUS
<1> HIDE DEF f, g, refs
<1>3. [[refs |-> refs, sessions |-> g] EXCEPT !.sessions = f] = [refs |-> refs, sessions |-> f]
  OBVIOUS
<1>4. [index EXCEPT !.sessions[s] = r] = [refs |-> refs, sessions |-> f]
  BY <1>1, <1>2, <1>3
<1> QED BY <1>4 DEF f, refs

(* A commit: the complete routing batch joins the history.                 *)
LEMMA CommitSound ==
  ASSUME NEW index, IsIndex(index), NEW b \in Batches, NEW now \in Nat
  PROVE  /\ Sound(index, Commit(index, b, now))
         /\ Commits(b, index, Commit(index, b, now).index, Commit(index, b, now).result = Yes)
<1> DEFINE s == SessionOf[b]
           session == index.sessions[s]
           entry == [batch |-> b, images |-> session.images, updatedAt |-> now]
           history == Newest(Append(session.history, entry), MaxHistory)
           record == [session EXCEPT !.history = history, !.updatedAt = now]
           sessions == [index.sessions EXCEPT ![s] = record]
           new == [refs |-> index.refs, sessions |-> sessions]
<1>1. CASE ~Current(index, b) \/ ~Complete(session)
  <2>1. Commit(index, b, now) = Unchanged(No, index) /\ No # Yes
    BY <1>1 DEF Commit, No, Yes
  <2>2. Commits(b, index, index, FALSE)
    BY DEF Commits, OnlySessionOf
  <2>3. Unchanged(No, index).index = index /\ Unchanged(No, index).result = No
    BY DEF Unchanged
  <2>4. (Unchanged(No, index).result = Yes) = FALSE
    BY <2>1, <2>3
  <2> QED BY <2>1, <2>2, <2>3, <2>4, UnchangedSound
<1>2. CASE Current(index, b) /\ Complete(session) /\ Committed(session, b)
  <2>1. Commit(index, b, now) = Unchanged(Yes, index)
    BY <1>2 DEF Commit
  <2>2. s \in Open(index.sessions) /\ session.history \in Seq(Batch)
    BY <1>2, ImagesOfBatch DEF Current, Open, IsIndex, SessionsOK, Routed, Session
  <2>3. \E h \in ToSet(session.history) : h.batch = b
    BY <1>2 DEF Committed, ToSet
  <2>4. Commits(b, index, index, TRUE)
    BY <2>2, <2>3 DEF Commits, OnlySessionOf
  <2>5. Unchanged(Yes, index).index = index /\ (Unchanged(Yes, index).result = Yes) = TRUE
    BY DEF Unchanged
  <2> QED BY <2>1, <2>4, <2>5, UnchangedSound
<1>3. CASE Current(index, b) /\ Complete(session) /\ ~Committed(session, b)
  <2>1. /\ index.refs \in Seq(Images) /\ IsInjective(index.refs)
        /\ index = [refs |-> index.refs, sessions |-> index.sessions]
        /\ index.sessions \in [Sessions -> Session \cup {None}]
        /\ s \in Sessions
    BY ImagesOfBatch DEF IsIndex, SessionsOK
  <2>2. s \in Open(index.sessions) /\ Routed(s, session) /\ session.batch = b
    BY <1>3, <2>1 DEF Current, IsIndex, SessionsOK, Open
  <2>3. /\ session \in Session
        /\ session.history \in Seq(Batch) /\ session.images \in Seq(Images \cup {None})
        /\ DOMAIN session.images = DOMAIN ImagesOf[b]
        /\ \A i \in DOMAIN session.images : session.images[i] \in {ImagesOf[b][i], None}
        /\ Len(session.history) <= MaxHistory
        /\ \A h \in ToSet(session.history) : Entry(s, h)
    BY <2>2 DEF Routed, Session
  <2>4. Entry(s, entry)
    <3>1. \A i \in DOMAIN ImagesOf[b] : session.images[i] = ImagesOf[b][i]
      BY <1>3, <2>3 DEF Complete
    <3>2. session.images = ImagesOf[b]
      <4> HIDE DEF session
      <4>1. /\ session.images = [i \in DOMAIN session.images |-> session.images[i]]
            /\ ImagesOf[b] = [i \in DOMAIN ImagesOf[b] |-> ImagesOf[b][i]]
        BY <2>3, ImagesOfBatch
      <4> QED BY <2>3, <3>1, <4>1
    <3> HIDE DEF session
    <3> QED BY <1>3, <2>3, <3>2 DEF Entry, Batch, Complete
  <2>5. /\ history \in Seq(Batch) /\ Len(history) <= MaxHistory
        /\ ToSet(history) \subseteq ToSet(session.history) \cup {entry}
        /\ history # <<>> /\ Last(history) = entry
    <3> DEFINE all == Append(session.history, entry)
    <3>1. entry \in Batch
      BY <2>4 DEF Entry
    <3> HIDE DEF session, entry
    <3>2. all \in Seq(Batch) /\ all # <<>> /\ Last(all) = entry
      BY <2>3, <3>1 DEF Last
    <3>3. ToSet(all) = ToSet(session.history) \cup {entry}
      BY <2>3, ToSetAppend
    <3>4. MaxHistory \in Nat /\ MaxHistory # 0
      BY BatchAssumption
    <3> HIDE DEF all
    <3>5. history = Newest(all, MaxHistory)
      BY DEF all
    <3> HIDE DEF history
    <3> QED BY <3>2, <3>3, <3>4, <3>5, NewestFacts
  <2>6. /\ record \in Session /\ record.batch = b /\ record.images = session.images
        /\ record.history = history
    <3> DEFINE Of(h, at) == [batch |-> session.batch, images |-> session.images,
                             updatedAt |-> at, history |-> h]
    <3> HIDE DEF session, history
    <3>1. session = Of(session.history, session.updatedAt)
      BY <2>3 DEF Session
    <3>2. [session EXCEPT !.history = history] = Of(history, session.updatedAt)
      BY <3>1
    <3>3. [Of(history, session.updatedAt) EXCEPT !.updatedAt = now] = Of(history, now)
      OBVIOUS
    <3>4. record = [[session EXCEPT !.history = history] EXCEPT !.updatedAt = now]
      OBVIOUS
    <3> HIDE DEF record, Of
    <3>5. record = Of(history, now)
      BY <3>2, <3>3, <3>4
    <3> QED BY <2>2, <2>3, <2>5, <3>5 DEF Of, Session
  <2>7. Routed(s, record)
    <3> HIDE DEF s, session, record, history, entry
    <3> QED BY <2>2, <2>3, <2>4, <2>5, <2>6 DEF Routed
  <2>8. /\ ToSet(record.images) \subseteq Pinned(index.sessions)
        /\ \A h \in ToSet(record.history) : ToSet(h.images) \subseteq Pinned(index.sessions)
        /\ record.history # <<>>
        /\ record.history = Newest(Append(session.history, Last(record.history)), MaxHistory)
    <3>1. entry.images = session.images
      OBVIOUS
    <3>2. history = Newest(Append(session.history, entry), MaxHistory)
      OBVIOUS
    <3>3. /\ ToSet(session.images) \subseteq Pinned(index.sessions)
          /\ \A h \in ToSet(session.history) : ToSet(h.images) \subseteq Pinned(index.sessions)
      BY <2>2, PinnedFacts
    <3> HIDE DEF session, entry, history, record
    <3> QED BY <2>5, <2>6, <3>1, <3>2, <3>3
  <2> HIDE DEF record
  <2>9. sessions \in [Sessions -> Session \cup {None}]
    BY <2>1, <2>6
  <2>10. new = [refs |-> index.refs, sessions |-> sessions]
    OBVIOUS
  <2>11. Commit(index, b, now) = Outcome(Yes, TrimRefs(new))
    <3>1. Commit(index, b, now) = Outcome(Yes, TrimRefs([index EXCEPT !.sessions[s] = record]))
      BY <1>3 DEF Commit, record
    <3>2. [index EXCEPT !.sessions[s] = record] = new
      <4> HIDE DEF s
      <4> QED BY <2>1, SessionReplaced
    <3> QED BY <3>1, <3>2
  <2> HIDE DEF new, s
  <2>12. /\ IsIndex(TrimRefs(new)) /\ Capped(TrimRefs(new))
         /\ Rooted(index) => Rooted(TrimRefs(new))
         /\ Grows(index, TrimRefs(new))
         /\ TrimRefs(new).sessions = sessions
    <3>1. \A t \in Open(sessions) : sessions[t] = [index.sessions EXCEPT ![s] = record][t]
      OBVIOUS
    <3> HIDE DEF sessions
    <3>2. Fits(index, index.refs, s, record)
      BY <2>7, <2>8 DEF Fits
    <3> QED BY <2>1, <2>9, <2>10, <3>1, <3>2, OneSession
  <2>13. Commits(b, index, TrimRefs(new), TRUE)
    <3>1. /\ sessions[s] = record
          /\ \A t \in Sessions : t # s => sessions[t] = index.sessions[t]
      BY <2>1, <2>6
    <3>2. record # None
      BY <2>6, BatchAssumption
    <3> HIDE DEF sessions
    <3>3. Open(sessions) = Open(index.sessions)
      BY <2>1, <2>2, <3>1, <3>2 DEF Open
    <3>4. OnlySessionOf(b, index, TrimRefs(new))
      BY <2>12, <3>1, <3>3 DEF OnlySessionOf, Open, s
    <3>5. /\ entry \in Batch /\ entry.batch = b
          /\ record.history = Newest(Append(session.history, entry), MaxHistory)
          /\ entry \in ToSet(record.history)
      <4>1. entry.batch = b
        OBVIOUS
      <4>2. history = Newest(Append(session.history, entry), MaxHistory)
        OBVIOUS
      <4> HIDE DEF entry, history, session
      <4>3. Len(history) \in DOMAIN history
        BY <2>5
      <4>4. entry \in ToSet(history)
        BY <2>5, <4>3 DEF ToSet, Last
      <4> QED BY <2>4, <2>6, <4>1, <4>2, <4>4 DEF Entry
    <3> DEFINE now2 == TrimRefs(new)
    <3>6. now2.sessions = sessions
      BY <2>12
    <3> HIDE DEF now2, entry, history, session
    <3>7. s \in Open(now2.sessions) /\ s \in Open(index.sessions) /\ now2.sessions[s] = record
      BY <2>2, <3>1, <3>3, <3>6
    <3>8. /\ record.batch = session.batch /\ session.batch = b
          /\ ~Committed(session, b)
      BY <1>3, <2>2, <2>6
    <3> QED BY <3>4, <3>5, <3>7, <3>8 DEF Commits, s, session, now2
  <2>14. /\ Outcome(Yes, TrimRefs(new)).index = TrimRefs(new)
         /\ (Outcome(Yes, TrimRefs(new)).result = Yes) = TRUE
    BY DEF Outcome
  <2> HIDE DEF sessions
  <2>15. Sound(index, Commit(index, b, now))
    BY <2>11, <2>12 DEF Sound, Outcome
  <2>16. Commits(b, index, Commit(index, b, now).index, Commit(index, b, now).result = Yes)
    BY <2>11, <2>13, <2>14
  <2> QED BY <2>15, <2>16
<1> QED BY <1>1, <1>2, <1>3

(* A discard: the newest batch of the history, if any, is the routing      *)
(* batch again.                                                            *)
LEMMA DiscardSound ==
  ASSUME NEW index, IsIndex(index), NEW b \in Batches
  PROVE  /\ Sound(index, Discard(index, b))
         /\ Discards(b, index, Discard(index, b).index)
<1> DEFINE s == SessionOf[b]
           session == index.sessions[s]
           previous == Last(session.history)
           restored == IF session.history = <<>> THEN None
                       ELSE [batch |-> previous.batch, images |-> previous.images,
                             updatedAt |-> previous.updatedAt, history |-> session.history]
           sessions == [index.sessions EXCEPT ![s] = restored]
           new == [refs |-> index.refs, sessions |-> sessions]
<1>1. CASE ~Current(index, b) \/ Committed(session, b)
  <2>1. Discard(index, b) = Unchanged(No, index) /\ Unchanged(No, index).index = index
    BY <1>1 DEF Discard, Unchanged
  <2>2. s \in Open(index.sessions) => (session.batch = b => Committed(session, b))
    BY <1>1 DEF Current, Open
  <2>3. Discards(b, index, index)
    BY <2>2 DEF Discards, OnlySessionOf
  <2> QED BY <2>1, <2>3, UnchangedSound
<1>2. CASE Current(index, b) /\ ~Committed(session, b)
  <2>1. /\ index.refs \in Seq(Images) /\ IsInjective(index.refs)
        /\ index = [refs |-> index.refs, sessions |-> index.sessions]
        /\ index.sessions \in [Sessions -> Session \cup {None}]
        /\ s \in Sessions
    BY ImagesOfBatch DEF IsIndex, SessionsOK
  <2>2. s \in Open(index.sessions) /\ Routed(s, session)
    BY <1>2, <2>1 DEF Current, IsIndex, SessionsOK, Open
  <2>3. /\ session.history \in Seq(Batch)
        /\ Len(session.history) <= MaxHistory
        /\ \A h \in ToSet(session.history) : Entry(s, h)
    BY <2>2 DEF Routed, Session
  <2>4. ASSUME session.history # <<>>
        PROVE  /\ Routed(s, restored)
               /\ ToSet(restored.images) \subseteq Pinned(index.sessions)
               /\ restored.history = session.history
               /\ restored.batch = previous.batch
    <3>1. restored = [batch |-> previous.batch, images |-> previous.images,
                      updatedAt |-> previous.updatedAt, history |-> session.history]
      BY <2>4
    <3>2. previous \in ToSet(session.history)
      <4> HIDE DEF session
      <4>1. Len(session.history) \in DOMAIN session.history
        BY <2>3, <2>4
      <4> QED BY <4>1 DEF ToSet, Last
    <3> HIDE DEF previous, restored, session
    <3>3. Entry(s, previous)
      BY <2>3, <3>2
    <3>4. /\ previous.batch \in Batches /\ SessionOf[previous.batch] = s
          /\ previous.images \in Seq(Images \cup {None})
          /\ previous.images = ImagesOf[previous.batch] /\ previous.updatedAt \in Nat
      BY <3>3 DEF Entry, Batch
    <3>5. /\ restored.batch = previous.batch /\ restored.images = previous.images
          /\ restored.history = session.history /\ restored \in Session
      BY <2>3, <3>1, <3>4 DEF Session
    <3>6. Routed(s, restored)
      BY <2>3, <3>4, <3>5 DEF Routed
    <3>7. ToSet(previous.images) \subseteq Pinned(index.sessions)
      BY <2>2, <3>2, PinnedFacts DEF session
    <3> QED BY <3>4, <3>5, <3>6, <3>7
  <2>5. session.history = <<>> => restored = None
    OBVIOUS
  <2>6. \A h \in ToSet(session.history) : ToSet(h.images) \subseteq Pinned(index.sessions)
    BY <2>2, PinnedFacts
  <2> HIDE DEF restored
  <2>7. /\ restored # None => Routed(s, restored)
        /\ sessions \in [Sessions -> Session \cup {None}]
        /\ \A t \in Open(sessions) : sessions[t] = [index.sessions EXCEPT ![s] = restored][t]
    <3>1. restored \in Session \cup {None}
      BY <2>4, <2>5 DEF Routed
    <3> HIDE DEF s, session
    <3> QED BY <2>1, <2>4, <2>5, <3>1
  <2>8. restored # None =>
          /\ ToSet(restored.images) \subseteq Pinned(index.sessions)
          /\ \A h \in ToSet(restored.history) : ToSet(h.images) \subseteq Pinned(index.sessions)
          /\ restored.history = index.sessions[s].history
    BY <2>4, <2>5, <2>6
  <2>9. new = [refs |-> index.refs, sessions |-> sessions]
    OBVIOUS
  <2>10. Discard(index, b) = Outcome(Yes, TrimRefs(new))
    <3>1. Discard(index, b) = Outcome(Yes, TrimRefs([index EXCEPT !.sessions[s] = restored]))
      BY <1>2 DEF Discard, restored
    <3>2. [index EXCEPT !.sessions[s] = restored] = new
      <4> HIDE DEF s
      <4> QED BY <2>1, SessionReplaced
    <3> QED BY <3>1, <3>2
  <2> HIDE DEF new, sessions, s, session
  <2>11. /\ IsIndex(TrimRefs(new)) /\ Capped(TrimRefs(new))
         /\ Rooted(index) => Rooted(TrimRefs(new))
         /\ Grows(index, TrimRefs(new))
         /\ TrimRefs(new).sessions = sessions
    <3>1. Fits(index, index.refs, s, restored)
      BY <2>7, <2>8 DEF Fits
    <3> QED BY <2>1, <2>7, <2>9, <3>1, OneSession
  <2>12. Discards(b, index, TrimRefs(new))
    <3>1. /\ sessions[s] = restored
          /\ \A t \in Sessions : t # s => sessions[t] = index.sessions[t]
      <4>1. sessions = [index.sessions EXCEPT ![s] = restored]
        BY DEF sessions
      <4> QED BY <2>1, <4>1
    <3>2. \A t \in Sessions : t # s => (t \in Open(sessions) <=> t \in Open(index.sessions))
      BY <3>1 DEF Open
    <3>3. s \in Open(sessions) => restored # None
      BY <3>1 DEF Open
    <3>4. OnlySessionOf(b, index, TrimRefs(new))
      BY <2>11, <3>1, <3>2 DEF OnlySessionOf, Open, s
    <3>5. s \in Open(sessions) =>
            /\ session.history # <<>> /\ restored.history = session.history
            /\ restored.batch = Last(session.history).batch
      BY <2>4, <2>5, <3>3
    <3>6. s \notin Open(sessions) => session.history = <<>>
      <4>1. session.history # <<>> => restored # None
        BY <2>4, BatchAssumption DEF Routed
      <4> QED BY <2>1, <3>1, <4>1 DEF Open
    <3> DEFINE after == TrimRefs(new)
    <3>7. after.sessions = sessions /\ sessions[s] = restored
      BY <2>11, <3>1
    <3> HIDE DEF after
    <3>8. session = index.sessions[s] /\ s = SessionOf[b]
      BY DEF s, session
    <3>9. Discards(b, index, after)
      BY <2>2, <3>4, <3>5, <3>6, <3>7, <3>8 DEF Discards, after
    <3> QED BY <3>9 DEF after
  <2>13. Outcome(Yes, TrimRefs(new)).index = TrimRefs(new)
    BY DEF Outcome
  <2> QED BY <2>10, <2>11, <2>12, <2>13 DEF Sound, Outcome
<1> QED BY <1>1, <1>2

(* A cold load keeps an index sound, and a second one changes nothing.     *)
LEMMA ReloadFacts ==
  ASSUME NEW index, IsIndex(index)
  PROVE  /\ IsIndex(Reload(index)) /\ Capped(Reload(index))
         /\ Reload(Reload(index)) = Reload(index)
<1> DEFINE refs == Newest(index.refs, MaxRefs)
           new == [refs |-> refs, sessions |-> index.sessions]
<1>1. /\ index = [refs |-> index.refs, sessions |-> index.sessions]
      /\ index.refs \in Seq(Images) /\ IsInjective(index.refs) /\ MaxRefs \in Nat
  BY BatchAssumption DEF IsIndex
<1>2. /\ refs \in Seq(Images) /\ IsInjective(refs) /\ Len(refs) <= MaxRefs
      /\ Newest(refs, MaxRefs) = refs
  BY <1>1, NewestFacts
<1> HIDE DEF refs
<1>3. Reload(index) = new
  <2>1. Reload(index) = [index EXCEPT !.refs = refs]
    BY DEF Reload, refs
  <2>2. [[refs |-> index.refs, sessions |-> index.sessions] EXCEPT !.refs = refs] = new
    OBVIOUS
  <2> QED BY <1>1, <2>1, <2>2
<1>4. /\ new.refs = refs /\ new.sessions = index.sessions
      /\ new = [refs |-> new.refs, sessions |-> new.sessions]
  OBVIOUS
<1>5. Reload(new) = new
  <2>1. Reload(new) = [new EXCEPT !.refs = Newest(new.refs, MaxRefs)]
    BY DEF Reload
  <2>2. [[refs |-> refs, sessions |-> index.sessions] EXCEPT !.refs = refs] = new
    OBVIOUS
  <2> QED BY <1>2, <1>4, <2>1, <2>2
<1> HIDE DEF new
<1>6. IsIndex(new)
  BY <1>2, <1>4 DEF IsIndex
<1>7. Capped(new)
  BY <1>1, <1>2, <1>4 DEF Capped
<1> QED BY <1>3, <1>5, <1>6, <1>7

(* The index of a host that has seen no image.                             *)
LEMMA EmptyFacts == IsIndex(EmptyIndex) /\ Rooted(EmptyIndex) /\ Reload(EmptyIndex) = EmptyIndex
<1> DEFINE none == [s \in Sessions |-> None]
<1>1. /\ EmptyIndex.refs = <<>> /\ EmptyIndex.sessions = none
      /\ EmptyIndex = [refs |-> <<>>, sessions |-> none]
  BY DEF EmptyIndex
<1>2. <<>> \in Seq(Images) /\ IsInjective(<<>>)
  BY DEF IsInjective
<1>3. Open(none) = {} /\ none \in [Sessions -> Session \cup {None}]
  BY DEF Open
<1> HIDE DEF none
<1>4. SessionsOK(none) /\ Pinned(none) = {}
  BY <1>3 DEF SessionsOK, Pinned
<1>5. Newest(<<>>, MaxRefs) = <<>>
  BY BatchAssumption DEF Newest
<1>6. Reload(EmptyIndex) = EmptyIndex
  <2>1. [[refs |-> <<>>, sessions |-> none] EXCEPT !.refs = <<>>] = [refs |-> <<>>, sessions |-> none]
    OBVIOUS
  <2> QED BY <1>1, <1>5, <2>1 DEF Reload
<1>7. IsIndex(EmptyIndex)
  BY <1>1, <1>2, <1>4 DEF IsIndex
<1>8. Rooted(EmptyIndex)
  BY <1>1, <1>4 DEF Rooted
<1> QED BY <1>6, <1>7, <1>8
-----------------------------------------------------------------------------
(* The ledger's operators are those of the index.                          *)
LEMMA LOperators ==
  ASSUME NEW index, NEW b, NEW i, NEW now, NEW r, NEW s
  PROVE  /\ L!RememberAt(index, b, i, now) = RememberAt(index, b, i, now)
         /\ L!Remember(index, r) = Remember(index, r)
         /\ L!Commit(index, b, now) = Commit(index, b, now)
         /\ L!Discard(index, b) = Discard(index, b)
         /\ L!Unchanged(r, index) = Unchanged(r, index)
         /\ L!Latest(index, s) = Latest(index, s)
         /\ L!Reload(index) = Reload(index)
         /\ L!EmptyIndex = EmptyIndex
<1>1. L!RememberAt(index, b, i, now) = RememberAt(index, b, i, now)
  <2>1. \A x : L!TrimRefs(x) = TrimRefs(x)
    BY DEF L!TrimRefs, TrimRefs, L!Pinned, Pinned, L!Open, Open,
        L!Omit, Omit, L!KeptUpTo, KeptUpTo, L!ToSet, ToSet
  <2>2. \A f : L!TrimOldest(f) = TrimOldest(f)
    BY DEF L!TrimOldest, TrimOldest, L!Open, Open, L!Cardinality, Cardinality
  <2>3. \A refs, x : L!WithRef(refs, x) = WithRef(refs, x)
    BY DEF L!WithRef, WithRef, L!ToSet, ToSet
  <2>4. \A x : L!Outcome(L!Yes, x) = Outcome(Yes, x)
    BY DEF L!Outcome, Outcome, L!Yes, Yes
  <2> DEFINE old == index.sessions[SessionOf[b]]
             record == IF old = None THEN Fresh(b, <<>>, now)
                       ELSE IF old.batch = b THEN old ELSE Fresh(b, old.history, now)
             session == [record EXCEPT !.images[i] = ImagesOf[b][i], !.updatedAt = now]
             sessions == [index.sessions EXCEPT ![SessionOf[b]] = session]
  <2>5. RememberAt(index, b, i, now) =
          Outcome(Yes, TrimRefs([refs |-> WithRef(index.refs, ImagesOf[b][i]),
                                 sessions |-> TrimOldest(sessions)]))
    BY DEF RememberAt
  <2>6. L!RememberAt(index, b, i, now) =
          L!Outcome(L!Yes, L!TrimRefs([refs |-> L!WithRef(index.refs, ImagesOf[b][i]),
                                 sessions |-> L!TrimOldest(sessions)]))
    BY DEF L!RememberAt, L!Fresh, Fresh
  <2> HIDE DEF sessions
  <2> QED BY <2>1, <2>2, <2>3, <2>4, <2>5, <2>6
<1>2. L!Remember(index, r) = Remember(index, r)
  BY DEF L!Remember, Remember, L!TrimRefs, TrimRefs, L!Pinned, Pinned,
      L!Open, Open, L!Omit, Omit, L!KeptUpTo, KeptUpTo, L!ToSet, ToSet,
      L!Outcome, Outcome, L!Unchanged, Unchanged, L!Yes, Yes, L!No, No
<1>3. L!Commit(index, b, now) = Commit(index, b, now)
  BY DEF L!Commit, Commit, L!Newest, Newest, L!Current, Current,
      L!Committed, Committed, L!Complete, Complete, L!TrimRefs, TrimRefs,
      L!Pinned, Pinned, L!Open, Open, L!Omit, Omit, L!KeptUpTo, KeptUpTo,
      L!ToSet, ToSet, L!Outcome, Outcome, L!Unchanged, Unchanged, L!Yes,
      Yes, L!No, No
<1>4. L!Discard(index, b) = Discard(index, b)
  BY DEF L!Discard, Discard, L!Last, Last, L!Current, Current,
      L!Committed, Committed, L!Complete, Complete, L!TrimRefs, TrimRefs,
      L!Pinned, Pinned, L!Open, Open, L!Omit, Omit, L!KeptUpTo, KeptUpTo,
      L!ToSet, ToSet, L!Outcome, Outcome, L!Unchanged, Unchanged, L!Yes,
      Yes, L!No, No
<1>5. L!Unchanged(r, index) = Unchanged(r, index)
  BY DEF L!Unchanged, Unchanged
<1>6. L!Latest(index, s) = Latest(index, s)
  BY DEF L!Latest, Latest, L!Resolves, Resolves, L!Complete, Complete,
      L!Open, Open, L!ToSet, ToSet
<1>7. L!Reload(index) = Reload(index)
  BY DEF L!Reload, Reload, L!Newest, Newest
<1>8. L!EmptyIndex = EmptyIndex
  BY DEF L!EmptyIndex, EmptyIndex
<1> QED BY <1>1, <1>2, <1>3, <1>4, <1>5, <1>6, <1>7, <1>8

(* The actions of the ledger, in the terms of the index.                   *)
LEMMA LedgerOperators ==
  ASSUME NEW index, NEW b, NEW i, NEW now, NEW r, NEW s
  PROVE  /\ Ledger!RememberAt(index, b, i, now) = RememberAt(index, b, i, now)
         /\ Ledger!Remember(index, r) = Remember(index, r)
         /\ Ledger!Commit(index, b, now) = Commit(index, b, now)
         /\ Ledger!Discard(index, b) = Discard(index, b)
         /\ Ledger!Unchanged(r, index) = Unchanged(r, index)
         /\ Ledger!Latest(index, s) = Latest(index, s)
         /\ Ledger!Reload(index) = Reload(index)
         /\ Ledger!EmptyIndex = EmptyIndex
<1>1. Ledger!RememberAt(index, b, i, now) = RememberAt(index, b, i, now)
  <2>1. \A x : Ledger!TrimRefs(x) = TrimRefs(x)
    BY DEF Ledger!TrimRefs, TrimRefs, Ledger!Pinned, Pinned, Ledger!Open, Open,
        Ledger!Omit, Omit, Ledger!KeptUpTo, KeptUpTo, Ledger!ToSet, ToSet
  <2>2. \A f : Ledger!TrimOldest(f) = TrimOldest(f)
    BY DEF Ledger!TrimOldest, TrimOldest, Ledger!Open, Open, Ledger!Cardinality, Cardinality
  <2>3. \A refs, x : Ledger!WithRef(refs, x) = WithRef(refs, x)
    BY DEF Ledger!WithRef, WithRef, Ledger!ToSet, ToSet
  <2>4. \A x : Ledger!Outcome(Ledger!Yes, x) = Outcome(Yes, x)
    BY DEF Ledger!Outcome, Outcome, Ledger!Yes, Yes
  <2> DEFINE old == index.sessions[SessionOf[b]]
             record == IF old = None THEN Fresh(b, <<>>, now)
                       ELSE IF old.batch = b THEN old ELSE Fresh(b, old.history, now)
             session == [record EXCEPT !.images[i] = ImagesOf[b][i], !.updatedAt = now]
             sessions == [index.sessions EXCEPT ![SessionOf[b]] = session]
  <2>5. RememberAt(index, b, i, now) =
          Outcome(Yes, TrimRefs([refs |-> WithRef(index.refs, ImagesOf[b][i]),
                                 sessions |-> TrimOldest(sessions)]))
    BY DEF RememberAt
  <2>6. Ledger!RememberAt(index, b, i, now) =
          Ledger!Outcome(Ledger!Yes, Ledger!TrimRefs([refs |-> Ledger!WithRef(index.refs, ImagesOf[b][i]),
                                 sessions |-> Ledger!TrimOldest(sessions)]))
    BY DEF Ledger!RememberAt, Ledger!Fresh, Fresh
  <2> HIDE DEF sessions
  <2> QED BY <2>1, <2>2, <2>3, <2>4, <2>5, <2>6
<1>2. Ledger!Remember(index, r) = Remember(index, r)
  BY DEF Ledger!Remember, Remember, Ledger!TrimRefs, TrimRefs,
      Ledger!Pinned, Pinned, Ledger!Open, Open, Ledger!Omit, Omit,
      Ledger!KeptUpTo, KeptUpTo, Ledger!ToSet, ToSet, Ledger!Outcome,
      Outcome, Ledger!Unchanged, Unchanged, Ledger!Yes, Yes, Ledger!No, No
<1>3. Ledger!Commit(index, b, now) = Commit(index, b, now)
  BY DEF Ledger!Commit, Commit, Ledger!Newest, Newest, Ledger!Current,
      Current, Ledger!Committed, Committed, Ledger!Complete, Complete,
      Ledger!TrimRefs, TrimRefs, Ledger!Pinned, Pinned, Ledger!Open, Open,
      Ledger!Omit, Omit, Ledger!KeptUpTo, KeptUpTo, Ledger!ToSet, ToSet,
      Ledger!Outcome, Outcome, Ledger!Unchanged, Unchanged, Ledger!Yes, Yes,
      Ledger!No, No
<1>4. Ledger!Discard(index, b) = Discard(index, b)
  BY DEF Ledger!Discard, Discard, Ledger!Last, Last, Ledger!Current,
      Current, Ledger!Committed, Committed, Ledger!Complete, Complete,
      Ledger!TrimRefs, TrimRefs, Ledger!Pinned, Pinned, Ledger!Open, Open,
      Ledger!Omit, Omit, Ledger!KeptUpTo, KeptUpTo, Ledger!ToSet, ToSet,
      Ledger!Outcome, Outcome, Ledger!Unchanged, Unchanged, Ledger!Yes, Yes,
      Ledger!No, No
<1>5. Ledger!Unchanged(r, index) = Unchanged(r, index)
  BY DEF Ledger!Unchanged, Unchanged
<1>6. Ledger!Latest(index, s) = Latest(index, s)
  BY DEF Ledger!Latest, Latest, Ledger!Resolves, Resolves,
      Ledger!Complete, Complete, Ledger!Open, Open, Ledger!ToSet, ToSet
<1>7. Ledger!Reload(index) = Reload(index)
  BY DEF Ledger!Reload, Reload, Ledger!Newest, Newest
<1>8. Ledger!EmptyIndex = EmptyIndex
  BY DEF Ledger!EmptyIndex, EmptyIndex
<1> QED BY <1>1, <1>2, <1>3, <1>4, <1>5, <1>6, <1>7, <1>8

(* Every call keeps a sound index sound, and a query changes nothing.      *)
LEMMA PerformSound ==
  ASSUME NEW index, IsIndex(index), NEW o \in L!Legal, NEW now \in Nat
  PROVE  /\ Sound(index, L!Perform(index, o, now))
         /\ Ledger!Perform(index, o, now) = L!Perform(index, o, now)
         /\ Query(o) => ~L!Perform(index, o, now).changed
<1>1. o \in L!Operations /\ (o.kind = "upload" => o.slot \in DOMAIN ImagesOf[o.batch])
  BY DEF L!Legal
<1>2. CASE o.kind = "upload"
  <2>1. o.batch \in Batches
    BY <1>1, <1>2 DEF L!Operations
  <2>2. L!Perform(index, o, now) = RememberAt(index, o.batch, o.slot, now)
    BY <1>2, LOperators DEF L!Perform
  <2>3. Ledger!Perform(index, o, now) = RememberAt(index, o.batch, o.slot, now)
    BY <1>2, LedgerOperators DEF Ledger!Perform
  <2> QED BY <1>1, <1>2, <2>1, <2>2, <2>3, RememberAtSound DEF Query
<1>3. CASE o.kind = "attach"
  <2>1. o.image \in L!Images
    BY <1>1, <1>3 DEF L!Operations
  <2>2. L!Images = Images
    BY DEF L!Images, Images, L!ToSet, ToSet
  <2>3. L!Perform(index, o, now) = Remember(index, o.image)
    BY <1>3, LOperators DEF L!Perform
  <2>4. Ledger!Perform(index, o, now) = Remember(index, o.image)
    BY <1>3, LedgerOperators DEF Ledger!Perform
  <2> QED BY <1>3, <2>1, <2>2, <2>3, <2>4, RememberSound DEF Query
<1>4. CASE o.kind = "commit"
  <2>1. o.batch \in Batches
    BY <1>1, <1>4 DEF L!Operations
  <2>2. L!Perform(index, o, now) = Commit(index, o.batch, now)
    BY <1>4, LOperators DEF L!Perform
  <2>3. Ledger!Perform(index, o, now) = Commit(index, o.batch, now)
    BY <1>4, LedgerOperators DEF Ledger!Perform
  <2> QED BY <1>4, <2>1, <2>2, <2>3, CommitSound DEF Query
<1>5. CASE o.kind = "discard"
  <2>1. o.batch \in Batches
    BY <1>1, <1>5 DEF L!Operations
  <2>2. L!Perform(index, o, now) = Discard(index, o.batch)
    BY <1>5, LOperators DEF L!Perform
  <2>3. Ledger!Perform(index, o, now) = Discard(index, o.batch)
    BY <1>5, LedgerOperators DEF Ledger!Perform
  <2> QED BY <1>5, <2>1, <2>2, <2>3, DiscardSound DEF Query
<1>6. CASE o.kind = "latest"
  <2>1. L!Perform(index, o, now) = Unchanged(Latest(index, o.session), index)
    BY <1>6, LOperators DEF L!Perform
  <2>2. Ledger!Perform(index, o, now) = Unchanged(Latest(index, o.session), index)
    BY <1>6, LedgerOperators DEF Ledger!Perform
  <2>3. ~Unchanged(Latest(index, o.session), index).changed
    BY DEF Unchanged
  <2> QED BY <2>1, <2>2, <2>3, UnchangedSound
<1>7. o.kind \in {"upload", "commit", "discard", "attach", "latest"}
  BY <1>1 DEF L!Operations
<1> QED BY <1>2, <1>3, <1>4, <1>5, <1>6, <1>7
-----------------------------------------------------------------------------
(* The inductive invariant.                                                *)

(* The calls in the queue are mutations somebody awaits.                   *)
QueueOK ==
  /\ queue \in Seq(Callers) /\ IsInjective(queue)
  /\ \A c \in ToSet(queue) : call[c] # None /\ ~Query(call[c])
  /\ clock \in Nat
  /\ clock + Len(queue) <= IF stage = "idle" THEN MaxMutations ELSE MaxMutations + 1

(* The draft is what the first of them makes of the published value.       *)
DraftOK ==
  /\ stage # "idle" =>
       \E now \in 0..MaxMutations : draft = L!Perform(value, call[Head(queue)], now)
  /\ stage = "idle" => draft = NoDraft

(* Before the first load of a first process there is nothing to lose.      *)
RootedOK ==
  crashes = 0 => IF load = "loaded" THEN Rooted(value) ELSE file = EmptyIndex

IInv ==
  /\ IsIndex(file) /\ IsIndex(value) /\ Capped(value)
  /\ load \in {"cold", "loading", "loaded"} /\ stage \in {"idle", "writing", "renamed"}
  /\ call \in [Callers -> Requests \cup {None}]
  /\ crashes \in Nat
  /\ QueueOK
  /\ DraftOK
  /\ RootedOK
  /\ MemoryMatchesFile

(* The draft is sound.                                                     *)
LEMMA DraftSound ==
  ASSUME IInv, stage # "idle"
  PROVE  /\ Head(queue) \in ToSet(queue) /\ Head(queue) \in Callers
         /\ call[Head(queue)] \in L!Legal
         /\ Sound(value, draft)
<1>1. queue \in Seq(Callers) /\ queue # <<>>
  BY DEF IInv, QueueOK, MemoryMatchesFile
<1>2. Head(queue) \in ToSet(queue) /\ Head(queue) \in Callers
  BY <1>1 DEF ToSet
<1>3. call[Head(queue)] \in L!Legal
  BY <1>2, IndexAssumption DEF IInv, QueueOK
<1>4. PICK now \in 0..MaxMutations : draft = L!Perform(value, call[Head(queue)], now)
  BY DEF IInv, DraftOK
<1>5. now \in Nat
  BY IndexAssumption
<1> QED BY <1>2, <1>3, <1>4, <1>5, PerformSound DEF IInv

(* The invariant holds in the beginning, ...                               *)
LEMMA IInvInit == Init => IInv
<1> SUFFICES ASSUME Init PROVE IInv
  OBVIOUS
<1>1. IsIndex(file) /\ IsIndex(value) /\ file = EmptyIndex /\ value = EmptyIndex
  BY EmptyFacts DEF Init
<1>2. Capped(value)
  BY <1>1, BatchAssumption DEF Capped, EmptyIndex
<1>3. queue = <<>> /\ IsInjective(<<>>) /\ ToSet(<<>>) = {} /\ Len(<<>>) = 0
  BY ToSetEmpty DEF Init, IsInjective
<1>4. QueueOK
  BY <1>3, IndexAssumption DEF QueueOK, Init
<1>5. DraftOK /\ RootedOK /\ MemoryMatchesFile
  BY DEF DraftOK, RootedOK, MemoryMatchesFile, Init
<1>6. call \in [Callers -> Requests \cup {None}]
  BY DEF Init
<1> QED BY <1>1, <1>2, <1>4, <1>5, <1>6 DEF IInv, Init

(* A call answered or rejected that is not in the queue leaves it in order. *)
LEMMA QueueKeeps ==
  ASSUME QueueOK, stage' = stage, queue' = queue, clock' = clock,
         \A c \in ToSet(queue) : call'[c] = call[c]
  PROVE  QueueOK'
BY DEF QueueOK, Query

(* The first call of the queue is done with.                               *)
LEMMA QueueMoves ==
  ASSUME QueueOK, queue # <<>>, queue' = Tail(queue), stage' = "idle",
         stage = "idle" => clock' = clock + 1, stage # "idle" => clock' = clock,
         \A c \in ToSet(queue) \ {Head(queue)} : call'[c] = call[c]
  PROVE  QueueOK'
<1>1. /\ Tail(queue) \in Seq(Callers) /\ IsInjective(Tail(queue))
      /\ Len(Tail(queue)) = Len(queue) - 1 /\ Len(queue) \in Nat
      /\ ToSet(Tail(queue)) = ToSet(queue) \ {Head(queue)}
  BY InjectiveTail DEF QueueOK
<1>2. clock' \in Nat /\ clock' + Len(Tail(queue)) <= MaxMutations
  BY <1>1, IndexAssumption DEF QueueOK
<1> QED BY <1>1, <1>2 DEF QueueOK, Query

(* Nobody is left in it.                                                   *)
LEMMA QueueEmptied ==
  ASSUME QueueOK, stage # "idle" => queue # <<>>,
         queue' = <<>>, stage' = "idle", clock' = clock
  PROVE  QueueOK'
<1>1. <<>> \in Seq(Callers) /\ IsInjective(<<>>) /\ ToSet(<<>>) = {} /\ Len(<<>>) = 0
  BY ToSetEmpty DEF IsInjective
<1>2. clock \in Nat /\ clock <= MaxMutations
  <2>1. CASE stage = "idle"
    BY <2>1, IndexAssumption DEF QueueOK
  <2>2. CASE stage # "idle"
    <3>1. Len(queue) \in Nat /\ Len(queue) # 0
      BY <2>2 DEF QueueOK
    <3> QED BY <2>2, <3>1, IndexAssumption DEF QueueOK
  <2> QED BY <2>1, <2>2
<1> QED BY <1>1, <1>2 DEF QueueOK

(* ... every step keeps it, ...                                            *)
LEMMA IInvStep == IInv /\ [Next]_vars => IInv'
<1> SUFFICES ASSUME IInv, [Next]_vars PROVE IInv'
  OBVIOUS
<1> USE DEF L!Reject, L!Pending
<1>0. /\ IsIndex(file) /\ IsIndex(value) /\ Capped(value)
      /\ load \in {"cold", "loading", "loaded"} /\ stage \in {"idle", "writing", "renamed"}
      /\ call \in [Callers -> Requests \cup {None}]
      /\ crashes \in Nat
      /\ QueueOK /\ DraftOK /\ RootedOK /\ MemoryMatchesFile
      /\ stage # "idle" => load = "loaded" /\ queue # <<>>
      /\ queue \in Seq(Callers)
  BY DEF IInv, MemoryMatchesFile, QueueOK
<1>1. ASSUME NEW c \in Callers, NEW o \in Requests, Begin(c, o) PROVE IInv'
  <2>1. /\ call[c] = None /\ call' = [call EXCEPT ![c] = o] /\ o # None /\ o \in Requests
        /\ UNCHANGED <<file, crashes, value, stage, draft, clock>>
        /\ load' = (IF load = "cold" THEN "loading" ELSE load)
        /\ queue' = (IF Query(o) THEN queue ELSE Append(queue, c))
        /\ Query(o) \/ clock + Len(queue) < MaxMutations
    BY <1>1, IndexAssumption DEF Begin, disk
  <2>2. call' \in [Callers -> Requests \cup {None}]
    BY <1>0, <2>1
  <2>3. c \notin ToSet(queue) /\ \A d \in ToSet(queue) : call'[d] = call[d] /\ d \in Callers
    <3>1. c \notin ToSet(queue)
      BY <1>0, <2>1 DEF QueueOK
    <3>2. ToSet(queue) \subseteq Callers
      BY <1>0 DEF ToSet
    <3> QED BY <1>0, <2>1, <3>1, <3>2
  <2>4. QueueOK'
    <3>1. CASE Query(o)
      BY <1>0, <2>1, <2>3, <3>1, QueueKeeps
    <3>2. CASE ~Query(o)
      <4>1. /\ queue' = Append(queue, c) /\ clock + Len(queue) < MaxMutations
            /\ call'[c] = o
        BY <1>0, <2>1, <3>2
      <4>2. /\ queue' \in Seq(Callers) /\ IsInjective(queue') /\ Len(queue') = Len(queue) + 1
            /\ ToSet(queue') = ToSet(queue) \cup {c}
        BY <1>0, <2>3, <4>1, InjectiveAppend, ToSetAppend DEF QueueOK
      <4>3. clock' \in Nat /\ clock' + Len(queue') <= MaxMutations
        BY <1>0, <2>1, <4>1, <4>2, IndexAssumption DEF QueueOK
      <4>4. \A d \in ToSet(queue') : call'[d] # None /\ ~Query(call'[d])
        BY <1>0, <2>1, <2>3, <3>2, <4>1, <4>2 DEF QueueOK, Query
      <4> QED BY <4>2, <4>3, <4>4, IndexAssumption DEF QueueOK, Query
    <3> QED BY <3>1, <3>2
  <2>5. DraftOK'
    <3>1. CASE stage = "idle"
      BY <1>0, <2>1, <3>1 DEF DraftOK
    <3>2. CASE stage # "idle"
      <4>1. Head(queue') = Head(queue) /\ call'[Head(queue)] = call[Head(queue)]
        BY <1>0, <2>1, <2>3, <3>2, DraftSound
      <4> QED BY <1>0, <2>1, <3>2, <4>1 DEF DraftOK
    <3> QED BY <3>1, <3>2
  <2>6. RootedOK' /\ MemoryMatchesFile'
    <3>1. (load' = "loaded") <=> (load = "loaded")
      BY <1>0, <2>1
    <3>2. queue # <<>> => queue' # <<>>
      BY <1>0, <2>1
    <3> QED BY <1>0, <2>1, <3>1, <3>2 DEF RootedOK, MemoryMatchesFile
  <2> QED BY <1>0, <2>1, <2>2, <2>4, <2>5, <2>6 DEF IInv
<1>2. ASSUME NEW c \in Callers, Read(c) PROVE IInv'
  <2>1. /\ Query(call[c]) /\ \A d \in Callers : d # c => call'[d] = call[d]
        /\ call' \in [Callers -> Requests \cup {None}]
        /\ UNCHANGED <<file, crashes, value, load, queue, stage, draft, clock>>
    BY <1>0, <1>2 DEF Read, Respond, disk
  <2>2. \A d \in ToSet(queue) : call'[d] = call[d]
    <3>1. ToSet(queue) \subseteq Callers
      BY <1>0 DEF ToSet
    <3> QED BY <1>0, <2>1, <3>1 DEF QueueOK
  <2>3. QueueOK'
    BY <1>0, <2>1, <2>2, QueueKeeps
  <2>4. DraftOK'
    <3>1. CASE stage = "idle"
      BY <1>0, <2>1, <3>1 DEF DraftOK
    <3>2. CASE stage # "idle"
      <4>1. call'[Head(queue)] = call[Head(queue)]
        BY <2>2, <3>2, DraftSound
      <4> QED BY <1>0, <2>1, <3>2, <4>1 DEF DraftOK
    <3> QED BY <3>1, <3>2
  <2>5. RootedOK' /\ MemoryMatchesFile'
    BY <1>0, <2>1 DEF RootedOK, MemoryMatchesFile
  <2> QED BY <1>0, <2>1, <2>3, <2>4, <2>5 DEF IInv
<1>3. CASE Load
  <2>1. /\ load = "loading" /\ load' = "loaded" /\ value' = Reload(file) /\ stage = "idle"
        /\ UNCHANGED <<file, crashes, queue, stage, draft, call, clock>>
    BY <1>0, <1>3 DEF Load, disk, calls
  <2>2. IsIndex(value') /\ Capped(value') /\ Reload(value') = Reload(file)
    BY <1>0, <2>1, ReloadFacts
  <2>3. QueueOK' /\ DraftOK'
    <3>1. QueueOK'
      BY <1>0, <2>1, QueueKeeps
    <3> QED BY <1>0, <2>1, <3>1 DEF DraftOK
  <2>4. RootedOK'
    BY <1>0, <2>1, EmptyFacts DEF RootedOK
  <2>5. MemoryMatchesFile'
    BY <1>0, <2>1, <2>2 DEF MemoryMatchesFile
  <2> QED BY <1>0, <2>1, <2>2, <2>3, <2>4, <2>5 DEF IInv
<1>4. CASE LoadFails
  <2>1. /\ load = "loading" /\ load' = "cold" /\ queue' = <<>> /\ stage = "idle"
        /\ call' = [c \in Callers |-> IF c \in {d \in Callers : call[d] # None} THEN None ELSE call[c]]
        /\ UNCHANGED <<file, crashes, value, stage, draft, clock>>
    BY <1>0, <1>4 DEF LoadFails, disk
  <2>2. call' \in [Callers -> Requests \cup {None}]
    BY <1>0, <2>1
  <2>3. QueueOK'
    BY <1>0, <2>1, QueueEmptied
  <2>4. DraftOK' /\ RootedOK' /\ MemoryMatchesFile'
    BY <1>0, <2>1 DEF DraftOK, RootedOK, MemoryMatchesFile
  <2> QED BY <1>0, <2>1, <2>2, <2>3, <2>4 DEF IInv
<1>5. CASE Mutate
  <2> DEFINE c == Head(queue)
  <2>1. /\ load = "loaded" /\ stage = "idle" /\ queue # <<>> /\ clock' = clock + 1
        /\ UNCHANGED <<file, crashes, value, load>>
    BY <1>5 DEF Mutate, disk
  <2>2. PICK outcome \in {L!Perform(value, call[c], clock)} :
          \/ /\ outcome.changed /\ stage' = "writing" /\ draft' = outcome
             /\ UNCHANGED <<queue, calls>>
          \/ /\ ~outcome.changed /\ queue' = Tail(queue) /\ Respond(c, outcome.result)
             /\ UNCHANGED <<stage, draft>>
    BY <1>5 DEF Mutate
  <2>3. c \in Callers /\ c \in ToSet(queue) /\ ToSet(queue) \subseteq Callers
    BY <1>0, <2>1 DEF ToSet
  <2>4. CASE outcome.changed
    <3>1. /\ stage' = "writing" /\ draft' = L!Perform(value, call[c], clock)
          /\ queue' = queue /\ call' = call
      BY <2>2, <2>4 DEF calls
    <3>2. clock \in 0..MaxMutations /\ QueueOK'
      <4>1. Len(queue) \in Nat /\ Len(queue) # 0
        BY <1>0, <2>1
      <4>2. clock \in Nat /\ clock + Len(queue) <= MaxMutations
        BY <1>0, <2>1 DEF QueueOK
      <4>3. clock' + Len(queue') <= MaxMutations + 1 /\ clock \in 0..MaxMutations
        BY <4>1, <4>2, <2>1, <3>1, IndexAssumption
      <4> QED BY <1>0, <2>1, <3>1, <4>2, <4>3 DEF QueueOK, Query
    <3>3. DraftOK'
      BY <2>1, <3>1, <3>2 DEF DraftOK
    <3>4. RootedOK' /\ MemoryMatchesFile'
      BY <1>0, <2>1, <3>1 DEF RootedOK, MemoryMatchesFile
    <3> QED BY <1>0, <2>1, <3>1, <3>2, <3>3, <3>4 DEF IInv
  <2>5. CASE ~outcome.changed
    <3>1. /\ stage' = "idle" /\ draft' = draft /\ queue' = Tail(queue)
          /\ call' = [call EXCEPT ![c] = None]
      BY <2>1, <2>2, <2>5 DEF Respond
    <3>2. /\ call' \in [Callers -> Requests \cup {None}]
          /\ \A d \in ToSet(queue) \ {Head(queue)} : call'[d] = call[d]
      <4> HIDE DEF c
      <4>1. \A d \in ToSet(queue) \ {c} : call'[d] = call[d]
        BY <1>0, <2>3, <3>1
      <4>2. call' \in [Callers -> Requests \cup {None}]
        BY <1>0, <3>1
      <4> QED BY <4>1, <4>2 DEF c
    <3>3. QueueOK'
      BY <1>0, <2>1, <3>1, <3>2, QueueMoves
    <3>4. DraftOK' /\ RootedOK' /\ MemoryMatchesFile'
      BY <1>0, <2>1, <3>1 DEF DraftOK, RootedOK, MemoryMatchesFile
    <3> QED BY <1>0, <2>1, <3>1, <3>2, <3>3, <3>4 DEF IInv
  <2> QED BY <2>4, <2>5
<1>6. CASE WriteFails
  <2>1. /\ stage = "writing" /\ stage' = "idle" /\ draft' = NoDraft /\ queue' = Tail(queue)
        /\ call' = [d \in Callers |-> IF d \in {Head(queue)} THEN None ELSE call[d]]
        /\ UNCHANGED <<file, crashes, value, load, clock>>
    BY <1>6 DEF WriteFails, disk
  <2>2. ToSet(queue) \subseteq Callers
    BY <1>0 DEF ToSet
  <2>3. /\ call' \in [Callers -> Requests \cup {None}]
        /\ \A d \in ToSet(queue) \ {Head(queue)} : call'[d] = call[d]
    BY <1>0, <2>1, <2>2
  <2>4. QueueOK'
    BY <1>0, <2>1, <2>3, QueueMoves
  <2>5. DraftOK' /\ RootedOK' /\ MemoryMatchesFile'
    BY <1>0, <2>1 DEF DraftOK, RootedOK, MemoryMatchesFile
  <2> QED BY <1>0, <2>1, <2>3, <2>4, <2>5 DEF IInv
<1>7. CASE Rename
  <2>1. /\ stage = "writing" /\ stage' = "renamed" /\ file' = draft.index /\ load = "loaded"
        /\ UNCHANGED <<value, load, queue, draft, call, clock, crashes>>
    BY <1>0, <1>7 DEF Rename, calls
  <2>2. IsIndex(file')
    BY <2>1, DraftSound DEF Sound
  <2>3. QueueOK'
    BY <1>0, <2>1 DEF QueueOK, Query
  <2>4. DraftOK' /\ RootedOK' /\ MemoryMatchesFile'
    BY <1>0, <2>1 DEF DraftOK, RootedOK, MemoryMatchesFile
  <2> QED BY <1>0, <2>1, <2>2, <2>3, <2>4 DEF IInv
<1>8. CASE Publish
  <2>1. /\ stage = "renamed" /\ stage' = "idle" /\ value' = draft.index /\ draft' = NoDraft
        /\ queue' = Tail(queue) /\ call' = [call EXCEPT ![Head(queue)] = None] /\ load = "loaded"
        /\ UNCHANGED <<file, crashes, load, clock>>
    BY <1>0, <1>8 DEF Publish, Respond, disk
  <2>2. Sound(value, draft) /\ Head(queue) \in Callers
    BY <2>1, DraftSound
  <2>3. ToSet(queue) \subseteq Callers
    BY <1>0 DEF ToSet
  <2>4. /\ call' \in [Callers -> Requests \cup {None}]
        /\ \A d \in ToSet(queue) \ {Head(queue)} : call'[d] = call[d]
    BY <1>0, <2>1, <2>2, <2>3
  <2>5. QueueOK'
    BY <1>0, <2>1, <2>4, QueueMoves
  <2>6. IsIndex(value') /\ Capped(value') /\ RootedOK'
    BY <1>0, <2>1, <2>2 DEF Sound, RootedOK
  <2>7. DraftOK' /\ MemoryMatchesFile'
    BY <1>0, <2>1 DEF DraftOK, MemoryMatchesFile
  <2> QED BY <1>0, <2>1, <2>4, <2>5, <2>6, <2>7 DEF IInv
<1>9. CASE Crash
  <2>1. /\ crashes' = crashes + 1 /\ value' = EmptyIndex /\ load' = "cold" /\ queue' = <<>>
        /\ stage' = "idle" /\ draft' = NoDraft
        /\ call' = [c \in Callers |-> IF c \in {d \in Callers : call[d] # None} THEN None ELSE call[c]]
        /\ UNCHANGED <<file, clock>>
    BY <1>9 DEF Crash
  <2>2. call' \in [Callers -> Requests \cup {None}]
    BY <1>0, <2>1
  <2>3. QueueOK'
    BY <1>0, <2>1, QueueEmptied
  <2>4. DraftOK' /\ RootedOK' /\ MemoryMatchesFile'
    BY <1>0, <2>1 DEF DraftOK, RootedOK, MemoryMatchesFile
  <2>5. IsIndex(value') /\ Capped(value')
    BY <2>1, EmptyFacts, BatchAssumption DEF Capped, EmptyIndex
  <2> QED BY <1>0, <2>1, <2>2, <2>3, <2>4, <2>5 DEF IInv
<1>10. CASE UNCHANGED vars
  BY <1>0, <1>10 DEF vars, IInv, QueueOK, DraftOK, RootedOK, MemoryMatchesFile, Query
<1> QED BY <1>1, <1>2, <1>3, <1>4, <1>5, <1>6, <1>7, <1>8, <1>9, <1>10 DEF Next
-----------------------------------------------------------------------------

(* ... so it always holds.                                                 *)
LEMMA Invariant == Spec => []IInv
<1>1. Init => IInv
  BY IInvInit
<1>2. IInv /\ [Next]_vars => IInv'
  BY IInvStep
<1> QED BY <1>1, <1>2, PTL DEF Spec

(* The published, the written and the drafted index are well-formed, and   *)
(* each waiting mutation is in the queue once (ref-index.ts, the module's  *)
(* state and PersistedIndex).                                              *)
THEOREM TypeCorrect == Spec => []TypeOK
<1>1. IInv => TypeOK
  <2> SUFFICES ASSUME IInv PROVE TypeOK
    OBVIOUS
  <2>1. IsIndex(draft.index)
    <3>1. CASE stage = "idle"
      <4>1. draft.index = EmptyIndex
        BY <3>1 DEF IInv, DraftOK, NoDraft, Unchanged
      <4> QED BY <4>1, EmptyFacts
    <3>2. CASE stage # "idle"
      BY <3>2, DraftSound DEF Sound
    <3> QED BY <3>1, <3>2
  <2>2. ASSUME NEW index \in {file, value, draft.index}
        PROVE  /\ index.refs \in Seq(Images) /\ IsInjective(index.refs)
               /\ \A s \in Open(index.sessions) :
                    LET session == index.sessions[s]
                    IN  /\ \A h \in ToSet(session.history) : h \in Batch /\ Complete(h)
                        /\ session.batch \in Batches /\ SessionOf[session.batch] = s
                        /\ DOMAIN session.images = DOMAIN ImagesOf[session.batch]
                        /\ Len(session.history) <= MaxHistory
    <3>1. IsIndex(index)
      BY <2>1 DEF IInv
    <3>2. \A s \in Open(index.sessions) : Routed(s, index.sessions[s])
      BY <3>1 DEF IsIndex, SessionsOK
    <3>3. index.refs \in Seq(Images) /\ IsInjective(index.refs)
      BY <3>1 DEF IsIndex
    <3> QED BY <3>2, <3>3 DEF Routed, Entry, Session
  <2>3. clock \in 0..MaxMutations
    <3>1. clock \in Nat /\ Len(queue) \in Nat
      BY DEF IInv, QueueOK
    <3>2. stage # "idle" => Len(queue) # 0
      BY DEF IInv, QueueOK, MemoryMatchesFile
    <3> QED BY <3>1, <3>2, IndexAssumption DEF IInv, QueueOK
  <2>4. queue \in Seq(Callers) /\ IsInjective(queue)
    BY DEF IInv, QueueOK
  <2> QED BY <2>2, <2>3, <2>4 DEF TypeOK, IInv
<1> QED BY <1>1, Invariant, PTL

(* Commit after persist: memory is what the file holds, but for the images *)
(* beyond the load cap, except between the rename and the publication      *)
(* (ref-index.ts, mutate).                                                 *)
THEOREM MemoryMatchesFileAlways == Spec => []MemoryMatchesFile
<1>1. IInv => MemoryMatchesFile
  BY DEF IInv
<1> QED BY <1>1, Invariant, PTL

(* As long as the process runs no cap makes an image of a committed batch  *)
(* unresolvable (ref-index.ts, trimRefs).                                  *)
THEOREM CommittedResolveAlways == Spec => []CommittedResolve
<1>1. IInv => CommittedResolve
  <2> SUFFICES ASSUME IInv, crashes = 0, load = "loaded",
                      NEW s \in Open(value.sessions),
                      NEW h \in ToSet(value.sessions[s].history)
               PROVE  Resolves(value, h)
    BY DEF CommittedResolve, CommittedSurvive
  <2>1. Rooted(value)
    BY DEF IInv, RootedOK
  <2>2. Complete(h)
    BY DEF IInv, IsIndex, SessionsOK, Routed, Entry
  <2>3. None \notin ToSet(h.images)
    BY <2>2 DEF Complete, ToSet
  <2>4. ToSet(h.images) \subseteq Pinned(value.sessions)
    BY PinnedFacts
  <2> QED BY <2>1, <2>2, <2>3, <2>4 DEF Rooted, Resolves
<1> QED BY <1>1, Invariant, PTL

(* The cap on known images is only ever exceeded by pinned ones            *)
(* (ref-index.ts, trimRefs and the load).                                  *)
THEOREM CapHoldsAlways == Spec => []CapHolds
<1>1. IInv => CapHolds
  BY DEF IInv, Capped, CapHolds
<1> QED BY <1>1, Invariant, PTL

(* A history changes only by a batch at its end and the loss of the oldest *)
(* beyond the cap, whatever is uploaded, discarded and trimmed             *)
(* (ref-index.ts, the mutations).                                          *)
THEOREM HistoryOnlyGrowsAlways == Spec => HistoryOnlyGrows
<1>1. IInv /\ [Next]_vars =>
        [\A s \in Open(value.sessions) :
           load = "loaded" /\ load' = "loaded" /\ s \in Open(value'.sessions) =>
             LET old == value.sessions[s].history
                 new == value'.sessions[s].history
             IN  \/ new = old
                 \/ /\ new # <<>>
                    /\ new = Newest(Append(old, Last(new)), MaxHistory)]_vars
  <2> SUFFICES ASSUME IInv, [Next]_vars, load = "loaded", load' = "loaded"
               PROVE  Grows(value, value')
    BY DEF Grows
  <2>1. CASE value' = value
    BY <2>1 DEF Grows
  <2>2. CASE Publish
    BY <2>2, DraftSound DEF Publish, Sound
  <2>3. value' = value \/ Publish
    BY DEF Next, Begin, Load, LoadFails, Read, Mutate, WriteFails, Rename, Crash, vars
  <2> QED BY <2>1, <2>2, <2>3
<1> QED BY <1>1, Invariant, PTL DEF Spec, HistoryOnlyGrows

(* The queue, the load, the write, its failures and the crashes show as    *)
(* atomic calls: an answered mutation happened as a whole and is in the    *)
(* file, one answered with an error did not happen, and one cut off by a   *)
(* crash did or did not (ref-index.ts, ensureLoaded, mutate and persist).  *)
THEOREM ImplementsLedgerAlways == Spec => ImplementsLedger
<1> DEFINE V == IF load = "loaded" THEN value ELSE Reload(file)
<1>1. Init => Ledger!Init
  <2> SUFFICES ASSUME Init PROVE Ledger!Init
    OBVIOUS
  <2>1. V = EmptyIndex
    BY EmptyFacts DEF Init
  <2>2. Ledger!EmptyIndex = EmptyIndex
    BY LedgerOperators
  <2> QED BY <2>1, <2>2 DEF Init, Ledger!Init
<1>2. IInv /\ IInv' /\ [Next]_vars => [Ledger!Next]_Ledger!vars
  <2> SUFFICES ASSUME IInv, IInv', [Next]_vars PROVE [Ledger!Next]_Ledger!vars
    OBVIOUS
  <2> DEFINE Still == V' = V /\ call' = call /\ result' = result
  <2>0. /\ IsIndex(file) /\ IsIndex(value)
        /\ load \in {"cold", "loading", "loaded"} /\ stage \in {"idle", "writing", "renamed"}
        /\ call \in [Callers -> Requests \cup {None}]
        /\ QueueOK /\ DraftOK /\ MemoryMatchesFile
        /\ stage # "idle" => load = "loaded" /\ queue # <<>>
        /\ queue \in Seq(Callers)
    BY DEF IInv, MemoryMatchesFile, QueueOK
  <2>1. Still => [Ledger!Next]_Ledger!vars
    BY DEF Ledger!vars
  <2>2. Ledger!Pending = {c \in Callers : call[c] # None}
    BY DEF Ledger!Pending
  <2>3. Ledger!Fail => [Ledger!Next]_Ledger!vars
    BY DEF Ledger!Next
  <2>4. Ledger!Crash => [Ledger!Next]_Ledger!vars
    BY DEF Ledger!Next
  <2>5. ASSUME NEW c \in Callers, Ledger!Answer(c) PROVE [Ledger!Next]_Ledger!vars
    BY <2>5 DEF Ledger!Next
  <2>6. ASSUME NEW c \in Callers, call[c] # None,
               NEW now \in 0..MaxMutations,
               NEW outcome, outcome = L!Perform(V, call[c], now),
               V' = outcome.index, IsIndex(V),
               call' = [call EXCEPT ![c] = None],
               result' = [result EXCEPT ![c] = outcome.result]
        PROVE  Ledger!Answer(c)
    <3>1. call[c] \in L!Legal /\ now \in Nat
      BY <2>0, <2>6, IndexAssumption
    <3>2. outcome = Ledger!Perform(V, call[c], now)
      BY <2>6, <3>1, PerformSound
    <3>3. outcome \in {Ledger!Perform(V, call[c], t) : t \in 0..MaxMutations}
      BY <2>6, <3>2
    <3> QED BY <2>6, <3>3 DEF Ledger!Answer
  <2>7. ASSUME NEW c \in Callers, NEW o \in Requests, Begin(c, o)
        PROVE  [Ledger!Next]_Ledger!vars
    <3>1. V' = V
      BY <2>0, <2>7 DEF Begin, disk
    <3>2. o \in Ledger!Legal
      <4>1. L!Legal = Ledger!Legal
        BY DEF L!Legal, Ledger!Legal, L!Operations, Ledger!Operations, L!Images, Ledger!Images,
               L!ToSet, Ledger!ToSet
      <4> QED BY <4>1, IndexAssumption
    <3>3. Ledger!Begin(c, o)
      BY <2>7, <3>1 DEF Begin, Ledger!Begin
    <3> QED BY <3>2, <3>3 DEF Ledger!Next
  <2>8. ASSUME NEW c \in Callers, Read(c) PROVE [Ledger!Next]_Ledger!vars
    <3> DEFINE outcome == L!Perform(value, call[c], clock)
    <3>1. /\ load = "loaded" /\ call[c] # None /\ Query(call[c])
          /\ call' = [call EXCEPT ![c] = None]
          /\ result' = [result EXCEPT ![c] = outcome.result]
          /\ value' = value /\ load' = load /\ file' = file
      BY <2>8 DEF Read, Respond, disk
    <3>2. call[c] \in L!Legal /\ clock \in Nat /\ clock \in 0..MaxMutations
      <4>1. stage # "idle" => Len(queue) # 0
        BY <2>0
      <4>2. Len(queue) \in Nat
        BY <2>0
      <4>3. clock \in Nat /\ clock <= MaxMutations
        BY <2>0, <4>1, <4>2, IndexAssumption DEF QueueOK
      <4> QED BY <2>0, <3>1, <4>3, IndexAssumption
    <3>3. outcome.index = value
      <4>1. Sound(value, outcome) /\ ~outcome.changed
        BY <2>0, <3>1, <3>2, PerformSound
      <4> QED BY <4>1 DEF Sound
    <3>4. V = value /\ V' = outcome.index
      BY <3>1, <3>3
    <3>5. Ledger!Answer(c)
      <4>1. outcome = L!Perform(V, call[c], clock)
        BY <3>4
      <4> HIDE DEF outcome, V
      <4> QED BY <2>0, <2>6, <3>1, <3>2, <3>4, <4>1
    <3> QED BY <2>5, <3>5
  <2>9. CASE Load
    <3>1. Still
      BY <2>9 DEF Load, disk, calls
    <3> QED BY <2>1, <3>1
  <2>10. CASE LoadFails
    <3>1. V' = V
      BY <2>10 DEF LoadFails, disk
    <3>2. Ledger!Reject(Ledger!Pending, Ledger!Failed)
      BY <2>10 DEF LoadFails, L!Reject, Ledger!Reject, L!Pending, Ledger!Pending,
                   L!Failed, Ledger!Failed
    <3>3. Ledger!Fail
      BY <3>1, <3>2 DEF Ledger!Fail
    <3> QED BY <2>3, <3>3
  <2>11. CASE Mutate
    <3> DEFINE c == Head(queue)
    <3>1. /\ load = "loaded" /\ stage = "idle" /\ queue # <<>> /\ V = value /\ V' = value
      BY <2>11 DEF Mutate, disk
    <3>2. PICK outcome \in {L!Perform(value, call[c], clock)} :
            \/ outcome.changed /\ UNCHANGED calls
            \/ ~outcome.changed /\ Respond(c, outcome.result)
      BY <2>11 DEF Mutate
    <3>3. c \in Callers /\ c \in ToSet(queue)
      BY <2>0, <3>1 DEF ToSet
    <3>4. CASE outcome.changed
      BY <2>1, <3>1, <3>2, <3>4 DEF calls
    <3>5. CASE ~outcome.changed
      <4>1. call[c] # None /\ call[c] \in L!Legal
        BY <2>0, <3>3, IndexAssumption DEF QueueOK
      <4>2. clock \in Nat /\ clock \in 0..MaxMutations
        <5>1. Len(queue) \in Nat
          BY <2>0
        <5> QED BY <2>0, <3>1, <5>1, IndexAssumption DEF QueueOK
      <4>3. Sound(value, outcome)
        BY <2>0, <3>2, <4>1, <4>2, PerformSound
      <4>4. V' = outcome.index /\ outcome = L!Perform(V, call[c], clock)
        BY <3>1, <3>2, <3>5, <4>3 DEF Sound
      <4>5. call' = [call EXCEPT ![c] = None] /\ result' = [result EXCEPT ![c] = outcome.result]
        BY <3>2, <3>5 DEF Respond
      <4>6. IsIndex(V)
        BY <2>0, <3>1
      <4>7. Ledger!Answer(c)
        <5> HIDE DEF c, V
        <5> QED BY <2>6, <3>3, <4>1, <4>2, <4>4, <4>5, <4>6
      <4> QED BY <2>5, <3>3, <4>7
    <3> QED BY <3>4, <3>5
  <2>12. CASE WriteFails
    <3>1. V' = V /\ stage # "idle"
      BY <2>12 DEF WriteFails, disk
    <3>2. {Head(queue)} \in SUBSET Ledger!Pending
      <4>1. Head(queue) \in Callers /\ Head(queue) \in ToSet(queue)
        BY <3>1, DraftSound
      <4>2. call[Head(queue)] # None
        BY <2>0, <4>1 DEF QueueOK
      <4> QED BY <2>2, <4>1, <4>2
    <3>3. Ledger!Reject({Head(queue)}, Ledger!Failed)
      BY <2>12 DEF WriteFails, L!Reject, Ledger!Reject, L!Failed, Ledger!Failed
    <3>4. Ledger!Fail
      BY <3>1, <3>2, <3>3 DEF Ledger!Fail
    <3> QED BY <2>3, <3>4
  <2>13. CASE Rename
    <3>1. Still
      BY <2>0, <2>13 DEF Rename, calls
    <3> QED BY <2>1, <3>1
  <2>14. CASE Publish
    <3> DEFINE c == Head(queue)
    <3>1. /\ stage = "renamed" /\ load = "loaded" /\ V = value /\ V' = draft.index
          /\ call' = [call EXCEPT ![c] = None] /\ result' = [result EXCEPT ![c] = draft.result]
      BY <2>0, <2>14 DEF Publish, Respond, disk
    <3>2. c \in Callers /\ c \in ToSet(queue)
      BY <3>1, DraftSound
    <3>3. call[c] # None
      BY <2>0, <3>2 DEF QueueOK
    <3>4. PICK now \in 0..MaxMutations : draft = L!Perform(V, call[c], now)
      BY <2>0, <3>1 DEF DraftOK
    <3>5. IsIndex(V)
      BY <2>0, <3>1
    <3>6. Ledger!Answer(c)
      <4> HIDE DEF c, V
      <4> QED BY <2>6, <3>1, <3>2, <3>3, <3>4, <3>5
    <3> QED BY <2>5, <3>2, <3>6
  <2>15. CASE Crash
    <3>1. V' = Reload(file)
      BY <2>15 DEF Crash
    <3>2. Ledger!Reject(Ledger!Pending, Ledger!CutOff)
      BY <2>15 DEF Crash, L!Reject, Ledger!Reject, L!Pending, Ledger!Pending,
                   L!CutOff, Ledger!CutOff
    <3>3. \A x : Ledger!Reload(x) = Reload(x)
      BY LedgerOperators
    <3>4. CASE stage # "renamed"
      <4>1. V' = Reload(V)
        BY <2>0, <3>1, <3>4, ReloadFacts DEF MemoryMatchesFile
      <4>2. Ledger!Crash
        BY <3>2, <3>3, <4>1 DEF Ledger!Crash
      <4> QED BY <2>4, <4>2
    <3>5. CASE stage = "renamed"
      <4> DEFINE c == Head(queue)
      <4>1. load = "loaded" /\ V = value /\ V' = Reload(draft.index)
        BY <2>0, <3>1, <3>5 DEF MemoryMatchesFile
      <4>2. c \in Callers /\ c \in ToSet(queue) /\ call[c] \in L!Legal
        BY <3>5, DraftSound
      <4>3. c \in Ledger!Pending
        BY <2>0, <2>2, <4>2 DEF QueueOK
      <4>4. PICK now \in 0..MaxMutations : draft = L!Perform(value, call[c], now)
        BY <2>0, <3>5 DEF DraftOK
      <4>5. now \in Nat
        BY IndexAssumption
      <4>6. draft = Ledger!Perform(V, call[c], now)
        BY <2>0, <4>1, <4>2, <4>4, <4>5, PerformSound
      <4>7. draft \in {Ledger!Perform(V, call[d], t) : d \in Ledger!Pending, t \in 0..MaxMutations}
        BY <4>3, <4>4, <4>6
      <4>8. Ledger!Crash
        <5> HIDE DEF c
        <5> QED BY <3>2, <3>3, <4>1, <4>7 DEF Ledger!Crash
      <4> QED BY <2>4, <4>8
    <3> QED BY <3>4, <3>5
  <2>16. CASE UNCHANGED vars
    <3>1. Still
      BY <2>16 DEF vars
    <3> QED BY <2>1, <3>1
  <2> QED BY <2>7, <2>8, <2>9, <2>10, <2>11, <2>12, <2>13, <2>14, <2>15, <2>16 DEF Next
<1> QED BY <1>1, <1>2, Invariant, PTL DEF Spec, ImplementsLedger, Ledger!Spec
-----------------------------------------------------------------------------
(* The sends.                                                              *)

(* The suffix that is left starts somewhere in the sequence.               *)
LEMMA NewestIsSuffix ==
  ASSUME NEW S, NEW q \in Seq(S), NEW n \in Nat
  PROVE  \E k \in Nat : \A i \in DOMAIN Newest(q, n) :
           i \in Nat /\ k + i \in DOMAIN q /\ Newest(q, n)[i] = q[k + i]
<1> DEFINE m == Len(q) - n
           new == SubSeq(q, m + 1, Len(q))
<1>1. CASE ~(Len(q) > n)
  <2>1. Newest(q, n) = q
    BY <1>1 DEF Newest
  <2>2. \A i \in DOMAIN q : i \in Nat /\ 0 + i \in DOMAIN q /\ q[i] = q[0 + i]
    OBVIOUS
  <2> QED BY <2>1, <2>2
<1>2. CASE Len(q) > n
  <2>1. Newest(q, n) = new
    BY <1>2 DEF Newest
  <2>2. /\ m \in Nat /\ Len(q) \in Nat /\ m + n = Len(q) /\ DOMAIN q = 1..Len(q)
        /\ DOMAIN new = 1..n
        /\ \A i \in 1..n : new[i] = q[m + i]
    BY <1>2
  <2> HIDE DEF new, m
  <2>3. \A i \in DOMAIN new : i \in Nat /\ m + i \in DOMAIN q /\ new[i] = q[m + i]
    BY <2>2
  <2> QED BY <2>1, <2>2, <2>3
<1> QED BY <1>1, <1>2

(* An entry drops out of a history only when the history is full.          *)
LEMMA NewestFull ==
  ASSUME NEW S, NEW q \in Seq(S), NEW n \in Nat
  PROVE  /\ Newest(q, n) = q \/ Len(Newest(q, n)) = n
         /\ Len(q) >= n => Len(Newest(q, n)) = n
<1>1. CASE ~(Len(q) > n)
  <2>1. Newest(q, n) = q
    BY <1>1 DEF Newest
  <2> QED BY <1>1, <2>1
<1>2. CASE Len(q) > n
  <2>1. Newest(q, n) = SubSeq(q, Len(q) - n + 1, Len(q))
    BY <1>2 DEF Newest
  <2>2. Len(SubSeq(q, Len(q) - n + 1, Len(q))) = n
    BY <1>2
  <2> QED BY <2>1, <2>2
<1> QED BY <1>1, <1>2

HistoryIn(index, s) == IF s \in Open(index.sessions) THEN index.sessions[s].history ELSE <<>>

IsMessage(m) ==
  /\ m.batch \in Batches /\ m.slot \in DOMAIN ImagesOf[m.batch]
  /\ m.kind \in {"uploading", "discarding", "committing"}

(* The commit of m puts its batch, which is the routing batch, at the end  *)
(* of the history of s.                                                    *)
CommitsTo(s, m, old, new) ==
  /\ m.kind = "committing" /\ s = SessionOf[m.batch]
  /\ s \in Open(old.sessions) /\ s \in Open(new.sessions)
  /\ old.sessions[s].batch = m.batch /\ ~Committed(old.sessions[s], m.batch)
  /\ \E entry \in Batch :
       /\ entry.batch = m.batch
       /\ HistoryIn(new, s) = Newest(Append(HistoryIn(old, s), entry), MaxHistory)

(* What a message does to the history and to the routing batch of s.       *)
HistoryMoves(s, m, old, new) ==
  \/ HistoryIn(new, s) = <<>>
  \/ HistoryIn(new, s) = HistoryIn(old, s)
  \/ CommitsTo(s, m, old, new)

RoutingMoves(s, m, old, new) ==
  s \in Open(new.sessions) =>
    \/ /\ s \in Open(old.sessions)
       /\ new.sessions[s].batch = old.sessions[s].batch
       /\ \/ /\ HistoryIn(new, s) = HistoryIn(old, s)
             /\ m.kind = "discarding" /\ s = SessionOf[m.batch] /\ old.sessions[s].batch = m.batch
                  => Committed(old.sessions[s], m.batch)
          \/ CommitsTo(s, m, old, new)
    \/ /\ m.kind = "uploading" /\ s = SessionOf[m.batch]
       /\ new.sessions[s].batch = m.batch
       /\ HistoryIn(new, s) = HistoryIn(old, s)
    \/ /\ HistoryIn(new, s) # <<>> /\ HistoryIn(new, s) = HistoryIn(old, s)
       /\ new.sessions[s].batch = Last(HistoryIn(new, s)).batch

(* While there is room a history stays, and that of a commit done has it.  *)
HistoryStays(s, m, old, new, done) ==
  /\ HistoryIn(old, s) # <<>> => HistoryIn(new, s) = HistoryIn(old, s) \/ CommitsTo(s, m, old, new)
  /\ done /\ s = SessionOf[m.batch] =>
       s \in Open(new.sessions) /\ \E h \in ToSet(HistoryIn(new, s)) : h.batch = m.batch

(* What the three mutations make of the history and the routing batch of   *)
(* any session.                                                            *)
LEMMA CommitMoves ==
  ASSUME NEW m, IsMessage(m), m.kind = "committing", NEW old, NEW new, NEW done \in BOOLEAN,
         Commits(m.batch, old, new, done), NEW s \in Sessions
  PROVE  /\ HistoryMoves(s, m, old, new) /\ RoutingMoves(s, m, old, new)
         /\ Room => HistoryStays(s, m, old, new, done)
<1>1. CASE s = SessionOf[m.batch]
  <2>1. /\ s \in Open(new.sessions) <=> s \in Open(old.sessions)
        /\ s \in Open(new.sessions) =>
             /\ new.sessions[s].batch = old.sessions[s].batch
             /\ \/ new.sessions[s].history = old.sessions[s].history
                \/ /\ old.sessions[s].batch = m.batch /\ ~Committed(old.sessions[s], m.batch)
                   /\ \E entry \in Batch :
                        /\ entry.batch = m.batch
                        /\ new.sessions[s].history =
                             Newest(Append(old.sessions[s].history, entry), MaxHistory)
        /\ done => s \in Open(new.sessions)
                     /\ \E h \in ToSet(new.sessions[s].history) : h.batch = m.batch
    BY <1>1 DEF Commits
  <2>2. CASE s \notin Open(new.sessions)
    BY <2>1, <2>2 DEF HistoryMoves, RoutingMoves, HistoryStays, HistoryIn
  <2>3. CASE s \in Open(new.sessions)
    <3>1. /\ HistoryIn(old, s) = old.sessions[s].history
          /\ HistoryIn(new, s) = new.sessions[s].history
      BY <2>1, <2>3 DEF HistoryIn
    <3>2. \/ HistoryIn(new, s) = HistoryIn(old, s)
          \/ CommitsTo(s, m, old, new)
      BY <1>1, <2>1, <2>3, <3>1 DEF CommitsTo
    <3>3. m.kind # "discarding"
      OBVIOUS
    <3> QED BY <2>1, <2>3, <3>1, <3>2, <3>3 DEF HistoryMoves, RoutingMoves, HistoryStays
  <2> QED BY <2>2, <2>3
<1>2. CASE s # SessionOf[m.batch]
  <2>1. /\ s \in Open(new.sessions) =>
             s \in Open(old.sessions) /\ new.sessions[s] = old.sessions[s]
        /\ Room => (s \in Open(old.sessions) => s \in Open(new.sessions))
    BY <1>2 DEF Commits, OnlySessionOf
  <2> QED BY <1>2, <2>1 DEF HistoryMoves, RoutingMoves, HistoryStays, HistoryIn
<1> QED BY <1>1, <1>2

LEMMA UploadMoves ==
  ASSUME NEW m, IsMessage(m), m.kind = "uploading", NEW old, NEW new,
         Uploads(m.batch, old, new), NEW s \in Sessions
  PROVE  /\ HistoryMoves(s, m, old, new) /\ RoutingMoves(s, m, old, new)
         /\ Room => HistoryStays(s, m, old, new, FALSE)
<1>1. CASE s = SessionOf[m.batch]
  <2>1. /\ s \in Open(new.sessions) =>
             new.sessions[s].batch = m.batch /\ new.sessions[s].history = HistoryIn(old, s)
        /\ Room => s \in Open(new.sessions)
    BY <1>1 DEF Uploads, HistoryIn
  <2> QED BY <1>1, <2>1 DEF HistoryMoves, RoutingMoves, HistoryStays, HistoryIn
<1>2. CASE s # SessionOf[m.batch]
  <2>1. /\ s \in Open(new.sessions) =>
             s \in Open(old.sessions) /\ new.sessions[s] = old.sessions[s]
        /\ Room => (s \in Open(old.sessions) => s \in Open(new.sessions))
    BY <1>2 DEF Uploads, OnlySessionOf
  <2> QED BY <1>2, <2>1 DEF HistoryMoves, RoutingMoves, HistoryStays, HistoryIn
<1> QED BY <1>1, <1>2

LEMMA DiscardMoves ==
  ASSUME NEW m, IsMessage(m), m.kind = "discarding", NEW old, NEW new,
         Discards(m.batch, old, new), NEW s \in Sessions
  PROVE  /\ HistoryMoves(s, m, old, new) /\ RoutingMoves(s, m, old, new)
         /\ Room => HistoryStays(s, m, old, new, FALSE)
<1>1. CASE s = SessionOf[m.batch]
  <2>1. /\ s \in Open(new.sessions) =>
             /\ s \in Open(old.sessions)
             /\ HistoryIn(new, s) = HistoryIn(old, s)
             /\ \/ /\ new.sessions[s].batch = old.sessions[s].batch
                   /\ old.sessions[s].batch = m.batch => Committed(old.sessions[s], m.batch)
                \/ /\ HistoryIn(new, s) # <<>>
                   /\ new.sessions[s].batch = Last(HistoryIn(new, s)).batch
        /\ s \notin Open(new.sessions) => HistoryIn(old, s) = <<>> /\ HistoryIn(new, s) = <<>>
    BY <1>1 DEF Discards, HistoryIn
  <2> QED BY <1>1, <2>1 DEF HistoryMoves, RoutingMoves, HistoryStays
<1>2. CASE s # SessionOf[m.batch]
  <2>1. /\ s \in Open(new.sessions) =>
             s \in Open(old.sessions) /\ new.sessions[s] = old.sessions[s]
        /\ Room => (s \in Open(old.sessions) => s \in Open(new.sessions))
    BY <1>2 DEF Discards, OnlySessionOf
  <2> QED BY <1>2, <2>1 DEF HistoryMoves, RoutingMoves, HistoryStays, HistoryIn
<1> QED BY <1>1, <1>2
-----------------------------------------------------------------------------
(* The inductive invariant of the sends.                                   *)

(* Where the sends are, and what they wait for.                            *)
SendsOK ==
  /\ pc \in [Batches -> {"idle", "uploading", "prompting", "discarding", "committing"} \cup Settled]
  /\ slot \in [Batches -> Nat]
  /\ request \in [Batches -> {None, Posted, Yes, No}]
  /\ \A b \in Batches :
       /\ IF pc[b] = "idle" THEN slot[b] = 0 ELSE slot[b] \in DOMAIN ImagesOf[b]
       /\ request[b] # None => pc[b] \in {"uploading", "discarding", "committing"}
       /\ pc[b] \in {"discarding", "committing"} => request[b] # None
       /\ b \in ToSet(admitted) <=> pc[b] \in {"committing", "sent", "unlisted"}
  /\ admitted \in Seq(Batches) /\ IsInjective(admitted)
  /\ faults \in Nat

(* A late upload is of a send that has failed or is about to, a late       *)
(* commit of one that was admitted.                                        *)
LateOK ==
  \A m \in late :
    /\ IsMessage(m)
    /\ m.slot <= slot[m.batch]
    /\ m.kind = "uploading" => pc[m.batch] \in {"discarding", "failed"}
    /\ m.kind = "committing" => m.batch \in ToSet(admitted)
    /\ faults # 0

(* In the order of admission.                                              *)
Before(b, c) == \E k, l \in DOMAIN admitted : k < l /\ admitted[k] = b /\ admitted[l] = c

(* A routing batch that was admitted but is not committed yet was admitted *)
(* after all committed ones: its commit keeps the order.                   *)
RoutedLast ==
  \A s \in Open(hostIndex.sessions) :
    LET session == hostIndex.sessions[s]
    IN  session.batch \in ToSet(admitted) /\ ~Committed(session, session.batch)
          => \A h \in ToSet(session.history) : Before(h.batch, session.batch)

HostOK ==
  /\ IsIndex(hostIndex) /\ hostClock \in Nat
  /\ HistoryIsAdmitted
  /\ HistoryInOrder
  /\ RoutedLast

(* The send of a routing batch, without faults, was admitted or will still *)
(* be admitted or discarded.                                               *)
InFlight(b) ==
  \/ b \in ToSet(admitted)
  \/ pc[b] = "uploading" /\ (slot[b] > 1 \/ request[b] = Yes)
  \/ pc[b] = "prompting"
  \/ pc[b] = "discarding" /\ request[b] = Posted

RoutedInFlight ==
  faults = 0 =>
    /\ \A b \in Batches : pc[b] = "uploading" => request[b] # No
    /\ \A s \in Open(hostIndex.sessions) : InFlight(hostIndex.sessions[s].batch)

(* A send the host has committed is in the history, or that is full.       *)
InHistory(b) ==
  /\ SessionOf[b] \in Open(hostIndex.sessions)
  /\ \/ \E h \in ToSet(History(SessionOf[b])) : h.batch = b
     \/ Len(History(SessionOf[b])) = MaxHistory

CommittedListed ==
  Room => \A b \in Batches :
    pc[b] = "sent" \/ (pc[b] = "committing" /\ request[b] = Yes) => InHistory(b)

SendIInv == SendsOK /\ LateOK /\ HostOK /\ RoutedInFlight /\ CommittedListed

(* What the host makes of a message.                                       *)
LEMMA HandleMoves ==
  ASSUME IsIndex(hostIndex), hostClock \in Nat, NEW m, IsMessage(m), NEW s \in Sessions
  PROVE  /\ IsIndex(Handle(m).index)
         /\ HistoryMoves(s, m, hostIndex, Handle(m).index)
         /\ RoutingMoves(s, m, hostIndex, Handle(m).index)
         /\ Room => HistoryStays(s, m, hostIndex, Handle(m).index,
                                 m.kind = "committing" /\ Handle(m).result = Yes)
         /\ m.kind = "uploading" => Handle(m).result = Yes
         /\ Handle(m).result \in {Yes, No}
<1>0. m.batch \in Batches /\ m.slot \in DOMAIN ImagesOf[m.batch]
  BY DEF IsMessage
<1>1. CASE m.kind = "uploading"
  <2> DEFINE outcome == RememberAt(hostIndex, m.batch, m.slot, hostClock)
  <2>1. Handle(m) = outcome
    BY <1>1 DEF Handle
  <2>2. /\ IsIndex(outcome.index) /\ Uploads(m.batch, hostIndex, outcome.index)
        /\ outcome.result = Yes
    BY <1>0, RememberAtSound DEF Sound
  <2> HIDE DEF outcome
  <2>3. /\ HistoryMoves(s, m, hostIndex, outcome.index)
        /\ RoutingMoves(s, m, hostIndex, outcome.index)
        /\ Room => HistoryStays(s, m, hostIndex, outcome.index, FALSE)
    BY <1>1, <2>2, UploadMoves
  <2>4. Room => HistoryStays(s, m, hostIndex, outcome.index,
                             m.kind = "committing" /\ outcome.result = Yes)
    BY <1>1, <2>3 DEF HistoryStays
  <2> QED BY <2>1, <2>2, <2>3, <2>4
<1>2. CASE m.kind = "discarding"
  <2> DEFINE outcome == Discard(hostIndex, m.batch)
  <2>1. Handle(m) = outcome
    BY <1>2 DEF Handle
  <2>2. IsIndex(outcome.index) /\ Discards(m.batch, hostIndex, outcome.index)
    BY <1>0, DiscardSound DEF Sound
  <2>5. outcome.result \in {Yes, No}
    BY DEF Discard, Outcome, Unchanged
  <2> HIDE DEF outcome
  <2>3. /\ HistoryMoves(s, m, hostIndex, outcome.index)
        /\ RoutingMoves(s, m, hostIndex, outcome.index)
        /\ Room => HistoryStays(s, m, hostIndex, outcome.index, FALSE)
    BY <1>2, <2>2, DiscardMoves
  <2>4. Room => HistoryStays(s, m, hostIndex, outcome.index,
                             m.kind = "committing" /\ outcome.result = Yes)
    BY <1>2, <2>3 DEF HistoryStays
  <2> QED BY <1>2, <2>1, <2>2, <2>3, <2>4, <2>5
<1>3. CASE m.kind = "committing"
  <2> DEFINE outcome == Commit(hostIndex, m.batch, hostClock)
             done == outcome.result = Yes
  <2>1. Handle(m) = outcome
    BY <1>3 DEF Handle
  <2>2. IsIndex(outcome.index)
    BY <1>0, CommitSound DEF Sound
  <2>3. Commits(m.batch, hostIndex, outcome.index, done)
    BY <1>0, CommitSound
  <2>4. done \in BOOLEAN
    OBVIOUS
  <2>7. outcome.result \in {Yes, No}
    BY DEF Commit, Outcome, Unchanged
  <2> HIDE DEF done
  <2>5. /\ HistoryMoves(s, m, hostIndex, outcome.index)
        /\ RoutingMoves(s, m, hostIndex, outcome.index)
        /\ Room => HistoryStays(s, m, hostIndex, outcome.index, done)
    BY <1>3, <2>3, <2>4, CommitMoves
  <2> HIDE DEF outcome
  <2>6. Room => HistoryStays(s, m, hostIndex, outcome.index,
                             m.kind = "committing" /\ outcome.result = Yes)
    BY <2>5 DEF HistoryStays, done
  <2> QED BY <1>3, <2>1, <2>2, <2>5, <2>6, <2>7
<1> QED BY <1>1, <1>2, <1>3 DEF IsMessage

(* The order of admission does not change while nothing is admitted.       *)
LEMMA HostStep ==
  ASSUME HostOK, admitted \in Seq(Batches), NEW m, IsMessage(m),
         m.kind = "uploading" => m.batch \notin ToSet(admitted),
         m.kind = "committing" => m.batch \in ToSet(admitted),
         Performs(m), UNCHANGED admitted
  PROVE  HostOK'
<1> DEFINE old == hostIndex
           new == hostIndex'
<1>0. /\ IsIndex(old) /\ hostClock \in Nat /\ HistoryIsAdmitted /\ HistoryInOrder /\ RoutedLast
      /\ new = Handle(m).index /\ hostClock' = hostClock + 1
  BY DEF HostOK, Performs
<1>1. /\ \A s \in Sessions : HistoryMoves(s, m, old, new) /\ RoutingMoves(s, m, old, new)
      /\ Sessions # {} => IsIndex(new)
  BY <1>0, HandleMoves
<1>2. IsIndex(new) /\ hostClock' \in Nat
  BY <1>0, <1>1, ImagesOfBatch DEF IsMessage
<1> DEFINE before(c, d) == \E k, l \in DOMAIN admitted :
                             k < l /\ admitted[k] = c /\ admitted[l] = d
<1>3. /\ \A s : History(s) = HistoryIn(old, s)
      /\ \A s : History(s)' = HistoryIn(new, s)
  BY DEF History, HistoryIn
<1>4. ASSUME NEW s \in Sessions
      PROVE  /\ HistoryIn(old, s) \in Seq(Batch) /\ HistoryIn(new, s) \in Seq(Batch)
             /\ \A h \in ToSet(HistoryIn(new, s)) :
                  SessionOf[h.batch] = s /\ h.images = ImagesOf[h.batch]
  <2>1. s \in Open(old.sessions) => Routed(s, old.sessions[s])
    BY <1>0 DEF IsIndex, SessionsOK
  <2>2. s \in Open(new.sessions) => Routed(s, new.sessions[s])
    BY <1>2 DEF IsIndex, SessionsOK
  <2> HIDE DEF old, new
  <2>3. <<>> \in Seq(Batch) /\ ToSet(<<>>) = {}
    BY ToSetEmpty
  <2> QED BY <2>1, <2>2, <2>3 DEF Routed, Session, Entry, HistoryIn
<1>5. ASSUME NEW s \in Sessions, NEW h \in ToSet(HistoryIn(old, s))
      PROVE  h.batch \in ToSet(admitted)
  BY <1>0, <1>3 DEF HistoryIsAdmitted
<1>6. ASSUME NEW s \in Sessions, NEW i \in DOMAIN HistoryIn(old, s), NEW j \in DOMAIN HistoryIn(old, s),
             i < j
      PROVE  before(HistoryIn(old, s)[i].batch, HistoryIn(old, s)[j].batch)
  BY <1>0, <1>3, <1>6 DEF HistoryInOrder
<1>7. ASSUME NEW s \in Open(old.sessions), old.sessions[s].batch \in ToSet(admitted),
             ~Committed(old.sessions[s], old.sessions[s].batch),
             NEW h \in ToSet(HistoryIn(old, s))
      PROVE  before(h.batch, old.sessions[s].batch)
  <2>1. HistoryIn(old, s) = old.sessions[s].history
    BY DEF HistoryIn
  <2> QED BY <1>0, <1>7, <2>1 DEF RoutedLast, Before
<1> HIDE DEF old, new, before
<1>8. ASSUME NEW s \in Sessions, CommitsTo(s, m, old, new)
      PROVE  /\ \A h \in ToSet(HistoryIn(new, s)) : h.batch \in ToSet(admitted)
             /\ \A i, j \in DOMAIN HistoryIn(new, s) : i < j =>
                  before(HistoryIn(new, s)[i].batch, HistoryIn(new, s)[j].batch)
             /\ \E h \in ToSet(HistoryIn(new, s)) : h.batch = m.batch
  <2> DEFINE h == HistoryIn(old, s)
             g == HistoryIn(new, s)
  <2>1. /\ s \in Open(old.sessions) /\ old.sessions[s].batch = m.batch
        /\ ~Committed(old.sessions[s], m.batch) /\ m.batch \in ToSet(admitted)
    BY <1>8 DEF CommitsTo
  <2>2. PICK e \in Batch : e.batch = m.batch /\ g = Newest(Append(h, e), MaxHistory)
    BY <1>8 DEF CommitsTo
  <2>3. h \in Seq(Batch) /\ MaxHistory \in Nat /\ MaxHistory # 0
    BY <1>4, BatchAssumption
  <2>4. \A x \in ToSet(h) : x.batch \in ToSet(admitted) /\ before(x.batch, m.batch)
    BY <1>5, <1>7, <2>1
  <2>5. \A i, j \in DOMAIN h : i < j => before(h[i].batch, h[j].batch)
    BY <1>6
  <2> DEFINE q == Append(h, e)
  <2>6. /\ q \in Seq(Batch) /\ q # <<>> /\ Last(q) = e /\ Len(h) \in Nat
        /\ DOMAIN h = 1..Len(h) /\ DOMAIN q = 1..Len(h) + 1
        /\ \A i \in 1..Len(h) : q[i] = h[i]
        /\ q[Len(h) + 1] = e
    BY <2>3 DEF Last
  <2>7. ToSet(q) = ToSet(h) \cup {e}
    BY <2>3, ToSetAppend
  <2> HIDE DEF q, h, g
  <2>8. g = Newest(q, MaxHistory)
    BY <2>2 DEF q
  <2>9. \A i, j \in DOMAIN q : i < j => before(q[i].batch, q[j].batch)
    <3> SUFFICES ASSUME NEW i \in DOMAIN q, NEW j \in DOMAIN q, i < j
                 PROVE  before(q[i].batch, q[j].batch)
      OBVIOUS
    <3>1. CASE j \in 1..Len(h)
      <4>1. i \in 1..Len(h)
        BY <2>6, <3>1
      <4> QED BY <2>5, <2>6, <3>1, <4>1
    <3>2. CASE j = Len(h) + 1
      <4>1. i \in 1..Len(h)
        BY <2>6, <3>2
      <4>2. q[i] \in ToSet(h) /\ q[j] = e
        BY <2>6, <3>2, <4>1 DEF ToSet
      <4> QED BY <2>2, <2>4, <4>2
    <3> QED BY <2>6, <3>1, <3>2
  <2>10. PICK k \in Nat : \A i \in DOMAIN g : i \in Nat /\ k + i \in DOMAIN q /\ g[i] = q[k + i]
    <3>1. \E k \in Nat : \A i \in DOMAIN Newest(q, MaxHistory) :
            i \in Nat /\ k + i \in DOMAIN q /\ Newest(q, MaxHistory)[i] = q[k + i]
      <4>1. q \in Seq(Batch) /\ q # <<>> /\ MaxHistory \in Nat /\ MaxHistory # 0
        BY <2>3, <2>6
      <4> QED BY ONLY <4>1, NewestIsSuffix
    <3> QED BY <2>8, <3>1
  <2>11. \A i, j \in DOMAIN g : i < j => before(g[i].batch, g[j].batch)
    <3> SUFFICES ASSUME NEW i \in DOMAIN g, NEW j \in DOMAIN g, i < j
                 PROVE  before(g[i].batch, g[j].batch)
      OBVIOUS
    <3>1. k + i \in DOMAIN q /\ k + j \in DOMAIN q /\ g[i] = q[k + i] /\ g[j] = q[k + j]
          /\ i \in Nat /\ j \in Nat
      BY <2>10
    <3>2. k + i < k + j
      BY <3>1, <2>10
    <3>3. before(q[k + i].batch, q[k + j].batch)
      BY <2>9, <3>1, <3>2
    <3> QED BY <3>1, <3>3
  <2>12. /\ ToSet(g) \subseteq ToSet(q) /\ g # <<>> /\ Last(g) = e /\ g \in Seq(Batch)
    BY <2>3, <2>6, <2>8, NewestFacts
  <2>13. \A x \in ToSet(g) : x.batch \in ToSet(admitted)
    BY <2>1, <2>2, <2>4, <2>7, <2>12
  <2>14. e \in ToSet(g)
    <3>1. Len(g) \in DOMAIN g
      BY <2>12
    <3> QED BY <2>12, <3>1 DEF ToSet, Last
  <2> QED BY <2>2, <2>11, <2>13, <2>14 DEF g
<1>9. ASSUME NEW s \in Sessions
      PROVE  /\ \A h \in ToSet(HistoryIn(new, s)) : h.batch \in ToSet(admitted)
             /\ \A i, j \in DOMAIN HistoryIn(new, s) : i < j =>
                  before(HistoryIn(new, s)[i].batch, HistoryIn(new, s)[j].batch)
  <2>1. CASE HistoryIn(new, s) = <<>>
    BY <2>1, ToSetEmpty
  <2>2. CASE HistoryIn(new, s) = HistoryIn(old, s)
    BY <1>5, <1>6, <2>2
  <2>3. CASE CommitsTo(s, m, old, new)
    BY <1>8, <2>3
  <2> QED BY <1>1, <2>1, <2>2, <2>3 DEF HistoryMoves
<1>10. HistoryIsAdmitted'
  BY <1>3, <1>4, <1>9 DEF HistoryIsAdmitted
<1>11. HistoryInOrder'
  <2>1. \A s \in Sessions : \A i, j \in DOMAIN HistoryIn(new, s) : i < j =>
          before(HistoryIn(new, s)[i].batch, HistoryIn(new, s)[j].batch)
    BY <1>9
  <2> QED BY <1>3, <2>1 DEF HistoryInOrder, before
<1>12. ASSUME NEW s \in Open(new.sessions), new.sessions[s].batch \in ToSet(admitted),
              ~Committed(new.sessions[s], new.sessions[s].batch),
              NEW h \in ToSet(new.sessions[s].history)
       PROVE  before(h.batch, new.sessions[s].batch)
  <2>1. s \in Sessions /\ HistoryIn(new, s) = new.sessions[s].history
    BY DEF HistoryIn, Open
  <2>2. ~\E x \in ToSet(HistoryIn(new, s)) : x.batch = new.sessions[s].batch
    BY <1>12, <2>1 DEF Committed, ToSet
  <2>3. CASE /\ s \in Open(old.sessions) /\ new.sessions[s].batch = old.sessions[s].batch
             /\ HistoryIn(new, s) = HistoryIn(old, s)
    <3>1. HistoryIn(old, s) = old.sessions[s].history
      BY <2>3 DEF HistoryIn
    <3>2. ~Committed(old.sessions[s], old.sessions[s].batch)
      BY <2>2, <2>3, <3>1 DEF Committed, ToSet
    <3> QED BY <1>7, <1>12, <2>1, <2>3, <3>2
  <2>4. CASE CommitsTo(s, m, old, new) /\ new.sessions[s].batch = old.sessions[s].batch
    <3>1. \E x \in ToSet(HistoryIn(new, s)) : x.batch = m.batch
      BY <1>8, <2>1, <2>4
    <3> QED BY <2>2, <2>4, <3>1 DEF CommitsTo
  <2>5. CASE m.kind = "uploading" /\ new.sessions[s].batch = m.batch
    BY <1>12, <2>5
  <2>6. CASE HistoryIn(new, s) # <<>> /\ new.sessions[s].batch = Last(HistoryIn(new, s)).batch
    <3>1. HistoryIn(new, s) \in Seq(Batch)
      BY <1>4, <2>1
    <3>2. Last(HistoryIn(new, s)) \in ToSet(HistoryIn(new, s))
      <4>1. Len(HistoryIn(new, s)) \in DOMAIN HistoryIn(new, s)
        BY <2>6, <3>1
      <4> QED BY <4>1 DEF Last, ToSet
    <3> QED BY <2>2, <2>6, <3>2
  <2> QED BY <1>1, <2>1, <2>3, <2>4, <2>5, <2>6 DEF RoutingMoves
<1>13. RoutedLast'
  <2>1. \A s \in Open(new.sessions) :
          new.sessions[s].batch \in ToSet(admitted)
          /\ ~Committed(new.sessions[s], new.sessions[s].batch)
            => \A h \in ToSet(new.sessions[s].history) : before(h.batch, new.sessions[s].batch)
    BY <1>12
  <2> QED BY <2>1 DEF RoutedLast, Before, before, new
<1> QED BY <1>2, <1>10, <1>11, <1>13 DEF HostOK, new

(* The host stands still.                                                  *)
LEMMA HostStill ==
  ASSUME HostOK, UNCHANGED <<hostIndex, hostClock, admitted>>
  PROVE  HostOK'
BY DEF HostOK, HistoryIsAdmitted, HistoryInOrder, RoutedLast, History, Before

Where == {"idle", "uploading", "prompting", "discarding", "committing"} \cup Settled

Requested == {"uploading", "discarding", "committing"}

Admitted == {"committing", "sent", "unlisted"}

(* Send b goes to w, waits for r and uploads image n, and the host stands  *)
(* still.                                                                  *)
BrowserMoves(b, w, r, n) ==
  /\ pc' = [pc EXCEPT ![b] = w]
  /\ request' = [request EXCEPT ![b] = r]
  /\ slot' = [slot EXCEPT ![b] = n]
  /\ UNCHANGED <<hostIndex, hostClock, admitted>>

MayMove(b, w, r, n) ==
  /\ w \in Where \ {"idle"} /\ r \in {None, Posted, Yes, No}
  /\ n \in DOMAIN ImagesOf[b] /\ slot[b] <= n
  /\ r # None => w \in Requested
  /\ w \in {"discarding", "committing"} => r # None
  /\ w \in Admitted <=> pc[b] \in Admitted
  /\ pc[b] \in {"discarding", "failed"} => w \in {"discarding", "failed"}
  /\ w = "sent" \/ (w = "committing" /\ r = Yes) =>
       pc[b] = "sent" \/ (pc[b] = "committing" /\ request[b] = Yes)

(* ... and while there have been no faults.                                *)
Calm(b, w, r, n) ==
  /\ w = "uploading" => r # No
  /\ InFlight(b) => \/ w \in Admitted \/ w = "prompting"
                    \/ w = "uploading" /\ (n > 1 \/ r = Yes)
                    \/ w = "discarding" /\ r = Posted

Browses(b, w, r, n) ==
  /\ BrowserMoves(b, w, r, n)
  /\ MayMove(b, w, r, n)
  /\ faults' \in Nat /\ faults <= faults'
  /\ \A m \in late' : m \in late \/
       /\ IsMessage(m) /\ m.batch = b /\ m.slot <= n
       /\ m.kind = "uploading" => w \in {"discarding", "failed"}
       /\ m.kind = "committing" => b \in ToSet(admitted)
       /\ faults' # 0
  /\ faults' = 0 => Calm(b, w, r, n)

LEMMA BrowsesQuietly ==
  ASSUME NEW b, NEW w, NEW r, NEW n, BrowserMoves(b, w, r, n), MayMove(b, w, r, n),
         faults = 0 => Calm(b, w, r, n), UNCHANGED <<late, faults>>, faults \in Nat
  PROVE  Browses(b, w, r, n)
BY DEF Browses

(* A step of the browser alone keeps the invariant.                        *)
LEMMA BrowsesKeeps ==
  ASSUME SendIInv, NEW b \in Batches, NEW w, NEW r, NEW n, Browses(b, w, r, n)
  PROVE  SendIInv'
<1>1. /\ pc \in [Batches -> Where] /\ slot \in [Batches -> Nat]
      /\ request \in [Batches -> {None, Posted, Yes, No}]
      /\ \A c \in Batches :
           /\ IF pc[c] = "idle" THEN slot[c] = 0 ELSE slot[c] \in DOMAIN ImagesOf[c]
           /\ request[c] # None => pc[c] \in Requested
           /\ pc[c] \in {"discarding", "committing"} => request[c] # None
           /\ c \in ToSet(admitted) <=> pc[c] \in Admitted
      /\ admitted \in Seq(Batches) /\ IsInjective(admitted) /\ faults \in Nat
  BY DEF SendIInv, SendsOK, Where, Requested, Admitted
<1>2. /\ pc'[b] = w /\ request'[b] = r /\ slot'[b] = n
      /\ \A c \in Batches : c # b =>
           pc'[c] = pc[c] /\ request'[c] = request[c] /\ slot'[c] = slot[c]
  BY <1>1 DEF Browses, BrowserMoves, MayMove, Calm
<1>3. n \in Nat
  BY ImagesOfBatch DEF Browses, BrowserMoves, MayMove, Calm
<1>4. /\ pc' \in [Batches -> Where] /\ slot' \in [Batches -> Nat]
      /\ request' \in [Batches -> {None, Posted, Yes, No}]
  BY <1>1, <1>3 DEF Browses, BrowserMoves, MayMove, Calm
<1>5. \A c \in Batches :
        /\ IF pc'[c] = "idle" THEN slot'[c] = 0 ELSE slot'[c] \in DOMAIN ImagesOf[c]
        /\ request'[c] # None => pc'[c] \in Requested
        /\ pc'[c] \in {"discarding", "committing"} => request'[c] # None
        /\ c \in ToSet(admitted)' <=> pc'[c] \in Admitted
  <2> SUFFICES ASSUME NEW c \in Batches
               PROVE  /\ IF pc'[c] = "idle" THEN slot'[c] = 0 ELSE slot'[c] \in DOMAIN ImagesOf[c]
                      /\ request'[c] # None => pc'[c] \in Requested
                      /\ pc'[c] \in {"discarding", "committing"} => request'[c] # None
                      /\ c \in ToSet(admitted)' <=> pc'[c] \in Admitted
    OBVIOUS
  <2>1. ToSet(admitted)' = ToSet(admitted)
    BY DEF Browses, BrowserMoves, MayMove, Calm
  <2>2. CASE c = b
    BY <1>1, <1>2, <2>1, <2>2 DEF Browses, BrowserMoves, MayMove, Calm
  <2>3. CASE c # b
    BY <1>1, <1>2, <2>1, <2>3
  <2> QED BY <2>2, <2>3
<1>6. SendsOK'
  <2>1. (admitted \in Seq(Batches))' /\ IsInjective(admitted)' /\ faults' \in Nat
    BY <1>1 DEF Browses, BrowserMoves, MayMove, Calm
  <2> QED BY <1>4, <1>5, <2>1 DEF SendsOK, Where, Requested, Admitted
<1>7. LateOK'
  <2> SUFFICES ASSUME NEW m \in late'
               PROVE  /\ IsMessage(m)
                      /\ m.slot <= slot'[m.batch]
                      /\ m.kind = "uploading" => pc'[m.batch] \in {"discarding", "failed"}
                      /\ m.kind = "committing" => m.batch \in ToSet(admitted)'
                      /\ faults' # 0
    BY DEF LateOK, IsMessage
  <2>1. CASE m \in late
    <3>1. /\ IsMessage(m) /\ m.slot <= slot[m.batch] /\ m.batch \in Batches
          /\ m.kind = "uploading" => pc[m.batch] \in {"discarding", "failed"}
          /\ m.kind = "committing" => m.batch \in ToSet(admitted)
          /\ faults # 0 /\ faults \in Nat /\ m.slot \in Nat
      BY <1>1, <2>1, ImagesOfBatch DEF SendIInv, LateOK, IsMessage
    <3>2. m.slot <= slot'[m.batch]
      <4>1. slot[b] \in Nat /\ slot[b] <= n
        BY <1>1 DEF Browses, BrowserMoves, MayMove, Calm
      <4>2. CASE m.batch = b
        BY <1>2, <1>3, <3>1, <4>1, <4>2
      <4>3. CASE m.batch # b
        BY <1>2, <3>1, <4>3
      <4> QED BY <4>2, <4>3
    <3>3. m.kind = "uploading" => pc'[m.batch] \in {"discarding", "failed"}
      BY <1>2, <3>1 DEF Browses, BrowserMoves, MayMove, Calm
    <3>4. ToSet(admitted)' = ToSet(admitted) /\ faults' \in Nat /\ faults <= faults'
      BY DEF Browses, BrowserMoves, MayMove, Calm
    <3> QED BY <3>1, <3>2, <3>3, <3>4
  <2>2. CASE m \notin late
    BY <1>2, <2>2 DEF Browses, BrowserMoves, MayMove, Calm
  <2> QED BY <2>1, <2>2
<1>8. HostOK'
  BY HostStill DEF SendIInv, Browses, BrowserMoves, MayMove, Calm
<1>9. RoutedInFlight'
  <2> SUFFICES ASSUME faults' = 0
               PROVE  /\ \A c \in Batches : pc'[c] = "uploading" => request'[c] # No
                      /\ \A s \in Open(hostIndex.sessions)' : InFlight(hostIndex.sessions[s].batch)'
    BY DEF RoutedInFlight
  <2>1. /\ faults = 0 /\ ToSet(admitted)' = ToSet(admitted)
        /\ UNCHANGED hostIndex
    BY <1>1 DEF Browses, BrowserMoves, MayMove, Calm
  <2>2. /\ \A c \in Batches : pc[c] = "uploading" => request[c] # No
        /\ \A s \in Open(hostIndex.sessions) : InFlight(hostIndex.sessions[s].batch)
    BY <2>1 DEF SendIInv, RoutedInFlight
  <2>3. \A c \in Batches : pc'[c] = "uploading" => request'[c] # No
    BY <1>2, <2>2 DEF Browses, BrowserMoves, MayMove, Calm
  <2>4. ASSUME NEW c \in Batches, InFlight(c) PROVE InFlight(c)'
    <3>1. CASE c = b
      <4>1. InFlight(b)
        BY <2>4, <3>1
      <4>2. \/ w \in Admitted \/ w = "prompting"
            \/ w = "uploading" /\ (n > 1 \/ r = Yes)
            \/ w = "discarding" /\ r = Posted
        BY <4>1 DEF Browses, BrowserMoves, MayMove, Calm
      <4>3. w \in Admitted => b \in ToSet(admitted)
        BY <1>1 DEF Browses, BrowserMoves, MayMove, Calm
      <4> QED BY <1>2, <2>1, <3>1, <4>2, <4>3 DEF InFlight
    <3>2. CASE c # b
      BY <1>2, <2>1, <2>4, <3>2 DEF InFlight
    <3> QED BY <3>1, <3>2
  <2>5. \A s \in Open(hostIndex.sessions) : hostIndex.sessions[s].batch \in Batches
    BY DEF SendIInv, HostOK, IsIndex, SessionsOK, Routed, Session
  <2>6. \A s \in Open(hostIndex.sessions)' : InFlight(hostIndex.sessions[s].batch)'
    <3> SUFFICES ASSUME NEW s \in Open(hostIndex.sessions)
                 PROVE  InFlight(hostIndex.sessions[s].batch)'
      BY <2>1
    <3> DEFINE c == hostIndex.sessions[s].batch
    <3>1. InFlight(c)'
      <4>1. c \in Batches /\ InFlight(c)
        BY <2>2, <2>5
      <4>2. c' = c
        BY <2>1
      <4> HIDE DEF c
      <4>3. \A d \in Batches : InFlight(d) => InFlight(d)'
        BY <2>4
      <4> QED BY <4>1, <4>2, <4>3 DEF InFlight
    <3> QED BY <3>1
  <2> QED BY <2>3, <2>6
<1>10. CommittedListed'
  <2> SUFFICES ASSUME Room, NEW c \in Batches,
                      pc'[c] = "sent" \/ (pc'[c] = "committing" /\ request'[c] = Yes)
               PROVE  InHistory(c)'
    BY DEF CommittedListed, Room
  <2>1. pc[c] = "sent" \/ (pc[c] = "committing" /\ request[c] = Yes)
    <3>1. CASE c = b
      BY <1>2, <3>1 DEF Browses, BrowserMoves, MayMove, Calm
    <3>2. CASE c # b
      BY <1>2, <3>2
    <3> QED BY <3>1, <3>2
  <2>2. InHistory(c) /\ UNCHANGED hostIndex
    BY <2>1 DEF SendIInv, CommittedListed, Browses, BrowserMoves, MayMove, Calm
  <2> QED BY <2>2 DEF InHistory, History
<1> QED BY <1>6, <1>7, <1>8, <1>9, <1>10 DEF SendIInv

(* A send that is in its history stays there, or the history is full.      *)
LEMMA InHistoryStays ==
  ASSUME IsIndex(hostIndex), hostClock \in Nat, Room, NEW b \in Batches, InHistory(b),
         NEW m, IsMessage(m), Performs(m)
  PROVE  InHistory(b)'
<1> DEFINE s == SessionOf[b]
           old == hostIndex
           new == hostIndex'
           h == HistoryIn(old, s)
           g == HistoryIn(new, s)
<1>1. /\ s \in Sessions /\ IsIndex(new)
      /\ h # <<>> => g = h \/ CommitsTo(s, m, old, new)
  BY ImagesOfBatch, HandleMoves DEF Performs, HistoryStays
<1>2. /\ s \in Open(old.sessions) /\ h = old.sessions[s].history
      /\ (\E x \in ToSet(h) : x.batch = b) \/ Len(h) = MaxHistory
  BY DEF InHistory, History, HistoryIn
<1>3. h \in Seq(Batch)
  BY <1>1, <1>2 DEF IsIndex, SessionsOK, Routed, Session
<1>4. MaxHistory \in Nat /\ MaxHistory # 0
  BY BatchAssumption
<1>5. History(s)' = g /\ (s \in Open(hostIndex.sessions)' <=> s \in Open(new.sessions))
  BY DEF History, HistoryIn
<1> HIDE DEF s, old, new, h, g
<1>6. h # <<>>
  BY <1>2, <1>4, ToSetEmpty
<1>7. /\ g # <<>>
      /\ (\E x \in ToSet(g) : x.batch = b) \/ Len(g) = MaxHistory
  <2>1. CASE g = h
    BY <1>2, <1>6, <2>1
  <2>2. CASE CommitsTo(s, m, old, new)
    <3>1. PICK e \in Batch : g = Newest(Append(h, e), MaxHistory)
      BY <2>2 DEF CommitsTo, g, h
    <3> DEFINE q == Append(h, e)
    <3>2. /\ q \in Seq(Batch) /\ Len(q) = Len(h) + 1 /\ Len(h) \in Nat /\ q # <<>>
          /\ ToSet(q) = ToSet(h) \cup {e}
      <4>1. ToSet(q) = ToSet(h) \cup {e}
        BY <1>3, ToSetAppend
      <4> QED BY <1>3, <4>1
    <3> HIDE DEF q
    <3>3. g = Newest(q, MaxHistory)
      BY <3>1 DEF q
    <3>4. /\ Newest(q, MaxHistory) # <<>>
          /\ Newest(q, MaxHistory) = q \/ Len(Newest(q, MaxHistory)) = MaxHistory
          /\ Len(q) >= MaxHistory => Len(Newest(q, MaxHistory)) = MaxHistory
      BY <1>4, <3>2, NewestFacts, NewestFull
    <3>5. CASE Len(h) = MaxHistory
      BY <1>4, <3>2, <3>3, <3>4, <3>5
    <3>6. CASE \E x \in ToSet(h) : x.batch = b
      BY <3>2, <3>3, <3>4, <3>6
    <3> QED BY <1>2, <3>5, <3>6
  <2> QED BY <1>1, <1>6, <2>1, <2>2
<1>8. s \in Open(new.sessions)
  BY <1>7 DEF g, HistoryIn
<1>9. /\ SessionOf[b] \in Open(hostIndex.sessions)'
      /\ (\E x \in ToSet(History(SessionOf[b]))' : x.batch = b)
           \/ (Len(History(SessionOf[b])) = MaxHistory)'
  BY <1>5, <1>7, <1>8 DEF s
<1> QED BY <1>9 DEF InHistory

(* The host answers the request of send b.                                 *)
LEMMA HandlesKeeps ==
  ASSUME SendIInv, NEW b \in Batches, HostHandles(b)
  PROVE  SendIInv'
<1> DEFINE m == Message(b)
           old == hostIndex
           new == hostIndex'
<1>1. /\ request[b] = Posted /\ Performs(m) /\ new = Handle(m).index
      /\ request' = [request EXCEPT ![b] = Handle(m).result]
      /\ UNCHANGED <<pc, slot, late, admitted, faults>>
  BY DEF HostHandles, Performs
<1>2. /\ m.batch = b /\ m.kind = pc[b] /\ m.slot = slot[b]
  BY DEF Message
<1>3. /\ request \in [Batches -> {None, Posted, Yes, No}]
      /\ pc[b] \in Requested
      /\ slot[b] \in DOMAIN ImagesOf[b]
      /\ pc[b] = "uploading" => b \notin ToSet(admitted)
      /\ pc[b] = "committing" => b \in ToSet(admitted)
      /\ admitted \in Seq(Batches)
  <2>1. Posted # None
    BY SendAssumption
  <2> QED BY <1>1, <2>1 DEF SendIInv, SendsOK, Requested
<1>4. IsMessage(m)
  BY <1>2, <1>3 DEF IsMessage, Requested
<1>5. IsIndex(old) /\ hostClock \in Nat /\ HostOK
  BY DEF SendIInv, HostOK
<1>6. HostOK'
  BY <1>1, <1>2, <1>3, <1>4, <1>5, HostStep
<1> HIDE DEF m
<1>7. ASSUME NEW s \in Sessions
      PROVE  /\ RoutingMoves(s, m, old, new)
             /\ Room => HistoryStays(s, m, old, new, m.kind = "committing" /\ Handle(m).result = Yes)
             /\ m.kind = "uploading" => Handle(m).result = Yes
             /\ Handle(m).result \in {Yes, No}
  BY <1>1, <1>4, <1>5, HandleMoves
<1>8. /\ Handle(m).result \in {Yes, No}
      /\ m.kind = "uploading" => Handle(m).result = Yes
  BY <1>7, ImagesOfBatch
<1>9. /\ request'[b] = Handle(m).result
      /\ \A c \in Batches : c # b => request'[c] = request[c]
      /\ request' \in [Batches -> {None, Posted, Yes, No}]
  BY <1>1, <1>3, <1>8
<1>10. No # Yes /\ None # Yes /\ None # No
  BY SendAssumption DEF Yes, No
<1>11. SendsOK'
  <2> SUFFICES ASSUME NEW c \in Batches
               PROVE  /\ request'[c] # None => pc[c] \in Requested
                      /\ pc[c] \in {"discarding", "committing"} => request'[c] # None
    BY <1>1, <1>9 DEF SendIInv, SendsOK, Requested
  <2>1. CASE c = b
    BY <1>3, <1>8, <1>9, <1>10, <2>1
  <2>2. CASE c # b
    BY <1>9, <2>2 DEF SendIInv, SendsOK, Requested
  <2> QED BY <2>1, <2>2
<1>12. LateOK'
  BY <1>1 DEF SendIInv, LateOK, IsMessage
<1>13. RoutedInFlight'
  <2> DEFINE next(c) == \/ c \in ToSet(admitted)
                        \/ pc[c] = "uploading" /\ (slot[c] > 1 \/ request'[c] = Yes)
                        \/ pc[c] = "prompting"
                        \/ pc[c] = "discarding" /\ request'[c] = Posted
  <2> SUFFICES ASSUME faults = 0
               PROVE  /\ \A c \in Batches : pc[c] = "uploading" => request'[c] # No
                      /\ \A s \in Open(new.sessions) : next(new.sessions[s].batch)
    BY <1>1 DEF RoutedInFlight, InFlight
  <2>1. /\ \A c \in Batches : pc[c] = "uploading" => request[c] # No
        /\ \A s \in Open(old.sessions) : InFlight(old.sessions[s].batch)
    BY DEF SendIInv, RoutedInFlight
  <2>2. \A c \in Batches : pc[c] = "uploading" => request'[c] # No
    BY <1>2, <1>8, <1>9, <1>10, <2>1
  <2>3. ASSUME NEW c, c \in ToSet(admitted) PROVE next(c)
    BY <2>3
  <2>4. ASSUME NEW s \in Sessions, NEW h \in ToSet(HistoryIn(old, s))
        PROVE  h.batch \in ToSet(admitted)
    BY <1>5 DEF HostOK, HistoryIsAdmitted, History, HistoryIn
  <2>5. ASSUME NEW s \in Sessions, HistoryIn(new, s) # <<>>
        PROVE  Last(HistoryIn(new, s)).batch \in ToSet(admitted)
    <3>1. HistoryIn(new, s) \in Seq(Batch)
      <4>1. s \in Open(new.sessions)
        BY <2>5 DEF HistoryIn
      <4> QED BY <1>6, <4>1 DEF HostOK, HistoryIn, IsIndex, SessionsOK, Routed, Session
    <3>2. Last(HistoryIn(new, s)) \in ToSet(HistoryIn(new, s))
      <4>1. Len(HistoryIn(new, s)) \in DOMAIN HistoryIn(new, s)
        BY <2>5, <3>1
      <4> QED BY <4>1 DEF Last, ToSet
    <3>3. \A h \in ToSet(HistoryIn(new, s)) : h.batch \in ToSet(admitted)
      BY <1>1, <1>6 DEF HostOK, HistoryIsAdmitted, History, HistoryIn
    <3> QED BY <3>2, <3>3
  <2>6. ASSUME NEW c \in Batches, c # b, InFlight(c) PROVE next(c)
    BY <1>9, <2>6 DEF InFlight
  <2> HIDE DEF next
  <2>7. ASSUME NEW s \in Open(new.sessions) PROVE next(new.sessions[s].batch)
    <3>0. s \in Sessions
      BY DEF Open
    <3>1. CASE m.kind = "uploading" /\ new.sessions[s].batch = b
      <4>1. next(b)
        BY <1>2, <1>8, <1>9, <3>1 DEF next
      <4> QED BY <3>1, <4>1
    <3>2. CASE /\ HistoryIn(new, s) # <<>>
               /\ new.sessions[s].batch = Last(HistoryIn(new, s)).batch
      BY <2>3, <2>5, <3>0, <3>2
    <3>3. CASE /\ s \in Open(old.sessions)
               /\ new.sessions[s].batch = old.sessions[s].batch
               /\ \/ m.kind = "discarding" /\ s = SessionOf[b] /\ old.sessions[s].batch = b
                       => Committed(old.sessions[s], b)
                  \/ m.kind = "committing"
      <4> DEFINE c == old.sessions[s].batch
      <4>1. c \in Batches /\ SessionOf[c] = s /\ InFlight(c)
        BY <1>5, <2>1, <3>3 DEF IsIndex, SessionsOK, Routed, Session
      <4>2. CASE c # b
        BY <2>6, <3>3, <4>1, <4>2
      <4>3. CASE c = b /\ m.kind = "uploading"
        BY <3>1, <3>3, <4>3
      <4>4. CASE c = b /\ m.kind = "committing"
        BY <1>2, <1>3, <2>3, <3>3, <4>4
      <4>5. CASE c = b /\ m.kind = "discarding"
        <5>1. Committed(old.sessions[s], b)
          BY <3>3, <4>1, <4>5
        <5>2. b \in ToSet(admitted)
          BY <2>4, <3>0, <3>3, <5>1 DEF Committed, HistoryIn, ToSet
        <5> QED BY <2>3, <3>3, <4>5, <5>2
      <4> QED BY <1>4, <4>2, <4>3, <4>4, <4>5 DEF IsMessage
    <3>4. RoutingMoves(s, m, old, new)
      BY <1>7, <3>0
    <3> QED BY <1>2, <3>1, <3>2, <3>3, <3>4 DEF RoutingMoves, CommitsTo
  <2> QED BY <2>2, <2>7
<1>14. CommittedListed'
  <2> SUFFICES ASSUME Room, NEW c \in Batches,
                      pc[c] = "sent" \/ (pc[c] = "committing" /\ request'[c] = Yes)
               PROVE  InHistory(c)'
    BY <1>1 DEF CommittedListed, Room
  <2>1. CASE c = b
    <3>1. m.kind = "committing" /\ Handle(m).result = Yes
      BY <1>2, <1>3, <1>9, <2>1 DEF Requested
    <3>2. SessionOf[b] \in Sessions
      BY ImagesOfBatch
    <3>3. /\ SessionOf[b] \in Open(new.sessions)
          /\ \E h \in ToSet(HistoryIn(new, SessionOf[b])) : h.batch = b
      BY <1>2, <1>7, <3>1, <3>2 DEF HistoryStays
    <3> QED BY <2>1, <3>3 DEF InHistory, History, HistoryIn
  <2>2. CASE c # b
    <3>1. InHistory(c)
      BY <1>9, <2>2 DEF SendIInv, CommittedListed
    <3> QED BY <1>1, <1>4, <1>5, <3>1, InHistoryStays
  <2> QED BY <2>1, <2>2
<1> QED BY <1>6, <1>11, <1>12, <1>13, <1>14 DEF SendIInv

(* A given-up request reaches the host.                                    *)
LEMMA LateKeeps ==
  ASSUME SendIInv, LateRequest
  PROVE  SendIInv'
<1>1. PICK m \in late :
        /\ Performs(m) /\ late' = late \ {m}
        /\ UNCHANGED <<pc, slot, request, admitted, faults>>
  BY DEF LateRequest
<1>2. /\ IsMessage(m) /\ faults # 0
      /\ m.kind = "uploading" => pc[m.batch] \in {"discarding", "failed"}
      /\ m.kind = "committing" => m.batch \in ToSet(admitted)
  BY DEF SendIInv, LateOK
<1>3. m.kind = "uploading" => m.batch \notin ToSet(admitted)
  BY <1>2 DEF SendIInv, SendsOK, IsMessage
<1>4. IsIndex(hostIndex) /\ hostClock \in Nat /\ HostOK /\ admitted \in Seq(Batches)
  BY DEF SendIInv, HostOK, SendsOK
<1>5. HostOK'
  BY <1>1, <1>2, <1>3, <1>4, HostStep
<1>6. SendsOK'
  BY <1>1 DEF SendIInv, SendsOK
<1>7. LateOK'
  BY <1>1 DEF SendIInv, LateOK, IsMessage
<1>8. RoutedInFlight'
  BY <1>1, <1>2 DEF RoutedInFlight
<1>9. CommittedListed'
  <2> SUFFICES ASSUME Room, NEW c \in Batches,
                      pc[c] = "sent" \/ (pc[c] = "committing" /\ request[c] = Yes)
               PROVE  InHistory(c)'
    BY <1>1 DEF CommittedListed, Room
  <2>1. InHistory(c)
    BY DEF SendIInv, CommittedListed
  <2> QED BY <1>1, <1>2, <1>4, <2>1, InHistoryStays
<1> QED BY <1>5, <1>6, <1>7, <1>8, <1>9 DEF SendIInv

(* The invariant of the sends holds in the beginning, ...                  *)
LEMMA SendIInvInit == SendInit => SendIInv
<1> SUFFICES ASSUME SendInit PROVE SendIInv
  OBVIOUS
<1>1. Open(hostIndex.sessions) = {} /\ IsIndex(hostIndex)
  <2>1. hostIndex = EmptyIndex /\ hostIndex.sessions = [s \in Sessions |-> None]
    BY DEF SendInit, EmptyIndex
  <2> QED BY <2>1, EmptyFacts DEF Open
<1>2. SendsOK
  <2>1. ToSet(admitted) = {} /\ IsInjective(admitted) /\ admitted \in Seq(Batches)
    BY ToSetEmpty DEF SendInit, IsInjective
  <2> QED BY <2>1 DEF SendInit, SendsOK
<1>3. LateOK
  BY DEF SendInit, LateOK
<1>4. HostOK
  <2>1. \A s : History(s) = <<>>
    BY <1>1 DEF History
  <2>2. HistoryIsAdmitted /\ HistoryInOrder
    BY <2>1, ToSetEmpty DEF HistoryIsAdmitted, HistoryInOrder
  <2> QED BY <1>1, <2>2 DEF HostOK, RoutedLast, SendInit
<1>5. RoutedInFlight
  BY <1>1 DEF RoutedInFlight, SendInit
<1>6. CommittedListed
  BY DEF CommittedListed, SendInit
<1> QED BY <1>2, <1>3, <1>4, <1>5, <1>6 DEF SendIInv

(* What is known of a send that is not idle.                               *)
LEMMA SendFacts ==
  ASSUME SendIInv, NEW b \in Batches
  PROVE  /\ pc \in [Batches -> Where] /\ request \in [Batches -> {None, Posted, Yes, No}]
         /\ slot \in [Batches -> Nat] /\ faults \in Nat
         /\ IF pc[b] = "idle" THEN slot[b] = 0 ELSE slot[b] \in DOMAIN ImagesOf[b]
         /\ request[b] # None => pc[b] \in Requested
         /\ pc[b] \in {"discarding", "committing"} => request[b] # None
         /\ b \in ToSet(admitted) <=> pc[b] \in Admitted
         /\ faults = 0 /\ pc[b] = "uploading" => request[b] # No
         /\ pc = [pc EXCEPT ![b] = pc[b]]
         /\ slot = [slot EXCEPT ![b] = slot[b]]
         /\ DOMAIN ImagesOf[b] = 1..Len(ImagesOf[b]) /\ Len(ImagesOf[b]) \in Nat \ {0}
<1>1. /\ pc \in [Batches -> Where] /\ request \in [Batches -> {None, Posted, Yes, No}]
      /\ slot \in [Batches -> Nat] /\ faults \in Nat
      /\ IF pc[b] = "idle" THEN slot[b] = 0 ELSE slot[b] \in DOMAIN ImagesOf[b]
      /\ request[b] # None => pc[b] \in Requested
      /\ pc[b] \in {"discarding", "committing"} => request[b] # None
      /\ b \in ToSet(admitted) <=> pc[b] \in Admitted
  BY DEF SendIInv, SendsOK, Where, Requested, Admitted
<1>2. faults = 0 /\ pc[b] = "uploading" => request[b] # No
  BY DEF SendIInv, RoutedInFlight
<1>3. pc = [pc EXCEPT ![b] = pc[b]] /\ slot = [slot EXCEPT ![b] = slot[b]]
  BY <1>1
<1>4. DOMAIN ImagesOf[b] = 1..Len(ImagesOf[b]) /\ Len(ImagesOf[b]) \in Nat \ {0}
  BY BatchAssumption
<1> QED BY <1>1, <1>2, <1>3, <1>4

(* Nothing happens.                                                        *)
LEMMA SendStill ==
  ASSUME SendIInv, UNCHANGED sendVars
  PROVE  SendIInv'
<1>1. HostOK'
  BY HostStill DEF SendIInv, sendVars
<1>2. SendsOK' /\ LateOK'
  BY DEF SendIInv, SendsOK, LateOK, IsMessage, sendVars
<1>3. RoutedInFlight'
  BY DEF SendIInv, RoutedInFlight, InFlight, sendVars
<1>4. CommittedListed'
  BY DEF SendIInv, CommittedListed, InHistory, History, Room, sendVars
<1> QED BY <1>1, <1>2, <1>3, <1>4 DEF SendIInv

(* The session admits the prompt of send b, after all others.              *)
LEMMA AdmittedKeeps ==
  ASSUME SendIInv, NEW b \in Batches, PromptAdmitted(b)
  PROVE  SendIInv'
<1>0. Posted # Yes /\ None # Posted /\ Posted # No
  BY SendAssumption DEF Posted, Yes, No
<1>1. /\ pc[b] = "prompting" /\ admitted' = Append(admitted, b)
      /\ pc' = [pc EXCEPT ![b] = "committing"] /\ request' = [request EXCEPT ![b] = Posted]
      /\ UNCHANGED <<hostIndex, hostClock, slot, late, faults>>
  BY DEF PromptAdmitted, Goto, host
<1>2. /\ pc \in [Batches -> Where] /\ request \in [Batches -> {None, Posted, Yes, No}]
      /\ admitted \in Seq(Batches) /\ IsInjective(admitted)
  BY DEF SendIInv, SendsOK, Where
<1>3. /\ pc'[b] = "committing" /\ request'[b] = Posted
      /\ \A c \in Batches : c # b => pc'[c] = pc[c] /\ request'[c] = request[c]
      /\ pc' \in [Batches -> Where] /\ request' \in [Batches -> {None, Posted, Yes, No}]
  BY <1>1, <1>2 DEF Where
<1>4. /\ admitted' \in Seq(Batches) /\ ToSet(admitted') = ToSet(admitted) \cup {b}
      /\ Len(admitted) \in Nat
      /\ DOMAIN admitted = 1..Len(admitted) /\ DOMAIN admitted' = 1..Len(admitted) + 1
      /\ \A i \in 1..Len(admitted) : admitted'[i] = admitted[i]
      /\ admitted'[Len(admitted) + 1] = b
  <2>1. ToSet(admitted') = ToSet(admitted) \cup {b}
    BY <1>1, <1>2, ToSetAppend
  <2> QED BY <1>1, <1>2, <2>1
<1>5. b \notin ToSet(admitted)
  BY <1>1 DEF SendIInv, SendsOK
<1>6. IsInjective(admitted')
  BY <1>1, <1>2, <1>5, InjectiveAppend
<1>7. SendsOK'
  <2>1. \A c \in Batches :
          /\ IF pc'[c] = "idle" THEN slot'[c] = 0 ELSE slot'[c] \in DOMAIN ImagesOf[c]
          /\ request'[c] # None => pc'[c] \in Requested
          /\ pc'[c] \in {"discarding", "committing"} => request'[c] # None
          /\ c \in ToSet(admitted') <=> pc'[c] \in Admitted
    <3> SUFFICES ASSUME NEW c \in Batches
                 PROVE  /\ IF pc'[c] = "idle" THEN slot'[c] = 0 ELSE slot'[c] \in DOMAIN ImagesOf[c]
                        /\ request'[c] # None => pc'[c] \in Requested
                        /\ pc'[c] \in {"discarding", "committing"} => request'[c] # None
                        /\ c \in ToSet(admitted') <=> pc'[c] \in Admitted
      OBVIOUS
    <3>1. /\ IF pc[c] = "idle" THEN slot[c] = 0 ELSE slot[c] \in DOMAIN ImagesOf[c]
          /\ request[c] # None => pc[c] \in Requested
          /\ pc[c] \in {"discarding", "committing"} => request[c] # None
          /\ c \in ToSet(admitted) <=> pc[c] \in Admitted
          /\ slot'[c] = slot[c]
      BY <1>1 DEF SendIInv, SendsOK, Requested, Admitted
    <3>2. CASE c = b
      BY <1>0, <1>1, <1>3, <1>4, <3>1, <3>2 DEF Requested, Admitted
    <3>3. CASE c # b
      BY <1>3, <1>4, <3>1, <3>3
    <3> QED BY <3>2, <3>3
  <2>2. slot' \in [Batches -> Nat] /\ faults' \in Nat
    BY <1>1 DEF SendIInv, SendsOK
  <2> QED BY <1>3, <1>4, <1>6, <2>1, <2>2 DEF SendsOK, Where, Requested, Admitted
<1>8. LateOK'
  <2> SUFFICES ASSUME NEW m \in late
               PROVE  /\ IsMessage(m)
                      /\ m.slot <= slot[m.batch]
                      /\ m.kind = "uploading" => pc'[m.batch] \in {"discarding", "failed"}
                      /\ m.kind = "committing" => m.batch \in ToSet(admitted')
                      /\ faults # 0
    BY <1>1 DEF LateOK, IsMessage
  <2>1. /\ IsMessage(m) /\ m.batch \in Batches
        /\ m.slot <= slot[m.batch]
        /\ m.kind = "uploading" => pc[m.batch] \in {"discarding", "failed"}
        /\ m.kind = "committing" => m.batch \in ToSet(admitted)
        /\ faults # 0
    BY DEF SendIInv, LateOK, IsMessage
  <2> QED BY <1>1, <1>3, <1>4, <2>1
<1> DEFINE before(c, d) == \E k, l \in DOMAIN admitted :
                             k < l /\ admitted[k] = c /\ admitted[l] = d
           beforeNow(c, d) == \E k, l \in DOMAIN admitted' :
                             k < l /\ admitted'[k] = c /\ admitted'[l] = d
<1>9. ASSUME NEW c, NEW d, before(c, d) PROVE beforeNow(c, d)
  <2>1. PICK k \in DOMAIN admitted, l \in DOMAIN admitted :
          k < l /\ admitted[k] = c /\ admitted[l] = d
    BY <1>9
  <2>2. /\ k \in DOMAIN admitted' /\ l \in DOMAIN admitted'
        /\ admitted'[k] = c /\ admitted'[l] = d
    BY <1>4, <2>1
  <2> QED BY <2>1, <2>2
<1>10. ASSUME NEW c \in ToSet(admitted) PROVE beforeNow(c, b)
  <2>1. PICK k \in DOMAIN admitted : admitted[k] = c
    BY DEF ToSet
  <2>2. /\ k \in DOMAIN admitted' /\ admitted'[k] = c
        /\ Len(admitted) + 1 \in DOMAIN admitted' /\ k < Len(admitted) + 1
        /\ admitted'[Len(admitted) + 1] = b
    BY <1>4, <2>1
  <2> QED BY <2>2
<1> HIDE DEF before, beforeNow
<1>11. HostOK'
  <2>1. /\ \A s \in Sessions : \A h \in ToSet(History(s)) :
             /\ SessionOf[h.batch] = s /\ h.batch \in ToSet(admitted)
             /\ h.images = ImagesOf[h.batch]
        /\ \A s : History(s)' = History(s)
    BY <1>1 DEF SendIInv, HostOK, HistoryIsAdmitted, History
  <2>2. HistoryIsAdmitted'
    BY <1>4, <2>1 DEF HistoryIsAdmitted
  <2>3. \A s \in Sessions : \A i, j \in DOMAIN History(s) :
          i < j => before(History(s)[i].batch, History(s)[j].batch)
    BY DEF SendIInv, HostOK, HistoryInOrder, before
  <2>4. \A s \in Sessions : \A i, j \in DOMAIN History(s) :
          i < j => beforeNow(History(s)[i].batch, History(s)[j].batch)
    BY <1>9, <2>3
  <2>5. HistoryInOrder'
    BY <2>1, <2>4 DEF HistoryInOrder, beforeNow
  <2>6. ASSUME NEW s \in Open(hostIndex.sessions),
               hostIndex.sessions[s].batch \in ToSet(admitted'),
               ~Committed(hostIndex.sessions[s], hostIndex.sessions[s].batch),
               NEW h \in ToSet(hostIndex.sessions[s].history)
        PROVE  beforeNow(h.batch, hostIndex.sessions[s].batch)
    <3>1. CASE hostIndex.sessions[s].batch \in ToSet(admitted)
      <4>1. before(h.batch, hostIndex.sessions[s].batch)
        BY <2>6, <3>1 DEF SendIInv, HostOK, RoutedLast, Before, before
      <4> QED BY <1>9, <4>1
    <3>2. CASE hostIndex.sessions[s].batch = b
      <4>1. h.batch \in ToSet(admitted)
        BY <2>1 DEF Open, History
      <4> QED BY <1>10, <3>2, <4>1
    <3> QED BY <1>4, <2>6, <3>1, <3>2
  <2>7. RoutedLast'
    BY <1>1, <2>6 DEF RoutedLast, Before, beforeNow
  <2>8. (IsIndex(hostIndex) /\ hostClock \in Nat)'
    BY <1>1 DEF SendIInv, HostOK
  <2> QED BY <2>2, <2>5, <2>7, <2>8 DEF HostOK
<1>12. RoutedInFlight'
  <2> SUFFICES ASSUME faults = 0
               PROVE  /\ \A c \in Batches : pc'[c] = "uploading" => request'[c] # No
                      /\ \A s \in Open(hostIndex.sessions) :
                           LET c == hostIndex.sessions[s].batch
                           IN  \/ c \in ToSet(admitted')
                               \/ pc'[c] = "uploading" /\ (slot[c] > 1 \/ request'[c] = Yes)
                               \/ pc'[c] = "prompting"
                               \/ pc'[c] = "discarding" /\ request'[c] = Posted
    BY <1>1 DEF RoutedInFlight, InFlight
  <2>1. /\ \A c \in Batches : pc[c] = "uploading" => request[c] # No
        /\ \A s \in Open(hostIndex.sessions) : InFlight(hostIndex.sessions[s].batch)
    BY DEF SendIInv, RoutedInFlight
  <2>2. \A c \in Batches : pc'[c] = "uploading" => request'[c] # No
    BY <1>3, <2>1
  <2>3. \A s \in Open(hostIndex.sessions) : hostIndex.sessions[s].batch \in Batches
    BY DEF SendIInv, HostOK, IsIndex, SessionsOK, Routed, Session
  <2>4. ASSUME NEW c \in Batches, InFlight(c)
        PROVE  \/ c \in ToSet(admitted')
               \/ pc'[c] = "uploading" /\ (slot[c] > 1 \/ request'[c] = Yes)
               \/ pc'[c] = "prompting"
               \/ pc'[c] = "discarding" /\ request'[c] = Posted
    <3>1. CASE c = b
      BY <1>4, <3>1
    <3>2. CASE c # b
      BY <1>3, <1>4, <2>4, <3>2 DEF InFlight
    <3> QED BY <3>1, <3>2
  <2> QED BY <2>1, <2>2, <2>3, <2>4
<1>13. CommittedListed'
  <2> SUFFICES ASSUME Room, NEW c \in Batches,
                      pc'[c] = "sent" \/ (pc'[c] = "committing" /\ request'[c] = Yes)
               PROVE  InHistory(c)'
    BY DEF CommittedListed, Room
  <2>1. c # b
    BY <1>0, <1>3
  <2>2. InHistory(c)
    BY <1>3, <2>1 DEF SendIInv, CommittedListed
  <2> QED BY <1>1, <2>2 DEF InHistory, History
<1> QED BY <1>7, <1>8, <1>11, <1>12, <1>13 DEF SendIInv

(* ... every step keeps it, ...                                            *)
LEMMA SendIInvStep == SendIInv /\ [SendNext]_sendVars => SendIInv'
<1> SUFFICES ASSUME SendIInv, [SendNext]_sendVars PROVE SendIInv'
  OBVIOUS
<1>0. /\ Posted # Yes /\ Posted # No /\ Yes # No
      /\ None # Posted /\ None # Yes /\ None # No
  BY SendAssumption DEF Posted, Yes, No
<1>1. ASSUME NEW b \in Batches, StartSend(b) PROVE SendIInv'
  <2>1. BrowserMoves(b, "uploading", None, 1) /\ UNCHANGED <<late, faults>>
    BY <1>0, <1>1, SendFacts DEF StartSend, Goto, host, BrowserMoves
  <2>2. MayMove(b, "uploading", None, 1) /\ (faults = 0 => Calm(b, "uploading", None, 1))
    BY <1>0, <1>1, SendFacts
       DEF StartSend, MayMove, Calm, Where, Requested, Admitted, Settled, InFlight
  <2>3. Browses(b, "uploading", None, 1)
    BY <2>1, <2>2, SendFacts, BrowsesQuietly
  <2> QED BY <2>3, BrowsesKeeps
<1>2. ASSUME NEW b \in Batches, PostUpload(b) PROVE SendIInv'
  <2>1. BrowserMoves(b, "uploading", Posted, slot[b]) /\ UNCHANGED <<late, faults>>
    BY <1>0, <1>2, SendFacts DEF PostUpload, Goto, host, BrowserMoves
  <2>2. MayMove(b, "uploading", Posted, slot[b]) /\ (faults = 0 => Calm(b, "uploading", Posted, slot[b]))
    BY <1>0, <1>2, SendFacts
       DEF PostUpload, MayMove, Calm, Where, Requested, Admitted, Settled, InFlight
  <2>3. Browses(b, "uploading", Posted, slot[b])
    BY <2>1, <2>2, SendFacts, BrowsesQuietly
  <2> QED BY <2>3, BrowsesKeeps
<1>3. ASSUME NEW b \in Batches, PrepareFails(b) PROVE SendIInv'
  <2>1. CASE slot[b] > 1
    <3>1. BrowserMoves(b, "discarding", Posted, slot[b]) /\ UNCHANGED <<late, faults>>
      BY <1>0, <1>3, <2>1, SendFacts DEF PrepareFails, GiveUp, Goto, host, BrowserMoves
    <3>2. MayMove(b, "discarding", Posted, slot[b]) /\ (faults = 0 => Calm(b, "discarding", Posted, slot[b]))
      BY <1>0, <1>3, <2>1, SendFacts
         DEF PrepareFails, MayMove, Calm, Where, Requested, Admitted, Settled, InFlight
    <3>3. Browses(b, "discarding", Posted, slot[b])
      BY <3>1, <3>2, SendFacts, BrowsesQuietly
    <3> QED BY <3>3, BrowsesKeeps
  <2>2. CASE ~(slot[b] > 1)
    <3>1. BrowserMoves(b, "failed", None, slot[b]) /\ UNCHANGED <<late, faults>>
      BY <1>0, <1>3, <2>2, SendFacts DEF PrepareFails, GiveUp, Goto, host, BrowserMoves
    <3>2. MayMove(b, "failed", None, slot[b]) /\ (faults = 0 => Calm(b, "failed", None, slot[b]))
      BY <1>0, <1>3, <2>2, SendFacts
         DEF PrepareFails, MayMove, Calm, Where, Requested, Admitted, Settled, InFlight
    <3>3. Browses(b, "failed", None, slot[b])
      BY <3>1, <3>2, SendFacts, BrowsesQuietly
    <3> QED BY <3>3, BrowsesKeeps
  <2> QED BY <2>1, <2>2
<1>4. ASSUME NEW b \in Batches, ResponseArrives(b) PROVE SendIInv'
  <2>0. /\ pc[b] \in Requested /\ request[b] \in {Yes, No}
        /\ UNCHANGED <<hostIndex, hostClock, late, admitted, faults>>
    BY <1>0, <1>4, SendFacts DEF ResponseArrives, host
  <2>9. IF request[b] = Yes THEN Resume(b, TRUE) ELSE Resume(b, FALSE)
    BY <1>4, <2>0 DEF ResponseArrives, Resume
  <2>1. CASE pc[b] = "uploading" /\ request[b] = Yes
    <3>1. CASE slot[b] < Len(ImagesOf[b])
      <4>1. BrowserMoves(b, "uploading", None, slot[b] + 1) /\ UNCHANGED <<late, faults>>
        BY <1>0, <2>0, <2>9, <2>1, <3>1, SendFacts DEF Resume, Uploaded, Goto, BrowserMoves
      <4>2. MayMove(b, "uploading", None, slot[b] + 1) /\ (faults = 0 => Calm(b, "uploading", None, slot[b] + 1))
        BY <1>0, <2>0, <2>1, <3>1, SendFacts
           DEF MayMove, Calm, Where, Requested, Admitted, Settled, InFlight
      <4>3. Browses(b, "uploading", None, slot[b] + 1)
        BY <4>1, <4>2, SendFacts, BrowsesQuietly
      <4> QED BY <4>3, BrowsesKeeps
    <3>2. CASE ~(slot[b] < Len(ImagesOf[b]))
      <4>1. BrowserMoves(b, "prompting", None, slot[b]) /\ UNCHANGED <<late, faults>>
        BY <1>0, <2>0, <2>9, <2>1, <3>2, SendFacts DEF Resume, Uploaded, Goto, BrowserMoves
      <4>2. MayMove(b, "prompting", None, slot[b]) /\ (faults = 0 => Calm(b, "prompting", None, slot[b]))
        BY <1>0, <2>0, <2>1, <3>2, SendFacts
           DEF MayMove, Calm, Where, Requested, Admitted, Settled, InFlight
      <4>3. Browses(b, "prompting", None, slot[b])
        BY <4>1, <4>2, SendFacts, BrowsesQuietly
      <4> QED BY <4>3, BrowsesKeeps
    <3> QED BY <3>1, <3>2
  <2>2. CASE pc[b] = "uploading" /\ request[b] = No
    <3>1. CASE slot[b] > 1
      <4>1. BrowserMoves(b, "discarding", Posted, slot[b]) /\ UNCHANGED <<late, faults>>
        BY <1>0, <2>0, <2>9, <2>2, <3>1, SendFacts DEF Resume, GiveUp, Goto, BrowserMoves
      <4>2. MayMove(b, "discarding", Posted, slot[b]) /\ (faults = 0 => Calm(b, "discarding", Posted, slot[b]))
        BY <1>0, <2>0, <2>2, <3>1, SendFacts
           DEF MayMove, Calm, Where, Requested, Admitted, Settled, InFlight
      <4>3. Browses(b, "discarding", Posted, slot[b])
        BY <4>1, <4>2, SendFacts, BrowsesQuietly
      <4> QED BY <4>3, BrowsesKeeps
    <3>2. CASE ~(slot[b] > 1)
      <4>1. BrowserMoves(b, "failed", None, slot[b]) /\ UNCHANGED <<late, faults>>
        BY <1>0, <2>0, <2>9, <2>2, <3>2, SendFacts DEF Resume, GiveUp, Goto, BrowserMoves
      <4>2. MayMove(b, "failed", None, slot[b]) /\ (faults = 0 => Calm(b, "failed", None, slot[b]))
        BY <1>0, <2>0, <2>2, <3>2, SendFacts
           DEF MayMove, Calm, Where, Requested, Admitted, Settled, InFlight
      <4>3. Browses(b, "failed", None, slot[b])
        BY <4>1, <4>2, SendFacts, BrowsesQuietly
      <4> QED BY <4>3, BrowsesKeeps
    <3> QED BY <3>1, <3>2
  <2>3. CASE pc[b] = "discarding"
    <3>1. BrowserMoves(b, "failed", None, slot[b]) /\ UNCHANGED <<late, faults>>
      BY <1>0, <2>0, <2>9, <2>3, SendFacts DEF Resume, Goto, BrowserMoves
    <3>2. MayMove(b, "failed", None, slot[b]) /\ (faults = 0 => Calm(b, "failed", None, slot[b]))
      BY <1>0, <2>0, <2>3, SendFacts
         DEF MayMove, Calm, Where, Requested, Admitted, Settled, InFlight
    <3>3. Browses(b, "failed", None, slot[b])
      BY <3>1, <3>2, SendFacts, BrowsesQuietly
    <3> QED BY <3>3, BrowsesKeeps
  <2>4. CASE pc[b] = "committing" /\ request[b] = Yes
    <3>1. BrowserMoves(b, "sent", None, slot[b]) /\ UNCHANGED <<late, faults>>
      BY <1>0, <2>0, <2>9, <2>4, SendFacts DEF Resume, Goto, BrowserMoves
    <3>2. MayMove(b, "sent", None, slot[b]) /\ (faults = 0 => Calm(b, "sent", None, slot[b]))
      BY <1>0, <2>0, <2>4, SendFacts
         DEF MayMove, Calm, Where, Requested, Admitted, Settled, InFlight
    <3>3. Browses(b, "sent", None, slot[b])
      BY <3>1, <3>2, SendFacts, BrowsesQuietly
    <3> QED BY <3>3, BrowsesKeeps
  <2>5. CASE pc[b] = "committing" /\ request[b] = No
    <3>1. BrowserMoves(b, "unlisted", None, slot[b]) /\ UNCHANGED <<late, faults>>
      BY <1>0, <2>0, <2>9, <2>5, SendFacts DEF Resume, Goto, BrowserMoves
    <3>2. MayMove(b, "unlisted", None, slot[b]) /\ (faults = 0 => Calm(b, "unlisted", None, slot[b]))
      BY <1>0, <2>0, <2>5, SendFacts
         DEF MayMove, Calm, Where, Requested, Admitted, Settled, InFlight
    <3>3. Browses(b, "unlisted", None, slot[b])
      BY <3>1, <3>2, SendFacts, BrowsesQuietly
    <3> QED BY <3>3, BrowsesKeeps
  <2> QED BY <2>0, <2>1, <2>2, <2>3, <2>4, <2>5 DEF Requested
<1>5. ASSUME NEW b \in Batches, ResponseLost(b) PROVE SendIInv'
  <2>0. /\ pc[b] \in Requested /\ faults' = faults + 1 /\ faults' # 0 /\ faults' \in Nat
        /\ slot[b] \in DOMAIN ImagesOf[b]
        /\ pc[b] = "committing" => b \in ToSet(admitted)
        /\ Resume(b, FALSE) /\ UNCHANGED <<hostIndex, hostClock, admitted>>
    <3>1. /\ request[b] # None /\ faults' = faults + 1
          /\ Resume(b, FALSE) /\ UNCHANGED <<hostIndex, hostClock, admitted>>
      BY <1>5 DEF ResponseLost, host
    <3>2. /\ pc[b] \in Requested /\ faults \in Nat
          /\ IF pc[b] = "idle" THEN slot[b] = 0 ELSE slot[b] \in DOMAIN ImagesOf[b]
          /\ pc[b] = "committing" => b \in ToSet(admitted)
      BY <3>1, SendFacts DEF Admitted
    <3>3. pc[b] # "idle"
      BY <3>2 DEF Requested
    <3>4. faults + 1 \in Nat /\ faults + 1 # 0
      BY <3>2
    <3> QED BY <3>1, <3>2, <3>3, <3>4
  <2>1. \A m \in late' :
          \/ m \in late
          \/ IsMessage(m) /\ m.batch = b /\ m.slot <= slot[b] /\ m.kind = pc[b]
    <3> DEFINE m == Message(b)
    <3>1. m.batch = b /\ m.slot = slot[b] /\ m.kind = pc[b]
      BY DEF Message
    <3>2. slot[b] \in Nat
      BY SendFacts
    <3> HIDE DEF m
    <3>3. IsMessage(m) /\ m.slot <= slot[b]
      BY <2>0, <3>1, <3>2 DEF IsMessage, Requested
    <3>4. late' \subseteq late \cup {m}
      BY <1>5 DEF ResponseLost, m
    <3> QED BY <3>1, <3>3, <3>4
  <2>2. CASE pc[b] = "uploading" /\ slot[b] > 1
    <3>1. BrowserMoves(b, "discarding", Posted, slot[b])
      BY <1>0, <2>0, <2>1, <2>2, SendFacts DEF Resume, GiveUp, Goto, BrowserMoves
    <3>2. MayMove(b, "discarding", Posted, slot[b])
      BY <1>0, <2>0, <2>2, SendFacts
         DEF MayMove, Where, Requested, Admitted, Settled, InFlight
    <3>3. Browses(b, "discarding", Posted, slot[b])
      BY <2>0, <2>1, <2>2, <3>1, <3>2, SendFacts DEF Browses
    <3> QED BY <3>3, BrowsesKeeps
  <2>3. CASE pc[b] = "uploading" /\ ~(slot[b] > 1)
    <3>1. BrowserMoves(b, "failed", None, slot[b])
      BY <1>0, <2>0, <2>1, <2>3, SendFacts DEF Resume, GiveUp, Goto, BrowserMoves
    <3>2. MayMove(b, "failed", None, slot[b])
      BY <1>0, <2>0, <2>3, SendFacts
         DEF MayMove, Where, Requested, Admitted, Settled, InFlight
    <3>3. Browses(b, "failed", None, slot[b])
      BY <2>0, <2>1, <2>3, <3>1, <3>2, SendFacts DEF Browses
    <3> QED BY <3>3, BrowsesKeeps
  <2>4. CASE pc[b] = "discarding"
    <3>1. BrowserMoves(b, "failed", None, slot[b])
      BY <1>0, <2>0, <2>1, <2>4, SendFacts DEF Resume, Goto, BrowserMoves
    <3>2. MayMove(b, "failed", None, slot[b])
      BY <1>0, <2>0, <2>4, SendFacts
         DEF MayMove, Where, Requested, Admitted, Settled, InFlight
    <3>3. Browses(b, "failed", None, slot[b])
      BY <2>0, <2>1, <2>4, <3>1, <3>2, SendFacts DEF Browses
    <3> QED BY <3>3, BrowsesKeeps
  <2>5. CASE pc[b] = "committing"
    <3>1. BrowserMoves(b, "unlisted", None, slot[b])
      BY <1>0, <2>0, <2>1, <2>5, SendFacts DEF Resume, Goto, BrowserMoves
    <3>2. MayMove(b, "unlisted", None, slot[b])
      BY <1>0, <2>0, <2>5, SendFacts
         DEF MayMove, Where, Requested, Admitted, Settled, InFlight
    <3>3. Browses(b, "unlisted", None, slot[b])
      BY <2>0, <2>1, <2>5, <3>1, <3>2, SendFacts DEF Browses
    <3> QED BY <3>3, BrowsesKeeps
  <2> QED BY <2>0, <2>2, <2>3, <2>4, <2>5 DEF Requested
<1>6. ASSUME NEW b \in Batches, PromptAdmitted(b) PROVE SendIInv'
  BY <1>6, AdmittedKeeps
<1>7. ASSUME NEW b \in Batches, PromptFails(b) PROVE SendIInv'
  <2>1. BrowserMoves(b, "discarding", Posted, slot[b]) /\ UNCHANGED <<late, faults>>
    BY <1>0, <1>7, SendFacts DEF PromptFails, Goto, host, BrowserMoves
  <2>2. MayMove(b, "discarding", Posted, slot[b]) /\ (faults = 0 => Calm(b, "discarding", Posted, slot[b]))
    BY <1>0, <1>7, SendFacts
       DEF PromptFails, MayMove, Calm, Where, Requested, Admitted, Settled, InFlight
  <2>3. Browses(b, "discarding", Posted, slot[b])
    BY <2>1, <2>2, SendFacts, BrowsesQuietly
  <2> QED BY <2>3, BrowsesKeeps
<1>8. ASSUME NEW b \in Batches, HostHandles(b) PROVE SendIInv'
  BY <1>8, HandlesKeeps
<1>9. ASSUME NEW b \in Batches, HostFails(b) PROVE SendIInv'
  <2>0. /\ request[b] = Posted /\ pc[b] \in Requested
        /\ late' = late /\ faults' = faults + 1 /\ faults \in Nat
    BY <1>0, <1>9, SendFacts DEF HostFails
  <2>1. BrowserMoves(b, pc[b], No, slot[b])
    BY <1>9, SendFacts DEF HostFails, host, BrowserMoves
  <2>2. MayMove(b, pc[b], No, slot[b])
    BY <1>0, <2>0, SendFacts DEF MayMove, Where, Requested, Admitted, Settled
  <2>3. faults' \in Nat /\ faults <= faults' /\ faults' # 0
    BY <2>0
  <2>4. Browses(b, pc[b], No, slot[b])
    BY <2>0, <2>1, <2>2, <2>3 DEF Browses
  <2> QED BY <2>4, BrowsesKeeps
<1>10. ASSUME LateRequest PROVE SendIInv'
  BY <1>10, LateKeeps
<1>11. ASSUME UNCHANGED sendVars PROVE SendIInv'
  BY <1>11, SendStill
<1> QED BY <1>1, <1>2, <1>3, <1>4, <1>5, <1>6, <1>7, <1>8, <1>9, <1>10, <1>11 DEF SendNext

(* ... so it always holds.                                                 *)
LEMMA SendInvariant == SendSpec => []SendIInv
<1>1. SendInit => SendIInv
  BY SendIInvInit
<1>2. SendIInv /\ [SendNext]_sendVars => SendIInv'
  BY SendIInvStep
<1> QED BY <1>1, <1>2, PTL DEF SendSpec

(* The history of a session on the host holds admitted sends of that       *)
(* session, each with its own images in order.                             *)
THEOREM HistoryIsAdmittedAlways == SendSpec => []HistoryIsAdmitted
<1>1. SendIInv => HistoryIsAdmitted
  BY DEF SendIInv, HostOK
<1> QED BY <1>1, SendInvariant, PTL

(* It is in the order of admission, which the preview aligns messages by.  *)
THEOREM HistoryInOrderAlways == SendSpec => []HistoryInOrder
<1>1. SendIInv => HistoryInOrder
  BY DEF SendIInv, HostOK
<1> QED BY <1>1, SendInvariant, PTL

(* While MAX_SESSIONS has room for every session, a send reported as sent  *)
(* is in its history, or that has been filled up since.  Beyond that the   *)
(* cap may drop the session and a later send open it anew.                 *)
THEOREM SentIsListedAlways ==
  ASSUME IsFiniteSet(Sessions), Cardinality(Sessions) <= MaxSessions
  PROVE  SendSpec => []SentIsListed
<1>1. SendIInv => SentIsListed
  BY DEF SendIInv, CommittedListed, InHistory, SentIsListed, Room
<1> QED BY <1>1, SendInvariant, PTL

(* Without faults, when the sends of a session have settled, a message     *)
(* without images refers to the images of an admitted send.                *)
THEOREM FailedNotRoutedAlways == SendSpec => []FailedNotRouted
<1>1. SendIInv => FailedNotRouted
  <2> SUFFICES ASSUME SendIInv, faults = 0, NEW s \in Open(hostIndex.sessions),
                      \A b \in Batches : SessionOf[b] = s => pc[b] \in Settled \cup {"idle"}
               PROVE  hostIndex.sessions[s].batch \in ToSet(admitted)
    BY DEF FailedNotRouted
  <2> DEFINE c == hostIndex.sessions[s].batch
  <2>1. c \in Batches /\ SessionOf[c] = s
    BY DEF SendIInv, HostOK, IsIndex, SessionsOK, Routed, Session
  <2>2. InFlight(c)
    BY DEF SendIInv, RoutedInFlight
  <2> HIDE DEF c
  <2>3. pc[c] \in Settled \cup {"idle"}
    BY <2>1
  <2>4. c \in ToSet(admitted)
    BY <2>2, <2>3 DEF InFlight, Settled
  <2> QED BY <2>4 DEF c
<1> QED BY <1>1, SendInvariant, PTL

(* The sends, their requests and what is left of given-up ones have the    *)
(* shapes the browser and the host rely on.                                *)
THEOREM SendTypeCorrect == SendSpec => []SendTypeOK
<1>1. SendIInv => SendTypeOK
  <2> SUFFICES ASSUME SendIInv PROVE SendTypeOK
    OBVIOUS
  <2>1. ToSet(hostIndex.refs) \subseteq Images
    BY DEF SendIInv, HostOK, IsIndex, ToSet
  <2>2. \A b \in Batches :
          /\ pc[b] # "idle" => slot[b] \in DOMAIN ImagesOf[b]
          /\ pc[b] \in {"discarding", "committing"} <=> request[b] # None /\ pc[b] # "uploading"
    BY SendFacts DEF Requested
  <2>3. \A r \in late : r.slot <= slot[r.batch]
    BY DEF SendIInv, LateOK
  <2> QED BY <2>1, <2>2, <2>3 DEF SendTypeOK, SendIInv, SendsOK
<1> QED BY <1>1, SendInvariant, PTL
-----------------------------------------------------------------------------
(* What an offset finds.                                                   *)

(* A position is found by the number of those before it, ...               *)
LEMMA AtRank ==
  ASSUME NEW n \in Nat, NEW D, D \subseteq 1..n, NEW i \in D
  PROVE  /\ Cardinality({j \in D : j < i}) \in 0..i - 1
         /\ At(D, Cardinality({j \in D : j < i})) = {i}
<1> DEFINE Below(k) == {j \in D : j < k}
<1>1. i \in 1..n /\ i - 1 \in Nat /\ 1 \in Int /\ i - 1 \in Int /\ n \in Int
  OBVIOUS
<1>2. IsFiniteSet(D)
  BY <1>1, FS_Interval, FS_Subset
<1>3. \A k \in D : IsFiniteSet(Below(k)) /\ Cardinality(Below(k)) \in Nat
  <2> SUFFICES ASSUME NEW k \in D PROVE IsFiniteSet(Below(k)) /\ Cardinality(Below(k)) \in Nat
    OBVIOUS
  <2>1. Below(k) \in SUBSET D
    OBVIOUS
  <2> HIDE DEF Below
  <2> QED BY <1>2, <2>1, FS_Subset, FS_CardinalityType
<1>4. Cardinality(Below(i)) <= i - 1
  <2>1. Below(i) \in SUBSET (1..i - 1)
    <3> SUFFICES ASSUME NEW j \in D, j < i PROVE j \in 1..i - 1
      OBVIOUS
    <3>1. j \in 1..n
      OBVIOUS
    <3> QED BY <1>1, <3>1
  <2>2. IsFiniteSet(1..i - 1) /\ Cardinality(1..i - 1) = i - 1
    BY <1>1, FS_Interval
  <2> HIDE DEF Below
  <2>3. Cardinality(Below(i)) <= Cardinality(1..i - 1)
    BY <2>1, <2>2, FS_Subset
  <2> QED BY <2>2, <2>3
<1>5. ASSUME NEW k \in D, NEW l \in D, k < l PROVE Cardinality(Below(k)) # Cardinality(Below(l))
  <2>1. k \in Below(l)
    BY <1>5
  <2>2. k \notin Below(k)
    <3>1. k \in 1..n
      OBVIOUS
    <3>2. ~(k < k)
      BY <3>1
    <3> QED BY <3>2
  <2>3. Below(k) \in SUBSET Below(l)
    <3> SUFFICES ASSUME NEW j \in D, j < k PROVE j < l
      OBVIOUS
    <3>1. j \in 1..n /\ k \in 1..n /\ l \in 1..n
      OBVIOUS
    <3> QED BY <1>5, <3>1
  <2> HIDE DEF Below
  <2> QED BY <1>3, <2>1, <2>2, <2>3, FS_Subset
<1>6. \A k \in D : k # i => Cardinality(Below(k)) # Cardinality(Below(i))
  <2> SUFFICES ASSUME NEW k \in D, k # i PROVE Cardinality(Below(k)) # Cardinality(Below(i))
    OBVIOUS
  <2>1. k < i \/ i < k
    <3>1. k \in Nat /\ i \in Nat
      OBVIOUS
    <3> QED BY <3>1
  <2> HIDE DEF Below
  <2> QED BY <1>5, <2>1
<1>7. At(D, Cardinality(Below(i))) = {k \in D : Cardinality(Below(k)) = Cardinality(Below(i))}
  BY DEF At
<1>8. Below(i) = {j \in D : j < i}
  OBVIOUS
<1> HIDE DEF Below
<1>9. At(D, Cardinality(Below(i))) = {i}
  BY <1>6, <1>7
<1>10. Cardinality(Below(i)) \in 0..i - 1
  BY <1>1, <1>3, <1>4
<1> QED BY <1>8, <1>9, <1>10

(* ... the first by 0.                                                     *)
LEMMA AtFirst ==
  ASSUME NEW n \in Nat, NEW D, D \subseteq 1..n, NEW i \in D, \A j \in D : ~(j < i)
  PROVE  At(D, 0) = {i}
<1>1. {j \in D : j < i} = {}
  OBVIOUS
<1>2. Cardinality({j \in D : j < i}) = 0
  BY <1>1, FS_EmptySet
<1> QED BY <1>2, AtRank

(* Offset k finds x among the candidates.                                  *)
FoundAt(c, k, x) == \E i \in DOMAIN c : c[i] = x /\ At(Distinct(c), k) = {i}

(* Whatever is among the candidates is found at its first position.        *)
LEMMA CandidateFound ==
  ASSUME NEW n \in Nat, NEW c, DOMAIN c = 1..n, NEW p \in 1..n, c[p] # <<>>
  PROVE  \E k \in 0..n - 1 : FoundAt(c, k, c[p])
<1> DEFINE T == {i \in 1..n : c[i] = c[p]}
<1>1. T \subseteq Nat /\ T # {}
  OBVIOUS
<1>2. PICK i \in T : \A j \in T : i <= j
  <2> HIDE DEF T
  <2> QED BY <1>1, LeastOf
<1>3. i \in 1..n /\ c[i] = c[p] /\ i \in Nat
  OBVIOUS
<1>4. \A j \in 1..i - 1 : c[j] # c[i]
  <2> SUFFICES ASSUME NEW j \in 1..i - 1, c[j] = c[i] PROVE FALSE
    OBVIOUS
  <2>1. j \in 1..n /\ j \in Nat /\ ~(i <= j)
    BY <1>3
  <2>2. j \in T
    BY <1>3, <2>1
  <2> QED BY <1>2, <2>1, <2>2
<1>5. i \in Distinct(c)
  BY <1>3, <1>4 DEF Distinct
<1>6. Distinct(c) \subseteq 1..n
  BY DEF Distinct
<1> DEFINE D == Distinct(c)
           k == Cardinality({j \in D : j < i})
<1>7. D \subseteq 1..n /\ i \in D
  BY <1>5, <1>6
<1> HIDE DEF D, T
<1>8. k \in 0..i - 1 /\ At(D, k) = {i}
  BY <1>7, AtRank
<1>9. k \in 0..n - 1
  <2> HIDE DEF k
  <2> QED BY <1>3, <1>8
<1>10. FoundAt(c, k, c[p])
  BY <1>3, <1>8 DEF FoundAt, D
<1> HIDE DEF k
<1> QED BY <1>9, <1>10

(* The candidates of a session, when every committed batch resolves.       *)
LEMMA CandidatesOf ==
  ASSUME NEW index, IsIndex(index), Rooted(index), NEW s \in Open(index.sessions)
  PROVE  LET session == index.sessions[s]
             c == Candidates(index, s)
             n == Len(session.history)
         IN  /\ n \in Nat /\ n <= MaxHistory /\ DOMAIN session.history = 1..n
             /\ DOMAIN c = 1..n + 1
             /\ c[1] = IF Complete(session) THEN session.images ELSE <<>>
             /\ session.images # <<>>
             /\ \A i \in 1..n : /\ session.history[i].images # <<>>
                                /\ c[n + 2 - i] = session.history[i].images
<1> DEFINE session == index.sessions[s]
           c == Candidates(index, s)
           n == Len(session.history)
<1>1. s \in Sessions /\ Routed(s, session)
  BY DEF IsIndex, SessionsOK, Open
<1>2. session.history \in Seq(Batch) /\ session.batch \in Batches
  BY <1>1 DEF Routed, Session
<1>3. n \in Nat /\ DOMAIN session.history = 1..n
  BY <1>2
<1>4. n <= MaxHistory
  BY <1>1 DEF Routed
<1>5. session.images # <<>>
  <2> DEFINE b == session.batch
  <2>1. DOMAIN session.images = DOMAIN ImagesOf[b]
    BY <1>1 DEF Routed
  <2>2. ImagesOf[b] \in Seq(Images) /\ ImagesOf[b] # <<>>
    BY <1>2, BatchAssumption
  <2> HIDE DEF b
  <2>3. 1 \in DOMAIN ImagesOf[b]
    BY <2>2
  <2> QED BY <2>1, <2>3
<1>6. \A r : Complete(r) /\ ToSet(r.images) \subseteq Pinned(index.sessions) => Resolves(index, r)
  <2> SUFFICES ASSUME NEW r, Complete(r), ToSet(r.images) \subseteq Pinned(index.sessions)
               PROVE  Resolves(index, r)
    OBVIOUS
  <2>1. None \notin ToSet(r.images)
    BY DEF Complete, ToSet
  <2> QED BY <2>1 DEF Resolves, Rooted
<1>7. Latest(index, s) = IF Complete(session) THEN session.images ELSE <<>>
  <2>1. ToSet(session.images) \subseteq Pinned(index.sessions)
    BY PinnedFacts
  <2>2. Complete(session) <=> Resolves(index, session)
    BY <1>6, <2>1 DEF Resolves
  <2> QED BY <2>2 DEF Latest
<1>8. ASSUME NEW i \in 1..n
      PROVE  /\ session.history[i].images # <<>>
             /\ Found(index, session.history[i]) = session.history[i].images
  <2> DEFINE h == session.history[i]
  <2>1. h \in ToSet(session.history)
    BY <1>3 DEF ToSet
  <2>2. Entry(s, h)
    BY <1>1, <2>1 DEF Routed
  <2>3. ToSet(h.images) \subseteq Pinned(index.sessions)
    BY <2>1, PinnedFacts
  <2> HIDE DEF h
  <2>4. h.images # <<>>
    BY <2>2, BatchAssumption DEF Entry, Batch
  <2>5. Resolves(index, h)
    BY <1>6, <2>2, <2>3 DEF Entry
  <2> QED BY <2>4, <2>5 DEF Found, h
<1>9. c = [i \in 1..n + 1 |->
             IF i = 1 THEN Latest(index, s) ELSE Found(index, session.history[n + 2 - i])]
  BY DEF Candidates
<1> HIDE DEF c, n, session
<1>10. DOMAIN c = 1..n + 1 /\ c[1] = Latest(index, s)
  BY <1>3, <1>9
<1>11. ASSUME NEW i \in 1..n PROVE c[n + 2 - i] = session.history[i].images
  <2>1. n + 2 - i \in 1..n + 1 /\ n + 2 - i # 1 /\ n + 2 - (n + 2 - i) = i
    BY <1>3
  <2>2. c[n + 2 - i] = Found(index, session.history[n + 2 - (n + 2 - i)])
    BY <1>9, <2>1
  <2> QED BY <1>8, <2>1, <2>2
<1>12. \A i \in 1..n : session.history[i].images # <<>>
  BY <1>8
<1> QED BY <1>3, <1>4, <1>5, <1>7, <1>10, <1>11, <1>12 DEF session, c, n

(* What is at the only position an offset has.                             *)
LEMMA OffsetFinds ==
  ASSUME NEW index, NEW s, NEW k \in Nat, k <= MaxHistory, NEW i,
         At(Distinct(Candidates(index, s)), k) = {i}
  PROVE  ByOffset(index, s, k) = Candidates(index, s)[i]
<1>1. ~(k > MaxHistory)
  BY BatchAssumption
<1>2. (CHOOSE j \in {i} : TRUE) = i
  OBVIOUS
<1> QED BY <1>1, <1>2 DEF ByOffset

(* The host keeps the images of every batch known, ...                     *)
LEMMA HostRooted ==
  ASSUME SendIInv, Rooted(hostIndex), NEW m, IsMessage(m), Performs(m)
  PROVE  Rooted(hostIndex)'
<1>1. IsIndex(hostIndex) /\ hostClock \in Nat /\ m.batch \in Batches
      /\ m.slot \in DOMAIN ImagesOf[m.batch]
  BY DEF SendIInv, HostOK, IsMessage
<1>2. Rooted(Handle(m).index)
  <2>1. CASE m.kind = "uploading"
    <3>1. Sound(hostIndex, RememberAt(hostIndex, m.batch, m.slot, hostClock))
      BY <1>1, RememberAtSound
    <3>2. Handle(m) = RememberAt(hostIndex, m.batch, m.slot, hostClock)
      BY <2>1 DEF Handle
    <3> QED BY <3>1, <3>2 DEF Sound
  <2>2. CASE m.kind = "discarding"
    <3>1. Sound(hostIndex, Discard(hostIndex, m.batch))
      BY <1>1, DiscardSound
    <3>2. Handle(m) = Discard(hostIndex, m.batch)
      BY <2>2 DEF Handle
    <3> QED BY <3>1, <3>2 DEF Sound
  <2>3. CASE m.kind = "committing"
    <3>1. Sound(hostIndex, Commit(hostIndex, m.batch, hostClock))
      BY <1>1, CommitSound
    <3>2. Handle(m) = Commit(hostIndex, m.batch, hostClock)
      BY <2>3 DEF Handle
    <3> QED BY <3>1, <3>2 DEF Sound
  <2> QED BY <2>1, <2>2, <2>3 DEF IsMessage
<1>3. hostIndex' = Handle(m).index
  BY DEF Performs
<1> HIDE DEF Rooted
<1>4. Rooted(hostIndex')
  BY <1>2, <1>3
<1> QED BY <1>4

(* ... whatever step is taken.                                             *)
LEMMA RootedStep ==
  ASSUME SendIInv, Rooted(hostIndex), [SendNext]_sendVars
  PROVE  Rooted(hostIndex)'
<1>1. CASE hostIndex' = hostIndex
  BY <1>1 DEF Rooted
<1>2. ASSUME NEW b \in Batches, HostHandles(b) PROVE Rooted(hostIndex)'
  <2>1. request[b] = Posted /\ Posted # None /\ Performs(Message(b))
    BY <1>2, SendAssumption DEF HostHandles
  <2>2. pc[b] \in Requested /\ slot[b] \in DOMAIN ImagesOf[b]
    BY <2>1, SendFacts DEF Requested
  <2>3. IsMessage(Message(b))
    BY <2>2 DEF IsMessage, Message, Requested
  <2> QED BY <2>1, <2>3, HostRooted
<1>3. ASSUME LateRequest PROVE Rooted(hostIndex)'
  <2>1. PICK m \in late : Performs(m)
    BY <1>3 DEF LateRequest
  <2>2. IsMessage(m)
    BY DEF SendIInv, LateOK
  <2> QED BY <2>1, <2>2, HostRooted
<1>4. ASSUME NEW b \in Batches,
             \/ StartSend(b) \/ PostUpload(b) \/ PrepareFails(b)
             \/ ResponseArrives(b) \/ ResponseLost(b)
             \/ PromptAdmitted(b) \/ PromptFails(b) \/ HostFails(b)
      PROVE  hostIndex' = hostIndex
  BY <1>4 DEF StartSend, PostUpload, PrepareFails, ResponseArrives, ResponseLost,
     PromptAdmitted, PromptFails, HostFails, host
<1>5. UNCHANGED sendVars => hostIndex' = hostIndex
  BY DEF sendVars
<1> QED BY <1>1, <1>2, <1>3, <1>4, <1>5 DEF SendNext

(* By the offsets 0 to 64 the model reaches every batch of the history,    *)
(* however often images repeat, and offset 0 is the routing batch, or the  *)
(* newest committed one while that is incomplete.                          *)
THEOREM OffsetsReachHistoryAlways == SendSpec => []OffsetsReachHistory
<1>1. SendInit => Rooted(hostIndex)
  BY EmptyFacts DEF SendInit
<1>2. SendIInv /\ Rooted(hostIndex) /\ [SendNext]_sendVars => Rooted(hostIndex)'
  BY RootedStep
<1>3. SendIInv /\ Rooted(hostIndex) => OffsetsReachHistory
  <2> SUFFICES ASSUME SendIInv, Rooted(hostIndex) PROVE OffsetsReachHistory
    OBVIOUS
  <2>0. IsIndex(hostIndex)
    BY DEF SendIInv, HostOK
  <2> SUFFICES ASSUME NEW s \in Open(hostIndex.sessions)
               PROVE  LET session == hostIndex.sessions[s]
                      IN  /\ \A h \in ToSet(session.history) :
                               \E k \in 0..Len(session.history) : ByOffset(hostIndex, s, k) = h.images
                          /\ ByOffset(hostIndex, s, 0) = IF Complete(session) THEN session.images
                                                     ELSE IF session.history = <<>> THEN <<>>
                                                     ELSE Last(session.history).images
    BY DEF OffsetsReachHistory
  <2> DEFINE session == hostIndex.sessions[s]
             c == Candidates(hostIndex, s)
             n == Len(session.history)
  <2>1. /\ n \in Nat /\ n <= MaxHistory /\ DOMAIN session.history = 1..n
        /\ DOMAIN c = 1..n + 1
        /\ c[1] = IF Complete(session) THEN session.images ELSE <<>>
        /\ session.images # <<>>
        /\ \A i \in 1..n : /\ session.history[i].images # <<>>
                           /\ c[n + 2 - i] = session.history[i].images
    BY <2>0, CandidatesOf
  <2>2. \A k \in 0..n : \A i : At(Distinct(c), k) = {i} => ByOffset(hostIndex, s, k) = c[i]
    <3> SUFFICES ASSUME NEW k \in 0..n, NEW i, At(Distinct(c), k) = {i}
                 PROVE  ByOffset(hostIndex, s, k) = c[i]
      OBVIOUS
    <3>1. k \in Nat /\ k <= MaxHistory
      BY <2>1, BatchAssumption
    <3> QED BY <3>1, OffsetFinds
  <2>3. session.history = <<>> <=> n = 0
    <3>1. session.history \in Seq(Batch)
      BY <2>0 DEF IsIndex, SessionsOK, Routed, Session
    <3> QED BY <3>1
  <2> HIDE DEF c, n
  <2>4. n + 1 \in Nat /\ 0 \in 0..n
    BY <2>1
  <2>5. Distinct(c) \subseteq 1..n + 1
    BY <2>1 DEF Distinct
  <2>6. ASSUME NEW i \in 1..n + 1, c[i] # <<>>, \A j \in 1..i - 1 : c[j] = <<>>
        PROVE  ByOffset(hostIndex, s, 0) = c[i]
    <3>1. i \in Distinct(c)
      BY <2>1, <2>6 DEF Distinct
    <3>2. \A j \in Distinct(c) : ~(j < i)
      <4> SUFFICES ASSUME NEW j \in Distinct(c), j < i PROVE FALSE
        OBVIOUS
      <4>1. j \in 1..n + 1 /\ c[j] # <<>>
        BY <2>5 DEF Distinct
      <4>2. j \in 1..i - 1
        BY <4>1, <2>4
      <4> QED BY <2>6, <4>1, <4>2
    <3>3. At(Distinct(c), 0) = {i}
      BY <2>4, <2>5, <3>1, <3>2, AtFirst
    <3> QED BY <2>2, <2>4, <3>3
  <2>7. ASSUME NEW h \in ToSet(session.history)
        PROVE  \E k \in 0..n : ByOffset(hostIndex, s, k) = h.images
    <3>1. PICK p \in 1..n : h = session.history[p]
      BY <2>1 DEF ToSet
    <3> DEFINE q == n + 2 - p
    <3>2. q \in 1..n + 1 /\ (n + 1) - 1 = n
      BY <2>1
    <3>3. c[q] = h.images /\ h.images # <<>>
      BY <2>1, <3>1
    <3> HIDE DEF q
    <3> DEFINE N == n + 1
    <3>4. N \in Nat /\ DOMAIN c = 1..N /\ q \in 1..N /\ c[q] # <<>> /\ N - 1 = n
      BY <2>1, <2>4, <3>2, <3>3
    <3> HIDE DEF N
    <3>5. PICK k \in 0..N - 1 : FoundAt(c, k, c[q])
      BY ONLY <3>4, CandidateFound
    <3>6. PICK i : c[i] = c[q] /\ At(Distinct(c), k) = {i}
      BY <3>5 DEF FoundAt
    <3>7. k \in 0..n
      BY <3>4
    <3>8. ByOffset(hostIndex, s, k) = c[i]
      BY <2>2, <3>6, <3>7
    <3> QED BY <3>3, <3>6, <3>7, <3>8
  <2>8. CASE Complete(session)
    <3>1. 1 \in 1..n + 1 /\ c[1] # <<>> /\ 1..1 - 1 = {}
      BY <2>1, <2>8
    <3>2. ByOffset(hostIndex, s, 0) = c[1]
      BY <2>6, <3>1
    <3> QED BY <2>1, <2>7, <2>8, <3>2 DEF n
  <2>9. CASE ~Complete(session) /\ n = 0
    <3>1. Distinct(c) = {}
      <4> SUFFICES ASSUME NEW j \in Distinct(c) PROVE FALSE
        OBVIOUS
      <4>1. j \in 1..n + 1 /\ c[j] # <<>>
        BY <2>5 DEF Distinct
      <4>2. j = 1
        BY <2>9, <4>1
      <4> QED BY <2>1, <2>9, <4>1, <4>2
    <3>2. At(Distinct(c), 0) = {}
      BY <3>1 DEF At
    <3>3. ByOffset(hostIndex, s, 0) = <<>>
      BY <3>2 DEF ByOffset, c
    <3> QED BY <2>3, <2>7, <2>9, <3>3 DEF n
  <2>10. CASE ~Complete(session) /\ n # 0
    <3>1. n \in 1..n /\ 2 \in 1..n + 1 /\ n + 2 - n = 2 /\ 2 - 1 = 1
      BY <2>1, <2>10
    <3>2. c[2] = session.history[n].images /\ c[2] # <<>>
      BY <2>1, <3>1
    <3>3. \A j \in 1..2 - 1 : c[j] = <<>>
      BY <2>1, <2>10, <3>1
    <3>4. ByOffset(hostIndex, s, 0) = c[2]
      BY <2>6, <3>1, <3>2, <3>3
    <3>5. Last(session.history) = session.history[n]
      BY DEF Last, n
    <3> QED BY <2>3, <2>7, <2>10, <3>2, <3>4, <3>5 DEF n
  <2> QED BY <2>8, <2>9, <2>10
<1> QED BY <1>1, <1>2, <1>3, SendInvariant, PTL DEF SendSpec
=============================================================================
