-------------------------- MODULE AttachmentBatches --------------------------
(***************************************************************************)
(* The value of the attachment index                                       *)
(* (packages/image-mind/src/attachments/ref-index.ts, PersistedIndex) and  *)
(* what its mutations and queries compute on it.                           *)
(*                                                                         *)
(* A batch, the images of one message, is identified by its batchId and    *)
(* belongs to one session; its count is the number of its images.  An      *)
(* image stands for its content id and its metadata.                       *)
(***************************************************************************)
EXTENDS Integers, Sequences, FiniteSets, SequencesExt, Omission

CONSTANTS
  Sessions,
  Batches,
  SessionOf,     \* SessionOf[b]: the session batch b is sent in
  ImagesOf,      \* ImagesOf[b]: the images of batch b, in order
  MaxRefs,       \* MAX_REFS (512)
  MaxSessions,   \* MAX_SESSIONS (128)
  MaxHistory,    \* MAX_HISTORY_BATCHES (64)
  None           \* undefined

Images == UNION {ToSet(ImagesOf[b]) : b \in Batches}

(* A batch with its images, None where one is missing, and a session: its  *)
(* routing batch and its history.                                          *)
Batch == [batch : Batches, images : Seq(Images \cup {None}), updatedAt : Nat]

Session ==
  [batch : Batches, images : Seq(Images \cup {None}), updatedAt : Nat, history : Seq(Batch)]

ASSUME BatchAssumption ==
  /\ SessionOf \in [Batches -> Sessions]
  /\ \A b \in Batches : ImagesOf[b] \in Seq(Images) \ {<<>>}
  /\ None \notin Session
  /\ MaxRefs \in Nat /\ MaxSessions \in Nat \ {0} /\ MaxHistory \in Nat \ {0}

(* refs: the known images, oldest first.  sessions[s]: the current routing *)
(* batch of s and the batches committed in s, oldest first.                *)
EmptyIndex == [refs |-> <<>>, sessions |-> [s \in Sessions |-> None]]

(* Mutant: a new batch starts a new history.                               *)
FreshForgets(b, history, now) ==
  [batch |-> b, images |-> [i \in DOMAIN ImagesOf[b] |-> None],
   updatedAt |-> now, history |-> <<>>]

Fresh(b, history, now) ==
  [batch |-> b, images |-> [i \in DOMAIN ImagesOf[b] |-> None],
   updatedAt |-> now, history |-> history]

Complete(batch) == \A i \in DOMAIN batch.images : batch.images[i] # None

Committed(session, b) == \E i \in DOMAIN session.history : session.history[i].batch = b

Newest(seq, n) == IF Len(seq) > n THEN SubSeq(seq, Len(seq) - n + 1, Len(seq)) ELSE seq
-----------------------------------------------------------------------------
(* The caps.                                                               *)

Open(sessions) == {s \in Sessions : sessions[s] # None}

(* Mutant: only routing batches pin their images.                          *)
PinnedRouting(sessions) == UNION {ToSet(sessions[s].images) : s \in Open(sessions)}

(* Images of a routing or a committed batch are never dropped, ...         *)
Pinned(sessions) ==
  UNION {ToSet(sessions[s].images)
           \cup UNION {ToSet(h.images) : h \in ToSet(sessions[s].history)} : s \in Open(sessions)}

(* ... any other is, oldest first, until the cap is met.                   *)
TrimRefs(index) ==
  LET loose  == Omit(index.refs, Pinned(index.sessions))
      excess == Len(index.refs) - MaxRefs
      drop   == {loose[i] : i \in 1..excess \cap DOMAIN loose}
  IN  IF excess <= 0 THEN index ELSE [index EXCEPT !.refs = Omit(@, drop)]

(* Only the most recently updated sessions are kept.                       *)
TrimOldest(sessions) ==
  [s \in Sessions |->
     IF /\ s \in Open(sessions)
        /\ Cardinality({t \in Open(sessions) : sessions[t].updatedAt > sessions[s].updatedAt})
             < MaxSessions
     THEN sessions[s] ELSE None]

(* What a cold load makes of a file written before.                        *)
Reload(index) == [index EXCEPT !.refs = Newest(@, MaxRefs)]
-----------------------------------------------------------------------------
(* The mutations.  Each gives its result, the draft, and whether the draft *)
(* is to be persisted.  Answers are sequences, as those of the queries.    *)

Yes == <<"true">>

No == <<"false">>

Outcome(result, index) == [result |-> result, index |-> index, changed |-> TRUE]

Unchanged(result, index) == [result |-> result, index |-> index, changed |-> FALSE]

WithRef(refs, r) == IF r \in ToSet(refs) THEN refs ELSE Append(refs, r)

(* Mutant: remembering an image alone ignores the cap.                     *)
RememberUncapped(index, r) ==
  IF r \in ToSet(index.refs)
  THEN Unchanged(Yes, index)
  ELSE Outcome(Yes, [index EXCEPT !.refs = Append(@, r)])

(* Without a batch position only the image itself is remembered.           *)
Remember(index, r) ==
  IF r \in ToSet(index.refs)
  THEN Unchanged(Yes, index)
  ELSE Outcome(Yes, TrimRefs([index EXCEPT !.refs = Append(@, r)]))

(* A batch other than the current one replaces it as the session's routing *)
(* batch.                                                                  *)
RememberAt(index, b, i, now) ==
  LET s       == SessionOf[b]
      old     == index.sessions[s]
      record  == IF old = None THEN Fresh(b, <<>>, now)
                 ELSE IF old.batch = b THEN old
                 ELSE Fresh(b, old.history, now)
      session == [record EXCEPT !.images[i] = ImagesOf[b][i], !.updatedAt = now]
  IN  Outcome(Yes,
        TrimRefs([refs     |-> WithRef(index.refs, ImagesOf[b][i]),
                  sessions |-> TrimOldest([index.sessions EXCEPT ![s] = session])]))

(* Mutant: any routing batch passes for the one named.                     *)
CurrentAny(index, b) == index.sessions[SessionOf[b]] # None

Current(index, b) ==
  LET session == index.sessions[SessionOf[b]] IN session # None /\ session.batch = b

Commit(index, b, now) ==
  LET s       == SessionOf[b]
      session == index.sessions[s]
      entry   == [batch |-> b, images |-> session.images, updatedAt |-> now]
  IN  IF ~Current(index, b) \/ ~Complete(session)
      THEN Unchanged(No, index)
      ELSE IF Committed(session, b)
      THEN Unchanged(Yes, index)
      ELSE Outcome(Yes,
             TrimRefs([index EXCEPT !.sessions[s] =
               [session EXCEPT !.history = Newest(Append(@, entry), MaxHistory),
                               !.updatedAt = now]]))

(* The newest committed batch becomes the routing batch again.             *)
Discard(index, b) ==
  LET s        == SessionOf[b]
      session  == index.sessions[s]
      previous == Last(session.history)
      restored == IF session.history = <<>> THEN None
                  ELSE [batch |-> previous.batch, images |-> previous.images,
                        updatedAt |-> previous.updatedAt, history |-> session.history]
  IN  IF ~Current(index, b) \/ Committed(session, b)
      THEN Unchanged(No, index)
      ELSE Outcome(Yes, TrimRefs([index EXCEPT !.sessions[s] = restored]))
-----------------------------------------------------------------------------
(* The queries.                                                            *)

Resolves(index, batch) ==
  Complete(batch) /\ ToSet(batch.images) \subseteq ToSet(index.refs)

(* Mutant: an incomplete batch is returned.                                *)
LatestPartial(index, s) == IF s \in Open(index.sessions) THEN index.sessions[s].images ELSE <<>>

(* latestSessionAttachmentRefs: all images of the routing batch or none.   *)
Latest(index, s) ==
  IF s \in Open(index.sessions) /\ Resolves(index, index.sessions[s])
  THEN index.sessions[s].images
  ELSE <<>>

(* previewRefs: all images of a committed batch or none.                   *)
Found(index, batch) == IF Resolves(index, batch) THEN batch.images ELSE <<>>

(* The routing batch, then the committed ones, newest first.               *)
Candidates(index, s) ==
  LET history == IF s \in Open(index.sessions) THEN index.sessions[s].history ELSE <<>>
  IN  [i \in 1..Len(history) + 1 |->
         IF i = 1 THEN Latest(index, s) ELSE Found(index, history[Len(history) + 2 - i])]

(* The candidates that resolve and do not repeat the images of an earlier  *)
(* one, ...                                                                *)
Distinct(candidates) ==
  {i \in DOMAIN candidates :
     candidates[i] # <<>> /\ \A j \in 1..i - 1 : candidates[j] # candidates[i]}

(* ... and the one that is preceded by so many others.                     *)
At(positions, offset) ==
  {i \in positions : Cardinality({j \in positions : j < i}) = offset}

(* sessionAttachmentRefsByOffset.  MAX_SESSION_BATCH_OFFSET is             *)
(* MAX_HISTORY_BATCHES (64).  The code reads the index several times with  *)
(* an await of the load before each; once the index is loaded these awaits *)
(* are settled and run on without a turn of the event loop, while a new    *)
(* value is published only after file I/O, so the reads see one index.     *)
ByOffset(index, s, offset) ==
  LET candidates == Candidates(index, s)
      at         == At(Distinct(candidates), offset)
  IN  IF offset > MaxHistory \/ at = {} THEN <<>> ELSE candidates[CHOOSE i \in at : TRUE]
=============================================================================
