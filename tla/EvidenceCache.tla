----------------------------- MODULE EvidenceCache -----------------------------
(***************************************************************************)
(* The bounded memory cache of packages/vision/src/cache.ts as a value: a  *)
(* sequence of entries with distinct keys, least recently used first (the  *)
(* insertion order of the Map).  An entry past its time to live is dropped *)
(* by the next read; time is left out, so that Expired may happen to any   *)
(* entry at any moment.                                                    *)
(***************************************************************************)
EXTENDS Naturals, Sequences, SequencesExt, Omission

CONSTANT MaxEntries
ASSUME EntriesAssumption == MaxEntries \in Nat \ {0}

Without(cache, key) == Omit(cache, {e \in ToSet(cache) : e.key = key})

Holds(cache, key) == \E e \in ToSet(cache) : e.key = key
Entry(cache, key) == CHOOSE e \in ToSet(cache) : e.key = key

Expired(cache, key) == Without(cache, key)

(* fresh: a read makes the entry the most recently used.                   *)
Touched(cache, key) == Append(Without(cache, key), Entry(cache, key))

(* boundedSet                                                              *)
With(cache, entry) ==
  LET next == Append(Without(cache, entry.key), entry)
  IN  IF Len(next) > MaxEntries THEN Tail(next) ELSE next
=============================================================================
