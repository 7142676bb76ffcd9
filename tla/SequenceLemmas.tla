---------------------------- MODULE SequenceLemmas ----------------------------
(***************************************************************************)
(* Facts about sequences that the proofs of several components rest on:    *)
(* induction over the naturals in the form of sets, the recursion of Omit  *)
(* and what it computes, taking one element out, and counting.             *)
(***************************************************************************)
EXTENDS Omission, Integers, FiniteSets, SequencesExt,
        FiniteSetTheorems, SequenceTheorems, WellFoundedInduction, TLAPS

(* A set of naturals has a least element.                                  *)
LEMMA LeastOf ==
  ASSUME NEW T, T \subseteq Nat, T # {}
  PROVE  \E x \in T : \A y \in T : x <= y
<1>1. IsWellFoundedOn({ss \in Nat \X Nat : ss[1] < ss[2]}, Nat)
  BY NatLessThanWellFounded DEF OpToRel
<1>2. PICK x \in T : \A y \in T : ~(<<y, x>> \in {ss \in Nat \X Nat : ss[1] < ss[2]})
  BY <1>1, WFMin
<1>3. ASSUME NEW y \in T PROVE x <= y
  <2>1. x \in Nat /\ y \in Nat
    OBVIOUS
  <2>2. <<y, x>> \in Nat \X Nat /\ <<y, x>>[1] = y /\ <<y, x>>[2] = x
    BY <2>1
  <2>3. ~(y < x)
    BY <1>2, <2>2
  <2> QED BY <2>1, <2>3
<1> QED BY <1>3

(* Induction: what holds of 0 and is handed on holds of every number.      *)
LEMMA EveryNatural ==
  ASSUME NEW P, 0 \in P, \A n \in Nat : n \in P => n + 1 \in P
  PROVE  \A n \in Nat : n \in P
<1> SUFFICES ASSUME Nat \ P # {} PROVE FALSE
  OBVIOUS
<1>1. PICK x \in Nat \ P : \A y \in Nat \ P : x <= y
  BY LeastOf
<1>2. x \in Nat /\ x # 0 /\ x - 1 \in Nat /\ ~(x <= x - 1)
  BY <1>1
<1>3. x - 1 \in P
  BY <1>1, <1>2
<1>4. (x - 1) + 1 \in P /\ (x - 1) + 1 = x
  BY <1>2, <1>3
<1> QED BY <1>1, <1>4
-----------------------------------------------------------------------------
(* The recursion that defines KeptUpTo has a solution: the solutions up to *)
(* each number agree, and their diagonal is one for all of them.           *)
LEMMA KeptUnfolds ==
  ASSUME NEW s, NEW drop
  PROVE  KeptUpTo(s, drop) =
           [n \in Nat |-> IF n = 0 THEN <<>>
                          ELSE IF s[n] \in drop THEN KeptUpTo(s, drop)[n - 1]
                          ELSE Append(KeptUpTo(s, drop)[n - 1], s[n])]
<1> DEFINE Step(g, n) == IF n = 0 THEN <<>>
                         ELSE IF s[n] \in drop THEN g[n - 1]
                         ELSE Append(g[n - 1], s[n])
           Solves(g, n) == g = [m \in 0..n |-> Step(g, m)]
           Upto(n) == CHOOSE g : Solves(g, n)
           whole == [n \in Nat |-> Upto(n)[n]]
<1>1. ASSUME NEW n \in Nat, NEW k \in Nat, n <= k, NEW g, NEW h, Solves(g, n), Solves(h, k)
      PROVE  \A m \in 0..n : g[m] = h[m]
  <2> DEFINE P == {m \in Nat : m <= n => g[m] = h[m]}
  <2>1. /\ \A m \in 0..n : g[m] = Step(g, m)
        /\ \A m \in 0..k : h[m] = Step(h, m)
    <3> HIDE DEF Step
    <3> QED BY <1>1
  <2>2. 0 \in P
    <3>1. g[0] = Step(g, 0) /\ h[0] = Step(h, 0)
      BY <2>1, <1>1
    <3> QED BY <3>1
  <2>3. ASSUME NEW m \in Nat, m \in P PROVE m + 1 \in P
    <3> SUFFICES ASSUME m + 1 <= n PROVE g[m + 1] = h[m + 1]
      OBVIOUS
    <3>1. m + 1 \in 0..n /\ m + 1 \in 0..k /\ (m + 1) - 1 = m /\ m + 1 # 0 /\ m <= n
      BY <1>1
    <3>2. g[m] = h[m]
      BY <2>3, <3>1
    <3>3. g[m + 1] = Step(g, m + 1) /\ h[m + 1] = Step(h, m + 1)
      BY <2>1, <3>1
    <3>4. Step(g, m + 1) = Step(h, m + 1)
      BY <3>1, <3>2
    <3> QED BY <3>3, <3>4
  <2> HIDE DEF P
  <2>4. \A m \in Nat : m \in P
    BY <2>2, <2>3, EveryNatural
  <2> QED BY <2>4 DEF P
<1>2. \A n \in Nat : \E g : Solves(g, n)
  <2> DEFINE P == {n \in Nat : \E g : Solves(g, n)}
  <2>1. 0 \in P
    <3> DEFINE g == [m \in 0..0 |-> <<>>]
    <3>1. \A m \in 0..0 : Step(g, m) = <<>>
      OBVIOUS
    <3>2. Solves(g, 0)
      BY <3>1
    <3> QED BY <3>2
  <2>2. ASSUME NEW n \in Nat, n \in P PROVE n + 1 \in P
    <3>1. PICK g : Solves(g, n)
      BY <2>2
    <3> DEFINE h == [m \in 0..n + 1 |-> IF m <= n THEN g[m] ELSE Step(g, m)]
    <3>2. ASSUME NEW m \in 0..n + 1 PROVE h[m] = Step(h, m)
      <4>1. CASE m <= n
        <5>1. m \in 0..n
          BY <4>1
        <5>2. g[m] = Step(g, m)
          <6> HIDE DEF Step
          <6> QED BY <3>1, <5>1
        <5>3. h[m] = g[m]
          BY <4>1
        <5>4. m # 0 => h[m - 1] = g[m - 1]
          BY <4>1
        <5> QED BY <5>2, <5>3, <5>4
      <4>2. CASE ~(m <= n)
        <5>1. m = n + 1 /\ m - 1 = n /\ m # 0 /\ m - 1 \in 0..n + 1 /\ m - 1 <= n
          BY <4>2
        <5>2. h[m - 1] = g[m - 1] /\ h[m] = Step(g, m)
          BY <4>2, <5>1
        <5> QED BY <5>1, <5>2
      <4> QED BY <4>1, <4>2
    <3>3. h = [m \in 0..n + 1 |-> h[m]]
      OBVIOUS
    <3> HIDE DEF h, Step
    <3>4. Solves(h, n + 1)
      BY <3>2, <3>3
    <3> QED BY <3>4
  <2> HIDE DEF P
  <2>3. \A n \in Nat : n \in P
    BY <2>1, <2>2, EveryNatural
  <2> QED BY <2>3 DEF P
<1>3. \A n \in Nat : Solves(Upto(n), n)
  <2> HIDE DEF Solves
  <2> QED BY <1>2
<1>4. ASSUME NEW n \in Nat PROVE whole[n] = Step(whole, n)
  <2>1. Upto(n)[n] = Step(Upto(n), n)
    <3> DEFINE u == Upto(n)
    <3>1. u = [m \in 0..n |-> Step(u, m)]
      <4> HIDE DEF Step
      <4> QED BY <1>3
    <3>2. n \in 0..n
      OBVIOUS
    <3> HIDE DEF u, Step
    <3>3. u[n] = Step(u, n)
      BY <3>1, <3>2
    <3> QED BY <3>3 DEF u
  <2>2. n # 0 => whole[n - 1] = Upto(n)[n - 1]
    <3> SUFFICES ASSUME n # 0 PROVE whole[n - 1] = Upto(n)[n - 1]
      OBVIOUS
    <3>1. n - 1 \in Nat /\ n - 1 <= n /\ n - 1 \in 0..n - 1
      OBVIOUS
    <3>2. Solves(Upto(n - 1), n - 1) /\ Solves(Upto(n), n)
      BY <1>3, <3>1
    <3> HIDE DEF Solves, Upto
    <3>3. Upto(n - 1)[n - 1] = Upto(n)[n - 1]
      BY <1>1, <3>1, <3>2
    <3> QED BY <3>1, <3>3
  <2>3. whole[n] = Upto(n)[n]
    OBVIOUS
  <2> HIDE DEF Upto, whole
  <2> QED BY <2>1, <2>2, <2>3
<1>5. whole = [n \in Nat |-> Step(whole, n)]
  <2>1. whole = [n \in Nat |-> whole[n]]
    OBVIOUS
  <2> HIDE DEF whole, Step
  <2> QED BY <1>4, <2>1
<1>6. \E kept : kept = [n \in Nat |-> Step(kept, n)]
  <2> HIDE DEF whole, Step
  <2> QED BY <1>5
<1>7. KeptUpTo(s, drop) = CHOOSE kept : kept = [n \in Nat |-> Step(kept, n)]
  BY DEF KeptUpTo
<1> HIDE DEF Step
<1>8. KeptUpTo(s, drop) = [n \in Nat |-> Step(KeptUpTo(s, drop), n)]
  BY <1>6, <1>7
<1> QED BY <1>8 DEF Step

(* KeptUpTo is what its equations say.                                     *)
LEMMA KeptStep ==
  ASSUME NEW s, NEW drop
  PROVE  /\ KeptUpTo(s, drop)[0] = <<>>
         /\ \A n \in Nat : n # 0 =>
              KeptUpTo(s, drop)[n] = IF s[n] \in drop THEN KeptUpTo(s, drop)[n - 1]
                                     ELSE Append(KeptUpTo(s, drop)[n - 1], s[n])
<1> DEFINE K == KeptUpTo(s, drop)
<1>1. K = [n \in Nat |-> IF n = 0 THEN <<>>
                         ELSE IF s[n] \in drop THEN K[n - 1] ELSE Append(K[n - 1], s[n])]
  BY KeptUnfolds
<1> HIDE DEF K
<1>2. /\ K[0] = <<>>
      /\ \A n \in Nat : n # 0 =>
           K[n] = IF s[n] \in drop THEN K[n - 1] ELSE Append(K[n - 1], s[n])
  BY <1>1
<1> QED BY <1>2 DEF K

(* What is kept of the first elements depends on them only.                *)
LEMMA KeptOfPrefix ==
  ASSUME NEW s, NEW t, NEW drop, NEW k \in Nat, \A i \in 1..k : s[i] = t[i]
  PROVE  KeptUpTo(s, drop)[k] = KeptUpTo(t, drop)[k]
<1> DEFINE P == {n \in Nat : n <= k => KeptUpTo(s, drop)[n] = KeptUpTo(t, drop)[n]}
<1>1. 0 \in P
  BY KeptStep
<1>2. ASSUME NEW n \in Nat, n \in P PROVE n + 1 \in P
  <2> SUFFICES ASSUME n + 1 <= k
               PROVE  KeptUpTo(s, drop)[n + 1] = KeptUpTo(t, drop)[n + 1]
    OBVIOUS
  <2>1. n + 1 \in 1..k /\ n + 1 \in Nat /\ n + 1 # 0 /\ (n + 1) - 1 = n /\ n <= k
    OBVIOUS
  <2>2. s[n + 1] = t[n + 1] /\ KeptUpTo(s, drop)[n] = KeptUpTo(t, drop)[n]
    BY <1>2, <2>1
  <2>3. KeptUpTo(s, drop)[n + 1] = IF s[n + 1] \in drop THEN KeptUpTo(s, drop)[n]
                                   ELSE Append(KeptUpTo(s, drop)[n], s[n + 1])
    BY <2>1, KeptStep
  <2>4. KeptUpTo(t, drop)[n + 1] = IF t[n + 1] \in drop THEN KeptUpTo(t, drop)[n]
                                   ELSE Append(KeptUpTo(t, drop)[n], t[n + 1])
    BY <2>1, KeptStep
  <2> QED BY <2>2, <2>3, <2>4
<1> HIDE DEF P
<1>3. k \in P
  BY <1>1, <1>2, EveryNatural
<1> QED BY <1>3 DEF P

(* Omit is what is kept of the whole sequence.                             *)
LEMMA OmitIsKept ==
  ASSUME NEW s, NEW drop
  PROVE  Omit(s, drop) = KeptUpTo(s, drop)[Len(s)]
<1>1. {KeptUpTo(t, out)[Len(t)] : t \in {s}, out \in {drop}} = {KeptUpTo(s, drop)[Len(s)]}
  OBVIOUS
<1> QED BY <1>1 DEF Omit

(* Omit, element by element from the end.                                  *)
LEMMA OmitEmpty == ASSUME NEW drop PROVE Omit(<<>>, drop) = <<>>
BY KeptStep, OmitIsKept

LEMMA OmitAppend ==
  ASSUME NEW S, NEW s \in Seq(S), NEW x \in S, NEW drop
  PROVE  Omit(Append(s, x), drop) =
           IF x \in drop THEN Omit(s, drop) ELSE Append(Omit(s, drop), x)
<1> DEFINE t == Append(s, x)
           n == Len(s)
<1>1. /\ n \in Nat /\ Len(t) = n + 1 /\ t[n + 1] = x
      /\ \A i \in 1..n : t[i] = s[i]
  OBVIOUS
<1> HIDE DEF t, n
<1>2. n + 1 \in Nat /\ n + 1 # 0 /\ (n + 1) - 1 = n
  BY <1>1
<1>3. KeptUpTo(t, drop)[n + 1] = IF t[n + 1] \in drop THEN KeptUpTo(t, drop)[n]
                                 ELSE Append(KeptUpTo(t, drop)[n], t[n + 1])
  BY <1>2, KeptStep
<1>4. KeptUpTo(t, drop)[n] = KeptUpTo(s, drop)[n]
  <2>1. n \in Nat /\ \A i \in 1..n : t[i] = s[i]
    BY <1>1
  <2> HIDE DEF t, n
  <2> QED BY ONLY <2>1, KeptOfPrefix
<1> QED BY <1>1, <1>3, <1>4, OmitIsKept DEF t, n

(* Induction over the sequences of S, one element at a time.               *)
LEMMA EverySequence ==
  ASSUME NEW S, NEW P, <<>> \in P,
         \A s \in Seq(S), x \in S : s \in P => Append(s, x) \in P
  PROVE  \A s \in Seq(S) : s \in P
<1> DEFINE Q == {n \in Nat : \A s \in Seq(S) : Len(s) = n => s \in P}
<1>1. 0 \in Q
  <2>1. \A s \in Seq(S) : Len(s) = 0 => s = <<>>
    OBVIOUS
  <2> QED BY <2>1
<1>2. ASSUME NEW n \in Nat, n \in Q PROVE n + 1 \in Q
  <2> SUFFICES ASSUME NEW s \in Seq(S), Len(s) = n + 1 PROVE s \in P
    OBVIOUS
  <2>1. s # <<>>
    OBVIOUS
  <2>2. PICK t \in Seq(S), x \in S : s = Append(t, x)
    BY <2>1, SequenceEmptyOrAppend
  <2>3. Len(t) = n
    BY <2>2
  <2> QED BY <1>2, <2>2, <2>3
<1> HIDE DEF Q
<1>3. \A n \in Nat : n \in Q
  BY <1>1, <1>2, EveryNatural
<1> QED BY <1>3 DEF Q

(* The elements of a sequence, one by one.                                 *)
LEMMA ToSetEmpty == ToSet(<<>>) = {}
BY DEF ToSet

LEMMA ToSetAppend ==
  ASSUME NEW S, NEW s \in Seq(S), NEW x
  PROVE  ToSet(Append(s, x)) = ToSet(s) \cup {x}
<1> DEFINE t == Append(s, x)
<1>1. /\ Len(s) \in Nat /\ DOMAIN s = 1..Len(s) /\ DOMAIN t = 1..Len(s) + 1
      /\ \A i \in 1..Len(s) : t[i] = s[i]
      /\ t[Len(s) + 1] = x
  OBVIOUS
<1> HIDE DEF t
<1>2. \A i \in DOMAIN t : i \in DOMAIN s \/ i = Len(s) + 1
  BY <1>1
<1>3. \A i \in DOMAIN s : i \in DOMAIN t
  BY <1>1
<1>4. Len(s) + 1 \in DOMAIN t
  BY <1>1
<1> QED BY <1>1, <1>2, <1>3, <1>4 DEF ToSet, t

(* What Omit leaves: the elements that are not dropped.                    *)
LEMMA OmitKeeps ==
  ASSUME NEW S, NEW s \in Seq(S), NEW drop
  PROVE  /\ Omit(s, drop) \in Seq(S)
         /\ ToSet(Omit(s, drop)) = ToSet(s) \ drop
<1> DEFINE P == {t \in Seq(S) : /\ Omit(t, drop) \in Seq(S)
                                /\ ToSet(Omit(t, drop)) = ToSet(t) \ drop}
<1>1. <<>> \in P
  <2>1. <<>> \in Seq(S) /\ Omit(<<>>, drop) = <<>> /\ ToSet(<<>>) = {} \ drop
    BY OmitEmpty, ToSetEmpty
  <2> QED BY <2>1, ToSetEmpty
<1>2. ASSUME NEW t \in Seq(S), NEW x \in S, t \in P PROVE Append(t, x) \in P
  <2>1. /\ Append(t, x) \in Seq(S)
        /\ ToSet(Append(t, x)) = ToSet(t) \cup {x}
    BY ToSetAppend
  <2>2. CASE x \in drop
    <3>1. Omit(Append(t, x), drop) = Omit(t, drop)
      BY <2>2, OmitAppend
    <3> QED BY <1>2, <2>1, <2>2, <3>1
  <2>3. CASE x \notin drop
    <3>1. Omit(Append(t, x), drop) = Append(Omit(t, drop), x)
      BY <2>3, OmitAppend
    <3>2. /\ Append(Omit(t, drop), x) \in Seq(S)
          /\ ToSet(Append(Omit(t, drop), x)) = ToSet(Omit(t, drop)) \cup {x}
      BY <1>2, ToSetAppend
    <3> QED BY <1>2, <2>1, <2>3, <3>1, <3>2
  <2> QED BY <2>2, <2>3
<1> HIDE DEF P
<1>3. s \in P
  BY <1>1, <1>2, EverySequence
<1> QED BY <1>3 DEF P

(* Omit goes through concatenation.                                        *)
LEMMA OmitConcat ==
  ASSUME NEW S, NEW s \in Seq(S), NEW t \in Seq(S), NEW drop
  PROVE  Omit(s \o t, drop) = Omit(s, drop) \o Omit(t, drop)
<1> DEFINE P == {u \in Seq(S) : Omit(s \o u, drop) = Omit(s, drop) \o Omit(u, drop)}
<1>0. Omit(s, drop) \in Seq(S)
  BY OmitKeeps
<1>1. <<>> \in P
  <2>1. s \o <<>> = s /\ Omit(s, drop) \o <<>> = Omit(s, drop) /\ <<>> \in Seq(S)
    BY <1>0
  <2> QED BY <2>1, OmitEmpty
<1>2. ASSUME NEW u \in Seq(S), NEW x \in S, u \in P PROVE Append(u, x) \in P
  <2>1. /\ Append(u, x) \in Seq(S) /\ s \o u \in Seq(S)
        /\ s \o Append(u, x) = Append(s \o u, x)
    OBVIOUS
  <2>2. Omit(u, drop) \in Seq(S)
    BY OmitKeeps
  <2>3. Omit(s \o Append(u, x), drop) =
          IF x \in drop THEN Omit(s \o u, drop) ELSE Append(Omit(s \o u, drop), x)
    <3> DEFINE v == s \o u
    <3>1. v \in Seq(S)
      BY <2>1
    <3> HIDE DEF v
    <3>2. Omit(Append(v, x), drop) = IF x \in drop THEN Omit(v, drop) ELSE Append(Omit(v, drop), x)
      BY <3>1, OmitAppend
    <3> QED BY <2>1, <3>2 DEF v
  <2>4. Omit(Append(u, x), drop) =
          IF x \in drop THEN Omit(u, drop) ELSE Append(Omit(u, drop), x)
    BY OmitAppend
  <2>5. Omit(s, drop) \o Append(Omit(u, drop), x) = Append(Omit(s, drop) \o Omit(u, drop), x)
    BY <1>0, <2>2
  <2>6. Omit(s \o u, drop) = Omit(s, drop) \o Omit(u, drop)
    BY <1>2
  <2> QED BY <2>1, <2>3, <2>4, <2>5, <2>6
<1> HIDE DEF P
<1>3. t \in P
  BY <1>1, <1>2, EverySequence
<1> QED BY <1>3 DEF P

(* Nothing to omit, ...                                                    *)
LEMMA OmitNothing ==
  ASSUME NEW S, NEW s \in Seq(S), NEW drop, ToSet(s) \cap drop = {}
  PROVE  Omit(s, drop) = s
<1> DEFINE P == {t \in Seq(S) : ToSet(t) \cap drop = {} => Omit(t, drop) = t}
<1>1. <<>> \in P
  BY OmitEmpty
<1>2. ASSUME NEW t \in Seq(S), NEW x \in S, t \in P PROVE Append(t, x) \in P
  BY <1>2, OmitAppend, ToSetAppend
<1> HIDE DEF P
<1>3. s \in P
  BY <1>1, <1>2, EverySequence
<1> QED BY <1>3 DEF P

(* ... and nothing left.                                                   *)
LEMMA OmitAll ==
  ASSUME NEW S, NEW s \in Seq(S), NEW drop, ToSet(s) \subseteq drop
  PROVE  Omit(s, drop) = <<>>
<1> DEFINE P == {t \in Seq(S) : ToSet(t) \subseteq drop => Omit(t, drop) = <<>>}
<1>1. <<>> \in P
  BY OmitEmpty
<1>2. ASSUME NEW t \in Seq(S), NEW x \in S, t \in P PROVE Append(t, x) \in P
  BY <1>2, OmitAppend, ToSetAppend
<1> HIDE DEF P
<1>3. s \in P
  BY <1>1, <1>2, EverySequence
<1> QED BY <1>3 DEF P

(* Leaving elements out twice is leaving them out together.                *)
LEMMA OmitTwice ==
  ASSUME NEW S, NEW s \in Seq(S), NEW A, NEW B
  PROVE  Omit(Omit(s, A), B) = Omit(s, A \cup B)
<1> DEFINE P == {t \in Seq(S) : Omit(Omit(t, A), B) = Omit(t, A \cup B)}
<1>1. <<>> \in P
  BY OmitEmpty
<1>2. ASSUME NEW t \in Seq(S), NEW x \in S, t \in P PROVE Append(t, x) \in P
  <2>1. Omit(Omit(t, A), B) = Omit(t, A \cup B) /\ Omit(t, A) \in Seq(S) /\ Append(t, x) \in Seq(S)
    BY <1>2, OmitKeeps
  <2>2. Omit(Append(t, x), A \cup B) = IF x \in A \cup B THEN Omit(t, A \cup B)
                                      ELSE Append(Omit(t, A \cup B), x)
    BY OmitAppend
  <2>3. Omit(Append(t, x), A) = IF x \in A THEN Omit(t, A) ELSE Append(Omit(t, A), x)
    BY OmitAppend
  <2>4. Omit(Append(Omit(t, A), x), B) = IF x \in B THEN Omit(Omit(t, A), B)
                                         ELSE Append(Omit(Omit(t, A), B), x)
    <3> DEFINE u == Omit(t, A)
    <3>1. u \in Seq(S)
      BY <2>1
    <3> HIDE DEF u, P
    <3>2. Omit(Append(u, x), B) = IF x \in B THEN Omit(u, B) ELSE Append(Omit(u, B), x)
      BY <3>1, OmitAppend
    <3>3. QED BY <3>2 DEF u
  <2>5. QED BY <2>1, <2>2, <2>3, <2>4
<1> HIDE DEF P
<1>3. s \in P
  BY <1>1, <1>2, EverySequence
<1> QED BY <1>3 DEF P

(* A sequence is its first k elements and the others.                      *)
LEMMA SplitAt ==
  ASSUME NEW S, NEW s \in Seq(S), NEW k \in 0..Len(s)
  PROVE  /\ SubSeq(s, 1, k) \in Seq(S) /\ SubSeq(s, k + 1, Len(s)) \in Seq(S)
         /\ Len(SubSeq(s, 1, k)) = k /\ Len(SubSeq(s, k + 1, Len(s))) = Len(s) - k
         /\ \A i \in 1..k : SubSeq(s, 1, k)[i] = s[i]
         /\ s = SubSeq(s, 1, k) \o SubSeq(s, k + 1, Len(s))
<1>1. /\ SubSeq(s, 1, k) \in Seq(S) /\ Len(SubSeq(s, 1, k)) = k
      /\ \A i \in 1..k : SubSeq(s, 1, k)[i] = s[i]
  OBVIOUS
<1>2. /\ SubSeq(s, k + 1, Len(s)) \in Seq(S) /\ Len(SubSeq(s, k + 1, Len(s))) = Len(s) - k
      /\ \A i \in 1..Len(s) - k : SubSeq(s, k + 1, Len(s))[i] = s[k + i]
  OBVIOUS
<1> DEFINE u == SubSeq(s, 1, k)
           v == SubSeq(s, k + 1, Len(s))
<1>3. u \in Seq(S) /\ v \in Seq(S) /\ Len(u) = k /\ Len(v) = Len(s) - k
      /\ (\A i \in 1..k : u[i] = s[i]) /\ (\A i \in 1..Len(s) - k : v[i] = s[k + i])
  BY <1>1, <1>2
<1> HIDE DEF u, v
<1>4. u \o v \in Seq(S) /\ Len(u \o v) = Len(s)
  BY <1>3
<1>5. ASSUME NEW i \in 1..Len(s) PROVE (u \o v)[i] = s[i]
  <2>1. CASE i <= k
    BY <2>1, <1>3
  <2>2. CASE ~(i <= k)
    <3>1. i - k \in 1..Len(s) - k /\ k + (i - k) = i
      BY <2>2
    <3>2. (u \o v)[i] = v[i - k]
      BY <2>2, <1>3
    <3>3. QED BY <3>1, <3>2, <1>3
  <2>3. QED BY <2>1, <2>2
<1>6. u \o v = s
  <2> DEFINE w == u \o v
  <2>1. w \in Seq(S) /\ Len(w) = Len(s) /\ \A i \in 1..Len(s) : w[i] = s[i]
    BY <1>4, <1>5
  <2> HIDE DEF w
  <2>2. w = s
    BY <2>1
  <2>3. QED BY <2>2 DEF w
<1> QED BY <1>1, <1>2, <1>6 DEF u, v

(* Taking out an element that is left out anyway makes no difference.      *)
LEMMA OmitRemoveAt ==
  ASSUME NEW S, NEW s \in Seq(S), NEW i \in 1..Len(s), NEW drop, s[i] \in drop
  PROVE  Omit(RemoveAt(s, i), drop) = Omit(s, drop)
<1> DEFINE u == SubSeq(s, 1, i - 1)
           v == SubSeq(s, i + 1, Len(s))
           x == s[i]
<1>1. i - 1 \in 0..Len(s) /\ i \in 0..Len(s) /\ (i - 1) + 1 = i /\ x \in S
  OBVIOUS
<1>2. u \in Seq(S) /\ Len(u) = i - 1 /\ \A j \in 1..i - 1 : u[j] = s[j]
  BY <1>1, SplitAt
<1>3. v \in Seq(S) /\ s = SubSeq(s, 1, i) \o v /\ SubSeq(s, 1, i) \in Seq(S)
      /\ Len(SubSeq(s, 1, i)) = i /\ \A j \in 1..i : SubSeq(s, 1, i)[j] = s[j]
  BY <1>1, SplitAt
<1>4. SubSeq(s, 1, i) = Append(u, x)
  <2> DEFINE w == SubSeq(s, 1, i)
  <2>1. w \in Seq(S) /\ Len(w) = i /\ \A j \in 1..i : w[j] = s[j]
    BY <1>3
  <2> HIDE DEF w, u
  <2>2. Append(u, x) \in Seq(S) /\ Len(Append(u, x)) = i
        /\ \A j \in 1..i : Append(u, x)[j] = IF j = i THEN x ELSE u[j]
    BY <1>1, <1>2
  <2>3. \A j \in 1..i : w[j] = Append(u, x)[j]
    <3> SUFFICES ASSUME NEW j \in 1..i PROVE w[j] = Append(u, x)[j]
      OBVIOUS
    <3>1. CASE j = i
      BY <3>1, <2>1, <2>2
    <3>2. CASE j # i
      <4>1. j \in 1..i - 1
        BY <3>2
      <4>2. QED BY <4>1, <3>2, <2>1, <2>2, <1>2
    <3>3. QED BY <3>1, <3>2
  <2>4. w = Append(u, x)
    BY <2>1, <2>2, <2>3
  <2>5. QED BY <2>4 DEF w
<1>5. RemoveAt(s, i) = u \o v
  BY DEF RemoveAt
<1>6. s = Append(u, x) \o v
  BY <1>3, <1>4
<1> HIDE DEF u, v, x
<1>7. Omit(u \o v, drop) = Omit(u, drop) \o Omit(v, drop)
  BY <1>2, <1>3, OmitConcat
<1>8. Append(u, x) \in Seq(S)
  BY <1>1, <1>2
<1>9. Omit(Append(u, x) \o v, drop) = Omit(Append(u, x), drop) \o Omit(v, drop)
  <2> DEFINE w == Append(u, x)
  <2>1. w \in Seq(S) /\ v \in Seq(S)
    BY <1>3, <1>8
  <2> HIDE DEF w
  <2>2. Omit(w \o v, drop) = Omit(w, drop) \o Omit(v, drop)
    BY <2>1, OmitConcat
  <2>3. QED BY <2>2 DEF w
<1>10. x \in drop
  BY DEF x
<1>11. Omit(Append(u, x), drop) = Omit(u, drop)
  BY <1>1, <1>2, <1>10, OmitAppend
<1>12. Omit(RemoveAt(s, i), drop) = Omit(Append(u, x) \o v, drop)
  BY <1>5, <1>7, <1>9, <1>11
<1> QED BY <1>6, <1>12

(* What is left without the first element.                                 *)
LEMMA TailElements ==
  ASSUME NEW S, NEW s \in Seq(S), s # <<>>
  PROVE  Tail(s) \in Seq(S) /\ ToSet(Tail(s)) \subseteq ToSet(s)
<1> DEFINE t == Tail(s)
<1>1. /\ t \in Seq(S) /\ DOMAIN t = 1..Len(s) - 1 /\ DOMAIN s = 1..Len(s)
      /\ \A i \in 1..Len(s) - 1 : t[i] = s[i + 1]
  OBVIOUS
<1> HIDE DEF t
<1>2. \A i \in DOMAIN t : i + 1 \in DOMAIN s /\ t[i] = s[i + 1]
  BY <1>1
<1>3. ToSet(t) \subseteq ToSet(s)
  BY <1>2 DEF ToSet
<1> QED BY <1>1, <1>3 DEF t
-----------------------------------------------------------------------------
(* Sequences without repetition.                                           *)

(* No repetition: at the end, ...                                          *)
LEMMA InjectiveAppend ==
  ASSUME NEW S, NEW s \in Seq(S), NEW x
  PROVE  IsInjective(Append(s, x)) <=> IsInjective(s) /\ x \notin ToSet(s)
<1> DEFINE t == Append(s, x)
<1>1. /\ Len(s) \in Nat /\ DOMAIN s = 1..Len(s) /\ DOMAIN t = 1..Len(s) + 1
      /\ \A i \in 1..Len(s) : t[i] = s[i]
      /\ t[Len(s) + 1] = x
  OBVIOUS
<1> HIDE DEF t
<1>2. \A i \in DOMAIN t : i \in DOMAIN s \/ i = Len(s) + 1
  BY <1>1
<1>3. /\ \A i \in DOMAIN s : i \in DOMAIN t /\ t[i] = s[i] /\ i # Len(s) + 1
      /\ Len(s) + 1 \in DOMAIN t
  BY <1>1
<1>4. ASSUME IsInjective(t) PROVE IsInjective(s) /\ x \notin ToSet(s)
  <2>1. IsInjective(s)
    BY <1>3, <1>4 DEF IsInjective
  <2>2. \A i \in DOMAIN s : s[i] # x
    BY <1>1, <1>3, <1>4 DEF IsInjective
  <2> QED BY <2>1, <2>2 DEF ToSet
<1>5. ASSUME IsInjective(s), x \notin ToSet(s) PROVE IsInjective(t)
  <2>1. \A i \in DOMAIN s : s[i] # x
    BY <1>5 DEF ToSet
  <2> QED BY <1>1, <1>2, <1>3, <1>5, <2>1 DEF IsInjective
<1> QED BY <1>4, <1>5 DEF t

(* ... and in what is left.                                                *)
LEMMA OmitInjective ==
  ASSUME NEW S, NEW s \in Seq(S), IsInjective(s), NEW drop
  PROVE  IsInjective(Omit(s, drop))
<1> DEFINE P == {t \in Seq(S) : IsInjective(t) => IsInjective(Omit(t, drop))}
<1>1. <<>> \in P
  BY OmitEmpty
<1>2. ASSUME NEW t \in Seq(S), NEW x \in S, t \in P PROVE Append(t, x) \in P
  <2> SUFFICES ASSUME IsInjective(Append(t, x)) PROVE IsInjective(Omit(Append(t, x), drop))
    OBVIOUS
  <2>1. IsInjective(t) /\ x \notin ToSet(t)
    BY InjectiveAppend
  <2>2. /\ Omit(t, drop) \in Seq(S) /\ IsInjective(Omit(t, drop))
        /\ x \notin ToSet(Omit(t, drop))
    BY <1>2, <2>1, OmitKeeps
  <2>3. IsInjective(Append(Omit(t, drop), x))
    BY <2>2, InjectiveAppend
  <2>4. Omit(Append(t, x), drop) = IF x \in drop THEN Omit(t, drop) ELSE Append(Omit(t, drop), x)
    BY OmitAppend
  <2> QED BY <2>2, <2>3, <2>4
<1> HIDE DEF P
<1>3. s \in P
  BY <1>1, <1>2, EverySequence
<1> QED BY <1>3 DEF P

(* Their length is the number of their elements.                           *)
LEMMA InjectiveCount ==
  ASSUME NEW S, NEW s \in Seq(S), IsInjective(s)
  PROVE  IsFiniteSet(ToSet(s)) /\ Cardinality(ToSet(s)) = Len(s)
<1> DEFINE P == {t \in Seq(S) : IsInjective(t) =>
                   IsFiniteSet(ToSet(t)) /\ Cardinality(ToSet(t)) = Len(t)}
<1>1. <<>> \in P
  <2>1. <<>> \in Seq(S) /\ Len(<<>>) = 0 /\ ToSet(<<>>) = {}
    BY ToSetEmpty
  <2>2. IsFiniteSet({}) /\ Cardinality({}) = 0
    BY FS_EmptySet
  <2> QED BY <2>1, <2>2
<1>2. ASSUME NEW t \in Seq(S), NEW x \in S, t \in P PROVE Append(t, x) \in P
  <2> SUFFICES ASSUME IsInjective(Append(t, x))
               PROVE  /\ IsFiniteSet(ToSet(Append(t, x)))
                      /\ Cardinality(ToSet(Append(t, x))) = Len(Append(t, x))
    OBVIOUS
  <2>1. IsInjective(t) /\ x \notin ToSet(t)
    BY InjectiveAppend
  <2>2. ToSet(Append(t, x)) = ToSet(t) \cup {x} /\ Len(Append(t, x)) = Len(t) + 1
    BY ToSetAppend
  <2>3. IsFiniteSet(ToSet(t)) /\ Cardinality(ToSet(t)) = Len(t)
    BY <1>2, <2>1
  <2> QED BY <2>1, <2>2, <2>3, FS_AddElement
<1> HIDE DEF P
<1>3. s \in P
  BY <1>1, <1>2, EverySequence
<1> QED BY <1>3 DEF P

(* What is left of a sequence without repetition when its head is taken.   *)
LEMMA InjectiveTail ==
  ASSUME NEW S, NEW q \in Seq(S), IsInjective(q), q # <<>>
  PROVE  /\ Tail(q) \in Seq(S) /\ IsInjective(Tail(q)) /\ Len(Tail(q)) = Len(q) - 1
         /\ Head(q) \in S /\ Head(q) \in ToSet(q)
         /\ ToSet(Tail(q)) = ToSet(q) \ {Head(q)}
<1> DEFINE t == Tail(q)
<1>1. /\ t \in Seq(S) /\ Len(t) = Len(q) - 1 /\ Len(q) \in Nat /\ Len(q) # 0
      /\ DOMAIN t = 1..Len(q) - 1 /\ DOMAIN q = 1..Len(q)
      /\ \A i \in 1..Len(q) - 1 : t[i] = q[i + 1]
      /\ Head(q) = q[1]
  OBVIOUS
<1> HIDE DEF t
<1>2. /\ 1 \in DOMAIN q /\ \A i \in DOMAIN t : i + 1 \in DOMAIN q /\ i + 1 # 1
      /\ \A i \in DOMAIN q : i = 1 \/ (i - 1 \in DOMAIN t /\ t[i - 1] = q[i])
  BY <1>1
<1>3. IsInjective(t)
  <2> SUFFICES ASSUME NEW i \in DOMAIN t, NEW j \in DOMAIN t, t[i] = t[j] PROVE i = j
    BY DEF IsInjective
  <2>1. q[i + 1] = q[j + 1] /\ i + 1 \in DOMAIN q /\ j + 1 \in DOMAIN q
    BY <1>1, <1>2
  <2>2. i + 1 = j + 1
    BY <2>1 DEF IsInjective
  <2>3. i \in Nat /\ j \in Nat
    BY <1>1
  <2> QED BY <2>2, <2>3
<1>4. Head(q) \in S /\ Head(q) \in ToSet(q)
  BY <1>1, <1>2 DEF ToSet
<1>5. ToSet(t) = ToSet(q) \ {Head(q)}
  <2>1. ASSUME NEW i \in DOMAIN t PROVE t[i] \in ToSet(q) /\ t[i] # q[1]
    <3>1. t[i] = q[i + 1] /\ i + 1 \in DOMAIN q /\ i + 1 # 1 /\ 1 \in DOMAIN q
      BY <1>1, <1>2
    <3> QED BY <3>1 DEF ToSet, IsInjective
  <2>2. ASSUME NEW i \in DOMAIN q, q[i] # q[1] PROVE q[i] \in ToSet(t)
    BY <1>2, <2>2 DEF ToSet
  <2> QED BY <1>1, <2>1, <2>2 DEF ToSet
<1> QED BY <1>1, <1>3, <1>4, <1>5 DEF t
===============================================================================
