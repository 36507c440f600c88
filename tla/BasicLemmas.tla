----------------------------- MODULE BasicLemmas -----------------------------
(***************************************************************************)
(* Facts about natural numbers and sequences that the proofs share.        *)
(***************************************************************************)
EXTENDS Naturals, Sequences, SequencesExt, SequenceTheorems,
        WellFoundedInduction, TLAPS

\* A nonempty set of natural numbers has a least element.  Applied to the set
\* of counterexamples it gives induction.
LEMMA LeastElement ==
    ASSUME NEW S \in SUBSET Nat, S # {}
    PROVE  \E m \in S : \A k \in S : m <= k
<1> DEFINE R == OpToRel(<, Nat)
<1>1. IsWellFoundedOn(R, Nat)
  BY NatLessThanWellFounded
<1>2. \A x, y \in Nat : x < y => <<x, y>> \in R
  BY DEF OpToRel
<1> HIDE DEF R
<1>3. PICK m \in S : \A k \in S : ~(<<k, m>> \in R)
  BY <1>1, WFMin, Zenon
<1>4. ASSUME NEW k \in S PROVE m <= k
  <2>1. ~(k < m)
    BY <1>2, <1>3
  <2>2. QED
    BY <2>1
<1>5. QED
  BY <1>4

\* RemoveAt closes the gap.
LEMMA RemoveAtPlaces ==
    ASSUME NEW S, NEW s \in Seq(S), NEW i \in 1..Len(s)
    PROVE  /\ RemoveAt(s, i) \in Seq(S)
           /\ Len(RemoveAt(s, i)) = Len(s) - 1
           /\ \A j \in 1..(Len(s) - 1) :
                  RemoveAt(s, i)[j] = IF j < i THEN s[j] ELSE s[j + 1]
<1> DEFINE before == SubSeq(s, 1, i - 1)
           after == SubSeq(s, i + 1, Len(s))
           rest == before \o after
<1>1. /\ before \in Seq(S) /\ Len(before) = i - 1
      /\ \A j \in 1..(i - 1) : before[j] = s[j]
  OBVIOUS
<1>2. /\ after \in Seq(S) /\ Len(after) = Len(s) - i
      /\ \A j \in 1..(Len(s) - i) : after[j] = s[i + j]
  OBVIOUS
<1>3. RemoveAt(s, i) = rest
  BY DEF RemoveAt
<1> HIDE DEF before, after
<1>4. /\ rest \in Seq(S) /\ Len(rest) = Len(s) - 1
      /\ \A j \in 1..(Len(s) - 1) :
             rest[j] = IF j <= i - 1 THEN before[j] ELSE after[j - (i - 1)]
  BY <1>1, <1>2, ConcatProperties
<1>5. \A j \in 1..(Len(s) - 1) : rest[j] = IF j < i THEN s[j] ELSE s[j + 1]
  BY <1>1, <1>2, <1>4
<1>6. QED
  BY <1>3, <1>4, <1>5

\* RemoveAt keeps every element but the one at the given place.
LEMMA RemoveAtElements ==
    ASSUME NEW S, NEW s \in Seq(S), NEW i \in 1..Len(s)
    PROVE  /\ RemoveAt(s, i) \in Seq(S)
           /\ ToSet(RemoveAt(s, i)) \subseteq ToSet(s)
           /\ ToSet(s) \subseteq ToSet(RemoveAt(s, i)) \cup {s[i]}
<1> DEFINE rest == RemoveAt(s, i)
<1>1. rest \in Seq(S) /\ Len(rest) = Len(s) - 1
  BY RemoveAtPlaces
<1>2. \A j \in 1..(Len(s) - 1) : rest[j] = IF j < i THEN s[j] ELSE s[j + 1]
  BY RemoveAtPlaces
<1> HIDE DEF rest
<1>3. ToSet(rest) \subseteq ToSet(s)
  <2>1. ASSUME NEW j \in DOMAIN rest PROVE rest[j] \in ToSet(s)
    <3>1. j \in 1..(Len(s) - 1) /\ j \in DOMAIN s /\ j + 1 \in DOMAIN s
      BY <1>1, <2>1
    <3>2. rest[j] \in {s[j], s[j + 1]}
      BY <1>2, <3>1
    <3>3. QED
      BY <3>1, <3>2 DEF ToSet
  <2>2. QED
    BY <2>1 DEF ToSet
<1>4. ASSUME NEW j \in 1..Len(s), j # i PROVE s[j] \in ToSet(rest)
  <2>1. CASE j < i
    <3>1. j \in 1..(Len(s) - 1) /\ rest[j] = s[j]
      BY <2>1, <1>2
    <3>2. QED
      BY <3>1, <1>1 DEF ToSet
  <2>2. CASE j > i
    <3>1. j - 1 \in 1..(Len(s) - 1) /\ rest[j - 1] = s[j]
      BY <2>2, <1>2
    <3>2. QED
      BY <3>1, <1>1 DEF ToSet
  <2>3. QED
    BY <1>4, <2>1, <2>2
<1>5. ToSet(s) \subseteq ToSet(rest) \cup {s[i]}
  BY <1>4 DEF ToSet
<1>6. QED
  BY <1>1, <1>3, <1>5 DEF rest

\* RemoveFirst takes out one occurrence of what it is given, if there is one.
LEMMA RemoveFirstElements ==
    ASSUME NEW S, NEW s \in Seq(S), NEW e
    PROVE  /\ RemoveFirst(s, e) \in Seq(S)
           /\ ToSet(RemoveFirst(s, e)) \subseteq ToSet(s)
           /\ ToSet(s) \subseteq ToSet(RemoveFirst(s, e)) \cup {e}
<1> DEFINE I == {i \in 1..Len(s) : s[i] = e}
<1>1. CASE I = {}
  <2>1. RemoveFirst(s, e) = s
    BY <1>1 DEF RemoveFirst
  <2>2. QED
    BY <2>1
<1>2. CASE I # {}
  <2>1. I \in SUBSET Nat
    OBVIOUS
  <2>2. PICK m \in I : \A k \in I : m <= k
    BY <1>2, <2>1, LeastElement
  <2>3. PICK i \in I : i = SelectInSeq(s, LAMBDA v : v = e)
    BY <1>2, <2>2 DEF SelectInSeq, Min
  <2>4. RemoveFirst(s, e) = RemoveAt(s, i)
    BY <2>3 DEF RemoveFirst
  <2>5. i \in 1..Len(s) /\ s[i] = e
    OBVIOUS
  <2>6. /\ RemoveAt(s, i) \in Seq(S)
        /\ ToSet(RemoveAt(s, i)) \subseteq ToSet(s)
        /\ ToSet(s) \subseteq ToSet(RemoveAt(s, i)) \cup {s[i]}
    BY <2>5, RemoveAtElements
  <2>7. QED
    BY <2>4, <2>5, <2>6, Zenon
<1>3. QED
  BY <1>1, <1>2

\* Append adds its element and keeps the others.
LEMMA AppendElements ==
    ASSUME NEW S, NEW s \in Seq(S), NEW e \in S
    PROVE  Append(s, e) \in Seq(S) /\ ToSet(Append(s, e)) = ToSet(s) \cup {e}
<1>1. /\ Append(s, e) \in Seq(S) /\ Len(Append(s, e)) = Len(s) + 1
      /\ Append(s, e)[Len(s) + 1] = e
      /\ \A j \in 1..Len(s) : Append(s, e)[j] = s[j]
  OBVIOUS
<1>2. QED
  BY <1>1 DEF ToSet

\* Replacing an element.
LEMMA ExceptElements ==
    ASSUME NEW S, NEW s \in Seq(S), NEW i \in DOMAIN s, NEW e \in S
    PROVE  /\ [s EXCEPT ![i] = e] \in Seq(S)
           /\ ToSet([s EXCEPT ![i] = e]) \subseteq ToSet(s) \cup {e}
<1> DEFINE t == [s EXCEPT ![i] = e]
<1>1. /\ t \in Seq(S) /\ DOMAIN t = DOMAIN s
      /\ \A j \in DOMAIN s : t[j] = IF j = i THEN e ELSE s[j]
  OBVIOUS
<1> HIDE DEF t
<1>2. ToSet(t) \subseteq ToSet(s) \cup {e}
  BY <1>1 DEF ToSet
<1>3. QED
  BY <1>1, <1>2 DEF t

\* What is left of a queue, and its first element, were in it.
LEMMA TailElements ==
    ASSUME NEW S, NEW s \in Seq(S), s # <<>>
    PROVE  /\ Head(s) \in S /\ Head(s) \in ToSet(s)
           /\ Tail(s) \in Seq(S) /\ ToSet(Tail(s)) \subseteq ToSet(s)
<1> DEFINE t == Tail(s)
<1>1. /\ t \in Seq(S) /\ Len(t) = Len(s) - 1
      /\ \A j \in 1..Len(t) : t[j] = s[j + 1]
  OBVIOUS
<1>2. Head(s) = s[1] /\ 1 \in DOMAIN s
  OBVIOUS
<1> HIDE DEF t
<1>3. ASSUME NEW j \in DOMAIN t PROVE t[j] \in ToSet(s)
  <2>1. j \in 1..Len(t) /\ j + 1 \in DOMAIN s
    BY <1>1, <1>3
  <2>2. QED
    BY <1>1, <2>1 DEF ToSet
<1>4. ToSet(t) \subseteq ToSet(s)
  BY <1>3 DEF ToSet
<1>5. QED
  BY <1>1, <1>2, <1>4 DEF t, ToSet

\* A function on 1..n is a sequence.
LEMMA FunctionIsSeq ==
    ASSUME NEW S, NEW n \in Nat, NEW f \in [1..n -> S]
    PROVE  f \in Seq(S)
  BY SeqDef

LEMMA PairIsSeq ==
    ASSUME NEW S, NEW a \in S, NEW b \in S
    PROVE  <<a, b>> \in Seq(S)
  OBVIOUS

LEMMA ElementAt ==
    ASSUME NEW S, NEW s \in Seq(S), NEW i \in DOMAIN s
    PROVE  s[i] \in S /\ s[i] \in ToSet(s) /\ i \in 1..Len(s)
  BY DEF ToSet

\* A prefix, place by place.
LEMMA PrefixPlaces ==
    ASSUME NEW S, NEW s \in Seq(S), NEW t \in Seq(S)
    PROVE  IsPrefix(s, t) <=> Len(s) <= Len(t) /\ \A i \in 1..Len(s) : s[i] = t[i]
<1>1. CASE Len(s) <= Len(t)
  <2> DEFINE one == SubSeq(s, 1, Len(s))
             two == SubSeq(t, 1, Len(s))
  <2>1. /\ one \in Seq(S) /\ Len(one) = Len(s)
        /\ two \in Seq(S) /\ Len(two) = Len(s)
        /\ \A i \in 1..Len(s) : one[i] = s[i] /\ two[i] = t[i]
    BY <1>1
  <2>2. IsPrefix(s, t) <=> one = two
    BY <1>1 DEF IsPrefix
  <2> HIDE DEF one, two
  <2>3. one = two <=> \A i \in 1..Len(s) : one[i] = two[i]
    BY <2>1, SMTT(20)
  <2>4. QED
    BY <1>1, <2>1, <2>2, <2>3
<1>2. QED
  BY <1>1 DEF IsPrefix

LEMMA PrefixTransitive ==
    ASSUME NEW S, NEW s \in Seq(S), NEW t \in Seq(S), NEW u \in Seq(S),
           IsPrefix(s, t), IsPrefix(t, u)
    PROVE  IsPrefix(s, u)
<1>1. /\ Len(s) <= Len(t) /\ \A i \in 1..Len(s) : s[i] = t[i]
      /\ Len(t) <= Len(u) /\ \A i \in 1..Len(t) : t[i] = u[i]
  BY PrefixPlaces
<1>2. Len(s) <= Len(u) /\ \A i \in 1..Len(s) : s[i] = u[i]
  BY <1>1
<1>3. QED
  BY <1>2, PrefixPlaces

LEMMA PrefixSelf ==
    ASSUME NEW S, NEW s \in Seq(S)
    PROVE  IsPrefix(s, s)
BY PrefixPlaces

LEMMA PrefixNothing ==
    ASSUME NEW S, NEW s \in Seq(S)
    PROVE  IsPrefix(<<>>, s)
<1> DEFINE none == <<>>
<1>1. none \in Seq(S) /\ Len(none) = 0 /\ Len(s) \in Nat
  OBVIOUS
<1> HIDE DEF none
<1>2. IsPrefix(none, s)
  <2>1. Len(none) <= Len(s) /\ \A i \in 1..Len(none) : none[i] = s[i]
    BY <1>1
  <2>2. QED
    BY <1>1, <2>1, PrefixPlaces
<1>3. QED
  BY <1>2 DEF none

LEMMA PrefixConcat ==
    ASSUME NEW S, NEW s \in Seq(S), NEW t \in Seq(S)
    PROVE  s \o t \in Seq(S) /\ IsPrefix(s, s \o t)
<1>1. /\ s \o t \in Seq(S) /\ Len(s) <= Len(s \o t)
      /\ \A i \in 1..Len(s) : s[i] = (s \o t)[i]
  OBVIOUS
<1>2. QED
  BY <1>1, PrefixPlaces

\* What is removed behind a prefix leaves it there.
LEMMA PrefixRemoveFirst ==
    ASSUME NEW S, NEW s \in Seq(S), NEW e, NEW k \in Nat, k <= Len(s),
           \A i \in 1..k : s[i] # e
    PROVE  /\ RemoveFirst(s, e) \in Seq(S) /\ k <= Len(RemoveFirst(s, e))
           /\ \A i \in 1..k : RemoveFirst(s, e)[i] = s[i]
<1> DEFINE I == {i \in 1..Len(s) : s[i] = e}
<1>1. CASE I = {}
  <2>1. RemoveFirst(s, e) = s
    BY <1>1 DEF RemoveFirst
  <2>2. QED
    BY <2>1
<1>2. CASE I # {}
  <2>1. I \in SUBSET Nat
    OBVIOUS
  <2>2. PICK m \in I : \A j \in I : m <= j
    BY <1>2, <2>1, LeastElement
  <2>3. PICK i \in I : i = SelectInSeq(s, LAMBDA v : v = e)
    BY <1>2, <2>2 DEF SelectInSeq, Min
  <2>4. RemoveFirst(s, e) = RemoveAt(s, i)
    BY <2>3 DEF RemoveFirst
  <2>5. i \in 1..Len(s) /\ s[i] = e /\ k < i
    OBVIOUS
  <2>6. /\ RemoveAt(s, i) \in Seq(S) /\ Len(RemoveAt(s, i)) = Len(s) - 1
        /\ \A j \in 1..(Len(s) - 1) :
               RemoveAt(s, i)[j] = IF j < i THEN s[j] ELSE s[j + 1]
    BY <2>5, RemoveAtPlaces
  <2>7. QED
    BY <2>4, <2>5, <2>6
<1>3. QED
  BY <1>1, <1>2

\* Three sequences, whichever two are put together first.
Together(a, b, c) == (a \o b) \o c = a \o (b \o c)

LEMMA ConcatTogether ==
    ASSUME NEW S, NEW a \in Seq(S), NEW b \in Seq(S), NEW c \in Seq(S)
    PROVE  Together(a, b, c)
BY ConcatAssociative DEF Together
=============================================================================
