--------------------------- MODULE ChatRunProofs ---------------------------
(***************************************************************************)
(* Theorems about ChatRun for any texts, catalogs, selections, credential  *)
(* and lengths: a run is reported to have ended once, an abort is what its *)
(* failure is put down to, its connection is given back, what it asks for  *)
(* is what the user chose, its text does not depend on the chunks the      *)
(* response came in, and the parser that is given it piece by piece makes  *)
(* of it what it makes of the whole.                                       *)
(***************************************************************************)
EXTENDS ChatRun, BasicLemmas

(***************************************************************************)
(* The redactor.  A text is a sequence of characters; one that is plain    *)
(* has no marker yet.                                                      *)
(***************************************************************************)
Chars == {Marker} \cup ToSet(Secret) \cup UNION {ToSet(d) : d \in Deltas \cup Fragments}

Plain(s) == s \in Seq(Chars) /\ \A i \in 1..Len(s) : s[i] # Marker

\* The credential stands at place i, or its first n characters at the end.
At(s, i) ==
    /\ i + Len(Secret) <= Len(s) + 1
    /\ \A j \in 1..Len(Secret) : s[i + j - 1] = Secret[j]
Ends(s, n) == n <= Len(s) /\ \A j \in 1..n : s[Len(s) - n + j] = Secret[j]

LEMMA SecretPlain == Plain(Secret) /\ Len(Secret) \in Nat \ {0} /\ Secret \in Seq(Chars)
<1>1. Secret \in Seq(ToSet(Secret)) /\ Secret # <<>> /\ Marker \notin ToSet(Secret)
  BY RunAssumption
<1>2. Secret \in Seq(Chars)
  BY <1>1, SeqMonotonic DEF Chars
<1>3. \A i \in 1..Len(Secret) : Secret[i] # Marker
  BY <1>1, <1>2 DEF ToSet
<1>4. QED
  BY <1>1, <1>2, <1>3 DEF Plain

LEMMA DeltaPlain ==
    ASSUME NEW d \in Deltas \cup Fragments \cup {<<>>}
    PROVE  Plain(d)
<1>1. CASE d = <<>>
  BY <1>1 DEF Plain
<1>2. CASE d \in Deltas \cup Fragments
  <2>1. d \in Seq(ToSet(d)) /\ Marker \notin ToSet(d)
    BY <1>2, RunAssumption
  <2>2. d \in Seq(Chars)
    <3>1. ToSet(d) \subseteq Chars
      BY <1>2 DEF Chars
    <3>2. QED
      BY <2>1, <3>1, SeqMonotonic
  <2>3. \A i \in 1..Len(d) : d[i] # Marker
    BY <2>1, <2>2 DEF ToSet
  <2>4. QED
    BY <2>2, <2>3 DEF Plain
<1>3. QED
  BY <1>1, <1>2

LEMMA PlainConcat ==
    ASSUME NEW s, NEW t, Plain(s), Plain(t)
    PROVE  Plain(s \o t)
<1>1. s \in Seq(Chars) /\ t \in Seq(Chars)
  BY DEF Plain
<1>2. /\ s \o t \in Seq(Chars) /\ Len(s \o t) = Len(s) + Len(t)
      /\ \A i \in 1..Len(s) + Len(t) :
             (s \o t)[i] = IF i <= Len(s) THEN s[i] ELSE t[i - Len(s)]
  BY <1>1, ConcatProperties
<1>3. ASSUME NEW i \in 1..Len(s \o t) PROVE (s \o t)[i] # Marker
  BY <1>1, <1>2 DEF Plain
<1>4. QED
  BY <1>2, <1>3 DEF Plain

LEMMA OccursAt ==
    ASSUME NEW s \in Seq(Chars), NEW i \in 1..(Len(s) + 1)
    PROVE  IsPrefix(Secret, SubSeq(s, i, Len(s))) <=> At(s, i)
<1> DEFINE rest == SubSeq(s, i, Len(s))
<1>1. /\ rest \in Seq(Chars) /\ Len(rest) = Len(s) - i + 1
      /\ \A j \in 1..(Len(s) - i + 1) : rest[j] = s[i + j - 1]
  OBVIOUS
<1> HIDE DEF rest
<1>2. IsPrefix(Secret, rest)
      <=> Len(Secret) <= Len(rest) /\ \A j \in 1..Len(Secret) : Secret[j] = rest[j]
  BY <1>1, SecretPlain, PrefixPlaces
<1>3. QED
  BY <1>1, <1>2, SecretPlain DEF At, rest

LEMMA SuffixEnds ==
    ASSUME NEW s \in Seq(Chars), NEW n \in 0..Len(Secret), n <= Len(s)
    PROVE  IsSuffix(SubSeq(Secret, 1, n), s) <=> Ends(s, n)
<1> DEFINE part == SubSeq(Secret, 1, n)
           one == Reverse(part)
           two == Reverse(s)
<1>1. /\ part \in Seq(Chars) /\ Len(part) = n
      /\ \A j \in 1..n : part[j] = Secret[j]
  BY SecretPlain
<1> HIDE DEF part
<1>2. /\ one \in Seq(Chars) /\ Len(one) = n
      /\ \A j \in 1..n : one[j] = part[n - j + 1]
  <2>1. \A j \in 1..n : part[n - j + 1] \in Chars
    BY <1>1
  <2>2. one = [j \in 1..n |-> part[(n - j) + 1]]
    BY <1>1 DEF Reverse
  <2>3. one \in [1..n -> Chars]
    BY <2>1, <2>2
  <2>4. one \in Seq(Chars) /\ Len(one) = n
    BY <2>3, FunctionIsSeq
  <2>5. QED
    BY <2>2, <2>4
<1>3. /\ two \in Seq(Chars) /\ Len(two) = Len(s)
      /\ \A j \in 1..Len(s) : two[j] = s[Len(s) - j + 1]
  <2>1. \A j \in 1..Len(s) : s[Len(s) - j + 1] \in Chars
    OBVIOUS
  <2>2. two = [j \in 1..Len(s) |-> s[(Len(s) - j) + 1]]
    BY DEF Reverse
  <2>3. two \in [1..Len(s) -> Chars]
    BY <2>1, <2>2
  <2>4. two \in Seq(Chars) /\ Len(two) = Len(s)
    BY <2>3, FunctionIsSeq
  <2>5. QED
    BY <2>2, <2>4
<1> HIDE DEF one, two
<1>4. IsPrefix(one, two) <=> Len(one) <= Len(two) /\ \A j \in 1..Len(one) : one[j] = two[j]
  <2>1. one \in Seq(Chars) /\ two \in Seq(Chars)
    BY <1>2, <1>3
  <2>2. QED
    BY <2>1, PrefixPlaces
<1>5. IsPrefix(one, two) <=> \A j \in 1..n : part[n - j + 1] = s[Len(s) - j + 1]
  <2>1. \A j \in 1..n : j \in 1..Len(s) /\ one[j] = part[n - j + 1] /\ two[j] = s[Len(s) - j + 1]
    BY <1>2, <1>3
  <2>2. QED
    BY <1>2, <1>3, <1>4, <2>1
<1>6. (\A j \in 1..n : part[n - j + 1] = s[Len(s) - j + 1])
      <=> \A j \in 1..n : part[j] = s[Len(s) - n + j]
  <2>1. ASSUME \A j \in 1..n : part[n - j + 1] = s[Len(s) - j + 1], NEW k \in 1..n
        PROVE  part[k] = s[Len(s) - n + k]
    <3> DEFINE j == n - k + 1
    <3>1. j \in 1..n /\ n - j + 1 = k /\ Len(s) - j + 1 = Len(s) - n + k
      OBVIOUS
    <3>2. part[n - j + 1] = s[Len(s) - j + 1]
      BY <2>1, <3>1
    <3>3. QED
      BY <3>1, <3>2
  <2>2. ASSUME \A j \in 1..n : part[j] = s[Len(s) - n + j], NEW k \in 1..n
        PROVE  part[n - k + 1] = s[Len(s) - k + 1]
    <3> DEFINE j == n - k + 1
    <3>1. j \in 1..n /\ Len(s) - n + j = Len(s) - k + 1
      OBVIOUS
    <3>2. part[j] = s[Len(s) - n + j]
      BY <2>2, <3>1
    <3>3. QED
      BY <3>1, <3>2
  <2>3. QED
    BY <2>1, <2>2
<1>7. QED
  BY <1>1, <1>5, <1>6 DEF Ends, IsSuffix, one, two, part

\* What Held returns: the longest beginning of the credential, short of the
\* whole, that the text ends with.
LEMMA HeldLongest ==
    ASSUME NEW s \in Seq(Chars)
    PROVE  /\ Held(s) \in 0..(Len(Secret) - 1) /\ Held(s) <= Len(s) /\ Ends(s, Held(s))
           /\ \A n \in 0..(Len(Secret) - 1) : Ends(s, n) => n <= Held(s)
<1> DEFINE Begins(n) == n <= Len(s) /\ IsSuffix(SubSeq(Secret, 1, n), s)
           lengths == {n \in 0..(Len(Secret) - 1) : Begins(n)}
           short == {k \in Nat : \E n \in lengths : k = Len(s) - n}
<1>1. \A n \in 0..(Len(Secret) - 1) : n \in lengths <=> Ends(s, n)
  <2> TAKE n \in 0..(Len(Secret) - 1)
  <2>1. n \in 0..Len(Secret)
    BY SecretPlain
  <2>2. CASE n <= Len(s)
    BY <2>1, <2>2, SuffixEnds
  <2>3. CASE ~(n <= Len(s))
    BY <2>3 DEF Ends
  <2>4. QED
    BY <2>2, <2>3
<1>2. Held(s) = CHOOSE n \in lengths : \A m \in lengths : m <= n
  BY DEF Held
<1>3. 0 \in lengths
  <2>1. 0 \in 0..(Len(Secret) - 1) /\ Ends(s, 0)
    BY SecretPlain DEF Ends
  <2>2. QED
    BY <1>1, <2>1
<1>4. \A n \in lengths : n \in 0..(Len(Secret) - 1) /\ n <= Len(s)
  OBVIOUS
<1> HIDE DEF lengths
<1>5. short # {} /\ short \in SUBSET Nat
  <2>1. Len(s) \in Nat /\ Len(s) = Len(s) - 0
    OBVIOUS
  <2>2. Len(s) \in short
    BY <1>3, <2>1
  <2>3. QED
    BY <2>2
<1>6. PICK k \in short : \A j \in short : k <= j
  BY <1>5, LeastElement
<1>7. PICK n \in lengths : k = Len(s) - n
  BY <1>6
<1>8. \A m \in lengths : m <= n
  <2> TAKE m \in lengths
  <2>1. Len(s) - m \in short /\ n \in Nat /\ m \in Nat
    BY <1>4, SecretPlain
  <2>2. k <= Len(s) - m
    BY <1>6, <2>1
  <2>3. n \in Nat /\ Len(s) \in Nat
    BY <1>4
  <2>4. QED
    BY <1>7, <2>1, <2>2, <2>3
<1>9. Held(s) \in lengths /\ \A m \in lengths : m <= Held(s)
  BY <1>2, <1>8
<1>10. QED
  BY <1>1, <1>4, <1>9

\* What is left to do from each place of a text: the recursion of Redact.
Scan(f, s) ==
    /\ f[Len(s) + 1] = <<>>
    /\ \A i \in 1..Len(s) : f[i] = IF At(s, i) THEN <<Marker>> \o f[i + Len(Secret)]
                                               ELSE <<s[i]>> \o f[i + 1]
    /\ \A i \in 1..(Len(s) + 1) : f[i] \in Seq(Chars)

LEMMA RedactScan ==
    ASSUME NEW s, Plain(s)
    PROVE  \E f : Scan(f, s) /\ Redact(s) = f[1]
<1> DEFINE n == Len(s)
           Step(g, i) == IF i > Len(s) THEN <<>>
                         ELSE IF IsPrefix(Secret, SubSeq(s, i, Len(s)))
                              THEN <<Marker>> \o g[i + Len(Secret)]
                              ELSE <<s[i]>> \o g[i + 1]
           ScanFrom(g, m) == g = [i \in m..(n + 1) |-> Step(g, i)]
           Missing == {k \in Nat : k <= n /\ ~ \E g : ScanFrom(g, n + 1 - k)}
<1>1. s \in Seq(Chars) /\ n \in Nat /\ Len(Secret) \in Nat \ {0}
  BY SecretPlain DEF Plain
<1>2. \A i \in 1..n : IsPrefix(Secret, SubSeq(s, i, Len(s))) <=> At(s, i)
  BY <1>1, OccursAt
<1>12. ASSUME NEW g, NEW i \in 1..(n + 1)
       PROVE  /\ i = n + 1 => Step(g, i) = <<>>
              /\ i # n + 1 /\ At(s, i) => Step(g, i) = <<Marker>> \o g[i + Len(Secret)]
              /\ i # n + 1 /\ ~At(s, i) => Step(g, i) = <<s[i]>> \o g[i + 1]
  BY <1>1, <1>2
<1>3. \A i \in 1..n : At(s, i) => i + Len(Secret) \in (i + 1)..(n + 1)
  BY <1>1 DEF At
<1> HIDE DEF Step
<1>4. Missing = {}
  <2> SUFFICES ASSUME Missing # {} PROVE FALSE
    OBVIOUS
  <2>1. Missing \in SUBSET Nat
    OBVIOUS
  <2> HIDE DEF ScanFrom
  <2>2. PICK k \in Missing : \A j \in Missing : k <= j
    BY <2>1, LeastElement
  <2>3. k # 0
    <3> DEFINE g == [i \in (n + 1)..(n + 1) |-> <<>>]
    <3>1. g = [i \in (n + 1)..(n + 1) |-> Step(g, i)]
      <4> HIDE DEF g
      <4>1. ASSUME NEW i \in (n + 1)..(n + 1) PROVE Step(g, i) = <<>>
        <5>1. i = n + 1 /\ i \in 1..(n + 1)
          BY <1>1
        <5>2. QED
          BY <1>12, <5>1
      <4>2. QED
        BY <4>1 DEF g
    <3> HIDE DEF g
    <3>2. ScanFrom(g, n + 1 - 0)
      <4>1. n + 1 - 0 = n + 1
        BY <1>1
      <4>2. QED
        BY <3>1, <4>1 DEF ScanFrom
    <3>3. QED
      BY <2>2, <3>2
  <2> DEFINE m == n + 1 - k
  <2>4. k \in Nat /\ k - 1 \in Nat /\ k <= n /\ k - 1 \notin Missing /\ m \in 1..n
    <3>1. k \in Nat /\ k <= n
      BY <2>2
    <3>2. k - 1 \in Nat /\ m \in 1..n /\ ~(k <= k - 1)
      BY <1>1, <2>3, <3>1
    <3>3. k - 1 \notin Missing
      BY <2>2, <3>2, Zenon
    <3>4. QED
      BY <3>1, <3>2, <3>3
  <2>5. PICK g : ScanFrom(g, m + 1)
    BY <1>1, <2>4
  <2>6. \A i \in (m + 1)..(n + 1) : g[i] = Step(g, i)
    BY <2>5 DEF ScanFrom
  <2> DEFINE h == [i \in m..(n + 1) |-> IF i = m THEN Step(g, m) ELSE g[i]]
  <2> HIDE DEF h
  <2>11. m \in 1..n /\ m \in Nat
    BY <1>1, <2>4
  <2> HIDE DEF m, Missing
  <2>12. h[m] = Step(g, m) /\ \A j \in (m + 1)..(n + 1) : h[j] = g[j]
    BY <1>1, <2>11 DEF h
  <2>7. \A i \in m..(n + 1) : h[i] = Step(h, i)
    <3> TAKE i \in m..(n + 1)
    <3>1. Step(h, i) = Step(g, i)
      <4>5. i \in 1..(n + 1)
        BY <1>1, <2>11
      <4>1. CASE i = n + 1
        BY <1>12, <4>1, <4>5
      <4>2. CASE i # n + 1 /\ At(s, i)
        <5>1. i + Len(Secret) \in (m + 1)..(n + 1)
          BY <1>1, <1>3, <2>11, <4>2
        <5>2. h[i + Len(Secret)] = g[i + Len(Secret)]
          BY <2>12, <5>1
        <5>3. QED
          BY <1>12, <4>2, <4>5, <5>2
      <4>3. CASE i # n + 1 /\ ~At(s, i)
        <5>1. i + 1 \in (m + 1)..(n + 1)
          BY <1>1, <2>11, <4>3
        <5>2. h[i + 1] = g[i + 1]
          BY <2>12, <5>1
        <5>3. QED
          BY <1>12, <4>3, <4>5, <5>2
      <4>4. QED
        BY <4>1, <4>2, <4>3
    <3>2. h[i] = Step(g, i)
      <4>1. i = m \/ i \in (m + 1)..(n + 1)
        BY <1>1, <2>11
      <4>2. QED
        BY <2>6, <2>12, <4>1
    <3>3. QED
      BY <3>1, <3>2
  <2>8. h = [i \in m..(n + 1) |-> h[i]]
    BY DEF h
  <2>9. ScanFrom(h, m)
    BY <2>7, <2>8 DEF ScanFrom
  <2>10. QED
    BY <2>2, <2>9 DEF m, Missing
<1>5. \E g : ScanFrom(g, 1)
  <2>1. n \notin Missing /\ n <= n /\ n + 1 - n = 1
    BY <1>1, <1>4
  <2> HIDE DEF ScanFrom
  <2>2. \E g : ScanFrom(g, n + 1 - n)
    BY <1>1, <2>1
  <2>3. QED
    BY <2>1, <2>2
<1> DEFINE f == CHOOSE g : ScanFrom(g, 1)
<1>6. ScanFrom(f, 1)
  BY <1>5
<1>7. Redact(s) = f[1]
  BY DEF Redact, Step
<1> HIDE DEF f
<1>8. \A i \in 1..(n + 1) : f[i] = Step(f, i)
  BY <1>6
<1>9. /\ f[n + 1] = <<>>
      /\ \A i \in 1..n : f[i] = IF At(s, i) THEN <<Marker>> \o f[i + Len(Secret)]
                                            ELSE <<s[i]>> \o f[i + 1]
  <2>1. n + 1 \in 1..(n + 1) /\ \A i \in 1..n : i \in 1..(n + 1) /\ i # n + 1
    BY <1>1
  <2>2. QED
    BY <1>8, <1>12, <2>1
<1>10. \A i \in 1..(n + 1) : f[i] \in Seq(Chars)
  <2> DEFINE Bad == {k \in Nat : k <= n /\ f[n + 1 - k] \notin Seq(Chars)}
  <2> SUFFICES Bad = {}
    <3>1. ASSUME NEW i \in 1..(n + 1), Bad = {} PROVE f[i] \in Seq(Chars)
      <4>1. n + 1 - i \in Nat /\ n + 1 - i <= n /\ n + 1 - (n + 1 - i) = i
        BY <1>1
      <4>2. QED
        BY <3>1, <4>1
    <3>2. QED
      BY <3>1
  <2> SUFFICES ASSUME Bad # {} PROVE FALSE
    OBVIOUS
  <2>1. Bad \in SUBSET Nat
    OBVIOUS
  <2>2. PICK k \in Bad : \A j \in Bad : k <= j
    BY <2>1, LeastElement
  <2> DEFINE i == n + 1 - k
  <2>3. k # 0
    <3>1. n + 1 - 0 = n + 1 /\ f[n + 1] \in Seq(Chars)
      BY <1>1, <1>9
    <3>2. QED
      BY <2>2, <3>1
  <2>4. k \in Nat /\ i \in 1..n /\ f[i] \notin Seq(Chars)
    BY <1>1, <2>2, <2>3
  <2>5. \A j \in (i + 1)..(n + 1) : f[j] \in Seq(Chars)
    <3> TAKE j \in (i + 1)..(n + 1)
    <3>1. n + 1 - j \in Nat /\ n + 1 - j < k /\ n + 1 - j <= n /\ n + 1 - (n + 1 - j) = j
      BY <1>1, <2>4
    <3>2. n + 1 - j \notin Bad
      BY <2>2, <3>1, <2>4
    <3>3. QED
      BY <3>1, <3>2
  <2>6. Marker \in Chars /\ s[i] \in Chars
    BY <1>1, <2>4 DEF Chars
  <2>7. CASE At(s, i)
    <3>1. f[i + Len(Secret)] \in Seq(Chars)
      BY <1>3, <2>4, <2>5, <2>7
    <3>2. f[i] = <<Marker>> \o f[i + Len(Secret)]
      BY <1>9, <2>4, <2>7
    <3>3. QED
      BY <2>4, <2>6, <3>1, <3>2
  <2>8. CASE ~At(s, i)
    <3>1. f[i + 1] \in Seq(Chars)
      BY <1>1, <2>4, <2>5
    <3>2. f[i] = <<s[i]>> \o f[i + 1]
      BY <1>9, <2>4, <2>8
    <3>3. QED
      BY <2>4, <2>6, <3>1, <3>2
  <2>9. QED
    BY <2>7, <2>8
<1>11. QED
  BY <1>7, <1>9, <1>10 DEF Scan

\* Induction from the end of a text to its beginning.
LEMMA FromTheEnd ==
    ASSUME NEW n \in Nat, NEW S,
           \A i \in 1..(n + 1) : (\A j \in (i + 1)..(n + 1) : j \in S) => i \in S
    PROVE  \A i \in 1..(n + 1) : i \in S
<1> DEFINE Bad == {k \in Nat : k <= n /\ n + 1 - k \notin S}
<1>1. Bad = {}
  <2> SUFFICES ASSUME Bad # {} PROVE FALSE
    OBVIOUS
  <2>1. Bad \in SUBSET Nat
    OBVIOUS
  <2>2. PICK k \in Bad : \A j \in Bad : k <= j
    BY <2>1, LeastElement
  <2> DEFINE i == n + 1 - k
  <2>3. k \in Nat /\ k <= n /\ i \in 1..(n + 1) /\ i \notin S
    BY <2>2
  <2>4. ASSUME NEW j \in (i + 1)..(n + 1) PROVE j \in S
    <3>1. n + 1 - j \in Nat /\ n + 1 - j <= n /\ ~(k <= n + 1 - j) /\ n + 1 - (n + 1 - j) = j
      BY <2>3
    <3>2. n + 1 - j \notin Bad
      BY <2>2, <3>1
    <3>3. QED
      BY <3>1, <3>2
  <2>5. QED
    BY <2>3, <2>4
<1>2. ASSUME NEW i \in 1..(n + 1) PROVE i \in S
  <2>1. n + 1 - i \in Nat /\ n + 1 - i <= n /\ n + 1 - (n + 1 - i) = i
    OBVIOUS
  <2>2. n + 1 - i \notin Bad
    BY <1>1
  <2>3. QED
    BY <2>1, <2>2
<1>3. QED
  BY <1>2

\* The credential's places in the second of two texts.
LEMMA AtBehind ==
    ASSUME NEW s \in Seq(Chars), NEW t \in Seq(Chars), NEW j \in 1..Len(t)
    PROVE  At(s \o t, Len(s) + j) <=> At(t, j)
<1>1. /\ s \o t \in Seq(Chars) /\ Len(s \o t) = Len(s) + Len(t)
      /\ \A i \in 1..Len(s) + Len(t) :
             (s \o t)[i] = IF i <= Len(s) THEN s[i] ELSE t[i - Len(s)]
  BY ConcatProperties
<1>2. Len(s) \in Nat /\ Len(t) \in Nat /\ Len(Secret) \in Nat \ {0}
  BY SecretPlain
<1>3. ASSUME j + Len(Secret) <= Len(t) + 1, NEW k \in 1..Len(Secret)
      PROVE  (s \o t)[Len(s) + j + k - 1] = t[j + k - 1]
  <2>1. Len(s) + j + k - 1 \in 1..(Len(s) + Len(t)) /\ Len(s) + j + k - 1 > Len(s)
        /\ Len(s) + j + k - 1 - Len(s) = j + k - 1
    BY <1>2, <1>3
  <2>2. QED
    BY <1>1, <2>1
<1>4. Len(s) + j + Len(Secret) <= Len(s \o t) + 1 <=> j + Len(Secret) <= Len(t) + 1
  BY <1>1, <1>2
<1>5. CASE j + Len(Secret) <= Len(t) + 1
  BY <1>3, <1>4, <1>5 DEF At
<1>6. QED
  BY <1>4, <1>5 DEF At

\* What is left to do from a place does not depend on what is before it.
LEMMA ScanBehind ==
    ASSUME NEW s, NEW t, Plain(s), Plain(t),
           NEW F, Scan(F, s \o t), NEW H, Scan(H, t)
    PROVE  F[Len(s) + 1] = H[1]
<1> DEFINE S == {j \in 1..(Len(t) + 1) : F[Len(s) + j] = H[j]}
<1>1. /\ s \in Seq(Chars) /\ t \in Seq(Chars)
      /\ Len(s) \in Nat /\ Len(t) \in Nat /\ Len(Secret) \in Nat \ {0}
  BY SecretPlain DEF Plain
<1>2. /\ s \o t \in Seq(Chars) /\ Len(s \o t) = Len(s) + Len(t)
      /\ \A i \in 1..Len(s) + Len(t) :
             (s \o t)[i] = IF i <= Len(s) THEN s[i] ELSE t[i - Len(s)]
  BY <1>1, ConcatProperties
<1>3. ASSUME NEW j \in 1..(Len(t) + 1), \A k \in (j + 1)..(Len(t) + 1) : k \in S
      PROVE  j \in S
  <2>1. CASE j = Len(t) + 1
    BY <1>1, <1>2, <2>1 DEF Scan
  <2>2. CASE j # Len(t) + 1
    <3> DEFINE i == Len(s) + j
    <3>1. j \in 1..Len(t) /\ i \in 1..Len(s \o t) /\ j + 1 \in (j + 1)..(Len(t) + 1)
      BY <1>1, <1>2, <2>2
    <3>2. (s \o t)[i] = t[j]
      BY <1>1, <1>2, <3>1
    <3>3. At(s \o t, i) <=> At(t, j)
      BY <1>1, <3>1, AtBehind
    <3>4. CASE At(t, j)
      <4>1. j + Len(Secret) \in (j + 1)..(Len(t) + 1)
        BY <1>1, <3>1, <3>4 DEF At
      <4>2. F[i + Len(Secret)] = H[j + Len(Secret)]
        <5>1. j + Len(Secret) \in S
          BY <1>3, <4>1
        <5>2. Len(s) + (j + Len(Secret)) = i + Len(Secret)
          BY <1>1
        <5>3. QED
          BY <5>1, <5>2
      <4>3. F[i] = <<Marker>> \o F[i + Len(Secret)] /\ H[j] = <<Marker>> \o H[j + Len(Secret)]
        BY <3>1, <3>3, <3>4 DEF Scan
      <4>4. QED
        BY <4>2, <4>3
    <3>5. CASE ~At(t, j)
      <4>1. F[i + 1] = H[j + 1]
        <5>1. j + 1 \in S
          BY <1>3, <3>1
        <5>2. Len(s) + (j + 1) = i + 1
          BY <1>1
        <5>3. QED
          BY <5>1, <5>2
      <4>2. F[i] = <<(s \o t)[i]>> \o F[i + 1] /\ H[j] = <<t[j]>> \o H[j + 1]
        BY <3>1, <3>3, <3>5 DEF Scan
      <4>3. QED
        BY <3>2, <4>1, <4>2
    <3>6. QED
      BY <3>4, <3>5
  <2>3. QED
    BY <2>1, <2>2
<1> HIDE DEF S
<1>4. \A j \in 1..(Len(t) + 1) : j \in S
  BY <1>1, <1>3, FromTheEnd
<1>5. 1 \in S
  BY <1>1, <1>4
<1>6. QED
  BY <1>5 DEF S

\* What has no marker, or is too short for the credential, is as it was.
LEMMA ScanRaw ==
    ASSUME NEW s, Plain(s), NEW G, Scan(G, s), NEW i \in 1..(Len(s) + 1),
           \/ i + Len(Secret) > Len(s) + 1
           \/ \A k \in 1..Len(G[i]) : G[i][k] # Marker
    PROVE  G[i] = SubSeq(s, i, Len(s))
<1> DEFINE Raw(j) == \/ j + Len(Secret) > Len(s) + 1
                     \/ \A k \in 1..Len(G[j]) : G[j][k] # Marker
           S == {j \in 1..(Len(s) + 1) : Raw(j) => G[j] = SubSeq(s, j, Len(s))}
<1>1. /\ s \in Seq(Chars) /\ Len(s) \in Nat /\ Len(Secret) \in Nat \ {0}
      /\ Marker \in Chars
  BY SecretPlain DEF Plain, Chars
<1>2. ASSUME NEW j \in 1..(Len(s) + 1), \A k \in (j + 1)..(Len(s) + 1) : k \in S
      PROVE  j \in S
  <2>1. CASE j = Len(s) + 1
    <3>1. G[j] = <<>> /\ SubSeq(s, j, Len(s)) = <<>>
      BY <1>1, <2>1, SubSeqEmpty DEF Scan
    <3>2. QED
      BY <3>1
  <2>2. CASE j # Len(s) + 1
    <3> SUFFICES ASSUME Raw(j) PROVE G[j] = SubSeq(s, j, Len(s))
      OBVIOUS
    <3>1. j \in 1..Len(s) /\ j + 1 \in (j + 1)..(Len(s) + 1) /\ j + 1 \in 1..(Len(s) + 1)
      BY <1>1, <2>2
    <3>2. ~At(s, j)
      <4> SUFFICES ASSUME At(s, j) PROVE FALSE
        OBVIOUS
      <4> DEFINE x == G[j + Len(Secret)]
      <4>1. j + Len(Secret) \in 1..(Len(s) + 1)
        BY <1>1, <3>1 DEF At
      <4>2. G[j] = <<Marker>> \o x /\ x \in Seq(Chars)
        BY <3>1, <4>1 DEF Scan
      <4>3. G[j][1] = Marker /\ 1 \in 1..Len(G[j])
        BY <1>1, <4>2
      <4>4. ~(j + Len(Secret) > Len(s) + 1)
        BY <1>1, <4>1
      <4>5. QED
        BY <4>3, <4>4
    <3> DEFINE x == G[j + 1]
    <3>3. G[j] = <<s[j]>> \o x /\ x \in Seq(Chars) /\ s[j] \in Chars
      <4>1. G[j] = <<s[j]>> \o G[j + 1]
        BY <3>1, <3>2 DEF Scan
      <4>2. G[j + 1] \in Seq(Chars)
        BY <3>1 DEF Scan
      <4>3. s[j] \in Chars
        BY <1>1, <3>1
      <4>4. QED
        BY <4>1, <4>2, <4>3
    <3>4. Raw(j + 1)
      <4>1. CASE j + Len(Secret) > Len(s) + 1
        BY <1>1, <4>1
      <4>2. CASE \A k \in 1..Len(G[j]) : G[j][k] # Marker
        <5>1. Len(G[j]) = Len(x) + 1 /\ \A k \in 1..Len(x) : G[j][k + 1] = x[k]
          BY <3>3
        <5>2. \A k \in 1..Len(x) : k + 1 \in 1..Len(G[j])
          BY <3>3, <5>1
        <5>3. QED
          BY <4>2, <5>1, <5>2
      <4>3. QED
        BY <4>1, <4>2
    <3>5. x = SubSeq(s, j + 1, Len(s))
      <4>1. j + 1 \in S
        BY <1>2, <3>1
      <4>2. QED
        BY <3>4, <4>1
    <3>6. SubSeq(s, j, Len(s)) = <<s[j]>> \o SubSeq(s, j + 1, Len(s))
      <4>1. Len(s) \in j..Len(s)
        BY <1>1, <3>1
      <4>2. QED
        BY <1>1, <3>1, <4>1, SubSeqRecursiveFirst
    <3>7. QED
      BY <3>3, <3>5, <3>6
  <2>3. QED
    BY <2>1, <2>2
<1> HIDE DEF S
<1>3. \A j \in 1..(Len(s) + 1) : j \in S
  BY <1>1, <1>2, FromTheEnd
<1>4. QED
  BY <1>3 DEF S

LEMMA SafeAndRest ==
    ASSUME NEW x \in Seq(Chars)
    PROVE  /\ Safe(x) \in Seq(Chars) /\ Plain(Rest(x)) /\ x = Safe(x) \o Rest(x)
           /\ Len(Safe(x)) = Len(x) - Held(x) /\ Len(Rest(x)) = Held(x)
<1> DEFINE h == Held(x)
<1>1. /\ h \in 0..(Len(Secret) - 1) /\ h <= Len(x) /\ h \in Nat /\ Len(x) \in Nat
      /\ \A j \in 1..h : x[Len(x) - h + j] = Secret[j]
  BY HeldLongest, SecretPlain DEF Ends
<1> HIDE DEF h
<1>2. /\ SubSeq(x, 1, Len(x) - h) \in Seq(Chars) /\ Len(SubSeq(x, 1, Len(x) - h)) = Len(x) - h
      /\ \A j \in 1..(Len(x) - h) : SubSeq(x, 1, Len(x) - h)[j] = x[j]
  BY <1>1
<1>3. /\ SubSeq(x, Len(x) - h + 1, Len(x)) \in Seq(Chars)
      /\ Len(SubSeq(x, Len(x) - h + 1, Len(x))) = h
      /\ \A j \in 1..h : SubSeq(x, Len(x) - h + 1, Len(x))[j] = x[Len(x) - h + j]
  <2> DEFINE m == Len(x) - h + 1
  <2>1. m \in 1..(Len(x) + 1) /\ Len(x) - m + 1 = h
        /\ \A j \in 1..h : m + j - 1 = Len(x) - h + j
    BY <1>1
  <2> HIDE DEF m
  <2>2. /\ SubSeq(x, m, Len(x)) \in Seq(Chars) /\ Len(SubSeq(x, m, Len(x))) = Len(x) - m + 1
        /\ \A j \in 1..(Len(x) - m + 1) : SubSeq(x, m, Len(x))[j] = x[m + j - 1]
    BY <2>1
  <2>3. QED
    BY <2>1, <2>2 DEF m
<1> DEFINE u == SubSeq(x, 1, Len(x) - h)
           v == SubSeq(x, Len(x) - h + 1, Len(x))
<1>4. Safe(x) = u /\ Rest(x) = v
  BY DEF Safe, Rest, h
<1> HIDE DEF u, v
<1>5. /\ u \o v \in Seq(Chars) /\ Len(u \o v) = Len(x)
      /\ \A i \in 1..Len(x) : (u \o v)[i] = IF i <= Len(x) - h THEN u[i] ELSE v[i - (Len(x) - h)]
  <2>1. u \in Seq(Chars) /\ v \in Seq(Chars) /\ Len(u) = Len(x) - h /\ Len(v) = h
    BY <1>2, <1>3 DEF u, v
  <2>2. Len(u) + Len(v) = Len(x)
    BY <1>1, <2>1
  <2>3. /\ u \o v \in Seq(Chars) /\ Len(u \o v) = Len(u) + Len(v)
        /\ \A i \in 1..Len(u) + Len(v) : (u \o v)[i] = IF i <= Len(u) THEN u[i] ELSE v[i - Len(u)]
    BY <2>1, ConcatProperties
  <2>4. QED
    BY <2>1, <2>2, <2>3
<1>6. \A i \in 1..Len(x) : (u \o v)[i] = x[i]
  <2> TAKE i \in 1..Len(x)
  <2>1. CASE i <= Len(x) - h
    BY <1>1, <1>2, <1>5, <2>1 DEF u
  <2>2. CASE ~(i <= Len(x) - h)
    <3>1. i - (Len(x) - h) \in 1..h /\ Len(x) - h + (i - (Len(x) - h)) = i
      BY <1>1, <2>2
    <3>2. v[i - (Len(x) - h)] = x[i]
      BY <1>3, <3>1 DEF v
    <3>3. QED
      BY <1>5, <2>2, <3>2
  <2>3. QED
    BY <2>1, <2>2
<1>7. u \o v = x
  BY <1>5, <1>6, SeqEqual
<1>8. Plain(v)
  <2>1. \A j \in 1..h : v[j] = Secret[j] /\ j \in 1..Len(Secret)
    BY <1>1, <1>3, SecretPlain DEF v
  <2>2. \A j \in 1..Len(Secret) : Secret[j] # Marker
    BY SecretPlain DEF Plain
  <2>3. v \in Seq(Chars) /\ Len(v) = h
    BY <1>3 DEF v
  <2>4. QED
    BY <2>1, <2>2, <2>3 DEF Plain
<1>9. QED
  BY <1>2, <1>3, <1>4, <1>7, <1>8 DEF u, v, h

\* What a text ends with is found in what follows something, unless it
\* reaches further back.
LEMMA HeldBehind ==
    ASSUME NEW u \in Seq(Chars), NEW v \in Seq(Chars),
           \A n \in 0..(Len(Secret) - 1) : Ends(u \o v, n) => n <= Len(v)
    PROVE  /\ Held(u \o v) = Held(v)
           /\ Safe(u \o v) = u \o Safe(v)
           /\ Rest(u \o v) = Rest(v)
<1> DEFINE w == u \o v
           h == Held(v)
<1>1. /\ w \in Seq(Chars) /\ Len(w) = Len(u) + Len(v)
      /\ \A i \in 1..Len(u) + Len(v) : w[i] = IF i <= Len(u) THEN u[i] ELSE v[i - Len(u)]
  BY ConcatProperties
<1> HIDE DEF w
<1>2. Len(u) \in Nat /\ Len(v) \in Nat /\ Len(Secret) \in Nat \ {0}
  BY SecretPlain
<1>3. ASSUME NEW n \in 0..(Len(Secret) - 1), n <= Len(v)
      PROVE  Ends(w, n) <=> Ends(v, n)
  <2>1. ASSUME NEW j \in 1..n PROVE w[Len(w) - n + j] = v[Len(v) - n + j]
    <3>1. /\ Len(w) - n + j \in 1..(Len(u) + Len(v)) /\ ~(Len(w) - n + j <= Len(u))
          /\ Len(w) - n + j - Len(u) = Len(v) - n + j
      BY <1>1, <1>2, <1>3
    <3>2. QED
      BY <1>1, <3>1
  <2>2. n <= Len(w)
    BY <1>1, <1>2, <1>3
  <2>3. QED
    BY <1>3, <2>1, <2>2 DEF Ends
<1>4. h \in 0..(Len(Secret) - 1) /\ h <= Len(v) /\ h \in Nat
  BY HeldLongest, <1>2
<1>5. Held(w) = h
  <2>1. /\ Held(w) \in 0..(Len(Secret) - 1) /\ Ends(w, Held(w))
        /\ \A n \in 0..(Len(Secret) - 1) : Ends(w, n) => n <= Held(w)
    BY <1>1, HeldLongest
  <2>2. /\ Ends(v, h)
        /\ \A n \in 0..(Len(Secret) - 1) : Ends(v, n) => n <= h
    BY HeldLongest
  <2>3. Held(w) <= Len(v)
    BY <2>1 DEF w
  <2>4. Ends(v, Held(w)) /\ Ends(w, h)
    BY <1>3, <1>4, <2>1, <2>2, <2>3
  <2>5. Held(w) <= h /\ h <= Held(w)
    BY <1>4, <2>1, <2>2, <2>4
  <2>6. QED
    BY <1>2, <1>4, <2>1, <2>5
<1> HIDE DEF h
<1>6. /\ SubSeq(v, 1, Len(v) - h) \in Seq(Chars) /\ Len(SubSeq(v, 1, Len(v) - h)) = Len(v) - h
      /\ \A i \in 1..(Len(v) - h) : SubSeq(v, 1, Len(v) - h)[i] = v[i]
  BY <1>2, <1>4
<1> DEFINE m == Len(w) - h
           k == Len(v) - h
<1>7. m \in Nat /\ k \in Nat /\ m = Len(u) + k /\ m <= Len(w) /\ k <= Len(v)
      /\ m + 1 \in 1..(Len(w) + 1) /\ k + 1 \in 1..(Len(v) + 1)
  BY <1>1, <1>2, <1>4
<1>8. Safe(w) = SubSeq(w, 1, m) /\ Safe(v) = SubSeq(v, 1, k)
      /\ Rest(w) = SubSeq(w, m + 1, Len(w)) /\ Rest(v) = SubSeq(v, k + 1, Len(v))
  BY <1>5 DEF Safe, Rest, h
<1> HIDE DEF m, k
<1>9. SubSeq(w, 1, m) = u \o SubSeq(v, 1, k)
  <2> DEFINE one == SubSeq(w, 1, m)
             back == SubSeq(v, 1, k)
             two == u \o back
  <2>1. one \in Seq(Chars) /\ Len(one) = m /\ \A i \in 1..m : one[i] = w[i]
    BY <1>1, <1>7
  <2>2. back \in Seq(Chars) /\ Len(back) = k /\ \A i \in 1..k : back[i] = v[i]
    BY <1>2, <1>7
  <2> HIDE DEF one, back
  <2>3. /\ two \in Seq(Chars) /\ Len(two) = Len(u) + k
        /\ \A i \in 1..Len(u) + k : two[i] = IF i <= Len(u) THEN u[i] ELSE back[i - Len(u)]
    BY <2>2, ConcatProperties
  <2> HIDE DEF two
  <2>4. \A i \in 1..m : one[i] = two[i]
    <3> TAKE i \in 1..m
    <3>1. i \in 1..(Len(u) + k) /\ i \in 1..(Len(u) + Len(v))
      BY <1>1, <1>2, <1>7
    <3>2. CASE i <= Len(u)
      BY <1>1, <2>1, <2>3, <3>1, <3>2
    <3>3. CASE ~(i <= Len(u))
      <4>1. i - Len(u) \in 1..k
        BY <1>2, <1>7, <3>1, <3>3
      <4>2. QED
        BY <1>1, <2>1, <2>2, <2>3, <3>1, <3>3, <4>1
    <3>4. QED
      BY <3>2, <3>3
  <2>5. Len(one) = Len(two)
    BY <1>7, <2>1, <2>3
  <2>6. one = two
    BY <2>1, <2>3, <2>4, <2>5, SeqEqual
  <2>7. QED
    BY <2>6 DEF one, two, back
<1>10. SubSeq(w, m + 1, Len(w)) = SubSeq(v, k + 1, Len(v))
  <2> DEFINE one == SubSeq(w, m + 1, Len(w))
             two == SubSeq(v, k + 1, Len(v))
  <2>1. /\ one \in Seq(Chars) /\ Len(one) = Len(w) - (m + 1) + 1
        /\ \A i \in 1..(Len(w) - (m + 1) + 1) : one[i] = w[m + 1 + i - 1]
    BY <1>1, <1>7
  <2>2. /\ two \in Seq(Chars) /\ Len(two) = Len(v) - (k + 1) + 1
        /\ \A i \in 1..(Len(v) - (k + 1) + 1) : two[i] = v[k + 1 + i - 1]
    BY <1>2, <1>7
  <2> HIDE DEF one, two
  <2>3. Len(one) = Len(v) - k /\ Len(two) = Len(v) - k
    BY <1>1, <1>2, <1>7, <2>1, <2>2
  <2>4. ASSUME NEW i \in 1..(Len(v) - k) PROVE one[i] = two[i]
    <3>1. /\ m + 1 + i - 1 = m + i /\ k + 1 + i - 1 = k + i
          /\ m + i \in 1..(Len(u) + Len(v)) /\ ~(m + i <= Len(u)) /\ m + i - Len(u) = k + i
      BY <1>1, <1>2, <1>7
    <3>2. one[i] = w[m + i] /\ two[i] = v[k + i]
      <4>1. i \in 1..(Len(w) - (m + 1) + 1) /\ i \in 1..(Len(v) - (k + 1) + 1)
        BY <1>1, <1>2, <1>7
      <4>2. one[i] = w[m + 1 + i - 1] /\ two[i] = v[k + 1 + i - 1]
        BY <2>1, <2>2, <4>1
      <4>3. QED
        BY <3>1, <4>2
    <3>3. w[m + i] = v[m + i - Len(u)]
      <4> DEFINE j == m + i
      <4>1. j \in 1..(Len(u) + Len(v)) /\ ~(j <= Len(u))
        BY <3>1
      <4> HIDE DEF j
      <4>2. w[j] = v[j - Len(u)]
        BY <1>1, <4>1
      <4>3. QED
        BY <1>2, <1>7, <4>2 DEF j
    <3>4. QED
      BY <3>1, <3>2, <3>3
  <2>5. one = two
    BY <2>1, <2>2, <2>3, <2>4, SeqEqual
  <2>6. QED
    BY <2>5 DEF one, two
<1>11. QED
  BY <1>5, <1>8, <1>9, <1>10 DEF w, h

\* In front of what is held back a text is redacted alike, whatever follows.
LEMMA ScanAhead ==
    ASSUME NEW s, NEW t, Plain(s), Plain(t),
           NEW F, Scan(F, s \o t), NEW G, Scan(G, s)
    PROVE  LET h == Held(G[1])
           IN  /\ h <= Len(s) /\ Rest(G[1]) = SubSeq(s, Len(s) - h + 1, Len(s))
               /\ F[1] = Safe(G[1]) \o F[Len(s) - h + 1]
<1> DEFINE n == Len(s)
           w == s \o t
           H(i) == Held(G[i])
           S == {i \in 1..(n + 1) :
                    /\ H(i) <= n - i + 1
                    /\ Rest(G[i]) = SubSeq(s, n - H(i) + 1, n)
                    /\ F[i] = Safe(G[i]) \o F[n - H(i) + 1]}
<1>1. /\ s \in Seq(Chars) /\ t \in Seq(Chars) /\ n \in Nat /\ Len(t) \in Nat
      /\ Len(Secret) \in Nat \ {0} /\ Marker \in Chars
  BY SecretPlain DEF Plain, Chars
<1>2. /\ w \in Seq(Chars) /\ Len(w) = n + Len(t)
      /\ \A i \in 1..n : w[i] = s[i]
  <2>1. /\ w \in Seq(Chars) /\ Len(w) = Len(s) + Len(t)
        /\ \A i \in 1..Len(s) + Len(t) : w[i] = IF i <= Len(s) THEN s[i] ELSE t[i - Len(s)]
    BY <1>1, ConcatProperties
  <2>2. QED
    BY <1>1, <2>1
<1>3. \A i \in 1..(n + 1) : G[i] \in Seq(Chars) /\ F[i] \in Seq(Chars) /\ H(i) \in Nat
  <2> TAKE i \in 1..(n + 1)
  <2>1. G[i] \in Seq(Chars)
    BY DEF Scan
  <2>2. i \in 1..(Len(w) + 1)
    BY <1>1, <1>2
  <2>3. F[i] \in Seq(Chars)
    BY <2>2 DEF Scan
  <2>4. QED
    BY <1>1, <2>1, <2>3, HeldLongest
<1>4. ASSUME NEW i \in 1..(n + 1), \A j \in (i + 1)..(n + 1) : j \in S
      PROVE  i \in S
  <2> DEFINE x == G[i]
  <2>1. x \in Seq(Chars)
    BY <1>3
  \* All of it is held back.
  <2>2. CASE H(i) = Len(x)
    <3>1. Safe(x) = <<>> /\ Rest(x) = x /\ \A k \in 1..Len(x) : x[k] # Marker
      <4>1. Len(Safe(x)) = 0 /\ Safe(x) \in Seq(Chars) /\ Plain(Rest(x)) /\ x = Safe(x) \o Rest(x)
        BY <1>3, <2>1, <2>2, SafeAndRest
      <4>2. Safe(x) = <<>> /\ Rest(x) \in Seq(Chars)
        BY <4>1 DEF Plain
      <4>3. Rest(x) = x
        BY <4>1, <4>2
      <4>4. QED
        BY <4>1, <4>2, <4>3 DEF Plain
    <3>2. x = SubSeq(s, i, n)
      BY <3>1, ScanRaw
    <3>3. H(i) = n - i + 1 /\ n - H(i) + 1 = i /\ H(i) <= n - i + 1
      <4>1. Len(SubSeq(s, i, n)) = n - i + 1
        BY <1>1
      <4>2. QED
        BY <1>1, <2>2, <3>2, <4>1
    <3>4. F[i] = <<>> \o F[i]
      BY <1>3, ConcatEmptySeq
    <3>5. F[i] = Safe(x) \o F[n - H(i) + 1] /\ Rest(x) = SubSeq(s, n - H(i) + 1, n)
      BY <3>1, <3>2, <3>3, <3>4, Zenon
    <3>6. QED
      BY <3>3, <3>5
  \* The rest is that of what follows.
  <2>3. ASSUME H(i) # Len(x), NEW c \in Chars, NEW k \in (i + 1)..(n + 1),
               x = <<c>> \o G[k], F[i] = <<c>> \o F[k]
        PROVE  i \in S
    <3> DEFINE y == G[k]
    <3>1. y \in Seq(Chars) /\ k \in S /\ <<c>> \in Seq(Chars) /\ Len(<<c>>) = 1 /\ k \in 1..(n + 1)
      <4>1. k \in 1..(n + 1)
        BY <1>1
      <4>2. y \in Seq(Chars) /\ k \in S
        BY <1>3, <1>4, <2>3, <4>1
      <4>3. <<c>> \in Seq(Chars) /\ Len(<<c>>) = 1
        BY <2>3
      <4>4. QED
        BY <4>1, <4>2, <4>3
    <3>2. Len(x) = Len(y) + 1 /\ Len(y) \in Nat
      BY <2>3, <3>1
    <3>3. \A m \in 0..(Len(Secret) - 1) : Ends(x, m) => m <= Len(y)
      <4>1. \A m \in 0..(Len(Secret) - 1) : Ends(x, m) => m <= H(i)
        BY <2>1, HeldLongest
      <4>2. H(i) <= Len(x) /\ H(i) \in Nat
        BY <1>3, <2>1, HeldLongest
      <4>3. H(i) <= Len(y)
        BY <2>3, <3>2, <4>2
      <4>4. QED
        BY <1>1, <3>2, <4>1, <4>2, <4>3
    <3>4. Held(x) = Held(y) /\ Safe(x) = <<c>> \o Safe(y) /\ Rest(x) = Rest(y)
      BY <2>3, <3>1, <3>3, HeldBehind
    <3>5. /\ H(k) <= n - k + 1 /\ Rest(y) = SubSeq(s, n - H(k) + 1, n)
          /\ F[k] = Safe(y) \o F[n - H(k) + 1]
      BY <3>1
    <3>6. n - H(k) + 1 \in 1..(n + 1) /\ H(k) <= n - i + 1
      BY <1>1, <1>3, <3>1, <3>5
    <3>7. F[i] = Safe(x) \o F[n - H(k) + 1]
      <4>1. Safe(y) \in Seq(Chars) /\ F[n - H(k) + 1] \in Seq(Chars)
        BY <1>3, <3>1, <3>6, SafeAndRest
      <4>2. (<<c>> \o Safe(y)) \o F[n - H(k) + 1] = <<c>> \o (Safe(y) \o F[n - H(k) + 1])
        <5> DEFINE one == <<c>>
                   two == Safe(y)
                   three == F[n - H(k) + 1]
        <5>1. one \in Seq(Chars) /\ two \in Seq(Chars) /\ three \in Seq(Chars)
          BY <3>1, <4>1
        <5> HIDE DEF one, two, three
        <5>2. Together(one, two, three)
          BY <5>1, ConcatTogether
        <5>3. QED
          BY <5>2 DEF Together, one, two, three
      <4>3. QED
        BY <2>3, <3>4, <3>5, <4>2
    <3>8. QED
      BY <3>4, <3>5, <3>6, <3>7
  <2>4. CASE H(i) # Len(x) /\ i = n + 1
    <3>1. x = <<>>
      BY <2>4 DEF Scan
    <3>2. Held(x) <= Len(x) /\ Held(x) \in Nat
      BY <1>3, <2>1, HeldLongest
    <3>3. QED
      BY <2>4, <3>1, <3>2
  <2>5. CASE H(i) # Len(x) /\ i # n + 1 /\ At(s, i)
    <3>1. i \in 1..n /\ i \in 1..Len(w) /\ i + Len(Secret) \in (i + 1)..(n + 1)
      BY <1>1, <1>2, <2>5 DEF At
    <3>2. At(w, i)
      <4>1. \A j \in 1..Len(Secret) : i + j - 1 \in 1..n
        BY <1>1, <3>1
      <4>2. i + Len(Secret) <= Len(w) + 1
        BY <1>1, <1>2, <3>1
      <4>3. QED
        BY <1>2, <2>5, <4>1, <4>2 DEF At
    <3>3. x = <<Marker>> \o G[i + Len(Secret)] /\ F[i] = <<Marker>> \o F[i + Len(Secret)]
      BY <2>5, <3>1, <3>2 DEF Scan
    <3>4. QED
      BY <1>1, <2>3, <2>5, <3>1, <3>3
  <2>6. CASE H(i) # Len(x) /\ i # n + 1 /\ ~At(s, i)
    <3>1. i \in 1..n /\ i \in 1..Len(w) /\ i + 1 \in (i + 1)..(n + 1)
      BY <1>1, <1>2, <2>6
    <3>2. ~At(w, i)
      <4> SUFFICES ASSUME At(w, i) PROVE FALSE
        OBVIOUS
      <4> DEFINE m == n - i + 1
      <4>1. i + Len(Secret) > n + 1
        <5> SUFFICES ASSUME ~(i + Len(Secret) > n + 1) PROVE FALSE
          OBVIOUS
        <5>1. \A j \in 1..Len(Secret) : i + j - 1 \in 1..n
          BY <1>1, <3>1
        <5>2. At(s, i)
          BY <1>1, <1>2, <3>1, <5>1 DEF At
        <5>3. QED
          BY <2>6, <5>2
      <4>2. x = SubSeq(s, i, n)
        BY <4>1, ScanRaw
      <4>3. Len(x) = m /\ \A j \in 1..m : x[j] = s[i + j - 1]
        BY <1>1, <3>1, <4>2
      <4>4. m \in 0..(Len(Secret) - 1) /\ \A j \in 1..m : j \in 1..Len(Secret) /\ i + j - 1 \in 1..n
        BY <1>1, <3>1, <4>1
      <4>5. Ends(x, m)
        <5>1. \A j \in 1..m : x[Len(x) - m + j] = x[j]
          BY <1>1, <3>1, <4>3
        <5>2. \A j \in 1..m : x[j] = Secret[j]
          BY <1>2, <4>3, <4>4 DEF At
        <5>3. QED
          BY <4>3, <4>4, <5>1, <5>2 DEF Ends
      <4>6. m <= H(i) /\ H(i) <= Len(x)
        BY <2>1, <4>4, <4>5, HeldLongest
      <4>7. QED
        BY <1>1, <1>3, <2>6, <4>3, <4>4, <4>6
    <3>3. x = <<s[i]>> \o G[i + 1] /\ F[i] = <<w[i]>> \o F[i + 1]
      BY <2>6, <3>1, <3>2 DEF Scan
    <3>4. s[i] \in Chars /\ w[i] = s[i]
      BY <1>1, <1>2, <3>1
    <3>5. QED
      BY <2>3, <2>6, <3>1, <3>3, <3>4
  <2>7. QED
    BY <2>2, <2>4, <2>5, <2>6
<1> HIDE DEF S
<1>5. \A i \in 1..(n + 1) : i \in S
  BY <1>1, <1>4, FromTheEnd
<1>6. 1 \in S
  BY <1>1, <1>5
<1>7. /\ H(1) <= n - 1 + 1 /\ Rest(G[1]) = SubSeq(s, n - H(1) + 1, n)
      /\ F[1] = Safe(G[1]) \o F[n - H(1) + 1]
  BY <1>6 DEF S
<1>8. n - 1 + 1 = n
  BY <1>1
<1>9. QED
  BY <1>7, <1>8

\* Text that comes behind what was received changes nothing but what was held
\* back: redacting what was held back together with it gives the rest of the
\* whole, and the same is held back in the end.
LEMMA RedactMore ==
    ASSUME NEW s, NEW t, Plain(s), Plain(t)
    PROVE  LET known == Redact(s)
               more == Redact(Rest(known) \o t)
               whole == Redact(s \o t)
           IN  /\ known \in Seq(Chars) /\ more \in Seq(Chars) /\ whole \in Seq(Chars)
               /\ whole = Safe(known) \o more
               /\ Safe(whole) = Safe(known) \o Safe(more) /\ Rest(whole) = Rest(more)
<1> DEFINE w == s \o t
           known == Redact(s)
           h == Held(known)
           r == Rest(known)
           u == Safe(known)
           front == SubSeq(s, 1, Len(s) - h)
           back == r \o t
           more == Redact(back)
<1>1. /\ s \in Seq(Chars) /\ t \in Seq(Chars) /\ Len(s) \in Nat /\ Len(t) \in Nat
      /\ Len(Secret) \in Nat \ {0} /\ Plain(w)
  BY SecretPlain, PlainConcat DEF Plain
<1>2. PICK G : Scan(G, s) /\ known = G[1]
  BY RedactScan
<1>3. PICK F : Scan(F, w) /\ Redact(w) = F[1]
  BY <1>1, RedactScan
<1> HIDE DEF known, w
<1>4. known \in Seq(Chars)
  BY <1>1, <1>2 DEF Scan
<1>5. /\ u \in Seq(Chars) /\ Plain(r) /\ known = u \o r /\ Len(r) = h
      /\ h \in 0..(Len(Secret) - 1) /\ h \in Nat
  <2>1. /\ u \in Seq(Chars) /\ Plain(r) /\ known = u \o r /\ Len(r) = h
    BY <1>4, SafeAndRest
  <2>2. h \in 0..(Len(Secret) - 1)
    BY <1>4, HeldLongest
  <2>3. QED
    BY <1>1, <2>1, <2>2
<1>6. h <= Len(s) /\ r = SubSeq(s, Len(s) - h + 1, Len(s)) /\ F[1] = u \o F[Len(s) - h + 1]
  BY <1>2, <1>3, ScanAhead DEF w
<1> HIDE DEF h, r, u
<1>7. Plain(front) /\ Len(front) = Len(s) - h /\ front \o r = s
  <2>1. /\ front \in Seq(Chars) /\ Len(front) = Len(s) - h
        /\ \A j \in 1..(Len(s) - h) : front[j] = s[j]
    BY <1>1, <1>5, <1>6
  <2>2. \A j \in 1..(Len(s) - h) : s[j] # Marker
    BY <1>1, <1>5, <1>6 DEF Plain
  <2>3. Plain(front)
    BY <2>1, <2>2 DEF Plain
  <2>4. front \o r = s
    <3> DEFINE m == Len(s) - h
    <3>1. m \in 0..Len(s)
      BY <1>1, <1>5, <1>6
    <3> HIDE DEF m
    <3>2. 1 \in 1..(Len(s) + 1) /\ m \in (1 - 1)..Len(s) /\ Len(s) \in m..Len(s)
      BY <1>1, <3>1
    <3>3. SubSeq(s, 1, m) \o SubSeq(s, m + 1, Len(s)) = SubSeq(s, 1, Len(s))
      <4>1. \A one \in 1..(Len(s) + 1) : m \in (one - 1)..Len(s) /\ Len(s) \in m..Len(s)
                => SubSeq(s, one, m) \o SubSeq(s, m + 1, Len(s)) = SubSeq(s, one, Len(s))
        BY <1>1, ConcatAdjacentSubSeq
      <4>2. QED
        BY <3>2, <4>1
    <3>4. SubSeq(s, 1, Len(s)) = s
      BY <1>1, SubSeqFull
    <3>5. QED
      BY <1>6, <3>3, <3>4 DEF m
  <2>5. QED
    BY <2>1, <2>3, <2>4
<1>8. Plain(back) /\ w = front \o back
  <2>1. Plain(back)
    BY <1>5, PlainConcat
  <2>2. front \in Seq(Chars) /\ r \in Seq(Chars)
    BY <1>5, <1>7 DEF Plain
  <2> HIDE DEF front
  <2>3. t \in Seq(Chars)
    BY <1>1
  <2>5. Together(front, r, t)
    BY <2>2, <2>3, ConcatTogether
  <2>6. (front \o r) \o t = front \o (r \o t)
    BY <2>5 DEF Together
  <2>4. QED
    BY <1>7, <2>1, <2>6 DEF w
<1>9. PICK H : Scan(H, back) /\ more = H[1]
  BY <1>8, RedactScan
<1> HIDE DEF front, back, more
<1>10. F[Len(s) - h + 1] = H[1]
  BY <1>3, <1>7, <1>8, <1>9, ScanBehind
<1>11. Redact(w) = u \o more
  BY <1>3, <1>6, <1>9, <1>10
<1>12. more \in Seq(Chars) /\ Redact(w) \in Seq(Chars)
  <2>1. back \in Seq(Chars) /\ w \in Seq(Chars)
    BY <1>1, <1>8 DEF Plain
  <2>2. 1 \in 1..(Len(back) + 1) /\ 1 \in 1..(Len(w) + 1)
    BY <2>1
  <2>3. QED
    BY <1>3, <1>9, <2>2 DEF Scan
\* A beginning of the credential that reached back before the rest would have
\* been held back with it.
<1>13. ASSUME NEW n \in 0..(Len(Secret) - 1), Ends(u \o more, n) PROVE n <= Len(more)
  <2> SUFFICES ASSUME ~(n <= Len(more)) PROVE FALSE
    OBVIOUS
  <2> DEFINE all == u \o more
  <2>1. /\ all \in Seq(Chars) /\ Len(all) = Len(u) + Len(more)
        /\ \A i \in 1..Len(u) + Len(more) : all[i] = IF i <= Len(u) THEN u[i] ELSE more[i - Len(u)]
    BY <1>5, <1>12, ConcatProperties
  <2> HIDE DEF all
  <2>2. n \in Nat /\ Len(u) \in Nat /\ Len(more) \in Nat /\ n <= Len(all) /\ Len(more) < n
    BY <1>1, <1>5, <1>12, <1>13 DEF Ends, all
  <2>3. \A j \in 1..n : all[Len(all) - n + j] = Secret[j]
    BY <1>13 DEF Ends, all
  <2>4. \A k \in 1..Len(more) : more[k] # Marker
    <3> TAKE k \in 1..Len(more)
    <3> DEFINE j == n - Len(more) + k
    <3>1. j \in 1..n /\ j \in 1..Len(Secret) /\ Len(all) - n + j = Len(u) + k
      BY <1>1, <2>1, <2>2
    <3>2. all[Len(u) + k] = more[k]
      <4>1. Len(u) + k \in 1..(Len(u) + Len(more)) /\ ~(Len(u) + k <= Len(u)) /\ Len(u) + k - Len(u) = k
        BY <2>2
      <4>2. QED
        BY <2>1, <4>1
    <3>3. more[k] = Secret[j]
      BY <2>3, <3>1, <3>2
    <3>4. QED
      BY <3>1, <3>3, SecretPlain DEF Plain
  <2>5. more = back
    <3>1. back \in Seq(Chars) /\ Len(back) \in Nat /\ 1 \in 1..(Len(back) + 1)
      BY <1>8 DEF Plain
    <3>2. H[1] = SubSeq(back, 1, Len(back))
      BY <1>8, <1>9, <2>4, <3>1, ScanRaw
    <3>3. QED
      BY <1>9, <3>1, <3>2, SubSeqFull
  <2>6. r \in Seq(Chars) /\ Len(more) = h + Len(t)
    <3>1. r \in Seq(Chars)
      BY <1>5 DEF Plain
    <3>2. Len(r \o t) = Len(r) + Len(t)
      BY <1>1, <3>1, ConcatProperties
    <3>3. QED
      BY <1>5, <2>5, <3>1, <3>2 DEF back
  <2> DEFINE m == n - Len(t)
  <2>7. m \in 0..(Len(Secret) - 1) /\ m > h /\ m <= Len(known) /\ Len(known) = Len(u) + h
    <3>1. Len(known) = Len(u) + Len(r)
      BY <1>5, <2>6, ConcatProperties
    <3>2. Len(all) = Len(u) + (h + Len(t)) /\ n <= Len(all) /\ h + Len(t) < n
      BY <2>1, <2>2, <2>6
    <3>3. n \in 0..(Len(Secret) - 1) /\ Len(u) \in Nat /\ Len(known) = Len(u) + h
      BY <1>5, <2>2, <3>1
    <3> HIDE DEF all
    <3>4. QED
      BY <1>1, <1>5, <3>2, <3>3
  <2>8. Len(all) = Len(known) + Len(t)
    BY <1>1, <1>5, <2>1, <2>6, <2>7
  <2>9. \A i \in 1..Len(known) : all[i] = known[i]
    <3>1. all = known \o t
      <4>1. u \in Seq(Chars) /\ r \in Seq(Chars) /\ t \in Seq(Chars)
        BY <1>1, <1>5, <2>6
      <4>2. Together(u, r, t)
        BY <4>1, ConcatTogether
      <4>3. (u \o r) \o t = u \o (r \o t)
        BY <4>2 DEF Together
      <4>4. QED
        BY <1>5, <2>5, <4>3 DEF all, back
    <3>2. QED
      BY <1>1, <1>4, <3>1
  <2>10. Ends(known, m)
    <3>1. ASSUME NEW j \in 1..m PROVE known[Len(known) - m + j] = Secret[j]
      <4>1. /\ j \in 1..n /\ Len(all) - n + j = Len(known) - m + j
            /\ Len(known) - m + j \in 1..Len(known)
        BY <1>1, <1>5, <2>2, <2>7, <2>8
      <4>2. QED
        BY <2>3, <2>9, <4>1
    <3>2. QED
      BY <2>7, <3>1 DEF Ends
  <2>11. m <= h
    BY <1>4, <2>7, <2>10, HeldLongest DEF h
  <2>12. QED
    BY <1>5, <2>7, <2>11
<1>14. Safe(u \o more) = u \o Safe(more) /\ Rest(u \o more) = Rest(more)
  BY <1>5, <1>12, <1>13, HeldBehind
<1>15. QED
  BY <1>4, <1>11, <1>12, <1>14 DEF w, known, r, u, back, more

\* Nothing to redact.
LEMMA RedactNothing == Redact(<<>>) = <<>> /\ Safe(<<>>) = <<>> /\ Rest(<<>>) = <<>>
<1> DEFINE none == <<>>
<1>1. none \in Seq(Chars) /\ Len(none) = 0 /\ Plain(none)
  BY DEF Plain
<1>2. \A s \in Seq(Chars) : Len(s) = 0 => s = none
  OBVIOUS
<1> HIDE DEF none
<1>3. PICK G : Scan(G, none) /\ Redact(none) = G[1]
  BY <1>1, RedactScan
<1>4. Redact(none) = <<>>
  BY <1>1, <1>3 DEF Scan
<1>5. /\ Safe(none) \in Seq(Chars) /\ Rest(none) \in Seq(Chars)
      /\ Len(Safe(none)) = 0 - Held(none) /\ Len(Rest(none)) = Held(none)
      /\ Held(none) \in 0..(Len(Secret) - 1) /\ Held(none) <= 0
  BY <1>1, SafeAndRest, HeldLongest DEF Plain
<1>6. Len(Safe(none)) = 0 /\ Len(Rest(none)) = 0
  BY <1>5, SecretPlain
<1>7. QED
  BY <1>2, <1>4, <1>5, <1>6 DEF none

(***************************************************************************)
(* What the text of a response does to the log: it adds text.              *)
(***************************************************************************)
Kinds == Terminals \cup {"text"}

\* A run in progress has a log and an exit code, whatever else.
IsRun(run) == {"log", "exitCode"} \subseteq DOMAIN run

\* Nothing but text was reported in between.
OnlyText(old, new) ==
    /\ IsRun(new)
    /\ new.log \in Seq(Kinds) /\ new.exitCode = old.exitCode
    /\ Len(old.log) <= Len(new.log)
    /\ \A i \in 1..Len(old.log) : new.log[i] = old.log[i]
    /\ \A i \in 1..Len(new.log) : i <= Len(old.log) \/ new.log[i] = "text"

LEMMA OnlyTextSelf ==
    ASSUME NEW run, IsRun(run), run.log \in Seq(Kinds)
    PROVE  OnlyText(run, run)
BY DEF OnlyText

LEMMA OnlyTextTwice ==
    ASSUME NEW one, NEW two, NEW three, one.log \in Seq(Kinds),
           OnlyText(one, two), OnlyText(two, three)
    PROVE  OnlyText(one, three)
BY SMTT(20) DEF OnlyText

LEMMA LogTextLonger ==
    ASSUME NEW events \in Seq(Kinds)
    PROVE  LogText(events) = events \/ LogText(events) = Append(events, "text")
BY DEF LogText

LEMMA EmitTextDoes ==
    ASSUME NEW run, IsRun(run), run.log \in Seq(Kinds), NEW s
    PROVE  OnlyText(run, EmitText(run, s))
<1>1. CASE s = <<>>
  BY <1>1, OnlyTextSelf DEF EmitText
<1>2. CASE s # <<>>
  <2> DEFINE emitted == EmitText(run, s)
             events == run.log
  <2>1. IsRun(emitted) /\ emitted.log = LogText(run.log) /\ emitted.exitCode = run.exitCode
    BY <1>2 DEF EmitText, IsRun
  <2>2. CASE emitted.log = events
    BY <2>1, <2>2 DEF OnlyText
  <2>3. CASE emitted.log = Append(events, "text")
    <3>1. /\ emitted.log \in Seq(Kinds) /\ Len(emitted.log) = Len(events) + 1
          /\ \A i \in 1..Len(events) : emitted.log[i] = events[i]
          /\ emitted.log[Len(events) + 1] = "text"
      <4>1. "text" \in Kinds
        BY DEF Kinds
      <4>2. QED
        BY <2>3, <4>1
    <3>2. QED
      BY <2>1, <3>1 DEF OnlyText
  <2>4. QED
    BY <2>1, <2>2, <2>3, LogTextLonger
<1>3. QED
  BY <1>1, <1>2

LEMMA PushDoes ==
    ASSUME NEW run, IsRun(run), run.log \in Seq(Kinds), NEW delta
    PROVE  OnlyText(run, Push(run, delta))
<1> DEFINE redacted == Redact(run.pending \o delta)
           rest == Rest(redacted)
           got == run.received \o delta
           kept == [run EXCEPT !.received = got, !.pending = rest]
<1>1. Push(run, delta) = EmitText(kept, Safe(redacted))
  BY DEF Push
<1> HIDE DEF redacted, rest, got
<1>2. IsRun(kept) /\ kept.log = run.log /\ kept.exitCode = run.exitCode
  BY DEF IsRun
<1> HIDE DEF kept
<1>3. OnlyText(kept, Push(run, delta))
  BY <1>1, <1>2, EmitTextDoes
<1>4. QED
  BY <1>2, <1>3 DEF OnlyText

LEMMA FinalizeDoes ==
    ASSUME NEW run, IsRun(run), run.log \in Seq(Kinds)
    PROVE  OnlyText(run, Finalize(run))
<1> DEFINE kept == [run EXCEPT !.pending = <<>>]
<1>1. Finalize(run) = EmitText(kept, FinalTail(run.pending))
  BY DEF Finalize
<1>2. IsRun(kept) /\ kept.log = run.log /\ kept.exitCode = run.exitCode
  BY DEF IsRun
<1> HIDE DEF kept
<1>3. OnlyText(kept, Finalize(run))
  BY <1>1, <1>2, EmitTextDoes
<1>4. QED
  BY <1>2, <1>3 DEF OnlyText

\* The events of a chunk, one by one.
LEMMA DeliverStep ==
    ASSUME NEW items, Len(items) \in Nat
    PROVE  \E f : /\ f[0] = Run /\ Deliver(items) = f[Len(items)]
                  /\ \A i \in 1..Len(items) : f[i] = Push(f[i - 1], items[i].delta)
<1> DEFINE n == Len(items)
           Is(g, k) == g = [i \in 0..k |-> IF i = 0 THEN Run
                                            ELSE Push(g[i - 1], items[i].delta)]
           Missing == {k \in Nat : ~ \E g : Is(g, k)}
<1>1. Missing = {}
  <2> SUFFICES ASSUME Missing # {} PROVE FALSE
    OBVIOUS
  <2>1. Missing \in SUBSET Nat
    OBVIOUS
  <2> HIDE DEF Is
  <2>2. PICK k \in Missing : \A j \in Missing : k <= j
    BY <2>1, LeastElement
  <2>3. k # 0
    <3>1. Is([i \in 0..0 |-> Run], 0)
      BY DEF Is
    <3>2. QED
      BY <3>1
  <2>4. k \in Nat /\ k - 1 \in Nat /\ k - 1 \notin Missing
    BY <2>2, <2>3
  <2>5. PICK g : Is(g, k - 1)
    BY <2>4
  <2> DEFINE h == [i \in 0..k |-> IF i < k THEN g[i] ELSE Push(g[k - 1], items[k].delta)]
  <2>6. /\ g[0] = Run
        /\ \A i \in 0..(k - 1) : i = 0 \/ g[i] = Push(g[i - 1], items[i].delta)
    BY <2>4, <2>5 DEF Is
  <2>7. \A i \in 0..k : h[i] = IF i = 0 THEN Run ELSE Push(h[i - 1], items[i].delta)
    <3> TAKE i \in 0..k
    <3>1. CASE i = 0
      BY <2>3, <2>4, <2>6, <3>1
    <3>2. CASE i # 0 /\ i < k
      <4>1. h[i] = g[i] /\ h[i - 1] = g[i - 1] /\ g[i] = Push(g[i - 1], items[i].delta)
        BY <2>4, <2>6, <3>2
      <4>2. QED
        BY <3>2, <4>1
    <3>3. CASE i = k
      <4>1. h[k] = Push(g[k - 1], items[k].delta) /\ h[k - 1] = g[k - 1]
        BY <2>3, <2>4
      <4>2. QED
        BY <2>3, <3>3, <4>1
    <3>4. QED
      BY <2>4, <3>1, <3>2, <3>3
  <2>8. h = [i \in 0..k |-> h[i]]
    OBVIOUS
  <2> HIDE DEF h
  <2>9. Is(h, k)
    BY <2>7, <2>8 DEF Is
  <2>10. QED
    BY <2>2, <2>9
<1>2. \E g : Is(g, n)
  BY <1>1
<1> DEFINE f == CHOOSE g : Is(g, n)
<1>3. Is(f, n)
  BY <1>2
<1>4. Deliver(items) = f[n]
  BY DEF Deliver
<1> HIDE DEF f
<1>5. QED
  <2>1. /\ f[0] = Run
        /\ \A i \in 1..n : f[i] = Push(f[i - 1], items[i].delta)
    BY <1>3
  <2>2. QED
    BY <1>4, <2>1

LEMMA RunIsRun == IsRun(Run) /\ Run.log = log /\ Run.exitCode = exitCode
BY DEF IsRun, Run

LEMMA DeliverDoes ==
    ASSUME log \in Seq(Kinds), NEW items, Len(items) \in Nat
    PROVE  OnlyText(Run, Deliver(items))
<1> DEFINE n == Len(items)
<1>1. PICK f : /\ f[0] = Run /\ Deliver(items) = f[n]
               /\ \A i \in 1..n : f[i] = Push(f[i - 1], items[i].delta)
  BY DeliverStep
<1> DEFINE Wrong == {i \in 0..n : ~OnlyText(Run, f[i])}
<1>2. Wrong = {}
  <2> SUFFICES ASSUME Wrong # {} PROVE FALSE
    OBVIOUS
  <2>1. Wrong \in SUBSET Nat
    OBVIOUS
  <2>2. PICK i \in Wrong : \A j \in Wrong : i <= j
    BY <2>1, LeastElement
  <2>3. i # 0
    BY <1>1, RunIsRun, OnlyTextSelf
  <2>4. i \in 1..n /\ i - 1 \in 0..n /\ i - 1 \notin Wrong
    BY <2>2, <2>3
  <2>5. OnlyText(Run, f[i - 1]) /\ f[i] = Push(f[i - 1], items[i].delta)
    BY <1>1, <2>4
  <2>6. IsRun(f[i - 1]) /\ f[i - 1].log \in Seq(Kinds)
    BY <2>5 DEF OnlyText
  <2>7. OnlyText(f[i - 1], f[i])
    BY <2>5, <2>6, PushDoes
  <2>8. OnlyText(Run, f[i])
    BY <2>5, <2>7, RunIsRun, OnlyTextTwice
  <2>9. QED
    BY <2>2, <2>8
<1>3. OnlyText(Run, f[n])
  BY <1>2
<1>4. QED
  BY <1>1, <1>3

(***************************************************************************)
(* What is reported of the end of a run.                                   *)
(***************************************************************************)
\* The one report among these events is how.
OneReport(events, how) ==
    /\ events \in Seq(Kinds)
    /\ \E i \in 1..Len(events) : Reports(events) = {i} /\ events[i] = how

LastReport(events) == Reports(events) \subseteq {Len(events)}

LEMMA TextReports ==
    ASSUME NEW old, NEW new, old.log \in Seq(Kinds), OnlyText(old, new)
    PROVE  /\ Reports(new.log) = Reports(old.log)
           /\ \A how : OneReport(old.log, how) => OneReport(new.log, how)
<1>1. "text" \notin Terminals
  BY DEF Terminals
<1>2. Reports(new.log) = Reports(old.log)
  BY <1>1 DEF Reports, OnlyText
<1>3. QED
  BY <1>2 DEF OneReport, OnlyText

LEMMA ReportDoes ==
    ASSUME NEW run, IsRun(run), run.log \in Seq(Kinds), NEW event \in Terminals
    PROVE  /\ IsRun(Report(run, event))
           /\ Report(run, event).log = Append(run.log, event)
           /\ consumer = "cli" => Report(run, event).exitCode = ExitCode[event]
           /\ Reports(run.log) = {} => /\ OneReport(Report(run, event).log, event)
                                       /\ LastReport(Report(run, event).log)
<1>1. /\ IsRun(Report(run, event)) /\ Report(run, event).log = Append(run.log, event)
      /\ consumer = "cli" => Report(run, event).exitCode = ExitCode[event]
  BY DEF Report, IsRun
<1> DEFINE events == run.log
           longer == Append(events, event)
<1>2. /\ longer \in Seq(Kinds) /\ Len(longer) = Len(events) + 1 /\ Len(events) \in Nat
      /\ \A i \in 1..Len(events) : longer[i] = events[i]
      /\ longer[Len(events) + 1] = event
  BY DEF Kinds
<1> HIDE DEF longer
<1>3. Reports(events) = {} => Reports(longer) = {Len(events) + 1}
  BY <1>2 DEF Reports
<1>4. Reports(events) = {} => OneReport(longer, event) /\ LastReport(longer)
  BY <1>2, <1>3 DEF OneReport, LastReport
<1>5. QED
  BY <1>1, <1>4 DEF longer

LEMMA CompletedDoes ==
    ASSUME NEW run, IsRun(run), run.log \in Seq(Kinds), Reports(run.log) = {}
    PROVE  /\ IsRun(Completed(run)) /\ OneReport(Completed(run).log, "completed")
           /\ OneReport(Finalize(Completed(run)).log, "completed")
<1>1. /\ IsRun(Completed(run)) /\ OneReport(Completed(run).log, "completed")
  BY ReportDoes DEF Completed, Terminals
<1>2. Completed(run).log \in Seq(Kinds)
  BY <1>1 DEF OneReport
<1>3. OnlyText(Completed(run), Finalize(Completed(run)))
  BY <1>1, <1>2, FinalizeDoes
<1>4. OneReport(Finalize(Completed(run)).log, "completed")
  BY <1>1, <1>2, <1>3, TextReports
<1>5. QED
  BY <1>1, <1>4

LEMMA FailedDoes ==
    ASSUME NEW run, IsRun(run), run.log \in Seq(Kinds), Reports(run.log) = {},
           consumer \in {"tui", "cli"}
    PROVE  /\ OneReport(Failed(run).log, Failure)
           /\ consumer = "tui" => LastReport(Failed(run).log)
           /\ consumer = "cli" => Failed(run).exitCode = IF userAborted THEN 130 ELSE 1
<1>1. Failure \in Terminals /\ ExitCode[Failure] = IF userAborted THEN 130 ELSE 1
  BY DEF Failure, Terminals, ExitCode
<1>2. CASE consumer = "tui"
  <2>1. OnlyText(run, Finalize(run)) /\ Reports(Finalize(run).log) = {}
    BY FinalizeDoes, TextReports
  <2>2. Failed(run) = Report(Finalize(run), Failure)
    BY <1>2 DEF Failed
  <2>3. IsRun(Finalize(run)) /\ Finalize(run).log \in Seq(Kinds)
    BY <2>1 DEF OnlyText
  <2>4. OneReport(Failed(run).log, Failure) /\ LastReport(Failed(run).log)
    BY <1>1, <2>1, <2>2, <2>3, ReportDoes
  <2>5. QED
    BY <1>2, <2>4
<1>3. CASE consumer = "cli"
  <2> DEFINE told == Report(run, Failure)
  <2>1. /\ IsRun(told) /\ OneReport(told.log, Failure)
        /\ told.exitCode = ExitCode[Failure]
    BY <1>1, <1>3, ReportDoes
  <2>2. Failed(run) = Finalize(told)
    BY <1>3 DEF Failed
  <2> HIDE DEF told
  <2>3. told.log \in Seq(Kinds)
    BY <2>1 DEF OneReport
  <2>4. OnlyText(told, Failed(run))
    BY <2>1, <2>2, <2>3, FinalizeDoes
  <2>5. OneReport(Failed(run).log, Failure) /\ Failed(run).exitCode = told.exitCode
    BY <2>1, <2>3, <2>4, TextReports DEF OnlyText
  <2>6. QED
    BY <1>1, <1>3, <2>1, <2>5
<1>4. QED
  BY <1>2, <1>3

(***************************************************************************)
(* The inductive invariant: which waits a verdict goes with, what was      *)
(* reported by then, and where the body may still be open.                 *)
(***************************************************************************)
Waits == {"starting", "selecting", "requesting", "streaming", "collecting"}

Typed ==
    /\ consumer \in {"tui", "cli"} /\ userAborted \in BOOLEAN
    /\ stage \in Stages /\ log \in Seq(Kinds)

Verdicts ==
    \/ stage \in Waits /\ verdict = "none"
    \/ stage = "closing" /\ verdict \in {"completed", "failed"}
    \/ stage = "ended" /\ verdict \in {"completed", "failed", "refused"}

Reported ==
    /\ verdict = "completed" => OneReport(log, "completed")
    /\ verdict = "failed" /\ Ended =>
           /\ OneReport(log, Failure)
           /\ consumer = "tui" => LastReport(log)
           /\ consumer = "cli" => exitCode = IF userAborted THEN 130 ELSE 1
    /\ verdict \in {"none", "refused"} \/ (verdict = "failed" /\ ~Ended) => Reports(log) = {}

BodyHeld == body = "open" => stage \in {"streaming", "collecting", "closing"}

IInv == Typed /\ Verdicts /\ Reported /\ BodyHeld

LEMMA InitIInv == Init => IInv
<1> SUFFICES ASSUME Init PROVE IInv
  OBVIOUS
<1>1. log = <<>> /\ verdict = "none" /\ stage = "starting" /\ body = "none"
      /\ consumer \in {"tui", "cli"} /\ userAborted = FALSE
  BY DEF Init
<1>2. Reports(log) = {} /\ log \in Seq(Kinds)
  BY <1>1 DEF Reports
<1>3. QED
  BY <1>1, <1>2 DEF IInv, Typed, Verdicts, Reported, BodyHeld, Stages, Waits, Ended

\* A step into an end without a response, or with one cut short.
LEMMA FailsEnding ==
    ASSUME IInv, Reports(log) = {}, Becomes(Failed(Run)), UNCHANGED <<consumer, userAborted>>,
           stage' = "ended", verdict' = "failed", body' # "open"
    PROVE  IInv'
<1>1. /\ OneReport(Failed(Run).log, Failure)
      /\ consumer = "tui" => LastReport(Failed(Run).log)
      /\ consumer = "cli" => Failed(Run).exitCode = IF userAborted THEN 130 ELSE 1
  BY RunIsRun, FailedDoes DEF IInv, Typed
<1>2. log' = Failed(Run).log /\ exitCode' = Failed(Run).exitCode /\ Failure' = Failure
  BY DEF Becomes, Failure
<1>3. Typed'
  BY <1>1, <1>2 DEF IInv, Typed, OneReport, Stages, Kinds
<1>4. Reported'
  <2>1. OneReport(log', Failure') /\ (consumer' = "tui" => LastReport(log'))
    BY <1>1, <1>2
  <2>2. consumer' = "cli" => exitCode' = IF userAborted' THEN 130 ELSE 1
    BY <1>1, <1>2
  <2>3. verdict' = "failed" /\ Ended'
    BY DEF Ended
  <2>4. QED
    BY <2>1, <2>2, <2>3 DEF Reported, OneReport, LastReport, Reports, Terminals
<1>5. Verdicts' /\ BodyHeld'
  BY DEF Verdicts, BodyHeld
<1>6. QED
  BY <1>3, <1>4, <1>5 DEF IInv

\* A step that reports nothing but text.
LEMMA TextOnly ==
    ASSUME IInv, NEW run, OnlyText(Run, run), log' = run.log, exitCode' = run.exitCode,
           UNCHANGED <<consumer, userAborted>>, verdict \in {"none", "completed"},
           verdict' = verdict \/ (verdict = "none" /\ verdict' = "failed" /\ stage' = "closing"),
           stage' \in Stages, Verdicts', BodyHeld'
    PROVE  IInv'
<1>1. /\ Reports(log') = Reports(log) /\ log' \in Seq(Kinds)
      /\ \A how : OneReport(log, how) => OneReport(log', how)
  BY RunIsRun, TextReports DEF IInv, Typed, OnlyText
<1>2. Typed'
  BY <1>1 DEF IInv, Typed, Kinds, Terminals
<1>3. Reported'
  <2>1. verdict' = "completed" => OneReport(log', "completed")
    BY <1>1 DEF IInv, Reported
  <2>2. ~(verdict' = "failed" /\ Ended')
    BY DEF Ended
  <2>3. verdict' # "completed" => Reports(log') = {}
    BY <1>1 DEF IInv, Reported
  <2>4. QED
    BY <2>1, <2>2, <2>3 DEF Reported, OneReport, Reports, Terminals, Kinds
<1>4. QED
  BY <1>2, <1>3 DEF IInv

\* A step that reports the end of a completed response.
LEMMA CompletesEnding ==
    ASSUME IInv, OneReport(log', "completed"), UNCHANGED <<consumer, userAborted>>,
           stage' \in {"closing", "ended"}, verdict' = "completed",
           body' = "open" => stage' = "closing"
    PROVE  IInv'
<1>1. Typed'
  BY DEF IInv, Typed, OneReport, Stages, Kinds, Terminals
<1>2. Reported'
  BY DEF Reported, OneReport, Reports, Terminals, Kinds
<1>3. Verdicts' /\ BodyHeld'
  BY DEF Verdicts, BodyHeld
<1>4. QED
  BY <1>1, <1>2, <1>3 DEF IInv

\* A step that reports nothing, between two waits or of a signal.
LEMMA SilentStep ==
    ASSUME IInv, UNCHANGED <<consumer, userAborted, log, exitCode>>,
           stage' \in Stages, Verdicts', BodyHeld',
           verdict' = verdict /\ (Ended' <=> Ended)
    PROVE  IInv'
BY DEF IInv, Typed, Reported, Ended, Failure, OneReport, LastReport, Reports

\* The texts of what is taken of a chunk.
LEMMA TakenTexts ==
    ASSUME NEW n \in Nat, n >= 1, NEW items \in [1..n -> Items]
    PROVE  /\ Len(Taken(items)) \in Nat
           /\ \A i \in 1..Len(Taken(items)) : Plain(Taken(items)[i].delta)
<1> DEFINE ends == {i \in DOMAIN items : items[i].kind # "text"}
           last == IF ends = {} THEN Len(items) ELSE CHOOSE i \in ends : \A j \in ends : i <= j
<1>1. items \in Seq(Items) /\ Len(items) = n
  BY FunctionIsSeq
<1>2. last \in 1..n
  <2>1. CASE ends = {}
    BY <1>1, <2>1
  <2>2. CASE ends # {}
    <3>1. ends \in SUBSET Nat
      OBVIOUS
    <3>2. \E m \in ends : \A j \in ends : m <= j
      BY <2>2, <3>1, LeastElement
    <3>3. QED
      BY <2>2, <3>2
  <2>3. QED
    BY <2>1, <2>2
<1>3. Taken(items) = SubSeq(items, 1, last)
  BY DEF Taken
<1> HIDE DEF last
<1>4. Len(Taken(items)) = last /\ \A i \in 1..last : Taken(items)[i] = items[i]
  BY <1>1, <1>2, <1>3
<1>5. \A item \in Items : item.delta \in Deltas \cup Fragments \cup {<<>>}
  BY DEF Items, Texts
<1>6. ASSUME NEW i \in 1..last PROVE Plain(Taken(items)[i].delta)
  <2>1. Taken(items)[i] \in Items
    BY <1>1, <1>2, <1>4
  <2>2. QED
    BY <1>5, <2>1, DeltaPlain
<1>7. QED
  BY <1>2, <1>4, <1>6

LEMMA NextIInv == IInv /\ [Next]_vars => IInv'
<1> SUFFICES ASSUME IInv, [Next]_vars PROVE IInv'
  OBVIOUS
<1>1. Typed /\ Verdicts /\ Reported /\ BodyHeld
  BY DEF IInv
<1>2. CASE UserAborts
  <2>1. /\ stage # "ended" /\ userAborted' \in BOOLEAN
        /\ UNCHANGED <<consumer, stage, body, verdict, log, exitCode>>
    BY <1>2 DEF UserAborts, output
  <2>2. Verdicts' /\ BodyHeld'
    BY <1>1, <2>1 DEF Verdicts, BodyHeld
  <2>3. Typed' /\ Reported'
    BY <1>1, <2>1 DEF Typed, Reported, Ended, OneReport, Reports
  <2>4. QED
    BY <2>2, <2>3 DEF IInv
<1>3. CASE Timeout \/ UNCHANGED vars
  <2>1. UNCHANGED <<consumer, userAborted, stage, body, verdict, log, exitCode>>
    BY <1>3 DEF Timeout, output, vars
  <2>2. Verdicts' /\ BodyHeld' /\ stage' \in Stages /\ (Ended' <=> Ended)
    BY <1>1, <2>1 DEF Verdicts, BodyHeld, Typed, Ended
  <2>3. QED
    BY <2>1, <2>2, SilentStep
<1>4. CASE Refused
  <2>1. /\ stage = "starting" /\ stage' = "ended" /\ verdict' = "refused"
        /\ UNCHANGED <<consumer, userAborted, body, log>>
    BY <1>4 DEF Refused
  <2>2. verdict = "none"
    BY <1>1, <2>1 DEF Verdicts, Waits
  <2>3. Typed' /\ Reported'
    BY <1>1, <2>1, <2>2 DEF Typed, Reported, Ended, Stages, Reports
  <2>4. Verdicts' /\ BodyHeld'
    BY <1>1, <2>1 DEF Verdicts, BodyHeld
  <2>5. QED
    BY <2>3, <2>4 DEF IInv
<1>5. ASSUME stage \in Waits, EndsEarly, body' # "open" PROVE IInv'
  <2>1. Reports(log) = {}
    BY <1>1, <1>5 DEF Verdicts, Reported, Waits
  <2>2. QED
    BY <1>5, <2>1, FailsEnding DEF EndsEarly
<1>6. ASSUME stage \in Waits, stage' \in Waits, verdict' = verdict,
             UNCHANGED <<consumer, userAborted, log, exitCode>>,
             body' = "open" => stage' \in {"streaming", "collecting"}
      PROVE  IInv'
  <2>1. Verdicts' /\ BodyHeld' /\ stage' \in Stages /\ (Ended' <=> Ended)
    BY <1>1, <1>6 DEF Verdicts, BodyHeld, Ended, Stages, Waits
  <2>2. QED
    BY <1>6, <2>1, SilentStep
<1>7. CASE Start \/ SelectionReturns \/ ResponseStarts
  <2>1. stage \in {"starting", "selecting", "requesting"} /\ body # "open"
    BY <1>1, <1>7 DEF Start, SelectionReturns, ResponseStarts, BodyHeld
  <2>2. CASE EndsEarly
    <3>1. body' # "open"
      BY <1>7, <2>1, <2>2 DEF Start, SelectionReturns, ResponseStarts, EndsEarly
    <3>2. QED
      BY <1>5, <2>1, <2>2, <3>1 DEF Waits
  <2>3. CASE ~EndsEarly
    <3>1. /\ stage' \in Waits /\ verdict' = verdict
          /\ UNCHANGED <<consumer, userAborted, log, exitCode>>
          /\ body' = "open" => stage' \in {"streaming", "collecting"}
      BY <1>7, <2>1, <2>3 DEF Start, SelectionReturns, ResponseStarts, output, Waits
    <3>2. QED
      BY <1>6, <2>1, <3>1 DEF Waits
  <2>4. QED
    BY <2>2, <2>3
<1>8. ASSUME NEW n \in Nat, n >= 1, NEW items \in [1..n -> Items], ChunkArrives(items)
      PROVE  IInv'
  <2> DEFINE taken == Taken(items)
             run == Deliver(taken)
  <2>1. stage = "streaming" /\ verdict = "none" /\ Reports(log) = {}
    BY <1>1, <1>8 DEF ChunkArrives, Verdicts, Reported, Waits
  <2>2. OnlyText(Run, run)
    <3>1. Len(taken) \in Nat
      BY <1>8, TakenTexts
    <3> HIDE DEF taken
    <3>2. QED
      BY <1>1, <3>1, DeliverDoes DEF Typed
  <2>3. /\ UNCHANGED <<consumer, userAborted, body>>
        /\ \/ Becomes(run) /\ UNCHANGED <<stage, verdict>>
           \/ Becomes(Completed(run)) /\ stage' = "closing" /\ verdict' = "completed"
           \/ Becomes(run) /\ stage' = "closing" /\ verdict' = "failed"
    BY <1>8 DEF ChunkArrives
  <2> HIDE DEF run, taken
  <2>4. CASE Becomes(run) /\ (UNCHANGED <<stage, verdict>>
                              \/ (stage' = "closing" /\ verdict' = "failed"))
    <3>1. Verdicts' /\ BodyHeld' /\ stage' \in Stages
      BY <1>1, <2>1, <2>3, <2>4 DEF Verdicts, BodyHeld, Stages, Waits
    <3>2. log' = run.log /\ exitCode' = run.exitCode
      BY <2>4 DEF Becomes
    <3>3. QED
      BY <2>1, <2>2, <2>3, <2>4, <3>1, <3>2, TextOnly
  <2>5. CASE Becomes(Completed(run)) /\ stage' = "closing" /\ verdict' = "completed"
    <3>1. IsRun(run) /\ run.log \in Seq(Kinds) /\ Reports(run.log) = {}
      BY <1>1, <2>1, <2>2, RunIsRun, TextReports DEF OnlyText, Typed
    <3>2. OneReport(log', "completed")
      BY <2>5, <3>1, CompletedDoes DEF Becomes
    <3>3. QED
      BY <2>3, <2>5, <3>2, CompletesEnding
  <2>6. QED
    BY <2>3, <2>4, <2>5
<1>9. CASE StreamBreaks
  <2>1. /\ stage = "streaming" /\ stage' = "closing" /\ verdict' = "failed"
        /\ UNCHANGED <<consumer, userAborted, body, log, exitCode>>
    BY <1>9 DEF StreamBreaks, output
  <2>2. verdict = "none"
    BY <1>1, <2>1 DEF Verdicts, Waits
  <2>3. Typed' /\ Reported'
    BY <1>1, <2>1, <2>2 DEF Typed, Reported, Ended, Stages, Reports
  <2>4. Verdicts' /\ BodyHeld'
    BY <2>1 DEF Verdicts, BodyHeld
  <2>5. QED
    BY <2>3, <2>4 DEF IInv
<1>10. CASE StreamEnds \/ CollectFails
  <2>1. stage \in Waits /\ EndsEarly /\ body' # "open"
    BY <1>10 DEF StreamEnds, CollectFails, Waits
  <2>2. QED
    BY <1>5, <2>1
<1>11. CASE Close
  <2>1. /\ stage = "closing" /\ stage' = "ended" /\ body' = "cancelled"
        /\ UNCHANGED <<consumer, userAborted, verdict>>
    BY <1>11 DEF Close, CloseStream
  <2>2. CASE verdict = "completed"
    <3>1. log' = Finalize(Run).log
      BY <1>11, <2>2 DEF Close, Becomes
    <3>2. OnlyText(Run, Finalize(Run)) /\ OneReport(Run.log, "completed")
          /\ Run.log \in Seq(Kinds)
      BY <1>1, <2>2, RunIsRun, FinalizeDoes DEF Typed, Reported
    <3>3. OneReport(log', "completed")
      BY <3>1, <3>2, TextReports
    <3>4. QED
      BY <2>1, <2>2, <3>3, CompletesEnding
  <2>3. CASE verdict = "failed"
    <3>1. Reports(log) = {}
      BY <1>1, <2>1, <2>3 DEF Reported, Ended
    <3>2. Becomes(Failed(Run))
      BY <1>11, <2>3 DEF Close
    <3>3. QED
      BY <2>1, <2>3, <3>1, <3>2, FailsEnding
  <2>4. QED
    BY <1>1, <2>1, <2>2, <2>3 DEF Verdicts, Waits
<1>12. ASSUME NEW delta, CollectCompletes(delta) PROVE IInv'
  <2>1. /\ stage = "collecting" /\ stage' = "ended" /\ body' = "ended"
        /\ verdict' = "completed" /\ UNCHANGED <<consumer, userAborted>>
        /\ log' = Finalize(Completed(Push(Run, delta))).log
    BY <1>12 DEF CollectCompletes, Becomes
  <2>2. Reports(log) = {}
    BY <1>1, <2>1 DEF Verdicts, Reported, Waits
  <2>3. OnlyText(Run, Push(Run, delta))
    BY <1>1, RunIsRun, PushDoes DEF Typed
  <2>4. IsRun(Push(Run, delta)) /\ Push(Run, delta).log \in Seq(Kinds)
        /\ Reports(Push(Run, delta).log) = {}
    BY <1>1, <2>2, <2>3, RunIsRun, TextReports DEF OnlyText, Typed
  <2>5. OneReport(log', "completed")
    BY <2>1, <2>4, CompletedDoes
  <2>6. QED
    BY <2>1, <2>5, CompletesEnding
<1>13. QED
  <2>1. ASSUME NEW n \in 1..(IF consumer = "tui" THEN MaxChunk ELSE 1)
        PROVE  n \in Nat /\ n >= 1
    BY RunAssumption
  <2>2. QED
    BY <1>2, <1>3, <1>4, <1>7, <1>8, <1>9, <1>10, <1>11, <1>12, <2>1 DEF Next

LEMMA Invariant == Spec => []IInv
<1>1. QED
  BY InitIInv, NextIInv, PTL DEF Spec

(***************************************************************************)
(* A run is reported to have ended exactly once, in whatever order the     *)
(* user's abort, the timeouts, the chunks and the end of the stream come   *)
(* (runChat, Harness.run), for any texts, credential and length.           *)
(***************************************************************************)
THEOREM RunEndsOnce == Spec => []EndsOnce
<1>1. IInv => EndsOnce
  <2> SUFFICES ASSUME IInv PROVE EndsOnce
    OBVIOUS
  <2>1. Typed /\ Verdicts /\ Reported
    BY DEF IInv
  <2>2. ASSUME NEW how, OneReport(log, how)
        PROVE  /\ \E i \in Reports(log) : Reports(log) = {i}
               /\ \A i \in Reports(log) : log[i] = how
    BY <2>2 DEF OneReport
  <2>3. CASE verdict = "completed"
    <3>1. OneReport(log, "completed")
      BY <2>1, <2>3 DEF Reported
    <3>2. \A i \in DOMAIN log : log[i] \notin {"error", "cancelled"}
      BY <2>2, <3>1 DEF Reports, Terminals
    <3>3. QED
      BY <2>2, <2>3, <3>1, <3>2 DEF EndsOnce
  <2>4. CASE Ended /\ verdict = "failed"
    <3>1. OneReport(log, Failure) /\ (consumer = "tui" => LastReport(log))
      BY <2>1, <2>4 DEF Reported
    <3>2. consumer = "tui" =>
              \A i \in DOMAIN log : log[i] \in {"error", "cancelled"} => i = Len(log)
      BY <3>1 DEF LastReport, Reports, Terminals
    <3>3. QED
      BY <2>2, <2>4, <3>1, <3>2 DEF EndsOnce
  <2>5. CASE verdict # "completed" /\ ~(Ended /\ verdict = "failed")
    <3>1. Reports(log) = {}
      BY <2>1, <2>5 DEF Reported, Verdicts, Ended
    <3>2. QED
      BY <2>5, <3>1 DEF EndsOnce, Reports, Terminals
  <2>6. QED
    BY <2>3, <2>4, <2>5
<1>2. QED
  BY <1>1, Invariant, PTL

(***************************************************************************)
(* However a run ends, its connection is given back: the finally of        *)
(* parseSse and of readLimitedText is on every way out.                    *)
(***************************************************************************)
THEOREM BodyGivenBack == Spec => []BodyReleased
<1>1. IInv => BodyReleased
  BY DEF IInv, BodyHeld, BodyReleased, Ended
<1>2. QED
  BY <1>1, Invariant, PTL

(***************************************************************************)
(* The user's abort explains the failure of a run it came before, and no   *)
(* other run is reported as cancelled (Harness.run's catch, runChat).      *)
(***************************************************************************)
THEOREM AbortsAreCancellations == Spec => []AbortIsCancellation
<1>1. IInv => AbortIsCancellation
  <2> SUFFICES ASSUME IInv, Ended, verdict = "failed" PROVE
                   /\ ("cancelled" \in ToSet(log)) = userAborted
                   /\ consumer = "cli" => exitCode = (IF userAborted THEN 130 ELSE 1)
    BY DEF AbortIsCancellation
  <2>1. /\ OneReport(log, Failure) /\ userAborted \in BOOLEAN
        /\ consumer = "cli" => exitCode = IF userAborted THEN 130 ELSE 1
    BY DEF IInv, Typed, Reported
  <2>2. "cancelled" \in ToSet(log) <=> Failure = "cancelled"
    BY <2>1 DEF OneReport, ToSet, Reports, Terminals
  <2>3. Failure = "cancelled" <=> userAborted
    BY DEF Failure
  <2> DEFINE said == "cancelled" \in ToSet(log)
  <2>4. said \in BOOLEAN /\ (said <=> userAborted)
    BY <2>2, <2>3
  <2> HIDE DEF said
  <2>5. said = userAborted
    BY <2>1, <2>4
  <2>6. QED
    BY <2>1, <2>5 DEF said
<1>2. QED
  BY <1>1, Invariant, PTL

\* What a selection that resolves says of the catalog it was looked up in.
LEMMA ResolvedRow ==
    ASSUME NEW rows, NEW wanted, NEW provider,
           Resolves(provider, rows, wanted)
    PROVE  \E i \in DOMAIN rows :
               LET row == rows[i] request == Request(wanted) IN
               /\ row.id = request.model
               /\ \A j \in DOMAIN rows : rows[j].id = request.model => j = i
               /\ provider = "openrouter" => row.status # "unavailable"
               /\ request.effort # {} =>
                      /\ provider = "openrouter" /\ row.reasoning
                      /\ \/ request.effort \subseteq row.efforts
                         \/ request.effort = {"none"} /\ "off" \in row.efforts
<1> DEFINE models == discoverModels(provider, rows)
           valid == {i \in DOMAIN rows : WellFormed(rows[i])}
<1>1. /\ DOMAIN models = valid
      /\ \A i \in valid : models[i] = IF provider = "openrouter" THEN normalizeModel(rows[i])
                                      ELSE configuredModel(rows[i])
  BY DEF discoverModels
<1>2. \A i \in valid : models[i].id = rows[i].id
  BY <1>1 DEF normalizeModel, configuredModel
<1>3. PICK i \in valid :
          /\ Unambiguous(models)
          /\ models[i].id = wanted.model
          /\ models[i].status # "unavailable"
          /\ ReasoningResolves(provider, models[i], wanted.intent)
  BY <1>1 DEF Resolves
<1>4. Request(wanted).model = wanted.model /\ Request(wanted).effort = Effort(wanted.intent)
  BY DEF Request
<1>5. rows[i].id = wanted.model
      /\ \A j \in DOMAIN rows : rows[j].id = wanted.model => j = i
  <2>1. \A j \in DOMAIN rows : rows[j].id = wanted.model => j \in valid
    BY <1>2, <1>3 DEF WellFormed
  <2>2. QED
    BY <1>1, <1>2, <1>3, <2>1 DEF Unambiguous
<1>6. provider = "openrouter" => models[i] = normalizeModel(rows[i])
  BY <1>1
<1>7. provider = "openrouter" => rows[i].status # "unavailable"
  BY <1>3, <1>6 DEF normalizeModel
<1>8. ASSUME Effort(wanted.intent) # {}
      PROVE  /\ provider = "openrouter" /\ rows[i].reasoning
             /\ \/ Effort(wanted.intent) \subseteq rows[i].efforts
                \/ Effort(wanted.intent) = {"none"} /\ "off" \in rows[i].efforts
  <2>1. wanted.intent # "auto"
    BY <1>8 DEF Effort
  <2>2. provider = "openrouter" /\ models[i].reasoning.supported
        /\ wanted.intent \in models[i].reasoning.intents
    BY <1>3, <2>1 DEF ReasoningResolves
  <2>3. models[i].reasoning = normalizeReasoning(rows[i])
    BY <1>6, <2>2 DEF normalizeModel
  <2>4. rows[i].reasoning
        /\ wanted.intent \in UNION {nativeIntent(value) : value \in rows[i].efforts}
    BY <2>2, <2>3 DEF normalizeReasoning
  <2>5. PICK value \in rows[i].efforts : wanted.intent \in nativeIntent(value)
    BY <2>4
  <2>6. CASE value = "none"
    BY <2>2, <2>4, <2>5, <2>6 DEF nativeIntent, Effort
  <2>7. CASE value # "none"
    BY <2>1, <2>2, <2>4, <2>5, <2>7 DEF nativeIntent, Effort
  <2>8. QED
    BY <2>6, <2>7
<1>9. QED
  BY <1>4, <1>5, <1>7, <1>8

(***************************************************************************)
(* The request that is in flight names the model the user chose, which the *)
(* catalog lists once and not as unavailable, and an effort of its own     *)
(* (ProviderRegistry.resolve, sanitizeCatalog, resolveReasoning), for any  *)
(* catalog.                                                                *)
(***************************************************************************)
THEOREM OnlyChosen == Spec => []OnlyTheChosenModel
<1>1. Init => OnlyTheChosenModel
  BY DEF Init, NotAsked, OnlyTheChosenModel
<1>2. OnlyTheChosenModel /\ [Next]_vars => OnlyTheChosenModel'
  <2> SUFFICES ASSUME OnlyTheChosenModel, [Next]_vars PROVE OnlyTheChosenModel'
    OBVIOUS
  <2>1. ASSUME asked' \in {asked, NotAsked} PROVE OnlyTheChosenModel'
    BY <2>1 DEF OnlyTheChosenModel, NotAsked
  <2>2. ASSUME NEW provider, NEW wanted \in Selections, NEW rows,
               Resolves(provider, rows, wanted),
               asked' = [sent |-> {Request(wanted)}, rows |-> rows, provider |-> provider]
        PROVE  OnlyTheChosenModel'
    <3>1. asked'.sent = {Request(wanted)} /\ asked'.rows = rows
          /\ asked'.provider = provider
      BY <2>2
    <3>2. QED
      BY <2>2, <3>1, ResolvedRow DEF OnlyTheChosenModel
  <2>3. CASE SelectionReturns
    BY <2>1, <2>2, <2>3 DEF SelectionReturns, EndsEarly
  <2>4. CASE Start \/ ResponseStarts
    <3>1. asked' \in {asked, NotAsked}
      BY <2>4 DEF Start, ResponseStarts, EndsEarly
    <3>2. QED
      BY <2>1, <3>1
  <2>5. CASE StreamBreaks \/ StreamEnds \/ Close \/ CollectFails
    <3>1. asked' \in {asked, NotAsked}
      BY <2>5 DEF StreamBreaks, StreamEnds, Close, CollectFails, EndsEarly
    <3>2. QED
      BY <2>1, <3>1
  <2>6. CASE UserAborts \/ Timeout \/ Refused \/ UNCHANGED vars
    BY <2>1, <2>6 DEF UserAborts, Timeout, Refused, vars
  <2>7. ASSUME NEW items, ChunkArrives(items) PROVE OnlyTheChosenModel'
    BY <2>1, <2>7 DEF ChunkArrives
  <2>8. ASSUME NEW delta, CollectCompletes(delta) PROVE OnlyTheChosenModel'
    BY <2>1, <2>8 DEF CollectCompletes
  <2>9. QED
    BY <2>3, <2>4, <2>5, <2>6, <2>7, <2>8 DEF Next
<1>3. QED
  BY <1>1, <1>2, PTL DEF Spec

(***************************************************************************)
(* The text of a run: what was reported and what is held back are what the *)
(* redactor would make of all that was received.                           *)
(***************************************************************************)
TextFields == {"received", "pending", "text"}

Streamed(run) ==
    /\ TextFields \subseteq DOMAIN run
    /\ Plain(run.received)
    /\ run.text = Safe(Redact(run.received)) /\ run.pending = Rest(Redact(run.received))

Whole(run) ==
    /\ Plain(run.received)
    /\ run.text = Safe(Redact(run.received)) \o FinalTail(Rest(Redact(run.received)))

LEMMA RedactChars ==
    ASSUME NEW s, Plain(s)
    PROVE  /\ Redact(s) \in Seq(Chars) /\ Safe(Redact(s)) \in Seq(Chars)
           /\ Rest(Redact(s)) \in Seq(Chars)
<1>1. <<>> \in Seq(Chars) /\ Plain(<<>>)
  BY DEF Plain
<1>2. Redact(s) \in Seq(Chars)
  BY <1>1, RedactMore
<1>3. QED
  BY <1>2, SafeAndRest DEF Plain

LEMMA EmitTextText ==
    ASSUME NEW run, TextFields \subseteq DOMAIN run, run.text \in Seq(Chars),
           NEW s \in Seq(Chars)
    PROVE  LET run2 == EmitText(run, s)
           IN  /\ TextFields \subseteq DOMAIN run2 /\ run2.text = run.text \o s
               /\ run2.received = run.received /\ run2.pending = run.pending
<1>1. CASE s = <<>>
  <2>1. run.text \o s = run.text
    BY <1>1, ConcatEmptySeq
  <2>2. QED
    BY <1>1, <2>1 DEF EmitText
<1>2. CASE s # <<>>
  BY <1>2 DEF EmitText, TextFields
<1>3. QED
  BY <1>1, <1>2

LEMMA ReportText ==
    ASSUME NEW run, TextFields \subseteq DOMAIN run, NEW event
    PROVE  LET run2 == Report(run, event)
           IN  /\ TextFields \subseteq DOMAIN run2 /\ run2.text = run.text
               /\ run2.received = run.received /\ run2.pending = run.pending
BY DEF Report, TextFields

LEMMA PushStreams ==
    ASSUME NEW run, Streamed(run), NEW delta, Plain(delta)
    PROVE  Streamed(Push(run, delta))
<1> DEFINE known == Redact(run.received)
           more == Redact(run.pending \o delta)
           got == run.received \o delta
           rest == Rest(more)
           kept == [run EXCEPT !.received = got, !.pending = rest]
<1>1. /\ TextFields \subseteq DOMAIN run /\ Plain(run.received)
      /\ run.text = Safe(known) /\ run.pending = Rest(known)
  BY DEF Streamed
<1>2. /\ more \in Seq(Chars) /\ Plain(got)
      /\ Safe(Redact(got)) = run.text \o Safe(more) /\ Rest(Redact(got)) = rest
  <2>1. more = Redact(Rest(known) \o delta)
    BY <1>1
  <2>2. /\ Redact(Rest(known) \o delta) \in Seq(Chars)
        /\ Safe(Redact(got)) = Safe(known) \o Safe(Redact(Rest(known) \o delta))
        /\ Rest(Redact(got)) = Rest(Redact(Rest(known) \o delta))
    BY <1>1, RedactMore
  <2>3. Plain(got)
    BY <1>1, PlainConcat
  <2>4. QED
    BY <1>1, <2>1, <2>2, <2>3
<1>3. Push(run, delta) = EmitText(kept, Safe(more))
  BY DEF Push
<1>4. run.text \in Seq(Chars) /\ Safe(more) \in Seq(Chars)
  BY <1>1, <1>2, RedactChars, SafeAndRest
<1> HIDE DEF known, more, got, rest
<1>5. /\ TextFields \subseteq DOMAIN kept /\ kept.received = got /\ kept.pending = rest
      /\ kept.text = run.text
  BY <1>1 DEF TextFields
<1> HIDE DEF kept
<1>6. /\ TextFields \subseteq DOMAIN Push(run, delta)
      /\ Push(run, delta).text = run.text \o Safe(more)
      /\ Push(run, delta).received = got /\ Push(run, delta).pending = rest
  BY <1>3, <1>4, <1>5, EmitTextText
<1>7. QED
  BY <1>2, <1>6 DEF Streamed

LEMMA FinalizeWhole ==
    ASSUME NEW run, Streamed(run)
    PROVE  Whole(Finalize(run)) /\ TextFields \subseteq DOMAIN Finalize(run)
<1> DEFINE kept == [run EXCEPT !.pending = <<>>]
           tail == FinalTail(run.pending)
<1>1. /\ TextFields \subseteq DOMAIN run /\ Plain(run.received)
      /\ run.text = Safe(Redact(run.received)) /\ run.pending = Rest(Redact(run.received))
  BY DEF Streamed
<1>2. run.text \in Seq(Chars) /\ run.pending \in Seq(Chars)
  BY <1>1, RedactChars
<1>3. tail \in Seq(Chars)
  <2>1. <<Marker>> \in Seq(Chars)
    BY DEF Chars
  <2>2. tail = run.pending \/ tail = <<Marker>>
    BY DEF FinalTail
  <2>3. QED
    BY <1>2, <2>1, <2>2
<1>4. Finalize(run) = EmitText(kept, tail)
  BY DEF Finalize
<1>5. TextFields \subseteq DOMAIN kept /\ kept.received = run.received /\ kept.text = run.text
  BY <1>1 DEF TextFields
<1> HIDE DEF kept, tail
<1>6. /\ TextFields \subseteq DOMAIN Finalize(run)
      /\ Finalize(run).text = run.text \o tail /\ Finalize(run).received = run.received
  BY <1>2, <1>3, <1>4, <1>5, EmitTextText
<1>7. QED
  BY <1>1, <1>6 DEF Whole, tail

LEMMA FailedWhole ==
    ASSUME NEW run, Streamed(run)
    PROVE  Whole(Failed(run))
<1>1. Whole(Finalize(run)) /\ TextFields \subseteq DOMAIN Finalize(run)
  BY FinalizeWhole
<1>2. Whole(Report(Finalize(run), Failure))
  BY <1>1, ReportText DEF Whole
<1>3. Streamed(Report(run, Failure))
  BY ReportText DEF Streamed
<1>4. Whole(Finalize(Report(run, Failure)))
  BY <1>3, FinalizeWhole
<1>5. QED
  BY <1>2, <1>4 DEF Failed

LEMMA DeliverStreams ==
    ASSUME Streamed(Run), NEW items, Len(items) \in Nat,
           \A i \in 1..Len(items) : Plain(items[i].delta)
    PROVE  Streamed(Deliver(items))
<1> DEFINE n == Len(items)
<1>1. PICK f : /\ f[0] = Run /\ Deliver(items) = f[n]
               /\ \A i \in 1..n : f[i] = Push(f[i - 1], items[i].delta)
  BY DeliverStep
<1> DEFINE Wrong == {i \in 0..n : ~Streamed(f[i])}
<1>2. Wrong = {}
  <2> SUFFICES ASSUME Wrong # {} PROVE FALSE
    OBVIOUS
  <2>1. Wrong \in SUBSET Nat
    OBVIOUS
  <2>2. PICK i \in Wrong : \A j \in Wrong : i <= j
    BY <2>1, LeastElement
  <2>3. i # 0
    BY <1>1
  <2>4. i \in 1..n /\ i - 1 \in 0..n /\ i - 1 \notin Wrong
    BY <2>2, <2>3
  <2>5. Streamed(f[i - 1]) /\ f[i] = Push(f[i - 1], items[i].delta)
    BY <1>1, <2>4
  <2>6. Streamed(f[i])
    BY <2>4, <2>5, PushStreams
  <2>7. QED
    BY <2>2, <2>6
<1>3. Streamed(f[n])
  BY <1>2
<1>4. QED
  BY <1>1, <1>3

Redacted ==
    /\ stage = "starting" => received = <<>>
    /\ IF Ended THEN Whole(Run) ELSE Streamed(Run)

LEMMA RunText ==
    /\ TextFields \subseteq DOMAIN Run /\ Run.received = received
    /\ Run.pending = pending /\ Run.text = text
BY DEF TextFields, Run

LEMMA BecomesText ==
    ASSUME NEW run, Becomes(run)
    PROVE  /\ Whole(run) /\ UNCHANGED consumer => Whole(Run)'
           /\ Streamed(run) => Streamed(Run)'
<1>1. received' = run.received /\ pending' = run.pending /\ text' = run.text
  BY DEF Becomes
<1>2. Run'.received = received' /\ Run'.pending = pending' /\ Run'.text = text'
      /\ TextFields \subseteq DOMAIN Run'
  BY DEF Run, TextFields
<1>3. Run' = Run'
  OBVIOUS
<1>4. Whole(run) /\ UNCHANGED consumer => Whole(Run)'
  BY <1>1, <1>2 DEF Whole, FinalTail
<1>5. Streamed(run) => Streamed(Run)'
  BY <1>1, <1>2 DEF Streamed
<1>6. QED
  BY <1>4, <1>5

LEMMA InitRedacted == Init => Redacted
<1> SUFFICES ASSUME Init PROVE Redacted
  OBVIOUS
<1>1. stage = "starting" /\ received = <<>> /\ pending = <<>> /\ text = <<>>
  BY DEF Init
<1>2. Plain(<<>>)
  BY DEF Plain
<1>3. Streamed(Run)
  BY <1>1, <1>2, RunText, RedactNothing DEF Streamed
<1>4. QED
  BY <1>1, <1>3 DEF Redacted, Ended

\* A step that neither receives nor reports, and does not end the run.
LEMMA SameText ==
    ASSUME Redacted, UNCHANGED <<consumer, received, pending, text>>,
           Ended' <=> Ended, stage' = "starting" => stage = "starting"
    PROVE  Redacted'
<1>1. Run'.received = received /\ Run'.pending = pending /\ Run'.text = text
      /\ TextFields \subseteq DOMAIN Run'
  BY DEF Run, TextFields
<1>2. CASE Ended
  <2>1. Whole(Run)
    BY <1>2 DEF Redacted
  <2>2. Whole(Run)'
    BY <1>1, <2>1, RunText DEF Whole, FinalTail
  <2>3. QED
    BY <1>2, <2>2 DEF Redacted
<1>3. CASE ~Ended
  <2>1. Streamed(Run)
    BY <1>3 DEF Redacted
  <2>2. Streamed(Run)'
    BY <1>1, <2>1, RunText DEF Streamed
  <2>3. QED
    BY <1>3, <2>2 DEF Redacted
<1>4. QED
  BY <1>2, <1>3

LEMMA NextRedacted == Redacted /\ [Next]_vars => Redacted'
<1> SUFFICES ASSUME Redacted, [Next]_vars PROVE Redacted'
  OBVIOUS
<1>1. ASSUME ~Ended, EndsEarly PROVE Redacted'
  <2>1. Streamed(Run) /\ Becomes(Failed(Run)) /\ stage' = "ended" /\ UNCHANGED consumer
    BY <1>1 DEF Redacted, EndsEarly
  <2>2. Whole(Run)'
    BY <2>1, FailedWhole, BecomesText
  <2>3. QED
    BY <2>1, <2>2 DEF Redacted, Ended
<1>2. CASE UserAborts \/ Timeout \/ StreamBreaks \/ UNCHANGED vars
  <2>1. UNCHANGED <<consumer, received, pending, text>>
    BY <1>2 DEF UserAborts, Timeout, StreamBreaks, output, vars
  <2>2. (Ended' <=> Ended) /\ (stage' = "starting" => stage = "starting")
    BY <1>2 DEF UserAborts, Timeout, StreamBreaks, Ended, vars
  <2>3. QED
    BY <2>1, <2>2, SameText
<1>3. CASE Refused
  <2>1. /\ stage = "starting" /\ stage' = "ended" /\ received = <<>>
        /\ UNCHANGED <<consumer, received, pending, text>>
    BY <1>3 DEF Refused, Redacted
  <2>2. text = <<>> /\ pending = <<>>
    BY <2>1, RunText, RedactNothing DEF Redacted, Ended, Streamed
  <2>3. Plain(<<>>) /\ Run'.received = <<>> /\ Run'.text = <<>> /\ <<>> \o <<>> = <<>>
    BY <2>1, <2>2 DEF Run, Plain
  <2>4. Whole(Run)'
    BY <2>3, RedactNothing DEF Whole, FinalTail
  <2>5. QED
    BY <2>1, <2>4 DEF Redacted, Ended
<1>4. CASE Start \/ SelectionReturns \/ ResponseStarts
  <2>1. ~Ended
    BY <1>4 DEF Start, SelectionReturns, ResponseStarts, Ended
  <2>2. CASE ~EndsEarly
    <3>1. /\ UNCHANGED <<consumer, received, pending, text>>
          /\ stage' \in {"selecting", "requesting", "streaming", "collecting"}
      BY <1>4, <2>2 DEF Start, SelectionReturns, ResponseStarts, output
    <3>2. QED
      BY <2>1, <3>1, SameText DEF Ended
  <2>3. QED
    BY <1>1, <2>1, <2>2
<1>5. ASSUME NEW n \in Nat, n >= 1, NEW items \in [1..n -> Items], ChunkArrives(items)
      PROVE  Redacted'
  <2> DEFINE taken == Taken(items)
             run == Deliver(taken)
  <2>1. /\ stage = "streaming" /\ stage' \in {"streaming", "closing"} /\ UNCHANGED consumer
        /\ Becomes(run) \/ Becomes(Completed(run))
    BY <1>5 DEF ChunkArrives
  <2>2. Streamed(run)
    <3>1. Len(taken) \in Nat /\ \A i \in 1..Len(taken) : Plain(taken[i].delta)
      BY <1>5, TakenTexts
    <3>2. Streamed(Run)
      BY <2>1 DEF Redacted, Ended
    <3>3. QED
      BY <3>1, <3>2, DeliverStreams
  <2> HIDE DEF run, taken
  <2>3. Streamed(Completed(run))
    BY <2>2, ReportText DEF Streamed, Completed
  <2>4. Streamed(Run)'
    BY <2>1, <2>2, <2>3, BecomesText
  <2>5. QED
    BY <2>1, <2>4 DEF Redacted, Ended
<1>6. CASE StreamEnds \/ CollectFails
  BY <1>1, <1>6 DEF StreamEnds, CollectFails, Ended
<1>7. CASE Close
  <2>1. /\ stage = "closing" /\ stage' = "ended" /\ UNCHANGED consumer
        /\ Becomes(Finalize(Run)) \/ Becomes(Failed(Run))
    BY <1>7 DEF Close
  <2>2. Streamed(Run)
    BY <2>1 DEF Redacted, Ended
  <2>3. Whole(Run)'
    BY <2>1, <2>2, FinalizeWhole, FailedWhole, BecomesText
  <2>4. QED
    BY <2>1, <2>3 DEF Redacted, Ended
<1>8. ASSUME NEW delta \in Texts \cup {<<>>}, CollectCompletes(delta) PROVE Redacted'
  <2>1. /\ stage = "collecting" /\ stage' = "ended" /\ UNCHANGED consumer
        /\ Becomes(Finalize(Completed(Push(Run, delta))))
    BY <1>8 DEF CollectCompletes
  <2>2. Plain(delta)
    BY <1>8, DeltaPlain DEF Texts
  <2>3. Streamed(Push(Run, delta))
    BY <2>1, <2>2, PushStreams DEF Redacted, Ended
  <2>4. Streamed(Completed(Push(Run, delta)))
    BY <2>3, ReportText DEF Streamed, Completed
  <2>5. Whole(Run)'
    BY <2>1, <2>4, FinalizeWhole, BecomesText
  <2>6. QED
    BY <2>1, <2>5 DEF Redacted, Ended
<1>9. QED
  <2>1. ASSUME NEW n \in 1..(IF consumer = "tui" THEN MaxChunk ELSE 1)
        PROVE  n \in Nat /\ n >= 1
    BY RunAssumption
  <2>2. QED
    BY <1>2, <1>3, <1>4, <1>5, <1>6, <1>7, <1>8, <2>1 DEF Next

(***************************************************************************)
(* The text a run returns is that of the whole response with the           *)
(* credential replaced, however the provider cut it into chunks: for any   *)
(* credential, of any length and however it overlaps itself                *)
(* (StreamingSecretRedactor).                                              *)
(***************************************************************************)
THEOREM ChunksAreOneText == Spec => []ChunksDoNotMatter
<1>1. Redacted => ChunksDoNotMatter
  BY RunText DEF Redacted, Whole, ChunksDoNotMatter
<1>2. QED
  BY <1>1, InitRedacted, NextRedacted, PTL DEF Spec

\* A character in front of a text, and one behind it.
LEMMA OneMore ==
    ASSUME NEW c \in Chars, NEW x \in Seq(Chars)
    PROVE  /\ <<c>> \o x \in Seq(Chars) /\ Len(<<c>> \o x) = Len(x) + 1 /\ (<<c>> \o x)[1] = c
           /\ \A l \in 1..Len(x) : (<<c>> \o x)[l + 1] = x[l]
           /\ x \o <<c>> \in Seq(Chars) /\ Len(x \o <<c>>) = Len(x) + 1
           /\ (x \o <<c>>)[Len(x) + 1] = c /\ \A l \in 1..Len(x) : (x \o <<c>>)[l] = x[l]
<1>1. <<c>> \in Seq(Chars) /\ Len(<<c>>) = 1 /\ <<c>>[1] = c
  OBVIOUS
<1> DEFINE o == <<c>>
<1> HIDE DEF o
<1>2. o \in Seq(Chars) /\ Len(o) = 1 /\ o[1] = c
  BY <1>1 DEF o
<1>6. /\ Len(x) \in Nat /\ o \o x \in Seq(Chars) /\ x \o o \in Seq(Chars)
      /\ Len(o \o x) = Len(o) + Len(x) /\ Len(x \o o) = Len(x) + Len(o)
  <2>1. o \in Seq(Chars) /\ x \in Seq(Chars)
    BY <1>2
  <2>2. o \o x \in Seq(Chars) /\ Len(o \o x) = Len(o) + Len(x)
    BY <2>1, ConcatProperties
  <2>3. x \o o \in Seq(Chars) /\ Len(x \o o) = Len(x) + Len(o)
    BY <2>1, ConcatProperties
  <2>4. QED
    BY <2>2, <2>3
<1>7. /\ \A i \in 1..(Len(o) + Len(x)) : (o \o x)[i] = IF i <= Len(o) THEN o[i] ELSE x[i - Len(o)]
      /\ \A i \in 1..(Len(x) + Len(o)) : (x \o o)[i] = IF i <= Len(x) THEN x[i] ELSE o[i - Len(x)]
  BY <1>2, ConcatProperties
<1>3. /\ o \o x \in Seq(Chars) /\ Len(o \o x) = Len(x) + 1 /\ (o \o x)[1] = c
      /\ \A l \in 1..Len(x) : (o \o x)[l + 1] = x[l]
  <2>1. \A l \in 1..Len(x) : l + 1 \in 1..(1 + Len(x)) /\ ~(l + 1 <= 1) /\ l + 1 - 1 = l
    BY <1>6
  <2>2. 1 \in 1..(1 + Len(x)) /\ 1 + Len(x) = Len(x) + 1
    BY <1>6
  <2>3. (o \o x)[1] = c
    BY <1>2, <1>7, <2>2
  <2>4. ASSUME NEW l \in 1..Len(x) PROVE (o \o x)[l + 1] = x[l]
    <3> DEFINE p == l + 1
    <3>1. p \in 1..(1 + Len(x)) /\ ~(p <= 1) /\ p - 1 = l
      BY <2>1
    <3> HIDE DEF p
    <3>2. (o \o x)[p] = x[p - 1]
      BY <1>2, <1>7, <3>1
    <3>3. QED
      BY <3>1, <3>2 DEF p
  <2>5. QED
    BY <1>2, <1>6, <2>2, <2>3, <2>4
<1>4. /\ x \o o \in Seq(Chars) /\ Len(x \o o) = Len(x) + 1 /\ (x \o o)[Len(x) + 1] = c
      /\ \A l \in 1..Len(x) : (x \o o)[l] = x[l]
  <2>1. \A l \in 1..Len(x) : l \in 1..(Len(x) + 1) /\ l <= Len(x)
    BY <1>6
  <2>2. Len(x) + 1 \in 1..(Len(x) + 1) /\ ~(Len(x) + 1 <= Len(x)) /\ Len(x) + 1 - Len(x) = 1
    BY <1>6
  <2>3. QED
    BY <1>2, <1>6, <1>7, <2>1, <2>2
<1>5. QED
  BY <1>3, <1>4 DEF o

\* What comes before a marker is as it was.
LEMMA ScanRawStart ==
    ASSUME NEW s, Plain(s), NEW G, Scan(G, s), NEW i \in 1..(Len(s) + 1),
           NEW m \in 0..Len(G[i]), \A k \in 1..m : G[i][k] # Marker
    PROVE  i + m <= Len(s) + 1 /\ \A k \in 1..m : G[i][k] = s[i + k - 1]
<1> DEFINE Good(j) == \A l \in 0..Len(G[j]) :
                          (\A k \in 1..l : G[j][k] # Marker)
                              => /\ j + l <= Len(s) + 1
                                 /\ \A k \in 1..l : G[j][k] = s[j + k - 1]
           S == {j \in 1..(Len(s) + 1) : Good(j)}
<1>1. /\ s \in Seq(Chars) /\ Len(s) \in Nat /\ Len(Secret) \in Nat \ {0} /\ Marker \in Chars
      /\ \A j \in 1..(Len(s) + 1) : G[j] \in Seq(Chars)
  BY SecretPlain DEF Plain, Chars, Scan
<1>2. ASSUME NEW j \in 1..(Len(s) + 1), \A k \in (j + 1)..(Len(s) + 1) : k \in S
      PROVE  j \in S
  <2> SUFFICES ASSUME NEW l \in 0..Len(G[j]), \A k \in 1..l : G[j][k] # Marker
               PROVE  j + l <= Len(s) + 1 /\ \A k \in 1..l : G[j][k] = s[j + k - 1]
    OBVIOUS
  <2>1. Len(G[j]) \in Nat /\ l \in Nat
    BY <1>1
  <2>2. CASE l = 0
    BY <1>1, <2>2
  <2>3. CASE l # 0
    <3>1. j \in 1..Len(s)
      <4>1. j = Len(s) + 1 => Len(G[j]) = 0
        BY DEF Scan
      <4>2. QED
        BY <1>1, <2>1, <2>3, <4>1
    <3>2. j + 1 \in (j + 1)..(Len(s) + 1) /\ j + 1 \in 1..(Len(s) + 1)
      BY <1>1, <3>1
    <3>3. ~At(s, j)
      <4> SUFFICES ASSUME At(s, j) PROVE FALSE
        OBVIOUS
      <4> DEFINE y == G[j + Len(Secret)]
      <4>1. j + Len(Secret) \in 1..(Len(s) + 1)
        BY <1>1, <3>1 DEF At
      <4>2. G[j] = <<Marker>> \o y /\ y \in Seq(Chars)
        BY <3>1, <4>1 DEF Scan
      <4>3. G[j][1] = Marker
        BY <1>1, <4>2
      <4>4. 1 \in 1..l
        BY <2>1, <2>3
      <4>5. QED
        BY <4>3, <4>4
    <3> DEFINE x == G[j + 1]
    <3>4. G[j] = <<s[j]>> \o x
      BY <3>1, <3>3 DEF Scan
    <3>5. x \in Seq(Chars) /\ s[j] \in Chars
      BY <1>1, <3>1, <3>2
    <3> HIDE DEF x
    <3>6. Len(G[j]) = Len(x) + 1 /\ G[j][1] = s[j] /\ \A k \in 1..Len(x) : G[j][k + 1] = x[k]
      BY <3>4, <3>5
    <3>7. Len(x) \in Nat /\ l - 1 \in 0..Len(x)
      BY <2>1, <2>3, <3>5, <3>6
    <3>8. \A k \in 1..(l - 1) : k \in 1..Len(x) /\ k + 1 \in 1..l
      BY <2>1, <3>7
    <3>9. \A k \in 1..(l - 1) : x[k] # Marker
      BY <3>6, <3>8
    <3>10. /\ j + 1 + (l - 1) <= Len(s) + 1
           /\ \A k \in 1..(l - 1) : x[k] = s[j + 1 + k - 1]
      <4>1. Good(j + 1)
        BY <1>2, <3>2
      <4>2. QED
        BY <3>7, <3>9, <4>1 DEF x
    <3>11. ASSUME NEW k \in 1..l PROVE G[j][k] = s[j + k - 1]
      <4>1. CASE k = 1
        BY <1>1, <3>1, <3>6, <4>1
      <4>2. CASE k # 1
        <5>1. k - 1 \in 1..(l - 1) /\ k - 1 + 1 = k /\ j + 1 + (k - 1) - 1 = j + k - 1
          BY <2>1, <1>1, <4>2
        <5>2. G[j][k] = x[k - 1] /\ x[k - 1] = s[j + 1 + (k - 1) - 1]
          BY <3>6, <3>8, <3>10, <5>1
        <5>3. QED
          BY <5>1, <5>2
      <4>3. QED
        BY <4>1, <4>2
    <3>12. j + l <= Len(s) + 1
      BY <1>1, <2>1, <3>10
    <3>13. QED
      BY <3>11, <3>12
  <2>4. QED
    BY <2>2, <2>3
<1> HIDE DEF S
<1>3. \A j \in 1..(Len(s) + 1) : j \in S
  BY <1>1, <1>2, FromTheEnd
<1>4. Good(i)
  BY <1>3 DEF S
<1>5. QED
  BY <1>4

\* No occurrence of the credential is left.
LEMMA RedactRemoves ==
    ASSUME NEW s, Plain(s)
    PROVE  \A k \in 1..(Len(Redact(s)) + 1) : ~At(Redact(s), k)
<1>1. PICK G : Scan(G, s) /\ Redact(s) = G[1]
  BY RedactScan
<1> DEFINE Clean(i) == \A k \in 1..(Len(G[i]) + 1) : ~At(G[i], k)
           S == {i \in 1..(Len(s) + 1) : Clean(i)}
<1>2. /\ s \in Seq(Chars) /\ Len(s) \in Nat /\ Len(Secret) \in Nat \ {0} /\ Marker \in Chars
      /\ \A j \in 1..(Len(s) + 1) : G[j] \in Seq(Chars)
  BY <1>1, SecretPlain DEF Plain, Chars, Scan
<1>3. \A j \in 1..Len(Secret) : Secret[j] # Marker
  BY SecretPlain DEF Plain
<1>4. ASSUME NEW i \in 1..(Len(s) + 1), \A j \in (i + 1)..(Len(s) + 1) : j \in S
      PROVE  i \in S
  <2> SUFFICES ASSUME NEW k \in 1..(Len(G[i]) + 1), At(G[i], k) PROVE FALSE
    OBVIOUS
  <2>1. /\ Len(G[i]) \in Nat /\ k + Len(Secret) <= Len(G[i]) + 1
        /\ \A j \in 1..Len(Secret) : G[i][k + j - 1] = Secret[j]
    BY <1>2 DEF At
  <2>2. i \in 1..Len(s)
    <3>1. i = Len(s) + 1 => Len(G[i]) = 0
      BY <1>1 DEF Scan
    <3>2. QED
      BY <1>2, <2>1, <3>1
  \* It begins with what stands at this place.
  <2>3. CASE k = 1
    <3>1. /\ Len(Secret) \in 0..Len(G[i])
          /\ \A j \in 1..Len(Secret) : G[i][j] = Secret[j]
      BY <1>2, <2>1, <2>3
    <3>2. \A j \in 1..Len(Secret) : G[i][j] # Marker
      BY <1>3, <3>1
    <3>3. /\ i + Len(Secret) <= Len(s) + 1
          /\ \A j \in 1..Len(Secret) : G[i][j] = s[i + j - 1]
      BY <1>1, <3>1, <3>2, ScanRawStart
    <3>4. At(s, i)
      BY <3>1, <3>3 DEF At
    <3>5. G[i] = <<Marker>> \o G[i + Len(Secret)]
      BY <1>1, <2>2, <3>4 DEF Scan
    <3>6. G[i + Len(Secret)] \in Seq(Chars)
      BY <1>2, <2>2, <3>3
    <3>7. G[i][1] = Marker
      BY <1>2, <3>5, <3>6
    <3>8. QED
      BY <1>2, <3>2, <3>7
  \* It begins behind it.
  <2>4. ASSUME k # 1, NEW c \in Chars, NEW j \in (i + 1)..(Len(s) + 1), G[i] = <<c>> \o G[j]
        PROVE  FALSE
    <3> DEFINE x == G[j]
    <3>1. x \in Seq(Chars) /\ j \in S
      BY <1>2, <1>4
    <3>2. Clean(j)
      BY <3>1
    <3> HIDE DEF x
    <3>8. G[i] = <<c>> \o x
      BY <2>4 DEF x
    <3>9. x \in Seq(Chars)
      BY <3>1 DEF x
    <3>3. Len(G[i]) = Len(x) + 1 /\ \A l \in 1..Len(x) : G[i][l + 1] = x[l]
      BY <2>4, <3>8, <3>9, OneMore
    <3>4. k - 1 \in 1..(Len(x) + 1) /\ k - 1 + Len(Secret) <= Len(x) + 1 /\ Len(x) \in Nat
      BY <1>2, <2>1, <2>4, <3>1, <3>3
    <3>5. ASSUME NEW l \in 1..Len(Secret) PROVE x[k - 1 + l - 1] = Secret[l]
      <4>1. k - 1 + l - 1 \in 1..Len(x) /\ k - 1 + l - 1 + 1 = k + l - 1
        BY <1>2, <2>4, <3>4
      <4>2. QED
        BY <2>1, <3>3, <4>1
    <3>6. At(x, k - 1)
      BY <3>4, <3>5 DEF At
    <3>7. QED
      BY <3>2, <3>4, <3>6 DEF x
  <2>5. CASE k # 1 /\ At(s, i)
    <3>1. G[i] = <<Marker>> \o G[i + Len(Secret)]
      BY <1>1, <2>2, <2>5 DEF Scan
    <3>2. i + Len(Secret) <= Len(s) + 1
      BY <2>5 DEF At
    <3>3. i + Len(Secret) \in (i + 1)..(Len(s) + 1)
      BY <1>2, <2>2, <3>2
    <3>4. QED
      BY <1>2, <2>4, <2>5, <3>1, <3>3
  <2>6. CASE k # 1 /\ ~At(s, i)
    <3>1. G[i] = <<s[i]>> \o G[i + 1]
      BY <1>1, <2>2, <2>6 DEF Scan
    <3>2. i + 1 \in (i + 1)..(Len(s) + 1)
      BY <1>2, <2>2
    <3>3. s[i] \in Chars
      BY <1>2, <2>2
    <3>4. QED
      BY <2>4, <2>6, <3>1, <3>2, <3>3
  <2>7. QED
    BY <2>3, <2>5, <2>6
<1> HIDE DEF S
<1>5. \A j \in 1..(Len(s) + 1) : j \in S
  BY <1>2, <1>4, FromTheEnd
<1>6. Clean(1)
  BY <1>2, <1>5 DEF S
<1>7. QED
  BY <1>1, <1>6

\* Nor in what is in front of a suffix, or of the marker that stands for one.
LEMMA NoneInFront ==
    ASSUME NEW u \in Seq(Chars), NEW v \in Seq(Chars),
           \A k \in 1..(Len(u \o v) + 1) : ~At(u \o v, k)
    PROVE  /\ \A k \in 1..(Len(u) + 1) : ~At(u, k)
           /\ \A k \in 1..(Len(u) + 2) : ~At(u \o <<Marker>>, k)
<1>1. /\ Len(u \o v) = Len(u) + Len(v) /\ \A i \in 1..Len(u) : (u \o v)[i] = u[i]
      /\ Len(u) \in Nat /\ Len(v) \in Nat /\ Len(Secret) \in Nat \ {0}
  BY SecretPlain
<1>2. ASSUME NEW k \in 1..(Len(u) + 1), At(u, k) PROVE FALSE
  <2>1. \A j \in 1..Len(Secret) : k + j - 1 \in 1..Len(u)
    BY <1>1, <1>2 DEF At
  <2>2. k + Len(Secret) <= Len(u \o v) + 1 /\ k \in 1..(Len(u \o v) + 1)
    BY <1>1, <1>2 DEF At
  <2>3. At(u \o v, k)
    BY <1>1, <1>2, <2>1, <2>2 DEF At
  <2>4. QED
    BY <2>2, <2>3
<1>3. ASSUME NEW k \in 1..(Len(u) + 2), At(u \o <<Marker>>, k) PROVE FALSE
  <2> DEFINE w == u \o <<Marker>>
  <2>1. Len(w) = Len(u) + 1 /\ w[Len(u) + 1] = Marker /\ \A i \in 1..Len(u) : w[i] = u[i]
    <3>1. Marker \in Chars
      BY DEF Chars
    <3>2. QED
      BY <3>1, OneMore
  <2> HIDE DEF w
  <2>2. k + Len(Secret) <= Len(w) + 1 /\ \A j \in 1..Len(Secret) : w[k + j - 1] = Secret[j]
    BY <1>3 DEF At, w
  <2>3. CASE k + Len(Secret) = Len(u) + 2
    <3>1. k + Len(Secret) - 1 = Len(u) + 1 /\ Len(Secret) \in 1..Len(Secret)
      BY <1>1, <2>3
    <3>2. Secret[Len(Secret)] = Marker
      BY <2>1, <2>2, <3>1
    <3>3. QED
      BY <3>1, <3>2, SecretPlain DEF Plain
  <2>4. CASE k + Len(Secret) # Len(u) + 2
    <3>1. k + Len(Secret) <= Len(u) + 1 /\ k \in 1..(Len(u) + 1)
      <4>1. k \in Nat \ {0} /\ Len(u) \in Nat /\ Len(Secret) \in Nat \ {0}
        BY <1>1
      <4>2. k + Len(Secret) <= Len(u) + 2
        BY <2>1, <2>2, <4>1
      <4>3. QED
        BY <2>4, <4>1, <4>2
    <3>2. \A j \in 1..Len(Secret) : k + j - 1 \in 1..Len(u)
      BY <1>1, <3>1
    <3>3. At(u, k)
      BY <2>1, <2>2, <3>1, <3>2 DEF At
    <3>4. QED
      BY <1>2, <3>1, <3>3
  <2>5. QED
    BY <2>3, <2>4
<1>4. QED
  BY <1>2, <1>3

\* The credential stands nowhere in what was reported of a run.
CredentialHidden ==
    \A i \in 1..(Len(text) + 1) : ~IsPrefix(Secret, SubSeq(text, i, Len(text)))

(***************************************************************************)
(* No part of what a run reports is the credential, whatever the provider  *)
(* echoes, however it is cut into chunks and however the run ends          *)
(* (redactSecrets, StreamingSecretRedactor).                               *)
(***************************************************************************)
THEOREM CredentialNeverShown == Spec => []CredentialHidden
<1>1. Redacted => CredentialHidden
  <2> SUFFICES ASSUME Redacted PROVE CredentialHidden
    OBVIOUS
  <2> DEFINE known == Redact(received)
             u == Safe(known)
             v == Rest(known)
  <2>1. Plain(received)
    BY RunText DEF Redacted, Whole, Streamed
  <2>2. u \in Seq(Chars) /\ v \in Seq(Chars) /\ u \o v = known
        /\ \A k \in 1..(Len(known) + 1) : ~At(known, k)
    BY <2>1, RedactChars, SafeAndRest, RedactRemoves
  <2>3. text = u \/ text = u \o v \/ text = u \o <<Marker>>
    <3>1. text = u \/ text = u \o FinalTail(v)
      BY RunText DEF Redacted, Whole, Streamed
    <3>2. QED
      BY <3>1 DEF FinalTail
  <2>4. known \in Seq(Chars)
    BY <2>1, RedactChars
  <2> HIDE DEF known, u, v
  <2>5. /\ \A k \in 1..(Len(u) + 1) : ~At(u, k)
        /\ \A k \in 1..(Len(u) + 2) : ~At(u \o <<Marker>>, k)
    BY <2>2, NoneInFront
  <2>6. Marker \in Chars
    BY DEF Chars
  <2>7. u \o <<Marker>> \in Seq(Chars) /\ Len(u \o <<Marker>>) = Len(u) + 1 /\ Len(u) \in Nat
    BY <2>2, <2>6, OneMore
  <2>8. \A k \in 1..(Len(u \o <<Marker>>) + 1) : ~At(u \o <<Marker>>, k)
    <3>1. Len(u \o <<Marker>>) + 1 = Len(u) + 2
      BY <2>7
    <3>2. QED
      BY <2>5, <3>1
  <2>9. text \in Seq(Chars) /\ \A k \in 1..(Len(text) + 1) : ~At(text, k)
    <3>1. CASE text = u
      <4>1. u \in Seq(Chars) /\ \A k \in 1..(Len(u) + 1) : ~At(u, k)
        BY <2>2, <2>5
      <4>2. QED
        BY <3>1, <4>1
    <3>2. CASE text = u \o v
      <4>1. text = known
        BY <2>2, <3>2
      <4>2. QED
        BY <2>2, <2>4, <4>1
    <3>3. CASE text = u \o <<Marker>>
      <4> DEFINE w == u \o <<Marker>>
      <4>1. w \in Seq(Chars) /\ \A k \in 1..(Len(w) + 1) : ~At(w, k)
        BY <2>7, <2>8
      <4>2. text = w
        BY <3>3
      <4> HIDE DEF w
      <4>3. QED
        BY <4>1, <4>2
    <3>4. QED
      BY <2>3, <3>1, <3>2, <3>3
  <2>10. QED
    BY <2>9, OccursAt DEF CredentialHidden
<1>2. QED
  BY <1>1, InitRedacted, NextRedacted, PTL DEF Spec

(***************************************************************************)
(* The incremental parser: what it makes of a text that more text follows. *)
(***************************************************************************)
\* s is the beginning of u.
Starts(s, u) ==
    /\ s \in Seq(Chars) /\ u \in Seq(Chars)
    /\ 0 < Len(s) /\ Len(s) <= Len(u)
    /\ \A i \in 1..Len(s) : u[i] = s[i]

LEMMA SmallestIs ==
    ASSUME NEW S \in SUBSET Nat, S # {}
    PROVE  Smallest(S) \in S /\ \A j \in S : Smallest(S) <= j
<1>1. \E i \in S : \A j \in S : i <= j
  BY LeastElement
<1>2. QED
  BY <1>1 DEF Smallest

LEMMA SmallestOf ==
    ASSUME NEW S \in SUBSET Nat, NEW m \in S, \A j \in S : m <= j
    PROVE  Smallest(S) = m
<1>1. Smallest(S) \in S /\ Smallest(S) <= m
  BY SmallestIs
<1>2. m <= Smallest(S) /\ m \in Nat /\ Smallest(S) \in Nat
  BY <1>1
<1>3. QED
  BY <1>1, <1>2

\* What lies behind n does not matter for the smallest one before.
LEMMA SmallestBefore ==
    ASSUME NEW n \in Nat, NEW S \in SUBSET Nat, NEW T \in SUBSET Nat, S # {},
           \A j \in Nat : j <= n => (j \in S <=> j \in T), \A j \in S : j <= n
    PROVE  Smallest(T) = Smallest(S)
<1> DEFINE m == Smallest(S)
<1>1. m \in S /\ \A j \in S : m <= j
  BY SmallestIs
<1> HIDE DEF m
<1>2. m \in T /\ m \in Nat
  BY <1>1
<1>3. \A j \in T : m <= j
  <2> TAKE j \in T
  <2>1. CASE j <= n
    BY <1>1, <2>1
  <2>2. CASE ~(j <= n)
    BY <1>1, <1>2, <2>2
  <2>3. QED
    BY <2>1, <2>2
<1>4. Smallest(T) = m
  BY <1>2, <1>3, SmallestOf
<1>5. QED
  BY <1>4 DEF m

LEMMA SubSeqSame ==
    ASSUME NEW s, NEW u, Starts(s, u), NEW a \in Nat, a >= 1, NEW b \in Int, b <= Len(s)
    PROVE  SubSeq(u, a, b) = SubSeq(s, a, b)
<1>1. /\ s \in Seq(Chars) /\ u \in Seq(Chars) /\ Len(s) \in Nat /\ Len(u) \in Nat
      /\ Len(s) <= Len(u) /\ \A i \in 1..Len(s) : u[i] = s[i]
  BY DEF Starts
<1>2. CASE b < a
  BY <1>1, <1>2
<1>3. CASE a <= b
  BY <1>1, <1>3
<1>4. QED
  BY <1>2, <1>3

(***************************************************************************)
(* A run of a character.                                                   *)
(***************************************************************************)
RunEnds(s, i, c) == {j \in i..Len(s) : s[j] # c} \cup {Len(s) + 1}

LEMMA RunIs ==
    ASSUME NEW s \in Seq(Chars), NEW i \in 1..Len(s), NEW c
    PROVE  /\ countRun(s, i, c) \in 0..(Len(s) + 1 - i)
           /\ i + countRun(s, i, c) = Smallest(RunEnds(s, i, c))
           /\ s[Len(s)] # c => i + countRun(s, i, c) <= Len(s)
<1> DEFINE n == Len(s)
           E == RunEnds(s, i, c)
           m == Smallest(E)
<1>1. n \in Nat /\ i \in Nat
  OBVIOUS
<1>2. E \in SUBSET Nat /\ n + 1 \in E /\ \A j \in E : i <= j /\ j <= n + 1
  BY <1>1 DEF RunEnds
<1>3. m \in E /\ \A j \in E : m <= j
  BY <1>2, SmallestIs
<1>4. countRun(s, i, c) = m - i
  BY DEF countRun, RunEnds
<1>5. s[n] # c => n \in E
  BY <1>1 DEF RunEnds
<1> HIDE DEF E, m, n
<1>6. m \in Nat /\ i <= m /\ m <= n + 1 /\ (s[n] # c => m <= n)
  BY <1>2, <1>3, <1>5
<1>7. countRun(s, i, c) \in 0..(n + 1 - i) /\ i + countRun(s, i, c) = m
  BY <1>1, <1>4, <1>6
<1>8. QED
  BY <1>6, <1>7 DEF m, n, E

\* A run that has ended stays as long as it is.
LEMMA RunSame ==
    ASSUME NEW s, NEW u, Starts(s, u), NEW i \in 1..Len(s), NEW c,
           i + countRun(s, i, c) <= Len(s)
    PROVE  countRun(u, i, c) = countRun(s, i, c)
<1> DEFINE n == Len(s)
           S == RunEnds(s, i, c)
           S1 == {j \in i..n : s[j] # c}
           T == RunEnds(u, i, c)
           m == Smallest(S)
<1>1. /\ s \in Seq(Chars) /\ u \in Seq(Chars) /\ n \in Nat /\ Len(u) \in Nat
      /\ n <= Len(u) /\ (\A j \in 1..n : u[j] = s[j]) /\ i \in 1..n /\ i \in 1..Len(u)
  BY DEF Starts
<1>2. m = i + countRun(s, i, c) /\ m <= n
  BY <1>1, RunIs
<1>3. S \in SUBSET Nat /\ S # {} /\ T \in SUBSET Nat
  BY <1>1 DEF RunEnds
<1>4. m \in S /\ \A j \in S : m <= j
  BY <1>3, SmallestIs
<1> HIDE DEF m
<1>5. m \in T
  BY <1>1, <1>2, <1>4 DEF RunEnds
<1>6. \A j \in T : m <= j
  <2> TAKE j \in T
  <2>1. CASE j <= n
    BY <1>1, <1>3, <1>4, <2>1 DEF RunEnds
  <2>2. CASE ~(j <= n)
    BY <1>1, <1>2, <1>3, <1>4, <2>2
  <2>3. QED
    BY <2>1, <2>2
<1>7. Smallest(T) = m
  BY <1>3, <1>5, <1>6, SmallestOf
<1>8. countRun(u, i, c) = m - i /\ countRun(s, i, c) = m - i
  <2>1. countRun(u, i, c) = Smallest(T) - i /\ countRun(s, i, c) = Smallest(S) - i
    BY DEF countRun, RunEnds
  <2>2. QED
    BY <1>7, <2>1 DEF m
<1>9. QED
  BY <1>8

\* Whether a place is escaped depends on what stands before it.
LEMMA EscapedSame ==
    ASSUME NEW s, NEW u, Starts(s, u), NEW i \in 1..Len(s)
    PROVE  isEscaped(u, i) = isEscaped(s, i)
<1>1. \A j \in 1..i : \A k \in j..(i - 1) : u[k] = s[k]
  BY DEF Starts
<1>2. {j \in 1..i : \A k \in j..(i - 1) : u[k] = "\\"}
        = {j \in 1..i : \A k \in j..(i - 1) : s[k] = "\\"}
  BY <1>1
<1>3. QED
  BY <1>2 DEF isEscaped, BackslashesBefore

(***************************************************************************)
(* What a reader says of a text is none, wait or an event of its front,    *)
(* and stays the same unless it waits.                                     *)
(***************************************************************************)
OfFront(read, n) ==
    \/ read = None
    \/ read = Wait
    \/ \E type, tex : \E length \in 1..n : read = Event(type, length, tex)

Settled(read, later) == read = Wait \/ later = read

\* q has more pending text than p.
MorePending(p, q) ==
    /\ Starts(p.pending, q.pending)
    /\ q.atLineStart = p.atLineStart /\ q.lineIndent = p.lineIndent
    /\ q.trailingBackslashes = p.trailingBackslashes

\* A line that is complete.
LEMMA ClosesSame ==
    ASSUME NEW s, NEW u, Starts(s, u), NEW i \in 1..Len(s), NEW k \in i..Len(s),
           s[k] = "\n", NEW marker, NEW length
    PROVE  Closes(u, i, marker, length) = Closes(s, i, marker, length)
<1> DEFINE n == Len(s)
           S == {j \in i..n : s[j] = "\n"} \cup {n + 1}
           T == {j \in i..Len(u) : u[j] = "\n"} \cup {Len(u) + 1}
           end == Smallest(S)
<1>1. /\ s \in Seq(Chars) /\ u \in Seq(Chars) /\ n \in Nat /\ Len(u) \in Nat
      /\ n <= Len(u) /\ (\A j \in 1..n : u[j] = s[j]) /\ i \in 1..n /\ k \in i..n
  BY DEF Starts
<1>2. S \in SUBSET Nat /\ T \in SUBSET Nat /\ k \in S
  BY <1>1
<1>3. end \in S /\ \A j \in S : end <= j
  BY <1>2, SmallestIs
<1> HIDE DEF end
<1>4. end \in i..n
  BY <1>1, <1>2, <1>3
<1>5. Smallest(T) = end
  <2>1. end \in T
    BY <1>1, <1>3, <1>4
  <2>2. \A j \in T : end <= j
    <3> TAKE j \in T
    <3>1. CASE j <= n
      BY <1>1, <1>2, <1>3, <3>1
    <3>2. CASE ~(j <= n)
      BY <1>1, <1>2, <1>4, <3>2
    <3>3. QED
      BY <3>1, <3>2
  <2>3. QED
    BY <1>2, <2>1, <2>2, SmallestOf
<1> HIDE DEF S, T
<1>6. SubSeq(u, i, end - 1) = SubSeq(s, i, end - 1)
  <2>1. i \in Nat /\ i >= 1 /\ end - 1 \in Int /\ end - 1 <= Len(s)
    BY <1>1, <1>4
  <2>2. QED
    BY <2>1, SubSeqSame
<1> DEFINE line == SubSeq(s, i, end - 1)
           indent == countRun(line, 1, " ")
           run == countRun(line, indent + 1, marker)
           Answer == /\ indent <= 3 /\ run >= length
                     /\ \A j \in (indent + run + 1)..Len(line) : line[j] = " "
<1>7. Closes(s, i, marker, length) = Answer
  BY DEF Closes, end, S
<1>8. Closes(u, i, marker, length) = Answer
  BY <1>5, <1>6 DEF Closes, T
<1> HIDE DEF Answer
<1>9. QED
  BY <1>7, <1>8

\* Where the lines begin that close a fence.
ClosingLines(s, newlines, marker, length) ==
    {i + 1 : i \in {j \in newlines : j < Len(s) /\ Closes(s, j + 1, marker, length)}}

LEMMA FenceOfSame ==
    ASSUME NEW s, NEW u, Starts(s, u), NEW length \in 1..Len(s), NEW marker,
           NEW opening \in (length + 1)..Len(s),
           NEW N, N = {i \in (length + 1)..Len(s) : s[i] = "\n"},
           NEW M, M = {i \in (length + 1)..Len(u) : u[i] = "\n"}
    PROVE  LET one == FenceOf(s, length, opening, ClosingLines(s, N, marker, length), FALSE)
               two == FenceOf(u, length, opening, ClosingLines(u, M, marker, length), FALSE)
           IN  Settled(one, two) /\ OfFront(one, Len(s))
<1> DEFINE n == Len(s)
           S == ClosingLines(s, N, marker, length)
           T == ClosingLines(u, M, marker, length)
           one == FenceOf(s, length, opening, S, FALSE)
           two == FenceOf(u, length, opening, T, FALSE)
           first == Smallest(S)
           EndsOf(v, from) == {i \in from..Len(v) : v[i] = "\n"}
           ends == EndsOf(s, first)
<1> SUFFICES Settled(one, two) /\ OfFront(one, n)
  OBVIOUS
<1>1. /\ s \in Seq(Chars) /\ u \in Seq(Chars) /\ n \in Nat /\ Len(u) \in Nat
      /\ n <= Len(u) /\ (\A j \in 1..n : u[j] = s[j]) /\ 0 < n
      /\ length \in 1..n /\ opening \in (length + 1)..n
  BY DEF Starts
<1>2. CASE S = {} \/ ends = {}
  <2>1. one = Wait
    BY <1>2 DEF FenceOf, Unless
  <2>2. QED
    BY <2>1 DEF Settled, OfFront
<1>3. CASE S # {} /\ ends # {}
  <2>1. /\ S \in SUBSET Nat /\ T \in SUBSET Nat
        /\ \A i \in S : /\ i \in (length + 2)..n /\ s[i - 1] = "\n"
                        /\ Closes(s, i, marker, length)
        /\ \A i \in T : /\ i \in (length + 2)..Len(u) /\ u[i - 1] = "\n"
                        /\ Closes(u, i, marker, length)
        /\ \A i \in (length + 2)..n :
               s[i - 1] = "\n" /\ Closes(s, i, marker, length) => i \in S
        /\ \A i \in (length + 2)..Len(u) :
               u[i - 1] = "\n" /\ Closes(u, i, marker, length) => i \in T
    <3>1. N \in SUBSET Nat /\ M \in SUBSET Nat
      BY <1>1
    <3>2. /\ S \in SUBSET Nat
          /\ \A i \in S : /\ i \in (length + 2)..n /\ s[i - 1] = "\n"
                          /\ Closes(s, i, marker, length)
      BY <1>1, <3>1 DEF ClosingLines
    <3>3. /\ T \in SUBSET Nat
          /\ \A i \in T : /\ i \in (length + 2)..Len(u) /\ u[i - 1] = "\n"
                          /\ Closes(u, i, marker, length)
      BY <1>1, <3>1 DEF ClosingLines
    <3>4. ASSUME NEW i \in (length + 2)..n, s[i - 1] = "\n", Closes(s, i, marker, length)
          PROVE  i \in S
      <4>1. i - 1 \in N /\ i - 1 < Len(s) /\ (i - 1) + 1 = i
        BY <1>1, <3>4
      <4>2. QED
        BY <3>4, <4>1 DEF ClosingLines
    <3>5. ASSUME NEW i \in (length + 2)..Len(u), u[i - 1] = "\n",
                 Closes(u, i, marker, length)
          PROVE  i \in T
      <4>1. i - 1 \in M /\ i - 1 < Len(u) /\ (i - 1) + 1 = i
        BY <1>1, <3>5
      <4>2. QED
        BY <3>5, <4>1 DEF ClosingLines
    <3>6. QED
      BY <3>2, <3>3, <3>4, <3>5
  <2>2. first \in S /\ \A i \in S : first <= i
    BY <1>3, <2>1, SmallestIs
  <2> DEFINE e == Smallest(ends)
  <2> HIDE DEF S, T, first
  <2>3. ends \in SUBSET Nat /\ e \in ends /\ \A j \in ends : e <= j
    <3>1. first \in Nat
      BY <2>1, <2>2
    <3>2. ends \in SUBSET Nat
      BY <1>1, <3>1
    <3>3. QED
      BY <1>3, <3>2, SmallestIs
  <2> HIDE DEF e
  <2>4. first \in (length + 2)..n /\ s[first - 1] = "\n" /\ Closes(s, first, marker, length)
    BY <2>1, <2>2
  <2>5. e \in first..n /\ s[e] = "\n" /\ e \in 1..n
    BY <1>1, <2>3, <2>4
  <2>6. Smallest(T) = first /\ T # {}
    <3>1. first \in T
      <4>1. first \in 1..n /\ e \in first..n
        BY <1>1, <2>4, <2>5
      <4>2. Closes(u, first, marker, length)
        BY <2>4, <2>5, <4>1, ClosesSame
      <4>3. first \in (length + 2)..Len(u) /\ u[first - 1] = "\n"
        BY <1>1, <2>4
      <4>4. QED
        BY <2>1, <4>2, <4>3
    <3>2. ASSUME NEW i \in T, i < first PROVE FALSE
      <4>1. i \in (length + 2)..Len(u) /\ u[i - 1] = "\n" /\ Closes(u, i, marker, length)
        BY <2>1
      <4>2. i \in (length + 2)..n /\ i \in 1..n /\ s[i - 1] = "\n"
        BY <1>1, <2>4, <3>2, <4>1
      <4>3. first - 1 \in i..n /\ s[first - 1] = "\n"
        BY <1>1, <2>4, <3>2, <4>2
      <4>4. Closes(s, i, marker, length)
        BY <4>1, <4>2, <4>3, ClosesSame
      <4>5. i \in S
        BY <2>1, <4>2, <4>4
      <4>6. first <= i
        BY <2>2, <4>5
      <4>7. QED
        BY <1>1, <2>4, <3>2, <4>2, <4>6
    <3>3. \A i \in T : first <= i
      BY <1>1, <2>1, <2>4, <3>2
    <3>4. QED
      BY <2>1, <3>1, <3>3, SmallestOf
  <2>7. Smallest(ends \cup {n}) = e
    <3>1. ends \cup {n} \in SUBSET Nat /\ e \in ends \cup {n}
      BY <1>1, <2>3
    <3>2. \A j \in ends \cup {n} : e <= j
      BY <1>1, <2>3, <2>5
    <3>3. QED
      BY <3>1, <3>2, SmallestOf
  <2> DEFINE later == EndsOf(u, first)
  <2>8. later # {} /\ Smallest(later \cup {Len(u)}) = e
    <3>1. later \in SUBSET Nat /\ e \in later
      BY <1>1, <2>4, <2>5
    <3>2. \A j \in later \cup {Len(u)} : e <= j
      <4> TAKE j \in later \cup {Len(u)}
      <4>1. CASE j = Len(u)
        BY <1>1, <2>5, <4>1
      <4>2. CASE j \in later /\ j <= n
        <5>1. j \in first..n /\ s[j] = "\n"
          BY <1>1, <2>4, <4>2
        <5>2. QED
          BY <2>3, <5>1
      <4>3. CASE j \in later /\ ~(j <= n)
        BY <1>1, <2>5, <3>1, <4>3
      <4>4. QED
        BY <4>1, <4>2, <4>3
    <3>3. e \in later \cup {Len(u)} /\ later \cup {Len(u)} \in SUBSET Nat
      BY <1>1, <3>1
    <3>4. QED
      BY <3>1, <3>2, <3>3, SmallestOf
  <2> HIDE DEF ends, later
  <2> DEFINE language == SubSeq(s, length + 1, opening - 1)
             tex == SubSeq(s, opening + 1, first - 2)
             answer == IF Trimmed(language) = <<"math">> THEN Event("display", e, tex)
                       ELSE Event("code", e, <<>>)
  <2>9. one = answer
    <3>1. S # {} /\ ends # {}
      BY <1>3
    <3>2. one = IF Trimmed(language) = <<"math">>
                THEN Event("display", Smallest(ends \cup {Len(s)}), tex)
                ELSE Event("code", Smallest(ends \cup {Len(s)}), <<>>)
      BY <3>1 DEF FenceOf, ends, first
    <3>3. QED
      BY <2>7, <3>2
  <2>10. SubSeq(u, length + 1, opening - 1) = language
         /\ SubSeq(u, opening + 1, first - 2) = tex
    <3>1. /\ length + 1 \in Nat /\ length + 1 >= 1 /\ opening - 1 \in Int
          /\ opening - 1 <= Len(s) /\ opening + 1 \in Nat /\ opening + 1 >= 1
          /\ first - 2 \in Int /\ first - 2 <= Len(s)
      BY <1>1, <2>4
    <3> DEFINE a == length + 1
               b == opening - 1
               c == opening + 1
               d == first - 2
    <3>2. /\ a \in Nat /\ a >= 1 /\ b \in Int /\ b <= Len(s)
          /\ c \in Nat /\ c >= 1 /\ d \in Int /\ d <= Len(s)
      BY <3>1
    <3> HIDE DEF a, b, c, d
    <3>3. SubSeq(u, a, b) = SubSeq(s, a, b)
      BY <3>2, SubSeqSame
    <3>4. SubSeq(u, c, d) = SubSeq(s, c, d)
      BY <3>2, SubSeqSame
    <3>5. QED
      BY <3>3, <3>4 DEF a, b, c, d
  <2>11. two = answer
    <3>1. T # {} /\ later # {}
      BY <2>6, <2>8
    <3>2. two = IF Trimmed(SubSeq(u, length + 1, opening - 1)) = <<"math">>
                THEN Event("display", Smallest(later \cup {Len(u)}),
                           SubSeq(u, opening + 1, Smallest(T) - 2))
                ELSE Event("code", Smallest(later \cup {Len(u)}), <<>>)
      BY <2>6, <3>1 DEF FenceOf, later
    <3>3. QED
      BY <2>6, <2>8, <2>10, <3>2
  <2> HIDE DEF one, two
  <2>12. Settled(one, two)
    BY <2>9, <2>11 DEF Settled
  <2>13. OfFront(one, n)
    BY <2>5, <2>9 DEF OfFront
  <2>14. QED
    BY <2>12, <2>13
<1>4. QED
  BY <1>2, <1>3

LEMMA AnswersDiffer ==
    /\ None # Wait
    /\ \A type, length, tex :
           /\ Event(type, length, tex) # None /\ Event(type, length, tex) # Wait
           /\ Event(type, length, tex).length = length
<1>1. None.is = "none" /\ Wait.is = "wait"
  BY DEF None, Wait
<1>2. \A type, length, tex : /\ Event(type, length, tex).is = "event"
                              /\ Event(type, length, tex).length = length
  BY DEF Event
<1>3. QED
  BY <1>1, <1>2

LEMMA FenceSame ==
    ASSUME NEW p, NEW q, MorePending(p, q)
    PROVE  /\ Settled(readFence(p, FALSE), readFence(q, FALSE))
           /\ OfFront(readFence(p, FALSE), Len(p.pending))
<1> DEFINE s == p.pending
           u == q.pending
           n == Len(s)
           c == s[1]
           length == countRun(s, 1, c)
           N == {i \in (length + 1)..n : s[i] = "\n"}
           one == readFence(p, FALSE)
           two == readFence(q, FALSE)
<1> SUFFICES Settled(one, two) /\ OfFront(one, n)
  OBVIOUS
<1>1. /\ Starts(s, u) /\ s \in Seq(Chars) /\ u \in Seq(Chars) /\ n \in Nat
      /\ Len(u) \in Nat /\ n <= Len(u) /\ (\A j \in 1..n : u[j] = s[j]) /\ 0 < n
      /\ u[1] = c
  BY DEF MorePending, Starts
<1>2. q.atLineStart = p.atLineStart /\ q.lineIndent = p.lineIndent
  BY DEF MorePending
<1> DEFINE later == countRun(u, 1, c)
           M == {i \in (later + 1)..Len(u) : u[i] = "\n"}
           Elsewhere == ~p.atLineStart \/ p.lineIndent > 3 \/ c \notin {"tick", "~"}
           ReadAs(v, l, newlines) ==
               IF Elsewhere THEN None
               ELSE IF l < 3 THEN (IF l = Len(v) THEN Wait ELSE None)
               ELSE IF newlines = {} THEN Wait
               ELSE FenceOf(v, l, Smallest(newlines),
                            ClosingLines(v, newlines, c, l), FALSE)
<1>3. one = ReadAs(s, length, N)
  BY DEF readFence, Unless, ClosingLines
<1>4. two = ReadAs(u, later, M)
  BY <1>1, <1>2 DEF readFence, Unless, ClosingLines
<1> HIDE DEF Elsewhere
<1>5. length \in 0..n
  <2>1. 1 \in 1..Len(s) /\ s \in Seq(Chars)
    BY <1>1
  <2>2. length \in 0..(Len(s) + 1 - 1)
    BY <2>1, RunIs
  <2>3. QED
    BY <1>1, <2>2
<1>6. CASE length = n
  <2>1. N = {}
    BY <1>1, <1>6
  <2>2. one = None \/ one = Wait
    BY <1>3, <1>6, <2>1
  <2>3. one = None => two = None
    <3>1. CASE Elsewhere
      BY <1>4, <3>1
    <3>2. CASE ~Elsewhere
      <4>1. one = Wait
        BY <1>3, <1>6, <2>1, <3>2
      <4> HIDE DEF one, two
      <4>2. QED
        BY <4>1, AnswersDiffer
    <3>3. QED
      BY <3>1, <3>2
  <2>4. QED
    BY <2>2, <2>3 DEF Settled, OfFront
<1>7. CASE length # n
  <2>1. later = length
    <3>1. 1 \in 1..Len(s) /\ 1 + length <= Len(s)
      BY <1>1, <1>5, <1>7
    <3>2. QED
      BY <1>1, <3>1, RunSame
  <2> HIDE DEF length, later, c
  <2>2. length # Len(u) /\ length # Len(s)
    BY <1>1, <1>5, <1>7
  <2>3. CASE Elsewhere \/ length < 3
    <3>1. one = None /\ two = None
      BY <1>3, <1>4, <2>1, <2>2, <2>3
    <3>2. QED
      BY <3>1 DEF Settled, OfFront
  <2>4. CASE ~Elsewhere /\ ~(length < 3) /\ N = {}
    <3>1. one = Wait
      BY <1>3, <2>4
    <3>2. QED
      BY <3>1 DEF Settled, OfFront
  <2>5. CASE ~Elsewhere /\ ~(length < 3) /\ N # {}
    <3> DEFINE opening == Smallest(N)
    <3>1. N \in SUBSET Nat /\ M \in SUBSET Nat
      BY <1>1, <1>5, <2>1
    <3>2. opening \in N
      BY <2>5, <3>1, SmallestIs
    <3>3. Smallest(M) = opening /\ M # {}
      <4>1. \A j \in Nat : j <= n => (j \in N <=> j \in M)
        BY <1>1, <1>5, <2>1
      <4>2. \A j \in N : j <= n
        BY <1>1, <1>5
      <4>3. n \in Nat /\ N # {}
        BY <1>1, <2>5
      <4> HIDE DEF N, M, n
      <4>4. Smallest(M) = Smallest(N)
        BY <3>1, <4>1, <4>2, <4>3, SmallestBefore
      <4>5. QED
        BY <3>1, <3>2, <4>1, <4>2, <4>4
    <3>4. opening \in (length + 1)..n /\ length \in 1..n
      BY <1>1, <1>5, <2>5, <3>2
    <3> HIDE DEF opening
    <3> DEFINE first == FenceOf(s, length, opening, ClosingLines(s, N, c, length), FALSE)
               second == FenceOf(u, length, opening, ClosingLines(u, M, c, length), FALSE)
    <3>5. M = {i \in (length + 1)..Len(u) : u[i] = "\n"}
          /\ N = {i \in (length + 1)..Len(s) : s[i] = "\n"}
      BY <2>1
    <3> HIDE DEF N, M, s, u
    <3>6. Settled(first, second) /\ OfFront(first, Len(s))
      BY <1>1, <3>4, <3>5, FenceOfSame DEF s, n
    <3>7. one = first
      BY <1>3, <2>5 DEF opening
    <3>8. two = second
      BY <1>4, <2>1, <2>5, <3>3
    <3>9. QED
      BY <3>6, <3>7, <3>8
  <2>6. QED
    BY <2>3, <2>4, <2>5
<1>8. QED
  BY <1>6, <1>7

CodeCloses(s, length) ==
    {i \in {j \in (length + 1)..Len(s) : s[j] = "tick" /\ s[j - 1] # "tick"} :
         countRun(s, i, "tick") = length}

LEMMA InlineCodeSame ==
    ASSUME NEW p, NEW q, MorePending(p, q), p.pending[Len(p.pending)] # "tick"
    PROVE  /\ Settled(readInlineCode(p, FALSE), readInlineCode(q, FALSE))
           /\ OfFront(readInlineCode(p, FALSE), Len(p.pending))
<1> DEFINE s == p.pending
           u == q.pending
           n == Len(s)
           length == countRun(s, 1, "tick")
           later == countRun(u, 1, "tick")
           S == CodeCloses(s, length)
           T == CodeCloses(u, later)
           one == readInlineCode(p, FALSE)
           two == readInlineCode(q, FALSE)
<1> SUFFICES Settled(one, two) /\ OfFront(one, n)
  OBVIOUS
<1>1. /\ Starts(s, u) /\ s \in Seq(Chars) /\ u \in Seq(Chars) /\ n \in Nat
      /\ Len(u) \in Nat /\ n <= Len(u) /\ (\A j \in 1..n : u[j] = s[j]) /\ 0 < n
      /\ u[1] = s[1] /\ s[n] # "tick"
  BY DEF MorePending, Starts
<1> DEFINE ReadAs(l, closing) ==
               IF s[1] # "tick" THEN None
               ELSE IF closing = {} THEN Wait
               ELSE Event("code", Smallest(closing) + l - 1, <<>>)
<1>2. one = ReadAs(length, S)
  BY DEF readInlineCode, Unless, CodeCloses
<1>3. two = ReadAs(later, T)
  BY <1>1 DEF readInlineCode, Unless, CodeCloses
<1>4. length \in Nat /\ 1 + length <= n /\ later = length
  <2>1. 1 \in 1..Len(s) /\ s[Len(s)] # "tick"
    BY <1>1
  <2>2. length \in 0..(Len(s) + 1 - 1) /\ 1 + length <= Len(s)
    BY <1>1, <2>1, RunIs
  <2>3. later = length
    BY <1>1, <2>1, <2>2, RunSame
  <2>4. QED
    BY <1>1, <2>2, <2>3
<1>5. CASE s[1] # "tick"
  <2>1. one = None /\ two = None
    BY <1>2, <1>3, <1>5
  <2>2. QED
    BY <2>1 DEF Settled, OfFront
<1>6. CASE s[1] = "tick" /\ S = {}
  <2>1. one = Wait
    BY <1>2, <1>6
  <2>2. QED
    BY <2>1 DEF Settled, OfFront
<1>7. CASE s[1] = "tick" /\ S # {}
  <2>13. length # 0
    <3>1. 1 \in 1..n /\ 1 + length = Smallest(RunEnds(s, 1, "tick"))
      BY <1>1, RunIs
    <3>2. RunEnds(s, 1, "tick") \in SUBSET Nat /\ RunEnds(s, 1, "tick") # {}
          /\ 1 \notin RunEnds(s, 1, "tick")
      BY <1>1, <1>7 DEF RunEnds
    <3>3. Smallest(RunEnds(s, 1, "tick")) # 1
      BY <3>2, SmallestIs
    <3>4. QED
      BY <1>4, <3>1, <3>3
  <2> HIDE DEF length, later
  <2>1. ASSUME NEW i \in 1..n
        PROVE  countRun(u, i, "tick") = countRun(s, i, "tick")
               /\ countRun(s, i, "tick") \in Nat /\ i + countRun(s, i, "tick") <= n
    <3>1. i \in 1..Len(s) /\ s[Len(s)] # "tick"
      BY <1>1
    <3>2. countRun(s, i, "tick") \in 0..(Len(s) + 1 - i)
          /\ i + countRun(s, i, "tick") <= Len(s)
      BY <1>1, <3>1, RunIs
    <3>3. countRun(u, i, "tick") = countRun(s, i, "tick")
      BY <1>1, <3>1, <3>2, RunSame
    <3>4. QED
      BY <1>1, <3>2, <3>3
  <2>2. \A i \in S : i \in 1..n /\ i + length <= n
    BY <1>1, <1>4, <2>1 DEF CodeCloses
  <2>3. S \in SUBSET Nat /\ T \in SUBSET Nat
    BY <1>1, <1>4 DEF CodeCloses
  <2>4. \A j \in Nat : j <= n => (j \in S <=> j \in T)
    <3>1. ASSUME NEW j \in Nat, j <= n PROVE j \in S <=> j \in T
      <4>1. CASE j < length + 1
        BY <1>1, <1>4, <4>1 DEF CodeCloses
      <4>2. CASE ~(j < length + 1)
        <5>1. /\ j \in 1..n /\ j \in (length + 1)..n /\ j \in (later + 1)..Len(u)
              /\ u[j] = s[j] /\ (j = 1 \/ u[j - 1] = s[j - 1])
          BY <1>1, <1>4, <3>1, <4>2
        <5>2. countRun(u, j, "tick") = countRun(s, j, "tick")
          BY <2>1, <5>1
        <5>3. j # 1
          BY <1>4, <2>13, <4>2
        <5>4. QED
          BY <1>4, <5>1, <5>2, <5>3 DEF CodeCloses
      <4>3. QED
        BY <4>1, <4>2
    <3>2. QED
      BY <3>1
  <2>5. Smallest(S) \in S
    BY <1>7, <2>3, SmallestIs
  <2>6. Smallest(T) = Smallest(S) /\ T # {}
    <3>1. \A j \in S : j <= n
      BY <1>1, <2>2
    <3>2. n \in Nat /\ S # {}
      BY <1>1, <1>7
    <3>3. Smallest(T) = Smallest(S)
      BY <2>3, <2>4, <3>1, <3>2, SmallestBefore
    <3>4. QED
      BY <2>3, <2>4, <2>5, <3>1, <3>3
  <2> DEFINE e == Smallest(S) + length - 1
  <2>7. e \in 1..n
    <3> DEFINE m == Smallest(S)
    <3>1. m \in 1..n /\ m + length <= n /\ m \in S
      BY <2>2, <2>5
    <3> HIDE DEF m
    <3>3. n \in Nat /\ length \in Nat /\ length # 0 /\ m \in Nat /\ m >= 1
      BY <1>1, <1>4, <2>13, <3>1
    <3> HIDE DEF n, S
    <3>4. m + length - 1 \in 1..n
      BY <3>1, <3>3
    <3>5. QED
      BY <3>4 DEF m
  <2>8. one = Event("code", e, <<>>)
    BY <1>2, <1>7
  <2>9. two = Event("code", e, <<>>)
    BY <1>3, <1>4, <1>7, <2>6
  <2> HIDE DEF e, one, two
  <2>10. Settled(one, two)
    BY <2>8, <2>9 DEF Settled
  <2>11. OfFront(one, n)
    BY <2>7, <2>8 DEF OfFront
  <2>12. QED
    BY <2>10, <2>11
<1>8. QED
  BY <1>5, <1>6, <1>7

(***************************************************************************)
(* An unescaped token.                                                     *)
(***************************************************************************)
Places(s, token, i) ==
    {j \in i..(Len(s) + 1 - Len(token)) : SubSeq(s, j, j + Len(token) - 1) = token}

NextPlace(s, token, i) == Smallest(Places(s, token, i))

\* What the search from i says, as f says of the places behind.
Sought(f, s, token, i) ==
    IF Places(s, token, i) = {} THEN 0
    ELSE IF ~isEscaped(s, NextPlace(s, token, i)) THEN NextPlace(s, token, i)
    ELSE f[NextPlace(s, token, i) + Len(token)]

Finds(f, s, token) == f = [i \in 1..(Len(s) + 2) |-> Sought(f, s, token, i)]

LEMMA NextPlaceIs ==
    ASSUME NEW s \in Seq(Chars), NEW token, Len(token) = 2, NEW i \in Nat,
           Places(s, token, i) # {}
    PROVE  /\ NextPlace(s, token, i) \in Places(s, token, i)
           /\ NextPlace(s, token, i) \in i..(Len(s) - 1)
<1>1. Len(s) \in Nat
  OBVIOUS
<1>2. Places(s, token, i) \in SUBSET Nat
  BY <1>1 DEF Places
<1>3. NextPlace(s, token, i) \in Places(s, token, i)
  BY <1>2, SmallestIs DEF NextPlace
<1> DEFINE k == NextPlace(s, token, i)
<1> HIDE DEF k
<1>4. k \in Places(s, token, i) => k \in i..(Len(s) - 1)
  BY <1>1 DEF Places
<1>5. QED
  BY <1>3, <1>4 DEF k

LEMMA FindExists ==
    ASSUME NEW s \in Seq(Chars), NEW token, Len(token) = 2
    PROVE  \E f : Finds(f, s, token)
<1> DEFINE n == Len(s)
           FoundFrom(g, m) == g = [i \in m..(n + 2) |-> Sought(g, s, token, i)]
           Lacking == {k \in 0..(n + 1) : ~ \E g : FoundFrom(g, n + 2 - k)}
<1>1. n \in Nat
  OBVIOUS
<1>2. Lacking = {}
  <2> SUFFICES ASSUME Lacking # {} PROVE FALSE
    OBVIOUS
  <2>1. Lacking \in SUBSET Nat
    OBVIOUS
  <2> HIDE DEF FoundFrom
  <2>2. PICK k \in Lacking : \A j \in Lacking : k <= j
    BY <2>1, LeastElement
  <2> DEFINE m == n + 2 - k
  <2>3. k \in 0..(n + 1) /\ m \in 1..(n + 2)
    BY <1>1, <2>2
  <2>4. \E g : k = 0 \/ FoundFrom(g, m + 1)
    <3>1. CASE k = 0
      BY <3>1
    <3>2. CASE k # 0
      <4>1. k - 1 \in 0..(n + 1) /\ n + 2 - (k - 1) = m + 1 /\ ~(k <= k - 1)
        BY <1>1, <2>3, <3>2
      <4>2. k - 1 \notin Lacking
        <5> HIDE DEF Lacking
        <5>1. QED
          BY <2>2, <4>1
      <4>3. QED
        BY <4>1, <4>2
    <3>3. QED
      BY <3>1, <3>2
  <2>5. PICK g : k = 0 \/ FoundFrom(g, m + 1)
    BY <2>4
  <2> DEFINE h == [i \in m..(n + 2) |-> IF i = m THEN Sought(g, s, token, m) ELSE g[i]]
  <2> HIDE DEF m
  <2>6. ASSUME NEW i \in m..(n + 2) PROVE h[i] = Sought(h, s, token, i)
    <3>1. i \in Nat /\ i >= 1
      BY <1>1, <2>3
    <3>2. Sought(h, s, token, i) = Sought(g, s, token, i)
      <4>1. CASE Places(s, token, i) = {} \/ ~isEscaped(s, NextPlace(s, token, i))
        BY <4>1 DEF Sought
      <4>2. CASE ~(Places(s, token, i) = {}) /\ isEscaped(s, NextPlace(s, token, i))
        <5> DEFINE j == NextPlace(s, token, i)
        <5>1. j \in i..(n - 1)
          BY <3>1, <4>2, NextPlaceIs
        <5> HIDE DEF j
        <5>2. j + 2 \in m..(n + 2) /\ j + 2 # m
          BY <1>1, <2>3, <5>1
        <5>3. h[j + 2] = g[j + 2]
          BY <5>2
        <5>4. Sought(h, s, token, i) = h[j + 2] /\ Sought(g, s, token, i) = g[j + 2]
          BY <4>2 DEF Sought, j
        <5>5. QED
          BY <5>3, <5>4
      <4>3. QED
        BY <4>1, <4>2
    <3>3. CASE i = m
      BY <3>2, <3>3
    <3>4. CASE i # m
      <4>1. k # 0 /\ i \in (m + 1)..(n + 2)
        BY <1>1, <2>3, <3>4 DEF m
      <4>2. FoundFrom(g, m + 1)
        BY <2>5, <4>1
      <4>3. g[i] = Sought(g, s, token, i)
        BY <4>1, <4>2 DEF FoundFrom
      <4>4. h[i] = g[i]
        BY <3>4
      <4>5. QED
        BY <3>2, <4>3, <4>4
    <3>5. QED
      BY <3>3, <3>4
  <2>7. h = [i \in m..(n + 2) |-> h[i]]
    OBVIOUS
  <2> HIDE DEF h
  <2>8. h = [i \in m..(n + 2) |-> Sought(h, s, token, i)]
    BY <2>6, <2>7
  <2>9. FoundFrom(h, n + 2 - k)
    BY <2>8 DEF FoundFrom, m
  <2>10. QED
    BY <2>2, <2>9
<1>3. n + 1 \in 0..(n + 1) /\ n + 2 - (n + 1) = 1
  BY <1>1
<1>4. \E g : FoundFrom(g, 1)
  <2> HIDE DEF FoundFrom
  <2>1. n + 1 \notin Lacking
    BY <1>2
  <2>2. \E g : FoundFrom(g, n + 2 - (n + 1))
    BY <1>3, <2>1
  <2>3. QED
    BY <1>3, <2>2
<1>5. QED
  BY <1>4 DEF Finds

LEMMA FindIs ==
    ASSUME NEW s \in Seq(Chars), NEW token, Len(token) = 2
    PROVE  \E f : /\ Finds(f, s, token)
                  /\ \A start : findUnescaped(s, token, start) = f[start]
<1> DEFINE f == CHOOSE g : Finds(g, s, token)
<1>1. Finds(f, s, token)
  BY FindExists
<1>2. \A start : findUnescaped(s, token, start) = f[start]
  BY DEF findUnescaped, Finds, Sought, NextPlace, Places
<1>3. QED
  BY <1>1, <1>2

\* A token that was found is found where it was.
LEMMA FoundSame ==
    ASSUME NEW s, NEW u, Starts(s, u), NEW token, Len(token) = 2,
           NEW start \in 1..(Len(s) + 2), findUnescaped(s, token, start) # 0
    PROVE  /\ findUnescaped(u, token, start) = findUnescaped(s, token, start)
           /\ findUnescaped(s, token, start) \in start..(Len(s) - 1)
<1> DEFINE n == Len(s)
<1>1. /\ s \in Seq(Chars) /\ u \in Seq(Chars) /\ n \in Nat /\ Len(u) \in Nat
      /\ n <= Len(u) /\ (\A j \in 1..n : u[j] = s[j]) /\ 0 < n
  BY DEF Starts
<1>2. PICK f : Finds(f, s, token) /\ \A i : findUnescaped(s, token, i) = f[i]
  BY <1>1, FindIs
<1>3. PICK g : Finds(g, u, token) /\ \A i : findUnescaped(u, token, i) = g[i]
  BY <1>1, FindIs
<1>4. /\ \A i \in 1..(n + 2) : f[i] = Sought(f, s, token, i)
      /\ \A i \in 1..(n + 2) : g[i] = Sought(g, u, token, i)
  <2>1. \A i \in 1..(n + 2) : f[i] = Sought(f, s, token, i)
    BY <1>2 DEF Finds
  <2>2. \A i \in 1..(n + 2) : i \in 1..(Len(u) + 2)
    BY <1>1
  <2>3. \A i \in 1..(n + 2) : g[i] = Sought(g, u, token, i)
    BY <1>3, <2>2 DEF Finds
  <2>4. QED
    BY <2>1, <2>3
<1> DEFINE Wrong == {k \in 0..(n + 1) : /\ f[n + 2 - k] # 0
                                        /\ \/ g[n + 2 - k] # f[n + 2 - k]
                                           \/ f[n + 2 - k] \notin (n + 2 - k)..(n - 1)}
<1>5. Wrong = {}
  <2> SUFFICES ASSUME Wrong # {} PROVE FALSE
    OBVIOUS
  <2>1. Wrong \in SUBSET Nat
    OBVIOUS
  <2>2. PICK k \in Wrong : \A j \in Wrong : k <= j
    BY <2>1, LeastElement
  <2> DEFINE i == n + 2 - k
             m == NextPlace(s, token, i)
  <2>3. i \in 1..(n + 2) /\ i \in Nat /\ k \in 0..(n + 1)
    BY <1>1, <2>2
  <2>4. f[i] # 0 /\ (g[i] # f[i] \/ f[i] \notin i..(n - 1))
    BY <2>2
  <2> HIDE DEF i
  <2>5. f[i] = Sought(f, s, token, i) /\ g[i] = Sought(g, u, token, i)
    BY <1>4, <2>3
  <2>6. Places(s, token, i) # {}
    BY <2>4, <2>5 DEF Sought
  <2>7. m \in Places(s, token, i) /\ m \in i..(n - 1)
    BY <1>1, <2>3, <2>6, NextPlaceIs
  <2>8. Places(u, token, i) # {} /\ NextPlace(u, token, i) = m
    <3> DEFINE S == Places(s, token, i)
               T == Places(u, token, i)
    <3>1. S \in SUBSET Nat /\ T \in SUBSET Nat
      BY <1>1, <2>3 DEF Places
    <3>2. ASSUME NEW j \in Nat, j <= n - 1 PROVE j \in S <=> j \in T
      <4>1. CASE j < i
        BY <1>1, <2>3, <3>2, <4>1 DEF Places
      <4>2. CASE ~(j < i)
        <5>1. j \in Nat /\ j + 1 \in Int /\ j \in i..(n - 1) /\ j >= 1 /\ j + 1 <= Len(s)
              /\ j \in i..(n + 1 - Len(token)) /\ j \in i..(Len(u) + 1 - Len(token))
              /\ j + Len(token) - 1 = j + 1
          BY <1>1, <2>3, <3>2, <4>2
        <5>2. SubSeq(u, j, j + 1) = SubSeq(s, j, j + 1)
          BY <5>1, SubSeqSame
        <5>3. QED
          BY <5>1, <5>2 DEF Places
      <4>3. QED
        BY <4>1, <4>2
    <3>3. \A j \in S : j <= n - 1
      BY <1>1, <2>3 DEF Places
    <3>4. n - 1 \in Nat /\ m \in S /\ S # {} /\ m \in Nat /\ m <= n - 1
      BY <1>1, <2>3, <2>6, <2>7
    <3> HIDE DEF S, T, m
    <3>5. Smallest(T) = Smallest(S)
      BY <3>1, <3>2, <3>3, <3>4, SmallestBefore
    <3>6. m \in T
      BY <3>2, <3>4
    <3>7. QED
      BY <3>5, <3>6 DEF S, T, m, NextPlace
  <2>9. isEscaped(u, m) = isEscaped(s, m)
    <3>1. m \in 1..Len(s)
      BY <1>1, <2>3, <2>7
    <3> HIDE DEF m
    <3>2. QED
      BY <3>1, EscapedSame
  <2>10. CASE ~isEscaped(s, m)
    <3>1. f[i] = m /\ g[i] = m
      BY <2>5, <2>6, <2>8, <2>9, <2>10 DEF Sought
    <3>2. QED
      BY <2>4, <2>7, <3>1
  <2>11. CASE isEscaped(s, m)
    <3>1. f[i] = f[m + 2] /\ g[i] = g[m + 2]
      BY <2>5, <2>6, <2>8, <2>9, <2>11 DEF Sought
    <3> HIDE DEF m
    <3>2. n - m \in 0..(n + 1) /\ n + 2 - (n - m) = m + 2 /\ ~(k <= n - m)
      <4>1. n \in Nat /\ k \in Nat /\ i = n + 2 - k /\ i \in Nat /\ i >= 1
        BY <1>1, <2>3 DEF i
      <4>2. m \in Nat /\ i <= m /\ m <= n - 1
        BY <1>1, <2>3, <2>7
      <4> HIDE DEF n, Wrong
      <4>3. QED
        BY <4>1, <4>2
    <3>3. n - m \notin Wrong
      <4> HIDE DEF Wrong
      <4>1. QED
        BY <2>2, <3>2
    <3>4. f[m + 2] # 0
      BY <2>4, <3>1
    <3>5. g[m + 2] = f[m + 2] /\ f[m + 2] \in (m + 2)..(n - 1)
      BY <3>2, <3>3, <3>4
    <3>6. f[i] \in i..(n - 1)
      BY <1>1, <2>3, <2>7, <3>1, <3>5
    <3>7. QED
      BY <2>4, <3>1, <3>5, <3>6
  <2>12. QED
    BY <2>10, <2>11
<1>6. n + 2 - start \in 0..(n + 1) /\ n + 2 - (n + 2 - start) = start
  BY <1>1
<1>7. f[start] # 0
  BY <1>2
<1>8. n + 2 - start \notin Wrong
  BY <1>5
<1>9. g[start] = f[start] /\ f[start] \in start..(n - 1)
  BY <1>6, <1>7, <1>8
<1>10. QED
  BY <1>2, <1>3, <1>9

(***************************************************************************)
(* Math.                                                                   *)
(***************************************************************************)
LEMMA DelimitedSame ==
    ASSUME NEW s, NEW u, Starts(s, u), NEW closer, Len(closer) = 2, NEW type
    PROVE  /\ Settled(Delimited(s, closer, type, FALSE), Delimited(u, closer, type, FALSE))
           /\ OfFront(Delimited(s, closer, type, FALSE), Len(s))
<1> DEFINE n == Len(s)
           close == findUnescaped(s, closer, 3)
           one == Delimited(s, closer, type, FALSE)
           two == Delimited(u, closer, type, FALSE)
<1> SUFFICES Settled(one, two) /\ OfFront(one, n)
  OBVIOUS
<1>1. n \in Nat /\ 0 < n /\ 3 \in 1..(Len(s) + 2)
  BY DEF Starts
<1>2. CASE close = 0
  <2>1. one = Wait
    BY <1>2 DEF Delimited, Unless
  <2>2. QED
    BY <2>1 DEF Settled, OfFront
<1>3. CASE close # 0
  <2>1. findUnescaped(u, closer, 3) = close /\ close \in 3..(n - 1)
    BY <1>1, <1>3, FoundSame
  <2> HIDE DEF close
  <2> DEFINE tex == SubSeq(s, 3, close - 1)
  <2>2. SubSeq(u, 3, close - 1) = tex
    <3>1. 3 \in Nat /\ 3 >= 1 /\ close - 1 \in Int /\ close - 1 <= Len(s)
      BY <1>1, <2>1
    <3>2. QED
      BY <3>1, SubSeqSame
  <2>3. one = Event(type, close + 1, tex)
    BY <1>3 DEF Delimited, close
  <2>4. two = Event(type, close + 1, tex)
    BY <1>3, <2>1, <2>2 DEF Delimited
  <2>5. close + 1 \in 1..n
    BY <1>1, <2>1
  <2> HIDE DEF one, two, tex
  <2>6. Settled(one, two)
    BY <2>3, <2>4 DEF Settled
  <2>7. OfFront(one, n)
    BY <2>3, <2>5 DEF OfFront
  <2>8. QED
    BY <2>6, <2>7
<1>4. QED
  BY <1>2, <1>3

\* An amount of money: a text that does not end in a digit tells already.
LEMMA MoneySame ==
    ASSUME NEW s, NEW u, Starts(s, u), Len(s) > 1, s[Len(s)] \notin Digits
    PROVE  isMoney(u) <=> isMoney(s)
<1> DEFINE n == Len(s)
<1>1. /\ s \in Seq(Chars) /\ u \in Seq(Chars) /\ n \in Nat /\ Len(u) \in Nat
      /\ n <= Len(u) /\ (\A j \in 1..n : u[j] = s[j]) /\ 1 < n /\ s[n] \notin Digits
  BY DEF Starts
<1> DEFINE Amount(v, k) ==
               /\ v[2] \in Digits /\ v[k] \in Digits
               /\ \A i \in 2..k : \/ v[i] \in Digits
                                  \/ v[i] \in MoneySeparators /\ v[i + 1] \in Digits
           Stops(v, k) == k = Len(v) \/ v[k + 1] \in Spaces \cup AfterMoney
<1>2. /\ isMoney(s) <=> \E k \in 2..n : Amount(s, k) /\ Stops(s, k)
      /\ isMoney(u) <=> \E k \in 2..Len(u) : Amount(u, k) /\ Stops(u, k)
  BY DEF isMoney
<1>3. ASSUME NEW k \in 2..n, k < n PROVE Amount(u, k) <=> Amount(s, k)
  <2>1. /\ u[2] = s[2] /\ u[k] = s[k]
        /\ \A i \in 2..k : u[i] = s[i] /\ u[i + 1] = s[i + 1]
    BY <1>1, <1>3
  <2>2. QED
    BY <2>1
<1>4. ASSUME NEW k \in 2..n, k < n PROVE Stops(u, k) <=> Stops(s, k)
  <2>1. k # n /\ k # Len(u) /\ u[k + 1] = s[k + 1]
    BY <1>1, <1>4
  <2>2. QED
    BY <2>1
<1>5. ASSUME NEW k \in 2..n, Amount(s, k), Stops(s, k) PROVE isMoney(u)
  <2>1. k # n
    BY <1>1, <1>5
  <2>2. k < n /\ k \in 2..Len(u)
    BY <1>1, <2>1
  <2> HIDE DEF Amount, Stops
  <2>3. QED
    BY <1>2, <1>3, <1>4, <1>5, <2>2
<1>6. ASSUME NEW k \in 2..Len(u), Amount(u, k), Stops(u, k) PROVE isMoney(s)
  <2>1. CASE k < n
    <3>1. k \in 2..n
      BY <1>1, <2>1
    <3> HIDE DEF Amount, Stops
    <3>2. QED
      BY <1>2, <1>3, <1>4, <1>6, <2>1, <3>1
  <2>2. CASE k = n
    BY <1>1, <1>6, <2>2
  <2>3. CASE k > n
    <3>1. n \in 2..k /\ u[n] \notin Digits
      BY <1>1, <2>3
    <3>2. u[n] \in MoneySeparators
      BY <1>6, <3>1
    <3>3. n # 2
      BY <1>1, <1>6, <3>1
    <3>12. n \in Nat /\ k \in Nat /\ 1 < n /\ n < k /\ n # 2
      BY <1>1, <2>3, <3>3
    <3>4. n - 1 \in 2..k /\ n - 1 \in 2..n /\ n - 1 < n /\ (n - 1) + 1 = n
      <4> HIDE DEF n
      <4>1. QED
        BY <3>12
    <3>5. u[n - 1] \in Digits
      BY <1>6, <3>1, <3>4
    <3>6. \A i \in 2..(n - 1) : i \in 2..k
      BY <1>1, <2>3
    <3>7. Amount(u, n - 1)
      BY <1>6, <3>5, <3>6
    <3>8. Amount(s, n - 1)
      <4> HIDE DEF Amount
      <4>1. QED
        BY <1>3, <3>4, <3>7
    <3>9. s[n] \in AfterMoney
      <4>1. s[n] \in MoneySeparators
        BY <1>1, <3>2
      <4>2. QED
        BY <4>1 DEF MoneySeparators, AfterMoney
    <3>10. Stops(s, n - 1)
      BY <3>4, <3>9
    <3> HIDE DEF Amount, Stops
    <3>11. QED
      BY <1>2, <3>4, <3>8, <3>10
  <2>4. QED
    BY <1>1, <2>1, <2>2, <2>3
<1> HIDE DEF Amount, Stops
<1>7. QED
  BY <1>2, <1>5, <1>6

\* Inline math between dollars.
Dollars(s) ==
    IF isMoney(s) \/ s[2] \in Spaces THEN None
    ELSE IF DollarCloses(s) = {} THEN Wait
    ELSE IF Smallest(DollarCloses(s)) = Len(s) THEN Wait
    ELSE Event("inline", Smallest(DollarCloses(s)),
               SubSeq(s, 2, Smallest(DollarCloses(s)) - 1))

LEMMA DollarsSame ==
    ASSUME NEW s, NEW u, Starts(s, u), Len(s) > 1, s[Len(s)] \notin Digits
    PROVE  Settled(Dollars(s), Dollars(u)) /\ OfFront(Dollars(s), Len(s))
<1> DEFINE n == Len(s)
           S == DollarCloses(s)
           T == DollarCloses(u)
           m == Smallest(S)
           one == Dollars(s)
           two == Dollars(u)
<1> SUFFICES Settled(one, two) /\ OfFront(one, n)
  OBVIOUS
<1>1. /\ s \in Seq(Chars) /\ u \in Seq(Chars) /\ n \in Nat /\ Len(u) \in Nat
      /\ n <= Len(u) /\ (\A j \in 1..n : u[j] = s[j]) /\ 1 < n
  BY DEF Starts
<1>2. (isMoney(u) <=> isMoney(s)) /\ u[2] = s[2]
  <2>1. isMoney(u) <=> isMoney(s)
    BY MoneySame
  <2>2. u[2] = s[2]
    BY <1>1
  <2>3. QED
    BY <2>1, <2>2
<1>3. CASE isMoney(s) \/ s[2] \in Spaces
  <2>1. one = None /\ two = None
    BY <1>2, <1>3 DEF Dollars
  <2>2. QED
    BY <2>1 DEF Settled, OfFront
<1>4. CASE ~(isMoney(s) \/ s[2] \in Spaces) /\ (S = {} \/ m = n)
  <2>1. one = Wait
    BY <1>4 DEF Dollars
  <2>2. QED
    BY <2>1 DEF Settled, OfFront
<1>5. CASE ~(isMoney(s) \/ s[2] \in Spaces) /\ ~(S = {} \/ m = n)
  <2>1. S \in SUBSET Nat /\ T \in SUBSET Nat /\ S \subseteq 2..n
    BY <1>1 DEF DollarCloses
  <2>2. m \in S /\ \A j \in S : m <= j
    BY <1>5, <2>1, SmallestIs
  <2>3. m \in 2..n /\ m < n
    BY <1>1, <1>5, <2>1, <2>2
  <2>4. ASSUME NEW j \in Nat, j < n PROVE j \in T <=> j \in S
    <3>1. CASE j < 2
      BY <1>1, <2>4, <3>1 DEF DollarCloses
    <3>2. CASE ~(j < 2)
      <4>1. /\ j \in 2..n /\ j \in 2..Len(u) /\ j # n /\ j # Len(u) /\ j \in 1..Len(s)
            /\ u[j] = s[j] /\ u[j - 1] = s[j - 1] /\ u[j + 1] = s[j + 1]
        BY <1>1, <2>4, <3>2
      <4>2. isEscaped(u, j) = isEscaped(s, j)
        BY <4>1, EscapedSame
      <4>3. QED
        BY <4>1, <4>2 DEF DollarCloses
    <3>3. QED
      BY <3>1, <3>2
  <2>5. m \in T /\ \A j \in T : m <= j
    <3>1. m \in T
      BY <2>1, <2>2, <2>3, <2>4
    <3>2. ASSUME NEW j \in T PROVE m <= j
      <4>1. j \in Nat
        BY <2>1
      <4>2. CASE j < n
        BY <2>2, <2>4, <4>1, <4>2
      <4>3. CASE ~(j < n)
        BY <1>1, <2>3, <4>1, <4>3
      <4>4. QED
        BY <4>2, <4>3
    <3>3. QED
      BY <3>1, <3>2
  <2>6. Smallest(T) = m /\ T # {}
    <3>1. m \in T
      BY <2>5
    <3>2. Smallest(T) = m
      BY <2>1, <2>5, SmallestOf
    <3>3. QED
      BY <3>1, <3>2
  <2>7. m # Len(u) /\ m # n
    BY <1>1, <2>3
  <2> DEFINE tex == SubSeq(s, 2, m - 1)
  <2>8. SubSeq(u, 2, m - 1) = tex
    <3>1. 2 \in Nat /\ 2 >= 1 /\ m - 1 \in Int /\ m - 1 <= Len(s)
      BY <1>1, <2>3
    <3>2. QED
      BY <3>1, SubSeqSame
  <2>9. one = Event("inline", m, tex)
    BY <1>5 DEF Dollars
  <2>10. two = Event("inline", m, tex)
    BY <1>2, <1>5, <2>6, <2>7, <2>8 DEF Dollars
  <2> HIDE DEF one, two, tex, m
  <2>11. Settled(one, two)
    BY <2>9, <2>10 DEF Settled
  <2>12. OfFront(one, n)
    BY <1>1, <2>3, <2>9 DEF OfFront
  <2>13. QED
    BY <2>11, <2>12
<1>6. QED
  BY <1>3, <1>4, <1>5

LEMMA OneElement ==
    ASSUME NEW s \in Seq(Chars), Len(s) = 1
    PROVE  s = <<s[1]>>
<1> DEFINE c == s[1]
           t == <<c>>
<1>1. c \in Chars /\ Len(s) = 1
  OBVIOUS
<1> HIDE DEF c
<1>2. t \in Seq(Chars) /\ Len(t) = 1 /\ t[1] = c
  BY <1>1
<1> HIDE DEF t
<1>3. Len(s) = Len(t) /\ \A i \in 1..Len(s) : s[i] = t[i]
  BY <1>1, <1>2 DEF c
<1>4. s = t
  BY <1>2, <1>3, SeqEqual
<1>5. QED
  BY <1>4 DEF t, c

LEMMA TwoElements ==
    ASSUME NEW s \in Seq(Chars), Len(s) >= 2
    PROVE  SubSeq(s, 1, 2) = <<s[1], s[2]>>
<1> DEFINE a == s[1]
           b == s[2]
           t == <<a, b>>
           v == SubSeq(s, 1, 2)
<1>1. a \in Chars /\ b \in Chars
  OBVIOUS
<1>2. v \in Seq(Chars) /\ Len(v) = 2 /\ v[1] = a /\ v[2] = b
  OBVIOUS
<1> HIDE DEF a, b, v
<1>3. t \in Seq(Chars) /\ Len(t) = 2 /\ t[1] = a /\ t[2] = b
  BY <1>1
<1> HIDE DEF t
<1>4. Len(v) = Len(t) /\ \A i \in 1..Len(v) : v[i] = t[i]
  BY <1>2, <1>3
<1>5. v = t
  BY <1>2, <1>3, <1>4, SeqEqual
<1>6. QED
  BY <1>5 DEF t, v, a, b

\* What readMath says, by the first two characters.
LEMMA MathByFront ==
    ASSUME NEW p, p.pending \in Seq(Chars), p.pending # <<>>
    PROVE  LET s == p.pending
               free == p.trailingBackslashes % 2 = 0
               read == readMath(p, FALSE)
           IN  /\ Len(s) = 1 => read = IF s[1] \in {"\\", "$"} THEN Wait ELSE None
               /\ Len(s) > 1 =>
                      read = IF ~free THEN None
                             ELSE IF s[1] = "$" /\ s[2] = "$"
                                  THEN Delimited(s, <<"$", "$">>, "display", FALSE)
                             ELSE IF s[1] = "$" THEN Dollars(s)
                             ELSE IF s[1] = "\\" /\ s[2] = "("
                                  THEN Delimited(s, <<"\\", ")">>, "inline", FALSE)
                             ELSE IF s[1] = "\\" /\ s[2] = "["
                                  THEN Delimited(s, <<"\\", "]">>, "display", FALSE)
                             ELSE None
<1> DEFINE s == p.pending
           free == p.trailingBackslashes % 2 = 0
           read == readMath(p, FALSE)
           two == Upto(s, 2)
           inline == IF isMoney(s) \/ s[2] \in Spaces THEN None
                     ELSE IF DollarCloses(s) = {} THEN Unless(FALSE)
                     ELSE IF Smallest(DollarCloses(s)) = Len(s) /\ ~FALSE THEN Wait
                     ELSE Event("inline", Smallest(DollarCloses(s)),
                                SubSeq(s, 2, Smallest(DollarCloses(s)) - 1))
<1>1. s \in Seq(Chars) /\ Len(s) \in Nat /\ 0 < Len(s)
  OBVIOUS
<1>8. Unless(FALSE) = Wait
  BY DEF Unless
<1>2. inline = Dollars(s)
  BY <1>8 DEF Dollars
<1>3. read = CASE free /\ two = <<"$", "$">> -> Delimited(s, <<"$", "$">>, "display", FALSE)
               [] free /\ s = <<"$">> -> Wait
               [] free /\ s[1] = "$" /\ Len(s) > 1 /\ s[2] # "$" -> Dollars(s)
               [] free /\ two = <<"\\", "(">> -> Delimited(s, <<"\\", ")">>, "inline", FALSE)
               [] free /\ two = <<"\\", "[">> -> Delimited(s, <<"\\", "]">>, "display", FALSE)
               [] OTHER -> IF s \in {<<"\\">>, <<"$">>} THEN Wait ELSE None
  BY <1>2, <1>8 DEF readMath
<1> HIDE DEF s, free, read, two, inline
<1> DEFINE n == Len(s)
<1>4. CASE n = 1
  <2>1. s = <<s[1]>>
    BY <1>1, <1>4, OneElement
  <2>2. \A a, b : two # <<a, b>>
    <3>1. two = s
      <4>1. two = SubSeq(s, 1, 1)
        BY <1>4 DEF Upto, two
      <4>2. QED
        BY <1>1, <1>4, <4>1, SubSeqFull
    <3>2. QED
      BY <2>1, <3>1
  <2>3. (s = <<"\\">> <=> s[1] = "\\") /\ (s = <<"$">> <=> s[1] = "$")
    BY <2>1
  <2>4. ~(n > 1)
    BY <1>4
  <2>5. read = IF s \in {<<"\\">>, <<"$">>} THEN Wait ELSE None
    BY <1>3, <2>2, <2>3, <2>4
  <2>6. read = IF s[1] \in {"\\", "$"} THEN Wait ELSE None
    BY <2>3, <2>5
  <2>7. QED
    BY <2>4, <2>6 DEF s, free, read
<1>5. CASE n > 1
  <2>1. two = <<s[1], s[2]>>
    <3>1. Len(s) >= 2
      BY <1>1, <1>5
    <3>2. two = SubSeq(s, 1, 2)
      BY <3>1 DEF Upto, two
    <3>3. QED
      BY <1>1, <3>1, <3>2, TwoElements
  <2>2. n # 1 /\ Len(s) # 1
    <3>1. n \in Nat
      BY <1>1
    <3> HIDE DEF n
    <3>2. n # 1
      BY <1>5, <3>1
    <3>3. QED
      BY <3>2 DEF n
  <2>7. s # <<"$">> /\ s # <<"\\">>
    BY <2>2
  <2>3. \A a, b : two = <<a, b>> <=> s[1] = a /\ s[2] = b
    BY <2>1
  <2>4. read = IF ~free THEN None
               ELSE IF s[1] = "$" /\ s[2] = "$"
                    THEN Delimited(s, <<"$", "$">>, "display", FALSE)
               ELSE IF s[1] = "$" THEN Dollars(s)
               ELSE IF s[1] = "\\" /\ s[2] = "("
                    THEN Delimited(s, <<"\\", ")">>, "inline", FALSE)
               ELSE IF s[1] = "\\" /\ s[2] = "["
                    THEN Delimited(s, <<"\\", "]">>, "display", FALSE)
               ELSE None
    <3>1. /\ two = <<"$", "$">> <=> s[1] = "$" /\ s[2] = "$"
          /\ two = <<"\\", "(">> <=> s[1] = "\\" /\ s[2] = "("
          /\ two = <<"\\", "[">> <=> s[1] = "\\" /\ s[2] = "["
      BY <2>3
    <3>2. "$" # "\\" /\ "(" # "["
      OBVIOUS
    <3>3. QED
      BY <1>3, <1>5, <2>7, <3>1, <3>2
  <2>6. QED
    BY <2>4, <2>2 DEF s, free, read
<1>6. n = 1 \/ n > 1
  <2>1. n \in Nat /\ 0 < n
    BY <1>1
  <2> HIDE DEF n
  <2>2. QED
    BY <2>1
<1>7. QED
  BY <1>4, <1>5, <1>6

LEMMA MathSame ==
    ASSUME NEW p, NEW q, MorePending(p, q), p.pending[Len(p.pending)] \notin Digits
    PROVE  /\ Settled(readMath(p, FALSE), readMath(q, FALSE))
           /\ OfFront(readMath(p, FALSE), Len(p.pending))
<1> DEFINE s == p.pending
           u == q.pending
           n == Len(s)
           free == p.trailingBackslashes % 2 = 0
           one == readMath(p, FALSE)
           two == readMath(q, FALSE)
           Math(v) == IF ~free THEN None
                      ELSE IF v[1] = "$" /\ v[2] = "$"
                           THEN Delimited(v, <<"$", "$">>, "display", FALSE)
                      ELSE IF v[1] = "$" THEN Dollars(v)
                      ELSE IF v[1] = "\\" /\ v[2] = "("
                           THEN Delimited(v, <<"\\", ")">>, "inline", FALSE)
                      ELSE IF v[1] = "\\" /\ v[2] = "["
                           THEN Delimited(v, <<"\\", "]">>, "display", FALSE)
                      ELSE None
<1> SUFFICES Settled(one, two) /\ OfFront(one, n)
  OBVIOUS
<1>1. /\ Starts(s, u) /\ s \in Seq(Chars) /\ u \in Seq(Chars) /\ n \in Nat
      /\ Len(u) \in Nat /\ n <= Len(u) /\ (\A j \in 1..n : u[j] = s[j]) /\ 0 < n
      /\ u[1] = s[1] /\ s[n] \notin Digits /\ s # <<>> /\ u # <<>>
  BY DEF MorePending, Starts
<1>2. q.trailingBackslashes = p.trailingBackslashes
  BY DEF MorePending
<1>3. /\ Len(s) = 1 => one = IF s[1] \in {"\\", "$"} THEN Wait ELSE None
      /\ Len(s) > 1 => one = Math(s)
  BY <1>1, MathByFront
<1>4. /\ Len(u) = 1 => two = IF u[1] \in {"\\", "$"} THEN Wait ELSE None
      /\ Len(u) > 1 => two = Math(u)
  BY <1>1, <1>2, MathByFront
<1> HIDE DEF s, u, one, two, free
<1>5. CASE n = 1
  <2>1. CASE s[1] \in {"\\", "$"}
    <3>1. one = Wait
      BY <1>3, <1>5, <2>1
    <3>2. QED
      BY <3>1 DEF Settled, OfFront
  <2>2. CASE s[1] \notin {"\\", "$"}
    <3>1. one = None
      BY <1>3, <1>5, <2>2
    <3>2. s[1] # "$" /\ s[1] # "\\" /\ u[1] # "$" /\ u[1] # "\\"
      BY <1>1, <2>2
    <3>3. Math(u) = None
      BY <3>2
    <3>4. Len(u) = 1 \/ Len(u) > 1
      <4> DEFINE k == Len(u)
      <4>1. k \in Nat /\ 0 < k
        BY <1>1
      <4> HIDE DEF k
      <4>2. k = 1 \/ k > 1
        BY <4>1
      <4>3. QED
        BY <4>2 DEF k
    <3>5. two = None
      <4>1. u[1] \notin {"\\", "$"}
        BY <3>2
      <4> HIDE DEF Math
      <4>2. QED
        BY <1>4, <3>3, <3>4, <4>1
    <3>6. QED
      BY <3>1, <3>5 DEF Settled, OfFront
  <2>3. QED
    BY <2>1, <2>2
<1>6. CASE n > 1
  <2>1. Len(s) > 1 /\ Len(u) > 1 /\ u[2] = s[2] /\ s[Len(s)] \notin Digits
    BY <1>1, <1>6
  <2>2. one = Math(s) /\ two = Math(u)
    BY <1>3, <1>4, <2>1
  <2> DEFINE Both(x, y) == Settled(x, y) /\ OfFront(x, Len(s))
  <2>3. \A closer, type : Len(closer) = 2 =>
            Both(Delimited(s, closer, type, FALSE), Delimited(u, closer, type, FALSE))
    <3> TAKE closer, type
    <3>1. SUFFICES ASSUME Len(closer) = 2
                   PROVE  Both(Delimited(s, closer, type, FALSE),
                               Delimited(u, closer, type, FALSE))
      OBVIOUS
    <3>2. QED
      BY <1>1, <3>1, DelimitedSame
  <2>4. Both(Dollars(s), Dollars(u))
    BY <1>1, <2>1, DollarsSame
  <2>5. Both(None, None)
    BY DEF Settled, OfFront
  <2>6. Len(<<"$", "$">>) = 2 /\ Len(<<"\\", ")">>) = 2 /\ Len(<<"\\", "]">>) = 2
    OBVIOUS
  <2> DEFINE D1(v) == Delimited(v, <<"$", "$">>, "display", FALSE)
             D2(v) == Delimited(v, <<"\\", ")">>, "inline", FALSE)
             D3(v) == Delimited(v, <<"\\", "]">>, "display", FALSE)
  <2>7. Both(D1(s), D1(u)) /\ Both(D2(s), D2(u)) /\ Both(D3(s), D3(u))
    <3> HIDE DEF Both
    <3>1. QED
      BY <2>3, <2>6
  <2>8. /\ Math(s) = IF ~free THEN None
                     ELSE IF s[1] = "$" /\ s[2] = "$" THEN D1(s)
                     ELSE IF s[1] = "$" THEN Dollars(s)
                     ELSE IF s[1] = "\\" /\ s[2] = "(" THEN D2(s)
                     ELSE IF s[1] = "\\" /\ s[2] = "[" THEN D3(s)
                     ELSE None
        /\ Math(u) = IF ~free THEN None
                     ELSE IF s[1] = "$" /\ s[2] = "$" THEN D1(u)
                     ELSE IF s[1] = "$" THEN Dollars(u)
                     ELSE IF s[1] = "\\" /\ s[2] = "(" THEN D2(u)
                     ELSE IF s[1] = "\\" /\ s[2] = "[" THEN D3(u)
                     ELSE None
    BY <1>1, <2>1
  <2> HIDE DEF D1, D2, D3, Math, Both
  <2>9. Both(Math(s), Math(u))
    BY <2>4, <2>5, <2>7, <2>8
  <2>10. QED
    BY <2>2, <2>9 DEF Both
<1>7. n = 1 \/ n > 1
  <2>1. n \in Nat /\ 0 < n
    BY <1>1
  <2> HIDE DEF n
  <2>2. QED
    BY <2>1
<1>8. QED
  BY <1>5, <1>6, <1>7

(***************************************************************************)
(* What a turn reads.                                                      *)
(***************************************************************************)
Reading(p) == Read(readFence(p, FALSE), readInlineCode(p, FALSE), readMath(p, FALSE))

LEMMA ReadCases ==
    ASSUME NEW fence, NEW code, NEW math
    PROVE  Read(fence, code, math) = IF fence # None THEN fence
                                     ELSE IF code # None THEN code
                                     ELSE IF math # None THEN math
                                     ELSE Event("text", 1, <<>>)
BY DEF Read

LEMMA ReadSame ==
    ASSUME NEW p, NEW q, MorePending(p, q),
           p.pending[Len(p.pending)] \notin Digits \cup {"tick"}
    PROVE  Reading(p) = Wait \/ Reading(q) = Reading(p)
<1> DEFINE f == readFence(p, FALSE)
           c == readInlineCode(p, FALSE)
           m == readMath(p, FALSE)
           f2 == readFence(q, FALSE)
           c2 == readInlineCode(q, FALSE)
           m2 == readMath(q, FALSE)
<1>1. p.pending[Len(p.pending)] \notin Digits /\ p.pending[Len(p.pending)] # "tick"
  OBVIOUS
<1>2. Settled(f, f2) /\ Settled(c, c2) /\ Settled(m, m2)
  BY <1>1, FenceSame, InlineCodeSame, MathSame
<1>3. None # Wait
  BY AnswersDiffer
<1>4. /\ Reading(p) = IF f # None THEN f ELSE IF c # None THEN c
                      ELSE IF m # None THEN m ELSE Event("text", 1, <<>>)
      /\ Reading(q) = IF f2 # None THEN f2 ELSE IF c2 # None THEN c2
                      ELSE IF m2 # None THEN m2 ELSE Event("text", 1, <<>>)
  BY ReadCases DEF Reading
<1> HIDE DEF f, c, m, f2, c2, m2
<1>5. QED
  BY <1>2, <1>3, <1>4 DEF Settled

LEMMA StartsItself ==
    ASSUME NEW s \in Seq(Chars), s # <<>>
    PROVE  Starts(s, s)
<1>1. Len(s) \in Nat /\ 0 < Len(s)
  OBVIOUS
<1>2. QED
  BY <1>1 DEF Starts

LEMMA InlineCodeFront ==
    ASSUME NEW p, p.pending \in Seq(Chars), p.pending # <<>>
    PROVE  OfFront(readInlineCode(p, FALSE), Len(p.pending))
<1> DEFINE s == p.pending
           n == Len(s)
           length == countRun(s, 1, "tick")
           S == CodeCloses(s, length)
           one == readInlineCode(p, FALSE)
<1>1. s \in Seq(Chars) /\ n \in Nat /\ 0 < n /\ 1 \in 1..Len(s)
  OBVIOUS
<1>2. one = IF s[1] # "tick" THEN None
            ELSE IF S = {} THEN Wait
            ELSE Event("code", Smallest(S) + length - 1, <<>>)
  BY DEF readInlineCode, Unless, CodeCloses
<1>3. length \in Nat
  <2>1. length \in 0..(Len(s) + 1 - 1)
    BY <1>1, RunIs
  <2>2. QED
    BY <1>1, <2>1
<1>4. CASE s[1] # "tick" \/ S = {}
  <2>1. one = None \/ one = Wait
    BY <1>2, <1>4
  <2>2. QED
    BY <2>1 DEF OfFront
<1>5. CASE ~(s[1] # "tick" \/ S = {})
  <2> HIDE DEF length, one
  <2>1. S \in SUBSET Nat
    BY <1>1, <1>3 DEF CodeCloses
  <2> DEFINE m == Smallest(S)
  <2>2. m \in S
    BY <1>5, <2>1, SmallestIs
  <2> HIDE DEF m
  <2>3. m \in (length + 1)..n /\ countRun(s, m, "tick") = length
    BY <2>2 DEF CodeCloses
  <2>4. m \in 1..Len(s)
    BY <1>1, <1>3, <2>3
  <2>5. length \in 0..(Len(s) + 1 - m)
    BY <1>1, <2>3, <2>4, RunIs
  <2>6. length # 0
    <3>1. s[1] = "tick"
      BY <1>5
    <3>2. RunEnds(s, 1, "tick") \in SUBSET Nat /\ RunEnds(s, 1, "tick") # {}
          /\ 1 \notin RunEnds(s, 1, "tick")
      BY <1>1, <3>1 DEF RunEnds
    <3>3. Smallest(RunEnds(s, 1, "tick")) # 1
      BY <3>2, SmallestIs
    <3>4. 1 + length = Smallest(RunEnds(s, 1, "tick"))
      BY <1>1, RunIs DEF length
    <3>5. QED
      BY <1>3, <3>3, <3>4
  <2> HIDE DEF n
  <2>7. m + length - 1 \in 1..n
    <3>1. m \in Nat /\ length \in Nat /\ n \in Nat /\ length + 1 <= m /\ m <= n
      BY <1>1, <1>3, <2>3
    <3>2. length <= n + 1 - m
      BY <2>5 DEF n
    <3>3. QED
      BY <2>6, <3>1, <3>2
  <2>8. one = Event("code", m + length - 1, <<>>)
    BY <1>2, <1>5 DEF m
  <2>9. OfFront(one, n)
    BY <2>7, <2>8 DEF OfFront
  <2>10. QED
    BY <2>9 DEF one, n
<1>6. QED
  BY <1>4, <1>5

LEMMA DollarsFront ==
    ASSUME NEW s \in Seq(Chars)
    PROVE  OfFront(Dollars(s), Len(s))
<1> DEFINE n == Len(s)
           S == DollarCloses(s)
           m == Smallest(S)
           one == Dollars(s)
           tex == SubSeq(s, 2, m - 1)
<1>1. n \in Nat /\ S \in SUBSET Nat /\ S \subseteq 2..n
  BY DEF DollarCloses
<1>2. CASE S = {}
  <2>1. one = None \/ one = Wait
    BY <1>2 DEF Dollars
  <2>2. QED
    BY <2>1 DEF OfFront
<1>3. CASE S # {}
  <2>1. m \in S
    BY <1>1, <1>3, SmallestIs
  <2>2. m \in 1..n
    BY <1>1, <2>1
  <2>3. one = None \/ one = Wait \/ one = Event("inline", m, tex)
    BY DEF Dollars
  <2> HIDE DEF m, one, tex
  <2>4. OfFront(one, n)
    BY <2>2, <2>3 DEF OfFront
  <2>5. QED
    BY <2>4 DEF one
<1>4. QED
  BY <1>2, <1>3

LEMMA MathFront ==
    ASSUME NEW p, p.pending \in Seq(Chars), p.pending # <<>>
    PROVE  OfFront(readMath(p, FALSE), Len(p.pending))
<1> DEFINE s == p.pending
           free == p.trailingBackslashes % 2 = 0
           one == readMath(p, FALSE)
           Within(x) == OfFront(x, Len(s))
           D1 == Delimited(s, <<"$", "$">>, "display", FALSE)
           D2 == Delimited(s, <<"\\", ")">>, "inline", FALSE)
           D3 == Delimited(s, <<"\\", "]">>, "display", FALSE)
<1>1. s \in Seq(Chars) /\ s # <<>>
  OBVIOUS
<1>2. /\ Len(s) = 1 => one = IF s[1] \in {"\\", "$"} THEN Wait ELSE None
      /\ Len(s) > 1 => one = IF ~free THEN None
                             ELSE IF s[1] = "$" /\ s[2] = "$" THEN D1
                             ELSE IF s[1] = "$" THEN Dollars(s)
                             ELSE IF s[1] = "\\" /\ s[2] = "(" THEN D2
                             ELSE IF s[1] = "\\" /\ s[2] = "[" THEN D3
                             ELSE None
  BY MathByFront
<1>3. Len(s) = 1 \/ Len(s) > 1
  <2> DEFINE n == Len(s)
  <2>1. n \in Nat /\ 0 < n
    BY <1>1
  <2> HIDE DEF n
  <2>2. n = 1 \/ n > 1
    BY <2>1
  <2>3. QED
    BY <2>2 DEF n
<1>4. Within(None) /\ Within(Wait)
  BY DEF OfFront
<1>5. Within(D1) /\ Within(D2) /\ Within(D3)
  <2>1. Starts(s, s)
    BY <1>1, StartsItself
  <2>2. Len(<<"$", "$">>) = 2 /\ Len(<<"\\", ")">>) = 2 /\ Len(<<"\\", "]">>) = 2
    OBVIOUS
  <2> HIDE DEF s
  <2>3. QED
    BY <2>1, <2>2, DelimitedSame
<1>6. Within(Dollars(s))
  BY <1>1, DollarsFront
<1> HIDE DEF s, free, one, Within, D1, D2, D3
<1>7. Within(one)
  BY <1>2, <1>3, <1>4, <1>5, <1>6
<1>8. QED
  BY <1>7 DEF Within, one, s

\* A turn waits, or takes an event of the front.
LEMMA ReadFront ==
    ASSUME NEW p, p.pending \in Seq(Chars), p.pending # <<>>
    PROVE  \/ Reading(p) = Wait
           \/ /\ Reading(p) # Wait /\ Reading(p).length \in 1..Len(p.pending)
<1> DEFINE s == p.pending
           n == Len(s)
           f == readFence(p, FALSE)
           c == readInlineCode(p, FALSE)
           m == readMath(p, FALSE)
<1>1. OfFront(f, n) /\ OfFront(c, n) /\ OfFront(m, n)
  <2>1. MorePending(p, p)
    BY StartsItself DEF MorePending
  <2>2. OfFront(f, n)
    BY <2>1, FenceSame
  <2>3. QED
    BY <2>2, InlineCodeFront, MathFront
<1>2. Reading(p) = IF f # None THEN f ELSE IF c # None THEN c
                   ELSE IF m # None THEN m ELSE Event("text", 1, <<>>)
  BY ReadCases DEF Reading
<1>3. n \in Nat /\ 1 \in 1..n
  OBVIOUS
<1> HIDE DEF f, c, m, n, s
<1>4. \/ Reading(p) = Wait
      \/ \E type, tex : \E length \in 1..n : Reading(p) = Event(type, length, tex)
  BY <1>1, <1>2, <1>3 DEF OfFront
<1>5. CASE Reading(p) = Wait
  BY <1>5
<1>6. ASSUME NEW type, NEW tex, NEW length \in 1..n, Reading(p) = Event(type, length, tex)
      PROVE  Reading(p) # Wait /\ Reading(p).length \in 1..n
  BY <1>6, AnswersDiffer
<1>7. QED
  BY <1>4, <1>5, <1>6 DEF n, s

(***************************************************************************)
(* Taking an event from the front of the pending text.                     *)
(***************************************************************************)
IsParser(p) ==
    /\ p = [pending |-> p.pending, atLineStart |-> p.atLineStart,
            lineIndent |-> p.lineIndent, trailingBackslashes |-> p.trailingBackslashes,
            events |-> p.events]
    /\ p.pending \in Seq(Chars)

More(p, t) == [p EXCEPT !.pending = @ \o t]

LEMMA MoreIs ==
    ASSUME NEW p, IsParser(p), NEW t \in Seq(Chars)
    PROVE  /\ More(p, t) = [pending |-> p.pending \o t, atLineStart |-> p.atLineStart,
                            lineIndent |-> p.lineIndent,
                            trailingBackslashes |-> p.trailingBackslashes,
                            events |-> p.events]
           /\ IsParser(More(p, t)) /\ More(p, t).pending = p.pending \o t
           /\ p.pending \o t \in Seq(Chars)
<1> DEFINE s == p.pending
           a == p.atLineStart
           l == p.lineIndent
           b == p.trailingBackslashes
           e == p.events
           w == s \o t
           m == [pending |-> w, atLineStart |-> a, lineIndent |-> l,
                 trailingBackslashes |-> b, events |-> e]
<1>1. /\ p = [pending |-> s, atLineStart |-> a, lineIndent |-> l,
              trailingBackslashes |-> b, events |-> e]
      /\ s \in Seq(Chars)
  BY DEF IsParser
<1>2. w \in Seq(Chars)
  BY <1>1, ConcatProperties
<1>3. More(p, t) = [p EXCEPT !.pending = w]
  BY DEF More
<1> HIDE DEF s, a, l, b, e, w
<1>4. More(p, t) = m
  BY <1>1, <1>3
<1>5. IsParser(m) /\ m.pending = w
  BY <1>2 DEF IsParser
<1>6. QED
  BY <1>2, <1>4, <1>5 DEF s, a, l, b, e, w

LEMMA PassedIs ==
    ASSUME NEW p, IsParser(p), NEW c
    PROVE  /\ Passed(p, c) =
                  [pending |-> p.pending,
                   atLineStart |-> c = "\n" \/ (p.atLineStart /\ c = " " /\ p.lineIndent < 4),
                   lineIndent |-> IF c = "\n" THEN 0
                                  ELSE IF p.atLineStart /\ c = " " /\ p.lineIndent < 4
                                       THEN p.lineIndent + 1 ELSE p.lineIndent,
                   trailingBackslashes |-> IF c = "\\" THEN p.trailingBackslashes + 1 ELSE 0,
                   events |-> p.events]
           /\ IsParser(Passed(p, c)) /\ Passed(p, c).pending = p.pending
<1> DEFINE s == p.pending
           a == p.atLineStart
           l == p.lineIndent
           b == p.trailingBackslashes
           e == p.events
           a2 == c = "\n" \/ (a /\ c = " " /\ l < 4)
           l2 == IF c = "\n" THEN 0 ELSE IF a /\ c = " " /\ l < 4 THEN l + 1 ELSE l
           b2 == IF c = "\\" THEN b + 1 ELSE 0
           m == [pending |-> s, atLineStart |-> a2, lineIndent |-> l2,
                 trailingBackslashes |-> b2, events |-> e]
<1>1. /\ p = [pending |-> s, atLineStart |-> a, lineIndent |-> l,
              trailingBackslashes |-> b, events |-> e]
      /\ s \in Seq(Chars)
  BY DEF IsParser
<1>2. Passed(p, c) = [p EXCEPT !.atLineStart = a2, !.lineIndent = l2,
                               !.trailingBackslashes = b2]
  BY DEF Passed
<1> HIDE DEF s, a, l, b, e, a2, l2, b2
<1>3. Passed(p, c) = m
  BY <1>1, <1>2
<1>4. IsParser(m) /\ m.pending = s
  BY <1>1 DEF IsParser
<1>5. QED
  BY <1>3, <1>4 DEF s, a, l, b, e, a2, l2, b2

LEMMA PassedMore ==
    ASSUME NEW p, IsParser(p), NEW t \in Seq(Chars), NEW c
    PROVE  Passed(More(p, t), c) = More(Passed(p, c), t)
<1> DEFINE q == More(p, t)
           r == Passed(p, c)
           w == p.pending \o t
           a == p.atLineStart
           l == p.lineIndent
           b == p.trailingBackslashes
           e == p.events
           A2(x, y) == c = "\n" \/ (x /\ c = " " /\ y < 4)
           L2(x, y) == IF c = "\n" THEN 0 ELSE IF x /\ c = " " /\ y < 4 THEN y + 1 ELSE y
           B2(z) == IF c = "\\" THEN z + 1 ELSE 0
           Made(v, x, y, z, k) == [pending |-> v, atLineStart |-> x, lineIndent |-> y,
                                   trailingBackslashes |-> z, events |-> k]
<1>1. IsParser(q) /\ q = Made(w, a, l, b, e)
  BY MoreIs
<1>2. IsParser(r) /\ r = Made(p.pending, A2(a, l), L2(a, l), B2(b), e)
  BY PassedIs
<1>3. Passed(q, c) = Made(q.pending, A2(q.atLineStart, q.lineIndent),
                          L2(q.atLineStart, q.lineIndent), B2(q.trailingBackslashes),
                          q.events)
  <2>1. IsParser(q)
    BY <1>1
  <2> HIDE DEF q
  <2>2. QED
    BY <2>1, PassedIs
<1>4. More(r, t) = Made(r.pending \o t, r.atLineStart, r.lineIndent,
                        r.trailingBackslashes, r.events)
  <2>1. IsParser(r)
    BY <1>2
  <2> HIDE DEF r
  <2>2. QED
    BY <2>1, MoreIs
<1> HIDE DEF q, r, a, l, b, e, w, A2, L2, B2
<1>5. /\ q.pending = w /\ q.atLineStart = a /\ q.lineIndent = l
      /\ q.trailingBackslashes = b /\ q.events = e
  BY <1>1
<1>6. /\ r.pending = p.pending /\ r.atLineStart = A2(a, l) /\ r.lineIndent = L2(a, l)
      /\ r.trailingBackslashes = B2(b) /\ r.events = e
  BY <1>2
<1> HIDE DEF Made
<1>7. Passed(q, c) = Made(w, A2(a, l), L2(a, l), B2(b), e)
  BY <1>3, <1>5
<1>8. More(r, t) = Made(w, A2(a, l), L2(a, l), B2(b), e)
  BY <1>4, <1>6 DEF w
<1>9. QED
  BY <1>7, <1>8 DEF q, r

\* consume, character by character.
LEMMA ConsumeChain ==
    ASSUME NEW p, NEW n \in Nat
    PROVE  \E f : /\ f[0] = p
                  /\ \A i \in 1..n : f[i] = Passed(f[i - 1], p.pending[i])
                  /\ consume(p, n) = [f[n] EXCEPT !.pending = From(@, n + 1)]
<1> DEFINE Is(g, k) == g = [i \in 0..k |-> IF i = 0 THEN p
                                            ELSE Passed(g[i - 1], p.pending[i])]
           Lacking == {k \in Nat : ~ \E g : Is(g, k)}
<1>1. Lacking = {}
  <2> SUFFICES ASSUME Lacking # {} PROVE FALSE
    OBVIOUS
  <2>1. Lacking \in SUBSET Nat
    OBVIOUS
  <2> HIDE DEF Is
  <2>2. PICK k \in Lacking : \A j \in Lacking : k <= j
    BY <2>1, LeastElement
  <2>3. k # 0
    <3>1. Is([i \in 0..0 |-> p], 0)
      BY DEF Is
    <3>2. QED
      BY <3>1
  <2>4. k \in Nat /\ k - 1 \in Nat /\ k - 1 \notin Lacking
    BY <2>2, <2>3
  <2>5. PICK g : Is(g, k - 1)
    BY <2>4
  <2> DEFINE h == [i \in 0..k |-> IF i < k THEN g[i] ELSE Passed(g[k - 1], p.pending[k])]
  <2>6. /\ g[0] = p
        /\ \A i \in 0..(k - 1) : i = 0 \/ g[i] = Passed(g[i - 1], p.pending[i])
    BY <2>4, <2>5 DEF Is
  <2>7. \A i \in 0..k : h[i] = IF i = 0 THEN p ELSE Passed(h[i - 1], p.pending[i])
    <3> TAKE i \in 0..k
    <3>1. CASE i = 0
      BY <2>3, <2>4, <2>6, <3>1
    <3>2. CASE i # 0 /\ i < k
      <4>1. h[i] = g[i] /\ h[i - 1] = g[i - 1] /\ g[i] = Passed(g[i - 1], p.pending[i])
        BY <2>4, <2>6, <3>2
      <4>2. QED
        BY <3>2, <4>1
    <3>3. CASE i = k
      <4>1. h[k] = Passed(g[k - 1], p.pending[k]) /\ h[k - 1] = g[k - 1]
        BY <2>3, <2>4
      <4>2. QED
        BY <2>3, <3>3, <4>1
    <3>4. QED
      BY <2>4, <3>1, <3>2, <3>3
  <2>8. h = [i \in 0..k |-> h[i]]
    OBVIOUS
  <2> HIDE DEF h
  <2>9. Is(h, k)
    BY <2>7, <2>8 DEF Is
  <2>10. QED
    BY <2>2, <2>9
<1>2. \E g : Is(g, n)
  BY <1>1
<1> DEFINE f == CHOOSE g : Is(g, n)
<1>3. Is(f, n)
  BY <1>2
<1>4. consume(p, n) = [f[n] EXCEPT !.pending = From(@, n + 1)]
  BY DEF consume
<1> HIDE DEF f
<1>5. /\ f[0] = p
      /\ \A i \in 1..n : f[i] = Passed(f[i - 1], p.pending[i])
  BY <1>3
<1>6. QED
  BY <1>4, <1>5

LEMMA FromBehind ==
    ASSUME NEW s \in Seq(Chars), NEW t \in Seq(Chars), NEW i \in 1..(Len(s) + 1)
    PROVE  /\ From(s \o t, i) = From(s, i) \o t
           /\ From(s, i) \in Seq(Chars) /\ Len(From(s, i)) = Len(s) + 1 - i
           /\ \A j \in 1..(Len(s) + 1 - i) : From(s, i)[j] = s[i + j - 1]
<1> DEFINE n == Len(s)
           m == Len(t)
           w == s \o t
           x == SubSeq(w, i, Len(w))
           y == SubSeq(s, i, n)
           z == y \o t
<1>1. n \in Nat /\ m \in Nat /\ i \in Nat /\ i >= 1 /\ i <= n + 1
  OBVIOUS
<1>2. /\ w \in Seq(Chars) /\ Len(w) = n + m
      /\ \A k \in 1..(n + m) : w[k] = IF k <= n THEN s[k] ELSE t[k - n]
  BY ConcatProperties
<1>3. /\ y \in Seq(Chars) /\ Len(y) = n + 1 - i
      /\ \A j \in 1..(n + 1 - i) : y[j] = s[i + j - 1]
  BY <1>1
<1> HIDE DEF w, y
<1>4. /\ x \in Seq(Chars) /\ Len(x) = n + m + 1 - i
      /\ \A j \in 1..(n + m + 1 - i) : x[j] = w[i + j - 1]
  <2> DEFINE o == Len(w)
  <2>1. o = n + m /\ o \in Int /\ i \in Int
    BY <1>1, <1>2
  <2> HIDE DEF o, n, m
  <2>2. \A k \in i..o : w[k] \in Chars
    BY <1>1, <1>2, <2>1 DEF o
  <2>3. /\ SubSeq(w, i, o) \in Seq(Chars)
        /\ Len(SubSeq(w, i, o)) = IF i <= o THEN o - i + 1 ELSE 0
        /\ \A j \in 1..(o - i + 1) : SubSeq(w, i, o)[j] = w[i + j - 1]
    BY <2>1, <2>2, SubSeqProperties
  <2>4. x = SubSeq(w, i, o)
    BY DEF o
  <2> HIDE DEF x
  <2>5. o - i + 1 = n + m + 1 - i /\ (~(i <= o) => n + m + 1 - i = 0)
    BY <1>1, <2>1
  <2>6. Len(x) = n + m + 1 - i
    <3>1. CASE i <= o
      BY <2>3, <2>4, <2>5, <3>1
    <3>2. CASE ~(i <= o)
      BY <2>3, <2>4, <2>5, <3>2
    <3>3. QED
      BY <3>1, <3>2
  <2>7. QED
    BY <2>3, <2>4, <2>5, <2>6
<1>5. /\ z \in Seq(Chars) /\ Len(z) = Len(y) + m
      /\ \A k \in 1..(Len(y) + m) : z[k] = IF k <= Len(y) THEN y[k] ELSE t[k - Len(y)]
  BY <1>3, ConcatProperties
<1> HIDE DEF x, z, n, m
<1>6. Len(x) = Len(z) /\ \A k \in 1..Len(x) : x[k] = z[k]
  <2>1. Len(x) = Len(z)
    BY <1>1, <1>3, <1>4, <1>5
  <2>2. ASSUME NEW k \in 1..Len(x) PROVE x[k] = z[k]
    <3>1. k \in 1..(n + m + 1 - i) /\ k \in 1..(Len(y) + m) /\ i + k - 1 \in 1..(n + m)
      BY <1>1, <1>3, <1>4
    <3>2. x[k] = w[i + k - 1]
      BY <1>4, <3>1
    <3>3. CASE k <= n + 1 - i
      <4>1. k \in 1..(n + 1 - i) /\ i + k - 1 <= n /\ k <= Len(y)
        BY <1>1, <1>3, <3>1, <3>3
      <4>2. w[i + k - 1] = s[i + k - 1]
        BY <1>2, <3>1, <4>1
      <4>3. y[k] = s[i + k - 1]
        BY <1>3, <4>1
      <4>4. z[k] = y[k]
        BY <1>5, <3>1, <4>1
      <4>5. QED
        BY <3>2, <4>2, <4>3, <4>4
    <3>4. CASE ~(k <= n + 1 - i)
      <4>1. ~(i + k - 1 <= n) /\ ~(k <= Len(y)) /\ k - Len(y) = (i + k - 1) - n
        BY <1>1, <1>3, <3>1, <3>4
      <4>2. w[i + k - 1] = t[(i + k - 1) - n]
        BY <1>2, <3>1, <4>1
      <4>3. z[k] = t[k - Len(y)]
        BY <1>5, <3>1, <4>1
      <4>4. QED
        BY <3>2, <4>1, <4>2, <4>3
    <3>5. QED
      BY <3>3, <3>4
  <2>3. QED
    BY <2>1, <2>2
<1>7. x = z
  BY <1>4, <1>5, <1>6, SeqEqual
<1>8. QED
  BY <1>3, <1>7 DEF From, x, y, z, w, n

LEMMA ChainKeeps ==
    ASSUME NEW p, IsParser(p), NEW n \in Nat, NEW f, f[0] = p,
           \A i \in 1..n : f[i] = Passed(f[i - 1], p.pending[i])
    PROVE  \A i \in 0..n : IsParser(f[i]) /\ f[i].pending = p.pending
<1> DEFINE Good(i) == IsParser(f[i]) /\ f[i].pending = p.pending
           Wrong == {i \in 0..n : ~Good(i)}
<1>1. Wrong = {}
  <2> SUFFICES ASSUME Wrong # {} PROVE FALSE
    OBVIOUS
  <2>1. Wrong \in SUBSET Nat
    OBVIOUS
  <2>2. PICK i \in Wrong : \A j \in Wrong : i <= j
    BY <2>1, LeastElement
  <2>3. i # 0
    BY <2>2
  <2>4. i \in 1..n /\ i - 1 \in 0..n /\ i - 1 \notin Wrong
    BY <2>2, <2>3
  <2>5. Good(i - 1)
    BY <2>4
  <2> DEFINE g == f[i - 1]
             c == p.pending[i]
  <2>6. f[i] = Passed(g, c) /\ IsParser(g) /\ g.pending = p.pending
    BY <2>4, <2>5
  <2> HIDE DEF g, c
  <2>7. IsParser(Passed(g, c)) /\ Passed(g, c).pending = p.pending
    BY <2>6, PassedIs
  <2>9. Good(i)
    BY <2>6, <2>7
  <2>8. QED
    BY <2>2, <2>9
<1>2. QED
  BY <1>1

\* The pending text cut off in front.
Cut(p, i) == [p EXCEPT !.pending = From(@, i)]

LEMMA CutIs ==
    ASSUME NEW p, IsParser(p), NEW i \in 1..(Len(p.pending) + 1)
    PROVE  /\ IsParser(Cut(p, i)) /\ Cut(p, i).pending = From(p.pending, i)
           /\ \A t \in Seq(Chars) : Cut(More(p, t), i) = More(Cut(p, i), t)
<1> DEFINE s == p.pending
           a == p.atLineStart
           l == p.lineIndent
           b == p.trailingBackslashes
           e == p.events
           Made(v) == [pending |-> v, atLineStart |-> a, lineIndent |-> l,
                       trailingBackslashes |-> b, events |-> e]
<1>1. p = Made(s) /\ s \in Seq(Chars)
  BY DEF IsParser
<1>2. From(s, i) \in Seq(Chars)
  BY <1>1, FromBehind
<1>3. Cut(p, i) = [p EXCEPT !.pending = From(s, i)]
  BY DEF Cut
<1>4. \A v \in Seq(Chars) : IsParser(Made(v)) /\ Made(v).pending = v
  <2> HIDE DEF a, l, b, e
  <2>1. QED
    BY DEF IsParser
<1>5. Cut(p, i) = Made(From(s, i))
  <2> HIDE DEF s, a, l, b, e
  <2>1. QED
    BY <1>1, <1>3
<1>6. ASSUME NEW t \in Seq(Chars) PROVE Cut(More(p, t), i) = More(Cut(p, i), t)
  <2>1. More(p, t) = Made(s \o t) /\ s \o t \in Seq(Chars)
    BY MoreIs
  <2>2. Cut(More(p, t), i) = Made(From(s \o t, i))
    <3> DEFINE w == s \o t
    <3> HIDE DEF s, a, l, b, e, w
    <3>1. Cut(Made(w), i) = Made(From(w, i))
      BY DEF Cut
    <3>2. QED
      BY <2>1, <3>1 DEF w
  <2>3. From(s \o t, i) = From(s, i) \o t
    BY <1>1, FromBehind
  <2>4. More(Cut(p, i), t) = Made(From(s, i) \o t)
    <3> DEFINE w == From(s, i)
    <3> HIDE DEF s, a, l, b, e, w
    <3> DEFINE z == w \o t
    <3>3. Made(w).pending = w
      OBVIOUS
    <3>4. More(Made(w), t) = [Made(w) EXCEPT !.pending = z]
      BY <3>3 DEF More
    <3> HIDE DEF z
    <3>5. More(Made(w), t) = Made(z)
      BY <3>4
    <3>1. More(Made(w), t) = Made(w \o t)
      BY <3>5 DEF z
    <3>2. QED
      BY <1>5, <3>1 DEF w
  <2> HIDE DEF Made
  <2>5. QED
    BY <2>2, <2>3, <2>4
<1> HIDE DEF Made
<1>7. IsParser(Cut(p, i)) /\ Cut(p, i).pending = From(s, i)
  BY <1>2, <1>4, <1>5
<1>8. QED
  BY <1>6, <1>7

LEMMA ConsumeIs ==
    ASSUME NEW p, IsParser(p), NEW n \in 1..Len(p.pending)
    PROVE  /\ IsParser(consume(p, n)) /\ consume(p, n).pending = From(p.pending, n + 1)
           /\ \A t \in Seq(Chars) : consume(More(p, t), n) = More(consume(p, n), t)
<1>1. /\ p.pending \in Seq(Chars) /\ Len(p.pending) \in Nat /\ n \in Nat
      /\ n + 1 \in 1..(Len(p.pending) + 1)
  BY DEF IsParser
<1>2. PICK f : /\ f[0] = p
               /\ \A i \in 1..n : f[i] = Passed(f[i - 1], p.pending[i])
               /\ consume(p, n) = Cut(f[n], n + 1)
  BY <1>1, ConsumeChain DEF Cut
<1>3. \A i \in 0..n : IsParser(f[i]) /\ f[i].pending = p.pending
  <2>1. n \in Nat
    BY <1>1
  <2>2. f[0] = p /\ \A i \in 1..n : f[i] = Passed(f[i - 1], p.pending[i])
    BY <1>2
  <2>3. QED
    BY <2>1, <2>2, ChainKeeps
<1>4. n \in 0..n /\ IsParser(f[n]) /\ f[n].pending = p.pending
  BY <1>1, <1>3
<1>5. IsParser(Cut(f[n], n + 1)) /\ Cut(f[n], n + 1).pending = From(p.pending, n + 1)
  BY <1>1, <1>4, CutIs
<1>6. ASSUME NEW t \in Seq(Chars) PROVE consume(More(p, t), n) = More(consume(p, n), t)
  <2> DEFINE q == More(p, t)
  <2>1. IsParser(q) /\ q.pending = p.pending \o t
    BY MoreIs
  <2>2. \A i \in 1..n : q.pending[i] = p.pending[i]
    BY <1>1, <2>1
  <2> HIDE DEF q
  <2>3. PICK g : /\ g[0] = q
                 /\ \A i \in 1..n : g[i] = Passed(g[i - 1], q.pending[i])
                 /\ consume(q, n) = Cut(g[n], n + 1)
    BY <1>1, ConsumeChain DEF Cut
  <2> DEFINE Wrong == {i \in 0..n : g[i] # More(f[i], t)}
  <2>4. Wrong = {}
    <3> SUFFICES ASSUME Wrong # {} PROVE FALSE
      OBVIOUS
    <3>1. Wrong \in SUBSET Nat
      BY <1>1
    <3>2. PICK i \in Wrong : \A j \in Wrong : i <= j
      BY <3>1, LeastElement
    <3>3. i # 0
      BY <1>2, <2>3, <3>2 DEF q
    <3>4. i \in 1..n /\ i - 1 \in 0..n /\ ~(i <= i - 1)
      BY <1>1, <3>2, <3>3
    <3>5. g[i - 1] = More(f[i - 1], t)
      BY <3>2, <3>4
    <3>6. g[i] = Passed(More(f[i - 1], t), p.pending[i]) /\ f[i] = Passed(f[i - 1], p.pending[i])
      BY <1>2, <2>2, <2>3, <3>4, <3>5
    <3>7. IsParser(f[i - 1])
      BY <1>3, <3>4
    <3>8. g[i] = More(f[i], t)
      BY <3>6, <3>7, PassedMore
    <3>9. QED
      BY <3>2, <3>8
  <2>5. g[n] = More(f[n], t)
    BY <1>4, <2>4
  <2>6. Cut(g[n], n + 1) = More(Cut(f[n], n + 1), t)
    BY <1>1, <1>4, <2>5, CutIs
  <2>7. QED
    BY <1>2, <2>3, <2>6 DEF q
<1>7. QED
  BY <1>2, <1>5, <1>6

(***************************************************************************)
(* A turn.                                                                 *)
(***************************************************************************)
TurnOf(p) == Turn(p, FALSE)

Still(p) == TurnOf(p) = p

\* The last character of a chunk that leaves open what it belongs to.
Open(s) == s # <<>> /\ s[Len(s)] \in Digits \cup {"tick"}

WithEvent(p, type, tex, source) ==
    [p EXCEPT !.events = Emitted(@, [type |-> type, tex |-> tex, source |-> source])]

LEMMA ReportedIs ==
    ASSUME NEW p, IsParser(p), NEW type, NEW tex, NEW source
    PROVE  /\ IsParser(WithEvent(p, type, tex, source))
           /\ WithEvent(p, type, tex, source).pending = p.pending
           /\ \A t \in Seq(Chars) : WithEvent(More(p, t), type, tex, source)
                                        = More(WithEvent(p, type, tex, source), t)
<1> DEFINE s == p.pending
           a == p.atLineStart
           l == p.lineIndent
           b == p.trailingBackslashes
           e == p.events
           e2 == Emitted(e, [type |-> type, tex |-> tex, source |-> source])
           Made(v, k) == [pending |-> v, atLineStart |-> a, lineIndent |-> l,
                          trailingBackslashes |-> b, events |-> k]
<1>1. p = Made(s, e) /\ s \in Seq(Chars)
  BY DEF IsParser
<1>2. \A v \in Seq(Chars) : WithEvent(Made(v, e), type, tex, source) = Made(v, e2)
  BY DEF WithEvent
<1>3. \A t \in Seq(Chars) : s \o t \in Seq(Chars) /\ More(p, t) = Made(s \o t, e)
  BY MoreIs
<1>4. ASSUME NEW k, NEW t PROVE More(Made(s, k), t) = Made(s \o t, k)
  <2> DEFINE z == s \o t
  <2> HIDE DEF s, a, l, b, e, z
  <2>1. Made(s, k).pending = s
    OBVIOUS
  <2>2. More(Made(s, k), t) = [Made(s, k) EXCEPT !.pending = z]
    BY <2>1 DEF More, z
  <2>3. More(Made(s, k), t) = Made(z, k)
    BY <2>2
  <2>4. QED
    BY <2>3 DEF z
<1>5. IsParser(Made(s, e2)) /\ Made(s, e2).pending = s
  <2> HIDE DEF s, a, l, b, e, e2
  <2>1. QED
    BY <1>1 DEF IsParser
<1> HIDE DEF Made, s, e, e2
<1>6. WithEvent(p, type, tex, source) = Made(s, e2)
  BY <1>1, <1>2
<1>7. ASSUME NEW t \in Seq(Chars)
      PROVE  WithEvent(More(p, t), type, tex, source)
                 = More(WithEvent(p, type, tex, source), t)
  <2> DEFINE w == s \o t
  <2>1. w \in Seq(Chars) /\ More(p, t) = Made(w, e)
    BY <1>3, <1>7
  <2> HIDE DEF w
  <2>2. WithEvent(More(p, t), type, tex, source) = Made(w, e2)
    BY <1>2, <2>1
  <2>3. More(Made(s, e2), t) = Made(w, e2)
    BY <1>4 DEF w
  <2>4. QED
    BY <1>6, <2>2, <2>3
<1>8. QED
  BY <1>5, <1>6, <1>7 DEF s

LEMMA TurnIs ==
    ASSUME NEW p, IsParser(p)
    PROVE  /\ p.pending = <<>> => Still(p)
           /\ p.pending # <<>> /\ Reading(p) = Wait => Still(p)
           /\ p.pending # <<>> /\ Reading(p) # Wait =>
                  /\ Reading(p).length \in 1..Len(p.pending)
                  /\ TurnOf(p) = WithEvent(consume(p, Reading(p).length), Reading(p).type,
                                           Reading(p).tex,
                                           Upto(p.pending, Reading(p).length))
<1>1. p.pending = <<>> => TurnOf(p) = p
  BY DEF TurnOf, Turn
<1>2. p.pending # <<>> => TurnOf(p) = Take(p, Reading(p))
  BY DEF TurnOf, Turn, Reading
<1>3. Reading(p) = Wait => Take(p, Reading(p)) = p
  BY DEF Take
<1>4. Reading(p) # Wait =>
          Take(p, Reading(p)) = WithEvent(consume(p, Reading(p).length), Reading(p).type,
                                          Reading(p).tex,
                                          Upto(p.pending, Reading(p).length))
  BY DEF Take, WithEvent
<1>5. p.pending # <<>> /\ Reading(p) # Wait => Reading(p).length \in 1..Len(p.pending)
  BY ReadFront DEF IsParser
<1>6. QED
  BY <1>1, <1>2, <1>3, <1>4, <1>5 DEF Still

LEMMA TurnShorter ==
    ASSUME NEW p, IsParser(p)
    PROVE  /\ IsParser(TurnOf(p))
           /\ \/ Still(p)
              \/ \E n \in 1..Len(p.pending) : TurnOf(p).pending = From(p.pending, n + 1)
<1>1. CASE Still(p)
  BY <1>1 DEF Still
<1>2. CASE ~Still(p)
  <2> DEFINE read == Reading(p)
             n == read.length
             q == consume(p, n)
             u == Upto(p.pending, n)
  <2>1. /\ n \in 1..Len(p.pending)
        /\ TurnOf(p) = WithEvent(q, read.type, read.tex, u)
    BY <1>2, TurnIs
  <2> HIDE DEF n
  <2>2. IsParser(q) /\ q.pending = From(p.pending, n + 1)
    BY <2>1, ConsumeIs
  <2> HIDE DEF q, u, read
  <2>3. IsParser(TurnOf(p)) /\ TurnOf(p).pending = q.pending
    BY <2>1, <2>2, ReportedIs
  <2>4. QED
    BY <2>1, <2>2, <2>3
<1>3. QED
  BY <1>1, <1>2

\* A turn that does not wait does the same when more text follows.
LEMMA TurnMore ==
    ASSUME NEW p, IsParser(p), NEW t \in Seq(Chars), p.pending # <<>>,
           ~Open(p.pending), ~Still(p)
    PROVE  TurnOf(More(p, t)) = More(TurnOf(p), t)
<1> DEFINE read == Reading(p)
           n == read.length
           s == p.pending
           q == More(p, t)
<1>1. /\ read # Wait /\ n \in 1..Len(s)
      /\ TurnOf(p) = WithEvent(consume(p, n), read.type, read.tex, Upto(s, n))
  BY TurnIs
<1>2. s \in Seq(Chars) /\ Len(s) \in Nat /\ 0 < Len(s)
  BY DEF IsParser
<1>3. IsParser(q) /\ q.pending = s \o t /\ s \o t \in Seq(Chars) /\ q.pending # <<>>
  <2>1. IsParser(q) /\ q.pending = s \o t /\ s \o t \in Seq(Chars)
    BY MoreIs
  <2>2. Len(s \o t) # 0
    BY <1>2, ConcatProperties, LenProperties
  <2>3. s \o t # <<>>
    BY <2>2
  <2>4. QED
    BY <2>1, <2>3
<1>4. MorePending(p, q)
  <2>1. Starts(s, s \o t)
    BY <1>2, <1>3 DEF Starts
  <2>2. /\ q.atLineStart = p.atLineStart /\ q.lineIndent = p.lineIndent
        /\ q.trailingBackslashes = p.trailingBackslashes
    <3> DEFINE Made(v, a, l, b, e) == [pending |-> v, atLineStart |-> a, lineIndent |-> l,
                                       trailingBackslashes |-> b, events |-> e]
    <3>1. q = Made(s \o t, p.atLineStart, p.lineIndent, p.trailingBackslashes, p.events)
      BY MoreIs
    <3>2. \A v, a, l, b, e : LET m == Made(v, a, l, b, e)
                             IN  /\ m.atLineStart = a /\ m.lineIndent = l
                                 /\ m.trailingBackslashes = b
      OBVIOUS
    <3> HIDE DEF Made, q
    <3>3. QED
      BY <3>1, <3>2
  <2>3. QED
    BY <1>3, <2>1, <2>2 DEF MorePending
<1>5. s[Len(s)] \notin Digits \cup {"tick"}
  BY DEF Open
<1>6. Reading(q) = read
  <2> HIDE DEF q
  <2>1. Reading(p) = Wait \/ Reading(q) = Reading(p)
    BY <1>4, <1>5, ReadSame
  <2>2. QED
    BY <1>1, <2>1
<1>7. TurnOf(q) = WithEvent(consume(q, n), read.type, read.tex, Upto(s \o t, n))
  <2> HIDE DEF q
  <2>1. read = Reading(q)
    BY <1>6
  <2> HIDE DEF read, s
  <2>2. TurnOf(q) = WithEvent(consume(q, Reading(q).length), Reading(q).type,
                              Reading(q).tex, Upto(q.pending, Reading(q).length))
    BY <1>1, <1>3, <2>1, TurnIs
  <2>3. QED
    BY <1>3, <2>1, <2>2
<1>8. Upto(s \o t, n) = Upto(s, n)
  <2>1. Starts(s, s \o t) /\ n <= Len(s) /\ n <= Len(s \o t) /\ n \in Int
    <3>1. Len(s \o t) = Len(s) + Len(t) /\ Len(t) \in Nat
      BY <1>2, ConcatProperties, LenProperties
    <3>2. n \in Nat /\ n <= Len(s)
      BY <1>1, <1>2
    <3> HIDE DEF n
    <3>3. QED
      BY <1>2, <1>3, <1>4, <3>1, <3>2 DEF MorePending
  <2>2. SubSeq(s \o t, 1, n) = SubSeq(s, 1, n)
    BY <2>1, SubSeqSame
  <2>3. QED
    BY <2>1, <2>2 DEF Upto
<1>9. IsParser(consume(p, n)) /\ consume(q, n) = More(consume(p, n), t)
  BY <1>1, ConsumeIs
<1> DEFINE c == consume(p, n)
           u == Upto(s, n)
<1> HIDE DEF n, read, s, q, c, u
<1>10. TurnOf(q) = WithEvent(More(c, t), read.type, read.tex, u)
  BY <1>7, <1>8, <1>9 DEF c, u
<1>11. TurnOf(p) = WithEvent(c, read.type, read.tex, u)
  BY <1>1 DEF c, u
<1>12. IsParser(c)
  BY <1>9 DEF c
<1>13. TurnOf(q) = More(TurnOf(p), t)
  BY <1>10, <1>11, <1>12, ReportedIs
<1>14. QED
  BY <1>13 DEF q

(***************************************************************************)
(* drain: turns until one has to wait.                                     *)
(***************************************************************************)
Drained(p) == drain(p, FALSE)

LEMMA DrainChain ==
    ASSUME NEW p, Len(p.pending) \in Nat
    PROVE  \E f : /\ f[0] = p /\ Drained(p) = f[Len(p.pending)]
                  /\ \A i \in 1..Len(p.pending) : f[i] = TurnOf(f[i - 1])
<1> DEFINE n == Len(p.pending)
           Is(g, k) == g = [i \in 0..k |-> IF i = 0 THEN p ELSE TurnOf(g[i - 1])]
           Lacking == {k \in Nat : ~ \E g : Is(g, k)}
<1>1. Lacking = {}
  <2> SUFFICES ASSUME Lacking # {} PROVE FALSE
    OBVIOUS
  <2>1. Lacking \in SUBSET Nat
    OBVIOUS
  <2> HIDE DEF Is
  <2>2. PICK k \in Lacking : \A j \in Lacking : k <= j
    BY <2>1, LeastElement
  <2>3. k # 0
    <3>1. Is([i \in 0..0 |-> p], 0)
      BY DEF Is
    <3>2. QED
      BY <3>1
  <2>4. k \in Nat /\ k - 1 \in Nat /\ k - 1 \notin Lacking
    BY <2>2, <2>3
  <2>5. PICK g : Is(g, k - 1)
    BY <2>4
  <2> DEFINE h == [i \in 0..k |-> IF i < k THEN g[i] ELSE TurnOf(g[k - 1])]
  <2>6. /\ g[0] = p
        /\ \A i \in 0..(k - 1) : i = 0 \/ g[i] = TurnOf(g[i - 1])
    BY <2>4, <2>5 DEF Is
  <2>7. \A i \in 0..k : h[i] = IF i = 0 THEN p ELSE TurnOf(h[i - 1])
    <3> TAKE i \in 0..k
    <3>1. CASE i = 0
      BY <2>3, <2>4, <2>6, <3>1
    <3>2. CASE i # 0 /\ i < k
      <4>1. h[i] = g[i] /\ h[i - 1] = g[i - 1] /\ g[i] = TurnOf(g[i - 1])
        BY <2>4, <2>6, <3>2
      <4>2. QED
        BY <3>2, <4>1
    <3>3. CASE i = k
      <4>1. h[k] = TurnOf(g[k - 1]) /\ h[k - 1] = g[k - 1]
        BY <2>3, <2>4
      <4>2. QED
        BY <2>3, <3>3, <4>1
    <3>4. QED
      BY <2>4, <3>1, <3>2, <3>3
  <2>8. h = [i \in 0..k |-> h[i]]
    OBVIOUS
  <2> HIDE DEF h
  <2>9. Is(h, k)
    BY <2>7, <2>8 DEF Is
  <2>10. QED
    BY <2>2, <2>9
<1>2. \E g : Is(g, n)
  BY <1>1
<1> DEFINE f == CHOOSE g : Is(g, n)
<1>3. Is(f, n)
  BY <1>2
<1>4. Drained(p) = f[n]
  BY DEF drain, Drained, TurnOf
<1> HIDE DEF f
<1>5. /\ f[0] = p
      /\ \A i \in 1..n : f[i] = TurnOf(f[i - 1])
  BY <1>3
<1>6. QED
  BY <1>4, <1>5

LEMMA DrainStops ==
    ASSUME NEW p, IsParser(p)
    PROVE  IsParser(Drained(p)) /\ Still(Drained(p))
<1> DEFINE n == Len(p.pending)
<1>1. n \in Nat
  BY DEF IsParser
<1>2. PICK f : /\ f[0] = p /\ Drained(p) = f[n]
               /\ \A i \in 1..n : f[i] = TurnOf(f[i - 1])
  BY <1>1, DrainChain
<1> DEFINE Good(i) == IsParser(f[i]) /\ (Still(f[i]) \/ Len(f[i].pending) <= n - i)
           Wrong == {i \in 0..n : ~Good(i)}
<1>3. Wrong = {}
  <2> SUFFICES ASSUME Wrong # {} PROVE FALSE
    OBVIOUS
  <2>1. Wrong \in SUBSET Nat
    OBVIOUS
  <2>2. PICK i \in Wrong : \A j \in Wrong : i <= j
    BY <2>1, LeastElement
  <2>3. i # 0
    <3>1. Good(0)
      BY <1>1, <1>2
    <3>2. QED
      BY <2>2, <3>1
  <2>4. i \in 1..n /\ i - 1 \in 0..n /\ ~(i <= i - 1)
    BY <1>1, <2>2, <2>3
  <2>5. i - 1 \notin Wrong
    <3> HIDE DEF Wrong
    <3>1. QED
      BY <2>2, <2>4
  <2> DEFINE a == f[i - 1]
             b == f[i]
  <2>6. IsParser(a) /\ (Still(a) \/ Len(a.pending) <= n - (i - 1))
    BY <2>4, <2>5
  <2>7. b = TurnOf(a)
    BY <1>2, <2>4
  <2> HIDE DEF a
  <2>8. IsParser(b)
    BY <2>6, <2>7, TurnShorter
  <2>9. CASE Still(a)
    <3>1. b = a
      BY <2>7, <2>9 DEF Still
    <3>2. Still(b)
      BY <2>9, <3>1
    <3>3. QED
      BY <2>2, <2>8, <3>2
  <2>10. CASE ~Still(a)
    <3>1. PICK k \in 1..Len(a.pending) : b.pending = From(a.pending, k + 1)
      BY <2>6, <2>7, <2>10, TurnShorter
    <3> DEFINE m == Len(a.pending)
               v == b.pending
               w == a.pending
    <3>2. m \in Nat /\ w \in Seq(Chars) /\ k \in Nat /\ 1 <= k /\ k <= m
          /\ k + 1 \in 1..(Len(w) + 1)
      BY <2>6, <3>1 DEF IsParser
    <3> HIDE DEF w
    <3>3. Len(From(w, k + 1)) = Len(w) + 1 - (k + 1)
      BY <3>2, ConcatEmptySeq, FromBehind
    <3>4. Len(v) = m + 1 - (k + 1)
      BY <3>1, <3>3 DEF w
    <3>5. m <= n - (i - 1)
      BY <2>6, <2>10
    <3> HIDE DEF m, n
    <3>6. i \in Nat
      BY <2>4
    <3>7. Len(v) <= n - i
      BY <1>1, <3>2, <3>4, <3>5, <3>6
    <3>8. QED
      BY <2>2, <2>8, <3>7 DEF n
  <2>11. QED
    BY <2>9, <2>10
<1>4. Good(n)
  BY <1>1, <1>3
<1>5. Len(f[n].pending) <= n - n => Still(f[n])
  <2> SUFFICES ASSUME Len(f[n].pending) <= n - n PROVE Still(f[n])
    OBVIOUS
  <2> DEFINE v == f[n].pending
  <2>1. v \in Seq(Chars) /\ Len(v) \in Nat /\ Len(v) <= 0
    BY <1>1, <1>4 DEF IsParser
  <2>2. v = <<>>
    <3> HIDE DEF v
    <3>1. QED
      BY <2>1, EmptySeq
  <2>3. QED
    BY <1>4, <2>2, TurnIs
<1>6. QED
  BY <1>2, <1>4, <1>5

LEMMA DrainStill ==
    ASSUME NEW p, IsParser(p), Still(p)
    PROVE  Drained(p) = p
<1> DEFINE n == Len(p.pending)
<1>1. n \in Nat
  BY DEF IsParser
<1>2. PICK f : /\ f[0] = p /\ Drained(p) = f[n]
               /\ \A i \in 1..n : f[i] = TurnOf(f[i - 1])
  BY <1>1, DrainChain
<1> DEFINE Wrong == {i \in 0..n : f[i] # p}
<1>3. Wrong = {}
  <2> SUFFICES ASSUME Wrong # {} PROVE FALSE
    OBVIOUS
  <2>1. Wrong \in SUBSET Nat
    OBVIOUS
  <2>2. PICK i \in Wrong : \A j \in Wrong : i <= j
    BY <2>1, LeastElement
  <2>3. i # 0
    BY <1>2, <2>2
  <2>4. i \in 1..n /\ i - 1 \in 0..n /\ ~(i <= i - 1)
    BY <1>1, <2>2, <2>3
  <2>5. f[i - 1] = p /\ f[i] = TurnOf(f[i - 1])
    BY <1>2, <2>2, <2>4
  <2>6. f[i] = p
    BY <2>5 DEF Still
  <2>7. QED
    BY <2>2, <2>6
<1>4. QED
  BY <1>1, <1>2, <1>3

\* What is taken in one turn may be taken before the rest is drained.
LEMMA DrainTurn ==
    ASSUME NEW p, IsParser(p)
    PROVE  Drained(TurnOf(p)) = Drained(p)
<1>1. CASE Still(p)
  BY <1>1 DEF Still
<1>2. CASE ~Still(p)
  <2> DEFINE n == Len(p.pending)
             q == TurnOf(p)
             m == Len(q.pending)
  <2>1. n \in Nat /\ IsParser(q)
    BY TurnShorter DEF IsParser
  <2>2. m \in Nat /\ m + 1 <= n
    <3>1. PICK k \in 1..Len(p.pending) : q.pending = From(p.pending, k + 1)
      BY <1>2, TurnShorter
    <3> DEFINE w == p.pending
    <3>2. w \in Seq(Chars) /\ k \in Nat /\ 1 <= k /\ k <= n /\ k + 1 \in 1..(Len(w) + 1)
      BY <2>1, <3>1 DEF IsParser
    <3> HIDE DEF w
    <3>3. Len(From(w, k + 1)) = Len(w) + 1 - (k + 1)
      BY <3>2, FromBehind
    <3>4. m = n + 1 - (k + 1)
      BY <3>1, <3>3 DEF w
    <3> HIDE DEF m, n
    <3>5. QED
      BY <2>1, <3>2, <3>4
  <2>3. PICK f : /\ f[0] = p /\ Drained(p) = f[n]
                 /\ \A i \in 1..n : f[i] = TurnOf(f[i - 1])
    BY <2>1, DrainChain
  <2>4. PICK g : /\ g[0] = q /\ Drained(q) = g[m]
                 /\ \A i \in 1..m : g[i] = TurnOf(g[i - 1])
    <3> HIDE DEF q
    <3>1. QED
      BY <2>2, DrainChain
  <2>5. Still(Drained(q))
    <3> HIDE DEF q
    <3>1. QED
      BY <2>1, DrainStops
  <2> HIDE DEF n, m
  <2> DEFINE Wrong == {i \in 0..m : f[i + 1] # g[i]}
  <2>6. Wrong = {}
    <3> SUFFICES ASSUME Wrong # {} PROVE FALSE
      OBVIOUS
    <3>1. Wrong \in SUBSET Nat
      BY <2>2
    <3>2. PICK i \in Wrong : \A j \in Wrong : i <= j
      BY <3>1, LeastElement
    <3>3. i # 0
      <4>1. f[0 + 1] = TurnOf(f[0])
        <5>1. 1 \in 1..n
          BY <2>1, <2>2
        <5>2. f[1] = TurnOf(f[1 - 1])
          BY <2>3, <5>1
        <5>3. QED
          BY <5>2
      <4>2. QED
        BY <2>3, <2>4, <3>2, <4>1
    <3>4. i \in 1..m /\ i - 1 \in 0..m /\ ~(i <= i - 1) /\ (i - 1) + 1 = i /\ i + 1 \in 1..n
          /\ (i + 1) - 1 = i
      BY <2>1, <2>2, <3>2, <3>3
    <3>5. f[i] = g[i - 1]
      BY <3>2, <3>4
    <3>6. f[i + 1] = TurnOf(f[i]) /\ g[i] = TurnOf(g[i - 1])
      BY <2>3, <2>4, <3>4
    <3>7. QED
      BY <3>2, <3>5, <3>6
  <2>7. f[m + 1] = Drained(q)
    BY <2>2, <2>4, <2>6
  <2> DEFINE Odd == {i \in Nat : i <= n - (m + 1) /\ f[m + 1 + i] # Drained(q)}
  <2>8. Odd = {}
    <3> SUFFICES ASSUME Odd # {} PROVE FALSE
      OBVIOUS
    <3>1. Odd \in SUBSET Nat
      OBVIOUS
    <3>2. PICK i \in Odd : \A j \in Odd : i <= j
      BY <3>1, LeastElement
    <3>3. i # 0
      BY <2>2, <2>7, <3>2
    <3>4. /\ i \in Nat /\ i - 1 \in Nat /\ i - 1 <= n - (m + 1) /\ ~(i <= i - 1)
          /\ m + 1 + i \in 1..n /\ (m + 1 + i) - 1 = m + 1 + (i - 1)
      BY <2>1, <2>2, <3>2, <3>3
    <3>5. f[m + 1 + (i - 1)] = Drained(q)
      BY <3>2, <3>4
    <3>6. f[m + 1 + i] = TurnOf(f[m + 1 + (i - 1)])
      BY <2>3, <3>4
    <3>7. f[m + 1 + i] = Drained(q)
      BY <2>5, <3>5, <3>6 DEF Still
    <3>8. QED
      BY <3>2, <3>7
  <2>9. f[n] = Drained(q)
    <3>1. n - (m + 1) \in Nat /\ n - (m + 1) <= n - (m + 1) /\ m + 1 + (n - (m + 1)) = n
      BY <2>1, <2>2
    <3>2. QED
      BY <2>8, <3>1
  <2>10. QED
    BY <2>3, <2>9
<1>3. QED
  BY <1>1, <1>2

(***************************************************************************)
(* Text that was drained, and more of it.                                  *)
(***************************************************************************)
LEMMA OpenBehind ==
    ASSUME NEW s \in Seq(Chars), NEW k \in 1..Len(s), ~Open(s)
    PROVE  ~Open(From(s, k + 1))
<1> DEFINE n == Len(s)
           v == From(s, k + 1)
<1>1. n \in Nat /\ k \in Nat /\ 1 <= k /\ k <= n /\ k + 1 \in 1..(Len(s) + 1)
  OBVIOUS
<1>2. /\ v \in Seq(Chars) /\ Len(v) = n + 1 - (k + 1)
      /\ \A j \in 1..(n + 1 - (k + 1)) : v[j] = s[k + 1 + j - 1]
  BY <1>1, FromBehind
<1> HIDE DEF v
<1>3. CASE k = n
  <2>1. Len(v) = 0
    BY <1>1, <1>2, <1>3
  <2>2. v = <<>>
    BY <1>2, <2>1, EmptySeq
  <2>3. QED
    BY <2>2 DEF Open, v
<1>4. CASE k # n
  <2> DEFINE m == Len(v)
  <2>1. m \in 1..(n + 1 - (k + 1)) /\ k + 1 + m - 1 = n
    BY <1>1, <1>2, <1>4
  <2>2. v[m] = s[k + 1 + m - 1]
    BY <1>2, <2>1
  <2>3. v[m] = s[n]
    BY <2>1, <2>2
  <2>4. s # <<>>
    BY <1>1
  <2>5. s[n] \notin Digits \cup {"tick"}
    BY <2>4 DEF Open
  <2>6. QED
    BY <2>3, <2>5 DEF Open, v
<1>5. QED
  BY <1>3, <1>4

LEMMA DrainMore ==
    ASSUME NEW p, IsParser(p), NEW t \in Seq(Chars), ~Open(p.pending)
    PROVE  Drained(More(Drained(p), t)) = Drained(More(p, t))
<1> DEFINE Holds(x) == Drained(More(Drained(x), t)) = Drained(More(x, t))
           Fails(n) == \E x : IsParser(x) /\ ~Open(x.pending) /\ Len(x.pending) = n /\ ~Holds(x)
           Lengths == {n \in Nat : Fails(n)}
<1>1. Lengths = {}
  <2> SUFFICES ASSUME Lengths # {} PROVE FALSE
    OBVIOUS
  <2>1. Lengths \in SUBSET Nat
    OBVIOUS
  <2>2. PICK n \in Lengths : \A j \in Lengths : n <= j
    BY <2>1, LeastElement
  <2>3. n \in Nat /\ Fails(n)
    BY <2>2
  <2>4. PICK x : IsParser(x) /\ ~Open(x.pending) /\ Len(x.pending) = n /\ ~Holds(x)
    BY <2>3
  <2> HIDE DEF Holds
  <2>5. CASE Still(x)
    <3>1. Drained(x) = x
      BY <2>4, <2>5, DrainStill
    <3>2. Holds(x)
      BY <3>1 DEF Holds
    <3>3. QED
      BY <2>4, <3>2
  <2>6. CASE ~Still(x)
    <3> DEFINE y == TurnOf(x)
               v == y.pending
               w == x.pending
    <3>1. PICK k \in 1..Len(x.pending) : y.pending = From(x.pending, k + 1)
      BY <2>4, <2>6, TurnShorter
    <3>2. IsParser(y) /\ w \in Seq(Chars)
      BY <2>4, TurnShorter DEF IsParser
    <3>3. k \in Nat /\ 1 <= k /\ k <= n /\ k + 1 \in 1..(Len(w) + 1)
      BY <2>3, <2>4, <3>1
    <3>4. Len(From(w, k + 1)) = Len(w) + 1 - (k + 1) /\ ~Open(From(w, k + 1))
      <4> HIDE DEF w
      <4>1. k \in 1..Len(w) /\ ~Open(w)
        BY <2>4, <3>1 DEF w
      <4>2. QED
        BY <3>2, <3>3, <4>1, FromBehind, OpenBehind
    <3> DEFINE m == Len(v)
    <3>5. m = n + 1 - (k + 1) /\ ~Open(v)
      BY <2>4, <3>1, <3>4
    <3>6. m \in Nat /\ m < n /\ ~(n <= m)
      <4> HIDE DEF m
      <4>1. QED
        BY <2>3, <3>3, <3>5
    <3>7. Holds(y)
      <4>1. m \notin Lengths
        <5> HIDE DEF Lengths, m
        <5>1. QED
          BY <2>2, <3>6
      <4>2. ~Fails(m)
        BY <3>6, <4>1
      <4>3. QED
        BY <3>2, <3>5, <4>2
    <3>8. Drained(y) = Drained(x)
      BY <2>4, DrainTurn
    <3>9. w # <<>>
      BY <3>1
    <3>10. TurnOf(More(x, t)) = More(y, t)
      BY <2>4, <2>6, <3>9, TurnMore
    <3>11. IsParser(More(x, t))
      BY <2>4, MoreIs
    <3>12. Drained(TurnOf(More(x, t))) = Drained(More(x, t))
      BY <3>11, DrainTurn
    <3> HIDE DEF y
    <3>13. Holds(x)
      BY <3>7, <3>8, <3>10, <3>12 DEF Holds
    <3>14. QED
      BY <2>4, <3>13
  <2>7. QED
    BY <2>5, <2>6
<1>2. Len(p.pending) \in Nat
  BY DEF IsParser
<1>3. ~Fails(Len(p.pending))
  BY <1>1, <1>2
<1> HIDE DEF Holds
<1>4. Holds(p)
  BY <1>3
<1>5. QED
  BY <1>4 DEF Holds

LEMMA NewIsParser ==
    IsParser(NewParser) /\ NewParser.pending = <<>> /\ push(NewParser, <<>>) = NewParser
<1>1. NewParser.pending = <<>> /\ IsParser(NewParser)
  BY DEF NewParser, IsParser
<1>2. More(NewParser, <<>>) = NewParser
  <2>1. <<>> \o <<>> = <<>>
    OBVIOUS
  <2>2. More(NewParser, <<>>) = [NewParser EXCEPT !.pending = <<>>]
    BY <1>1, <2>1 DEF More
  <2>3. QED
    BY <2>2 DEF NewParser
<1>3. Still(NewParser)
  BY <1>1, TurnIs
<1>4. push(NewParser, <<>>) = Drained(More(NewParser, <<>>))
  BY DEF push, Drained, More
<1>5. QED
  BY <1>1, <1>2, <1>3, <1>4, DrainStill

LEMMA PushTwice ==
    ASSUME NEW a \in Seq(Chars), NEW b \in Seq(Chars), ~Open(a)
    PROVE  push(push(NewParser, a), b) = push(NewParser, a \o b)
<1> DEFINE p == More(NewParser, a)
           q == More(p, b)
           r == More(NewParser, a \o b)
<1>1. a \o b \in Seq(Chars) /\ <<>> \o a = a /\ <<>> \o (a \o b) = a \o b
  <2>1. a \o b \in Seq(Chars)
    BY ConcatProperties
  <2> DEFINE c == a \o b
  <2> HIDE DEF c
  <2>2. c \in Seq(Chars)
    BY <2>1 DEF c
  <2>3. <<>> \o a = a /\ <<>> \o c = c
    BY <2>2, ConcatEmptySeq
  <2>4. QED
    BY <2>1, <2>3 DEF c
<1> DEFINE Made(v) == [pending |-> v, atLineStart |-> TRUE, lineIndent |-> 0,
                       trailingBackslashes |-> 0, events |-> <<>>]
<1>2. NewParser = Made(<<>>)
  BY DEF NewParser
<1>3. \A v, w : More(Made(v), w) = Made(v \o w)
  <2> TAKE v, w
  <2> DEFINE z == v \o w
  <2>1. Made(v).pending = v
    OBVIOUS
  <2>2. More(Made(v), w) = [Made(v) EXCEPT !.pending = z]
    BY <2>1 DEF More
  <2> HIDE DEF z
  <2>3. More(Made(v), w) = Made(z)
    BY <2>2
  <2>4. QED
    BY <2>3 DEF z
<1>4. IsParser(p) /\ p.pending = a
  <2>1. p.pending = <<>> \o a
    BY NewIsParser, MoreIs
  <2>2. QED
    BY <1>1, <2>1, NewIsParser, MoreIs
<1> HIDE DEF Made
<1>5. p = Made(a)
  BY <1>1, <1>2, <1>3
<1>6. q = Made(a \o b)
  <2> HIDE DEF p
  <2>1. QED
    BY <1>3, <1>5
<1>7. r = Made(a \o b)
  BY <1>1, <1>2, <1>3
<1>8. q = r
  BY <1>6, <1>7
<1>9. /\ push(NewParser, a) = Drained(p) /\ push(NewParser, a \o b) = Drained(r)
      /\ push(Drained(p), b) = Drained(More(Drained(p), b))
  BY DEF push, Drained, More
<1> HIDE DEF p, q, r
<1>10. Drained(More(Drained(p), b)) = Drained(q)
  BY <1>4, DrainMore DEF q
<1>11. QED
  BY <1>8, <1>9, <1>10

(***************************************************************************)
(* Chunks that make up a text.                                             *)
(***************************************************************************)
Joins(c, pieces, whole) ==
    /\ c[0] = <<>> /\ c[Len(pieces)] = whole
    /\ \A i \in 1..Len(pieces) : c[i] = c[i - 1] \o pieces[i]
    /\ \A i \in 0..Len(pieces) : c[i] \in Seq(Chars)

Joined(pieces, whole) ==
    /\ pieces \in Seq(Seq(Chars))
    /\ \A i \in 1..Len(pieces) : pieces[i] # <<>>
    /\ \E c : Joins(c, pieces, whole)

LEMMA JoinedMore ==
    ASSUME NEW pieces, NEW whole, Joined(pieces, whole), NEW s \in Seq(Chars), s # <<>>
    PROVE  Joined(Append(pieces, s), whole \o s)
<1> DEFINE n == Len(pieces)
           more == Append(pieces, s)
           joined == whole \o s
<1>1. /\ pieces \in Seq(Seq(Chars)) /\ n \in Nat
      /\ \A i \in 1..n : pieces[i] # <<>>
  BY DEF Joined
<1>2. PICK c : Joins(c, pieces, whole)
  BY DEF Joined
<1>3. /\ more \in Seq(Seq(Chars)) /\ Len(more) = n + 1 /\ more[n + 1] = s
      /\ \A i \in 1..n : more[i] = pieces[i]
  BY <1>1
<1> HIDE DEF more, n
<1>4. /\ c[0] = <<>> /\ c[n] = whole /\ \A i \in 1..n : c[i] = c[i - 1] \o pieces[i]
      /\ \A i \in 0..n : c[i] \in Seq(Chars)
  BY <1>2 DEF Joins, n
<1>5. joined \in Seq(Chars)
  <2>1. whole \in Seq(Chars)
    BY <1>1, <1>4
  <2>2. QED
    BY <2>1, ConcatProperties
<1> DEFINE d == [i \in 0..(n + 1) |-> IF i <= n THEN c[i] ELSE joined]
<1> HIDE DEF joined
<1>6. /\ \A i \in 0..n : d[i] = c[i]
      /\ d[n + 1] = joined
  BY <1>1
<1> HIDE DEF d
<1>7. \A i \in 1..(n + 1) : d[i] = d[i - 1] \o more[i]
  <2> TAKE i \in 1..(n + 1)
  <2>1. CASE i <= n
    <3>1. i \in 1..n /\ i \in 0..n /\ i - 1 \in 0..n
      BY <1>1, <2>1
    <3>2. d[i] = c[i] /\ d[i - 1] = c[i - 1] /\ more[i] = pieces[i]
      BY <1>3, <1>6, <3>1
    <3>3. c[i] = c[i - 1] \o pieces[i]
      BY <1>4, <3>1
    <3>4. QED
      BY <3>2, <3>3
  <2>2. CASE ~(i <= n)
    <3>1. i = n + 1 /\ i - 1 = n /\ n \in 0..n
      BY <1>1, <2>2
    <3>2. d[i] = joined /\ d[i - 1] = whole /\ more[i] = s
      BY <1>3, <1>4, <1>6, <3>1
    <3>3. QED
      BY <3>2 DEF joined
  <2>3. QED
    BY <2>1, <2>2
<1>8. \A i \in 0..(n + 1) : d[i] \in Seq(Chars)
  <2> TAKE i \in 0..(n + 1)
  <2>1. i \in 0..n \/ i = n + 1
    BY <1>1
  <2>2. QED
    BY <1>4, <1>5, <1>6, <2>1
<1>9. d[0] = <<>> /\ d[Len(more)] = joined
  <2>1. 0 \in 0..n
    BY <1>1
  <2>2. d[0] = c[0]
    BY <1>6, <2>1
  <2>3. d[0] = <<>>
    BY <1>4, <2>2
  <2>4. d[Len(more)] = joined
    BY <1>3, <1>6
  <2>5. QED
    BY <2>3, <2>4
<1>10. Joins(d, more, joined)
  BY <1>3, <1>7, <1>8, <1>9 DEF Joins
<1>11. \A i \in 1..Len(more) : more[i] # <<>>
  <2> TAKE i \in 1..Len(more)
  <2>1. i \in 1..n \/ i = n + 1
    BY <1>1, <1>3
  <2>2. QED
    BY <1>1, <1>3, <2>1
<1>12. Joined(more, joined)
  BY <1>3, <1>10, <1>11 DEF Joined
<1>13. QED
  BY <1>12 DEF more, joined

(***************************************************************************)
(* The parser that was given the chunks.                                   *)
(***************************************************************************)
LEMMA ParsedChain ==
    ASSUME Len(chunks) \in Nat
    PROVE  \E f : /\ f[0] = NewParser /\ Parsed = finish(f[Len(chunks)])
                  /\ \A i \in 1..Len(chunks) : f[i] = push(f[i - 1], chunks[i])
<1> DEFINE n == Len(chunks)
           Is(g, k) == g = [i \in 0..k |-> IF i = 0 THEN NewParser
                                            ELSE push(g[i - 1], chunks[i])]
           Lacking == {k \in Nat : ~ \E g : Is(g, k)}
<1>1. Lacking = {}
  <2> SUFFICES ASSUME Lacking # {} PROVE FALSE
    OBVIOUS
  <2>1. Lacking \in SUBSET Nat
    OBVIOUS
  <2> HIDE DEF Is
  <2>2. PICK k \in Lacking : \A j \in Lacking : k <= j
    BY <2>1, LeastElement
  <2>3. k # 0
    <3>1. Is([i \in 0..0 |-> NewParser], 0)
      BY DEF Is
    <3>2. QED
      BY <3>1
  <2>4. k \in Nat /\ k - 1 \in Nat /\ k - 1 \notin Lacking
    BY <2>2, <2>3
  <2>5. PICK g : Is(g, k - 1)
    BY <2>4
  <2> DEFINE h == [i \in 0..k |-> IF i < k THEN g[i] ELSE push(g[k - 1], chunks[k])]
  <2>6. /\ g[0] = NewParser
        /\ \A i \in 0..(k - 1) : i = 0 \/ g[i] = push(g[i - 1], chunks[i])
    BY <2>4, <2>5 DEF Is
  <2>7. \A i \in 0..k : h[i] = IF i = 0 THEN NewParser ELSE push(h[i - 1], chunks[i])
    <3> TAKE i \in 0..k
    <3>1. CASE i = 0
      BY <2>3, <2>4, <2>6, <3>1
    <3>2. CASE i # 0 /\ i < k
      <4>1. h[i] = g[i] /\ h[i - 1] = g[i - 1] /\ g[i] = push(g[i - 1], chunks[i])
        BY <2>4, <2>6, <3>2
      <4>2. QED
        BY <3>2, <4>1
    <3>3. CASE i = k
      <4>1. h[k] = push(g[k - 1], chunks[k]) /\ h[k - 1] = g[k - 1]
        BY <2>3, <2>4
      <4>2. QED
        BY <2>3, <3>3, <4>1
    <3>4. QED
      BY <2>4, <3>1, <3>2, <3>3
  <2>8. h = [i \in 0..k |-> h[i]]
    OBVIOUS
  <2> HIDE DEF h
  <2>9. Is(h, k)
    BY <2>7, <2>8 DEF Is
  <2>10. QED
    BY <2>2, <2>9
<1>2. \E g : Is(g, n)
  BY <1>1
<1> DEFINE f == CHOOSE g : Is(g, n)
<1>3. Is(f, n)
  BY <1>2
<1>4. Parsed = finish(f[n])
  BY DEF Parsed
<1> HIDE DEF f
<1>5. /\ f[0] = NewParser
      /\ \A i \in 1..n : f[i] = push(f[i - 1], chunks[i])
  BY <1>3
<1>6. QED
  BY <1>4, <1>5

LEMMA LastOfJoin ==
    ASSUME NEW a \in Seq(Chars), NEW b \in Seq(Chars), b # <<>>, ~Open(b)
    PROVE  ~Open(a \o b)
<1> DEFINE c == a \o b
           m == Len(b)
<1>1. m \in Nat /\ 0 < m /\ Len(a) \in Nat
  OBVIOUS
<1>2. /\ c \in Seq(Chars) /\ Len(c) = Len(a) + m
      /\ \A i \in 1..(Len(a) + m) : c[i] = IF i <= Len(a) THEN a[i] ELSE b[i - Len(a)]
  BY ConcatProperties
<1> HIDE DEF c, m
<1>3. c[Len(a) + m] = b[m]
  <2>1. Len(a) + m \in 1..(Len(a) + m) /\ ~(Len(a) + m <= Len(a)) /\ (Len(a) + m) - Len(a) = m
    BY <1>1
  <2>2. QED
    BY <1>2, <2>1
<1>4. b[m] \notin Digits \cup {"tick"}
  BY DEF Open, m
<1>5. QED
  BY <1>2, <1>3, <1>4 DEF Open, c

LEMMA JoinedParsed ==
    ASSUME Joined(chunks, text),
           \A i \in 1..Len(chunks) : i # Len(chunks) => ~Open(chunks[i])
    PROVE  Parsed.events = parseMarkdownMath(text)
<1> DEFINE n == Len(chunks)
<1>1. /\ chunks \in Seq(Seq(Chars)) /\ n \in Nat
      /\ \A i \in 1..n : chunks[i] # <<>> /\ chunks[i] \in Seq(Chars)
  BY DEF Joined
<1>2. PICK c : /\ c[0] = <<>> /\ c[n] = text
               /\ \A i \in 1..n : c[i] = c[i - 1] \o chunks[i]
               /\ \A i \in 0..n : c[i] \in Seq(Chars)
  BY DEF Joined, Joins
<1>3. PICK f : /\ f[0] = NewParser /\ Parsed = finish(f[n])
               /\ \A i \in 1..n : f[i] = push(f[i - 1], chunks[i])
  BY <1>1, ParsedChain
<1>4. \A i \in 1..n : i # n => ~Open(chunks[i])
  OBVIOUS
<1> HIDE DEF n
<1>5. ASSUME NEW i \in 0..n, i # n PROVE ~Open(c[i])
  <2>1. CASE i = 0
    BY <1>2, <2>1 DEF Open
  <2>2. CASE i # 0
    <3>1. i \in 1..n /\ i - 1 \in 0..n
      BY <1>1, <2>2
    <3>2. c[i - 1] \in Seq(Chars) /\ chunks[i] \in Seq(Chars) /\ chunks[i] # <<>>
          /\ ~Open(chunks[i]) /\ c[i] = c[i - 1] \o chunks[i]
      BY <1>1, <1>2, <1>4, <1>5, <3>1
    <3>3. QED
      BY <3>2, LastOfJoin
  <2>3. QED
    BY <2>1, <2>2
<1> DEFINE Wrong == {i \in 0..n : f[i] # push(NewParser, c[i])}
<1>6. Wrong = {}
  <2> SUFFICES ASSUME Wrong # {} PROVE FALSE
    OBVIOUS
  <2>1. Wrong \in SUBSET Nat
    BY <1>1
  <2>2. PICK i \in Wrong : \A j \in Wrong : i <= j
    BY <2>1, LeastElement
  <2>3. i # 0
    BY <1>2, <1>3, <2>2, NewIsParser
  <2>4. i \in 1..n /\ i - 1 \in 0..n /\ i - 1 # n /\ ~(i <= i - 1)
    BY <1>1, <2>2, <2>3
  <2>5. f[i - 1] = push(NewParser, c[i - 1])
    BY <2>2, <2>4
  <2>6. f[i] = push(push(NewParser, c[i - 1]), chunks[i])
    BY <1>3, <2>4, <2>5
  <2>7. /\ c[i - 1] \in Seq(Chars) /\ chunks[i] \in Seq(Chars) /\ ~Open(c[i - 1])
        /\ c[i] = c[i - 1] \o chunks[i]
    BY <1>1, <1>2, <1>5, <2>4
  <2>8. f[i] = push(NewParser, c[i])
    BY <2>6, <2>7, PushTwice
  <2>9. QED
    BY <2>2, <2>8
<1>7. f[n] = push(NewParser, text)
  <2>1. n \in 0..n
    BY <1>1
  <2>2. f[n] = push(NewParser, c[n])
    BY <1>6, <2>1
  <2>3. QED
    BY <1>2, <2>2
<1>8. QED
  BY <1>3, <1>7 DEF parseMarkdownMath

(***************************************************************************)
(* The chunks the one-shot command is given make up the text.              *)
(***************************************************************************)
Given(run) ==
    /\ {"text", "chunks"} \subseteq DOMAIN run
    /\ consumer = "cli" => Joined(run.chunks, run.text)

Pieces == consumer = "cli" => Joined(chunks, text)

LEMMA EmitGiven ==
    ASSUME NEW run, Given(run), NEW s \in Seq(Chars)
    PROVE  Given(EmitText(run, s))
<1>1. CASE s = <<>>
  BY <1>1 DEF EmitText
<1>2. CASE s # <<>>
  <2> DEFINE run2 == EmitText(run, s)
  <2>1. /\ {"text", "chunks"} \subseteq DOMAIN run2 /\ run2.text = run.text \o s
        /\ consumer = "cli" => run2.chunks = Append(run.chunks, s)
    BY <1>2 DEF EmitText, Given
  <2> HIDE DEF run2
  <2>2. ASSUME consumer = "cli" PROVE Joined(run2.chunks, run2.text)
    <3>1. Joined(run.chunks, run.text)
      BY <2>2 DEF Given
    <3>2. Joined(Append(run.chunks, s), run.text \o s)
      BY <1>2, <3>1, JoinedMore
    <3>3. QED
      BY <2>1, <2>2, <3>2
  <2>3. Given(run2)
    BY <2>1, <2>2 DEF Given
  <2>4. QED
    BY <2>3 DEF run2
<1>3. QED
  BY <1>1, <1>2

LEMMA SameGiven ==
    ASSUME NEW run, Given(run), NEW run2, {"text", "chunks"} \subseteq DOMAIN run2,
           run2.text = run.text, run2.chunks = run.chunks
    PROVE  Given(run2)
BY DEF Given

LEMMA ReportGiven ==
    ASSUME NEW run, Given(run), NEW event
    PROVE  Given(Report(run, event))
<1> DEFINE run2 == Report(run, event)
<1>1. {"text", "chunks"} \subseteq DOMAIN run2 /\ run2.text = run.text /\ run2.chunks = run.chunks
  BY DEF Report, Given
<1>2. QED
  BY <1>1, SameGiven

LEMMA PushGiven ==
    ASSUME NEW run, Given(run), Streamed(run), NEW delta, Plain(delta)
    PROVE  Given(Push(run, delta))
<1> DEFINE more == Redact(run.pending \o delta)
           rest == Rest(more)
           got == run.received \o delta
           kept == [run EXCEPT !.received = got, !.pending = rest]
<1>1. Safe(more) \in Seq(Chars)
  <2> DEFINE known == Redact(run.received)
  <2>1. Plain(run.received) /\ run.pending = Rest(known)
    BY DEF Streamed
  <2>2. Redact(Rest(known) \o delta) \in Seq(Chars)
    BY <2>1, RedactMore
  <2>3. more \in Seq(Chars)
    BY <2>1, <2>2
  <2> HIDE DEF more
  <2>4. QED
    BY <2>3, SafeAndRest
<1>2. Push(run, delta) = EmitText(kept, Safe(more))
  BY DEF Push
<1> HIDE DEF more, rest, got
<1>3. {"text", "chunks"} \subseteq DOMAIN kept /\ kept.text = run.text /\ kept.chunks = run.chunks
  BY DEF Given
<1> HIDE DEF kept
<1>4. Given(kept)
  BY <1>3, SameGiven
<1>5. QED
  BY <1>1, <1>2, <1>4, EmitGiven

LEMMA FinalizeGiven ==
    ASSUME NEW run, Given(run), run.pending \in Seq(Chars)
    PROVE  Given(Finalize(run))
<1> DEFINE kept == [run EXCEPT !.pending = <<>>]
           tail == FinalTail(run.pending)
<1>1. tail \in Seq(Chars)
  <2>1. <<Marker>> \in Seq(Chars)
    BY DEF Chars
  <2>2. tail = run.pending \/ tail = <<Marker>>
    BY DEF FinalTail
  <2>3. QED
    BY <2>1, <2>2
<1>2. Finalize(run) = EmitText(kept, tail)
  BY DEF Finalize
<1>3. {"text", "chunks"} \subseteq DOMAIN kept /\ kept.text = run.text /\ kept.chunks = run.chunks
  BY DEF Given
<1> HIDE DEF kept, tail
<1>4. Given(kept)
  BY <1>3, SameGiven
<1>5. QED
  BY <1>1, <1>2, <1>4, EmitGiven

LEMMA StreamedPending ==
    ASSUME NEW run, Streamed(run)
    PROVE  run.pending \in Seq(Chars)
BY RedactChars DEF Streamed

LEMMA FailedGiven ==
    ASSUME NEW run, Given(run), Streamed(run)
    PROVE  Given(Failed(run))
<1>1. Given(Report(Finalize(run), Failure))
  BY StreamedPending, FinalizeGiven, ReportGiven
<1>2. Given(Finalize(Report(run, Failure)))
  <2>1. Given(Report(run, Failure)) /\ Streamed(Report(run, Failure))
    BY ReportGiven, ReportText DEF Streamed
  <2>2. QED
    BY <2>1, StreamedPending, FinalizeGiven
<1>3. QED
  BY <1>1, <1>2 DEF Failed

LEMMA DeliverGiven ==
    ASSUME Given(Run), Streamed(Run), NEW items, Len(items) \in Nat,
           \A i \in 1..Len(items) : Plain(items[i].delta)
    PROVE  Given(Deliver(items))
<1> DEFINE n == Len(items)
<1>1. PICK f : /\ f[0] = Run /\ Deliver(items) = f[n]
               /\ \A i \in 1..n : f[i] = Push(f[i - 1], items[i].delta)
  BY DeliverStep
<1> DEFINE Fine(i) == Given(f[i]) /\ Streamed(f[i])
           Wrong == {i \in 0..n : ~Fine(i)}
<1>2. Wrong = {}
  <2> SUFFICES ASSUME Wrong # {} PROVE FALSE
    OBVIOUS
  <2>1. Wrong \in SUBSET Nat
    OBVIOUS
  <2> HIDE DEF Fine
  <2>2. PICK i \in Wrong : \A j \in Wrong : i <= j
    BY <2>1, LeastElement
  <2>3. i # 0
    BY <1>1 DEF Fine
  <2>4. i \in 1..n /\ i - 1 \in 0..n /\ i - 1 \notin Wrong
    BY <2>2, <2>3
  <2>5. Fine(i - 1) /\ f[i] = Push(f[i - 1], items[i].delta) /\ Plain(items[i].delta)
    BY <1>1, <2>4
  <2>6. Given(f[i - 1]) /\ Streamed(f[i - 1])
    BY <2>5 DEF Fine
  <2>7. Given(f[i]) /\ Streamed(f[i])
    BY <2>5, <2>6, PushStreams, PushGiven
  <2>8. QED
    BY <2>2, <2>7 DEF Fine
<1>3. n \in 0..n
  OBVIOUS
<1>4. Fine(n)
  BY <1>2, <1>3
<1>5. QED
  BY <1>1, <1>4

LEMMA RunGiven == Given(Run) <=> Pieces
<1>1. {"text", "chunks"} \subseteq DOMAIN Run /\ Run.text = text /\ Run.chunks = chunks
  BY DEF Run
<1>2. QED
  BY <1>1 DEF Given, Pieces

LEMMA BecomesGiven ==
    ASSUME NEW run, Given(run), Becomes(run), UNCHANGED consumer
    PROVE  Pieces'
<1>1. text' = run.text /\ chunks' = run.chunks
  BY DEF Becomes
<1>2. QED
  BY <1>1 DEF Given, Pieces

LEMMA InitPieces == Init => Pieces
<1> SUFFICES ASSUME Init PROVE Pieces
  OBVIOUS
<1>1. chunks = <<>> /\ text = <<>>
  BY DEF Init
<1> DEFINE c == [i \in 0..0 |-> <<>>]
<1>2. c[0] = <<>> /\ Len(<<>>) = 0 /\ 1..0 = {} /\ 0..0 = {0}
  OBVIOUS
<1>3. <<>> \in Seq(Chars) /\ <<>> \in Seq(Seq(Chars))
  OBVIOUS
<1> HIDE DEF c
<1>4. Joins(c, <<>>, <<>>)
  BY <1>2, <1>3 DEF Joins
<1>5. Joined(<<>>, <<>>)
  BY <1>2, <1>3, <1>4 DEF Joined
<1>6. QED
  BY <1>1, <1>5 DEF Pieces

LEMMA NextPieces == Redacted /\ Pieces /\ [Next]_vars => Pieces'
<1> SUFFICES ASSUME Redacted, Pieces, [Next]_vars PROVE Pieces'
  OBVIOUS
<1>1. Given(Run)
  BY RunGiven
<1>2. ~Ended => Streamed(Run)
  BY DEF Redacted
<1>3. ASSUME ~Ended, EndsEarly PROVE Pieces'
  <2>1. Becomes(Failed(Run)) /\ UNCHANGED consumer
    BY <1>3 DEF EndsEarly
  <2>2. QED
    BY <1>1, <1>2, <1>3, <2>1, FailedGiven, BecomesGiven
<1>4. ASSUME UNCHANGED <<consumer, text, chunks>> PROVE Pieces'
  BY <1>4 DEF Pieces
<1>5. CASE UserAborts \/ Timeout \/ StreamBreaks \/ Refused \/ UNCHANGED vars
  <2>1. UNCHANGED <<consumer, text, chunks>>
    BY <1>5 DEF UserAborts, Timeout, StreamBreaks, Refused, output, vars
  <2>2. QED
    BY <1>4, <2>1
<1>6. CASE Start \/ SelectionReturns \/ ResponseStarts
  <2>1. ~Ended
    BY <1>6 DEF Start, SelectionReturns, ResponseStarts, Ended
  <2>2. CASE ~EndsEarly
    <3>1. UNCHANGED <<consumer, text, chunks>>
      BY <1>6, <2>2 DEF Start, SelectionReturns, ResponseStarts, output
    <3>2. QED
      BY <1>4, <3>1
  <2>3. QED
    BY <1>3, <2>1, <2>2
<1>7. ASSUME NEW n \in Nat, n >= 1, NEW items \in [1..n -> Items], ChunkArrives(items)
      PROVE  Pieces'
  <2> DEFINE taken == Taken(items)
             run == Deliver(taken)
  <2>1. /\ stage = "streaming" /\ UNCHANGED consumer
        /\ Becomes(run) \/ Becomes(Completed(run))
    BY <1>7 DEF ChunkArrives
  <2>2. Len(taken) \in Nat /\ \A i \in 1..Len(taken) : Plain(taken[i].delta)
    BY <1>7, TakenTexts
  <2>3. ~Ended
    BY <2>1 DEF Ended
  <2>4. Given(run)
    BY <1>1, <1>2, <2>2, <2>3, DeliverGiven
  <2> HIDE DEF run, taken
  <2>5. Given(Completed(run))
    BY <2>4, ReportGiven DEF Completed
  <2>6. QED
    BY <2>1, <2>4, <2>5, BecomesGiven
<1>8. CASE StreamEnds \/ CollectFails
  BY <1>3, <1>8 DEF StreamEnds, CollectFails, Ended
<1>9. CASE Close
  <2>1. /\ ~Ended /\ UNCHANGED consumer
        /\ Becomes(Finalize(Run)) \/ Becomes(Failed(Run))
    BY <1>9 DEF Close, Ended
  <2>2. Given(Finalize(Run)) /\ Given(Failed(Run))
    BY <1>1, <1>2, <2>1, StreamedPending, FinalizeGiven, FailedGiven
  <2>3. QED
    BY <2>1, <2>2, BecomesGiven
<1>10. ASSUME NEW delta \in Texts \cup {<<>>}, CollectCompletes(delta) PROVE Pieces'
  <2> DEFINE run == Completed(Push(Run, delta))
  <2>1. ~Ended /\ UNCHANGED consumer /\ Becomes(Finalize(run))
    BY <1>10 DEF CollectCompletes, Ended
  <2>2. Plain(delta)
    BY <1>10, DeltaPlain DEF Texts
  <2>3. Streamed(Push(Run, delta)) /\ Given(Push(Run, delta))
    BY <1>1, <1>2, <2>1, <2>2, PushStreams, PushGiven
  <2>4. Streamed(run) /\ Given(run)
    BY <2>3, ReportText, ReportGiven DEF Streamed, Completed
  <2> HIDE DEF run
  <2>5. QED
    BY <2>1, <2>4, StreamedPending, FinalizeGiven, BecomesGiven
<1>11. QED
  <2>1. ASSUME NEW n \in 1..(IF consumer = "tui" THEN MaxChunk ELSE 1)
        PROVE  n \in Nat /\ n >= 1
    BY RunAssumption
  <2>2. QED
    BY <1>5, <1>6, <1>7, <1>8, <1>9, <1>10, <2>1 DEF Next

LEMMA PiecesParsed ==
    ASSUME Pieces PROVE ParsedAsWholeElsewhere
<1> SUFFICES ASSUME \A i \in DOMAIN chunks : \/ Last(chunks[i]) \notin Digits \cup {"tick"}
                                             \/ i = Len(chunks),
                    consumer = "cli"
             PROVE  Parsed.events = parseMarkdownMath(text)
  BY DEF ParsedAsWholeElsewhere, ParsedAsWhole
<1>1. Joined(chunks, text)
  BY DEF Pieces
<1>2. DOMAIN chunks = 1..Len(chunks)
  BY <1>1 DEF Joined
<1>3. \A i \in 1..Len(chunks) : i # Len(chunks) => ~Open(chunks[i])
  BY <1>2 DEF Open, Last
<1>4. QED
  BY <1>1, <1>3, JoinedParsed

(***************************************************************************)
(* Whatever the one-shot command is given and however it is cut into       *)
(* chunks, the events of the parser it gives them to one by one            *)
(* (MarkdownMathParser.push, finish) are those of the whole text           *)
(* (parseMarkdownMath), unless a chunk before the last ended in a digit or *)
(* in a backtick.                                                          *)
(***************************************************************************)
THEOREM ParsedInOnePiece == Spec => []ParsedAsWholeElsewhere
<1>1. Init => Redacted /\ Pieces
  BY InitRedacted, InitPieces
<1>2. Redacted /\ Pieces /\ [Next]_vars => (Redacted /\ Pieces)'
  BY NextRedacted, NextPieces
<1>3. Redacted /\ Pieces => ParsedAsWholeElsewhere
  BY PiecesParsed
<1>4. QED
  BY <1>1, <1>2, <1>3, PTL DEF Spec
=============================================================================
