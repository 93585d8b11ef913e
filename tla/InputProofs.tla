---------------------------- MODULE InputProofs ----------------------------
(* The input line of the client, for lines of any length and every order of   *)
(* keys, redraws and rebuilds: the cursor stays between two characters, only  *)
(* a forward delete loses the anchor, words are met, the text changes next to *)
(* the cursor alone, and the row on the screen is the line. And the terminal  *)
(* build gives its terminal back.                                             *)
EXTENDS InputLine, Integers, FiniteSetTheorems, SequenceTheorems, TLAPS

-----------------------------------------------------------------------------
(* Bytes                                                                      *)

\* What is counted in two strings, one after the other.
LEMMA CountOfBoth ==
  ASSUME NEW S, NEW s \in Seq(S), NEW t \in Seq(S), NEW T
  PROVE  /\ Count(s, T) \in Nat /\ Count(t, T) \in Nat
         /\ Count(s \o t, T) = Count(s, T) + Count(t, T)
<1> DEFINE b == s \o t
           A == {k \in DOMAIN s : s[k] \in T}
           B == {k \in DOMAIN t : t[k] \in T}
           C == {k \in DOMAIN b : b[k] \in T}
           D == {k \in C : k > Len(s)}
           f == [k \in B |-> k + Len(s)]
<1>1. /\ b \in Seq(S) /\ Len(b) = Len(s) + Len(t)
      /\ \A i \in 1..(Len(s) + Len(t)) : b[i] = IF i <= Len(s) THEN s[i] ELSE t[i - Len(s)]
  BY ConcatProperties
<1>2. /\ Len(s) \in Nat /\ DOMAIN s = 1..Len(s)
      /\ Len(t) \in Nat /\ DOMAIN t = 1..Len(t)
      /\ DOMAIN b = 1..(Len(s) + Len(t))
  BY <1>1
<1> HIDE DEF b
<1>3. IsFiniteSet(A) /\ Cardinality(A) \in Nat
  <2>1. IsFiniteSet(1..Len(s)) /\ A \in SUBSET (1..Len(s))
    BY <1>2, FS_Interval
  <2> HIDE DEF A
  <2> QED BY <2>1, FS_Subset, FS_CardinalityType
<1>4. IsFiniteSet(B) /\ Cardinality(B) \in Nat
  <2>1. IsFiniteSet(1..Len(t)) /\ B \in SUBSET (1..Len(t))
    BY <1>2, FS_Interval
  <2> HIDE DEF B
  <2> QED BY <2>1, FS_Subset, FS_CardinalityType
<1>5. IsFiniteSet(D) /\ Cardinality(D) = Cardinality(B)
  <2>1. \A k \in B : k + Len(s) \in D
    BY <1>1, <1>2
  <2>2. ASSUME NEW k \in D PROVE k - Len(s) \in B /\ (k - Len(s)) + Len(s) = k
    <3>1. k \in 1..(Len(s) + Len(t)) /\ k > Len(s) /\ b[k] \in T
      BY <1>2
    <3>2. k - Len(s) \in 1..Len(t) /\ (k - Len(s)) + Len(s) = k
      BY <1>2, <3>1
    <3>3. b[k] = t[k - Len(s)]
      BY <1>1, <1>2, <3>1
    <3> QED BY <1>2, <3>1, <3>2, <3>3
  <2>3. B \in SUBSET Nat
    BY <1>2
  <2> HIDE DEF B, D
  <2>4. f \in [B -> D]
    BY <2>1
  <2>5. \A i, j \in B : f[i] = f[j] => i = j
    BY <1>2, <2>3
  <2>6. \A k \in D : \E i \in B : f[i] = k
    BY <2>2
  <2> HIDE DEF f
  <2>7. f \in Bijection(B, D)
    BY <2>4, <2>5, <2>6 DEF Bijection, Injection, IsInjective, Surjection
  <2> QED BY <1>4, <2>7, FS_Bijection DEF ExistsBijection
<1>6. C = A \cup D /\ A \cap D = {}
  <2>1. \A k \in A : k \in C /\ k \notin D
    BY <1>1, <1>2
  <2>2. \A k \in C : k \in A \/ k \in D
    BY <1>1, <1>2
  <2>3. \A k \in D : k \in C
    OBVIOUS
  <2> HIDE DEF A, C, D
  <2> QED BY <2>1, <2>2, <2>3
<1> HIDE DEF A, B, C, D
<1>7. Cardinality(C) = Cardinality(A) + Cardinality(B)
  <2>1. Cardinality(A \cup D) = Cardinality(A) + (Cardinality(D) - Cardinality(A \cap D))
    BY <1>3, <1>5, FS_Union
  <2>2. Cardinality(A \cap D) = 0 /\ Cardinality(A \cup D) = Cardinality(C)
    BY <1>6, FS_EmptySet
  <2> QED BY <1>3, <1>4, <1>5, <2>1, <2>2
<1> QED BY <1>3, <1>4, <1>7 DEF A, B, C, b, Count

\* The bytes of two strings, one after the other; a character takes one at least.
LEMMA BytesOfBoth ==
  ASSUME NEW s \in Seq(Char), NEW t \in Seq(Char)
  PROVE  /\ Bytes(s) \in Nat /\ Bytes(s) >= Len(s)
         /\ Bytes(s \o t) = Bytes(s) + Bytes(t)
<1> DEFINE W == Wide \cup Double
<1>1. Len(s) \in Nat /\ Len(t) \in Nat /\ Len(s \o t) = Len(s) + Len(t)
  OBVIOUS
<1>2. /\ Count(s, W) \in Nat /\ Count(t, W) \in Nat
      /\ Count(s \o t, W) = Count(s, W) + Count(t, W)
  BY CountOfBoth
<1>3. /\ Count(s, Double) \in Nat /\ Count(t, Double) \in Nat
      /\ Count(s \o t, Double) = Count(s, Double) + Count(t, Double)
  BY CountOfBoth
<1> QED BY SMTT(60), <1>1, <1>2, <1>3 DEF Bytes

\* What is counted in the empty string, and in one of a single character.
LEMMA CountOfOne ==
  /\ \A T : Count(<<>>, T) = 0
  /\ \A c \in Char : \A T : Count(<<c>>, T) = IF c \in T THEN 1 ELSE 0
<1>1. ASSUME NEW T PROVE Count(<<>>, T) = 0
  <2>1. {k \in DOMAIN <<>> : <<>>[k] \in T} = {}
    OBVIOUS
  <2> QED BY <2>1, FS_EmptySet DEF Count
<1>2. ASSUME NEW c \in Char, NEW T PROVE Count(<<c>>, T) = IF c \in T THEN 1 ELSE 0
  <2>1. {k \in DOMAIN <<c>> : <<c>>[k] \in T} = IF c \in T THEN {1} ELSE {}
    OBVIOUS
  <2> QED BY <2>1, FS_EmptySet, FS_Singleton DEF Count
<1> QED BY <1>1, <1>2

\* The bytes of no text, and of a single character.
LEMMA BytesOfOne ==
  /\ Bytes(<<>>) = 0
  /\ \A c \in Char : Bytes(<<c>>) = LenUtf8(c)
<1>1. Bytes(<<>>) = 0
  BY CountOfOne DEF Bytes
<1>2. ASSUME NEW c \in Char PROVE Bytes(<<c>>) = LenUtf8(c)
  BY CountOfOne DEF Bytes, LenUtf8
<1> QED BY <1>1, <1>2

-----------------------------------------------------------------------------
(* Boundaries                                                                 *)

\* The string's first k characters and the others; the byte offset between them.
First(s, k) == SubSeq(s, 1, k)
Rest(s, k) == SubSeq(s, k + 1, Len(s))
At(s, k) == Bytes(SubSeq(s, 1, k))

\* A string cut in two is both parts.
LEMMA CutFacts ==
  ASSUME NEW S, NEW s \in Seq(S), NEW k \in 0..Len(s)
  PROVE  /\ First(s, k) \in Seq(S) /\ Len(First(s, k)) = k
         /\ Rest(s, k) \in Seq(S) /\ Len(Rest(s, k)) = Len(s) - k
         /\ \A i \in 1..k : First(s, k)[i] = s[i]
         /\ \A i \in 1..(Len(s) - k) : Rest(s, k)[i] = s[k + i]
         /\ First(s, k) \o Rest(s, k) = s
<1>1. Len(s) \in Nat /\ \A i \in 1..Len(s) : s[i] \in S
  OBVIOUS
<1>2. /\ First(s, k) \in Seq(S) /\ Len(First(s, k)) = k
      /\ \A i \in 1..k : First(s, k)[i] = s[i]
  BY <1>1, SubSeqProperties DEF First
<1>3. /\ Rest(s, k) \in Seq(S) /\ Len(Rest(s, k)) = Len(s) - k
      /\ \A i \in 1..(Len(s) - k) : Rest(s, k)[i] = s[k + i]
  <2>1. \A j \in (k + 1)..Len(s) : s[j] \in S
    BY <1>1
  <2>2. /\ Rest(s, k) \in Seq(S)
        /\ Len(Rest(s, k)) = IF k + 1 <= Len(s) THEN Len(s) - (k + 1) + 1 ELSE 0
        /\ \A i \in 1..(Len(s) - (k + 1) + 1) : Rest(s, k)[i] = s[k + 1 + i - 1]
    BY <1>1, <2>1, SubSeqProperties DEF Rest
  <2>3. Len(Rest(s, k)) = Len(s) - k
    BY <1>1, <2>2
  <2>4. ASSUME NEW i \in 1..(Len(s) - k) PROVE Rest(s, k)[i] = s[k + i]
    <3>1. i \in 1..(Len(s) - (k + 1) + 1) /\ k + 1 + i - 1 = k + i
      BY <1>1
    <3> QED BY <2>2, <3>1
  <2> QED BY <2>2, <2>3, <2>4
<1>4. First(s, k) \o Rest(s, k) = s
  <2>0. 1 \in 1..(Len(s) + 1) /\ k \in (1 - 1)..Len(s) /\ Len(s) \in k..Len(s)
    BY <1>1
  <2>1. SubSeq(s, 1, k) \o SubSeq(s, k + 1, Len(s)) = SubSeq(s, 1, Len(s))
    BY <2>0, ConcatAdjacentSubSeq
  <2> QED BY <2>1, SubSeqFull DEF First, Rest
<1> QED BY <1>2, <1>3, <1>4

\* Offsets grow with the number of characters before them, by the bytes of each.
LEMMA AtGrows ==
  ASSUME NEW s \in Seq(Char)
  PROVE  /\ At(s, 0) = 0 /\ At(s, Len(s)) = Bytes(s)
         /\ \A k \in 0..Len(s) : At(s, k) \in Nat
         /\ \A j, k \in 0..Len(s) : j < k => At(s, j) < At(s, k)
         /\ \A k \in 0..(Len(s) - 1) : At(s, k + 1) = At(s, k) + LenUtf8(s[k + 1])
<1>1. Len(s) \in Nat /\ \A i \in 1..Len(s) : s[i] \in Char
  OBVIOUS
<1>2. At(s, 0) = 0
  <2>1. SubSeq(s, 1, 0) = <<>>
    BY SubSeqEmpty
  <2> QED BY <2>1, BytesOfOne DEF At
<1>3. At(s, Len(s)) = Bytes(s)
  BY SubSeqFull DEF At
<1>4. ASSUME NEW k \in 0..Len(s) PROVE SubSeq(s, 1, k) \in Seq(Char) /\ At(s, k) \in Nat
  <2>1. SubSeq(s, 1, k) \in Seq(Char)
    BY CutFacts DEF First
  <2> QED BY <2>1, BytesOfBoth DEF At
<1>5. ASSUME NEW j \in 0..Len(s), NEW k \in 0..Len(s), j < k
      PROVE  /\ SubSeq(s, j + 1, k) \in Seq(Char) /\ Len(SubSeq(s, j + 1, k)) = k - j
             /\ At(s, k) = At(s, j) + Bytes(SubSeq(s, j + 1, k))
  <2>1. \A i \in (j + 1)..k : s[i] \in Char
    BY <1>1
  <2>2. /\ SubSeq(s, j + 1, k) \in Seq(Char)
        /\ Len(SubSeq(s, j + 1, k)) = IF j + 1 <= k THEN k - (j + 1) + 1 ELSE 0
    BY <1>1, <2>1, SubSeqProperties
  <2>3. SubSeq(s, 1, j) \o SubSeq(s, j + 1, k) = SubSeq(s, 1, k)
    BY <1>1, <1>5, ConcatAdjacentSubSeq
  <2>4. Bytes(SubSeq(s, 1, k)) = Bytes(SubSeq(s, 1, j)) + Bytes(SubSeq(s, j + 1, k))
    BY <1>4, <2>2, <2>3, BytesOfBoth
  <2> QED BY <1>1, <1>5, <2>2, <2>4 DEF At
<1>6. ASSUME NEW j \in 0..Len(s), NEW k \in 0..Len(s), j < k
      PROVE  At(s, j) < At(s, k)
  <2>1. /\ Bytes(SubSeq(s, j + 1, k)) \in Nat
        /\ Bytes(SubSeq(s, j + 1, k)) >= k - j
    BY <1>5, <1>6, BytesOfBoth
  <2>2. At(s, j) \in Nat /\ At(s, k) \in Nat /\ k - j > 0 /\ k - j \in Nat
    BY <1>1, <1>4, <1>6
  <2>3. At(s, k) = At(s, j) + Bytes(SubSeq(s, j + 1, k))
    BY <1>5, <1>6
  <2> QED BY <2>1, <2>2, <2>3
<1>7. ASSUME NEW k \in 0..(Len(s) - 1)
      PROVE  At(s, k + 1) = At(s, k) + LenUtf8(s[k + 1])
  <2>1. k + 1 \in 1..Len(s) /\ k \in 0..Len(s) /\ k + 1 \in 0..Len(s) /\ k < k + 1
    BY <1>1
  <2>2. At(s, k + 1) = At(s, k) + Bytes(SubSeq(s, k + 1, k + 1))
    BY <1>5, <2>1
  <2>3. SubSeq(s, k + 1, k + 1) = <<s[k + 1]>>
    <3>1. \A i \in (k + 1)..(k + 1) : s[i] \in Char
      BY <1>1, <2>1
    <3>2. /\ SubSeq(s, k + 1, k + 1) \in Seq(Char)
          /\ Len(SubSeq(s, k + 1, k + 1)) = 1
          /\ \A i \in 1..1 : SubSeq(s, k + 1, k + 1)[i] = s[(k + 1) + i - 1]
      BY <2>1, <3>1, SubSeqProperties
    <3> DEFINE t == SubSeq(s, k + 1, k + 1)
    <3>3. t \in Seq(Char) /\ Len(t) = 1 /\ t[1] = s[k + 1]
      BY <2>1, <3>2
    <3> HIDE DEF t
    <3>4. t = <<t[1]>>
      BY <3>3
    <3> QED BY <3>3, <3>4 DEF t
  <2> QED BY <1>1, <2>1, <2>2, <2>3, BytesOfOne
<1> QED BY <1>2, <1>3, <1>4, <1>6, <1>7

\* Each boundary has its place in the string.
LEMMA BoundaryFacts ==
  ASSUME NEW s \in Seq(Char)
  PROVE  /\ \A k \in 0..Len(s) : At(s, k) \in Boundaries(s) /\ Before(s, At(s, k)) = k
         /\ \A p \in Boundaries(s) : /\ Before(s, p) \in 0..Len(s) /\ At(s, Before(s, p)) = p
                                     /\ p \in 0..Bytes(s)
         /\ \A p, q \in Boundaries(s) : p <= q <=> Before(s, p) <= Before(s, q)
         /\ 0 \in Boundaries(s) /\ Bytes(s) \in Boundaries(s)
         /\ IsFiniteSet(Boundaries(s))
<1>0. Len(s) \in Nat
  OBVIOUS
<1>1. ASSUME NEW k \in 0..Len(s) PROVE At(s, k) \in Boundaries(s) /\ Before(s, At(s, k)) = k
  <2>1. \A j \in 0..Len(s) : At(s, j) = At(s, k) => j = k
    BY <1>0, AtGrows
  <2>2. At(s, k) \in Boundaries(s)
    BY DEF At, Boundaries
  <2>3. Before(s, At(s, k)) = CHOOSE j \in 0..Len(s) : At(s, j) = At(s, k)
    BY DEF Before, At
  <2> QED BY <2>1, <2>2, <2>3
<1>2. ASSUME NEW p \in Boundaries(s)
      PROVE  Before(s, p) \in 0..Len(s) /\ At(s, Before(s, p)) = p /\ p \in 0..Bytes(s)
  <2>1. PICK k \in 0..Len(s) : p = At(s, k)
    BY DEF Boundaries, At
  <2>2. At(s, k) \in Nat /\ At(s, Len(s)) = Bytes(s) /\ Bytes(s) \in Nat /\ At(s, k) <= Bytes(s)
    BY <1>0, AtGrows
  <2> QED BY <1>1, <2>1, <2>2
<1>3. ASSUME NEW p \in Boundaries(s), NEW q \in Boundaries(s)
      PROVE  p <= q <=> Before(s, p) <= Before(s, q)
  <2> DEFINE i == Before(s, p)  j == Before(s, q)
  <2>1. i \in 0..Len(s) /\ j \in 0..Len(s) /\ p = At(s, i) /\ q = At(s, j)
    BY <1>2
  <2> HIDE DEF i, j
  <2>2. /\ i < j => At(s, i) < At(s, j)
        /\ j < i => At(s, j) < At(s, i)
        /\ At(s, i) \in Nat /\ At(s, j) \in Nat
    BY <2>1, AtGrows
  <2>3. p <= q <=> i <= j
    BY <1>0, <2>1, <2>2
  <2> QED BY <2>3 DEF i, j
<1>4. 0 \in Boundaries(s) /\ Bytes(s) \in Boundaries(s)
  BY <1>0, <1>1, AtGrows
<1>5. IsFiniteSet(Boundaries(s))
  <2>1. Bytes(s) \in Nat /\ Boundaries(s) \in SUBSET (0..Bytes(s)) /\ IsFiniteSet(0..Bytes(s))
    BY <1>2, BytesOfBoth, FS_Interval
  <2> QED BY <2>1, FS_Subset
<1> QED BY <1>1, <1>2, <1>3, <1>4, <1>5

-----------------------------------------------------------------------------
(* Where the cursor can go                                                    *)

\* A finite set of numbers has a largest and a smallest.
LEMMA Extremes ==
  ASSUME NEW S \in SUBSET Nat, IsFiniteSet(S), S # {}
  PROVE  /\ Max(S) \in S /\ \A n \in S : n <= Max(S)
         /\ Min(S) \in S /\ \A n \in S : Min(S) <= n
<1> DEFINE Upto(n) == {m \in S : m <= n}
           rank == [n \in S |-> Cardinality(Upto(n))]
           N == Cardinality(S)
<1>1. N \in Nat /\ N # 0
  BY FS_CardinalityType, FS_EmptySet
<1>2. ASSUME NEW n \in S
      PROVE  IsFiniteSet(Upto(n)) /\ Cardinality(Upto(n)) \in 1..N
  <2>1. Upto(n) \in SUBSET S /\ n \in Upto(n)
    OBVIOUS
  <2>2. IsFiniteSet(Upto(n)) /\ Cardinality(Upto(n)) <= N
    BY <2>1, FS_Subset
  <2>3. Cardinality(Upto(n)) \in Nat
    BY <2>2, FS_CardinalityType
  <2>4. Cardinality(Upto(n)) # 0
    BY <2>1, <2>2, FS_EmptySet
  <2> QED BY <1>1, <2>2, <2>3, <2>4
<1>3. ASSUME NEW n \in S, NEW m \in S, n < m
      PROVE  rank[n] < rank[m]
  <2>1. Upto(n) \in SUBSET Upto(m) /\ m \in Upto(m) /\ m \notin Upto(n)
    <3>1. n \in Nat /\ m \in Nat /\ \A x \in S : x \in Nat
      OBVIOUS
    <3>2. ASSUME NEW x \in Upto(n) PROVE x \in Upto(m)
      BY <1>3, <3>1
    <3>3. m \in Upto(m) /\ m \notin Upto(n)
      BY <1>3, <3>1
    <3> HIDE DEF Upto
    <3> QED BY <3>2, <3>3
  <2>2. /\ Cardinality(Upto(n)) <= Cardinality(Upto(m))
        /\ Cardinality(Upto(m)) = Cardinality(Upto(n)) => Upto(m) = Upto(n)
    BY <1>2, <2>1, FS_Subset
  <2>3. Cardinality(Upto(n)) # Cardinality(Upto(m))
    BY <2>1, <2>2
  <2>4. Cardinality(Upto(n)) \in 1..N /\ Cardinality(Upto(m)) \in 1..N
    BY <1>2
  <2> HIDE DEF Upto
  <2> QED BY <1>1, <2>2, <2>3, <2>4
<1>4. rank \in [S -> 1..N]
  BY <1>2
<1> HIDE DEF rank, N
<1>5. \A n, m \in S : rank[n] = rank[m] => n = m
  <2> SUFFICES ASSUME NEW n \in S, NEW m \in S, n # m PROVE rank[n] # rank[m]
    OBVIOUS
  <2>1. rank[n] \in 1..N /\ rank[m] \in 1..N /\ n \in Nat /\ m \in Nat
    BY <1>4
  <2> QED BY <1>1, <1>3, <2>1
<1>6. rank \in Injection(S, 1..N)
  BY <1>4, <1>5 DEF Injection, IsInjective
<1>7. IsFiniteSet(1..N) /\ Cardinality(1..N) = N
  BY <1>1, FS_Interval
<1>8. rank \in Surjection(S, 1..N)
  BY <1>6, <1>7, FS_Injection DEF N
<1>9. \A i \in 1..N : \E n \in S : rank[n] = i
  BY <1>8 DEF Surjection
<1>10. /\ \E n \in S : \A m \in S : n >= m
       /\ \E n \in S : \A m \in S : n <= m
  <2>1. PICK a \in S : rank[a] = N
    BY <1>1, <1>9
  <2>2. PICK b \in S : rank[b] = 1
    BY <1>1, <1>9
  <2>3. ASSUME NEW m \in S PROVE a >= m /\ b <= m
    <3>1. rank[m] \in 1..N /\ a \in Nat /\ b \in Nat /\ m \in Nat
      BY <1>4
    <3> QED BY <1>1, <1>3, <2>1, <2>2, <3>1
  <2> QED BY <2>3
<1>11. Max(S) \in S /\ \A n \in S : Max(S) >= n
  BY <1>10 DEF Max
<1>12. Min(S) \in S /\ \A n \in S : Min(S) <= n
  BY <1>10 DEF Min
<1> QED BY <1>11, <1>12

\* Of some of the boundaries one is the last and one the first.
LEMMA ExtremeBoundaries ==
  ASSUME buf \in Seq(Char), NEW S \in SUBSET Boundaries(buf), S # {}
  PROVE  /\ Max(S) \in S /\ \A n \in S : n <= Max(S)
         /\ Min(S) \in S /\ \A n \in S : Min(S) <= n
<1>1. Boundaries(buf) \in SUBSET Nat /\ IsFiniteSet(Boundaries(buf))
  <2>1. IsFiniteSet(Boundaries(buf)) /\ \A p \in Boundaries(buf) : p \in 0..Bytes(buf)
    BY BoundaryFacts
  <2>2. Bytes(buf) \in Nat
    BY BytesOfBoth
  <2> QED BY <2>1, <2>2
<1>2. S \in SUBSET Nat /\ IsFiniteSet(S)
  BY <1>1, FS_Subset
<1> QED BY <1>2, Extremes

\* Wherever a movement starts from, it ends on a boundary.
LEMMA MovesToBoundary ==
  ASSUME buf \in Seq(Char), NEW p \in Boundaries(buf)
  PROVE  /\ Right(p) \in Boundaries(buf) /\ Left(p) \in Boundaries(buf)
         /\ p <= Right(p) /\ Left(p) <= p
         /\ p < Bytes(buf) => Before(buf, Right(p)) = Before(buf, p) + 1
<1> DEFINE k == Before(buf, p)
<1>0. Len(buf) \in Nat /\ Bytes(buf) \in Nat
  BY BytesOfBoth
<1>1. k \in 0..Len(buf) /\ p = At(buf, k) /\ p \in 0..Bytes(buf)
  BY BoundaryFacts
<1> HIDE DEF k
<1>2. Left(p) \in Boundaries(buf) /\ Left(p) <= p
  <2> DEFINE S == {b \in Boundaries(buf) : b < p}
  <2>1. CASE p = 0
    BY <2>1 DEF Left
  <2>2. CASE p # 0
    <3>1. 0 \in S /\ S \in SUBSET Boundaries(buf)
      BY <1>0, <1>1, <2>2, BoundaryFacts
    <3> HIDE DEF S
    <3>2. Max(S) \in S
      BY <3>1, ExtremeBoundaries
    <3>3. Left(p) = Max(S)
      BY <2>2 DEF Left, S
    <3>4. Left(p) \in Boundaries(buf) /\ Left(p) < p
      BY <3>2, <3>3 DEF S
    <3>5. Left(p) \in 0..Bytes(buf)
      BY <3>4, BoundaryFacts
    <3> QED BY <1>0, <1>1, <3>4, <3>5
  <2> QED BY <2>1, <2>2
<1>3. CASE p < Bytes(buf)
  <2>1. k # Len(buf)
    BY <1>0, <1>1, <1>3, AtGrows
  <2>2. k \in 0..(Len(buf) - 1) /\ k + 1 \in 0..Len(buf) /\ k \in 0..Len(buf) /\ k < k + 1
    BY <1>0, <1>1, <2>1
  <2>3. Right(p) = At(buf, k + 1)
    BY <1>1, <1>3, <2>2, AtGrows DEF Right, k
  <2>4. At(buf, k + 1) \in Boundaries(buf) /\ Before(buf, At(buf, k + 1)) = k + 1
    BY <2>2, BoundaryFacts
  <2>5. At(buf, k) < At(buf, k + 1) /\ At(buf, k) \in Nat /\ At(buf, k + 1) \in Nat
    BY <2>2, AtGrows
  <2> QED BY <1>1, <1>2, <1>3, <2>3, <2>4, <2>5 DEF k
<1>4. CASE ~(p < Bytes(buf))
  BY <1>0, <1>1, <1>2, <1>4 DEF Right
<1> QED BY <1>3, <1>4

\* The next one to where a stale anchor is, as well.
LEMMA ClampsToBoundary ==
  ASSUME buf \in Seq(Char), NEW p \in Nat
  PROVE  Clamp(p) \in Boundaries(buf)
<1> DEFINE S == {b \in Boundaries(buf) : b <= p}
<1>0. 0 \in S /\ S \in SUBSET Boundaries(buf)
  BY BoundaryFacts
<1>1. Max(S) \in S
  <2> HIDE DEF S
  <2> QED BY <1>0, ExtremeBoundaries
<1>2. Bytes(buf) \in Boundaries(buf)
  BY BoundaryFacts
<1> QED BY <1>1, <1>2 DEF Clamp

\* A run of characters that starts or ends at a boundary.
LEMMA RunFacts ==
  ASSUME buf \in Seq(Char), NEW S, NEW p \in Boundaries(buf)
  PROVE  /\ RunEnd(S, p) \in Boundaries(buf) /\ p <= RunEnd(S, p)
         /\ RunStart(S, p) \in Boundaries(buf) /\ RunStart(S, p) <= p
<1> DEFINE A == {b \in Boundaries(buf) :
                   b >= p /\ \A k \in (Before(buf, p) + 1)..Before(buf, b) : buf[k] \in S}
           B == {b \in Boundaries(buf) :
                   b <= p /\ \A k \in (Before(buf, b) + 1)..Before(buf, p) : buf[k] \in S}
<1>1. Before(buf, p) \in Nat /\ p \in Nat
  <2>1. Len(buf) \in Nat /\ Bytes(buf) \in Nat
    BY BytesOfBoth
  <2>2. Before(buf, p) \in 0..Len(buf) /\ p \in 0..Bytes(buf)
    BY BoundaryFacts
  <2> QED BY <2>1, <2>2
<1>2. p \in A /\ p \in B /\ A \in SUBSET Boundaries(buf) /\ B \in SUBSET Boundaries(buf)
  BY <1>1
<1>3. Max(A) \in A /\ Min(B) \in B
  <2> HIDE DEF A, B
  <2> QED BY <1>2, ExtremeBoundaries
<1>4. RunEnd(S, p) = Max(A) /\ RunStart(S, p) = Min(B)
  BY DEF RunEnd, RunStart
<1> HIDE DEF A, B
<1>5. RunEnd(S, p) \in A /\ RunStart(S, p) \in B
  BY <1>3, <1>4
<1> QED BY <1>1, <1>5 DEF A, B

\* A movement by words ends on a boundary, and to the left not further right.
LEMMA WordsToBoundary ==
  ASSUME buf \in Seq(Char), NEW p \in Boundaries(buf)
  PROVE  /\ WordRight(p) \in Boundaries(buf)
         /\ WordLeft(p) \in Boundaries(buf) /\ WordLeft(p) <= p
<1>1. /\ RunEnd(Blank, p) \in Boundaries(buf) /\ RunStart(Blank, p) \in Boundaries(buf)
      /\ RunStart(Blank, p) <= p
  BY RunFacts
<1>2. /\ WordRight(p) \in Boundaries(buf) /\ WordLeft(p) \in Boundaries(buf)
      /\ WordLeft(p) <= RunStart(Blank, p)
  BY <1>1, RunFacts DEF WordRight, WordLeft
<1>3. Boundaries(buf) \in SUBSET Nat
  <2>1. Bytes(buf) \in Nat /\ \A q \in Boundaries(buf) : q \in 0..Bytes(buf)
    BY BytesOfBoth, BoundaryFacts
  <2> QED BY <2>1
<1> QED BY <1>1, <1>2, <1>3

-----------------------------------------------------------------------------
(* What a key does to the line                                                *)

\* Where two strings were put together they can be cut.
LEMMA CutBoth ==
  ASSUME NEW S, NEW s \in Seq(S), NEW t \in Seq(S)
  PROVE  First(s \o t, Len(s)) = s /\ Rest(s \o t, Len(s)) = t
<1> DEFINE b == s \o t  f == First(b, Len(s))  r == Rest(b, Len(s))
<1>1. /\ b \in Seq(S) /\ Len(b) = Len(s) + Len(t)
      /\ \A i \in 1..(Len(s) + Len(t)) : b[i] = IF i <= Len(s) THEN s[i] ELSE t[i - Len(s)]
  BY ConcatProperties
<1>2. Len(s) \in Nat /\ Len(t) \in Nat
  OBVIOUS
<1> HIDE DEF b
<1>3. Len(s) \in 0..Len(b)
  BY <1>1, <1>2
<1>4. /\ f \in Seq(S) /\ Len(f) = Len(s) /\ r \in Seq(S) /\ Len(r) = Len(b) - Len(s)
      /\ \A i \in 1..Len(s) : f[i] = b[i]
      /\ \A i \in 1..(Len(b) - Len(s)) : r[i] = b[Len(s) + i]
  BY ZenonT(60), <1>1, <1>3, CutFacts
<1> HIDE DEF f, r
<1>5. f = s
  <2>1. \A i \in 1..Len(s) : f[i] = s[i]
    BY <1>1, <1>2, <1>4
  <2> QED BY SMTT(60), <1>4, <2>1
<1>6. r = t
  <2>1. Len(r) = Len(t)
    BY <1>1, <1>2, <1>4
  <2>2. ASSUME NEW i \in 1..Len(t) PROVE r[i] = t[i]
    <3>1. /\ i \in 1..(Len(b) - Len(s)) /\ Len(s) + i \in 1..(Len(s) + Len(t))
          /\ ~(Len(s) + i <= Len(s)) /\ (Len(s) + i) - Len(s) = i
      BY <1>1, <1>2
    <3> QED BY <1>1, <1>4, <3>1
  <2> QED BY <1>4, <2>1, <2>2
<1> QED BY <1>5, <1>6 DEF b, f, r

\* A part of a part.
LEMMA CutTwice ==
  ASSUME NEW S, NEW s \in Seq(S), NEW k \in 0..Len(s)
  PROVE  /\ \A i \in 0..k : First(First(s, k), i) = First(s, i)
         /\ \A j \in k..Len(s) : Rest(Rest(s, k), j - k) = Rest(s, j)
<1>0. Len(s) \in Nat
  OBVIOUS
<1>1. ASSUME NEW i \in 0..k PROVE First(First(s, k), i) = First(s, i)
  <2> DEFINE f == First(s, k)  g == First(f, i)  h == First(s, i)
  <2>1. f \in Seq(S) /\ Len(f) = k /\ \A n \in 1..k : f[n] = s[n]
    BY CutFacts
  <2> HIDE DEF f
  <2>2. g \in Seq(S) /\ Len(g) = i /\ \A n \in 1..i : g[n] = f[n]
    BY <2>1, CutFacts
  <2>3. i \in 0..Len(s)
    BY <1>0
  <2>4. h \in Seq(S) /\ Len(h) = i /\ \A n \in 1..i : h[n] = s[n]
    BY <2>3, CutFacts
  <2> HIDE DEF g, h
  <2>5. \A n \in 1..i : g[n] = h[n]
    BY SMTT(60), <1>0, <2>1, <2>2, <2>4
  <2>6. g = h
    BY <2>2, <2>4, <2>5
  <2> QED BY <2>6 DEF f, g, h
<1>2. ASSUME NEW j \in k..Len(s) PROVE Rest(Rest(s, k), j - k) = Rest(s, j)
  <2> DEFINE f == Rest(s, k)  g == Rest(f, j - k)  h == Rest(s, j)
  <2>1. f \in Seq(S) /\ Len(f) = Len(s) - k /\ \A n \in 1..(Len(s) - k) : f[n] = s[k + n]
    BY CutFacts
  <2> HIDE DEF f
  <2>2. j - k \in 0..Len(f) /\ Len(f) - (j - k) = Len(s) - j /\ j \in 0..Len(s)
    BY <1>0, <2>1
  <2>3. g \in Seq(S) /\ Len(g) = Len(s) - j /\ \A n \in 1..(Len(s) - j) : g[n] = f[(j - k) + n]
    <3>1. PICK d \in 0..Len(f) : d = j - k
      BY <2>2
    <3>2. /\ Rest(f, d) \in Seq(S) /\ Len(Rest(f, d)) = Len(f) - d
          /\ \A n \in 1..(Len(f) - d) : Rest(f, d)[n] = f[d + n]
      BY ZenonT(60), <2>1, CutFacts
    <3> QED BY <2>2, <3>1, <3>2
  <2>4. h \in Seq(S) /\ Len(h) = Len(s) - j /\ \A n \in 1..(Len(s) - j) : h[n] = s[j + n]
    BY <2>2, CutFacts
  <2> HIDE DEF g, h
  <2>5. ASSUME NEW n \in 1..(Len(s) - j) PROVE g[n] = h[n]
    <3>1. (j - k) + n \in 1..(Len(s) - k) /\ k + ((j - k) + n) = j + n
      BY <1>0
    <3> QED BY <2>1, <2>3, <2>4, <3>1
  <2>6. g = h
    <3>1. Len(g) = Len(h) /\ \A n \in 1..Len(g) : g[n] = h[n]
      BY <2>3, <2>4, <2>5
    <3> QED BY <2>3, <2>4, <3>1
  <2> QED BY <2>6 DEF f, g, h
<1> QED BY <1>1, <1>2

\* The string b with t in place of what is between its i-th and j-th character.
Spliced(b, i, j, t) == (First(b, i) \o t) \o Rest(b, j)

\* Such a string is cut behind t into what was before and t, and what was behind; in front
\* of t, the cut is where it was.
LEMMA SplicedFacts ==
  ASSUME NEW b \in Seq(Char), NEW i \in 0..Len(b), NEW j \in i..Len(b), NEW t \in Seq(Char)
  PROVE  LET n == Spliced(b, i, j, t)
         IN  /\ n \in Seq(Char) /\ i \in 0..Len(n) /\ i + Len(t) \in 0..Len(n)
             /\ First(n, i + Len(t)) = First(b, i) \o t /\ Rest(n, i + Len(t)) = Rest(b, j)
             /\ At(n, i + Len(t)) = At(b, i) + Bytes(t)
             /\ First(n, i) = First(b, i) /\ At(n, i) = At(b, i)
             /\ t = <<>> => n = First(b, i) \o Rest(b, j)
<1> DEFINE f == First(b, i)  r == Rest(b, j)
<1>0. Len(b) \in Nat /\ Len(t) \in Nat /\ j \in 0..Len(b)
  OBVIOUS
<1>1. f \in Seq(Char) /\ Len(f) = i /\ r \in Seq(Char) /\ Len(r) \in Nat
  BY <1>0, CutFacts
<1>2. At(b, i) = Bytes(f)
  BY DEF At, First
<1> HIDE DEF f, r
<1> DEFINE n == (f \o t) \o r
<1>3. f \o t \in Seq(Char) /\ Len(f \o t) = i + Len(t) /\ t \o r \in Seq(Char)
  BY <1>1, ConcatProperties
<1>4. n \in Seq(Char) /\ Len(n) = (i + Len(t)) + Len(r) /\ n = f \o (t \o r)
  <2>1. n \in Seq(Char) /\ Len(n) = (i + Len(t)) + Len(r)
    <3> DEFINE g == f \o t
    <3>1. g \in Seq(Char) /\ Len(g) = i + Len(t)
      BY <1>3
    <3> HIDE DEF g
    <3>2. g \o r \in Seq(Char) /\ Len(g \o r) = Len(g) + Len(r)
      BY <1>1, <3>1, ConcatProperties
    <3> QED BY <3>1, <3>2 DEF g
  <2>2. n = f \o (t \o r)
    BY SMTT(60), <1>1, ConcatAssociative
  <2> QED BY <2>1, <2>2
<1>5. First(n, i + Len(t)) = f \o t /\ Rest(n, i + Len(t)) = r
  <2> DEFINE g == f \o t
  <2>1. First(g \o r, Len(g)) = g /\ Rest(g \o r, Len(g)) = r
    <3>1. g \in Seq(Char)
      BY <1>3
    <3> HIDE DEF g
    <3> QED BY <1>1, <3>1, CutBoth
  <2> QED BY <1>3, <2>1
<1>6. First(n, i) = f
  <2>1. First(f \o (t \o r), Len(f)) = f
    BY <1>1, <1>3, CutBoth
  <2> QED BY <1>1, <1>4, <2>1
<1>7. t = <<>> => n = f \o r
  BY <1>1
<1> HIDE DEF n
<1>8. Bytes(f \o t) = Bytes(f) + Bytes(t)
  BY <1>1, BytesOfBoth
<1>9. At(n, i + Len(t)) = Bytes(f \o t) /\ At(n, i) = Bytes(f)
  BY <1>5, <1>6 DEF At, First
<1>10. n = Spliced(b, i, j, t)
  BY DEF n, Spliced, f, r
<1>11. i \in 0..Len(n) /\ i + Len(t) \in 0..Len(n)
  BY <1>0, <1>1, <1>4
<1> QED BY <1>2, <1>4, <1>5, <1>6, <1>7, <1>8, <1>9, <1>10, <1>11 DEF f, r

\* The types that the proofs need. An anchor may be anywhere.
LineTyped == buf \in Seq(Char) /\ anchor \in Nat \cup {None} /\ forward \in BOOLEAN

LineInv == LineTyped /\ CursorOnBoundary /\ AnchorLostOnlyForward

\* t takes the place of what is between the i-th and the j-th character, one of which
\* the cursor is at; it is behind t then. What t adds fits.
Replaces(i, j, t) ==
  /\ i \in 0..Len(buf) /\ j \in i..Len(buf) /\ Before(buf, cursor) \in {i, j}
  /\ t \in Input \cup {<<>>} /\ (t = <<>> \/ Bytes(buf) + Bytes(t) <= MaxBytes)
  /\ buf' = Spliced(buf, i, j, t) /\ cursor' = At(buf, i) + Bytes(t)
  /\ submitted' = <<>> /\ panicked' = panicked
  /\ \/ Deselect
     \/ t = <<>> /\ anchor' = anchor /\ forward' = (forward \/ anchor # None)

Moves(extend) ==
  /\ cursor' \in Boundaries(buf) /\ buf' = buf
  /\ submitted' = <<>> /\ panicked' = panicked
  /\ Deselect \/ (extend /\ anchor' \in {anchor, cursor} /\ forward' = forward)

Dies == Panic /\ anchor # None /\ ~Slices(Start, End)

\* What is typed or pasted are characters.
LEMMA InputIsText == \A t \in Input \cup {<<>>} : t \in Seq(Char)
<1> SUFFICES ASSUME NEW t \in Input \cup {<<>>} PROVE t \in Seq(Char)
  OBVIOUS
<1>1. Blank \subseteq Char /\ Wide \subseteq Char /\ Double \subseteq Char
  BY DEF Char
<1>2. ASSUME NEW c \in Char PROVE <<c>> \in Seq(Char)
  OBVIOUS
<1>3. ASSUME NEW c \in Char, NEW d \in Char PROVE <<c, d>> \in Seq(Char)
  OBVIOUS
<1>4. CASE t = <<>>
  BY <1>4
<1>5. CASE \E c \in Char : t = <<c>>
  BY <1>2, <1>5
<1>6. CASE \E c \in Wide \cup Double, d \in Blank : t = <<c, d>>
  BY <1>1, <1>3, <1>6
<1> QED BY <1>4, <1>5, <1>6 DEF Input

\* Two boundaries in order: what is between them is what a deletion takes away.
LEMMA BetweenBoundaries ==
  ASSUME buf \in Seq(Char), NEW p \in Boundaries(buf), NEW q \in Boundaries(buf), p <= q
  PROVE  /\ Before(buf, p) \in 0..Len(buf) /\ Before(buf, q) \in Before(buf, p)..Len(buf)
         /\ At(buf, Before(buf, p)) = p
         /\ Drained(p, q) = Spliced(buf, Before(buf, p), Before(buf, q), <<>>)
<1> DEFINE i == Before(buf, p)  j == Before(buf, q)
<1>0. Len(buf) \in Nat
  OBVIOUS
<1>1. i \in 0..Len(buf) /\ j \in 0..Len(buf) /\ i <= j /\ At(buf, i) = p
  BY BoundaryFacts
<1>2. j \in i..Len(buf)
  BY <1>0, <1>1
<1>3. <<>> \in Seq(Char)
  OBVIOUS
<1>4. Spliced(buf, i, j, <<>>) = First(buf, i) \o Rest(buf, j)
  <2> HIDE DEF i, j
  <2> QED BY <1>1, <1>2, <1>3, SplicedFacts
<1> QED BY <1>1, <1>2, <1>4 DEF Drained, First, Rest

\* A deletion from p to q, at one end of which the cursor is.
LEMMA Deletes ==
  ASSUME LineInv, NEW p \in Boundaries(buf), NEW q \in Boundaries(buf), p <= q,
         cursor \in {p, q}, buf' = Drained(p, q), cursor' = p,
         submitted' = <<>>, panicked' = panicked,
         Deselect \/ (anchor' = anchor /\ forward' = (forward \/ anchor # None))
  PROVE  Replaces(Before(buf, p), Before(buf, q), <<>>)
<1>1. buf \in Seq(Char)
  BY DEF LineInv, LineTyped
<1>2. /\ Before(buf, p) \in 0..Len(buf) /\ Before(buf, q) \in Before(buf, p)..Len(buf)
      /\ At(buf, Before(buf, p)) = p
      /\ Drained(p, q) = Spliced(buf, Before(buf, p), Before(buf, q), <<>>)
  BY <1>1, BetweenBoundaries
<1>3. At(buf, Before(buf, p)) + Bytes(<<>>) = p
  <2>1. Bytes(buf) \in Nat /\ p \in 0..Bytes(buf)
    BY <1>1, BytesOfBoth, BoundaryFacts
  <2> QED BY <1>2, <2>1, BytesOfOne
<1>4. Before(buf, cursor) \in {Before(buf, p), Before(buf, q)}
  OBVIOUS
<1> QED BY <1>2, <1>3, <1>4 DEF Replaces

\* The selection's ends are in order, and one of them is the cursor; they are boundaries
\* if the anchor is one.
LEMMA SelectionEnds ==
  ASSUME LineInv, anchor # None
  PROVE  /\ anchor \in Nat /\ Start \in Nat /\ End \in Nat /\ Start <= End
         /\ cursor \in {Start, End}
         /\ Slices(Start, End) <=> anchor \in Boundaries(buf)
         /\ Slices(Start, End) => Start \in Boundaries(buf) /\ End \in Boundaries(buf)
<1>1. /\ cursor \in Boundaries(buf) /\ anchor \in Nat /\ Bytes(buf) \in Nat
      /\ cursor \in 0..Bytes(buf)
  BY BytesOfBoth, BoundaryFacts DEF LineInv, LineTyped, CursorOnBoundary
<1>2. CASE cursor <= anchor
  BY <1>1, <1>2 DEF Start, End, Slices
<1>3. CASE ~(cursor <= anchor)
  BY <1>1, <1>3 DEF Start, End, Slices
<1> QED BY <1>2, <1>3

\* Typing s, and pasting it over what is between two boundaries.
LEMMA Inserts ==
  ASSUME buf \in Seq(Char), NEW p \in Boundaries(buf), NEW q \in Boundaries(buf), p <= q,
         NEW s \in Seq(Char)
  PROVE  /\ Inserted(Drained(p, q), p, s) = Spliced(buf, Before(buf, p), Before(buf, q), s)
         /\ Inserted(buf, p, s) = Spliced(buf, Before(buf, p), Before(buf, p), s)
<1> DEFINE i == Before(buf, p)  j == Before(buf, q)  d == Drained(p, q)
<1>1. /\ i \in 0..Len(buf) /\ j \in i..Len(buf) /\ At(buf, i) = p
      /\ d = Spliced(buf, i, j, <<>>)
  BY BetweenBoundaries
<1>2. <<>> \in Seq(Char) /\ Len(<<>>) = 0 /\ i + 0 = i
  BY <1>1
<1> HIDE DEF i, j, d
<1>3. /\ d \in Seq(Char) /\ i \in 0..Len(d) /\ At(d, i) = p
      /\ First(d, i) = First(buf, i) /\ Rest(d, i) = Rest(buf, j)
  <2>1. LET n == Spliced(buf, i, j, <<>>)
        IN  /\ n \in Seq(Char) /\ i \in 0..Len(n)
            /\ Rest(n, i + Len(<<>>)) = Rest(buf, j)
            /\ First(n, i) = First(buf, i) /\ At(n, i) = At(buf, i)
    <3>1. PICK e \in Seq(Char) : e = <<>>
      BY <1>2
    <3>2. LET n == Spliced(buf, i, j, e)
          IN  /\ n \in Seq(Char) /\ i \in 0..Len(n)
              /\ Rest(n, i + Len(e)) = Rest(buf, j)
              /\ First(n, i) = First(buf, i) /\ At(n, i) = At(buf, i)
      BY <1>1, SplicedFacts
    <3> QED BY <3>1, <3>2
  <2> QED BY <1>1, <1>2, <2>1
<1>4. Before(d, p) = i
  BY <1>3, BoundaryFacts
<1>5. Inserted(d, p, s) = (First(d, i) \o s) \o Rest(d, i)
  BY <1>4 DEF Inserted, First, Rest
<1>6. Inserted(buf, p, s) = (First(buf, i) \o s) \o Rest(buf, i)
  BY DEF Inserted, First, Rest, i
<1> QED BY <1>3, <1>5, <1>6 DEF Spliced, i, j, d

\* Every operation on the line is a movement, replaces text next to the cursor, sends the
\* line, or slices at an anchor that is lost.
LEMMA EditShape ==
  ASSUME LineInv, NEW op, NEW extend, Edit(op, extend)
  PROVE  Moves(extend) \/ (\E i, j, t : Replaces(i, j, t)) \/ Dies \/ Enter
<1> DEFINE Replacing == \E i, j, t : Replaces(i, j, t)
<1>0. /\ buf \in Seq(Char) /\ cursor \in Boundaries(buf)
      /\ 0 \in Boundaries(buf) /\ Bytes(buf) \in Boundaries(buf)
      /\ cursor \in Nat /\ 0 <= cursor /\ cursor <= cursor
  <2>1. buf \in Seq(Char) /\ cursor \in Boundaries(buf)
    BY DEF LineInv, LineTyped, CursorOnBoundary
  <2>2. Bytes(buf) \in Nat /\ cursor \in 0..Bytes(buf)
    BY <2>1, BytesOfBoth, BoundaryFacts
  <2> QED BY <2>1, <2>2, BoundaryFacts
<1>1. ASSUME NEW p \in Boundaries(buf), MoveTo(p, extend) PROVE Moves(extend)
  BY <1>1 DEF MoveTo, Mark, Keeps, Moves, Deselect
<1>2. ASSUME NEW p \in Nat, Collapse(p) PROVE Moves(extend)
  <2>1. Clamp(p) \in Boundaries(buf)
    BY <1>0, ClampsToBoundary
  <2> QED BY <1>2, <2>1 DEF Collapse, Keeps, Moves
<1>3. CASE MoveLeft(extend) \/ MoveRight(extend)
  <2>1. CASE anchor # None /\ ~extend
    <3>1. Start \in Nat /\ End \in Nat
      BY <2>1, SelectionEnds
    <3>2. Collapse(Start) \/ Collapse(End)
      BY <1>3, <2>1 DEF MoveLeft, MoveRight
    <3> QED BY <1>2, <3>1, <3>2
  <2>2. CASE ~(anchor # None /\ ~extend)
    <3>1. Left(cursor) \in Boundaries(buf) /\ Right(cursor) \in Boundaries(buf)
      BY <1>0, MovesToBoundary
    <3>2. MoveTo(Left(cursor), extend) \/ MoveTo(Right(cursor), extend)
      BY <1>3, <2>2 DEF MoveLeft, MoveRight
    <3> QED BY <1>1, <3>1, <3>2
  <2> QED BY <2>1, <2>2
<1>4. CASE \/ MoveTo(WordLeft(cursor), extend) \/ MoveTo(WordRight(cursor), extend)
           \/ MoveTo(0, extend) \/ MoveTo(Bytes(buf), extend)
  <2>1. WordLeft(cursor) \in Boundaries(buf) /\ WordRight(cursor) \in Boundaries(buf)
    BY <1>0, WordsToBoundary
  <2> QED BY <1>0, <1>1, <1>4, <2>1
<1>5. ASSUME NEW p \in Boundaries(buf), p <= cursor, DeleteBack(p) PROVE Replacing
  <2>1. Replaces(Before(buf, p), Before(buf, cursor), <<>>)
    BY <1>0, <1>5, Deletes DEF DeleteBack, Keeps
  <2> QED BY <2>1
<1>6. ASSUME anchor # None, DeleteSelection PROVE Replacing \/ Dies
  <2>1. CASE Slices(Start, End)
    <3>1. /\ Start \in Boundaries(buf) /\ End \in Boundaries(buf) /\ Start <= End
          /\ cursor \in {Start, End}
      BY <1>6, <2>1, SelectionEnds
    <3>2. buf' = Drained(Start, End) /\ cursor' = Start /\ Deselect /\ Keeps
      BY <1>6, <2>1 DEF DeleteSelection
    <3>3. Replaces(Before(buf, Start), Before(buf, End), <<>>)
      BY <3>1, <3>2, Deletes DEF Keeps
    <3> QED BY <3>3
  <2>2. CASE ~Slices(Start, End)
    BY <1>6, <2>2 DEF DeleteSelection, Dies
  <2> QED BY <2>1, <2>2
<1>7. CASE DeleteBefore \/ Cut
  <2>1. CASE anchor # None
    BY <1>6, <1>7, <2>1 DEF DeleteBefore, Cut
  <2>2. CASE anchor = None
    <3>1. DeleteBack(Left(cursor))
      BY <1>7, <2>2 DEF DeleteBefore, Cut
    <3>2. Left(cursor) \in Boundaries(buf) /\ Left(cursor) <= cursor
      BY <1>0, MovesToBoundary
    <3> QED BY <1>5, <3>1, <3>2
  <2> QED BY <2>1, <2>2
<1>8. CASE DeleteWordBefore \/ DeleteToStart
  <2>1. WordLeft(cursor) \in Boundaries(buf) /\ WordLeft(cursor) <= cursor
    BY <1>0, WordsToBoundary
  <2>2. DeleteBack(WordLeft(cursor)) \/ DeleteBack(0)
    BY <1>8 DEF DeleteWordBefore, DeleteToStart
  <2> QED BY <1>0, <1>5, <2>1, <2>2
<1>9. CASE DeleteAfter
  <2>1. Right(cursor) \in Boundaries(buf) /\ cursor <= Right(cursor)
    BY <1>0, MovesToBoundary
  <2>2. /\ buf' = Drained(cursor, Right(cursor)) /\ cursor' = cursor
        /\ submitted' = <<>> /\ panicked' = panicked
        /\ anchor' = anchor /\ forward' = (forward \/ anchor # None)
    BY <1>9 DEF DeleteAfter, Keeps
  <2>3. Replaces(Before(buf, cursor), Before(buf, Right(cursor)), <<>>)
    BY <1>0, <2>1, <2>2, Deletes
  <2> QED BY <2>3
<1>10. ASSUME NEW s \in Input, Type(s) PROVE Replacing
  <2>1. s \in Seq(Char)
    BY InputIsText
  <2>2. /\ Bytes(buf) + Bytes(s) <= MaxBytes
        /\ buf' = Inserted(buf, cursor, s) /\ cursor' = cursor + Bytes(s)
        /\ Deselect /\ submitted' = <<>> /\ panicked' = panicked
    BY <1>10 DEF Type, Keeps
  <2>3. Inserted(buf, cursor, s) = Spliced(buf, Before(buf, cursor), Before(buf, cursor), s)
    BY <1>0, <2>1, Inserts
  <2>4. /\ Before(buf, cursor) \in 0..Len(buf)
        /\ Before(buf, cursor) \in Before(buf, cursor)..Len(buf)
        /\ At(buf, Before(buf, cursor)) = cursor
    BY <1>0, BetweenBoundaries
  <2>5. Replaces(Before(buf, cursor), Before(buf, cursor), s)
    BY <2>2, <2>3, <2>4 DEF Replaces
  <2> QED BY <2>5
<1>11. ASSUME NEW s \in Input, Paste(s) PROVE Replacing \/ Dies
  <2>1. CASE anchor = None
    BY <1>10, <1>11, <2>1 DEF Paste
  <2>2. CASE anchor # None /\ Slices(Start, End)
    <3>0. s \in Seq(Char)
      BY InputIsText
    <3>1. /\ Start \in Boundaries(buf) /\ End \in Boundaries(buf) /\ Start <= End
          /\ cursor \in {Start, End}
      BY <2>2, SelectionEnds
    <3>2. /\ Bytes(buf) + Bytes(s) <= MaxBytes
          /\ buf' = Inserted(Drained(Start, End), Start, s) /\ cursor' = Start + Bytes(s)
          /\ Deselect /\ submitted' = <<>> /\ panicked' = panicked
      BY <1>11, <2>2 DEF Paste, Keeps
    <3>3. buf' = Spliced(buf, Before(buf, Start), Before(buf, End), s)
      BY <1>0, <3>0, <3>1, <3>2, Inserts
    <3>4. /\ Before(buf, Start) \in 0..Len(buf)
          /\ Before(buf, End) \in Before(buf, Start)..Len(buf)
          /\ At(buf, Before(buf, Start)) = Start
      BY <1>0, <3>1, BetweenBoundaries
    <3>5. Replaces(Before(buf, Start), Before(buf, End), s)
      BY <3>1, <3>2, <3>3, <3>4 DEF Replaces
    <3> QED BY <3>5
  <2>3. CASE anchor # None /\ ~Slices(Start, End)
    BY <1>11, <2>3 DEF Paste, Dies
  <2> QED BY <2>1, <2>2, <2>3
<1>12. CASE Copy
  BY <1>12 DEF Copy, Dies
<1>13. CASE Enter
  BY <1>13
<1>14. \A c \in Char : <<c>> \in Input
  BY DEF Input
<1>15. \/ MoveLeft(extend) \/ MoveRight(extend)
       \/ MoveTo(WordLeft(cursor), extend) \/ MoveTo(WordRight(cursor), extend)
       \/ MoveTo(0, extend) \/ MoveTo(Bytes(buf), extend)
       \/ DeleteBefore \/ Cut \/ DeleteWordBefore \/ DeleteToStart \/ DeleteAfter
       \/ (\E c \in Char : Type(<<c>>)) \/ (\E s \in Input : Paste(s)) \/ Copy \/ Enter
  BY DEF Edit
<1> QED BY <1>3, <1>4, <1>7, <1>8, <1>9, <1>10, <1>11, <1>12, <1>13, <1>14, <1>15

-----------------------------------------------------------------------------
(* The cursor and the anchor                                                  *)

allVars == <<vars, frontVars, lineVars>>

\* Every step is one of these, as far as the line is concerned.
LEMMA LineShape ==
  ASSUME LineInv, [LineNext]_allVars
  PROVE  \/ UNCHANGED vars
         \/ /\ ~panicked
            /\ \/ \E extend : Moves(extend)
               \/ \E i, j, t : Replaces(i, j, t)
               \/ Dies
               \/ Enter
<1>1. CASE KeyPressed
  <2>1. PICK op \in Ops[front] : Edit(op[1], op[2])
    BY <1>1 DEF KeyPressed
  <2>2. ~panicked
    BY <1>1 DEF KeyPressed, Running
  <2> QED BY <2>1, <2>2, EditShape
<1>2. CASE RedrawPanics
  BY <1>2 DEF RedrawPanics, Running, Sliceable, Dies
<1>3. CASE FrontSteps /\ UNCHANGED <<vars, lineVars>>
  BY <1>3
<1>4. CASE (\E on \in BOOLEAN : Redraw(on)) \/ Rebuild
  BY <1>4 DEF Redraw, Rebuild
<1>5. CASE UNCHANGED allVars
  BY <1>5 DEF allVars
<1> QED BY <1>1, <1>2, <1>3, <1>4, <1>5 DEF LineNext

\* After a replacement the cursor is behind the new text.
LEMMA ReplacedFacts ==
  ASSUME LineInv, NEW i, NEW j, NEW t, Replaces(i, j, t)
  PROVE  /\ buf' \in Seq(Char) /\ cursor' \in Boundaries(buf')
         /\ i \in 0..Len(buf) /\ j \in i..Len(buf)
         /\ First(buf', Before(buf', cursor')) = First(buf, i) \o t
         /\ Rest(buf', Before(buf', cursor')) = Rest(buf, j)
<1>1. /\ buf \in Seq(Char) /\ i \in 0..Len(buf) /\ j \in i..Len(buf) /\ t \in Seq(Char)
      /\ buf' = Spliced(buf, i, j, t) /\ cursor' = At(buf, i) + Bytes(t)
  BY InputIsText DEF Replaces, LineInv, LineTyped
<1>2. PICK n : n = Spliced(buf, i, j, t)
  OBVIOUS
<1>3. PICK k : k = i + Len(t)
  OBVIOUS
<1>4. /\ n \in Seq(Char) /\ k \in 0..Len(n)
      /\ First(n, k) = First(buf, i) \o t /\ Rest(n, k) = Rest(buf, j)
      /\ At(n, k) = At(buf, i) + Bytes(t)
  BY <1>1, <1>2, <1>3, SplicedFacts
<1>5. At(n, k) \in Boundaries(n) /\ Before(n, At(n, k)) = k
  BY <1>4, BoundaryFacts
<1>6. buf' = n /\ cursor' = At(n, k)
  BY <1>1, <1>2, <1>4
<1> QED BY <1>1, <1>4, <1>5, <1>6

\* Init and every step establish and keep what is known of the line.
LEMMA LineStarts == LineInit => LineInv
<1> SUFFICES ASSUME LineInit PROVE LineInv
  OBVIOUS
<1>1. buf = <<>> /\ cursor = 0 /\ anchor = None /\ panicked = FALSE /\ forward = FALSE
  BY DEF LineInit, Init
<1>2. <<>> \in Seq(Char)
  OBVIOUS
<1>3. buf \in Seq(Char) /\ 0 \in Boundaries(buf)
  BY <1>1, <1>2, BoundaryFacts
<1> QED BY <1>1, <1>3 DEF LineInv, LineTyped, CursorOnBoundary, AnchorLostOnlyForward

\* Every key keeps the cursor on a boundary, and the anchor unless it deletes forward.
LEMMA LineKept == LineInv /\ [LineNext]_allVars => LineInv'
<1> SUFFICES ASSUME LineInv, [LineNext]_allVars PROVE LineInv'
  OBVIOUS
<1>0. /\ buf \in Seq(Char) /\ anchor \in Nat \cup {None} /\ forward \in BOOLEAN
      /\ cursor \in Boundaries(buf) /\ cursor \in Nat
      /\ anchor \notin Boundaries(buf) \cup {None} => forward
      /\ panicked => forward
  <2>1. /\ buf \in Seq(Char) /\ anchor \in Nat \cup {None} /\ forward \in BOOLEAN
        /\ cursor \in Boundaries(buf)
        /\ anchor \notin Boundaries(buf) \cup {None} => forward
        /\ panicked => forward
    BY DEF LineInv, LineTyped, CursorOnBoundary, AnchorLostOnlyForward
  <2>2. Bytes(buf) \in Nat /\ cursor \in 0..Bytes(buf)
    BY <2>1, BytesOfBoth, BoundaryFacts
  <2> QED BY <2>1, <2>2
<1> SUFFICES /\ buf' \in Seq(Char) /\ anchor' \in Nat \cup {None} /\ forward' \in BOOLEAN
             /\ cursor' \in Boundaries(buf')
             /\ anchor' \notin Boundaries(buf') \cup {None} => forward'
             /\ panicked' => forward'
  BY DEF LineInv, LineTyped, CursorOnBoundary, AnchorLostOnlyForward
<1>1. CASE UNCHANGED vars
  BY <1>0, <1>1 DEF vars
<1>2. ASSUME NEW extend, Moves(extend), ~panicked
      PROVE  /\ buf' \in Seq(Char) /\ anchor' \in Nat \cup {None} /\ forward' \in BOOLEAN
             /\ cursor' \in Boundaries(buf')
             /\ anchor' \notin Boundaries(buf') \cup {None} => forward'
             /\ panicked' => forward'
  <2>1. cursor' \in Boundaries(buf) /\ buf' = buf /\ panicked' = panicked
    BY <1>2 DEF Moves
  <2>2. \/ anchor' = None /\ forward' = FALSE
        \/ anchor' = anchor /\ forward' = forward
        \/ anchor' = cursor /\ forward' = forward
    BY <1>2 DEF Moves, Deselect
  <2> QED BY <1>0, <1>2, <2>1, <2>2
<1>3. ASSUME NEW i, NEW j, NEW t, Replaces(i, j, t), ~panicked
      PROVE  /\ buf' \in Seq(Char) /\ anchor' \in Nat \cup {None} /\ forward' \in BOOLEAN
             /\ cursor' \in Boundaries(buf')
             /\ anchor' \notin Boundaries(buf') \cup {None} => forward'
             /\ panicked' => forward'
  <2>1. buf' \in Seq(Char) /\ cursor' \in Boundaries(buf')
    BY <1>3, ReplacedFacts
  <2>2. /\ panicked' = panicked
        /\ \/ anchor' = None /\ forward' = FALSE
           \/ anchor' = anchor /\ forward' = (forward \/ anchor # None)
    BY <1>3 DEF Replaces, Deselect
  <2> QED BY <1>0, <1>3, <2>1, <2>2
<1>4. CASE Dies
  <2>1. UNCHANGED <<buf, cursor, anchor, forward>> /\ anchor # None /\ ~Slices(Start, End)
    BY <1>4 DEF Dies, Panic
  <2>2. anchor \notin Boundaries(buf)
    BY <2>1, SelectionEnds
  <2> QED BY <1>0, <2>1, <2>2
<1>5. CASE Enter /\ ~panicked
  <2>1. buf' = <<>> /\ cursor' = 0 /\ anchor' = None /\ forward' = FALSE /\ panicked' = panicked
    BY <1>5 DEF Enter, Deselect
  <2>2. <<>> \in Seq(Char)
    OBVIOUS
  <2>3. 0 \in Boundaries(<<>>)
    BY <2>2, BoundaryFacts
  <2> QED BY <1>5, <2>1, <2>2, <2>3
<1> QED BY <1>1, <1>2, <1>3, <1>4, <1>5, LineShape

\* Through every sequence of keys, pastes and redraws the cursor stays between two
\* characters of the line.
THEOREM CursorStaysOnBoundary == LineSpec => []CursorOnBoundary
<1>1. LineInv => CursorOnBoundary
  BY DEF LineInv
<1> QED BY LineStarts, LineKept, <1>1, PTL DEF LineSpec, allVars

\* Only a forward delete under a selection leaves the anchor elsewhere, and only that ends
\* the client in a bad slice.
THEOREM AnchorLost == LineSpec => []AnchorLostOnlyForward
<1>1. LineInv => AnchorLostOnlyForward
  BY DEF LineInv
<1> QED BY LineStarts, LineKept, <1>1, PTL DEF LineSpec, allVars

-----------------------------------------------------------------------------
(* Types                                                                      *)

\* A string in which t took the place of a part has no more bytes than both together.
LEMMA SplicedBytes ==
  ASSUME NEW b \in Seq(Char), NEW i \in 0..Len(b), NEW j \in i..Len(b), NEW t \in Seq(Char)
  PROVE  Bytes(Spliced(b, i, j, t)) <= Bytes(b) + Bytes(t)
<1>0. Len(b) \in Nat /\ j \in 0..Len(b) /\ i \in Nat /\ j \in Nat
  OBVIOUS
<1>1. PICK n : n = Spliced(b, i, j, t)
  OBVIOUS
<1>2. PICK k : k = i + Len(t)
  OBVIOUS
<1>3. /\ n \in Seq(Char) /\ k \in 0..Len(n)
      /\ Rest(n, k) = Rest(b, j) /\ At(n, k) = At(b, i) + Bytes(t)
  BY <1>1, <1>2, SplicedFacts
<1>4. \A s \in Seq(Char) : \A m \in 0..Len(s) : Bytes(s) = At(s, m) + Bytes(Rest(s, m))
  <2> SUFFICES ASSUME NEW s \in Seq(Char), NEW m \in 0..Len(s)
               PROVE  Bytes(s) = At(s, m) + Bytes(Rest(s, m))
    OBVIOUS
  <2>1. First(s, m) \in Seq(Char) /\ Rest(s, m) \in Seq(Char) /\ First(s, m) \o Rest(s, m) = s
    BY CutFacts
  <2>2. Bytes(First(s, m) \o Rest(s, m)) = Bytes(First(s, m)) + Bytes(Rest(s, m))
    BY <2>1, BytesOfBoth
  <2> QED BY <2>1, <2>2 DEF At, First
<1>5. Bytes(n) = At(n, k) + Bytes(Rest(b, j)) /\ Bytes(b) = At(b, j) + Bytes(Rest(b, j))
  BY <1>0, <1>3, <1>4
<1>6. Rest(b, j) \in Seq(Char)
  BY <1>0, CutFacts
<1>7. Bytes(Rest(b, j)) \in Nat /\ Bytes(t) \in Nat
  BY <1>6, BytesOfBoth
<1>8. At(b, i) \in Nat /\ At(b, j) \in Nat /\ At(b, i) <= At(b, j)
  <2>1. i = j \/ i < j
    BY <1>0
  <2> QED BY <1>0, <2>1, AtGrows
<1>9. Bytes(n) <= Bytes(b) + Bytes(t)
  BY <1>3, <1>5, <1>7, <1>8
<1> QED BY <1>1, <1>9

\* At first there is no text.
LEMMA TypeStarts == LineInit => TypeOK
<1> SUFFICES ASSUME LineInit PROVE TypeOK
  OBVIOUS
<1>1. PICK e \in Seq(Char) : e = <<>> /\ Bytes(e) = 0
  <2>1. <<>> \in Seq(Char)
    OBVIOUS
  <2> QED BY <2>1, BytesOfOne
<1>2. /\ buf = e /\ cursor = 0 /\ anchor = None
      /\ submitted = e /\ panicked = FALSE /\ forward = FALSE
  BY <1>1 DEF LineInit, Init
<1>3. e \in Seq(Char) /\ Bytes(e) = 0 /\ MaxBytes \in Nat
  BY <1>1, EditorAssumption
<1>4. Bytes(buf) <= MaxBytes /\ cursor \in 0..Bytes(buf)
  <2>1. Bytes(buf) = 0 /\ cursor = 0
    BY <1>2, <1>3
  <2> QED BY <1>3, <2>1
<1> QED BY <1>2, <1>3, <1>4, Zenon DEF TypeOK

\* Every step keeps the types: what is typed fits, and an anchor is where the cursor was.
LEMMA TypeKept == LineInv /\ TypeOK /\ [LineNext]_allVars => TypeOK'
<1> SUFFICES ASSUME LineInv, TypeOK, [LineNext]_allVars PROVE TypeOK'
  OBVIOUS
<1>0. /\ buf \in Seq(Char) /\ Bytes(buf) <= MaxBytes /\ Bytes(buf) \in Nat /\ MaxBytes \in Nat
      /\ cursor \in 0..Bytes(buf) /\ anchor \in (0..MaxBytes) \cup {None}
      /\ submitted \in Seq(Char) /\ panicked \in BOOLEAN /\ forward \in BOOLEAN
      /\ cursor \in Boundaries(buf) /\ <<>> \in Seq(Char)
  BY BytesOfBoth, EditorAssumption DEF TypeOK, LineInv, CursorOnBoundary
<1> SUFFICES /\ buf' \in Seq(Char) /\ Bytes(buf') <= MaxBytes
             /\ cursor' \in 0..Bytes(buf') /\ anchor' \in (0..MaxBytes) \cup {None}
             /\ submitted' \in Seq(Char) /\ panicked' \in BOOLEAN /\ forward' \in BOOLEAN
  BY DEF TypeOK
<1>1. CASE UNCHANGED vars
  BY <1>0, <1>1 DEF vars
<1>2. ASSUME NEW extend, Moves(extend)
      PROVE  /\ buf' \in Seq(Char) /\ Bytes(buf') <= MaxBytes
             /\ cursor' \in 0..Bytes(buf') /\ anchor' \in (0..MaxBytes) \cup {None}
             /\ submitted' \in Seq(Char) /\ panicked' \in BOOLEAN /\ forward' \in BOOLEAN
  <2>1. cursor' \in 0..Bytes(buf) /\ buf' = buf /\ submitted' = <<>> /\ panicked' = panicked
    BY <1>0, <1>2, BoundaryFacts DEF Moves
  <2>2. \/ anchor' = None /\ forward' = FALSE
        \/ anchor' = anchor /\ forward' = forward
        \/ anchor' = cursor /\ forward' = forward
    BY <1>2 DEF Moves, Deselect
  <2>3. anchor' \in (0..MaxBytes) \cup {None} /\ forward' \in BOOLEAN
    <3>1. cursor \in 0..MaxBytes
      BY <1>0
    <3>2. anchor \in (0..MaxBytes) \cup {None} /\ forward \in BOOLEAN
      BY <1>0
    <3>3. None \in (0..MaxBytes) \cup {None}
      OBVIOUS
    <3> QED BY <2>2, <3>1, <3>2, <3>3, Zenon
  <2> QED BY <1>0, <2>1, <2>3
<1>3. ASSUME NEW i, NEW j, NEW t, Replaces(i, j, t)
      PROVE  /\ buf' \in Seq(Char) /\ Bytes(buf') <= MaxBytes
             /\ cursor' \in 0..Bytes(buf') /\ anchor' \in (0..MaxBytes) \cup {None}
             /\ submitted' \in Seq(Char) /\ panicked' \in BOOLEAN /\ forward' \in BOOLEAN
  <2>1. buf' \in Seq(Char) /\ cursor' \in Boundaries(buf')
    BY <1>3, ReplacedFacts
  <2>2. cursor' \in 0..Bytes(buf') /\ Bytes(buf') \in Nat
    <3>1. PICK b \in Seq(Char) : b = buf' /\ cursor' \in Boundaries(b)
      BY <2>1
    <3>2. cursor' \in 0..Bytes(b) /\ Bytes(b) \in Nat
      BY <3>1, BoundaryFacts, BytesOfBoth
    <3> QED BY <3>1, <3>2
  <2>3. Bytes(buf') <= MaxBytes
    <3>1. /\ i \in 0..Len(buf) /\ j \in i..Len(buf) /\ t \in Seq(Char)
          /\ buf' = Spliced(buf, i, j, t) /\ (t = <<>> \/ Bytes(buf) + Bytes(t) <= MaxBytes)
      BY <1>3, InputIsText DEF Replaces
    <3>2. Bytes(Spliced(buf, i, j, t)) <= Bytes(buf) + Bytes(t)
      BY <1>0, <3>1, SplicedBytes
    <3>3. Bytes(buf') <= Bytes(buf) + Bytes(t)
      BY <3>1, <3>2
    <3>4. CASE t = <<>>
      <4>1. Bytes(t) = 0
        BY <3>4, BytesOfOne
      <4> QED BY <1>0, <2>2, <3>3, <4>1
    <3>5. CASE Bytes(buf) + Bytes(t) <= MaxBytes
      <4>1. Bytes(t) \in Nat
        BY <3>1, BytesOfBoth
      <4> QED BY <1>0, <2>2, <3>3, <3>5, <4>1
    <3> QED BY <3>1, <3>4, <3>5
  <2>4. /\ submitted' = <<>> /\ panicked' = panicked
        /\ \/ anchor' = None /\ forward' = FALSE
           \/ anchor' = anchor /\ forward' = (forward \/ anchor # None)
    BY <1>3 DEF Replaces, Deselect
  <2>5. anchor' \in (0..MaxBytes) \cup {None} /\ forward' \in BOOLEAN
    BY <1>0, <2>4
  <2> QED BY <1>0, <2>1, <2>2, <2>3, <2>4, <2>5
<1>4. CASE Dies
  BY <1>0, <1>4 DEF Dies, Panic
<1>5. CASE Enter
  <2>1. /\ buf' = <<>> /\ cursor' = 0 /\ anchor' = None /\ forward' = FALSE
        /\ submitted' = buf /\ panicked' = panicked
    BY <1>5 DEF Enter, Deselect
  <2>2. buf' \in Seq(Char) /\ Bytes(buf') = 0
    BY <1>0, <2>1, BytesOfOne
  <2>3. /\ cursor' = 0 /\ anchor' = None /\ forward' = FALSE
        /\ submitted' = buf /\ panicked' = panicked
    BY <2>1
  <2>4. Bytes(buf') <= MaxBytes /\ cursor' \in 0..Bytes(buf')
    <3>1. cursor' = 0 /\ MaxBytes \in Nat /\ Bytes(buf') = 0
      BY <1>0, <2>2, <2>3
    <3> QED BY <3>1
  <2> QED BY <1>0, <2>2, <2>3, <2>4, Zenon
<1> QED BY <1>1, <1>2, <1>3, <1>4, <1>5, LineShape

\* The line is text, no longer than it may be, and cursor and anchor are offsets.
THEOREM TypeCorrect == LineSpec => []TypeOK
BY LineStarts, LineKept, TypeStarts, TypeKept, PTL DEF LineSpec, allVars

-----------------------------------------------------------------------------
(* The terminal                                                               *)

\* The terminal build never has a selection, so no bad slice ends it; the window build
\* leaves the terminal alone.
TtyInv ==
  /\ front \in {"window", "terminal"}
  /\ front = "terminal" => anchor = None /\ ~panicked
  /\ front = "window" => tty = "cooked"
  /\ phase = "over" => tty = "cooked"

\* No key of the terminal build extends a selection.
LEMMA TerminalNeverExtends == \A op \in Ops["terminal"] : op[2] = FALSE
<1>1. \A k, m : TerminalOp(k, m)[2] = FALSE
  BY DEF TerminalOp, Arrow
<1>2. Ops["terminal"] = {TerminalOp(k, m) : k \in Key, m \in SUBSET (Modifier \ {"cmd"})}
  BY DEF Ops
<1> QED BY <1>1, <1>2

\* At first nothing is selected, and the terminal is as it was.
LEMMA TtyStarts == LineInit => TtyInv
BY DEF LineInit, Init, FrontInit, TtyInv

\* Every step keeps the terminal's invariant: no key of its build sets an anchor.
LEMMA TtyKept == LineInv /\ TtyInv /\ [LineNext]_allVars => TtyInv'
<1> SUFFICES ASSUME LineInv, TtyInv, [LineNext]_allVars PROVE TtyInv'
  OBVIOUS
<1>1. CASE KeyPressed
  <2>1. PICK op \in Ops[front] : Edit(op[1], op[2])
    BY <1>1 DEF KeyPressed
  <2>2. UNCHANGED frontVars
    BY <1>1 DEF KeyPressed
  <2>3. ASSUME front = "terminal" PROVE anchor' = None /\ ~panicked'
    <3>1. op[2] = FALSE /\ anchor = None /\ ~panicked
      BY <2>1, <2>3, TerminalNeverExtends DEF TtyInv
    <3>2. Moves(FALSE) \/ (\E i, j, t : Replaces(i, j, t)) \/ Dies \/ Enter
      BY <2>1, <3>1, EditShape
    <3>3. CASE Moves(FALSE)
      BY <3>1, <3>3 DEF Moves, Deselect
    <3>4. CASE \E i, j, t : Replaces(i, j, t)
      BY <3>1, <3>4 DEF Replaces, Deselect
    <3>5. CASE Dies
      BY <3>1, <3>5 DEF Dies
    <3>6. CASE Enter
      BY <3>1, <3>6 DEF Enter, Deselect
    <3> QED BY <3>2, <3>3, <3>4, <3>5, <3>6
  <2> QED BY <2>2, <2>3 DEF TtyInv, frontVars
<1>2. CASE FrontSteps /\ UNCHANGED <<vars, lineVars>>
  <2>1. UNCHANGED <<anchor, panicked>>
    BY <1>2 DEF vars
  <2>2. CASE EnableRawMode \/ EnterAlternateScreen \/ NewTerminal
    BY <2>1, <2>2 DEF EnableRawMode, EnterAlternateScreen, NewTerminal, TtyInv
  <2>3. CASE OpenWindow \/ ExitWindow
    BY <2>1, <2>3 DEF OpenWindow, ExitWindow, TtyInv
  <2>4. CASE LeaveLoop
    BY <2>1, <2>4 DEF LeaveLoop, TearDown, TtyInv
  <2> QED BY <1>2, <2>2, <2>3, <2>4 DEF FrontSteps
<1>3. CASE (\E on \in BOOLEAN : Redraw(on)) \/ Rebuild
  BY <1>3 DEF Redraw, Rebuild, vars, frontVars, TtyInv
<1>4. CASE RedrawPanics
  <2>1. front = "window"
    BY <1>4 DEF RedrawPanics, Sliceable, TtyInv
  <2> QED BY <1>4, <2>1 DEF RedrawPanics, frontVars, TtyInv
<1>5. CASE UNCHANGED allVars
  BY <1>5 DEF allVars, vars, frontVars, TtyInv
<1> QED BY <1>1, <1>2, <1>3, <1>4, <1>5 DEF LineNext

\* A client that got as far as its loop gives the terminal back as it found it.
THEOREM TtyIsGivenBack == LineSpec => []TtyGivenBack
<1>1. TtyInv => TtyGivenBack
  BY DEF TtyInv, TtyGivenBack
<1> QED BY LineStarts, LineKept, TtyStarts, TtyKept, <1>1, PTL DEF LineSpec, allVars

-----------------------------------------------------------------------------
(* The text                                                                   *)

\* The text on both sides of the cursor.
LeftOf(s, p) == First(s, Before(s, p))
RightOf(s, p) == Rest(s, Before(s, p))

\* At a boundary, both sides are texts.
LEMMA Sides ==
  ASSUME NEW s \in Seq(Char), NEW p \in Boundaries(s)
  PROVE  /\ Before(s, p) \in 0..Len(s)
         /\ LeftOf(s, p) \in Seq(Char) /\ Len(LeftOf(s, p)) = Before(s, p)
         /\ RightOf(s, p) \in Seq(Char) /\ Len(RightOf(s, p)) = Len(s) - Before(s, p)
         /\ LeftOf(s, p) \o RightOf(s, p) = s
<1>1. Before(s, p) \in 0..Len(s)
  BY BoundaryFacts
<1> QED BY <1>1, CutFacts DEF LeftOf, RightOf

\* Of an empty line, both sides are.
LEMMA SidesOfEmpty ==
  ASSUME NEW s \in Seq(Char), Len(s) = 0
  PROVE  LeftOf(s, 0) = <<>> /\ RightOf(s, 0) = <<>>
<1>1. 0 \in Boundaries(s)
  BY BoundaryFacts
<1>2. Before(s, 0) = 0
  <2>1. Before(s, 0) \in 0..Len(s)
    BY <1>1, BoundaryFacts
  <2> QED BY <2>1
<1>3. /\ LeftOf(s, 0) \in Seq(Char) /\ Len(LeftOf(s, 0)) = 0
      /\ RightOf(s, 0) \in Seq(Char) /\ Len(RightOf(s, 0)) = 0
  <2>1. /\ LeftOf(s, 0) \in Seq(Char) /\ Len(LeftOf(s, 0)) = Before(s, 0)
        /\ RightOf(s, 0) \in Seq(Char) /\ Len(RightOf(s, 0)) = Len(s) - Before(s, 0)
    BY ZenonT(60), <1>1, Sides
  <2> QED BY <1>2, <2>1
<1> QED BY <1>3

\* The editor starts as its abstract text does.
LEMMA TextStarts == LineInit => Text!Init
<1> SUFFICES ASSUME LineInit PROVE Text!Init
  OBVIOUS
<1>1. buf = <<>> /\ cursor = 0 /\ submitted = <<>> /\ cursor \in Boundaries(buf) /\ buf \in Seq(Char)
  BY LineStarts DEF LineInit, Init, LineInv, LineTyped, CursorOnBoundary
<1>2. PICK e \in Seq(Char) : e = buf /\ Len(e) = 0
  BY <1>1
<1>3. LeftOf(buf, cursor) = <<>> /\ RightOf(buf, cursor) = <<>>
  BY <1>1, <1>2, SidesOfEmpty
<1> QED BY <1>1, <1>3 DEF Text!Init, LeftOf, RightOf, First, Rest

\* A movement: the text is the same, cut elsewhere.
LEMMA TextMoves ==
  ASSUME buf \in Seq(Char), cursor \in Boundaries(buf), cursor' \in Boundaries(buf),
         buf' = buf, submitted' = <<>>
  PROVE  Text!Move
<1> DEFINE l == LeftOf(buf, cursor)  r == RightOf(buf, cursor)  k == Before(buf, cursor')
<1>1. l \o r = buf /\ Len(l) + Len(r) = Len(buf) /\ k \in 0..Len(buf)
  <2>0. Len(buf) \in Nat
    OBVIOUS
  <2>1. /\ Before(buf, cursor) \in 0..Len(buf) /\ l \o r = buf
        /\ Len(l) = Before(buf, cursor) /\ Len(r) = Len(buf) - Before(buf, cursor)
    BY ZenonT(60), Sides
  <2>2. k \in 0..Len(buf)
    BY BoundaryFacts
  <2> HIDE DEF l, r, k
  <2> QED BY <2>0, <2>1, <2>2
<1>2. Before(buf', cursor') = k
  OBVIOUS
<1>3. /\ First(buf', Before(buf', cursor')) = SubSeq(l \o r, 1, k)
      /\ Rest(buf', Before(buf', cursor')) = SubSeq(l \o r, k + 1, Len(l) + Len(r))
  BY <1>1, <1>2 DEF First, Rest
<1>4. k \in 0..(Len(l) + Len(r))
  BY <1>1
<1> QED BY <1>3, <1>4 DEF Text!Move, LeftOf, RightOf, First, Rest

\* A replacement next to the cursor: the text on the other side of it stays.
LEMMA TextReplaces ==
  ASSUME LineInv, NEW i, NEW j, NEW t, Replaces(i, j, t)
  PROVE  Text!Replace(t)
<1> DEFINE l == LeftOf(buf, cursor)  r == RightOf(buf, cursor)  k == Before(buf, cursor)
<1>1. buf \in Seq(Char) /\ cursor \in Boundaries(buf) /\ k \in {i, j} /\ submitted' = <<>>
  BY DEF LineInv, LineTyped, CursorOnBoundary, Replaces
<1>2. /\ i \in 0..Len(buf) /\ j \in i..Len(buf)
      /\ First(buf', Before(buf', cursor')) = First(buf, i) \o t
      /\ Rest(buf', Before(buf', cursor')) = Rest(buf, j)
  BY ReplacedFacts
<1>3. /\ k \in 0..Len(buf) /\ Len(buf) \in Nat /\ Len(l) = k /\ Len(r) = Len(buf) - k
      /\ l = First(buf, k) /\ r = Rest(buf, k)
  BY <1>1, Sides DEF LeftOf, RightOf
<1>4. CASE k = j
  <2>1. First(l, i) = First(buf, i) /\ i \in 0..Len(l)
    <3>1. i \in 0..k
      BY <1>2, <1>3, <1>4
    <3> QED BY <1>1, <1>3, <3>1, CutTwice
  <2>2. \E n \in 0..Len(l) : /\ First(buf', Before(buf', cursor')) = SubSeq(l, 1, n) \o t
                             /\ Rest(buf', Before(buf', cursor')) = r
    BY <1>2, <1>3, <1>4, <2>1 DEF First
  <2> QED BY <1>1, <2>2 DEF Text!Replace, LeftOf, RightOf, First, Rest
<1>5. CASE k = i
  <2>1. j - k \in 0..Len(r) /\ Rest(r, j - k) = Rest(buf, j)
    <3>1. j \in k..Len(buf) /\ j - k \in 0..Len(r)
      BY <1>2, <1>3, <1>5
    <3> QED BY <1>1, <1>3, <3>1, CutTwice
  <2>2. \E n \in 0..Len(r) : /\ First(buf', Before(buf', cursor')) = l \o t
                             /\ Rest(buf', Before(buf', cursor')) = SubSeq(r, n + 1, Len(r))
    BY <1>2, <1>3, <1>5, <2>1 DEF Rest
  <2> QED BY <1>1, <2>2 DEF Text!Replace, LeftOf, RightOf, First, Rest
<1> QED BY <1>1, <1>4, <1>5

\* The line leaves the editor whole.
LEMMA TextSubmits ==
  ASSUME LineInv, Enter
  PROVE  Text!Submit
<1>1. buf \in Seq(Char) /\ cursor \in Boundaries(buf)
  BY DEF LineInv, LineTyped, CursorOnBoundary
<1>2. LeftOf(buf, cursor) \o RightOf(buf, cursor) = buf
  BY <1>1, Sides
<1>3. buf # <<>> /\ submitted' = buf /\ buf' = <<>> /\ cursor' = 0
  BY DEF Enter
<1>4. First(buf', Before(buf', cursor')) = <<>> /\ Rest(buf', Before(buf', cursor')) = <<>>
  <2>1. <<>> \in Seq(Char) /\ Len(<<>>) = 0
    OBVIOUS
  <2>2. PICK e \in Seq(Char) : e = <<>> /\ Len(e) = 0
    BY <2>1
  <2>3. LeftOf(e, 0) = <<>> /\ RightOf(e, 0) = <<>>
    BY <2>2, SidesOfEmpty
  <2> QED BY <1>3, <2>2, <2>3 DEF LeftOf, RightOf
<1> QED BY <1>2, <1>3, <1>4 DEF Text!Submit, LeftOf, RightOf, First, Rest

\* Each step of the client is one of the abstract text, or changes nothing there.
LEMMA TextStep == LineInv /\ [LineNext]_allVars => [Text!Next]_(Text!vars)
<1> SUFFICES ASSUME LineInv, [LineNext]_allVars PROVE Text!Next \/ UNCHANGED Text!vars
  OBVIOUS
<1>1. CASE UNCHANGED vars
  BY <1>1 DEF vars, Text!vars
<1>2. ASSUME NEW extend, Moves(extend) PROVE Text!Next
  BY <1>2, TextMoves DEF Moves, Text!Next, LineInv, LineTyped, CursorOnBoundary
<1>3. ASSUME NEW i, NEW j, NEW t, Replaces(i, j, t) PROVE Text!Next
  BY <1>3, TextReplaces DEF Replaces, Text!Next
<1>4. CASE Dies
  BY <1>4, TextMoves DEF Dies, Panic, Text!Next, LineInv, LineTyped, CursorOnBoundary
<1>5. CASE Enter
  BY <1>5, TextSubmits DEF Text!Next
<1> QED BY <1>1, <1>2, <1>3, <1>4, <1>5, LineShape

\* No key changes text that is not next to the cursor, and a line leaves the editor whole:
\* the editor implements EditorText.
THEOREM ImplementsText == LineSpec => TextOnly
BY TextStarts, LineStarts, LineKept, TextStep, PTL DEF LineSpec, allVars, TextOnly, Text!Spec

-----------------------------------------------------------------------------
(* Words                                                                      *)

\* A run ends where the string does or another kind of character follows.
LEMMA RunEndFacts ==
  ASSUME buf \in Seq(Char), NEW S, NEW k \in 0..Len(buf)
  PROVE  \E m \in k..Len(buf) : /\ RunEnd(S, At(buf, k)) = At(buf, m)
                                /\ \A n \in (k + 1)..m : buf[n] \in S
                                /\ m = Len(buf) \/ buf[m + 1] \notin S
<1> DEFINE p == At(buf, k)
           A == {b \in Boundaries(buf) :
                   b >= p /\ \A n \in (Before(buf, p) + 1)..Before(buf, b) : buf[n] \in S}
           e == RunEnd(S, p)
           m == Before(buf, e)
<1>0. Len(buf) \in Nat /\ k \in Nat
  OBVIOUS
<1>1. p \in Boundaries(buf) /\ Before(buf, p) = k /\ p \in Nat
  BY BoundaryFacts, AtGrows
<1>2. A \in SUBSET Boundaries(buf) /\ p \in A
  BY <1>0, <1>1
<1>3. e \in A /\ \A b \in A : b <= e
  <2>1. Max(A) \in A /\ \A b \in A : b <= Max(A)
    <3> HIDE DEF A
    <3> QED BY <1>2, ExtremeBoundaries
  <2> QED BY <2>1 DEF RunEnd
<1>4. e \in Boundaries(buf) /\ e >= p /\ \A n \in (k + 1)..m : buf[n] \in S
  BY <1>1, <1>3
<1> HIDE DEF p, e
<1>5. m \in 0..Len(buf) /\ e = At(buf, m) /\ k <= m
  BY <1>0, <1>1, <1>4, BoundaryFacts
<1> HIDE DEF m
<1>6. ASSUME m # Len(buf), buf[m + 1] \in S PROVE FALSE
  <2>1. m + 1 \in 0..Len(buf) /\ m < m + 1 /\ m \in 0..Len(buf)
    BY <1>0, <1>5, <1>6
  <2>2. At(buf, m) < At(buf, m + 1) /\ At(buf, m) \in Nat /\ At(buf, m + 1) \in Nat
    BY <2>1, AtGrows
  <2>3. At(buf, m + 1) \in Boundaries(buf) /\ Before(buf, At(buf, m + 1)) = m + 1
    BY <2>1, BoundaryFacts
  <2>4. \A n \in (k + 1)..(m + 1) : buf[n] \in S
    <3>1. \A n \in (k + 1)..(m + 1) : n \in (k + 1)..m \/ n = m + 1
      BY <1>0, <1>5
    <3> QED BY <1>4, <1>6, <3>1
  <2>5. At(buf, m + 1) \in A
    BY <1>1, <1>4, <1>5, <2>2, <2>3, <2>4
  <2> HIDE DEF A
  <2> QED BY <1>3, <1>5, <2>2, <2>5
<1> QED BY <1>0, <1>4, <1>5, <1>6 DEF p, e

\* A run to the left of the k-th character begins after some m-th: all between are of S and
\* the m-th is not.
LEMMA RunStartFacts ==
  ASSUME buf \in Seq(Char), NEW S, NEW k \in 0..Len(buf)
  PROVE  \E m \in 0..k : /\ RunStart(S, At(buf, k)) = At(buf, m)
                         /\ \A n \in (m + 1)..k : buf[n] \in S
                         /\ m = 0 \/ buf[m] \notin S
<1> DEFINE p == At(buf, k)
           A == {b \in Boundaries(buf) :
                   b <= p /\ \A n \in (Before(buf, b) + 1)..Before(buf, p) : buf[n] \in S}
           e == RunStart(S, p)
           m == Before(buf, e)
<1>0. Len(buf) \in Nat /\ k \in Nat
  OBVIOUS
<1>1. p \in Boundaries(buf) /\ Before(buf, p) = k /\ p \in Nat
  BY BoundaryFacts, AtGrows
<1>2. A \in SUBSET Boundaries(buf) /\ p \in A
  BY <1>0, <1>1
<1>3. e \in A /\ \A b \in A : e <= b
  <2>1. Min(A) \in A /\ \A b \in A : Min(A) <= b
    <3> HIDE DEF A
    <3> QED BY <1>2, ExtremeBoundaries
  <2> QED BY <2>1 DEF RunStart
<1>4. e \in Boundaries(buf) /\ e <= p /\ \A n \in (m + 1)..k : buf[n] \in S
  BY <1>1, <1>3
<1> HIDE DEF p, e
<1>5. m \in 0..Len(buf) /\ e = At(buf, m) /\ m <= k
  BY <1>0, <1>1, <1>4, BoundaryFacts
<1> HIDE DEF m
<1>6. ASSUME m # 0, buf[m] \in S PROVE FALSE
  <2>1. m - 1 \in 0..Len(buf) /\ m - 1 < m /\ m \in 0..Len(buf)
    BY <1>0, <1>5, <1>6
  <2>2. At(buf, m - 1) < At(buf, m) /\ At(buf, m) \in Nat /\ At(buf, m - 1) \in Nat
    BY <2>1, AtGrows
  <2>3. At(buf, m - 1) \in Boundaries(buf) /\ Before(buf, At(buf, m - 1)) = m - 1
    BY <2>1, BoundaryFacts
  <2>4. \A n \in ((m - 1) + 1)..k : buf[n] \in S
    <3>1. \A n \in ((m - 1) + 1)..k : n \in (m + 1)..k \/ n = m
      BY <1>0, <1>5
    <3> QED BY <1>4, <1>6, <3>1
  <2>5. At(buf, m - 1) \in A
    BY <1>1, <1>4, <1>5, <2>2, <2>3, <2>4
  <2> HIDE DEF A
  <2> QED BY <1>3, <1>5, <2>2, <2>5
<1> QED BY <1>0, <1>4, <1>5, <1>6 DEF p, e

\* A number in a set that is smaller, or larger, than the others is its minimum, or maximum.
LEMMA ExtremeIs ==
  ASSUME NEW T \in SUBSET Nat, NEW r \in T
  PROVE  /\ (\A n \in T : r <= n) => Min(T) = r
         /\ (\A n \in T : n <= r) => Max(T) = r
<1>1. ASSUME \A n \in T : r <= n PROVE Min(T) = r
  <2>1. Min(T) \in T /\ Min(T) <= r
    BY <1>1 DEF Min
  <2>2. Min(T) \in Nat /\ r \in Nat /\ r <= Min(T)
    BY <1>1, <2>1
  <2> QED BY <2>1, <2>2
<1>2. ASSUME \A n \in T : n <= r PROVE Max(T) = r
  <2>1. Max(T) \in T /\ Max(T) >= r
    BY <1>2 DEF Max
  <2>2. Max(T) \in Nat /\ r \in Nat /\ Max(T) <= r
    BY <1>2, <2>1
  <2> QED BY <2>1, <2>2
<1> QED BY <1>1, <1>2

\* The boundaries at which a word ends, and starts, by the characters before them.
LEMMA WordPlaces ==
  ASSUME buf \in Seq(Char), NEW w \in 0..Len(buf)
  PROVE  /\ At(buf, w) \in WordEnds <=>
              w # 0 /\ buf[w] \notin Blank /\ (w = Len(buf) \/ buf[w + 1] \in Blank)
         /\ At(buf, w) \in WordStarts <=>
              w # Len(buf) /\ buf[w + 1] \notin Blank /\ (w = 0 \/ buf[w] \in Blank)
<1>0. Len(buf) \in Nat /\ 0 \in 0..Len(buf) /\ Len(buf) \in 0..Len(buf)
  OBVIOUS
<1>1. At(buf, w) \in Boundaries(buf) /\ Before(buf, At(buf, w)) = w /\ At(buf, w) \in Nat
  BY BoundaryFacts, AtGrows
<1>2. At(buf, w) > 0 <=> w # 0
  <2>1. /\ At(buf, 0) = 0
        /\ 0 < w => At(buf, 0) < At(buf, w)
    BY <1>0, AtGrows
  <2> QED BY <1>0, <1>1, <2>1
<1>3. /\ At(buf, w) < Bytes(buf) <=> w # Len(buf)
      /\ At(buf, w) = Bytes(buf) <=> w = Len(buf)
  <2>1. /\ At(buf, Len(buf)) = Bytes(buf) /\ At(buf, Len(buf)) \in Nat
        /\ w < Len(buf) => At(buf, w) < At(buf, Len(buf))
    BY <1>0, AtGrows
  <2>2. w < Len(buf) \/ w = Len(buf)
    BY <1>0
  <2> QED BY <1>0, <1>1, <2>1, <2>2
<1>4. At(buf, w) = 0 <=> w = 0
  BY <1>1, <1>2
<1> QED BY <1>1, <1>2, <1>3, <1>4 DEF WordEnds, WordStarts

\* Forward, over blanks and the word behind them, to the end of that word.
LEMMA RightMeetsWord ==
  ASSUME buf \in Seq(Char), NEW p \in Boundaries(buf)
  PROVE  WordRight(p) = Min({q \in WordEnds : q > p} \cup {Bytes(buf)})
<1> DEFINE T == {q \in WordEnds : q > p} \cup {Bytes(buf)}
<1>0. Len(buf) \in Nat
  OBVIOUS
<1>1. PICK k \in 0..Len(buf) : p = At(buf, k)
  BY BoundaryFacts
<1>2. PICK b \in k..Len(buf) : /\ RunEnd(Blank, p) = At(buf, b)
                               /\ \A n \in (k + 1)..b : buf[n] \in Blank
                               /\ b = Len(buf) \/ buf[b + 1] \notin Blank
  BY <1>1, RunEndFacts
<1>b. b \in 0..Len(buf)
  BY <1>0, <1>2
<1>3. PICK c \in b..Len(buf) : /\ RunEnd(Char \ Blank, At(buf, b)) = At(buf, c)
                               /\ \A n \in (b + 1)..c : buf[n] \in Char \ Blank
                               /\ c = Len(buf) \/ buf[c + 1] \notin Char \ Blank
  BY <1>b, RunEndFacts
<1>4. /\ WordRight(p) = At(buf, c)
      /\ c \in 0..Len(buf) /\ k \in Nat /\ b \in Nat /\ c \in Nat /\ k <= b /\ b <= c
  BY <1>0, <1>1, <1>2, <1>3 DEF WordRight
<1>5. /\ \A n \in (b + 1)..c : buf[n] \notin Blank
      /\ c = Len(buf) \/ buf[c + 1] \in Blank
  <2>1. c # Len(buf) => buf[c + 1] \in Char
    <3>1. c # Len(buf) => c + 1 \in 1..Len(buf)
      BY <1>0, <1>4
    <3> QED BY <3>1
  <2> QED BY <1>3, <2>1
<1>6. T \in SUBSET Nat
  <2>1. Bytes(buf) \in Nat /\ \A q \in Boundaries(buf) : q \in 0..Bytes(buf)
    BY BytesOfBoth, BoundaryFacts
  <2>2. \A q \in WordEnds : q \in Boundaries(buf)
    BY DEF WordEnds
  <2> QED BY <2>1, <2>2
<1>7. At(buf, c) \in T
  <2>1. CASE b = Len(buf)
    <3>1. c = Len(buf)
      BY <1>0, <1>4, <2>1
    <3> QED BY <3>1, AtGrows
  <2>2. CASE b # Len(buf)
    <3>1. b + 1 \in 1..Len(buf) /\ c # b
      BY <1>0, <1>2, <1>3, <1>4, <2>2
    <3>2. c # 0 /\ k < c /\ c \in (b + 1)..c
      BY <1>4, <3>1
    <3>3. At(buf, c) \in WordEnds
      BY <1>4, <1>5, <3>2, WordPlaces
    <3>4. At(buf, c) > At(buf, k)
      <4>1. At(buf, k) < At(buf, c) /\ At(buf, k) \in Nat /\ At(buf, c) \in Nat
        BY <1>4, <3>2, AtGrows
      <4> QED BY <4>1
    <3> QED BY <1>1, <3>3, <3>4
  <2> QED BY <2>1, <2>2
<1>8. ASSUME NEW q \in T PROVE At(buf, c) <= q
  <2>1. q \in Boundaries(buf)
    BY BoundaryFacts DEF WordEnds
  <2>2. PICK w \in 0..Len(buf) : q = At(buf, w)
    BY <2>1, BoundaryFacts
  <2>3. w = Len(buf) \/ (At(buf, w) \in WordEnds /\ k < w)
    <3>1. CASE q = Bytes(buf)
      <4>1. Before(buf, At(buf, w)) = w /\ Before(buf, At(buf, Len(buf))) = Len(buf)
            /\ At(buf, Len(buf)) = Bytes(buf)
        BY SMTT(60), <1>0, BoundaryFacts, AtGrows
      <4> QED BY <2>2, <3>1, <4>1
    <3>2. CASE q \in WordEnds /\ q > p
      <4>1. /\ w < k => At(buf, w) < At(buf, k)
            /\ At(buf, w) \in Nat /\ At(buf, k) \in Nat
        BY AtGrows
      <4> QED BY <1>0, <1>1, <2>2, <3>2, <4>1
    <3> QED BY <3>1, <3>2
  <2>4. c <= w
    <3>1. CASE w = Len(buf)
      BY <1>0, <1>4, <3>1
    <3>2. CASE w # Len(buf)
      <4>1. w # 0 /\ buf[w] \notin Blank /\ buf[w + 1] \in Blank /\ k < w
        BY <2>3, <3>2, WordPlaces
      <4>2. ~(w <= b)
        BY <1>0, <1>2, <1>4, <4>1
      <4>3. ~(w < c)
        <5>1. w \in Nat /\ (w < c => w + 1 \in (b + 1)..c)
          BY <1>0, <1>4, <4>2
        <5> QED BY <1>5, <4>1, <5>1
      <4> QED BY <1>0, <1>4, <4>3
    <3> QED BY <3>1, <3>2
  <2>5. /\ c < w => At(buf, c) < At(buf, w)
        /\ At(buf, c) \in Nat /\ At(buf, w) \in Nat
    BY <1>4, AtGrows
  <2> QED BY <1>0, <1>4, <2>2, <2>4, <2>5
<1> HIDE DEF T
<1>9. Min(T) = At(buf, c)
  BY <1>6, <1>7, <1>8, ExtremeIs
<1> QED BY <1>4, <1>9 DEF T

\* Back, over blanks and the word before them, to the start of that word.
LEMMA LeftMeetsWord ==
  ASSUME buf \in Seq(Char), NEW p \in Boundaries(buf)
  PROVE  WordLeft(p) = Max({q \in WordStarts : q < p} \cup {0})
<1> DEFINE T == {q \in WordStarts : q < p} \cup {0}
<1>0. Len(buf) \in Nat
  OBVIOUS
<1>1. PICK k \in 0..Len(buf) : p = At(buf, k)
  BY BoundaryFacts
<1>2. PICK b \in 0..k : /\ RunStart(Blank, p) = At(buf, b)
                        /\ \A n \in (b + 1)..k : buf[n] \in Blank
                        /\ b = 0 \/ buf[b] \notin Blank
  BY <1>1, RunStartFacts
<1>b. b \in 0..Len(buf)
  BY <1>0, <1>2
<1>3. PICK c \in 0..b : /\ RunStart(Char \ Blank, At(buf, b)) = At(buf, c)
                        /\ \A n \in (c + 1)..b : buf[n] \in Char \ Blank
                        /\ c = 0 \/ buf[c] \notin Char \ Blank
  BY <1>b, RunStartFacts
<1>4. /\ WordLeft(p) = At(buf, c)
      /\ c \in 0..Len(buf) /\ k \in Nat /\ b \in Nat /\ c \in Nat /\ c <= b /\ b <= k
  BY <1>0, <1>1, <1>2, <1>3 DEF WordLeft
<1>5. /\ \A n \in (c + 1)..b : buf[n] \notin Blank
      /\ c = 0 \/ buf[c] \in Blank
  <2>1. c # 0 => buf[c] \in Char
    <3>1. c # 0 => c \in 1..Len(buf)
      BY <1>0, <1>4
    <3> QED BY <3>1
  <2> QED BY <1>3, <2>1
<1>6. T \in SUBSET Nat
  <2>1. Bytes(buf) \in Nat /\ \A q \in Boundaries(buf) : q \in 0..Bytes(buf)
    BY BytesOfBoth, BoundaryFacts
  <2>2. \A q \in WordStarts : q \in Boundaries(buf)
    BY DEF WordStarts
  <2> QED BY <2>1, <2>2
<1>7. At(buf, c) \in T
  <2>1. CASE b = 0
    <3>1. c = 0
      BY <1>0, <1>4, <2>1
    <3> QED BY <3>1, AtGrows
  <2>2. CASE b # 0
    <3>1. b \in 1..Len(buf) /\ c # b
      BY <1>0, <1>2, <1>3, <1>4, <1>b, <2>2
    <3>2. c # Len(buf) /\ c < k /\ c + 1 \in (c + 1)..b
      BY <1>0, <1>1, <1>4, <3>1
    <3>3. At(buf, c) \in WordStarts
      BY <1>4, <1>5, <3>2, WordPlaces
    <3>4. At(buf, c) < At(buf, k)
      BY <1>4, <3>2, AtGrows
    <3> QED BY <1>1, <3>3, <3>4
  <2> QED BY <2>1, <2>2
<1>8. ASSUME NEW q \in T PROVE q <= At(buf, c)
  <2>1. q \in Boundaries(buf)
    BY BoundaryFacts DEF WordStarts
  <2>2. PICK w \in 0..Len(buf) : q = At(buf, w)
    BY <2>1, BoundaryFacts
  <2>3. w = 0 \/ (At(buf, w) \in WordStarts /\ w < k)
    <3>1. CASE q = 0
      <4>1. 0 \in 0..Len(buf)
        BY <1>0
      <4>2. Before(buf, At(buf, w)) = w /\ Before(buf, At(buf, 0)) = 0 /\ At(buf, 0) = 0
        BY <4>1, BoundaryFacts, AtGrows
      <4> QED BY <2>2, <3>1, <4>2
    <3>2. CASE q \in WordStarts /\ q < p
      <4>1. /\ k < w => At(buf, k) < At(buf, w)
            /\ At(buf, w) \in Nat /\ At(buf, k) \in Nat
        BY AtGrows
      <4> QED BY <1>0, <1>1, <2>2, <3>2, <4>1
    <3> QED BY <3>1, <3>2
  <2>4. w <= c
    <3>1. CASE w = 0
      BY <1>0, <1>4, <3>1
    <3>2. CASE w # 0
      <4>1. w # Len(buf) /\ buf[w + 1] \notin Blank /\ buf[w] \in Blank /\ w < k
        BY <2>3, <3>2, WordPlaces
      <4>2. ~(b <= w)
        <5>1. w \in Nat /\ (b <= w => w + 1 \in (b + 1)..k)
          BY <1>0, <1>1, <1>4, <4>1
        <5> QED BY <1>2, <4>1, <5>1
      <4>3. ~(c < w)
        <5>1. w \in Nat /\ (c < w => w \in (c + 1)..b)
          BY <1>0, <1>4, <4>2
        <5> QED BY <1>5, <4>1, <5>1
      <4> QED BY <1>0, <1>4, <4>3
    <3> QED BY <3>1, <3>2
  <2>5. /\ w < c => At(buf, w) < At(buf, c)
        /\ At(buf, c) \in Nat /\ At(buf, w) \in Nat
    BY <1>4, AtGrows
  <2> QED BY <1>0, <1>4, <2>2, <2>4, <2>5
<1> HIDE DEF T
<1>9. Max(T) = At(buf, c)
  BY <1>6, <1>7, <1>8, ExtremeIs
<1> QED BY <1>4, <1>9 DEF T

\* Word movement lands right after a word, or at its start, with no other in between.
THEOREM WordsAreMet == LineSpec => []WordsMet
<1>1. LineInv => WordsMet
  BY RightMeetsWord, LeftMeetsWord DEF LineInv, LineTyped, CursorOnBoundary, WordsMet
<1> QED BY LineStarts, LineKept, <1>1, PTL DEF LineSpec, allVars

-----------------------------------------------------------------------------
(* The row of the grid                                                        *)

\* What the grid holds is what ratatui drew last, except behind a wide character.
RowInv ==
  /\ cols \in Cols /\ DOMAIN prev = 1..Inner /\ DOMAIN row = 1..Inner
  /\ \A x \in 1..Inner : Hides(prev, x) \/ row[x] = prev[x]

\* A redraw hands over every cell that a wide character does not hide: the frame and the
\* grid agree on them (Buffer::diff).
LEMMA RedrawnIsFrame ==
  ASSUME RowInv, NEW on
  PROVE  /\ DOMAIN Frame(on) = 1..Inner /\ DOMAIN Redrawn(on) = 1..Inner
         /\ \A x \in 1..Inner : Hides(Frame(on), x) \/ Redrawn(on)[x] = Frame(on)[x]
<1>1. DOMAIN Frame(on) = 1..Inner
  BY DEF Frame
<1> DEFINE is == Frame(on)
<1> HIDE DEF is
<1>2. DOMAIN Written(row, is, Diff(prev, is)) = 1..Inner
  BY DEF Written, RowInv
<1>3. ASSUME NEW x \in 1..Inner, ~Hides(is, x)
      PROVE  Written(row, is, Diff(prev, is))[x] = is[x]
  <2>1. Written(row, is, Diff(prev, is))[x] = IF x \in Diff(prev, is) THEN is[x] ELSE row[x]
    BY DEF Written, RowInv
  <2>2. CASE x \in Diff(prev, is)
    BY <2>1, <2>2
  <2>3. CASE x \notin Diff(prev, is)
    <3>1. is[x] = prev[x] /\ ~Hides(prev, x)
      BY <1>1, <1>3, <2>3 DEF Diff, is
    <3> QED BY <2>1, <2>3, <3>1 DEF RowInv
  <2> QED BY <2>2, <2>3
<1> QED BY <1>1, <1>2, <1>3 DEF Redrawn, is

\* At first, the row is empty on both sides.
LEMMA RowStarts == LineInit => RowInv
BY DEF LineInit, RowInv

\* A redraw makes it the frame, a rebuild empties both sides; no other step touches it.
LEMMA RowKept == RowInv /\ [LineNext]_allVars => RowInv'
<1> SUFFICES ASSUME RowInv, [LineNext]_allVars PROVE RowInv'
  OBVIOUS
<1>1. CASE UNCHANGED lineVars
  BY <1>1 DEF lineVars, RowInv, Inner, InnerWidth, RightWidth, Hides, WidthOf
<1>2. ASSUME NEW on \in BOOLEAN, Redraw(on) PROVE RowInv'
  <2>1. prev' = Frame(on) /\ row' = Redrawn(on) /\ cols' = cols
    BY <1>2 DEF Redraw
  <2>2. Inner' = Inner
    BY <2>1 DEF Inner, InnerWidth, RightWidth
  <2>3. \A x \in 1..Inner : Hides(prev', x) \/ row'[x] = prev'[x]
    BY <2>1, RedrawnIsFrame
  <2>4. \A x : Hides(prev, x)' = Hides(prev', x)
    BY DEF Hides, WidthOf
  <2> QED BY <2>1, <2>2, <2>3, <2>4, RedrawnIsFrame DEF RowInv
<1>3. CASE Rebuild
  <2>1. cols' \in Cols /\ row' = [x \in 1..InnerWidth(cols') |-> Empty] /\ prev' = row'
    BY <1>3 DEF Rebuild
  <2>2. Inner' = InnerWidth(cols')
    BY DEF Inner, InnerWidth, RightWidth
  <2> QED BY <2>1, <2>2 DEF RowInv
<1>4. CASE KeyPressed /\ UNCHANGED lineVars
  BY <1>1, <1>4
<1>5. CASE FrontSteps /\ UNCHANGED <<vars, lineVars>>
  BY <1>1, <1>5
<1>6. CASE RedrawPanics
  BY <1>1, <1>6 DEF RedrawPanics
<1>7. CASE UNCHANGED allVars
  BY <1>1, <1>7 DEF allVars
<1> QED BY <1>2, <1>3, <1>4, <1>5, <1>6, <1>7 DEF LineNext

\* The cells that get a white ground are the reversed ones.
LEMMA WhiteIsReversed ==
  ASSUME NEW line, NEW N \in Nat, DOMAIN line = 1..N, Len(line) = N
  PROVE  White(line) = {x \in 1..N : line[x].reversed}
<1> DEFINE S == {x \in 1..N : line[x].reversed}
<1>1. White(line) = UNION {run[1]..(run[2] - 1) : run \in Runs(line, S)}
  BY DEF White
<1>2. S \in SUBSET (1..N) /\ IsFiniteSet(1..N)
  BY FS_Interval
<1> HIDE DEF S
<1>3. ASSUME NEW x \in White(line) PROVE x \in S
  <2>1. PICK run \in Runs(line, S) : x \in run[1]..(run[2] - 1)
    BY <1>1, <1>3
  <2> QED BY <2>1 DEF Runs
<1>4. ASSUME NEW x \in S PROVE x \in White(line)
  <2> DEFINE A == {a \in 1..x : a..x \subseteq S}
             B == {b \in (x + 1)..(N + 1) : b \notin S}
  <2>0. x \in 1..N /\ x \in Nat
    BY <1>2
  <2>1. A \in SUBSET Nat /\ IsFiniteSet(A) /\ x \in A
    <3>1. A \in SUBSET (1..x) /\ IsFiniteSet(1..x) /\ 1..x \in SUBSET Nat
      BY <2>0, FS_Interval
    <3>2. x \in A
      BY <1>4, <2>0
    <3> HIDE DEF A
    <3> QED BY <3>1, <3>2, FS_Subset
  <2>2. B \in SUBSET Nat /\ IsFiniteSet(B) /\ N + 1 \in B
    <3>1. B \in SUBSET ((x + 1)..(N + 1)) /\ IsFiniteSet((x + 1)..(N + 1))
          /\ (x + 1)..(N + 1) \in SUBSET Nat
      BY <2>0, FS_Interval
    <3>2. N + 1 \in B
      BY <1>2, <2>0
    <3> HIDE DEF B
    <3> QED BY <3>1, <3>2, FS_Subset
  <2>3. PICK a \in A : \A n \in A : a <= n
    <3> HIDE DEF A
    <3> QED BY <2>1, Extremes
  <2>4. PICK b \in B : \A n \in B : b <= n
    <3> HIDE DEF B
    <3> QED BY <2>2, Extremes
  <2>5. /\ a \in 1..x /\ a \in Nat /\ a..x \subseteq S /\ a \in S
        /\ b \in (x + 1)..(N + 1) /\ b \in Nat /\ b \notin S
    BY <2>0, <2>3, <2>4
  <2>6. a - 1 \notin S
    <3> SUFFICES ASSUME a - 1 \in S PROVE FALSE
      OBVIOUS
    <3>1. a - 1 \in 1..x
      BY <1>2, <2>0, <2>5
    <3>2. \A n \in (a - 1)..x : n = a - 1 \/ n \in a..x
      BY <2>0, <2>5
    <3>3. a - 1 \in A
      BY <2>5, <3>1, <3>2
    <3> QED BY <2>3, <2>5, <3>3
  <2>7. a..(b - 1) \subseteq S
    <3> SUFFICES ASSUME NEW n \in a..(b - 1), n \notin S PROVE FALSE
      OBVIOUS
    <3>1. n \in Nat /\ n > x
      BY <2>0, <2>5
    <3>2. n \in B /\ n < b
      BY <2>0, <2>5, <3>1
    <3> QED BY <2>4, <2>5, <3>1, <3>2
  <2>8. <<a, b>> \in S \X (2..Len(line) + 1) /\ a < b /\ x \in a..(b - 1)
    BY <2>0, <2>5
  <2>9. <<a, b>> \in Runs(line, S)
    BY <2>5, <2>6, <2>7, <2>8 DEF Runs
  <2> QED BY <1>1, <2>8, <2>9
<1>5. White(line) = S
  BY <1>3, <1>4
<1> QED BY <1>5 DEF S

\* Each character takes a column, or two.
LEMMA ColumnsGrow ==
  ASSUME buf \in Seq(Char)
  PROVE  /\ Columns(0) = 0
         /\ \A k \in 0..Len(buf) : Columns(k) \in Nat
         /\ \A j, k \in 0..Len(buf) : j < k => Columns(j) < Columns(k)
         /\ \A k \in 1..Len(buf) : Columns(k) = Columns(k - 1) + (IF buf[k] \in Double THEN 2 ELSE 1)
<1> DEFINE C(k) == Count(SubSeq(buf, 1, k), Double)
<1>1. Len(buf) \in Nat /\ \A i \in 1..Len(buf) : buf[i] \in Char
  OBVIOUS
<1>2. C(0) = 0
  <2>1. SubSeq(buf, 1, 0) = <<>>
    BY SubSeqEmpty
  <2> QED BY <2>1, CountOfOne
<1>3. ASSUME NEW k \in 0..Len(buf) PROVE SubSeq(buf, 1, k) \in Seq(Char) /\ C(k) \in Nat
  <2>1. SubSeq(buf, 1, k) \in Seq(Char)
    BY CutFacts DEF First
  <2> QED BY <2>1, CountOfBoth
<1>4. ASSUME NEW j \in 0..Len(buf), NEW k \in 0..Len(buf), j < k PROVE C(j) <= C(k)
  <2>1. \A i \in (j + 1)..k : buf[i] \in Char
    BY <1>1
  <2>2. SubSeq(buf, j + 1, k) \in Seq(Char)
    BY <1>1, <2>1, SubSeqProperties
  <2>3. SubSeq(buf, 1, j) \o SubSeq(buf, j + 1, k) = SubSeq(buf, 1, k)
    BY <1>1, <1>4, ConcatAdjacentSubSeq
  <2>4. /\ Count(SubSeq(buf, 1, j) \o SubSeq(buf, j + 1, k), Double)
             = Count(SubSeq(buf, 1, j), Double) + Count(SubSeq(buf, j + 1, k), Double)
        /\ Count(SubSeq(buf, j + 1, k), Double) \in Nat
    <3>1. SubSeq(buf, 1, j) \in Seq(Char)
      BY <1>3
    <3> QED BY ZenonT(60), <2>2, <3>1, CountOfBoth
  <2>6. C(k) = C(j) + Count(SubSeq(buf, j + 1, k), Double)
    BY <2>3, <2>4
  <2>5. C(j) \in Nat /\ C(k) \in Nat
    BY <1>3
  <2> HIDE DEF C
  <2> QED BY <2>4, <2>5, <2>6
<1>5. ASSUME NEW k \in 1..Len(buf) PROVE C(k) = C(k - 1) + (IF buf[k] \in Double THEN 1 ELSE 0)
  <2>1. SubSeq(buf, 1, k) = SubSeq(buf, 1, k - 1) \o <<buf[k]>>
    <3>1. 1 \in 1..Len(buf) /\ k \in 1..Len(buf)
      BY <1>1
    <3> QED BY <3>1, SubSeqRecursiveSecond
  <2>2. k - 1 \in 0..Len(buf) /\ buf[k] \in Char
    BY <1>1
  <2>3. SubSeq(buf, 1, k - 1) \in Seq(Char) /\ <<buf[k]>> \in Seq(Char)
    BY <1>3, <2>2
  <2>4. Count(SubSeq(buf, 1, k - 1) \o <<buf[k]>>, Double)
          = Count(SubSeq(buf, 1, k - 1), Double) + Count(<<buf[k]>>, Double)
    BY <2>3, CountOfBoth
  <2>5. Count(<<buf[k]>>, Double) = IF buf[k] \in Double THEN 1 ELSE 0
    BY <2>2, CountOfOne
  <2> QED BY <2>1, <2>4, <2>5
<1>6. \A k : Columns(k) = k + C(k)
  BY DEF Columns
<1> HIDE DEF C
<1>7. \A k \in 0..Len(buf) : Columns(k) \in Nat
  BY <1>1, <1>3, <1>6
<1>8. ASSUME NEW j \in 0..Len(buf), NEW k \in 0..Len(buf), j < k PROVE Columns(j) < Columns(k)
  <2>1. C(j) <= C(k) /\ C(j) \in Nat /\ C(k) \in Nat
    BY <1>3, <1>4, <1>8
  <2> QED BY <1>1, <1>6, <1>8, <2>1
<1>9. ASSUME NEW k \in 1..Len(buf)
      PROVE  Columns(k) = Columns(k - 1) + (IF buf[k] \in Double THEN 2 ELSE 1)
  <2>1. k - 1 \in 0..Len(buf)
    BY <1>1
  <2>2. C(k - 1) \in Nat
    BY <1>3, <2>1
  <2> QED BY <1>1, <1>5, <1>6, <2>2
<1> QED BY <1>1, <1>2, <1>6, <1>7, <1>8, <1>9

\* The block at the end of the line, and the glyphs in front of it.
Block(on) == anchor = None /\ on /\ cursor = Bytes(buf)

\* The glyphs are the prompt, two columns of it, then the line's characters, then the block
\* if it shows.
LEMMA GlyphFacts ==
  ASSUME buf \in Seq(Char), NEW on
  PROVE  LET g == Glyphs(on)
         IN  /\ DOMAIN g = 1..(IF Block(on) THEN Len(buf) + 3 ELSE Len(buf) + 2)
             /\ g[2] = Empty
             /\ \A k \in 1..Len(buf) : g[k + 2] = [symbol |-> buf[k], reversed |-> Highlit(k, on)]
             /\ Block(on) => g[Len(buf) + 3] = [symbol |-> Space, reversed |-> TRUE]
<1> DEFINE a == <<[symbol |-> ">", reversed |-> FALSE], Empty>>
           t == [k \in 1..Len(buf) |-> [symbol |-> buf[k], reversed |-> Highlit(k, on)]]
           z == [symbol |-> Space, reversed |-> TRUE]
           e == IF Block(on) THEN <<z>> ELSE <<>>
           S == {[symbol |-> ">", reversed |-> FALSE], Empty, z} \cup {t[k] : k \in 1..Len(buf)}
<1>0. Glyphs(on) = (a \o t) \o e
  BY DEF Glyphs, Block
<1>1. Len(buf) \in Nat
  OBVIOUS
<1>2. a \in Seq(S) /\ Len(a) = 2 /\ a[2] = Empty
  OBVIOUS
<1>3. t \in Seq(S) /\ Len(t) = Len(buf)
  <2>1. t \in [1..Len(buf) -> S]
    OBVIOUS
  <2> HIDE DEF t, S
  <2> QED BY <1>1, <2>1
<1>4. /\ e \in Seq(S)
      /\ Block(on) => Len(e) = 1 /\ e[1] = z
      /\ ~Block(on) => Len(e) = 0
  <2>0. z \in S
    OBVIOUS
  <2> HIDE DEF z, S
  <2>1. CASE Block(on)
    <3>1. e = <<z>>
      BY <2>1
    <3> HIDE DEF e
    <3> QED BY <2>0, <2>1, <3>1
  <2>2. CASE ~Block(on)
    <3>1. e = <<>>
      BY <2>2
    <3> HIDE DEF e
    <3> QED BY <2>2, <3>1
  <2> QED BY <2>1, <2>2
<1>5. \A k \in 1..Len(buf) : t[k] = [symbol |-> buf[k], reversed |-> Highlit(k, on)]
  OBVIOUS
<1> HIDE DEF a, t, e, S, z
<1> DEFINE b == a \o t
<1>6. /\ b \in Seq(S) /\ Len(b) = 2 + Len(buf)
      /\ \A i \in 1..(2 + Len(buf)) : b[i] = IF i <= 2 THEN a[i] ELSE t[i - 2]
  <2>1. /\ b \in Seq(S) /\ Len(b) = Len(a) + Len(t)
        /\ \A i \in 1..(Len(a) + Len(t)) : b[i] = IF i <= Len(a) THEN a[i] ELSE t[i - Len(a)]
    <3>1. a \in Seq(S)
      BY <1>2
    <3>2. t \in Seq(S)
      BY <1>3
    <3> QED BY <3>1, <3>2, ConcatProperties
  <2> HIDE DEF b
  <2> QED BY <1>1, <1>2, <1>3, <2>1
<1> HIDE DEF b
<1> DEFINE g == b \o e
<1>7. /\ g \in Seq(S) /\ Len(g) = Len(b) + Len(e)
      /\ \A i \in 1..(Len(b) + Len(e)) : g[i] = IF i <= Len(b) THEN b[i] ELSE e[i - Len(b)]
  BY <1>4, <1>6, ConcatProperties
<1>8. g = Glyphs(on)
  BY <1>0 DEF b
<1> HIDE DEF g
<1>9. Len(e) \in Nat /\ DOMAIN g = 1..(2 + Len(buf) + Len(e))
  BY <1>4, <1>6, <1>7
<1>10. DOMAIN g = 1..(IF Block(on) THEN Len(buf) + 3 ELSE Len(buf) + 2)
  <2>1. ASSUME Block(on) PROVE 2 + Len(buf) + Len(e) = Len(buf) + 3
    <3>1. Len(e) = 1
      BY <1>4, <2>1
    <3> QED BY <1>1, <3>1
  <2>2. ASSUME ~Block(on) PROVE 2 + Len(buf) + Len(e) = Len(buf) + 2
    <3>1. Len(e) = 0
      BY <1>4, <2>2
    <3> QED BY <1>1, <3>1
  <2> QED BY <1>9, <2>1, <2>2
<1>11. g[2] = Empty
  <2>1. 2 \in 1..(Len(b) + Len(e)) /\ 2 <= Len(b) /\ 2 \in 1..(2 + Len(buf))
    BY <1>1, <1>6, <1>9
  <2> QED BY <1>2, <1>6, <1>7, <2>1
<1>12. ASSUME NEW k \in 1..Len(buf) PROVE g[k + 2] = t[k]
  <2>1. /\ k + 2 \in 1..(Len(b) + Len(e)) /\ k + 2 <= Len(b) /\ k + 2 \in 1..(2 + Len(buf))
        /\ ~(k + 2 <= 2) /\ (k + 2) - 2 = k
    BY <1>1, <1>6, <1>9
  <2> QED BY <1>6, <1>7, <2>1
<1>13. ASSUME Block(on) PROVE g[Len(buf) + 3] = z
  <2>1. /\ Len(buf) + 3 \in 1..(Len(b) + Len(e)) /\ ~(Len(buf) + 3 <= Len(b))
        /\ (Len(buf) + 3) - Len(b) = 1
    <3>1. Len(e) = 1
      BY <1>4, <1>13
    <3>2. Len(b) = 2 + Len(buf)
      BY <1>6
    <3> QED BY <1>1, <3>1, <3>2
  <2> QED BY <1>4, <1>7, <1>13, <2>1
<1> QED BY <1>5, <1>8, <1>10, <1>11, <1>12, <1>13 DEF z

\* The column at which a glyph starts, the block at the end of the line being the last.
Place(n) == IF n <= 2 THEN n ELSE 3 + Columns(n - 3)

\* Glyphs start one behind the other, each where the one before ends.
LEMMA PlacesApart ==
  ASSUME buf \in Seq(Char)
  PROVE  /\ \A n \in 1..(Len(buf) + 3) : Place(n) \in Nat
         /\ \A m, n \in 1..(Len(buf) + 3) : m < n => Place(m) < Place(n)
         /\ Place(1) = 1 /\ Place(2) = 2 /\ Place(3) = 3
         /\ \A k \in 1..Len(buf) : /\ Place(k + 2) = 3 + Columns(k - 1)
                                   /\ Place(k + 3) = Place(k + 2) + (IF buf[k] \in Double THEN 2 ELSE 1)
<1> DEFINE C(k) == Columns(k)
<1>1. /\ C(0) = 0
      /\ \A k \in 0..Len(buf) : C(k) \in Nat
      /\ \A j, k \in 0..Len(buf) : j < k => C(j) < C(k)
      /\ \A k \in 1..Len(buf) : C(k) = C(k - 1) + (IF buf[k] \in Double THEN 2 ELSE 1)
  BY ColumnsGrow
<1>2. \A n : Place(n) = IF n <= 2 THEN n ELSE 3 + C(n - 3)
  BY DEF Place
<1> HIDE DEF C
<1>3. Len(buf) \in Nat
  OBVIOUS
<1>4. Place(1) = 1 /\ Place(2) = 2 /\ Place(3) = 3
  BY <1>1, <1>2
<1>5. ASSUME NEW n \in 3..(Len(buf) + 3)
      PROVE  n - 3 \in 0..Len(buf) /\ Place(n) = 3 + C(n - 3) /\ C(n - 3) \in Nat
  <2>1. n - 3 \in 0..Len(buf) /\ ~(n <= 2)
    BY <1>3
  <2> QED BY <1>1, <1>2, <2>1
<1>6. ASSUME NEW n \in 1..(Len(buf) + 3) PROVE Place(n) \in Nat
  <2>1. n \in 1..2 \/ n \in 3..(Len(buf) + 3)
    BY <1>3
  <2>2. CASE n \in 1..2
    BY <1>2, <2>2
  <2>3. CASE n \in 3..(Len(buf) + 3)
    BY <1>5, <2>3
  <2> QED BY <2>1, <2>2, <2>3
<1>7. ASSUME NEW m \in 1..(Len(buf) + 3), NEW n \in 1..(Len(buf) + 3), m < n
      PROVE  Place(m) < Place(n)
  <2>1. CASE m \in 3..(Len(buf) + 3) /\ n \in 3..(Len(buf) + 3)
    <3>1. C(m - 3) < C(n - 3)
      <4>1. m - 3 < n - 3
        BY <1>3, <1>7
      <4> QED BY <1>1, <1>5, <2>1, <4>1
    <3> QED BY <1>5, <2>1, <3>1
  <2>2. CASE m \in 1..2 /\ n \in 3..(Len(buf) + 3)
    <3>1. Place(m) = m
      BY <1>2, <2>2
    <3> QED BY <1>5, <2>2, <3>1
  <2>3. CASE m \in 1..2 /\ n \in 1..2
    BY <1>2, <1>7, <2>3
  <2>4. \/ m \in 3..(Len(buf) + 3) /\ n \in 3..(Len(buf) + 3)
        \/ m \in 1..2 /\ n \in 3..(Len(buf) + 3)
        \/ m \in 1..2 /\ n \in 1..2
    BY <1>3, <1>7
  <2> QED BY <2>1, <2>2, <2>3, <2>4
<1>8. ASSUME NEW k \in 1..Len(buf)
      PROVE  /\ Place(k + 2) = 3 + C(k - 1)
             /\ Place(k + 3) = Place(k + 2) + (IF buf[k] \in Double THEN 2 ELSE 1)
  <2>1. /\ k + 2 \in 3..(Len(buf) + 3) /\ k + 3 \in 3..(Len(buf) + 3)
        /\ (k + 2) - 3 = k - 1 /\ (k + 3) - 3 = k
    BY <1>3
  <2>2. Place(k + 2) = 3 + C(k - 1) /\ Place(k + 3) = 3 + C(k) /\ C(k - 1) \in Nat
    BY <1>5, <2>1
  <2>3. C(k) = C(k - 1) + (IF buf[k] \in Double THEN 2 ELSE 1)
    BY <1>1
  <2> QED BY <2>2, <2>3
<1> QED BY <1>4, <1>6, <1>7, <1>8 DEF C

\* No blank is wide, and the line has two columns at least.
LEMMA NarrowBlank ==
  ASSUME cols \in Cols
  PROVE  /\ Space \in Blank /\ Space \notin Double /\ WidthOf(Empty) = 1
         /\ Inner \in Nat /\ Inner >= 2
<1>1. Space \in Blank
  BY InputLineAssumption DEF Space
<1>2. Space \notin Double
  BY <1>1, EditorAssumption
<1>3. WidthOf(Empty) = 1
  <2>1. Empty.symbol = Space
    BY DEF Empty
  <2> QED BY <1>2, <2>1 DEF WidthOf
<1>4. cols \in Nat /\ cols >= 32
  BY InputLineAssumption DEF Sidebar
<1> QED BY <1>1, <1>2, <1>3, <1>4 DEF Inner, InnerWidth, RightWidth, Sidebar

\* A cell of a frame is empty or holds the glyph that starts there; one that fits is there.
LEMMA FrameFacts ==
  ASSUME buf \in Seq(Char), cols \in Cols, NEW on
  PROVE  LET g == Glyphs(on)
             F == Frame(on)
         IN  /\ \A x \in 1..Inner : \/ F[x] = Empty
                                    \/ \E n \in DOMAIN g : Place(n) = x /\ F[x] = g[n]
             /\ \A n \in DOMAIN g :
                  Place(n) + WidthOf(g[n]) <= Inner + 1 => F[Place(n)] = g[n]
<1> DEFINE g == Glyphs(on)
           F == Frame(on)
           Shown(x) == {n \in DOMAIN g : Place(n) = x /\ x + WidthOf(g[n]) <= Inner + 1}
<1>1. /\ DOMAIN g \in SUBSET (1..(Len(buf) + 3)) /\ Len(buf) \in Nat
      /\ \A n \in DOMAIN g : n \in 1..(Len(buf) + 3)
  <2>1. DOMAIN g = 1..(IF Block(on) THEN Len(buf) + 3 ELSE Len(buf) + 2)
    BY GlyphFacts
  <2>2. Len(buf) \in Nat
    OBVIOUS
  <2> HIDE DEF g
  <2>3. CASE Block(on)
    BY <2>1, <2>2, <2>3
  <2>4. CASE ~Block(on)
    BY <2>1, <2>2, <2>4
  <2> QED BY <2>3, <2>4
<1>2. \A x \in 1..Inner : F[x] = IF Shown(x) = {} THEN Empty ELSE g[Max(Shown(x))]
  BY DEF Frame, Place
<1> HIDE DEF g, F
<1>3. ASSUME NEW x, Shown(x) # {} PROVE Max(Shown(x)) \in Shown(x)
  <2>1. Shown(x) \in SUBSET (1..(Len(buf) + 3)) /\ IsFiniteSet(1..(Len(buf) + 3))
        /\ 1..(Len(buf) + 3) \in SUBSET Nat
    BY SMTT(60), <1>1, FS_Interval
  <2>2. PICK S : S = Shown(x)
    OBVIOUS
  <2> HIDE DEF Shown
  <2>3. S \in SUBSET Nat /\ IsFiniteSet(S) /\ S # {}
    BY <1>3, <2>1, <2>2, FS_Subset
  <2>4. Max(S) \in S
    BY <2>3, Extremes
  <2> QED BY <2>2, <2>4
<1>4. ASSUME NEW x \in 1..Inner
      PROVE  F[x] = Empty \/ \E n \in DOMAIN g : Place(n) = x /\ F[x] = g[n]
  <2>1. CASE Shown(x) = {}
    BY <1>2, <2>1
  <2>2. CASE Shown(x) # {}
    <3>1. Max(Shown(x)) \in Shown(x)
      BY <1>3, <2>2
    <3>2. Max(Shown(x)) \in DOMAIN g /\ Place(Max(Shown(x))) = x
      BY <3>1
    <3>3. F[x] = g[Max(Shown(x))]
      BY <1>2, <2>2
    <3> QED BY <3>2, <3>3
  <2> QED BY <2>1, <2>2
<1>5. ASSUME NEW n \in DOMAIN g, Place(n) + WidthOf(g[n]) <= Inner + 1
      PROVE  F[Place(n)] = g[n]
  <2>0. n \in 1..(Len(buf) + 3)
    BY <1>1
  <2>1. Place(n) \in Nat /\ Place(n) >= 1
    <3>1. Place(1) = 1 /\ Place(n) \in Nat /\ (1 < n => Place(1) < Place(n))
      BY <1>1, <2>0, PlacesApart
    <3> QED BY <2>0, <3>1
  <2>2. WidthOf(g[n]) \in 1..2
    BY DEF WidthOf
  <2>3. Inner \in Nat
    BY NarrowBlank
  <2>4. Place(n) \in 1..Inner
    BY <1>5, <2>1, <2>2, <2>3
  <2>5. n \in Shown(Place(n))
    BY <1>5
  <2>6. ASSUME NEW m \in Shown(Place(n)) PROVE m = n
    <3>1. m \in 1..(Len(buf) + 3) /\ Place(m) = Place(n)
      BY <1>1
    <3>2. /\ m < n => Place(m) < Place(n)
          /\ n < m => Place(n) < Place(m)
      BY <2>0, <3>1, PlacesApart
    <3> QED BY <1>1, <2>0, <2>1, <3>1, <3>2
  <2>7. Max(Shown(Place(n))) = n
    BY <1>3, <2>5, <2>6
  <2> QED BY <1>2, <2>4, <2>5, <2>7
<1> QED BY <1>4, <1>5 DEF g, F

\* A wide character ends where the next glyph starts, so that no glyph is behind one.
LEMMA NotHidden ==
  ASSUME buf \in Seq(Char), cols \in Cols, NEW on, NEW n \in 3..(Len(buf) + 3),
         NEW x \in 1..Inner, x = Place(n) \/ (n = Len(buf) + 3 /\ x > Place(n))
  PROVE  ~Hides(Frame(on), x)
<1> SUFFICES ASSUME x > 1, WidthOf(Frame(on)[x - 1]) = 2 PROVE FALSE
  BY DEF Hides
<1> DEFINE g == Glyphs(on)
<1>1. Len(buf) \in Nat /\ Inner \in Nat /\ x - 1 \in 1..Inner
  BY NarrowBlank
<1>2. /\ \A m \in 1..(Len(buf) + 3) : Place(m) \in Nat
      /\ \A m, k \in 1..(Len(buf) + 3) : m < k => Place(m) < Place(k)
      /\ Place(1) = 1 /\ Place(2) = 2 /\ Place(3) = 3
  BY PlacesApart
<1>3. n \in 1..(Len(buf) + 3) /\ Place(n) >= 3 /\ x >= 3
  <2>1. n \in 1..(Len(buf) + 3) /\ 3 \in 1..(Len(buf) + 3) /\ (n = 3 \/ 3 < n)
    BY <1>1
  <2>2. Place(n) \in Nat /\ Place(3) = 3 /\ (3 < n => Place(3) < Place(n))
    BY <1>2, <2>1
  <2> QED BY <2>1, <2>2
<1>4. WidthOf(Empty) = 1
  BY NarrowBlank
<1>5. PICK m \in DOMAIN g : Place(m) = x - 1 /\ Frame(on)[x - 1] = g[m]
  <2>1. Frame(on)[x - 1] # Empty
    BY <1>4
  <2> QED BY <1>1, <2>1, FrameFacts
<1>6. WidthOf(g[m]) = 2
  BY <1>5
<1>7. /\ DOMAIN g = 1..(IF Block(on) THEN Len(buf) + 3 ELSE Len(buf) + 2)
      /\ g[2] = Empty
      /\ \A k \in 1..Len(buf) : g[k + 2].symbol = buf[k]
      /\ Block(on) => g[Len(buf) + 3].symbol = Space
  <2>1. /\ DOMAIN g = 1..(IF Block(on) THEN Len(buf) + 3 ELSE Len(buf) + 2)
        /\ g[2] = Empty
        /\ \A k \in 1..Len(buf) : g[k + 2] = [symbol |-> buf[k], reversed |-> Highlit(k, on)]
        /\ Block(on) => g[Len(buf) + 3] = [symbol |-> Space, reversed |-> TRUE]
    BY GlyphFacts
  <2> HIDE DEF g
  <2>2. ASSUME NEW k \in 1..Len(buf) PROVE g[k + 2].symbol = buf[k]
    <3>1. g[k + 2] = [symbol |-> buf[k], reversed |-> Highlit(k, on)]
      BY <2>1
    <3> QED BY <3>1
  <2>3. ASSUME Block(on) PROVE g[Len(buf) + 3].symbol = Space
    <3>1. g[Len(buf) + 3] = [symbol |-> Space, reversed |-> TRUE]
      BY <2>1, <2>3
    <3> QED BY <3>1
  <2> QED BY <2>1, <2>2, <2>3
<1> HIDE DEF g
<1>8. m \in 1..(Len(buf) + 2) \/ (Block(on) /\ m = Len(buf) + 3)
  <2>1. CASE Block(on)
    BY <1>1, <1>7, <2>1
  <2>2. CASE ~Block(on)
    BY <1>1, <1>7, <2>2
  <2> QED BY <2>1, <2>2
<1>9. CASE Block(on) /\ m = Len(buf) + 3
  <2>1. g[m].symbol = Space
    BY <1>7, <1>9
  <2> QED BY <1>6, <2>1, NarrowBlank DEF WidthOf
<1>10. CASE m \in 1..(Len(buf) + 2)
  <2>1. m # 1
    BY <1>2, <1>3, <1>5
  <2>2. m # 2
    BY <1>4, <1>6, <1>7
  <2>3. PICK k \in 1..Len(buf) : m = k + 2
    <3>1. m - 2 \in 1..Len(buf) /\ m = (m - 2) + 2
      BY <1>1, <1>10, <2>1, <2>2
    <3> QED BY <3>1
  <2>4. buf[k] \in Double
    BY <1>6, <1>7, <2>3 DEF WidthOf
  <2>5. Place(m + 1) = x + 1
    <3>1. Place(k + 3) = Place(k + 2) + 2
      BY <2>4, PlacesApart
    <3>2. m + 1 = k + 3
      BY <2>3
    <3> QED BY <1>1, <1>5, <2>3, <3>1, <3>2
  <2>6. m \in 1..(Len(buf) + 3) /\ m + 1 \in 1..(Len(buf) + 3)
    BY <1>1, <1>10
  <2>7. Place(m) = x - 1 /\ x - 1 < x
    BY <1>1, <1>5
  <2>8. CASE x = Place(n)
    <3>1. ~(n < m) /\ n # m
      <4>1. n < m => Place(n) < Place(m)
        BY <1>2, <1>3, <2>6
      <4> QED BY <1>1, <2>7, <2>8, <4>1
    <3>2. n = m + 1 \/ m + 1 < n
      BY <1>1, <1>3, <2>6, <3>1
    <3>3. m + 1 < n => Place(m + 1) < Place(n)
      BY <1>2, <1>3, <2>6
    <3> QED BY <1>1, <2>5, <2>8, <3>2, <3>3
  <2>9. CASE n = Len(buf) + 3 /\ x > Place(n)
    <3>1. m < n
      BY <1>1, <1>10, <2>9
    <3>2. m + 1 = n \/ m + 1 < n
      BY <1>1, <2>6, <3>1, <2>9
    <3>3. m + 1 < n => Place(m + 1) < Place(n)
      BY <1>2, <1>3, <2>6
    <3>4. Place(n) \in Nat
      BY <1>2, <1>3
    <3> QED BY <1>1, <2>5, <2>9, <3>2, <3>3, <3>4
  <2> QED BY <2>8, <2>9
<1> QED BY <1>8, <1>9, <1>10

\* Past the last character only the block at the end lights up.
LEMMA OnlyBlockPast ==
  ASSUME buf \in Seq(Char), cursor \in Boundaries(buf), Sliceable, NEW on \in BOOLEAN
  PROVE  Highlit(Len(buf) + 1, on) = Block(on)
<1>1. Len(buf) \in Nat
  OBVIOUS
<1>2. CASE anchor # None
  <2>1. End \in Boundaries(buf)
    BY <1>2 DEF Sliceable, Slices
  <2>2. Before(buf, End) \in 0..Len(buf)
    BY <2>1, BoundaryFacts
  <2>3. ~(Len(buf) + 1 <= Before(buf, End))
    BY <1>1, <2>2
  <2>4. Highlit(Len(buf) + 1, on) = (Before(buf, Start) < Len(buf) + 1 /\ Len(buf) + 1 <= Before(buf, End))
    BY <1>2 DEF Highlit
  <2>5. ~Block(on)
    BY <1>2 DEF Block
  <2>6. ~Highlit(Len(buf) + 1, on)
    BY <2>3, <2>4
  <2> QED BY <2>4, <2>3, <2>5, ZenonT(60) DEF Block
<1>3. CASE anchor = None
  <2>1. /\ Before(buf, cursor) \in 0..Len(buf) /\ At(buf, Before(buf, cursor)) = cursor
        /\ Before(buf, At(buf, Len(buf))) = Len(buf)
    <3>1. Len(buf) \in 0..Len(buf)
      BY <1>1
    <3> QED BY <3>1, BoundaryFacts
  <2>2. At(buf, Len(buf)) = Bytes(buf)
    BY AtGrows
  <2>3. Len(buf) + 1 = Before(buf, cursor) + 1 <=> Before(buf, cursor) = Len(buf)
    BY <1>1, <2>1
  <2>4. Before(buf, cursor) = Len(buf) <=> cursor = Bytes(buf)
    BY <2>1, <2>2
  <2>5. Highlit(Len(buf) + 1, on) = (on /\ Len(buf) + 1 = Before(buf, cursor) + 1)
    BY <1>3 DEF Highlit
  <2>6. Block(on) = (on /\ cursor = Bytes(buf))
    BY <1>3 DEF Block
  <2> QED BY <2>3, <2>4, <2>5, <2>6
<1> QED BY <1>2, <1>3

\* A glyph that fits is in the grid, and the cells past the end of the line are empty there.
LEMMA GlyphsAreShown ==
  ASSUME buf \in Seq(Char), RowInv, NEW on
  PROVE  LET g == Glyphs(on)
             R == Redrawn(on)
         IN  /\ \A n \in DOMAIN g \ {1, 2} :
                  Place(n) + WidthOf(g[n]) <= Inner + 1 =>
                    Place(n) \in 1..Inner /\ R[Place(n)] = g[n]
             /\ \A x \in Place(Len(buf) + 3)..Inner :
                  x > Place(Len(buf) + 3) \/ ~Block(on) => R[x] = Empty
<1> DEFINE g == Glyphs(on)
           R == Redrawn(on)
           F == Frame(on)
<1>0. Len(buf) \in Nat /\ Inner \in Nat /\ cols \in Cols
  BY NarrowBlank DEF RowInv
<1>1. DOMAIN g = 1..(IF Block(on) THEN Len(buf) + 3 ELSE Len(buf) + 2)
  BY GlyphFacts
<1>2. /\ \A x \in 1..Inner : \/ F[x] = Empty
                             \/ \E n \in DOMAIN g : Place(n) = x /\ F[x] = g[n]
      /\ \A n \in DOMAIN g : Place(n) + WidthOf(g[n]) <= Inner + 1 => F[Place(n)] = g[n]
  BY <1>0, FrameFacts
<1>3. \A x \in 1..Inner : Hides(F, x) \/ R[x] = F[x]
  BY RedrawnIsFrame
<1>4. /\ \A m \in 1..(Len(buf) + 3) : Place(m) \in Nat
      /\ \A m, k \in 1..(Len(buf) + 3) : m < k => Place(m) < Place(k)
      /\ Place(1) = 1
  BY PlacesApart
<1>5. \A n \in 3..(Len(buf) + 3), x \in 1..Inner :
        x = Place(n) \/ (n = Len(buf) + 3 /\ x > Place(n)) => ~Hides(F, x)
  BY <1>0, NotHidden
<1> HIDE DEF g, R, F
<1>6. ASSUME NEW n \in DOMAIN g \ {1, 2}, Place(n) + WidthOf(g[n]) <= Inner + 1
      PROVE  Place(n) \in 1..Inner /\ R[Place(n)] = g[n]
  <2>1. n \in 3..(Len(buf) + 3) /\ n \in DOMAIN g
    <3>1. CASE Block(on)
      BY <1>0, <1>1, <3>1
    <3>2. CASE ~Block(on)
      BY <1>0, <1>1, <3>2
    <3> QED BY <3>1, <3>2
  <2>2. Place(n) \in Nat /\ Place(n) >= 1
    <3>1. n \in 1..(Len(buf) + 3) /\ 1 \in 1..(Len(buf) + 3) /\ 1 < n
      BY <1>0, <2>1
    <3>2. Place(n) \in Nat /\ Place(1) < Place(n) /\ Place(1) = 1
      BY <1>4, <3>1
    <3> QED BY <3>2
  <2>3. WidthOf(g[n]) \in 1..2
    BY DEF WidthOf
  <2>4. Place(n) \in 1..Inner
    BY <1>0, <1>6, <2>2, <2>3
  <2>5. F[Place(n)] = g[n]
    BY <1>2, <1>6, <2>1
  <2>6. ~Hides(F, Place(n))
    BY <1>5, <2>1, <2>4
  <2> QED BY <1>3, <2>4, <2>5, <2>6
<1>7. ASSUME NEW x \in Place(Len(buf) + 3)..Inner, x > Place(Len(buf) + 3) \/ ~Block(on)
      PROVE  R[x] = Empty
  <2>1. Len(buf) + 3 \in 1..(Len(buf) + 3) /\ Len(buf) + 3 \in 3..(Len(buf) + 3)
        /\ 1 \in 1..(Len(buf) + 3) /\ 1 < Len(buf) + 3
    BY <1>0
  <2>2. Place(Len(buf) + 3) \in Nat /\ Place(Len(buf) + 3) > 1
    <3>1. Place(Len(buf) + 3) \in Nat /\ Place(1) < Place(Len(buf) + 3) /\ Place(1) = 1
      BY <1>4, <2>1
    <3> QED BY <3>1
  <2>3. x \in 1..Inner /\ (x = Place(Len(buf) + 3) \/ x > Place(Len(buf) + 3))
    BY <1>0, <2>2
  <2>4. ~Hides(F, x)
    BY <1>5, <2>1, <2>3
  <2>5. R[x] = F[x]
    BY <1>3, <2>3, <2>4
  <2>6. ASSUME NEW n \in DOMAIN g, Place(n) = x PROVE FALSE
    <3>1. CASE n = Len(buf) + 3 /\ Block(on)
      BY <1>7, <2>2, <2>6, <3>1
    <3>2. CASE n \in 1..(Len(buf) + 2)
      <4>1. n \in 1..(Len(buf) + 3) /\ n < Len(buf) + 3
        BY <1>0, <3>2
      <4>2. Place(n) < Place(Len(buf) + 3) /\ Place(n) \in Nat
        BY <1>4, <2>1, <4>1
      <4> QED BY <2>2, <2>3, <2>6, <4>2
    <3>3. (n = Len(buf) + 3 /\ Block(on)) \/ n \in 1..(Len(buf) + 2)
      <4>1. CASE Block(on)
        BY <1>0, <1>1, <4>1
      <4>2. CASE ~Block(on)
        BY <1>0, <1>1, <4>2
      <4> QED BY <4>1, <4>2
    <3> QED BY <3>1, <3>2, <3>3
  <2> QED BY <1>2, <2>3, <2>5, <2>6
<1> QED BY <1>6, <1>7 DEF g, R

\* A cell's ink stands out from its ground, which is white where the line is lit.
LEMMA CellsAreShown ==
  ASSUME RowInv, NEW on \in BOOLEAN, NEW x \in 1..Inner, NEW c, NEW lit \in BOOLEAN,
         Redrawn(on)[x] = [symbol |-> c, reversed |-> lit]
  PROVE  LET line == Redrawn(on)
             white == White(line)
         IN  /\ line[x].symbol = c
             /\ x \in white <=> lit
             /\ InkOf(line[x]) # IF x \in white THEN "white" ELSE "dark"
<1> DEFINE R == Redrawn(on)
<1>1. R[x].symbol = c /\ R[x].reversed = lit
  OBVIOUS
<1>2. White(R) = {y \in 1..Inner : R[y].reversed}
  <2>1. Inner \in Nat
    BY NarrowBlank DEF RowInv
  <2>2. R = [y \in 1..Inner |-> R[y]]
    BY DEF Redrawn, Written, RowInv
  <2> HIDE DEF R
  <2>3. PICK N \in Nat : N = Inner
    BY <2>1
  <2>4. R \in [1..N -> {R[y] : y \in 1..N}]
    BY <2>2, <2>3
  <2>5. R \in Seq({R[y] : y \in 1..N})
    BY SMTT(60), <2>3, <2>4
  <2>6. DOMAIN R = 1..N /\ Len(R) = N
    BY <2>3, <2>4, <2>5
  <2> QED BY <2>3, <2>6, WhiteIsReversed
<1> HIDE DEF R
<1>3. x \in White(R) <=> R[x].reversed
  BY <1>2
<1>4. x \in White(R) <=> lit
  BY <1>1, <1>3
<1>5. InkOf(R[x]) # IF x \in White(R) THEN "white" ELSE "dark"
  <2>1. CASE lit
    BY <1>1, <1>4, <2>1 DEF InkOf
  <2>2. CASE ~lit
    BY <1>1, <1>4, <2>2 DEF InkOf
  <2> QED BY <2>1, <2>2
<1> QED BY <1>1, <1>4, <1>5 DEF R

\* The line in the grid, after a redraw, is the editor's.
LEMMA RowShowsLine == LineInv /\ RowInv => LineShown
<1> SUFFICES ASSUME LineInv, RowInv, Sliceable, NEW on \in BOOLEAN
             PROVE  LET line == Redrawn(on)
                        white == White(line)
                        Shows(x, c, lit) ==
                          /\ line[x].symbol = c
                          /\ x \in white <=> lit
                          /\ InkOf(line[x]) # IF x \in white THEN "white" ELSE "dark"
                        end == 3 + Columns(Len(buf))
                    IN  /\ \A k \in 1..Len(buf) : 2 + Columns(k) <= Inner =>
                             Shows(3 + Columns(k - 1), buf[k], Highlit(k, on))
                        /\ \A x \in end..Inner : Shows(x, Space, x = end /\ Highlit(Len(buf) + 1, on))
  BY DEF LineShown
<1> DEFINE line == Redrawn(on)
           white == White(line)
           Shows(x, c, lit) ==
             /\ line[x].symbol = c
             /\ x \in white <=> lit
             /\ InkOf(line[x]) # IF x \in white THEN "white" ELSE "dark"
           end == 3 + Columns(Len(buf))
<1>1. buf \in Seq(Char) /\ cursor \in Boundaries(buf) /\ cols \in Cols
  BY DEF LineInv, LineTyped, CursorOnBoundary, RowInv
<1>2. Len(buf) \in Nat /\ Inner \in Nat
  BY <1>1, NarrowBlank
<1>3. /\ DOMAIN Glyphs(on) = 1..(IF Block(on) THEN Len(buf) + 3 ELSE Len(buf) + 2)
      /\ \A k \in 1..Len(buf) : Glyphs(on)[k + 2] = [symbol |-> buf[k], reversed |-> Highlit(k, on)]
      /\ Block(on) => Glyphs(on)[Len(buf) + 3] = [symbol |-> Space, reversed |-> TRUE]
  BY <1>1, GlyphFacts
<1>4. /\ \A n \in DOMAIN Glyphs(on) \ {1, 2} :
           Place(n) + WidthOf(Glyphs(on)[n]) <= Inner + 1 =>
             Place(n) \in 1..Inner /\ line[Place(n)] = Glyphs(on)[n]
      /\ \A x \in Place(Len(buf) + 3)..Inner :
           x > Place(Len(buf) + 3) \/ ~Block(on) => line[x] = Empty
  BY <1>1, GlyphsAreShown
<1>5. /\ \A k \in 1..Len(buf) : /\ Place(k + 2) = 3 + Columns(k - 1)
                                /\ Place(k + 3) = Place(k + 2) + (IF buf[k] \in Double THEN 2 ELSE 1)
      /\ \A n \in 1..(Len(buf) + 3) : Place(n) \in Nat
  BY <1>1, PlacesApart
<1>6. \A x \in 1..Inner : \A c : \A lit \in BOOLEAN :
        line[x] = [symbol |-> c, reversed |-> lit] => Shows(x, c, lit)
  BY CellsAreShown
<1>7. \A k : Highlit(k, on) \in BOOLEAN
  BY DEF Highlit
<1>8. ASSUME NEW k \in 0..Len(buf) PROVE Place(k + 3) = 3 + Columns(k)
  BY <1>2 DEF Place
<1>9. Highlit(Len(buf) + 1, on) = Block(on)
  BY <1>1, OnlyBlockPast
<1> HIDE DEF line, Shows
<1>10. ASSUME NEW k \in 1..Len(buf), 2 + Columns(k) <= Inner
       PROVE  Shows(3 + Columns(k - 1), buf[k], Highlit(k, on))
  <2>1. k + 2 \in DOMAIN Glyphs(on) \ {1, 2}
    <3>1. CASE Block(on)
      BY <1>2, <1>3, <3>1
    <3>2. CASE ~Block(on)
      BY <1>2, <1>3, <3>2
    <3> QED BY <3>1, <3>2
  <2>2. Glyphs(on)[k + 2] = [symbol |-> buf[k], reversed |-> Highlit(k, on)]
    BY <1>3
  <2>3. WidthOf(Glyphs(on)[k + 2]) = IF buf[k] \in Double THEN 2 ELSE 1
    BY <2>2 DEF WidthOf
  <2>4. Place(k + 2) + WidthOf(Glyphs(on)[k + 2]) <= Inner + 1
    <3>1. Place(k + 2) + WidthOf(Glyphs(on)[k + 2]) = Place(k + 3)
      BY <1>5, <2>3
    <3>2. k \in 0..Len(buf) /\ k + 3 \in 1..(Len(buf) + 3)
      BY <1>2
    <3>3. Place(k + 3) = 3 + Columns(k) /\ Place(k + 3) \in Nat
      BY <1>5, <1>8, <3>2
    <3>4. Columns(k) \in Nat
      BY <1>1, <3>2, ColumnsGrow
    <3> QED BY <1>2, <1>10, <3>1, <3>3, <3>4
  <2>5. Place(k + 2) \in 1..Inner /\ line[Place(k + 2)] = Glyphs(on)[k + 2]
    BY <1>4, <2>1, <2>4
  <2>6. Shows(Place(k + 2), buf[k], Highlit(k, on))
    BY <1>6, <1>7, <2>2, <2>5
  <2>7. Place(k + 2) = 3 + Columns(k - 1)
    BY <1>5
  <2> QED BY <2>6, <2>7
<1>11. ASSUME NEW x \in end..Inner
       PROVE  Shows(x, Space, x = end /\ Highlit(Len(buf) + 1, on))
  <2>1. Place(Len(buf) + 3) = end /\ end \in Nat /\ end >= 1
    <3>1. Len(buf) \in 0..Len(buf)
      BY <1>2
    <3>2. Columns(Len(buf)) \in Nat
      BY <1>1, <3>1, ColumnsGrow
    <3> QED BY <1>8, <3>1, <3>2
  <2> HIDE DEF end
  <2>2. x \in 1..Inner /\ x \in Place(Len(buf) + 3)..Inner
    BY <1>2, <2>1
  <2>3. CASE x = end /\ Block(on)
    <3>1. Len(buf) + 3 \in DOMAIN Glyphs(on) \ {1, 2}
      BY <1>2, <1>3, <2>3
    <3>2. Glyphs(on)[Len(buf) + 3] = [symbol |-> Space, reversed |-> TRUE]
      BY <1>3, <2>3
    <3>3. WidthOf(Glyphs(on)[Len(buf) + 3]) = 1
      BY <1>1, <3>2, NarrowBlank DEF WidthOf
    <3>4. end <= Inner /\ end + 1 <= Inner + 1
      BY <1>2, <2>1, <2>2, <2>3
    <3>5. line[x] = [symbol |-> Space, reversed |-> TRUE]
      BY <1>4, <2>1, <2>3, <3>1, <3>2, <3>3, <3>4
    <3>6. Shows(x, Space, TRUE)
      BY <1>6, <2>2, <3>5
    <3>7. (x = end /\ Highlit(Len(buf) + 1, on)) = TRUE
      BY <1>7, <1>9, <2>3
    <3> QED BY <3>6, <3>7
  <2>4. CASE ~(x = end /\ Block(on))
    <3>1. line[x] = Empty
      <4>1. x > end \/ ~Block(on)
        BY <2>1, <2>2, <2>4
      <4> QED BY <1>4, <2>1, <2>2, <4>1
    <3>2. Shows(x, Space, FALSE)
      BY <1>6, <2>2, <3>1 DEF Empty
    <3>3. (x = end /\ Highlit(Len(buf) + 1, on)) = FALSE
      BY <1>7, <1>9, <2>4
    <3> QED BY <3>2, <3>3
  <2> QED BY <2>3, <2>4
<1> QED BY <1>10, <1>11 DEF line, Shows

\* LineShown: whatever was typed, deleted, selected and rebuilt between two redraws, the
\* next one shows the line, and nothing of a longer one (render_input, ratatui's diff,
\* the grid, and the painter's runs of reversed cells).
THEOREM LineIsShown == LineSpec => []LineShown
<1> QED BY LineStarts, LineKept, RowStarts, RowKept, RowShowsLine, PTL DEF LineSpec, allVars

-----------------------------------------------------------------------------
(* The strips                                                                 *)

\* Of what a set of numbers up to n lacks there is a first.
LEMMA FirstMissing ==
  ASSUME NEW n \in Nat, NEW P \in SUBSET (0..n), 0 \in P,
         \A k \in 1..n : k - 1 \in P => k \in P
  PROVE  P = 0..n
<1> DEFINE B == (0..n) \ P
<1> SUFFICES ASSUME B # {} PROVE FALSE
  OBVIOUS
<1>1. B \in SUBSET Nat /\ IsFiniteSet(B)
  <2>1. B \in SUBSET (0..n) /\ IsFiniteSet(0..n)
    BY FS_Interval
  <2>2. IsFiniteSet(B)
    <3> HIDE DEF B
    <3> QED BY <2>1, FS_Subset
  <2> QED BY <2>2
<1>2. PICK k \in B : \A j \in B : k <= j
  <2> HIDE DEF B
  <2> QED BY <1>1, Extremes
<1>3. k \in 1..n /\ k - 1 \in 0..n
  BY <1>2
<1>4. k - 1 \in P
  BY <1>2, <1>3
<1> QED BY <1>2, <1>3, <1>4

\* What FoldLeft(+, ...) adds up, from the left.
Sums(s, f) == f = [t \in SUBSET DOMAIN s |-> IF t = {} THEN 0 ELSE f[t \ {Max(t)}] + s[Max(t)]]

SumsUpto(s, k, f) ==
  f = [t \in SUBSET (1..k) |-> IF t = {} THEN 0 ELSE f[t \ {Max(t)}] + s[Max(t)]]

\* One more.
LEMMA SumsExtend ==
  ASSUME NEW s, NEW k \in Nat, k # 0, NEW f, SumsUpto(s, k - 1, f)
  PROVE  \E g : SumsUpto(s, k, g)
<1> DEFINE g == [t \in SUBSET (1..k) |-> IF k \in t THEN f[t \ {k}] + s[k] ELSE f[t]]
<1>1. ASSUME NEW t \in SUBSET (1..k)
      PROVE  g[t] = IF t = {} THEN 0 ELSE g[t \ {Max(t)}] + s[Max(t)]
  <2>1. CASE k \in t
    <3>1. t \in SUBSET Nat /\ IsFiniteSet(t) /\ t # {}
      <4>1. IsFiniteSet(1..k) /\ 1..k \in SUBSET Nat
        BY FS_Interval
      <4>2. IsFiniteSet(t)
        BY <4>1, FS_Subset
      <4> QED BY <2>1, <4>1, <4>2
    <3>2. Max(t) \in t /\ k <= Max(t)
      BY <3>1, <2>1, Extremes
    <3>3. Max(t) \in 1..k
      BY <3>2
    <3>4. Max(t) = k
      BY <3>2, <3>3
    <3>5. t \ {k} \in SUBSET (1..k) /\ k \notin t \ {k}
      OBVIOUS
    <3>6. g[t \ {k}] = f[t \ {k}]
      BY <3>5
    <3> QED BY <2>1, <3>4, <3>6
  <2>2. CASE k \notin t
    <3>1. t \in SUBSET (1..(k - 1)) /\ g[t] = f[t]
      BY <2>2
    <3>2. CASE t = {}
      BY <3>1, <3>2 DEF SumsUpto
    <3>3. CASE t # {}
      <4>1. f[t] = f[t \ {Max(t)}] + s[Max(t)]
        BY <3>1, <3>3 DEF SumsUpto
      <4>2. t \ {Max(t)} \in SUBSET (1..k) /\ k \notin t \ {Max(t)}
        BY <2>2
      <4>3. g[t \ {Max(t)}] = f[t \ {Max(t)}]
        BY <4>2
      <4> QED BY <3>1, <3>3, <4>1, <4>3
    <3> QED BY <3>2, <3>3
  <2> QED BY <2>1, <2>2
<1>2. DOMAIN g = SUBSET (1..k) /\ g = [t \in DOMAIN g |-> g[t]]
  OBVIOUS
<1> HIDE DEF g
<1>3. g = [t \in SUBSET (1..k) |-> IF t = {} THEN 0 ELSE g[t \ {Max(t)}] + s[Max(t)]]
  BY <1>1, <1>2
<1> QED BY <1>3 DEF SumsUpto

\* There are such sums, for every sequence.
LEMMA SumsExist ==
  ASSUME NEW s \in Seq(Nat)
  PROVE  \E f : Sums(s, f)
<1> DEFINE n == Len(s)
           P == {k \in 0..n : \E f : SumsUpto(s, k, f)}
<1>1. n \in Nat /\ DOMAIN s = 1..n
  BY LenProperties
<1>2. 0 \in P
  <2> DEFINE f0 == [t \in SUBSET (1..0) |-> 0]
  <2>1. \A t \in SUBSET (1..0) : t = {}
    OBVIOUS
  <2>2. SumsUpto(s, 0, f0)
    BY <2>1 DEF SumsUpto
  <2> QED BY <1>1, <2>2
<1>3. ASSUME NEW k \in 1..n, k - 1 \in P
      PROVE  k \in P
  <2>1. PICK f : SumsUpto(s, k - 1, f)
    BY <1>3
  <2>2. \E g : SumsUpto(s, k, g)
    BY <2>1, SumsExtend
  <2> QED BY <2>2, <1>1
<1>4. P = 0..n
  <2>1. P \in SUBSET (0..n)
    OBVIOUS
  <2> HIDE DEF P
  <2> QED BY <2>1, <1>1, <1>2, <1>3, FirstMissing
<1>5. n \in P
  BY <1>1, <1>4
<1>6. PICK f : SumsUpto(s, n, f)
  BY <1>5
<1> QED BY <1>1, <1>6 DEF Sums, SumsUpto

\* The columns of the spans up to each, as far as the Width of all.
LEMMA WidthAdds ==
  ASSUME NEW s \in Seq(Nat)
  PROVE  \E p \in [0..Len(s) -> Nat] :
           /\ p[0] = 0 /\ p[Len(s)] = Width(s)
           /\ \A k \in 1..Len(s) : p[k] = p[k - 1] + s[k]
<1> DEFINE n == Len(s)
           f == CHOOSE f : Sums(s, f)
           p == [k \in 0..n |-> f[1..k]]
<1>1. n \in Nat /\ DOMAIN s = 1..n /\ \A k \in 1..n : s[k] \in Nat
  BY LenProperties, ElementOfSeq
<1>2. Sums(s, f)
  BY SumsExist
<1>3. Width(s) = f[DOMAIN s]
  BY DEF Width, FoldLeft, MapThenFoldSet, Sums
<1> HIDE DEF f
<1>4. p[0] = 0
  <2>1. 1..0 = {} /\ 0 \in 0..n
    BY <1>1
  <2>2. f[{}] = 0
    BY <1>2 DEF Sums
  <2> QED BY <2>1, <2>2
<1>5. ASSUME NEW k \in 1..n
      PROVE  p[k] = p[k - 1] + s[k]
  <2>1. k \in Nat /\ k - 1 \in 0..n /\ k \in 0..n /\ 1..k \in SUBSET (1..n) /\ 1..k # {} /\ k \in 1..k
    BY SMTT(60), <1>1
  <2>2. 1..k \in SUBSET Nat /\ IsFiniteSet(1..k)
    BY <2>1, FS_Interval
  <2>3. Max(1..k) \in 1..k /\ k <= Max(1..k)
    BY <2>1, <2>2, Extremes
  <2>4. Max(1..k) = k
    BY <2>1, <2>3
  <2>5. (1..k) \ {k} = 1..(k - 1)
    BY <2>1
  <2>6. f[1..k] = f[(1..k) \ {Max(1..k)}] + s[Max(1..k)]
    BY <1>1, <1>2, <2>1 DEF Sums
  <2> QED BY <2>1, <2>4, <2>5, <2>6
<1>6. p[n] = Width(s) /\ n \in 0..n
  BY <1>1, <1>3
<1>7. DOMAIN p = 0..n /\ p = [k \in DOMAIN p |-> p[k]]
  OBVIOUS
<1> HIDE DEF p
<1>8. 0..n = {k \in 0..n : p[k] \in Nat}
  <2> DEFINE P == {k \in 0..n : p[k] \in Nat}
  <2>1. P \in SUBSET (0..n) /\ 0 \in P
    BY <1>1, <1>4
  <2>2. ASSUME NEW k \in 1..n, k - 1 \in P
        PROVE  k \in P
    BY <1>1, <1>5, <2>2
  <2> HIDE DEF P
  <2>3. P = 0..n
    BY <1>1, <2>1, <2>2, FirstMissing
  <2> QED BY <2>3 DEF P
<1>9. p \in [0..n -> Nat]
  BY <1>7, <1>8
<1> QED BY <1>4, <1>5, <1>6, <1>9

\* Nothing is no columns wide, and one span more adds its own.
LEMMA WidthFacts ==
  /\ Width(<<>>) = 0
  /\ \A s \in Seq(Nat) : Width(s) \in Nat
  /\ \A s \in Seq(Nat), x \in Nat : Width(Append(s, x)) = Width(s) + x
<1>1. Width(<<>>) = 0
  <2>1. PICK e \in Seq(Nat) : e = <<>> /\ Len(e) = 0
    BY EmptySeq
  <2>2. PICK p \in [0..Len(e) -> Nat] : p[0] = 0 /\ p[Len(e)] = Width(e)
    BY WidthAdds
  <2> QED BY <2>1, <2>2
<1>2. ASSUME NEW s \in Seq(Nat)
      PROVE  Width(s) \in Nat
  <2>1. Len(s) \in Nat
    BY LenProperties
  <2>2. PICK p \in [0..Len(s) -> Nat] : p[Len(s)] = Width(s)
    BY WidthAdds
  <2> QED BY <2>1, <2>2
<1>3. ASSUME NEW s \in Seq(Nat), NEW x \in Nat
      PROVE  Width(Append(s, x)) = Width(s) + x
  <2>1. PICK t \in Seq(Nat) : t = Append(s, x)
    BY AppendProperties
  <2>2. Len(t) = Len(s) + 1 /\ t[Len(s) + 1] = x /\ \A k \in 1..Len(s) : t[k] = s[k]
    BY <2>1, AppendProperties
  <2>3. Len(s) \in Nat
    BY LenProperties
  <2>4. PICK p \in [0..Len(s) -> Nat] :
          p[0] = 0 /\ p[Len(s)] = Width(s) /\ \A k \in 1..Len(s) : p[k] = p[k - 1] + s[k]
    BY WidthAdds
  <2>5. PICK q \in [0..Len(t) -> Nat] :
          q[0] = 0 /\ q[Len(t)] = Width(t) /\ \A k \in 1..Len(t) : q[k] = q[k - 1] + t[k]
    BY WidthAdds
  <2> DEFINE P == {k \in 0..Len(s) : p[k] = q[k]}
  <2>6. P \in SUBSET (0..Len(s)) /\ 0 \in P
    BY <2>3, <2>4, <2>5
  <2>7. ASSUME NEW k \in 1..Len(s), k - 1 \in P
        PROVE  k \in P
    <3>1. p[k] = p[k - 1] + s[k] /\ q[k] = q[k - 1] + t[k] /\ t[k] = s[k]
      BY <2>2, <2>3, <2>4, <2>5
    <3> QED BY <2>3, <2>7, <3>1
  <2>8. P = 0..Len(s)
    <3> HIDE DEF P
    <3> QED BY <2>3, <2>6, <2>7, FirstMissing
  <2>9. q[Len(s)] = p[Len(s)]
    BY SMTT(60), <2>3, <2>8
  <2>10. q[Len(s) + 1] = q[Len(s)] + t[Len(s) + 1]
    <3>1. Len(s) + 1 \in 1..Len(t) /\ (Len(s) + 1) - 1 = Len(s)
      BY <2>2, <2>3
    <3> QED BY <2>5, <3>1
  <2> QED BY <2>1, <2>2, <2>4, <2>5, <2>9, <2>10
<1> QED BY <1>1, <1>2, <1>3

\* What FlattenSeq joins, cell by cell.
Joins(c, k, f) ==
  f = [i \in 1..k |-> IF i = 1 THEN c[i] ELSE f[i - 1] \o c[i]]

\* Joined up to one piece, they can be joined up to the next.
LEMMA JoinsExtend ==
  ASSUME NEW c, NEW k \in Nat, k # 0, NEW f, Joins(c, k, f)
  PROVE  \E g : Joins(c, k + 1, g)
<1> DEFINE g == [i \in 1..(k + 1) |-> IF i = k + 1 THEN f[k] \o c[i] ELSE f[i]]
<1>1. ASSUME NEW i \in 1..(k + 1)
      PROVE  g[i] = IF i = 1 THEN c[i] ELSE g[i - 1] \o c[i]
  <2>1. CASE i = k + 1
    <3>1. i # 1 /\ i - 1 = k /\ k \in 1..(k + 1) /\ k # k + 1
      BY <2>1
    <3>2. g[k] = f[k]
      BY <3>1
    <3> QED BY <2>1, <3>1, <3>2
  <2>2. CASE i # k + 1 /\ i = 1
    <3>1. i \in 1..k
      BY <2>2
    <3>2. f[i] = c[i]
      BY <2>2, <3>1 DEF Joins
    <3> QED BY <2>2, <3>2
  <2>3. CASE i # k + 1 /\ i # 1
    <3>1. i \in 1..k /\ i - 1 \in 1..(k + 1) /\ i - 1 # k + 1
      BY <2>3
    <3>2. f[i] = f[i - 1] \o c[i]
      BY <2>3, <3>1 DEF Joins
    <3>3. g[i - 1] = f[i - 1]
      BY <3>1
    <3> QED BY <2>3, <3>2, <3>3
  <2> QED BY <2>1, <2>2, <2>3
<1>2. DOMAIN g = 1..(k + 1) /\ g = [i \in DOMAIN g |-> g[i]]
  OBVIOUS
<1> HIDE DEF g
<1>3. g = [i \in 1..(k + 1) |-> IF i = 1 THEN c[i] ELSE g[i - 1] \o c[i]]
  BY <1>1, <1>2
<1> QED BY <1>3 DEF Joins

\* Joined spans are spans.
LEMMA FlattenIsSeq ==
  ASSUME NEW c \in Seq(Seq(Nat)), Len(c) # 0
  PROVE  FlattenSeq(c) \in Seq(Nat)
<1> DEFINE n == Len(c)
           f == CHOOSE f : Joins(c, n, f)
<1>1. n \in Nat /\ n # 0 /\ \A k \in 1..n : c[k] \in Seq(Nat)
  BY LenProperties, ElementOfSeq
<1>2. \E g : Joins(c, n, g)
  <2> DEFINE P == {k \in 0..n : k = 0 \/ \E g : Joins(c, k, g)}
  <2>1. P \in SUBSET (0..n) /\ 0 \in P
    BY <1>1
  <2>2. ASSUME NEW k \in 1..n, k - 1 \in P
        PROVE  k \in P
    <3>1. CASE k = 1
      <4> DEFINE g1 == [i \in 1..1 |-> c[i]]
      <4>1. g1 = [i \in 1..1 |-> IF i = 1 THEN c[i] ELSE g1[i - 1] \o c[i]]
        BY \A i \in 1..1 : i = 1
      <4>2. Joins(c, 1, g1)
        BY <4>1 DEF Joins
      <4> QED BY <1>1, <3>1, <4>2
    <3>2. CASE k # 1
      <4>1. k - 1 \in Nat /\ k - 1 # 0 /\ (k - 1) + 1 = k /\ k \in 0..n
        BY <1>1, <3>2
      <4>2. PICK g : Joins(c, k - 1, g)
        BY <2>2, <4>1
      <4>3. \E h : Joins(c, (k - 1) + 1, h)
        BY <4>1, <4>2, JoinsExtend
      <4> QED BY <4>1, <4>3
    <3> QED BY <3>1, <3>2
  <2>3. P = 0..n
    <3> HIDE DEF P
    <3> QED BY <1>1, <2>1, <2>2, FirstMissing
  <2>4. n \in P
    <3>1. n \in 0..n
      BY <1>1
    <3> HIDE DEF P
    <3> QED BY <2>3, <3>1
  <2> QED BY <1>1, <2>4
<1>3. Joins(c, n, f)
  BY <1>2
<1>4. FlattenSeq(c) = f[n]
  BY <1>1 DEF FlattenSeq, Joins
<1> HIDE DEF f
<1> DEFINE P == {k \in 0..n : k = 0 \/ f[k] \in Seq(Nat)}
<1>5. P \in SUBSET (0..n) /\ 0 \in P
  BY <1>1
<1>6. ASSUME NEW k \in 1..n, k - 1 \in P
      PROVE  k \in P
  <2>1. f[k] = IF k = 1 THEN c[k] ELSE f[k - 1] \o c[k]
    BY <1>3 DEF Joins
  <2>2. c[k] \in Seq(Nat)
    BY <1>1
  <2>3. k \in 0..n
    BY <1>1
  <2>4. CASE k = 1
    BY <2>1, <2>2, <2>3, <2>4
  <2>5. CASE k # 1
    <3>1. f[k - 1] \in Seq(Nat)
      BY <1>1, <1>6, <2>5
    <3>2. f[k - 1] \o c[k] \in Seq(Nat)
      BY <2>2, <3>1, ConcatProperties
    <3> QED BY <2>1, <2>3, <2>5, <3>2
  <2> QED BY <2>4, <2>5
<1>7. P = 0..n
  <2> HIDE DEF P
  <2> QED BY <1>1, <1>5, <1>6, FirstMissing
<1>8. n \in P
  <2>1. n \in 0..n
    BY <1>1
  <2> HIDE DEF P
  <2> QED BY <1>7, <2>1
<1> QED BY <1>1, <1>4, <1>8

\* The spans of cells are spans, none of no cells.
LEMMA SpansFacts ==
  ASSUME NEW cells \in Seq(Seq(Nat)), NEW k \in 0..Len(cells), NEW sep \in Nat
  PROVE  Spans(cells, k, sep) \in Seq(Nat) /\ Spans(cells, 0, sep) = <<>>
<1> DEFINE C(m) == [i \in 1..m |-> (IF i = 1 THEN <<>> ELSE <<sep>>) \o cells[i]]
<1>1. k \in Nat /\ \A i \in 1..k : cells[i] \in Seq(Nat)
  BY LenProperties, ElementOfSeq
<1>2. C(0) = <<>>
  OBVIOUS
<1>3. Spans(cells, 0, sep) = <<>>
  <2>1. PICK e : e = C(0) /\ Len(e) = 0 /\ e = <<>>
    BY <1>2
  <2>2. FlattenSeq(e) = e
    BY <2>1 DEF FlattenSeq
  <2> QED BY <2>1, <2>2 DEF Spans
<1>4. CASE k # 0
  <2>1. ASSUME NEW i \in 1..k
        PROVE  (IF i = 1 THEN <<>> ELSE <<sep>>) \o cells[i] \in Seq(Nat)
    <3>1. PICK a \in Seq(Nat) : a = IF i = 1 THEN <<>> ELSE <<sep>>
      <4>1. <<>> \in Seq(Nat) /\ <<sep>> \in Seq(Nat)
        OBVIOUS
      <4> QED BY <4>1
    <3>2. cells[i] \in Seq(Nat)
      BY <1>1
    <3>3. a \o cells[i] \in Seq(Nat)
      BY <3>1, <3>2, ConcatProperties
    <3> QED BY <3>1, <3>3
  <2>2. C(k) \in [1..k -> Seq(Nat)]
    BY <2>1
  <2>3. PICK c : c = C(k)
    OBVIOUS
  <2>4. c \in [1..k -> Seq(Nat)]
    BY <2>2, <2>3
  <2>5. c \in Seq(Seq(Nat)) /\ Len(c) = k
    BY <1>1, <2>4, IsASeq
  <2>6. FlattenSeq(c) \in Seq(Nat)
    BY <1>4, <2>5, FlattenIsSeq
  <2>7. Spans(cells, k, sep) = FlattenSeq(c)
    BY <2>3 DEF Spans
  <2> QED BY <1>3, <2>6, <2>7
<1>5. CASE k = 0
  <2>1. <<>> \in Seq(Nat)
    BY EmptySeq
  <2> QED BY <1>3, <1>5, <2>1
<1> QED BY <1>4, <1>5

\* The mark stands behind what fits before it.
LEMMA MarkedFits ==
  ASSUME NEW spans \in Seq(Nat), NEW mark \in Nat, NEW w \in Nat, w # 0
  PROVE  Marked(spans, mark, w) \in Seq(Nat) /\ Width(Marked(spans, mark, w)) <= w
<1> DEFINE S == {n \in 0..Len(spans) : n = 0 \/ Width(SubSeq(spans, 1, n)) + mark <= w}
<1>1. Len(spans) \in Nat
  BY LenProperties
<1>2. S \in SUBSET Nat /\ IsFiniteSet(S) /\ S # {}
  <2>1. S \in SUBSET (0..Len(spans)) /\ 0 \in S
    BY <1>1
  <2>2. 0..Len(spans) \in SUBSET Nat /\ IsFiniteSet(0..Len(spans))
    BY <1>1, FS_Interval
  <2> HIDE DEF S
  <2>3. IsFiniteSet(S)
    BY <2>1, <2>2, FS_Subset
  <2> QED BY <2>1, <2>2, <2>3
<1>3. Max(S) \in S
  <2> HIDE DEF S
  <2> QED BY <1>2, Extremes
<1>4. PICK n \in 0..Len(spans) :
        n = Max(S) /\ (n = 0 \/ Width(SubSeq(spans, 1, n)) + mark <= w)
  BY <1>3
<1>5. PICK cut \in Seq(Nat) : cut = SubSeq(spans, 1, n)
  <2>1. \A i \in 1..n : spans[i] \in Nat
    BY <1>1, ElementOfSeq
  <2>2. n \in Int
    BY <1>1
  <2>3. SubSeq(spans, 1, n) \in Seq(Nat)
    BY <2>1, <2>2, SubSeqProperties
  <2> QED BY <2>3
<1>6. PICK end \in Nat : end = IF n = 0 THEN 1 ELSE mark
  OBVIOUS
<1>7. Marked(spans, mark, w) = Append(cut, end)
  BY <1>4, <1>5, <1>6 DEF Marked
<1>8. Append(cut, end) \in Seq(Nat) /\ Width(Append(cut, end)) = Width(cut) + end /\ Width(cut) \in Nat
  BY WidthFacts, AppendProperties
<1>9. Width(cut) + end <= w
  <2>1. CASE n = 0
    <3>1. cut = <<>>
      BY <1>5, <2>1
    <3>2. Width(cut) = 0
      BY <3>1, WidthFacts
    <3> QED BY <1>6, <2>1, <3>2
  <2>2. CASE n # 0
    BY <1>4, <1>5, <1>6, <2>2
  <2> QED BY <2>1, <2>2
<1> QED BY <1>7, <1>8, <1>9

\* A strip of cells is whole where it fits, and no wider than its pane.
LEMMA StripFits ==
  ASSUME NEW cells \in Seq(Seq(Nat)), NEW sep \in Nat, NEW mark \in Nat, NEW w \in Nat, w # 0
  PROVE  Fits(Strip(cells, sep, mark, w), Spans(cells, Len(cells), sep), w)
<1> DEFINE N == Len(cells)
           K == {k \in 0..N : Width(Spans(cells, k, sep)) <= w}
<1>1. N \in Nat
  BY LenProperties
<1>2. K \in SUBSET Nat /\ IsFiniteSet(K) /\ K # {}
  <2>1. Width(Spans(cells, 0, sep)) = 0
    <3>1. 0 \in 0..N
      BY <1>1
    <3>2. Spans(cells, 0, sep) = <<>>
      BY <3>1, SpansFacts
    <3> QED BY <3>2, WidthFacts
  <2>2. K \in SUBSET (0..N) /\ 0 \in K
    BY <1>1, <2>1
  <2>3. 0..N \in SUBSET Nat /\ IsFiniteSet(0..N)
    BY <1>1, FS_Interval
  <2> HIDE DEF K
  <2>4. IsFiniteSet(K)
    BY <2>2, <2>3, FS_Subset
  <2> QED BY <2>2, <2>3, <2>4
<1>3. Max(K) \in K /\ \A k \in K : k <= Max(K)
  <2> HIDE DEF K
  <2> QED BY <1>2, Extremes
<1>4. PICK k \in 0..N : k = Max(K) /\ k \in K /\ Width(Spans(cells, k, sep)) <= w
  BY <1>3
<1>5. Whole(cells, sep, w) = k
  BY <1>4 DEF Whole
<1>6. PICK spans \in Seq(Nat) : spans = Spans(cells, k, sep)
  BY SpansFacts
<1>7. PICK all \in Seq(Nat) : all = Spans(cells, N, sep)
  <2>1. N \in 0..N
    BY <1>1
  <2> QED BY <2>1, SpansFacts
<1>8. Strip(cells, sep, mark, w) = IF k = N THEN spans ELSE Marked(spans, mark, w)
  BY <1>5, <1>6 DEF Strip
<1>9. Width(all) \in Nat
  BY WidthFacts
<1>10. CASE k = N
  <2>1. spans = all /\ Strip(cells, sep, mark, w) = all /\ Width(all) <= w
    BY <1>4, <1>6, <1>7, <1>8, <1>10
  <2> QED BY <1>7, <2>1 DEF Fits
<1>11. CASE k # N
  <2>1. N \notin K
    <3>1. N \in K => N <= k
      BY <1>3, <1>4
    <3>2. ~(N <= k)
      BY <1>1, <1>4, <1>11
    <3> QED BY <3>1, <3>2
  <2>2. ~(Width(all) <= w)
    <3>1. N \in 0..N
      BY <1>1
    <3> QED BY <1>7, <2>1, <3>1
  <2>3. PICK cut \in Seq(Nat) : cut = Marked(spans, mark, w) /\ Width(cut) <= w
    BY MarkedFits
  <2>4. Strip(cells, sep, mark, w) = cut /\ cut # all
    BY <1>8, <1>11, <2>2, <2>3
  <2> QED BY <1>7, <2>2, <2>3, <2>4 DEF Fits
<1> QED BY <1>10, <1>11

\* So does a text that truncate_to_width cuts.
LEMMA TruncatedFits ==
  ASSUME NEW n \in Nat, NEW w \in Nat, w # 0
  PROVE  Fits(Truncated(n, w), <<n>>, w)
<1>1. ASSUME NEW m \in Nat
      PROVE  <<m>> \in Seq(Nat) /\ <<m>> = Append(<<>>, m) /\ Width(<<m>>) = m
  <2>1. <<>> \in Seq(Nat) /\ <<m>> = Append(<<>>, m) /\ <<m>> \in Seq(Nat)
    OBVIOUS
  <2>2. Width(Append(<<>>, m)) = Width(<<>>) + m
    BY <2>1, WidthFacts
  <2> QED BY <2>1, <2>2, WidthFacts
<1>2. CASE n <= w
  <2>1. Truncated(n, w) = <<n>> /\ Width(<<n>>) = n
    BY <1>1, <1>2 DEF Truncated
  <2> QED BY <1>2, <2>1 DEF Fits
<1>3. CASE ~(n <= w)
  <2>1. PICK v \in Nat : v = w - 1 /\ v + 1 = w
    OBVIOUS
  <2>2. <<v>> \in Seq(Nat) /\ Width(<<v>>) = v
    BY <1>1
  <2>3. Append(<<v>>, 1) = <<v, 1>>
    <3>1. PICK s \in Seq(Nat) : s = <<v>> /\ Len(s) = 1 /\ s[1] = v
      BY <2>2
    <3>2. PICK t \in Seq(Nat) : t = Append(s, 1) /\ Len(t) = 2 /\ t[1] = v /\ t[2] = 1
      <4>1. Append(s, 1) \in Seq(Nat)
        BY AppendProperties
      <4>2. Len(Append(s, 1)) = 2 /\ Append(s, 1)[1] = s[1] /\ Append(s, 1)[2] = 1
        BY <3>1
      <4> QED BY <3>1, <4>1, <4>2
    <3>3. PICK u \in Seq(Nat) : u = <<v, 1>> /\ Len(u) = 2 /\ u[1] = v /\ u[2] = 1
      <4>1. <<v, 1>> \in Seq(Nat)
        OBVIOUS
      <4>2. Len(<<v, 1>>) = 2
        OBVIOUS
      <4>3. <<v, 1>>[1] = v /\ <<v, 1>>[2] = 1
        OBVIOUS
      <4> QED BY <4>1, <4>2, <4>3
    <3>4. \A i \in 1..Len(t) : t[i] = u[i]
      BY <3>2, <3>3
    <3>5. t = u
      BY <3>2, <3>3, <3>4, SeqEqual
    <3> QED BY <3>1, <3>2, <3>3, <3>5
  <2>4. Width(Append(<<v>>, 1)) = Width(<<v>>) + 1
    BY <2>2, WidthFacts
  <2>5. Width(<<v, 1>>) = w
    BY <2>1, <2>2, <2>3, <2>4
  <2>6. Truncated(n, w) = <<v, 1>> /\ Width(<<n>>) = n
    BY <1>1, <1>3, <2>1 DEF Truncated
  <2>7. <<v, 1>> # <<n>>
    OBVIOUS
  <2> QED BY <1>3, <2>5, <2>6, <2>7 DEF Fits
<1> QED BY <1>2, <1>3

\* In every window as wide as the sidebar and the borders beside it.
LEMMA StripsFitAnywhere ==
  \A columns \in Nat : columns >= Sidebar + 3 => StripsFitIn(columns)
<1> SUFFICES ASSUME NEW columns \in Nat, columns >= Sidebar + 3
             PROVE  StripsFitIn(columns)
  OBVIOUS
<1>1. /\ InnerWidth(columns) \in Nat /\ InnerWidth(columns) # 0
      /\ RightWidth(columns) \in Nat /\ RightWidth(columns) # 0
  BY DEF InnerWidth, RightWidth, Sidebar
<1>2. Tabs \in Seq(Seq(Nat)) /\ Legend \in Seq(Seq(Nat)) /\ Title \in Nat /\ Status \in Nat
  BY DEF Tabs, Legend, Title, Status
<1>3. Fits(TabsLine(InnerWidth(columns)), Spans(Tabs, Len(Tabs), 3), InnerWidth(columns))
  BY <1>1, <1>2, StripFits DEF TabsLine
<1>4. Fits(LegendLine(RightWidth(columns)), Spans(Legend, Len(Legend), 2), RightWidth(columns))
  BY <1>1, <1>2, StripFits DEF LegendLine
<1>5. Fits(HeaderLine(RightWidth(columns)), <<Title>>, RightWidth(columns))
  BY <1>1, <1>2, TruncatedFits DEF HeaderLine
<1>6. Fits(StatusLine(RightWidth(columns)), <<Status>>, RightWidth(columns))
  BY <1>1, <1>2, TruncatedFits DEF StatusLine
<1> QED BY <1>3, <1>4, <1>5, <1>6 DEF StripsFitIn

\* StripsFit: in every window of 32 columns or more, the tab strip, legend, header or status
\* bar, with the texts that the code has, is drawn whole exactly when it fits its pane, and
\* is otherwise cut to a line no longer than that, mark included (truncate_spans and
\* truncate_to_width).
THEOREM StripsAreWhole == LineSpec => []StripsFit
<1>1. ASSUME NEW c \in Cols, NEW more \in 0..110
      PROVE  StripsFitIn(c + more)
  <2>1. c + more \in Nat /\ c + more >= Sidebar + 3
    BY InputLineAssumption DEF Sidebar
  <2> QED BY <2>1, StripsFitAnywhere
<1>2. Cols = Fitting
  BY <1>1 DEF Fitting
<1>3. RowInv => StripsFit
  BY <1>2 DEF RowInv, StripsFit
<1> QED BY RowStarts, RowKept, <1>3, PTL DEF LineSpec, allVars
=============================================================================
