--------------------------- MODULE DeliveryProofs ---------------------------
(* The promises of module Delivery, for any ring, any number of events and of *)
(* connections, any order in which lines are written and appends return, and  *)
(* any number that a start goes on with: what a batch holds, what the client  *)
(* may lose and how, and that it is never ahead of the log.                   *)
EXTENDS Delivery, Integers, FiniteSetTheorems, SequenceTheorems, TLAPS

-----------------------------------------------------------------------------
(* Inductive invariants                                                       *)

\* What the client has yet to show, in the order in which it will.
Road == inq \o s2c
Carries(m) == IF IsEvent(m) THEN {m.event} ELSE IF IsBatch(m) THEN m.events ELSE {}
Held(e) == e \in convo \/ \E m \in ToSet(Road) : e \in Carries(m)

\* Without a connection nothing is under way.
Linked == ~link => s2c = <<>> /\ c2s = <<>> /\ scans = <<>>

\* The client and the manager know of events in the log only.
InLog ==
  /\ ToSet(disk) \subseteq 1..emitted
  /\ ToSet(fanned) \subseteq ToSet(disk) /\ ToSet(ring) \subseteq ToSet(disk)
  /\ \A e \in Event : Held(e) => e \in ToSet(disk)

\* Numbers that the client counts from, or will: its last_seq, those of its Resumes and of
\* their answers, and those that frames to come make its last_seq.
AskedFor(x) ==
  \/ x \in ToSet(outq) \/ x \in ToSet(c2s) \/ \E r \in ToSet(scans) : x = r.since
  \/ \E m \in ToSet(Road) : IsBatch(m) /\ x = m.since
Tells(m, x) == (IsEvent(m) /\ x = seq[m.event]) \/ (IsBatch(m) /\ x = m.latest)
TellsAt(j, x) == Tells(Road[j], x)
Mark(x) == x = lastSeq \/ AskedFor(x) \/ \E m \in ToSet(Road) : Tells(m, x)
MarksInLog == \A x \in Count : Mark(x) => x = 0 \/ \E e \in ToSet(disk) : seq[e] = x

\* A batch brings events from behind its Resume.
BatchesAfter == \A m \in ToSet(Road) : IsBatch(m) => \A e \in m.events : m.since < seq[e]

\* As long as no start reuses numbers, new ones are larger.
NumbersBelow == causes = {} => \A e \in ToSet(disk) \cup Unwritten : seq[e] < nextSeq

\* A scan misses only what comes to the client live, now or later.
ScansSee ==
  \A r \in ToSet(scans) :
    /\ r.scanned \in 0..Len(disk)
    /\ \A e \in ToSet(disk) : e \in Found(r.scanned) \/ e \in Unannounced \/ Held(e)

ServerInv == Linked /\ InLog /\ MarksInLog /\ BatchesAfter /\ NumbersBelow /\ ScansSee

\* A question will bring event e; or a Welcome under way will make the client ask it, of
\* which nothing that the client shows before puts it past e.
Wanted(e) ==
  \/ \E x \in ToSet(outq) \cup ToSet(c2s) : x < seq[e]
  \/ \E r \in ToSet(scans) : r.since < seq[e] /\ e \in Found(r.scanned)
Welcomed(e) ==
  /\ lastSeq < seq[e] /\ \A x \in Count : AskedFor(x) => x < seq[e]
  /\ \E w \in 1..Len(Road) :
       /\ Road[w] = Welcome
       /\ \A j \in 1..w, x \in Count : TellsAt(j, x) => x < seq[e]
\* It is to be fanned out, to this connection.
Awaited(e) == link /\ e \in Unannounced

\* While there is a connection, every event in the log comes to the client; without one,
\* every event does that any mark is past, and the next Welcome will ask for the others.
Tracked ==
  causes = {} =>
    \A e \in ToSet(disk) :
      link \/ (\E x \in Count : Mark(x) /\ seq[e] <= x)
        => Held(e) \/ Wanted(e) \/ Welcomed(e) \/ Awaited(e)

\* No mark is past an event that is still to be written, if it cannot be sent live.
UnwrittenAhead ==
  causes = {} /\ ~link => \A e \in Unwritten, x \in Count : Mark(x) => x < seq[e]

\* What a batch leaves out of its range was sent before it, or comes live.
Filled ==
  causes = {} =>
    \A j \in 1..Len(Road), e \in ToSet(disk) :
      IsBatch(Road[j]) /\ Road[j].since < seq[e] /\ seq[e] <= Road[j].latest =>
        \/ e \in convo
        \/ \E i \in 1..Len(Road) : (i <= j \/ i <= Len(inq)) /\ e \in Carries(Road[i])
        \/ Awaited(e) \/ AgentEvent(e) \in ToSet(Road)

ClientInv == Tracked /\ UnwrittenAhead /\ Filled

\* What was fanned out during a scan, the scan has found or the ring has, unless it overflowed.
RingIsEnd ==
  /\ Len(ring) <= Len(fanned)
  /\ \A i \in 1..Len(ring) : ring[i] = fanned[Len(fanned) - Len(ring) + i]
Hears(r) ==
  /\ r.scanned <= Len(disk) /\ r.heard <= Len(fanned)
  /\ \A i \in 1..r.heard : fanned[i] \in Found(r.scanned)
  /\ Len(ring) < RingCap => Len(fanned) - Len(ring) <= r.heard
Complete(m) ==
  /\ m.known <= Len(fanned)
  /\ m.known <= m.heard + RingCap =>
       \A i \in 1..m.known :
         m.since < seq[fanned[i]] => \E d \in m.events : seq[d] = seq[fanned[i]]
RingInv ==
  /\ RingIsEnd /\ \A r \in ToSet(scans) : Hears(r)
  /\ \A m \in ToSet(Road) : IsBatch(m) => Complete(m)

-----------------------------------------------------------------------------
(* Numbers and sequences                                                      *)

\* In every finite set of numbers each has its place.
LEMMA InOrderOnce ==
  ASSUME NEW S \in SUBSET Nat, IsFiniteSet(S)
  PROVE  \E s \in [1..Cardinality(S) -> S] :
            /\ \A i, j \in 1..Cardinality(S) : i < j => s[i] < s[j]
            /\ \A n \in S : \E i \in 1..Cardinality(S) : s[i] = n
<1> DEFINE Upto(n) == {m \in S : m <= n}
           rank == [n \in S |-> Cardinality(Upto(n))]
           N == Cardinality(S)
<1>1. N \in Nat
  BY FS_CardinalityType
<1>2. ASSUME NEW n \in S
      PROVE  IsFiniteSet(Upto(n)) /\ Cardinality(Upto(n)) \in 1..N
  <2>1. Upto(n) \in SUBSET S /\ n \in Upto(n)
    OBVIOUS
  <2>2. IsFiniteSet(Upto(n)) /\ Cardinality(Upto(n)) <= N
    BY <2>1, FS_Subset
  <2>3. Cardinality(Upto(n)) \in Nat
    BY <2>2, FS_CardinalityType
  <2>4. Cardinality(Upto(n)) # 0
    BY <2>1, <2>2, FS_EmptySet
  <2> QED BY <1>1, <2>2, <2>3, <2>4
<1>3. ASSUME NEW n \in S, NEW m \in S, n < m
      PROVE  rank[n] < rank[m]
  <2>1. Upto(n) \in SUBSET Upto(m) /\ m \in Upto(m) /\ m \notin Upto(n)
    <3>1. n \in Nat /\ m \in Nat /\ \A x \in S : x \in Nat
      OBVIOUS
    <3>2. ASSUME NEW x \in Upto(n) PROVE x \in Upto(m)
      BY <1>3, <3>1
    <3>3. m \in Upto(m) /\ m \notin Upto(n)
      BY <1>3, <3>1
    <3> HIDE DEF Upto
    <3> QED BY <3>2, <3>3
  <2>2. /\ Cardinality(Upto(n)) <= Cardinality(Upto(m))
        /\ Cardinality(Upto(m)) = Cardinality(Upto(n)) => Upto(m) = Upto(n)
    BY <1>2, <2>1, FS_Subset
  <2>3. Cardinality(Upto(n)) # Cardinality(Upto(m))
    BY <2>1, <2>2
  <2>4. Cardinality(Upto(n)) \in 1..N /\ Cardinality(Upto(m)) \in 1..N
    BY <1>2
  <2> HIDE DEF Upto
  <2> QED BY <1>1, <2>2, <2>3, <2>4
<1>4. rank \in [S -> 1..N]
  BY <1>2
<1> HIDE DEF rank, N
<1>5. \A n, m \in S : rank[n] = rank[m] => n = m
  <2> SUFFICES ASSUME NEW n \in S, NEW m \in S, n # m PROVE rank[n] # rank[m]
    OBVIOUS
  <2>1. rank[n] \in 1..N /\ rank[m] \in 1..N /\ n \in Nat /\ m \in Nat
    BY <1>4
  <2> QED BY <1>1, <1>3, <2>1
<1>6. rank \in Injection(S, 1..N)
  BY <1>4, <1>5 DEF Injection, IsInjective
<1>7. IsFiniteSet(1..N) /\ Cardinality(1..N) = N
  BY <1>1, FS_Interval
<1>8. rank \in Surjection(S, 1..N)
  BY <1>6, <1>7, FS_Injection DEF N
<1>9. \A i \in 1..N : \E n \in S : rank[n] = i
  BY <1>8 DEF Surjection
<1> DEFINE s == [i \in 1..N |-> CHOOSE n \in S : rank[n] = i]
<1>10. ASSUME NEW i \in 1..N PROVE s[i] \in S /\ rank[s[i]] = i
  BY <1>9
<1>11. s \in [1..N -> S]
  BY <1>10
<1> HIDE DEF s
<1>12. ASSUME NEW i \in 1..N, NEW j \in 1..N, i < j PROVE s[i] < s[j]
  <2>1. s[i] \in S /\ s[j] \in S /\ rank[s[i]] = i /\ rank[s[j]] = j /\ s[i] \in Nat /\ s[j] \in Nat
    BY <1>10
  <2>2. ~(s[j] < s[i]) /\ s[j] # s[i]
    BY <1>1, <1>3, <1>12, <2>1
  <2> QED BY <2>1, <2>2
<1>13. ASSUME NEW n \in S PROVE s[rank[n]] = n /\ rank[n] \in 1..N
  BY <1>4, <1>5, <1>10
<1> QED BY <1>11, <1>12, <1>13 DEF N

\* The latest event of a batch is one of them, and none is later.
LEMMA MaxIsLast ==
  ASSUME NEW S \in SUBSET Nat, IsFiniteSet(S), S # {}
  PROVE  Max(S) \in S /\ \A n \in S : n <= Max(S)
<1> DEFINE N == Cardinality(S)
<1>1. N \in Nat /\ N # 0
  BY FS_CardinalityType, FS_EmptySet
<1>2. PICK s \in [1..N -> S] : /\ \A i, j \in 1..N : i < j => s[i] < s[j]
                               /\ \A n \in S : \E i \in 1..N : s[i] = n
  BY InOrderOnce
<1> HIDE DEF N
<1>3. s[N] \in S /\ \A n \in S : s[N] >= n
  <2>1. N \in 1..N
    BY <1>1
  <2>2. ASSUME NEW n \in S PROVE s[N] >= n
    <3>1. PICK i \in 1..N : s[i] = n
      BY <1>2
    <3>2. s[i] \in Nat /\ s[N] \in Nat
      BY <1>2, <2>1
    <3> QED BY <1>1, <1>2, <2>1, <3>1, <3>2
  <2> QED BY <1>2, <2>1, <2>2
<1>4. Max(S) \in S /\ \A n \in S : Max(S) >= n
  BY <1>3 DEF Max
<1> QED BY <1>4

\* A sequence without one of its elements.
LEMMA Removed ==
  ASSUME NEW S, NEW s \in Seq(S), NEW i \in DOMAIN s
  PROVE  /\ RemoveAt(s, i) \in Seq(S) /\ DOMAIN RemoveAt(s, i) = 1..(Len(s) - 1)
         /\ \A j \in 1..(Len(s) - 1) : RemoveAt(s, i)[j] = IF j < i THEN s[j] ELSE s[j + 1]
<1> DEFINE a == SubSeq(s, 1, i - 1)  b == SubSeq(s, i + 1, Len(s))
<1>1. Len(s) \in Nat /\ i \in 1..Len(s) /\ \A j \in 1..Len(s) : s[j] \in S
  OBVIOUS
<1>2. /\ a \in Seq(S) /\ Len(a) = i - 1 /\ \A j \in 1..(i - 1) : a[j] = s[j]
  BY <1>1, SubSeqProperties
<1>3. /\ b \in Seq(S) /\ Len(b) = Len(s) - i
      /\ \A j \in 1..(Len(s) - i) : b[j] = s[i + j]
  <2>1. \A j \in (i + 1)..Len(s) : s[j] \in S
    BY <1>1
  <2>2. /\ b \in Seq(S) /\ Len(b) = IF i + 1 <= Len(s) THEN Len(s) - (i + 1) + 1 ELSE 0
        /\ \A j \in 1..(Len(s) - (i + 1) + 1) : b[j] = s[i + 1 + j - 1]
    BY <1>1, <2>1, SubSeqProperties
  <2>3. \A j \in 1..(Len(s) - i) : i + 1 + j - 1 = i + j
    BY <1>1
  <2> HIDE DEF b
  <2> QED BY <1>1, <2>2, <2>3
<1> HIDE DEF a, b
<1>4. /\ a \o b \in Seq(S) /\ Len(a \o b) = Len(a) + Len(b)
      /\ \A j \in 1..(Len(a) + Len(b)) : (a \o b)[j] = IF j <= Len(a) THEN a[j] ELSE b[j - Len(a)]
  BY <1>2, <1>3, ConcatProperties
<1>5. RemoveAt(s, i) = a \o b
  BY DEF RemoveAt, a, b
<1>6. ASSUME NEW j \in 1..(Len(s) - 1)
      PROVE  (a \o b)[j] = IF j < i THEN s[j] ELSE s[j + 1]
  <2>1. CASE j < i
    <3>1. j \in 1..(i - 1) /\ j <= Len(a) /\ j \in 1..(Len(a) + Len(b))
      BY <1>1, <1>2, <1>3, <2>1
    <3> QED BY <1>2, <1>4, <2>1, <3>1
  <2>2. CASE ~(j < i)
    <3>1. j - (i - 1) \in 1..(Len(s) - i) /\ ~(j <= i - 1) /\ j \in 1..(i - 1 + (Len(s) - i))
          /\ i + (j - (i - 1)) = j + 1
      BY <1>1, <2>2
    <3>2. (a \o b)[j] = b[j - (i - 1)]
      BY <1>2, <1>3, <1>4, <3>1
    <3>3. b[j - (i - 1)] = s[j + 1]
      BY <1>3, <3>1
    <3> QED BY <2>2, <3>2, <3>3
  <2> QED BY <2>1, <2>2
<1>7. /\ a \o b \in Seq(S) /\ DOMAIN (a \o b) = 1..(Len(s) - 1)
  BY SMTT(60), <1>1, <1>2, <1>3, <1>4
<1> QED BY <1>5, <1>6, <1>7

\* The beginning of a sequence.
LEMMA Beginning ==
  ASSUME NEW S, NEW s \in Seq(S), NEW k \in 0..Len(s)
  PROVE  /\ SubSeq(s, 1, k) \in Seq(S) /\ Len(SubSeq(s, 1, k)) = k
         /\ \A j \in 1..k : SubSeq(s, 1, k)[j] = s[j]
<1>1. Len(s) \in Nat /\ \A j \in 1..k : s[j] \in S
  OBVIOUS
<1>2. /\ SubSeq(s, 1, k) \in Seq(S) /\ Len(SubSeq(s, 1, k)) = IF 1 <= k THEN k - 1 + 1 ELSE 0
      /\ \A j \in 1..(k - 1 + 1) : SubSeq(s, 1, k)[j] = s[1 + j - 1]
  BY <1>1, SubSeqProperties
<1>3. \A j \in 1..k : 1 + j - 1 = j /\ j \in 1..(k - 1 + 1)
  BY <1>1
<1> DEFINE b == SubSeq(s, 1, k)
<1> HIDE DEF b
<1>4. /\ b \in Seq(S) /\ Len(b) = IF 1 <= k THEN k - 1 + 1 ELSE 0
      /\ \A j \in 1..(k - 1 + 1) : b[j] = s[1 + j - 1]
  BY <1>2 DEF b
<1>5. b \in Seq(S) /\ Len(b) = k /\ \A j \in 1..k : b[j] = s[j]
  BY <1>1, <1>3, <1>4
<1> QED BY <1>5 DEF b

\* What an element more adds.
LEMMA AppendElements ==
  ASSUME NEW S, NEW q \in Seq(S), NEW x \in S
  PROVE  ToSet(Append(q, x)) = ToSet(q) \cup {x}
<1>1. Len(q) \in Nat /\ DOMAIN q = 1..Len(q) /\ \A i \in 1..Len(q) : q[i] \in S
  OBVIOUS
<1> DEFINE r == Append(q, x)
<1>2. /\ r \in Seq(S) /\ Len(r) = Len(q) + 1 /\ \A i \in 1..Len(q) : r[i] = q[i]
      /\ r[Len(q) + 1] = x
  BY AppendProperties
<1>3. DOMAIN r = 1..(Len(q) + 1)
  BY <1>2
<1> HIDE DEF r
<1>4. ASSUME NEW i \in DOMAIN r PROVE r[i] \in ToSet(q) \cup {x}
  BY <1>1, <1>2, <1>3, <1>4 DEF ToSet
<1>5. ASSUME NEW i \in DOMAIN q PROVE q[i] \in ToSet(r)
  BY <1>1, <1>2, <1>3, <1>5 DEF ToSet
<1>6. x \in ToSet(r)
  BY <1>1, <1>2, <1>3 DEF ToSet
<1> QED BY <1>4, <1>5, <1>6 DEF ToSet, r

\* The first element is one of them, and so are the others.
LEMMA HeadElements ==
  ASSUME NEW S, NEW q \in Seq(S), q # <<>>
  PROVE  /\ Head(q) \in ToSet(q) /\ ToSet(Tail(q)) \subseteq ToSet(q)
         /\ ToSet(q) = ToSet(Tail(q)) \cup {Head(q)}
<1>1. Len(q) \in Nat /\ DOMAIN q = 1..Len(q) /\ \A i \in 1..Len(q) : q[i] \in S
  OBVIOUS
<1> DEFINE t == Tail(q)
<1>2. /\ t \in Seq(S) /\ Len(t) = Len(q) - 1 /\ \A i \in 1..Len(t) : t[i] = q[i + 1]
  BY HeadTailProperties
<1>3. DOMAIN t = 1..(Len(q) - 1) /\ Len(q) # 0
  BY <1>2
<1>4. Head(q) = q[1]
  OBVIOUS
<1> HIDE DEF t
<1>5. ASSUME NEW i \in DOMAIN t PROVE t[i] \in ToSet(q)
  BY <1>1, <1>2, <1>3, <1>5 DEF ToSet
<1>6. ASSUME NEW i \in DOMAIN q, i # 1 PROVE q[i] \in ToSet(t)
  <2>1. i - 1 \in DOMAIN t /\ t[i - 1] = q[i - 1 + 1] /\ i - 1 + 1 = i
    BY <1>1, <1>2, <1>3, <1>6
  <2> QED BY <2>1 DEF ToSet
<1>7. q[1] \in ToSet(q)
  BY <1>1, <1>3 DEF ToSet
<1> QED BY <1>4, <1>5, <1>6, <1>7 DEF ToSet, t

\* The elements of a sequence are of the set it is over.
LEMMA ElementsOf ==
  ASSUME NEW S, NEW q \in Seq(S)
  PROVE  ToSet(q) \subseteq S
<1>1. \A i \in DOMAIN q : q[i] \in S
  OBVIOUS
<1> QED BY <1>1 DEF ToSet

\* What is in a sequence, and in one of a single element.
LEMMA Elements ==
  ASSUME NEW S, NEW q \in Seq(S), NEW x \in S
  PROVE  /\ ToSet(q) \subseteq S /\ ToSet(<<>>) = {} /\ ToSet(<<x>>) = {x}
         /\ ToSet(Append(q, x)) = ToSet(q) \cup {x}
         /\ q # <<>> => /\ Head(q) \in ToSet(q) /\ ToSet(Tail(q)) \subseteq ToSet(q)
                        /\ ToSet(q) = ToSet(Tail(q)) \cup {Head(q)}
<1>1. Len(q) \in Nat /\ DOMAIN q = 1..Len(q) /\ \A i \in 1..Len(q) : q[i] \in S
  OBVIOUS
<1>2. ToSet(q) \subseteq S /\ ToSet(<<>>) = {} /\ ToSet(<<x>>) = {x}
  BY <1>1 DEF ToSet
<1>3. ToSet(Append(q, x)) = ToSet(q) \cup {x}
  BY AppendElements
<1>4. ASSUME q # <<>>
      PROVE  Head(q) \in ToSet(q) /\ ToSet(Tail(q)) \subseteq ToSet(q)
             /\ ToSet(q) = ToSet(Tail(q)) \cup {Head(q)}
  BY <1>4, HeadElements
<1> QED BY <1>2, <1>3, <1>4

\* What is in two sequences, one after the other.
LEMMA ElementsOfBoth ==
  ASSUME NEW S, NEW q \in Seq(S), NEW r \in Seq(S)
  PROVE  ToSet(q \o r) = ToSet(q) \cup ToSet(r)
<1> DEFINE b == q \o r
<1>1. /\ b \in Seq(S) /\ Len(b) = Len(q) + Len(r)
      /\ \A i \in 1..(Len(q) + Len(r)) : b[i] = IF i <= Len(q) THEN q[i] ELSE r[i - Len(q)]
  BY ConcatProperties
<1>2. Len(q) \in Nat /\ Len(r) \in Nat /\ DOMAIN q = 1..Len(q) /\ DOMAIN r = 1..Len(r)
  OBVIOUS
<1>3. DOMAIN b = 1..(Len(q) + Len(r))
  BY <1>1
<1> HIDE DEF b
<1>4. ASSUME NEW i \in DOMAIN q PROVE q[i] \in ToSet(b)
  <2>1. i \in DOMAIN b /\ b[i] = q[i]
    BY <1>1, <1>2, <1>3
  <2> QED BY <2>1 DEF ToSet
<1>5. ASSUME NEW i \in DOMAIN r PROVE r[i] \in ToSet(b)
  <2>1. i + Len(q) \in 1..(Len(q) + Len(r)) /\ ~(i + Len(q) <= Len(q)) /\ i + Len(q) - Len(q) = i
    BY <1>2
  <2>2. b[i + Len(q)] = r[i]
    BY <1>1, <2>1
  <2> QED BY <1>3, <2>1, <2>2 DEF ToSet
<1>6. ASSUME NEW i \in DOMAIN b PROVE b[i] \in ToSet(q) \cup ToSet(r)
  <2>1. CASE i <= Len(q)
    BY <1>1, <1>2, <1>3, <2>1 DEF ToSet
  <2>2. CASE ~(i <= Len(q))
    <3>1. i - Len(q) \in DOMAIN r /\ b[i] = r[i - Len(q)]
      BY <1>1, <1>2, <1>3, <2>2
    <3> QED BY <3>1 DEF ToSet
  <2> QED BY <2>1, <2>2
<1> QED BY <1>4, <1>5, <1>6 DEF ToSet, b

\* A sequence without its i-th element.
LEMMA RemovedElements ==
  ASSUME NEW S, NEW s \in Seq(S), NEW i \in DOMAIN s
  PROVE  ToSet(s) = ToSet(RemoveAt(s, i)) \cup {s[i]}
<1>1. PICK t : t = RemoveAt(s, i)
  OBVIOUS
<1>2. /\ DOMAIN t = 1..(Len(s) - 1)
      /\ \A j \in 1..(Len(s) - 1) : t[j] = IF j < i THEN s[j] ELSE s[j + 1]
  BY <1>1, Removed
<1>3. Len(s) \in Nat /\ DOMAIN s = 1..Len(s) /\ i \in 1..Len(s)
  OBVIOUS
<1>4. ASSUME NEW j \in DOMAIN t PROVE \E g \in DOMAIN s : t[j] = s[g]
  <2>1. j \in 1..Len(s) /\ j + 1 \in 1..Len(s)
    BY <1>2, <1>3
  <2> QED BY <1>2, <1>3, <2>1
<1>5. ASSUME NEW g \in DOMAIN s, g # i PROVE \E j \in DOMAIN t : t[j] = s[g]
  <2>1. CASE g < i
    <3>1. g \in DOMAIN t
      BY <1>2, <1>3, <2>1
    <3> QED BY <1>2, <2>1, <3>1
  <2>2. CASE ~(g < i)
    <3>1. g - 1 \in DOMAIN t /\ ~(g - 1 < i) /\ (g - 1) + 1 = g
      BY <1>2, <1>3, <1>5, <2>2
    <3> QED BY <1>2, <3>1
  <2> QED BY <2>1, <2>2
<1> QED BY <1>1, <1>4, <1>5 DEF ToSet

\* What of a sequence is behind its first k elements.
LEMMA Rest ==
  ASSUME NEW S, NEW s \in Seq(S), NEW k \in 0..Len(s), NEW j \in (k + 1)..Len(s)
  PROVE  s[j] \in ToSet(SubSeq(s, k + 1, Len(s)))
<1> DEFINE r == SubSeq(s, k + 1, Len(s))
<1>1. Len(s) \in Nat /\ \A i \in (k + 1)..Len(s) : s[i] \in S
  OBVIOUS
<1>2. /\ r \in Seq(S) /\ Len(r) = IF k + 1 <= Len(s) THEN Len(s) - (k + 1) + 1 ELSE 0
      /\ \A i \in 1..(Len(s) - (k + 1) + 1) : r[i] = s[k + 1 + i - 1]
  BY <1>1, SubSeqProperties
<1> HIDE DEF r
<1>3. j - k \in 1..(Len(s) - (k + 1) + 1) /\ k + 1 + (j - k) - 1 = j /\ j - k \in 1..Len(r)
  BY <1>1, <1>2
<1>4. r[j - k] = s[j]
  BY <1>2, <1>3
<1>5. j - k \in DOMAIN r
  BY <1>2, <1>3
<1>6. s[j] \in {r[i] : i \in DOMAIN r}
  BY <1>4, <1>5
<1> QED BY <1>6 DEF ToSet, r

\* A sequence in two parts.
LEMMA SplitElements ==
  ASSUME NEW S, NEW s \in Seq(S), NEW k \in 0..Len(s)
  PROVE  ToSet(s) = ToSet(SubSeq(s, 1, k)) \cup ToSet(SubSeq(s, k + 1, Len(s)))
<1>0. Len(s) \in Nat /\ DOMAIN s = 1..Len(s) /\ k \in Nat /\ \A i \in 1..Len(s) : s[i] \in S
  OBVIOUS
<1>1. PICK a, b : a = SubSeq(s, 1, k) /\ b = SubSeq(s, k + 1, Len(s))
  OBVIOUS
<1>2. DOMAIN a = 1..k /\ \A j \in 1..k : a[j] = s[j]
  <2>1. a \in Seq(S) /\ Len(a) = k /\ \A j \in 1..k : a[j] = s[j]
    BY <1>1, Beginning
  <2> QED BY <2>1
<1>3. \A j \in (k + 1)..Len(s) : s[j] \in ToSet(b)
  BY <1>1, Rest
<1>4. ASSUME NEW j \in DOMAIN b PROVE \E g \in DOMAIN s : b[j] = s[g]
  <2>1. \A i \in (k + 1)..Len(s) : s[i] \in S
    BY <1>0
  <2>2. /\ b \in Seq(S) /\ Len(b) = IF k + 1 <= Len(s) THEN Len(s) - (k + 1) + 1 ELSE 0
        /\ \A i \in 1..(Len(s) - (k + 1) + 1) : b[i] = s[k + 1 + i - 1]
    BY <1>0, <1>1, <2>1, SubSeqProperties
  <2>3. j \in 1..Len(b) /\ Len(b) \in Nat
    BY <2>2
  <2>4. PICK n, N, g : n = Len(b) /\ N = Len(s) /\ g = k + 1 + j - 1
    OBVIOUS
  <2>5. n = IF k + 1 <= N THEN N - (k + 1) + 1 ELSE 0
    BY <2>2, <2>4
  <2>6. j \in 1..n /\ N \in Nat /\ k \in Nat
    BY <1>0, <2>3, <2>4
  <2>7. j \in 1..(N - (k + 1) + 1) /\ g \in 1..N
    <3>1. CASE k + 1 <= N
      BY <2>4, <2>5, <2>6, <3>1
    <3>2. CASE ~(k + 1 <= N)
      BY <2>5, <2>6, <3>2
    <3> QED BY <3>1, <3>2
  <2> QED BY <1>0, <2>2, <2>4, <2>7
<1>5. ToSet(a) \subseteq ToSet(s)
  BY <1>0, <1>2 DEF ToSet
<1>6. ToSet(b) \subseteq ToSet(s)
  BY <1>4 DEF ToSet
<1>7. ASSUME NEW j \in DOMAIN s PROVE s[j] \in ToSet(a) \cup ToSet(b)
  <2>1. CASE j \in 1..k
    BY <1>2, <2>1 DEF ToSet
  <2>2. CASE j \in (k + 1)..Len(s)
    BY <1>3, <2>2
  <2> QED BY <1>0, <2>1, <2>2
<1>8. ToSet(s) \subseteq ToSet(a) \cup ToSet(b)
  BY <1>7 DEF ToSet
<1> QED BY <1>1, <1>5, <1>6, <1>8

\* One sequence after another, element by element.
LEMMA Joined ==
  ASSUME NEW S, NEW a \in Seq(S), NEW b \in Seq(S)
  PROVE  /\ a \o b \in Seq(S) /\ Len(a \o b) = Len(a) + Len(b)
         /\ \A j \in 1..Len(a) : (a \o b)[j] = a[j]
         /\ \A j \in (Len(a) + 1)..Len(a \o b) : (a \o b)[j] = b[j - Len(a)]
<1>1. /\ a \o b \in Seq(S) /\ Len(a \o b) = Len(a) + Len(b)
      /\ \A j \in 1..(Len(a) + Len(b)) : (a \o b)[j] = IF j <= Len(a) THEN a[j] ELSE b[j - Len(a)]
  BY ConcatProperties
<1>2. Len(a) \in Nat /\ Len(b) \in Nat
  OBVIOUS
<1> DEFINE c == a \o b
<1> HIDE DEF c
<1>3. /\ c \in Seq(S) /\ Len(c) = Len(a) + Len(b)
      /\ \A j \in 1..(Len(a) + Len(b)) : c[j] = IF j <= Len(a) THEN a[j] ELSE b[j - Len(a)]
  BY <1>1 DEF c
<1>4. \A j \in 1..Len(a) : c[j] = a[j]
  BY <1>2, <1>3
<1>5. \A j \in (Len(a) + 1)..Len(c) : c[j] = b[j - Len(a)]
  BY <1>2, <1>3
<1> QED BY <1>3, <1>4, <1>5 DEF c

-----------------------------------------------------------------------------
(* Types                                                                      *)

\* A frame is one of three things, with the fields of that thing.
LEMMA Frames ==
  /\ Welcome \in Inbound /\ ~IsEvent(Welcome) /\ ~IsBatch(Welcome)
  /\ \A e \in Event : AgentEvent(e) \in Inbound /\ IsEvent(AgentEvent(e))
                      /\ ~IsBatch(AgentEvent(e)) /\ AgentEvent(e).event = e
  /\ \A m \in Inbound :
       /\ m = Welcome \/ IsEvent(m) \/ IsBatch(m)
       /\ IsEvent(m) => m.event \in Event /\ m = AgentEvent(m.event) /\ ~IsBatch(m)
       /\ IsBatch(m) => /\ m.events \in SUBSET Event /\ m.latest \in Count
                        /\ m.since \in Count /\ m.heard \in Nat /\ m.known \in Nat
<1>1. /\ Welcome \in Inbound /\ ~IsEvent(Welcome) /\ ~IsBatch(Welcome)
  <2>1. Welcome \in Inbound
    BY DEF Inbound
  <2>2. ~IsEvent(Welcome) /\ ~IsBatch(Welcome)
    BY DEF Welcome, IsEvent, IsBatch
  <2> QED BY <2>1, <2>2
<1>2. ASSUME NEW e \in Event
      PROVE  /\ AgentEvent(e) \in Inbound /\ IsEvent(AgentEvent(e))
             /\ ~IsBatch(AgentEvent(e)) /\ AgentEvent(e).event = e
  <2>1. AgentEvent(e) \in Inbound
    BY DEF Inbound
  <2>2. IsEvent(AgentEvent(e)) /\ ~IsBatch(AgentEvent(e)) /\ AgentEvent(e).event = e
    BY DEF AgentEvent, IsEvent, IsBatch
  <2> QED BY <2>1, <2>2
<1>3. ASSUME NEW m \in Batch
      PROVE  /\ IsBatch(m) /\ ~IsEvent(m)
             /\ m.events \in SUBSET Event /\ m.latest \in Count
             /\ m.since \in Count /\ m.heard \in Nat /\ m.known \in Nat
  BY DEF Batch, IsBatch, IsEvent
<1>4. ASSUME NEW m \in Inbound
      PROVE  /\ m = Welcome \/ IsEvent(m) \/ IsBatch(m)
             /\ IsEvent(m) => m.event \in Event /\ m = AgentEvent(m.event) /\ ~IsBatch(m)
             /\ IsBatch(m) => /\ m.events \in SUBSET Event /\ m.latest \in Count
                              /\ m.since \in Count /\ m.heard \in Nat /\ m.known \in Nat
  <2>1. CASE m = Welcome
    BY <1>1, <2>1
  <2>2. CASE \E e \in Event : m = AgentEvent(e)
    BY <1>2, <2>2
  <2>3. CASE m \in Batch
    BY <1>3, <2>3
  <2>4. m = Welcome \/ (\E e \in Event : m = AgentEvent(e)) \/ m \in Batch
    BY DEF Inbound
  <2> QED BY <2>1, <2>2, <2>3, <2>4
<1> QED BY <1>1, <1>2, <1>4

\* What a frame carries.
LEMMA Carried ==
  /\ Carries(Welcome) = {}
  /\ \A e \in Event : Carries(AgentEvent(e)) = {e}
  /\ \A m \in Inbound : /\ Carries(m) \in SUBSET Event
                        /\ IsBatch(m) => Carries(m) = m.events
                        /\ IsEvent(m) => Carries(m) = {m.event}
<1>1. Carries(Welcome) = {}
  BY Frames DEF Carries
<1>2. \A e \in Event : Carries(AgentEvent(e)) = {e}
  BY Frames DEF Carries
<1>3. ASSUME NEW m \in Inbound
      PROVE  /\ Carries(m) \in SUBSET Event
             /\ IsBatch(m) => Carries(m) = m.events
             /\ IsEvent(m) => Carries(m) = {m.event}
  <2>1. IsEvent(m) => Carries(m) = {m.event} /\ m.event \in Event /\ ~IsBatch(m)
    BY Frames DEF Carries
  <2>2. IsBatch(m) => Carries(m) = m.events /\ m.events \in SUBSET Event
    BY <2>1, Frames DEF Carries
  <2>3. m = Welcome => Carries(m) = {}
    BY <1>1
  <2> QED BY <2>1, <2>2, <2>3, Frames
<1> QED BY <1>1, <1>2, <1>3

\* What handleResume finds is behind the Resume, and its end is the Resume's last_seq or
\* the number of an event found.
LEMMA BatchRange ==
  ASSUME TypeOK, NEW r \in Resumed, NEW k \in 0..Len(disk)
  PROVE  /\ Merge(r, k) \in SUBSET Event
         /\ \A e \in Merge(r, k) : r.since < seq[e] /\ e \in ToSet(disk) \cup ToSet(ring)
         /\ Latest(Merge(r, k), r.since) \in Count
         /\ \/ Latest(Merge(r, k), r.since) = r.since
            \/ \E e \in Merge(r, k) : Latest(Merge(r, k), r.since) = seq[e]
<1> DEFINE evs == Merge(r, k)
<1> USE DeliveryAssumption
<1>0. /\ disk \in Seq(Event) /\ ring \in Seq(Event) /\ seq \in [Event -> 0..emitted]
      /\ emitted \in Count /\ Len(disk) \in Nat
  BY DEF TypeOK
<1>1. Found(k) \subseteq ToSet(disk)
  <2>1. DOMAIN disk = 1..Len(disk) /\ 1..k \subseteq 1..Len(disk)
    BY <1>0
  <2> QED BY <2>1, Zenon DEF Found, ToSet
<1>2. ToSet(disk) \subseteq Event /\ ToSet(ring) \subseteq Event
  BY <1>0, ElementsOf
<1>3. \A e \in evs : r.since < seq[e] /\ e \in ToSet(disk) \cup ToSet(ring)
  BY <1>1 DEF Merge
<1>4. evs \in SUBSET Event
  BY <1>2, <1>3
<1>5. r.since \in Count
  BY DEF Resumed
<1> HIDE DEF evs
<1>6. CASE evs = {}
  <2>1. Latest(evs, r.since) = r.since
    BY <1>6 DEF Latest
  <2> QED BY <1>3, <1>4, <1>5, <2>1 DEF evs
<1>7. CASE evs # {}
  <2> DEFINE S == {seq[e] : e \in evs}
  <2>1. S \subseteq Count /\ S # {} /\ \A n \in S : \E e \in evs : n = seq[e]
    <3>1. \A e \in evs : seq[e] \in Count
      BY <1>0, <1>4 DEF Count
    <3> QED BY <1>7, <3>1
  <2>2. IsFiniteSet(S) /\ S \in SUBSET Nat
    <3>1. IsFiniteSet(Count) /\ Count \subseteq Nat
      BY FS_Interval DEF Count
    <3> HIDE DEF S
    <3> QED BY <2>1, <3>1, FS_Subset
  <2>3. Latest(evs, r.since) = Max(S)
    BY <1>7 DEF Latest
  <2> HIDE DEF S
  <2>4. Max(S) \in S
    BY <2>1, <2>2, MaxIsLast
  <2> QED BY <1>3, <1>4, <2>1, <2>3, <2>4 DEF evs
<1> QED BY <1>6, <1>7

\* The batch that ends a scan is a frame.
LEMMA BatchType ==
  ASSUME TypeOK, NEW r \in Resumed, NEW k \in 0..Len(disk), NEW m,
         m = ReplayBatch(Merge(r, k), Latest(Merge(r, k), r.since), r)
  PROVE  /\ m \in Inbound /\ IsBatch(m) /\ ~IsEvent(m)
         /\ m.events = Merge(r, k) /\ m.latest = Latest(Merge(r, k), r.since)
         /\ m.since = r.since /\ m.heard = r.heard /\ m.known = Len(fanned)
<1>1. Merge(r, k) \in SUBSET Event /\ Latest(Merge(r, k), r.since) \in Count
  BY BatchRange
<1>2. PICK evs, l : evs = Merge(r, k) /\ l = Latest(Merge(r, k), r.since)
  OBVIOUS
<1>3. Len(fanned) \in Nat /\ r.since \in Count /\ r.heard \in Nat
  BY DEF TypeOK, Resumed
<1>4. m = [type |-> "ReplayBatch", events |-> evs, latest |-> l,
           since |-> r.since, heard |-> r.heard, known |-> Len(fanned)]
  BY <1>2 DEF ReplayBatch
<1>5. m \in Batch
  BY <1>1, <1>2, <1>3, <1>4 DEF Batch
<1>6. m \in Inbound
  BY <1>5 DEF Inbound
<1> QED BY <1>2, <1>4, <1>6 DEF IsBatch, IsEvent


\* Every step keeps the types.
LEMMA TypeStep == TypeOK /\ [Next]_vars => TypeOK'
<1> SUFFICES ASSUME TypeOK, [Next]_vars PROVE TypeOK'
  OBVIOUS
<1> USE DeliveryAssumption
<1>0. /\ emitted \in Count /\ born \in 0..emitted /\ nextSeq \in 1..(emitted + 1)
      /\ seq \in [Event -> 0..emitted] /\ disk \in Seq(Event) /\ fanned \in Seq(Event)
      /\ ring \in Seq(Event) /\ Len(ring) <= RingCap /\ Len(ring) \in Nat
      /\ s2c \in Seq(Inbound) /\ inq \in Seq(Inbound)
      /\ c2s \in Seq(Count) /\ outq \in Seq(Count) /\ scans \in Seq(Resumed)
      /\ lastSeq \in Count /\ convo \subseteq Event
      /\ link \in BOOLEAN /\ conns \in 0..MaxConns /\ causes \subseteq {"answer", "late", "number"}
  BY DEF TypeOK
<1>c. /\ Count = 0..MaxEvents /\ Event = 1..MaxEvents /\ emitted \in Nat
      /\ Len(disk) \in Nat /\ Len(fanned) \in Nat
  BY <1>0 DEF Count, Event
<1>1. CASE Emit
  <2>1. emitted' \in Count /\ emitted' = emitted + 1 /\ emitted' \in Event
    BY <1>c, <1>1 DEF Emit
  <2>2. born' \in 0..emitted' /\ nextSeq' \in 1..(emitted' + 1)
    BY <1>0, <1>c, <1>1, <2>1 DEF Emit
  <2>3. seq' \in [Event -> 0..emitted']
    <3>1. 0..emitted \subseteq 0..emitted' /\ nextSeq \in 0..emitted'
      BY <1>0, <1>c, <2>1
    <3>2. seq' = [seq EXCEPT ![emitted'] = nextSeq]
      BY <1>1 DEF Emit
    <3> QED BY <1>0, <3>1, <3>2
  <2> QED BY <1>0, <1>1, <2>1, <2>2, <2>3 DEF Emit, TypeOK, manager, net, client
<1>2. ASSUME NEW e \in Event, Write(e) PROVE TypeOK'
  <2>1. disk' \in Seq(Event)
    BY <1>0, <1>2 DEF Write
  <2> QED BY <1>0, <1>2, <2>1 DEF Write, TypeOK, manager, net, client
<1>3. ASSUME NEW e \in Event, FanOut(e) PROVE TypeOK'
  <2>1. fanned' \in Seq(Event)
    BY <1>0, <1>3 DEF FanOut
  <2>2. ring' \in Seq(Event) /\ Len(ring') <= RingCap
    <3>1. Append(ring, e) \in Seq(Event) /\ Len(Append(ring, e)) = Len(ring) + 1
      BY <1>0, AppendProperties
    <3> DEFINE r == Append(ring, e)
    <3>2. ring' = IF Len(r) > RingCap THEN Tail(r) ELSE r
      BY <1>3 DEF FanOut, Push
    <3>3. r \in Seq(Event) /\ Len(r) = Len(ring) + 1
      BY <3>1 DEF r
    <3> HIDE DEF r
    <3> QED BY <1>0, <3>2, <3>3
  <2>3. AgentEvent(e) \in Inbound
    BY Frames
  <2>4. s2c' \in Seq(Inbound)
    BY <1>0, <1>3, <2>3 DEF FanOut
  <2> QED BY <1>0, <1>3, <2>1, <2>2, <2>4 DEF FanOut, TypeOK, log, client
<1>4. CASE ResumeStart
  <2>1. Head(c2s) \in Count /\ c2s' \in Seq(Count)
    BY SMTT(60), <1>0, <1>4 DEF ResumeStart
  <2>2. [since |-> Head(c2s), scanned |-> Len(disk), heard |-> Len(fanned)] \in Resumed
    BY <1>c, <2>1 DEF Resumed
  <2>3. scans' \in Seq(Resumed)
    BY <1>0, <1>4, <2>2 DEF ResumeStart
  <2> QED BY <1>0, <1>4, <2>1, <2>3 DEF ResumeStart, TypeOK, log, manager, client
<1>5. ASSUME NEW i \in DOMAIN scans, ResumeFinish(i) PROVE TypeOK'
  <2>1. PICK k \in scans[i].scanned..Len(disk) :
          LET evs == Merge(scans[i], k)
          IN  s2c' = Append(s2c, ReplayBatch(evs, Latest(evs, scans[i].since), scans[i]))
    BY <1>5 DEF ResumeFinish
  <2>2. scans[i] \in Resumed /\ scans[i].scanned \in Nat
    <3>1. scans[i] \in Resumed
      BY <1>0
    <3> QED BY <3>1 DEF Resumed
  <2>3. k \in 0..Len(disk)
    BY <1>c, <2>2
  <2>4. \E m \in Inbound : s2c' = Append(s2c, m)
    BY <2>1, <2>2, <2>3, BatchType
  <2>5. s2c' \in Seq(Inbound)
    BY <1>0, <2>4
  <2>6. scans' \in Seq(Resumed)
    BY <1>0, <1>5, Removed DEF ResumeFinish
  <2> QED BY <1>0, <1>5, <2>5, <2>6 DEF ResumeFinish, TypeOK, log, manager, client
<1>6. CASE Connect
  <2>1. s2c' \in Seq(Inbound) /\ conns' \in 0..MaxConns
    BY <1>0, <1>6, Frames DEF Connect
  <2> QED BY <1>0, <1>6, <2>1 DEF Connect, TypeOK, log, manager, client
<1>7. ASSUME NEW k \in 0..Len(s2c), Cut(k),
             UNCHANGED <<emitted, seq, disk, fanned, conns, outq, lastSeq, convo>>,
             born' \in 0..emitted, nextSeq' \in 1..(emitted + 1),
             ring' \in Seq(Event) /\ Len(ring') <= RingCap,
             causes' \subseteq {"answer", "late", "number"}
      PROVE  TypeOK'
  <2>1. inq' = inq \o SubSeq(s2c, 1, k)
    BY <1>7 DEF Cut, Read
  <2>2. inq' \in Seq(Inbound)
    BY <1>0, <2>1, Beginning
  <2>3. s2c' = <<>> /\ c2s' = <<>> /\ scans' = <<>> /\ link' = FALSE
    BY <1>7 DEF Cut
  <2>4. s2c' \in Seq(Inbound) /\ c2s' \in Seq(Count) /\ scans' \in Seq(Resumed)
    BY <2>3
  <2> QED BY <1>0, <1>7, <2>2, <2>3, <2>4 DEF TypeOK
<1>8. ASSUME NEW k PROVE Losses(k) \subseteq {"answer", "late", "number"}
  BY DEF Losses
<1>9. CASE Drop
  <2>1. PICK k \in 0..Len(s2c) : Cut(k) /\ causes' = causes \cup Losses(k)
    BY <1>9 DEF Drop
  <2>2. causes' \subseteq {"answer", "late", "number"}
    BY <1>0, <1>8, <2>1
  <2> QED BY <1>0, <1>7, <1>9, <2>1, <2>2 DEF Drop, log, manager
<1>10. CASE Restart
  <2>1. PICK k \in 0..Len(s2c) :
          Cut(k) /\ causes' = causes \cup Losses(k) \cup Reused(nextSeq')
    BY <1>10 DEF Restart
  <2>2. Reused(nextSeq') \subseteq {"answer", "late", "number"}
    BY DEF Reused
  <2>3. causes' \subseteq {"answer", "late", "number"}
    BY <1>0, <1>8, <2>1, <2>2
  <2>4. nextSeq' \in 1..(emitted + 1)
    <3>1. nextSeq' = 1 \/ (disk # <<>> /\ nextSeq' = seq[Last(disk)] + 1)
      BY <1>10 DEF Restart, NextSeqs
    <3>2. disk # <<>> => Last(disk) \in Event
      BY <1>0 DEF Last
    <3>3. disk # <<>> => seq[Last(disk)] \in 0..emitted
      BY <1>0, <3>2
    <3>4. 1 \in 1..(emitted + 1) /\ \A n \in 0..emitted : n + 1 \in 1..(emitted + 1)
      BY <1>c
    <3> QED BY <3>1, <3>3, <3>4
  <2>5. born' \in 0..emitted /\ ring' \in Seq(Event) /\ Len(ring') <= RingCap
    BY <1>c, <1>10 DEF Restart
  <2>6. UNCHANGED <<emitted, seq, disk, fanned, conns, outq, lastSeq, convo>>
    BY <1>10 DEF Restart
  <2> QED BY <1>7, <2>1, <2>3, <2>4, <2>5, <2>6
<1>11. CASE Receive
  <2>1. inq' \in Seq(Inbound) /\ s2c' \in Seq(Inbound)
    BY <1>0, <1>11 DEF Receive
  <2> QED BY <1>0, <1>11, <2>1 DEF Receive, TypeOK, log, manager
<1>12. CASE Transmit
  <2>1. outq' \in Seq(Count) /\ c2s' \in Seq(Count)
    BY <1>0, <1>12 DEF Transmit
  <2> QED BY <1>0, <1>12, <2>1 DEF Transmit, TypeOK, log, manager
<1>13. ASSUME Take PROVE inq' \in Seq(Inbound) /\ Head(inq) \in Inbound
  BY <1>0, <1>13 DEF Take
<1>14. CASE OnWelcome
  <2>1. outq' \in Seq(Count)
    BY <1>0, <1>14 DEF OnWelcome, Ask
  <2> QED BY <1>0, <1>13, <1>14, <2>1 DEF OnWelcome, TypeOK, log, manager, net
<1>15. CASE OnReplayBatch
  <2>1. Head(inq).events \in SUBSET Event /\ Head(inq).latest \in Count
    BY <1>13, <1>15, Frames DEF OnReplayBatch
  <2>2. convo' \subseteq Event /\ lastSeq' \in Count
    BY <1>0, <1>15, <2>1 DEF OnReplayBatch
  <2> QED BY <1>0, <1>13, <1>15, <2>2 DEF OnReplayBatch, TypeOK, log, manager, net
<1>16. CASE OnAgentEvent
  <2>1. Head(inq).event \in Event
    BY <1>13, <1>16, Frames DEF OnAgentEvent
  <2>2. seq[Head(inq).event] \in 0..emitted /\ 0..emitted \subseteq Count
    BY <1>0, <1>c, <2>1
  <2>3. convo' \subseteq Event /\ lastSeq' \in Count
    BY <1>0, <1>16, <2>1, <2>2 DEF OnAgentEvent
  <2> QED BY <1>0, <1>13, <1>16, <2>3 DEF OnAgentEvent, TypeOK, log, manager, net
<1>17. CASE UNCHANGED vars
  BY <1>0, <1>17 DEF vars, log, manager, net, client, TypeOK
<1> QED
  BY <1>1, <1>2, <1>3, <1>4, <1>5, <1>6, <1>9, <1>10, <1>11, <1>12, <1>14, <1>15, <1>16, <1>17 DEF Next

\* At the start nothing has happened.
LEMMA TypeInit == Init => TypeOK
<1> SUFFICES ASSUME Init PROVE TypeOK
  OBVIOUS
<1> USE DeliveryAssumption DEF Init
<1>1. /\ emitted \in Count /\ born \in 0..emitted /\ nextSeq \in 1..(emitted + 1)
      /\ lastSeq \in Count /\ conns \in 0..MaxConns /\ seq \in [Event -> 0..emitted]
  BY DEF Count
<1>2. /\ disk \in Seq(Event) /\ fanned \in Seq(Event)
      /\ ring \in Seq(Event) /\ Len(ring) <= RingCap /\ scans \in Seq(Resumed)
      /\ s2c \in Seq(Inbound) /\ inq \in Seq(Inbound)
  OBVIOUS
<1>3. c2s \in Seq(Count) /\ outq \in Seq(Count) /\ convo \subseteq Event
  OBVIOUS
<1>4. link \in BOOLEAN /\ causes \subseteq {"answer", "late", "number"}
  OBVIOUS
<1> QED BY <1>1, <1>2, <1>3, <1>4 DEF TypeOK

\* Every state is well typed: no number is larger than the count of events emitted, and
\* the ring holds no more than RING_CAP.
THEOREM Types == Spec => []TypeOK
BY TypeInit, TypeStep, PTL DEF Spec

-----------------------------------------------------------------------------
(* What is under way to the conversation, and how a step changes it           *)

\* The elements of a sequence, by their places.
LEMMA Places ==
  ASSUME NEW S, NEW q \in Seq(S)
  PROVE  /\ Len(q) \in Nat /\ \A i \in 1..Len(q) : q[i] \in S /\ q[i] \in ToSet(q)
         /\ \A x \in ToSet(q) : \E i \in 1..Len(q) : x = q[i]
<1>1. Len(q) \in Nat /\ DOMAIN q = 1..Len(q) /\ \A i \in 1..Len(q) : q[i] \in S
  OBVIOUS
<1> QED BY <1>1, Zenon DEF ToSet

\* The road has what the client's queue and the connection have.
LEMMA RoadType ==
  ASSUME TypeOK
  PROVE  /\ Road \in Seq(Inbound) /\ Len(Road) = Len(inq) + Len(s2c)
         /\ Len(Road) \in Nat /\ Len(inq) \in Nat /\ Len(s2c) \in Nat
         /\ ToSet(Road) = ToSet(inq) \cup ToSet(s2c) /\ ToSet(s2c \o inq) = ToSet(Road)
         /\ ToSet(Road) \subseteq Inbound
<1>1. inq \in Seq(Inbound) /\ s2c \in Seq(Inbound)
  BY DEF TypeOK
<1>2. Road \in Seq(Inbound) /\ Len(Road) = Len(inq) + Len(s2c)
  BY <1>1, Joined DEF Road
<1>3. Len(Road) \in Nat /\ Len(inq) \in Nat /\ Len(s2c) \in Nat
  BY <1>1, <1>2
<1>4. ToSet(Road) = ToSet(inq) \cup ToSet(s2c)
  BY <1>1, ElementsOfBoth DEF Road
<1>5. ToSet(s2c \o inq) = ToSet(inq) \cup ToSet(s2c)
  BY <1>1, ElementsOfBoth
<1>6. ToSet(Road) \subseteq Inbound
  BY <1>2, ElementsOf
<1> QED BY <1>2, <1>3, <1>4, <1>5, <1>6

\* A frame is sent, behind all others.
LEMMA RoadSent ==
  ASSUME TypeOK, NEW m \in Inbound, s2c' = Append(s2c, m), inq' = inq
  PROVE  /\ Len(Road') = Len(Road) + 1 /\ Road'[Len(Road) + 1] = m
         /\ \A i \in 1..Len(Road) : Road'[i] = Road[i]
         /\ ToSet(Road') = ToSet(Road) \cup {m}
<1>1. inq \in Seq(Inbound) /\ s2c \in Seq(Inbound) /\ Len(inq) \in Nat /\ Len(s2c) \in Nat
  BY DEF TypeOK
<1>2. PICK a, b, c : a = inq /\ b = s2c /\ c = s2c'
  OBVIOUS
<1>3. PICK R, Q : R = a \o b /\ Q = a \o c
  OBVIOUS
<1>4. Road = R /\ Road' = Q
  BY <1>2, <1>3 DEF Road
<1>5. /\ c \in Seq(Inbound) /\ Len(c) = Len(b) + 1 /\ c[Len(b) + 1] = m
      /\ \A i \in 1..Len(b) : c[i] = b[i]
  BY <1>1, <1>2, AppendProperties
<1>6. /\ Len(R) = Len(a) + Len(b) /\ \A j \in 1..Len(a) : R[j] = a[j]
      /\ \A j \in (Len(a) + 1)..Len(R) : R[j] = b[j - Len(a)]
  BY <1>1, <1>2, <1>3, Joined
<1>7. /\ Len(Q) = Len(a) + Len(c) /\ \A j \in 1..Len(a) : Q[j] = a[j]
      /\ \A j \in (Len(a) + 1)..Len(Q) : Q[j] = c[j - Len(a)]
  BY <1>1, <1>2, <1>3, <1>5, Joined
<1>8. PICK A, B, N, M : A = Len(a) /\ B = Len(b) /\ N = Len(R) /\ M = Len(Q)
  OBVIOUS
<1>9. A \in Nat /\ B \in Nat /\ N = A + B /\ M = N + 1
  BY <1>1, <1>2, <1>5, <1>6, <1>7, <1>8
<1>10. Q[N + 1] = m
  <2>1. N + 1 \in (A + 1)..M /\ (N + 1) - A = B + 1
    BY <1>9
  <2>2. Q[N + 1] = c[(N + 1) - A]
    BY <2>1, <1>7, <1>8
  <2> QED BY <2>1, <2>2, <1>5, <1>8
<1>11. ASSUME NEW i \in 1..N PROVE Q[i] = R[i]
  <2>1. CASE i \in 1..A
    BY <2>1, <1>6, <1>7, <1>8
  <2>2. CASE i \notin 1..A
    <3>1. i \in (A + 1)..N /\ i \in (A + 1)..M /\ i - A \in 1..B
      BY <2>2, <1>9
    <3>2. Q[i] = c[i - A] /\ R[i] = b[i - A]
      BY <3>1, <1>6, <1>7, <1>8
    <3> QED BY <3>1, <3>2, <1>5, <1>8
  <2> QED BY <2>1, <2>2
<1>12. ToSet(Q) = ToSet(R) \cup {m}
  <2>0. a \in Seq(Inbound) /\ b \in Seq(Inbound) /\ c \in Seq(Inbound)
    BY <1>1, <1>2, <1>5
  <2>1. ToSet(R) = ToSet(a) \cup ToSet(b) /\ ToSet(Q) = ToSet(a) \cup ToSet(c)
    BY <1>3, <2>0, ElementsOfBoth
  <2>2. ToSet(c) = ToSet(b) \cup {m}
    BY <1>1, <1>2, AppendElements
  <2> QED BY <2>1, <2>2
<1> QED BY <1>4, <1>8, <1>9, <1>10, <1>11, <1>12

\* The client's network task takes a frame into its queue.
LEMMA RoadReceived ==
  ASSUME TypeOK, Receive
  PROVE  Road' = Road /\ Len(inq') = Len(inq) + 1
<1>1. /\ inq \in Seq(Inbound) /\ s2c \in Seq(Inbound) /\ s2c # <<>>
      /\ inq' = Append(inq, Head(s2c)) /\ s2c' = Tail(s2c)
  BY DEF TypeOK, Receive
<1>2. PICK a, b, c, d : a = inq /\ b = s2c /\ c = inq' /\ d = s2c'
  OBVIOUS
<1>3. PICK R, Q : R = a \o b /\ Q = c \o d
  OBVIOUS
<1>4. Road = R /\ Road' = Q
  BY <1>2, <1>3 DEF Road
<1>5. PICK h : h = Head(b)
  OBVIOUS
<1>6. /\ h \in Inbound /\ h = b[1] /\ d \in Seq(Inbound) /\ Len(d) = Len(b) - 1
      /\ \A i \in 1..Len(d) : d[i] = b[i + 1]
  BY <1>1, <1>2, <1>5, HeadTailProperties
<1>7. /\ c \in Seq(Inbound) /\ Len(c) = Len(a) + 1 /\ c[Len(a) + 1] = h
      /\ \A i \in 1..Len(a) : c[i] = a[i]
  BY <1>1, <1>2, <1>5, <1>6, AppendProperties
<1>8. /\ R \in Seq(Inbound) /\ Len(R) = Len(a) + Len(b) /\ \A j \in 1..Len(a) : R[j] = a[j]
      /\ \A j \in (Len(a) + 1)..Len(R) : R[j] = b[j - Len(a)]
  BY <1>1, <1>2, <1>3, Joined
<1>9. /\ Q \in Seq(Inbound) /\ Len(Q) = Len(c) + Len(d) /\ \A j \in 1..Len(c) : Q[j] = c[j]
      /\ \A j \in (Len(c) + 1)..Len(Q) : Q[j] = d[j - Len(c)]
  BY <1>3, <1>6, <1>7, Joined
<1>10. PICK A, B, N : A = Len(a) /\ B = Len(b) /\ N = Len(R)
  OBVIOUS
<1>11. A \in Nat /\ B \in Nat \ {0} /\ N = A + B
  BY <1>1, <1>2, <1>8, <1>10
<1>12. Len(c) = A + 1 /\ Len(d) = B - 1 /\ Len(Q) = N
  BY <1>6, <1>7, <1>9, <1>10, <1>11
<1>13. ASSUME NEW i \in 1..N PROVE Q[i] = R[i]
  <2>1. CASE i \in 1..A
    <3>1. i \in 1..(A + 1)
      BY <2>1, <1>11
    <3> QED BY <2>1, <3>1, <1>7, <1>8, <1>9, <1>10, <1>12
  <2>2. CASE i = A + 1
    <3>1. i \in 1..(A + 1) /\ i \in (A + 1)..N /\ i - A = 1
      BY <2>2, <1>11
    <3>2. Q[i] = c[i] /\ R[i] = b[i - A]
      BY <3>1, <1>8, <1>9, <1>10, <1>12
    <3> QED BY <2>2, <3>1, <3>2, <1>6, <1>7, <1>10
  <2>3. CASE i \notin 1..(A + 1)
    <3>1. PICK t : t = i - (A + 1)
      OBVIOUS
    <3>2. i \in ((A + 1) + 1)..N /\ i \in (A + 1)..N /\ t \in 1..(B - 1) /\ i - A = t + 1
      BY <2>3, <3>1, <1>11
    <3>3. Q[i] = d[t] /\ R[i] = b[t + 1]
      BY <3>1, <3>2, <1>8, <1>9, <1>10, <1>12
    <3> QED BY <3>2, <3>3, <1>6, <1>12
  <2>4. i \in 1..(A + 1) => i \in 1..A \/ i = A + 1
    BY <1>11
  <2> QED BY <2>1, <2>2, <2>3, <2>4
<1>14. Q = R
  BY <1>8, <1>9, <1>10, <1>12, <1>13, SeqEqual
<1> QED BY <1>2, <1>4, <1>7, <1>14

\* The client shows the first frame.
LEMMA RoadTaken ==
  ASSUME TypeOK, Take, s2c' = s2c
  PROVE  /\ Len(Road) \in Nat \ {0} /\ Len(Road') = Len(Road) - 1 /\ Road[1] = Head(inq)
         /\ Len(inq') = Len(inq) - 1 /\ Len(inq) \in Nat \ {0}
         /\ \A i \in 1..Len(Road') : Road'[i] = Road[i + 1]
         /\ ToSet(Road) = ToSet(Road') \cup {Head(inq)} /\ Head(inq) \in Inbound
<1>1. /\ inq \in Seq(Inbound) /\ s2c \in Seq(Inbound) /\ inq # <<>> /\ inq' = Tail(inq)
  BY DEF TypeOK, Take
<1>2. PICK a, b, c : a = inq /\ b = s2c /\ c = inq'
  OBVIOUS
<1>3. PICK R, Q : R = a \o b /\ Q = c \o b
  OBVIOUS
<1>4. Road = R /\ Road' = Q
  BY <1>2, <1>3 DEF Road
<1>5. PICK h : h = Head(a)
  OBVIOUS
<1>6. /\ h \in Inbound /\ h = a[1] /\ c \in Seq(Inbound) /\ Len(c) = Len(a) - 1
      /\ \A i \in 1..Len(c) : c[i] = a[i + 1]
  BY <1>1, <1>2, <1>5, HeadTailProperties
<1>7. /\ Len(R) = Len(a) + Len(b) /\ \A j \in 1..Len(a) : R[j] = a[j]
      /\ \A j \in (Len(a) + 1)..Len(R) : R[j] = b[j - Len(a)]
  BY <1>1, <1>2, <1>3, Joined
<1>8. /\ Len(Q) = Len(c) + Len(b) /\ \A j \in 1..Len(c) : Q[j] = c[j]
      /\ \A j \in (Len(c) + 1)..Len(Q) : Q[j] = b[j - Len(c)]
  BY <1>1, <1>2, <1>3, <1>6, Joined
<1>9. PICK A, B, N : A = Len(a) /\ B = Len(b) /\ N = Len(R)
  OBVIOUS
<1>10. A \in Nat \ {0} /\ B \in Nat /\ N = A + B
  BY <1>1, <1>2, <1>7, <1>9
<1>11. Len(c) = A - 1 /\ Len(Q) = N - 1
  BY <1>6, <1>8, <1>9, <1>10
<1>12. R[1] = h
  <2>1. 1 \in 1..A
    BY <1>10
  <2> QED BY <2>1, <1>6, <1>7, <1>9
<1>13. ASSUME NEW i \in 1..(N - 1) PROVE Q[i] = R[i + 1]
  <2>1. CASE i \in 1..(A - 1)
    <3>1. i + 1 \in 1..A
      BY <2>1, <1>10
    <3> QED BY <2>1, <3>1, <1>6, <1>7, <1>8, <1>9, <1>11
  <2>2. CASE i \notin 1..(A - 1)
    <3>1. PICK t : t = i - (A - 1)
      OBVIOUS
    <3>2. i \in ((A - 1) + 1)..(N - 1) /\ i + 1 \in (A + 1)..N /\ (i + 1) - A = t
      BY <2>2, <3>1, <1>10
    <3>3. Q[i] = b[t] /\ R[i + 1] = b[t]
      BY <3>1, <3>2, <1>7, <1>8, <1>9, <1>11
    <3> QED BY <3>3
  <2> QED BY <2>1, <2>2
<1>14. ToSet(R) = ToSet(Q) \cup {h}
  <2>0. a \in Seq(Inbound) /\ b \in Seq(Inbound) /\ c \in Seq(Inbound)
    BY <1>1, <1>2, <1>6
  <2>1. ToSet(R) = ToSet(a) \cup ToSet(b) /\ ToSet(Q) = ToSet(c) \cup ToSet(b)
    BY <1>3, <2>0, ElementsOfBoth
  <2>2. ToSet(a) = ToSet(c) \cup {h}
    BY <1>1, <1>2, <1>5, HeadElements
  <2> QED BY <2>1, <2>2
<1>15. N \in Nat \ {0}
  BY <1>10
<1> QED BY <1>2, <1>4, <1>5, <1>6, <1>9, <1>10, <1>11, <1>12, <1>13, <1>14, <1>15

\* A cut leaves what the client has read.
LEMMA RoadCut ==
  ASSUME TypeOK, NEW k \in 0..Len(s2c), Cut(k)
  PROVE  /\ Road' = Read(k) /\ inq' = Road' /\ Road' \in Seq(Inbound)
         /\ Len(Road') \in Nat /\ Len(inq) <= Len(Road') /\ Len(Road') <= Len(Road)
         /\ \A i \in 1..Len(Road') : Road'[i] = Road[i]
         /\ ToSet(Road) = ToSet(Road') \cup ToSet(Lost(k))
<1>1. /\ inq \in Seq(Inbound) /\ s2c \in Seq(Inbound) /\ s2c' = <<>>
      /\ inq' = inq \o SubSeq(s2c, 1, k)
  BY DEF TypeOK, Cut, Read
<1>2. PICK a, b, c, l : a = inq /\ b = s2c /\ c = SubSeq(b, 1, k) /\ l = SubSeq(b, k + 1, Len(b))
  OBVIOUS
<1>3. PICK R, Q : R = a \o b /\ Q = a \o c
  OBVIOUS
<1>4. c \in Seq(Inbound) /\ Len(c) = k /\ \A j \in 1..k : c[j] = b[j]
  BY <1>1, <1>2, Beginning
<1>5. /\ Len(R) = Len(a) + Len(b) /\ \A j \in 1..Len(a) : R[j] = a[j]
      /\ \A j \in (Len(a) + 1)..Len(R) : R[j] = b[j - Len(a)]
  BY <1>1, <1>2, <1>3, Joined
<1>6. /\ Q \in Seq(Inbound) /\ Len(Q) = Len(a) + Len(c) /\ \A j \in 1..Len(a) : Q[j] = a[j]
      /\ \A j \in (Len(a) + 1)..Len(Q) : Q[j] = c[j - Len(a)]
  BY <1>1, <1>2, <1>3, <1>4, Joined
<1>7. Road = R /\ Read(k) = Q /\ inq' = Q /\ Lost(k) = l
  BY <1>1, <1>2, <1>3 DEF Road, Read, Lost
<1>8. Road' = Q
  <2>1. Road' = inq' \o <<>>
    BY <1>1 DEF Road
  <2>2. Q \o <<>> = Q
    BY <1>6, ConcatEmptySeq
  <2> QED BY <1>7, <2>1, <2>2
<1>9. PICK A, B, N, M : A = Len(a) /\ B = Len(b) /\ N = Len(R) /\ M = Len(Q)
  OBVIOUS
<1>10. A \in Nat /\ B \in Nat /\ N = A + B /\ k \in 0..B /\ M = A + k
  BY <1>1, <1>2, <1>4, <1>5, <1>6, <1>9
<1>11. ASSUME NEW i \in 1..M PROVE Q[i] = R[i]
  <2>1. CASE i \in 1..A
    BY <2>1, <1>5, <1>6, <1>9
  <2>2. CASE i \notin 1..A
    <3>1. i \in (A + 1)..N /\ i \in (A + 1)..M /\ i - A \in 1..k
      BY <2>2, <1>10
    <3>2. Q[i] = c[i - A] /\ R[i] = b[i - A]
      BY <3>1, <1>5, <1>6, <1>9
    <3> QED BY <3>1, <3>2, <1>4
  <2> QED BY <2>1, <2>2
<1>12. ToSet(R) = ToSet(Q) \cup ToSet(l)
  <2>0. a \in Seq(Inbound) /\ b \in Seq(Inbound) /\ c \in Seq(Inbound)
    BY <1>1, <1>2, <1>4
  <2>1. ToSet(R) = ToSet(a) \cup ToSet(b) /\ ToSet(Q) = ToSet(a) \cup ToSet(c)
    BY <1>3, <2>0, ElementsOfBoth
  <2>2. ToSet(b) = ToSet(c) \cup ToSet(l)
    BY <1>1, <1>2, SplitElements
  <2> QED BY <2>1, <2>2
<1>13. M \in Nat /\ A <= M /\ M <= N
  BY <1>10
<1> QED BY <1>2, <1>6, <1>7, <1>8, <1>9, <1>11, <1>12, <1>13

-----------------------------------------------------------------------------
(* The log, the ring, and what a batch holds                                  *)

\* Lines and numbers stay as they are, and so does what was fanned out.
LEMMA LogStep ==
  ASSUME TypeOK, [Next]_vars
  PROVE  /\ Len(disk) \in Nat /\ Len(disk) <= Len(disk') /\ ToSet(disk) \subseteq ToSet(disk')
         /\ \A i \in 1..Len(disk) : disk'[i] = disk[i]
         /\ Len(fanned) \in Nat /\ Len(fanned) <= Len(fanned')
         /\ \A i \in 1..Len(fanned) : fanned'[i] = fanned[i]
         /\ emitted <= emitted' /\ \A e \in 1..emitted : seq'[e] = seq[e]
<1>0. /\ disk \in Seq(Event) /\ fanned \in Seq(Event) /\ seq \in [Event -> 0..emitted]
      /\ Len(disk) \in Nat /\ Len(fanned) \in Nat /\ emitted \in Nat
  BY DeliveryAssumption DEF TypeOK, Count
<1>1. CASE Emit
  <2>1. /\ emitted' = emitted + 1 /\ disk' = disk /\ fanned' = fanned
        /\ seq' = [seq EXCEPT ![emitted'] = nextSeq]
    BY <1>1 DEF Emit, manager
  <2>2. \A e \in 1..emitted : e # emitted'
    BY <1>0, <2>1
  <2>3. 1..emitted \subseteq Event
    BY DeliveryAssumption DEF TypeOK, Count, Event
  <2> QED BY <1>0, <2>1, <2>2, <2>3
<1>2. ASSUME NEW x \in Event, Write(x)
      PROVE  /\ Len(disk') = Len(disk) + 1 /\ \A i \in 1..Len(disk) : disk'[i] = disk[i]
             /\ ToSet(disk') = ToSet(disk) \cup {x}
             /\ fanned' = fanned /\ emitted' = emitted /\ seq' = seq
  <2>1. disk' = Append(disk, x) /\ fanned' = fanned /\ emitted' = emitted /\ seq' = seq
    BY <1>2 DEF Write, manager
  <2>2. Len(disk') = Len(disk) + 1 /\ \A i \in 1..Len(disk) : disk'[i] = disk[i]
    BY <1>0, <2>1, AppendProperties
  <2>3. ToSet(disk') = ToSet(disk) \cup {x}
    BY <1>0, <2>1, AppendElements
  <2> QED BY <2>1, <2>2, <2>3
<1>3. ASSUME NEW x \in Event, FanOut(x)
      PROVE  /\ Len(fanned') = Len(fanned) + 1 /\ \A i \in 1..Len(fanned) : fanned'[i] = fanned[i]
             /\ disk' = disk /\ emitted' = emitted /\ seq' = seq
  <2>1. fanned' = Append(fanned, x) /\ disk' = disk /\ emitted' = emitted /\ seq' = seq
    BY <1>3 DEF FanOut, log
  <2>2. Len(fanned') = Len(fanned) + 1 /\ \A i \in 1..Len(fanned) : fanned'[i] = fanned[i]
    BY <1>0, <2>1, AppendProperties
  <2> QED BY <2>1, <2>2
<1>4. Emit \/ (\E x \in Event : Write(x) \/ FanOut(x)) \/ UNCHANGED <<emitted, seq, disk, fanned>>
  <2>1. CASE \E i \in DOMAIN scans : ResumeFinish(i)
    BY <2>1 DEF ResumeFinish, log, manager
  <2>2. CASE ResumeStart \/ Connect \/ Drop \/ Receive \/ Transmit
    BY <2>2 DEF ResumeStart, Connect, Drop, Receive, Transmit, log, manager
  <2>3. CASE Restart
    BY <2>3 DEF Restart
  <2>4. CASE OnWelcome \/ OnReplayBatch \/ OnAgentEvent
    BY <2>4 DEF OnWelcome, OnReplayBatch, OnAgentEvent, log, manager
  <2>5. CASE UNCHANGED vars
    BY <2>5 DEF vars, log, manager
  <2> QED BY <2>1, <2>2, <2>3, <2>4, <2>5 DEF Next
<1>5. CASE \E x \in Event : Write(x)
  BY <1>0, <1>2, <1>5
<1>6. CASE \E x \in Event : FanOut(x)
  BY <1>0, <1>3, <1>6
<1>7. CASE UNCHANGED <<emitted, seq, disk, fanned>>
  BY <1>0, <1>7
<1> QED BY <1>0, <1>1, <1>4, <1>5, <1>6, <1>7

\* What a scan has found it still finds, and a longer one finds it, too.
LEMMA FoundStep ==
  ASSUME TypeOK, [Next]_vars, NEW k \in 0..Len(disk), NEW e \in Found(k)
  PROVE  e \in Found(k)' /\ e \in ToSet(disk) /\ \A l \in k..Len(disk) : e \in Found(l)
<1>1. PICK i \in 1..k : e = disk[i]
  BY DEF Found
<1>2. Len(disk) \in Nat /\ disk \in Seq(Event)
  BY DEF TypeOK
<1>3. i \in 1..Len(disk) /\ \A l \in k..Len(disk) : i \in 1..l
  BY <1>2
<1>4. disk'[i] = disk[i]
  BY <1>3, LogStep
<1>5. e \in Found(k)'
  BY <1>1, <1>4 DEF Found
<1>6. \A l \in k..Len(disk) : e \in Found(l)
  BY <1>1, <1>3 DEF Found
<1>7. e \in ToSet(disk)
  BY <1>1, <1>2, <1>3, Places
<1> QED BY <1>5, <1>6, <1>7

\* A scan of the whole log finds all of it.
LEMMA FoundAll ==
  ASSUME TypeOK
  PROVE  Found(Len(disk)) = ToSet(disk)
<1>1. disk \in Seq(Event)
  BY DEF TypeOK
<1>2. DOMAIN disk = 1..Len(disk)
  BY <1>1
<1> QED BY <1>2 DEF Found, ToSet

\* A batch stays complete.
LEMMA CompleteStep ==
  ASSUME TypeOK, InLog, [Next]_vars, NEW m \in ToSet(Road), IsBatch(m), Complete(m)
  PROVE  Complete(m)'
<1>0. fanned \in Seq(Event) /\ Len(fanned) \in Nat
  BY DEF TypeOK
<1>1. m \in Inbound
  BY RoadType
<1>2. /\ m.events \subseteq Event /\ m.known \in Nat /\ m.heard \in Nat
      /\ Carries(m) = m.events
  BY <1>1, Frames, Carried
<1>3. \A d \in m.events : seq'[d] = seq[d]
  <2>1. \A d \in m.events : Held(d)
    BY <1>2 DEF Held
  <2> QED BY <1>2, <2>1, LogStep DEF InLog
<1>4. m.known <= Len(fanned) /\ m.known <= Len(fanned')
  <2>1. m.known <= Len(fanned)
    BY DEF Complete
  <2>2. Len(fanned) <= Len(fanned') /\ Len(fanned') \in Nat
    BY TypeStep, LogStep DEF TypeOK
  <2> QED BY <1>0, <1>2, <2>1, <2>2
<1>5. ASSUME NEW i \in 1..m.known
      PROVE  fanned'[i] = fanned[i] /\ seq'[fanned[i]] = seq[fanned[i]]
  <2>1. i \in 1..Len(fanned)
    BY <1>0, <1>2, <1>4
  <2>2. fanned[i] \in ToSet(fanned)
    BY <1>0, <2>1, Places
  <2> QED BY <2>1, <2>2, LogStep DEF InLog
<1>6. ASSUME m.known <= m.heard + RingCap, NEW i \in 1..m.known, m.since < seq'[fanned'[i]]
      PROVE  \E d \in m.events : seq'[d] = seq'[fanned'[i]]
  <2>1. m.since < seq[fanned[i]]
    BY <1>5, <1>6
  <2>2. PICK d \in m.events : seq[d] = seq[fanned[i]]
    BY <1>6, <2>1 DEF Complete
  <2> QED BY <1>3, <1>5, <2>2
<1> QED BY <1>4, <1>6 DEF Complete

\* The batch that ends a scan is complete: an event fanned out before the scan is found by
\* it, and one fanned out since is in the ring.
LEMMA BatchIsComplete ==
  ASSUME TypeOK, InLog, RingIsEnd, NEW r \in Resumed, Hears(r), NEW k \in r.scanned..Len(disk),
         NEW m, m = ReplayBatch(Merge(r, k), Latest(Merge(r, k), r.since), r)
  PROVE  Complete(m)
<1>0. /\ fanned \in Seq(Event) /\ Len(fanned) \in Nat /\ ring \in Seq(Event) /\ Len(ring) \in Nat
      /\ Len(ring) <= RingCap /\ Len(disk) \in Nat /\ RingCap \in Nat
      /\ r.scanned \in Nat /\ r.heard \in Nat
  BY DeliveryAssumption DEF TypeOK, Resumed
<1>1. k \in 0..Len(disk)
  BY <1>0
<1>2. m.events = Merge(r, k) /\ m.since = r.since /\ m.heard = r.heard /\ m.known = Len(fanned)
  BY <1>1, BatchType
<1>3. \A d \in Found(r.scanned) : d \in Found(k)
  <2>1. r.scanned \in 0..Len(disk)
    BY <1>0
  <2>2. \A i \in 1..r.scanned : i \in 1..k
    BY <1>0, <2>1
  <2> QED BY <2>2 DEF Found
<1>4. ASSUME NEW i \in 1..Len(fanned), Len(fanned) <= r.heard + RingCap
      PROVE  fanned[i] \in Found(k) \/ fanned[i] \in ToSet(ring)
  <2>1. CASE i <= r.heard
    <3>1. i \in 1..r.heard
      BY <1>0, <2>1
    <3> QED BY <1>3, <3>1 DEF Hears
  <2>2. CASE ~(i <= r.heard)
    <3>1. PICK n, l : n = Len(fanned) /\ l = Len(ring)
      OBVIOUS
    <3>2. n \in Nat /\ l \in Nat /\ l <= RingCap /\ l <= n /\ (l < RingCap => n - l <= r.heard)
      BY <1>0, <3>1 DEF Hears, RingIsEnd
    <3>3. n - l <= r.heard
      BY <1>0, <1>4, <3>1, <3>2
    <3>4. i \in 1..n
      BY <3>1
    <3>5. PICK j : j = i - (n - l)
      OBVIOUS
    <3>6. j \in 1..l /\ i = (n - l) + j
      BY <1>0, <2>2, <3>2, <3>3, <3>4, <3>5
    <3>7. ring[j] = fanned[i]
      BY <3>1, <3>6 DEF RingIsEnd
    <3>8. ring[j] \in ToSet(ring)
      BY <1>0, <3>1, <3>6, Places
    <3> QED BY <3>7, <3>8
  <2> QED BY <2>1, <2>2
<1>5. ASSUME NEW e \in Found(k) \cup ToSet(ring), r.since < seq[e]
      PROVE  \E d \in Merge(r, k) : seq[d] = seq[e]
  <2>1. CASE \E d \in Found(k) : seq[d] = seq[e]
    <3>1. PICK d \in Found(k) : seq[d] = seq[e]
      BY <2>1
    <3>2. d \in Merge(r, k)
      BY <1>5, <3>1 DEF Merge
    <3> QED BY <3>1, <3>2
  <2>2. CASE ~\E d \in Found(k) : seq[d] = seq[e]
    <3>1. e \in Merge(r, k)
      BY <1>5, <2>2 DEF Merge
    <3> QED BY <3>1
  <2> QED BY <2>1, <2>2
<1> QED BY <1>0, <1>2, <1>4, <1>5 DEF Complete

\* A step after which what is under way is still what was, or is no batch, keeps the batches
\* complete.
LEMMA BatchesStep ==
  ASSUME TypeOK, InLog, RingInv, [Next]_vars, NEW m0, ~IsBatch(m0),
         ToSet(Road') \subseteq ToSet(Road) \cup {m0}
  PROVE  \A m \in ToSet(Road') : IsBatch(m) => Complete(m)'
<1>1. ASSUME NEW m \in ToSet(Road'), IsBatch(m) PROVE Complete(m)'
  <2>1. m \in ToSet(Road) /\ Complete(m)
    BY <1>1 DEF RingInv
  <2> QED BY <1>1, <2>1, CompleteStep
<1> QED BY <1>1

\* Without an event fanned out, every scan has heard what it had.
LEMMA HearsSame ==
  ASSUME TypeOK, [Next]_vars, ring' = ring, fanned' = fanned, NEW r \in Resumed, Hears(r)
  PROVE  Hears(r)'
<1>1. r.scanned \in Nat /\ r.scanned <= Len(disk) /\ r.heard <= Len(fanned)
  BY DEF Hears, Resumed
<1>2. Len(disk) \in Nat /\ Len(disk) <= Len(disk') /\ Len(disk') \in Nat
  <2>1. TypeOK'
    BY TypeStep
  <2>2. Len(disk') \in Nat
    BY <2>1 DEF TypeOK
  <2> QED BY <2>2, LogStep
<1>3. r.scanned <= Len(disk') /\ r.scanned \in 0..Len(disk)
  BY <1>1, <1>2
<1>4. \A i \in 1..r.heard : fanned[i] \in Found(r.scanned)'
  BY <1>3, FoundStep DEF Hears
<1> QED BY <1>1, <1>3, <1>4 DEF Hears

\* The ring gives up its first event only when it is full.
LEMMA RingPushed ==
  ASSUME TypeOK, RingIsEnd, NEW e \in Event, Push(e), fanned' = Append(fanned, e)
  PROVE  /\ RingIsEnd'
         /\ Len(ring') < RingCap => /\ Len(ring) < RingCap
                                    /\ Len(fanned') - Len(ring') = Len(fanned) - Len(ring)
<1>1. ring \in Seq(Event) /\ fanned \in Seq(Event) /\ RingCap \in Nat \ {0} /\ Len(ring) <= RingCap
  BY DeliveryAssumption DEF TypeOK
<1>2. PICK r, f, b, n, l, C : /\ r = ring /\ f = fanned /\ b = Append(r, e)
                              /\ n = Len(f) /\ l = Len(r) /\ C = RingCap
  OBVIOUS
<1>3. PICK s, g : s = ring' /\ g = fanned'
  OBVIOUS
<1>4. /\ n \in Nat /\ l \in Nat /\ C \in Nat \ {0} /\ l <= C /\ l <= n
      /\ \A i \in 1..l : r[i] = f[n - l + i]
  BY <1>1, <1>2 DEF RingIsEnd
<1>5. /\ b \in Seq(Event) /\ Len(b) = l + 1 /\ b[l + 1] = e /\ \A i \in 1..l : b[i] = r[i]
  BY <1>1, <1>2, AppendProperties
<1>6. /\ g \in Seq(Event) /\ Len(g) = n + 1 /\ g[n + 1] = e /\ \A i \in 1..n : g[i] = f[i]
  BY <1>1, <1>2, <1>3, AppendProperties
<1>7. s = IF Len(b) > C THEN Tail(b) ELSE b
  BY <1>2, <1>3 DEF Push
<1>8. ASSUME NEW i \in 1..(l + 1) PROVE b[i] = g[n - l + i]
  <2>1. CASE i = l + 1
    <3>1. n - l + i = n + 1
      BY <2>1, <1>4
    <3> QED BY <2>1, <3>1, <1>5, <1>6
  <2>2. CASE i # l + 1
    <3>1. i \in 1..l /\ n - l + i \in 1..n
      BY <2>2, <1>4
    <3> QED BY <3>1, <1>4, <1>5, <1>6
  <2> QED BY <2>1, <2>2
<1>9. CASE Len(b) > C
  <2>1. l = C /\ b # <<>>
    BY <1>4, <1>5, <1>9
  <2>2. Len(s) = l /\ \A i \in 1..l : s[i] = b[i + 1]
    <3>1. Len(s) = Len(b) - 1 /\ \A i \in 1..Len(s) : s[i] = b[i + 1]
      BY <1>5, <1>7, <1>9, <2>1, HeadTailProperties
    <3>2. Len(s) = l
      BY <1>4, <1>5, <3>1
    <3> QED BY <3>1, <3>2
  <2>3. ASSUME NEW i \in 1..l PROVE s[i] = g[(n + 1) - l + i]
    <3>1. i + 1 \in 1..(l + 1) /\ n - l + (i + 1) = (n + 1) - l + i
      BY <1>4
    <3> QED BY <3>1, <2>2, <1>8
  <2>4. l <= n + 1 /\ ~(l < C)
    BY <1>4, <2>1
  <2>5. Len(s) <= Len(g) /\ \A i \in 1..Len(s) : s[i] = g[Len(g) - Len(s) + i]
    BY <2>2, <2>3, <2>4, <1>6
  <2>6. RingIsEnd'
    BY <2>5, <1>3 DEF RingIsEnd
  <2> QED BY <2>2, <2>4, <2>6, <1>2, <1>3
<1>10. CASE ~(Len(b) > C)
  <2>1. s = b
    BY <1>7, <1>10
  <2>2. l + 1 <= n + 1 /\ (n + 1) - (l + 1) = n - l /\ l < C
    BY <1>4, <1>5, <1>10
  <2>3. RingIsEnd'
    BY <2>1, <2>2, <1>3, <1>5, <1>6, <1>8 DEF RingIsEnd
  <2> QED BY <2>1, <2>2, <2>3, <1>2, <1>3, <1>5, <1>6
<1> QED BY <1>9, <1>10

\* Every step keeps the ring the end of what was fanned out, and the batches complete.
LEMMA RingStep == TypeOK /\ InLog /\ RingInv /\ [Next]_vars => RingInv'
<1> SUFFICES ASSUME TypeOK, InLog, RingInv, [Next]_vars PROVE RingInv'
  OBVIOUS
<1>0. /\ TypeOK' /\ fanned \in Seq(Event) /\ ring \in Seq(Event) /\ scans \in Seq(Resumed)
      /\ disk \in Seq(Event)
  BY TypeStep DEF TypeOK
<1>s. ASSUME NEW r \in ToSet(scans) PROVE r \in Resumed /\ Hears(r)
  BY <1>0, ElementsOf DEF RingInv
<1>a. ASSUME ring' = ring, fanned' = fanned, ToSet(scans') \subseteq ToSet(scans)
      PROVE  RingIsEnd' /\ \A r \in ToSet(scans') : Hears(r)'
  <2>1. RingIsEnd'
    BY <1>a DEF RingInv, RingIsEnd
  <2> QED BY <1>a, <1>s, <2>1, HearsSame
<1>b. ASSUME ToSet(Road') \subseteq ToSet(Road)
      PROVE  \A m \in ToSet(Road') : IsBatch(m) => Complete(m)'
  <2>1. ~IsBatch(Welcome) /\ ToSet(Road') \subseteq ToSet(Road) \cup {Welcome}
    BY <1>b, Frames
  <2> QED BY <2>1, BatchesStep
<1>c. ASSUME UNCHANGED <<inq, s2c>> PROVE Road' = Road
  BY <1>c DEF Road
<1>1. CASE Emit \/ (\E e \in Event : Write(e)) \/ Transmit \/ UNCHANGED vars
  <2>1. UNCHANGED <<ring, fanned, scans, inq, s2c>>
    BY <1>1 DEF Emit, Write, Transmit, vars, log, manager, net, client
  <2> QED BY <1>a, <1>b, <1>c, <2>1 DEF RingInv
<1>2. ASSUME NEW e \in Event, FanOut(e) PROVE RingInv'
  <2>1. fanned' = Append(fanned, e) /\ Push(e) /\ scans' = scans /\ disk' = disk /\ inq' = inq
    BY <1>2 DEF FanOut, log, client
  <2>2. /\ RingIsEnd'
        /\ Len(ring') < RingCap => /\ Len(ring) < RingCap
                                   /\ Len(fanned') - Len(ring') = Len(fanned) - Len(ring)
    BY <2>1, RingPushed DEF RingInv
  <2>3. ASSUME NEW r \in ToSet(scans) PROVE Hears(r)'
    <3>1. r.scanned \in Nat /\ r.heard \in Nat /\ r \in Resumed
      BY <1>s DEF Resumed
    <3>2. /\ r.scanned <= Len(disk) /\ r.heard <= Len(fanned)
          /\ \A i \in 1..r.heard : fanned[i] \in Found(r.scanned)
          /\ Len(ring) < RingCap => Len(fanned) - Len(ring) <= r.heard
      BY <1>s DEF Hears
    <3>3. r.heard <= Len(fanned') /\ \A i \in 1..r.heard : i \in 1..Len(fanned)
      <4>1. Len(fanned) \in Nat /\ Len(fanned) <= Len(fanned') /\ Len(fanned') \in Nat
        BY <1>0, <1>2, LogStep, <2>1, AppendProperties
      <4> QED BY <4>1, <3>1, <3>2
    <3>4. \A i \in 1..r.heard : fanned'[i] = fanned[i]
      BY <3>3, LogStep
    <3>5. \A i \in 1..r.heard : fanned'[i] \in Found(r.scanned)'
      BY <2>1, <3>2, <3>4 DEF Found
    <3>6. Len(ring') < RingCap => Len(fanned') - Len(ring') <= r.heard
      BY <2>2, <3>2
    <3> QED BY <2>1, <3>2, <3>3, <3>5, <3>6 DEF Hears
  <2>4. ~IsBatch(AgentEvent(e)) /\ ToSet(Road') \subseteq ToSet(Road) \cup {AgentEvent(e)}
    <3>1. ~IsBatch(AgentEvent(e)) /\ AgentEvent(e) \in Inbound
      BY Frames
    <3>2. CASE link
      <4>1. s2c' = Append(s2c, AgentEvent(e))
        BY <1>2, <3>2 DEF FanOut
      <4> QED BY <2>1, <3>1, <4>1, RoadSent
    <3>3. CASE ~link
      <4>1. s2c' = s2c
        BY <1>2, <3>3 DEF FanOut
      <4> QED BY <1>c, <2>1, <3>1, <4>1
    <3> QED BY <3>2, <3>3
  <2>5. \A m \in ToSet(Road') : IsBatch(m) => Complete(m)'
    BY <2>4, BatchesStep
  <2> QED BY <2>1, <2>2, <2>3, <2>5 DEF RingInv
<1>3. CASE ResumeStart
  <2>1. PICK r : r = [since |-> Head(c2s), scanned |-> Len(disk), heard |-> Len(fanned)]
    OBVIOUS
  <2>2. /\ scans' = Append(scans, r) /\ ring' = ring /\ fanned' = fanned /\ disk' = disk
        /\ inq' = inq /\ s2c' = s2c
    BY <1>3, <2>1 DEF ResumeStart, log, manager, client
  <2>3. r \in Resumed
    <3>1. Head(c2s) \in Count
      BY <1>3 DEF ResumeStart, TypeOK
    <3> QED BY <1>0, <2>1, <3>1 DEF Resumed
  <2>4. ToSet(scans') = ToSet(scans) \cup {r}
    BY <1>0, <2>2, <2>3, AppendElements
  <2>5. Hears(r)
    <3>1. r.scanned = Len(disk) /\ r.heard = Len(fanned) /\ Len(fanned) \in Nat /\ Len(disk) \in Nat
      BY <1>0, <2>1
    <3>2. \A i \in 1..Len(fanned) : fanned[i] \in Found(Len(disk))
      <4>1. \A i \in 1..Len(fanned) : fanned[i] \in ToSet(fanned)
        BY <1>0, Places
      <4> QED BY <4>1, FoundAll DEF InLog
    <3>3. Len(ring) \in Nat
      BY <1>0
    <3>4. Len(fanned) - Len(ring) <= Len(fanned)
      BY <3>1, <3>3
    <3> QED BY <3>1, <3>2, <3>4 DEF Hears
  <2>6. \A x \in ToSet(scans') : Hears(x)'
    BY <1>s, <2>2, <2>3, <2>4, <2>5, HearsSame
  <2> QED BY <1>b, <1>c, <2>2, <2>6 DEF RingInv, RingIsEnd
<1>4. ASSUME NEW i \in DOMAIN scans, ResumeFinish(i) PROVE RingInv'
  <2>1. PICK k, m :
          /\ k \in scans[i].scanned..Len(disk)
          /\ m = ReplayBatch(Merge(scans[i], k), Latest(Merge(scans[i], k), scans[i].since), scans[i])
          /\ s2c' = Append(s2c, m)
    BY <1>4 DEF ResumeFinish
  <2>2. /\ scans' = RemoveAt(scans, i) /\ ring' = ring /\ fanned' = fanned /\ seq' = seq
        /\ inq' = inq
    BY <1>4 DEF ResumeFinish, log, manager, client
  <2>3. scans[i] \in ToSet(scans) /\ ToSet(scans') \subseteq ToSet(scans)
    <3>1. ToSet(scans) = ToSet(RemoveAt(scans, i)) \cup {scans[i]}
      BY <1>0, RemovedElements
    <3> QED BY <2>2, <3>1
  <2>4. scans[i] \in Resumed /\ Hears(scans[i])
    BY <1>s, <2>3
  <2>5. k \in 0..Len(disk)
    <3>1. scans[i].scanned \in Nat /\ Len(disk) \in Nat
      BY <1>0, <2>4 DEF Resumed
    <3> QED BY <2>1, <3>1
  <2>6. m \in Inbound /\ IsBatch(m)
    BY <2>1, <2>4, <2>5, BatchType
  <2>7. Complete(m)
    BY <2>1, <2>4, BatchIsComplete DEF RingInv
  <2>8. Complete(m)'
    BY <2>2, <2>7 DEF Complete
  <2>9. ToSet(Road') = ToSet(Road) \cup {m}
    BY <2>1, <2>2, <2>6, RoadSent
  <2>10. \A x \in ToSet(Road') : IsBatch(x) => Complete(x)'
    BY <2>8, <2>9, CompleteStep DEF RingInv
  <2> QED BY <1>a, <2>2, <2>3, <2>10 DEF RingInv
<1>5. CASE Connect
  <2>1. ring' = ring /\ fanned' = fanned /\ scans' = scans /\ inq' = inq /\ s2c' = <<Welcome>>
    BY <1>5 DEF Connect, log, manager, client
  <2>2. ToSet(Road') \subseteq ToSet(Road) \cup {Welcome} /\ ~IsBatch(Welcome)
    <3>1. Welcome \in Inbound /\ ~IsBatch(Welcome) /\ inq \in Seq(Inbound)
      BY Frames DEF TypeOK
    <3>2. <<Welcome>> \in Seq(Inbound) /\ Road' = inq \o <<Welcome>>
      BY <2>1, <3>1 DEF Road
    <3>3. ToSet(Road') = ToSet(inq) \cup ToSet(<<Welcome>>)
      BY <3>1, <3>2, ElementsOfBoth
    <3>4. ToSet(<<Welcome>>) = {Welcome} /\ ToSet(inq) \subseteq ToSet(Road)
      BY <3>1, Elements, RoadType
    <3> QED BY <3>1, <3>3, <3>4
  <2>3. \A m \in ToSet(Road') : IsBatch(m) => Complete(m)'
    BY <2>2, BatchesStep
  <2> QED BY <1>a, <2>1, <2>3 DEF RingInv
<1>6. ASSUME NEW k \in 0..Len(s2c), Cut(k), RingIsEnd' PROVE RingInv'
  <2>1. ToSet(Road') \subseteq ToSet(Road)
    BY <1>6, RoadCut
  <2>2. ToSet(scans') = {}
    <3>1. scans' = <<>>
      BY <1>6 DEF Cut
    <3> QED BY <3>1 DEF ToSet
  <2> QED BY <1>6, <1>b, <2>1, <2>2 DEF RingInv
<1>7. CASE Drop
  <2>1. PICK k \in 0..Len(s2c) : Cut(k)
    BY <1>7 DEF Drop
  <2>2. RingIsEnd'
    BY <1>7 DEF Drop, manager, RingInv, RingIsEnd
  <2> QED BY <1>6, <2>1, <2>2
<1>8. CASE Restart
  <2>1. PICK k \in 0..Len(s2c) : Cut(k)
    BY <1>8 DEF Restart
  <2>2. RingIsEnd'
    <3>1. ring' = <<>> /\ fanned' = fanned
      BY <1>8 DEF Restart
    <3> QED BY <1>0, <3>1 DEF RingIsEnd
  <2> QED BY <1>6, <2>1, <2>2
<1>9. CASE Receive
  <2>1. ring' = ring /\ fanned' = fanned /\ scans' = scans
    BY <1>9 DEF Receive, manager
  <2>2. Road' = Road
    BY <1>9, RoadReceived
  <2> QED BY <1>a, <1>b, <2>1, <2>2 DEF RingInv
<1>10. CASE OnWelcome \/ OnReplayBatch \/ OnAgentEvent
  <2>1. Take /\ s2c' = s2c /\ ring' = ring /\ fanned' = fanned /\ scans' = scans
    BY <1>10 DEF OnWelcome, OnReplayBatch, OnAgentEvent, manager, net
  <2>2. ToSet(Road') \subseteq ToSet(Road)
    BY <2>1, RoadTaken
  <2> QED BY <1>a, <1>b, <2>1, <2>2 DEF RingInv
<1> QED
  BY <1>1, <1>2, <1>3, <1>4, <1>5, <1>7, <1>8, <1>9, <1>10 DEF Next

-----------------------------------------------------------------------------
(* What the client has, will have and counts from, over any step              *)

\* The lines of the log were emitted, and the manager knows of events in the log only.
LEMMA LinesStep ==
  ASSUME TypeOK, InLog, [Next]_vars
  PROVE  /\ ToSet(disk') \subseteq 1..emitted'
         /\ ToSet(fanned') \subseteq ToSet(disk') /\ ToSet(ring') \subseteq ToSet(disk')
<1>0. /\ ToSet(disk) \subseteq 1..emitted
      /\ ToSet(fanned) \subseteq ToSet(disk) /\ ToSet(ring) \subseteq ToSet(disk)
      /\ disk \in Seq(Event) /\ fanned \in Seq(Event) /\ ring \in Seq(Event) /\ emitted \in Nat
  BY DeliveryAssumption DEF InLog, TypeOK, Count
<1>1. CASE Emit
  <2>1. UNCHANGED <<disk, fanned, ring>> /\ emitted' = emitted + 1
    BY <1>1 DEF Emit, manager
  <2>2. 1..emitted \subseteq 1..emitted'
    BY <1>0, <2>1
  <2> QED BY <1>0, <2>1, <2>2
<1>2. ASSUME NEW e \in Event, Write(e)
      PROVE  /\ ToSet(disk') \subseteq 1..emitted'
             /\ ToSet(fanned') \subseteq ToSet(disk') /\ ToSet(ring') \subseteq ToSet(disk')
  <2>1. disk' = Append(disk, e) /\ UNCHANGED <<emitted, fanned, ring>> /\ e \in Unwritten
    BY <1>2 DEF Write, manager
  <2>2. ToSet(disk') = ToSet(disk) \cup {e}
    BY <1>0, <2>1, AppendElements
  <2>3. e \in 1..emitted
    <3>1. e \in (born + 1)..emitted /\ born \in 0..emitted
      BY <2>1 DEF Unwritten, TypeOK
    <3> QED BY <1>0, <3>1
  <2> QED BY <1>0, <2>1, <2>2, <2>3
<1>3. ASSUME NEW e \in Event, FanOut(e)
      PROVE  /\ ToSet(disk') \subseteq 1..emitted'
             /\ ToSet(fanned') \subseteq ToSet(disk') /\ ToSet(ring') \subseteq ToSet(disk')
  <2>1. /\ fanned' = Append(fanned, e) /\ UNCHANGED <<emitted, disk>> /\ Push(e)
        /\ e \in ToSet(disk)
    BY <1>3 DEF FanOut, log
  <2>2. ToSet(fanned') = ToSet(fanned) \cup {e}
    BY <1>0, <2>1, AppendElements
  <2>3. ToSet(ring') \subseteq ToSet(ring) \cup {e}
    <3> DEFINE r == Append(ring, e)
    <3>1. r \in Seq(Event) /\ ToSet(r) = ToSet(ring) \cup {e} /\ r # <<>>
      <4>1. r \in Seq(Event) /\ r # <<>>
        BY <1>0
      <4>2. ToSet(r) = ToSet(ring) \cup {e}
        BY <1>0, AppendElements
      <4> QED BY <4>1, <4>2
    <3>2. ring' = IF Len(r) > RingCap THEN Tail(r) ELSE r
      BY <2>1 DEF Push
    <3> HIDE DEF r
    <3>3. ToSet(Tail(r)) \subseteq ToSet(r)
      BY <3>1, HeadElements
    <3> QED BY <3>1, <3>2, <3>3
  <2> QED BY <1>0, <2>1, <2>2, <2>3
<1>4. CASE Restart
  <2>1. UNCHANGED <<emitted, disk, fanned>> /\ ring' = <<>>
    BY <1>4 DEF Restart
  <2>2. ToSet(ring') = {}
    BY <2>1 DEF ToSet
  <2> QED BY <1>0, <2>1, <2>2
<1>5. \/ Emit \/ (\E e \in Event : Write(e) \/ FanOut(e)) \/ Restart
      \/ UNCHANGED <<emitted, disk, fanned, ring>>
  <2>1. CASE \E i \in DOMAIN scans : ResumeFinish(i)
    BY <2>1 DEF ResumeFinish, log, manager
  <2>2. CASE ResumeStart \/ Connect \/ Drop \/ Receive \/ Transmit
    BY <2>2 DEF ResumeStart, Connect, Drop, Receive, Transmit, log, manager
  <2>3. CASE OnWelcome \/ OnReplayBatch \/ OnAgentEvent
    BY <2>3 DEF OnWelcome, OnReplayBatch, OnAgentEvent, log, manager
  <2>4. CASE UNCHANGED vars
    BY <2>4 DEF vars, log, manager
  <2> QED BY <2>1, <2>2, <2>3, <2>4 DEF Next
<1>6. CASE UNCHANGED <<emitted, disk, fanned, ring>>
  BY <1>0, <1>6
<1> QED BY <1>1, <1>2, <1>3, <1>4, <1>5, <1>6

\* What is under way is in the log, so that its numbers stay.
LEMMA OnRoad ==
  ASSUME TypeOK, InLog, NEW m \in ToSet(Road)
  PROVE  m \in Inbound /\ Carries(m) \subseteq ToSet(disk) /\ Carries(m) \subseteq Event
<1>1. m \in Inbound
  BY RoadType
<1>2. Carries(m) \subseteq Event
  BY <1>1, Carried
<1>3. \A e \in Carries(m) : Held(e)
  BY DEF Held
<1> QED BY <1>1, <1>2, <1>3 DEF InLog

\* An event in the log stays there, with its number.
LEMMA SeqKept ==
  ASSUME TypeOK, InLog, [Next]_vars, NEW e \in ToSet(disk)
  PROVE  seq'[e] = seq[e] /\ e \in ToSet(disk') /\ e \in Event
<1>1. disk \in Seq(Event)
  BY DEF TypeOK
<1>2. e \in 1..emitted
  BY DEF InLog
<1> QED BY <1>1, <1>2, ElementsOf, LogStep

\* What a frame makes of last_seq.
LEMMA TellsSame ==
  ASSUME TypeOK, InLog, [Next]_vars, NEW m \in Inbound, Carries(m) \subseteq ToSet(disk),
         NEW x
  PROVE  Tells(m, x)' = Tells(m, x)
<1>1. CASE IsEvent(m)
  <2>1. m.event \in ToSet(disk) /\ ~IsBatch(m)
    BY <1>1, Frames, Carried
  <2>2. seq'[m.event] = seq[m.event]
    BY <2>1, SeqKept
  <2> QED BY <2>2 DEF Tells
<1>2. CASE ~IsEvent(m)
  BY <1>2 DEF Tells
<1> QED BY <1>1, <1>2

\* Numbers that were marks, or are of events in the log, are in the log.
LEMMA MarksStep ==
  ASSUME TypeOK, InLog, MarksInLog, [Next]_vars,
         \A x \in Count : Mark(x)' => Mark(x) \/ \E e \in ToSet(disk) : seq[e] = x
  PROVE  MarksInLog'
<1>1. ASSUME NEW x \in Count, Mark(x)' PROVE x = 0 \/ \E e \in ToSet(disk') : seq'[e] = x
  <2>1. x = 0 \/ \E e \in ToSet(disk) : seq[e] = x
    BY <1>1 DEF MarksInLog
  <2>2. \A e \in ToSet(disk) : seq'[e] = seq[e] /\ e \in ToSet(disk')
    BY SeqKept
  <2> QED BY <2>1, <2>2
<1> QED BY <1>1 DEF MarksInLog

\* The events of a batch that was under way are still behind its Resume.
LEMMA AfterKept ==
  ASSUME TypeOK, InLog, BatchesAfter, [Next]_vars, NEW m \in ToSet(Road), IsBatch(m)
  PROVE  \A e \in m.events : m.since < seq'[e]
<1>1. Carries(m) = m.events /\ Carries(m) \subseteq ToSet(disk)
  BY OnRoad, Carried
<1> QED BY <1>1, SeqKept DEF BatchesAfter

\* A Welcome leaves last_seq as it is.
LEMMA WelcomeTells == \A x : ~Tells(Welcome, x)
BY Frames DEF Tells

\* Marks and shown events stay when what is under way does, and questions only move along.
LEMMA CalmView ==
  ASSUME TypeOK, InLog, [Next]_vars, Road' = Road, UNCHANGED <<convo, lastSeq>>,
         \A x \in Count : AskedFor(x)' => AskedFor(x)
  PROVE  (\A x \in Count : Mark(x)' => Mark(x)) /\ \A e : Held(e)' <=> Held(e)
<1>h. \A e : Held(e)' <=> Held(e)
  BY DEF Held
<1>t. \A m \in ToSet(Road) : \A x : Tells(m, x)' = Tells(m, x)
  BY OnRoad, TellsSame
<1>m. ASSUME NEW x \in Count, Mark(x)' PROVE Mark(x)
  <2>1. x = lastSeq \/ AskedFor(x)' \/ \E m \in ToSet(Road) : Tells(m, x)'
    BY <1>m DEF Mark
  <2> QED BY <2>1, <1>t DEF Mark
<1> QED BY <1>h, <1>m

\* A step that only moves frames and questions along, or writes a line of an event that the
\* connection awaits or that no mark is past.
LEMMA Calm ==
  ASSUME TypeOK, ServerInv, ClientInv, [Next]_vars,
         Road' = Road, Len(inq) <= Len(inq'), Len(inq') \in Nat,
         UNCHANGED <<convo, lastSeq, causes, link>>,
         \A x \in Count : AskedFor(x)' => AskedFor(x),
         \A e \in ToSet(disk) : Wanted(e) => Wanted(e)',
         \A e \in ToSet(disk) : Awaited(e) => Awaited(e)',
         \A e \in ToSet(disk') \ ToSet(disk) :
           causes = {} => Awaited(e)' \/ (~link /\ \A x \in Count : Mark(x) => x < seq'[e])
  PROVE  InLog' /\ MarksInLog' /\ BatchesAfter' /\ Tracked' /\ Filled'
<1>0. /\ InLog /\ MarksInLog /\ BatchesAfter /\ Tracked /\ Filled
      /\ Road \in Seq(Inbound) /\ Len(Road) \in Nat /\ Len(inq) \in Nat
  BY RoadType DEF ServerInv, ClientInv
<1>t. \A m \in ToSet(Road) : \A x : Tells(m, x)' = Tells(m, x)
  BY <1>0, OnRoad, TellsSame
<1>h. (\A x \in Count : Mark(x)' => Mark(x)) /\ \A e : Held(e)' <=> Held(e)
  BY <1>0, CalmView
<1>m. ASSUME NEW x \in Count, Mark(x)' PROVE Mark(x)
  BY <1>h, <1>m
<1>s. \A e \in ToSet(disk) : seq'[e] = seq[e]
  BY <1>0, SeqKept
<1>1. InLog'
  <2>1. \A e \in Event : Held(e)' => e \in ToSet(disk')
    BY <1>0, <1>h, LogStep DEF InLog
  <2> QED BY <1>0, <2>1, LinesStep DEF InLog
<1>2. MarksInLog'
  BY <1>0, <1>m, MarksStep
<1>3. BatchesAfter'
  <2>1. \A m \in ToSet(Road) : IsBatch(m) => \A e \in m.events : m.since < seq'[e]
    BY <1>0, AfterKept
  <2> QED BY <2>1 DEF BatchesAfter
<1>n. ASSUME causes = {}, NEW e \in ToSet(disk'), e \notin ToSet(disk), ~Awaited(e)', NEW x \in Count, Mark(x)'
      PROVE  ~link /\ x < seq'[e]
  BY <1>m, <1>n
<1>w. ASSUME NEW e \in ToSet(disk), Welcomed(e) PROVE Welcomed(e)'
  <2>1. lastSeq' < seq'[e] /\ \A x \in Count : AskedFor(x)' => x < seq'[e]
    BY <1>s, <1>w DEF Welcomed
  <2>2. PICK w \in 1..Len(Road) : /\ Road[w] = Welcome
                                  /\ \A j \in 1..w, x \in Count : TellsAt(j, x) => x < seq[e]
    BY <1>w DEF Welcomed
  <2>3. ASSUME NEW j \in 1..w, NEW x \in Count, TellsAt(j, x)' PROVE x < seq'[e]
    <3>1. j \in 1..Len(Road)
      BY <1>0
    <3>2. Road[j] \in ToSet(Road)
      BY <1>0, <3>1, Places
    <3>3. PICK m : m = Road[j]
      OBVIOUS
    <3>4. Road'[j] = m /\ Tells(m, x)'
      BY <2>3, <3>3 DEF TellsAt, Tells
    <3>5. TellsAt(j, x)
      BY <1>t, <3>2, <3>3, <3>4 DEF TellsAt
    <3> QED BY <1>s, <2>2, <3>5
  <2>4. w \in 1..Len(Road') /\ Road'[w] = Welcome
    BY <2>2
  <2> QED BY <2>1, <2>3, <2>4 DEF Welcomed
<1>4. Tracked'
  <2>1. ASSUME causes' = {}, NEW e \in ToSet(disk'), e \in ToSet(disk),
               link' \/ \E x \in Count : Mark(x)' /\ seq'[e] <= x
        PROVE  Held(e)' \/ Wanted(e)' \/ Welcomed(e)' \/ Awaited(e)'
    <3>1. link \/ \E x \in Count : Mark(x) /\ seq[e] <= x
      BY <2>1, <1>m, <1>s
    <3>2. Held(e) \/ Wanted(e) \/ Welcomed(e) \/ Awaited(e)
      BY <1>0, <2>1, <3>1 DEF Tracked
    <3> QED BY <2>1, <3>2, <1>h, <1>w
  <2>2. ASSUME causes' = {}, NEW e \in ToSet(disk'), e \notin ToSet(disk),
               link' \/ \E x \in Count : Mark(x)' /\ seq'[e] <= x
        PROVE  Awaited(e)'
    <3>1. seq'[e] \in Nat
      <4>1. TypeOK'
        BY TypeStep
      <4>2. seq' \in [Event -> 0..emitted'] /\ disk' \in Seq(Event)
        BY <4>1 DEF TypeOK
      <4>3. e \in Event
        BY <4>2, ElementsOf
      <4> QED BY <4>2, <4>3
    <3>2. \A x \in Count : x \in Nat
      BY DEF Count
    <3>3. ASSUME NEW x \in Count, Mark(x)', seq'[e] <= x, ~Awaited(e)' PROVE FALSE
      BY <2>2, <3>1, <3>2, <3>3, <1>n
    <3>4. CASE link'
      BY <2>2, <3>4
    <3> QED BY <2>2, <3>3, <3>4
  <2> QED BY <2>1, <2>2 DEF Tracked
<1>5. Filled'
  <2>1. ASSUME causes' = {}, NEW j \in 1..Len(Road), NEW e \in ToSet(disk'), e \in ToSet(disk),
               IsBatch(Road[j]), Road[j].since < seq'[e], seq'[e] <= Road[j].latest
        PROVE  \/ e \in convo
               \/ \E i \in 1..Len(Road) : (i <= j \/ i <= Len(inq')) /\ e \in Carries(Road[i])
               \/ Awaited(e)' \/ AgentEvent(e) \in ToSet(Road)
    <3>1. \/ e \in convo
          \/ \E i \in 1..Len(Road) : (i <= j \/ i <= Len(inq)) /\ e \in Carries(Road[i])
          \/ Awaited(e) \/ AgentEvent(e) \in ToSet(Road)
      BY <1>0, <1>s, <2>1 DEF Filled
    <3>2. \A i \in 1..Len(Road) : i <= Len(inq) => i <= Len(inq')
      BY <1>0
    <3> QED BY <2>1, <3>1, <3>2
  <2>2. ASSUME causes' = {}, NEW j \in 1..Len(Road), NEW e \in ToSet(disk'), e \notin ToSet(disk),
               IsBatch(Road[j]), seq'[e] <= Road[j].latest
        PROVE  Awaited(e)'
    <3>1. PICK m : m = Road[j]
      OBVIOUS
    <3>2. m \in ToSet(Road) /\ m \in Inbound
      BY <1>0, <3>1, Places
    <3>3. m.latest \in Count /\ IsBatch(m)
      BY <2>2, <3>1, <3>2, Frames
    <3>4. Mark(m.latest)
      BY <3>2, <3>3 DEF Mark, Tells
    <3>5. m.latest \in Nat /\ seq'[e] \in Nat
      <4>1. TypeOK'
        BY TypeStep
      <4>2. seq' \in [Event -> 0..emitted'] /\ disk' \in Seq(Event)
        BY <4>1 DEF TypeOK
      <4>3. e \in Event
        BY <4>2, ElementsOf
      <4> QED BY <3>3, <4>2, <4>3 DEF Count
    <3>6. ~(m.latest < seq'[e])
      BY <2>2, <3>1, <3>5
    <3> QED BY <2>2, <3>3, <3>4, <3>6
  <2> QED BY <2>1, <2>2 DEF Filled
<1> QED BY <1>1, <1>2, <1>3, <1>4, <1>5

\* The scans that go on miss nothing that does not come live.
LEMMA ScansGoOn ==
  ASSUME TypeOK, InLog, ScansSee, [Next]_vars, ToSet(scans') \subseteq ToSet(scans),
         \A e \in ToSet(disk) : e \in Unannounced \/ Held(e) => e \in Unannounced' \/ Held(e)',
         \A e \in ToSet(disk') \ ToSet(disk) : e \in Unannounced'
  PROVE  ScansSee'
<1>1. ASSUME NEW r \in ToSet(scans')
      PROVE  /\ r.scanned \in 0..Len(disk')
             /\ \A e \in ToSet(disk') : e \in Found(r.scanned)' \/ e \in Unannounced' \/ Held(e)'
  <2>1. /\ r.scanned \in 0..Len(disk)
        /\ \A e \in ToSet(disk) : e \in Found(r.scanned) \/ e \in Unannounced \/ Held(e)
    BY <1>1 DEF ScansSee
  <2>2. Len(disk) \in Nat /\ Len(disk) <= Len(disk') /\ Len(disk') \in Nat
    <3>1. TypeOK'
      BY TypeStep
    <3>2. Len(disk') \in Nat
      BY <3>1 DEF TypeOK
    <3> QED BY <3>2, LogStep
  <2>3. r.scanned \in 0..Len(disk')
    BY <2>1, <2>2
  <2>4. \A e \in Found(r.scanned) : e \in Found(r.scanned)'
    BY <2>1, FoundStep
  <2> QED BY <2>1, <2>3, <2>4
<1> QED BY <1>1 DEF ScansSee

\* emitEvent takes a number that is larger than any the client or the log knows of, unless a
\* start has given numbers out again.
LEMMA EmitStep == TypeOK /\ ServerInv /\ ClientInv /\ Emit => ServerInv' /\ ClientInv'
<1> SUFFICES ASSUME TypeOK, ServerInv, ClientInv, Emit PROVE ServerInv' /\ ClientInv'
  OBVIOUS
<1> USE DeliveryAssumption
<1>0. /\ [Next]_vars /\ InLog /\ Linked /\ MarksInLog /\ NumbersBelow /\ ScansSee /\ UnwrittenAhead
      /\ emitted \in Nat /\ born \in 0..emitted /\ nextSeq \in Nat \ {0}
      /\ seq \in [Event -> 0..emitted]
  BY DEF ServerInv, ClientInv, Next, TypeOK, Count
<1>1. /\ UNCHANGED <<born, disk, fanned, ring, scans, conns, link, s2c, c2s, inq, outq, lastSeq,
                     convo, causes>>
      /\ emitted' = emitted + 1 /\ seq' = [seq EXCEPT ![emitted'] = nextSeq]
      /\ nextSeq' = nextSeq + 1 /\ emitted' \in Event
  <2>1. emitted < MaxEvents /\ emitted' = emitted + 1
    BY DEF Emit
  <2>2. emitted' \in Event
    BY <1>0, <2>1 DEF Event
  <2> QED BY <2>1, <2>2 DEF Emit, manager, net, client
<1>2. Road' = Road
  BY <1>1 DEF Road
<1>3. \A x \in Count : AskedFor(x)' => AskedFor(x)
  BY <1>1, <1>2 DEF AskedFor
<1>4. (\A x \in Count : Mark(x)' => Mark(x)) /\ \A e : Held(e)' <=> Held(e)
  BY <1>0, <1>1, <1>2, <1>3, CalmView
<1>5. \A e \in Unannounced : e \in Unannounced'
  <2>1. \A e \in (born + 1)..emitted : e \in (born + 1)..(emitted + 1)
    BY <1>0
  <2> QED BY <1>1, <2>1 DEF Unannounced
<1>6. \A e \in ToSet(disk) : Awaited(e) => Awaited(e)'
  BY <1>1, <1>5 DEF Awaited
<1>7. \A e \in ToSet(disk) : Wanted(e) => Wanted(e)'
  BY <1>0, <1>1, SeqKept DEF Wanted, Found
<1>8. InLog' /\ MarksInLog' /\ BatchesAfter' /\ Tracked' /\ Filled'
  <2>1. Len(inq) \in Nat
    BY RoadType
  <2>2. Len(inq) <= Len(inq') /\ Len(inq') \in Nat
    BY <1>1, <2>1
  <2> QED BY <1>0, <1>1, <1>2, <1>3, <1>6, <1>7, <2>2, Calm
<1>9. ScansSee'
  BY <1>0, <1>1, <1>4, <1>5, ScansGoOn
<1>10. seq'[emitted'] = nextSeq /\ \A e \in Unwritten : seq'[e] = seq[e]
  <2>1. \A e \in Unwritten : e \in 1..emitted
    <3>1. \A e \in (born + 1)..emitted : e \in 1..emitted
      BY <1>0
    <3> QED BY <3>1 DEF Unwritten
  <2> QED BY <1>0, <1>1, <2>1, LogStep
<1>11. \A e \in Unwritten' : e \in Unwritten \/ e = emitted'
  <2>1. \A e \in (born + 1)..(emitted + 1) : e \in (born + 1)..emitted \/ e = emitted + 1
    BY <1>0
  <2> QED BY <1>1, <2>1 DEF Unwritten
<1>12. NumbersBelow'
  <2>1. ASSUME causes = {}, NEW e \in ToSet(disk) \cup Unwritten PROVE seq'[e] < nextSeq + 1
    <3>1. seq[e] < nextSeq /\ seq'[e] = seq[e]
      BY <1>0, <1>10, <2>1, SeqKept DEF NumbersBelow
    <3>2. seq[e] \in Nat
      <4>1. e \in Event
        BY <1>0, <2>1, SeqKept DEF Unwritten, TypeOK, Count, Event
      <4> QED BY <1>0, <4>1
    <3> QED BY <1>0, <3>1, <3>2
  <2>2. nextSeq < nextSeq + 1
    BY <1>0
  <2> QED BY <1>1, <1>10, <1>11, <2>1, <2>2 DEF NumbersBelow
<1>13. UnwrittenAhead'
  <2>1. ASSUME causes = {}, ~link, NEW x \in Count, Mark(x) PROVE x < nextSeq
    <3>1. x = 0 \/ \E e \in ToSet(disk) : seq[e] = x
      BY <1>0, <2>1 DEF MarksInLog
    <3> QED BY <1>0, <2>1, <3>1 DEF NumbersBelow
  <2>2. ASSUME causes = {}, ~link, NEW e \in Unwritten, NEW x \in Count, Mark(x) PROVE x < seq'[e]
    BY <1>0, <1>10, <2>2 DEF UnwrittenAhead
  <2> QED BY <1>1, <1>4, <1>10, <1>11, <2>1, <2>2 DEF UnwrittenAhead
<1>14. Linked'
  BY <1>0, <1>1 DEF Linked
<1> QED BY <1>8, <1>9, <1>12, <1>13, <1>14 DEF ServerInv, ClientInv

\* A line is written: its event is awaited, or no mark is past it.
LEMMA WriteStep ==
  ASSUME TypeOK, ServerInv, ClientInv, NEW w \in Event, Write(w)
  PROVE  ServerInv' /\ ClientInv'
<1>0. /\ [Next]_vars /\ InLog /\ Linked /\ MarksInLog /\ NumbersBelow /\ ScansSee /\ UnwrittenAhead
      /\ disk \in Seq(Event)
  BY DEF ServerInv, ClientInv, Next, TypeOK
<1>1. /\ UNCHANGED <<emitted, born, nextSeq, seq, fanned, ring, scans, conns, link, s2c, c2s,
                     inq, outq, lastSeq, convo, causes>>
      /\ disk' = Append(disk, w) /\ w \in Unwritten
  BY DEF Write, manager, net, client
<1>2. Road' = Road
  BY <1>1 DEF Road
<1>3. \A x \in Count : AskedFor(x)' => AskedFor(x)
  BY <1>1, <1>2 DEF AskedFor
<1>4. (\A x \in Count : Mark(x)' => Mark(x)) /\ \A e : Held(e)' <=> Held(e)
  BY <1>0, <1>1, <1>2, <1>3, CalmView
<1>5. ToSet(disk') = ToSet(disk) \cup {w}
  BY <1>0, <1>1, AppendElements
<1>6. w \in Unannounced /\ Unannounced' = Unannounced
  BY <1>0, <1>1 DEF Unwritten, Unannounced, InLog
<1>7. \A e : Awaited(e)' <=> Awaited(e)
  BY <1>1, <1>6 DEF Awaited
<1>8. \A e \in ToSet(disk) : Wanted(e) => Wanted(e)'
  <2>1. ASSUME NEW e \in ToSet(disk), NEW r \in ToSet(scans), e \in Found(r.scanned)
        PROVE  e \in Found(r.scanned)'
    <3>1. r.scanned \in 0..Len(disk)
      BY <1>0 DEF ScansSee
    <3> QED BY <1>0, <2>1, <3>1, FoundStep
  <2> QED BY <1>1, <2>1 DEF Wanted
<1>9. InLog' /\ MarksInLog' /\ BatchesAfter' /\ Tracked' /\ Filled'
  <2>1. Len(inq) \in Nat
    BY RoadType
  <2>2. Len(inq) <= Len(inq') /\ Len(inq') \in Nat
    BY <1>1, <2>1
  <2>3. \A e \in ToSet(disk') \ ToSet(disk) :
          causes = {} => Awaited(e)' \/ (~link /\ \A x \in Count : Mark(x) => x < seq'[e])
    <3>1. CASE link
      BY <1>5, <1>6, <1>7, <3>1 DEF Awaited
    <3>2. CASE ~link
      BY <1>0, <1>1, <1>5, <3>2 DEF UnwrittenAhead
    <3> QED BY <3>1, <3>2
  <2> QED BY <1>0, <1>1, <1>2, <1>3, <1>7, <1>8, <2>2, <2>3, Calm
<1>10. ScansSee'
  BY <1>0, <1>1, <1>4, <1>5, <1>6, ScansGoOn
<1>11. Unwritten' \subseteq Unwritten
  BY <1>1, <1>5 DEF Unwritten
<1>12. NumbersBelow'
  BY <1>0, <1>1, <1>5, <1>11 DEF NumbersBelow
<1>13. UnwrittenAhead'
  BY <1>0, <1>1, <1>4, <1>11 DEF UnwrittenAhead
<1>14. Linked'
  BY <1>0, <1>1 DEF Linked
<1> QED BY <1>9, <1>10, <1>12, <1>13, <1>14 DEF ServerInv, ClientInv

\* A step in which the log and the manager stand still, and questions only move along.
LEMMA StillStep ==
  ASSUME TypeOK, ServerInv, ClientInv, [Next]_vars,
         UNCHANGED <<log, manager, link, lastSeq, convo, causes>>,
         Road' = Road, Len(inq) <= Len(inq'), Len(inq') \in Nat, Linked', ScansSee',
         \A x \in Count : AskedFor(x)' => AskedFor(x),
         \A e \in ToSet(disk) : Wanted(e) => Wanted(e)'
  PROVE  ServerInv' /\ ClientInv'
<1>0. InLog /\ NumbersBelow /\ UnwrittenAhead
  BY DEF ServerInv, ClientInv
<1>1. UNCHANGED <<emitted, born, nextSeq, seq, disk, fanned, link, causes, lastSeq, convo>>
  BY DEF log, manager
<1>2. (\A x \in Count : Mark(x)' => Mark(x)) /\ \A e : Held(e)' <=> Held(e)
  BY <1>0, <1>1, CalmView
<1>3. \A e \in ToSet(disk) : Awaited(e) => Awaited(e)'
  BY <1>1 DEF Awaited, Unannounced
<1>4. InLog' /\ MarksInLog' /\ BatchesAfter' /\ Tracked' /\ Filled'
  BY <1>0, <1>1, <1>3, Calm
<1>5. Unwritten' = Unwritten
  BY <1>1 DEF Unwritten
<1>6. NumbersBelow'
  BY <1>0, <1>1, <1>5 DEF NumbersBelow
<1>7. UnwrittenAhead'
  BY <1>0, <1>1, <1>2, <1>5 DEF UnwrittenAhead
<1> QED BY <1>4, <1>6, <1>7 DEF ServerInv, ClientInv

\* A scan that starts finds all that the log has.
LEMMA ResumeStartStep == TypeOK /\ ServerInv /\ ClientInv /\ ResumeStart => ServerInv' /\ ClientInv'
<1> SUFFICES ASSUME TypeOK, ServerInv, ClientInv, ResumeStart PROVE ServerInv' /\ ClientInv'
  OBVIOUS
<1>0. /\ [Next]_vars /\ InLog /\ Linked /\ ScansSee
      /\ scans \in Seq(Resumed) /\ c2s \in Seq(Count) /\ Len(disk) \in Nat /\ Len(fanned) \in Nat
  BY DEF ServerInv, Next, TypeOK
<1>1. PICK r : r = [since |-> Head(c2s), scanned |-> Len(disk), heard |-> Len(fanned)]
  OBVIOUS
<1>2. /\ UNCHANGED <<log, manager, conns, link, s2c, inq, outq, lastSeq, convo, causes>>
      /\ c2s # <<>> /\ scans' = Append(scans, r) /\ c2s' = Tail(c2s)
  BY <1>1 DEF ResumeStart, client
<1>3. Head(c2s) \in Count /\ ToSet(c2s) = ToSet(c2s') \cup {Head(c2s)}
  <2>1. Head(c2s) \in Count
    BY <1>0, <1>2
  <2> QED BY <1>0, <1>2, <2>1, HeadElements
<1>4. r \in Resumed /\ r.since = Head(c2s) /\ r.scanned = Len(disk)
  BY <1>0, <1>1, <1>3 DEF Resumed
<1>5. ToSet(scans') = ToSet(scans) \cup {r}
  BY <1>0, <1>2, <1>4, AppendElements
<1>6. Road' = Road /\ Len(inq) <= Len(inq') /\ Len(inq') \in Nat
  BY <1>2, RoadType DEF Road
<1>7. \A x \in Count : AskedFor(x)' => AskedFor(x)
  BY <1>2, <1>3, <1>4, <1>5, <1>6 DEF AskedFor
<1>8. \A e \in ToSet(disk) : Wanted(e) => Wanted(e)'
  <2>1. disk' = disk /\ seq' = seq /\ outq' = outq
    BY <1>2 DEF log
  <2>2. \A e \in ToSet(disk) : e \in Found(r.scanned)
    BY <1>4, FoundAll
  <2>3. \A e : \A k : e \in Found(k) => e \in Found(k)'
    BY <2>1 DEF Found
  <2>4. ASSUME NEW e \in ToSet(disk), NEW x \in ToSet(c2s), x < seq[e] PROVE Wanted(e)'
    <3>1. CASE x \in ToSet(c2s')
      BY <2>1, <2>4, <3>1 DEF Wanted
    <3>2. CASE x = r.since
      <4>1. r.since < seq'[e] /\ e \in Found(r.scanned)'
        BY <2>1, <2>2, <2>3, <2>4, <3>2
      <4> QED BY <1>5, <4>1 DEF Wanted
    <3> QED BY <1>3, <1>4, <2>4, <3>1, <3>2
  <2>5. ASSUME NEW e \in ToSet(disk), NEW x \in ToSet(outq), x < seq[e] PROVE Wanted(e)'
    BY <2>1, <2>5 DEF Wanted
  <2>6. ASSUME NEW e \in ToSet(disk), NEW q \in ToSet(scans), q.since < seq[e], e \in Found(q.scanned)
        PROVE  Wanted(e)'
    BY <1>5, <2>1, <2>3, <2>6 DEF Wanted
  <2> QED BY <2>4, <2>5, <2>6 DEF Wanted
<1>9. ScansSee'
  <2>1. disk' = disk /\ fanned' = fanned /\ emitted' = emitted /\ born' = born
    BY <1>2 DEF log, manager
  <2>2. (\A e : Held(e)' <=> Held(e)) /\ Unannounced' = Unannounced
    BY <1>2, <1>6, <2>1 DEF Held, Unannounced
  <2>3. ASSUME NEW q \in ToSet(scans')
        PROVE  /\ q.scanned \in 0..Len(disk)
               /\ \A e \in ToSet(disk) : e \in Found(q.scanned) \/ e \in Unannounced \/ Held(e)
    <3>1. CASE q = r
      <4>1. q.scanned = Len(disk) /\ q.scanned \in 0..Len(disk)
        BY <1>0, <1>4, <3>1
      <4> QED BY <4>1, FoundAll
    <3>2. CASE q \in ToSet(scans)
      BY <1>0, <3>2 DEF ScansSee
    <3> QED BY <1>5, <2>3, <3>1, <3>2
  <2> QED BY <2>1, <2>2, <2>3 DEF ScansSee, Found
<1>10. Linked'
  <2>1. link
    BY <1>0, <1>2 DEF Linked
  <2> QED BY <1>2, <2>1 DEF Linked
<1> QED BY <1>0, <1>2, <1>6, <1>7, <1>8, <1>9, <1>10, StillStep

\* A frame goes into the client's queue.
LEMMA ReceiveStep == TypeOK /\ ServerInv /\ ClientInv /\ Receive => ServerInv' /\ ClientInv'
<1> SUFFICES ASSUME TypeOK, ServerInv, ClientInv, Receive PROVE ServerInv' /\ ClientInv'
  OBVIOUS
<1>0. [Next]_vars /\ InLog /\ Linked /\ ScansSee
  BY DEF ServerInv, Next
<1>1. UNCHANGED <<log, manager, scans, conns, link, c2s, outq, lastSeq, convo, causes>> /\ s2c # <<>>
  BY DEF Receive
<1>2. Road' = Road /\ Len(inq') = Len(inq) + 1
  BY RoadReceived
<1>3. Len(inq) \in Nat
  BY RoadType
<1>4. Len(inq) <= Len(inq') /\ Len(inq') \in Nat
  BY <1>2, <1>3
<1>5. \A x \in Count : AskedFor(x)' => AskedFor(x)
  BY <1>1, <1>2 DEF AskedFor
<1>6. \A e \in ToSet(disk) : Wanted(e) => Wanted(e)'
  BY <1>1 DEF Wanted, Found, log
<1>7. Linked'
  BY <1>0, <1>1 DEF Linked
<1>8. ScansSee'
  <2>1. (\A e : Held(e)' <=> Held(e)) /\ Unannounced' = Unannounced /\ disk' = disk
    BY <1>1, <1>2 DEF Held, Unannounced, log, manager
  <2> QED BY <1>0, <1>1, <2>1, ScansGoOn
<1> QED BY <1>0, <1>1, <1>2, <1>4, <1>5, <1>6, <1>7, <1>8, StillStep

\* A question goes out.
LEMMA TransmitStep == TypeOK /\ ServerInv /\ ClientInv /\ Transmit => ServerInv' /\ ClientInv'
<1> SUFFICES ASSUME TypeOK, ServerInv, ClientInv, Transmit PROVE ServerInv' /\ ClientInv'
  OBVIOUS
<1>0. [Next]_vars /\ InLog /\ Linked /\ ScansSee /\ outq \in Seq(Count) /\ c2s \in Seq(Count)
  BY DEF ServerInv, Next, TypeOK
<1>1. /\ UNCHANGED <<log, manager, scans, conns, link, s2c, inq, lastSeq, convo, causes>>
      /\ link /\ outq # <<>> /\ c2s' = Append(c2s, Head(outq)) /\ outq' = Tail(outq)
  BY DEF Transmit
<1>2. Road' = Road /\ Len(inq) <= Len(inq') /\ Len(inq') \in Nat
  BY <1>1, RoadType DEF Road
<1>3. /\ ToSet(outq) = ToSet(outq') \cup {Head(outq)}
      /\ ToSet(c2s') = ToSet(c2s) \cup {Head(outq)}
  <2>1. Head(outq) \in Count
    BY <1>0, <1>1
  <2> QED BY <1>0, <1>1, <2>1, HeadElements, AppendElements
<1>4. \A x \in Count : AskedFor(x)' => AskedFor(x)
  BY <1>1, <1>2, <1>3 DEF AskedFor
<1>5. \A e \in ToSet(disk) : Wanted(e) => Wanted(e)'
  BY <1>1, <1>3 DEF Wanted, Found, log
<1>6. Linked'
  BY <1>1 DEF Linked
<1>7. ScansSee'
  <2>1. (\A e : Held(e)' <=> Held(e)) /\ Unannounced' = Unannounced /\ disk' = disk
    BY <1>1, <1>2 DEF Held, Unannounced, log, manager
  <2> QED BY <1>0, <1>1, <2>1, ScansGoOn
<1> QED BY <1>0, <1>1, <1>2, <1>4, <1>5, <1>6, <1>7, StillStep

\* A frame is sent that brings what it takes away from the questions and from what is awaited.
LEMMA SendStep ==
  ASSUME TypeOK, ServerInv, ClientInv, [Next]_vars, NEW m \in Inbound,
         UNCHANGED <<log, lastSeq, convo, causes, inq>>, link', s2c' = Append(s2c, m),
         ToSet(scans') \subseteq ToSet(scans), Carries(m) \subseteq ToSet(disk),
         \A x \in Count : AskedFor(x)' => AskedFor(x),
         \A x \in Count : Tells(m, x) => Mark(x) \/ \E e \in ToSet(disk) : seq[e] = x,
         IsBatch(m) => \A e \in m.events : m.since < seq[e],
         \A e \in ToSet(disk) : Wanted(e) => Wanted(e)' \/ e \in Carries(m),
         \A e \in ToSet(disk) : e \in Unannounced => e \in Unannounced' \/ m = AgentEvent(e),
         \A e \in ToSet(disk) :
           IsBatch(m) /\ m.since < seq[e] => Held(e) \/ e \in Carries(m) \/ e \in Unannounced',
         \A e \in ToSet(disk) :
           link \/ (\E x \in Count : Mark(x) /\ seq[e] <= x) \/ Welcomed(e)'
  PROVE  ServerInv' /\ ClientInv'
<1>0. /\ InLog /\ MarksInLog /\ BatchesAfter /\ NumbersBelow /\ ScansSee /\ Tracked /\ Filled
      /\ UNCHANGED <<emitted, born, nextSeq, seq, disk>>
  BY DEF ServerInv, ClientInv, log
<1>1. /\ Road \in Seq(Inbound) /\ Len(Road) \in Nat
      /\ Len(Road') = Len(Road) + 1 /\ Road'[Len(Road) + 1] = m
      /\ \A i \in 1..Len(Road) : Road'[i] = Road[i]
      /\ ToSet(Road') = ToSet(Road) \cup {m}
  BY RoadType, RoadSent
<1>2. \A e : Held(e)' <=> Held(e) \/ e \in Carries(m)
  BY <1>1 DEF Held
<1>3. \A f \in ToSet(Road') : \A x : Tells(f, x)' = Tells(f, x)
  BY <1>0 DEF Tells
<1>4. \A x \in Count : Mark(x)' => Mark(x) \/ \E e \in ToSet(disk) : seq[e] = x
  BY <1>1, <1>3 DEF Mark
<1>5. \A i \in 1..Len(Road) : i \in 1..Len(Road')
  BY <1>1
<1>6. InLog'
  <2>1. \A e \in Event : Held(e)' => e \in ToSet(disk')
    BY <1>0, <1>2 DEF InLog
  <2> QED BY <1>0, <2>1, LinesStep DEF InLog
<1>7. MarksInLog'
  BY <1>0, <1>4, MarksStep
<1>8. BatchesAfter'
  BY <1>0, <1>1 DEF BatchesAfter
<1>9. NumbersBelow'
  BY <1>0 DEF NumbersBelow, Unwritten
<1>10. ASSUME NEW e \in ToSet(disk), e \in Unannounced PROVE e \in Unannounced' \/ Held(e)'
  <2>1. ASSUME m = AgentEvent(e) PROVE e \in Carries(m)
    <3>1. e \in Event
      BY <1>0, SeqKept
    <3> QED BY <2>1, <3>1, Carried
  <2> QED BY <1>2, <1>10, <2>1
<1>11. ScansSee'
  BY <1>0, <1>2, <1>10, ScansGoOn
<1>12. ASSUME NEW e \in ToSet(disk), Welcomed(e) PROVE Welcomed(e)'
  <2>1. lastSeq' < seq'[e] /\ \A x \in Count : AskedFor(x)' => x < seq'[e]
    BY <1>0, <1>12 DEF Welcomed
  <2>2. PICK w \in 1..Len(Road) : /\ Road[w] = Welcome
                                  /\ \A j \in 1..w, x \in Count : TellsAt(j, x) => x < seq[e]
    BY <1>12 DEF Welcomed
  <2>3. ASSUME NEW j \in 1..w, NEW x \in Count, TellsAt(j, x)' PROVE x < seq'[e]
    <3>1. j \in 1..Len(Road)
      BY <1>1
    <3>2. Road'[j] = Road[j]
      BY <1>1, <3>1
    <3>3. TellsAt(j, x)
      BY <1>0, <2>3, <3>2 DEF TellsAt, Tells
    <3> QED BY <1>0, <2>2, <3>3
  <2>4. w \in 1..Len(Road') /\ Road'[w] = Welcome
    BY <1>1, <1>5, <2>2
  <2> QED BY <2>1, <2>3, <2>4 DEF Welcomed
<1>13. Tracked'
  <2>1. ASSUME causes = {}, NEW e \in ToSet(disk)
        PROVE  Held(e)' \/ Wanted(e)' \/ Welcomed(e)' \/ Awaited(e)'
    <3>1. CASE link \/ (\E x \in Count : Mark(x) /\ seq[e] <= x)
      <4>1. Held(e) \/ Wanted(e) \/ Welcomed(e) \/ Awaited(e)
        BY <1>0, <2>1, <3>1 DEF Tracked
      <4> QED BY <4>1, <1>2, <1>10, <1>12 DEF Awaited
    <3>2. CASE Welcomed(e)'
      BY <3>2
    <3> QED BY <2>1, <3>1, <3>2
  <2> QED BY <1>0, <2>1 DEF Tracked
<1>14. Filled'
  <2>1. ASSUME causes = {}, NEW j \in 1..Len(Road), NEW e \in ToSet(disk),
               IsBatch(Road[j]), Road[j].since < seq[e], seq[e] <= Road[j].latest
        PROVE  \/ e \in convo
               \/ \E i \in 1..Len(Road') : (i <= j \/ i <= Len(inq)) /\ e \in Carries(Road'[i])
               \/ Awaited(e)' \/ AgentEvent(e) \in ToSet(Road')
    <3>1. \/ e \in convo
          \/ \E i \in 1..Len(Road) : (i <= j \/ i <= Len(inq)) /\ e \in Carries(Road[i])
          \/ Awaited(e) \/ AgentEvent(e) \in ToSet(Road)
      BY <1>0, <2>1 DEF Filled
    <3>2. Awaited(e) => Awaited(e)' \/ AgentEvent(e) \in ToSet(Road')
      BY <1>1 DEF Awaited
    <3>3. ASSUME NEW i \in 1..Len(Road), i <= j \/ i <= Len(inq), e \in Carries(Road[i])
          PROVE  \E g \in 1..Len(Road') : (g <= j \/ g <= Len(inq)) /\ e \in Carries(Road'[g])
      BY <1>1, <1>5, <3>3
    <3> QED BY <1>1, <3>1, <3>2, <3>3
  <2>2. ASSUME IsBatch(m), NEW e \in ToSet(disk), m.since < seq[e]
        PROVE  \/ e \in convo
               \/ \E i \in 1..Len(Road') : i <= Len(Road) + 1 /\ e \in Carries(Road'[i])
               \/ Awaited(e)'
    <3>0. PICK N : N = Len(Road)
      OBVIOUS
    <3>1. N + 1 \in 1..Len(Road') /\ N + 1 <= N + 1 /\ \A i \in 1..N : i <= N + 1
      BY <1>1, <3>0
    <3>2. Held(e) \/ e \in Carries(m) \/ e \in Unannounced'
      BY <2>2
    <3>3. CASE e \in Carries(m)
      BY <1>1, <3>0, <3>1, <3>3
    <3>4. CASE \E f \in ToSet(Road) : e \in Carries(f)
      <4>1. PICK i \in 1..Len(Road) : e \in Carries(Road[i])
        BY <1>1, <3>4, Places
      <4> QED BY <1>1, <1>5, <3>0, <3>1, <4>1
    <3>5. CASE e \in Unannounced'
      BY <3>5 DEF Awaited
    <3> QED BY <3>2, <3>3, <3>4, <3>5 DEF Held
  <2>3. ASSUME NEW j \in 1..Len(Road') PROVE j \in 1..Len(Road) \/ j = Len(Road) + 1
    BY <1>1
  <2>4. ASSUME causes' = {}, NEW j \in 1..Len(Road'), NEW e \in ToSet(disk'),
               IsBatch(Road'[j]), Road'[j].since < seq'[e], seq'[e] <= Road'[j].latest
        PROVE  \/ e \in convo'
               \/ \E i \in 1..Len(Road') : (i <= j \/ i <= Len(inq')) /\ e \in Carries(Road'[i])
               \/ Awaited(e)' \/ AgentEvent(e) \in ToSet(Road')
    <3>1. CASE j \in 1..Len(Road)
      BY <1>0, <1>1, <2>1, <2>4, <3>1
    <3>2. CASE j = Len(Road) + 1
      BY <1>0, <1>1, <2>2, <2>4, <3>2
    <3> QED BY <2>3, <3>1, <3>2
  <2> QED BY <2>4 DEF Filled
<1>15. Linked' /\ UnwrittenAhead'
  BY DEF Linked, UnwrittenAhead
<1> QED
  BY <1>6, <1>7, <1>8, <1>9, <1>11, <1>13, <1>14, <1>15 DEF ServerInv, ClientInv

\* An event is fanned out: to the connection, if there is one.
LEMMA FanOutStep ==
  ASSUME TypeOK, ServerInv, ClientInv, NEW f \in Event, FanOut(f)
  PROVE  ServerInv' /\ ClientInv'
<1>0. [Next]_vars /\ InLog /\ Linked /\ NumbersBelow /\ UnwrittenAhead /\ fanned \in Seq(Event)
  BY DEF ServerInv, ClientInv, Next, TypeOK
<1>1. /\ UNCHANGED <<log, scans, conns, link, c2s, inq, outq, lastSeq, convo, causes>>
      /\ UNCHANGED <<emitted, born, nextSeq, seq, disk>>
      /\ fanned' = Append(fanned, f) /\ f \in ToSet(disk)
      /\ s2c' = IF link THEN Append(s2c, AgentEvent(f)) ELSE s2c
  BY DEF FanOut, log, client
<1>2. ToSet(fanned') = ToSet(fanned) \cup {f}
  BY <1>0, <1>1, AppendElements
<1>3. \A e \in Unannounced : e \in Unannounced' \/ e = f
  BY <1>1, <1>2 DEF Unannounced
<1>4. \A e : Wanted(e) => Wanted(e)'
  BY <1>1 DEF Wanted, Found
<1>5. CASE link
  <2> DEFINE m == AgentEvent(f)
  <2>1. m \in Inbound /\ IsEvent(m) /\ ~IsBatch(m) /\ m.event = f /\ Carries(m) = {f}
    BY Frames, Carried
  <2> HIDE DEF m
  <2>2. s2c' = Append(s2c, m)
    BY <1>1, <1>5 DEF m
  <2>3. ToSet(Road') = ToSet(Road) \cup {m}
    BY <1>1, <2>1, <2>2, RoadSent
  <2>4. \A x \in Count : AskedFor(x)' => AskedFor(x)
    BY <1>1, <2>1, <2>3 DEF AskedFor
  <2>5. \A x \in Count : Tells(m, x) => \E e \in ToSet(disk) : seq[e] = x
    BY <1>1, <2>1 DEF Tells
  <2>6. \A e \in Unannounced : e \in Unannounced' \/ m = AgentEvent(e)
    BY <1>3 DEF m
  <2> QED BY <1>0, <1>1, <1>4, <1>5, <2>1, <2>2, <2>4, <2>5, <2>6, SendStep
<1>6. CASE ~link
  <2>1. Road' = Road /\ Len(inq) <= Len(inq') /\ Len(inq') \in Nat
    BY <1>1, <1>6, RoadType DEF Road
  <2>2. \A x \in Count : AskedFor(x)' => AskedFor(x)
    BY <1>1, <2>1 DEF AskedFor
  <2>3. \A e \in ToSet(disk) : Awaited(e) => Awaited(e)'
    BY <1>6 DEF Awaited
  <2>4. InLog' /\ MarksInLog' /\ BatchesAfter' /\ Tracked' /\ Filled'
    BY <1>1, <1>4, <2>1, <2>2, <2>3, <1>0, Calm
  <2>5. (\A x \in Count : Mark(x)' => Mark(x)) /\ \A e : Held(e)' <=> Held(e)
    BY <1>0, <1>1, <2>1, <2>2, CalmView
  <2>6. scans' = <<>> /\ s2c' = <<>> /\ c2s' = <<>>
    BY <1>0, <1>1, <1>6 DEF Linked
  <2>7. Linked' /\ ScansSee'
    <3>1. ToSet(scans') = {}
      BY <2>6 DEF ToSet
    <3> QED BY <2>6, <3>1 DEF Linked, ScansSee
  <2>8. NumbersBelow' /\ UnwrittenAhead'
    <3>1. Unwritten' = Unwritten
      BY <1>1 DEF Unwritten
    <3>2. NumbersBelow'
      BY <1>0, <1>1, <3>1 DEF NumbersBelow
    <3>3. UnwrittenAhead'
      BY <1>0, <1>1, <2>5, <3>1 DEF UnwrittenAhead
    <3> QED BY <3>2, <3>3
  <2> QED BY <2>4, <2>7, <2>8 DEF ServerInv, ClientInv
<1> QED BY <1>5, <1>6

\* A batch is sent: its scan found what its question asked for, or it is shown or comes live.
LEMMA ResumeFinishStep ==
  ASSUME TypeOK, ServerInv, ClientInv, NEW i \in DOMAIN scans, ResumeFinish(i)
  PROVE  ServerInv' /\ ClientInv'
<1>0. /\ [Next]_vars /\ InLog /\ Linked /\ ScansSee /\ scans \in Seq(Resumed)
      /\ Len(disk) \in Nat /\ disk \in Seq(Event)
  BY DEF ServerInv, Next, TypeOK
<1>1. PICK r, k, m : /\ r = scans[i] /\ k \in r.scanned..Len(disk)
                     /\ m = ReplayBatch(Merge(r, k), Latest(Merge(r, k), r.since), r)
                     /\ s2c' = Append(s2c, m)
  BY DEF ResumeFinish
<1>2. /\ UNCHANGED <<log, manager, conns, link, c2s, inq, outq, lastSeq, convo, causes>>
      /\ UNCHANGED <<emitted, born, nextSeq, seq, disk, fanned>> /\ scans' = RemoveAt(scans, i)
  BY DEF ResumeFinish, log, manager, client
<1>3. ToSet(scans) = ToSet(scans') \cup {r} /\ r \in ToSet(scans) /\ r \in Resumed
  <2>1. ToSet(scans) = ToSet(RemoveAt(scans, i)) \cup {scans[i]}
    BY <1>0, RemovedElements
  <2>2. scans[i] \in Resumed
    BY <1>0
  <2> QED BY <1>1, <1>2, <2>1, <2>2
<1>4. /\ r.scanned \in 0..Len(disk)
      /\ \A e \in ToSet(disk) : e \in Found(r.scanned) \/ e \in Unannounced \/ Held(e)
  BY <1>0, <1>3 DEF ScansSee
<1>5. k \in 0..Len(disk) /\ r.since \in Count
  <2>1. k \in 0..Len(disk)
    BY <1>0, <1>1, <1>4
  <2> QED BY <1>3, <2>1 DEF Resumed
<1>6. /\ m \in Inbound /\ IsBatch(m) /\ ~IsEvent(m) /\ m.events = Merge(r, k)
      /\ m.latest = Latest(Merge(r, k), r.since) /\ m.since = r.since
  BY <1>1, <1>3, <1>5, BatchType
<1>7. /\ \A e \in m.events : m.since < seq[e] /\ e \in ToSet(disk) \cup ToSet(ring)
      /\ m.latest = m.since \/ \E e \in m.events : m.latest = seq[e]
  BY <1>3, <1>5, <1>6, BatchRange
<1>8. Carries(m) = m.events /\ m.events \subseteq ToSet(disk)
  BY <1>0, <1>6, <1>7, Carried DEF InLog
<1>9. ASSUME NEW e \in Found(r.scanned), r.since < seq[e] PROVE e \in Carries(m)
  <2>1. e \in Found(k)
    BY <1>0, <1>1, <1>4, FoundStep
  <2> QED BY <1>6, <1>8, <1>9, <2>1 DEF Merge
<1>10. ToSet(Road') = ToSet(Road) \cup {m}
  BY <1>1, <1>2, <1>6, RoadSent
<1>11. \A x \in Count : AskedFor(x)' => AskedFor(x)
  BY <1>2, <1>3, <1>6, <1>10 DEF AskedFor
<1>12. \A x \in Count : Tells(m, x) => Mark(x) \/ \E e \in ToSet(disk) : seq[e] = x
  <2>1. AskedFor(r.since)
    BY <1>3 DEF AskedFor
  <2>2. ASSUME NEW x \in Count, Tells(m, x) PROVE Mark(x) \/ \E e \in ToSet(disk) : seq[e] = x
    <3>1. x = m.latest
      BY <1>6, <2>2 DEF Tells
    <3>2. CASE m.latest = m.since
      BY <1>6, <2>1, <3>1, <3>2 DEF Mark
    <3>3. CASE \E e \in m.events : m.latest = seq[e]
      BY <1>8, <3>1, <3>3
    <3> QED BY <1>7, <3>2, <3>3
  <2> QED BY <2>2
<1>13. ASSUME NEW e \in ToSet(disk), Wanted(e) PROVE Wanted(e)' \/ e \in Carries(m)
  <2>1. CASE \E x \in ToSet(outq) \cup ToSet(c2s) : x < seq[e]
    BY <1>2, <2>1 DEF Wanted
  <2>2. CASE \E q \in ToSet(scans) : q.since < seq[e] /\ e \in Found(q.scanned)
    <3>1. PICK q \in ToSet(scans) : q.since < seq[e] /\ e \in Found(q.scanned)
      BY <2>2
    <3>2. CASE q = r
      BY <1>9, <3>1, <3>2
    <3>3. CASE q \in ToSet(scans')
      <4>1. e \in Found(q.scanned)'
        BY <1>2, <3>1 DEF Found
      <4> QED BY <1>2, <3>1, <3>3, <4>1 DEF Wanted
    <3> QED BY <1>3, <3>1, <3>2, <3>3
  <2> QED BY <1>13, <2>1, <2>2 DEF Wanted
<1>14. Unannounced' = Unannounced
  BY <1>2 DEF Unannounced
<1>15. \A e \in ToSet(disk) : m.since < seq[e] => Held(e) \/ e \in Carries(m) \/ e \in Unannounced'
  BY <1>4, <1>6, <1>9, <1>14
<1>16. link /\ link'
  <2>1. scans # <<>>
    BY <1>0
  <2> QED BY <1>0, <1>2, <2>1 DEF Linked
<1>17. ToSet(scans') \subseteq ToSet(scans)
  BY <1>3
<1> QED
  BY <1>0, <1>1, <1>2, <1>6, <1>7, <1>8, <1>11, <1>12, <1>13, <1>14, <1>15, <1>16, <1>17, SendStep

\* The Welcome of a new connection will make the client ask for what no mark is past.
LEMMA ConnectStep == TypeOK /\ ServerInv /\ ClientInv /\ Connect => ServerInv' /\ ClientInv'
<1> SUFFICES ASSUME TypeOK, ServerInv, ClientInv, Connect PROVE ServerInv' /\ ClientInv'
  OBVIOUS
<1>0. [Next]_vars /\ InLog /\ Linked /\ seq \in [Event -> 0..emitted]
  BY DEF ServerInv, Next, TypeOK
<1>1. /\ UNCHANGED <<log, manager, scans, c2s, inq, outq, lastSeq, convo, causes>>
      /\ UNCHANGED <<emitted, born, nextSeq, seq, disk, fanned>>
      /\ ~link /\ link' /\ s2c' = <<Welcome>>
  BY DEF Connect, log, manager, client
<1>2. Welcome \in Inbound /\ ~IsBatch(Welcome) /\ Carries(Welcome) = {} /\ \A x : ~Tells(Welcome, x)
  BY Frames, Carried, WelcomeTells
<1>3. s2c' = Append(s2c, Welcome)
  <2>1. s2c = <<>>
    BY <1>0, <1>1 DEF Linked
  <2> QED BY <1>1, <2>1
<1>4. /\ Len(Road) \in Nat /\ Len(Road') = Len(Road) + 1 /\ Road'[Len(Road) + 1] = Welcome
      /\ \A j \in 1..Len(Road) : Road'[j] = Road[j]
      /\ ToSet(Road') = ToSet(Road) \cup {Welcome} /\ Road \in Seq(Inbound)
  BY <1>1, <1>2, <1>3, RoadSent, RoadType
<1>5. \A x \in Count : AskedFor(x)' => AskedFor(x)
  BY <1>1, <1>2, <1>4 DEF AskedFor
<1>6. \A e \in ToSet(disk) : Wanted(e) => Wanted(e)'
  BY <1>1 DEF Wanted, Found
<1>7. \A e \in ToSet(disk) : e \in Unannounced => e \in Unannounced'
  BY <1>1 DEF Unannounced
<1>8. ASSUME NEW e \in ToSet(disk), ~\E x \in Count : Mark(x) /\ seq[e] <= x PROVE Welcomed(e)'
  <2>1. \A x \in Count : Mark(x) => x < seq[e]
    <3>1. seq[e] \in Nat /\ \A x \in Count : x \in Nat
      <4>1. e \in Event
        BY <1>0, SeqKept
      <4> QED BY <1>0, <4>1 DEF Count
    <3> QED BY <1>8, <3>1
  <2>2. lastSeq' < seq'[e] /\ \A x \in Count : AskedFor(x)' => x < seq'[e]
    <3>1. lastSeq \in Count /\ Mark(lastSeq) /\ \A x \in Count : AskedFor(x) => Mark(x)
      BY DEF TypeOK, Mark
    <3> QED BY <1>1, <1>5, <2>1, <3>1
  <2>3. PICK w : w = Len(Road) + 1
    OBVIOUS
  <2>4. w \in 1..Len(Road') /\ Road'[w] = Welcome
    BY <1>4, <2>3
  <2>5. ASSUME NEW j \in 1..w, NEW x \in Count, TellsAt(j, x)' PROVE x < seq'[e]
    <3>1. CASE j = w
      BY <1>2, <2>4, <2>5, <3>1 DEF TellsAt, Tells
    <3>2. CASE j \in 1..Len(Road)
      <4>1. Road[j] \in ToSet(Road) /\ Road'[j] = Road[j]
        BY <1>4, <3>2, Places
      <4>2. Tells(Road[j], x)
        BY <1>1, <2>5, <4>1 DEF TellsAt, Tells
      <4> QED BY <1>1, <2>1, <4>1, <4>2 DEF Mark
    <3>3. j = w \/ j \in 1..Len(Road)
      BY <1>4, <2>3
    <3> QED BY <3>1, <3>2, <3>3
  <2> QED BY <2>2, <2>4, <2>5 DEF Welcomed
<1>9. ToSet(scans') \subseteq ToSet(scans) /\ Carries(Welcome) \subseteq ToSet(disk)
  BY <1>1, <1>2
<1> QED BY <1>0, <1>1, <1>2, <1>3, <1>5, <1>6, <1>7, <1>8, <1>9, SendStep

\* The client shows a frame, and counts from what it tells; or it asks, at a Welcome.
LEMMA ShowStep ==
  ASSUME TypeOK, ServerInv, ClientInv, [Next]_vars, NEW h \in Inbound, h = Head(inq), Take,
         UNCHANGED <<log, manager, scans, net, causes>>, convo' = convo \cup Carries(h),
         \/ Tells(h, lastSeq') /\ outq' = outq
         \/ h = Welcome /\ lastSeq' = lastSeq /\ outq' = Append(outq, lastSeq)
  PROVE  ServerInv' /\ ClientInv'
<1>0. /\ InLog /\ Linked /\ MarksInLog /\ BatchesAfter /\ NumbersBelow /\ ScansSee
      /\ Tracked /\ UnwrittenAhead /\ Filled
      /\ UNCHANGED <<emitted, born, nextSeq, seq, disk, fanned, link, s2c, c2s>>
  BY DEF ServerInv, ClientInv, log, manager, net
<1>1. /\ Len(Road) \in Nat \ {0} /\ Len(Road') = Len(Road) - 1 /\ Road[1] = h
      /\ Len(inq) \in Nat \ {0} /\ Len(inq') = Len(inq) - 1
      /\ \A i \in 1..Len(Road') : Road'[i] = Road[i + 1]
      /\ ToSet(Road) = ToSet(Road') \cup {h}
  BY <1>0, RoadTaken
<1>2. Unannounced' = Unannounced /\ Unwritten' = Unwritten
  BY <1>0 DEF Unannounced, Unwritten
<1>3. \A e : Held(e)' <=> Held(e)
  BY <1>1 DEF Held
<1>4. lastSeq \in Count /\ lastSeq' \in Count /\ outq \in Seq(Count)
  <2>1. TypeOK'
    BY TypeStep
  <2> QED BY <2>1 DEF TypeOK
<1>5. ToSet(outq) \subseteq ToSet(outq') /\ ToSet(outq') \subseteq ToSet(outq) \cup {lastSeq}
  <2>1. outq' = outq \/ outq' = Append(outq, lastSeq)
    OBVIOUS
  <2>2. ToSet(Append(outq, lastSeq)) = ToSet(outq) \cup {lastSeq}
    BY <1>4, AppendElements
  <2> QED BY <2>1, <2>2
<1>6. ASSUME NEW x \in Count, AskedFor(x)' PROVE AskedFor(x) \/ x = lastSeq
  BY <1>0, <1>1, <1>5, <1>6 DEF AskedFor
<1>7. ASSUME NEW x \in Count, Mark(x)' PROVE Mark(x)
  <2>1. CASE x = lastSeq'
    <3>1. Tells(h, x) \/ x = lastSeq
      BY <2>1
    <3> QED BY <1>1, <3>1 DEF Mark
  <2>2. CASE AskedFor(x)'
    BY <1>6, <2>2 DEF Mark
  <2>3. CASE \E m \in ToSet(Road') : Tells(m, x)'
    BY <1>0, <1>1, <2>3 DEF Mark, Tells
  <2> QED BY <1>7, <2>1, <2>2, <2>3 DEF Mark
<1>8. InLog' /\ MarksInLog' /\ BatchesAfter' /\ NumbersBelow' /\ Linked'
  <2>1. InLog'
    <3>1. \A e \in Event : Held(e)' => e \in ToSet(disk')
      BY <1>0, <1>3 DEF InLog
    <3> QED BY <1>0, <3>1, LinesStep DEF InLog
  <2>2. MarksInLog'
    BY <1>0, <1>7, MarksStep
  <2>3. BatchesAfter'
    BY <1>0, <1>1 DEF BatchesAfter
  <2>4. NumbersBelow'
    BY <1>0, <1>2 DEF NumbersBelow
  <2>5. Linked'
    BY <1>0 DEF Linked
  <2> QED BY <2>1, <2>2, <2>3, <2>4, <2>5
<1>9. ScansSee'
  BY <1>0, <1>2, <1>3, ScansGoOn
<1>10. UnwrittenAhead'
  BY <1>0, <1>2, <1>7 DEF UnwrittenAhead
<1>11. \A e : Wanted(e) => Wanted(e)'
  BY <1>0, <1>5 DEF Wanted, Found
<1>12. ASSUME NEW e \in ToSet(disk), Welcomed(e) PROVE Wanted(e)' \/ Welcomed(e)'
  <2>1. lastSeq < seq[e] /\ \A x \in Count : AskedFor(x) => x < seq[e]
    BY <1>12 DEF Welcomed
  <2>2. PICK w \in 1..Len(Road) : /\ Road[w] = Welcome
                                  /\ \A j \in 1..w, x \in Count : TellsAt(j, x) => x < seq[e]
    BY <1>12 DEF Welcomed
  <2>3. CASE w = 1
    <3>1. h = Welcome
      BY <1>1, <2>2, <2>3
    <3>2. outq' = Append(outq, lastSeq)
      BY <3>1, WelcomeTells
    <3>3. lastSeq \in ToSet(outq')
      BY <1>4, <3>2, AppendElements
    <3> QED BY <1>0, <2>1, <3>3 DEF Wanted
  <2>4. CASE w # 1
    <3>1. PICK v : v = w - 1
      OBVIOUS
    <3>2. v \in 1..Len(Road') /\ v + 1 = w /\ \A j \in 1..v : j + 1 \in 1..w /\ j \in 1..Len(Road')
      BY <1>1, <2>4, <3>1
    <3>3. Road'[v] = Welcome
      BY <1>1, <2>2, <3>2
    <3>4. ASSUME NEW j \in 1..v, NEW x \in Count, TellsAt(j, x)' PROVE x < seq'[e]
      <4>1. Road'[j] = Road[j + 1] /\ j + 1 \in 1..w
        BY <1>1, <3>2
      <4>2. TellsAt(j + 1, x)
        BY <1>0, <3>4, <4>1 DEF TellsAt, Tells
      <4> QED BY <1>0, <2>2, <4>1, <4>2
    <3>5. lastSeq' < seq'[e]
      <4>1. CASE Tells(h, lastSeq')
        <5>1. PICK x \in Count : x = lastSeq'
          BY <1>4
        <5>2. 1 \in 1..w /\ TellsAt(1, x)
          BY <1>1, <3>2, <4>1, <5>1 DEF TellsAt
        <5> QED BY <1>0, <2>2, <5>1, <5>2
      <4>2. CASE lastSeq' = lastSeq
        BY <1>0, <2>1, <4>2
      <4> QED BY <4>1, <4>2
    <3>6. \A x \in Count : AskedFor(x)' => x < seq'[e]
      BY <1>0, <1>6, <2>1
    <3> QED BY <3>2, <3>3, <3>4, <3>5, <3>6 DEF Welcomed
  <2> QED BY <2>3, <2>4
<1>13. Tracked'
  <2>1. ASSUME causes = {}, NEW e \in ToSet(disk),
               link \/ \E x \in Count : Mark(x)' /\ seq[e] <= x
        PROVE  Held(e)' \/ Wanted(e)' \/ Welcomed(e)' \/ Awaited(e)'
    <3>1. Held(e) \/ Wanted(e) \/ Welcomed(e) \/ Awaited(e)
      BY <1>0, <1>7, <2>1 DEF Tracked
    <3>2. Awaited(e) => Awaited(e)'
      BY <1>0, <1>2 DEF Awaited
    <3> QED BY <1>3, <1>11, <1>12, <3>1, <3>2
  <2> QED BY <1>0, <2>1 DEF Tracked
<1>14. Filled'
  <2>1. ASSUME causes = {}, NEW j \in 1..Len(Road'), NEW e \in ToSet(disk),
               IsBatch(Road'[j]), Road'[j].since < seq[e], seq[e] <= Road'[j].latest
        PROVE  \/ e \in convo'
               \/ \E i \in 1..Len(Road') : (i <= j \/ i <= Len(inq')) /\ e \in Carries(Road'[i])
               \/ Awaited(e)' \/ AgentEvent(e) \in ToSet(Road')
    <3>1. PICK g : g = j + 1
      OBVIOUS
    <3>2. g \in 1..Len(Road) /\ Road'[j] = Road[g]
      BY <1>1, <3>1
    <3>3. \/ e \in convo
          \/ \E i \in 1..Len(Road) : (i <= g \/ i <= Len(inq)) /\ e \in Carries(Road[i])
          \/ Awaited(e) \/ AgentEvent(e) \in ToSet(Road)
      BY <1>0, <2>1, <3>2 DEF Filled
    <3>4. ASSUME NEW i \in 1..Len(Road), i <= g \/ i <= Len(inq), e \in Carries(Road[i]), i # 1
          PROVE  \E n \in 1..Len(Road') : (n <= j \/ n <= Len(inq')) /\ e \in Carries(Road'[n])
      <4>1. PICK n : n = i - 1
        OBVIOUS
      <4>2. n \in 1..Len(Road') /\ n + 1 = i /\ (n <= j \/ n <= Len(inq'))
        BY <1>1, <3>1, <3>4, <4>1
      <4>3. Road'[n] = Road[i]
        BY <1>1, <4>2
      <4> QED BY <3>4, <4>2, <4>3
    <3>5. Awaited(e) => Awaited(e)'
      BY <1>0, <1>2 DEF Awaited
    <3>6. ASSUME AgentEvent(e) = h PROVE e \in convo'
      <4>1. e \in Event
        BY <1>0, SeqKept
      <4>2. Carries(h) = {e}
        BY <3>6, <4>1, Carried
      <4> QED BY <4>2
    <3> QED BY <1>1, <3>3, <3>4, <3>5, <3>6
  <2> QED BY <1>0, <2>1 DEF Filled
<1> QED
  BY <1>8, <1>9, <1>10, <1>13, <1>14 DEF ServerInv, ClientInv

\* The three messages of process_msg.
LEMMA ProcessMsgStep ==
  TypeOK /\ ServerInv /\ ClientInv /\ (OnWelcome \/ OnReplayBatch \/ OnAgentEvent)
    => ServerInv' /\ ClientInv'
<1> SUFFICES ASSUME TypeOK, ServerInv, ClientInv, OnWelcome \/ OnReplayBatch \/ OnAgentEvent
             PROVE  ServerInv' /\ ClientInv'
  OBVIOUS
<1>0. [Next]_vars
  BY DEF Next
<1>1. Take /\ UNCHANGED <<log, manager, scans, net, causes>>
  BY DEF OnWelcome, OnReplayBatch, OnAgentEvent
<1>2. PICK h : h = Head(inq)
  OBVIOUS
<1>3. h \in Inbound
  BY <1>1, <1>2, RoadTaken DEF net
<1>4. CASE OnWelcome
  <2>1. /\ h = Welcome /\ lastSeq' = lastSeq /\ outq' = Append(outq, lastSeq)
        /\ convo' = convo \cup Carries(h)
    BY <1>2, <1>4, Carried DEF OnWelcome, Ask
  <2> QED BY <1>0, <1>1, <1>2, <1>3, <2>1, ShowStep
<1>5. CASE OnReplayBatch
  <2>1. IsBatch(h) /\ outq' = outq /\ lastSeq' = h.latest /\ convo' = convo \cup h.events
    BY <1>2, <1>5 DEF OnReplayBatch
  <2>2. Tells(h, lastSeq') /\ convo' = convo \cup Carries(h)
    BY <1>3, <2>1, Carried DEF Tells
  <2> QED BY <1>0, <1>1, <1>2, <1>3, <2>1, <2>2, ShowStep
<1>6. CASE OnAgentEvent
  <2>1. IsEvent(h) /\ outq' = outq /\ lastSeq' = seq[h.event] /\ convo' = convo \cup {h.event}
    BY <1>2, <1>6 DEF OnAgentEvent
  <2>2. Tells(h, lastSeq') /\ convo' = convo \cup Carries(h)
    BY <1>3, <2>1, Carried DEF Tells
  <2> QED BY <1>0, <1>1, <1>2, <1>3, <2>1, <2>2, ShowStep
<1> QED BY <1>4, <1>5, <1>6

\* A cut. What the client is past, of what the cut takes, is in what it has read; but if an
\* answer is lost that it was ahead of, or an event that came after a larger one.
LEMMA CutStep ==
  ASSUME TypeOK, ServerInv, ClientInv, [Next]_vars, NEW k \in 0..Len(s2c), Cut(k),
         UNCHANGED <<emitted, seq, disk, fanned, outq, lastSeq, convo>>,
         causes \subseteq causes', Losses(k) \subseteq causes',
         Unwritten' \subseteq Unwritten, NumbersBelow'
  PROVE  ServerInv' /\ ClientInv'
<1>0. /\ InLog /\ MarksInLog /\ BatchesAfter /\ Linked /\ Tracked /\ Filled
      /\ s2c' = <<>> /\ c2s' = <<>> /\ scans' = <<>> /\ link' = FALSE
      /\ seq \in [Event -> 0..emitted]
  BY DEF ServerInv, ClientInv, Cut, TypeOK
<1>1. /\ Road' = Read(k) /\ inq' = Road' /\ Road' \in Seq(Inbound) /\ Road \in Seq(Inbound)
      /\ Len(Road') \in Nat /\ Len(Road) \in Nat
      /\ Len(inq) \in Nat /\ Len(inq) <= Len(Road') /\ Len(Road') <= Len(Road)
      /\ \A i \in 1..Len(Road') : Road'[i] = Road[i]
      /\ ToSet(Road) = ToSet(Road') \cup ToSet(Lost(k))
  BY RoadCut, RoadType
<1>e. ToSet(c2s') = {} /\ ToSet(scans') = {}
  BY <1>0 DEF ToSet
<1>2. ASSUME NEW e, Held(e)' PROVE Held(e)
  BY <1>1, <1>2 DEF Held
<1>3. ASSUME NEW x \in Count, AskedFor(x)' PROVE AskedFor(x)
  BY <1>1, <1>e, <1>3 DEF AskedFor
<1>4. ASSUME NEW x \in Count, Mark(x)' PROVE Mark(x)
  BY <1>0, <1>1, <1>3, <1>4 DEF Mark, Tells
<1>5. ASSUME NEW e, e \in convo \cup Content(Read(k)) PROVE Held(e)'
  <2>1. CASE e \in convo
    BY <2>1 DEF Held
  <2>2. CASE e \in Content(Read(k))
    <3>1. PICK m \in ToSet(Road') : \/ IsEvent(m) /\ e = m.event
                                    \/ IsBatch(m) /\ e \in m.events
      BY <1>1, <2>2, Zenon DEF Content, Live, Batches
    <3>2. m \in Inbound
      BY <1>1, <3>1, ElementsOf
    <3>3. e \in Carries(m)
      BY <3>1, <3>2, Carried
    <3> QED BY <3>1, <3>3 DEF Held
  <2> QED BY <1>5, <2>1, <2>2
<1> DEFINE past == Ahead(Read(k)) \cup {m.latest : m \in Batches(Read(k))}
<1>6. ASSUME NEW x \in Count, Mark(x)' PROVE x \in past
  <2>1. CASE x = lastSeq \/ x \in ToSet(outq)
    BY <2>1 DEF Ahead
  <2>2. CASE \E m \in ToSet(Road') : IsBatch(m) /\ (x = m.since \/ x = m.latest)
    BY <1>1, <2>2, Zenon DEF Ahead, Batches
  <2>3. CASE \E m \in ToSet(Road') : IsEvent(m) /\ x = seq[m.event]
    <3>1. PICK m \in ToSet(Road') : IsEvent(m) /\ x = seq[m.event]
      BY <2>3
    <3>2. m.event \in Live(Read(k))
      BY <1>1, <3>1, Zenon DEF Live
    <3> QED BY <3>1, <3>2 DEF Ahead
  <2>4. x = lastSeq \/ AskedFor(x)' \/ \E m \in ToSet(Road') : Tells(m, x)'
    BY <1>6 DEF Mark
  <2>5. AskedFor(x)' => x \in ToSet(outq) \/ \E m \in ToSet(Road') : IsBatch(m) /\ x = m.since
    BY <1>e DEF AskedFor
  <2>6. \A m : Tells(m, x)' => (IsEvent(m) /\ x = seq[m.event]) \/ (IsBatch(m) /\ x = m.latest)
    BY DEF Tells
  <2> QED BY <2>1, <2>2, <2>3, <2>4, <2>5, <2>6
<1> HIDE DEF past
<1>7. ASSUME causes' = {} PROVE ~AnswerLost(k) /\ ~LateLost(k)
  BY <1>7 DEF Losses
\* An event that is late: nothing that is left is past it, or it is in what was read.
<1>8. ASSUME causes' = {}, NEW e \in Unannounced \cup Live(Lost(k)), NEW x \in past, seq[e] <= x
      PROVE  Held(e)'
  <2>1. e \in convo \cup Content(Read(k))
    BY <1>7, <1>8 DEF LateLost, past
  <2> QED BY <1>5, <2>1
<1>9. ASSUME causes' = {}, NEW e \in ToSet(disk), NEW j \in 1..Len(Road'), IsBatch(Road'[j]),
             Road'[j].since < seq[e], seq[e] <= Road'[j].latest
      PROVE  Held(e)'
  <2>1. j \in 1..Len(Road) /\ Road'[j] = Road[j]
    BY <1>1
  <2>2. causes = {}
    BY <1>9
  <2>3. \/ e \in convo
        \/ \E i \in 1..Len(Road) : (i <= j \/ i <= Len(inq)) /\ e \in Carries(Road[i])
        \/ Awaited(e) \/ AgentEvent(e) \in ToSet(Road)
    BY <1>0, <1>9, <2>1, <2>2 DEF Filled
  <2>4. ASSUME NEW i \in 1..Len(Road), i <= j \/ i <= Len(inq), e \in Carries(Road[i])
        PROVE  Held(e)'
    <3>1. i \in 1..Len(Road')
      BY <1>1, <2>4
    <3>2. Road'[i] = Road[i] /\ Road'[i] \in ToSet(Road')
      BY <1>1, <3>1, Places
    <3> QED BY <2>4, <3>2 DEF Held
  <2>5. Road'[j] \in ToSet(Road') /\ Road'[j] \in Inbound
    BY <1>1, Places
  <2>6. Road'[j].latest \in past
    BY <1>1, <1>9, <2>5, Zenon DEF past, Batches
  <2>7. CASE Awaited(e)
    BY <1>8, <1>9, <2>6, <2>7 DEF Awaited
  <2>8. CASE AgentEvent(e) \in ToSet(Road)
    <3>1. e \in Event /\ IsEvent(AgentEvent(e)) /\ AgentEvent(e).event = e
      BY <1>0, SeqKept, Frames
    <3>2. CASE AgentEvent(e) \in ToSet(Road')
      <4>1. e \in Carries(AgentEvent(e))
        BY <3>1, Carried
      <4> QED BY <3>2, <4>1 DEF Held
    <3>3. CASE AgentEvent(e) \in ToSet(Lost(k))
      <4>1. e \in Live(Lost(k))
        BY <3>1, <3>3, Zenon DEF Live
      <4> QED BY <1>8, <1>9, <2>6, <4>1
    <3> QED BY <1>1, <2>8, <3>2, <3>3
  <2> QED BY <2>3, <2>4, <2>7, <2>8 DEF Held
\* A question that is not answered: nothing that is left is ahead of it, but the answer to
\* another that has filled the gap.
<1>10. ASSUME causes' = {}, NEW e \in ToSet(disk), NEW x \in Count, Mark(x)', seq[e] <= x,
              NEW n \in Count, n < seq[e],
              \/ n \in ToSet(c2s) \/ \E r \in ToSet(scans) : n = r.since
              \/ \E m \in ToSet(Lost(k)) : IsBatch(m) /\ n = m.since
       PROVE  Held(e)'
  <2>1. n \in ToSet(c2s) \cup {r.since : r \in ToSet(scans)} \cup {m.since : m \in Batches(Lost(k))}
    BY <1>10, Zenon DEF Batches
  <2>2. ASSUME NEW y \in Ahead(Read(k)) PROVE ~(n < y)
    BY <1>7, <1>10, <2>1, <2>2 DEF AnswerLost
  <2>3. n \in Nat /\ x \in Nat /\ seq[e] \in Nat
    <3>1. e \in Event
      BY <1>0, SeqKept
    <3> QED BY <1>0, <3>1 DEF Count
  <2>4. x \notin Ahead(Read(k))
    BY <1>10, <2>2, <2>3
  <2>5. x \in past
    BY <1>6, <1>10
  <2>6. PICK m \in ToSet(Road') : IsBatch(m) /\ x = m.latest
    BY <1>1, <2>4, <2>5, Zenon DEF past, Batches
  <2>7. m.since \in Ahead(Read(k))
    BY <1>1, <2>6, Zenon DEF Ahead, Batches
  <2>8. m.since \in Nat
    <3>1. m \in Inbound
      BY <1>1, ElementsOf
    <3> QED BY <2>6, <3>1, Frames DEF Count
  <2>9. m.since < seq[e]
    BY <1>10, <2>2, <2>3, <2>7, <2>8
  <2>10. PICK j \in 1..Len(Road') : m = Road'[j]
    BY <1>1, Places
  <2> QED BY <1>9, <1>10, <2>6, <2>9, <2>10
<1>11. ASSUME NEW e \in ToSet(disk), Welcomed(e), NEW x \in Count, Mark(x)', seq[e] <= x
       PROVE  Welcomed(e)'
  <2>1. lastSeq' < seq'[e] /\ \A y \in Count : AskedFor(y)' => y < seq'[e]
    BY <1>3, <1>11 DEF Welcomed
  <2>2. PICK w \in 1..Len(Road) : /\ Road[w] = Welcome
                                  /\ \A j \in 1..w, y \in Count : TellsAt(j, y) => y < seq[e]
    BY <1>11 DEF Welcomed
  <2>3. ASSUME NEW j \in 1..w, j \in 1..Len(Road'), NEW y \in Count, TellsAt(j, y)'
        PROVE  y < seq'[e]
    <3>1. Road'[j] = Road[j]
      BY <1>1, <2>3
    <3>2. TellsAt(j, y)
      BY <2>3, <3>1 DEF TellsAt, Tells
    <3> QED BY <2>2, <2>3, <3>2
  <2>4. CASE w \in 1..Len(Road')
    <3>1. Road'[w] = Welcome /\ \A j \in 1..w : j \in 1..Len(Road')
      BY <1>1, <2>2, <2>4
    <3> QED BY <2>1, <2>3, <2>4, <3>1 DEF Welcomed
  <2>5. CASE w \notin 1..Len(Road')
    <3>1. \A j \in 1..Len(Road') : j \in 1..w
      BY <1>1, <2>5
    <3>2. x < seq[e]
      <4>1. CASE x = lastSeq \/ AskedFor(x)'
        BY <2>1, <4>1
      <4>2. CASE \E m \in ToSet(Road') : Tells(m, x)'
        <5>1. PICK m \in ToSet(Road') : Tells(m, x)'
          BY <4>2
        <5>2. PICK j \in 1..Len(Road') : m = Road'[j]
          BY <1>1, Places
        <5>3. TellsAt(j, x)'
          BY <5>1, <5>2 DEF TellsAt, Tells
        <5> QED BY <2>3, <3>1, <5>2, <5>3
      <4> QED BY <1>11, <4>1, <4>2 DEF Mark
    <3>3. seq[e] \in Nat /\ x \in Nat
      <4>1. e \in Event
        BY <1>0, SeqKept
      <4> QED BY <1>0, <4>1 DEF Count
    <3> QED BY <1>11, <3>2, <3>3
  <2> QED BY <2>4, <2>5
<1>12. Tracked'
  <2>1. ASSUME causes' = {}, NEW e \in ToSet(disk), NEW x \in Count, Mark(x)', seq[e] <= x
        PROVE  Held(e)' \/ Wanted(e)' \/ Welcomed(e)' \/ Awaited(e)'
    <3>0. x \in past
      BY <1>6, <2>1
    <3>1. Held(e) \/ Wanted(e) \/ Welcomed(e) \/ Awaited(e)
      <4>1. causes = {} /\ Mark(x)
        BY <1>4, <2>1
      <4> QED BY <1>0, <2>1, <4>1 DEF Tracked
    <3>2. CASE Held(e)
      <4>1. CASE e \in convo
        BY <4>1 DEF Held
      <4>2. ASSUME NEW m \in ToSet(Road), e \in Carries(m) PROVE Held(e)'
        <5>1. CASE m \in ToSet(Road')
          BY <4>2, <5>1 DEF Held
        <5>2. CASE m \in ToSet(Lost(k))
          <6>1. m \in Inbound
            BY <1>0, OnRoad
          <6>2. CASE IsEvent(m)
            <7>1. e = m.event
              BY <4>2, <6>1, <6>2, Carried
            <7>2. e \in Live(Lost(k))
              BY <5>2, <6>2, <7>1, Zenon DEF Live
            <7> QED BY <1>8, <2>1, <3>0, <7>2
          <6>3. CASE IsBatch(m)
            <7>1. e \in m.events /\ m.since \in Count
              BY <4>2, <6>1, <6>3, Carried, Frames
            <7>2. m.since < seq[e]
              BY <1>0, <6>3, <7>1 DEF BatchesAfter
            <7> QED BY <1>10, <2>1, <5>2, <6>3, <7>1, <7>2
          <6>4. m # Welcome
            BY <4>2, Carried
          <6> QED BY <6>1, <6>2, <6>3, <6>4, Frames
        <5> QED BY <1>1, <5>1, <5>2
      <4> QED BY <3>2, <4>1, <4>2 DEF Held
    <3>3. CASE Wanted(e)
      <4>1. CASE \E y \in ToSet(outq) : y < seq[e]
        BY <4>1 DEF Wanted
      <4>2. CASE \E y \in ToSet(c2s) : y < seq[e]
        <5>1. PICK y \in ToSet(c2s) : y < seq[e]
          BY <4>2
        <5>2. y \in Count
          BY ElementsOf DEF TypeOK
        <5> QED BY <1>10, <2>1, <5>1, <5>2
      <4>3. CASE \E r \in ToSet(scans) : r.since < seq[e]
        <5>1. PICK r \in ToSet(scans) : r.since < seq[e]
          BY <4>3
        <5>2. r \in Resumed
          BY ElementsOf DEF TypeOK
        <5>3. r.since \in Count
          BY <5>2 DEF Resumed
        <5> QED BY <1>10, <2>1, <5>1, <5>3
      <4> QED BY <3>3, <4>1, <4>2, <4>3 DEF Wanted
    <3>4. CASE Welcomed(e)
      BY <1>11, <2>1, <3>4
    <3>5. CASE Awaited(e)
      BY <1>8, <2>1, <3>0, <3>5 DEF Awaited
    <3> QED BY <3>1, <3>2, <3>3, <3>4, <3>5
  <2> QED BY <1>0, <2>1 DEF Tracked
<1>13. UnwrittenAhead'
  <2>1. ASSUME causes' = {}, NEW e \in Unwritten', NEW x \in Count, Mark(x)' PROVE x < seq'[e]
    <3>1. e \in Unwritten /\ e \in Unannounced /\ e \notin ToSet(disk)
      BY <1>0, <2>1 DEF Unwritten, Unannounced, InLog
    <3>2. e \in Event
      BY <3>1, DeliveryAssumption DEF Unwritten, TypeOK, Count, Event
    <3>3. ~Held(e)'
      BY <1>0, <1>2, <3>1, <3>2 DEF InLog
    <3>4. ~(seq[e] <= x)
      BY <1>6, <1>8, <2>1, <3>1, <3>3
    <3>5. seq[e] \in Nat /\ x \in Nat
      BY <1>0, <3>2 DEF Count
    <3> QED BY <3>4, <3>5
  <2> QED BY <2>1 DEF UnwrittenAhead
<1>14. Filled'
  <2>1. ASSUME causes' = {}, NEW j \in 1..Len(Road'), NEW e \in ToSet(disk), IsBatch(Road'[j]),
               Road'[j].since < seq[e], seq[e] <= Road'[j].latest
        PROVE  e \in convo \/ \E i \in 1..Len(Road') : i <= Len(inq') /\ e \in Carries(Road'[i])
    <3>1. Held(e)'
      BY <1>9, <2>1
    <3>2. CASE e \in convo
      BY <3>2
    <3>3. ASSUME NEW m \in ToSet(Road'), e \in Carries(m)
          PROVE  \E i \in 1..Len(Road') : i <= Len(inq') /\ e \in Carries(Road'[i])
      <4>1. PICK i \in 1..Len(Road') : m = Road'[i]
        BY <1>1, Places
      <4>2. i <= Len(inq')
        BY <1>1
      <4> QED BY <3>3, <4>1, <4>2
    <3> QED BY <3>1, <3>2, <3>3 DEF Held
  <2> QED BY <2>1 DEF Filled
<1>15. InLog' /\ MarksInLog' /\ BatchesAfter' /\ ScansSee' /\ Linked'
  <2>1. InLog'
    <3>1. \A e \in Event : Held(e)' => e \in ToSet(disk')
      BY <1>0, <1>2 DEF InLog
    <3> QED BY <1>0, <3>1, LinesStep DEF InLog
  <2>2. MarksInLog'
    BY <1>0, <1>4, MarksStep
  <2>3. BatchesAfter'
    BY <1>0, <1>1 DEF BatchesAfter
  <2>4. ScansSee' /\ Linked'
    BY <1>0, <1>e DEF ScansSee, Linked
  <2> QED BY <2>1, <2>2, <2>3, <2>4
<1> QED
  BY <1>12, <1>13, <1>14, <1>15 DEF ServerInv, ClientInv

\* The network gives the connection up.
LEMMA DropStep == TypeOK /\ ServerInv /\ ClientInv /\ Drop => ServerInv' /\ ClientInv'
<1> SUFFICES ASSUME TypeOK, ServerInv, ClientInv, Drop PROVE ServerInv' /\ ClientInv'
  OBVIOUS
<1>1. PICK k \in 0..Len(s2c) : Cut(k) /\ causes' = causes \cup Losses(k)
  BY DEF Drop
<1>2. UNCHANGED <<emitted, born, nextSeq, seq, disk, fanned, outq, lastSeq, convo>>
  BY DEF Drop, log, manager
<1>3. Unwritten' = Unwritten
  BY <1>2 DEF Unwritten
<1>4. NumbersBelow'
  BY <1>1, <1>2, <1>3 DEF ServerInv, NumbersBelow
<1>5. [Next]_vars
  BY DEF Next
<1> QED BY <1>1, <1>2, <1>3, <1>4, <1>5, CutStep

\* A start goes on with a number larger than those in the log, or gives numbers out again.
LEMMA RestartStep == TypeOK /\ ServerInv /\ ClientInv /\ Restart => ServerInv' /\ ClientInv'
<1> SUFFICES ASSUME TypeOK, ServerInv, ClientInv, Restart PROVE ServerInv' /\ ClientInv'
  OBVIOUS
<1>0. [Next]_vars /\ InLog /\ seq \in [Event -> 0..emitted] /\ emitted \in Nat /\ disk \in Seq(Event)
  BY DeliveryAssumption DEF Next, ServerInv, TypeOK, Count
<1>1. PICK k \in 0..Len(s2c) : Cut(k) /\ causes' = causes \cup Losses(k) \cup Reused(nextSeq')
  BY DEF Restart
<1>2. UNCHANGED <<emitted, seq, disk, fanned, outq, lastSeq, convo>> /\ born' = emitted
  BY DEF Restart
<1>3. Unwritten' = {}
  <2>1. (emitted + 1)..emitted = {}
    BY <1>0
  <2> QED BY <1>2, <2>1 DEF Unwritten
<1>4. NumbersBelow'
  <2>1. ASSUME causes' = {}, NEW e \in ToSet(disk) PROVE seq[e] < nextSeq'
    <3>1. ~(nextSeq' <= seq[e])
      BY <1>1, <2>1 DEF Reused
    <3>2. seq[e] \in Nat
      <4>1. e \in Event
        BY <1>0, ElementsOf
      <4> QED BY <1>0, <4>1
    <3>3. nextSeq' \in Nat
      <4>1. TypeOK'
        BY <1>0, TypeStep
      <4>2. nextSeq' \in 1..(emitted' + 1)
        BY <4>1 DEF TypeOK
      <4> QED BY <1>0, <1>2, <4>2
    <3> QED BY <3>1, <3>2, <3>3
  <2> QED BY <1>2, <1>3, <2>1 DEF NumbersBelow
<1> QED BY <1>0, <1>1, <1>2, <1>3, <1>4, CutStep

-----------------------------------------------------------------------------
(* The promises                                                               *)

Inv == TypeOK /\ ServerInv /\ ClientInv /\ RingInv

\* At the start the client has nothing to show, and there is nothing.
LEMMA InvInit == Init => Inv
<1> SUFFICES ASSUME Init PROVE Inv
  OBVIOUS
<1> USE DeliveryAssumption
<1>1. TypeOK
  BY TypeInit
<1>2. /\ Road = <<>> /\ Len(Road) = 0 /\ ToSet(Road) = {} /\ ToSet(<<>>) = {}
      /\ Len(ring) = 0 /\ Len(fanned) = 0
  <2>1. Road = <<>> /\ Len(<<>>) = 0
    BY DEF Init, Road
  <2>2. ToSet(<<>>) = {}
    BY DEF ToSet
  <2> QED BY <2>1, <2>2 DEF Init
<1>3. Unwritten = {}
  BY DEF Init, Unwritten
<1>4. Linked /\ InLog /\ BatchesAfter /\ NumbersBelow /\ ScansSee
  BY <1>2, <1>3 DEF Init, Linked, InLog, BatchesAfter, NumbersBelow, ScansSee, Held
<1>5. MarksInLog
  BY <1>2 DEF Init, MarksInLog, Mark, AskedFor
<1>6. Tracked /\ UnwrittenAhead
  BY <1>2, <1>3 DEF Init, Tracked, UnwrittenAhead
<1>7. Filled
  BY <1>2 DEF Init, Filled
<1>8. RingInv
  BY <1>2 DEF Init, RingInv, RingIsEnd
<1> QED BY <1>1, <1>4, <1>5, <1>6, <1>7, <1>8 DEF Inv, ServerInv, ClientInv

\* Every step keeps the invariant.
LEMMA InvStep == Inv /\ [Next]_vars => Inv'
<1> SUFFICES ASSUME Inv, [Next]_vars PROVE Inv'
  OBVIOUS
<1>0. TypeOK /\ ServerInv /\ ClientInv /\ RingInv /\ InLog
  BY DEF Inv, ServerInv
<1>1. TypeOK' /\ RingInv'
  BY <1>0, TypeStep, RingStep
<1>2. ServerInv' /\ ClientInv'
  <2>1. CASE Emit
    BY <1>0, <2>1, EmitStep
  <2>2. CASE \E e \in Event : Write(e)
    BY <1>0, <2>2, WriteStep
  <2>3. CASE \E e \in Event : FanOut(e)
    BY <1>0, <2>3, FanOutStep
  <2>4. CASE ResumeStart
    BY <1>0, <2>4, ResumeStartStep
  <2>5. CASE \E i \in DOMAIN scans : ResumeFinish(i)
    BY <1>0, <2>5, ResumeFinishStep
  <2>6. CASE Connect
    BY <1>0, <2>6, ConnectStep
  <2>7. CASE Drop
    BY <1>0, <2>7, DropStep
  <2>8. CASE Restart
    BY <1>0, <2>8, RestartStep
  <2>9. CASE Receive
    BY <1>0, <2>9, ReceiveStep
  <2>10. CASE Transmit
    BY <1>0, <2>10, TransmitStep
  <2>11. CASE OnWelcome \/ OnReplayBatch \/ OnAgentEvent
    BY <1>0, <2>11, ProcessMsgStep
  <2>12. CASE UNCHANGED vars
    <3>1. /\ UNCHANGED <<log, manager, scans, link, s2c, c2s, inq, outq, lastSeq, convo, causes>>
          /\ UNCHANGED <<emitted, born, nextSeq, seq, disk, fanned>>
      BY <2>12 DEF vars, log, manager, net, client
    <3>2. Road' = Road /\ Len(inq) <= Len(inq') /\ Len(inq') \in Nat
      BY <1>0, <3>1, RoadType DEF Road
    <3>3. (\A x \in Count : AskedFor(x)' => AskedFor(x)) /\ \A e : Wanted(e) => Wanted(e)'
      BY <3>1, <3>2 DEF AskedFor, Wanted, Found
    <3>4. Linked'
      BY <1>0, <3>1 DEF ServerInv, Linked
    <3>5. ScansSee'
      <4>1. (\A e : Held(e)' <=> Held(e)) /\ Unannounced' = Unannounced
        BY <3>1, <3>2 DEF Held, Unannounced
      <4>2. ScansSee
        BY <1>0 DEF ServerInv
      <4> QED BY <1>0, <3>1, <4>1, <4>2, ScansGoOn
    <3> QED BY <1>0, <3>1, <3>2, <3>3, <3>4, <3>5, StillStep
  <2> QED
    BY <2>1, <2>2, <2>3, <2>4, <2>5, <2>6, <2>7, <2>8, <2>9, <2>10, <2>11, <2>12 DEF Next
<1> QED BY <1>1, <1>2 DEF Inv

\* The invariant holds at every moment.
LEMMA Invariant == Spec => []Inv
BY InvInit, InvStep, PTL DEF Spec

\* However late lines are written and appends return, and whatever numbers a start goes on
\* with: a ReplayBatch has every event fanned out by then that its Resume asked for, or one of
\* the same number, unless more were fanned out during its scan than the ring holds.
THEOREM BatchesAreComplete == Spec => []BatchComplete
<1>1. Inv => BatchComplete
  <2> SUFFICES ASSUME Inv PROVE BatchComplete
    OBVIOUS
  <2>1. TypeOK /\ RingInv
    BY DEF Inv
  <2>2. ASSUME NEW m \in Batches(s2c \o inq) PROVE Complete(m)
    <3>1. m \in ToSet(s2c \o inq) /\ IsBatch(m)
      BY DEF Batches
    <3>2. m \in ToSet(Road)
      BY <2>1, <3>1, RoadType
    <3> QED BY <2>1, <3>1, <3>2 DEF RingInv
  <2> QED BY <2>2 DEF Complete, BatchComplete
<1> QED BY <1>1, Invariant, PTL

\* The client loses an event of the log only by one of the three causes: a cut that takes an
\* answer it was ahead of, an event that comes after one of a larger number, and a start that
\* gives numbers out again.
THEOREM LossesHaveCauses == Spec => []LossHasCause
<1>1. Inv => LossHasCause
  <2> SUFFICES ASSUME Inv, causes = {}, ~Unanswered, NEW e \in ToSet(disk), seq[e] <= lastSeq
               PROVE  e \in convo \cup Live(s2c \o inq) \/ (link /\ e \in Unannounced)
    BY DEF LossHasCause, NothingMissing
  <2>1. TypeOK /\ InLog /\ Tracked /\ lastSeq \in Count
    BY DEF Inv, ServerInv, ClientInv, TypeOK
  <2>2. ToSet(s2c \o inq) = ToSet(Road) /\ Road \in Seq(Inbound) /\ ToSet(Road) \subseteq Inbound
    BY <2>1, RoadType
  <2>3. /\ ToSet(outq) = {} /\ ToSet(c2s) = {} /\ ToSet(scans) = {}
        /\ \A m \in ToSet(Road) : IsEvent(m)
    <3>1. outq = <<>> /\ c2s = <<>> /\ scans = <<>> /\ \A m \in ToSet(Road) : IsEvent(m)
      BY <2>2 DEF Unanswered
    <3> QED BY <3>1 DEF ToSet
  <2>4. Held(e) \/ Wanted(e) \/ Welcomed(e) \/ Awaited(e)
    BY <2>1 DEF Tracked, Mark
  <2>5. ~Wanted(e)
    BY <2>3 DEF Wanted
  <2>6. ~Welcomed(e)
    <3>1. \A w \in 1..Len(Road) : Road[w] # Welcome
      BY <2>2, <2>3, Places, Frames
    <3> QED BY <3>1 DEF Welcomed
  <2>7. CASE Held(e)
    <3>1. ASSUME NEW m \in ToSet(Road), e \in Carries(m) PROVE e \in Live(s2c \o inq)
      <4>1. IsEvent(m) /\ e = m.event
        BY <2>2, <2>3, <3>1, Carried
      <4> QED BY <2>2, <4>1, Zenon DEF Live
    <3> QED BY <2>7, <3>1 DEF Held
  <2>8. CASE Awaited(e)
    BY <2>8 DEF Awaited
  <2> QED BY <2>4, <2>5, <2>6, <2>7, <2>8
<1> QED BY <1>1, Invariant, PTL

\* The client never counts from a number that the log does not have, in any order of writing
\* and whatever numbers a start goes on with.
THEOREM NeverAhead == Spec => []NeverAheadOfLog
<1>1. Inv => NeverAheadOfLog
  <2> SUFFICES ASSUME Inv PROVE NeverAheadOfLog
    OBVIOUS
  <2>1. TypeOK /\ MarksInLog
    BY DEF Inv, ServerInv
  <2>2. ASSUME NEW x \in {lastSeq} \cup ToSet(outq) \cup ToSet(c2s) \cup {r.since : r \in ToSet(scans)}
        PROVE  x \in Count /\ Mark(x)
    <3>1. /\ lastSeq \in Count /\ ToSet(outq) \subseteq Count /\ ToSet(c2s) \subseteq Count
          /\ ToSet(scans) \subseteq Resumed
      BY <2>1, ElementsOf DEF TypeOK
    <3>2. \A r \in Resumed : r.since \in Count
      BY DEF Resumed
    <3> QED BY <3>1, <3>2 DEF Mark, AskedFor
  <2> QED BY <2>1, <2>2 DEF MarksInLog, NeverAheadOfLog
<1> QED BY <1>1, Invariant, PTL

\* Nothing is under way or to be announced, and there is a connection.
AtRest ==
  /\ link /\ Unannounced = {}
  /\ outq = <<>> /\ c2s = <<>> /\ scans = <<>> /\ s2c = <<>> /\ inq = <<>>
AllShownAtRest == AtRest => causes # {} \/ ToSet(disk) \subseteq convo

\* Where a connected client comes to rest, all of the log is in its conversation, unless one
\* of the three causes arose.
THEOREM RestsComplete == Spec => []AllShownAtRest
<1>1. Inv => AllShownAtRest
  <2> SUFFICES ASSUME Inv, AtRest, causes = {}, NEW e \in ToSet(disk) PROVE e \in convo
    BY DEF AllShownAtRest
  <2>1. Tracked
    BY DEF Inv, ClientInv
  <2>2. Road = <<>> /\ Len(Road) = 0
    BY DEF AtRest, Road
  <2>3. ToSet(Road) = {} /\ ToSet(outq) = {} /\ ToSet(c2s) = {} /\ ToSet(scans) = {}
    BY <2>2 DEF AtRest, ToSet
  <2>4. Held(e) \/ Wanted(e) \/ Welcomed(e) \/ Awaited(e)
    BY <2>1 DEF Tracked, AtRest
  <2>5. ~Wanted(e) /\ ~Awaited(e)
    BY <2>3 DEF Wanted, Awaited, AtRest
  <2>6. ~Welcomed(e)
    BY <2>2 DEF Welcomed
  <2> QED BY <2>3, <2>4, <2>5, <2>6 DEF Held
<1> QED BY <1>1, Invariant, PTL
=============================================================================
