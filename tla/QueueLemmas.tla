------------------------------ MODULE QueueLemmas ------------------------------
(***************************************************************************)
(* What the operations of PersistentQueue do to the sequences of a queue:  *)
(* the facts the proofs about the flow controllers rest on.                *)
(***************************************************************************)
EXTENDS PersistentQueue, SequenceTheorems, FiniteSetTheorems, TLAPS

\* An item taken out of a sequence leaves a sequence of the same elements.
LEMMA WithoutType ==
  ASSUME NEW S, NEW s \in Seq(S), NEW x
  PROVE  Without(s, x) \in Seq(S)
<1>1. CASE ~Contains(s, x)
  BY <1>1 DEF Without
<1>2. CASE Contains(s, x)
  <2> DEFINE i == CHOOSE i \in 1 .. Len(s) : s[i] = x
  <2>1. i \in 1 .. Len(s)
    BY <1>2 DEF Contains
  <2>2. Without(s, x) = SubSeq(s, 1, i - 1) \o SubSeq(s, i + 1, Len(s))
    BY <1>2 DEF Without, RemoveAt
  <2> HIDE DEF i
  <2>3. SubSeq(s, 1, i - 1) \in Seq(S) /\ SubSeq(s, i + 1, Len(s)) \in Seq(S)
    BY <2>1, SubSeqProperties
  <2> QED BY <2>2, <2>3
<1> QED BY <1>1, <1>2

\* The only element of a sequence of one.
LEMMA SingletonSeq ==
  ASSUME NEW S, NEW s \in Seq(S), Len(s) <= 1, Len(s) > 0
  PROVE  Len(s) = 1 /\ Head(s) = s[1] /\ Tail(s) = <<>>
<1> DEFINE n == Len(s)
<1>0. n \in Nat /\ n <= 1 /\ n > 0
  BY LenProperties
<1>1. n = 1 /\ s # <<>>
  <2>1. s # <<>>
    BY <1>0
  <2> HIDE DEF n
  <2>2. n = 1
    BY <1>0
  <2> QED BY <2>1, <2>2
<1>2. Tail(s) \in Seq(S) /\ Len(Tail(s)) = 0
  BY <1>1, HeadTailProperties
<1>3. Tail(s) = <<>>
  BY <1>2, EmptySeq
<1>4. Head(s) = s[1]
  BY <1>1
<1> QED BY <1>1, <1>3, <1>4

\* The operations of PersistentQueue keep a queue of S a queue of S.
LEMMA QueueTypes ==
  ASSUME NEW S, NEW q \in [data : Seq(S), pending : Seq(S)], NEW x \in S, NEW y
  PROVE  /\ Put(q, x) \in [data : Seq(S), pending : Seq(S)]
         /\ Pend(q, x) \in [data : Seq(S), pending : Seq(S)]
         /\ Ack(q, y) \in [data : Seq(S), pending : Seq(S)]
         /\ QLen(q) > 0 => Pop(q) \in [data : Seq(S), pending : Seq(S)]
         /\ QLen(q) > 0 => Peek(q) \in S
<1>1. q.data \in Seq(S) /\ q.pending \in Seq(S)
  OBVIOUS
<1>2. Without(q.pending, y) \in Seq(S)
  BY <1>1, WithoutType
<1>3. Ack(q, y) \in [data : Seq(S), pending : Seq(S)]
  BY <1>1, <1>2 DEF Ack
<1>4. ASSUME Len(q.data) > 0
      PROVE  Head(q.data) \in S /\ Tail(q.data) \in Seq(S)
  BY <1>1, <1>4, HeadTailProperties
<1>5. Append(q.data, x) \in Seq(S) /\ Append(q.pending, x) \in Seq(S)
  BY <1>1, AppendProperties
<1>6. Put(q, x) \in [data : Seq(S), pending : Seq(S)]
  BY <1>5 DEF Put
<1>7. Pend(q, x) \in [data : Seq(S), pending : Seq(S)]
  BY <1>5 DEF Pend
<1>8. ASSUME QLen(q) > 0
      PROVE  Pop(q) \in [data : Seq(S), pending : Seq(S)] /\ Peek(q) \in S
  <2>1. Len(q.data) > 0
    BY <1>8 DEF QLen
  <2>2. Head(q.data) \in S /\ Tail(q.data) \in Seq(S)
    BY <2>1, <1>4
  <2> QED BY <2>2 DEF Pop, Peek
<1> QED BY <1>3, <1>6, <1>7, <1>8

\* The count of what waits in a queue is a number.
LEMMA QLenNat ==
  ASSUME NEW S, NEW q \in [data : Seq(S), pending : Seq(S)]
  PROVE  QLen(q) \in Nat
<1>1. q.data \in Seq(S)
  OBVIOUS
<1> QED BY <1>1, LenProperties DEF QLen

\* How each queue operation changes the count.
LEMMA QLenOf ==
  ASSUME NEW S, NEW q \in [data : Seq(S), pending : Seq(S)], NEW x \in S, NEW y
  PROVE  /\ QLen(Put(q, x)) = QLen(q) + 1
         /\ QLen(Pend(q, x)) = QLen(q)
         /\ QLen(Ack(q, y)) = QLen(q)
         /\ QLen(q) > 0 => QLen(Pop(q)) = QLen(q) - 1
<1>1. q.data \in Seq(S)
  OBVIOUS
<1>2. Len(Append(q.data, x)) = Len(q.data) + 1
  BY <1>1, AppendProperties
<1>3. Put(q, x).data = Append(q.data, x)
  BY DEF Put
<1>4. Pend(q, x).data = q.data /\ Ack(q, y).data = q.data
  BY DEF Pend, Ack
<1>5. ASSUME QLen(q) > 0
      PROVE  Len(Pop(q).data) = Len(q.data) - 1
  <2>1. q.data # <<>>
    BY <1>5 DEF QLen
  <2>2. Len(Tail(q.data)) = Len(q.data) - 1
    BY <1>1, <2>1, HeadTailProperties
  <2>3. Pop(q).data = Tail(q.data)
    BY DEF Pop
  <2> QED BY <2>2, <2>3
<1> QED BY <1>2, <1>3, <1>4, <1>5 DEF QLen

\* The elements of a queue after a put.
LEMMA PutElements ==
  ASSUME NEW S, NEW q \in [data : Seq(S), pending : Seq(S)], NEW x \in S
  PROVE  \A i \in DOMAIN Put(q, x).data :
           \/ i \in DOMAIN q.data /\ Put(q, x).data[i] = q.data[i]
           \/ i = QLen(q) + 1 /\ Put(q, x).data[i] = x
<1>1. q.data \in Seq(S) /\ QLen(q) \in Nat /\ Len(q.data) = QLen(q)
  BY QLenNat DEF QLen
<1>2. Put(q, x).data = Append(q.data, x)
  BY DEF Put
<1>3. DOMAIN Append(q.data, x) = 1 .. Len(q.data) + 1 /\ DOMAIN q.data = 1 .. Len(q.data)
  BY <1>1, AppendProperties, LenProperties
<1> QED BY <1>1, <1>2, <1>3, AppendProperties

\* A put adds one item behind the others.
LEMMA PutShape ==
  ASSUME NEW S, NEW q \in [data : Seq(S), pending : Seq(S)], NEW x \in S
  PROVE  /\ Put(q, x).pending = q.pending
         /\ Put(q, x).data \in Seq(S)
         /\ Len(q.data) \in Nat
         /\ Len(Put(q, x).data) = Len(q.data) + 1
         /\ \A i \in 1 .. Len(q.data) : Put(q, x).data[i] = q.data[i]
         /\ Put(q, x).data[Len(q.data) + 1] = x
<1>1. q.data \in Seq(S) /\ Len(q.data) \in Nat
  BY LenProperties
<1>2. Put(q, x).data = Append(q.data, x) /\ Put(q, x).pending = q.pending
  BY DEF Put
<1> QED BY <1>1, <1>2, AppendProperties

\* A pop takes the oldest item and moves the others up.
LEMMA PopShape ==
  ASSUME NEW S, NEW q \in [data : Seq(S), pending : Seq(S)], QLen(q) > 0
  PROVE  /\ Pop(q).pending = q.pending
         /\ Pop(q).data \in Seq(S)
         /\ Len(q.data) \in Nat /\ Len(q.data) > 0
         /\ Len(Pop(q).data) = Len(q.data) - 1
         /\ \A i \in 1 .. Len(q.data) - 1 : Pop(q).data[i] = q.data[i + 1]
         /\ Peek(q) = q.data[1] /\ Peek(q) \in S
<1>1. q.data \in Seq(S) /\ Len(q.data) \in Nat /\ Len(q.data) > 0
  BY LenProperties DEF QLen
<1>2. q.data # <<>>
  BY <1>1
<1>3. Pop(q).data = Tail(q.data) /\ Pop(q).pending = q.pending
  BY DEF Pop
<1>4. Peek(q) = q.data[1] /\ Peek(q) \in S
  BY <1>1, <1>2, HeadTailProperties DEF Peek
<1> QED BY <1>1, <1>2, <1>3, <1>4, HeadTailProperties

\* An item handed out is the newest of pending.
LEMMA PendShape ==
  ASSUME NEW S, NEW q \in [data : Seq(S), pending : Seq(S)], NEW x \in S
  PROVE  /\ Pend(q, x).data = q.data
         /\ Pend(q, x).pending \in Seq(S)
         /\ Len(q.pending) \in Nat
         /\ Len(Pend(q, x).pending) = Len(q.pending) + 1
         /\ \A i \in 1 .. Len(q.pending) : Pend(q, x).pending[i] = q.pending[i]
         /\ Pend(q, x).pending[Len(q.pending) + 1] = x
<1>1. q.pending \in Seq(S) /\ Len(q.pending) \in Nat
  BY LenProperties
<1>2. Pend(q, x).pending = Append(q.pending, x) /\ Pend(q, x).data = q.data
  BY DEF Pend
<1> QED BY <1>1, <1>2, AppendProperties

\* Without leaves the sequence as it is, or closes up over one occurrence.
LEMMA WithoutShape ==
  ASSUME NEW S, NEW s \in Seq(S), NEW x
  PROVE  /\ Without(s, x) \in Seq(S)
         /\ \/ (\A i \in 1 .. Len(s) : s[i] # x) /\ Without(s, x) = s
            \/ \E k \in 1 .. Len(s) :
                 /\ s[k] = x
                 /\ Len(Without(s, x)) = Len(s) - 1
                 /\ \A i \in 1 .. Len(s) - 1 :
                      Without(s, x)[i] = (IF i < k THEN s[i] ELSE s[i + 1])
<1>0. Len(s) \in Nat /\ DOMAIN s = 1 .. Len(s)
  BY LenProperties
<1>1. CASE ~Contains(s, x)
  BY <1>1 DEF Without, Contains
<1>2. CASE Contains(s, x)
  <2>0. PICK k \in 1 .. Len(s) : s[k] = x /\ k = CHOOSE i \in 1 .. Len(s) : s[i] = x
    BY <1>2 DEF Contains
  <2>1. k \in Int /\ 1 <= k /\ k <= Len(s) /\ s[k] = x
    BY <2>0, <1>0
  <2>2. Without(s, x) = SubSeq(s, 1, k - 1) \o SubSeq(s, k + 1, Len(s))
    BY <1>2, <2>0 DEF Without, RemoveAt
  <2>3. PICK l : l = SubSeq(s, 1, k - 1)
    OBVIOUS
  <2>4. PICK r : r = SubSeq(s, k + 1, Len(s))
    OBVIOUS
  <2>5. PICK c : c = l \o r
    OBVIOUS
  <2>6. /\ l \in Seq(S) /\ Len(l) = k - 1
        /\ \A i \in 1 .. k - 1 : l[i] = s[i]
    BY <1>0, <2>1, <2>3, ElementOfSeq, SubSeqProperties
  <2>7. /\ r \in Seq(S) /\ Len(r) = Len(s) - k
        /\ \A i \in 1 .. Len(s) - k : r[i] = s[k + i]
    <3>1. \A i \in k + 1 .. Len(s) : s[i] \in S
      BY <2>1, <1>0, ElementOfSeq
    <3>5. k + 1 \in Int /\ Len(s) \in Int
      BY <2>1, <1>0
    <3>2. /\ r \in Seq(S)
          /\ Len(r) = IF k + 1 <= Len(s) THEN Len(s) - (k + 1) + 1 ELSE 0
          /\ \A i \in 1 .. Len(s) - (k + 1) + 1 : r[i] = s[(k + 1) + i - 1]
      BY <2>4, <3>1, <3>5, SubSeqProperties
    <3>3. Len(r) = Len(s) - k
      <4>1. Len(r) = IF k + 1 <= Len(s) THEN Len(s) - (k + 1) + 1 ELSE 0
        BY <3>2
      <4>2. PICK n \in Nat : n = Len(s)
        BY LenProperties
      <4>3. k \in Int /\ 1 <= k /\ k <= n
        BY <2>1, <4>2
      <4>4. (IF k + 1 <= n THEN n - (k + 1) + 1 ELSE 0) = n - k
        BY <4>3
      <4> QED BY <4>1, <4>2, <4>4
    <3>4. ASSUME NEW i \in 1 .. Len(s) - k
          PROVE  r[i] = s[k + i]
      <4>1. i \in 1 .. Len(s) - (k + 1) + 1 /\ (k + 1) + i - 1 = k + i
        BY <2>1, <1>0
      <4> QED BY <3>2, <4>1
    <3> QED BY <3>2, <3>3, <3>4
  <2>8. /\ c \in Seq(S) /\ Len(c) = Len(l) + Len(r)
        /\ \A i \in 1 .. Len(l) + Len(r) :
             c[i] = (IF i <= Len(l) THEN l[i] ELSE r[i - Len(l)])
    BY <2>5, <2>6, <2>7, ConcatProperties
  <2>9. Len(l) = k - 1 /\ Len(r) = Len(s) - k /\ Len(c) = Len(s) - 1
    BY <1>0, <2>1, <2>6, <2>7, <2>8
  <2>10. ASSUME NEW i \in 1 .. Len(s) - 1
         PROVE  c[i] = (IF i < k THEN s[i] ELSE s[i + 1])
    <3>1. i \in 1 .. Len(l) + Len(r) /\ (i < k \/ i >= k)
      BY <1>0, <2>1, <2>9
    <3>2. CASE i < k
      <4>1. i <= Len(l) /\ i \in 1 .. k - 1
        BY <3>2, <1>0, <2>1, <2>9
      <4>2. c[i] = l[i] /\ l[i] = s[i]
        BY <3>1, <4>1, <2>6, <2>8
      <4> QED BY <3>2, <4>2
    <3>3. CASE i >= k
      <4>1. /\ ~(i <= Len(l)) /\ ~(i < k)
            /\ i - Len(l) \in 1 .. Len(s) - k /\ k + (i - Len(l)) = i + 1
        BY <3>3, <1>0, <2>1, <2>9
      <4>2. c[i] = r[i - Len(l)]
        BY <3>1, <4>1, <2>8
      <4>3. r[i - Len(l)] = s[i + 1]
        BY <2>7, <4>1
      <4> QED BY <4>1, <4>2, <4>3
    <3> QED BY <3>1, <3>2, <3>3
  <2>11. Without(s, x) = c
    BY <2>2, <2>3, <2>4, <2>5
  <2> QED BY <2>0, <2>8, <2>9, <2>10, <2>11
<1> QED BY <1>1, <1>2
-----------------------------------------------------------------------------
(* Counting the items of a sequence by the set of their places.            *)

\* I is a set of places of a sequence of length n.
PlacesIn(I, n) == n \in Nat /\ I \subseteq 1 .. n

\* The places J when an item is added behind the n places I are chosen from; ...
IsAdded(I, n, J) == \A i : i \in J /\ i # n + 1 <=> i \in I

\* ... the places K when the places J follow m others; ...
IsJoined(I, m, J, K) == \A i : i \in K <=> (i \in I \/ \E j \in J : i = j + m)

\* ... and the places J when the k-th is taken out and those behind it move up.
IsClosed(I, n, k, J) ==
  \A i \in 1 .. n - 1 : i \in J <=> IF i < k THEN i \in I ELSE i + 1 \in I

\* The places of a sequence are finitely many.
LEMMA PlacesFinite ==
  ASSUME NEW I, NEW n, PlacesIn(I, n)
  PROVE  IsFiniteSet(I) /\ Cardinality(I) \in Nat
<1>1. IsFiniteSet(1 .. n)
  BY FS_Interval DEF PlacesIn
<1> QED BY <1>1, FS_Subset, FS_CardinalityType DEF PlacesIn

\* An item is added behind the others.
LEMMA PlacesAdded ==
  ASSUME NEW I, NEW n, PlacesIn(I, n), NEW J, IsAdded(I, n, J)
  PROVE  Cardinality(J) = Cardinality(I) + (IF n + 1 \in J THEN 1 ELSE 0)
<1>0. n + 1 \notin I
  BY DEF PlacesIn
<1>1. IsFiniteSet(I) /\ Cardinality(I) \in Nat /\ n + 1 \notin I
  BY <1>0, PlacesFinite
<1>2. CASE n + 1 \in J
  <2>1. J = I \cup {n + 1}
    BY <1>2 DEF IsAdded
  <2> QED BY <1>1, <1>2, <2>1, FS_AddElement
<1>3. CASE n + 1 \notin J
  <2>1. J = I
    BY <1>1, <1>3 DEF IsAdded
  <2> QED BY <1>1, <1>3, <2>1
<1> QED BY <1>2, <1>3

\* As many places follow the first m.
LEMMA PlacesJoined ==
  ASSUME NEW I, NEW m, PlacesIn(I, m), NEW J, NEW n, PlacesIn(J, n), NEW K, IsJoined(I, m, J, K)
  PROVE  Cardinality(K) = Cardinality(I) + Cardinality(J)
<1> DEFINE L == {j + m : j \in J}
           f == [j \in J |-> j + m]
<1>1. \A j \in J : j \in Int /\ j > 0
  BY DEF PlacesIn
<1>2. m \in Int
  BY DEF PlacesIn
<1>3. f \in Bijection(J, L)
  BY <1>1, <1>2 DEF Bijection, Injection, Surjection, IsInjective
<1>4. ExistsBijection(J, L)
  BY <1>3 DEF ExistsBijection
<1>5. \A i \in L : i > m
  BY <1>1, <1>2
<1>6. \A i \in I : ~(i > m)
  BY DEF PlacesIn
<1>7. K = I \cup L
  BY DEF IsJoined
<1> HIDE DEF f, L
<1>8. IsFiniteSet(I) /\ IsFiniteSet(J)
  BY PlacesFinite
<1>9. IsFiniteSet(L) /\ Cardinality(L) = Cardinality(J)
  BY <1>4, <1>8, FS_Bijection
<1>10. Cardinality(I \cup L) = Cardinality(I) + Cardinality(L) - Cardinality(I \cap L)
  BY <1>8, <1>9, FS_Union
<1>11. I \cap L = {}
  BY <1>5, <1>6
<1>12. Cardinality(I \cap L) = 0
  BY <1>11, FS_EmptySet
<1> QED BY <1>7, <1>8, <1>9, <1>10, <1>12, FS_CardinalityType

\* A place is lost when its item is taken out.
LEMMA PlacesClosed ==
  ASSUME NEW I, NEW n, PlacesIn(I, n), NEW k \in 1 .. n, NEW J, PlacesIn(J, n - 1),
         IsClosed(I, n, k, J)
  PROVE  Cardinality(I) = Cardinality(J) + (IF k \in I THEN 1 ELSE 0)
<1> DEFINE A == {i \in I : i < k}
           B == {i \in 1 .. n - k : i + k \in I}
           H == {i \in I : i <= k}
<1>1. PICK m \in Nat : m = k - 1 /\ m + 1 = k
  BY DEF PlacesIn
<1>2. n \in Nat /\ k \in Nat /\ k <= n /\ k >= 1
  BY DEF PlacesIn
<1>3. \A i \in I : i \in Int /\ 1 <= i /\ i <= n
  BY DEF PlacesIn
<1>4. \A i \in J : i \in Int /\ 1 <= i /\ i <= n - 1
  BY DEF PlacesIn
<1>5. PlacesIn(A, m)
  <2>1. \A i \in A : i \in 1 .. m
    BY <1>1, <1>2, <1>3
  <2> QED BY <2>1 DEF PlacesIn
<1>6. PlacesIn(B, n - k)
  BY <1>2 DEF PlacesIn
<1>7. PlacesIn(H, k)
  <2>1. \A i \in H : i \in 1 .. k
    BY <1>2, <1>3
  <2> QED BY <1>2, <2>1 DEF PlacesIn
<1>8. IsAdded(A, m, H) /\ (k \in H <=> k \in I)
  BY <1>1, <1>2, <1>3 DEF IsAdded
<1>9. IsJoined(H, k, B, I)
  <2>1. ASSUME NEW i \in I, ~(i <= k)
        PROVE  \E j \in B : i = j + k
    <3>1. i - k \in 1 .. n - k /\ (i - k) + k = i
      BY <1>2, <1>3, <2>1
    <3>2. i - k \in B
      BY <3>1
    <3> QED BY <3>1, <3>2
  <2>2. \A j \in B : j + k \in I
    OBVIOUS
  <2> QED BY <2>1, <2>2 DEF IsJoined
<1>10. IsJoined(A, m, B, J)
  <2>1. ASSUME NEW i \in J, ~(i < k)
        PROVE  \E j \in B : i = j + m
    <3>1. i - m \in 1 .. n - k /\ (i - m) + m = i /\ (i - m) + k = i + 1
      BY <1>1, <1>2, <1>4, <2>1
    <3>2. i + 1 \in I
      BY <1>2, <1>4, <2>1 DEF IsClosed
    <3>3. i - m \in B
      BY <3>1, <3>2
    <3> QED BY <3>1, <3>3
  <2>2. \A i \in J : i < k => i \in A
    BY <1>2, <1>4 DEF IsClosed
  <2>3. \A i \in A : i \in J
    BY <1>2, <1>3 DEF IsClosed
  <2>4. ASSUME NEW j \in B
        PROVE  j + m \in J
    <3>1. j + m \in 1 .. n - 1 /\ ~(j + m < k) /\ (j + m) + 1 = j + k
      BY <1>1, <1>2
    <3> QED BY <3>1 DEF IsClosed
  <2> QED BY <2>1, <2>2, <2>3, <2>4 DEF IsJoined
<1> HIDE DEF A, B, H
<1>11. Cardinality(J) = Cardinality(A) + Cardinality(B)
  BY <1>5, <1>6, <1>10, PlacesJoined
<1>12. Cardinality(I) = Cardinality(H) + Cardinality(B)
  BY <1>6, <1>7, <1>9, PlacesJoined
<1>13. Cardinality(H) = Cardinality(A) + (IF m + 1 \in H THEN 1 ELSE 0)
  BY <1>5, <1>8, PlacesAdded
<1>14. Cardinality(A) \in Nat /\ Cardinality(B) \in Nat
  BY <1>5, <1>6, PlacesFinite
<1> QED BY <1>1, <1>8, <1>11, <1>12, <1>13, <1>14

\* A set of pairs <<k, i>> has none in row n.
NoRow(P, n) == \A x \in P : x[1] # n

\* A row is added below the others.
LEMMA RowAdded ==
  ASSUME NEW P, IsFiniteSet(P), NEW n, NoRow(P, n),
         NEW I, NEW m, PlacesIn(I, m)
  PROVE  /\ IsFiniteSet(P \cup ({n} \X I))
         /\ Cardinality(P \cup ({n} \X I)) = Cardinality(P) + Cardinality(I)
<1> DEFINE R == {n} \X I
           f == [i \in I |-> <<n, i>>]
<1>1. IsFiniteSet(I)
  BY PlacesFinite
<1>2. ExistsBijection(I, R)
  <2>1. f \in [I -> R]
    OBVIOUS
  <2>2. \A i, j \in I : f[i] = f[j] => i = j
    OBVIOUS
  <2>3. \A x \in R : \E i \in I : f[i] = x
    <3>1. ASSUME NEW x \in R
          PROVE  x[2] \in I /\ x = <<n, x[2]>>
      OBVIOUS
    <3>2. \A x \in R : f[x[2]] = x
      BY <3>1
    <3> QED BY <3>1, <3>2
  <2> QED BY <2>1, <2>2, <2>3
          DEF ExistsBijection, Bijection, Injection, Surjection, IsInjective
<1>3. IsFiniteSet(R) /\ Cardinality(R) = Cardinality(I)
  <2> HIDE DEF f, R
  <2> QED BY <1>1, <1>2, FS_Bijection
<1>4. P \cap R = {}
  BY DEF NoRow
<1> HIDE DEF R
<1>5. /\ IsFiniteSet(P \cup R)
      /\ Cardinality(P \cup R) = Cardinality(P) + Cardinality(R) - Cardinality(P \cap R)
  BY <1>3, FS_Union
<1>6. Cardinality(P \cap R) = 0
  BY <1>4, FS_EmptySet
<1>7. Cardinality(P \cup R) = Cardinality(P) + Cardinality(I)
  BY <1>1, <1>3, <1>5, <1>6, FS_CardinalityType
<1> QED BY <1>5, <1>7 DEF R
-----------------------------------------------------------------------------
(* How many items of a sequence are in a set.                              *)

\* Their places, and how many they are.
Places(s, X) == {i \in DOMAIN s : s[i] \in X}

Total(s, X) == Cardinality(Places(s, X))

\* They are places of the sequence.
LEMMA TotalType ==
  ASSUME NEW S, NEW s \in Seq(S), NEW X
  PROVE  PlacesIn(Places(s, X), Len(s)) /\ Total(s, X) \in Nat
<1>1. DOMAIN s = 1 .. Len(s) /\ Len(s) \in Nat
  BY LenProperties
<1>2. PlacesIn(Places(s, X), Len(s))
  BY <1>1 DEF PlacesIn, Places
<1> QED BY <1>2, PlacesFinite DEF Total

\* Nothing is in the empty sequence.
LEMMA TotalEmpty ==
  ASSUME NEW X
  PROVE  Total(<<>>, X) = 0
<1>1. Places(<<>>, X) = {}
  BY DEF Places
<1> QED BY <1>1, FS_EmptySet DEF Total

\* An item appended is one more, if it is in the set.
LEMMA TotalAppend ==
  ASSUME NEW S, NEW s \in Seq(S), NEW x \in S, NEW X
  PROVE  Total(Append(s, x), X) = Total(s, X) + (IF x \in X THEN 1 ELSE 0)
<1> DEFINE t == Append(s, x)
<1>1. /\ t \in Seq(S) /\ DOMAIN t = 1 .. Len(s) + 1 /\ DOMAIN s = 1 .. Len(s) /\ Len(s) \in Nat
      /\ \A i \in 1 .. Len(s) : t[i] = s[i]
      /\ t[Len(s) + 1] = x
  BY AppendProperties, LenProperties
<1> HIDE DEF t
<1>2. IsAdded(Places(s, X), Len(s), Places(t, X))
  BY <1>1 DEF IsAdded, Places
<1>3. Len(s) + 1 \in Places(t, X) <=> x \in X
  BY <1>1 DEF Places
<1>4. PlacesIn(Places(s, X), Len(s))
  BY TotalType
<1>5. Cardinality(Places(t, X))
        = Cardinality(Places(s, X)) + (IF Len(s) + 1 \in Places(t, X) THEN 1 ELSE 0)
  BY <1>2, <1>4, PlacesAdded
<1> QED BY <1>3, <1>5 DEF t, Total

\* One sequence behind another has the items of both.
LEMMA TotalConcat ==
  ASSUME NEW S, NEW s \in Seq(S), NEW t \in Seq(S), NEW X
  PROVE  Total(s \o t, X) = Total(s, X) + Total(t, X)
<1> DEFINE u == s \o t
<1>1. /\ DOMAIN u = 1 .. Len(s) + Len(t) /\ DOMAIN s = 1 .. Len(s) /\ DOMAIN t = 1 .. Len(t)
      /\ Len(s) \in Nat /\ Len(t) \in Nat
  BY ConcatProperties, LenProperties
<1>2. /\ \A i \in 1 .. Len(s) : u[i] = s[i]
      /\ \A i \in 1 .. Len(t) : u[i + Len(s)] = t[i]
  <2>1. ASSUME NEW i \in 1 .. Len(t)
        PROVE  u[i + Len(s)] = t[i]
    <3>1. /\ i + Len(s) \in 1 .. Len(s) + Len(t) /\ ~(i + Len(s) <= Len(s))
          /\ (i + Len(s)) - Len(s) = i
      BY <1>1
    <3> QED BY <3>1, ConcatProperties
  <2> QED BY <1>1, <2>1, ConcatProperties
<1> HIDE DEF u
<1>3. ASSUME NEW i \in 1 .. Len(s) + Len(t), ~(i \in 1 .. Len(s))
      PROVE  i - Len(s) \in 1 .. Len(t) /\ (i - Len(s)) + Len(s) = i
  BY <1>1, <1>3
<1>4. \A j \in 1 .. Len(t) : j + Len(s) \in 1 .. Len(s) + Len(t)
  BY <1>1
<1>5. \A i \in 1 .. Len(s) : i \in 1 .. Len(s) + Len(t)
  BY <1>1
<1>6. IsJoined(Places(s, X), Len(s), Places(t, X), Places(u, X))
  <2>1. ASSUME NEW i \in Places(u, X), i \notin Places(s, X)
        PROVE  \E j \in Places(t, X) : i = j + Len(s)
    <3>1. i \in 1 .. Len(s) + Len(t) /\ ~(i \in 1 .. Len(s))
      BY <1>1, <1>2, <2>1 DEF Places
    <3>2. i - Len(s) \in 1 .. Len(t) /\ (i - Len(s)) + Len(s) = i
      BY <1>3, <3>1
    <3>3. i - Len(s) \in Places(t, X)
      BY <1>1, <1>2, <3>1, <3>2, <2>1 DEF Places
    <3> QED BY <3>2, <3>3
  <2>2. \A i \in Places(s, X) : i \in Places(u, X)
    BY <1>1, <1>2, <1>5 DEF Places
  <2>3. \A j \in Places(t, X) : j + Len(s) \in Places(u, X)
    BY <1>1, <1>2, <1>4 DEF Places
  <2> QED BY <2>1, <2>2, <2>3 DEF IsJoined
<1>7. PlacesIn(Places(s, X), Len(s)) /\ PlacesIn(Places(t, X), Len(t))
  BY TotalType
<1>8. Cardinality(Places(u, X)) = Cardinality(Places(s, X)) + Cardinality(Places(t, X))
  BY <1>6, <1>7, PlacesJoined
<1> QED BY <1>8 DEF u, Total

\* A sequence without its k-th item.
IsWithoutPlace(s, k, t) ==
  /\ Len(t) = Len(s) - 1
  /\ \A i \in 1 .. Len(s) - 1 : t[i] = (IF i < k THEN s[i] ELSE s[i + 1])

\* The k-th item is taken out of a sequence.
LEMMA TotalClosed ==
  ASSUME NEW S, NEW s \in Seq(S), NEW k \in 1 .. Len(s), NEW t \in Seq(S), NEW X,
         IsWithoutPlace(s, k, t)
  PROVE  Total(s, X) = Total(t, X) + (IF s[k] \in X THEN 1 ELSE 0)
<1>1. /\ DOMAIN s = 1 .. Len(s) /\ DOMAIN t = 1 .. Len(s) - 1 /\ Len(s) \in Nat
      /\ \A i \in 1 .. Len(s) - 1 : t[i] = (IF i < k THEN s[i] ELSE s[i + 1])
  BY LenProperties DEF IsWithoutPlace
<1>2. PlacesIn(Places(s, X), Len(s)) /\ PlacesIn(Places(t, X), Len(s) - 1)
  BY TotalType DEF IsWithoutPlace
<1>3. IsClosed(Places(s, X), Len(s), k, Places(t, X))
  <2>1. ASSUME NEW i \in 1 .. Len(s) - 1
        PROVE  i \in 1 .. Len(s) /\ i + 1 \in 1 .. Len(s)
    BY <1>1
  <2> QED BY <1>1, <2>1 DEF IsClosed, Places
<1>4. k \in Places(s, X) <=> s[k] \in X
  BY <1>1 DEF Places
<1>5. Cardinality(Places(s, X))
        = Cardinality(Places(t, X)) + (IF k \in Places(s, X) THEN 1 ELSE 0)
  BY <1>2, <1>3, PlacesClosed
<1> QED BY <1>4, <1>5 DEF Total

\* The oldest item is taken.
LEMMA TotalTail ==
  ASSUME NEW S, NEW s \in Seq(S), Len(s) > 0, NEW X
  PROVE  Total(s, X) = Total(Tail(s), X) + (IF Head(s) \in X THEN 1 ELSE 0)
<1>1. /\ Len(s) \in Nat /\ 1 \in 1 .. Len(s) /\ s # <<>>
      /\ \A i \in 1 .. Len(s) - 1 : ~(i < 1)
  BY LenProperties
<1>2. /\ Tail(s) \in Seq(S) /\ Len(Tail(s)) = Len(s) - 1 /\ Head(s) = s[1]
      /\ \A i \in 1 .. Len(s) - 1 : Tail(s)[i] = s[i + 1]
  BY <1>1, HeadTailProperties
<1>3. IsWithoutPlace(s, 1, Tail(s))
  BY <1>1, <1>2 DEF IsWithoutPlace
<1>4. PICK k \in 1 .. Len(s) : k = 1
  BY <1>1
<1>5. Total(s, X) = Total(Tail(s), X) + (IF s[k] \in X THEN 1 ELSE 0)
  <2> DEFINE t == Tail(s)
  <2>1. t \in Seq(S) /\ IsWithoutPlace(s, k, t)
    BY <1>2, <1>3, <1>4
  <2> HIDE DEF t
  <2>2. Total(s, X) = Total(t, X) + (IF s[k] \in X THEN 1 ELSE 0)
    BY <2>1, TotalClosed
  <2> QED BY <2>2 DEF t
<1> QED BY <1>2, <1>4, <1>5

\* An item of the sequence is taken out, wherever it is.
LEMMA TotalWithout ==
  ASSUME NEW S, NEW s \in Seq(S), NEW k \in 1 .. Len(s), NEW X
  PROVE  /\ Total(s, X) = Total(Without(s, s[k]), X) + (IF s[k] \in X THEN 1 ELSE 0)
         /\ Without(s, s[k]) \in Seq(S)
         /\ Len(Without(s, s[k])) = Len(s) - 1
<1>1. PICK j \in 1 .. Len(s) :
        /\ s[j] = s[k]
        /\ Len(Without(s, s[k])) = Len(s) - 1
        /\ IsWithoutPlace(s, j, Without(s, s[k]))
  BY WithoutShape DEF IsWithoutPlace
<1>2. Without(s, s[k]) \in Seq(S)
  BY WithoutType
<1>3. Total(s, X) = Total(Without(s, s[k]), X) + (IF s[j] \in X THEN 1 ELSE 0)
  BY <1>1, <1>2, TotalClosed
<1> QED BY <1>1, <1>2, <1>3

\* An item that is in the sequence is counted, and one that is not is no place.
LEMMA TotalContained ==
  ASSUME NEW S, NEW s \in Seq(S), NEW x, Contains(s, x), NEW X, x \in X
  PROVE  Total(s, X) > 0
<1>1. PICK k \in 1 .. Len(s) : s[k] = x
  BY DEF Contains
<1>2. /\ Total(s, X) = Total(Without(s, s[k]), X) + (IF s[k] \in X THEN 1 ELSE 0)
      /\ Without(s, s[k]) \in Seq(S)
  BY TotalWithout
<1>3. Total(Without(s, s[k]), X) \in Nat
  BY <1>2, TotalType
<1> QED BY <1>1, <1>2, <1>3

\* What is counted is there.
LEMMA TotalSome ==
  ASSUME NEW S, NEW s \in Seq(S), NEW X, Total(s, X) # 0
  PROVE  \E i \in 1 .. Len(s) : s[i] \in X
<1>1. DOMAIN s = 1 .. Len(s)
  BY LenProperties
<1>2. Places(s, X) # {}
  BY FS_EmptySet DEF Total
<1> QED BY <1>1, <1>2 DEF Places
-----------------------------------------------------------------------------
(* The same of a sequence of sequences.                                    *)

\* The places, by row.
Spread(l, X) == UNION {{k} \X Places(l[k], X) : k \in DOMAIN l}

\* They are finitely many.
LEMMA SpreadFinite ==
  ASSUME NEW S, NEW l \in Seq(Seq(S)), NEW X
  PROVE  IsFiniteSet(Spread(l, X)) /\ Cardinality(Spread(l, X)) \in Nat
<1>1. DOMAIN l = 1 .. Len(l) /\ Len(l) \in Nat /\ IsFiniteSet(DOMAIN l)
  BY LenProperties, FS_Interval
<1> DEFINE Row(k) == {k} \X Places(l[k], X)
           F == [k \in DOMAIN l |-> Row(k)]
           R == {Row(k) : k \in DOMAIN l}
<1>2. F \in Surjection(DOMAIN l, R)
  BY DEF Surjection
<1>3. \A k \in DOMAIN l : IsFiniteSet(Row(k))
  <2> SUFFICES ASSUME NEW k \in DOMAIN l PROVE IsFiniteSet(Row(k))
    OBVIOUS
  <2>1. l[k] \in Seq(S)
    BY <1>1, ElementOfSeq
  <2>2. PlacesIn(Places(l[k], X), Len(l[k]))
    BY <2>1, TotalType
  <2>3. IsFiniteSet(Places(l[k], X)) /\ IsFiniteSet({k})
    BY <2>2, PlacesFinite, FS_Singleton
  <2> QED BY <2>3, FS_Product
<1>4. \A r \in R : IsFiniteSet(r)
  BY <1>3
<1>5. IsFiniteSet(R)
  <2> HIDE DEF F, R
  <2> QED BY <1>1, <1>2, FS_Surjection
<1>6. IsFiniteSet(UNION R)
  <2> HIDE DEF R
  <2> QED BY <1>4, <1>5, FS_UNION
<1>7. Spread(l, X) = UNION R
  BY DEF Spread
<1> QED BY <1>6, <1>7, FS_CardinalityType

\* There are none in no rows.
LEMMA SpreadEmpty ==
  ASSUME NEW X
  PROVE  Cardinality(Spread(<<>>, X)) = 0
<1>1. Spread(<<>>, X) = {}
  BY DEF Spread
<1> QED BY <1>1, FS_EmptySet

\* A row is added below the others.
LEMMA SpreadAppend ==
  ASSUME NEW S, NEW l \in Seq(Seq(S)), NEW b \in Seq(S), NEW X
  PROVE  Cardinality(Spread(Append(l, b), X)) = Cardinality(Spread(l, X)) + Total(b, X)
<1> DEFINE m == Append(l, b)
           n == Len(l) + 1
<1>1. /\ DOMAIN m = 1 .. Len(l) + 1 /\ DOMAIN l = 1 .. Len(l) /\ Len(l) \in Nat
      /\ \A i \in 1 .. Len(l) : m[i] = l[i]
      /\ m[Len(l) + 1] = b
  BY AppendProperties, LenProperties
<1>2. DOMAIN m = DOMAIN l \cup {n} /\ n \notin DOMAIN l
  BY <1>1
<1> HIDE DEF m
<1>3. Spread(m, X) = Spread(l, X) \cup ({n} \X Places(b, X))
  <2> HIDE DEF n
  <2>1. /\ \A k \in DOMAIN l : m[k] = l[k]
        /\ m[n] = b
    BY <1>1 DEF n
  <2> QED BY <1>2, <2>1 DEF Spread
<1>4. NoRow(Spread(l, X), n)
  <2> HIDE DEF n
  <2> QED BY <1>2 DEF Spread, NoRow
<1>5. PlacesIn(Places(b, X), Len(b))
  BY TotalType
<1> DEFINE P == Spread(l, X)
           I == Places(b, X)
<1> HIDE DEF n, P, I
<1>6. Cardinality(P \cup ({n} \X I)) = Cardinality(P) + Cardinality(I)
  <2>1. IsFiniteSet(P) /\ NoRow(P, n) /\ PlacesIn(I, Len(b))
    BY <1>4, <1>5, SpreadFinite DEF P, I
  <2> QED BY <2>1, RowAdded
<1> QED BY <1>3, <1>6 DEF m, P, I, Total

\* What is in no row is not counted.
LEMMA SpreadNone ==
  ASSUME NEW l, NEW X, \A k \in DOMAIN l : \A i \in DOMAIN l[k] : l[k][i] \notin X
  PROVE  Cardinality(Spread(l, X)) = 0
<1>1. Spread(l, X) = {}
  BY DEF Spread, Places
<1> QED BY <1>1, FS_EmptySet
-----------------------------------------------------------------------------
(* What is in a sequence.                                                  *)

\* A sequence of elements of S is one of elements of T, if these are more.
LEMMA WiderSeq ==
  ASSUME NEW S, NEW T, S \subseteq T, NEW s \in Seq(S)
  PROVE  s \in Seq(T)
<1>1. s \in [1 .. Len(s) -> S] /\ Len(s) \in Nat
  BY LenProperties
<1>2. s \in [1 .. Len(s) -> T]
  BY <1>1
<1> QED BY <1>1, <1>2, SeqDef

\* What is in a sequence with an item taken out was in it before.
LEMMA ContainsWas ==
  ASSUME NEW S, NEW s \in Seq(S), NEW x, NEW i \in 1 .. Len(Without(s, x))
  PROVE  \E k \in 1 .. Len(s) : s[k] = Without(s, x)[i]
<1>0. Len(s) \in Nat
  BY LenProperties
<1> DEFINE t == Without(s, x)
<1>1. CASE t = s
  BY <1>1
<1>2. ASSUME NEW k \in 1 .. Len(s), Len(t) = Len(s) - 1,
             \A j \in 1 .. Len(s) - 1 : t[j] = (IF j < k THEN s[j] ELSE s[j + 1])
      PROVE  \E m \in 1 .. Len(s) : s[m] = t[i]
  <2>1. i \in 1 .. Len(s) - 1
    BY <1>2
  <2> HIDE DEF t
  <2>2. i \in 1 .. Len(s) /\ i + 1 \in 1 .. Len(s)
    BY <1>0, <2>1
  <2> QED BY <1>2, <2>1, <2>2
<1> HIDE DEF t
<1>3. t = s \/ \E k \in 1 .. Len(s) :
        /\ Len(t) = Len(s) - 1
        /\ \A j \in 1 .. Len(s) - 1 : t[j] = (IF j < k THEN s[j] ELSE s[j + 1])
  BY WithoutShape DEF t
<1>4. \E m \in 1 .. Len(s) : s[m] = t[i]
  BY <1>1, <1>2, <1>3 DEF t
<1> QED BY <1>4 DEF t

\* The items of a sequence when one is appended, and when one is taken out.
LEMMA ContainsKept ==
  ASSUME NEW S, NEW s \in Seq(S), NEW x \in S, NEW y, Contains(s, y)
  PROVE  /\ Contains(Append(s, x), y)
         /\ x # y => Contains(Without(s, x), y)
<1>0. Len(s) \in Nat
  BY LenProperties
<1>1. PICK i \in 1 .. Len(s) : s[i] = y
  BY DEF Contains
<1>2. Contains(Append(s, x), y)
  <2>1. Len(Append(s, x)) = Len(s) + 1 /\ Append(s, x)[i] = y
    BY <1>1, AppendProperties
  <2>2. i \in 1 .. Len(s) + 1
    BY <1>0
  <2> QED BY <2>1, <2>2 DEF Contains
<1>3. ASSUME x # y PROVE Contains(Without(s, x), y)
  <2> DEFINE t == Without(s, x)
  <2>1. CASE t = s
    BY <2>1
  <2>2. ASSUME NEW k \in 1 .. Len(s), s[k] = x, Len(t) = Len(s) - 1,
               \A j \in 1 .. Len(s) - 1 : t[j] = (IF j < k THEN s[j] ELSE s[j + 1])
        PROVE  Contains(t, y)
    <3> HIDE DEF t
    <3>1. i # k
      BY <1>1, <1>3, <2>2
    <3>2. CASE i < k
      <4>1. i \in 1 .. Len(s) - 1
        BY <1>0, <3>2
      <4> QED BY <1>1, <2>2, <3>2, <4>1 DEF Contains
    <3>3. CASE ~(i < k)
      <4>1. /\ i - 1 \in 1 .. Len(s) - 1 /\ ~(i - 1 < k) /\ (i - 1) + 1 = i
        BY <1>0, <3>1, <3>3
      <4>2. t[i - 1] = s[i]
        BY <2>2, <4>1
      <4> QED BY <1>1, <2>2, <4>1, <4>2 DEF Contains
    <3> QED BY <3>2, <3>3
  <2> HIDE DEF t
  <2>3. t = s \/ \E k \in 1 .. Len(s) :
          /\ s[k] = x /\ Len(t) = Len(s) - 1
          /\ \A j \in 1 .. Len(s) - 1 : t[j] = (IF j < k THEN s[j] ELSE s[j + 1])
    BY WithoutShape DEF t
  <2>4. Contains(t, y)
    BY <2>1, <2>2, <2>3
  <2> QED BY <2>4 DEF t
<1> QED BY <1>2, <1>3

\* The newest item of a sequence is in it.
LEMMA ContainsNew ==
  ASSUME NEW S, NEW s \in Seq(S), NEW x \in S
  PROVE  Contains(Append(s, x), x)
<1>1. Len(Append(s, x)) = Len(s) + 1 /\ Append(s, x)[Len(s) + 1] = x /\ Len(s) \in Nat
  BY AppendProperties, LenProperties
<1>2. Len(s) + 1 \in 1 .. Len(s) + 1
  BY <1>1
<1> QED BY <1>1, <1>2 DEF Contains
=============================================================================
