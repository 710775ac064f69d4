------------------------------ MODULE TrainingProofs ------------------------------
(***************************************************************************)
(* What is trained on and where: PackedDataloader and PolicyUpdate.        *)
(*                                                                         *)
(* The layout of the packed data loader, for any number of data sets, any  *)
(* samples, any epochs and any max_length: the draws are balanced, no      *)
(* sample is scheduled more or less often than its epochs say, and the     *)
(* packs are exact.  Sums are counted: tokens and weights are places side  *)
(* by side, in a finite set.                                               *)
(*                                                                         *)
(* The update, for any rollouts, ranks, epochs and chunks: what the        *)
(* program's statements compute with is on the device when they run.       *)
(***************************************************************************)
EXTENDS PackedDataloader, PolicyUpdate, FiniteSetTheorems, SequenceTheorems, TLAPS

-----------------------------------------------------------------------------
(* PackedDataloader.                                                       *)

\* The weights are numbers that do not change, the counts are numbers.
SamplerTyped ==
  /\ \A d \in Datasets :
       lens[d] \in Seq(Nat) /\ lens[d] # <<>> /\ epochs[d] \in Nat \ {0}
  /\ counts \in [Datasets -> Nat]

BalanceInv == SamplerTyped /\ FairShare

\* A weight is a number of samples.
LEMMA WeightIsNat ==
  ASSUME SamplerTyped, NEW d \in Datasets
  PROVE  Weight(d) \in Nat
<1>1. SizeOf(d) \in Nat /\ epochs[d] \in Nat
  BY DEF SamplerTyped, SizeOf
<1> QED
  BY <1>1 DEF Weight

\* One draw more is worth one weight more.
LEMMA OneMore ==
  ASSUME NEW n \in Nat, NEW w \in Nat
  PROVE  /\ n * w \in Nat
         /\ (n + 1 - 1) * w = n * w
         /\ n * w <= (n + 1) * w
OBVIOUS

\* Nothing is drawn at first.
LEMMA InitBalance == Init => BalanceInv
<1> SUFFICES ASSUME Init PROVE BalanceInv
  OBVIOUS
<1>1. SamplerTyped
  <2>1. ASSUME NEW d \in Datasets
        PROVE  lens[d] \in Seq(Nat) /\ lens[d] # <<>> /\ epochs[d] \in Nat \ {0}
    <3>1. lens[d] \in LenChoices /\ epochs[d] \in EpochChoices
      BY DEF Init
    <3> QED
      BY <3>1, PackedAssumption
  <2> QED
    BY <2>1 DEF Init, SamplerTyped
<1>2. ASSUME NEW d \in Datasets, NEW e \in Datasets
      PROVE  (counts[d] - 1) * Weight(e) <= counts[e] * Weight(d)
  <2>1. counts[d] = 0 /\ counts[e] = 0
    BY DEF Init
  <2>2. Weight(d) \in Nat /\ Weight(e) \in Nat
    BY <1>1, WeightIsNat
  <2>3. (0 - 1) * Weight(e) <= 0 /\ 0 * Weight(d) = 0
    BY <2>2
  <2> QED
    BY <2>1, <2>3
<1> QED
  BY <1>1, <1>2 DEF BalanceInv, FairShare

\* A draw of the data set with the least score.
LEMMA SampleBalance == BalanceInv /\ Sample => BalanceInv'
<1> SUFFICES ASSUME BalanceInv, Sample PROVE BalanceInv'
  OBVIOUS
<1> USE DEF BalanceInv
<1>1. PICK x \in Datasets :
        IsNext(x) /\ counts' = [counts EXCEPT ![x] = counts[x] + 1]
  BY DEF Sample
<1>2. UNCHANGED <<lens, epochs>>
  BY DEF Sample, config
<1>3. SamplerTyped'
  BY <1>1, <1>2 DEF SamplerTyped
<1>4. \A d \in Datasets : Weight(d)' = Weight(d) /\ Weight(d) \in Nat /\ counts[d] \in Nat
  BY <1>2, WeightIsNat DEF Weight, SizeOf, SamplerTyped
<1>5. counts'[x] = counts[x] + 1 /\ \A d \in Datasets \ {x} : counts'[d] = counts[d]
  BY <1>1 DEF SamplerTyped
<1>6. ASSUME NEW d \in Datasets, NEW e \in Datasets
      PROVE  (counts'[d] - 1) * Weight(e) <= counts'[e] * Weight(d)
  <2>1. CASE d # x /\ e # x
    BY <2>1, <1>5 DEF FairShare
  \* The one drawn was not ahead of e.
  <2>2. CASE d = x /\ e # x
    <3>1. counts[x] * Weight(e) <= counts[e] * Weight(x)
      BY <1>1 DEF IsNext, NotBelow
    <3> QED
      BY <2>2, <3>1, <1>4, <1>5, OneMore
  \* The one drawn gains on d.
  <2>3. CASE d # x /\ e = x
    <3> DEFINE was == (counts[d] - 1) * Weight(x)
               old == counts[x] * Weight(d)
               new == (counts[x] + 1) * Weight(d)
    <3>1. was <= old
      BY DEF FairShare
    <3>2. old <= new /\ old \in Nat /\ new \in Nat
      BY <1>4, OneMore
    <3>3. was \in Int
      BY <1>4
    <3> HIDE DEF was, old, new
    <3>4. was <= new
      BY <3>1, <3>2, <3>3
    <3> QED
      BY <2>3, <3>4, <1>5 DEF was, new
  <2>4. CASE d = x /\ e = x
    BY <2>4, <1>4, <1>5, OneMore
  <2> QED
    BY <2>1, <2>2, <2>3, <2>4
<1> QED
  BY <1>3, <1>4, <1>6 DEF FairShare

\* Packing draws nothing.
LEMMA StepBalance == BalanceInv /\ [Next]_vars => BalanceInv'
<1> SUFFICES ASSUME BalanceInv, [Next]_vars PROVE BalanceInv'
  OBVIOUS
<1>1. CASE Sample
  BY <1>1, SampleBalance
<1>2. CASE Sampled \/ Pack \/ UNCHANGED vars
  <2>1. UNCHANGED <<lens, epochs, counts>>
    BY <1>2 DEF Sampled, Pack, PackFits, PackPutBack, PackExtend, PackDrop, PackEnd,
                vars, config
  <2> QED
    BY <2>1 DEF BalanceInv, SamplerTyped, FairShare, Weight, SizeOf
<1> QED
  BY <1>1, <1>2 DEF Next, Laid

\* At every moment of the layout no data set is more than one draw ahead of
\* its share of any other's.
THEOREM FairShareHolds == Spec => []FairShare
<1>1. BalanceInv => FairShare
  BY DEF BalanceInv
<1> QED
  BY <1>1, InitBalance, StepBalance, PTL DEF Spec
-----------------------------------------------------------------------------
(* Division.                                                               *)

\* A quotient and its remainder ...
LEMMA DivMod ==
  ASSUME NEW c \in Nat, NEW s \in Nat \ {0}
  PROVE  /\ c \div s \in Nat /\ c % s \in Nat /\ c % s < s
         /\ c = (c \div s) * s + (c % s)
OBVIOUS

\* ... are the only ones.
LEMMA DivModUnique ==
  ASSUME NEW s \in Nat \ {0}, NEW q \in Nat, NEW r \in Nat, r < s
  PROVE  (q * s + r) \div s = q /\ (q * s + r) % s = r
<1> DEFINE c == q * s + r
<1>1. PICK a \in Nat, b \in Nat : a = c \div s /\ b = c % s /\ b < s /\ c = a * s + b
  BY DivMod
<1>2. a * s + b = q * s + r
  BY <1>1
<1>3. ~(a < q)
  <2> SUFFICES ASSUME a + 1 <= q PROVE FALSE
    BY <1>1
  <2>1. (a + 1) * s <= q * s
    OBVIOUS
  <2>2. (a + 1) * s = a * s + s
    OBVIOUS
  <2> QED BY <1>1, <1>2, <2>1, <2>2
<1>4. ~(q < a)
  <2> SUFFICES ASSUME q + 1 <= a PROVE FALSE
    BY <1>1
  <2>1. (q + 1) * s <= a * s
    OBVIOUS
  <2>2. (q + 1) * s = q * s + s
    OBVIOUS
  <2> QED BY <1>1, <1>2, <2>1, <2>2
<1>5. a = q
  BY <1>3, <1>4
<1> QED BY <1>1, <1>2, <1>5
-----------------------------------------------------------------------------
(* Places side by side, as many for each data set as a function says.      *)

\* n numbers in a row are n.
LEMMA IntervalSize ==
  ASSUME NEW n \in Nat
  PROVE  /\ IsFiniteSet(1 .. n)
         /\ \A m \in Nat : IsFiniteSet(m + 1 .. m + n) /\ Cardinality(m + 1 .. m + n) = n
<1>1. ASSUME NEW a \in Int, NEW b \in Int
      PROVE  IsFiniteSet(a .. b) /\ Cardinality(a .. b) = IF a > b THEN 0 ELSE b - a + 1
  BY FS_Interval
<1>2. 1 \in Int /\ n \in Int
  OBVIOUS
<1>3. ASSUME NEW m \in Nat
      PROVE  IsFiniteSet(m + 1 .. m + n) /\ Cardinality(m + 1 .. m + n) = n
  <2>1. PICK a \in Int, b \in Int : a = m + 1 /\ b = m + n
    OBVIOUS
  <2>2. (IF a > b THEN 0 ELSE b - a + 1) = n
    BY <2>1
  <2>3. IsFiniteSet(a .. b) /\ Cardinality(a .. b) = n
    BY <1>1, <2>2
  <2> QED BY <2>1, <2>3
<1> QED BY <1>1, <1>2, <1>3

\* They are finitely many.
LEMMA SlotsFinite ==
  ASSUME NEW f \in [Datasets -> Nat]
  PROVE  IsFiniteSet(Slots(f)) /\ Cardinality(Slots(f)) \in Nat
<1> DEFINE Row(d) == {d} \X (1 .. f[d])
           F == [d \in Datasets |-> Row(d)]
           R == {Row(d) : d \in Datasets}
<1>1. IsFiniteSet(Datasets)
  BY PackedAssumption, FS_Interval DEF Datasets
<1>2. F \in Surjection(Datasets, R)
  BY DEF Surjection
<1>3. \A d \in Datasets : IsFiniteSet(Row(d))
  <2> SUFFICES ASSUME NEW d \in Datasets PROVE IsFiniteSet(Row(d))
    OBVIOUS
  <2>1. PICK n \in Nat : n = f[d]
    OBVIOUS
  <2>2. IsFiniteSet(1 .. n) /\ IsFiniteSet({d})
    BY IntervalSize, FS_Singleton
  <2> QED BY <2>1, <2>2, FS_Product
<1>4. \A r \in R : IsFiniteSet(r)
  BY <1>3
<1>5. IsFiniteSet(R)
  <2> HIDE DEF F, R
  <2> QED BY <1>1, <1>2, FS_Surjection
<1>6. IsFiniteSet(UNION R)
  <2> HIDE DEF R
  <2> QED BY <1>4, <1>5, FS_UNION
<1>7. Slots(f) = UNION R
  BY DEF Slots
<1> QED BY <1>6, <1>7, FS_CardinalityType

\* A function that is nowhere less has no fewer.
LEMMA SlotsBelow ==
  ASSUME NEW f \in [Datasets -> Nat], NEW g \in [Datasets -> Nat],
         \A d \in Datasets : f[d] <= g[d]
  PROVE  Cardinality(Slots(f)) <= Cardinality(Slots(g))
<1>1. ASSUME NEW d \in Datasets PROVE 1 .. f[d] \subseteq 1 .. g[d]
  <2>1. PICK m \in Nat, n \in Nat : m = f[d] /\ n = g[d] /\ m <= n
    OBVIOUS
  <2>2. 1 .. m \subseteq 1 .. n
    BY <2>1
  <2> QED BY <2>1, <2>2
<1>2. Slots(f) \subseteq Slots(g)
  BY <1>1 DEF Slots
<1> QED BY <1>2, SlotsFinite, FS_Subset

\* n more for one data set are n more.
LEMMA SlotsMore ==
  ASSUME NEW f \in [Datasets -> Nat], NEW g \in [Datasets -> Nat],
         NEW x \in Datasets, NEW n \in Nat, g[x] = f[x] + n,
         \A d \in Datasets \ {x} : g[d] = f[d]
  PROVE  Cardinality(Slots(g)) = Cardinality(Slots(f)) + n
<1>1. PICK m \in Nat : m = f[x]
  OBVIOUS
<1> DEFINE I == m + 1 .. m + n
           R == {x} \X I
<1>2. 1 .. m + n = (1 .. m) \cup I /\ (1 .. m) \cap I = {}
  OBVIOUS
<1>3. IsFiniteSet(I) /\ Cardinality(I) = n
  BY IntervalSize
<1> HIDE DEF I
<1>4. IsFiniteSet(R) /\ Cardinality(R) = n
  <2>1. IsFiniteSet({x}) /\ Cardinality({x}) = 1
    BY FS_Singleton
  <2>2. IsFiniteSet(R) /\ Cardinality(R) = Cardinality({x}) * Cardinality(I)
    BY <1>3, <2>1, FS_Product
  <2> QED BY <1>3, <2>1, <2>2
<1>5. Slots(g) = Slots(f) \cup R
  <2>1. 1 .. g[x] = (1 .. f[x]) \cup I
    BY <1>1, <1>2
  <2>2. \A d \in Datasets : {d} \X (1 .. g[d]) = ({d} \X (1 .. f[d])) \cup (IF d = x THEN R ELSE {})
    BY <2>1
  <2> QED BY <2>2 DEF Slots
<1>6. Slots(f) \cap R = {}
  BY <1>1, <1>2 DEF Slots
<1> HIDE DEF R
<1>7. Cardinality(Slots(f) \cup R) = Cardinality(Slots(f)) + Cardinality(R) - Cardinality(Slots(f) \cap R)
  BY <1>4, SlotsFinite, FS_Union
<1>8. Cardinality(Slots(f)) \in Nat /\ Cardinality(Slots(f) \cap R) = 0
  BY <1>6, SlotsFinite, FS_EmptySet
<1> QED BY <1>4, <1>5, <1>7, <1>8
-----------------------------------------------------------------------------
(* How often each sample is drawn.                                         *)

\* The configuration and the samplers' orders.
OrderTyped ==
  /\ SamplerTyped
  /\ order \in [Datasets -> UNION {Orders(d) : d \in Datasets}]
  /\ \A d \in Datasets : order[d] \in Orders(d)
  /\ pieces \in Seq(Datasets \X Nat)

\* As many pieces as all data sets have draws, and no more than the weights say.
Scaled == [d \in Datasets |-> counts[d] * Unit]

Level ==
  /\ Cardinality(Slots(Scaled)) = Len(pieces) * Unit
  /\ Len(pieces) <= WeightSum \div Unit
  /\ phase # "sample" => Len(pieces) \in Draws

\* A data set's own sampler draws each sample once per pass: each was drawn in
\* every pass that is over and, if the present one has come to it, once more.
Passed(d, i) == \E j \in 1 .. (counts[d] % SizeOf(d)) : order[d][j] = i

Passes ==
  \A d \in Datasets : \A i \in 1 .. SizeOf(d) :
    Cardinality(Drawn(d, i)) = (counts[d] \div SizeOf(d)) + (IF Passed(d, i) THEN 1 ELSE 0)

LayoutInv == BalanceInv /\ OrderTyped /\ Level /\ Passes

\* The sizes and weights are positive.
LEMMA Positive ==
  ASSUME SamplerTyped, NEW d \in Datasets
  PROVE  SizeOf(d) \in Nat \ {0} /\ epochs[d] \in Nat \ {0} /\ Weight(d) \in Nat \ {0}
<1>1. lens[d] \in Seq(Nat) /\ lens[d] # <<>> /\ epochs[d] \in Nat \ {0}
  BY DEF SamplerTyped
<1>2. SizeOf(d) \in Nat \ {0}
  BY <1>1, EmptySeq, LenProperties DEF SizeOf
<1>3. PICK m \in Nat \ {0}, n \in Nat \ {0} : m = SizeOf(d) /\ n = epochs[d]
  BY <1>1, <1>2
<1>4. n * m \in Nat \ {0}
  OBVIOUS
<1> QED BY <1>1, <1>2, <1>3, <1>4 DEF Weight

\* The sum of the weights is a number.
LEMMA WeightSumType ==
  ASSUME SamplerTyped
  PROVE  WeightSum \in Nat
<1>1. [d \in Datasets |-> Weight(d)] \in [Datasets -> Nat]
  BY WeightIsNat
<1> QED BY <1>1, SlotsFinite DEF WeightSum

\* There are as many draws as the weights say, or, if they are not exact, one less.
LEMMA DrawsBounded ==
  ASSUME NEW n \in Draws, WeightSum \in Nat
  PROVE  n <= WeightSum \div Unit /\ WeightSum \div Unit <= n + (IF AllExact THEN 0 ELSE 1)
<1>1. WeightSum \div Unit \in Nat
  BY PackedAssumption, DivMod
<1>2. n = WeightSum \div Unit \/ (n = (WeightSum \div Unit) - 1 /\ ~AllExact)
  BY DEF Draws
<1> QED BY <1>1, <1>2

\* An order has every sample once.
LEMMA OrderIsBijection ==
  ASSUME SamplerTyped, NEW d \in Datasets, NEW o \in Orders(d)
  PROVE  /\ o \in [1 .. SizeOf(d) -> 1 .. SizeOf(d)]
         /\ \A i, j \in 1 .. SizeOf(d) : o[i] = o[j] => i = j
         /\ \A i \in 1 .. SizeOf(d) : \E j \in 1 .. SizeOf(d) : o[j] = i
<1> DEFINE S == 1 .. SizeOf(d)
<1>1. o \in [S -> S] /\ \A i, j \in S : o[i] = o[j] => i = j
  BY DEF Orders, IsInjective
<1>2. IsFiniteSet(S)
  BY Positive, FS_Interval
<1> HIDE DEF S
<1>3. o \in Injection(S, S)
  BY <1>1 DEF Injection, IsInjective
<1>4. o \in Surjection(S, S)
  BY <1>2, <1>3, FS_Injection
<1> QED BY <1>1, <1>4 DEF Surjection, S

\* One more piece, drawn of its sample.
LEMMA DrawnMore ==
  ASSUME NEW p \in Seq(Datasets \X Nat), pieces = p, NEW y \in Datasets \X Nat,
         pieces' = Append(p, y), NEW d, NEW i
  PROVE  /\ Cardinality(Drawn(d, i)) \in Nat
         /\ Cardinality(Drawn(d, i)') = Cardinality(Drawn(d, i)) + (IF y = <<d, i>> THEN 1 ELSE 0)
<1>1. PICK n \in Nat : n = Len(p) /\ DOMAIN p = 1 .. n
  BY LenProperties
<1>2. /\ DOMAIN pieces' = 1 .. n + 1 /\ pieces'[n + 1] = y
      /\ \A k \in 1 .. n : pieces'[k] = p[k]
  <2>1. /\ Append(p, y) \in Seq(Datasets \X Nat) /\ Len(Append(p, y)) = n + 1
        /\ Append(p, y)[n + 1] = y /\ \A k \in 1 .. n : Append(p, y)[k] = p[k]
    BY <1>1, AppendProperties
  <2> QED BY <2>1, LenProperties
<1> DEFINE D == {k \in 1 .. n : p[k] = <<d, i>>}
<1>3. IsFiniteSet(D) /\ Cardinality(D) \in Nat
  <2>1. IsFiniteSet(1 .. n) /\ D \subseteq 1 .. n
    BY IntervalSize
  <2> QED BY <2>1, FS_Subset, FS_CardinalityType
<1>4. Drawn(d, i) = D
  BY <1>1 DEF Drawn
<1>5. Drawn(d, i)' = {k \in 1 .. n + 1 : pieces'[k] = <<d, i>>}
  BY <1>2 DEF Drawn
<1>6. n + 1 \notin D
  OBVIOUS
<1>7. \A k \in 1 .. n + 1 : k \in 1 .. n \/ k = n + 1
  OBVIOUS
<1>8. \A k \in 1 .. n : k \in 1 .. n + 1
  OBVIOUS
<1>9. CASE y = <<d, i>>
  <2>1. Drawn(d, i)' = D \cup {n + 1}
    BY <1>2, <1>5, <1>7, <1>8, <1>9
  <2> HIDE DEF D
  <2> QED BY <1>3, <1>4, <1>6, <1>9, <2>1, FS_AddElement
<1>10. CASE y # <<d, i>>
  <2>1. Drawn(d, i)' = D
    BY <1>2, <1>5, <1>7, <1>8, <1>10
  <2> QED BY <1>3, <1>4, <1>10, <2>1
<1> QED BY <1>9, <1>10

\* What a draw does.
LEMMA SampleDraws ==
  ASSUME OrderTyped, Sample
  PROVE  \E x \in Datasets : \E r \in 1 .. SizeOf(x) :
           /\ r = (counts[x] % SizeOf(x)) + 1
           /\ <<x, order[x][r]>> \in Datasets \X Nat
           /\ pieces' = Append(pieces, <<x, order[x][r]>>)
           /\ counts' = [counts EXCEPT ![x] = counts[x] + 1]
           /\ \E o \in Orders(x) : order' = [order EXCEPT ![x] = o] /\ (~EpochEnds(x) => o = order[x])
<1>1. PICK x \in Datasets :
        /\ pieces' = Append(pieces, <<x, order[x][(counts[x] % SizeOf(x)) + 1]>>)
        /\ counts' = [counts EXCEPT ![x] = counts[x] + 1]
        /\ \E o \in IF EpochEnds(x) THEN Orders(x) ELSE {order[x]} :
             order' = [order EXCEPT ![x] = o]
  BY DEF Sample
<1>2. order[x] \in Orders(x) /\ SamplerTyped
  BY DEF OrderTyped
<1>3. \E o \in Orders(x) : order' = [order EXCEPT ![x] = o] /\ (~EpochEnds(x) => o = order[x])
  BY <1>1, <1>2
<1>4. PICK s \in Nat \ {0}, c \in Nat : s = SizeOf(x) /\ c = counts[x]
  BY <1>2, Positive DEF SamplerTyped
<1>5. (c % s) + 1 \in 1 .. s
  <2>1. c % s \in Nat /\ c % s < s
    BY DivMod
  <2> QED BY <2>1
<1>6. PICK r \in 1 .. s : r = (c % s) + 1
  BY <1>5
<1>7. order[x][r] \in 1 .. s
  <2>1. order[x] \in [1 .. s -> 1 .. s]
    BY <1>2, <1>4, OrderIsBijection
  <2> QED BY <2>1
<1>8. order[x][r] \in Nat
  BY <1>7
<1> QED BY <1>1, <1>3, <1>4, <1>6, <1>8

\* Types and orders are kept.
LEMMA SampleOrder ==
  ASSUME BalanceInv, OrderTyped, Sample
  PROVE  OrderTyped'
<1>0. PICK x \in Datasets :
        /\ \E y \in Datasets \X Nat : pieces' = Append(pieces, y)
        /\ \E o \in Orders(x) : order' = [order EXCEPT ![x] = o]
  BY SampleDraws
<1>1. PICK o \in Orders(x) : order' = [order EXCEPT ![x] = o]
  BY <1>0
<1>2. UNCHANGED <<lens, random>>
  BY DEF Sample, config
<1>3. \A d \in Datasets : Orders(d)' = Orders(d)
  BY <1>2 DEF Orders, SizeOf
<1>4. pieces' \in Seq(Datasets \X Nat)
  BY <1>0, AppendProperties DEF OrderTyped
<1>5. DOMAIN order' = Datasets /\ \A d \in Datasets : order'[d] \in Orders(d)
  BY <1>1 DEF OrderTyped
<1>6. order' = [d \in Datasets |-> order'[d]]
  BY <1>1, <1>5 DEF OrderTyped
<1>7. order' \in [Datasets -> UNION {Orders(d) : d \in Datasets}]
  BY <1>5, <1>6
<1>8. SamplerTyped'
  BY SampleBalance DEF BalanceInv
<1>9. {Orders(d)' : d \in Datasets} = {Orders(d) : d \in Datasets}
  BY <1>3
<1> QED BY <1>3, <1>4, <1>5, <1>7, <1>8, <1>9 DEF OrderTyped

\* A draw is worth Unit.
LEMMA SampleLevel ==
  ASSUME BalanceInv, OrderTyped, Level, Sample
  PROVE  Level'
<1>1. PICK x \in Datasets :
        /\ pieces' \in Seq(Datasets \X Nat) /\ Len(pieces') = Len(pieces) + 1
        /\ counts' = [counts EXCEPT ![x] = counts[x] + 1]
  <2>1. pieces \in Seq(Datasets \X Nat)
    BY DEF OrderTyped
  <2>2. PICK x \in Datasets :
          /\ \E y \in Datasets \X Nat : pieces' = Append(pieces, y)
          /\ counts' = [counts EXCEPT ![x] = counts[x] + 1]
    BY SampleDraws
  <2>3. PICK y \in Datasets \X Nat : pieces' = Append(pieces, y)
    BY <2>2
  <2>4. Append(pieces, y) \in Seq(Datasets \X Nat) /\ Len(Append(pieces, y)) = Len(pieces) + 1
    BY <2>1, AppendProperties
  <2> QED BY <2>2, <2>3, <2>4
<1>2. counts \in [Datasets -> Nat] /\ counts' \in [Datasets -> Nat]
  BY SampleBalance DEF BalanceInv, SamplerTyped
<1>3. PICK u \in Nat \ {0} : u = Unit
  BY PackedAssumption
<1>4. Scaled \in [Datasets -> Nat] /\ Scaled' \in [Datasets -> Nat]
  BY <1>2, <1>3 DEF Scaled
<1>5. Scaled'[x] = Scaled[x] + u /\ \A d \in Datasets \ {x} : Scaled'[d] = Scaled[d]
  <2>1. PICK c \in Nat : c = counts[x]
    BY <1>2
  <2>2. (c + 1) * u = c * u + u
    OBVIOUS
  <2>3. counts'[x] = c + 1 /\ \A d \in Datasets \ {x} : counts'[d] = counts[d]
    BY <1>1, <1>2, <2>1
  <2> QED BY <1>3, <2>1, <2>2, <2>3 DEF Scaled
<1>6. Cardinality(Slots(Scaled')) = Cardinality(Slots(Scaled)) + u
  BY <1>4, <1>5, SlotsMore
<1>7. WeightSum' = WeightSum
  <2>1. \A d \in Datasets : Weight(d)' = Weight(d)
    BY DEF Sample, config, Weight, SizeOf
  <2> QED BY <2>1 DEF WeightSum
<1>8. PICK n \in Nat : n = Len(pieces)
  BY LenProperties DEF OrderTyped
<1>9. n + 1 <= WeightSum \div Unit /\ phase' = "sample"
  <2>1. WeightSum \in Nat
    BY WeightSumType DEF BalanceInv
  <2>2. WeightSum \div Unit \in Nat
    BY <1>3, <2>1, DivMod
  <2>3. PICK k \in Draws : n < k /\ phase' = "sample"
    BY <1>8 DEF Sample
  <2>4. k \in Int /\ k <= WeightSum \div Unit
    BY <2>1, <2>2, DrawsBounded DEF Draws
  <2> QED BY <2>2, <2>3, <2>4
<1>10. (n + 1) * u = n * u + u
  OBVIOUS
<1>11. Slots(Scaled)' = Slots(Scaled')
  BY DEF Slots
<1>12. Cardinality(Slots(Scaled)) = n * u
  BY <1>3, <1>8 DEF Level
<1>13. Cardinality(Slots(Scaled)') = (n + 1) * u
  BY <1>6, <1>10, <1>11, <1>12
<1> QED BY <1>1, <1>3, <1>7, <1>8, <1>9, <1>13 DEF Level

\* A draw goes one step through the order of its data set, or ends a pass.
LEMMA SamplePasses ==
  ASSUME BalanceInv, OrderTyped, Passes, Sample
  PROVE  Passes'
<1>0. PICK x \in Datasets : \E r \in 1 .. SizeOf(x) :
        /\ r = (counts[x] % SizeOf(x)) + 1
        /\ <<x, order[x][r]>> \in Datasets \X Nat
        /\ pieces' = Append(pieces, <<x, order[x][r]>>)
        /\ counts' = [counts EXCEPT ![x] = counts[x] + 1]
        /\ \E o \in Orders(x) : order' = [order EXCEPT ![x] = o] /\ (~EpochEnds(x) => o = order[x])
  BY SampleDraws
<1>1. PICK r \in 1 .. SizeOf(x) :
        /\ r = (counts[x] % SizeOf(x)) + 1
        /\ <<x, order[x][r]>> \in Datasets \X Nat
        /\ pieces' = Append(pieces, <<x, order[x][r]>>)
        /\ counts' = [counts EXCEPT ![x] = counts[x] + 1]
        /\ \E o \in Orders(x) : order' = [order EXCEPT ![x] = o] /\ (~EpochEnds(x) => o = order[x])
  BY <1>0
<1>2. PICK o \in Orders(x) : order' = [order EXCEPT ![x] = o] /\ (~EpochEnds(x) => o = order[x])
  BY <1>1
<1>3. /\ \A d \in Datasets : SizeOf(d)' = SizeOf(d)
      /\ pieces \in Seq(Datasets \X Nat)
      /\ counts \in [Datasets -> Nat] /\ SamplerTyped
      /\ order \in [Datasets -> UNION {Orders(d) : d \in Datasets}]
      /\ order[x] \in Orders(x)
  BY DEF Sample, config, SizeOf, OrderTyped, SamplerTyped
<1> SUFFICES ASSUME NEW d \in Datasets, NEW i \in 1 .. SizeOf(d)
             PROVE  Cardinality(Drawn(d, i))'
                      = (counts'[d] \div SizeOf(d)) + (IF Passed(d, i)' THEN 1 ELSE 0)
  BY <1>3 DEF Passes
<1>4. /\ Cardinality(Drawn(d, i)) \in Nat
      /\ Cardinality(Drawn(d, i)') = Cardinality(Drawn(d, i))
           + (IF <<x, order[x][r]>> = <<d, i>> THEN 1 ELSE 0)
  <2>1. PICK p \in Seq(Datasets \X Nat) : pieces = p
    BY <1>3
  <2>2. PICK y \in Datasets \X Nat : y = <<x, order[x][r]>> /\ pieces' = Append(p, y)
    BY <1>1, <2>1
  <2> QED BY <2>1, <2>2, DrawnMore
<1>5. Cardinality(Drawn(d, i))
        = (counts[d] \div SizeOf(d)) + (IF Passed(d, i) THEN 1 ELSE 0)
  BY DEF Passes
<1>6. CASE d # x
  <2>1. counts'[d] = counts[d] /\ order'[d] = order[d]
    BY <1>1, <1>2, <1>3, <1>6
  <2>2. Passed(d, i)' <=> Passed(d, i)
    BY <1>3, <2>1 DEF Passed
  <2>3. <<x, order[x][r]>> # <<d, i>>
    BY <1>6
  <2> QED BY <1>4, <1>5, <2>1, <2>2, <2>3
<1>7. CASE d = x
  <2>1. PICK s \in Nat \ {0}, c \in Nat : s = SizeOf(x) /\ c = counts[x]
    BY <1>3, Positive
  <2>2. PICK q \in Nat, m \in Nat :
          q = c \div s /\ m = c % s /\ m < s /\ c = q * s + m
    BY DivMod
  <2>3. counts'[x] = c + 1 /\ r = m + 1 /\ r \in 1 .. s
    BY <1>1, <1>3, <2>1, <2>2
  <2>4. /\ order[x] \in [1 .. s -> 1 .. s]
        /\ \A a, b \in 1 .. s : order[x][a] = order[x][b] => a = b
        /\ \E j \in 1 .. s : order[x][j] = i
    BY <1>3, <1>7, <2>1, OrderIsBijection
  <2>5. Passed(d, i) <=> \E j \in 1 .. m : order[x][j] = i
    BY <1>7, <2>1, <2>2 DEF Passed
  <2>6. /\ Cardinality(Drawn(d, i)) = q + (IF Passed(d, i) THEN 1 ELSE 0)
        /\ Cardinality(Drawn(d, i)') = Cardinality(Drawn(d, i))
             + (IF order[x][r] = i THEN 1 ELSE 0)
    BY <1>4, <1>5, <1>7, <2>1, <2>2
  <2>7. ~(Passed(d, i) /\ order[x][r] = i)
    <3> SUFFICES ASSUME NEW j \in 1 .. m, order[x][j] = i, order[x][r] = i PROVE FALSE
      BY <2>5
    <3>1. j \in 1 .. s /\ j # r
      BY <2>2, <2>3
    <3> QED BY <2>3, <2>4, <3>1
  <2>8. CASE r < s
    <3>1. c + 1 = q * s + r /\ r \in Nat
      BY <2>2, <2>3
    <3>2. (c + 1) \div s = q /\ (c + 1) % s = r
      BY <2>8, <3>1, DivModUnique
    <3>3. ~EpochEnds(x)
      BY <2>1, <2>3, <3>2 DEF EpochEnds
    <3>4. order'[x] = order[x]
      BY <1>2, <1>3, <3>3
    <3>5. Passed(d, i)' <=> \E j \in 1 .. r : order[x][j] = i
      BY <1>3, <1>7, <2>1, <2>3, <3>2, <3>4 DEF Passed
    <3>6. \A j : j \in 1 .. r <=> j \in 1 .. m \/ j = r
      BY <2>3
    <3>7. Passed(d, i)' <=> Passed(d, i) \/ order[x][r] = i
      BY <2>5, <3>5, <3>6
    <3>8. counts'[d] \div SizeOf(d) = q
      BY <1>7, <2>1, <2>3, <3>2
    <3> QED BY <2>6, <2>7, <3>7, <3>8
  <2>9. CASE r = s
    <3>1. c + 1 = (q + 1) * s + 0
      <4>1. (q + 1) * s = q * s + s
        OBVIOUS
      <4> QED BY <2>2, <2>3, <2>9, <4>1
    <3>2. (c + 1) \div s = q + 1 /\ (c + 1) % s = 0
      <4>1. q + 1 \in Nat /\ 0 \in Nat /\ 0 < s
        OBVIOUS
      <4> QED BY <3>1, <4>1, DivModUnique
    <3>3. ~Passed(d, i)'
      BY <1>3, <1>7, <2>1, <2>3, <3>2 DEF Passed
    <3>4. Passed(d, i) \/ order[x][r] = i
      <4>1. \A j \in 1 .. s : j \in 1 .. m \/ j = r
        BY <2>3, <2>9
      <4> QED BY <2>4, <2>5, <4>1
    <3>5. counts'[d] \div SizeOf(d) = q + 1
      BY <1>7, <2>1, <2>3, <3>2
    <3> QED BY <2>6, <2>7, <3>3, <3>4, <3>5
  <2> QED BY <2>3, <2>8, <2>9
<1> QED BY <1>6, <1>7

\* Nothing is drawn at first.
LEMMA InitLayout == Init => LayoutInv
<1> SUFFICES ASSUME Init PROVE LayoutInv
  OBVIOUS
<1>1. BalanceInv
  BY InitBalance
<1>2. /\ counts = [d \in Datasets |-> 0] /\ pieces = <<>> /\ phase = "sample"
      /\ SamplerTyped
  BY <1>1 DEF Init, BalanceInv
<1>3. OrderTyped
  <2>1. /\ order \in [Datasets -> UNION {Orders(d) : d \in Datasets}]
        /\ \A d \in Datasets : order[d] \in Orders(d)
    BY DEF Init
  <2>2. pieces \in Seq(Datasets \X Nat)
    BY <1>2, EmptySeq
  <2> QED BY <1>2, <2>1, <2>2 DEF OrderTyped
<1>4. Level
  <2>1. \A d \in Datasets : Scaled[d] = 0
    BY <1>2, PackedAssumption DEF Scaled
  <2>2. Slots(Scaled) = {}
    BY <2>1 DEF Slots
  <2>3. PICK u \in Nat \ {0}, w \in Nat : u = Unit /\ w = WeightSum
    BY <1>2, WeightSumType, PackedAssumption
  <2>4. w \div u \in Nat
    BY DivMod
  <2>5. Len(pieces) = 0 /\ 0 * u = 0
    BY <1>2
  <2> QED BY <1>2, <2>2, <2>3, <2>4, <2>5, FS_EmptySet DEF Level
<1>5. Passes
  <2> SUFFICES ASSUME NEW d \in Datasets, NEW i \in 1 .. SizeOf(d)
               PROVE  Cardinality(Drawn(d, i))
                        = (counts[d] \div SizeOf(d)) + (IF Passed(d, i) THEN 1 ELSE 0)
    BY DEF Passes
  <2>1. Cardinality(Drawn(d, i)) = 0
    <3>1. Drawn(d, i) = {}
      BY <1>2 DEF Drawn
    <3> QED BY <3>1, FS_EmptySet
  <2>2. PICK s \in Nat \ {0} : s = SizeOf(d)
    BY <1>2, Positive
  <2>3. 0 \div s = 0 /\ 0 % s = 0
    <3>1. 0 * s + 0 = 0 /\ 0 \in Nat /\ 0 < s
      OBVIOUS
    <3> QED BY <3>1, DivModUnique
  <2>4. counts[d] = 0
    BY <1>2
  <2>5. ~Passed(d, i)
    BY <2>2, <2>3, <2>4 DEF Passed
  <2> QED BY <2>1, <2>2, <2>3, <2>4, <2>5
<1> QED BY <1>1, <1>3, <1>4, <1>5 DEF LayoutInv

\* What they rest on stays when nothing is drawn.
LEMMA SameLayout ==
  ASSUME OrderTyped, Passes, UNCHANGED <<lens, epochs, random, counts, order, pieces>>
  PROVE  OrderTyped' /\ Passes'
<1>1. \A d \in Datasets : SizeOf(d)' = SizeOf(d) /\ Orders(d)' = Orders(d)
  BY DEF SizeOf, Orders
<1>2. \A d, i : Drawn(d, i)' = Drawn(d, i)
  BY DEF Drawn
<1>3. \A d \in Datasets : \A i : Passed(d, i)' <=> Passed(d, i)
  BY <1>1 DEF Passed
<1>4. {Orders(d)' : d \in Datasets} = {Orders(d) : d \in Datasets}
  BY <1>1
<1>5. OrderTyped'
  BY <1>1, <1>4 DEF OrderTyped, SamplerTyped
<1>6. Passes'
  BY <1>1, <1>2, <1>3 DEF Passes
<1> QED BY <1>5, <1>6

\* So do the sums.
LEMMA SameSums ==
  ASSUME UNCHANGED <<lens, epochs, counts>>
  PROVE  Scaled' = Scaled /\ WeightSum' = WeightSum /\ Draws' = Draws
<1>1. Scaled' = Scaled
  BY DEF Scaled
<1>2. WeightSum' = WeightSum
  BY DEF WeightSum, Weight, SizeOf
<1>3. AllExact' <=> AllExact
  BY DEF AllExact
<1> QED BY <1>1, <1>2, <1>3 DEF Draws

\* Draws balance between the data sets and within each; packing draws nothing.
LEMMA StepLayout == LayoutInv /\ [Next]_vars => LayoutInv'
<1> SUFFICES ASSUME LayoutInv, [Next]_vars PROVE LayoutInv'
  OBVIOUS
<1>0. BalanceInv'
  BY StepBalance DEF LayoutInv
<1>1. CASE Sample
  BY <1>0, <1>1, SampleOrder, SampleLevel, SamplePasses DEF LayoutInv
<1>2. CASE Sampled
  <2>1. UNCHANGED <<lens, epochs, random, counts, order, pieces>>
    BY <1>2 DEF Sampled, config
  <2>2. OrderTyped' /\ Passes'
    BY <2>1, SameLayout DEF LayoutInv
  <2>3. Scaled' = Scaled /\ WeightSum' = WeightSum /\ Draws' = Draws
    BY <2>1, SameSums
  <2>4. Len(pieces) \in Draws
    BY <1>2 DEF Sampled
  <2>5. Slots(Scaled)' = Slots(Scaled)
    BY <2>3 DEF Slots
  <2>6. Level'
    BY <2>1, <2>3, <2>4, <2>5 DEF LayoutInv, Level
  <2> QED BY <1>0, <2>2, <2>6 DEF LayoutInv
<1>3. CASE Pack \/ UNCHANGED vars
  <2>1. UNCHANGED <<lens, epochs, random, counts, order, pieces>>
    BY <1>3 DEF Pack, PackFits, PackPutBack, PackExtend, PackDrop, PackEnd, vars, config
  <2>2. OrderTyped' /\ Passes'
    BY <2>1, SameLayout DEF LayoutInv
  <2>3. Scaled' = Scaled /\ WeightSum' = WeightSum /\ Draws' = Draws
    BY <2>1, SameSums
  <2>4. phase' # "sample" => phase # "sample"
    BY <1>3 DEF Pack, Packing, PackFits, PackPutBack, PackExtend, PackDrop, PackEnd, vars
  <2>5. Slots(Scaled)' = Slots(Scaled)
    BY <2>3 DEF Slots
  <2>6. Level'
    BY <2>1, <2>3, <2>4, <2>5 DEF LayoutInv, Level
  <2> QED BY <1>0, <2>2, <2>6 DEF LayoutInv
<1> QED BY <1>1, <1>2, <1>3 DEF Next, Laid
-----------------------------------------------------------------------------
(* When all is drawn.                                                      *)

\* If one data set is a whole draw over its weight, no other is below its own.
LEMMA NoneBehind ==
  ASSUME NEW u \in Nat, NEW w \in Nat \ {0}, NEW v \in Nat, NEW a \in Nat, NEW b \in Nat,
         a * v <= b * w, w <= a * u
  PROVE  v <= b * u
<1>1. PICK m \in Nat, n \in Nat, k \in Nat, l \in Nat :
        m = a * v /\ n = b * w /\ k = a * u /\ l = b * u
  OBVIOUS
<1>2. m * u <= n * u
  BY <1>1
<1>3. w * v <= k * v
  BY <1>1
<1>4. k * v = m * u /\ n * u = l * w
  BY <1>1
<1>5. w * v <= l * w
  BY <1>2, <1>3, <1>4
<1>6. SUFFICES ASSUME l + 1 <= v PROVE FALSE
  BY <1>1
<1>7. w * (l + 1) <= w * v
  BY <1>6
<1>8. w * (l + 1) = l * w + w
  OBVIOUS
<1>9. l * w \in Nat
  OBVIOUS
<1> QED BY <1>5, <1>7, <1>8, <1>9

\* No data set is drawn a whole draw over its weight ...
LEMMA NotOver ==
  ASSUME LayoutInv, phase # "sample", NEW d \in Datasets
  PROVE  (counts[d] - 1) * Unit < Weight(d)
<1>1. PICK u \in Nat \ {0}, w \in Nat \ {0}, c \in Nat :
        u = Unit /\ w = Weight(d) /\ c = counts[d]
  BY Positive, PackedAssumption DEF LayoutInv, OrderTyped, SamplerTyped
<1>2. CASE c = 0
  BY <1>1, <1>2
<1>3. CASE c # 0
  <2>1. PICK a \in Nat : c = a + 1
    BY <1>3
  <2>2. SUFFICES ASSUME w <= a * u PROVE FALSE
    BY <1>1, <2>1
  <2> DEFINE f == [e \in Datasets |-> Weight(e)]
             h == [e \in Datasets |-> IF e = d THEN w + u ELSE Weight(e)]
  <2>3. f \in [Datasets -> Nat] /\ h \in [Datasets -> Nat]
    BY WeightIsNat DEF LayoutInv, BalanceInv
  <2>4. Scaled \in [Datasets -> Nat]
    BY PackedAssumption DEF Scaled, LayoutInv, BalanceInv, SamplerTyped
  <2>5. ASSUME NEW e \in Datasets PROVE h[e] <= Scaled[e]
    <3>1. PICK v \in Nat, b \in Nat : v = Weight(e) /\ b = counts[e]
      BY WeightIsNat DEF LayoutInv, BalanceInv, SamplerTyped
    <3>2. (counts[d] - 1) * Weight(e) <= counts[e] * Weight(d)
      BY DEF LayoutInv, BalanceInv, FairShare
    <3>3. a * v <= b * w
      BY <1>1, <2>1, <3>1, <3>2
    <3>4. v <= b * u
      BY <2>2, <3>3, NoneBehind
    <3>5. w + u <= c * u
      <4>1. (a + 1) * u = a * u + u
        OBVIOUS
      <4> QED BY <2>1, <2>2, <4>1
    <3>6. Scaled[e] = b * u /\ (e = d => b = c)
      BY <1>1, <3>1 DEF Scaled
    <3> QED BY <3>1, <3>4, <3>5, <3>6
  <2>6. Cardinality(Slots(h)) <= Cardinality(Slots(Scaled))
    <3> HIDE DEF h
    <3> QED BY <2>3, <2>4, <2>5, SlotsBelow
  <2>7. Cardinality(Slots(h)) = Cardinality(Slots(f)) + u
    <3>1. h[d] = f[d] + u /\ \A e \in Datasets \ {d} : h[e] = f[e]
      BY <1>1
    <3> HIDE DEF f, h
    <3> QED BY <2>3, <3>1, SlotsMore
  <2>8. PICK t \in Nat, n \in Nat : t = Cardinality(Slots(f)) /\ n = Len(pieces)
    <3>1. Cardinality(Slots(f)) \in Nat
      BY <2>3, SlotsFinite
    <3> QED BY <3>1, LenProperties DEF LayoutInv, OrderTyped
  <2>9. t = WeightSum
    BY <2>8 DEF WeightSum
  <2>10. Cardinality(Slots(Scaled)) = n * u /\ n <= t \div u
    BY <1>1, <2>8, <2>9 DEF LayoutInv, Level
  <2>11. t + u <= n * u
    BY <2>6, <2>7, <2>8, <2>10
  <2>12. n * u <= t
    <3>1. PICK k \in Nat, r \in Nat : k = t \div u /\ t = k * u + r
      BY DivMod
    <3>2. n * u <= k * u /\ n * u \in Nat /\ k * u \in Nat
      BY <2>10, <3>1
    <3> QED BY <3>1, <3>2
  <2>13. n * u \in Nat
    OBVIOUS
  <2> QED BY <2>11, <2>12, <2>13
<1> QED BY <1>2, <1>3

\* ... and all of them together are at most as many draws below theirs, if the
\* weights are whole numbers of draws, as the sum has lost.
LEMMA NotUnder ==
  ASSUME LayoutInv, phase # "sample", NEW k \in Nat, NEW h \in [Datasets -> Nat],
         \A e \in Datasets : h[e] <= Weight(e),
         Cardinality(Slots(h)) = Cardinality(Slots(Scaled)) + k * Unit
  PROVE  k <= IF AllExact THEN 0 ELSE 1
<1>1. PICK u \in Nat \ {0} : u = Unit
  BY PackedAssumption
<1> DEFINE f == [e \in Datasets |-> Weight(e)]
<1>2. f \in [Datasets -> Nat] /\ \A e \in Datasets : h[e] <= f[e]
  BY WeightIsNat DEF LayoutInv, BalanceInv
<1>3. Cardinality(Slots(h)) <= Cardinality(Slots(f))
  <2> HIDE DEF f
  <2> QED BY <1>2, SlotsBelow
<1>4. PICK t \in Nat, n \in Nat : t = Cardinality(Slots(f)) /\ n = Len(pieces)
  <2>1. Cardinality(Slots(f)) \in Nat
    BY <1>2, SlotsFinite
  <2> QED BY <2>1, LenProperties DEF LayoutInv, OrderTyped
<1>5. t = WeightSum
  BY <1>4 DEF WeightSum
<1>6. PICK q \in Nat, r \in Nat : q = t \div u /\ r < u /\ t = q * u + r
  BY DivMod
<1>7. PICK lost \in Nat : lost = IF AllExact THEN 0 ELSE 1
  OBVIOUS
<1>8. q <= n + lost
  BY <1>1, <1>4, <1>5, <1>6, <1>7, DrawsBounded DEF LayoutInv, Level
<1>9. n * u + k * u <= q * u + r
  BY <1>1, <1>3, <1>4, <1>6 DEF LayoutInv, Level
<1>10. SUFFICES ASSUME lost + 1 <= k PROVE FALSE
  BY <1>7
<1>11. q + 1 <= n + k
  BY <1>8, <1>10
<1>12. (q + 1) * u <= (n + k) * u
  BY <1>11
<1>13. (q + 1) * u = q * u + u /\ (n + k) * u = n * u + k * u
  OBVIOUS
<1>14. q * u \in Nat /\ n * u \in Nat /\ k * u \in Nat
  OBVIOUS
<1> QED BY <1>6, <1>9, <1>12, <1>13, <1>14

\* Whole weights: as many draws as no data set exceeds.
LEMMA WholeWeights ==
  ASSUME LayoutInv, phase # "sample", NEW d \in Datasets, Weight(d) % Unit = 0
  PROVE  \E q \in Nat : Weight(d) = q * Unit /\ counts[d] <= q
<1>1. PICK v \in Nat, b \in Nat, u \in Nat \ {0} :
        v = Weight(d) /\ b = counts[d] /\ u = Unit
  BY WeightIsNat, PackedAssumption DEF LayoutInv, BalanceInv, SamplerTyped
<1>2. PICK q \in Nat : q = v \div u
  BY DivMod
<1>3. v = q * u
  <2>1. v = (v \div u) * u + (v % u) /\ v % u = 0
    BY <1>1, DivMod
  <2>2. q * u \in Nat
    OBVIOUS
  <2> QED BY <1>2, <2>1, <2>2
<1>4. (b - 1) * u < q * u
  BY <1>1, <1>3, NotOver
<1>5. b <= q
  <2> SUFFICES ASSUME q <= b - 1 PROVE FALSE
    OBVIOUS
  <2>1. q * u <= (b - 1) * u
    OBVIOUS
  <2>2. q * u \in Int /\ (b - 1) * u \in Int
    OBVIOUS
  <2> QED BY <1>4, <2>1, <2>2
<1> QED BY <1>1, <1>3, <1>5

\* So at most one draw of one data set is missing, and none if all are exact.
LEMMA OneMissing ==
  ASSUME LayoutInv, phase # "sample",
         \A e \in Datasets : Weight(e) % Unit = 0,
         NEW d \in Datasets, counts[d] * Unit < Weight(d)
  PROVE  /\ ~AllExact
         /\ Weight(d) = (counts[d] + 1) * Unit
         /\ \A e \in Datasets : counts[e] * Unit < Weight(e) => e = d
<1>1. PICK u \in Nat \ {0} : u = Unit
  BY PackedAssumption
<1>2. Scaled \in [Datasets -> Nat] /\ counts \in [Datasets -> Nat]
  BY PackedAssumption DEF Scaled, LayoutInv, BalanceInv, SamplerTyped
<1>3. ASSUME NEW e \in Datasets
      PROVE  \E b \in Nat, q \in Nat :
               /\ b = counts[e] /\ Weight(e) = q * u /\ Scaled[e] = b * u
               /\ b * u <= q * u
               /\ b * u < q * u => b * u + u <= q * u
               /\ q # b + 1 /\ b * u < q * u => b * u + u + u <= q * u
  <2>1. PICK q \in Nat : Weight(e) = q * u /\ counts[e] <= q
    BY <1>1, WholeWeights
  <2>2. PICK b \in Nat : b = counts[e]
    BY <1>2
  <2>3. b <= q /\ b * u <= q * u
    BY <2>1, <2>2
  <2>4. b = q => ~(b * u < q * u)
    <3>1. q * u \in Nat
      OBVIOUS
    <3> QED BY <3>1
  <2>5. b + 1 <= q => b * u + u <= q * u
    <3> SUFFICES ASSUME b + 1 <= q PROVE b * u + u <= q * u
      OBVIOUS
    <3>1. (b + 1) * u <= q * u /\ (b + 1) * u = b * u + u
      OBVIOUS
    <3> QED BY <3>1
  <2>6. b + 2 <= q => b * u + u + u <= q * u
    <3> SUFFICES ASSUME b + 2 <= q PROVE b * u + u + u <= q * u
      OBVIOUS
    <3>1. (b + 2) * u <= q * u /\ (b + 2) * u = b * u + u + u
      OBVIOUS
    <3> QED BY <3>1
  <2>7. Scaled[e] = b * u
    BY <1>1, <2>2 DEF Scaled
  <2>8. b = q \/ b + 1 <= q
    BY <2>3
  <2>9. b = q \/ q = b + 1 \/ b + 2 <= q
    BY <2>3
  <2> QED BY <2>1, <2>2, <2>3, <2>4, <2>5, <2>6, <2>7, <2>8, <2>9
<1>4. PICK c \in Nat, p \in Nat :
        /\ c = counts[d] /\ Weight(d) = p * u /\ Scaled[d] = c * u
        /\ c * u + u <= p * u
        /\ p # c + 1 => c * u + u + u <= p * u
  BY <1>1, <1>3
<1>5. c * u \in Nat /\ p * u \in Nat /\ 1 * u = u /\ 2 * u = u + u
  OBVIOUS
<1> DEFINE h1 == [Scaled EXCEPT ![d] = c * u + u]
<1>6. h1 \in [Datasets -> Nat] /\ \A e \in Datasets : h1[e] <= Weight(e)
  <2>1. ASSUME NEW e \in Datasets PROVE h1[e] \in Nat /\ h1[e] <= Weight(e)
    <3>1. Scaled[e] \in Nat /\ Scaled[e] <= Weight(e)
      BY <1>2, <1>3
    <3> QED BY <1>2, <1>4, <1>5, <3>1
  <2> QED BY <1>2, <1>5, <2>1
<1>7. h1[d] = Scaled[d] + u /\ \A e \in Datasets \ {d} : h1[e] = Scaled[e]
  BY <1>2, <1>4
<1> HIDE DEF h1
<1>8. Cardinality(Slots(h1)) = Cardinality(Slots(Scaled)) + u
  BY <1>2, <1>6, <1>7, SlotsMore
<1>9. ~AllExact
  BY <1>1, <1>5, <1>6, <1>8, NotUnder
<1>10. p = c + 1
  <2> SUFFICES ASSUME p # c + 1 PROVE FALSE
    OBVIOUS
  <2> DEFINE h2 == [Scaled EXCEPT ![d] = c * u + 2 * u]
  <2>1. h2 \in [Datasets -> Nat] /\ \A e \in Datasets : h2[e] <= Weight(e)
    <3>1. ASSUME NEW e \in Datasets PROVE h2[e] \in Nat /\ h2[e] <= Weight(e)
      <4>1. Scaled[e] \in Nat /\ Scaled[e] <= Weight(e)
        BY <1>2, <1>3
      <4> QED BY <1>2, <1>4, <1>5, <4>1
    <3> QED BY <1>2, <1>5, <3>1
  <2>2. h2[d] = Scaled[d] + 2 * u /\ \A e \in Datasets \ {d} : h2[e] = Scaled[e]
    BY <1>2, <1>4
  <2> HIDE DEF h2
  <2>3. Cardinality(Slots(h2)) = Cardinality(Slots(Scaled)) + 2 * u
    BY <1>2, <2>1, <2>2, SlotsMore
  <2> QED BY <1>1, <2>1, <2>3, NotUnder
<1>11. ASSUME NEW e \in Datasets, counts[e] * Unit < Weight(e), e # d
       PROVE  FALSE
  <2>1. PICK b \in Nat : Scaled[e] = b * u /\ b * u + u <= Weight(e)
    BY <1>1, <1>3, <1>11
  <2> DEFINE h2 == [h1 EXCEPT ![e] = b * u + u]
  <2>2. b * u \in Nat /\ h1[e] = b * u
    BY <1>7, <1>11, <2>1
  <2>3. h2 \in [Datasets -> Nat] /\ \A x \in Datasets : h2[x] <= Weight(x)
    BY <1>6, <2>1, <2>2
  <2>4. h2[e] = h1[e] + u /\ \A x \in Datasets \ {e} : h2[x] = h1[x]
    BY <1>6, <2>2
  <2> HIDE DEF h2
  <2>5. Cardinality(Slots(h2)) = Cardinality(Slots(h1)) + u
    BY <1>6, <2>3, <2>4, SlotsMore
  <2>6. Cardinality(Slots(Scaled)) \in Nat
    BY <1>2, SlotsFinite
  <2>7. Cardinality(Slots(h2)) = Cardinality(Slots(Scaled)) + 2 * u
    BY <1>5, <1>8, <2>5, <2>6
  <2> QED BY <1>1, <2>3, <2>7, NotUnder
<1> QED BY <1>1, <1>4, <1>9, <1>10, <1>11

\* Without weights in between: how often a sample comes in c draws of its data set.
LEMMA TimesBounded ==
  ASSUME NEW s \in Nat \ {0}, NEW c \in Nat, NEW e \in Nat \ {0}, NEW u \in Nat \ {0},
         NEW q \in Nat, NEW m \in Nat, m < s, c = q * s + m
  PROVE  /\ (c - 1) * u < e * s => q + (IF m = 0 THEN 0 ELSE 1) <= CeilDiv(e, u)
         /\ e * s <= c * u => e \div u <= q
<1>1. ASSUME (c - 1) * u < e * s
      PROVE  q + (IF m = 0 THEN 0 ELSE 1) <= CeilDiv(e, u)
  <2>1. PICK k \in Nat : k = CeilDiv(e, u) /\ e <= k * u
    <3>1. PICK a \in Nat : a = e + u - 1
      OBVIOUS
    <3>2. PICK k \in Nat, r \in Nat : k = a \div u /\ r < u /\ a = k * u + r
      BY DivMod
    <3>3. k * u \in Nat
      OBVIOUS
    <3>4. e <= k * u
      BY <3>1, <3>2, <3>3
    <3> QED BY <3>1, <3>2, <3>4 DEF CeilDiv
  <2>2. c <= k * s
    <3> SUFFICES ASSUME k * s <= c - 1 PROVE FALSE
      <4>1. k * s \in Nat
        OBVIOUS
      <4> QED BY <4>1
    <3>1. k * s * u <= (c - 1) * u
      OBVIOUS
    <3>2. e * s <= k * u * s
      BY <2>1
    <3>3. k * u * s = k * s * u
      OBVIOUS
    <3>4. e * s \in Int /\ (c - 1) * u \in Int /\ k * s * u \in Int
      OBVIOUS
    <3> QED BY <1>1, <3>1, <3>2, <3>3, <3>4
  <2>3. q <= k
    <3> SUFFICES ASSUME k + 1 <= q PROVE FALSE
      OBVIOUS
    <3>1. (k + 1) * s <= q * s /\ (k + 1) * s = k * s + s
      OBVIOUS
    <3>2. k * s \in Nat /\ q * s \in Nat
      OBVIOUS
    <3> QED BY <2>2, <3>1, <3>2
  <2>4. m # 0 => q + 1 <= k
    <3> SUFFICES ASSUME m # 0, q = k PROVE FALSE
      BY <2>3
    <3>1. k * s \in Nat
      OBVIOUS
    <3> QED BY <2>2, <3>1
  <2> QED BY <2>1, <2>3, <2>4
<1>2. ASSUME e * s <= c * u
      PROVE  e \div u <= q
  <2>1. PICK k \in Nat, r \in Nat : k = e \div u /\ e = k * u + r
    BY DivMod
  <2>2. k * u <= e
    <3>1. k * u \in Nat
      OBVIOUS
    <3> QED BY <2>1, <3>1
  <2>3. k * u * s <= c * u
    <3>1. k * u * s <= e * s
      BY <2>2
    <3>2. k * u * s \in Nat /\ e * s \in Nat /\ c * u \in Nat
      OBVIOUS
    <3> QED BY <1>2, <3>1, <3>2
  <2>4. k * s <= c
    <3> SUFFICES ASSUME c + 1 <= k * s PROVE FALSE
      <4>1. k * s \in Nat
        OBVIOUS
      <4> QED BY <4>1
    <3>1. (c + 1) * u <= k * s * u /\ (c + 1) * u = c * u + u
      OBVIOUS
    <3>2. k * s * u = k * u * s /\ c * u \in Nat
      OBVIOUS
    <3> QED BY <2>3, <3>1, <3>2
  <2>5. SUFFICES ASSUME q + 1 <= k PROVE FALSE
    BY <2>1
  <2>6. (q + 1) * s <= k * s /\ (q + 1) * s = q * s + s
    BY <2>5
  <2>7. q * s \in Nat /\ k * s \in Nat
    OBVIOUS
  <2> QED BY <2>4, <2>6, <2>7
<1> QED BY <1>1, <1>2

\* One draw more would have completed a pass, if it is that one which is missing.
LEMMA OneMoreDraw ==
  ASSUME NEW s \in Nat \ {0}, NEW c \in Nat, NEW e \in Nat \ {0}, NEW u \in Nat \ {0},
         NEW q \in Nat, NEW m \in Nat, m < s, c = q * s + m, e * s <= (c + 1) * u
  PROVE  e \div u <= q \/ (e \div u = q + 1 /\ m = s - 1)
<1>1. e \div u \in Nat
  BY DivMod
<1>2. CASE m + 1 < s
  <2>1. m + 1 \in Nat /\ c + 1 \in Nat /\ c + 1 = q * s + (m + 1)
    OBVIOUS
  <2> QED BY <1>2, <2>1, TimesBounded
<1>3. CASE m + 1 = s
  <2>1. c + 1 = (q + 1) * s + 0
    <3>1. (q + 1) * s = q * s + s
      OBVIOUS
    <3>2. q * s \in Nat
      OBVIOUS
    <3> QED BY <1>3, <3>1, <3>2
  <2>2. q + 1 \in Nat /\ 0 \in Nat /\ 0 < s /\ c + 1 \in Nat
    OBVIOUS
  <2>3. e \div u <= q + 1
    BY <2>1, <2>2, TimesBounded
  <2> QED BY <1>1, <1>3, <2>3
<1> QED BY <1>2, <1>3

\* The samples of a data set: those that the present pass has come to were drawn
\* once more.
LEMMA DrawnOf ==
  ASSUME LayoutInv, NEW d \in Datasets, NEW i \in 1 .. SizeOf(d)
  PROVE  \E s \in Nat \ {0}, c \in Nat, e \in Nat \ {0}, u \in Nat \ {0}, q \in Nat, m \in Nat :
           /\ s = SizeOf(d) /\ c = counts[d] /\ e = epochs[d] /\ u = Unit
           /\ m < s /\ c = q * s + m /\ Weight(d) = e * s
           /\ Cardinality(Drawn(d, i)) = q + (IF Passed(d, i) THEN 1 ELSE 0)
           /\ Passed(d, i) <=> \E j \in 1 .. m : order[d][j] = i
<1>1. PICK s \in Nat \ {0}, c \in Nat, e \in Nat \ {0}, u \in Nat \ {0} :
        s = SizeOf(d) /\ c = counts[d] /\ e = epochs[d] /\ u = Unit
  BY Positive, PackedAssumption DEF LayoutInv, OrderTyped, SamplerTyped
<1>2. PICK q \in Nat, m \in Nat : q = c \div s /\ m = c % s /\ m < s /\ c = q * s + m
  BY DivMod
<1>3. Cardinality(Drawn(d, i)) = (counts[d] \div SizeOf(d)) + (IF Passed(d, i) THEN 1 ELSE 0)
  BY DEF LayoutInv, Passes
<1>4. Passed(d, i) <=> \E j \in 1 .. m : order[d][j] = i
  BY <1>1, <1>2 DEF Passed
<1>5. Weight(d) = e * s
  BY <1>1 DEF Weight
<1>6. Cardinality(Drawn(d, i)) = q + (IF Passed(d, i) THEN 1 ELSE 0)
  BY <1>1, <1>2, <1>3
<1> WITNESS s \in Nat \ {0}, c \in Nat, e \in Nat \ {0}, u \in Nat \ {0}, q \in Nat, m \in Nat
<1> QED BY <1>1, <1>2, <1>4, <1>5, <1>6

\* No sample comes too often.
LEMMA NotTooOften ==
  ASSUME LayoutInv, phase # "sample", NEW d \in Datasets, NEW i \in 1 .. SizeOf(d)
  PROVE  Cardinality(Drawn(d, i)) <= CeilDiv(epochs[d], Unit)
<1>1. PICK s \in Nat \ {0}, c \in Nat, e \in Nat \ {0}, u \in Nat \ {0}, q \in Nat, m \in Nat :
        /\ s = SizeOf(d) /\ c = counts[d] /\ e = epochs[d] /\ u = Unit
        /\ m < s /\ c = q * s + m /\ Weight(d) = e * s
        /\ Cardinality(Drawn(d, i)) = q + (IF Passed(d, i) THEN 1 ELSE 0)
        /\ Passed(d, i) <=> \E j \in 1 .. m : order[d][j] = i
  BY DrawnOf
<1>2. (c - 1) * u < e * s
  BY <1>1, NotOver
<1>3. PICK k : k = CeilDiv(e, u)
  OBVIOUS
<1>4. q + (IF m = 0 THEN 0 ELSE 1) <= k
  BY <1>1, <1>2, <1>3, TimesBounded
<1>5. k \in Nat
  <2>1. PICK a \in Nat : a = e + u - 1
    OBVIOUS
  <2>2. a \div u \in Nat
    BY DivMod
  <2> QED BY <1>3, <2>1, <2>2 DEF CeilDiv
<1>6. Passed(d, i) => m # 0
  BY <1>1
<1> QED BY <1>1, <1>3, <1>4, <1>5, <1>6

\* A sample that comes too seldom is the last one of its data set's order, when one
\* draw of that data set is missing.
LEMMA ShortIsLast ==
  ASSUME LayoutInv, phase # "sample",
         \A x \in Datasets : Weight(x) % Unit = 0,
         NEW d \in Datasets, NEW i \in 1 .. SizeOf(d), Short(d, i)
  PROVE  /\ counts[d] * Unit < Weight(d)
         /\ Cardinality(Drawn(d, i)) = (epochs[d] \div Unit) - 1
         /\ order[d][SizeOf(d)] = i
<1>1. PICK s \in Nat \ {0}, c \in Nat, e \in Nat \ {0}, u \in Nat \ {0}, q \in Nat, m \in Nat :
        /\ s = SizeOf(d) /\ c = counts[d] /\ e = epochs[d] /\ u = Unit
        /\ m < s /\ c = q * s + m /\ Weight(d) = e * s
        /\ Cardinality(Drawn(d, i)) = q + (IF Passed(d, i) THEN 1 ELSE 0)
        /\ Passed(d, i) <=> \E j \in 1 .. m : order[d][j] = i
  BY DrawnOf
<1>2. PICK k \in Nat : k = e \div u
  BY DivMod
<1>3. q + (IF Passed(d, i) THEN 1 ELSE 0) < k
  BY <1>1, <1>2 DEF Short
<1>4. c * u < e * s
  <2> SUFFICES ASSUME ~(c * u < e * s) PROVE FALSE
    OBVIOUS
  <2>1. e * s <= c * u
    <3>1. c * u \in Nat /\ e * s \in Nat
      OBVIOUS
    <3> QED BY <3>1
  <2>2. k <= q
    BY <1>1, <1>2, <2>1, TimesBounded
  <2> QED BY <1>3, <2>2
<1>5. e * s <= (c + 1) * u
  <2>1. Weight(d) = (counts[d] + 1) * Unit
    BY <1>1, <1>4, OneMissing
  <2>2. (c + 1) * u \in Nat
    OBVIOUS
  <2> QED BY <1>1, <2>1, <2>2
<1>6. k = q + 1 /\ m = s - 1 /\ ~Passed(d, i)
  <2>1. k <= q \/ (k = q + 1 /\ m = s - 1)
    BY <1>1, <1>2, <1>5, OneMoreDraw
  <2> QED BY <1>3, <2>1
<1>7. order[d][s] = i
  <2>1. order[d] \in Orders(d) /\ SamplerTyped
    BY DEF LayoutInv, OrderTyped
  <2>2. PICK j \in 1 .. s : order[d][j] = i
    <3>1. \A a \in 1 .. SizeOf(d) : \E j \in 1 .. SizeOf(d) : order[d][j] = a
      BY <2>1, OrderIsBijection
    <3> QED BY <1>1, <3>1
  <2>3. j \notin 1 .. m
    BY <1>1, <1>6, <2>2
  <2>4. j = s
    BY <1>6, <2>3
  <2> QED BY <2>2, <2>4
<1> QED BY <1>1, <1>2, <1>4, <1>6, <1>7

\* What the layout promises follows.
LEMMA LayoutHonours == LayoutInv => EpochsHonoured
<1> SUFFICES ASSUME LayoutInv, phase # "sample" PROVE EpochsHonoured
  BY DEF EpochsHonoured
<1>1. ASSUME \A x \in Datasets : Weight(x) % Unit = 0,
             NEW d \in Datasets, NEW i \in 1 .. SizeOf(d), Short(d, i),
             NEW e \in Datasets, NEW j \in 1 .. SizeOf(e), Short(e, j)
      PROVE  e = d /\ j = i
  <2>1. counts[e] * Unit < Weight(e) /\ order[e][SizeOf(e)] = j
    BY <1>1, ShortIsLast
  <2>2. counts[d] * Unit < Weight(d) /\ order[d][SizeOf(d)] = i
    BY <1>1, ShortIsLast
  <2>3. e = d
    BY <1>1, <2>1, <2>2, OneMissing
  <2> QED BY <2>1, <2>2, <2>3
<1>2. ASSUME \A x \in Datasets : Weight(x) % Unit = 0,
             NEW d \in Datasets, NEW i \in 1 .. SizeOf(d), Short(d, i)
      PROVE  ~AllExact /\ Cardinality(Drawn(d, i)) = (epochs[d] \div Unit) - 1
  <2>1. counts[d] * Unit < Weight(d) /\ Cardinality(Drawn(d, i)) = (epochs[d] \div Unit) - 1
    BY <1>2, ShortIsLast
  <2> QED BY <1>2, <2>1, OneMissing
<1> QED BY <1>1, <1>2, NotTooOften DEF EpochsHonoured

\* For any data sets and epochs, however the draws are balanced between data sets
\* and shuffled within them: no sample is scheduled more often than its epochs,
\* rounded up; and, if the weights are whole numbers, all are scheduled as often
\* as their epochs, rounded down, but for one sample that misses one time if int()
\* of a sum of inexact weights makes one draw too few.
THEOREM EpochsHold == Spec => []EpochsHonoured
BY InitLayout, StepLayout, LayoutHonours, PTL DEF Spec
-----------------------------------------------------------------------------
(* Packs.                                                                  *)

\* Pieces are samples, and those looked at are some of them.
PieceTyped ==
  /\ \A n \in DOMAIN pieces : pieces[n][2] \in 1 .. SizeOf(pieces[n][1])
  /\ consumed \in 0 .. Len(pieces)
  /\ ranges \in Seq(Nat \X Nat)
  /\ cur \in [first : Nat, number : Nat, size : Nat]
  /\ phase = "sample" => consumed = 0 /\ cur = NoIds /\ ranges = <<>> /\ droped = 0

\* The packs P are a cut of the first n pieces: each is in one of them unless it
\* is dropped, in the pieces' order.
CutOf(P, n) ==
  /\ \A m \in 0 .. n - 1 : (~Dropped(m)) <=> \E k \in DOMAIN P : m \in Positions(P[k])
  /\ \A k, l \in DOMAIN P : k < l =>
       \A m \in Positions(P[k]), o \in Positions(P[l]) : m < o
  /\ \A k \in DOMAIN P : Positions(P[k]) \subseteq 0 .. n - 1

\* The open pack ends where the next piece is, holds what packed_size says, and
\* is not full.
OpenPack ==
  IF cur.number = 0
  THEN cur = NoIds
  ELSE /\ cur.first + cur.number = consumed
       /\ cur.size = Total(<<cur.first, cur.number>>)
       /\ cur.size <= MaxLength

\* A closed pack is not too large, and had no room for the piece behind it.
ClosedPack(r) ==
  /\ Total(r) <= MaxLength \/ (r[2] = 1 /\ oversize = "extend")
  /\ r[1] + r[2] < Len(pieces) =>
       Total(r) + SampleLen(r[1] + r[2]) > MaxLength \/ Total(r) = MaxLength

DropCount == droped = Cardinality({n \in 0 .. consumed - 1 : Dropped(n)})

PackInv ==
  /\ PieceTyped
  /\ CutOf(Flushed, consumed)
  /\ OpenPack
  /\ \A k \in DOMAIN ranges : ClosedPack(ranges[k])
  /\ DropCount

\* The length of a piece is a number.
LEMMA PieceLength ==
  ASSUME OrderTyped, PieceTyped, NEW n \in Nat, n < Len(pieces)
  PROVE  SampleLen(n) \in Nat
<1>1. PICK k \in Nat : k = n + 1
  OBVIOUS
<1>2. k \in DOMAIN pieces /\ pieces[k] \in Datasets \X Nat
  <2>1. pieces \in Seq(Datasets \X Nat)
    BY DEF OrderTyped
  <2>2. PICK l \in Nat : l = Len(pieces) /\ DOMAIN pieces = 1 .. l
    BY <2>1, LenProperties
  <2>3. k \in 1 .. l
    BY <1>1, <2>2
  <2> QED BY <2>1, <2>2, <2>3, ElementOfSeq
<1>3. PICK d \in Datasets, i \in Nat : pieces[k] = <<d, i>> /\ i \in 1 .. SizeOf(d)
  <2>1. pieces[k][2] \in 1 .. SizeOf(pieces[k][1])
    BY <1>2 DEF PieceTyped
  <2> QED BY <1>2, <2>1
<1>4. lens[d] \in Seq(Nat)
  BY DEF OrderTyped, SamplerTyped
<1>5. lens[d][i] \in Nat
  BY <1>3, <1>4, ElementOfSeq DEF SizeOf
<1> QED BY <1>1, <1>3, <1>5 DEF SampleLen

\* A pack of no piece has no tokens, and one of one piece more that piece's more.
LEMMA TotalMore ==
  ASSUME NEW f \in Nat, NEW k \in Nat, \A n \in f .. f + k : SampleLen(n) \in Nat
  PROVE  /\ Total(<<f, k>>) \in Nat
         /\ Total(<<f, k + 1>>) = Total(<<f, k>>) + SampleLen(f + k)
         /\ Total(<<f, 0>>) = 0
<1> DEFINE I == f .. f + k - 1
           Row(n) == {n} \X (1 .. SampleLen(n))
           F == [n \in I |-> Row(n)]
           R == {Row(n) : n \in I}
<1>1. TokensOf(<<f, k>>) = UNION R
  BY DEF TokensOf, Positions
<1>2. IsFiniteSet(I)
  <2>1. PICK a \in Int, b \in Int : a = f /\ b = f + k - 1
    OBVIOUS
  <2>2. IsFiniteSet(a .. b)
    BY FS_Interval
  <2> QED BY <2>1, <2>2
<1>3. \A n \in f .. f + k : IsFiniteSet(Row(n)) /\ Cardinality(Row(n)) = SampleLen(n)
  <2> SUFFICES ASSUME NEW n \in f .. f + k
               PROVE  IsFiniteSet(Row(n)) /\ Cardinality(Row(n)) = SampleLen(n)
    OBVIOUS
  <2>1. PICK m \in Nat : m = SampleLen(n)
    OBVIOUS
  <2>2. IsFiniteSet(0 + 1 .. 0 + m) /\ Cardinality(0 + 1 .. 0 + m) = m
    BY IntervalSize
  <2>3. 0 + 1 .. 0 + m = 1 .. m
    OBVIOUS
  <2>4. IsFiniteSet({n}) /\ Cardinality({n}) = 1
    BY FS_Singleton
  <2>5. IsFiniteSet({n} \X (1 .. m)) /\ Cardinality({n} \X (1 .. m)) = 1 * m
    BY <2>2, <2>3, <2>4, FS_Product
  <2> QED BY <2>1, <2>5
<1>4. IsFiniteSet(R)
  <2>1. F \in Surjection(I, R)
    BY DEF Surjection
  <2> HIDE DEF I, F, R
  <2> QED BY <1>2, <2>1, FS_Surjection
<1>5. \A r \in R : IsFiniteSet(r)
  <2>1. \A n \in I : n \in f .. f + k
    OBVIOUS
  <2> QED BY <1>3, <2>1
<1>6. IsFiniteSet(UNION R) /\ Cardinality(UNION R) \in Nat
  <2> HIDE DEF R
  <2> QED BY <1>4, <1>5, FS_UNION, FS_CardinalityType
<1>7. TokensOf(<<f, k + 1>>) = (UNION R) \cup Row(f + k)
  <2>1. \A n : n \in f .. f + (k + 1) - 1 <=> n \in I \/ n = f + k
    OBVIOUS
  <2>2. TokensOf(<<f, k + 1>>) = UNION {Row(n) : n \in f .. f + (k + 1) - 1}
    BY DEF TokensOf, Positions
  <2>3. {Row(n) : n \in f .. f + (k + 1) - 1} = R \cup {Row(f + k)}
    <3> HIDE DEF Row, I
    <3> QED BY <2>1
  <2> QED BY <2>2, <2>3
<1>8. (UNION R) \cap Row(f + k) = {}
  <2>1. f + k \notin I
    OBVIOUS
  <2> HIDE DEF I
  <2> QED BY <2>1
<1>9. Cardinality((UNION R) \cup Row(f + k)) = Cardinality(UNION R) + SampleLen(f + k)
  <2>1. IsFiniteSet(Row(f + k)) /\ Cardinality(Row(f + k)) = SampleLen(f + k)
    BY <1>3
  <2>2. SampleLen(f + k) \in Nat
    OBVIOUS
  <2> HIDE DEF R, Row
  <2>3. Cardinality((UNION R) \cup Row(f + k))
          = Cardinality(UNION R) + Cardinality(Row(f + k)) - Cardinality((UNION R) \cap Row(f + k))
    BY <1>6, <2>1, FS_Union
  <2>4. Cardinality((UNION R) \cap Row(f + k)) = 0
    BY <1>8, FS_EmptySet
  <2> QED BY <1>6, <2>1, <2>2, <2>3, <2>4
<1>10. Total(<<f, 0>>) = 0
  <2>1. TokensOf(<<f, 0>>) = {}
    BY DEF TokensOf, Positions
  <2> QED BY <2>1, FS_EmptySet DEF Total
<1> HIDE DEF R, Row
<1> QED BY <1>1, <1>6, <1>7, <1>9, <1>10 DEF Total

\* A pack of one piece is begun behind the others, ...
LEMMA CutBegins ==
  ASSUME NEW P \in Seq(Nat \X Nat), NEW n \in Nat, CutOf(P, n), ~Dropped(n)
  PROVE  CutOf(Append(P, <<n, 1>>), n + 1)
<1>1. PICK l \in Nat : l = Len(P) /\ DOMAIN P = 1 .. l
  BY LenProperties
<1>2. PICK Q : Q = Append(P, <<n, 1>>)
  OBVIOUS
<1>3. /\ DOMAIN Q = 1 .. l + 1 /\ Q[l + 1] = <<n, 1>>
      /\ \A k \in 1 .. l : Q[k] = P[k]
  <2>1. /\ Append(P, <<n, 1>>) \in Seq(Nat \X Nat) /\ Len(Append(P, <<n, 1>>)) = l + 1
        /\ Append(P, <<n, 1>>)[l + 1] = <<n, 1>>
        /\ \A k \in 1 .. l : Append(P, <<n, 1>>)[k] = P[k]
    BY <1>1, AppendProperties
  <2> QED BY <1>2, <2>1, LenProperties
<1>4. Positions(<<n, 1>>) = {n}
  BY DEF Positions
<1>5. \A k \in 1 .. l + 1 : k \in 1 .. l \/ k = l + 1
  OBVIOUS
<1>6. \A m \in 0 .. n - 1 : m \in Nat /\ m < n /\ m \in 0 .. (n + 1) - 1
  OBVIOUS
<1>7. \A m \in 0 .. (n + 1) - 1 : m \in 0 .. n - 1 \/ m = n
  OBVIOUS
<1>8. \A k \in 1 .. l : Positions(Q[k]) \subseteq 0 .. n - 1
  BY <1>1, <1>3 DEF CutOf
<1>9. ASSUME NEW k \in 1 .. l + 1, NEW m \in Positions(Q[k])
      PROVE  m \in 0 .. (n + 1) - 1
  <2>1. n \in 0 .. (n + 1) - 1
    OBVIOUS
  <2>2. CASE k \in 1 .. l
    <3>1. m \in 0 .. n - 1
      BY <1>8, <1>9, <2>2
    <3> QED BY <1>6, <3>1
  <2>3. CASE k = l + 1
    <3>1. m = n
      BY <1>3, <1>4, <1>9, <2>3
    <3> QED BY <2>1, <3>1
  <2> QED BY <1>5, <2>2, <2>3
<1>10. ASSUME NEW m \in 0 .. (n + 1) - 1
       PROVE  (~Dropped(m)) <=> \E k \in 1 .. l + 1 : m \in Positions(Q[k])
  <2>1. CASE m = n
    BY <1>3, <1>4, <2>1
  <2>2. CASE m \in 0 .. n - 1
    <3>1. (~Dropped(m)) <=> \E k \in 1 .. l : m \in Positions(Q[k])
      BY <1>1, <1>3, <2>2 DEF CutOf
    <3>2. m \notin Positions(Q[l + 1])
      BY <1>3, <1>4, <1>6, <2>2
    <3> QED BY <1>5, <3>1, <3>2
  <2> QED BY <1>7, <2>1, <2>2
<1>11. ASSUME NEW k \in 1 .. l + 1, NEW j \in 1 .. l + 1, k < j,
              NEW m \in Positions(Q[k]), NEW o \in Positions(Q[j])
       PROVE  m < o
  <2>1. k \in 1 .. l /\ m \in 0 .. n - 1
    BY <1>8, <1>11
  <2>2. CASE j = l + 1
    BY <1>3, <1>4, <1>6, <2>1, <2>2
  <2>3. CASE j \in 1 .. l
    BY <1>1, <1>3, <1>11, <2>1, <2>3 DEF CutOf
  <2> QED BY <1>5, <2>2, <2>3
<1> QED BY <1>2, <1>3, <1>9, <1>10, <1>11 DEF CutOf

\* ... the last pack takes the next piece, ...
LEMMA CutWidens ==
  ASSUME NEW P \in Seq(Nat \X Nat), NEW f \in Nat, NEW a \in Nat \ {0}, NEW n \in Nat,
         f + a = n, CutOf(Append(P, <<f, a>>), n), ~Dropped(n)
  PROVE  CutOf(Append(P, <<f, a + 1>>), n + 1)
<1>1. PICK l \in Nat : l = Len(P) /\ DOMAIN P = 1 .. l
  BY LenProperties
<1>2. PICK O, Q : O = Append(P, <<f, a>>) /\ Q = Append(P, <<f, a + 1>>)
  OBVIOUS
<1>3. /\ DOMAIN Q = 1 .. l + 1 /\ Q[l + 1] = <<f, a + 1>>
      /\ DOMAIN O = 1 .. l + 1 /\ O[l + 1] = <<f, a>>
      /\ \A k \in 1 .. l : Q[k] = O[k]
  <2>1. \A b \in Nat :
          /\ Append(P, <<f, b>>) \in Seq(Nat \X Nat) /\ Len(Append(P, <<f, b>>)) = l + 1
          /\ Append(P, <<f, b>>)[l + 1] = <<f, b>>
          /\ \A k \in 1 .. l : Append(P, <<f, b>>)[k] = P[k]
    BY <1>1, AppendProperties
  <2>2. a \in Nat /\ a + 1 \in Nat
    OBVIOUS
  <2> QED BY <1>2, <2>1, <2>2, LenProperties
<1>4. /\ \A m : m \in Positions(<<f, a + 1>>) <=> m \in Positions(<<f, a>>) \/ m = n
      /\ f \in Positions(<<f, a>>) /\ f <= n
  BY DEF Positions
<1>5. \A k \in 1 .. l + 1 : k \in 1 .. l \/ k = l + 1
  OBVIOUS
<1>6. \A m \in 0 .. n - 1 : m \in Nat /\ m < n /\ m \in 0 .. (n + 1) - 1
  OBVIOUS
<1>7. \A m \in 0 .. (n + 1) - 1 : m \in 0 .. n - 1 \/ m = n
  OBVIOUS
<1>8. \A k \in 1 .. l + 1 : Positions(O[k]) \subseteq 0 .. n - 1
  BY <1>2, <1>3 DEF CutOf
<1>9. ASSUME NEW k \in 1 .. l + 1, NEW m \in Positions(Q[k])
      PROVE  m \in 0 .. (n + 1) - 1
  <2>1. n \in 0 .. (n + 1) - 1
    OBVIOUS
  <2>2. m \in Positions(O[k]) \/ m = n
    <3>1. CASE k \in 1 .. l
      BY <1>3, <1>9, <3>1
    <3>2. CASE k = l + 1
      <4>1. m \in Positions(<<f, a + 1>>)
        BY <1>3, <1>9, <3>2
      <4> QED BY <1>3, <1>4, <3>2, <4>1
    <3> QED BY <1>5, <3>1, <3>2
  <2>3. CASE m \in Positions(O[k])
    <3>1. m \in 0 .. n - 1
      BY <1>8, <2>3
    <3> QED BY <1>6, <3>1
  <2> QED BY <2>1, <2>2, <2>3
<1>10. ASSUME NEW m \in 0 .. (n + 1) - 1
       PROVE  (~Dropped(m)) <=> \E k \in 1 .. l + 1 : m \in Positions(Q[k])
  <2>1. CASE m = n
    <3>1. l + 1 \in 1 .. l + 1 /\ n \in Positions(Q[l + 1])
      BY <1>3, <1>4
    <3> QED BY <2>1, <3>1
  <2>2. CASE m \in 0 .. n - 1
    <3>1. (~Dropped(m)) <=> \E k \in 1 .. l + 1 : m \in Positions(O[k])
      BY <1>2, <1>3, <2>2 DEF CutOf
    <3>2. m # n
      BY <1>6, <2>2
    <3> QED BY <1>3, <1>4, <1>5, <3>1, <3>2
  <2> QED BY <1>7, <2>1, <2>2
<1>11. ASSUME NEW k \in 1 .. l + 1, NEW j \in 1 .. l + 1, k < j,
              NEW m \in Positions(Q[k]), NEW o \in Positions(Q[j])
       PROVE  m < o
  <2>1. k \in 1 .. l /\ m \in Positions(O[k]) /\ m \in 0 .. n - 1
    BY <1>3, <1>8, <1>11
  <2>2. CASE o = n
    BY <1>6, <2>1, <2>2
  <2>3. CASE o # n
    <3>1. o \in Positions(O[j])
      BY <1>3, <1>4, <1>5, <2>3
    <3> QED BY <1>2, <1>3, <1>11, <2>1, <3>1 DEF CutOf
  <2> QED BY <2>2, <2>3
<1> QED BY <1>2, <1>3, <1>9, <1>10, <1>11 DEF CutOf

\* ... or a piece that is dropped is in none.
LEMMA CutSkips ==
  ASSUME NEW P \in Seq(Nat \X Nat), NEW n \in Nat, CutOf(P, n), Dropped(n)
  PROVE  CutOf(P, n + 1)
<1>1. \A m \in 0 .. n - 1 : m \in 0 .. (n + 1) - 1 /\ m # n
  OBVIOUS
<1>2. \A m \in 0 .. (n + 1) - 1 : m \in 0 .. n - 1 \/ m = n
  OBVIOUS
<1> QED BY <1>1, <1>2 DEF CutOf

\* A pack without pieces changes nothing.
LEMMA CutNoPack ==
  ASSUME NEW P \in Seq(Nat \X Nat), NEW n \in Nat, CutOf(P, n)
  PROVE  CutOf(Append(P, <<0, 0>>), n)
<1>1. PICK l \in Nat : l = Len(P) /\ DOMAIN P = 1 .. l
  BY LenProperties
<1>2. PICK Q : Q = Append(P, <<0, 0>>)
  OBVIOUS
<1>3. /\ DOMAIN Q = 1 .. l + 1 /\ Q[l + 1] = <<0, 0>>
      /\ \A k \in 1 .. l : Q[k] = P[k]
  <2>1. /\ Append(P, <<0, 0>>) \in Seq(Nat \X Nat) /\ Len(Append(P, <<0, 0>>)) = l + 1
        /\ Append(P, <<0, 0>>)[l + 1] = <<0, 0>>
        /\ \A k \in 1 .. l : Append(P, <<0, 0>>)[k] = P[k]
    BY <1>1, AppendProperties
  <2> QED BY <1>2, <2>1, LenProperties
<1>4. Positions(<<0, 0>>) = {}
  BY DEF Positions
<1>5. \A k \in 1 .. l + 1 : k \in 1 .. l \/ k = l + 1
  OBVIOUS
<1>6. \A k \in 1 .. l : k \in 1 .. l + 1
  OBVIOUS
<1>7. \A k \in 1 .. l + 1 : Positions(Q[k]) # {} => k \in 1 .. l /\ Q[k] = P[k]
  BY <1>3, <1>4, <1>5
<1>8. \A m \in 0 .. n - 1 : (~Dropped(m)) <=> \E k \in 1 .. l + 1 : m \in Positions(Q[k])
  BY <1>1, <1>3, <1>6, <1>7 DEF CutOf
<1>9. \A k, j \in 1 .. l + 1 : k < j =>
        \A m \in Positions(Q[k]), o \in Positions(Q[j]) : m < o
  BY <1>1, <1>7 DEF CutOf
<1>10. \A k \in 1 .. l + 1 : Positions(Q[k]) \subseteq 0 .. n - 1
  BY <1>1, <1>7 DEF CutOf
<1> QED BY <1>2, <1>3, <1>8, <1>9, <1>10 DEF CutOf

\* One closed pack more.
LEMMA ClosedMore ==
  ASSUME NEW P \in Seq(Nat \X Nat), \A k \in DOMAIN P : ClosedPack(P[k]),
         NEW r \in Nat \X Nat, ClosedPack(r)
  PROVE  /\ Append(P, r) \in Seq(Nat \X Nat)
         /\ \A k \in DOMAIN Append(P, r) : ClosedPack(Append(P, r)[k])
<1>1. PICK l \in Nat : l = Len(P) /\ DOMAIN P = 1 .. l
  BY LenProperties
<1>2. /\ Append(P, r) \in Seq(Nat \X Nat) /\ Len(Append(P, r)) = l + 1
      /\ Append(P, r)[l + 1] = r
      /\ \A k \in 1 .. l : Append(P, r)[k] = P[k]
  BY <1>1, AppendProperties
<1>3. DOMAIN Append(P, r) = 1 .. l + 1
  BY <1>2, LenProperties
<1>4. \A k \in 1 .. l + 1 : k \in 1 .. l \/ k = l + 1
  OBVIOUS
<1>5. ASSUME NEW k \in 1 .. l + 1 PROVE ClosedPack(Append(P, r)[k])
  <2>1. CASE k = l + 1
    BY <1>2, <2>1
  <2>2. CASE k \in 1 .. l
    BY <1>1, <1>2, <2>2
  <2> QED BY <1>4, <2>1, <2>2
<1> QED BY <1>2, <1>3, <1>5

\* flush() closes the open pack, when no piece is left or the next does not fit.
LEMMA FlushCloses ==
  ASSUME OrderTyped, PieceTyped, OpenPack, \A k \in DOMAIN ranges : ClosedPack(ranges[k]),
         consumed < Len(pieces) => ~Fits(consumed)
  PROVE  Flushed \in Seq(Nat \X Nat) /\ \A k \in DOMAIN Flushed : ClosedPack(Flushed[k])
<1>1. CASE cur.number = 0
  BY <1>1 DEF Flushed, PieceTyped
<1>2. CASE cur.number # 0
  <2>1. PICK f \in Nat, a \in Nat, s \in Nat : f = cur.first /\ a = cur.number /\ s = cur.size
    BY DEF PieceTyped
  <2>2. PICK r \in Nat \X Nat : r = <<f, a>>
    OBVIOUS
  <2>3. f + a = consumed /\ Total(r) = s /\ s <= MaxLength
    BY <1>2, <2>1, <2>2 DEF OpenPack
  <2>4. consumed \in Nat
    BY DEF PieceTyped
  <2>5. consumed < Len(pieces) => s + SampleLen(consumed) > MaxLength
    <3> SUFFICES ASSUME consumed < Len(pieces) PROVE s + SampleLen(consumed) > MaxLength
      OBVIOUS
    <3>1. PICK z \in Nat : z = SampleLen(consumed)
      BY <2>4, PieceLength
    <3>2. ~(s + z <= MaxLength)
      BY <2>1, <3>1 DEF Fits
    <3> QED BY <3>1, <3>2, PackedAssumption
  <2>6. ClosedPack(r)
    BY <2>2, <2>3, <2>5 DEF ClosedPack
  <2>7. ranges \in Seq(Nat \X Nat) /\ Flushed = Append(ranges, r)
    BY <1>2, <2>1, <2>2 DEF PieceTyped, Flushed
  <2> QED BY <2>6, <2>7, ClosedMore
<1> QED BY <1>1, <1>2

\* pack() changes no piece, so what it says of them stays as it was.
LEMMA SamePieces ==
  ASSUME UNCHANGED <<config, pieces>>
  PROVE  /\ \A n : SampleLen(n)' = SampleLen(n) /\ (Dropped(n)' <=> Dropped(n))
         /\ \A r : Total(r)' = Total(r) /\ (ClosedPack(r)' <=> ClosedPack(r))
<1>1. lens' = lens /\ oversize' = oversize /\ pieces' = pieces
  BY DEF config
<1>2. \A n : SampleLen(n)' = SampleLen(n)
  BY <1>1 DEF SampleLen
<1>3. \A n : Dropped(n)' <=> Dropped(n)
  BY <1>1 DEF Dropped, SampleLen
<1>4. \A r : Total(r)' = Total(r)
  BY <1>1 DEF Total, TokensOf, Positions, SampleLen
<1>5. \A r : ClosedPack(r)' <=> ClosedPack(r)
  BY <1>1 DEF ClosedPack, Total, TokensOf, Positions, SampleLen
<1> QED BY <1>2, <1>3, <1>4, <1>5

\* What a step of pack() has to show.
LEMMA PackedSo ==
  ASSUME UNCHANGED <<config, pieces>>, PieceTyped',
         NEW P, P = Flushed', NEW R, R = ranges', NEW n, n = consumed',
         CutOf(P, n), OpenPack', \A k \in DOMAIN R : ClosedPack(R[k]),
         droped' = Cardinality({m \in 0 .. n - 1 : Dropped(m)})
  PROVE  PackInv'
<1>1. CutOf(Flushed, consumed)'
  <2>1. \A m : Dropped(m)' <=> Dropped(m)
    BY SamePieces
  <2> QED BY <2>1 DEF CutOf, Positions
<1>2. (\A k \in DOMAIN ranges : ClosedPack(ranges[k]))'
  BY SamePieces
<1>3. DropCount'
  <2>1. \A m : Dropped(m)' <=> Dropped(m)
    BY SamePieces
  <2>2. {m \in 0 .. n - 1 : Dropped(m)} = {m \in 0 .. consumed' - 1 : Dropped(m)'}
    BY <2>1
  <2> QED BY <2>2 DEF DropCount
<1> QED BY <1>1, <1>2, <1>3 DEF PackInv

\* The number of pieces dropped, one piece on.
LEMMA DropsOnce ==
  ASSUME NEW n \in Nat
  PROVE  LET D == {m \in 0 .. n - 1 : Dropped(m)}
             E == {m \in 0 .. (n + 1) - 1 : Dropped(m)}
         IN Cardinality(D) \in Nat
            /\ Cardinality(E) = Cardinality(D) + (IF Dropped(n) THEN 1 ELSE 0)
<1> DEFINE D == {m \in 0 .. n - 1 : Dropped(m)}
           E == {m \in 0 .. (n + 1) - 1 : Dropped(m)}
<1>1. IsFiniteSet(D) /\ Cardinality(D) \in Nat
  <2>1. PICK a \in Int, b \in Int : a = 0 /\ b = n - 1
    OBVIOUS
  <2>2. IsFiniteSet(a .. b)
    BY FS_Interval
  <2>3. D \subseteq a .. b
    BY <2>1
  <2> HIDE DEF D
  <2> QED BY <2>2, <2>3, FS_Subset, FS_CardinalityType
<1>2. n \notin D /\ \A m : m \in 0 .. (n + 1) - 1 <=> m \in 0 .. n - 1 \/ m = n
  OBVIOUS
<1>3. CASE Dropped(n)
  <2>1. E = D \cup {n}
    BY <1>2, <1>3
  <2> HIDE DEF D, E
  <2>2. Cardinality(E) = Cardinality(D) + 1
    BY <1>1, <1>2, <2>1, FS_AddElement
  <2> QED BY <1>1, <1>3, <2>2 DEF D, E
<1>4. CASE ~Dropped(n)
  <2>1. E = D
    BY <1>2, <1>4
  <2> HIDE DEF D, E
  <2> QED BY <1>1, <1>4, <2>1 DEF D, E
<1> QED BY <1>3, <1>4

\* The types, one step of pack() on.
LEMMA PackTypes ==
  ASSUME PieceTyped, UNCHANGED <<config, pieces>>, phase' # "sample",
         consumed' \in 0 .. Len(pieces), ranges' \in Seq(Nat \X Nat),
         cur' \in [first : Nat, number : Nat, size : Nat]
  PROVE  PieceTyped'
BY DEF PieceTyped, config, SizeOf

\* A piece that fits is in the open pack, which is closed when it is full.
LEMMA FitsPacked == OrderTyped /\ PackInv /\ PackFits => PackInv'
<1> SUFFICES ASSUME OrderTyped, PackInv, PackFits PROVE PackInv'
  OBVIOUS
<1>1. /\ PieceTyped /\ CutOf(Flushed, consumed) /\ OpenPack /\ DropCount
      /\ \A k \in DOMAIN ranges : ClosedPack(ranges[k])
      /\ UNCHANGED <<config, pieces>> /\ phase' = "pack" /\ droped' = droped
  BY DEF PackInv, PackFits, Packing
<1>2. PICK c \in Nat, L \in Nat :
        /\ c = consumed /\ L = SampleLen(c) /\ c < Len(pieces) /\ consumed' = c + 1
        /\ c + 1 \in 0 .. Len(pieces)
  <2>1. pieces \in Seq(Datasets \X Nat) /\ Len(pieces) \in Nat
    BY LenProperties DEF OrderTyped
  <2>2. consumed \in Nat /\ consumed < Len(pieces) /\ consumed' = consumed + 1
    BY <1>1 DEF PackFits, Packing, PieceTyped
  <2>3. SampleLen(consumed) \in Nat
    BY <1>1, <2>2, PieceLength
  <2> QED BY <2>1, <2>2, <2>3
<1>3. PICK f0 \in Nat, a0 \in Nat, s \in Nat : cur = [first |-> f0, number |-> a0, size |-> s]
  BY <1>1 DEF PieceTyped
<1>4. s + L <= MaxLength /\ L <= MaxLength
  <2>1. s + L <= MaxLength
    BY <1>2, <1>3 DEF PackFits, Fits
  <2> QED BY <2>1, PackedAssumption
<1>5. ~Dropped(c)
  BY <1>2, <1>4, PackedAssumption DEF Dropped
<1>6. ranges \in Seq(Nat \X Nat)
  BY <1>1 DEF PieceTyped
<1>7. \E f \in Nat, a \in Nat :
        /\ [first |-> IF cur.number = 0 THEN consumed ELSE cur.first,
            number |-> cur.number + 1, size |-> cur.size + SampleLen(consumed)]
             = [first |-> f, number |-> a + 1, size |-> s + L]
        /\ f + (a + 1) = c + 1
        /\ Total(<<f, a + 1>>) = s + L
        /\ CutOf(Append(ranges, <<f, a + 1>>), c + 1)
  <2>1. CASE a0 = 0
    <3>1. s = 0 /\ Flushed = ranges
      BY <1>1, <1>3, <2>1 DEF OpenPack, NoIds, Flushed
    <3>2. CutOf(Append(ranges, <<c, 1>>), c + 1)
      BY <1>1, <1>2, <1>5, <1>6, <3>1, CutBegins
    <3>3. Total(<<c, 0 + 1>>) = L
      <4>1. 0 \in Nat /\ \A n \in c .. c + 0 : SampleLen(n) \in Nat
        BY <1>2
      <4>2. Total(<<c, 0 + 1>>) = Total(<<c, 0>>) + SampleLen(c + 0) /\ Total(<<c, 0>>) = 0
        BY <4>1, TotalMore
      <4> QED BY <1>2, <4>2
    <3>4. 0 \in Nat /\ 0 + 1 = 1 /\ c + (0 + 1) = c + 1
      OBVIOUS
    <3>5. [first |-> IF cur.number = 0 THEN consumed ELSE cur.first,
           number |-> cur.number + 1, size |-> cur.size + SampleLen(consumed)]
             = [first |-> c, number |-> 0 + 1, size |-> s + L]
      BY <1>2, <1>3, <2>1
    <3>6. s + L = L
      BY <3>1
    <3>7. <<c, 0 + 1>> = <<c, 1>>
      BY <3>4
    <3> QED BY <3>2, <3>3, <3>4, <3>5, <3>6, <3>7
  <2>2. CASE a0 # 0
    <3>1. /\ f0 + a0 = c /\ s = Total(<<f0, a0>>)
          /\ Flushed = Append(ranges, <<f0, a0>>)
      BY <1>1, <1>2, <1>3, <2>2 DEF OpenPack, Flushed
    <3>2. CutOf(Append(ranges, <<f0, a0 + 1>>), c + 1)
      BY <1>1, <1>2, <1>5, <1>6, <2>2, <3>1, CutWidens
    <3>3. Total(<<f0, a0 + 1>>) = s + L
      <4>1. \A n \in f0 .. f0 + a0 : n \in Nat /\ n <= c
        BY <3>1
      <4>2. pieces \in Seq(Datasets \X Nat) /\ Len(pieces) \in Nat
        BY LenProperties DEF OrderTyped
      <4>3. ASSUME NEW n \in f0 .. f0 + a0 PROVE n \in Nat /\ n < Len(pieces)
        <5>1. PICK l \in Nat : l = Len(pieces)
          BY <4>2
        <5>2. n \in Nat /\ n <= c /\ c < l
          BY <1>2, <4>1, <5>1
        <5> QED BY <5>1, <5>2
      <4>4. \A n \in f0 .. f0 + a0 : SampleLen(n) \in Nat
        BY <1>1, <4>3, PieceLength
      <4>5. Total(<<f0, a0 + 1>>) = Total(<<f0, a0>>) + SampleLen(f0 + a0)
        BY <4>4, TotalMore
      <4> QED BY <1>2, <3>1, <4>5
    <3>4. [first |-> IF cur.number = 0 THEN consumed ELSE cur.first,
           number |-> cur.number + 1, size |-> cur.size + SampleLen(consumed)]
             = [first |-> f0, number |-> a0 + 1, size |-> s + L]
      BY <1>2, <1>3, <2>2
    <3>5. f0 + (a0 + 1) = c + 1
      BY <3>1
    <3> QED BY <3>2, <3>3, <3>4, <3>5
  <2> QED BY <2>1, <2>2
<1>8. PICK f \in Nat, a \in Nat :
        /\ AddTo([first |-> f, number |-> a + 1, size |-> s + L])
        /\ f + (a + 1) = c + 1
        /\ Total(<<f, a + 1>>) = s + L
        /\ CutOf(Append(ranges, <<f, a + 1>>), c + 1)
  BY <1>7 DEF PackFits
<1>9. PICK ids \in [first : Nat, number : Nat, size : Nat], r \in Nat \X Nat :
        /\ ids = [first |-> f, number |-> a + 1, size |-> s + L]
        /\ r = <<f, a + 1>>
  <2>1. a + 1 \in Nat /\ s + L \in Nat
    OBVIOUS
  <2>2. [first |-> f, number |-> a + 1, size |-> s + L]
          \in [first : Nat, number : Nat, size : Nat]
    BY <2>1
  <2>3. <<f, a + 1>> \in Nat \X Nat
    BY <2>1
  <2> QED BY <2>2, <2>3
<1>10. ids.number # 0 /\ ids.first = f /\ ids.number = a + 1 /\ ids.size = s + L
  BY <1>9
<1>11. droped' = Cardinality({m \in 0 .. (c + 1) - 1 : Dropped(m)})
  <2>1. droped = Cardinality({m \in 0 .. c - 1 : Dropped(m)})
    BY <1>1, <1>2 DEF DropCount
  <2> QED BY <1>1, <1>5, <2>1, DropsOnce
<1>12. CASE s + L = MaxLength
  <2>1. cur' = NoIds /\ ranges' = Append(ranges, r)
    BY <1>8, <1>9, <1>10, <1>12 DEF AddTo
  <2>2. ClosedPack(r)
    BY <1>4, <1>8, <1>9, <1>12, PackedAssumption DEF ClosedPack
  <2>3. /\ Append(ranges, r) \in Seq(Nat \X Nat)
        /\ \A k \in DOMAIN Append(ranges, r) : ClosedPack(Append(ranges, r)[k])
    BY <1>1, <1>6, <2>2, ClosedMore
  <2>4. Flushed' = Append(ranges, r) /\ OpenPack'
    BY <2>1 DEF Flushed, OpenPack, NoIds
  <2>5. PieceTyped'
    BY <1>1, <1>2, <2>1, <2>3, PackTypes DEF NoIds
  <2>6. PICK P : P = Append(ranges, r)
    OBVIOUS
  <2> QED BY <1>1, <1>2, <1>8, <1>9, <1>11, <2>1, <2>3, <2>4, <2>5, <2>6, PackedSo
<1>13. CASE s + L # MaxLength
  <2>1. cur' = ids /\ ranges' = ranges
    BY <1>8, <1>9, <1>10, <1>13 DEF AddTo
  <2>2. Flushed' = Append(ranges, r)
    BY <1>9, <1>10, <2>1 DEF Flushed
  <2>3. OpenPack'
    <3>1. Total(<<cur.first, cur.number>>)' = Total(<<f, a + 1>>)
      <4>1. <<cur'.first, cur'.number>> = r
        BY <1>9, <1>10, <2>1
      <4>2. \A n : SampleLen(n)' = SampleLen(n)
        BY <1>1, SamePieces
      <4>3. Positions(<<cur.first, cur.number>>)' = Positions(r)
        BY <4>1 DEF Positions
      <4>4. TokensOf(<<cur.first, cur.number>>)' = TokensOf(r)
        BY <4>2, <4>3 DEF TokensOf
      <4> QED BY <1>9, <4>4 DEF Total
    <3> QED BY <1>2, <1>4, <1>8, <1>10, <2>1, <3>1 DEF OpenPack
  <2>4. PieceTyped'
    BY <1>1, <1>2, <1>6, <2>1, PackTypes
  <2>5. PICK P : P = Append(ranges, r)
    OBVIOUS
  <2> QED BY <1>1, <1>2, <1>8, <1>9, <1>11, <2>1, <2>2, <2>3, <2>4, <2>5, PackedSo
<1> QED BY <1>12, <1>13

\* flush() leaves no pack open.
LEMMA FlushPacked == OrderTyped /\ PackInv /\ (PackPutBack \/ PackEnd) => PackInv'
<1> SUFFICES ASSUME OrderTyped, PackInv, PackPutBack \/ PackEnd PROVE PackInv'
  OBVIOUS
<1>1. /\ PieceTyped /\ CutOf(Flushed, consumed) /\ OpenPack /\ DropCount
      /\ \A k \in DOMAIN ranges : ClosedPack(ranges[k])
      /\ UNCHANGED <<config, pieces>> /\ phase' # "sample"
      /\ droped' = droped /\ consumed' = consumed
      /\ ranges' = Flushed /\ cur' = NoIds
  BY DEF PackInv, PackPutBack, PackEnd, Packing
<1>2. consumed < Len(pieces) => ~Fits(consumed)
  BY DEF PackPutBack, PackEnd
<1>3. PICK P \in Seq(Nat \X Nat) : P = Flushed /\ \A k \in DOMAIN P : ClosedPack(P[k])
  BY <1>1, <1>2, FlushCloses
<1>4. Flushed' = P /\ OpenPack'
  BY <1>1, <1>3 DEF Flushed, OpenPack, NoIds
<1>5. PieceTyped'
  <2>1. consumed' \in 0 .. Len(pieces)
    BY <1>1 DEF PieceTyped
  <2> QED BY <1>1, <1>3, <2>1, PackTypes DEF NoIds
<1>6. PICK n : n = consumed
  OBVIOUS
<1>7. droped' = Cardinality({m \in 0 .. n - 1 : Dropped(m)})
  BY <1>1, <1>6 DEF DropCount
<1> QED BY <1>1, <1>3, <1>4, <1>5, <1>6, <1>7, PackedSo

\* What does not fit into any pack is one of its own, ...
LEMMA ExtendPacked == OrderTyped /\ PackInv /\ PackExtend => PackInv'
<1> SUFFICES ASSUME OrderTyped, PackInv, PackExtend PROVE PackInv'
  OBVIOUS
<1>1. /\ PieceTyped /\ CutOf(Flushed, consumed) /\ OpenPack /\ DropCount
      /\ \A k \in DOMAIN ranges : ClosedPack(ranges[k])
      /\ UNCHANGED <<config, pieces>> /\ phase' = "pack" /\ droped' = droped
      /\ ranges' = Append(Flushed, <<consumed, 1>>) /\ cur' = NoIds
      /\ oversize = "extend"
  BY DEF PackInv, PackExtend, Packing
<1>2. PICK c \in Nat, L \in Nat :
        /\ c = consumed /\ L = SampleLen(c) /\ c < Len(pieces) /\ consumed' = c + 1
        /\ c + 1 \in 0 .. Len(pieces) /\ L > MaxLength
  <2>1. pieces \in Seq(Datasets \X Nat) /\ Len(pieces) \in Nat
    BY LenProperties DEF OrderTyped
  <2>2. /\ consumed \in Nat /\ consumed < Len(pieces) /\ consumed' = consumed + 1
        /\ SampleLen(consumed) > MaxLength
    BY <1>1 DEF PackExtend, Packing, PieceTyped
  <2>3. SampleLen(consumed) \in Nat
    BY <1>1, <2>2, PieceLength
  <2> QED BY <2>1, <2>2, <2>3
<1>3. ~Fits(consumed)
  <2>1. PICK s \in Nat : s = cur.size
    BY <1>1 DEF PieceTyped
  <2> QED BY <1>2, <2>1, PackedAssumption DEF Fits
<1>4. PICK P \in Seq(Nat \X Nat) : P = Flushed /\ \A k \in DOMAIN P : ClosedPack(P[k])
  BY <1>1, <1>3, FlushCloses
<1>5. PICK r \in Nat \X Nat : r = <<c, 1>>
  OBVIOUS
<1>6. Total(<<c, 1>>) = L
  <2>1. 0 \in Nat /\ \A n \in c .. c + 0 : SampleLen(n) \in Nat
    BY <1>2
  <2>2. Total(<<c, 0 + 1>>) = Total(<<c, 0>>) + SampleLen(c + 0) /\ Total(<<c, 0>>) = 0
    BY <2>1, TotalMore
  <2>3. 0 + 1 = 1 /\ c + 0 = c
    OBVIOUS
  <2> QED BY <1>2, <2>2, <2>3
<1>7. ClosedPack(r)
  <2>1. c + 1 < Len(pieces) => SampleLen(c + 1) \in Nat
    BY <1>1, PieceLength
  <2>2. c + 1 < Len(pieces) => L + SampleLen(c + 1) > MaxLength
    BY <1>2, <2>1, PackedAssumption
  <2> QED BY <1>1, <1>5, <1>6, <2>2 DEF ClosedPack
<1>8. PICK Q \in Seq(Nat \X Nat) :
        Q = Append(P, r) /\ \A k \in DOMAIN Q : ClosedPack(Q[k])
  BY <1>4, <1>5, <1>7, ClosedMore
<1>9. ranges' = Q /\ Flushed' = Q /\ OpenPack'
  BY <1>1, <1>2, <1>4, <1>5, <1>8 DEF Flushed, OpenPack, NoIds
<1>10. ~Dropped(c)
  BY <1>1 DEF Dropped
<1>11. CutOf(Q, c + 1)
  BY <1>1, <1>2, <1>4, <1>5, <1>8, <1>10, CutBegins
<1>12. droped' = Cardinality({m \in 0 .. (c + 1) - 1 : Dropped(m)})
  <2>1. droped = Cardinality({m \in 0 .. c - 1 : Dropped(m)})
    BY <1>1, <1>2 DEF DropCount
  <2>2. LET D == {m \in 0 .. c - 1 : Dropped(m)}
            E == {m \in 0 .. (c + 1) - 1 : Dropped(m)}
        IN Cardinality(D) \in Nat
           /\ Cardinality(E) = Cardinality(D) + (IF Dropped(c) THEN 1 ELSE 0)
    BY DropsOnce
  <2> QED BY <1>1, <1>10, <2>1, <2>2
<1>13. PieceTyped'
  BY <1>1, <1>2, <1>8, <1>9, PackTypes DEF NoIds
<1> QED BY <1>1, <1>2, <1>8, <1>9, <1>11, <1>12, <1>13, PackedSo

\* ... or dropped, behind a pack that was closed.
LEMMA DropPacked == OrderTyped /\ PackInv /\ PackDrop => PackInv'
<1> SUFFICES ASSUME OrderTyped, PackInv, PackDrop PROVE PackInv'
  OBVIOUS
<1>1. /\ PieceTyped /\ CutOf(Flushed, consumed) /\ OpenPack /\ DropCount
      /\ \A k \in DOMAIN ranges : ClosedPack(ranges[k])
      /\ UNCHANGED <<config, pieces>> /\ phase' = "pack" /\ droped' = droped + 1
      /\ ranges' = Flushed /\ cur' = NoIds
      /\ oversize = "drop"
  BY DEF PackInv, PackDrop, Packing
<1>2. PICK c \in Nat, L \in Nat :
        /\ c = consumed /\ L = SampleLen(c) /\ c < Len(pieces) /\ consumed' = c + 1
        /\ c + 1 \in 0 .. Len(pieces) /\ L > MaxLength
  <2>1. pieces \in Seq(Datasets \X Nat) /\ Len(pieces) \in Nat
    BY LenProperties DEF OrderTyped
  <2>2. /\ consumed \in Nat /\ consumed < Len(pieces) /\ consumed' = consumed + 1
        /\ SampleLen(consumed) > MaxLength
    BY <1>1 DEF PackDrop, Packing, PieceTyped
  <2>3. SampleLen(consumed) \in Nat
    BY <1>1, <2>2, PieceLength
  <2> QED BY <2>1, <2>2, <2>3
<1>3. ~Fits(consumed)
  <2>1. PICK s \in Nat : s = cur.size
    BY <1>1 DEF PieceTyped
  <2> QED BY <1>2, <2>1, PackedAssumption DEF Fits
<1>4. PICK P \in Seq(Nat \X Nat) : P = Flushed /\ \A k \in DOMAIN P : ClosedPack(P[k])
  BY <1>1, <1>3, FlushCloses
<1>5. ranges' = P /\ Flushed' = P /\ OpenPack'
  BY <1>1, <1>4 DEF Flushed, OpenPack, NoIds
<1>6. Dropped(c)
  BY <1>1, <1>2 DEF Dropped
<1>7. CutOf(P, c + 1)
  BY <1>1, <1>2, <1>4, <1>6, CutSkips
<1>8. droped' = Cardinality({m \in 0 .. (c + 1) - 1 : Dropped(m)})
  <2>1. droped = Cardinality({m \in 0 .. c - 1 : Dropped(m)})
    BY <1>1, <1>2 DEF DropCount
  <2> QED BY <1>1, <1>6, <2>1, DropsOnce
<1>9. PieceTyped'
  BY <1>1, <1>2, <1>4, <1>5, PackTypes DEF NoIds
<1> QED BY <1>1, <1>2, <1>4, <1>5, <1>7, <1>8, <1>9, PackedSo

\* A draw adds a sample of its data set.
LEMMA SamplePacked == LayoutInv /\ PackInv /\ Sample => PackInv'
<1> SUFFICES ASSUME LayoutInv, PackInv, Sample PROVE PackInv'
  OBVIOUS
<1>1. BalanceInv /\ OrderTyped /\ PieceTyped
  BY DEF LayoutInv, PackInv
<1>2. /\ UNCHANGED <<config, phase, consumed, cur, ranges, droped>>
      /\ consumed = 0 /\ cur = NoIds /\ ranges = <<>> /\ droped = 0
  BY <1>1 DEF Sample, PieceTyped
<1>3. PICK x \in Datasets : \E r \in 1 .. SizeOf(x) :
        /\ <<x, order[x][r]>> \in Datasets \X Nat
        /\ pieces' = Append(pieces, <<x, order[x][r]>>)
  BY <1>1, SampleDraws
<1>4. PICK r \in 1 .. SizeOf(x) :
        /\ <<x, order[x][r]>> \in Datasets \X Nat
        /\ pieces' = Append(pieces, <<x, order[x][r]>>)
  BY <1>3
<1>5. order[x][r] \in 1 .. SizeOf(x)
  <2>1. PICK o \in Orders(x) : o = order[x] /\ SamplerTyped
    BY <1>1 DEF OrderTyped
  <2>2. o \in [1 .. SizeOf(x) -> 1 .. SizeOf(x)]
    BY <2>1, OrderIsBijection
  <2> QED BY <2>1, <2>2
<1>6. PICK y \in Datasets \X Nat :
        y = <<x, order[x][r]>> /\ pieces' = Append(pieces, y) /\ y[2] \in 1 .. SizeOf(y[1])
  BY <1>4, <1>5
<1>7. PICK l \in Nat : l = Len(pieces) /\ DOMAIN pieces = 1 .. l
  BY <1>1, LenProperties DEF OrderTyped
<1>8. /\ DOMAIN pieces' = 1 .. l + 1 /\ Len(pieces') = l + 1
      /\ pieces'[l + 1] = y /\ \A k \in 1 .. l : pieces'[k] = pieces[k]
  <2>1. pieces \in Seq(Datasets \X Nat)
    BY <1>1 DEF OrderTyped
  <2>2. /\ Append(pieces, y) \in Seq(Datasets \X Nat) /\ Len(Append(pieces, y)) = l + 1
        /\ Append(pieces, y)[l + 1] = y
        /\ \A k \in 1 .. l : Append(pieces, y)[k] = pieces[k]
    BY <1>7, <2>1, AppendProperties
  <2> QED BY <1>6, <2>2, LenProperties
<1>9. \A d : SizeOf(d)' = SizeOf(d)
  BY <1>2 DEF config, SizeOf
<1>10. ASSUME NEW k \in 1 .. l + 1
       PROVE  pieces'[k][2] \in 1 .. SizeOf(pieces'[k][1])
  <2>1. CASE k = l + 1
    BY <1>6, <1>8, <2>1
  <2>2. CASE k \in 1 .. l
    BY <1>1, <1>7, <1>8, <2>2 DEF PieceTyped
  <2>3. k \in 1 .. l \/ k = l + 1
    OBVIOUS
  <2> QED BY <2>1, <2>2, <2>3
<1>11. PieceTyped'
  <2>1. (\A k \in DOMAIN pieces : pieces[k][2] \in 1 .. SizeOf(pieces[k][1]))'
    BY <1>2, <1>8, <1>10 DEF SizeOf, config
  <2>2. 0 \in 0 .. Len(pieces')
    BY <1>8
  <2>3. ranges \in Seq(Nat \X Nat) /\ cur \in [first : Nat, number : Nat, size : Nat]
    BY <1>1 DEF PieceTyped
  <2>4. /\ consumed' = 0 /\ cur' = cur /\ ranges' = ranges /\ droped' = 0
        /\ cur' = NoIds /\ ranges' = <<>>
    BY <1>2
  <2> QED BY <2>1, <2>2, <2>3, <2>4 DEF PieceTyped, NoIds
<1>12. /\ consumed' = 0 /\ cur' = NoIds /\ ranges' = <<>> /\ droped' = 0
       /\ 0 .. consumed' - 1 = {}
  BY <1>2
<1>13. Flushed' = <<>> /\ OpenPack'
  BY <1>12 DEF Flushed, OpenPack, NoIds
<1>14. CutOf(Flushed, consumed)'
  BY <1>12, <1>13 DEF CutOf
<1>15. DropCount'
  <2>1. {n \in 0 .. consumed' - 1 : Dropped(n)'} = {}
    BY <1>12
  <2> QED BY <1>12, <2>1, FS_EmptySet DEF DropCount
<1> QED BY <1>11, <1>12, <1>13, <1>14, <1>15 DEF PackInv

\* No step but these moves a piece.
LEMMA SamePacked ==
  ASSUME PackInv, UNCHANGED <<config, pieces, consumed, cur, ranges, droped>>,
         phase' # "sample" \/ phase' = phase
  PROVE  PackInv'
<1>1. /\ PieceTyped /\ CutOf(Flushed, consumed) /\ OpenPack /\ DropCount
      /\ \A k \in DOMAIN ranges : ClosedPack(ranges[k])
  BY DEF PackInv
<1>2. PieceTyped'
  BY <1>1 DEF PieceTyped, config, SizeOf, NoIds
<1>3. PICK P, R, n : P = Flushed /\ R = ranges /\ n = consumed
  OBVIOUS
<1>4. P = Flushed' /\ R = ranges' /\ n = consumed'
  BY <1>3 DEF Flushed
<1>5. OpenPack'
  BY <1>1 DEF OpenPack, NoIds, Total, TokensOf, Positions, SampleLen, config
<1>6. droped' = Cardinality({m \in 0 .. n - 1 : Dropped(m)})
  BY <1>1, <1>3 DEF DropCount
<1> QED BY <1>1, <1>2, <1>3, <1>4, <1>5, <1>6, PackedSo

\* Nothing is packed at first.
LEMMA InitPacked == Init => PackInv
<1> SUFFICES ASSUME Init PROVE PackInv
  OBVIOUS
<1>1. /\ pieces = <<>> /\ consumed = 0 /\ cur = NoIds /\ ranges = <<>> /\ droped = 0
      /\ 0 .. consumed - 1 = {}
  BY DEF Init
<1>2. PieceTyped
  <2>1. <<>> \in Seq(Nat \X Nat) /\ Len(pieces) = 0 /\ DOMAIN pieces = {}
    BY <1>1
  <2> QED BY <1>1, <2>1 DEF PieceTyped, NoIds
<1>3. Flushed = <<>> /\ OpenPack
  BY <1>1 DEF Flushed, OpenPack, NoIds
<1>4. CutOf(Flushed, consumed)
  BY <1>1, <1>3 DEF CutOf
<1>5. DropCount
  <2>1. {n \in 0 .. consumed - 1 : Dropped(n)} = {}
    BY <1>1
  <2> QED BY <1>1, <2>1, FS_EmptySet DEF DropCount
<1> QED BY <1>1, <1>2, <1>3, <1>4, <1>5 DEF PackInv

\* Every step keeps the packs exact.
LEMMA StepPacked == LayoutInv /\ PackInv /\ [Next]_vars => PackInv'
<1> SUFFICES ASSUME LayoutInv, PackInv, [Next]_vars PROVE PackInv'
  OBVIOUS
<1>1. OrderTyped
  BY DEF LayoutInv
<1>2. CASE Sample
  BY <1>2, SamplePacked
<1>3. CASE Pack
  BY <1>1, <1>3, FitsPacked, FlushPacked, ExtendPacked, DropPacked DEF Pack
<1>4. CASE Sampled \/ Laid \/ UNCHANGED vars
  <2>1. UNCHANGED <<config, pieces, consumed, cur, ranges, droped>>
    BY <1>4 DEF Sampled, Laid, vars
  <2>2. phase' # "sample" \/ phase' = phase
    BY <1>4 DEF Sampled, Laid, vars
  <2> QED BY <2>1, <2>2, SamePacked
<1> QED BY <1>2, <1>3, <1>4 DEF Next

\* What the packs promise follows.
LEMMA PackedExactly == OrderTyped /\ PackInv => ExactPacks
<1> SUFFICES ASSUME OrderTyped, PackInv PROVE ExactPacks
  OBVIOUS
<1>1. /\ PieceTyped /\ CutOf(Flushed, consumed) /\ OpenPack /\ DropCount
      /\ \A k \in DOMAIN ranges : ClosedPack(ranges[k])
  BY DEF PackInv
<1>2. consumed \in Nat /\ ranges \in Seq(Nat \X Nat)
  BY <1>1 DEF PieceTyped
<1>3. PICK closed : closed = Append(ranges, <<cur.first, cur.number>>)
  OBVIOUS
<1>4. CutOf(closed, consumed)
  <2>1. CASE cur.number = 0
    <3>1. Flushed = ranges /\ closed = Append(ranges, <<0, 0>>)
      BY <1>1, <1>3, <2>1 DEF Flushed, OpenPack, NoIds
    <3> QED BY <1>1, <1>2, <3>1, CutNoPack
  <2>2. CASE cur.number # 0
    BY <1>1, <1>3, <2>2 DEF Flushed
  <2> QED BY <2>1, <2>2
<1>5. ASSUME NEW k \in DOMAIN ranges
      PROVE  LET r == ranges[k]
                 next == r[1] + r[2]
             IN /\ Total(r) <= MaxLength \/ (r[2] = 1 /\ oversize = "extend")
                /\ next < consumed =>
                     Total(r) + SampleLen(next) > MaxLength \/ Total(r) = MaxLength
  <2>1. PICK r \in Nat \X Nat : r = ranges[k] /\ ClosedPack(r)
    BY <1>1, <1>2, <1>5, ElementOfSeq, LenProperties
  <2>2. r[1] + r[2] < consumed => r[1] + r[2] < Len(pieces)
    <3>1. PICK a \in Nat, l \in Nat : a = r[1] + r[2] /\ l = Len(pieces)
      BY LenProperties DEF OrderTyped
    <3>2. consumed <= l
      BY <1>1, <3>1 DEF PieceTyped
    <3> QED BY <1>2, <3>1, <3>2
  <2> QED BY <2>1, <2>2 DEF ClosedPack
<1> QED BY <1>1, <1>3, <1>4, <1>5 DEF ExactPacks, CutOf, DropCount

\* For any samples and any max_length: each piece looked at is in exactly one
\* pack, in order, unless it is dropped for its size; no pack is too large, but
\* for one oversize sample; and none was closed before it had to be.
THEOREM PacksExact == Spec => []ExactPacks
<1>1. Init => LayoutInv /\ PackInv
  BY InitLayout, InitPacked
<1>2. LayoutInv /\ PackInv /\ [Next]_vars => (LayoutInv /\ PackInv)'
  BY StepLayout, StepPacked
<1>3. LayoutInv /\ PackInv => ExactPacks
  BY PackedExactly DEF LayoutInv
<1> QED BY <1>1, <1>2, <1>3, PTL DEF Spec
-----------------------------------------------------------------------------
(* PolicyUpdate.                                                           *)

\* The parts of Program, and where they begin.
Statements ==
  {"offload_model", "offload_state", "backload_model", "backload_state", "generate", "pack",
   "forward", "chunk", "train", "dump"} \X {"", "actor", "critic", "reference"}

Opening ==
  << <<"offload_model", "actor">>, <<"offload_state", "actor">>, <<"generate", "">>, <<"pack", "">> >>

Inference(m) == << <<"backload_model", m>>, <<"forward", m>>, <<"offload_model", m>> >>

Training ==
  << <<"backload_model", "critic">>, <<"forward", "critic">>, <<"backload_state", "critic">>,
     <<"chunk", "critic">>, <<"train", "critic">>,
     <<"offload_model", "critic">>, <<"offload_state", "critic">>,
     <<"backload_model", "actor">>, <<"backload_state", "actor">>,
     <<"chunk", "actor">>, <<"train", "actor">>,
     <<"offload_model", "actor">>, <<"offload_state", "actor">>, <<"dump", "">> >>

RefPlaces == IF setup.skipRef THEN 0 ELSE 3
ActorPlaces == IF setup.skipActor THEN 0 ELSE 3
Base == 4 + RefPlaces + ActorPlaces

\* The parts are sequences of statements.
LEMMA PartsTyped ==
  /\ Opening \in Seq(Statements) /\ Len(Opening) = 4
  /\ Training \in Seq(Statements) /\ Len(Training) = 14
  /\ \A m \in Models : Inference(m) \in Seq(Statements) /\ Len(Inference(m)) = 3
<1>1. \A s \in {"offload_model", "offload_state", "backload_model", "backload_state", "generate", "pack",
                "forward", "chunk", "train", "dump"} :
        \A m \in {"", "actor", "critic", "reference"} : <<s, m>> \in Statements
  BY DEF Statements
<1>2. Opening \in Seq(Statements)
  <2>1. PICK a, b, c, d \in Statements : Opening = <<a, b, c, d>>
    <3>1. /\ <<"offload_model", "actor">> \in Statements /\ <<"offload_state", "actor">> \in Statements
          /\ <<"generate", "">> \in Statements /\ <<"pack", "">> \in Statements
      BY <1>1
    <3> QED BY <3>1 DEF Opening
  <2> QED BY <2>1
<1>3. Training \in Seq(Statements)
  <2>1. /\ <<"backload_model", "critic">> \in Statements /\ <<"forward", "critic">> \in Statements
        /\ <<"backload_state", "critic">> \in Statements /\ <<"chunk", "critic">> \in Statements
        /\ <<"train", "critic">> \in Statements /\ <<"offload_model", "critic">> \in Statements
        /\ <<"offload_state", "critic">> \in Statements
    BY <1>1
  <2>2. /\ <<"backload_model", "actor">> \in Statements /\ <<"backload_state", "actor">> \in Statements
        /\ <<"chunk", "actor">> \in Statements /\ <<"train", "actor">> \in Statements
        /\ <<"offload_model", "actor">> \in Statements /\ <<"offload_state", "actor">> \in Statements
        /\ <<"dump", "">> \in Statements
    BY <1>1
  <2>3. PICK a, b, c, d, e, f, g, h, i, j, k, l, m, n \in Statements :
          Training = <<a, b, c, d, e, f, g, h, i, j, k, l, m, n>>
    BY <2>1, <2>2 DEF Training
  <2> QED BY <2>3
<1>4. ASSUME NEW m \in Models
      PROVE  Inference(m) \in Seq(Statements) /\ Len(Inference(m)) = 3
  <2>1. m \in {"", "actor", "critic", "reference"}
    BY DEF Models
  <2>2. PICK a, b, c \in Statements : Inference(m) = <<a, b, c>>
    <3>1. /\ <<"backload_model", m>> \in Statements /\ <<"forward", m>> \in Statements
          /\ <<"offload_model", m>> \in Statements
      BY <1>1, <2>1
    <3> QED BY <3>1 DEF Inference
  <2> QED BY <2>2
<1> QED BY <1>2, <1>3, <1>4 DEF Opening, Training

\* One part behind the other.
LEMMA Joined ==
  ASSUME NEW s \in Seq(Statements), NEW t \in Seq(Statements),
         NEW a \in Nat, NEW b \in Nat, Len(s) = a, Len(t) = b
  PROVE  /\ s \o t \in Seq(Statements) /\ Len(s \o t) = a + b
         /\ \A i \in 1 .. a : (s \o t)[i] = s[i]
         /\ \A i \in 1 .. b : (s \o t)[a + i] = t[i]
<1>1. /\ s \o t \in Seq(Statements) /\ Len(s \o t) = a + b
      /\ \A i \in 1 .. a + b : (s \o t)[i] = IF i <= a THEN s[i] ELSE t[i - a]
  BY ConcatProperties
<1>2. \A i \in 1 .. a : i \in 1 .. a + b /\ i <= a
  OBVIOUS
<1>3. \A i \in 1 .. b : a + i \in 1 .. a + b /\ ~(a + i <= a) /\ (a + i) - a = i
  OBVIOUS
<1> QED BY <1>1, <1>2, <1>3

\* A part that may be left out.
LEMMA Optional ==
  ASSUME NEW skip, NEW m \in Models, NEW n, n = IF skip THEN 0 ELSE 3
  PROVE  /\ n \in {0, 3}
         /\ Unless(skip, Inference(m)) \in Seq(Statements) /\ Len(Unless(skip, Inference(m))) = n
         /\ \A i \in 1 .. n : Unless(skip, Inference(m))[i] = Inference(m)[i]
<1>1. CASE skip
  <2>1. Unless(skip, Inference(m)) = <<>> /\ n = 0
    BY <1>1 DEF Unless
  <2> QED BY <2>1, EmptySeq
<1>2. CASE ~skip
  <2>1. Unless(skip, Inference(m)) = Inference(m) /\ n = 3
    BY <1>2 DEF Unless
  <2> QED BY <2>1, PartsTyped
<1> QED BY <1>1, <1>2

\* Which statement is where.
LEMMA ProgramPlaces ==
  \E r, a \in {0, 3} :
    /\ r = RefPlaces /\ a = ActorPlaces
    /\ Len(Program) = 4 + r + a + 14
    /\ \A i \in 1 .. 4 : Program[i] = Opening[i]
    /\ \A i \in 1 .. r : Program[4 + i] = Inference("reference")[i]
    /\ \A i \in 1 .. a : Program[4 + r + i] = Inference("actor")[i]
    /\ \A i \in 1 .. 14 : Program[4 + r + a + i] = Training[i]
<1> DEFINE R == Unless(setup.skipRef, Inference("reference"))
           A == Unless(setup.skipActor, Inference("actor"))
<1>1. Program = Opening \o R \o A \o Training
  BY DEF Program, Opening, Inference, Training
<1>2. PICK r \in {0, 3} :
        /\ r = RefPlaces /\ R \in Seq(Statements) /\ Len(R) = r
        /\ \A i \in 1 .. r : R[i] = Inference("reference")[i]
  <2>1. PICK n : n = IF setup.skipRef THEN 0 ELSE 3
    OBVIOUS
  <2>2. "reference" \in Models
    BY DEF Models
  <2>3. /\ n \in {0, 3} /\ R \in Seq(Statements) /\ Len(R) = n
        /\ \A i \in 1 .. n : R[i] = Inference("reference")[i]
    BY <2>1, <2>2, Optional
  <2> QED BY <2>1, <2>3 DEF RefPlaces
<1>3. PICK a \in {0, 3} :
        /\ a = ActorPlaces /\ A \in Seq(Statements) /\ Len(A) = a
        /\ \A i \in 1 .. a : A[i] = Inference("actor")[i]
  <2>1. PICK n : n = IF setup.skipActor THEN 0 ELSE 3
    OBVIOUS
  <2>2. "actor" \in Models
    BY DEF Models
  <2>3. /\ n \in {0, 3} /\ A \in Seq(Statements) /\ Len(A) = n
        /\ \A i \in 1 .. n : A[i] = Inference("actor")[i]
    BY <2>1, <2>2, Optional
  <2> QED BY <2>1, <2>3 DEF ActorPlaces
<1> HIDE DEF R, A
<1>4. r \in Nat /\ a \in Nat
  OBVIOUS
<1>5. PICK O : O = Opening \o R
  OBVIOUS
<1>6. /\ O \in Seq(Statements) /\ Len(O) = 4 + r
      /\ \A i \in 1 .. 4 : O[i] = Opening[i]
      /\ \A i \in 1 .. r : O[4 + i] = R[i]
  <2>1. /\ Opening \o R \in Seq(Statements) /\ Len(Opening \o R) = 4 + r
        /\ \A i \in 1 .. 4 : (Opening \o R)[i] = Opening[i]
        /\ \A i \in 1 .. r : (Opening \o R)[4 + i] = R[i]
    <3>1. 4 \in Nat /\ Opening \in Seq(Statements) /\ Len(Opening) = 4
      BY PartsTyped
    <3> QED BY <1>2, <1>4, <3>1, Joined
  <2> QED BY <1>5, <2>1
<1>7. PICK k \in Nat : k = 4 + r
  OBVIOUS
<1>8. PICK I : I = O \o A
  OBVIOUS
<1>9. /\ I \in Seq(Statements) /\ Len(I) = k + a
      /\ \A i \in 1 .. k : I[i] = O[i]
      /\ \A i \in 1 .. a : I[k + i] = A[i]
  <2>1. /\ O \o A \in Seq(Statements) /\ Len(O \o A) = k + a
        /\ \A i \in 1 .. k : (O \o A)[i] = O[i]
        /\ \A i \in 1 .. a : (O \o A)[k + i] = A[i]
    <3>1. O \in Seq(Statements) /\ Len(O) = k
      BY <1>6, <1>7
    <3> QED BY <1>3, <1>4, <3>1, Joined
  <2> QED BY <1>8, <2>1
<1>10. PICK b \in Nat : b = k + a
  BY <1>4
<1>11. /\ Len(Program) = b + 14
       /\ \A i \in 1 .. b : Program[i] = I[i]
       /\ \A i \in 1 .. 14 : Program[b + i] = Training[i]
  <2>1. Program = I \o Training
    BY <1>1, <1>5, <1>8
  <2>2. /\ Len(I \o Training) = b + 14
        /\ \A i \in 1 .. b : (I \o Training)[i] = I[i]
        /\ \A i \in 1 .. 14 : (I \o Training)[b + i] = Training[i]
    <3>1. 14 \in Nat /\ Training \in Seq(Statements) /\ Len(Training) = 14
      BY PartsTyped
    <3>2. I \in Seq(Statements) /\ Len(I) = b
      BY <1>9, <1>10
    <3> QED BY <1>10, <3>1, <3>2, Joined
  <2> QED BY <2>1, <2>2
<1>12. \A i \in 1 .. 4 : Program[i] = Opening[i]
  <2>1. \A i \in 1 .. 4 : i \in 1 .. k /\ i \in 1 .. b
    BY <1>4, <1>7, <1>10
  <2> QED BY <1>6, <1>9, <1>11, <2>1
<1>13. \A i \in 1 .. r : Program[4 + i] = Inference("reference")[i]
  <2>1. ASSUME NEW i \in 1 .. r PROVE 4 + i \in 1 .. k /\ 4 + i \in 1 .. b
    BY <1>4, <1>7, <1>10
  <2>2. ASSUME NEW i \in 1 .. r PROVE Program[4 + i] = O[4 + i]
    BY <1>9, <1>11, <2>1
  <2> QED BY <1>2, <1>6, <2>2
<1>14. \A i \in 1 .. a : Program[k + i] = Inference("actor")[i]
  <2>1. \A i \in 1 .. a : k + i \in 1 .. b
    BY <1>4, <1>7, <1>10
  <2> QED BY <1>3, <1>9, <1>11, <2>1
<1> QED BY <1>2, <1>3, <1>7, <1>10, <1>11, <1>12, <1>13, <1>14

\* The statements of each part and their places; those for inference may be left out.
IsAt(i, op) == pc[1] = i /\ Op = op
IsAtOf(i, op, m) == pc[1] = i /\ Op = op /\ Model = m

InOpening ==
  \/ IsAtOf(1, "offload_model", "actor") \/ IsAtOf(2, "offload_state", "actor")
  \/ IsAt(3, "generate") \/ IsAt(4, "pack")

InInference(i, m) ==
  IsAtOf(i + 1, "backload_model", m) \/ IsAtOf(i + 2, "forward", m) \/ IsAtOf(i + 3, "offload_model", m)

InCritic(b) ==
  \/ IsAtOf(b + 1, "backload_model", "critic") \/ IsAtOf(b + 2, "forward", "critic")
  \/ IsAtOf(b + 3, "backload_state", "critic") \/ IsAtOf(b + 4, "chunk", "critic")
  \/ IsAtOf(b + 5, "train", "critic")
  \/ IsAtOf(b + 6, "offload_model", "critic") \/ IsAtOf(b + 7, "offload_state", "critic")

InActor(b) ==
  \/ IsAtOf(b + 8, "backload_model", "actor") \/ IsAtOf(b + 9, "backload_state", "actor")
  \/ IsAtOf(b + 10, "chunk", "actor") \/ IsAtOf(b + 11, "train", "actor")
  \/ IsAtOf(b + 12, "offload_model", "actor") \/ IsAtOf(b + 13, "offload_state", "actor")
  \/ IsAt(b + 14, "dump")

LEMMA Places ==
  ASSUME pc[1] \in Nat \ {0}
  PROVE  /\ RefPlaces \in {0, 3} /\ ActorPlaces \in {0, 3}
         /\ \/ InOpening
            \/ RefPlaces = 3 /\ InInference(4, "reference")
            \/ ActorPlaces = 3 /\ InInference(4 + RefPlaces, "actor")
            \/ InCritic(Base) \/ InActor(Base)
            \/ pc[1] > Base + 14 /\ Op = "end"
<1>1. PICK r, a \in {0, 3} :
        /\ r = RefPlaces /\ a = ActorPlaces
        /\ Len(Program) = 4 + r + a + 14
        /\ \A i \in 1 .. 4 : Program[i] = Opening[i]
        /\ \A i \in 1 .. r : Program[4 + i] = Inference("reference")[i]
        /\ \A i \in 1 .. a : Program[4 + r + i] = Inference("actor")[i]
        /\ \A i \in 1 .. 14 : Program[4 + r + a + i] = Training[i]
  BY ProgramPlaces
<1>2. PICK b \in Nat, n \in Nat \ {0} : b = 4 + r + a /\ n = pc[1]
  <2>1. 4 + r + a \in Nat
    BY <1>1
  <2> QED BY <2>1
<1>3. b = Base /\ Len(Program) = b + 14 /\ r \in {0, 3} /\ a \in {0, 3}
      /\ r = RefPlaces /\ a = ActorPlaces
  BY <1>1, <1>2 DEF Base
<1>4. n <= b + 14 => Op = Program[n][1] /\ Model = Program[n][2]
  BY <1>2, <1>3 DEF Op, Model
<1>5. CASE n \in 1 .. 4
  <2>1. n <= b + 14
    BY <1>2, <1>3, <1>5
  <2>2. Op = Opening[n][1] /\ Model = Opening[n][2]
    BY <1>1, <1>4, <1>5, <2>1
  <2>3. n = 1 \/ n = 2 \/ n = 3 \/ n = 4
    BY <1>5
  <2>4. /\ Opening[1] = <<"offload_model", "actor">> /\ Opening[2] = <<"offload_state", "actor">>
        /\ Opening[3][1] = "generate" /\ Opening[4][1] = "pack"
    BY Zenon DEF Opening
  <2>5. InOpening
    <3>1. CASE n = 1
      BY <1>2, <2>2, <2>4, <3>1 DEF InOpening, IsAtOf
    <3>2. CASE n = 2
      BY <1>2, <2>2, <2>4, <3>2 DEF InOpening, IsAtOf
    <3>3. CASE n = 3
      BY <1>2, <2>2, <2>4, <3>3 DEF InOpening, IsAt
    <3>4. CASE n = 4
      BY <1>2, <2>2, <2>4, <3>4 DEF InOpening, IsAt
    <3> QED BY <2>3, <3>1, <3>2, <3>3, <3>4
  <2> QED BY <1>3, <2>5
<1>6. CASE r = 3 /\ n \in 5 .. 7
  <2>1. PICK i \in 1 .. 3 : n = 4 + i
    BY <1>6
  <2>2. n <= b + 14 /\ i \in 1 .. r
    BY <1>2, <1>3, <1>6
  <2>3. Op = Inference("reference")[i][1] /\ Model = Inference("reference")[i][2]
    BY <1>1, <1>4, <2>1, <2>2
  <2>4. i = 1 \/ i = 2 \/ i = 3
    BY <2>1
  <2>5. InInference(4, "reference")
    BY <1>2, <2>1, <2>3, <2>4 DEF Inference, InInference, IsAtOf
  <2> QED BY <1>3, <1>6, <2>5
<1>7. CASE a = 3 /\ n \in 5 + r .. 7 + r
  <2>1. PICK i \in 1 .. 3 : n = 4 + r + i
    BY <1>3, <1>7
  <2>2. n <= b + 14 /\ i \in 1 .. a
    BY <1>2, <1>3, <1>7
  <2>3. Op = Inference("actor")[i][1] /\ Model = Inference("actor")[i][2]
    BY <1>1, <1>4, <2>1, <2>2
  <2>4. i = 1 \/ i = 2 \/ i = 3
    BY <2>1
  <2>5. InInference(4 + r, "actor")
    BY <1>2, <1>3, <2>1, <2>3, <2>4 DEF Inference, InInference, IsAtOf
  <2> QED BY <1>3, <1>7, <2>5
<1>8. CASE n \in b + 1 .. b + 14
  <2>1. PICK i \in 1 .. 14 : n = b + i
    BY <1>2, <1>8
  <2>2. n <= b + 14
    BY <1>2, <1>8
  <2>3. Op = Training[i][1] /\ Model = Training[i][2]
    BY <1>1, <1>2, <1>4, <2>1, <2>2
  <2>4. CASE i \in 1 .. 7
    <3>1. i = 1 \/ i = 2 \/ i = 3 \/ i = 4 \/ i = 5 \/ i = 6 \/ i = 7
      BY <2>4
    <3>2. /\ Training[1] = <<"backload_model", "critic">>
          /\ Training[2] = <<"forward", "critic">>
          /\ Training[3] = <<"backload_state", "critic">>
          /\ Training[4] = <<"chunk", "critic">>
          /\ Training[5] = <<"train", "critic">>
          /\ Training[6] = <<"offload_model", "critic">>
          /\ Training[7] = <<"offload_state", "critic">>
      BY DEF Training
    <3>3. InCritic(b)
      BY <1>2, <2>1, <2>3, <3>1, <3>2 DEF InCritic, IsAtOf
    <3> QED BY <1>3, <3>3
  <2>5. CASE i \in 8 .. 14
    <3>1. i = 8 \/ i = 9 \/ i = 10 \/ i = 11 \/ i = 12 \/ i = 13 \/ i = 14
      BY <2>5
    <3>2. /\ Training[8] = <<"backload_model", "actor">>
          /\ Training[9] = <<"backload_state", "actor">>
          /\ Training[10] = <<"chunk", "actor">>
          /\ Training[11] = <<"train", "actor">>
          /\ Training[12] = <<"offload_model", "actor">>
          /\ Training[13] = <<"offload_state", "actor">>
          /\ Training[14][1] = "dump"
      BY Zenon DEF Training
    <3>3. InActor(b)
      <4>1. CASE i = 14
        BY <1>2, <2>1, <2>3, <3>2, <4>1 DEF InActor, IsAt
      <4>2. CASE i # 14
        BY <1>2, <2>1, <2>3, <3>1, <3>2, <4>2 DEF InActor, IsAtOf
      <4> QED BY <4>1, <4>2
    <3> QED BY <1>3, <3>3
  <2> QED BY <2>1, <2>4, <2>5
<1>9. CASE n > b + 14
  <2>1. ~(n <= Len(Program))
    BY <1>2, <1>3, <1>9
  <2>2. Op = "end"
    BY <1>2, <2>1 DEF Op
  <2> QED BY <1>2, <1>3, <1>9, <2>2
<1>10. \/ n \in 1 .. 4
       \/ r = 3 /\ n \in 5 .. 7
       \/ a = 3 /\ n \in 5 + r .. 7 + r
       \/ n \in b + 1 .. b + 14
       \/ n > b + 14
  <2>1. n \in Nat /\ n >= 1 /\ b \in Nat /\ r \in Nat
    BY <1>2, <1>3
  <2>2. \/ n <= 4
        \/ r = 3 /\ 5 <= n /\ n <= 7
        \/ a = 3 /\ 5 + r <= n /\ n <= 7 + r
        \/ b + 1 <= n /\ n <= b + 14
        \/ n > b + 14
    <3>1. CASE r = 0 /\ a = 0
      BY <1>2, <2>1, <3>1
    <3>2. CASE r = 0 /\ a = 3
      BY <1>2, <2>1, <3>2
    <3>3. CASE r = 3 /\ a = 0
      BY <1>2, <2>1, <3>3
    <3>4. CASE r = 3 /\ a = 3
      BY <1>2, <2>1, <3>4
    <3> QED BY <1>3, <3>1, <3>2, <3>3, <3>4
  <2> QED BY <2>1, <2>2
<1> QED BY <1>5, <1>6, <1>7, <1>8, <1>9, <1>10

\* What is on the device at which place of Program.
ParamsAt(m, i) ==
  \/ m = "reference" /\ RefPlaces = 3 /\ i \in 6 .. 7
  \/ m = "actor" /\ ActorPlaces = 3 /\ i \in 6 + RefPlaces .. 7 + RefPlaces
  \/ m = "actor" /\ i \in Base + 9 .. Base + 12
  \/ m = "critic" /\ i \in Base + 2 .. Base + 6

StateAt(m, i) ==
  \/ m = "actor" /\ i \in Base + 10 .. Base + 13
  \/ m = "critic" /\ i \in Base + 4 .. Base + 7

HasParams(m) == ParamsAt(m, pc[1])
HasState(m) == StateAt(m, pc[1])

Halves == {"", "step"}  \* of a train step

Parts == [params : BOOLEAN, grad_buffer : BOOLEAN, optimizer_state : BOOLEAN]

\* The models' parts are where the place says, and a model on the device has its
\* hooks, once.
DeviceInv ==
  /\ pc \in (Nat \ {0}) \X Halves
  /\ offloaded \in [Models -> Parts] /\ hooks \in [Models -> Nat]
  /\ \A m \in Models : offloaded[m].params = ~HasParams(m)
  /\ \A m \in TrainedModels : /\ hooks[m] = IF HasParams(m) THEN 1 ELSE 0
                        /\ offloaded[m].grad_buffer = ~HasState(m)
                        /\ offloaded[m].optimizer_state = ~HasState(m)

\* Each statement moves what it says and nothing else, and what needs a model on
\* the device stands where it is.
LEMMA Standing ==
  ASSUME pc[1] \in Nat \ {0}, NEW m \in Models,
         NEW j
  PROVE  /\ Op \in {"offload_model", "backload_model"} /\ j = pc[1] + 1 =>
              /\ Model \in Models
              /\ ParamsAt(m, j) <=> IF m = Model THEN Op = "backload_model" ELSE HasParams(m)
              /\ StateAt(m, j) <=> HasState(m)
         /\ Op \in {"offload_state", "backload_state"} /\ j = pc[1] + 1 =>
              /\ Model \in TrainedModels
              /\ StateAt(m, j) <=> IF m = Model THEN Op = "backload_state" ELSE HasState(m)
              /\ ParamsAt(m, j) <=> HasParams(m)
         /\ Op \in {"generate", "pack", "forward", "chunk", "train", "dump"} /\ j = pc[1] + 1 =>
              (ParamsAt(m, j) <=> HasParams(m)) /\ (StateAt(m, j) <=> HasState(m))
         /\ Op = "end" /\ j = 1 => ~ParamsAt(m, j) /\ ~StateAt(m, j) /\ ~HasParams(m) /\ ~HasState(m)
         /\ Op \in {"forward", "train"} => Model \in Models /\ (HasParams(m) <=> m = Model)
         /\ Op = "train" => Model \in TrainedModels /\ (m = Model => HasState(m))
         /\ Op = "generate" => ~HasParams(m) /\ ~HasState(m)
<1>1. PICK i \in Nat \ {0}, r \in {0, 3}, a \in {0, 3}, b \in Nat :
        /\ i = pc[1] /\ r = RefPlaces /\ a = ActorPlaces /\ b = Base /\ b = 4 + r + a
  <2>1. RefPlaces \in {0, 3} /\ ActorPlaces \in {0, 3}
    BY Places
  <2>2. Base \in Nat
    BY <2>1 DEF Base
  <2> QED BY <2>1, <2>2 DEF Base
<1>2. /\ HasParams(m) <=>
           \/ m = "reference" /\ r = 3 /\ i \in 6 .. 7
           \/ m = "actor" /\ a = 3 /\ i \in 6 + r .. 7 + r
           \/ m = "actor" /\ i \in b + 9 .. b + 12
           \/ m = "critic" /\ i \in b + 2 .. b + 6
      /\ HasState(m) <=>
           \/ m = "actor" /\ i \in b + 10 .. b + 13
           \/ m = "critic" /\ i \in b + 4 .. b + 7
      /\ ParamsAt(m, j) <=>
           \/ m = "reference" /\ r = 3 /\ j \in 6 .. 7
           \/ m = "actor" /\ a = 3 /\ j \in 6 + r .. 7 + r
           \/ m = "actor" /\ j \in b + 9 .. b + 12
           \/ m = "critic" /\ j \in b + 2 .. b + 6
      /\ StateAt(m, j) <=>
           \/ m = "actor" /\ j \in b + 10 .. b + 13
           \/ m = "critic" /\ j \in b + 4 .. b + 7
  BY <1>1 DEF HasParams, HasState, ParamsAt, StateAt
<1>3. m = "actor" \/ m = "critic" \/ m = "reference"
  BY DEF Models
<1>4. CASE InOpening
  BY <1>1, <1>2, <1>3, <1>4 DEF InOpening, IsAt, IsAtOf, Models, TrainedModels
<1>5. CASE r = 3 /\ InInference(4, "reference")
  BY <1>1, <1>2, <1>3, <1>5 DEF InInference, IsAtOf, Models
<1>6. CASE a = 3 /\ InInference(4 + r, "actor")
  BY <1>1, <1>2, <1>3, <1>6 DEF InInference, IsAtOf, Models
<1>7. CASE InCritic(b)
  <2>1. CASE IsAtOf(b + 1, "backload_model", "critic")
    BY <1>1, <1>2, <1>3, <2>1 DEF IsAtOf, Models, TrainedModels
  <2>2. CASE IsAtOf(b + 2, "forward", "critic")
    BY <1>1, <1>2, <1>3, <2>2 DEF IsAtOf, Models, TrainedModels
  <2>3. CASE IsAtOf(b + 3, "backload_state", "critic")
    BY <1>1, <1>2, <1>3, <2>3 DEF IsAtOf, Models, TrainedModels
  <2>4. CASE IsAtOf(b + 4, "chunk", "critic")
    BY <1>1, <1>2, <1>3, <2>4 DEF IsAtOf, Models, TrainedModels
  <2>5. CASE IsAtOf(b + 5, "train", "critic")
    BY <1>1, <1>2, <1>3, <2>5 DEF IsAtOf, Models, TrainedModels
  <2>6. CASE IsAtOf(b + 6, "offload_model", "critic")
    BY <1>1, <1>2, <1>3, <2>6 DEF IsAtOf, Models, TrainedModels
  <2>7. CASE IsAtOf(b + 7, "offload_state", "critic")
    BY <1>1, <1>2, <1>3, <2>7 DEF IsAtOf, Models, TrainedModels
  <2> QED BY <1>7, <2>1, <2>2, <2>3, <2>4, <2>5, <2>6, <2>7 DEF InCritic
<1>8. CASE InActor(b)
  <2>1. CASE IsAtOf(b + 8, "backload_model", "actor")
    BY <1>1, <1>2, <1>3, <2>1 DEF IsAtOf, Models, TrainedModels
  <2>2. CASE IsAtOf(b + 9, "backload_state", "actor")
    BY <1>1, <1>2, <1>3, <2>2 DEF IsAtOf, Models, TrainedModels
  <2>3. CASE IsAtOf(b + 10, "chunk", "actor")
    BY <1>1, <1>2, <1>3, <2>3 DEF IsAtOf, Models, TrainedModels
  <2>4. CASE IsAtOf(b + 11, "train", "actor")
    BY <1>1, <1>2, <1>3, <2>4 DEF IsAtOf, Models, TrainedModels
  <2>5. CASE IsAtOf(b + 12, "offload_model", "actor")
    BY <1>1, <1>2, <1>3, <2>5 DEF IsAtOf, Models, TrainedModels
  <2>6. CASE IsAtOf(b + 13, "offload_state", "actor")
    BY <1>1, <1>2, <1>3, <2>6 DEF IsAtOf, Models, TrainedModels
  <2>7. CASE IsAt(b + 14, "dump")
    BY <1>1, <1>2, <1>3, <2>7 DEF IsAt, Models, TrainedModels
  <2> QED BY <1>8, <2>1, <2>2, <2>3, <2>4, <2>5, <2>6, <2>7 DEF InActor
<1>9. CASE i > b + 14 /\ Op = "end"
  BY <1>1, <1>2, <1>3, <1>9
<1> QED BY <1>1, <1>4, <1>5, <1>6, <1>7, <1>8, <1>9, Places

\* The same of a step, which changes no setup.
LEMMA Schedule ==
  ASSUME pc[1] \in Nat \ {0}, NEW m \in Models,
         NEW j, j = pc'[1], setup' = setup
  PROVE  /\ Op \in {"offload_model", "backload_model"} /\ j = pc[1] + 1 =>
              /\ Model \in Models
              /\ HasParams(m)' <=> IF m = Model THEN Op = "backload_model" ELSE HasParams(m)
              /\ HasState(m)' <=> HasState(m)
         /\ Op \in {"offload_state", "backload_state"} /\ j = pc[1] + 1 =>
              /\ Model \in TrainedModels
              /\ HasState(m)' <=> IF m = Model THEN Op = "backload_state" ELSE HasState(m)
              /\ HasParams(m)' <=> HasParams(m)
         /\ Op \in {"generate", "pack", "forward", "chunk", "train", "dump"} /\ j = pc[1] + 1 =>
              (HasParams(m)' <=> HasParams(m)) /\ (HasState(m)' <=> HasState(m))
         /\ Op = "end" /\ j = 1 => ~HasParams(m)' /\ ~HasState(m)' /\ ~HasParams(m) /\ ~HasState(m)
<1>1. (HasParams(m)' <=> ParamsAt(m, j)) /\ (HasState(m)' <=> StateAt(m, j))
  BY DEF HasParams, HasState, ParamsAt, StateAt, Base, RefPlaces, ActorPlaces
<1> QED BY <1>1, Standing

\* At first all models wait on the host.
LEMMA InitDevice == UpdateInit => DeviceInv
<1> SUFFICES ASSUME UpdateInit PROVE DeviceInv
  OBVIOUS
<1>1. /\ pc = <<1, "">> /\ hooks = [m \in Models |-> 0]
      /\ offloaded = [m \in Models |->
           [params |-> TRUE, grad_buffer |-> m \in TrainedModels, optimizer_state |-> m \in TrainedModels]]
  BY DEF UpdateInit
<1>2. pc \in (Nat \ {0}) \X Halves /\ pc[1] = 1
  <2>1. PICK h \in Halves : pc = <<1, h>>
    BY <1>1, Zenon DEF Halves
  <2> QED BY <2>1
<1>3. RefPlaces \in {0, 3} /\ ActorPlaces \in {0, 3}
  BY <1>2, Places
<1>4. \A m : ~HasParams(m) /\ ~HasState(m)
  <2>1. PICK r \in {0, 3}, a \in {0, 3}, b \in Nat :
          r = RefPlaces /\ a = ActorPlaces /\ b = Base /\ b = 4 + r + a
    <3>1. Base \in Nat
      BY <1>3 DEF Base
    <3> QED BY <1>3, <3>1 DEF Base
  <2>2. 1 \notin 6 .. 7 /\ 1 \notin 6 + r .. 7 + r
    BY <2>1
  <2>3. 1 \notin b + 9 .. b + 12 /\ 1 \notin b + 2 .. b + 6 /\ 1 \notin b + 10 .. b + 13
        /\ 1 \notin b + 4 .. b + 7
    BY <2>1
  <2> QED BY <1>2, <2>1, <2>2, <2>3 DEF HasParams, HasState, ParamsAt, StateAt
<1>5. \A m \in Models : (m \in TrainedModels) \in BOOLEAN
  OBVIOUS
<1>6. offloaded \in [Models -> Parts] /\ hooks \in [Models -> Nat]
  BY <1>1, <1>5 DEF Parts
<1>7. TrainedModels \subseteq Models
  BY DEF TrainedModels, Models
<1> QED BY <1>1, <1>2, <1>4, <1>6, <1>7 DEF DeviceInv

\* What stays on the device while the place moves on.
LEMMA NothingMoves ==
  ASSUME DeviceInv, setup' = setup, UNCHANGED hooks,
         pc' \in (Nat \ {0}) \X Halves,
         offloaded' \in [Models -> Parts],
         \A m \in Models : offloaded'[m].params = offloaded[m].params,
         \A m \in TrainedModels : /\ offloaded'[m].grad_buffer = offloaded[m].grad_buffer
                            /\ offloaded'[m].optimizer_state = offloaded[m].optimizer_state,
         \A m \in Models : (HasParams(m)' <=> HasParams(m)) /\ (HasState(m)' <=> HasState(m))
  PROVE  DeviceInv'
<1>1. TrainedModels \subseteq Models /\ TrainedModels' = TrainedModels /\ Models' = Models
  BY DEF TrainedModels, Models
<1>2. \A m \in Models : offloaded'[m].params = ~HasParams(m)'
  BY DEF DeviceInv
<1>3. \A m \in TrainedModels : /\ hooks'[m] = IF HasParams(m)' THEN 1 ELSE 0
                         /\ offloaded'[m].grad_buffer = ~HasState(m)'
                         /\ offloaded'[m].optimizer_state = ~HasState(m)'
  BY <1>1 DEF DeviceInv
<1> QED BY <1>1, <1>2, <1>3 DEF DeviceInv

\* _offload_param() and _backload_param().
LEMMA ParamsMove ==
  ASSUME DeviceInv, OffloadModel \/ BackloadModel
  PROVE  DeviceInv'
<1>1. /\ pc' = <<pc[1] + 1, "">> /\ setup' = setup
      /\ Op \in {"offload_model", "backload_model"}
  BY DEF OffloadModel, BackloadModel, Advance
<1>2. PICK n \in Nat \ {0}, h \in Halves : n + 1 = pc'[1] /\ n = pc[1] /\ pc' = <<n + 1, h>>
  <2>1. PICK n \in Nat \ {0} : n = pc[1]
    BY DEF DeviceInv
  <2>2. PICK h \in Halves : pc' = <<n + 1, h>>
    BY <1>1, <2>1, Zenon DEF Halves
  <2> QED BY <2>1, <2>2
<1>3. \A m \in Models :
        /\ Model \in Models
        /\ HasParams(m)' <=> IF m = Model THEN Op = "backload_model" ELSE HasParams(m)
        /\ HasState(m)' <=> HasState(m)
  BY <1>1, <1>2, Schedule
<1>4. PICK x \in Models : x = Model
  BY <1>3 DEF Models
<1>5. /\ offloaded \in [Models -> Parts] /\ hooks \in [Models -> Nat]
      /\ \A m \in Models : offloaded[m].params = ~HasParams(m)
      /\ \A m \in TrainedModels : /\ hooks[m] = IF HasParams(m) THEN 1 ELSE 0
                            /\ offloaded[m].grad_buffer = ~HasState(m)
                            /\ offloaded[m].optimizer_state = ~HasState(m)
  BY DEF DeviceInv
<1>6. TrainedModels \subseteq Models
  BY DEF TrainedModels, Models
<1>7. /\ offloaded' \in [Models -> Parts] /\ hooks' \in [Models -> Nat]
      /\ \A m \in Models : offloaded'[m].params =
           IF m = x THEN Op = "offload_model" ELSE offloaded[m].params
      /\ \A m \in Models : /\ offloaded'[m].grad_buffer = offloaded[m].grad_buffer
                           /\ offloaded'[m].optimizer_state = offloaded[m].optimizer_state
      /\ \A m \in TrainedModels : hooks'[m] =
           IF m = x THEN (IF Op = "offload_model" THEN 0 ELSE 1) ELSE hooks[m]
  <2>1. CASE OffloadModel
    <3>1. Op = "offload_model"
      BY <2>1 DEF OffloadModel
    <3>2. CASE offloaded[x].params
      <4>1. UNCHANGED <<offloaded, hooks>>
        BY <1>4, <2>1, <3>2 DEF OffloadModel, device
      <4>2. x \in TrainedModels => hooks[x] = 0
        BY <1>4, <1>5, <3>2
      <4> QED BY <1>4, <1>5, <3>1, <3>2, <4>1, <4>2
    <3>3. CASE ~offloaded[x].params
      <4>1. /\ offloaded' = [offloaded EXCEPT ![x].params = TRUE]
            /\ hooks' = [hooks EXCEPT ![x] = 0]
        BY <1>4, <2>1, <3>3 DEF OffloadModel
      <4> QED BY <1>4, <1>5, <1>6, <3>1, <4>1 DEF Parts
    <3> QED BY <3>2, <3>3
  <2>2. CASE BackloadModel
    <3>1. Op = "backload_model"
      BY <2>2 DEF BackloadModel
    <3>2. CASE ~offloaded[x].params
      <4>1. UNCHANGED <<offloaded, hooks>>
        BY <1>4, <2>2, <3>2 DEF BackloadModel, device
      <4>2. x \in TrainedModels => hooks[x] = 1
        BY <1>4, <1>5, <3>2
      <4> QED BY <1>4, <1>5, <3>1, <3>2, <4>1, <4>2
    <3>3. CASE offloaded[x].params
      <4>1. /\ offloaded' = [offloaded EXCEPT ![x].params = FALSE]
            /\ hooks' = [hooks EXCEPT ![x] = IF x \in TrainedModels THEN hooks[x] + 1 ELSE hooks[x]]
        BY <1>4, <2>2, <3>3 DEF BackloadModel
      <4>2. x \in TrainedModels => hooks[x] = 0
        BY <1>4, <1>5, <3>3
      <4>3. /\ offloaded' \in [Models -> Parts]
            /\ \A m \in Models : offloaded'[m].params =
                 IF m = x THEN FALSE ELSE offloaded[m].params
            /\ \A m \in Models : /\ offloaded'[m].grad_buffer = offloaded[m].grad_buffer
                                 /\ offloaded'[m].optimizer_state = offloaded[m].optimizer_state
        BY <1>4, <1>5, <4>1 DEF Parts
      <4>4. PICK k \in Nat : k = IF x \in TrainedModels THEN hooks[x] + 1 ELSE hooks[x]
        BY <1>4, <1>5
      <4>5. hooks' = [hooks EXCEPT ![x] = k] /\ (x \in TrainedModels => k = 1)
        BY <4>1, <4>2, <4>4
      <4>6. /\ hooks' \in [Models -> Nat]
            /\ \A m \in TrainedModels : hooks'[m] = IF m = x THEN 1 ELSE hooks[m]
        BY <1>4, <1>5, <1>6, <4>4, <4>5
      <4> QED BY <3>1, <4>3, <4>6
    <3> QED BY <3>2, <3>3
  <2> QED BY <2>1, <2>2
<1>8. \A m \in Models : offloaded'[m].params = ~HasParams(m)'
  BY <1>1, <1>3, <1>4, <1>5, <1>7
<1>9. \A m \in TrainedModels : /\ hooks'[m] = IF HasParams(m)' THEN 1 ELSE 0
                         /\ offloaded'[m].grad_buffer = ~HasState(m)'
                         /\ offloaded'[m].optimizer_state = ~HasState(m)'
  BY <1>1, <1>3, <1>4, <1>5, <1>6, <1>7
<1>10. pc' \in (Nat \ {0}) \X Halves
  BY <1>2
<1>11. TrainedModels' = TrainedModels /\ Models' = Models
  BY DEF TrainedModels, Models
<1> QED BY <1>7, <1>8, <1>9, <1>10, <1>11 DEF DeviceInv

\* offload_state() and backload_state().
LEMMA StateMoves ==
  ASSUME DeviceInv, MoveState
  PROVE  DeviceInv'
<1>1. /\ pc' = <<pc[1] + 1, "">> /\ setup' = setup /\ hooks' = hooks
      /\ Op \in {"offload_state", "backload_state"}
  BY DEF MoveState, Advance
<1>2. PICK n \in Nat \ {0}, h \in Halves : n + 1 = pc'[1] /\ n = pc[1] /\ pc' = <<n + 1, h>>
  <2>1. PICK n \in Nat \ {0} : n = pc[1]
    BY DEF DeviceInv
  <2>2. PICK h \in Halves : pc' = <<n + 1, h>>
    BY <1>1, <2>1, Zenon DEF Halves
  <2> QED BY <2>1, <2>2
<1>3. \A m \in Models :
        /\ Model \in TrainedModels
        /\ HasState(m)' <=> IF m = Model THEN Op = "backload_state" ELSE HasState(m)
        /\ HasParams(m)' <=> HasParams(m)
  BY <1>1, <1>2, Schedule
<1>4. PICK x \in TrainedModels : x = Model
  BY <1>3 DEF Models
<1>5. /\ offloaded \in [Models -> Parts] /\ hooks \in [Models -> Nat]
      /\ \A m \in Models : offloaded[m].params = ~HasParams(m)
      /\ \A m \in TrainedModels : /\ hooks[m] = IF HasParams(m) THEN 1 ELSE 0
                            /\ offloaded[m].grad_buffer = ~HasState(m)
                            /\ offloaded[m].optimizer_state = ~HasState(m)
  BY DEF DeviceInv
<1>6. TrainedModels \subseteq Models
  BY DEF TrainedModels, Models
<1>7. PICK off \in BOOLEAN : off = (Op = "offload_state")
  OBVIOUS
<1>8. offloaded' = [offloaded EXCEPT ![x].grad_buffer = off, ![x].optimizer_state = off]
  BY <1>4, <1>7 DEF MoveState
<1>9. /\ offloaded' \in [Models -> Parts]
      /\ \A m \in Models : offloaded'[m].params = offloaded[m].params
      /\ \A m \in Models :
           /\ offloaded'[m].grad_buffer = IF m = x THEN off ELSE offloaded[m].grad_buffer
           /\ offloaded'[m].optimizer_state = IF m = x THEN off ELSE offloaded[m].optimizer_state
  BY <1>4, <1>5, <1>6, <1>8 DEF Parts
<1>10. \A m \in Models : offloaded'[m].params = ~HasParams(m)'
  BY <1>3, <1>5, <1>9
<1>11. \A m \in TrainedModels : /\ hooks'[m] = IF HasParams(m)' THEN 1 ELSE 0
                          /\ offloaded'[m].grad_buffer = ~HasState(m)'
                          /\ offloaded'[m].optimizer_state = ~HasState(m)'
  <2>1. off = ~(Op = "backload_state")
    BY <1>1, <1>7
  <2> QED BY <1>1, <1>3, <1>4, <1>5, <1>6, <1>9, <2>1
<1>12. pc' \in (Nat \ {0}) \X Halves
  BY <1>2
<1>13. TrainedModels' = TrainedModels /\ Models' = Models
  BY DEF TrainedModels, Models
<1> QED BY <1>1, <1>5, <1>9, <1>10, <1>11, <1>12, <1>13 DEF DeviceInv

\* A statement that moves nothing.
LEMMA MovesOn ==
  ASSUME DeviceInv, Advance, UNCHANGED <<setup, offloaded, hooks>>,
         Op \in {"generate", "pack", "forward", "chunk", "train", "dump"}
  PROVE  DeviceInv'
<1>1. PICK n \in Nat \ {0}, h \in Halves : n + 1 = pc'[1] /\ n = pc[1] /\ pc' = <<n + 1, h>>
  <2>1. PICK n \in Nat \ {0} : n = pc[1]
    BY DEF DeviceInv
  <2>2. PICK h \in Halves : pc' = <<n + 1, h>>
    BY <2>1, Zenon DEF Advance, Halves
  <2> QED BY <2>1, <2>2
<1>2. \A m \in Models : (HasParams(m)' <=> HasParams(m)) /\ (HasState(m)' <=> HasState(m))
  BY <1>1, Schedule
<1>3. pc' \in (Nat \ {0}) \X Halves
  BY <1>1
<1>4. offloaded' \in [Models -> Parts]
  BY DEF DeviceInv
<1> QED BY <1>2, <1>3, <1>4, NothingMoves

\* A train step, which begins another one or comes to its second half.
LEMMA Stays ==
  ASSUME DeviceInv, NEW h \in Halves, pc' = [pc EXCEPT ![2] = h], UNCHANGED <<setup, hooks>>,
         Op = "train",
         \/ UNCHANGED offloaded
         \/ offloaded' = [offloaded EXCEPT ![Model].optimizer_state = FALSE]
  PROVE  DeviceInv'
<1>1. PICK n \in Nat \ {0}, g \in Halves : pc = <<n, g>>
  BY DEF DeviceInv
<1>2. pc' = <<n, h>>
  BY <1>1
<1>3. pc' \in (Nat \ {0}) \X Halves /\ pc'[1] = pc[1] /\ pc[1] = n
  BY <1>1, <1>2
<1>4. \A m \in Models : (HasParams(m)' <=> HasParams(m)) /\ (HasState(m)' <=> HasState(m))
  BY <1>3 DEF HasParams, HasState, ParamsAt, StateAt, Base, RefPlaces, ActorPlaces
<1>5. \A m \in Models : Model \in TrainedModels /\ (m = Model => HasState(m))
  BY <1>3, Standing
<1>6. PICK x \in TrainedModels : x = Model
  BY <1>5 DEF Models
<1>7. x \in Models /\ TrainedModels \subseteq Models /\ HasState(x)
  BY <1>5, <1>6 DEF TrainedModels, Models
<1>8. /\ offloaded \in [Models -> Parts] /\ ~offloaded[x].optimizer_state
  BY <1>6, <1>7 DEF DeviceInv
<1>9. /\ offloaded' \in [Models -> Parts]
      /\ \A m \in Models : /\ offloaded'[m].params = offloaded[m].params
                           /\ offloaded'[m].grad_buffer = offloaded[m].grad_buffer
                           /\ offloaded'[m].optimizer_state = offloaded[m].optimizer_state
  <2>1. CASE UNCHANGED offloaded
    BY <1>8, <2>1
  <2>2. CASE offloaded' = [offloaded EXCEPT ![x].optimizer_state = FALSE]
    BY <1>7, <1>8, <2>2 DEF Parts
  <2> QED BY <1>6, <2>1, <2>2
<1> QED BY <1>3, <1>4, <1>7, <1>9, NothingMoves

\* The next iteration, which finds all models on the host.
LEMMA Restarts ==
  ASSUME DeviceInv, EndStep
  PROVE  DeviceInv'
<1>1. /\ pc' = <<1, "">> /\ UNCHANGED <<setup, offloaded, hooks>> /\ Op = "end"
  BY DEF EndStep, device
<1>2. PICK n \in Nat \ {0} : n = pc[1]
  BY DEF DeviceInv
<1>3. PICK h \in Halves : pc' = <<1, h>>
  BY <1>1, Zenon DEF Halves
<1>4. pc' \in (Nat \ {0}) \X Halves /\ pc'[1] = 1
  BY <1>3
<1>5. \A m \in Models : ~HasParams(m)' /\ ~HasState(m)' /\ ~HasParams(m) /\ ~HasState(m)
  BY <1>1, <1>2, <1>4, Schedule
<1>6. offloaded' \in [Models -> Parts]
  BY <1>1 DEF DeviceInv
<1> QED BY <1>1, <1>4, <1>5, <1>6, NothingMoves

\* Every step leaves the parts where the next place wants them.
LEMMA StepDevice ==
  ASSUME DeviceInv, [UpdateNext]_updateVars
  PROVE  DeviceInv'
<1>1. CASE OffloadModel \/ BackloadModel
  BY <1>1, ParamsMove
<1>2. CASE MoveState
  BY <1>2, StateMoves
<1>3. CASE Generate
  BY <1>3, MovesOn DEF Generate, device
<1>4. CASE PackData
  BY <1>4, MovesOn DEF PackData, device
<1>5. CASE Forward
  BY <1>5, MovesOn DEF Forward, device
<1>6. CASE Chunk
  BY <1>6, MovesOn DEF Chunk, device
<1>7. CASE ForwardBackward
  <2>1. /\ Op = "train" /\ pc' = [pc EXCEPT ![2] = "step"] /\ UNCHANGED <<setup, hooks>>
        /\ \/ UNCHANGED offloaded
           \/ offloaded' = [offloaded EXCEPT ![Model].optimizer_state = FALSE]
    BY <1>7 DEF ForwardBackward
  <2>2. "step" \in Halves
    BY DEF Halves
  <2> QED BY <2>1, <2>2, Stays
<1>8. CASE OptimizerStep
  <2>1. Op = "train" /\ UNCHANGED <<setup, offloaded, hooks>>
    BY <1>8 DEF OptimizerStep, device
  <2>2. PICK h \in Halves : Advance \/ pc' = [pc EXCEPT ![2] = h]
    <3>1. Advance \/ pc' = [pc EXCEPT ![2] = ""]
      BY <1>8, Zenon DEF OptimizerStep
    <3> QED BY <3>1, Zenon DEF Halves
  <2>3. CASE Advance
    BY <2>1, <2>3, MovesOn
  <2>4. CASE pc' = [pc EXCEPT ![2] = h]
    BY <2>1, <2>2, <2>4, Stays
  <2> QED BY <2>2, <2>3, <2>4
<1>9. CASE Dump
  BY <1>9, MovesOn DEF Dump, device
<1>10. CASE EndStep
  BY <1>10, Restarts
<1>11. CASE UNCHANGED updateVars
  <2>1. UNCHANGED <<setup, pc, offloaded, hooks>>
    BY <1>11 DEF updateVars
  <2>2. /\ pc' \in (Nat \ {0}) \X Halves /\ offloaded' \in [Models -> Parts]
    BY <2>1 DEF DeviceInv
  <2>3. \A m \in Models : (HasParams(m)' <=> HasParams(m)) /\ (HasState(m)' <=> HasState(m))
    BY <2>1 DEF HasParams, HasState, ParamsAt, StateAt, Base, RefPlaces, ActorPlaces
  <2> QED BY <2>1, <2>2, <2>3, NothingMoves
<1> QED BY <1>1, <1>2, <1>3, <1>4, <1>5, <1>6, <1>7, <1>8, <1>9, <1>10, <1>11
        DEF UpdateNext, RaisesNoRollout, LoopEnds

\* With the parts where the places want them, whatever computes finds them.
LEMMA DeviceReady == DeviceInv => OnDevice
<1> SUFFICES ASSUME DeviceInv PROVE OnDevice
  OBVIOUS
<1>1. /\ \A m \in Models : offloaded[m].params = ~HasParams(m)
      /\ \A m \in TrainedModels : /\ hooks[m] = IF HasParams(m) THEN 1 ELSE 0
                            /\ offloaded[m].grad_buffer = ~HasState(m)
                            /\ offloaded[m].optimizer_state = ~HasState(m)
  BY DEF DeviceInv
<1>2. TrainedModels \subseteq Models /\ "actor" \in Models
  BY DEF TrainedModels, Models
<1>3. \A m \in Models :
        /\ Op \in {"forward", "train"} => Model \in Models /\ (HasParams(m) <=> m = Model)
        /\ Op = "train" => Model \in TrainedModels /\ (m = Model => HasState(m))
        /\ Op = "generate" => ~HasParams(m) /\ ~HasState(m)
  <2>1. pc[1] \in Nat \ {0}
    BY DEF DeviceInv
  <2> QED BY <2>1, Standing
<1>4. Op \in {"forward", "train"} => \A m \in Models : ~offloaded[m].params <=> m = Model
  BY <1>1, <1>3
<1>5. ASSUME Op = "train"
      PROVE  hooks[Model] = 1 /\ ~offloaded[Model].grad_buffer /\ ~offloaded[Model].optimizer_state
  <2>1. Model \in TrainedModels /\ Model \in Models
    BY <1>2, <1>3, <1>5
  <2>2. HasParams(Model) /\ HasState(Model)
    BY <1>3, <1>5, <2>1
  <2> QED BY <1>1, <2>1, <2>2
<1>6. Op = "generate" => \A m \in Models :
        /\ offloaded[m].params
        /\ m \in TrainedModels => offloaded[m].grad_buffer /\ offloaded[m].optimizer_state
  BY <1>1, <1>2, <1>3
<1>7. Op = "train" => /\ hooks[Model] = 1 /\ ~offloaded[Model].grad_buffer
                      /\ pc[2] = "step" => ~offloaded[Model].optimizer_state
  BY <1>5
<1> HIDE DEF Op, Model
<1> QED BY <1>4, <1>6, <1>7, Zenon DEF OnDevice

\* Whatever computes is on the device, alone, with its hooks in place once, and a
\* model that is trained with its gradient buffer and, for a step, its optimizer state;
\* while rollouts are generated the device is free.  (train_step(), PackedModel.)
THEOREM UpdateOnDevice == UpdateSpec => []OnDevice
<1>1. UpdateInit => DeviceInv
  BY InitDevice
<1>2. DeviceInv /\ [UpdateNext]_updateVars => DeviceInv'
  BY StepDevice
<1>3. DeviceInv => OnDevice
  BY DeviceReady
<1> QED BY <1>1, <1>2, <1>3, PTL DEF UpdateSpec
===============================================================================
