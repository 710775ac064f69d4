--------------------------- MODULE PackedDataloader ---------------------------
(***************************************************************************)
(* MixedPackedDataloader (data/dataloader/packed_dataloader.py): the       *)
(* training set is laid out before training.  A WeightedRandomSampler      *)
(* draws a data set, the data set's own sampler draws one of its samples   *)
(* (data/samplers/base_sampler.py), as often as the epochs say; then       *)
(* pack() cuts the drawn pieces into packs of at most max_length tokens    *)
(* (data/packing/non_truncation.py).                                       *)
(*                                                                         *)
(* Epochs are counted in units of 1/Unit, for a fraction of an epoch.      *)
(* Floats: a sum that no float holds exactly may come out below itself,    *)
(* which counts where int() follows; the sampler's scores are the exact    *)
(* quotients count/weight, and equal ones are in either order.             *)
(***************************************************************************)
EXTENDS Integers, Sequences, FiniteSets, Functions

CONSTANTS
  NumDatasets,
  LenChoices,    \* the data sets: sequences of the lengths of their samples
  EpochChoices,  \* epochs, in units of 1/Unit
  Unit,
  MaxLength      \* max_length

Datasets == 1 .. NumDatasets

ASSUME PackedAssumption ==
  /\ NumDatasets \in Nat \ {0} /\ Unit \in Nat \ {0} /\ MaxLength \in Nat
  /\ \A lens \in LenChoices : lens \in Seq(Nat) /\ lens # <<>>
  /\ EpochChoices \subseteq Nat \ {0}

VARIABLES
  lens, epochs,  \* the configuration: [Datasets -> ...]
  random,        \* the data sets whose sampler is LoopedShuffleSampler
  oversize,      \* oversize_policy
  phase,         \* "sample", "pack", "ready", or "empty"
  counts,        \* WeightedRandomSampler's _counts
  order,         \* [Datasets -> ...]: _idx_cur_epoch of each own sampler
  pieces,        \* piece_order: the pairs <<data set, sample>> drawn
  consumed,      \* pack(): pieces looked at
  cur,           \* packed_ids, which are consecutive, and packed_size
  ranges,        \* packed_sample_ranges, <<offset, number>>
  droped         \* number of pieces dropped

config == <<lens, epochs, random, oversize>>
vars == <<config, phase, counts, order, pieces, consumed, cur, ranges, droped>>

SizeOf(d) == Len(lens[d])

\* In units of 1/Unit samples.
Weight(d) == epochs[d] * SizeOf(d)

\* As many places for each data set as f says.
Slots(f) == UNION {{d} \X (1 .. f[d]) : d \in Datasets}

\* sum(_weights), counted.
WeightSum == Cardinality(Slots([d \in Datasets |-> Weight(d)]))

\* Whether a float holds e/Unit exactly.
Exact(e) == \E n \in 0 .. Unit : (e * 2^n) % Unit = 0

AllExact == \A d \in Datasets : Exact(epochs[d])

\* int(sum(_weights)): a whole sum of inexact weights may come out just below
\* itself, and int() makes it one less.
Draws ==
  LET n == WeightSum \div Unit
  IN  IF WeightSum % Unit = 0 /\ ~AllExact THEN {n - 1, n} ELSE {n}

Orders(d) ==
  IF d \in random
  THEN {p \in [1 .. SizeOf(d) -> 1 .. SizeOf(d)] : IsInjective(p)}
  ELSE {[i \in 1 .. SizeOf(d) |-> i]}

NoIds == [first |-> 0, number |-> 0, size |-> 0]

Init ==
  /\ lens \in [Datasets -> LenChoices] /\ epochs \in [Datasets -> EpochChoices]
  /\ random \in SUBSET Datasets /\ oversize \in {"drop", "extend"}
  /\ phase = "sample"
  /\ counts = [d \in Datasets |-> 0]
  /\ order \in {o \in [Datasets -> UNION {Orders(d) : d \in Datasets}] :
                  \A d \in Datasets : o[d] \in Orders(d)}
  /\ pieces = <<>>
  /\ consumed = 0 /\ cur = NoIds /\ ranges = <<>> /\ droped = 0
-----------------------------------------------------------------------------
(* _schedule_all().                                                        *)

\* Score of e is not below that of d.
NotBelow(e, d) == counts[d] * Weight(e) <= counts[e] * Weight(d)

\* Mutant: the least drawn data set, whatever the weights.
LeastDrawn(d) == \A e \in Datasets : counts[d] <= counts[e]

\* The heap's least entry.
IsNext(d) == \A e \in Datasets : NotBelow(e, d)

\* Mutant: the sampler shuffles anew at every draw.
AlwaysEnds(d) == TRUE

\* The sampler of d has gone through its epoch's order.
EpochEnds(d) == (counts[d] + 1) % SizeOf(d) = 0

\* Both samplers of d have made counts[d] draws.
Sample ==
  /\ phase = "sample" /\ \E n \in Draws : Len(pieces) < n
  /\ \E d \in Datasets :
       /\ IsNext(d)
       /\ pieces' = Append(pieces, <<d, order[d][(counts[d] % SizeOf(d)) + 1]>>)
       /\ counts' = [counts EXCEPT ![d] = @ + 1]
       /\ \E o \in IF EpochEnds(d) THEN Orders(d) ELSE {order[d]} :
            order' = [order EXCEPT ![d] = o]
  /\ UNCHANGED <<config, phase, consumed, cur, ranges, droped>>

Sampled ==
  /\ phase = "sample" /\ Len(pieces) \in Draws
  /\ phase' = "pack"
  /\ UNCHANGED <<config, counts, order, pieces, consumed, cur, ranges, droped>>
-----------------------------------------------------------------------------
(* pack().                                                                 *)

SampleLen(n) == lens[pieces[n + 1][1]][pieces[n + 1][2]]

Packing == phase = "pack" /\ consumed < Len(pieces)

Fits(n) == cur.size + SampleLen(n) <= MaxLength

Flushed == IF cur.number = 0 THEN ranges ELSE Append(ranges, <<cur.first, cur.number>>)

\* packed_ids.append() and, when the pack is full, flush().
AddTo(ids) ==
  IF ids.size = MaxLength
  THEN cur' = NoIds /\ ranges' = Append(ranges, <<ids.first, ids.number>>)
  ELSE cur' = ids /\ UNCHANGED ranges

PackFits ==
  /\ Packing /\ Fits(consumed)
  /\ AddTo([first |-> IF cur.number = 0 THEN consumed ELSE cur.first,
            number |-> cur.number + 1, size |-> cur.size + SampleLen(consumed)])
  /\ consumed' = consumed + 1
  /\ UNCHANGED <<config, phase, counts, order, pieces, droped>>

\* flush(), and the piece is put back for the next pack.
PackPutBack ==
  /\ Packing /\ ~Fits(consumed) /\ SampleLen(consumed) <= MaxLength
  /\ ranges' = Flushed /\ cur' = NoIds
  /\ UNCHANGED <<config, phase, counts, order, pieces, consumed, droped>>

PackExtend ==
  /\ Packing /\ SampleLen(consumed) > MaxLength /\ oversize = "extend"
  /\ ranges' = Append(Flushed, <<consumed, 1>>) /\ cur' = NoIds
  /\ consumed' = consumed + 1
  /\ UNCHANGED <<config, phase, counts, order, pieces, droped>>

\* Mutant: the open pack stays open.
DropSkips ==
  /\ Packing /\ SampleLen(consumed) > MaxLength /\ oversize = "drop"
  /\ droped' = droped + 1 /\ consumed' = consumed + 1
  /\ UNCHANGED <<config, phase, counts, order, pieces, cur, ranges>>

\* flush() comes before the piece is dropped.
PackDrop ==
  /\ Packing /\ SampleLen(consumed) > MaxLength /\ oversize = "drop"
  /\ ranges' = Flushed /\ cur' = NoIds
  /\ droped' = droped + 1 /\ consumed' = consumed + 1
  /\ UNCHANGED <<config, phase, counts, order, pieces>>

\* The last flush(); a layout without packs is refused.
PackEnd ==
  /\ phase = "pack" /\ consumed = Len(pieces)
  /\ ranges' = Flushed /\ cur' = NoIds
  /\ phase' = IF Flushed = <<>> THEN "empty" ELSE "ready"
  /\ UNCHANGED <<config, counts, order, pieces, consumed, droped>>

Pack == PackFits \/ PackPutBack \/ PackExtend \/ PackDrop \/ PackEnd

\* The layout stays as it is; AsyncAccelerate serves its packs.
Laid == phase \in {"ready", "empty"} /\ UNCHANGED vars

Next == Sample \/ Sampled \/ Pack \/ Laid

Spec == Init /\ [][Next]_vars
-----------------------------------------------------------------------------
(* Properties.                                                             *)

\* The draws are balanced by weight at every moment: no data set is more than
\* one draw ahead of its share of any other's (base_sampler.py:119-141).
FairShare ==
  \A d, e \in Datasets : (counts[d] - 1) * Weight(e) <= counts[e] * Weight(d)

Drawn(d, i) == {n \in DOMAIN pieces : pieces[n] = <<d, i>>}

CeilDiv(a, b) == (a + b - 1) \div b

\* Drawn less often than the epochs say, rounded down.
Short(d, i) == Cardinality(Drawn(d, i)) < epochs[d] \div Unit

\* When all is drawn, no sample was scheduled more often than its epochs,
\* rounded up; and, if the weights are whole numbers, all were as often as
\* their epochs, rounded down, but for a single one that may miss a single
\* time, which happens only if int() of the sum of inexact weights makes one
\* draw too few: balancing between data sets and shuffling within them do not
\* disturb each other (packed_dataloader.py:116-133).
EpochsHonoured ==
  phase # "sample" =>
    /\ \A d \in Datasets : \A i \in 1 .. SizeOf(d) :
         Cardinality(Drawn(d, i)) <= CeilDiv(epochs[d], Unit)
    /\ (\A d \in Datasets : Weight(d) % Unit = 0) =>
         \A d \in Datasets : \A i \in 1 .. SizeOf(d) :
           Short(d, i) =>
             /\ ~AllExact
             /\ Cardinality(Drawn(d, i)) = (epochs[d] \div Unit) - 1
             /\ \A e \in Datasets : \A j \in 1 .. SizeOf(e) :
                  Short(e, j) => e = d /\ j = i

Positions(r) == r[1] .. r[1] + r[2] - 1

Dropped(n) == oversize = "drop" /\ SampleLen(n) > MaxLength

TokensOf(r) == UNION {{n} \X (1 .. SampleLen(n)) : n \in Positions(r)}

Total(r) == Cardinality(TokensOf(r))

\* Each piece looked at is in exactly one pack (or in the one being filled),
\* unless it is dropped for its size, and the packs keep the pieces' order:
\* the ranges are offsets and numbers, so a pack must never reach over a
\* dropped piece (non_truncation.py:18-43).  A pack holds at most max_length
\* tokens unless it is one oversize sample, and it was closed only because the
\* next piece did not fit: no two packs in a row could have been one.
ExactPacks ==
  LET packs == Append(ranges, <<cur.first, cur.number>>)
  IN /\ \A n \in 0 .. consumed - 1 :
          (~Dropped(n)) <=> \E k \in DOMAIN packs : n \in Positions(packs[k])
     /\ \A k, l \in DOMAIN packs : k < l =>
          \A m \in Positions(packs[k]), n \in Positions(packs[l]) : m < n
     /\ \A k \in DOMAIN packs : Positions(packs[k]) \subseteq 0 .. consumed - 1
     /\ droped = Cardinality({n \in 0 .. consumed - 1 : Dropped(n)})
     /\ \A k \in DOMAIN ranges :
          LET r == ranges[k]
              next == r[1] + r[2]
          IN /\ Total(r) <= MaxLength \/ (r[2] = 1 /\ oversize = "extend")
             /\ next < consumed => Total(r) + SampleLen(next) > MaxLength \/ Total(r) = MaxLength
=============================================================================
