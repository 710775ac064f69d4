----------------------------- MODULE PolicyUpdate -----------------------------
(***************************************************************************)
(* PPOTrainer.train_step() (core/trainers/ppo_trainer.py): rollouts are     *)
(* packed and divided among the data ranks, three models compute what the   *)
(* loss needs of every generated token, and critic and actor are trained,   *)
(* while PackedModel (core/trainers/packed_model.py) moves parameters,       *)
(* gradient buffers and optimizer states between host and device.           *)
(*                                                                         *)
(* A token is <<sample, position>>, and so is any number that belongs to    *)
(* it: the tensors are sequences of tokens.  Losses are those of            *)
(* playground/rlvr/qwen3_1p5b_rlvr_math.py.                                 *)
(***************************************************************************)
EXTENDS Integers, SequencesExt, FiniteSetsExt

CONSTANTS
  Setups,     \* [ranks, align, iters, epochs, warmup, skipRef, skipActor, offload]
  Rollouts,   \* what an iteration trains on: sequences of is_gen_mask
  SeqLength,  \* global_seq_length
  Iterations

UpdateAssumption ==
  /\ \A s \in Setups : s.ranks > 0 /\ s.align > 0 /\ s.iters > 0 /\ s.epochs > 0
  /\ \A rollout \in Rollouts : \A s \in DOMAIN rollout : ~rollout[s][1]

VARIABLES
  setup, iteration,
  pc,          \* the place in Program
  epoch, chunk,
  masks,       \* the is_gen_mask of every sample of the iteration
  packs,       \* my_samples: [data rank -> sequence of PackedPPOSamples]
  chunks,      \* [data rank -> what list_split() made of them]
  offloaded,   \* [model -> _offloaded]
  hooks,       \* [model -> how often gradients are added to main_grad]
  actorSteps,  \* actor_iteration
  dumped       \* [data rank -> <<sample, its advantages>> in the dump]

updateVars == <<setup, iteration, pc, epoch, chunk, masks, packs, chunks, offloaded, hooks,
                actorSteps, dumped>>

DataRanks == 0 .. setup.ranks - 1
Models == {"actor", "critic", "reference"}
TrainedModels == {"actor", "critic"}
-----------------------------------------------------------------------------
(* Packing.                                                                *)

Length(s) == Len(masks[s])
Size(ss) == FoldSeq(LAMBDA s, sum : sum + Length(s), 0, ss)

\* _group_samples(): first fit into the last group; what is too long is left out,
\* and so are the last groups if they are not as many as the ranks need.
Groups ==
  LET Add(groups, s) ==
        CASE Size(Last(groups)) + Length(s) <= SeqLength ->
               [groups EXCEPT ![Len(groups)] = Append(@, s)]
          [] Length(s) > SeqLength -> groups
          [] OTHER -> Append(groups, <<s>>)
      all == FoldLeftDomain(Add, << <<>> >>, masks)
  IN  SubSeq(all, 1, Len(all) - (Len(all) % setup.ranks))

\* balanced_list_split(): the largest first, to the rank that has least.
Balanced(groups) ==
  LET order == SetToSortSeq(DOMAIN groups, LAMBDA i, j :
                 \/ Size(groups[i]) > Size(groups[j])
                 \/ (Size(groups[i]) = Size(groups[j]) /\ i > j))
      Load(lists, d) == FoldSeq(LAMBDA g, sum : sum + Size(g), 0, lists[d])
      Least(lists) == CHOOSE d \in DataRanks : \A e \in DataRanks :
                        \/ Load(lists, d) < Load(lists, e)
                        \/ (Load(lists, d) = Load(lists, e) /\ d <= e)
  IN  FoldLeft(LAMBDA lists, i : [lists EXCEPT ![Least(lists)] = Append(@, groups[i])],
               [d \in DataRanks |-> <<>>], order)

Tokens(s) == [i \in 1 .. Length(s) |-> <<s, i>>]
Pad == <<0, 0>>
Shifted(s) == [i \in 1 .. Length(s) |-> IF i < Length(s) THEN <<s, i + 1>> ELSE Pad]
Generated(t) == t # Pad /\ masks[t[1]][t[2]]

\* Mutant: the mask of the tokens that go in, not of those that come out.
MaskOfInputs(ss) == FlattenSeq([k \in DOMAIN ss |->
  LET s == ss[k] IN [i \in 1 .. Length(s) |-> Generated(<<s, i>>)]])

MaskOfLabels(ss) == FlattenSeq([k \in DOMAIN ss |->
  LET s == ss[k] IN [i \in 1 .. Length(s) |-> Generated(Shifted(s)[i])]])

\* PackedPPOSamples.from_samples().
FromSamples(ss) ==
  LET size == Size(ss)
      pad == (-size) % setup.align
      Padded(seq, value) == seq \o [i \in 1 .. pad |-> value]
      labels == [k \in DOMAIN ss |-> Shifted(ss[k])]
      OwnLogprobs(s) == SelectSeq(Tokens(s), Generated)
  IN  [samples |-> ss,
       cu |-> [k \in 1 .. Len(ss) + 1 |-> IF k = Len(ss) + 1 THEN size + pad ELSE Size(SubSeq(ss, 1, k - 1))],
       input |-> Padded(FlattenSeq([k \in DOMAIN ss |-> Tokens(ss[k])]), Pad),
       labels |-> Padded(FlattenSeq(labels), Pad),
       mask |-> Padded(MaskOfLabels(ss), FALSE),
       logprobs |-> FlattenSeq([k \in DOMAIN ss |-> OwnLogprobs(ss[k])]),
       ref |-> <<>>, actor |-> <<>>, values |-> <<>>, advantages |-> <<>>]

\* The entries of a tensor at the places of the mask.
Masked(pack, tensor) ==
  LET places == SelectSeq([i \in DOMAIN tensor |-> i], LAMBDA i : pack.mask[i])
  IN  [k \in DOMAIN places |-> tensor[places[k]]]

\* vocab_parallel_cross_entropy() gives each place its label's log-probability,
\* the critic gives each place the value of the state before its label.
ForLabels(pack) == Masked(pack, pack.labels)

\* The generated tokens of sample k of a pack, between its cu_seqlens.
OfSample(pack, k) ==
  LET all == [i \in DOMAIN pack.labels |->
                IF i > pack.cu[k] /\ i <= pack.cu[k + 1] THEN pack.labels[i] ELSE Pad]
  IN  SelectSeq(Masked(pack, all), LAMBDA t : t # Pad)

\* get_advantage_and_returns(): compute_gae() on each sample, backwards; an
\* advantage depends on the values from its token to the end of its sample.
Advantages(pack) ==
  FlattenSeq([k \in DOMAIN pack.samples |->
    LET ts == OfSample(pack, k)
    IN  [i \in DOMAIN ts |-> [token |-> ts[i], from |-> SubSeq(ts, i, Len(ts))]]])

\* Mutant: the last chunks as short as the first.
EqualSplit(data, n) ==
  LET size == Len(data) \div n
  IN  [c \in 1 .. n |-> SubSeq(data, size * (c - 1) + 1, size * c)]

\* list_split(): as many chunks as iterations, the longer ones last.
ListSplit(data, n) ==
  LET size == Len(data) \div n
      short == n - (Len(data) % n)
      Start(c) == size * c + (IF c > short THEN c - short ELSE 0)
  IN  [c \in 1 .. n |-> SubSeq(data, Start(c - 1) + 1, Start(c))]

\* RaggedPPOSampleDumper: cut by the number of generated tokens of each sample.
Unpacked(pack) ==
  LET Count(k) == Cardinality({i \in pack.cu[k] + 1 .. pack.cu[k + 1] : pack.mask[i]})
      Before(k) == FoldSet(LAMBDA j, sum : sum + Count(j), 0, 1 .. k - 1)
  IN  [k \in DOMAIN pack.samples |->
         <<pack.samples[k], SubSeq(pack.advantages, Before(k) + 1, Before(k) + Count(k))>>]
-----------------------------------------------------------------------------
(* train_step(), one statement after the other on all processes.           *)

Unless(skip, statements) == IF skip THEN <<>> ELSE statements
Program ==
  << <<"offload_model", "actor">>, <<"offload_state", "actor">>, <<"generate", "">>, <<"pack", "">> >>
  \o Unless(setup.skipRef,
       << <<"backload_model", "reference">>, <<"forward", "reference">>, <<"offload_model", "reference">> >>)
  \o Unless(setup.skipActor,
       << <<"backload_model", "actor">>, <<"forward", "actor">>, <<"offload_model", "actor">> >>)
  \o << <<"backload_model", "critic">>, <<"forward", "critic">>, <<"backload_state", "critic">>,
        <<"chunk", "critic">>, <<"train", "critic">>,
        <<"offload_model", "critic">>, <<"offload_state", "critic">>,
        <<"backload_model", "actor">>, <<"backload_state", "actor">>,
        <<"chunk", "actor">>, <<"train", "actor">>,
        <<"offload_model", "actor">>, <<"offload_state", "actor">>, <<"dump", "">> >>

Op == IF pc[1] <= Len(Program) THEN Program[pc[1]][1] ELSE "end"
Model == Program[pc[1]][2]
Advance == pc' = <<pc[1] + 1, "">>

\* build_models_and_flow_controller(): all models wait on the host.
UpdateInit ==
  /\ setup \in Setups
  /\ iteration = 0 /\ pc = <<1, "">> /\ epoch = 0 /\ chunk = 0 /\ actorSteps = 0
  /\ masks = <<>> /\ packs = <<>> /\ chunks = <<>> /\ dumped = <<>>
  /\ offloaded = [m \in Models |->
       [params |-> TRUE, grad_buffer |-> m \in TrainedModels,
        optimizer_state |-> m \in TrainedModels]]
  /\ hooks = [m \in Models |-> 0]

data == <<masks, packs, chunks, dumped>>
counters == <<epoch, chunk, actorSteps>>
device == <<offloaded, hooks>>

\* Mutant: the hooks stay on parameters that move.
KeepsHooks ==
  /\ Op = "offload_model" /\ Advance
  /\ offloaded' = [offloaded EXCEPT ![Model].params = TRUE]
  /\ UNCHANGED <<setup, iteration, data, counters, hooks>>

\* _offload_param().
OffloadModel ==
  /\ Op = "offload_model" /\ Advance
  /\ IF offloaded[Model].params THEN UNCHANGED device
     ELSE /\ offloaded' = [offloaded EXCEPT ![Model].params = TRUE]
          /\ hooks' = [hooks EXCEPT ![Model] = 0]
  /\ UNCHANGED <<setup, iteration, data, counters>>

\* _backload_param().
BackloadModel ==
  /\ Op = "backload_model" /\ Advance
  /\ IF ~offloaded[Model].params THEN UNCHANGED device
     ELSE /\ offloaded' = [offloaded EXCEPT ![Model].params = FALSE]
          /\ hooks' = [hooks EXCEPT ![Model] = IF Model \in TrainedModels THEN @ + 1 ELSE @]
  /\ UNCHANGED <<setup, iteration, data, counters>>

\* offload_state() and backload_state(): gradient buffer and optimizer state.
MoveState ==
  /\ Op \in {"offload_state", "backload_state"} /\ Advance
  /\ LET off == Op = "offload_state"
     IN  offloaded' = [offloaded EXCEPT ![Model].grad_buffer = off, ![Model].optimizer_state = off]
  /\ UNCHANGED <<setup, iteration, data, counters, hooks>>

\* generate_trajectory() and filter_samples().
Generate ==
  /\ Op = "generate" /\ iteration < Iterations /\ Advance
  /\ masks' \in Rollouts
  /\ UNCHANGED <<setup, iteration, packs, chunks, dumped, counters, device>>

\* data_balance_and_pack(); shuffle() is some fixed order.
PackData ==
  /\ Op = "pack" /\ Len(Groups) > setup.ranks /\ Advance
  /\ LET lists == Balanced(Groups)
     IN  packs' = [d \in DataRanks |-> Reverse([i \in DOMAIN lists[d] |-> FromSamples(lists[d][i])])]
  /\ UNCHANGED <<setup, iteration, masks, chunks, dumped, counters, device>>

\* "No enougth rollout!" ends the job.
RaisesNoRollout ==
  /\ Op = "pack" /\ Len(Groups) <= setup.ranks
  /\ UNCHANGED updateVars

\* get_reference(), get_actor_logprob(), get_values_advantages().
Forward ==
  /\ Op = "forward" /\ Advance
  /\ packs' = [d \in DataRanks |-> [i \in DOMAIN packs[d] |->
       LET pack == packs[d][i]
       IN  CASE Model = "reference" -> [pack EXCEPT !.ref = ForLabels(pack)]
             [] Model = "actor" -> [pack EXCEPT !.actor = ForLabels(pack)]
             [] OTHER -> [pack EXCEPT !.advantages = Advantages(pack), !.values = ForLabels(pack)]]]
  /\ UNCHANGED <<setup, iteration, masks, chunks, dumped, counters, device>>

\* chunk_my_samples(), after normalize_advantages() for the actor.
Chunk ==
  /\ Op = "chunk" /\ Advance
  /\ chunks' = [d \in DataRanks |-> ListSplit(packs[d], Min({setup.iters, Len(packs[d])}))]
  /\ epoch' = 1 /\ chunk' = 1
  /\ UNCHANGED <<setup, iteration, masks, packs, dumped, actorSteps, device>>

Trains(m) == m = "actor" => actorSteps >= setup.warmup

\* forward_backward(), a collective of all ranks.
ForwardBackward ==
  /\ Op = "train" /\ pc[2] = "" /\ \A d \in DataRanks : chunk \in DOMAIN chunks[d]
  /\ pc' = [pc EXCEPT ![2] = "step"]
  /\ offloaded' = IF Trains(Model) /\ setup.offload
                  THEN [offloaded EXCEPT ![Model].optimizer_state = FALSE] ELSE offloaded
  /\ packs' = IF Model = "critic" THEN packs
              ELSE [d \in DataRanks |-> [i \in DOMAIN packs[d] |->
                      IF \E pack \in ToSet(chunks[d][chunk]) : pack.samples = packs[d][i].samples
                      THEN [packs[d][i] EXCEPT !.actor = ForLabels(packs[d][i])] ELSE packs[d][i]]]
  /\ UNCHANGED <<setup, iteration, masks, chunks, dumped, counters, hooks>>

\* optimizer_step(), except while the critic warms up; then the next chunk.
OptimizerStep ==
  /\ Op = "train" /\ pc[2] = "step"
  /\ actorSteps' = IF Model = "actor" THEN actorSteps + 1 ELSE actorSteps
  /\ LET last == \A d \in DataRanks : chunk = Len(chunks[d])
     IN  /\ chunk' = IF last THEN 1 ELSE chunk + 1
         /\ epoch' = IF last THEN epoch + 1 ELSE epoch
         /\ IF last /\ epoch = setup.epochs THEN Advance ELSE pc' = [pc EXCEPT ![2] = ""]
  /\ UNCHANGED <<setup, iteration, data, device>>

\* dump_all_samples(): RaggedPPOSampleDumper.
Dump ==
  /\ Op = "dump" /\ Advance
  /\ dumped' = [d \in DataRanks |-> FlattenSeq([i \in DOMAIN packs[d] |-> Unpacked(packs[d][i])])]
  /\ UNCHANGED <<setup, iteration, masks, packs, chunks, counters, device>>

\* train_iters is reached.
LoopEnds ==
  /\ Op = "generate" /\ iteration = Iterations
  /\ UNCHANGED updateVars

\* The next iteration of train_loop().
EndStep ==
  /\ Op = "end" /\ pc' = <<1, "">> /\ iteration' = iteration + 1
  /\ masks' = <<>> /\ packs' = <<>> /\ chunks' = <<>> /\ dumped' = <<>>
  /\ UNCHANGED <<setup, counters, device>>

UpdateNext ==
  \/ OffloadModel \/ BackloadModel \/ MoveState \/ Generate \/ PackData \/ RaisesNoRollout
  \/ Forward \/ Chunk \/ ForwardBackward \/ OptimizerStep \/ Dump \/ LoopEnds \/ EndStep
UpdateSpec == UpdateInit /\ [][UpdateNext]_updateVars
-----------------------------------------------------------------------------
\* A generated token is trained on with the log-probabilities, the value and the
\* advantage of that very token, the advantage looks as far as the end of its own
\* sample, and every sample that is not left out is in the chunks of exactly one
\* rank; the dump gives every sample its own advantages.  (from_samples(), the
\* three hacked_loss_fn, compute_gae(), list_split(), _unpack_samples().)
AlignedUpdate ==
  LET Own(s) == SelectSeq(Tokens(s), Generated)
      Same(tensor, pack) == tensor = <<>> \/ tensor = FlattenSeq([k \in DOMAIN pack.samples |-> Own(pack.samples[k])])
      Exact(pack) == LET ts == Own(pack[1]) IN
                       /\ Len(pack[2]) = Len(ts)
                       /\ \A i \in DOMAIN ts : pack[2][i] = [token |-> ts[i], from |-> SubSeq(ts, i, Len(ts))]
      Chunked(d) == FlattenSeq([i \in DOMAIN packs[d] |-> packs[d][i].samples])
  IN  /\ Op = "train" =>
           \A d \in DataRanks :
             /\ \A i \in DOMAIN packs[d] :
                  LET pack == packs[d][i]
                  IN  /\ \A tensor \in {pack.logprobs, pack.ref, pack.actor, pack.values, ForLabels(pack)} :
                           Same(tensor, pack)
                      /\ [k \in DOMAIN pack.advantages |-> pack.advantages[k].token] = pack.logprobs
             /\ FlattenSeq([c \in DOMAIN chunks[d] |-> [i \in DOMAIN chunks[d][c] |-> chunks[d][c][i].samples]])
                  = [i \in DOMAIN packs[d] |-> packs[d][i].samples]
      /\ Op = "chunk" =>
           LET all == FlattenSeq([d \in 1 .. setup.ranks |-> Chunked(d - 1)])
           IN  IsInjective(all) /\ ToSet(all) = UNION {ToSet(Groups[g]) : g \in DOMAIN Groups}
      /\ Op = "end" => \A d \in DataRanks : \A i \in DOMAIN dumped[d] : Exact(dumped[d][i])

\* Whatever computes is on the device, alone; a model that is trained adds every
\* gradient once, to a buffer that exists, and steps on a state that is on the
\* device; while rollouts are generated the device is free.  (PackedModel.)
OnDevice ==
  LET There(m) == ~offloaded[m].params
  IN  /\ Op \in {"forward", "train"} => \A m \in Models : There(m) <=> m = Model
      /\ Op = "train" => /\ hooks[Model] = 1 /\ ~offloaded[Model].grad_buffer
                         /\ pc[2] = "step" => ~offloaded[Model].optimizer_state
      /\ Op = "generate" => \A m \in Models : offloaded[m].params
                              /\ (m \in TrainedModels => offloaded[m].grad_buffer /\ offloaded[m].optimizer_state)
===============================================================================
