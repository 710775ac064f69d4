--------------------------- MODULE ExpertParallel ---------------------------
(***************************************************************************)
(* A mixture-of-experts layer of one pipeline stage whose experts are      *)
(* divided among processes: MoEBlock (model/common/moe_block.py), the      *)
(* token dispatchers (model/ep_dispatcher), the routing of tokens to the   *)
(* rows of an expert's matrix (model/utils/moe_utils.py), recomputation in *)
(* the backward pass (core/tensor_parallel/random.py), and the balance     *)
(* bias, updated after each step (core/trainers/lm_trainer.py).            *)
(*                                                                         *)
(* All processes run the same program, and a step is one of its statements *)
(* on all of them.  Numbers are integers modulo a prime; softmax is left   *)
(* out (it keeps the order), SwiGLU is a product.                          *)
(***************************************************************************)
EXTENDS Matrices, ParallelMesh

CONSTANTS
  Topologies,    \* meshes with the fields sp, recompute and warmup
  Inputs,        \* the data: [step -> [microbatch -> [data rank -> rows]]]
  MicroBatches, Steps,
  Gate, W1, W2,  \* one row, and one matrix each, per expert
  TopK

E == Len(Gate)
Experts == 0 .. E - 1

\* The assertions of MoEBlock.forward(), and what ParallelConfig checks.
ExpertAssumption ==
  /\ TopK \in 1 .. E
  /\ \A t \in Topologies : Sane(t) /\ t.etp = 1 /\ E % t.ep = 0 /\ t.warmup <= MicroBatches

VARIABLES
  topo,    \* the configuration
  groups,  \* its process groups: [name -> [rank -> the ranks of its group]]
  step,    \* steps done
  at, pc,  \* the pass of Passes, and the statement of it that runs next
  cur,     \* the tensors of the pass, by rank
  record,  \* comm_record of each rank's dispatcher
  saved,   \* [microbatch -> the tensors kept for its backward pass]
  counts,  \* local_tokens_per_expert
  bias,    \* router_balance_bias
  grads,   \* main_grad: [gate, w1, w2], by rank
  ref      \* the bias of the same model on one process, for reference

vars == <<topo, groups, step, at, pc, cur, record, saved, counts, bias, grads, ref>>

Ranks == World(topo)
SP == topo.sp /\ topo.tp > 1
Local == E \div topo.ep               \* num_local_experts
RankOf(name, r) == SelectInSeq(groups[name][r], LAMBDA q : q = r) - 1
Place1(r) == RankOf("EP", r)          \* self.rank of the dispatcher
Group(r) == groups.EP[r]

\* PPScheduler's passes on one stage: warm-up, steady, cool-down.
Passes ==
  LET w == topo.warmup
      n == MicroBatches
  IN  [k \in 1 .. w |-> <<"forward", k - 1>>]
        \o [k \in 1 .. 2 * (n - w) |->
              IF k % 2 = 1 THEN <<"forward", w + k \div 2>> ELSE <<"backward", k \div 2 - 1>>]
        \o [k \in 1 .. w |-> <<"backward", n - w + k - 1>>]
Way == Passes[at][1]
Batch == Passes[at][2]
-----------------------------------------------------------------------------
(* One row through one expert, and back.                                   *)

Dot(u, v) == Sigma(1, Len(u), LAMBDA i : u[i] * v[i])
Apply(w, x) == [i \in DOMAIN w |-> Dot(w[i], x)]
Outer(g, x) == Matrix(Len(g), Len(x), LAMBDA i, j : g[i] * x[j])
Act(h) == LET n == Len(h) \div 2 IN [i \in 1 .. n |-> Mul(h[i], h[n + i])]

Through(e, x) == Apply(W2[e + 1], Act(Apply(W1[e + 1], x)))
Back(e, x, g) ==
  LET h == Apply(W1[e + 1], x)
      n == Len(h) \div 2
      da == Apply(Transposed(W2[e + 1]), g)
      dh == [i \in 1 .. 2 * n |-> IF i <= n THEN Mul(da[i], h[n + i]) ELSE Mul(da[i - n], h[i - n])]
  IN  [x |-> Apply(Transposed(W1[e + 1]), dh), w1 |-> Outer(dh, x), w2 |-> Outer(g, Act(h))]

Zero(x) == [i \in DOMAIN x |-> 0]
Added(u, v) == [i \in DOMAIN u |-> (u[i] + v[i]) % Prime]
ScaledBy(c, u) == [i \in DOMAIN u |-> Mul(c, u[i])]

\* The sum of f[i], rows like x, over the elements of a sequence of indices.
SumRows(is, x, f(_)) == FoldLeft(LAMBDA sum, i : Added(sum, f(i)), Zero(x), is)
-----------------------------------------------------------------------------
(* MoEGate and forward_router(), for one token: the experts by score and   *)
(* bias, the weights without the bias.                                     *)

Scores(x) == Apply(Gate, x)
Chosen(b, x) ==
  LET s == [e \in Experts |-> Scores(x)[e + 1] + b[e]]
  IN  SubSeq(SetToSortSeq(Experts, LAMBDA d, e : s[d] > s[e] \/ (s[d] = s[e] /\ d < e)), 1, TopK)
WeightsOf(x, ids) == [k \in DOMAIN ids |-> Scores(x)[ids[k] + 1]]
Places(ids) == (DOMAIN ids) \X (1 .. TopK)
Histogram(ids, es) ==
  [e \in es |-> Cardinality({p \in Places(ids) : ids[p[1]][p[2]] = e})]

\* The rows of rank r: its part of the sequence with sequence parallelism.
RowsOf(batch, r) ==
  LET whole == batch[RankOf("DP", r)]
  IN  IF SP THEN Chunk(whole, topo.tp, RankOf("TP", r)) ELSE whole

\* The gradient of a token's output, which any function of the token may be.
OutGrad(x) == [i \in DOMAIN x |-> x[Len(x) + 1 - i] + i]
-----------------------------------------------------------------------------
(* The dispatchers.                                                        *)

\* The tokens that have an expert on place d of the group, in order: each is
\* sent there once (TokenDispatcher, _build_rank_permute_map(); DeepEP's layout
\* is taken to be the same).
SentTo(ids, d) ==
  SetToSortSeq({i \in DOMAIN ids : \E k \in 1 .. TopK : ids[i][k] \div Local = d}, <)

\* comm_record of rank r after a dispatch of tokens with these experts.
RecordOf(ids, r) ==
  [send |-> [d \in 0 .. topo.ep - 1 |-> SentTo(ids[r], d)],
   recv |-> [s \in 0 .. topo.ep - 1 |-> SentTo(ids[Group(r)[s + 1]], Place1(r))]]

\* What rank r receives: the sources in order, and of each the tokens in order.
Sources(rec, r) ==
  FoldLeft(LAMBDA all, s :
             all \o [j \in DOMAIN rec[r].recv[s - 1] |-> <<Group(r)[s], rec[r].recv[s - 1][j]>>],
           <<>>, [s \in 1 .. topo.ep |-> s])

Received(rec, x, ids, weights, r) ==
  LET from == Sources(rec, r)
      Own(id) == id \div Local = Place1(r)
      At(f, j) == f[from[j][1]][from[j][2]]
  IN  [x |-> [j \in DOMAIN from |-> At(x, j)],
       ids |-> [j \in DOMAIN from |->
                  [k \in 1 .. TopK |-> IF Own(At(ids, j)[k]) THEN At(ids, j)[k] - Place1(r) * Local
                                       ELSE -1]],
       weights |-> [j \in DOMAIN from |->
                      [k \in 1 .. TopK |-> IF Own(At(ids, j)[k]) THEN At(weights, j)[k] ELSE 0]]]

\* The way back: f[q] on each rank q is split by its receive sizes, and what
\* belongs to a token of rank r is added, in rows like zero[i].
Offset(rec, q, s) == FoldSet(LAMBDA p, n : n + Len(rec[q].recv[p]), 0, 0 .. s - 1)
Returned(rec, f, zero, r) ==
  LET Row(d, i) ==
        LET q == Group(r)[d + 1]
            mine == rec[q].recv[Place1(r)]
        IN  f[q][Offset(rec, q, Place1(r)) + SelectInSeq(mine, LAMBDA t : t = i)]
      To(i) == SelectSeq([d \in 1 .. topo.ep |-> d - 1], LAMBDA d : i \in ToSet(rec[r].send[d]))
  IN  [i \in DOMAIN zero |-> SumRows(To(i), zero[i], LAMBDA d : Row(d, i))]
-----------------------------------------------------------------------------
(* routed_grouped_ffn() on a rank's rows, and its gradients.               *)

\* index_compute(): the place of (j, k) in the buffer ordered by expert.
Index(ids, hist, j, k) ==
  LET e == ids[j][k]
  IN  FoldSet(LAMBDA d, n : n + hist[d], 0, 0 .. e - 1)
        + Cardinality({p \in Places(ids) :
                         ids[p[1]][p[2]] = e /\ (p[1] < j \/ (p[1] = j /\ p[2] < k))})

\* moe_scatter() and the two grouped_gemm(): the places, the buffer's rows, the
\* expert whose segment each is in, and the outputs.
Grouped(r, recv) ==
  LET es == 0 .. Local - 1
      hist == Histogram(recv.ids, es)
      index == [p \in {p \in Places(recv.ids) : recv.ids[p[1]][p[2]] >= 0} |->
                  Index(recv.ids, hist, p[1], p[2])]
      total == FoldSet(LAMBDA e, n : n + hist[e], 0, es)
      Upto(e) == FoldSet(LAMBDA d, n : n + hist[d], 0, 0 .. e)
      Row(i) == LET ps == {p \in DOMAIN index : index[p] = i}
                IN  IF ps = {} THEN Zero(recv.x[1]) ELSE recv.x[(CHOOSE p \in ps : TRUE)[1]]
      Expert1(i) == Place1(r) * Local + Min({e \in es : i < Upto(e)})
  IN  [index |-> index,
       expert |-> [i \in 0 .. total - 1 |-> Expert1(i)],
       row |-> [i \in 0 .. total - 1 |-> Row(i)],
       out |-> [i \in 0 .. total - 1 |-> Through(Expert1(i), Row(i))]]

Ks(index, j) == SelectSeq([k \in 1 .. TopK |-> k], LAMBDA k : <<j, k>> \in DOMAIN index)

\* moe_weighted_gather().
Gathered(recv, g) ==
  [j \in DOMAIN recv.x |->
     SumRows(Ks(g.index, j), recv.x[j],
             LAMBDA k : ScaledBy(recv.weights[j][k], g.out[g.index[<<j, k>>]]))]

\* Its gradients, by place of the buffer, and of the weights of the tokens.
GatherBackward(recv, g, grad) ==
  [places |-> [i \in DOMAIN g.row |->
                 LET p == CHOOSE p \in DOMAIN g.index : g.index[p] = i
                 IN  Back(g.expert[i], g.row[i], ScaledBy(recv.weights[p[1]][p[2]], grad[p[1]]))],
   weights |-> [j \in DOMAIN recv.x |->
                  [k \in 1 .. TopK |-> IF <<j, k>> \in DOMAIN g.index
                                       THEN Dot(grad[j], g.out[g.index[<<j, k>>]]) ELSE 0]]]

\* The gradients of the rows, and of the experts.
ScatterBackward(recv, g, back) ==
  [j \in DOMAIN recv.x |->
     SumRows(Ks(g.index, j), recv.x[j], LAMBDA k : back.places[g.index[<<j, k>>]].x)]
ExpertGrad(g, back, id, zero, F(_)) ==
  FoldSet(LAMBDA i, sum : Plus(sum, F(back.places[i])), zero,
          {i \in DOMAIN g.row : g.expert[i] = id})
-----------------------------------------------------------------------------
(* The program.                                                            *)

NoTensors == [of |-> <<>>, x |-> <<>>, ids |-> <<>>, weights |-> <<>>, rec |-> <<>>,
              recv |-> <<>>, buf |-> <<>>, out |-> <<>>, back |-> <<>>, dx |-> <<>>]
NoRecord(t) == [r \in World(t) |-> <<>>]
NoGrads(t) ==
  [r \in World(t) |->
     [gate |-> Outer(Zero(Gate), Zero(Gate[1])),
      w1 |-> [e \in 0 .. E \div t.ep - 1 |-> Outer(Zero(W1[1]), Zero(W1[1][1]))],
      w2 |-> [e \in 0 .. E \div t.ep - 1 |-> Outer(Zero(W2[1]), Zero(W2[1][1]))]]]

Init ==
  /\ topo \in Topologies
  /\ groups = [name \in {"TP", "DP", "EP", "EDP"} |->
                 [r \in World(topo) |-> RanksOf(topo, name, r)]]
  /\ step = 0 /\ at = 1 /\ pc = "start"
  /\ cur = NoTensors /\ record = NoRecord(topo)
  /\ saved = [b \in 0 .. MicroBatches - 1 |-> NoTensors]
  /\ counts = [r \in World(topo) |-> [e \in Experts |-> 0]]
  /\ bias = [r \in World(topo) |-> [e \in Experts |-> 0]]
  /\ grads = NoGrads(topo)
  /\ ref = [e \in Experts |-> 0]

\* MoEBlock.forward(): the router, outside what is recomputed.
Route ==
  /\ pc = "start" /\ Way = "forward"
  /\ LET x == [r \in Ranks |-> RowsOf(Inputs[step][Batch], r)]
         ids == [r \in Ranks |-> [i \in DOMAIN x[r] |-> Chosen(bias[r], x[r][i])]]
     IN  /\ cur' = [NoTensors EXCEPT
                      !.of = <<Way, Batch>>, !.x = x, !.ids = ids,
                      !.weights = [r \in Ranks |-> [i \in DOMAIN x[r] |->
                                                     WeightsOf(x[r][i], ids[r][i])]]]
         /\ counts' = [r \in Ranks |-> LET h == Histogram(ids[r], Experts)
                                      IN  [e \in Experts |-> counts[r][e] + h[e]]]
  /\ pc' = "dispatch"
  /\ UNCHANGED <<topo, groups, step, at, record, saved, bias, grads, ref>>

\* CheckpointFunction.backward(), or autograd with all that forward() kept.
Resume ==
  /\ pc = "start" /\ Way = "backward"
  /\ cur' = [saved[Batch] EXCEPT !.of = <<Way, Batch>>]
  /\ pc' = IF topo.recompute THEN "dispatch" ELSE "backward"
  /\ UNCHANGED <<topo, groups, step, at, record, saved, counts, bias, grads, ref>>

\* Mutant: a dispatcher keeps the record of its last dispatch for a recomputation.
KeepsRecord(ids) ==
  IF Way = "backward" THEN record ELSE [r \in Ranks |-> RecordOf(ids, r)]

NewRecord(ids) == [r \in Ranks |-> RecordOf(ids, r)]

\* gather_from_sequence_parallel_region(f, "ETP"), of forward_experts_tp(): "ETP"
\* is taken for tensor_parallel_output_grad, and the group is the default one, TP.
GatheredRows(f, r) ==
  IF SP THEN FoldLeft(LAMBDA all, q : all \o f[q], <<>>, groups.TP[r]) ELSE f[r]

\* dispatch(), for experts that are divided.
Dispatch ==
  /\ pc = "dispatch"
  /\ record' = IF topo.ep > 1 THEN NewRecord(cur.ids) ELSE record
  /\ cur' = [cur EXCEPT
                !.rec = record',
                !.recv = [r \in Ranks |->
                   IF topo.ep > 1 THEN Received(record', cur.x, cur.ids, cur.weights, r)
                   ELSE [x |-> GatheredRows(cur.x, r), ids |-> GatheredRows(cur.ids, r),
                         weights |-> GatheredRows(cur.weights, r)]]]
  /\ pc' = "experts"
  /\ UNCHANGED <<topo, groups, step, at, saved, counts, bias, grads, ref>>

\* GroupedExperts.forward(): the rows through the experts, then back in order.
RunExperts ==
  /\ pc = "experts"
  /\ cur' = [cur EXCEPT !.buf = [r \in Ranks |-> Grouped(r, cur.recv[r])]]
  /\ pc' = "gather"
  /\ UNCHANGED <<topo, groups, step, at, record, saved, counts, bias, grads, ref>>

Gather ==
  /\ pc = "gather"
  /\ cur' = [cur EXCEPT !.out = [r \in Ranks |-> Gathered(cur.recv[r], cur.buf[r])]]
  /\ pc' = "combine"
  /\ UNCHANGED <<topo, groups, step, at, record, saved, counts, bias, grads, ref>>

NextPass ==
  /\ at' = IF at < Len(Passes) THEN at + 1 ELSE at
  /\ pc' = IF at < Len(Passes) THEN "start" ELSE "update"

\* combine(), with the record of the dispatcher, or slice_to_..._region() over ETP,
\* of one rank; forward() then reshapes the rows to those of its input, which may
\* fail.  A forward pass keeps its tensors, under checkpoint() the inputs only.
Combine ==
  /\ pc = "combine"
  /\ cur' = [cur EXCEPT !.out = [r \in Ranks |->
                IF topo.ep > 1 THEN Returned(record, cur.out, cur.x[r], r) ELSE cur.out[r]]]
  /\ IF \E r \in Ranks : Len(cur'.out[r]) # Len(cur.x[r])
     THEN pc' = "raised" /\ UNCHANGED <<at, saved>>
     ELSE IF Way = "backward" THEN pc' = "backward" /\ UNCHANGED <<at, saved>>
     ELSE /\ NextPass
          /\ saved' = [saved EXCEPT ![Batch] =
               IF topo.recompute
               THEN [NoTensors EXCEPT !.x = cur.x, !.ids = cur.ids, !.weights = cur.weights]
               ELSE cur']
  /\ UNCHANGED <<topo, groups, step, record, counts, bias, grads, ref>>

\* The backward functions of combine() and of the experts, with the sizes that
\* the pass's own autograd graph holds.
BackwardExperts ==
  /\ pc = "backward"
  /\ LET Grad(q, i) == OutGrad(cur.x[q][i])
         Out(r) == IF topo.ep = 1 THEN [i \in DOMAIN cur.x[r] |-> Grad(r, i)]
                   ELSE LET from == Sources(cur.rec, r)
                        IN  [j \in DOMAIN from |-> Grad(from[j][1], from[j][2])]
     IN  cur' = [cur EXCEPT !.back = [r \in Ranks |->
                   GatherBackward(cur.recv[r], cur.buf[r], Out(r))]]
  /\ pc' = "return"
  /\ UNCHANGED <<topo, groups, step, at, record, saved, counts, bias, grads, ref>>

\* Those of dispatch() and of the gate; the hooks add to main_grad.
BackwardRouter ==
  /\ pc = "return"
  /\ LET Rows(q) == ScatterBackward(cur.recv[q], cur.buf[q], cur.back[q])
         Home(F(_), zero, r) ==
           IF topo.ep = 1 THEN F(r) ELSE Returned(cur.rec, [q \in ToSet(Group(r)) |-> F(q)], zero, r)
         dw == [r \in Ranks |-> Home(LAMBDA q : cur.back[q].weights, cur.weights[r], r)]
         Logits(r, i) ==
           [e \in 1 .. E |-> Sigma(1, TopK, LAMBDA k : IF cur.ids[r][i][k] = e - 1 THEN dw[r][i][k] ELSE 0)]
         Input(r) == LET dx == Home(Rows, cur.x[r], r)
                     IN  [i \in DOMAIN dx |-> Added(dx[i], Apply(Transposed(Gate), Logits(r, i)))]
         Grads(r, F(_), old, zero) ==
           [e \in 0 .. Local - 1 |->
              Plus(old[e], ExpertGrad(cur.buf[r], cur.back[r], Place1(r) * Local + e, zero, F))]
     IN  /\ cur' = [cur EXCEPT !.dx = [r \in Ranks |-> Input(r)]]
         /\ grads' = [r \in Ranks |->
              [gate |-> Plus(grads[r].gate,
                             Times(Transposed([i \in DOMAIN cur.x[r] |-> Logits(r, i)]), cur.x[r])),
               w1 |-> Grads(r, LAMBDA b : b.w1, grads[r].w1, Outer(Zero(W1[1]), Zero(W1[1][1]))),
               w2 |-> Grads(r, LAMBDA b : b.w2, grads[r].w2, Outer(Zero(W2[1]), Zero(W2[1][1])))]]
  /\ NextPass
  /\ UNCHANGED <<topo, groups, step, record, saved, counts, bias, ref>>

Sign(n) == IF n > 0 THEN 1 ELSE IF n < 0 THEN -1 ELSE 0
Summed(f, group) == [e \in Experts |-> FoldLeft(LAMBDA n, r : n + f[r][e], 0, group)]

\* The counts of the stage: summed over EP, then over EDP.
StageCounts ==
  LET inGroup == [r \in Ranks |-> Summed(counts, Group(r))]
  IN  [r \in Ranks |-> Summed(inGroup, groups.EDP[r])]

Balanced(b, n) ==
  LET total == FoldSet(LAMBDA e, sum : sum + n[e], 0, Experts)
  IN  [e \in Experts |-> b[e] + Sign(total - E * n[e])]

\* All tokens of a step on one process.
DataRanks == 0 .. Len(groups.DP[0]) - 1
Tokens(batch) == FoldLeft(LAMBDA all, d : all \o batch[d - 1], <<>>, [d \in 1 .. Cardinality(DataRanks) |-> d])
StepTokens == FoldLeft(LAMBDA all, b : all \o Tokens(Inputs[step][b - 1]), <<>>,
                       [b \in 1 .. MicroBatches |-> b])

\* update_router_balance_bias_per_gbs(), and zero_grad() of the next step.
Update ==
  /\ pc = "update"
  /\ bias' = [r \in Ranks |-> Balanced(bias[r], StageCounts[r])]
  /\ counts' = [r \in Ranks |-> [e \in Experts |-> 0]]
  /\ grads' = NoGrads(topo)
  /\ ref' = Balanced(ref, Histogram([i \in DOMAIN StepTokens |-> Chosen(ref, StepTokens[i])], Experts))
  /\ step' = step + 1 /\ at' = 1
  /\ pc' = IF step + 1 < Steps THEN "start" ELSE "done"
  /\ cur' = NoTensors
  /\ UNCHANGED <<topo, groups, record, saved>>

Next ==
  \/ Route \/ Resume \/ Dispatch \/ RunExperts \/ Gather \/ Combine
  \/ BackwardExperts \/ BackwardRouter \/ Update
Spec == Init /\ [][Next]_vars
-----------------------------------------------------------------------------
(* The layer on one process, token by token.                               *)

\* The weight of expert e for a token: 0 if it is not chosen.
DenseWeight(x, e) == IF e \in ToSet(Chosen(ref, x)) THEN Scores(x)[e + 1] ELSE 0
DenseOut(x) ==
  FoldSet(LAMBDA e, sum : Added(sum, ScaledBy(DenseWeight(x, e), Through(e, x))), Zero(x), Experts)

\* The gradient of expert e, and of the score of e, by a token.
DenseBack(x, e) == Back(e, x, ScaledBy(DenseWeight(x, e), OutGrad(x)))
ScoreGrad(x, e) ==
  IF e \in ToSet(Chosen(ref, x)) THEN Dot(OutGrad(x), Through(e, x)) ELSE 0
DenseInput(x) ==
  FoldSet(LAMBDA e, sum : Added(sum, Added(DenseBack(x, e).x, ScaledBy(ScoreGrad(x, e), Gate[e + 1]))),
          Zero(x), Experts)

\* A rank's output is that of its tokens on one process, forward and when a
\* backward pass computes it again, whatever passes ran in between; and so is the
\* gradient of its input.  (MoEBlock.forward(), the dispatchers, moe_utils.py.)
TokensDense ==
  pc \in {"start", "backward", "update"} /\ cur.of # <<>> =>
    \A r \in Ranks :
      LET x == RowsOf(Inputs[step][cur.of[2]], r)
      IN  /\ cur.out[r] = [i \in DOMAIN x |-> DenseOut(x[i])]
          /\ cur.dx # <<>> => cur.dx[r] = [i \in DOMAIN x |-> DenseInput(x[i])]

\* A rank's output has the rows of its input, unless sequence parallelism divides
\* the rows of experts that are not divided: then every pass fails at its end, and
\* none computes anything else than the tokens' outputs.  (forward_experts_tp().)
Reshaped ==
  /\ pc = "raised" => SP /\ topo.ep = 1
  /\ SP /\ topo.ep = 1 => pc # "backward" /\ at = 1

MatrixSum(is, zero, f(_)) ==
  FoldLeft(LAMBDA sum, i : Plus(sum, f(i)), Outer(Zero(zero), Zero(zero[1])), is)

\* When the step's passes are done, the ranks that hold an expert have together
\* the gradient of all tokens (once for each TP rank, when each has them all);
\* the ranks of a data rank have that of the gate; and the bias of every rank
\* follows the counts of all tokens of the step.  (GroupedExperts, MoEGate,
\* update_router_balance_bias_per_gbs().)
StepDense ==
  /\ \A r \in Ranks : bias[r] = ref
  /\ pc = "update" =>
       LET Once(w) == IF SP THEN w ELSE [i \in DOMAIN w |-> ScaledBy(topo.tp, w[i])]
           All(zero, F(_)) == MatrixSum(StepTokens, zero, F)
           Mine(r) == FoldLeft(LAMBDA all, b : all \o Inputs[step][b - 1][RankOf("DP", r)],
                               <<>>, [b \in 1 .. MicroBatches |-> b])
           Scored(x) == [e \in 1 .. E |-> ScaledBy(ScoreGrad(x, e - 1), x)]
       IN  \A r \in Ranks :
             /\ \A e \in 0 .. Local - 1 :
                  LET id == Place1(r) * Local + e
                      holders == groups.EDP[r]
                  IN  /\ MatrixSum(holders, W1[1], LAMBDA q : grads[q].w1[e])
                           = Once(All(W1[1], LAMBDA x : DenseBack(x, id).w1))
                      /\ MatrixSum(holders, W2[1], LAMBDA q : grads[q].w2[e])
                           = Once(All(W2[1], LAMBDA x : DenseBack(x, id).w2))
             /\ MatrixSum(IF SP THEN groups.TP[r] ELSE <<r>>, Gate, LAMBDA q : grads[q].gate)
                  = MatrixSum(Mine(r), Gate, Scored)
=============================================================================
