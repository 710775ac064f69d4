--------------------------- MODULE ParallelLayers ---------------------------
(***************************************************************************)
(* One microbatch through a decoder model whose tensors are divided among  *)
(* processes: tensor parallel layers (core/tensor_parallel), with or       *)
(* without sequence parallelism, and balanced context parallelism          *)
(* (core/context_parallel, model/common).  The weights are loaded from one *)
(* unified checkpoint by the reshaper (checkpointing/reshape_ops.py), and  *)
(* their gradients are averaged by the gradient manager.                   *)
(*                                                                         *)
(* All processes run the same program, and a step is one of its layers on  *)
(* all of them: what a collective exchanges is computed from the tensors   *)
(* of its group.  Floating-point numbers are integers modulo a prime.      *)
(* What works on one token or element at a time is left out (the division  *)
(* of a norm) or replaced by a product (SwiGLU); softmax is replaced by a  *)
(* sum over the keys a token sees, weighted by relative position, and exp  *)
(* and log of the loss by squares: they read the same elements.            *)
(***************************************************************************)
EXTENDS Matrices, FiniteSets, SequencesExt, FiniteSetsExt

CONSTANTS
  Meshes,        \* records [tp, cp, sp, core, qkNorm, window]
  Samples,       \* records [cu, ids, labels, masks]: one packed sample
  Weights,       \* the unified checkpoint: a record of matrices
  Heads, Groups  \* num_attention_heads, num_attention_groups; head_dim is 1

\* What the constructors and scatter_to_balanced_cp_region() assert.
LayersAssumption ==
  /\ Heads % Groups = 0
  /\ \A m \in Meshes :
       /\ Groups % m.tp = 0 /\ m.core \in {"flash", "sdpa"}
       /\ \A s \in Samples : Len(s.ids) % (2 * m.cp * m.tp) = 0
  /\ \A s \in Samples : s.cu[1] = 0 /\ s.cu[Len(s.cu)] = Len(s.ids)

VARIABLES
  mesh,    \* the configuration
  sample,  \* the microbatch
  phase,   \* "forward", "loss", "backward", "reduce" or "done"
  at,      \* the layer of Program that runs next
  acts,    \* the processes' tensors: [x, saved, skip, grads]
  dense    \* those of the same model on one process, for reference

vars == <<mesh, sample, phase, at, acts, dense>>

Ranks(m) == (0 .. m.cp - 1) \X (0 .. m.tp - 1)
CPOf(r) == r[1]
TPOf(r) == r[2]

\* The values of r's TP group and CP group.
TPGroup(m, x, r) == [t \in 0 .. m.tp - 1 |-> x[<<CPOf(r), t>>]]
CPGroup(m, x, r) == [c \in 0 .. m.cp - 1 |-> x[<<c, TPOf(r)>>]]

\* sequence_parallel_enabled is turned off without tensor parallelism.
SP(m) == m.sp /\ m.tp > 1

\* The layers in order, as TransformerBlock.forward() chains them: "push" keeps
\* the input of a residual connection, "add" adds it.
Program ==
  <<"embed", "push", "attention_norm", "wqkv", "qk_norm", "core_attention", "wo",
    "add", "push", "ffn_norm", "w1", "activation", "w2", "add", "norm", "output">>
-----------------------------------------------------------------------------
(* core/tensor_parallel/mappings.py.                                       *)

Reduce(m, x) == [r \in Ranks(m) |-> SumOf(m.tp, TPGroup(m, x, r))]
SplitFirst(m, x) == [r \in Ranks(m) |-> Chunk(x[r], m.tp, TPOf(r))]
GatherFirst(m, x) == [r \in Ranks(m) |-> Joined(m.tp, TPGroup(m, x, r))]
ReduceScatter(m, x) == SplitFirst(m, Reduce(m, x))

\* The sequence is whole inside the layers that are divided by TP.
Enter(m, x) == IF SP(m) THEN GatherFirst(m, x) ELSE x
Leave(m, x) == IF SP(m) THEN ReduceScatter(m, x) ELSE Reduce(m, x)
-----------------------------------------------------------------------------
(* core/context_parallel.                                                  *)

\* Chunk c and the c-th from the end.
ScatterCP(m, x, c) ==
  IF m.cp = 1 THEN x
  ELSE Chunk(x, 2 * m.cp, c) \o Chunk(x, 2 * m.cp, 2 * m.cp - 1 - c)

\* gather_from_balanced_cp_region(): the first halves, then the second ones
\* from the last rank to the first.
GatherCP(m, x, r) ==
  LET all == CPGroup(m, x, r)
      first == [c \in 0 .. m.cp - 1 |-> Chunk(all[c], 2, 0)]
      second == [c \in 0 .. m.cp - 1 |-> Chunk(all[m.cp - 1 - c], 2, 1)]
  IN  IF m.cp = 1 THEN x[r] ELSE Joined(m.cp, first) \o Joined(m.cp, second)

\* Its gradient: _reduce_scatter_along_first_dim().
GatherCPGrad(m, g, r) == ScatterCP(m, SumOf(m.cp, CPGroup(m, g, r)), CPOf(r))

\* The tokens of a process, in its order; a token's sample and place in it.
Tokens(m, s, r) == ScatterCP(m, [i \in DOMAIN s.ids |-> i - 1], CPOf(r))
Start(s, t) == Max({b \in ToSet(s.cu) : b <= t})
End(s, t) == Min({b \in ToSet(s.cu) : b > t})
Position(s, t) == t - Start(s, t)

\* The chunk of the sequence that holds t: all of it without CP.
ChunkSize(m, s) == IF m.cp = 1 THEN Len(s.ids) ELSE Len(s.ids) \div (2 * m.cp)
ChunkStart(m, s, t) == (t \div ChunkSize(m, s)) * ChunkSize(m, s)

\* Mutant: the keys of a piece start with the piece.
PieceOnly(m, s, t) ==
  LET from == Max({ChunkStart(m, s, t), Start(s, t)})
  IN  [from |-> from, keys |-> from,
       to |-> Min({ChunkStart(m, s, t) + ChunkSize(m, s), End(s, t)})]

\* cu_seqlens_to_balanced_cp(): the queries of one sample in a chunk, which are
\* those in from .. to - 1, and their keys, which start with the sample.
Piece(m, s, t) ==
  [from |-> Max({ChunkStart(m, s, t), Start(s, t)}), keys |-> Start(s, t),
   to |-> Min({ChunkStart(m, s, t) + ChunkSize(m, s), End(s, t)})]

\* The keys that t sees: causal, in a window.  Flash attention aligns the mask
\* with the last key of a piece, scaled_dot_product_attention with the first.
Allowed(m, s, t) ==
  LET p == Piece(m, s, t)
      last == t - p.from + (IF m.core = "flash" THEN p.from - p.keys ELSE 0)
  IN  {p.keys + j : j \in {j \in 0 .. p.to - p.keys - 1 :
                             j <= last /\ (m.window >= 0 => j >= last - m.window)}}
-----------------------------------------------------------------------------
(* The weights of a process, and the unified gradients: the operations of  *)
(* checkpointing/reshape_ops.py, forward and backward.                     *)

Pairs(n, k, v) == [j \in 1 .. 2 * n |-> IF j % 2 = 1 THEN k[(j + 1) \div 2] ELSE v[j \div 2]]

\* GQAMergeQKV: the queries, then keys and values of one group after another.
WQKV(m, t) ==
  Chunk(Weights.q, m.tp, t)
    \o Pairs(Groups \div m.tp, Chunk(Weights.k, m.tp, t), Chunk(Weights.v, m.tp, t))

LocalWeight(m, name, t) ==
  CASE name \in {"embed", "output"} -> Chunk(Weights[name], m.tp, t)  \* ColumnParallel
    [] name = "wqkv" -> WQKV(m, t)
    [] name \in {"wo", "w2"} -> ColChunk(Weights[name], m.tp, t)      \* RowParallel
    [] name = "w1" -> Chunk(Weights.gate, m.tp, t) \o Chunk(Weights.up, m.tp, t)
    [] OTHER -> Weights[name]                                         \* Duplicate

Norms == {"attention_norm", "ffn_norm", "norm", "qk_norm"}
Parameters == Norms \union {"embed", "wqkv", "wo", "w1", "w2", "output"}

\* The unified parameters of which a parameter is made, from its parts g.
Unified(m, name, g) ==
  LET heads == Heads \div m.tp
      groups == Groups \div m.tp
      Cat(part(_)) == Joined(m.tp, [t \in 0 .. m.tp - 1 |-> part(g[t])])
  IN  CASE name \in {"embed", "output"} -> <<Cat(LAMBDA w : w)>>
        [] name = "wqkv" ->
             <<Cat(LAMBDA w : SubSeq(w, 1, heads)),
               Cat(LAMBDA w : [j \in 1 .. groups |-> w[heads + 2 * j - 1]]),
               Cat(LAMBDA w : [j \in 1 .. groups |-> w[heads + 2 * j]])>>
        [] name \in {"wo", "w2"} -> <<ColJoined(m.tp, g)>>
        [] name = "w1" -> <<Cat(LAMBDA w : Chunk(w, 2, 0)), Cat(LAMBDA w : Chunk(w, 2, 1))>>
        [] OTHER -> <<g[0]>>
-----------------------------------------------------------------------------
(* The layers: what a process computes forward from x, and backward from   *)
(* the gradient g of its output, the input being x.  A backward function   *)
(* returns the gradients of the input and of the weight.                   *)

Local(m, name) == [r \in Ranks(m) |-> LocalWeight(m, name, TPOf(r))]

\* ColumnParallelLinear.
ColumnForward(m, name, x) ==
  LET w == Local(m, name) IN [r \in Ranks(m) |-> TimesT(Enter(m, x)[r], w[r])]
ColumnBackward(m, name, x, g) ==
  LET w == Local(m, name)
      total == Enter(m, x)
  IN  [input |-> Leave(m, [r \in Ranks(m) |-> Times(g[r], w[r])]),
       weight |-> [r \in Ranks(m) |-> Times(Transposed(g[r]), total[r])]]

\* RowParallelLinear, whose input is divided.
RowForward(m, name, x) ==
  LET w == Local(m, name) IN Leave(m, [r \in Ranks(m) |-> TimesT(x[r], w[r])])
RowBackward(m, name, x, g) ==
  LET w == Local(m, name)
      total == Enter(m, g)
  IN  [input |-> [r \in Ranks(m) |-> Times(total[r], w[r])],
       weight |-> [r \in Ranks(m) |-> Times(Transposed(total[r]), x[r])]]

\* SimpleVocabParallelEmbedding and WordEmbedding: rows of other ranks are zero.
Ids(m, s, r) == ScatterCP(m, s.ids, CPOf(r))
VocabStart(w, r) == TPOf(r) * Len(w)
EmbedForward(m, s) ==
  LET w == Local(m, "embed")
      Row(r, id) == LET v == id - VocabStart(w[r], r)
                    IN  IF v \in 0 .. Len(w[r]) - 1 THEN w[r][v + 1]
                        ELSE [j \in DOMAIN w[r][1] |-> 0]
      part == [r \in Ranks(m) |-> [i \in DOMAIN Ids(m, s, r) |-> Row(r, Ids(m, s, r)[i])]]
  IN  IF SP(m) THEN SplitFirst(m, Reduce(m, part)) ELSE Reduce(m, part)
EmbedBackward(m, s, g) ==
  LET w == Local(m, "embed")
      total == Enter(m, g)
      Hit(r, i, v) == IF Ids(m, s, r)[i] = VocabStart(w[r], r) + v - 1 THEN 1 ELSE 0
  IN  [r \in Ranks(m) |->
         Matrix(Len(w[r]), Width(w[r]),
           LAMBDA v, j : Sigma(1, Len(total[r]), LAMBDA i : Hit(r, i, v) * total[r][i][j]))]

\* RMSNorm without its division: a weight per column, the same on every rank.
NormForward(m, w, x) == [r \in Ranks(m) |-> Scaled(x[r], w[r])]
NormBackward(m, w, x, g) ==
  [input |-> [r \in Ranks(m) |-> Scaled(g[r], w[r])],
   weight |-> [r \in Ranks(m) |->
                 [j \in DOMAIN w[r] |->
                    Sigma(1, Len(x[r]), LAMBDA i : x[r][i][j] * g[r][i][j])]]]

\* q_norm and k_norm: one weight for the queries, one for the keys.  The
\* columns are the local queries, then a key and a value per local group.
IsQuery(m, j) == j <= Heads \div m.tp
IsKey(m, j) == ~IsQuery(m, j) /\ (j - Heads \div m.tp) % 2 = 1
QKWeight(m, j) == IF IsQuery(m, j) THEN Weights.qk_norm[1]
                  ELSE IF IsKey(m, j) THEN Weights.qk_norm[2] ELSE 1
QKRows(m, x) == [r \in Ranks(m) |-> [j \in 1 .. Width(x[r]) |-> QKWeight(m, j)]]
QKForward(m, x) == IF m.qkNorm THEN NormForward(m, QKRows(m, x), x) ELSE x
QKBackward(m, x, g) ==
  LET full == NormBackward(m, QKRows(m, x), x, g)
      Total(r, Is(_)) ==
        Sigma(1, Width(x[r]), LAMBDA j : IF Is(j) THEN full.weight[r][j] ELSE 0)
      none == [r \in Ranks(m) |-> <<0, 0>>]
  IN  IF m.qkNorm
      THEN [full EXCEPT !.weight = [r \in Ranks(m) |-> <<Total(r, LAMBDA j : IsQuery(m, j)),
                                                         Total(r, LAMBDA j : IsKey(m, j))>>]]
      ELSE [input |-> g, weight |-> none]

\* GroupedQueryAttention after the norms, and the attention core.
KeyOf(m, h) == Heads \div m.tp + 2 * ((h - 1) \div (Heads \div Groups)) + 1
Closeness(s, t, u) == 1 + Position(s, t) - Position(s, u)
CoreForward(m, s, x) ==
  [r \in Ranks(m) |->
     LET kv == GatherCP(m, x, r)
         tok == Tokens(m, s, r)
         Read(t, k) == FoldSet(LAMBDA u, sum : (sum + Mul(Closeness(s, t, u) * kv[u + 1][k],
                                                          kv[u + 1][k + 1])) % Prime,
                               0, Allowed(m, s, t))
     IN  Matrix(Len(tok), Heads \div m.tp,
           LAMBDA i, h : x[r][i][h] * Read(tok[i], KeyOf(m, h)))]

\* The part of the gradient of kv[u] that the queries of r contribute, by the
\* local heads of the group, and the gradient of its queries.
CoreBackward(m, s, x, g) ==
  LET heads == Heads \div m.tp
      kv == [r \in Ranks(m) |-> GatherCP(m, x, r)]
      Sees(r, u) == SetToSortSeq({i \in DOMAIN Tokens(m, s, r) :
                                    u \in Allowed(m, s, Tokens(m, s, r)[i])}, <)
      HeadsOf(k) == SetToSortSeq({h \in 1 .. heads : KeyOf(m, h) = k}, <)
      Sum(r, u, k) ==
        LET is == Sees(r, u)
            hs == HeadsOf(k)
        IN  Sigma(1, Len(is), LAMBDA a : Sigma(1, Len(hs), LAMBDA b :
              Mul(Closeness(s, Tokens(m, s, r)[is[a]], u) * g[r][is[a]][hs[b]],
                  x[r][is[a]][hs[b]])))
      KVGrad(r) ==
        Matrix(Len(kv[r]), Width(kv[r]), LAMBDA v, j :
          IF IsQuery(m, j) THEN 0
          ELSE IF IsKey(m, j) THEN Sum(r, v - 1, j) * kv[r][v][j + 1]
          ELSE Sum(r, v - 1, j - 1) * kv[r][v][j - 1])
      kvGrads == [r \in Ranks(m) |-> KVGrad(r)]
      ones == [r \in Ranks(m) |-> [i \in DOMAIN x[r] |->
                [j \in DOMAIN x[r][i] |-> IF IsQuery(m, j) THEN 1 ELSE x[r][i][j]]]]
      read == CoreForward(m, s, ones)
      QGrad(r, i, j) == IF IsQuery(m, j) THEN g[r][i][j] * read[r][i][j] ELSE 0
  IN  [r \in Ranks(m) |->
         Plus(Matrix(Len(x[r]), Width(x[r]), LAMBDA i, j : QGrad(r, i, j)),
              GatherCPGrad(m, kvGrads, r))]

\* SwiGLU: the product of the halves.
Gate(a, h) == ColChunk(a, 2, h)
ActForward(m, x) == [r \in Ranks(m) |-> Hadamard(Gate(x[r], 0), Gate(x[r], 1))]
ActBackward(m, x, g) ==
  [r \in Ranks(m) |-> ColJoined(2, [h \in 0 .. 1 |-> Hadamard(g[r], Gate(x[r], 1 - h))])]

\* vocab_parallel_cross_entropy() and loss_func(): the gradient of the logits.
\* The softmax of a rank is normalised by the sum over the whole vocabulary,
\* the target is on the rank whose partition has it.
LossGrad(m, s, logits) ==
  LET squares == [r \in Ranks(m) |->
                    [i \in DOMAIN logits[r] |->
                       <<Sigma(1, Width(logits[r]),
                               LAMBDA v : logits[r][i][v] * logits[r][i][v])>>]]
      norm == Reduce(m, squares)
      masked == Sigma(1, Len(s.masks), LAMBDA i : s.masks[i])
      Target(r, i, v) ==
        IF ScatterCP(m, s.labels, CPOf(r))[i] = TPOf(r) * Width(logits[r]) + v - 1 THEN 1 ELSE 0
      Scale(r, i) == Mul(ScatterCP(m, s.masks, CPOf(r))[i], Quotient(m.cp, masked))
  IN  [r \in Ranks(m) |->
         Matrix(Len(logits[r]), Width(logits[r]), LAMBDA i, v :
           Scale(r, i) * ((Mul(4 * norm[r][i][1], logits[r][i][v]) - Target(r, i, v)) % Prime))]
-----------------------------------------------------------------------------
(* The program.                                                            *)

NoGrad(m, name) == [r \in Ranks(m) |-> <<>>]
Fresh(m) == [x |-> [r \in Ranks(m) |-> <<>>], saved |-> <<>>, skip |-> <<>>,
             grads |-> [n \in Parameters |-> NoGrad(m, n)]]

Forward(m, s, layer, a) ==
  LET x == a.x IN
  CASE layer = "embed" -> EmbedForward(m, s)
    [] layer = "push" -> x
    [] layer = "add" -> [r \in Ranks(m) |-> Plus(a.skip[r], x[r])]
    [] layer \in {"wqkv", "w1", "output"} -> ColumnForward(m, layer, x)
    [] layer \in {"wo", "w2"} -> RowForward(m, layer, x)
    [] layer = "qk_norm" -> QKForward(m, x)
    [] layer \in Norms \ {"qk_norm"} -> NormForward(m, Local(m, layer), x)
    [] layer = "core_attention" -> CoreForward(m, s, x)
    [] layer = "activation" -> ActForward(m, x)

RunForward(m, s, k, a) ==
  [a EXCEPT !.x = Forward(m, s, Program[k], a),
            !.saved = Append(@, a.x),
            !.skip = IF Program[k] = "push" THEN a.x ELSE @]

\* A layer with a weight adds its gradient to main_grad.
RunBackward(m, s, k, a) ==
  LET layer == Program[k]
      x == a.saved[k]
      With(b) == [a EXCEPT !.x = b.input, !.grads[layer] = b.weight]
  IN  CASE layer = "embed" -> [a EXCEPT !.grads[layer] = EmbedBackward(m, s, a.x)]
        [] layer = "push" -> [a EXCEPT !.x = [r \in Ranks(m) |-> Plus(a.skip[r], a.x[r])]]
        [] layer = "add" -> [a EXCEPT !.skip = a.x]
        [] layer \in {"wqkv", "w1", "output"} -> With(ColumnBackward(m, layer, x, a.x))
        [] layer \in {"wo", "w2"} -> With(RowBackward(m, layer, x, a.x))
        [] layer = "qk_norm" -> With(QKBackward(m, x, a.x))
        [] layer \in Norms \ {"qk_norm"} -> With(NormBackward(m, Local(m, layer), x, a.x))
        [] layer = "core_attention" -> [a EXCEPT !.x = CoreBackward(m, s, x, a.x)]
        [] layer = "activation" -> [a EXCEPT !.x = ActBackward(m, x, a.x)]

\* param.sequence_parallel of RMSNorm.
Flagged(m, name) == m.sp /\ name \in Norms

\* _reduce_model_grads(): flagged gradients are summed over TP, then all are
\* averaged over the data parallel group, which contains the CP group.  A norm's
\* gradient is a vector: a matrix of one row.
ReducedGrads(m, a) ==
  LET Rows(name, g) == IF name \in Norms THEN [r \in Ranks(m) |-> <<g[r]>>] ELSE g
      Summed(name, g) == IF Flagged(m, name) THEN Reduce(m, g) ELSE g
      Mean(g) == [r \in Ranks(m) |->
                    LET sum == SumOf(m.cp, CPGroup(m, g, r))
                    IN  Matrix(Len(sum), Width(sum), LAMBDA i, j : Quotient(sum[i][j], m.cp))]
  IN  [name \in Parameters |-> Mean(Summed(name, Rows(name, a.grads[name])))]

Layers == Len(Program)

\* The reference: the same program on one process, with flash attention.
Alone(m) == [m EXCEPT !.tp = 1, !.cp = 1, !.core = "flash"]
One == <<0, 0>>

Init ==
  /\ mesh \in Meshes /\ sample \in Samples
  /\ phase = "forward" /\ at = 1
  /\ acts = Fresh(mesh) /\ dense = Fresh(Alone(mesh))

\* A step of all processes, and of the one of the reference.
Step(F(_, _)) == acts' = F(mesh, acts) /\ dense' = F(Alone(mesh), dense)

\* LlamaLikeModel.forward_head(), forward_chunk() and forward_tail().
ForwardLayer ==
  /\ phase = "forward"
  /\ Step(LAMBDA m, a : RunForward(m, sample, at, a))
  /\ at' = IF at < Layers THEN at + 1 ELSE at
  /\ phase' = IF at < Layers THEN "forward" ELSE "loss"
  /\ UNCHANGED <<mesh, sample>>

Loss ==
  /\ phase = "loss"
  /\ Step(LAMBDA m, a : [a EXCEPT !.x = LossGrad(m, sample, a.x)])
  /\ phase' = "backward"
  /\ UNCHANGED <<mesh, sample, at>>

BackwardLayer ==
  /\ phase = "backward"
  /\ Step(LAMBDA m, a : RunBackward(m, sample, at, a))
  /\ at' = IF at > 1 THEN at - 1 ELSE at
  /\ phase' = IF at > 1 THEN "backward" ELSE "reduce"
  /\ UNCHANGED <<mesh, sample>>

ReduceGrads ==
  /\ phase = "reduce"
  /\ Step(LAMBDA m, a : [a EXCEPT !.grads = ReducedGrads(m, a)])
  /\ phase' = "done"
  /\ UNCHANGED <<mesh, sample, at>>

Next == ForwardLayer \/ Loss \/ BackwardLayer \/ ReduceGrads
Spec == Init /\ [][Next]_vars
-----------------------------------------------------------------------------
\* The rows of a tensor of the whole sequence that a process holds outside the
\* divided layers.
RowsOf(m, x, r) ==
  LET own == ScatterCP(m, x, CPOf(r)) IN IF SP(m) THEN Chunk(own, m.tp, TPOf(r)) ELSE own

\* The hidden states between the layers, and the logits, are those of a model on
\* one process: every process has its tokens' rows, and of the logits the columns
\* of its part of the vocabulary.  (mappings.py, context_parallel.py, layers.py,
\* grouped_query_attention.py.)
ForwardDense ==
  LET whole == {"push", "attention_norm", "wqkv", "ffn_norm", "w1", "norm", "output"}
  IN  \A r \in Ranks(mesh) :
        /\ phase = "forward" /\ Program[at] \in whole =>
             acts.x[r] = RowsOf(mesh, dense.x[One], r)
        /\ phase = "loss" =>
             acts.x[r] = ColChunk(ScatterCP(mesh, dense.x[One], CPOf(r)), mesh.tp, TPOf(r))

\* The gradients that the optimizer gets, put together as a checkpoint is, are
\* those of one process, and replicas of a weight get the same on every process.
\* (The backward functions of the same files, and _reduce_model_grads().)
GradientsDense ==
  phase = "done" =>
    \A name \in Parameters, c \in 0 .. mesh.cp - 1 :
      LET g == TPGroup(mesh, acts.grads[name], <<c, 0>>)
      IN  /\ Unified(mesh, name, g)
               = Unified(Alone(mesh), name, [t \in {0} |-> dense.grads[name][One]])
          /\ name \in Norms => \A t \in DOMAIN g : g[t] = g[0]
=============================================================================
