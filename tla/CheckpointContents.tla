-------------------------- MODULE CheckpointContents --------------------------
(***************************************************************************)
(* What the files of a checkpoint hold, and what each process of a         *)
(* restarted job makes of them: the states that every rank saves           *)
(* (checkpointing/local_checkpoint.py), which of them are broadcast when   *)
(* they are loaded, and the same weights as safetensors, which any mesh    *)
(* can load (hf_checkpoint.py, utils/weight_loader.py): the reshaper       *)
(* (reshape_ops.py) of the Qwen and Step models cuts the published tensors *)
(* into those of a rank, and puts them together again.                     *)
(*                                                                         *)
(* All tensors are stacks: sequences of matrices, of one matrix unless     *)
(* they hold a layer's experts.  Names are short tuples.                   *)
(***************************************************************************)
EXTENDS Matrices, ParallelMesh, TLC

CONSTANTS
  Plans,      \* the jobs: records [arch, first, second, via, manager, distributed, options]
  Published,  \* the safetensors the first run loads: [arch -> [name -> stack]]
  NumLayers, MoELayers, NumExperts,
  KVHeads, HeadDim, GateDims,  \* of the whole model
  Vocab       \* vocab_size of the embeddings: the published rows are padded to it

\* Meshes have a field vpp, and divide what they cut.  Native checkpoints need
\* the same cut of the model again (find_rank_specific_path()), of the experts
\* too; and optimizer states the same ranks, since nothing reshards them.
ContentsAssumption ==
  \A p \in Plans :
    /\ \A m \in {p.first, p.second} :
         /\ Sane(m) /\ NumLayers % (m.pp * m.vpp) = 0 /\ NumExperts % m.ep = 0
         /\ Vocab % m.tp = 0 /\ KVHeads % m.tp = 0 /\ GateDims % m.tp = 0
    /\ p.via = "native" =>
         /\ \A f \in {"tp", "pp", "ep", "etp", "vpp"} : p.first[f] = p.second[f]
         /\ p.options.optimizer => p.first = p.second

VARIABLES
  plan, mesh,
  groups,   \* the process groups: [name -> [rank -> the ranks of its group]]
  phase,
  weights,  \* the models of a rank: [rank -> [chunk -> [parameter -> stack]]]
  state,    \* its other states: [rank -> [optimizer, rng, iteration, data]]
  files,    \* the checkpoint directory: [name -> contents]
  hf, index,  \* the safetensors files and their index
  own, dp0  \* this_rank_data and dp_0_data

vars == <<plan, mesh, groups, phase, weights, state, files, hf, index, own, dp0>>

None == <<>>
AllRanks == World(mesh)
RankOf(name, r) == SelectInSeq(groups[name][r], LAMBDA q : q = r) - 1
Size(name) == Len(groups[name][0])
IAm(name, k, r) == RankOf(name, r) = k
Used == {"TP", "PP", "DP", "EP", "ETP", "EDP"}
GroupsOf(m) == [name \in Used |-> [r \in World(m) |-> RanksOf(m, name, r)]]
-----------------------------------------------------------------------------
(* reshape_ops.py: forward, from the published names and tensors to a      *)
(* rank's own, and backward.  A piece is a function from what tells its    *)
(* names apart to stacks, or to lists of stacks, one for each rank of a    *)
(* group of n, of which this rank is the k-th.                             *)

\* A stack cut by the rows or the columns of its matrices.
RowsCut(v, n, k) == [e \in DOMAIN v |-> Chunk(v[e], n, k)]
ColsCut(v, n, k) == [e \in DOMAIN v |-> ColChunk(v[e], n, k)]
RowsJoined(n, vs) == [e \in DOMAIN vs[0] |-> Joined(n, [j \in 0 .. n - 1 |-> vs[j][e]])]
ColsJoined(n, vs) == [e \in DOMAIN vs[0] |-> ColJoined(n, [j \in 0 .. n - 1 |-> vs[j][e]])]
OnlyMine(n, k, v) == [j \in 0 .. n - 1 |-> IF j = k THEN v ELSE None]

\* VocabPad, with actual_vocab_size not given: backward, padding stays.
Padded(rows) ==
  IF Len(rows) >= Vocab THEN SubSeq(rows, 1, Vocab)
  ELSE rows \o [i \in 1 .. Vocab - Len(rows) |-> rows[Len(rows)]]
VocabPad(piece) == [x \in DOMAIN piece |-> [e \in DOMAIN piece[x] |-> Padded(piece[x][e])]]

ColumnParallel(piece, n) ==
  [x \in DOMAIN piece |-> [j \in 0 .. n - 1 |-> RowsCut(piece[x], n, j)]]
ColumnBack(piece, n) == [x \in DOMAIN piece |-> RowsJoined(n, piece[x])]

RowParallel(piece, n) ==
  [x \in DOMAIN piece |-> [j \in 0 .. n - 1 |-> ColsCut(piece[x], n, j)]]
RowBack(piece, n) == [x \in DOMAIN piece |-> ColsJoined(n, piece[x])]

\* Duplicate; backward it breaks if the ranks' copies differ.
Duplicate(piece, n) == [x \in DOMAIN piece |-> [j \in 0 .. n - 1 |-> piece[x]]]
DuplicateBack(piece, n) ==
  [x \in DOMAIN piece |->
     IF \A j \in 0 .. n - 1 : piece[x][j] = piece[x][0] THEN piece[x][0] ELSE None]

\* KeepThisTP; backward the pieces of the group's ranks are gathered.
KeepThisTP(piece, k) == [x \in DOMAIN piece |-> piece[x][k]]
KeepBack(pieces, group) ==
  [x \in DOMAIN pieces[group[1]] |-> [j \in 0 .. Len(group) - 1 |-> pieces[group[j + 1]][x]]]

\* KeepThisEP.
KeepThisEP(piece, n, k) ==
  IF n = 1 THEN piece ELSE [x \in DOMAIN piece |-> Chunk(piece[x], n, k)]
KeepEPBack(pieces, group) ==
  [x \in DOMAIN pieces[group[1]] |->
     FoldLeft(LAMBDA all, q : all \o pieces[q][x], <<>>, group)]

\* Inverse(UnbindMoE): the experts in a stack, by number; backward, one by one.
BindMoE(piece) ==
  [y \in {x[2] : x \in DOMAIN piece} |-> [e \in 1 .. NumExperts |-> piece[<<e - 1, y>>][1]]]
UnbindMoE(piece) ==
  [x \in (0 .. NumExperts - 1) \X DOMAIN piece |-> <<piece[x[2]][x[1] + 1]>>]

\* Keys and values, one group of heads after the other.
Interleaved(g, k, v) ==
  Joined(2 * g, [j \in 0 .. 2 * g - 1 |-> Chunk(IF j % 2 = 0 THEN k ELSE v, g, j \div 2)])
Every2nd(g, kv, first) == Joined(g, [j \in 0 .. g - 1 |-> Chunk(kv, 2 * g, 2 * j + first)])

\* GQAMergeQKV, GQAMergeQKVBias, and GQAMergeQKVG if the piece has gates.
MergeQKV(piece, n, k) ==
  LET c == [x \in DOMAIN piece |-> Chunk(piece[x][1], n, k)]
      gates == IF "g" \in DOMAIN piece THEN c.g ELSE <<>>
  IN  [w |-> OnlyMine(n, k, <<c.q \o Interleaved(KVHeads \div n, c.k, c.v) \o gates>>)]
MergeQKVBack(piece, n, gateDims) ==
  LET nkv == (2 * KVHeads * HeadDim) \div n
      ng == gateDims \div n
      t == [j \in 0 .. n - 1 |-> piece.w[j][1]]
      nq == Len(t[0]) - nkv - ng
      Part(from, to) == Joined(n, [j \in 0 .. n - 1 |-> SubSeq(t[j], from, to)])
      Of(first) == Joined(n, [j \in 0 .. n - 1 |->
                                Every2nd(KVHeads \div n, SubSeq(t[j], nq + 1, nq + nkv), first)])
      qkv == [q |-> <<Part(1, nq)>>, k |-> <<Of(0)>>, v |-> <<Of(1)>>]
  IN  IF ng = 0 THEN qkv ELSE qkv @@ [g |-> <<Part(nq + nkv + 1, nq + nkv + ng)>>]

\* FFNMergeGateUp.
MergeGateUp(piece, n, k) ==
  LET gate == RowsCut(piece.gate, n, k)
      up == RowsCut(piece.up, n, k)
  IN  [w |-> OnlyMine(n, k, [e \in DOMAIN gate |-> gate[e] \o up[e]])]
MergeGateUpBack(piece, n) ==
  LET Half(h) == [j \in 0 .. n - 1 |-> RowsCut(piece.w[j], 2, h)]
  IN  [gate |-> RowsJoined(n, Half(0)), up |-> RowsJoined(n, Half(1))]

\* An operation of a script, on rank r.
Forward(piece, op, r) ==
  LET n == Size(op.group)
      k == RankOf(op.group, r)
  IN  CASE op.name = "pad" -> VocabPad(piece)
        [] op.name = "column" -> ColumnParallel(piece, n)
        [] op.name = "row" -> RowParallel(piece, n)
        [] op.name = "duplicate" -> Duplicate(piece, n)
        [] op.name = "keep" -> KeepThisTP(piece, k)
        [] op.name = "keep_ep" -> KeepThisEP(piece, n, k)
        [] op.name = "bind" -> BindMoE(piece)
        [] op.name \in {"qkv", "qkvg"} -> MergeQKV(piece, n, k)
        [] op.name = "gate_up" -> MergeGateUp(piece, n, k)

\* The same backward, from the pieces of the ranks of a pipeline stage.
Backward(pieces, op, r) ==
  LET n == Size(op.group)
      piece == pieces[r]
  IN  CASE op.name = "pad" -> piece
        [] op.name = "column" -> ColumnBack(piece, n)
        [] op.name = "row" -> RowBack(piece, n)
        [] op.name = "duplicate" -> DuplicateBack(piece, n)
        [] op.name = "keep" -> KeepBack(pieces, groups[op.group][r])
        [] op.name = "keep_ep" -> IF n = 1 THEN piece ELSE KeepEPBack(pieces, groups[op.group][r])
        [] op.name = "bind" -> UnbindMoE(piece)
        [] op.name = "qkv" -> MergeQKVBack(piece, n, 0)
        [] op.name = "qkvg" -> MergeQKVBack(piece, n, GateDims)
        [] op.name = "gate_up" -> MergeGateUpBack(piece, n)
-----------------------------------------------------------------------------
(* The scripts of a model (qwen_dense.py, step3p5.py): for a parameter,    *)
(* the published names it is made of, and how.                             *)

Ops(names, group) == [i \in DOMAIN names |-> [name |-> names[i], group |-> group]]
Script(dst, src, ops) == dst :> [src |-> src, ops |-> ops]
Column(dst, name) == Script(dst, [w |-> name], Ops(<<"pad", "column", "keep">>, "TP"))
Copied(dst, name) == Script(dst, [w |-> name], Ops(<<"duplicate", "keep">>, "TP"))
Rows(dst, name) == Script(dst, [w |-> name], Ops(<<"row", "keep">>, "TP"))
GateUp(dst, gate, up) ==
  Script(dst, [gate |-> gate, up |-> up], Ops(<<"gate_up", "keep">>, "TP"))

\* _build_default_layer_map(): the layers of chunk c on stage p.
LayersOf(m, p, c) ==
  LET n == NumLayers \div (m.pp * m.vpp)
  IN  [i \in 1 .. n |-> (c * m.pp + p) * n + i - 1]

NoScripts == [d \in {} |-> None]
HeadScripts(m, p, c) ==
  IF p > 0 \/ c > 0 THEN NoScripts ELSE Column(<<"tok_embeddings">>, <<"embed_tokens">>)
TailScripts(m, p, c) ==
  IF p < m.pp - 1 \/ c < m.vpp - 1 THEN NoScripts
  ELSE Column(<<"output">>, <<"lm_head">>) @@ Copied(<<"norm">>, <<"model.norm">>)

\* Attention and norms of layer g, the l-th of its chunk; Qwen's may have biases,
\* Step's have gates.
AttentionScripts(arch, l, g) ==
  LET Name(x) == <<"layers", g, x>>
      Norm(x) == Copied(<<l, x>>, Name(x))
      heads == IF arch = "qwen" THEN {"q", "k", "v"} ELSE {"q", "k", "v", "g"}
      merge == IF arch = "qwen" THEN "qkv" ELSE "qkvg"
      bias == Script(<<l, "bias">>, [x \in heads |-> <<"layers", g, x, "bias">>],
                     Ops(<<"qkv", "keep">>, "TP"))
  IN  Script(<<l, "wqkv">>, [x \in heads |-> Name(x)], Ops(<<merge, "keep">>, "TP"))
        @@ (IF arch = "qwen" THEN bias ELSE NoScripts)
        @@ Rows(<<l, "wo">>, Name("o"))
        @@ Norm("attention_norm") @@ Norm("ffn_norm") @@ Norm("q_norm") @@ Norm("k_norm")

DenseScripts(l, g) ==
  GateUp(<<l, "w1">>, <<"layers", g, "gate_proj">>, <<"layers", g, "up_proj">>)
    @@ Rows(<<l, "w2">>, <<"layers", g, "down_proj">>)

\* Qwen publishes its experts one by one, ...
QwenMoE(l, g) ==
  LET Experts(xs) == [x \in (0 .. NumExperts - 1) \X DOMAIN xs |->
                        <<"layers", g, "experts", x[1], xs[x[2]]>>]
      Bound(op) == Ops(<<"bind">>, "ETP") \o Ops(<<"keep_ep">>, "EP") \o Ops(<<op, "keep">>, "ETP")
  IN  Copied(<<l, "gate">>, <<"layers", g, "gate">>)
        @@ Script(<<l, "experts", "w1">>, Experts([gate |-> "gate", up |-> "up"]), Bound("gate_up"))
        @@ Script(<<l, "experts", "w2">>, Experts([w |-> "down"]), Bound("row"))

\* ... Step as one tensor, with a bias of the router and a shared expert.
StepMoE(l, g) ==
  LET Name(x) == <<"layers", g, x>>
      Whole(op) == Ops(<<op, "keep">>, "ETP") \o Ops(<<"keep_ep">>, "EP")
  IN  Copied(<<l, "gate">>, Name("gate"))
        @@ Copied(<<l, "router_balance_bias">>, Name("router_bias"))
        @@ Script(<<l, "experts", "w1">>, [gate |-> Name("moe_gate"), up |-> Name("moe_up")],
                  Whole("gate_up"))
        @@ Script(<<l, "experts", "w2">>, [w |-> Name("moe_down")], Whole("row"))
        @@ GateUp(<<l, "share_w1">>, Name("share_gate"), Name("share_up"))
        @@ Rows(<<l, "share_w2">>, Name("share_down"))

FFNScripts(arch, l, g) ==
  IF g \notin MoELayers THEN DenseScripts(l, g)
  ELSE IF arch = "qwen" THEN QwenMoE(l, g) ELSE StepMoE(l, g)

\* build_reshaper(), of chunk c on stage p: [parameter -> [src, ops]].
ScriptsOf(arch, m, p, c) ==
  LET ids == LayersOf(m, p, c)
  IN  FoldSet(LAMBDA l, all : all @@ AttentionScripts(arch, l - 1, ids[l]) @@ FFNScripts(arch, l - 1, ids[l]),
              HeadScripts(m, p, c) @@ TailScripts(m, p, c), DOMAIN ids)
Scripts(r, c) == ScriptsOf(plan.arch, mesh, RankOf("PP", r), c)
ChunksOf(m) == 0 .. m.vpp - 1
NamesIn(scripts) == UNION {{scripts[d].src[x] : x \in DOMAIN scripts[d].src} : d \in DOMAIN scripts}

\* OnlineReshaper.forward(), for chunk c of rank r: [parameter -> stack].
Imported(tensors, r, c) ==
  LET scripts == Scripts(r, c)
      Made(s) == FoldLeft(LAMBDA piece, op : Forward(piece, op, r),
                          [x \in DOMAIN s.src |-> tensors[s.src[x]]], s.ops)
  IN  [d \in DOMAIN scripts |-> Made(scripts[d]).w]

\* OnlineReshaper.backward(), with the ranks of r's stage: [name -> stack].
Exported(r, c) ==
  LET scripts == Scripts(r, c)
      stage == {q \in AllRanks : RankOf("PP", q) = RankOf("PP", r)}
      Undone(d) == FoldRight(LAMBDA op, pieces : [q \in stage |-> Backward(pieces, op, q)],
                             scripts[d].ops, [q \in stage |-> [w |-> weights[q][c][d]]])[r]
      Has(d, n) == {x \in DOMAIN scripts[d].src : scripts[d].src[x] = n}
      Of(n) == CHOOSE d \in DOMAIN scripts : Has(d, n) # {}
  IN  [n \in NamesIn(scripts) |-> Undone(Of(n))[CHOOSE x \in Has(Of(n), n) : TRUE]]
-----------------------------------------------------------------------------
(* The first run: it loads published weights, trains, and saves.           *)

Init ==
  /\ plan \in Plans
  /\ mesh = plan.first /\ groups = GroupsOf(mesh)
  /\ phase = "import"
  /\ weights = None /\ state = None
  /\ files = [name \in {} |-> None] /\ hf = None /\ index = None
  /\ own = None /\ dp0 = None

\* load_hf_state_dict() of every chunk, from published tensors or those saved.
LoadHF(tensors) == weights' = [r \in AllRanks |-> [c \in ChunksOf(mesh) |-> Imported(tensors, r, c)]]
Import ==
  /\ phase = "import"
  /\ LoadHF(Published[plan.arch])
  /\ phase' = "train"
  /\ UNCHANGED <<plan, mesh, groups, state, files, hf, index, own, dp0>>

\* A step of training gives all tensors other values; replicas stay the same.
Trained(v) == [e \in DOMAIN v |-> Matrix(Len(v[e]), Width(v[e]), LAMBDA i, j : v[e][i][j] * v[e][i][j] + 1)]

\* The optimizer's states: Zero1GradientManager has the shard of a rank, the
\* other manager the parameters that a rank has.
OptimizerOf(r) ==
  IF plan.manager = "zero1" THEN <<"shard", r>>
  ELSE <<"params", RankOf("PP", r), RankOf("TP", r), RankOf("EP", r), RankOf("ETP", r)>>
Train ==
  /\ phase = "train"
  /\ weights' = [r \in AllRanks |-> [c \in ChunksOf(mesh) |->
                   [d \in DOMAIN weights[r][c] |-> Trained(weights[r][c][d])]]]
  /\ state' = [r \in AllRanks |->
                 [optimizer |-> OptimizerOf(r), rng |-> <<"rng", r>>, iteration |-> 1,
                  scheduler |-> <<"step", 1>>, data |-> IF r = 0 THEN <<"data", 1>> ELSE None]]
  /\ phase' = "dump"
  /\ UNCHANGED <<plan, mesh, groups, files, hf, index, own, dp0>>

\* dump_safetensors(): hf_state_dict() takes part in every rank, the first of
\* each stage writes a file per chunk, and the stages' indices are merged.
Writer(r) == IAm("DP", 0, r) /\ IAm("TP", 0, r)
FileOf(r, c) == c * Size("PP") + RankOf("PP", r) + 1
DumpSafetensors ==
  /\ phase = "dump"
  /\ LET written == {r \in AllRanks : Writer(r)} \X ChunksOf(mesh)
         By(f) == CHOOSE w \in written : FileOf(w[1], w[2]) = f
         out == [f \in {FileOf(w[1], w[2]) : w \in written} |-> Exported(By(f)[1], By(f)[2])]
     IN  /\ hf' = out
         /\ index' = [n \in UNION {DOMAIN out[f] : f \in DOMAIN out} |->
                        CHOOSE f \in DOMAIN out : n \in DOMAIN out[f]]
  /\ phase' = "save"
  /\ UNCHANGED <<plan, mesh, groups, weights, state, files, own, dp0>>

\* Mutant: the experts of the other expert ranks are saved by nobody.
SavesModelDP(r) == IAm("DP", 0, r)

\* Who saves its model: one rank for each part of it.
SavesModel(r) == IAm("DP", 0, r) \/ IAm("EDP", 0, r)
SavesOptimizer(r) == plan.distributed \/ IAm("DP", 0, r) \/ IAm("EDP", 0, r)

\* get_rank_specific_name().
NameOf(r) == <<RankOf("TP", r), RankOf("PP", r), RankOf("DP", r)>>

\* make_ckpt() and the dump of its files, on rank r.
Save(r) ==
  /\ phase = "save" /\ NameOf(r) \notin DOMAIN files
  /\ LET optional(has, x) == IF has THEN {x} ELSE {}
         keys == {"iteration", "rng", "scheduler"} \union optional(SavesModel(r), "model")
                   \union optional(SavesOptimizer(r), "optimizer")
                   \union optional(r = 0, "data")
         content == [x \in keys |-> IF x = "model" THEN weights[r] ELSE state[r][x]]
     IN  files' = files @@ (NameOf(r) :> content)
  /\ UNCHANGED <<plan, mesh, groups, phase, weights, state, hf, index, own, dp0>>
-----------------------------------------------------------------------------
(* The next run.                                                           *)

Restart ==
  /\ phase = "save" /\ \A r \in AllRanks : NameOf(r) \in DOMAIN files
  /\ mesh' = plan.second /\ groups' = GroupsOf(mesh')
  /\ weights' = None /\ state' = None
  /\ phase' = IF plan.via = "native" THEN "own" ELSE "safetensors"
  /\ UNCHANGED <<plan, files, hf, index, own, dp0>>

\* HFWeights, and load_hf_state_dict(); nothing else is loaded.
ImportAgain ==
  /\ phase = "safetensors"
  /\ LoadHF([n \in DOMAIN index |-> hf[index[n]][n]])
  /\ phase' = "ready"
  /\ UNCHANGED <<plan, mesh, groups, state, files, hf, index, own, dp0>>

\* load_ckpt() up to the broadcast: the file of each rank if it exists, and
\* with a distributed optimizer its own shard; else that of DP rank 0.
Subset(f, keys) == [x \in DOMAIN f \cap keys |-> f[x]]
Meta == {"iteration", "rng", "scheduler", "model"}
FileFor(r) == IF NameOf(r) \in DOMAIN files THEN files[NameOf(r)] ELSE [x \in {} |-> None]
Optimizer(r) == IF plan.options.optimizer THEN Subset(FileFor(r), {"optimizer"}) ELSE [x \in {} |-> None]
LoadOwn ==
  /\ phase = "own"
  /\ LET first(r) == IF IAm("DP", 0, r) /\ ~plan.distributed
                     THEN Subset(FileFor(r), Meta) @@ Optimizer(r) ELSE Subset(FileFor(r), Meta)
     IN  /\ own' = [r \in AllRanks |-> IF plan.distributed THEN Optimizer(r) @@ first(r) ELSE first(r)]
         /\ dp0' = [r \in AllRanks |-> IF IAm("DP", 0, r) THEN first(r) ELSE None]
  /\ phase' = IF Size("DP") = 1 /\ Size("EDP") = 1 THEN "merge" ELSE "broadcast"
  /\ UNCHANGED <<plan, mesh, groups, weights, state, files, hf, index>>

\* split_state_dict(), by the names of parameters.
IsExpert(d) == Len(d) = 3 /\ d[2] = "experts"
Split(f, experts) ==
  [x \in DOMAIN f |->
     IF x # "model" THEN f[x]
     ELSE [c \in DOMAIN f[x] |->
             LET kept == {d \in DOMAIN f[x][c] : IsExpert(d) = experts}
             IN  [d \in kept |-> f[x][c][d]]]]

\* The broadcasts: of all in the DP group, or of the experts in the EDP group
\* and the rest in the DP group.
FirstOf(name, r) == groups[name][r][1]
WithExperts(f, e) ==
  IF "model" \notin DOMAIN e THEN f
  ELSE ("model" :> [c \in DOMAIN e.model |->
                      e.model[c] @@ (IF "model" \in DOMAIN f THEN f.model[c] ELSE [d \in {} |-> None])])
         @@ f
Broadcast ==
  /\ phase = "broadcast"
  /\ LET toSplit(r) == IF IAm("DP", 0, r) THEN dp0[r] ELSE own[r]
         rest(r) == Split(toSplit(FirstOf("DP", r)), FALSE)
         experts(r) == Split(toSplit(FirstOf("EDP", r)), TRUE)
     IN  dp0' = [r \in AllRanks |-> IF Size("EP") > 1 THEN WithExperts(rest(r), experts(r))
                                 ELSE dp0[FirstOf("DP", r)]]
  /\ phase' = "merge"
  /\ UNCHANGED <<plan, mesh, groups, weights, state, files, hf, index, own>>

\* "use local first", key by key, in the model parameter by parameter.
Merged(mine, from0) ==
  LET model == IF {"model"} \subseteq DOMAIN mine \cap DOMAIN from0
               THEN ("model" :> [c \in DOMAIN mine.model |-> mine.model[c] @@ from0.model[c]])
               ELSE [x \in {} |-> None]
  IN  model @@ mine @@ from0
Merge ==
  /\ phase = "merge"
  /\ own' = [r \in AllRanks |-> Merged(own[r], dp0[r])]
  /\ phase' = "restore"
  /\ UNCHANGED <<plan, mesh, groups, weights, state, files, hf, index, dp0>>

\* The end of load_ckpt(), with the data state of rank 0 for all; then the
\* trainer's models, optimizer and scheduler take theirs.
Restore ==
  /\ phase = "restore"
  /\ weights' = [r \in AllRanks |-> own[r].model]
  /\ state' = [r \in AllRanks |->
                 [optimizer |-> IF "optimizer" \in DOMAIN own[r] THEN own[r].optimizer ELSE None,
                  rng |-> own[r].rng, iteration |-> own[r].iteration,
                  scheduler |-> own[r].scheduler, data |-> files[<<0, 0, 0>>].data]]
  /\ phase' = "ready"
  /\ UNCHANGED <<plan, mesh, groups, files, hf, index, own, dp0>>

Next ==
  \/ Import \/ Train \/ DumpSafetensors \/ Restart \/ ImportAgain
  \/ \E r \in AllRanks : Save(r)
  \/ LoadOwn \/ Broadcast \/ Merge \/ Restore

Spec == Init /\ [][Next]_vars
-----------------------------------------------------------------------------
(* Properties.                                                             *)

\* The trained model as published tensors; padding of the vocabulary stays.
TrainedTensors ==
  [n \in DOMAIN Published[plan.arch] |->
     LET v == Published[plan.arch][n]
         isVocab == n \in {<<"embed_tokens">>, <<"lm_head">>}
     IN  Trained([e \in DOMAIN v |-> IF isVocab THEN Padded(v[e]) ELSE v[e]])]

\* What is saved as safetensors is the trained model, each tensor in the file
\* where the index has it, whatever mesh it was trained on.
SavedWhole ==
  hf # None => /\ DOMAIN index = DOMAIN TrainedTensors
               /\ \A n \in DOMAIN index : hf[index[n]][n] = TrainedTensors[n]

\* The models of a restarted job are the trained ones, cut for its own mesh, on
\* every rank: experts and all.
ModelsRestored ==
  \A r \in AllRanks : weights[r] = [c \in ChunksOf(mesh) |-> Imported(TrainedTensors, r, c)]

\* Each rank has the states of the optimizer it had, in a job of the same ranks.
OptimizerRestored ==
  plan.options.optimizer => \A r \in AllRanks : state[r].optimizer = OptimizerOf(r)

\* The rest of a job's state is that of the step it saved; a rank goes on with
\* its own random numbers.
ProgressRestored ==
  \A r \in AllRanks :
    /\ state[r].iteration = 1 /\ state[r].scheduler = <<"step", 1>>
    /\ state[r].data = <<"data", 1>>
    /\ plan.first = plan.second => state[r].rng = <<"rng", r>>

Restored ==
  /\ SavedWhole
  /\ phase = "ready" =>
       /\ ModelsRestored
       /\ plan.via = "native" => OptimizerRestored /\ ProgressRestored
=============================================================================
