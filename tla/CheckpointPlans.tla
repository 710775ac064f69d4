---------------------------- MODULE CheckpointPlans ----------------------------
(* The small instances of CheckpointContents: a model of four layers, two of  *)
(* them with four experts, its published tensors, and the meshes a job saves  *)
(* on and is restarted on.                                                    *)
EXTENDS Matrices, TLC

CCLayers == 4
CCMoELayers == {1, 3}
CCExperts == 4
CCHeads == 2
CCHeadDim == 2
CCGates == 2
CCVocab == 4

Mesh(world, pp, tp, cp, ep, etp, vpp) ==
  [world |-> world, pp |-> pp, tp |-> tp, cp |-> cp, ep |-> ep, etp |-> etp, vpp |-> vpp]

Job(arch, first, second, via, manager, distributed, optimizer) ==
  [arch |-> arch, first |-> first, second |-> second, via |-> via, manager |-> manager,
   distributed |-> distributed, options |-> [optimizer |-> optimizer]]

\* checkpoint_cfg.use_distributed_optimizer as the manager has it (exp/ntp.py, exp/sft.py).
Same(arch, m, manager) == Job(arch, m, m, "native", manager, manager = "zero1", TRUE)
More(arch, m, n) == Job(arch, m, n, "native", "zero1", TRUE, FALSE)
Converted(arch, m, n) == Job(arch, m, n, "safetensors", "zero1", TRUE, FALSE)

CCPlans ==
  {Same(arch, m, "zero1") : arch \in {"qwen", "step"},
     m \in {Mesh(4, 1, 2, 1, 2, 1, 2), Mesh(4, 1, 1, 1, 2, 1, 1), Mesh(4, 2, 1, 1, 2, 1, 2)}}
  \union {Same("qwen", Mesh(8, 2, 2, 1, 2, 1, 1), "zero1"),
          Same("qwen", Mesh(4, 1, 2, 1, 1, 2, 1), "fp32"),
          Same("step", Mesh(4, 2, 2, 1, 1, 1, 1), "fp32")}
  \union {More("qwen", Mesh(2, 1, 1, 1, 2, 1, 1), Mesh(4, 1, 1, 1, 2, 1, 1)),
          More("step", Mesh(4, 1, 2, 1, 2, 1, 1), Mesh(2, 1, 2, 1, 2, 1, 1))}
  \union {Converted("qwen", Mesh(4, 1, 2, 1, 2, 2, 1), Mesh(4, 2, 1, 1, 1, 2, 2)),
          Converted("step", Mesh(4, 2, 2, 1, 1, 2, 2), Mesh(2, 1, 1, 1, 2, 1, 2)),
          Converted("qwen", Mesh(2, 1, 2, 1, 1, 2, 2), Mesh(4, 1, 1, 1, 4, 1, 1)),
          Converted("step", Mesh(4, 1, 1, 2, 2, 2, 1), Mesh(4, 1, 2, 2, 4, 1, 4))}

\* PPOLikeExp has no optimizer_cfg, so that checkpoint_cfg.use_distributed_optimizer
\* is its default False, while its actor's gradient manager is the ZeRO-1 one.
PPOPlans == {Job("qwen", Mesh(2, 1, 1, 1, 1, 1, 1), Mesh(2, 1, 1, 1, 1, 1, 1), "native", "zero1", FALSE, TRUE)}

\* The published tensors: their sizes by the last word of the name, and numbers
\* that differ.
Code ==
  "q" :> 1 @@ "k" :> 2 @@ "v" :> 3 @@ "g" :> 4 @@ "bias" :> 5 @@ "o" :> 6
    @@ "attention_norm" :> 7 @@ "ffn_norm" :> 8 @@ "q_norm" :> 9 @@ "k_norm" :> 10
    @@ "gate_proj" :> 11 @@ "up_proj" :> 12 @@ "down_proj" :> 13 @@ "gate" :> 14
    @@ "up" :> 15 @@ "down" :> 16 @@ "router_bias" :> 17 @@ "moe_gate" :> 18
    @@ "moe_up" :> 19 @@ "moe_down" :> 20 @@ "share_gate" :> 21 @@ "share_up" :> 22
    @@ "share_down" :> 23 @@ "embed_tokens" :> 24 @@ "lm_head" :> 25 @@ "model.norm" :> 26

Layer(g, words) == {<<"layers", g, x>> : x \in words}
NormNames == {"attention_norm", "ffn_norm", "q_norm", "k_norm"}
LayerNames(arch, g) ==
  Layer(g, {"q", "k", "v", "o"} \union NormNames)
    \union (IF arch = "qwen" THEN {<<"layers", g, x, "bias">> : x \in {"q", "k", "v"}}
            ELSE Layer(g, {"g"}))
    \union (IF g \notin CCMoELayers THEN Layer(g, {"gate_proj", "up_proj", "down_proj"})
            ELSE IF arch = "qwen"
            THEN Layer(g, {"gate"}) \union {<<"layers", g, "experts", e, x>> :
                   e \in 0 .. CCExperts - 1, x \in {"gate", "up", "down"}}
            ELSE Layer(g, {"gate", "router_bias", "moe_gate", "moe_up", "moe_down",
                           "share_gate", "share_up", "share_down"}))
NamesOf(arch) ==
  {<<"embed_tokens">>, <<"lm_head">>, <<"model.norm">>}
    \union UNION {LayerNames(arch, g) : g \in 0 .. CCLayers - 1}

Tensor(n) ==
  LET word == n[Len(n)]
      stack == IF word \in {"moe_gate", "moe_up", "moe_down"} THEN CCExperts ELSE 1
      square == word \in {"o", "down_proj", "down", "moe_down", "share_down"}
      rows == CASE word \in {"q", "k", "v", "bias"} -> CCHeads * CCHeadDim
                [] word = "g" -> CCGates
                [] word \in {"embed_tokens", "lm_head"} -> CCVocab - 1
                [] square -> 1
                [] OTHER -> 2
      cols == IF square THEN 4 ELSE 1
      expert == IF Len(n) = 5 THEN n[4] ELSE 0
      layer == IF Len(n) > 1 THEN n[2] ELSE 0
      role == IF word = "bias" THEN 30 * Code[n[3]] ELSE 0
  IN  [e \in 1 .. stack |->
         Matrix(rows, cols, LAMBDA i, j :
           31 * (Code[word] + role) + 1709 * layer + 211 * (expert + e) + 7 * i + j)]

CCPublished == [arch \in {"qwen", "step"} |-> [n \in NamesOf(arch) |-> Tensor(n)]]
===============================================================================
