-------------------------------- MODULE MCStep --------------------------------
(* The path of the training data on small instances: the layout of the       *)
(* packs (PackedDataloader), the processes that load them (AsyncAccelerate), *)
(* a step of the pipeline (PipelineSchedule), a microbatch through the       *)
(* layers (ParallelLayers), the microbatches of two steps through a mixture  *)
(* of experts (ExpertParallel), the kernels of a process's experts           *)
(* (RoutingKernels), and two steps of the optimizer (Gradients).             *)
(* They share no state, so one run explores them side by side: an initial    *)
(* state chooses one.                                                        *)
EXTENDS PackedDataloader

CONSTANTS
  NumWorkers, QueueSize, Prefetch, DPSize, DPRank, Size, Saved, MayFail,
  MaxTakes, MaxLoads

VARIABLES
  kind,  \* "packing", "loading", "pipeline", "layers", "experts", "kernels" or "optimizer"
  base, worker, input, fetcher, ready, shadow, cmds, answer, main, started,
  out, saved, takes, loads,
  cfg, todo, rank, slots, net, used,
  mesh, sample, stage, at, acts, dense,
  topo, groups, moeStep, pass, moePc, tensors, record, kept, tally, bias, grads, moeRef,
  routing, fused, launch, programs, mem,
  conf, gradGroups, info, step, batch, pc, param, mains, buffer, grad, norm, ref

loaderVars == <<base, worker, input, fetcher, ready, shadow, cmds, answer, main,
                started, out, saved, takes, loads>>
pipelineVars == <<cfg, todo, rank, slots, net, used>>
layerVars == <<mesh, sample, stage, at, acts, dense>>
expertVars == <<topo, groups, moeStep, pass, moePc, tensors, record, kept, tally, bias,
                grads, moeRef>>
kernelVars == <<routing, fused, launch, programs, mem>>
gradVars == <<conf, gradGroups, info, step, batch, pc, param, mains, buffer, grad, norm, ref>>

\* Two data sets; a sample may fill a pack or be too large for one.
MCLenChoices == {<<1, 4>>, <<3>>, <<2, 1, 2>>, <<1, 2, 1, 4, 1>>}

\* The bound on the orders: only two samples or one are shuffled.
MCRandom == {R \in SUBSET Datasets : \A d \in R : SizeOf(d) <= 2}

\* All but two ranks with two chunks each and batched operations.
MCConfigs ==
  {c \in [pp : {2, 3}, vpp : {1, 2}, num : {2, 3, 4, 6}, training : BOOLEAN,
          overlap : BOOLEAN, shapes : BOOLEAN] :
     /\ c.num \in {c.pp, 2 * c.pp}
     /\ ~(c.pp = 2 /\ c.vpp = 2 /\ c.training /\ ~c.overlap)}

\* Two samples that chunks cut in the middle; three of one, five and two tokens.
MCSamples ==
  {[cu |-> <<0, 3, 8>>, ids |-> <<0, 1, 2, 3, 3, 1, 0, 2>>,
    labels |-> <<1, 2, 3, 3, 1, 0, 2, 0>>, masks |-> <<1, 1, 0, 1, 1, 1, 0, 1>>],
   [cu |-> <<0, 1, 6, 8>>, ids |-> <<2, 2, 0, 1, 3, 0, 1, 3>>,
    labels |-> <<2, 0, 1, 3, 0, 1, 3, 1>>, masks |-> <<0, 0, 0, 0, 0, 0, 1, 0>>]}

\* Hidden size 2, a vocabulary of 4, 8 heads in 4 groups, a feed-forward size of 4.
MCWeights ==
  [embed |-> <<<<1, 5>>, <<2, 7>>, <<3, 11>>, <<4, 13>>>>,
   q |-> <<<<1, 2>>, <<3, 1>>, <<5, 3>>, <<2, 9>>, <<4, 4>>, <<6, 1>>, <<1, 8>>, <<7, 2>>>>,
   k |-> <<<<2, 1>>, <<3, 5>>, <<1, 7>>, <<8, 3>>>>,
   v |-> <<<<4, 9>>, <<1, 6>>, <<5, 2>>, <<3, 3>>>>,
   wo |-> <<<<1, 2, 3, 4, 5, 6, 7, 8>>, <<9, 8, 7, 1, 5, 2, 3, 4>>>>,
   gate |-> <<<<1, 3>>, <<2, 5>>, <<7, 1>>, <<4, 6>>>>,
   up |-> <<<<3, 2>>, <<6, 1>>, <<1, 9>>, <<5, 5>>>>,
   w2 |-> <<<<2, 4, 6, 1>>, <<3, 5, 7, 2>>>>,
   output |-> <<<<1, 2>>, <<3, 5>>, <<4, 1>>, <<6, 7>>>>,
   attention_norm |-> <<3, 4>>, ffn_norm |-> <<5, 2>>, norm |-> <<2, 7>>,
   qk_norm |-> <<3, 8>>]

\* All but three: q_norm and k_norm with tensor but not sequence parallelism, and
\* scaled_dot_product_attention with context parallelism, which are not those of
\* one process; and sequence without tensor parallelism, which is off.
MCMeshes ==
  {m \in [tp : {1, 2}, cp : {1, 2}, sp : BOOLEAN, core : {"flash", "sdpa"},
          qkNorm : BOOLEAN, window : {-1, 2}] :
     /\ m.qkNorm => m.sp \/ m.tp = 1
     /\ m.cp = 2 => m.core = "flash"
     /\ m.tp = 1 => ~m.sp}

\* Four experts; two steps of two microbatches of four tokens for each data rank.
MCGate == <<<<1, 4>>, <<3, 2>>, <<2, 2>>, <<4, 1>>>>
MCW1 ==
  <<<<<<1, 2>>, <<3, 1>>>>, <<<<2, 5>>, <<1, 1>>>>, <<<<4, 1>>, <<2, 3>>>>, <<<<1, 6>>, <<5, 2>>>>>>
MCW2 == <<<<<<2>>, <<3>>>>, <<<<1>>, <<4>>>>, <<<<5>>, <<2>>>>, <<<<3>>, <<7>>>>>>
MCInputs ==
  [s \in 0 .. 1 |-> [b \in 0 .. 1 |-> [d \in 0 .. 3 |->
     [i \in 1 .. 4 |-> <<1 + ((i * i + 3 * d + 2 * b + s) % 5),
                       1 + ((2 * i + d * d + 3 * b + 2 * s) % 4)>>]]]]
MCTopologies ==
  {t \in [world : {1, 2, 4}, pp : {1}, tp : {1, 2}, cp : {1}, ep : {1, 2, 4}, etp : {1},
          sp : BOOLEAN, recompute : BOOLEAN, warmup : {1}] :
     /\ t.world % t.tp = 0 /\ t.world % t.ep = 0
     /\ t.tp = 1 => ~t.sp}

\* Three tokens, two of three experts each at most: an expert without tokens, and ids
\* of no expert before and after others.
MCRoutings ==
  {[x |-> <<<<1, 4, 2>>, <<3, 5, 7>>, <<6, 2, 9>>>>, ids |-> ids,
    weights |-> <<<<2, 3>>, <<5, 1>>, <<4, 7>>>>] :
     ids \in {<<<<0, 2>>, <<2, 0>>, <<0, 1>>>>, <<<<2, -1>>, <<0, 2>>, <<-1, 2>>>>,
             <<<<1, 0>>, <<1, 2>>, <<-1, 1>>>>}}
MCExpertW1 ==
  <<<<<<1, 2, 3>>, <<4, 1, 5>>, <<2, 2, 7>>, <<6, 1, 1>>>>,
    <<<<3, 2, 1>>, <<1, 8, 5>>, <<2, 9, 7>>, <<6, 4, 1>>>>,
    <<<<5, 2, 3>>, <<4, 4, 5>>, <<2, 1, 7>>, <<3, 1, 1>>>>>>
MCExpertW2 ==
  <<<<<<1, 2>>, <<3, 4>>, <<5, 6>>>>, <<<<7, 2>>, <<3, 1>>, <<5, 9>>>>,
    <<<<1, 8>>, <<6, 4>>, <<2, 6>>>>>>

\* Parameters of several sizes, whose order in the buffers is not their own.
MCParams ==
  <<[kind |-> "shard", fp32 |-> FALSE, size |-> 3], [kind |-> "replica", fp32 |-> FALSE, size |-> 1],
    [kind |-> "replica", fp32 |-> TRUE, size |-> 2], [kind |-> "expert", fp32 |-> FALSE, size |-> 2],
    [kind |-> "shard", fp32 |-> FALSE, size |-> 2], [kind |-> "expert", fp32 |-> FALSE, size |-> 1]>>

\* All but these: tensor parallelism where the scale of expert gradients is not
\* that of one process, and clipping where the norm is not (grad_norm_tp).
MCGradConfigs ==
  {c \in [world : {1, 2, 4}, pp : {1, 2}, tp : {1, 2}, cp : {1}, ep : {1, 2, 4}, etp : {1},
          sp : BOOLEAN, zero1 : BOOLEAN, clip : BOOLEAN] :
     /\ c.world % (c.pp * c.tp) = 0 /\ c.world % (c.pp * c.ep) = 0
     /\ IF c.tp = 1 THEN ~c.sp ELSE c.sp <=> c.ep > 1
     /\ c.clip => c.tp = 1 /\ (c.zero1 \/ c.ep = 1)}

Loader == INSTANCE AsyncAccelerate
Pipeline == INSTANCE PipelineSchedule WITH Configs <- MCConfigs
Model == INSTANCE ParallelLayers WITH
  Meshes <- MCMeshes, Samples <- MCSamples, Weights <- MCWeights, Heads <- 8, Groups <- 4,
  phase <- stage
Moe == INSTANCE ExpertParallel WITH
  Topologies <- MCTopologies, Inputs <- MCInputs, MicroBatches <- 2, Steps <- 2,
  Gate <- MCGate, W1 <- MCW1, W2 <- MCW2, TopK <- 2, at <- pass, saved <- kept,
  step <- moeStep, pc <- moePc, cur <- tensors, counts <- tally, ref <- moeRef
\* Blocks that divide none of the sizes, but for that of the reduced dimension.
Kernels == INSTANCE RoutingKernels WITH
  Routings <- MCRoutings, ExpertW1 <- MCExpertW1, ExpertW2 <- MCExpertW2, input <- routing,
  BlockN <- 4, BlockE <- 2, BlockH <- 2, BlockM <- 2, BlockCols <- 3, BlockK <- 3,
  NumSM <- 2, ChunkK <- 1
Optimizer == INSTANCE Gradients WITH
  Configs <- MCGradConfigs, Params <- MCParams, MicroBatches <- 2, Steps <- 2, main <- mains,
  groups <- gradGroups

ASSUME
  /\ Loader!AsyncAccelerateAssumption /\ Pipeline!PipelineAssumption
  /\ Model!LayersAssumption /\ Moe!ExpertAssumption /\ Kernels!KernelsAssumption
  /\ Optimizer!GradientsAssumption

\* A component that is not explored is in one of its initial states.
MCInit ==
  /\ kind \in {"packing", "loading", "pipeline", "layers", "experts", "kernels", "optimizer"}
  /\ lens \in [Datasets -> IF kind = "packing" THEN MCLenChoices ELSE {<<3>>}]
  /\ epochs \in [Datasets -> IF kind = "packing" THEN EpochChoices ELSE {Unit}]
  /\ random \in IF kind = "packing" THEN MCRandom ELSE {{}}
  /\ oversize \in IF kind = "packing" THEN {"drop", "extend"} ELSE {"drop"}
  /\ cfg \in IF kind = "pipeline" THEN MCConfigs ELSE {CHOOSE c \in MCConfigs : TRUE}
  /\ mesh \in IF kind = "layers" THEN MCMeshes ELSE {CHOOSE m \in MCMeshes : TRUE}
  /\ sample \in IF kind = "layers" THEN MCSamples ELSE {CHOOSE s \in MCSamples : TRUE}
  /\ topo \in IF kind = "experts" THEN MCTopologies ELSE {CHOOSE t \in MCTopologies : t.world = 1}
  /\ conf \in IF kind = "optimizer" THEN MCGradConfigs ELSE {CHOOSE c \in MCGradConfigs : c.world = 1}
  /\ IF kind = "kernels" THEN Kernels!Init
     ELSE routing = {} /\ fused = FALSE /\ launch = 0 /\ programs = {} /\ mem = <<>>
  /\ Init /\ Loader!Init /\ Pipeline!Init /\ Model!Init /\ Moe!Init /\ Optimizer!Init

Is(k) == kind = k /\ UNCHANGED kind

MCNext ==
  \/ /\ Is("packing") /\ Next
     /\ UNCHANGED <<loaderVars, pipelineVars, layerVars, expertVars, kernelVars, gradVars>>
  \/ /\ Is("loading") /\ Loader!Next
     /\ UNCHANGED <<vars, pipelineVars, layerVars, expertVars, kernelVars, gradVars>>
  \/ /\ Is("pipeline") /\ Pipeline!Next
     /\ UNCHANGED <<vars, loaderVars, layerVars, expertVars, kernelVars, gradVars>>
  \/ /\ Is("layers") /\ Model!Next
     /\ UNCHANGED <<vars, loaderVars, pipelineVars, expertVars, kernelVars, gradVars>>
  \/ /\ Is("experts") /\ Moe!Next
     /\ UNCHANGED <<vars, loaderVars, pipelineVars, layerVars, kernelVars, gradVars>>
  \/ /\ Is("kernels") /\ Kernels!Next
     /\ UNCHANGED <<vars, loaderVars, pipelineVars, layerVars, expertVars, gradVars>>
  \/ /\ Is("optimizer") /\ Optimizer!Next
     /\ UNCHANGED <<vars, loaderVars, pipelineVars, layerVars, expertVars, kernelVars>>

\* Each module's Fairness, where its component is the one that is explored.
LoaderFairness ==
  /\ \A w \in Loader!Workers : /\ WF_loaderVars(Is("loading") /\ Loader!WorkerStep(w))
                               /\ WF_loaderVars(Is("loading") /\ Loader!WorkerPut(w))
  /\ WF_loaderVars(Is("loading") /\ Loader!FetchGet)
  /\ WF_loaderVars(Is("loading") /\ Loader!FetchPut)
  /\ WF_loaderVars(Is("loading") /\ Loader!ShadowNext)
  /\ WF_loaderVars(Is("loading") /\ Loader!ShadowAnswer)
  /\ WF_loaderVars(Is("loading") /\ Loader!Returning)

MCSpec ==
  /\ MCInit /\ [][MCNext]_<<kind, vars, loaderVars, pipelineVars, layerVars, expertVars,
                          kernelVars, gradVars>>
  /\ LoaderFairness
  /\ WF_pipelineVars(Is("pipeline") /\ Pipeline!Progress)
-----------------------------------------------------------------------------
(* The properties of the other modules; each explains its own.         *)

\* The workers, queues and threads together are one sequential nextable.
SequentialSpec == Loader!SequentialSpec

\* Each call of the trainer returns, unless an item has failed.
CallReturns == Loader!CallReturns

\* Every pass reads the tensors of its own microbatch.
RightTensors == Pipeline!RightTensors

\* The activations kept are bounded by the place of the rank.
BoundedActivations == Pipeline!BoundedActivations

\* Divided layers compute what one process does, forward and backward.
LayersDense == kind = "layers" => Model!ForwardDense /\ Model!GradientsDense

\* Tokens pass through divided experts as through one process's; so do a step's
\* gradients and counts.  Where forward_experts_tp() gets too many rows for its
\* reshape, each step ends there, and nowhere else (moe_block.py:339-410).
ExpertsDense == kind = "experts" => Moe!TokensDense /\ Moe!Reshaped /\ Moe!StepDense

\* In any order of their programs, the kernels give what each token gets from its
\* experts one by one.
KernelsExact == kind = "kernels" => Kernels!KernelsExact

\* The step of the optimizer is that of one process.
StepIsDense == kind = "optimizer" => Optimizer!StepIsDense

\* No schedule blocks: every rank makes all its passes.
StepCompletes == kind = "pipeline" => Pipeline!StepCompletes
=============================================================================
