----------------------------- MODULE MCGradients -----------------------------
(* The norm that gradients are clipped by, under tensor parallelism.         *)
EXTENDS Gradients

MCParams ==
  <<[kind |-> "shard", fp32 |-> FALSE, size |-> 2], [kind |-> "replica", fp32 |-> FALSE, size |-> 1]>>
MCConfigs ==
  {[world |-> 2, pp |-> 1, tp |-> 2, cp |-> 1, ep |-> 1, etp |-> 1, sp |-> FALSE,
    zero1 |-> TRUE, clip |-> TRUE]}

=============================================================================
