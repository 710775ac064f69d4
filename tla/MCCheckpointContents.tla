-------------------------- MODULE MCCheckpointContents --------------------------
(* The checkpoint of a reinforcement learning job, whose configuration does   *)
(* not say that the optimizer's states are divided.                           *)
EXTENDS CheckpointContents, CheckpointPlans

\* After a restart each rank has the states of the optimizer that it saved, as
\* the models' own shards need them (PackedModel, packed_model.py:25).
ShardsRestored == phase = "ready" => OptimizerRestored
===============================================================================
