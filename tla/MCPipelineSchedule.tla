-------------------------- MODULE MCPipelineSchedule --------------------------
(* The interleaved schedule on two pipeline ranks with batched operations. *)
EXTENDS PipelineSchedule

Pp2Configs ==
  [pp : {2}, vpp : {2}, num : {2, 4}, training : {TRUE}, overlap : {FALSE}, shapes : BOOLEAN]
===============================================================================
