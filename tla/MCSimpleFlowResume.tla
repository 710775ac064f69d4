-------------------------- MODULE MCSimpleFlowResume --------------------------
(* SimpleFlowResume on small instances; the cfg files give the constants.   *)
EXTENDS SimpleFlowResume
=============================================================================
