----------------------------- MODULE MCSimpleFlow -----------------------------
(* SimpleFlow on small instances; the constants are given by the cfg files. *)
EXTENDS SimpleFlow
=============================================================================
