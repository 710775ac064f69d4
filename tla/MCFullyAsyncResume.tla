-------------------------- MODULE MCFullyAsyncResume --------------------------
(* FullyAsyncResume on small instances; the cfg files give the constants.   *)
EXTENDS FullyAsyncResume
=============================================================================
