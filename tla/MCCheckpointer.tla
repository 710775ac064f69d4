---------------------------- MODULE MCCheckpointer ----------------------------
(* Checkpointer on small instances: ranks are interchangeable, none of them *)
(* plays a part of its own in the model.                                    *)
EXTENDS Checkpointer, TLC

RankSymmetry == Permutations(Ranks)
=============================================================================
