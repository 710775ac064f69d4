----------------------------- MODULE BatchStream -----------------------------
(***************************************************************************)
(* What a flow controller promises the trainer: every training iteration   *)
(* receives a batch of PromptPerIter prompts that no earlier iteration     *)
(* received and, when the strategy keeps the source's order, exactly the   *)
(* next ones of the source.  Nothing is said of threads, queues, versions  *)
(* or signals.  get_train_samples() is the only operation.                 *)
(***************************************************************************)
EXTENDS Naturals, FiniteSets, Sequences, Functions

CONSTANTS
  PromptPerIter,  \* prompts of a batch
  TrainIters,     \* batches the trainer asks for
  NumPrompts,     \* prompts of the source
  InOrder         \* batches follow the order of the source

VARIABLE batches  \* the sets of prompts received, one per iteration

Prompts == 1 .. NumPrompts

Received == UNION Range(batches)

Block(k) == (k - 1) * PromptPerIter + 1 .. k * PromptPerIter

Init == batches = <<>>

Receive(B) ==
  /\ Len(batches) < TrainIters
  /\ B \cap Received = {}
  /\ Cardinality(B) = PromptPerIter
  /\ InOrder => B = Block(Len(batches) + 1)
  /\ batches' = Append(batches, B)

Next == \E B \in SUBSET Prompts : Receive(B)

Spec == Init /\ [][Next]_batches

\* While prompts are left, the trainer is not kept waiting for ever.
Progress == WF_batches(Next)

FairSpec == Spec /\ Progress
=============================================================================
