---------------------------- MODULE FullyAsyncFlow ----------------------------
(***************************************************************************)
(* FullyAsyncFlowController (core/generators/flow_controller.py): rollout  *)
(* generation and training share a buffer of untrained prompts.  The       *)
(* control worker fills pre_gen one prompt at a time under a backpressure  *)
(* cap, the generation worker submits prompts once the weights they were   *)
(* scheduled for are served, callbacks fill pre_train, and the trainer     *)
(* takes prompt_per_iter of them, advancing the weights only when the      *)
(* running prompts are not too old.                                        *)
(*                                                                         *)
(* All four threads synchronise on the condition _cv of flow.lock.  The    *)
(* waits poll every 0.5 s, so notify_all() only shortens them and a wait   *)
(* is a guard here.  The control and generation workers do two visible     *)
(* things under the lock (pop, then put or insert into pending), which a   *)
(* reader without the lock could tell apart: holder is the thread that     *)
(* holds the lock between two of its steps.                                *)
(***************************************************************************)
EXTENDS PersistentQueue, Integers, FiniteSets

CONSTANTS
  PromptPerIter,        \* cfg.prompt_per_iter
  MaxUntrainedPrompts,  \* cfg.max_untrained_prompts
  MaxStaleness,         \* cfg.max_staleness
  TrainIters,           \* trainer_cfg.train_iters: the trainer stops there
  NumPrompts,           \* prompts the source yields before StopIteration
  AllowErrors,          \* cfg.genable_allow_errors
  GenMayFail            \* whether generate_for_train may raise

\* The constructor's check; it rejects the configurations that "deadlock".
FullyAsyncAssumption ==
  /\ PromptPerIter \in Nat \ {0}
  /\ MaxUntrainedPrompts \in Nat
  /\ MaxStaleness \in Nat
  /\ TrainIters \in Nat
  /\ NumPrompts \in Nat
  /\ AllowErrors \in BOOLEAN
  /\ GenMayFail \in BOOLEAN
  /\ MaxUntrainedPrompts + 1 >= PromptPerIter

ASSUME FullyAsyncConfig == FullyAsyncAssumption

VARIABLES
  train,     \* train_weight_version
  infer,     \* infer_weight_version
  served,    \* the weight version the inference servers really serve
  source,    \* position of the source: the next prompt it yields
  exhausted, \* source_exhausted
  preGen,    \* flow["pre_gen"]
  preTrain,  \* flow["pre_train"]
  holder,    \* the thread inside _cv between two steps
  hand,      \* what the control worker popped and has not put yet
  gen,       \* generation worker: [pc, item]
  running,   \* running_genables: the prompts that count as running
  submitted, \* generations submitted and not called back
  cbAlive,   \* the callback thread is alive
  trainer,   \* trainer: [pc, batch]
  log        \* the batches trained into the weights, one per iteration

verVars   == <<train, infer, served>>
ctlVars   == <<source, exhausted, hand>>
genVars   == <<gen, running, submitted, cbAlive>>
trainVars == <<trainer, log>>
vars == <<verVars, ctlVars, preGen, preTrain, holder, genVars, trainVars>>

NoItem == [p |-> 0, sv |-> 0]

\* A prompt with meta["scheduled_version"].
Prompt(p, sv) == [p |-> p, sv |-> sv]

\* seen: every weight version served while the prompt was generated.
Generating(x, seen) == [p |-> x.p, sv |-> x.sv, seen |-> seen]

\* The trajectories of a prompt; an ignored error leaves an empty list of them.
Rollout(x) == [p |-> x.p, sv |-> x.sv, seen |-> x.seen]

Init ==
  /\ train = -1 /\ infer = -1 /\ served = -1
  /\ source = 1 /\ exhausted = FALSE /\ hand = NoItem
  /\ preGen = EmptyQueue /\ preTrain = EmptyQueue
  /\ holder = "none"
  /\ gen = [pc |-> "pop", item |-> NoItem]
  /\ running = {} /\ submitted = {} /\ cbAlive = TRUE
  /\ trainer = [pc |-> "idle", batch |-> <<>>]
  /\ log = <<>>
-----------------------------------------------------------------------------
(* _control_worker.                                                        *)

\* Mutants: len(pre_gen) is not looked at; "<" for "<=" in the cap.
IgnoresPreGen ==
  ~exhausted /\ QLen(preTrain) + Cardinality(running) <= MaxUntrainedPrompts

StrictCap ==
  /\ ~exhausted
  /\ QLen(preGen) = 0
  /\ QLen(preTrain) + Cardinality(running) < MaxUntrainedPrompts

\* _can_schedule_prompt_locked().  The source's own deque is always empty: its
\* prompts are popped, never got, so none is ever restored into it.
CanSchedulePrompt ==
  /\ ~exhausted
  /\ QLen(preGen) = 0
  /\ QLen(preTrain) + Cardinality(running) <= MaxUntrainedPrompts

\* Mutant: before the first iteration the version is -1.
Unclamped == train

\* Mutant: the prompt is stamped with the version of the start.
FirstVersion == 0

ScheduledVersion == IF train > 0 THEN train ELSE 0

CtlPop ==
  /\ holder = "none" /\ CanSchedulePrompt
  /\ source <= NumPrompts
  /\ hand' = Prompt(source, ScheduledVersion)
  /\ source' = source + 1
  /\ holder' = "control"
  /\ UNCHANGED <<verVars, exhausted, preGen, preTrain, genVars, trainVars>>

\* With one prompt in pre_gen the loop ends and _cv.wait() frees the lock.
CtlPut ==
  /\ holder = "control"
  /\ preGen' = Put(preGen, hand)
  /\ hand' = NoItem
  /\ holder' = "none"
  /\ UNCHANGED <<verVars, source, exhausted, preTrain, genVars, trainVars>>

CtlExhausted ==
  /\ holder = "none" /\ CanSchedulePrompt
  /\ source > NumPrompts
  /\ exhausted' = TRUE
  /\ UNCHANGED <<verVars, source, hand, preGen, preTrain, holder, genVars, trainVars>>

Control == CtlPop \/ CtlPut \/ CtlExhausted
-----------------------------------------------------------------------------
(* _generation_worker.                                                     *)

GenPop ==
  /\ gen.pc = "pop" /\ holder = "none"
  /\ QLen(preGen) > 0
  /\ preGen' = Pop(preGen)
  /\ gen' = [pc |-> "pend", item |-> Peek(preGen)]
  /\ holder' = "generation"
  /\ UNCHANGED <<verVars, ctlVars, preTrain, running, submitted, cbAlive, trainVars>>

\* The prompt is pending and counts as running before it is submitted.
GenPend ==
  /\ gen.pc = "pend"
  /\ preGen' = Pend(preGen, gen.item)
  /\ running' = running \cup {gen.item}
  /\ gen' = [gen EXCEPT !.pc = "wait"]
  /\ holder' = "none"
  /\ UNCHANGED <<verVars, ctlVars, preTrain, submitted, cbAlive, trainVars>>

\* Mutant: the prompt is generated by whatever weights are served.
AnyWeights(x) == TRUE

\* Mutant: newer weights than those it was scheduled for.
NewerWeights(x) == infer > x.sv

WeightsReady(x) == infer >= x.sv

\* Submitted once the weights it was scheduled for are deployed.
GenSubmit ==
  /\ gen.pc = "wait"
  /\ WeightsReady(gen.item)
  /\ submitted' = submitted \cup {Generating(gen.item, {served})}
  /\ gen' = [pc |-> "pop", item |-> NoItem]
  /\ UNCHANGED <<verVars, ctlVars, preGen, preTrain, holder, running, cbAlive, trainVars>>

Generation == GenPop \/ GenPend \/ GenSubmit
-----------------------------------------------------------------------------
(* flow_callback, on the callback thread; generations finish in any order. *)

ItemOf(x) == Prompt(x.p, x.sv)

Deliver(x) ==
  /\ cbAlive /\ holder = "none"
  /\ preTrain' = Put(preTrain, Rollout(x))
  /\ preGen' = Ack(preGen, ItemOf(x))
  /\ running' = running \ {ItemOf(x)}
  /\ submitted' = submitted \ {x}
  /\ UNCHANGED <<verVars, ctlVars, holder, gen, cbAlive, trainVars>>

CbDone(x) == Deliver(x)

CbIgnoreError(x) == GenMayFail /\ AllowErrors /\ Deliver(x)

\* Without genable_allow_errors the prompt stops counting as running but stays
\* un-acked, and re-raising ends the callback thread.
CbRaise(x) ==
  /\ cbAlive /\ holder = "none" /\ GenMayFail /\ ~AllowErrors
  /\ running' = running \ {ItemOf(x)}
  /\ submitted' = submitted \ {x}
  /\ cbAlive' = FALSE
  /\ UNCHANGED <<verVars, ctlVars, preGen, preTrain, holder, gen, trainVars>>

Callback == \E x \in submitted : CbDone(x) \/ CbIgnoreError(x) \/ CbRaise(x)
-----------------------------------------------------------------------------
(* The trainer.                                                            *)

\* _can_advance_weight_locked(): the guard sees the running prompts, not the
\* one waiting in pre_gen or in pre_train.
CanAdvanceWeight == \A x \in running : (train + 1) - x.sv <= MaxStaleness

\* get_train_samples(): _wait_for_next_weight().
TrainAdvance ==
  /\ trainer.pc = "idle" /\ Len(log) < TrainIters
  /\ holder = "none" /\ CanAdvanceWeight
  /\ train' = train + 1
  /\ trainer' = [trainer EXCEPT !.pc = "sync"]
  /\ UNCHANGED <<infer, served, ctlVars, preGen, preTrain, holder, genVars, log>>

\* sync_weight(): generations in flight go on with the new weights.
TrainDeploy ==
  /\ trainer.pc = "sync" /\ infer # train
  /\ served' = train
  /\ submitted' = {Generating(x, x.seen \cup {train}) : x \in submitted}
  /\ trainer' = [trainer EXCEPT !.pc = "deployed"]
  /\ UNCHANGED <<train, infer, ctlVars, preGen, preTrain, holder, gen, running, cbAlive, log>>

TrainSynced ==
  /\ trainer.pc = "deployed"
  /\ infer' = train
  /\ trainer' = [trainer EXCEPT !.pc = "collect"]
  /\ UNCHANGED <<train, served, ctlVars, preGen, preTrain, holder, genVars, log>>

\* The first prompt_per_iter results are taken in one go.
TrainTake ==
  /\ trainer.pc = "collect" /\ holder = "none"
  /\ QLen(preTrain) >= PromptPerIter
  /\ LET taken == SubSeq(preTrain.data, 1, PromptPerIter)
     IN /\ preTrain' = [data |-> SubSeq(preTrain.data, PromptPerIter + 1, QLen(preTrain)),
                        pending |-> preTrain.pending \o taken]
        /\ trainer' = [pc |-> "step", batch |-> taken]
  /\ UNCHANGED <<verVars, ctlVars, preGen, holder, genVars, log>>

TrainStep ==
  /\ trainer.pc = "step"
  /\ log' = Append(log, trainer.batch)
  /\ trainer' = [pc |-> "after", batch |-> <<>>]
  /\ UNCHANGED <<verVars, ctlVars, preGen, preTrain, holder, genVars>>

\* weight_dumped(): ack what was yielded since the last dump, which is all that
\* is pending in pre_train, the trainer being its only reader.
WeightDumped == [preTrain EXCEPT !.pending = <<>>]

TrainSave ==
  /\ trainer.pc = "after"
  /\ preTrain' = WeightDumped
  /\ trainer' = [trainer EXCEPT !.pc = "idle"]
  /\ UNCHANGED <<verVars, ctlVars, preGen, holder, genVars, log>>

TrainNoSave ==
  /\ trainer.pc = "after"
  /\ trainer' = [trainer EXCEPT !.pc = "idle"]
  /\ UNCHANGED <<verVars, ctlVars, preGen, preTrain, holder, genVars, log>>

Collecting == TrainAdvance \/ TrainDeploy \/ TrainSynced \/ TrainTake \/ TrainStep

Trainer == Collecting \/ TrainSave \/ TrainNoSave

\* The training loop is over: the worker threads are daemons.
Finished ==
  /\ trainer.pc = "idle" /\ Len(log) = TrainIters
  /\ UNCHANGED vars

Next == Control \/ Generation \/ Callback \/ Trainer \/ Finished

Spec == Init /\ [][Next]_vars

\* Threads are scheduled and every submitted generation terminates.  Each
\* result needs the lock, which the two workers always free.
Fairness ==
  /\ WF_vars(Control)
  /\ WF_vars(Generation)
  /\ SF_vars(Callback)
  /\ SF_vars(Trainer)

FairSpec == Spec /\ Fairness
-----------------------------------------------------------------------------
(* Properties.                                                             *)

PromptType == [p : 0 .. NumPrompts, sv : Nat]

GeneratingType == [p : 0 .. NumPrompts, sv : Nat, seen : SUBSET Int]

RolloutType == [p : 0 .. NumPrompts, sv : Nat, seen : SUBSET Int]

\* The last two are FullyAsyncResume's: the trainer takes a snapshot, or has ended.
TrainerType ==
  [pc : {"idle", "sync", "deployed", "collect", "step", "after", "snapshot", "failed"},
   batch : Seq(RolloutType)]

\* Shapes of the shared state, and which thread may be inside the lock.
TypeOK ==
  /\ train \in Int /\ infer \in Int /\ served \in Int
  /\ source \in 1 .. NumPrompts + 1
  /\ exhausted \in BOOLEAN
  /\ hand \in PromptType
  /\ preGen \in [data : Seq(PromptType), pending : Seq(PromptType)]
  /\ preTrain \in [data : Seq(RolloutType), pending : Seq(RolloutType)]
  /\ holder \in {"none", "control", "generation"}
  /\ gen \in [pc : {"pop", "pend", "wait"}, item : PromptType]
  /\ running \in SUBSET PromptType /\ IsFiniteSet(running)
  /\ submitted \in SUBSET GeneratingType
  /\ cbAlive \in BOOLEAN
  /\ trainer \in TrainerType
  /\ log \in Seq(Seq(RolloutType))

\* The prompts between the source and the trainer.
InHand == (IF holder = "control" THEN 1 ELSE 0) + (IF gen.pc = "pend" THEN 1 ELSE 0)

Outstanding == QLen(preGen) + InHand + Cardinality(running) + QLen(preTrain)

\* max_untrained_prompts is a cap on the whole pipeline, whatever the speed of
\* generation and training: at most one prompt beyond it is ever scheduled.
Backpressure == Outstanding <= MaxUntrainedPrompts + 1

\* A prompt is generated by weights at least as new as those it was scheduled
\* for, and by weights the trainer has produced.
VersionGate ==
  /\ infer <= train
  /\ \A x \in submitted : x.seen \subseteq x.sv .. train
  /\ \A i \in DOMAIN preTrain.data : preTrain.data[i].seen \subseteq preTrain.data[i].sv .. train

\* max_staleness is only looked at for the prompts that run.  While a prompt
\* waits in pre_gen the trainer may take every batch the cap lets through, so
\* a running prompt lags by that many versions when they exceed max_staleness,
\* and as many again in pre_train before it is trained on.
PipelineLag == 1 + MaxUntrainedPrompts \div PromptPerIter

RunningLag == IF MaxStaleness > PipelineLag THEN MaxStaleness ELSE PipelineLag

\* However slow generation or training is, a prompt is never older than that
\* when it runs and when the weights are trained on it.
BoundedLag ==
  /\ \A x \in running : train - x.sv <= RunningLag
  /\ \A k \in DOMAIN log : \A i \in DOMAIN log[k] :
       (k - 1) - log[k][i].sv <= RunningLag + PipelineLag

Count(s, p) == Cardinality({i \in DOMAIN s : s[i].p = p})

\* The places of a prompt in batches.
Trained(batches, p) ==
  UNION {{k} \X {i \in DOMAIN batches[k] : batches[k][i].p = p} : k \in DOMAIN batches}

\* Trained on, collected by the trainer, waiting in a queue, handed out and not
\* acked, or in the hands of one of the two workers.
Copies(p) ==
  Cardinality(Trained(log, p)) + Count(trainer.batch, p) + Count(preTrain.data, p)
    + Count(preGen.pending, p) + Count(preGen.data, p)
    + (IF holder = "control" /\ hand.p = p THEN 1 ELSE 0)
    + (IF gen.pc = "pend" /\ gen.item.p = p THEN 1 ELSE 0)

\* Every prompt the source has handed out is trained on or still in exactly
\* one place of the pipeline, whatever the order of the threads' steps.
ExactlyOnce ==
  \A p \in 0 .. NumPrompts : Copies(p) = IF p \in 1 .. source - 1 THEN 1 ELSE 0

\* What the trainer has received, as the batches of BatchStream in any order.
PromptIds(batch) == {batch[i].p : i \in DOMAIN batch}

Stream == INSTANCE BatchStream WITH
            batches <- [k \in DOMAIN log |-> PromptIds(log[k])],
            InOrder <- FALSE
=============================================================================
