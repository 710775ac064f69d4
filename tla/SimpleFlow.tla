------------------------------ MODULE SimpleFlow ------------------------------
(***************************************************************************)
(* SimpleFlowController (core/generators/flow_controller.py): rank 0's     *)
(* rollout pipeline for the "on-policy" and "one-step-off" strategies.     *)
(*                                                                         *)
(* Four threads of one process share it:                                   *)
(*   control     _control_worker, moves blocks of prompts from the source  *)
(*               to pre_gen, each block framed by a need_version and a     *)
(*               train signal;                                             *)
(*   generation  _generation_worker, drains pre_gen in order;              *)
(*   callback    the one callback thread of GenerationController, which    *)
(*               runs flow_callback for each finished generation;          *)
(*   trainer     PPOTrainer.train_loop through get_train_samples() and     *)
(*               weight_dumped().                                          *)
(*                                                                         *)
(* flow.lock is held across steps only by the control worker (the other    *)
(* holders put and ack inside one step), so it is a boolean.  get() takes  *)
(* no lock: popping an item and entering it in pending are two steps.      *)
(* Items of the queues are records tagged by kind; a signal also carries   *)
(* the scheduled version it was created for, which stands for its uuid.    *)
(***************************************************************************)
EXTENDS PersistentQueue, Integers, FiniteSets

CONSTANTS
  Strategies,    \* values of cfg.async_strategy a job may be started with
  PromptPerIter, \* cfg.prompt_per_iter
  TrainIters,    \* trainer_cfg.train_iters: the trainer stops there
  NumPrompts,    \* prompts the source yields before StopIteration
  AllowErrors,   \* cfg.genable_allow_errors
  GenMayFail     \* whether generate_for_train may raise

SimpleFlowAssumption ==
  /\ Strategies \subseteq {"on-policy", "one-step-off"}
  /\ PromptPerIter \in Nat \ {0}
  /\ TrainIters \in Nat
  /\ NumPrompts \in Nat
  /\ AllowErrors \in BOOLEAN
  /\ GenMayFail \in BOOLEAN

ASSUME SimpleFlowConfig == SimpleFlowAssumption

VARIABLES
  strategy,    \* cfg.async_strategy, fixed when the job starts
  train,       \* train_weight_version
  infer,       \* infer_weight_version
  served,      \* the weight version the inference servers really serve
  sched,       \* flow.meta["scheduled-weight-version"]
  source,      \* position of the source: the next prompt it yields
  preGen,      \* flow["pre_gen"]
  preTrain,    \* flow["pre_train"]
  locked,      \* the control worker holds flow.lock
  ctl,         \* control worker: [pc, left, hand]
  gen,         \* generation worker: [pc, item, needAck, active]
  running,     \* generations submitted and not called back: [p, seen]
  cbAlive,     \* the callback thread is alive
  trainer,     \* trainer: [pc, batch]
  log          \* the batches trained into the weights, one per iteration

ctlVars  == <<sched, source, locked, ctl>>
verVars  == <<train, infer, served>>
trainVars == <<trainer, log>>
vars == <<strategy, ctlVars, verVars, preGen, preTrain, gen, running, cbAlive, trainVars>>

NoItem == [t |-> "none"]
Need(b) == [t |-> "need", v |-> IF b > 0 THEN b ELSE 0, b |-> b]
Barrier(b) == [t |-> "train", b |-> b]
Prompt(p) == [t |-> "prompt", p |-> p]
\* seen: every weight version served while the rollout was generated.  An
\* ignored error leaves a rollout without trajectories.
Rollout(p, seen) == [t |-> "rollout", p |-> p, seen |-> seen]

FirstSched == IF strategy = "on-policy" THEN 0 ELSE -1

Init ==
  /\ strategy \in Strategies
  /\ train = -1 /\ infer = -1 /\ served = -1
  /\ sched = FirstSched
  /\ source = 1
  /\ preGen = EmptyQueue /\ preTrain = EmptyQueue
  /\ locked = FALSE
  /\ ctl = [pc |-> "check", left |-> 0, hand |-> NoItem]
  /\ gen = [pc |-> "pop", item |-> NoItem, needAck |-> NoItem, active |-> 0]
  /\ running = {}
  /\ cbAlive = TRUE
  /\ trainer = [pc |-> "idle", batch |-> <<>>]
  /\ log = <<>>
-----------------------------------------------------------------------------
(* _control_worker.                                                        *)

\* Mutant: the scheduler runs two versions ahead.
MayOpenEarly == sched <= train + 2

MayOpen == sched <= train + 1

\* The block of the next version is scheduled at most one version ahead of
\* training; the lock is taken and the need_version signal put.
CtlOpen ==
  /\ ctl.pc = "check" /\ ~locked
  /\ MayOpen
  /\ locked' = TRUE
  /\ preGen' = Put(preGen, Need(sched))
  /\ ctl' = [ctl EXCEPT !.pc = "fill", !.left = PromptPerIter]
  /\ UNCHANGED <<strategy, sched, source, verVars, preTrain, gen, running, cbAlive, trainVars>>

\* source.pop(): next(self._source), which advances the source at once.
CtlPop ==
  /\ ctl.pc = "fill" /\ ctl.left > 0 /\ ctl.hand = NoItem
  /\ source <= NumPrompts
  /\ ctl' = [ctl EXCEPT !.hand = Prompt(source)]
  /\ source' = source + 1
  /\ UNCHANGED <<strategy, sched, locked, verVars, preGen, preTrain, gen, running, cbAlive, trainVars>>

CtlPut ==
  /\ ctl.hand # NoItem
  /\ preGen' = Put(preGen, ctl.hand)
  /\ ctl' = [ctl EXCEPT !.hand = NoItem, !.left = @ - 1]
  /\ UNCHANGED <<strategy, sched, source, locked, verVars, preTrain, gen, running, cbAlive, trainVars>>

\* StopIteration: source_exhausted is set and the thread returns, leaving the
\* block without its train signal.
CtlExhausted ==
  /\ ctl.pc = "fill" /\ ctl.left > 0 /\ ctl.hand = NoItem
  /\ source > NumPrompts
  /\ ctl' = [ctl EXCEPT !.pc = "exit"]
  /\ locked' = FALSE
  /\ UNCHANGED <<strategy, sched, source, verVars, preGen, preTrain, gen, running, cbAlive, trainVars>>

CtlClose ==
  /\ ctl.pc = "fill" /\ ctl.left = 0
  /\ preGen' = Put(preGen, Barrier(sched))
  /\ ctl' = [ctl EXCEPT !.pc = "advance"]
  /\ UNCHANGED <<strategy, sched, source, locked, verVars, preTrain, gen, running, cbAlive, trainVars>>

CtlAdvance ==
  /\ ctl.pc = "advance"
  /\ sched' = sched + 1
  /\ locked' = FALSE
  /\ ctl' = [ctl EXCEPT !.pc = "check"]
  /\ UNCHANGED <<strategy, source, verVars, preGen, preTrain, gen, running, cbAlive, trainVars>>

Control == CtlOpen \/ CtlPop \/ CtlPut \/ CtlExhausted \/ CtlClose \/ CtlAdvance
-----------------------------------------------------------------------------
(* _generation_worker.                                                     *)

GenPop ==
  /\ gen.pc = "pop" /\ QLen(preGen) > 0
  /\ preGen' = Pop(preGen)
  /\ gen' = [gen EXCEPT !.pc = "pend", !.item = Peek(preGen)]
  /\ UNCHANGED <<strategy, ctlVars, verVars, preTrain, running, cbAlive, trainVars>>

GenPend ==
  /\ gen.pc = "pend"
  /\ preGen' = Pend(preGen, gen.item)
  /\ gen' = [gen EXCEPT !.pc = gen.item.t]
  /\ UNCHANGED <<strategy, ctlVars, verVars, preTrain, running, cbAlive, trainVars>>

\* Mutant: the wait looks at the train side, which runs ahead of the servers.
TrainHasVersion(v) == train >= v

HasVersion(v) == infer >= v

\* Mutant: the signal is acked as soon as its version is served.
AckNeedEarly ==
  /\ gen.pc = "need"
  /\ HasVersion(gen.item.v)
  /\ preGen' = Ack(preGen, gen.item)
  /\ gen' = [gen EXCEPT !.pc = "pop", !.item = NoItem, !.needAck = gen.item]
  /\ UNCHANGED <<strategy, ctlVars, verVars, preTrain, running, cbAlive, trainVars>>

\* need_version: wait for the weights, remember the signal's ack id.
GenNeed ==
  /\ gen.pc = "need"
  /\ HasVersion(gen.item.v)
  /\ gen' = [gen EXCEPT !.pc = "pop", !.item = NoItem, !.needAck = gen.item]
  /\ UNCHANGED <<strategy, ctlVars, verVars, preGen, preTrain, running, cbAlive, trainVars>>

\* A prompt: submit it, then count it.  (The counter is read by this thread
\* only, so counting in the same step as the submission loses no behaviour.)
GenSubmit ==
  /\ gen.pc = "prompt"
  /\ running' = running \cup {[p |-> gen.item.p, seen |-> {served}]}
  /\ gen' = [gen EXCEPT !.pc = "pop", !.item = NoItem, !.active = @ + 1]
  /\ UNCHANGED <<strategy, ctlVars, verVars, preGen, preTrain, cbAlive, trainVars>>

\* Mutant: the barrier does not wait.
NotDrained == TRUE

Drained == gen.active = 0

\* train: wait for the pending generations, then pass the barrier on and ack
\* it together with the need_version that opened its block.
GenBarrier ==
  /\ gen.pc = "train" /\ Drained /\ ~locked
  /\ preTrain' = Put(preTrain, gen.item)
  /\ preGen' = Ack(Ack(preGen, gen.needAck), gen.item)
  /\ gen' = [gen EXCEPT !.pc = "pop", !.item = NoItem]
  /\ UNCHANGED <<strategy, ctlVars, verVars, running, cbAlive, trainVars>>

Generation == GenPop \/ GenPend \/ GenNeed \/ GenSubmit \/ GenBarrier
-----------------------------------------------------------------------------
(* flow_callback, on the callback thread.  Generations finish in any order.*)

\* The trajectories (none when the error is ignored) go to pre_train and the
\* prompt is acked under the lock; the counter drops in the finally clause.
Deliver(x) ==
  /\ cbAlive /\ ~locked
  /\ preTrain' = Put(preTrain, Rollout(x.p, x.seen))
  /\ preGen' = Ack(preGen, Prompt(x.p))
  /\ running' = running \ {x}
  /\ gen' = [gen EXCEPT !.active = @ - 1]
  /\ UNCHANGED <<strategy, ctlVars, verVars, cbAlive, trainVars>>

CbDone(x) == Deliver(x)

CbIgnoreError(x) == GenMayFail /\ AllowErrors /\ Deliver(x)

\* Mutant: the failed prompt is acked, as in the branch that ignores errors.
AcksFailure(x) ==
  /\ cbAlive /\ GenMayFail /\ ~AllowErrors
  /\ preGen' = Ack(preGen, Prompt(x.p))
  /\ running' = running \ {x}
  /\ gen' = [gen EXCEPT !.active = @ - 1]
  /\ cbAlive' = FALSE
  /\ UNCHANGED <<strategy, ctlVars, verVars, preTrain, trainVars>>

\* Without genable_allow_errors the callback raises: the counter still drops
\* but nothing is put or acked, and the exception ends the callback thread.
CbRaise(x) ==
  /\ cbAlive /\ GenMayFail /\ ~AllowErrors
  /\ running' = running \ {x}
  /\ gen' = [gen EXCEPT !.active = @ - 1]
  /\ cbAlive' = FALSE
  /\ UNCHANGED <<strategy, ctlVars, verVars, preGen, preTrain, trainVars>>

Callback == \E x \in running : CbDone(x) \/ CbIgnoreError(x) \/ CbRaise(x)
-----------------------------------------------------------------------------
(* The trainer.                                                            *)

\* get_train_samples() opens the next version.
TrainRequest ==
  /\ trainer.pc = "idle" /\ Len(log) < TrainIters
  /\ train' = train + 1
  /\ trainer' = [trainer EXCEPT !.pc = "sync"]
  /\ UNCHANGED <<strategy, ctlVars, infer, served, preGen, preTrain, gen, running, cbAlive, log>>

\* sync_weight(): deploy_training_model() reloads the servers.  A generation
\* in flight goes on with the new weights.
TrainDeploy ==
  /\ trainer.pc = "sync" /\ infer # train
  /\ served' = train
  /\ running' = {[x EXCEPT !.seen = @ \cup {train}] : x \in running}
  /\ trainer' = [trainer EXCEPT !.pc = "deployed"]
  /\ UNCHANGED <<strategy, ctlVars, train, infer, preGen, preTrain, gen, cbAlive, log>>

TrainSynced ==
  /\ trainer.pc = "deployed"
  /\ infer' = train
  /\ trainer' = [trainer EXCEPT !.pc = "collect"]
  /\ UNCHANGED <<strategy, ctlVars, train, served, preGen, preTrain, gen, running, cbAlive, log>>

\* Items are taken until a train signal, whichever block it belongs to.  The
\* trainer's get() is one step: its pending set is the trainer's own.
TrainCollect ==
  /\ trainer.pc = "collect" /\ QLen(preTrain) > 0
  /\ preTrain' = Get(preTrain)
  /\ trainer' = IF Peek(preTrain).t = "train"
                THEN [trainer EXCEPT !.pc = "step"]
                ELSE [trainer EXCEPT !.batch = Append(@, Peek(preTrain))]
  /\ UNCHANGED <<strategy, ctlVars, verVars, preGen, gen, running, cbAlive, log>>

\* The training step: the batch is now part of the weights.
TrainStep ==
  /\ trainer.pc = "step"
  /\ log' = Append(log, trainer.batch)
  /\ trainer' = [pc |-> "after", batch |-> <<>>]
  /\ UNCHANGED <<strategy, ctlVars, verVars, preGen, preTrain, gen, running, cbAlive>>

\* weight_dumped(): ack what was yielded since the last dump; what was yielded
\* is all that is pending, the trainer being pre_train's only reader.
WeightDumped == [preTrain EXCEPT !.pending = <<>>]

\* train_loop: an iteration is followed by save_checkpoint() or by none.
TrainSave ==
  /\ trainer.pc = "after"
  /\ preTrain' = WeightDumped
  /\ trainer' = [trainer EXCEPT !.pc = "idle"]
  /\ UNCHANGED <<strategy, ctlVars, verVars, preGen, gen, running, cbAlive, log>>

TrainNoSave ==
  /\ trainer.pc = "after"
  /\ trainer' = [trainer EXCEPT !.pc = "idle"]
  /\ UNCHANGED <<strategy, ctlVars, verVars, preGen, preTrain, gen, running, cbAlive, log>>

Collecting == TrainRequest \/ TrainDeploy \/ TrainSynced \/ TrainCollect \/ TrainStep

Trainer == Collecting \/ TrainSave \/ TrainNoSave

\* The training loop is over: the worker threads are daemons.
Finished ==
  /\ trainer.pc = "idle" /\ Len(log) = TrainIters
  /\ UNCHANGED vars

Next == Control \/ Generation \/ Callback \/ Trainer \/ Finished

Spec == Init /\ [][Next]_vars

\* Threads are scheduled; a generation that was submitted terminates, with a
\* result or an error.
Fairness ==
  /\ WF_vars(Control)
  /\ WF_vars(Generation)
  /\ WF_vars(Callback)
  /\ WF_vars(Trainer)

FairSpec == Spec /\ Fairness
-----------------------------------------------------------------------------
(* Properties.                                                             *)

Max0(n) == IF n > 0 THEN n ELSE 0

Items ==
  {NoItem} \cup {Prompt(p) : p \in 1 .. NumPrompts}
    \cup {Need(b) : b \in -1 .. TrainIters + 1}
    \cup {Barrier(b) : b \in -1 .. TrainIters + 1}

\* The weight versions a batch may have been generated by.  On-policy,
\* iteration k trains on rollouts of version k alone; one-step-off, of
\* versions k-1 and k, and nothing older.
FreshRollouts ==
  \A k \in DOMAIN log : \A i \in DOMAIN log[k] :
    /\ log[k][i].seen # {}
    /\ log[k][i].seen \subseteq
         (IF strategy = "on-policy" THEN {k - 1} ELSE {Max0(k - 2), k - 1})

IsPrompt(x) == x.t \in {"prompt", "rollout"}

PromptIds(s) == {s[i].p : i \in {i \in DOMAIN s : IsPrompt(s[i])}}

Count(s, p) == Cardinality({i \in DOMAIN s : IsPrompt(s[i]) /\ s[i].p = p})

\* The places of a prompt in batches.
Trained(batches, p) ==
  UNION {{k} \X {i \in DOMAIN batches[k] : IsPrompt(batches[k][i]) /\ batches[k][i].p = p} :
           k \in DOMAIN batches}

\* Everywhere a prompt may be: trained on, collected by the trainer, generated,
\* handed out and not acked, queued, or in a worker's hand.
Copies(p) ==
  Cardinality(Trained(log, p)) + Count(trainer.batch, p) + Count(preTrain.data, p)
    + Count(preGen.pending, p) + Count(preGen.data, p)
    + (IF ctl.hand = Prompt(p) THEN 1 ELSE 0)
    + (IF gen.pc = "pend" /\ gen.item = Prompt(p) THEN 1 ELSE 0)

\* Every prompt the source has handed out is trained on or still in exactly
\* one place: no thread drops a prompt or duplicates it, whatever the order
\* of their steps.
ExactlyOnce ==
  \A p \in 1 .. NumPrompts : Copies(p) = IF p < source THEN 1 ELSE 0

\* The block a prompt belongs to: the version that was scheduled when the
\* control worker took it from the source.
BlockOf(p) == FirstSched + (p - 1) \div PromptPerIter

\* What a checkpoint of pre_gen would replay, the item between get()'s two
\* effects included.
Replayed ==
  preGen.pending \o (IF gen.pc = "pend" THEN <<gen.item>> ELSE <<>>) \o preGen.data

\* A checkpoint of pre_gen is replayed from its oldest un-acked item, so the
\* need_version that gates a prompt must stay un-acked as long as the prompt:
\* the signal nearest before any prompt is the need_version of its block.
GatedStream ==
  \A i \in DOMAIN Replayed : Replayed[i].t = "prompt" =>
    \E j \in 1 .. i - 1 :
      /\ Replayed[j] = Need(BlockOf(Replayed[i].p))
      /\ \A m \in j + 1 .. i - 1 : Replayed[m].t = "prompt"

\* The source runs ahead of training by one block on-policy and by two
\* one-step-off, whatever the speed of generation.
Lookahead ==
  source - 1 <= PromptPerIter * (train + 2 - FirstSched)

\* The controller keeps the promise of BatchStream: each iteration receives
\* the source's next block, whole and once, and the trainer is never left
\* waiting while the source has prompts.
Stream == INSTANCE BatchStream WITH
            batches <- [k \in DOMAIN log |-> PromptIds(log[k])],
            InOrder <- TRUE

StreamSpec == Stream!FairSpec
=============================================================================
