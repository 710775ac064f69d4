# A TLA+ model of SteptronOss

SteptronOss trains language models, by next-token prediction and by reinforcement
learning. Where order, timing and failure decide whether a job is right, this
directory models its control: the pipeline that generates rollouts while training
goes on, the pool of generation processes, the checkpoints and what a restart
makes of them, the layout and the asynchronous loading of the data, the
schedules of pipeline parallelism, the deployment of weights to the servers, and
the way the processes of a job find each other. Where a job is right if many processes compute what one process would,
it models who holds which part of a tensor and what is exchanged: the divided
layers, the experts and their kernels, the optimizer, the update of a PPO
iteration, and what a checkpoint holds. TLC checks all of it on small
instances; TLAPS proves the most important safety properties of the flow
controllers and of their restarts, the generation pool, the checkpoints, the servers,
the data layout, the PPO update and the rendezvous for all sizes.

Run everything from this directory: `tlc -workers 2 -config X.cfg M` for the
runs of PROJECT.json, `tlapm M.tla` for the modules `...Proofs` and
`QueueLemmas`. Paths below are relative to `src/steptronoss/`.

## 1. Inventory

| Component | State it keeps | Operations | Interacts with | Hard | What makes it correct |
|---|---|---|---|---|---|
| Persistent queues (`utils/rl_utils.py`) | deque, map of un-acked items | put, pop, get, ack, state_dict, load_state_dict | controllers, checkpoints | snapshot beside other threads; rollback | nothing lost or doubled, order kept |
| SimpleFlowController (`core/generators/flow_controller.py`) | versions, two queues, source position, scheduled version, counter | control, generation and callback threads; get_train_samples, sync_weight, weight_dumped, state_dict | pool, trainer, servers | four threads, reload in mid-generation, errors, restart | batches are the source's blocks, fresh rollouts, no deadlock |
| FullyAsyncFlowController (same file) | the same and running_genables | the same, with a condition variable | the same | back-pressure and staleness tested by different threads; restart with un-acked prompts | cap, staleness bound, no deadlock, exact resume |
| GenerationController (`generation/async_generation.py`) | callback map, pending deque, in-flight ids, process queues | submit_with_callback, generate, shutdown, callback loop | worker processes, controllers, evaluation | processes, id reuse, callback errors, shutdown race | exact cap, own callback, every task answered |
| Checkpointer (`checkpointing/local_checkpoint.py`) | dump_tasks, files, .success files, latest_ckpt | submit_dump_task, join_dumping_thread, _dumper, _dump_with_callback | all ranks through the file system | asynchronous dumps of many ranks, crash, restart into the same directories | latest_ckpt complete, never old, bounded loss |
| LM and PPO trainers (`core/trainers/`) | iteration, history | train_loop, save_checkpoint, after_train, set_autoresume | all of the above | save schedule, final save, resume | drive the components in the order they need |
| Async data loading (`data/nextable/`) | worker and shadow processes, queues | `__next__`, state_dict, `__repr__`, load_state_dict, _reset | trainer, checkpoints | processes that run ahead, state requested at any time, dying workers | one sequential stream; state equals what was consumed |
| Samplers, packing, packed dataloader (`data/`) | counts, order of the epoch, packs | draw, pack, flush | data loading | mixture weights, boundaries of packs | fair mixture, epochs kept, every sample in one pack |
| Pipeline schedules (`core/pipeline_parallel/`) | lists of tensors, buffers, pending operations | forward/backward passes, sends and receives | neighbouring ranks | order of matching operations, overlap | no deadlock, own microbatch's tensors, bounded activations |
| Rendezvous (`utils/comm_utils.py`) | rendezvous file, port | read, remove, claim, publish | processes of a job | stale and young files of earlier jobs, timeouts | a port that may be trusted |
| Chain/Block, RedisQueue and futures, redistributed_tp | | | no code of the repository uses them | | |
| Mesh (`core/parallel_state.py`) | process groups | build, rank_in, size_of | everything | rank arithmetic | partitions of the world |
| Divided layers (`core/tensor_parallel/`, `core/context_parallel/`, `model/common/`) | shards of weights, activations | forward, backward, collectives | mesh, gradient managers | what is summed, gathered or cut where; replicas | loss and gradients of one process |
| Experts (`model/common/moe_block.py`, `model/ep_dispatcher/`, `model/utils/moe_utils.py`) | routing record, balance bias, counts | route, dispatch, combine, recompute, update of the bias | mesh, trainer | several microbatches in flight, recomputation, groups | every token through its own experts, replicas alike |
| Kernels of the experts (`model/optimizations/`) | buffers of a launch | histogram, index, scatter, grouped GEMM, gather and their gradients | experts | programs in any order, tiles that divide nothing | what the loop over experts computes |
| Gradient managers (`optimizer/`, `model/utils/comm_buffer.py`) | buffers, master parameters, scales | zero, reduce, clip, step, gather | layers, mesh | one storage for gradients and parameters, cut by rank | the step of one process |
| PPO update (`core/trainers/ppo_trainer.py`, `packed_model.py`) | packs, device of each part, hooks | pack, forward of three models, advantages, two optimizers, offload | flow controllers, gradient managers | shifts by a token, order of samples, offloaded parts | every token with its own numbers; nothing used on the host |
| Checkpoint contents (`checkpointing/`, `utils/weight_loader.py`, models) | states of a rank, safetensors | save, load, broadcast, reshape | Checkpointer, mesh | other meshes, shards, experts | every rank gets its part back |
| vLLM router, controller, client (`generation/vllm/`) | endpoints, next index, state of each controller, progress of a deployment | register, unregister, proxy; publish, shutdown; wait_for_server, reload | servers, PPO trainer, pool | servers that register late, end, answer late or never; retries | requests after a deployment get its weights |
| FlowControllerSimulator | clock, running and ready prompts | simulate | nothing at run time | free prompts, incomplete batches | ends, shows all work, keeps the limits |
| Tokenizers, data sets, metrics, configuration, tools | textual, declarative | | | | |

How they interact in an RL job: rank 0's *control worker* moves prompts from the
source to the queue `pre_gen`; its *generation worker* hands them to the pool,
whose *callback thread* puts trajectories in `pre_train` and acks the prompt;
the *trainer* takes a batch, deploys weights to the servers before it, which it
finds through the *router* that each server's *controller* registers with, trains,
and at a save calls `weight_dumped()`, snapshots the flow and gives the snapshot
to the *dumper thread* of its rank. After a crash the job resumes from the
checkpoint that `latest_ckpt` names. A step of training takes its items from the
*prefetch thread*, which collects them from the *data workers*; a *shadow worker*
follows what was consumed, for the checkpoint. In a pipeline the step is then a
schedule of passes on every rank, with sends and receives between neighbours.

PROJECT.json lists the hazards, each at its line, with the properties that
cover it.

## 2. Modules

| Module | Models | State and actions |
|---|---|---|
| `PersistentQueue` | the queue as a record `[data, pending]` with its operations | operators; used by both controllers |
| `BatchStream` | what a controller promises the trainer: each iteration receives `prompt_per_iter` prompts nobody received before, in source order where the strategy keeps it, and the trainer is not left waiting while prompts are left | abstract specification |
| `SimpleFlow` | `SimpleFlowController`, on-policy and one-step-off | `Ctl*`: `_control_worker`; `Gen*`: `_generation_worker`; `Cb*`: `flow_callback`; `Train*`: `get_train_samples`, `sync_weight`, the step, `weight_dumped` |
| `SimpleFlowResume` | the same with `PPOTrainer.save_checkpoint`, `state_dict`, the dumping thread, crash and restart | `SaveBegin`, `Snap*` one per part read, `DumpDone`, `Restart` |
| `FullyAsyncFlow` | `FullyAsyncFlowController` | the same threads, on one condition variable |
| `FullyAsyncResume` | the same with `state_dict` under concurrent steps, the copy of the snapshot, crash and restart | `SaveBegin`, `Snap*`, `Move*`, `DumpDone`, `Restart` |
| `Checkpointer` | trainer and dumper threads of all ranks, the files they write | `Join`, `Barrier`, `Submit*`, `Dump*`, `Mark*`, `Restart` |
| `GenerationPool` | `GenerationController` with its processes and callback thread | `FlowSubmit`, `Batch*`, `Worker*`, `Cb*`, `Shutdown` |
| `VLLMServing` | `deploy_training_model()` with `VLLMClient`, `VLLMRouter`, `VLLMController` | `Router*`, `MessageLost`; `ServerUp` to `Terminate`: a controller and its server; `Dump` to `Gathered`: the deployment; `Route`, `Start`, `Return`: a request |
| `Rendezvous` | `get_exp_redis()` of all processes, the rendezvous file | `Read*`, `Remove`, `Claim`, `WriteMaster`, `StartRedis`, `Publish`, `TimeOut` |
| `SequentialNextable` | what a nextable promises the trainer: one position, items in order, states that can be loaded | abstract specification |
| `AsyncAccelerate` | `AsyncAcceleratedSlowFast` over a `DPMux` of a looped sampler | `Worker*`: `_data_worker_fn`; `Fetch*`: the prefetch thread; `Shadow*`: `_shadow_worker_fn`; `CallNext`, `Next*`, `Ask`, `Load`: the trainer's calls |
| `PackedDataloader` | `WeightedRandomSampler`, the looped samplers, `MixedPackedDataloader`, `pack()` | `Sample`, `Pack*` |
| `PipelineSchedule` | `PPScheduler`, `VPPScheduler`, `p2p_communication` | `TakeTurn`: a rank's code from one wait to the next; `Meet`: a send meets a receive |
| `FlowSimulator` | `FlowControllerSimulator.simulate()`, its timeline and summary | `Yield`, `Tick`, `Return`; `WindowTick`, `BuildBlock`; `Render` |
| `PolicyUpdate` | `PPOTrainer.train_step()` with `PackedModel` | one action per kind of statement of `Program` |
| `Matrices` | numbers modulo a prime, matrices as sequences of rows | operators |
| `ParallelMesh` | the process groups of `ParallelManager` | operators |
| `ParallelLayers` | the layers of a decoder under tensor, sequence and context parallelism | `ForwardLayer`, `Loss`, `BackwardLayer`, `ReduceGrads` |
| `ExpertParallel` | `MoEBlock`, the dispatchers, recomputation, the balance bias | `Route`, `Dispatch`, `RunExperts`, `Gather`, `Combine`, `Backward*`, `StageCounts`, `Update` |
| `RoutingKernels` | `routed_grouped_ffn()` and its Triton kernels | `Launch`; `Run*`: one program of a kernel |
| `Gradients`, `MCGradients` | both gradient managers, norm, clipping, communication buffers | `Backward`, `Reduce*`, `Clip`, `InnerStep`, `Fill`, `Gather`, `Spread` |
| `CheckpointContents` | what ranks save and load, the broadcasts, safetensors and the reshaper | `Import`, `Train`, `DumpSafetensors`, `Restart`, `LoadOwn`, `Broadcast`, `Merge` |
| `QueueLemmas` | lemmas about `PersistentQueue`'s operations and about sequences | used by both proofs about flow controllers |
| `SimpleFlowProofs`, `FullyAsyncFlowProofs` | invariants, theorems and proofs about the module of that name and its `...Resume` | |
| `CheckpointerProofs`, `GenerationPoolProofs` | the same about the module of that name | |
| `TrainingProofs` | invariants, theorems and proofs about `PackedDataloader` and about `PolicyUpdate` | |
| `WorkersProofs`, `RestartsProofs` | the theorems carried over to `MCWorkers` and `MCRestarts`; proofs about `Rendezvous` and `VLLMServing` | |
| `CheckpointPlans`, `MC...` | small instances for TLC, symmetry sets, and the runs that explore several components | |

A formula introduced by "Mutant:" just before a definition is that definition
with a plausible bug; nothing uses it. PROJECT.json pairs each property with a
mutant that breaks it.

### Modelling decisions

*Granularity in the controllers.* A step ends where another thread could see a
difference. `PersistentQueue.get()` pops and then inserts into `pending` without
a lock, hence two steps for the generation worker; for the trainer it is one,
because it is the only reader of `pre_train` and the snapshot is taken by the
trainer thread itself. A callback's put, ack and decrement are one step: put and
ack are under the lock, and the counter is read only by the generation worker,
which waits for zero. `submit_with_callback` and the increment of the counter
are one step for the same reason (`+=` on a shared counter is not interrupted
under the GIL of the supported CPython versions). The control worker holds the
lock over several steps, since the snapshot reads without it; a snapshot that
falls between a put and its ack is one more that is not clean, and clean ones
are all that the resume properties speak of.

*Data.* A prompt is its number, and a queue item stands for its uuid. A signal
carries the block it frames, which the code does not store: it makes it unique,
as the uuid does. A rollout remembers the set `seen` of server versions it was
generated under; `served`, the version the vLLM servers have, is the external
part of the model. A reload under a running generation adds the new version to
its `seen`. `yielded_but_not_acked_train_samples` is not a variable: the trainer
is the only reader of `pre_train`, so the list is always its pending map, which
the operator `WeightDumped` empties. `meta["scheduled-weight-version"]` of the
fully-async controller is written and never read, so it is left out.

*Exactly once.* `ExactlyOnce` counts the copies of a prompt in the log, the trainer's
batch, both queues, the un-acked items and the workers' hands: one if the source has
handed it out, none if not. A running generation is no copy of its own, as its prompt is
un-acked; a dropped prompt or a second copy in any one of the places breaks the count.

*Strategies.* `SimpleFlow` chooses `strategy` in `Init` and never changes it, so
one run checks both.

*Saving.* Whether an iteration is followed by a save depends on `save_interval`
alone; in the flow modules every iteration may or may not be (`TrainSave`,
`TrainNoSave`). `weight_dumped()` is called before the asynchronous dump starts,
although the README of the generators says that it is after the dump succeeds;
that is harmless, as the snapshot being dumped is taken after it and the
weights are in the same checkpoint. `make_ckpt` copies the states in the trainer
thread, so a submitted snapshot does not change. The extra save of
`after_train()` is part of `Checkpointer` and omitted from `SimpleFlowResume`.

*Snapshots.* `SimpleFlowResume` reads the parts in the code's order (source,
`pre_gen` data, `pre_gen` pending, `pre_train`, meta), with steps of the other
threads between. A checkpoint is *clean* if no such step happened and no thread
held an item in its hand. The resume properties are about behaviours that
restored clean checkpoints only; `simple_torn` shows what the others do. The
state constraint `CleanRuns` cuts a behaviour at the first checkpoint that is
not clean: the flow's own state does not depend on checkpoints that are never
restored, so nothing about clean restarts is lost.

*Checkpointer.* Training is a collective operation, so the iteration is one
variable and a barrier releases all ranks at once; the three barriers between
`join_dumping_thread()` and the first task are one. A file is absent, partial,
or known by the run of the job that wrote it. Opening a file truncates it,
which is how a later run destroys what an earlier one left. A finished job that
is started again resumes at `latest + 1`, finds itself beyond `train_iters` and
saves that iteration once more, as the code does.

*FullyAsyncResume.* The snapshot reads `source_exhausted`, the stages of the
flow, and `running_genables`, which it only takes by reference; `move_to_memory()`
then iterates over it and fails if its size changes on the way (`MoveFails`, which
ends the trainer, as the exception does). A restored prompt keeps the version it
was scheduled for, the restored servers have none.

*GenerationPool.* What happens under `_state_lock` is one step. The flow's task
ids are uuids, the ids of `generate()` are 0, 1, ... in every batch, and
batches follow one another, as in the evaluation code. A generation that raises
returns its error as its result, so the pool does not distinguish the two. The
repository's callers give the flow and an evaluation a controller each; the
model lets one serve both, which the class allows and which includes each alone.
The assertion of the callback loop is not an action but a conjunct of
`OwnCallback`.

*AsyncAccelerate.* Every process has its own copy of the nextable; only its
position matters, so a process is its position. The threads of an earlier
`_reset()` keep queues that nobody reads any more and are left out. The
combinators between the sampler and the loader map items and have no state.

*PackedDataloader.* The heap of `WeightedRandomSampler` holds one entry per data
set, keyed by count over weight: `IsNext` states which is the least, instead of a
heap. The scores are sums of rounded (float32) reciprocals; they are taken as exact
quotients, of which equal ones are in either order. That is their order as long as
the product of two weights stays below 2^24; beyond, the sampler may be ahead by that
rounding, which is one part in 10^7 of a data set. The number of draws is
`int()` of a float sum: `Draws` lets it be one less than the sum when the sum is whole
and some epochs are no float exactly (`Exact`). Floats lose it for some of these
configurations only, such as 0.4 epochs of one sample and 1.2 of three, which sum up
to 3.9999999999999996; the model lets it happen for all of them. The error of
the sum is below 1/`Unit`, as epochs have a few digits. Shuffling chooses any
permutation. The last draw of the heap that the code makes ahead of need is
part of the draw before it.

*PipelineSchedule.* What `run()` does depends on sizes and on the rank, never on
a tensor's content. So `Turns` computes, once, the list of a rank's turns, one
per stretch of code between two waits, and the state machine interleaves the
turns of all ranks and the matching of their operations. The lists
`input_tensors`, `output_tensors`, `output_tensor_grads` are kept as in the code,
and a tensor is the pair of the virtual stage and microbatch that made it. The
operations of a batch start together; a pair of ranks matches the sends of one
direction with the receives of the other in the order posted, as NCCL does.
Operations that are not batched run one after the other.

*Numbers.* Where a property says that many processes compute what one process
does, floating-point numbers are integers modulo the prime 9973 (`Matrices`):
sums, products and quotients are exact, so two computations that are the same
formula agree, and others differ except by accident. What has no exact
counterpart is replaced by something that reads the same elements: softmax by a
sum over the keys a token sees, weighted by their relative position, `exp` and
`log` of the loss by squares, SwiGLU by a product, the inner optimizer by the
subtraction of the gradient, clipping by a product with the squared norm, training
between two checkpoints by one function applied to every element. All ranks run
the same program, and a collective waits for its whole group; so a step of these
modules is one statement on all ranks, and what a rank receives is computed from
the group of `ParallelMesh`. What depends on order is not in lockstep: the
programs of a kernel launch, the microbatches of a dispatcher, the ranks that
save.

*ParallelLayers.* `MCMeshes` leaves out three kinds of configurations in which the
code does not compute what one process does (remarks A and B below). Two samples
are cut by chunks of context parallelism in the middle.

*ExpertParallel.* Two microbatches are in flight at once and the backward pass may
recompute the forward one, which is what the record of the last dispatch has to
survive. Experts that are not divided, with sequence parallelism, get the rows of the
whole tensor parallel group and the pass fails in `reshape()` (`raised`, remark P); nothing
is claimed of such jobs but that they compute nothing wrong before. Only the token dispatchers the repository can select are modelled; the
handles that DeepEP would cache are not used by it.

*RoutingKernels.* A program of a launch is one step: it reads nothing that other
programs of its launch write and adds to shared cells with atomics. `Garbage` is
what an empty buffer holds. The blocks are small and divide none of the sizes,
but for that of the reduced dimension (remark L). Tensors are sequences of rows; their
strides in memory are not modelled. The cases in which no row has a
local expert are left out (remark M), and so is the TMA kernel, which
only the self-test of its file calls.

*Gradients.* `MCGradConfigs` leaves out the configurations where the scale of the
expert gradients or the norm is not that of one process (remarks G, H and
`grad_norm_tp`).

*PolicyUpdate.* A number is the token it belongs to, `<<sample, position>>`; what is
computed from two tensors exists only where their tokens agree. Generalised
advantage estimation is the set of later tokens it sums over, and the shuffle of
the samples a fixed order. Two ranks take one step per iteration (remark I). One
iteration, the actor and critic without virtual pipelining.

*CheckpointContents.* All tensors are stacks of matrices and a name is a short tuple.
Ranks save in any order and load in lockstep. Only `broadcast_from_dp0=True`, the
default, is modelled, and no resharding of optimizer states, whose result
nothing reads (remark K); a native checkpoint keeps the size of expert
parallelism; `actual_vocab_size` is not given, so the padding stays.

*VLLMServing.* A replica is a node with its controller, its server and their
endpoint; weights are the number of the deployment that wrote them. vLLM is external:
a server becomes healthy or not, ends at any time, and loads what is in the hot path
when `reload_weights` reaches it. A controller's call to the router is a message that
arrives at any later time or never, since the controller gives up waiting and goes on. A
call of the client fails before or after the server has done its work. A request
may be sent at any time, also while servers reload; `since` is the last deployment
that had returned when it was routed. Only rank 0 speaks to the
servers; the other ranks wait in barriers and in a `wait_for_server()` of their
own after it, which changes nothing. A deployment that raises ends the trainer.
The content of the prefix cache, the headers and the streaming of answers are left out.

*Rendezvous.* A process stands for its host, a port for the process whose server
has it. Nobody removes the file when a job ends, so that `Leftovers` has what an earlier
job may have left at any point of its life: a file whose age is above a day says
`Old`, a younger one `Recent`, and an empty one is what a claim leaves that died before its
first write. `DayPasses` makes a file old at any time, one of this job when it names a
port (a server starts within a day); a process may come as late as that.
`os.replace()` is atomic, reading and removing are two steps.

## 3. Runs

| Run | Question | Result | Bounds |
|---|---|---|---|
| `simple_flow` | do four threads keep every prompt once, train on fresh rollouts, stay within the lookahead, with gates in the queue, and implement `BatchStream` without deadlock, when errors are ignored and the source ends in mid-block? | holds | 3 iterations, blocks of 2, 7 prompts, both strategies |
| `async` | controller: cap, staleness bound, versions, and `BatchStream` in any order. Simulator: it ends, shows all its work, keeps the same limits. PPO update: every token with its own numbers, nothing used that is on the host | holds | controller: 3 iterations, batch 2, cap 1 (the smallest for it), staleness 0, 7 prompts; simulator: 6 lists of costs, batches of 1 to 3, 0 to 2 slots, caps to 3, staleness to 2; update: 3 to 5 samples of 4 shapes, 3 set-ups |
| `restarts` | do both kinds of flows resume exactly from a clean checkpoint, also when callbacks raise? is a checkpoint that one run wrote complete, with failed renames and dying dumpers? does every rank get its part of models, optimizer and progress back? does a request after a deployment get its weights, with servers that come and go? | holds | async flow: 2 iterations, batch 1, cap 1, 3 prompts; simple flow: 2 iterations, blocks of 2, 5 prompts; files: 2 ranks, 2 parts, a save every 2 of 4 iterations; 1 crash; contents: 4 layers, 4 experts, 15 jobs on 2 to 8 ranks; serving: 2 servers, 1 request, 1 deployment |
| `workers` | pool: exact cap, no idle place, own callback, one callback after shutdown, every task answered. Dumps: `latest_ckpt` complete, never back, bounded backlog and loss, every save lands. Rendezvous: no port but of this job's servers, or of a job of the same day as long as this one has no server | holds | pool: 2 workers, cap 2, 2 flow items, 2 batches of 1; dumps: 2 ranks, 2 parts, 4 iterations, a save at each; rendezvous: 4 processes, 1 a client, 6 leftovers |
| `step` | data: fair mixture, epochs kept but for one lost draw, every piece in one tight pack; loading: one sequential stream whose calls return; pipeline: right tensors, bounded activations, no deadlock; layers, experts, optimizer: what one process computes; kernels: what the loop computes | holds | 2 data sets of 1 to 5 samples, 0.4 to 2 epochs; 2 workers, 3 takes, 1 reload; 2 to 3 stages, 1 to 2 chunks, up to 6 microbatches, with and without overlap, training and evaluation; layers: 2 samples of 8 tokens on 1 to 4 ranks; experts: 4 on 1 to 4 ranks, 2 steps of 2 microbatches; kernels: 3 tokens, 3 experts, 3 routings; optimizer: 6 parameters on 1 to 4 ranks, 2 steps |
| `simple_torn` | does a resume keep unfinished work, as the README of the generators says? | **violated** | one-step-off, 2 iterations, blocks of 2, 6 prompts, 1 crash |
| `async_resume_wedge` | does a resumed fully-async job deploy weights again, as that README says? | **violated** | 2 iterations, batch 1, cap 1, 1 crash |
| `ckpt_stale_success` | is `latest_ckpt` complete also after a restart? | **violated** | 2 ranks, 1 part, a save every 2 of 5 iterations, 1 crash |
| `ppo_optimizer` | does each rank of a PPO job get its own optimizer states back? | **violated** | 2 ranks |
| `grad_norm_tp` | is the norm that gradients are clipped by that of all parameters? | **violated** | 2 to 4 ranks, 1 step |
| `pipeline_pp2` | do two stages with two chunks each exchange activations and gradients as the comment says? | **violated** | 2 stages, 2 chunks, 2 or 4 microbatches, batched operations |
| `rendezvous_split` | does the rendezvous elect a master? | **violated** | 3 processes, 1 a client |

`async`, `restarts`, `workers` and `step` explore components that share no state: an
initial state chooses which of them runs (the variable `kind`), and the others
stay in an initial state. It is the union of their state spaces, never the
product, and each component's properties are checked as if it were alone.

The bounds and why they are enough: blocks of two let a step fall between two
prompts of a block; three iterations are the warm-up, the first steady one and
its successor; the source has as many prompts as the iterations need, some of
which are dropped by ignored errors, so that it may end in the middle of a
block. In `async` the knobs are the tightest the constructor accepts, where
waits depend on each other most. In `restarts` one prompt runs while the others
wait or are delivered, at the moment of the crash. Two ranks suffice for a race
between finishers, and two parts for a crash between parts; four saves are
needed for a queue of waiting tasks, one being dumped, and a newer one. Two
batches of the pool are what reuses an id. Two servers are enough for one that is
missing from the list, and one request for one between two deployed versions, the
first being that which the servers started with. In `step`, data sets with a sample
that fills a pack and one too large; epochs whose weights are whole, of exact and of
inexact floats, or not whole; shuffling of one or two samples, which tells a pass that
ends too early; queues of one place
each between the threads; and for the pipeline the smallest numbers of
microbatches with all three phases, on two and on three ranks (even and odd
neighbours). Divided tensors are on meshes with two ranks on each axis that they
are divided by, and with two axes at once, which tells a sum over the right group
from one over another; the sizes differ so that a transposed or shifted shard
shows. Two steps tell what is left over from the first one; two microbatches,
what is left over from the other. Every bound is a constant of the cfg; `TrainIters`, `NumPrompts`,
`Submits`, `Batches` are ends the program also has; `MaxCrashes`, `MaxTakes` and
`MaxLoads` are the artificial ones.

`CHECK_DEADLOCK FALSE` is said where the system may really stop: an error raised
in a callback ends the callback thread (`restarts`, `workers`), a failing
copy of the snapshot ends the trainer, a dying dumper lets a later join spin
for ever and all servers may be down (`restarts`), a resumed flow may wedge (`async_resume_wedge`), a dead data
worker leaves the loader waiting and its calls are bounded (`step`), connected
processes have nothing more to do (`workers`, `rendezvous_split`), a program of
one or two steps is over (`grad_norm_tp`, `pipeline_pp2`, `ppo_optimizer`). Elsewhere a finished job stutters in an explicit
action (`Finished`, `Done`, `StepOver`), and deadlock is checked.

### Fairness

Weak fairness of each thread's steps: threads and processes are scheduled by the
operating system, and every wait of the code polls with a time-out, so an
enabled step is found. Weak fairness of callbacks includes that a submitted
generation ends, with a result or an error: that is what the servers owe, and
the code has no other time-out for it. A crash, a raised error, a failed
rename and a shutdown are never owed. In the pool, results need only weak
fairness: the event loop of a worker takes all that its queue has, whoever of
the workers gets a task.

The loader's processes and threads (`AsyncAccelerate`), the steps of a dump, and
the ranks with their network (`PipelineSchedule`, one weak fairness for all: it
needs no more, as a step never disables another rank's) are scheduled in the same
way; a failing item or write is never owed. In `FullyAsyncResume` the callback
and the trainer get strong fairness, because the snapshot and the condition
variable's lock disable and enable them again and again.

### What the violations show

1. `simple_torn`: `state_dict()` is taken without `flow.lock`. A prompt that the
   control worker has popped from the source, or that the generation worker has
   popped and not entered in `pending`, is in no part of the checkpoint, and
   the source's saved position is past it.
2. `async_resume_wedge`: after a restart the weights are not deployed. A restored
   prompt that was scheduled for the restored version waits for them in the
   generation worker, running; the trainer deploys only when no prompt is
   running that would get too old, or when it has a batch; nothing moves.
   `WedgesOnlyRestored` shows that a restart is the only way into this circle.
3. `ckpt_stale_success`: `.success` files that an earlier run left in a
   directory are counted when a restarted job saves there again.
4. `ppo_optimizer`: `use_distributed_optimizer` of the checkpointer refers to an
   `optimizer_cfg` that the configuration of a PPO job does not have, and stays
   False; only data parallel rank 0 saves its optimizer states, although the
   gradient manager divides them, and every rank loads those.
5. `pipeline_pp2`: with two stages the next rank is the previous one. A batch has
   two sends and two receives for it, which match in the order posted, the same
   at both ends; activations and gradients change places.
6. `rendezvous_split`: a process that has read a stale file removes whatever file
   is there when it comes to it, possibly the fresh one of a faster process;
   two servers run, and the job is split between them.
7. `grad_norm_tp`: a gradient is counted on ranks other than the first of its
   tensor parallel group only when its parameter is marked as divided, and the
   weights of the linear layers never are.

Further remarks that are not runs. `generators/README.md:162-163` says that
one-step-off trains iteration k on rollouts of version k-1; the block of
iteration k is still being generated when iteration k deploys, so its rollouts
mix k-1 and k, and `FreshRollouts` states what holds. When a callback raises
(`genable_allow_errors` off), the counter drops, the barrier passes and the
trainer receives a block without that prompt; the prompt stays un-acked while
the signals around it are acked, so a checkpoint taken then replays it before
the next block and outside its gate. The guard of `max_staleness` is evaluated on
running prompts only, so a prompt scheduled but not yet running can start to run
older than `max_staleness`; `BoundedLag` states the bound that the cap and the
batch size give instead. At the bounds of `async` only its first half can fail; the
theorem `BoundedLagInvariant` covers the other sizes. In the rendezvous a process keeps the first
`master_process` it reads but re-reads the port, and the removal of a fresh file
can leave processes to time out; so does an empty file, whatever its age, and one that
names no port, until it is a day old. `state_dict()` of the loader before the first
item raises, and `__repr__()` then answers from the trainer's own nextable
(`AskUnstarted`).

(A) With tensor but not sequence parallelism each rank sees its own heads only,
and the gradients of `q_norm` and `k_norm` are not summed: the replicas drift
apart, and `reshape_ops.py:200` then reports "Breaking duplicate!". (B) Under
context parallelism `scaled_dot_product_attention` masks from the top left
(`attention_core.py:301,381`), flash attention from the bottom right (`:274`); only the latter is causal
for a chunk that follows others. (C) With sequence parallelism the gradient of
`OneDimensionalOutputEmbedding` (`parallel_embedding.py:279-283`) is too large by
the size of tensor parallelism; label smoothing divides by the size of a
partition of the vocabulary (`cross_entropy.py:91`); `ImageInsertEmbedding`
(`parallel_embedding.py:193-221`) inserts at positions of the whole sequence into
chunks of it; samples of no tokens shift the ids in `cu_seqlens_to_balanced_cp()`.
(D) The simulator bounds the lag of a running prompt by `max_staleness`; the
controller's is bounded by `BoundedLag`. (E) The cached handles of the DeepEP
dispatcher are dead code. (F) `moe_unpermute` with `map_type="index"` and
`restore_shape` estimates the number of experts per token from the largest valid
position (`permute_utils.py:207-213`). (G) `_process_expert_parallel_grads()`
returns early without expert parallelism: with tensor and sequence parallelism
expert gradients would then be too small by its size (such a job does not come to it, remark
P), and with expert and tensor but
no sequence parallelism too large. (H) `AccInFP32GradientManager` takes the norm
over the model parallel group only: with expert parallelism and clipping
replicas of the other parameters diverge. (I) `balanced_list_split()` may give data
ranks different numbers of packs (lengths 8, 1, 8, 1, 8, 1 on two ranks: two and
four), and with several steps per iteration, or experts across data ranks, they
wait for each other for ever; `min(fix_iters, n // PP)` may be zero with virtual
pipelining; the test of "No enougth rollout" also refuses one pack per rank.
(J) The example in the docstring of `MeshConnector` (`mesh_connector.py:84-94`) is
not what `_mesh_replica_id` gives. (K) Nothing consumes the resharded optimizer
states, so that they are silently not loaded; with `broadcast_from_dp0=False` every rank
loads the file of data rank 0, with its experts; ranks that a larger job adds
resume with the random state of rank 0; without a distributed optimizer and with
expert parallelism all data ranks get the optimizer states of rank 0's experts.
(L) `grouped_matmul_kernel` (`grouped_gemm/triton.py:138-158`) reads past a row when
its reduced dimension is larger than a block and no multiple of it: TLC finds
`KernelsExact` violated with `BlockK` 2 for 3 columns. (M) `routed_grouped_ffn()`
with no valid id returns `x * token_weights.sum()`. (N) The last, synchronous save
waits for queued dumps, not for the one in progress
(`local_checkpoint.py:88-90,504`), and shares the temporary name of `latest_ckpt` with it. (O) `apost()` looks at no
HTTP status (`vllm_client.py:63-71`), so that an error that a server answers to
`/collective_rpc` counts as done; in `VLLMServing` a server that answers has loaded,
and `FreshAnswers` holds under that assumption. (P) `forward_experts_tp()`
passes "ETP" to `gather_from_sequence_parallel_region()` by position, where it is taken
for `tensor_parallel_output_grad` (`moe_block.py:341-343`, `mappings.py:366`). With tensor and
sequence parallelism but without expert parallelism the rows are gathered over the
tensor parallel group, the slice over "ETP" takes nothing back, and the reshape at
`moe_block.py:410` raises. (Q) A job that starts within a day of an earlier one with the
same `EXP_ID` finds its file, which nothing removes (`comm_utils.py:152,203-209`): all its
processes connect to the port of a server that may be gone, and none starts one.
`TrustedPort` states what holds. (R) `int(sum(_weights))` (`packed_dataloader.py:129`) may be one
below the sum: with sizes 100, 100, 100, 60 and epochs 0.57, 0.57, 0.57, 1.0 the
sum is 230.99999999999997, and one sample of the last data set is never drawn.
`EpochsHonoured` states that it is one time of one sample at most.

## 4. Proofs

None of the invariants the runs check is inductive, but for `FairShare`. Each
proof module defines the strengthening first, each part with the reason it is
there; it has an `Init` lemma, a step lemma with one case per action, and a
theorem that combines them. TLC checked every strengthening on the small
instances before it was proved.

`SimpleFlowProofs` proves for both strategies and all sizes (assumption
`SimpleFlowAssumption`):

- `TypeInvariant`, `LookaheadInvariant` (`Spec => []Lookahead`),
  `FreshRolloutsInvariant` (`Spec => []FreshRollouts`);
- `GatedStreamInvariant` (`[]GatedStream`) when errors of generations are ignored or do
  not happen. Otherwise it does not hold, and the run `simple_flow`
  does not claim it: when `CbRaise` ends the callback thread the barrier acks
  the gate while the failed prompt stays un-acked.

The chain: `Filling` ties the source's position and the place of the control
worker to the scheduled version, from which `Lookahead` follows. `FreshRollouts`
relates what a generation saw to the iteration that trains on it, with two queues
and three hands in between. `GenOrdered` and `TrainOrdered` say that blocks go
through the pipeline in order, since a barrier is behind everything of its block;
`Reached`, that everything of an earlier version than the one collected has been
trained on; `Versions`, that the served version is between the one the generation
worker knows of and the trainer's; `Gated`, that a prompt not yet submitted has its
gate in front of it; `Seen`, that a generation saw versions between its block's and
the trainer's. For `GatedStream`, `ReplayGated` says the same of the
replayed stream as long as the control worker's prompt in hand comes after it, and
`Held` that an un-acked prompt is generating, so that an ack never opens a hole.

The same module proves, for `SimpleFlowResume` and any number of crashes
(`SimpleFlowAssumption` and `ResumeAssumption`):

- `ResumeFreshInvariant` (`ResumeSpec => []ResumeFresh`): as long as every checkpoint
  that was restored is the image of one moment, rollouts are as fresh as without a
  crash, and, while no error has ended the callback thread, every replay is gated.

A restart keeps no variable, so the invariants above say nothing about the
state after it unless the checkpoint carries them over. `Good` is what a
checkpoint must hold for that, `ImageGood` shows that the image of one moment at which the
callback thread was alive holds it, and `RestartGood` that the restored flow is in all of the
invariants again. The step from image to restart is not the identity: the un-acked items go
in front of the queued ones, the hands are empty, the servers have no version, and the
control worker begins a new block. What makes this harmless is `Blocks`: the un-acked items and the queue, read as one stream, are
blocks one after the other with at most the last one not closed by its barrier
(`Blocked`), and a block that is not closed is one that the source has ended in, or that is
being written under the lock, in which case the moment is not clean (`Locking`). That the un-acked
items are the oldest block needs `PendingKinds` and `LaterPending`: a barrier acks the gate it
closes, so nothing of an earlier block stays un-acked. `Reading` says of a snapshot
still clean that what has been read is what is there now, part by part, and `Sound` that every
clean checkpoint on its way to the disk, and the one on it, is `Good`.

- `ResumeExact` (`ResumeSpec => [](ResumeExactlyOnce /\ ResumeBatches)`): under the same
  condition no prompt is lost or trained on twice, and, while no error has ended the callback
  thread, iteration k is trained on the k-th block of the source, whole.

For the second, `Once` counts every prompt of the source in one place: the log, the trainer's
batch, a queue, a hand or the un-acked items. `Submitted` says that what generates is
un-acked, and no prompt twice, so that each answer acks its own prompt. Counting alone does not
say in which batch a prompt ends up: `Fenced` says that nothing, prompt or rollout, overtakes the
barrier of the block before its own; `Whole` that what was trained on are the blocks, which
follows for the next batch from `Once` and `Fenced`, as everything between two barriers is the
block and nothing else. `Exact` is what a checkpoint holds, and `Accounted` collects what a
step keeps.

Without crashes it proves `ExactlyOnceInvariant` (`Spec => []ExactlyOnce`), whatever errors
generations raise, and `ImplementsStream` (`Spec => Stream!Spec`) when no error can end the
callback thread: initial states map to the initial state of `BatchStream`, `TrainStep`
to `Receive` of the next block, all other steps to stutters.

`FullyAsyncFlowProofs` proves, for every value of the constants that the
constructor accepts (assumption `FullyAsyncConfig`):

- `TypeInvariant`: `Spec => []TypeOK`;
- `BackpressureInvariant`: `Spec => []Backpressure`;
- `VersionGateInvariant`: `Spec => []VersionGate`;
- `BoundedLagInvariant`: `Spec => []BoundedLag`;
- `ExactlyOnceInvariant`: `Spec => []ExactlyOnce`;
- `ImplementsStream`: `Spec => Stream!Spec`, the refinement of `BatchStream` in any order,
  even when an error has ended the callback thread: fewer batches are received then, but
  each is whole and new.

None of the second, third and fourth is inductive. The chain of strengthenings:

1. `SingleFile`: `pre_gen` holds at most one prompt and the control worker adds
   one only when it is empty, so prompts pass in source order; whatever was
   submitted is counted as running; the lock has one holder. Without it the
   count of running prompts says nothing about the generations in flight.
2. `Capped`: `Backpressure`, with the prompt in the control worker's hand
   counted: the test of `_can_schedule_prompt_locked()` happens one step before
   the put, and what it read can only shrink in between.
3. `VersionInv`: `infer <= served <= train`, and every submitted generation saw
   versions between the one it was scheduled for and `train`.
4. `LagInv`: the argument for staleness. `max_staleness` does not look at
   prompts outside `running_genables`. But the trainer can move its version past
   such a prompt only by consuming a batch, and each batch uses up
   `prompt_per_iter` of the prompts ahead of it, of which there are never more
   than the cap. `WaitingLag` says it of prompts not yet running (lag times
   batch size, plus what is available, plus the trainer's `Credit`, is bounded);
   `ReadyLag` of trajectories in `pre_train`, by their position; `BatchLag` of
   the batch in training. `LogLength` ties versions to iterations.

It also proves, for `FullyAsyncResume` and any number of crashes:

- `AsyncResumeInvariant` (`ResumeSpec => []AsyncResumeExact`): restored from images of one
  moment, a flow loses no prompt, trains on none twice, and keeps its version gate and
  its cap, to which each run adds at most the prompt whose error ended its callback thread;
- `EndedLateInvariant`: whatever was restored, the source is never given up early;
- `WedgeInvariant`: the circle of waits of `async_resume_wedge` exists only in a restarted job,
  before it has deployed.

The heart is an invariant that counts. `Exact` says of a checkpoint that its log, its queues
and its un-acked items have every prompt up to the source's position once; the flow's
state satisfies the same formula with the workers' hands added, and the lemmas about the queues
(`Total...` and `Spread...` of `QueueLemmas`, `Count...` and `Trained...` of this module) say how an append, a get, an ack and a
restart change the number of copies. That two generations never run for the same prompt
(`Running`) is itself a consequence of the count: a second un-acked copy would be one too
many. `Taking` and `Reading` are
about snapshots as above; `Synced` says what versions a restored flow may wait for.

`RestartsProofs` carries these over to the run `restarts`: `AsyncExact` (`AsyncResumes`),
`AsyncWedges` (`WedgesOnlyRestored`), `SimpleFresh` (`ResumeFresh`) and `SimpleExact` (`SimpleResumes`), by lemmas `Same...` that
identify the instances action by action, with `SimpleAssumed` for the assumption on the constants
of the instance.

`CheckpointerProofs` proves for all numbers of ranks, parts and iterations
(assumption `CheckpointerAssumption`):

- `TypeInvariant`, and `OneRunCheckpoints` (`Spec => []OneRunComplete`), through any crashes
  and with failing writes and renames;
- `LatestCheckpoints` (`[]LatestComplete`) and `LatestNeverBack` (`NeverBack`) when the job is
  not restarted (`MaxCrashes = 0`): after a restart the first is false
  (`ckpt_stale_success`);
- `QueueBounded`, how many dump tasks a rank has, unconditionally, and `BacklogBound`
  (`[]BoundedBacklog`) when no write fails and there is no restart: a dumper that
  died finishes nothing.

The invariant is said per rank (`RankInv`): `Phases`, where the two threads of a
rank are with regard to each other; `Queue`, that tasks are dumped in the order they
were submitted in; `PartsInOrder`, that the parts before one that is pending are written
or pending; `Written`, what a thread that is past a stage has written; `Rooted`, that
a root with its `.success` file comes after all other parts and before whatever
is still to be dumped. `MarkInv` relates the ranks: what is marked, or about to be, has
a `.success` file of every rank, and is of a past run or has a root of this one.
`OneRunComplete` follows, and without restarts there is no past run.
`NeverBack` rests on `OwnTmp`: until the last save begins one thread of a rank marks
(`Single`), so `latest_ckpt.rank<r>` is what that thread wrote. For the backlog, `Submitted`
says that the root of a checkpoint before the one that is due is written or pending,
`Lag` that it is written when two more saves have begun, `Holder` who is about to rename
a temporary file, and `Landed` that what all ranks have written is marked, or
somebody is about to.

`GenerationPoolProofs` proves for any numbers of workers, items and batches, any cap,
with callbacks that raise and with `shutdown()` (assumption `PoolAssumption`):

- `PoolCap` (`[]ExactCap`): the cap holds, the ids in flight are those of the tasks
  that were handed out, each of which is somewhere once, and no task waits while
  there is room;
- `PoolCallbacks` (`[]OwnCallback`): the assertion of the callback loop holds, every
  callback gets the result of its own task, once, and one at most runs after `shutdown()`.

The strengthening follows a task from its submission to its callback. `Places`: a task
with a callback is in exactly one place, waiting, in the input queue, with one worker,
in the result queue or in the hand of the callback thread; while the controller is alive
there is no other place, and after `shutdown()` tasks are only lost. `Flying`: the
ids in flight are those of the tasks with a callback that do not wait, so that they count
tasks and not ids used twice. `Full`: no more than the cap, and no less while
something waits, which every `_dispatch_pending_locked()` restores (`DispatchStep`).
`Calls`: only tasks of the flow and of the batch that runs have a callback, among which
ids are unique; that a batch has no task left when `generate()` returns is a counting
argument (`AllCalled`): it has got as many answers as it has tasks, and no task was called
back twice.

`WorkersProofs` and `RestartsProofs` state the theorems about the pool and the dumper of the
specifications the runs check, `MCWorkers` and `MCRestarts`, for all values of the
constants. These instantiate `GenerationPool` and `Checkpointer` themselves; lemmas
show, action by action, that their instance and the one the proofs are about are the same.

`WorkersProofs` also proves `TrustedPortHolds` (`Spec => TrustedPort`) and
`RendezvousTyped` for any set of processes and clients and all `Leftovers` (assumption
`RendezvousAssumption`). The action property follows from `MeetingInv`: `FilePort`, a readable
file that is not stale names no port, that of a server of this job, or that of an earlier
job of the day; `NoMaster`, while the file is that one, nobody of this job writes, starts
a server or has one (a master has found no file, and the earlier job's never comes
back); and `Published`, who is about to publish has started its server.

`RestartsProofs` also proves `FreshRequests` (`MCSpec => []FreshAnswers`) for any number of
servers, requests and deployments, any of which may end, be lost or fail (`ServingAssumption`
within `RestartsAssumption`). No request is looked at in the argument before the last
step: `Once` says that the router lists no endpoint twice, which is also what
`wait_for_server()` asserts, so that a list as long as there are replicas has all of
them (`Covers`, a counting argument); hence all are reloaded, and `Reloads` says that a
call that is past its first answer has left the new weights in its server, whatever was
retried; `Deployed` that every server has, from then on, at least what the last
deployment that returned had written, a server that has ended included, as it never
serves again; `Served` follows.

`TrainingProofs` proves three properties of the layout for any data sets, any
lengths of samples, epochs and pack length (assumption `PackedAssumption`):

- `FairShareHolds` (`[]FairShare`): with the types of the counts and weights it is
  inductive, since the data set drawn has the least quotient, and one more draw puts it
  at most one draw ahead.
- `EpochsHold` (`[]EpochsHonoured`), from `LayoutInv`. `Passes`: a sample was drawn once
  in every pass of its data set's own sampler that is over, and once more if the present pass
  has come to it; what keeps it is that an order is a bijection (`OrderIsBijection`) and
  that the pass ends exactly when the count is a multiple of the size (`DivModUnique`).
  `Level`: there are as many pieces as draws, and in the end as many as `Draws` allows. Was
  a data set drawn a whole draw beyond its weight, then by `FairShare` no other is short
  of its own (`NoneBehind`) and there would be more pieces than the weights sum up to
  (`NotOver`). If the weights are whole numbers, all data sets together are short of theirs by
  no more than the draws that `int()` has lost (`NotUnder`), so by one draw of one data set
  at most and by none if all epochs are exact (`OneMissing`). From the draws of a data set to
  the times of its samples is division (`TimesBounded`, `OneMoreDraw`): a sample that is
  short is the last one of the order of that data set (`ShortIsLast`), hence the only one.
- `PacksExact` (`[]ExactPacks`), from `PackInv`. `CutOf`: the closed packs, with the open
  one flushed, are a cut of the pieces looked at, in order, without those dropped
  (`CutBegins`, `CutWidens`, `CutSkips` for what `pack()` does with a piece). `OpenPack`: the open
  pack ends at the next piece, has `packed_size` tokens, and is not full; without it a
  range, which is an offset and a number, could reach over a dropped piece. `ClosedPack`
  is about the piece behind a pack, looked at or not. `FlushCloses`: `flush()` is
  called only when the next piece does not fit or there is none.

About `PolicyUpdate`, it proves for any rollouts, ranks, epochs and chunks, whether
inference is skipped or not and the optimizer offloads its states or not:

- `UpdateOnDevice` (`[]OnDevice`), from `DeviceInv`: a part is on the device exactly at the
  places of `Program` that `ParamsAt` and `StateAt` name, and a trained model has its
  hooks once where its parameters are. `OnDevice` alone says nothing of the places between,
  where parts move. `ProgramPlaces` finds each statement of the program, whose length
  depends on what is skipped; `Standing` says that a statement moves the part it names and
  that what computes stands where its parts are; `Schedule` says the same of a step.

Only model-checked: liveness, thus the half of the refinement of `BatchStream` that says that batches come, and the refinement of
`SequentialNextable` (fairness and ENABLED are beyond the prover), `Restored`,
everything about `AsyncAccelerate`
and `PipelineSchedule`, whose turns are built by folds, `FlowSimulator`, `AlignedUpdate` of
`PolicyUpdate`, whose tensors are built by folds, and the numeric modules `ParallelLayers`, `ExpertParallel`, `RoutingKernels`, `Gradients`
and `CheckpointContents`: that a distributed computation is the one of one process is
an identity between sums of any length. Where a proof does need the size of a collection that
grows, or a sum, it counts places (`Cardinality`; `Slots`, `TokensOf`), so that one step
changes it by what the step adds; that needs no induction but the one over steps.

## 5. Plan

Done: the flow controllers with their restarts and their simulator, the pool, the checkpoints
with their contents, the loader, the layout of the data, the pipeline's schedules,
the rendezvous, the servers and their deployment, the divided layers, experts, kernels and optimizer, the PPO update, and
the proofs above. What is left, in order of what matters most to a job:

1. Proofs about `PipelineSchedule`: `BoundedActivations` for any number of microbatches, once the turns are
   a recursive function.
2. A composition of `SimpleFlow` with `GenerationPool`: the flow module takes
   the pool as one step per callback, which `GenerationPool` should refine.
3. `MeshConnector` and the image decoders, which move activations between meshes.

## Not modelled

- Chain/Block streams, `RedisQueue` and futures, `redistributed_tp`: no code of the
  repository uses them.
- vLLM itself, which is external, and the text of requests and answers. The flow modules
  take a deployment as one step; what they rely on is `FreshAnswers`.
- Vision encoders, image decoders, rotary embeddings, activation functions: numeric code on one
  token or image at a time, without control or exchange of its own.
- `MeshConnector`, learning rate schedules, Muon: see the plan; the inner optimizer is a
  parameter of `Gradients` in effect, since it acts on each element it owns.
- Tokenizers, text processing, data sets, benchmarks, playground, tools: I/O and text.
- Metrics, timers, logging, memory tracking: they do not change what the job computes.
- The configuration system: declarations. Where a wrong default decides what a job does
  (`ppo_optimizer`), the module that reads it says so.
