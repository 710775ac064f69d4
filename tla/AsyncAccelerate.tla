--------------------------- MODULE AsyncAccelerate ---------------------------
(***************************************************************************)
(* AsyncAcceleratedSlowFast (data/nextable/async_accelerate.py) over a     *)
(* DPMux over a looped sampler: the trainer's data loading.  Every process *)
(* has a copy of the nextable, forked from the trainer's.  Data worker w   *)
(* prepares the items of its own turns and steps over the others; a thread *)
(* of the trainer collects them in rotation; a shadow worker follows what  *)
(* the trainer consumed, for the checkpoints.                              *)
(***************************************************************************)
EXTENDS Integers, Sequences, FiniteSets

CONSTANTS
  NumWorkers,      \* num_workers
  QueueSize,       \* queue_size, for all workers together; 0 is unbounded
  Prefetch,        \* PREFETCH_QUEUE_SIZE
  DPSize, DPRank,  \* the data parallel group, and the rank of this trainer
  Size,            \* length of the sampled data set, which is looped over
  Saved,           \* positions of checkpoints of earlier jobs
  MayFail,         \* whether preparing or pinning an item may fail
  MaxTakes,        \* bound on the calls of __next__()
  MaxLoads         \* bound on the calls of load_state_dict()

AsyncAccelerateAssumption ==
  /\ NumWorkers \in Nat \ {0} /\ QueueSize \in Nat /\ Prefetch \in Nat \ {0}
  /\ DPSize \in Nat \ {0} /\ DPRank \in 0 .. DPSize - 1 /\ Size \in Nat \ {0}
  /\ Saved \subseteq Nat /\ MayFail \in BOOLEAN
  /\ MaxTakes \in Nat /\ MaxLoads \in Nat

Workers == 0 .. NumWorkers - 1

VARIABLES
  base,     \* position of the trainer's own nextable, which it never steps
  worker,   \* [Workers -> [pc, turn, pos, item]], turn is i % mux_size
  input,    \* input_queues, one per worker
  fetcher,  \* the prefetch thread: [pc, idx, item]
  ready,    \* prefetch_output_queue
  shadow,   \* position of the shadow worker
  cmds,     \* queue of commands to it
  answer,   \* queue of its answers
  main,     \* the trainer's call: [pc, item]
  started,  \* whether the processes were started
  out,      \* what the last call returned
  saved,    \* the positions that checkpoints hold
  takes, loads

pool == <<worker, input, fetcher, ready>>
vars == <<base, pool, shadow, cmds, answer, main, started, out, saved, takes, loads>>

Seen(kind, val) == [kind |-> kind, val |-> val]
Nothing == Seen("nothing", 0)
Error == Seen("error", 0)

\* DPMux: fast_step() and __next__() both go dp_size items further.
Advance(pos) == pos + DPSize

\* DPMux.__next__() over LoopedSequentialSampler.get().
Prepared(pos) == Seen("item", (pos + DPRank) % Size)

\* Mutant: one place is always left free.
LeavesOneFree(q, cap) == cap = 0 \/ Len(q) + 1 < cap

Room(q, cap) == cap = 0 \/ Len(q) < cap

\* A share of queue_size, at least one.
WorkerQueueSize ==
  IF QueueSize = 0 THEN 0
  ELSE IF QueueSize \div NumWorkers = 0 THEN 1 ELSE QueueSize \div NumWorkers

Init ==
  /\ base = 0 /\ started = FALSE
  /\ worker = [w \in Workers |-> [pc |-> "none", turn |-> 0, pos |-> 0, item |-> Nothing]]
  /\ input = [w \in Workers |-> <<>>]
  /\ fetcher = [pc |-> "none", idx |-> 0, item |-> Nothing]
  /\ ready = <<>> /\ shadow = 0 /\ cmds = <<>> /\ answer = <<>>
  /\ main = [pc |-> "idle", item |-> Nothing]
  /\ out = Nothing /\ saved = Saved
  /\ takes = 0 /\ loads = 0
-----------------------------------------------------------------------------
(* A data worker.                                                          *)

IsTurn(w) == worker[w].turn = w

\* One round of the loop: prepare the item of its own turn, or step over.
WorkerStep(w) ==
  /\ worker[w].pc = "step"
  /\ worker' = [worker EXCEPT ![w] =
       [pc |-> IF IsTurn(w) THEN "put" ELSE "step",
        turn |-> (@.turn + 1) % NumWorkers,
        pos |-> Advance(@.pos),
        item |-> IF IsTurn(w) THEN Prepared(@.pos) ELSE Nothing]]
  /\ UNCHANGED <<base, input, fetcher, ready, shadow, cmds, answer, main, started,
                 out, saved, takes, loads>>

\* Nothing catches an error of __next__(): the process ends.
WorkerDies(w) ==
  /\ MayFail /\ worker[w].pc = "step" /\ IsTurn(w)
  /\ worker' = [worker EXCEPT ![w].pc = "dead"]
  /\ UNCHANGED <<base, input, fetcher, ready, shadow, cmds, answer, main, started,
                 out, saved, takes, loads>>

WorkerPut(w) ==
  /\ worker[w].pc = "put" /\ Room(input[w], WorkerQueueSize)
  /\ input' = [input EXCEPT ![w] = Append(@, worker[w].item)]
  /\ worker' = [worker EXCEPT ![w].pc = "step", ![w].item = Nothing]
  /\ UNCHANGED <<base, fetcher, ready, shadow, cmds, answer, main, started,
                 out, saved, takes, loads>>
-----------------------------------------------------------------------------
(* The prefetch thread of the trainer.                                     *)

\* Mutant: it takes from any worker that has something.
SomeInput(idx) == {w \in Workers : input[w] # <<>>}

\* It waits for the worker whose turn it is, whatever the others have.
InputOf(idx) == {w \in {idx} : input[w] # <<>>}

\* pin_memory() may raise: the exception is put in the place of the item.
Pinned(item) == IF MayFail THEN {item, Error} ELSE {item}

FetchGet ==
  /\ fetcher.pc = "get"
  /\ \E w \in InputOf(fetcher.idx) :
       /\ input' = [input EXCEPT ![w] = Tail(@)]
       /\ \E item \in Pinned(Head(input[w])) :
            fetcher' = [pc |-> "put", idx |-> (fetcher.idx + 1) % NumWorkers, item |-> item]
  /\ UNCHANGED <<base, worker, ready, shadow, cmds, answer, main, started,
                 out, saved, takes, loads>>

\* The thread ends with the exception it has put.
FetchPut ==
  /\ fetcher.pc = "put" /\ Room(ready, Prefetch)
  /\ ready' = Append(ready, fetcher.item)
  /\ fetcher' = [fetcher EXCEPT !.pc = IF fetcher.item = Error THEN "ended" ELSE "get",
                                !.item = Nothing]
  /\ UNCHANGED <<base, worker, input, shadow, cmds, answer, main, started,
                 out, saved, takes, loads>>
-----------------------------------------------------------------------------
(* The shadow worker.                                                      *)

ShadowNext ==
  /\ cmds # <<>> /\ Head(cmds) = "next"
  /\ shadow' = Advance(shadow) /\ cmds' = Tail(cmds)
  /\ UNCHANGED <<base, pool, answer, main, started, out, saved, takes, loads>>

ShadowAnswer ==
  /\ cmds # <<>> /\ Head(cmds) # "next" /\ Room(answer, 1)
  /\ answer' = Append(answer, Seen(Head(cmds), shadow)) /\ cmds' = Tail(cmds)
  /\ UNCHANGED <<base, pool, shadow, main, started, out, saved, takes, loads>>
-----------------------------------------------------------------------------
(* The trainer.                                                            *)

\* _reset(): new queues, and new processes that fork the trainer's nextable.
\* (The old prefetch thread stays behind, on queues nobody fills.)
Reset(pos) ==
  /\ worker' = [w \in Workers |-> [pc |-> "step", turn |-> 0, pos |-> pos, item |-> Nothing]]
  /\ input' = [w \in Workers |-> <<>>]
  /\ fetcher' = [pc |-> "get", idx |-> 0, item |-> Nothing]
  /\ ready' = <<>>
  /\ shadow' = pos /\ cmds' = <<>> /\ answer' = <<>>
  /\ started' = TRUE

\* __next__(): the first call starts everything.
CallNext ==
  /\ main.pc = "idle" /\ takes < MaxTakes
  /\ main' = [main EXCEPT !.pc = "get"]
  /\ takes' = takes + 1
  /\ IF started THEN UNCHANGED <<pool, shadow, cmds, answer, started>> ELSE Reset(base)
  /\ UNCHANGED <<base, out, saved, loads>>

NextGet ==
  /\ main.pc = "get" /\ ready # <<>>
  /\ main' = [pc |-> "tell", item |-> Head(ready)]
  /\ ready' = Tail(ready)
  /\ UNCHANGED <<base, worker, input, fetcher, shadow, cmds, answer, started,
                 out, saved, takes, loads>>

NextTell ==
  /\ main.pc = "tell" /\ Room(cmds, QueueSize)
  /\ cmds' = Append(cmds, "next")
  /\ out' = main.item
  /\ main' = [pc |-> "idle", item |-> Nothing]
  /\ UNCHANGED <<base, pool, shadow, answer, started, saved, takes, loads>>

\* state_dict() and __repr__() through the shadow worker.
Ask(cmd) ==
  /\ main.pc = "idle" /\ started /\ Room(cmds, QueueSize)
  /\ cmds' = Append(cmds, cmd)
  /\ main' = [main EXCEPT !.pc = "answer"]
  /\ UNCHANGED <<base, pool, shadow, answer, started, out, saved, takes, loads>>

TakeAnswer ==
  /\ main.pc = "answer" /\ answer # <<>>
  /\ out' = Head(answer)
  /\ saved' = IF out'.kind = "state" THEN saved \cup {out'.val} ELSE saved
  /\ answer' = Tail(answer)
  /\ main' = [main EXCEPT !.pc = "idle"]
  /\ UNCHANGED <<base, pool, shadow, cmds, started, takes, loads>>

\* Before the start repr() asks the trainer's own nextable, state_dict()
\* subscripts the None in _shadow_worker_queues.
AskUnstarted ==
  /\ main.pc = "idle" /\ ~started
  /\ out' \in {Error, Seen("repr", base)}
  /\ UNCHANGED <<base, pool, shadow, cmds, answer, main, started, saved, takes, loads>>

Load(pos) ==
  /\ main.pc = "idle" /\ loads < MaxLoads
  /\ base' = pos /\ loads' = loads + 1
  /\ Reset(pos)
  /\ UNCHANGED <<main, out, saved, takes>>

TrainerCalls ==
  \/ CallNext \/ AskUnstarted
  \/ \E cmd \in {"state", "repr"} : Ask(cmd)
  \/ \E pos \in saved : Load(pos)

Returning == NextGet \/ NextTell \/ TakeAnswer

Next ==
  \/ TrainerCalls \/ Returning
  \/ \E w \in Workers : WorkerStep(w) \/ WorkerDies(w) \/ WorkerPut(w)
  \/ FetchGet \/ FetchPut
  \/ ShadowNext \/ ShadowAnswer

Spec == Init /\ [][Next]_vars

\* Processes and threads are scheduled; nothing makes the trainer call.
Fairness ==
  /\ \A w \in Workers : WF_vars(WorkerStep(w)) /\ WF_vars(WorkerPut(w))
  /\ WF_vars(FetchGet) /\ WF_vars(FetchPut)
  /\ WF_vars(ShadowNext) /\ WF_vars(ShadowAnswer)
  /\ WF_vars(Returning)

FairSpec == Spec /\ Fairness
-----------------------------------------------------------------------------
(* Properties.                                                             *)

\* The position of what the trainer has consumed: where the shadow worker
\* will be when it has done all its commands.
Consumed ==
  shadow + DPSize * Cardinality({i \in DOMAIN cmds : cmds[i] = "next"})

Sequential ==
  INSTANCE SequentialNextable WITH at <- Consumed

\* The workers, queues and threads together are one sequential nextable: items
\* come in order, none twice and none skipped, whichever worker is faster; a
\* checkpoint holds the position of what was consumed, not of what was
\* prefetched; loading one goes back to that position (all of
\* async_accelerate.py against nextable.py).
SequentialSpec == Sequential!Spec

Failed == fetcher.pc = "ended" \/ \E w \in Workers : worker[w].pc = "dead"

\* Each call returns, with bounded queues between the three kinds of threads,
\* unless an item has failed (then the prefetch thread waits for ever for the
\* dead worker's turn: async_accelerate.py:66-82, 171).
CallReturns == main.pc # "idle" ~> main.pc = "idle" \/ Failed
=============================================================================
