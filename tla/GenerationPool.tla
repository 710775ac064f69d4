---------------------------- MODULE GenerationPool ----------------------------
(***************************************************************************)
(* GenerationController (generation/async_generation.py): the pool of      *)
(* worker processes that run generations, with a cap on how many are       *)
(* handed to them at once.  The flow controllers submit items through      *)
(* submit_with_callback(); an evaluation runs batches through generate(),  *)
(* whose task ids start at 0 in every batch.  The results come back on one *)
(* queue, and one callback thread of the main process handles them.        *)
(*                                                                         *)
(* A task is [id, owner]: its task id, and who submitted it (0 for the     *)
(* flow, else the number of the batch), which also stands for its          *)
(* callback.  What is done under _state_lock is one step.                  *)
(***************************************************************************)
EXTENDS Integers, Sequences, FiniteSets, FiniteSetsExt, SequencesExt

CONSTANTS
  Workers,    \* the worker processes
  Cap,        \* max_concurrent_genables; 0 stands for None
  Submits,    \* items the flow controller submits
  Batches,    \* calls of generate(), one after the other
  BatchSize,  \* items of each
  MayRaise,   \* whether a callback may raise
  MayShut     \* whether shutdown() may be called

PoolAssumption ==
  /\ IsFiniteSet(Workers) /\ Workers # {}
  /\ Cap \in Nat /\ Submits \in Nat /\ Batches \in Nat
  /\ BatchSize \in Nat \ {0}
  /\ MayRaise \in BOOLEAN /\ MayShut \in BOOLEAN

VARIABLES
  flow,      \* items the flow controller has submitted
  caller,    \* the caller of generate(): [batch, sent, got]
  callbacks, \* callback_map: the tasks whose callback is registered
  pending,   \* _pending_submissions
  inflight,  \* _inflight_task_ids
  input,     \* input_queue; Stop is the None that ends a worker
  worker,    \* [Workers -> [pc, queue, tasks]]: the workers' event loops
  results,   \* result_queue
  cb,        \* callback thread: [pc, task, callback]
  called,    \* the callbacks that were called, in order: [task, owner]
  alive,     \* _alive
  late       \* callbacks called after shutdown() (history)

poolVars == <<callbacks, pending, inflight, input>>
vars == <<flow, caller, poolVars, worker, results, cb, called, alive, late>>

Stop == [id |-> <<"stop", 0>>, owner |-> -1]
NoTask == [id |-> <<"none", 0>>, owner |-> -1]

\* submit_with_callback() without an id uses a new uuid.
FlowTask(n) == [id |-> <<"uuid", n>>, owner |-> 0]
BatchTask(b, i) == [id |-> <<"batch", i>>, owner |-> b]

Init ==
  /\ flow = 0
  /\ caller = [batch |-> 1, sent |-> 0, got |-> 0]
  /\ callbacks = {} /\ pending = <<>> /\ inflight = {} /\ input = <<>>
  /\ worker = [w \in Workers |-> [pc |-> "poll", queue |-> <<>>, tasks |-> {}]]
  /\ results = <<>>
  /\ cb = [pc |-> "check", task |-> NoTask, callback |-> NoTask]
  /\ called = <<>>
  /\ alive = TRUE /\ late = 0
-----------------------------------------------------------------------------
(* submit_with_callback() and generate(), on the callers' threads.         *)

Registered(task) == {c \in callbacks : c.id = task.id}

\* Mutant: "<=" for "<" in the cap.
OffByOne(n, k) == IF Cap = 0 THEN k ELSE Min({k, Max({0, Cap + 1 - n})})

\* _dispatch_pending_locked(): with n tasks in flight and k waiting, how many
\* of them are handed to the workers.
Dispatchable(n, k) ==
  IF Cap = 0 THEN k ELSE Min({k, Max({0, Cap - n})})

Dispatch(waiting, flying) ==
  LET n    == Dispatchable(Cardinality(flying), Len(waiting))
      sent == SubSeq(waiting, 1, n)
  IN /\ pending' = SubSeq(waiting, n + 1, Len(waiting))
     /\ inflight' = flying \cup {sent[i].id : i \in 1 .. n}
     /\ input' = input \o sent

\* callback_map is keyed by the id: an id in use loses its callback.
SubmitTask(task) ==
  /\ callbacks' = (callbacks \ Registered(task)) \cup {task}
  /\ Dispatch(Append(pending, task), inflight)

FlowSubmit ==
  /\ flow < Submits
  /\ flow' = flow + 1
  /\ SubmitTask(FlowTask(flow + 1))
  /\ UNCHANGED <<caller, worker, results, cb, called, alive, late>>

BatchSubmit ==
  /\ caller.batch <= Batches /\ caller.sent < BatchSize
  /\ caller' = [caller EXCEPT !.sent = @ + 1]
  /\ SubmitTask(BatchTask(caller.batch, caller.sent))
  /\ UNCHANGED <<flow, worker, results, cb, called, alive, late>>

\* out_queue of batch b: what its callbacks have put.
OutQueue(b) == {i \in DOMAIN called : called[i].owner = b}

\* Mutant: generate() returns when all its items are sent.
Returns(got) == TRUE

AllYielded(got) == got = BatchSize

BatchYield ==
  /\ caller.batch <= Batches /\ caller.sent = BatchSize
  /\ caller.got < Cardinality(OutQueue(caller.batch))
  /\ caller' = [caller EXCEPT !.got = @ + 1]
  /\ UNCHANGED <<flow, poolVars, worker, results, cb, called, alive, late>>

BatchReturn ==
  /\ caller.batch <= Batches /\ caller.sent = BatchSize
  /\ AllYielded(caller.got)
  /\ caller' = [batch |-> caller.batch + 1, sent |-> 0, got |-> 0]
  /\ UNCHANGED <<flow, poolVars, worker, results, cb, called, alive, late>>
-----------------------------------------------------------------------------
(* A worker process: its main thread and its event loop.                   *)

Up(w) == worker[w].pc # "gone"

\* _generation_worker_process(): input_queue.get(), put it in the local queue.
WorkerGet(w) ==
  /\ Up(w) /\ input # <<>> /\ Head(input) # Stop
  /\ input' = Tail(input)
  /\ worker' = [worker EXCEPT ![w].queue = Append(@, Head(input))]
  /\ UNCHANGED <<flow, caller, callbacks, pending, inflight, results, cb, called, alive, late>>

\* _generate_loop(): start all that is queued, then wait for a first result.
LoopPoll(w) ==
  /\ worker[w].pc = "poll"
  /\ worker[w].queue # <<>> \/ worker[w].tasks # {}
  /\ worker' = [worker EXCEPT ![w] =
       [pc |-> "wait", queue |-> <<>>, tasks |-> @.tasks \cup ToSet(@.queue)]]
  /\ UNCHANGED <<flow, caller, poolVars, results, cb, called, alive, late>>

\* work_on_item() ends, with a result or with the error as its result.
GenFinish(w) ==
  /\ Up(w)
  /\ \E task \in worker[w].tasks :
       /\ worker' = [worker EXCEPT ![w].tasks = @ \ {task}, ![w].pc = "poll"]
       /\ results' = Append(results, task)
  /\ UNCHANGED <<flow, caller, poolVars, cb, called, alive, late>>

\* The None of shutdown(), or its terminate(): what the worker runs is lost.
WorkerStop(w) ==
  /\ Up(w) /\ ~alive
  /\ \/ input # <<>> /\ Head(input) = Stop /\ input' = Tail(input)
     \/ UNCHANGED input
  /\ worker' = [worker EXCEPT ![w] = [pc |-> "gone", queue |-> <<>>, tasks |-> {}]]
  /\ UNCHANGED <<flow, caller, callbacks, pending, inflight, results, cb, called, alive, late>>
-----------------------------------------------------------------------------
(* _callback_loop().                                                       *)

CbCheck ==
  /\ cb.pc = "check"
  /\ cb' = [cb EXCEPT !.pc = IF alive THEN "get" ELSE "ended"]
  /\ UNCHANGED <<flow, caller, poolVars, worker, results, called, alive, late>>

CbGet ==
  /\ cb.pc = "get" /\ results # <<>>
  /\ cb' = [cb EXCEPT !.pc = "lock", !.task = Head(results)]
  /\ results' = Tail(results)
  /\ UNCHANGED <<flow, caller, poolVars, worker, called, alive, late>>

\* Mutant: the place of the finished task is not given away.
NoRefill(waiting, flying) ==
  /\ pending' = waiting /\ inflight' = flying /\ UNCHANGED input

Refill(waiting, flying) == Dispatch(waiting, flying)

\* Under the lock: take the callback of that id, free its place in the cap
\* and hand out what waits.  The callback itself runs without the lock.  (The
\* assertion that the id has a callback is a conjunct of OwnCallback.)
CbTake ==
  /\ cb.pc = "lock" /\ Registered(cb.task) # {}
  /\ LET c == CHOOSE c \in Registered(cb.task) : TRUE
     IN /\ callbacks' = callbacks \ {c}
        /\ cb' = [cb EXCEPT !.pc = "call", !.callback = c]
  /\ Refill(pending, inflight \ {cb.task.id})
  /\ UNCHANGED <<flow, caller, worker, results, called, alive, late>>

CbCall ==
  /\ cb.pc = "call"
  /\ called' = Append(called, [task |-> cb.task, owner |-> cb.callback.owner])
  /\ late' = IF alive THEN late ELSE late + 1
  /\ cb' = [pc |-> "check", task |-> NoTask, callback |-> NoTask]
  /\ UNCHANGED <<flow, caller, poolVars, worker, results, alive>>

\* Nothing catches what a flow's callback raises; generate()'s only puts.
CbRaise ==
  /\ cb.pc = "call" /\ MayRaise /\ cb.callback.owner = 0
  /\ cb' = [cb EXCEPT !.pc = "dead"]
  /\ UNCHANGED <<flow, caller, poolVars, worker, results, called, alive, late>>
-----------------------------------------------------------------------------
\* shutdown(): the callback thread and the workers find out on their own.
Shutdown ==
  /\ MayShut /\ alive
  /\ alive' = FALSE
  /\ input' = input \o [i \in 1 .. Cardinality(Workers) |-> Stop]
  /\ UNCHANGED <<flow, caller, callbacks, pending, inflight, worker, results, cb, called, late>>

Submitter == FlowSubmit \/ BatchSubmit \/ BatchYield \/ BatchReturn

CallbackLoop == CbCheck \/ CbGet \/ CbTake \/ CbCall \/ CbRaise

\* Everything that was asked for is done: the threads wait for more.
Idle ==
  /\ flow = Submits /\ caller.batch > Batches
  /\ callbacks = {} /\ cb.pc = "get" /\ alive
  /\ UNCHANGED vars

Next ==
  \/ Submitter
  \/ \E w \in Workers : WorkerGet(w) \/ LoopPoll(w) \/ GenFinish(w) \/ WorkerStop(w)
  \/ CallbackLoop \/ Shutdown \/ Idle

Spec == Init /\ [][Next]_vars

\* Processes and threads are scheduled and every started generation ends.
Fairness ==
  /\ WF_vars(Submitter)
  /\ WF_vars(CallbackLoop)
  /\ \A w \in Workers : WF_vars(LoopPoll(w)) /\ WF_vars(GenFinish(w))
  /\ WF_vars(\E w \in Workers : WorkerGet(w))

FairSpec == Spec /\ Fairness
-----------------------------------------------------------------------------
(* Properties.                                                             *)

Tasks ==
  {FlowTask(n) : n \in 1 .. Submits}
    \cup {BatchTask(b, i) : b \in 1 .. Batches, i \in 0 .. BatchSize - 1}

HeldBy(w) ==
  {<<w, i, worker[w].queue[i]>> : i \in DOMAIN worker[w].queue}
    \cup {<<w, 0, task>> : task \in worker[w].tasks}

\* The tasks handed to the workers whose place has not been freed, each with
\* where it is.
Handed ==
  {<<"input", i, input[i]>> : i \in {j \in DOMAIN input : input[j] # Stop}}
    \cup {<<"result", i, results[i]>> : i \in DOMAIN results}
    \cup (IF cb.pc = "lock" THEN {<<"callback", 0, cb.task>>} ELSE {})
    \cup UNION {HeldBy(w) : w \in Workers}

\* The cap holds for the controller as a whole, whatever the number of the
\* workers and the order of submissions and results, no place is leaked, and no
\* task waits while a place is free.
ExactCap ==
  /\ Cap # 0 => Cardinality(inflight) <= Cap
  /\ alive => /\ {h[3].id : h \in Handed} = inflight
              /\ \A g, h \in Handed : g[3].id = h[3].id => g = h
  /\ pending # <<>> => Cap # 0 /\ Cardinality(inflight) >= Cap

\* The assertion in the callback loop holds and every callback gets the result
\* of its own task, once, although batches use the same ids over again; shutdown()
\* lets one callback run at most, the one being waited for.
OwnCallback ==
  /\ cb.pc = "lock" => cb.task \in callbacks
  /\ \A i \in DOMAIN called : called[i].owner = called[i].task.owner
  /\ \A i, j \in DOMAIN called : called[i].task = called[j].task => i = j
  /\ late <= 1

\* Every submitted task is called back, unless the callback thread has died of
\* a callback's error or the controller has been shut down.
CalledBack ==
  \A task \in Tasks :
    (task \in callbacks) ~>
      \/ \E i \in DOMAIN called : called[i].task = task
      \/ cb.pc = "dead" \/ ~alive
=============================================================================
