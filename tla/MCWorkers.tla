------------------------------- MODULE MCWorkers -------------------------------
(* The processes and threads of a job next to its trainer on small instances: *)
(* the generation processes (GenerationPool), the dumper threads of a job     *)
(* that neither fails nor crashes (Checkpointer), and the meeting of the      *)
(* processes at the Redis server (Rendezvous).  They share no state, so one   *)
(* run explores them side by side: an initial state chooses one.              *)
EXTENDS Rendezvous

CONSTANTS
  Workers, Cap, Submits, Batches, BatchSize, MayRaise, MayShut,
  Ranks, TrainIters, SaveInterval, Parts

VARIABLES
  kind,  \* "generation", "dumping" or "meeting"
  flow, caller, callbacks, pending, inflight, input, worker, results, cb, called,
  alive, late,
  iter, start, run, saver, tasks, dump, files, success, tmp, marked

poolVars == <<flow, caller, callbacks, pending, inflight, input, worker, results, cb,
              called, alive, late>>
dumperVars == <<iter, start, run, saver, tasks, dump, files, success, tmp, marked>>

Pool == INSTANCE GenerationPool

Dumper == INSTANCE Checkpointer WITH
  AsyncDump <- TRUE, MayFail <- FALSE, MaxCrashes <- 0

ASSUME WorkersAssumption ==
  RendezvousAssumption /\ Pool!PoolAssumption /\ Dumper!CheckpointerAssumption

\* A component that is not explored is in one of its initial states.
MCInit ==
  /\ kind \in {"generation", "dumping", "meeting"}
  /\ file \in IF kind = "meeting" THEN Leftovers ELSE {NoFile}
  /\ Init /\ Pool!Init /\ Dumper!Init

Is(k) == kind = k /\ UNCHANGED kind

MCNext ==
  \/ Is("generation") /\ Pool!Next /\ UNCHANGED <<vars, dumperVars>>
  \/ Is("dumping") /\ Dumper!Next /\ UNCHANGED <<vars, poolVars>>
  \/ Is("meeting") /\ Next /\ UNCHANGED <<poolVars, dumperVars>>

\* Each module's Fairness, where its component is the one that is explored.
GenerationFairness ==
  /\ WF_poolVars(Is("generation") /\ Pool!Submitter)
  /\ WF_poolVars(Is("generation") /\ Pool!CallbackLoop)
  /\ \A w \in Workers : /\ WF_poolVars(Is("generation") /\ Pool!LoopPoll(w))
                        /\ WF_poolVars(Is("generation") /\ Pool!GenFinish(w))
  /\ WF_poolVars(Is("generation") /\ \E w \in Workers : Pool!WorkerGet(w))

DumpingFairness ==
  /\ WF_dumperVars(Is("dumping") /\ Dumper!Training)
  /\ \A r \in Ranks :
       /\ WF_dumperVars(Is("dumping") /\ Dumper!TrainerStep(r))
       /\ WF_dumperVars(Is("dumping") /\ Dumper!DumperTake(r))
  /\ \A th \in Ranks \X {"dumper", "saver"} :
       WF_dumperVars(Is("dumping") /\ Dumper!DumpStep(th))

MCSpec ==
  /\ MCInit /\ [][MCNext]_<<kind, vars, poolVars, dumperVars>>
  /\ GenerationFairness /\ DumpingFairness
-----------------------------------------------------------------------------
(* The properties of the pool and of the dumper threads; GenerationPool   *)
(* and Checkpointer explain each.                                          *)

\* The cap on items in flight holds, and no place is leaked or left free.
ExactCap == Pool!ExactCap

\* Every callback gets the result of its own task, once, and one at most runs
\* after shutdown().
OwnCallback == Pool!OwnCallback

\* Every submitted task is called back.
CalledBack == Pool!CalledBack

\* latest_ckpt names a checkpoint that is complete on every rank.
LatestComplete == Dumper!LatestComplete

\* At most one checkpoint and one part of another are held in memory, and
\* latest_ckpt lags behind training by less than three save intervals.
BoundedBacklog == Dumper!BoundedBacklog

\* latest_ckpt never goes back before the last save.
NeverBack == Dumper!NeverBack

\* Every checkpoint handed to the dumpers is marked, or a newer one.
SavesLand == Dumper!SavesLand
===============================================================================
