----------------------------- MODULE Checkpointer -----------------------------
(***************************************************************************)
(* Checkpointer (checkpointing/local_checkpoint.py) as the two trainers    *)
(* drive it: every rank has a trainer thread, the saver, which submits one *)
(* dump task per part of a checkpoint (the root, and for PPO the actor,    *)
(* critic and reference before it), and a dumper thread, which writes the  *)
(* tasks in order.  The rank that finds the .success files of all ranks in *)
(* the root directory points latest_ckpt at it, and a restarted job        *)
(* resumes there.                                                          *)
(*                                                                         *)
(* A checkpoint is named by its iteration.  The ranks train in lock step,  *)
(* so the iteration is one variable; a barrier releases all ranks at once. *)
(***************************************************************************)
EXTENDS Integers, Sequences, FiniteSets, FiniteSetsExt

CONSTANTS
  Ranks,         \* the processes of the job
  TrainIters,    \* trainer_cfg.train_iters
  SaveInterval,  \* checkpoint_cfg.save_interval
  Parts,         \* dump tasks of a checkpoint; the last one is the root
  AsyncDump,     \* checkpoint_cfg.async_dump
  MayFail,       \* whether writing a file or renaming may raise
  MaxCrashes     \* bound on the crashes of the job

CheckpointerAssumption ==
  /\ IsFiniteSet(Ranks) /\ Ranks # {}
  /\ TrainIters \in Nat
  /\ SaveInterval \in Nat \ {0}
  /\ Parts \in Nat \ {0}
  /\ AsyncDump \in BOOLEAN /\ MayFail \in BOOLEAN
  /\ MaxCrashes \in Nat

VARIABLES
  iter,     \* iteration
  start,    \* start_iteration
  run,      \* how many times the job has been started
  saver,    \* [Ranks -> [pc, part]]: the trainer threads
  tasks,    \* [Ranks -> Seq(task)]: dump_tasks
  dump,     \* [Threads -> [pc, task]]: the dumps being written
  files,    \* <<save_path, rank>> -> Absent, Partial or the run that wrote it
  success,  \* save_path -> [Ranks -> run that wrote the .success file, or 0]
  tmp,      \* [Ranks -> iteration]: latest_ckpt.rank<r>, 0 when absent
  marked    \* the iteration latest_ckpt points to, 0 when absent

jobVars  == <<iter, start, run>>
diskVars == <<files, success, tmp, marked>>
vars == <<jobVars, saver, tasks, dump, diskVars>>

\* A resumed job that is already complete saves one iteration more.
Iters == 1 .. TrainIters + 1 + MaxCrashes

Dirs == Iters \X (1 .. Parts)

Threads == Ranks \X {"dumper", "saver"}

\* A task is the directory it writes; the task of the root marks latest_ckpt.
NoTask == <<0, 0>>
Idle == [pc |-> "idle", task |-> NoTask]
Marks(task) == task[2] = Parts

\* A file that is whole is known by the run that wrote it.
Absent == 0
Partial == -1

Init ==
  /\ iter = 0 /\ start = 0 /\ run = 1
  /\ saver = [r \in Ranks |-> [pc |-> "train", part |-> 1]]
  /\ tasks = [r \in Ranks |-> <<>>]
  /\ dump = [th \in Threads |-> Idle]
  /\ files = [d \in Dirs \X Ranks |-> Absent]
  /\ success = [d \in Dirs |-> [r \in Ranks |-> 0]]
  /\ tmp = [r \in Ranks |-> 0]
  /\ marked = 0

AllAt(pc) == \A r \in Ranks : saver[r].pc = pc

\* The last checkpoint of a job is written by after_train().
Last == iter >= TrainIters
-----------------------------------------------------------------------------
(* train_loop() and after_train().                                         *)

SaveDue == iter % SaveInterval = 0 /\ iter > start

TrainIter ==
  /\ AllAt("train") /\ ~Last /\ ~SaveDue
  /\ iter' = iter + 1
  /\ UNCHANGED <<start, run, saver, tasks, dump, diskVars>>

\* save_checkpoint() starts with join_dumping_thread().
SaveBegin ==
  /\ AllAt("train")
  /\ IF Last THEN iter # 0 ELSE SaveDue
  /\ saver' = [r \in Ranks |-> [pc |-> "join", part |-> 1]]
  /\ UNCHANGED <<jobVars, tasks, dump, diskVars>>

NextIter ==
  /\ AllAt("saved") /\ ~Last
  /\ iter' = iter + 1
  /\ saver' = [r \in Ranks |-> [pc |-> "train", part |-> 1]]
  /\ UNCHANGED <<start, run, tasks, dump, diskVars>>

\* The process ends and takes its daemon dumper with it.
Exit(r) ==
  /\ saver[r].pc = "saved" /\ Last
  /\ saver' = [saver EXCEPT ![r].pc = "gone"]
  /\ dump' = [dump EXCEPT ![<<r, "dumper">>] = Idle]
  /\ UNCHANGED <<jobVars, tasks, diskVars>>
-----------------------------------------------------------------------------
(* join_dumping_thread() and submit_dump_task().                           *)

\* Mutant: the saver does not wait for the dumps of the last checkpoint.
NoJoin(r) == TRUE

\* Only the tasks that wait are looked at, not the one being dumped.
Joined(r) == tasks[r] = <<>>

Join(r) ==
  /\ saver[r].pc = "join" /\ Joined(r)
  /\ saver' = [saver EXCEPT ![r].pc = "arrive"]
  /\ UNCHANGED <<jobVars, tasks, dump, diskVars>>

\* The barrier before each part, after rank 0 has made the directory.
Barrier ==
  /\ AllAt("arrive")
  /\ saver' = [r \in Ranks |-> [saver[r] EXCEPT !.pc = "submit"]]
  /\ UNCHANGED <<jobVars, tasks, dump, diskVars>>

NextPart(r) ==
  IF saver[r].part < Parts THEN [pc |-> "arrive", part |-> saver[r].part + 1]
                           ELSE [pc |-> "saved", part |-> 1]

Task(r) == <<iter, saver[r].part>>

SubmitAsync(r) ==
  /\ saver[r].pc = "submit" /\ AsyncDump /\ ~Last
  /\ tasks' = [tasks EXCEPT ![r] = Append(@, Task(r))]
  /\ saver' = [saver EXCEPT ![r] = NextPart(r)]
  /\ UNCHANGED <<jobVars, dump, diskVars>>

\* The saver writes the files itself.
SubmitSync(r) ==
  /\ saver[r].pc = "submit" /\ (~AsyncDump \/ Last)
  /\ dump' = [dump EXCEPT ![<<r, "saver">>] = [pc |-> "open", task |-> Task(r)]]
  /\ saver' = [saver EXCEPT ![r].pc = "dumping"]
  /\ UNCHANGED <<jobVars, tasks, diskVars>>

SyncDone(r) ==
  /\ saver[r].pc = "dumping" /\ dump[<<r, "saver">>] = Idle
  /\ saver' = [saver EXCEPT ![r] = NextPart(r)]
  /\ UNCHANGED <<jobVars, tasks, dump, diskVars>>
-----------------------------------------------------------------------------
(* _dumper() and _dump_with_callback().                                    *)

\* Mutant: the newest task is dumped first.
TakeLast(s) == <<s[Len(s)], SubSeq(s, 1, Len(s) - 1)>>

\* dump_tasks.pop(0).
TakeTask(s) == <<Head(s), Tail(s)>>

\* The task leaves dump_tasks before it is dumped.
DumperTake(r) ==
  /\ tasks[r] # <<>> /\ dump[<<r, "dumper">>] = Idle /\ saver[r].pc # "gone"
  /\ tasks' = [tasks EXCEPT ![r] = TakeTask(@)[2]]
  /\ dump' = [dump EXCEPT ![<<r, "dumper">>] =
                [pc |-> "open", task |-> TakeTask(tasks[r])[1]]]
  /\ UNCHANGED <<jobVars, saver, diskVars>>

At(th, pc) == dump[th].pc = pc

Goes(th, pc) == dump' = [dump EXCEPT ![th].pc = pc]

FileOf(th) == <<dump[th].task, th[1]>>

\* smart_open(.., "wb") truncates what an earlier run may have left there.
DumpOpen(th) ==
  /\ At(th, "open") /\ Goes(th, "write")
  /\ files' = [files EXCEPT ![FileOf(th)] = Partial]
  /\ UNCHANGED <<jobVars, saver, tasks, success, tmp, marked>>

DumpWrite(th) ==
  /\ At(th, "write") /\ Goes(th, "success")
  /\ files' = [files EXCEPT ![FileOf(th)] = run]
  /\ UNCHANGED <<jobVars, saver, tasks, success, tmp, marked>>

DumpSuccess(th) ==
  /\ At(th, "success") /\ Goes(th, "list")
  /\ success' = [success EXCEPT ![dump[th].task][th[1]] = run]
  /\ UNCHANGED <<jobVars, saver, tasks, files, tmp, marked>>

Successes(task) == {r \in Ranks : success[task][r] # 0}

\* Mutants: whoever finishes marks; the last one to finish does not.
AnyFinisher(task) == Marks(task)

MissesLast(task) == Cardinality(Successes(task)) > Cardinality(Ranks) /\ Marks(task)

\* The .success files in the directory are counted, whoever wrote them.
AllRanksFinished(task) ==
  Cardinality(Successes(task)) = Cardinality(Ranks) /\ Marks(task)

DumpList(th) ==
  /\ At(th, "list")
  /\ IF AllRanksFinished(dump[th].task)
     THEN Goes(th, "mark")
     ELSE dump' = [dump EXCEPT ![th] = Idle]
  /\ UNCHANGED <<jobVars, saver, tasks, diskVars>>

\* The temporary name has the rank but not the thread nor the iteration.
MarkWrite(th) ==
  /\ At(th, "mark") /\ Goes(th, "rename")
  /\ tmp' = [tmp EXCEPT ![th[1]] = dump[th].task[1]]
  /\ UNCHANGED <<jobVars, saver, tasks, files, success, marked>>

MarkRename(th) ==
  /\ At(th, "rename") /\ tmp[th[1]] # 0
  /\ marked' = tmp[th[1]]
  /\ tmp' = [tmp EXCEPT ![th[1]] = 0]
  /\ dump' = [dump EXCEPT ![th] = Idle]
  /\ UNCHANGED <<jobVars, saver, tasks, files, success>>

\* A rename that fails is logged and forgotten.
MarkFail(th) ==
  /\ At(th, "rename") /\ (MayFail \/ tmp[th[1]] = 0)
  /\ dump' = [dump EXCEPT ![th] = Idle]
  /\ UNCHANGED <<jobVars, saver, tasks, diskVars>>

\* Nothing catches an error of _dump_with_callback(): it ends the dumper.
DumperDies(r) ==
  /\ MayFail /\ dump[<<r, "dumper">>].pc \in {"open", "write", "success", "list", "mark"}
  /\ Goes(<<r, "dumper">>, "dead")
  /\ UNCHANGED <<jobVars, saver, tasks, diskVars>>
-----------------------------------------------------------------------------
\* The job is killed and started again: set_autoresume(), load_ckpt().
Restart ==
  /\ run <= MaxCrashes
  /\ run' = run + 1
  /\ start' = IF marked = 0 THEN 0 ELSE marked + 1
  /\ iter' = start'
  /\ saver' = [r \in Ranks |-> [pc |-> "train", part |-> 1]]
  /\ tasks' = [r \in Ranks |-> <<>>]
  /\ dump' = [th \in Threads |-> Idle]
  /\ UNCHANGED diskVars

Finished ==
  /\ AllAt("gone") \/ (AllAt("train") /\ Last /\ iter = 0)
  /\ UNCHANGED vars

TrainerStep(r) == Join(r) \/ SubmitAsync(r) \/ SubmitSync(r) \/ SyncDone(r) \/ Exit(r)

Training == TrainIter \/ SaveBegin \/ NextIter \/ Barrier

DumpStep(th) ==
  \/ DumpOpen(th) \/ DumpWrite(th) \/ DumpSuccess(th) \/ DumpList(th)
  \/ MarkWrite(th) \/ MarkRename(th) \/ MarkFail(th)

Next ==
  \/ Training
  \/ \E r \in Ranks : TrainerStep(r) \/ DumperTake(r) \/ DumperDies(r)
  \/ \E th \in Threads : DumpStep(th)
  \/ Restart \/ Finished

Spec == Init /\ [][Next]_vars

\* Every thread is scheduled; a crash or an error is never owed.
Fairness ==
  /\ WF_vars(Training)
  /\ \A r \in Ranks : WF_vars(TrainerStep(r)) /\ WF_vars(DumperTake(r))
  /\ \A th \in Threads : WF_vars(DumpStep(th))

FairSpec == Spec /\ Fairness
-----------------------------------------------------------------------------
(* Properties.                                                             *)

Tasks == Dirs \cup {NoTask}

\* Every rank's file of every part is whole, and all are of one run.
Complete(p) ==
  \E n \in 1 .. run : \A k \in 1 .. Parts : \A r \in Ranks : files[<<<<p, k>>, r>>] = n

\* dump_ckpt(): latest_ckpt is updated "after success".  Whenever the job is
\* killed, the checkpoint it resumes from is complete on every rank.
LatestComplete == marked # 0 => Complete(marked)

\* What holds of a job that was restarted: a checkpoint is complete, parts
\* written before the root included, when no two runs have left .success files
\* in its root directory.
OneRunComplete ==
  \A n \in 1 .. run :
    (marked # 0 /\ \A r \in Ranks : success[<<marked, Parts>>][r] \in {0, n})
      => Complete(marked)

\* The snapshots a rank keeps in memory: one checkpoint waiting, and the part
\* of the one before that is being written.  And a crash never costs more than
\* three save intervals: when a save is over, the one two before it is marked.
BoundedBacklog ==
  /\ \A r \in Ranks :
       Len(tasks[r]) + (IF dump[<<r, "dumper">>] = Idle THEN 0 ELSE 1) <= Parts + 1
  /\ \A p \in Iters :
       p % SaveInterval = 0 /\ p > start /\ p + 2 * SaveInterval < iter => marked >= p

\* The last, synchronous save has begun to write.
Ending == Last /\ \E r \in Ranks : saver[r].pc \in {"dumping", "saved", "gone"}

\* Ranks finish a checkpoint in any order and each may mark it late, but until
\* the last save latest_ckpt never goes back to an older checkpoint.
NeverBack == [][marked' >= marked \/ Ending]_vars

\* Every checkpoint handed to the dumpers is marked in the end, or a newer one.
SavesLand ==
  \A p \in Iters :
    (iter = p /\ ~Last /\ AllAt("saved")) ~> (marked >= p)
=============================================================================
