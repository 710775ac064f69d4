----------------------------- MODULE WorkersProofs -----------------------------
(***************************************************************************)
(* What MCWorkers checks holds for every number of processes, workers,     *)
(* tasks, ranks, parts and iterations: the port of the rendezvous, proved  *)
(* here, and the generation pool and the dumper threads, which are those   *)
(* of GenerationPoolProofs and, for a job that neither fails nor crashes,  *)
(* of CheckpointerProofs.                                                  *)
(***************************************************************************)
EXTENDS Integers, MCWorkers, TLAPS

PoolProofs == INSTANCE GenerationPoolProofs

DumperProofs == INSTANCE CheckpointerProofs WITH
  AsyncDump <- TRUE, MayFail <- FALSE, MaxCrashes <- 0

-----------------------------------------------------------------------------
(* The meeting at the Redis server.                                        *)

\* A readable file that is young names no port, that of a server of this job, or
\* that of an earlier job.
FilePort ==
  Readable /\ ~IsStateStale(file) =>
    \/ file.port \in {None, Recent}
    \/ file.port \in servers

\* As long as the file is the one that an earlier job of the day has left, this
\* job has no master.
NoMaster ==
  Readable /\ Recent \in {file.master, file.port} =>
    /\ file.master = Recent /\ servers = {}
    /\ \A p \in Procs : proc[p].pc \notin {"write", "start", "publish"}

Published == \A p \in Procs : At(p, "publish") => p \in servers

MeetingInv == TypeOK /\ FilePort /\ NoMaster /\ Published

FileState == [master : Names, port : Names, stale : BOOLEAN]

\* The names of the earlier jobs are no processes of this one, nor each other's.
LEMMA NamesDiffer == \A p \in Procs : p # Recent /\ p # None
BY WorkersAssumption DEF RendezvousAssumption, WorkersAssumption

\* The rendezvous starts with what an earlier job has left and nobody at work.
LEMMA MeetingInit == Init => MeetingInv
<1> SUFFICES ASSUME Init PROVE MeetingInv
  OBVIOUS
<1>1. PICK master \in {Old, Recent}, port \in {None, Old, Recent}, stale \in BOOLEAN :
        /\ file \in {NoFile, Empty, State(master, port, stale)}
        /\ ~stale => master = Recent /\ port \in {None, Recent}
        /\ stale => master = Old /\ port \in {None, Old}
  BY DEF Init, Leftovers
<1>2. TypeOK
  <2>1. State(master, port, stale) \in FileState
    BY <1>1 DEF FileState, Names, State
  <2>2. file \in {NoFile, Empty} \cup FileState
    BY <1>1, <2>1
  <2>3. None \in Names
    BY DEF Names
  <2> QED
    BY <2>2, <2>3 DEF Init, TypeOK, FileState
<1>3. FilePort
  BY <1>1 DEF FilePort, Readable, IsStateStale, State
<1>4. NoMaster
  <2>1. Readable => file.master = master /\ file.port = port
    BY <1>1 DEF Readable, State
  <2>2. Old # Recent /\ None # Recent
    BY DEF Old, Recent, None
  <2> QED
    BY <1>1, <2>1, <2>2 DEF Init, NoMaster
<1>5. Published
  BY DEF Init, Published, At
<1> QED
  BY <1>2, <1>3, <1>4, <1>5 DEF MeetingInv

\* Every step of a process, and the passing of a day, keeps the invariant.
LEMMA MeetingStep == MeetingInv /\ [Next]_vars => MeetingInv'
<1> SUFFICES ASSUME MeetingInv, [Next]_vars PROVE MeetingInv'
  OBVIOUS
<1> USE DEF MeetingInv
<1>1. CASE UNCHANGED vars
  BY <1>1 DEF vars, TypeOK, FilePort, NoMaster, Published, At, Readable, IsStateStale, Names
<1>2. ASSUME NEW p \in Procs,
             \/ ReadNothing(p) \/ ReadStale(p) \/ TimeOut(p)
      PROVE  MeetingInv'
  <2>1. UNCHANGED <<file, servers>>
    BY <1>2 DEF ReadNothing, ReadStale, TimeOut
  <2>2. PICK pc \in {"claim", "remove", "raised"} : Goes(p, pc)
    BY <1>2 DEF ReadNothing, ReadStale, TimeOut
  <2>3. TypeOK' /\ FilePort'
    BY <2>1, <2>2 DEF TypeOK, FilePort, Readable, IsStateStale, Names, Goes
  <2>4. NoMaster' /\ Published'
    BY <2>1, <2>2 DEF TypeOK, NoMaster, Published, At, Readable, Goes
  <2> QED
    BY <2>3, <2>4
<1>3. ASSUME NEW p \in Procs, ReadState(p)
      PROVE  MeetingInv'
  <2>1. file \in FileState
    BY <1>3 DEF ReadState, Readable, TypeOK, FileState
  <2>2. TypeOK'
    BY <1>3, <2>1 DEF ReadState, TypeOK, FileState
  <2>3. FilePort'
    BY <1>3 DEF ReadState, FilePort, Readable, IsStateStale
  <2>4. NoMaster' /\ Published'
    BY <1>3 DEF ReadState, NoMaster, Published, At, TypeOK, Readable
  <2> QED
    BY <2>2, <2>3, <2>4
<1>4. ASSUME NEW p \in Procs, Remove(p) \/ Claim(p) \/ WriteMaster(p) \/ StartFails(p)
      PROVE  MeetingInv'
  <2>1. PICK pc \in {"read", "claim", "write", "start", "raised"} : Goes(p, pc)
    BY <1>4 DEF Remove, Claim, WriteMaster, StartFails
  <2>2. UNCHANGED servers
    BY <1>4 DEF Remove, Claim, WriteMaster, StartFails
  <2>3. file' \in {file, NoFile, Empty, State(p, None, FALSE)}
    BY <1>4 DEF Remove, Claim, WriteMaster, StartFails
  <2>4. State(p, None, FALSE) \in FileState
    BY DEF State, Names, FileState
  <2>5. file' \in {NoFile, Empty} \cup FileState
    BY <2>3, <2>4 DEF TypeOK, FileState
  <2>6. TypeOK'
    BY <2>1, <2>2, <2>5 DEF TypeOK, Goes, FileState
  <2>7. FilePort'
    BY <2>2, <2>3 DEF FilePort, Readable, IsStateStale, State
  <2>8. \/ file' \in {NoFile, Empty}
        \/ file' = State(p, None, FALSE)
        \/ file' = file /\ Goes(p, "read")
    BY <1>4 DEF Remove, Claim, WriteMaster, StartFails
  <2>9. NoMaster'
    <3>1. CASE file' \in {NoFile, Empty}
      BY <3>1 DEF NoMaster, Readable
    <3>2. CASE file' = State(p, None, FALSE)
      BY <3>2, NamesDiffer DEF NoMaster, State, None, Recent
    <3>3. CASE file' = file /\ Goes(p, "read")
      BY <3>3, <2>2 DEF NoMaster, Readable, Goes, TypeOK
    <3> QED
      BY <2>8, <3>1, <3>2, <3>3
  <2>10. Published'
    BY <2>1, <2>2 DEF Published, At, Goes, TypeOK
  <2> QED
    BY <2>6, <2>7, <2>9, <2>10
<1>5. ASSUME NEW p \in Procs, StartRedis(p)
      PROVE  MeetingInv'
  <2>1. TypeOK' /\ FilePort'
    BY <1>5 DEF StartRedis, TypeOK, FilePort, Readable, IsStateStale, Goes
  <2>2. NoMaster' /\ Published'
    BY <1>5 DEF StartRedis, TypeOK, NoMaster, Published, At, Readable, Goes
  <2> QED
    BY <2>1, <2>2
<1>6. ASSUME NEW p \in Procs, Publish(p)
      PROVE  MeetingInv'
  <2>1. p \in servers
    BY <1>6 DEF Publish, Published
  <2>2. TypeOK'
    BY <1>6 DEF Publish, TypeOK, Names, State
  <2>3. FilePort'
    BY <1>6, <2>1 DEF Publish, FilePort, State
  <2>4. NoMaster'
    BY <1>6, NamesDiffer DEF Publish, NoMaster, State
  <2>5. Published'
    BY <1>6 DEF Publish, Published, At, TypeOK
  <2> QED
    BY <2>2, <2>3, <2>4, <2>5
<1>7. CASE DayPasses
  <2>1. file \in FileState
    BY <1>7 DEF DayPasses, Readable, TypeOK, FileState
  <2>2. /\ file' \in FileState /\ file'.stale
        /\ file'.master = file.master /\ file'.port = file.port
    BY <1>7, <2>1 DEF DayPasses, FileState
  <2>3. TypeOK' /\ FilePort'
    BY <1>7, <2>2 DEF DayPasses, TypeOK, FilePort, IsStateStale, FileState
  <2>4. NoMaster' /\ Published'
    BY <1>7, <2>2 DEF DayPasses, NoMaster, Published, At, Readable
  <2> QED
    BY <2>3, <2>4
<1> QED
  BY <1>1, <1>2, <1>3, <1>4, <1>5, <1>6, <1>7 DEF Next

\* What an earlier job leaves, who claims, removes a file or fails meanwhile: a
\* process takes the port of a server of this job, or that of a job of the same
\* day as long as this one has no server; a file that is a day old is not trusted.
THEOREM TrustedPortHolds == Spec => TrustedPort
<1> DEFINE Trusted ==
      \A p \in Procs : Connects(p) =>
        \/ proc'[p].port \in servers
        \/ proc'[p].port = Recent /\ servers = {}
<1>1. MeetingInv /\ [Next]_vars => [Trusted]_vars
  <2> SUFFICES ASSUME MeetingInv, Next, NEW p \in Procs, Connects(p)
               PROVE  \/ proc'[p].port \in servers
                      \/ proc'[p].port = Recent /\ servers = {}
    BY DEF Trusted
  <2> USE DEF MeetingInv
  <2>1. PICK q \in Procs : ReadState(q) \/ Publish(q)
    <3>1. \A q \in Procs : \A pc : pc # "connected" => ~Goes(q, pc)
      BY DEF Connects, At, Goes, TypeOK
    <3>2. ~DayPasses
      BY DEF Connects, At, DayPasses
    <3>3. \A q \in Procs : ~ReadNothing(q) /\ ~ReadStale(q) /\ ~TimeOut(q)
      BY <3>1 DEF ReadNothing, ReadStale, TimeOut
    <3>4. \A q \in Procs : ~Remove(q) /\ ~Claim(q)
      BY <3>1 DEF Remove, Claim
    <3>5. \A q \in Procs : ~WriteMaster(q) /\ ~StartRedis(q) /\ ~StartFails(q)
      BY <3>1 DEF WriteMaster, StartRedis, StartFails
    <3> QED
      BY <3>2, <3>3, <3>4, <3>5 DEF Next
  <2>2. p = q
    BY <2>1 DEF Connects, At, ReadState, Publish, TypeOK
  <2>3. CASE Publish(p)
    BY <2>3 DEF Publish, Published, TypeOK
  <2>4. CASE ReadState(p)
    <3>1. proc'[p].port = file.port /\ file.port # None /\ Readable /\ ~IsStateStale(file)
      BY <2>4 DEF ReadState, Connects, At, TypeOK
    <3>2. CASE file.port = Recent
      BY <3>1, <3>2 DEF NoMaster
    <3> QED
      BY <3>1, <3>2 DEF FilePort
  <2> QED
    BY <2>1, <2>2, <2>3, <2>4
<1>2. Init /\ [][Next]_vars => [][Trusted]_vars
  BY <1>1, MeetingInit, MeetingStep, PTL
<1> QED
  BY <1>2 DEF Spec, TrustedPort

\* The rendezvous file and the processes keep their shapes.
THEOREM RendezvousTyped == Spec => []TypeOK
<1>1. MeetingInv => TypeOK
  BY DEF MeetingInv
<1> QED
  BY <1>1, MeetingInit, MeetingStep, PTL DEF Spec

-----------------------------------------------------------------------------
(* Two instances of GenerationPool are the same.                           *)

\* The assumption on the constants.
LEMMA SamePoolAssumption ==
  Pool!PoolAssumption <=> PoolProofs!PoolAssumption
BY DEF Pool!PoolAssumption, Pool!IsFiniteSet,
     PoolProofs!PoolAssumption, PoolProofs!IsFiniteSet

\* The initial states.
LEMMA SamePoolInit ==
  Pool!Init <=> PoolProofs!Init
BY DEF Pool!Init, Pool!NoTask,
     PoolProofs!Init, PoolProofs!NoTask

\* How many of the waiting tasks are handed out.
LEMMA SameDispatchable ==
  \A n, k : Pool!Dispatchable(n, k) = PoolProofs!Dispatchable(n, k)
BY DEF Pool!Dispatchable, Pool!Min, Pool!Max,
     PoolProofs!Dispatchable, PoolProofs!Min, PoolProofs!Max

\* Handing them out.
LEMMA SameDispatch ==
  \A w, F : Pool!Dispatch(w, F) <=> PoolProofs!Dispatch(w, F)
BY SameDispatchable DEF Pool!Dispatch, Pool!Cardinality,
     PoolProofs!Dispatch, PoolProofs!Cardinality

\* The callers of the controller.
LEMMA SameSubmitter ==
  Pool!Submitter <=> PoolProofs!Submitter
BY SameDispatch DEF Pool!Submitter, Pool!FlowSubmit, Pool!BatchSubmit, Pool!BatchYield,
     Pool!BatchReturn, Pool!AllYielded, Pool!SubmitTask, Pool!Registered,
     Pool!FlowTask, Pool!BatchTask, Pool!OutQueue, Pool!Cardinality, Pool!poolVars,
     Pool!vars,
     PoolProofs!Submitter, PoolProofs!FlowSubmit, PoolProofs!BatchSubmit,
     PoolProofs!BatchYield, PoolProofs!BatchReturn, PoolProofs!AllYielded,
     PoolProofs!SubmitTask, PoolProofs!Registered, PoolProofs!FlowTask,
     PoolProofs!BatchTask, PoolProofs!OutQueue, PoolProofs!Cardinality,
     PoolProofs!poolVars, PoolProofs!vars

\* The workers.
LEMMA SameWorker ==
  \A w : (Pool!WorkerGet(w) \/ Pool!LoopPoll(w) \/ Pool!GenFinish(w) \/ Pool!WorkerStop(w))
         <=> (PoolProofs!WorkerGet(w) \/ PoolProofs!LoopPoll(w) \/ PoolProofs!GenFinish(w) \/ PoolProofs!WorkerStop(w))
BY DEF Pool!WorkerGet, Pool!LoopPoll, Pool!GenFinish, Pool!WorkerStop, Pool!Up,
     Pool!Stop, Pool!ToSet, Pool!poolVars, Pool!vars,
     PoolProofs!WorkerGet, PoolProofs!LoopPoll, PoolProofs!GenFinish,
     PoolProofs!WorkerStop, PoolProofs!Up, PoolProofs!Stop, PoolProofs!ToSet,
     PoolProofs!poolVars, PoolProofs!vars

\* The callback thread.
LEMMA SameCallbackLoop ==
  Pool!CallbackLoop <=> PoolProofs!CallbackLoop
BY SameDispatch DEF Pool!CallbackLoop, Pool!CbCheck, Pool!CbGet, Pool!CbTake, Pool!CbCall,
     Pool!CbRaise, Pool!Registered, Pool!Refill, Pool!NoTask, Pool!poolVars,
     Pool!vars,
     PoolProofs!CallbackLoop, PoolProofs!CbCheck, PoolProofs!CbGet,
     PoolProofs!CbTake, PoolProofs!CbCall, PoolProofs!CbRaise,
     PoolProofs!Registered, PoolProofs!Refill, PoolProofs!NoTask,
     PoolProofs!poolVars, PoolProofs!vars

\* The end of the controller.
LEMMA SameShutdown ==
  (Pool!Shutdown \/ Pool!Idle) <=> (PoolProofs!Shutdown \/ PoolProofs!Idle)
BY DEF Pool!Shutdown, Pool!Idle, Pool!Stop, Pool!Cardinality, Pool!poolVars,
     Pool!vars,
     PoolProofs!Shutdown, PoolProofs!Idle, PoolProofs!Stop, PoolProofs!Cardinality,
     PoolProofs!poolVars, PoolProofs!vars

\* All steps.
LEMMA SamePoolNext ==
  [Pool!Next]_(Pool!vars) <=> [PoolProofs!Next]_(PoolProofs!vars)
BY SameSubmitter, SameWorker, SameCallbackLoop, SameShutdown DEF Pool!Next, Pool!poolVars, Pool!vars,
     PoolProofs!Next, PoolProofs!poolVars, PoolProofs!vars

\* What was handed to the workers.
LEMMA SameHanded ==
  Pool!Handed = PoolProofs!Handed
BY DEF Pool!Handed, Pool!HeldBy, Pool!Stop,
     PoolProofs!Handed, PoolProofs!HeldBy, PoolProofs!Stop

-----------------------------------------------------------------------------
(* Two instances of Checkpointer are the same.                             *)

\* The assumption on the constants.
LEMMA SameAssumption ==
  Dumper!CheckpointerAssumption <=> DumperProofs!CheckpointerAssumption
BY DEF Dumper!CheckpointerAssumption, Dumper!IsFiniteSet,
     DumperProofs!CheckpointerAssumption, DumperProofs!IsFiniteSet

\* The initial states.
LEMMA SameInit ==
  Dumper!Init <=> DumperProofs!Init
BY DEF Dumper!Init, Dumper!Iters, Dumper!Dirs, Dumper!Threads, Dumper!NoTask, Dumper!Idle,
     Dumper!Absent, Dumper!Partial,
     DumperProofs!Init, DumperProofs!Iters, DumperProofs!Dirs, DumperProofs!Threads,
     DumperProofs!NoTask, DumperProofs!Idle, DumperProofs!Absent, DumperProofs!Partial

\* The trainers in lock step.
LEMMA SameTraining ==
  Dumper!Training <=> DumperProofs!Training
BY DEF Dumper!Training, Dumper!TrainIter, Dumper!SaveBegin, Dumper!NextIter, Dumper!Barrier,
     Dumper!AllAt, Dumper!Last, Dumper!SaveDue, Dumper!jobVars, Dumper!diskVars,
     DumperProofs!Training, DumperProofs!TrainIter, DumperProofs!SaveBegin,
     DumperProofs!NextIter, DumperProofs!Barrier, DumperProofs!AllAt, DumperProofs!Last,
     DumperProofs!SaveDue, DumperProofs!jobVars, DumperProofs!diskVars

\* The trainer thread of a rank, and its dumper taking a task.
LEMMA SameTrainer ==
  \A r : (Dumper!TrainerStep(r) \/ Dumper!DumperTake(r)) <=> (DumperProofs!TrainerStep(r) \/ DumperProofs!DumperTake(r))
BY DEF Dumper!TrainerStep, Dumper!Join, Dumper!Joined, Dumper!SubmitAsync, Dumper!SubmitSync,
     Dumper!SyncDone, Dumper!Exit, Dumper!DumperTake, Dumper!TakeTask, Dumper!NextPart,
     Dumper!Task, Dumper!Last, Dumper!Idle, Dumper!NoTask, Dumper!jobVars, Dumper!diskVars,
     DumperProofs!TrainerStep, DumperProofs!Join, DumperProofs!Joined,
     DumperProofs!SubmitAsync, DumperProofs!SubmitSync, DumperProofs!SyncDone,
     DumperProofs!Exit, DumperProofs!DumperTake, DumperProofs!TakeTask,
     DumperProofs!NextPart, DumperProofs!Task, DumperProofs!Last, DumperProofs!Idle,
     DumperProofs!NoTask, DumperProofs!jobVars, DumperProofs!diskVars

\* The stages of a dump.
LEMMA SameDump ==
  \A th : Dumper!DumpStep(th) <=> DumperProofs!DumpStep(th)
BY DEF Dumper!DumpStep, Dumper!DumpOpen, Dumper!DumpWrite, Dumper!DumpSuccess,
     Dumper!DumpList, Dumper!MarkWrite, Dumper!MarkRename, Dumper!MarkFail, Dumper!At,
     Dumper!Goes, Dumper!FileOf, Dumper!AllRanksFinished, Dumper!Successes, Dumper!Marks,
     Dumper!Cardinality, Dumper!Idle, Dumper!NoTask, Dumper!Partial, Dumper!jobVars,
     Dumper!diskVars,
     DumperProofs!DumpStep, DumperProofs!DumpOpen, DumperProofs!DumpWrite,
     DumperProofs!DumpSuccess, DumperProofs!DumpList, DumperProofs!MarkWrite,
     DumperProofs!MarkRename, DumperProofs!MarkFail, DumperProofs!At, DumperProofs!Goes,
     DumperProofs!FileOf, DumperProofs!AllRanksFinished, DumperProofs!Successes,
     DumperProofs!Marks, DumperProofs!Cardinality, DumperProofs!Idle, DumperProofs!NoTask,
     DumperProofs!Partial, DumperProofs!jobVars, DumperProofs!diskVars

\* What fails, and what ends.
LEMMA SameRest ==
  /\ \A r : Dumper!DumperDies(r) <=> DumperProofs!DumperDies(r)
  /\ (Dumper!Restart \/ Dumper!Finished) <=> (DumperProofs!Restart \/ DumperProofs!Finished)
BY DEF Dumper!DumperDies, Dumper!Goes, Dumper!Restart, Dumper!Finished, Dumper!AllAt,
     Dumper!Last, Dumper!Threads, Dumper!Idle, Dumper!NoTask, Dumper!vars, Dumper!jobVars,
     Dumper!diskVars,
     DumperProofs!DumperDies, DumperProofs!Goes, DumperProofs!Restart,
     DumperProofs!Finished, DumperProofs!AllAt, DumperProofs!Last, DumperProofs!Threads,
     DumperProofs!Idle, DumperProofs!NoTask, DumperProofs!vars, DumperProofs!jobVars,
     DumperProofs!diskVars

\* All steps.
LEMMA SameNext ==
  [Dumper!Next]_(Dumper!vars) <=> [DumperProofs!Next]_(DumperProofs!vars)
BY SameTraining, SameTrainer, SameDump, SameRest DEF Dumper!Next, Dumper!Threads, Dumper!vars, Dumper!jobVars, Dumper!diskVars,
     DumperProofs!Next, DumperProofs!Threads, DumperProofs!vars, DumperProofs!jobVars,
     DumperProofs!diskVars

-----------------------------------------------------------------------------
(* The theorems of the pool.                                               *)

\* Seen from the pool, a behaviour of MCWorkers is one of GenerationPool.
LEMMA GeneratingSpec == MCSpec => PoolProofs!Spec
<1>1. MCInit => PoolProofs!Init
  BY SamePoolInit DEF MCInit
<1>2. [MCNext]_<<kind, vars, poolVars, dumperVars>> => [Pool!Next]_(Pool!vars)
  BY DEF MCNext, Is, poolVars, Pool!vars, Pool!poolVars
<1>3. [MCNext]_<<kind, vars, poolVars, dumperVars>> => [PoolProofs!Next]_(PoolProofs!vars)
  BY <1>2, SamePoolNext
<1> QED BY <1>1, <1>3, PTL DEF MCSpec, PoolProofs!Spec

\* At most max_concurrent_genables tasks are with the workers, none is lost or
\* handed out twice, and none waits while there is room.
THEOREM PoolCap == MCSpec => []ExactCap
<1>1. PoolProofs!PoolAssumption
  BY WorkersAssumption, SamePoolAssumption
<1>2. PoolProofs!Spec => []PoolProofs!ExactCap
  BY <1>1, PoolProofs!PoolCap
<1>3. PoolProofs!ExactCap => ExactCap
  BY SameHanded DEF ExactCap, Pool!ExactCap, Pool!Cardinality, PoolProofs!ExactCap,
     PoolProofs!Cardinality
<1> QED BY <1>2, <1>3, GeneratingSpec, PTL

\* Every callback gets the result of its own task, once, and one at most runs
\* after shutdown().
THEOREM PoolCallbacks == MCSpec => []OwnCallback
<1>1. PoolProofs!PoolAssumption
  BY WorkersAssumption, SamePoolAssumption
<1>2. PoolProofs!Spec => []PoolProofs!OwnCallback
  BY <1>1, PoolProofs!PoolCallbacks
<1>3. PoolProofs!OwnCallback => OwnCallback
  BY DEF OwnCallback, Pool!OwnCallback, PoolProofs!OwnCallback
<1> QED BY <1>2, <1>3, GeneratingSpec, PTL

-----------------------------------------------------------------------------
(* The theorems of the dumper threads.                                     *)

\* Seen from the dumper threads, a behaviour of MCWorkers is one of Checkpointer.
LEMMA DumpingSpec == MCSpec => DumperProofs!Spec
<1>1. MCInit => DumperProofs!Init
  BY SameInit DEF MCInit
<1>2. [MCNext]_<<kind, vars, poolVars, dumperVars>> => [Dumper!Next]_(Dumper!vars)
  BY DEF MCNext, Is, dumperVars, Dumper!vars, Dumper!jobVars, Dumper!diskVars
<1>3. [MCNext]_<<kind, vars, poolVars, dumperVars>> => [DumperProofs!Next]_(DumperProofs!vars)
  BY <1>2, SameNext
<1> QED BY <1>1, <1>3, PTL DEF MCSpec, DumperProofs!Spec

\* latest_ckpt always names a checkpoint that is complete on every rank.
THEOREM LatestCheckpoints == MCSpec => []LatestComplete
<1>1. DumperProofs!CheckpointerAssumption
  BY WorkersAssumption, SameAssumption
<1>2. DumperProofs!Spec => []DumperProofs!LatestComplete
  BY <1>1, DumperProofs!LatestCheckpoints
<1>3. DumperProofs!LatestComplete => LatestComplete
  BY DEF LatestComplete, Dumper!LatestComplete, Dumper!Complete,
     DumperProofs!LatestComplete, DumperProofs!Complete
<1> QED BY <1>2, <1>3, DumpingSpec, PTL

\* A rank keeps at most one checkpoint waiting and a part of another, and what
\* was saved two saves ago is marked.
THEOREM BacklogBound == MCSpec => []BoundedBacklog
<1>1. DumperProofs!CheckpointerAssumption
  BY WorkersAssumption, SameAssumption
<1>2. DumperProofs!Spec => []DumperProofs!BoundedBacklog
  BY <1>1, DumperProofs!BacklogBound
<1>3. DumperProofs!BoundedBacklog => BoundedBacklog
  BY DEF BoundedBacklog, Dumper!BoundedBacklog, Dumper!Iters, Dumper!Idle, Dumper!NoTask,
     DumperProofs!BoundedBacklog, DumperProofs!Iters, DumperProofs!Idle,
     DumperProofs!NoTask
<1> QED BY <1>2, <1>3, DumpingSpec, PTL

\* latest_ckpt never goes back to an older checkpoint before the last save.
THEOREM LatestNeverBack == MCSpec => NeverBack
<1>1. DumperProofs!CheckpointerAssumption
  BY WorkersAssumption, SameAssumption
<1>2. DumperProofs!Spec => DumperProofs!NeverBack
  BY <1>1, DumperProofs!LatestNeverBack
<1>3. [marked' >= marked \/ DumperProofs!Ending]_(DumperProofs!vars)
        => [marked' >= marked \/ Dumper!Ending]_(Dumper!vars)
  BY DEF Dumper!Ending, Dumper!Last, Dumper!vars, Dumper!jobVars, Dumper!diskVars,
     DumperProofs!Ending, DumperProofs!Last, DumperProofs!vars, DumperProofs!jobVars,
     DumperProofs!diskVars
<1> QED BY <1>2, <1>3, DumpingSpec, PTL DEF NeverBack, Dumper!NeverBack, DumperProofs!NeverBack
=============================================================================
