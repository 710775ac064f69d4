----------------------------- MODULE RestartsProofs -----------------------------
(***************************************************************************)
(* What MCRestarts checks of jobs that are killed and restarted holds for  *)
(* every number of iterations and crashes, and whatever is being written   *)
(* or moved when they are killed: that a flow resumes exactly and as fresh *)
(* as without a crash (by the inductive invariants of FullyAsyncFlowProofs *)
(* and SimpleFlowProofs), that the checkpoint files of every number of     *)
(* ranks and parts are complete (by CheckpointerProofs), and that requests *)
(* are answered by the deployed weights, for every number of servers and   *)
(* whatever call is lost or server ends.                                   *)
(***************************************************************************)
EXTENDS MCRestarts, FullyAsyncFlowProofs

CkptProofs == INSTANCE CheckpointerProofs WITH
  TrainIters <- SaveIters, AsyncDump <- TRUE, MayFail <- TRUE

SimpleProofs == INSTANCE SimpleFlowProofs WITH PromptPerIter <- 2, NumPrompts <- 5

-----------------------------------------------------------------------------
(* Two instances of Checkpointer are the same.                             *)

\* The assumption on the constants.
LEMMA SameAssumption ==
  Ckpt!CheckpointerAssumption <=> CkptProofs!CheckpointerAssumption
BY DEF Ckpt!CheckpointerAssumption, Ckpt!IsFiniteSet,
     CkptProofs!CheckpointerAssumption, CkptProofs!IsFiniteSet

\* The initial states.
LEMMA SameInit ==
  Ckpt!Init <=> CkptProofs!Init
BY DEF Ckpt!Init, Ckpt!Iters, Ckpt!Dirs, Ckpt!Threads, Ckpt!NoTask, Ckpt!Idle, Ckpt!Absent,
     Ckpt!Partial,
     CkptProofs!Init, CkptProofs!Iters, CkptProofs!Dirs, CkptProofs!Threads,
     CkptProofs!NoTask, CkptProofs!Idle, CkptProofs!Absent, CkptProofs!Partial

\* The trainers in lock step.
LEMMA SameTraining ==
  Ckpt!Training <=> CkptProofs!Training
BY DEF Ckpt!Training, Ckpt!TrainIter, Ckpt!SaveBegin, Ckpt!NextIter, Ckpt!Barrier,
     Ckpt!AllAt, Ckpt!Last, Ckpt!SaveDue, Ckpt!jobVars, Ckpt!diskVars,
     CkptProofs!Training, CkptProofs!TrainIter, CkptProofs!SaveBegin, CkptProofs!NextIter,
     CkptProofs!Barrier, CkptProofs!AllAt, CkptProofs!Last, CkptProofs!SaveDue,
     CkptProofs!jobVars, CkptProofs!diskVars

\* The trainer thread of a rank, and its dumper taking a task.
LEMMA SameTrainer ==
  \A r : (Ckpt!TrainerStep(r) \/ Ckpt!DumperTake(r))
         <=> (CkptProofs!TrainerStep(r) \/ CkptProofs!DumperTake(r))
BY DEF Ckpt!TrainerStep, Ckpt!Join, Ckpt!Joined, Ckpt!SubmitAsync, Ckpt!SubmitSync,
     Ckpt!SyncDone, Ckpt!Exit, Ckpt!DumperTake, Ckpt!TakeTask, Ckpt!NextPart, Ckpt!Task,
     Ckpt!Last, Ckpt!Idle, Ckpt!NoTask, Ckpt!jobVars, Ckpt!diskVars,
     CkptProofs!TrainerStep, CkptProofs!Join, CkptProofs!Joined, CkptProofs!SubmitAsync,
     CkptProofs!SubmitSync, CkptProofs!SyncDone, CkptProofs!Exit, CkptProofs!DumperTake,
     CkptProofs!TakeTask, CkptProofs!NextPart, CkptProofs!Task, CkptProofs!Last,
     CkptProofs!Idle, CkptProofs!NoTask, CkptProofs!jobVars, CkptProofs!diskVars

\* The stages of a dump.
LEMMA SameDump ==
  \A th : Ckpt!DumpStep(th) <=> CkptProofs!DumpStep(th)
BY DEF Ckpt!DumpStep, Ckpt!DumpOpen, Ckpt!DumpWrite, Ckpt!DumpSuccess, Ckpt!DumpList,
     Ckpt!MarkWrite, Ckpt!MarkRename, Ckpt!MarkFail, Ckpt!At, Ckpt!Goes, Ckpt!FileOf,
     Ckpt!AllRanksFinished, Ckpt!Successes, Ckpt!Marks, Ckpt!Cardinality, Ckpt!Idle,
     Ckpt!NoTask, Ckpt!Partial, Ckpt!jobVars, Ckpt!diskVars,
     CkptProofs!DumpStep, CkptProofs!DumpOpen, CkptProofs!DumpWrite,
     CkptProofs!DumpSuccess, CkptProofs!DumpList, CkptProofs!MarkWrite,
     CkptProofs!MarkRename, CkptProofs!MarkFail, CkptProofs!At, CkptProofs!Goes,
     CkptProofs!FileOf, CkptProofs!AllRanksFinished, CkptProofs!Successes,
     CkptProofs!Marks, CkptProofs!Cardinality, CkptProofs!Idle, CkptProofs!NoTask,
     CkptProofs!Partial, CkptProofs!jobVars, CkptProofs!diskVars

\* What fails, and what ends.
LEMMA SameRest ==
  /\ \A r : Ckpt!DumperDies(r) <=> CkptProofs!DumperDies(r)
  /\ (Ckpt!Restart \/ Ckpt!Finished) <=> (CkptProofs!Restart \/ CkptProofs!Finished)
BY DEF Ckpt!DumperDies, Ckpt!Goes, Ckpt!Restart, Ckpt!Finished, Ckpt!AllAt, Ckpt!Last,
     Ckpt!Threads, Ckpt!Idle, Ckpt!NoTask, Ckpt!vars, Ckpt!jobVars, Ckpt!diskVars,
     CkptProofs!DumperDies, CkptProofs!Goes, CkptProofs!Restart, CkptProofs!Finished,
     CkptProofs!AllAt, CkptProofs!Last, CkptProofs!Threads, CkptProofs!Idle,
     CkptProofs!NoTask, CkptProofs!vars, CkptProofs!jobVars, CkptProofs!diskVars

\* All steps.
LEMMA SameNext ==
  [Ckpt!Next]_(Ckpt!vars) <=> [CkptProofs!Next]_(CkptProofs!vars)
BY SameTraining, SameTrainer, SameDump, SameRest DEF Ckpt!Next, Ckpt!Threads, Ckpt!vars,
    Ckpt!jobVars, Ckpt!diskVars,
     CkptProofs!Next, CkptProofs!Threads, CkptProofs!vars, CkptProofs!jobVars,
     CkptProofs!diskVars

-----------------------------------------------------------------------------
(* The theorem of the checkpoint files.                                    *)

\* Seen from the checkpoint files, a behaviour of MCRestarts is one of
\* Checkpointer.
LEMMA FilesSpec == MCSpec => CkptProofs!Spec
<1>1. MCInit => CkptProofs!Init
  BY SameInit DEF MCInit
<1>2. [MCNext]_<<kind, resumeVars, simpleOnly, fileVars, contentVars, servingVars>> =>
        [Ckpt!Next]_(Ckpt!vars)
  BY DEF MCNext, fileVars, Ckpt!vars, Ckpt!jobVars, Ckpt!diskVars
<1>3. [MCNext]_<<kind, resumeVars, simpleOnly, fileVars, contentVars, servingVars>> =>
        [CkptProofs!Next]_(CkptProofs!vars)
  BY <1>2, SameNext
<1> QED BY <1>1, <1>3, PTL DEF MCSpec, CkptProofs!Spec

\* A checkpoint that a restarted job resumes from is complete on every rank, if
\* no two runs have left .success files in its root.
THEOREM OneRunCheckpoints == MCSpec => []OneRunComplete
<1>1. CkptProofs!CheckpointerAssumption
  BY RestartsAssumption, SameAssumption
<1>2. CkptProofs!Spec => []CkptProofs!OneRunComplete
  BY <1>1, CkptProofs!OneRunCheckpoints
<1>3. CkptProofs!OneRunComplete => OneRunComplete
  BY DEF OneRunComplete, Ckpt!OneRunComplete, Ckpt!Complete,
     CkptProofs!OneRunComplete, CkptProofs!Complete
<1> QED BY <1>2, <1>3, FilesSpec, PTL

-----------------------------------------------------------------------------
(* The theorems of the fully asynchronous flow.                            *)

\* What FullyAsyncFlowProofs finds of a resumed flow, when it is the one explored.
AsyncInv == kind = "async" => ResumeInv

\* It holds in every behaviour.
LEMMA AsyncInvariant == MCSpec => []AsyncInv
<1>1. MCInit => AsyncInv
  BY InitResume DEF MCInit, AsyncInv
<1>2. AsyncInv /\ [MCNext]_<<kind, resumeVars, simpleOnly, fileVars, contentVars, servingVars>>
        => AsyncInv'
  <2>1. [MCNext]_<<kind, resumeVars, simpleOnly, fileVars, contentVars, servingVars>> =>
          UNCHANGED kind /\ (kind = "async" => [ResumeNext]_resumeVars)
    BY DEF MCNext
  <2> QED BY <2>1, StepResume DEF AsyncInv
<1> QED BY <1>1, <1>2, PTL DEF MCSpec

\* A flow resumed from the image of one moment loses no prompt and trains on none
\* twice, stays under its cap, generates by weights that are new enough, and
\* whatever it resumed from gives no source up that has prompts.
THEOREM AsyncExact == MCSpec => []AsyncResumes
<1>1. AsyncInv => AsyncResumes
  BY ResumeFacts DEF AsyncInv, AsyncResumes
<1> QED BY <1>1, AsyncInvariant, PTL

\* Its threads wait for each other in a circle only after a restart, before the
\* first deployment.
THEOREM AsyncWedges == MCSpec => []WedgesOnlyRestored
<1>1. AsyncInv => WedgesOnlyRestored
  BY ResumeFacts DEF AsyncInv, WedgesOnlyRestored
<1> QED BY <1>1, AsyncInvariant, PTL

-----------------------------------------------------------------------------
(* Two instances of SimpleFlowResume are the same.                         *)

\* The assumption on the constants.
LEMMA SimpleAssumed == SimpleProofs!SimpleFlowAssumption
BY RestartsAssumption DEF Simple!SimpleFlowAssumption, SimpleProofs!SimpleFlowAssumption

\* The initial states.
LEMMA SameSimpleInit ==
  Simple!ResumeInit => SimpleProofs!ResumeInit
BY DEF Simple!ResumeInit, Simple!Init, Simple!FirstSched, Simple!NoItem, Simple!EmptyQueue,
       Simple!FreshCkpt, SimpleProofs!ResumeInit, SimpleProofs!Init,
       SimpleProofs!FirstSched, SimpleProofs!NoItem, SimpleProofs!EmptyQueue,
       SimpleProofs!FreshCkpt

\* The control worker.
LEMMA SameControl ==
  Simple!Control => SimpleProofs!Control
BY DEF Simple!Control, Simple!CtlOpen, Simple!CtlPop, Simple!CtlPut, Simple!CtlExhausted,
       Simple!CtlClose, Simple!CtlAdvance, Simple!MayOpen, Simple!Put, Simple!Need,
       Simple!Prompt, Simple!Barrier, Simple!NoItem, Simple!verVars,
       Simple!trainVars, SimpleProofs!Control, SimpleProofs!CtlOpen,
       SimpleProofs!CtlPop, SimpleProofs!CtlPut, SimpleProofs!CtlExhausted,
       SimpleProofs!CtlClose, SimpleProofs!CtlAdvance, SimpleProofs!MayOpen,
       SimpleProofs!Put, SimpleProofs!Need, SimpleProofs!Prompt,
       SimpleProofs!Barrier, SimpleProofs!NoItem, SimpleProofs!verVars,
       SimpleProofs!trainVars

\* Acks.
LEMMA SameAck ==
  \A q, x : Simple!Ack(q, x) = SimpleProofs!Ack(q, x)
BY DEF Simple!Ack, Simple!Without, Simple!Contains, Simple!RemoveAt, SimpleProofs!Ack,
       SimpleProofs!Without, SimpleProofs!Contains, SimpleProofs!RemoveAt

\* The generation worker.
LEMMA SameGeneration ==
  Simple!Generation => SimpleProofs!Generation
BY SameAck DEF Simple!Generation, Simple!GenPop, Simple!GenPend, Simple!GenNeed, Simple!GenSubmit,
       Simple!GenBarrier, Simple!HasVersion, Simple!Drained, Simple!QLen,
       Simple!Pop, Simple!Peek, Simple!Pend, Simple!Put, Simple!NoItem,
       Simple!ctlVars, Simple!verVars, Simple!trainVars, SimpleProofs!Generation,
       SimpleProofs!GenPop, SimpleProofs!GenPend, SimpleProofs!GenNeed,
       SimpleProofs!GenSubmit, SimpleProofs!GenBarrier, SimpleProofs!HasVersion,
       SimpleProofs!Drained, SimpleProofs!QLen, SimpleProofs!Pop, SimpleProofs!Peek,
       SimpleProofs!Pend, SimpleProofs!Put, SimpleProofs!NoItem,
       SimpleProofs!ctlVars, SimpleProofs!verVars, SimpleProofs!trainVars

\* The callback thread.
LEMMA SameCallback ==
  Simple!Callback => SimpleProofs!Callback
BY SameAck DEF Simple!Callback, Simple!CbDone, Simple!CbIgnoreError, Simple!CbRaise,
       Simple!Deliver, Simple!Put, Simple!Rollout, Simple!Prompt, Simple!ctlVars,
       Simple!verVars, Simple!trainVars, SimpleProofs!Callback, SimpleProofs!CbDone,
       SimpleProofs!CbIgnoreError, SimpleProofs!CbRaise, SimpleProofs!Deliver,
       SimpleProofs!Put, SimpleProofs!Rollout, SimpleProofs!Prompt,
       SimpleProofs!ctlVars, SimpleProofs!verVars, SimpleProofs!trainVars

\* The trainer.
LEMMA SameCollecting ==
  Simple!Collecting \/ Simple!TrainNoSave => SimpleProofs!Collecting \/ SimpleProofs!TrainNoSave
BY DEF Simple!Collecting, Simple!TrainRequest, Simple!TrainDeploy, Simple!TrainSynced,
       Simple!TrainCollect, Simple!TrainStep, Simple!TrainNoSave, Simple!QLen,
       Simple!Get, Simple!Pop, Simple!Peek, Simple!Pend, Simple!ctlVars,
       Simple!verVars, SimpleProofs!Collecting, SimpleProofs!TrainRequest,
       SimpleProofs!TrainDeploy, SimpleProofs!TrainSynced,
       SimpleProofs!TrainCollect, SimpleProofs!TrainStep, SimpleProofs!TrainNoSave,
       SimpleProofs!QLen, SimpleProofs!Get, SimpleProofs!Pop, SimpleProofs!Peek,
       SimpleProofs!Pend, SimpleProofs!ctlVars, SimpleProofs!verVars

\* Checkpoints.
LEMMA SameCheckpoints ==
  Simple!SaveBegin \/ Simple!Snapshot \/ Simple!DumpDone
    => SimpleProofs!SaveBegin \/ SimpleProofs!Snapshot \/ SimpleProofs!DumpDone
BY DEF Simple!SaveBegin, Simple!Snapshot, Simple!SnapSource, Simple!SnapGenData,
       Simple!SnapGenPending, Simple!SnapTrain, Simple!SnapMeta, Simple!DumpDone,
       Simple!Read, Simple!StateDict, Simple!WeightDumped, Simple!Settled,
       Simple!FreshCkpt, Simple!FirstSched, Simple!vars, Simple!ctlVars,
       Simple!verVars, Simple!trainVars, SimpleProofs!SaveBegin,
       SimpleProofs!Snapshot, SimpleProofs!SnapSource, SimpleProofs!SnapGenData,
       SimpleProofs!SnapGenPending, SimpleProofs!SnapTrain, SimpleProofs!SnapMeta,
       SimpleProofs!DumpDone, SimpleProofs!Read, SimpleProofs!StateDict,
       SimpleProofs!WeightDumped, SimpleProofs!Settled, SimpleProofs!FreshCkpt,
       SimpleProofs!FirstSched, SimpleProofs!vars, SimpleProofs!ctlVars,
       SimpleProofs!verVars, SimpleProofs!trainVars

\* A crash, and the end.
LEMMA SameRestart ==
  Simple!Restart \/ Simple!Done => SimpleProofs!Restart \/ SimpleProofs!Done
BY DEF Simple!Restart, Simple!ResumedInfer, Simple!Done, Simple!Finished, Simple!LoadState,
       Simple!StateDict, Simple!EmptyQueue, Simple!NoItem, Simple!FreshCkpt,
       Simple!FirstSched, Simple!ckptVars, Simple!vars, Simple!ctlVars,
       Simple!verVars, Simple!trainVars, SimpleProofs!Restart,
       SimpleProofs!ResumedInfer, SimpleProofs!Done, SimpleProofs!Finished,
       SimpleProofs!LoadState, SimpleProofs!StateDict, SimpleProofs!EmptyQueue,
       SimpleProofs!NoItem, SimpleProofs!FreshCkpt, SimpleProofs!FirstSched,
       SimpleProofs!ckptVars, SimpleProofs!vars, SimpleProofs!ctlVars,
       SimpleProofs!verVars, SimpleProofs!trainVars

\* All steps.
LEMMA SameResume ==
  [Simple!ResumeNext]_(Simple!resumeVars)
    => [SimpleProofs!ResumeNext]_(SimpleProofs!resumeVars)
BY SameControl, SameGeneration, SameCallback, SameCollecting, SameCheckpoints, SameRestart DEF Simple!ResumeNext, Simple!Background, Simple!TrainerStep, Simple!Disturb,
       Simple!resumeVars, Simple!ckptVars, Simple!vars, Simple!ctlVars,
       Simple!verVars, Simple!trainVars, SimpleProofs!ResumeNext,
       SimpleProofs!Background, SimpleProofs!TrainerStep, SimpleProofs!Disturb,
       SimpleProofs!resumeVars, SimpleProofs!ckptVars, SimpleProofs!vars,
       SimpleProofs!ctlVars, SimpleProofs!verVars, SimpleProofs!trainVars

-----------------------------------------------------------------------------
(* The theorems of the other two strategies.                               *)

\* What SimpleFlowProofs finds of a resumed flow, when it is the one explored.
SimpleInv == kind = "simple" => SimpleProofs!ResumeExactInv

\* It holds in every behaviour.
LEMMA SimpleInvariant == MCSpec => []SimpleInv
<1>1. MCInit => SimpleInv
  BY SimpleAssumed, SameSimpleInit, SimpleProofs!InitResumeExact DEF MCInit, SimpleInv
<1>2. SimpleInv /\ [MCNext]_<<kind, resumeVars, simpleOnly, fileVars, contentVars, servingVars>>
        => SimpleInv'
  <2>1. [MCNext]_<<kind, resumeVars, simpleOnly, fileVars, contentVars, servingVars>> =>
          /\ UNCHANGED kind
          /\ kind = "simple" => [Simple!ResumeNext]_(Simple!resumeVars)
    BY DEF MCNext, resumeVars, ckptVars, vars, verVars, ctlVars, genVars, trainVars,
           simpleOnly, Simple!resumeVars, Simple!vars,
           Simple!ctlVars, Simple!verVars, Simple!trainVars, Simple!ckptVars
  <2> QED BY SimpleAssumed, <2>1, SameResume, SimpleProofs!StepResumeExact DEF SimpleInv
<1> QED BY <1>1, <1>2, PTL DEF MCSpec

\* Rollouts restored from a checkpoint that is the image of one moment, or
\* regenerated after it, are as fresh as those of a run without a crash: what a
\* checkpoint replays has each prompt behind the gate of its block.
THEOREM SimpleFresh == MCSpec => []ResumeFresh
<1>1. SimpleProofs!ResumeFresh => Simple!ResumeFresh
  BY DEF SimpleProofs!ResumeFresh, SimpleProofs!FreshRollouts, SimpleProofs!GatedStream,
         SimpleProofs!Replayed, SimpleProofs!BlockOf, SimpleProofs!FirstSched,
         SimpleProofs!Need, SimpleProofs!Max0,
         Simple!ResumeFresh, Simple!FreshRollouts, Simple!GatedStream, Simple!Replayed,
         Simple!BlockOf, Simple!FirstSched, Simple!Need, Simple!Max0
<1>2. SimpleInv => ResumeFresh
  BY SimpleAssumed, <1>1, SimpleProofs!ResumeFacts
     DEF SimpleInv, SimpleProofs!ResumeExactInv, ResumeFresh
<1> QED BY <1>2, SimpleInvariant, PTL

\* Restarted from the image of one moment, the job loses no prompt and trains on
\* none twice, counting the iterations that survive in the restored weights, and
\* its batches stay the blocks of the source, whole and in order.
THEOREM SimpleExact == MCSpec => []SimpleResumes
<1>1. SimpleProofs!ResumeExactlyOnce => Simple!ResumeExactlyOnce
  BY DEF SimpleProofs!ResumeExactlyOnce, SimpleProofs!ExactlyOnce, SimpleProofs!Copies,
         SimpleProofs!Trained, SimpleProofs!Count, SimpleProofs!IsPrompt,
         SimpleProofs!Prompt, SimpleProofs!Cardinality,
         Simple!ResumeExactlyOnce, Simple!ExactlyOnce, Simple!Copies, Simple!Trained,
         Simple!Count, Simple!IsPrompt, Simple!Prompt, Simple!Cardinality
<1>2. SimpleProofs!ResumeBatches => Simple!ResumeBatches
  BY DEF SimpleProofs!ResumeBatches, SimpleProofs!PromptIds, SimpleProofs!IsPrompt,
         Simple!ResumeBatches, Simple!PromptIds, Simple!IsPrompt
<1>3. SimpleInv => SimpleResumes
  BY SimpleAssumed, <1>1, <1>2, SimpleProofs!ResumeExactFacts DEF SimpleInv, SimpleResumes
<1> QED BY <1>3, SimpleInvariant, PTL

-----------------------------------------------------------------------------
(* The servers of the trained model.                                       *)

\* What the module of the servers counts.
LEMMA SameCount ==
  /\ Serving!Cardinality(Replicas) = Cardinality(Replicas)
  /\ Serving!IsFiniteSet(Replicas) <=> IsFiniteSet(Replicas)
BY DEF Serving!Cardinality, Serving!IsFiniteSet, Cardinality, IsFiniteSet

\* A replica, by its controller and its server.
Pcs == {"health", "publish", "register", "serving", "terminate", "down"}
Servers == {"starting", "up", "ended"}
Replica == [pc : Pcs, server : Servers, version : Nat]

\* A deployment.
Deployment == [pc : {"idle", "expect", "list", "probe", "reload", "raised"},
               stage : {"none", "first", "reload", "last"}, listing : Seq(Replicas)]

\* A request.
Request == [pc : {"idle", "routed", "running"}, to : SUBSET Replicas,
            since : Nat, from : Nat]

\* The shapes of the variables.
ServingTypeOK ==
  /\ endpoints \in Seq(Replicas) /\ turn \in Nat
  /\ messages \subseteq {"register", "unregister"} \X Replicas
  /\ replica \in [Replicas -> Replica]
  /\ expected \in {0, Cardinality(Replicas)} /\ hot \in Nat /\ deployed \in Nat
  /\ client \in Deployment
  /\ reload \in [Replicas -> [pc : {"none", "rpc", "reset", "done"},
                              tries : 0..Serving!ForTimes]]
  /\ request \in [Requests -> Request]

\* No endpoint is listed twice.
OnceEach(s) == \A i, j \in DOMAIN s : s[i] = s[j] => i = j

Once == OnceEach(endpoints) /\ OnceEach(client.listing)

\* Who waits knows how many replicas there are, ...
Counts ==
  /\ client.pc \in {"list", "probe", "reload"} => expected = Cardinality(Replicas)
  /\ client.pc # "idle" => client.stage # "none"

\* ... all of them are reloaded, from this deployment's weights, ...
Reloads ==
  /\ client.pc = "reload" => /\ client.stage = "reload"
                             /\ \A r \in Replicas : reload[r].pc # "none"
  /\ \A r \in Replicas : reload[r].pc \in {"reset", "done"} => replica[r].version = hot
  /\ client.pc # "reload" => \A r \in Replicas : reload[r].pc = "none"

\* ... before the last wait, and nobody falls behind what was deployed.
Deployed ==
  /\ client.stage = "last" => \A r \in Replicas : replica[r].version = hot
  /\ \A r \in Replicas : deployed <= replica[r].version /\ replica[r].version <= hot

Served ==
  \A q \in Requests :
    /\ request[q].since <= deployed
    /\ request[q].pc = "running" => request[q].from >= request[q].since

ServingInv == ServingTypeOK /\ Once /\ Counts /\ Reloads /\ Deployed /\ Served

\* Sequences without repetition that are long enough have every element.
LEMMA Covers ==
  ASSUME NEW S, IsFiniteSet(S), NEW s \in Seq(S), OnceEach(s), Len(s) >= Cardinality(S)
  PROVE  \A x \in S : \E i \in DOMAIN s : s[i] = x
<1>1. s \in Injection(1..Len(s), S)
  BY DEF Injection, IsInjective, OnceEach
<1>2. IsFiniteSet(1..Len(s)) /\ Cardinality(1..Len(s)) = Len(s)
  BY FS_Interval
<1>3. Cardinality(S) \in Nat
  BY FS_CardinalityType
<1>4. s \in Surjection(1..Len(s), S)
  BY <1>1, <1>2, <1>3, FS_Injection
<1> QED
  BY <1>4 DEF Surjection

\* What was not in a sequence is appended to it, ...
LEMMA OnceAppended ==
  ASSUME NEW S, NEW s \in Seq(S), OnceEach(s), NEW x \in S, \A i \in DOMAIN s : s[i] # x
  PROVE  Append(s, x) \in Seq(S) /\ OnceEach(Append(s, x))
<1> DEFINE t == Append(s, x)
<1>1. t \in Seq(S) /\ DOMAIN t = 1..Len(s) + 1 /\ DOMAIN s = 1..Len(s) /\ Len(s) \in Nat
  OBVIOUS
<1>2. t[Len(s) + 1] = x /\ \A i \in 1..Len(s) : t[i] = s[i]
  OBVIOUS
<1> HIDE DEF t
<1>3. ASSUME NEW i \in 1..Len(s) + 1, NEW j \in 1..Len(s) + 1, t[i] = t[j]
      PROVE  i = j
  <2>1. CASE i \in 1..Len(s) /\ j \in 1..Len(s)
    BY <1>1, <1>2, <1>3, <2>1 DEF OnceEach
  <2>2. CASE i = Len(s) + 1
    BY <1>1, <1>2, <1>3, <2>2
  <2>3. CASE j = Len(s) + 1
    BY <1>1, <1>2, <1>3, <2>3
  <2> QED
    BY <1>1, <2>1, <2>2, <2>3
<1>4. OnceEach(t)
  BY <1>1, <1>3 DEF OnceEach
<1> QED
  BY <1>1, <1>4 DEF t

\* ... and an element is taken out of it.
LEMMA OnceRemoved ==
  ASSUME NEW S, NEW s \in Seq(S), OnceEach(s), NEW i \in DOMAIN s
  PROVE  LET t == [j \in 1..Len(s) - 1 |-> IF j < i THEN s[j] ELSE s[j + 1]]
         IN  t \in Seq(S) /\ OnceEach(t)
<1> DEFINE t == [j \in 1..Len(s) - 1 |-> IF j < i THEN s[j] ELSE s[j + 1]]
<1>1. DOMAIN s = 1..Len(s) /\ Len(s) \in Nat \ {0} /\ i \in 1..Len(s)
  OBVIOUS
<1>2. \A j \in 1..Len(s) - 1 :
        /\ j \in 1..Len(s) /\ j + 1 \in 1..Len(s)
        /\ (j < i /\ t[j] = s[j]) \/ (j >= i /\ t[j] = s[j + 1])
  BY <1>1
<1>3. \A j \in 1..Len(s) : s[j] \in S
  OBVIOUS
<1>4. t \in [1..Len(s) - 1 -> S]
  <2>1. \A j \in 1..Len(s) - 1 : t[j] \in S
    BY <1>2, <1>3
  <2> QED
    BY <2>1
<1>5. t \in Seq(S) /\ DOMAIN t = 1..Len(s) - 1
  BY <1>1, <1>4
<1> HIDE DEF t
<1>6. ASSUME NEW j \in 1..Len(s) - 1, NEW k \in 1..Len(s) - 1, t[j] = t[k]
      PROVE  j = k
  <2>1. PICK a \in 1..Len(s) : t[j] = s[a] /\ ((j < i /\ a = j) \/ (j >= i /\ a = j + 1))
    BY <1>2
  <2>2. PICK b \in 1..Len(s) : t[k] = s[b] /\ ((k < i /\ b = k) \/ (k >= i /\ b = k + 1))
    BY <1>2
  <2>3. a = b
    BY <1>1, <1>6, <2>1, <2>2 DEF OnceEach
  <2> QED
    BY <1>1, <2>1, <2>2, <2>3
<1>7. OnceEach(t)
  BY <1>5, <1>6 DEF OnceEach
<1> QED
  BY <1>5, <1>7 DEF t

\* register() and unregister() keep a list of replicas without repetition.
LEMMA RouterLists ==
  ASSUME NEW r \in Replicas, ServingTypeOK, Once,
         Serving!RouterRegister(r) \/ Serving!RouterUnregister(r)
  PROVE  endpoints' \in Seq(Replicas) /\ OnceEach(endpoints')
<1>1. CASE ~Serving!Listed(r) /\ endpoints' = Append(endpoints, r)
  BY <1>1, OnceAppended DEF Serving!Listed, ServingTypeOK, Once
<1>2. CASE Serving!Listed(r) /\ Serving!RouterUnregister(r)
  <2>1. PICK i \in DOMAIN endpoints :
          endpoints' = [j \in 1..Len(endpoints) - 1 |->
                          IF j < i THEN endpoints[j] ELSE endpoints[j + 1]]
    BY <1>2 DEF Serving!Listed, Serving!RouterUnregister
  <2>2. endpoints \in Seq(Replicas) /\ OnceEach(endpoints)
    BY DEF ServingTypeOK, Once
  <2> QED
    BY <2>1, <2>2, OnceRemoved
<1>3. CASE UNCHANGED endpoints
  BY <1>3 DEF ServingTypeOK, Once
<1> QED
  BY <1>1, <1>2, <1>3 DEF Serving!RouterRegister, Serving!RouterUnregister

\* The servers start with nothing deployed.
LEMMA ServingInit == Serving!Init => ServingInv
<1> SUFFICES ASSUME Serving!Init PROVE ServingInv
  OBVIOUS
<1>1. ServingTypeOK
  BY DEF Serving!Init, ServingTypeOK, Serving!NoReload, Serving!ForTimes, Replica, Pcs,
         Servers, Deployment, Request
<1>2. Once
  BY DEF Serving!Init, Once, OnceEach
<1>3. Counts /\ Reloads /\ Deployed /\ Served
  BY DEF Serving!Init, Counts, Reloads, Deployed, Served, Serving!NoReload
<1> QED
  BY <1>1, <1>2, <1>3 DEF ServingInv

\* The router's own steps change what is listed, and nothing else that matters.
LEMMA RouterStep ==
  ServingInv /\ Serving!Router => ServingInv'
<1> SUFFICES ASSUME ServingInv, Serving!Router PROVE ServingInv'
  OBVIOUS
<1> USE DEF ServingInv
<1>1. /\ UNCHANGED <<turn, replica, expected, Serving!deployVars, request>>
      /\ messages' \subseteq messages
  BY DEF Serving!Router, Serving!MessageLost, Serving!RouterRegister,
         Serving!RouterUnregister, Serving!routerVars
<1>2. endpoints' \in Seq(Replicas) /\ OnceEach(endpoints')
  BY RouterLists DEF Serving!Router, Serving!MessageLost, Serving!routerVars,
                     ServingTypeOK, Once
<1>3. ServingTypeOK' /\ Once'
  BY <1>1, <1>2 DEF ServingTypeOK, Once, OnceEach, Serving!deployVars
<1>4. Counts' /\ Reloads' /\ Deployed' /\ Served'
  BY <1>1 DEF Counts, Reloads, Deployed, Served, Serving!deployVars
<1> QED
  BY <1>3, <1>4

\* A controller and its server change no weights.
LEMMA ControllerStep ==
  ASSUME ServingInv, NEW r \in Replicas, Serving!Controller(r)
  PROVE  ServingInv'
<1> USE DEF ServingInv
<1>1. /\ UNCHANGED <<Serving!routerVars, Serving!deployVars, request>>
      /\ expected' \in {expected, Cardinality(Replicas)}
  BY SameCount DEF Serving!Controller, Serving!ServerUp, Serving!ServerEnds,
                   Serving!Healthy, Serving!Publish, Serving!Register, Serving!Shutdown,
                   Serving!Terminate
<1>2. messages' \subseteq {"register", "unregister"} \X Replicas
  BY DEF Serving!Controller, Serving!ServerUp, Serving!ServerEnds, Serving!Healthy,
         Serving!Publish, Serving!Register, Serving!Shutdown, Serving!Terminate,
         ServingTypeOK
<1>3. PICK v \in Replica :
        v.version = replica[r].version /\ replica' = [replica EXCEPT ![r] = v]
  <2>1. replica[r] \in Replica
    BY DEF ServingTypeOK
  <2>3. \A pc \in Pcs : [replica[r] EXCEPT !.pc = pc] \in Replica
                         /\ [replica[r] EXCEPT !.pc = pc].version = replica[r].version
    BY <2>1 DEF Replica
  <2>4. \A server \in Servers :
          /\ [replica[r] EXCEPT !.server = server] \in Replica
          /\ [replica[r] EXCEPT !.server = server].version = replica[r].version
    BY <2>1 DEF Replica
  <2>5. CASE Serving!ServerUp(r) \/ Serving!ServerEnds(r)
    <3>1. PICK server \in Servers : replica' = [replica EXCEPT ![r].server = server]
      BY <2>5 DEF Serving!ServerUp, Serving!ServerEnds, Servers
    <3> QED
      BY <2>4, <3>1
  <2>6. CASE Serving!Healthy(r) \/ Serving!Publish(r) \/ Serving!Register(r) \/ Serving!Shutdown(r)
    <3>1. PICK pc \in Pcs : replica' = [replica EXCEPT ![r].pc = pc]
      BY <2>6 DEF Serving!Healthy, Serving!Publish, Serving!Register, Serving!Shutdown, Pcs
    <3> QED
      BY <2>3, <3>1
  <2>7. CASE Serving!Terminate(r)
    <3> DEFINE v == [[replica[r] EXCEPT !.pc = "down"] EXCEPT !.server = "ended"]
    <3>1. v \in Replica /\ v.version = replica[r].version
      BY <2>1 DEF Replica, Pcs, Servers
    <3>2. replica' = [replica EXCEPT ![r] = v]
      BY <2>1, <2>7 DEF Serving!Terminate, ServingTypeOK
    <3> QED
      BY <3>1, <3>2
  <2> QED
    BY <2>5, <2>6, <2>7 DEF Serving!Controller
<1>4. /\ \A o \in Replicas : replica'[o].version = replica[o].version
      /\ replica' \in [Replicas -> Replica]
  BY <1>3 DEF ServingTypeOK
<1>5. ServingTypeOK'
  BY <1>1, <1>2, <1>4 DEF ServingTypeOK, Serving!routerVars, Serving!deployVars
<1>6. Once' /\ Served'
  BY <1>1 DEF Once, OnceEach, Served, Serving!routerVars, Serving!deployVars
<1>7. Counts' /\ Reloads' /\ Deployed'
  BY <1>1, <1>4 DEF Counts, Reloads, Deployed, Serving!deployVars
<1> QED
  BY <1>5, <1>6, <1>7

\* Choosing an endpoint only moves the turn.
LEMMA Selected ==
  ASSUME ServingTypeOK, NEW r \in Replicas, Serving!SelectEndpoint(r)
  PROVE  turn' \in Nat /\ UNCHANGED endpoints
<1>1. Len(endpoints) \in Nat \ {0}
  BY DEF ServingTypeOK, Serving!SelectEndpoint
<1> QED
  BY <1>1 DEF ServingTypeOK, Serving!SelectEndpoint

\* The steps of a deployment that wait.
LEMMA WaitingStep ==
  ASSUME ServingInv,
         \/ Serving!Dump \/ Serving!Expect \/ Serving!GetInfo
         \/ Serving!NotAlive \/ Serving!TimeOut
  PROVE  ServingInv'
<1> USE DEF ServingInv
<1>1. CASE Serving!Dump
  <2>0. client' \in Deployment
    BY <1>1 DEF Serving!Dump, Serving!Goes, ServingTypeOK, Deployment
  <2>1. ServingTypeOK'
    BY <1>1, <2>0 DEF Serving!Dump, ServingTypeOK, Serving!routerVars
  <2>2. Once' /\ Counts' /\ Served'
    BY <1>1 DEF Serving!Dump, Serving!Goes, Once, OnceEach, Counts, Served,
                ServingTypeOK, Deployment, Serving!routerVars
  <2>3. Reloads'
    BY <1>1 DEF Serving!Dump, Serving!Goes, Reloads, ServingTypeOK, Deployment,
                Serving!routerVars
  <2>4. \A r \in Replicas : deployed <= replica[r].version /\ replica[r].version <= hot + 1
    BY DEF Deployed, ServingTypeOK, Replica
  <2>5. Deployed'
    BY <1>1, <2>4 DEF Serving!Dump, Serving!Goes, Deployed, ServingTypeOK, Deployment
  <2> QED
    BY <2>1, <2>2, <2>3, <2>5
<1>2. CASE Serving!Expect \/ Serving!GetInfo \/ Serving!NotAlive \/ Serving!TimeOut
  <2>1. UNCHANGED <<messages, replica, expected, hot, reload, deployed, request, endpoints>>
    BY <1>2, Selected DEF Serving!Expect, Serving!GetInfo, Serving!NotAlive,
                          Serving!TimeOut, Serving!routerVars
  <2>2. turn' \in Nat
    BY <1>2, Selected DEF Serving!Expect, Serving!GetInfo, Serving!NotAlive,
                          Serving!TimeOut, Serving!routerVars, ServingTypeOK
  <2>3. PICK pc \in {"list", "probe", "raised"}, l \in {client.listing, endpoints, <<>>} :
          client' = [pc |-> pc, stage |-> client.stage, listing |-> l]
    BY <1>2 DEF Serving!Expect, Serving!GetInfo, Serving!NotAlive, Serving!TimeOut,
                Serving!Goes, ServingTypeOK, Deployment
  <2>4. /\ client.pc \in {"expect", "list", "probe"}
        /\ pc # "raised" => expected = Cardinality(Replicas)
    BY <1>2, <2>3 DEF Serving!Expect, Serving!GetInfo, Serving!NotAlive, Serving!TimeOut,
                      Serving!Goes, ServingTypeOK, Deployment, Counts
  <2>5. client' \in Deployment
    <3>1. client.stage \in {"none", "first", "reload", "last"} /\ l \in Seq(Replicas)
      <4>1. {client.listing, endpoints, <<>>} \subseteq Seq(Replicas)
        BY DEF ServingTypeOK, Deployment
      <4> QED
        BY <2>3, <4>1 DEF ServingTypeOK, Deployment
    <3> QED
      BY <2>3, <3>1 DEF Deployment
  <2>8. ServingTypeOK'
    BY <2>1, <2>2, <2>5 DEF ServingTypeOK
  <2>6. Once' /\ Counts' /\ Served'
    BY <2>1, <2>3, <2>4 DEF Once, OnceEach, Counts, Served, ServingTypeOK, Deployment
  <2>7. Reloads' /\ Deployed'
    BY <2>1, <2>3, <2>4 DEF Reloads, Deployed, ServingTypeOK, Deployment
  <2> QED
    BY <2>6, <2>7, <2>8
<1> QED
  BY <1>1, <1>2

\* A wait that ends: the next stage begins, the reloads with all replicas, or the
\* deployment is complete.
LEMMA AliveStep ==
  ASSUME ServingInv, Serving!ServerAlive
  PROVE  ServingInv'
<1> USE DEF ServingInv
<1>1. PICK s \in Replicas : Serving!SelectEndpoint(s)
  BY DEF Serving!ServerAlive
<1>2. turn' \in Nat /\ UNCHANGED <<endpoints, messages, replica, expected, hot, request>>
  BY <1>1, Selected DEF Serving!ServerAlive
<1>3. /\ client.pc = "probe" /\ expected = Cardinality(Replicas)
      /\ \A r \in Replicas : reload[r].pc = "none"
  BY DEF Serving!ServerAlive, Counts, Reloads
<1>4. CASE ~Serving!AllReady(Len(client.listing)) \/ client.stage = "first"
  <2>1. UNCHANGED <<reload, deployed>>
    BY <1>4 DEF Serving!ServerAlive, Serving!Proceed
  <2>2. PICK pc \in {"list", "expect"}, stage \in {client.stage, "reload"} :
          client' = [pc |-> pc, stage |-> stage, listing |-> <<>>]
    BY <1>4 DEF Serving!ServerAlive, Serving!Proceed, Serving!Goes
  <2>3. client' \in Deployment /\ client'.pc \in {"list", "expect"}
        /\ OnceEach(client'.listing) /\ client'.stage \in {client.stage, "reload"}
    BY <2>2 DEF ServingTypeOK, Deployment, OnceEach
  <2>4. ServingTypeOK'
    BY <1>2, <2>1, <2>3 DEF ServingTypeOK
  <2>5. Once' /\ Counts' /\ Served'
    BY <1>2, <1>3, <2>1, <2>3 DEF Once, OnceEach, Counts, Served
  <2>6. Reloads' /\ Deployed'
    BY <1>2, <1>3, <2>1, <2>3 DEF Reloads, Deployed
  <2> QED
    BY <2>4, <2>5, <2>6
<1>5. CASE Serving!AllReady(Len(client.listing)) /\ client.stage = "reload"
  <2>1. client' = [pc |-> "reload", stage |-> "reload", listing |-> <<>>] /\ UNCHANGED deployed
    BY <1>5 DEF Serving!ServerAlive, Serving!Proceed, Serving!Goes
  <2>2. \A r \in Replicas : \E i \in DOMAIN client.listing : client.listing[i] = r
    <3>1. client.listing \in Seq(Replicas) /\ OnceEach(client.listing)
      BY DEF ServingTypeOK, Deployment, Once
    <3> QED
      BY <1>3, <1>5, <3>1, Covers, SameCount, RestartsAssumption
      DEF Serving!AllReady, Serving!ServingAssumption
  <2>3. reload' = [r \in Replicas |->
              IF \E i \in DOMAIN client.listing : client.listing[i] = r
              THEN [pc |-> "rpc", tries |-> 1] ELSE Serving!NoReload[r]]
    BY <1>5 DEF Serving!ServerAlive, Serving!Proceed
  <2>4. reload' = [r \in Replicas |-> [pc |-> "rpc", tries |-> 1]]
    BY <2>2, <2>3
  <2>5. client' \in Deployment /\ client'.pc = "reload" /\ client'.stage = "reload"
        /\ OnceEach(client'.listing)
    BY <2>1 DEF ServingTypeOK, Deployment, OnceEach
  <2>6. ServingTypeOK'
    BY <1>2, <2>1, <2>4, <2>5 DEF ServingTypeOK, Serving!ForTimes
  <2>7. Once' /\ Counts' /\ Served'
    BY <1>2, <1>3, <2>1, <2>5 DEF Once, OnceEach, Counts, Served
  <2>8. Reloads' /\ Deployed'
    BY <1>2, <2>1, <2>4, <2>5 DEF Reloads, Deployed
  <2> QED
    BY <2>6, <2>7, <2>8
<1>6. CASE Serving!AllReady(Len(client.listing)) /\ client.stage = "last"
  <2>1. /\ client' = [pc |-> "idle", stage |-> "none", listing |-> <<>>]
        /\ deployed' = hot /\ UNCHANGED reload
    BY <1>6 DEF Serving!ServerAlive, Serving!Proceed, Serving!Goes
  <2>2. client' \in Deployment /\ client'.pc = "idle" /\ client'.stage = "none"
        /\ OnceEach(client'.listing)
    BY <2>1 DEF ServingTypeOK, Deployment, OnceEach
  <2>3. \A r \in Replicas : replica[r].version = hot
    BY <1>6 DEF Deployed
  <2>4. deployed <= hot
    BY <1>1, <2>3 DEF Deployed
  <2>5. ServingTypeOK'
    BY <1>2, <2>1, <2>2 DEF ServingTypeOK
  <2>6. Once' /\ Counts' /\ Reloads'
    BY <1>2, <1>3, <2>1, <2>2 DEF Once, OnceEach, Counts, Reloads
  <2>7. Deployed'
    BY <1>2, <2>1, <2>2, <2>3 DEF Deployed, ServingTypeOK
  <2>8. Served'
    <3>1. \A q \in Requests : request[q].since \in Nat
      BY DEF ServingTypeOK, Request
    <3> QED
      BY <1>2, <2>1, <2>4, <3>1 DEF Served, ServingTypeOK
  <2> QED
    BY <2>5, <2>6, <2>7, <2>8
<1>7. client.stage \in {"first", "reload", "last"}
  BY <1>3 DEF ServingTypeOK, Deployment, Counts
<1> QED
  BY <1>4, <1>5, <1>6, <1>7

\* The calls to one replica, which has the weights once the first is answered.
LEMMA ReloadStep ==
  ASSUME ServingInv, NEW r \in Replicas,
         Serving!ReloadWeights(r) \/ Serving!ResetPrefixCache(r) \/ Serving!Retry(r)
  PROVE  ServingInv'
<1> USE DEF ServingInv
<1>1. /\ client.pc = "reload" /\ client.stage = "reload"
      /\ UNCHANGED <<Serving!routerVars, messages, expected, hot, deployed, request>>
  BY DEF Serving!ReloadWeights, Serving!ResetPrefixCache, Serving!Retry,
         Serving!Reloading, Reloads
<1>2. replica' \in {replica, [replica EXCEPT ![r].version = hot]}
  BY DEF Serving!ReloadWeights, Serving!ResetPrefixCache, Serving!Retry, Serving!Loads
<1>3. \A o \in Replicas : replica'[o].version \in {replica[o].version, hot}
  <2>1. replica \in [Replicas -> Replica]
    BY DEF ServingTypeOK
  <2> QED
    BY <1>2, <2>1 DEF Replica
<1>4. replica' \in [Replicas -> Replica]
  BY <1>2 DEF ServingTypeOK, Replica
<1>5. client' \in {client, [pc |-> "raised", stage |-> client.stage, listing |-> <<>>]}
  BY DEF Serving!ReloadWeights, Serving!ResetPrefixCache, Serving!Retry, Serving!Goes
<1>6. /\ client' \in Deployment /\ OnceEach(client'.listing)
      /\ client'.pc \in {"reload", "raised"} /\ client'.stage = "reload"
  <2>1. CASE client' = client
    BY <1>1, <2>1 DEF ServingTypeOK, Once
  <2>2. CASE client' = [pc |-> "raised", stage |-> "reload", listing |-> <<>>]
    BY <2>2 DEF Deployment, OnceEach
  <2> QED
    BY <1>1, <1>5, <2>1, <2>2
<1>7. /\ reload' \in [Replicas -> [pc : {"none", "rpc", "reset", "done"},
                                    tries : 0..Serving!ForTimes]]
      /\ \A o \in Replicas : reload'[o].pc = "none" <=> client'.pc = "raised"
      /\ \A o \in Replicas : reload'[o].pc \in {"reset", "done"} => replica'[o].version = hot
  <2>0. /\ client.pc = "reload" /\ \A o \in Replicas : reload[o].pc # "none"
        /\ \A o \in Replicas : reload[o].pc \in {"reset", "done"} => replica'[o].version = hot
    BY <1>1, <1>3 DEF Reloads
  <2>1. CASE Serving!ReloadWeights(r)
    <3>1. replica'[r].version = hot
      BY <2>1 DEF Serving!ReloadWeights, Serving!Loads, ServingTypeOK
    <3>2. reload' = [reload EXCEPT ![r] = [pc |-> "reset", tries |-> 1]] /\ UNCHANGED client
      BY <2>1 DEF Serving!ReloadWeights
    <3> QED
      BY <2>0, <3>1, <3>2 DEF ServingTypeOK, Serving!ForTimes
  <2>2. CASE Serving!ResetPrefixCache(r)
    <3>1. /\ reload' = [reload EXCEPT ![r] = [pc |-> "done", tries |-> 0]]
          /\ UNCHANGED client /\ reload[r].pc = "reset"
      BY <2>2 DEF Serving!ResetPrefixCache, Serving!Reloading
    <3> QED
      BY <2>0, <3>1 DEF ServingTypeOK, Serving!ForTimes
  <2>3. CASE Serving!Retry(r)
    <3>1. CASE client'.pc = "raised" /\ reload' = Serving!NoReload
      BY <3>1 DEF Serving!NoReload, Serving!ForTimes
    <3>2. CASE /\ reload[r].tries < Serving!ForTimes
               /\ reload' = [reload EXCEPT ![r].tries = @ + 1] /\ UNCHANGED client
      <4> DEFINE e == [reload[r] EXCEPT !.tries = @ + 1]
      <4>1. reload[r] \in [pc : {"none", "rpc", "reset", "done"}, tries : 0..Serving!ForTimes]
        BY DEF ServingTypeOK
      <4>2. /\ e \in [pc : {"none", "rpc", "reset", "done"}, tries : 0..Serving!ForTimes]
            /\ e.pc = reload[r].pc
        BY <3>2, <4>1 DEF Serving!ForTimes
      <4>3. reload' = [reload EXCEPT ![r] = e]
        BY <3>2
      <4> QED
        BY <2>0, <3>2, <4>2, <4>3 DEF ServingTypeOK
    <3> QED
      BY <2>3, <3>1, <3>2 DEF Serving!Retry, Serving!Goes
  <2> QED
    BY <2>1, <2>2, <2>3
<1>8. ServingTypeOK'
  BY <1>1, <1>4, <1>6, <1>7 DEF ServingTypeOK, Serving!routerVars
<1>9. Once' /\ Counts' /\ Served'
  BY <1>1, <1>6 DEF Once, OnceEach, Counts, Served, Serving!routerVars
<1>10. Reloads'
  <2>1. \A o \in Replicas : reload'[o].pc \in {"reset", "done"} => replica'[o].version = hot'
    BY <1>1, <1>7
  <2> QED
    BY <1>6, <1>7, <2>1 DEF Reloads
<1>11. Deployed'
  <2>1. \A o \in Replicas : deployed <= replica[o].version /\ replica[o].version <= hot
    BY DEF Deployed
  <2>2. \A o \in Replicas : deployed <= hot
    BY <2>1 DEF ServingTypeOK, Replica
  <2>3. hot <= hot
    BY DEF ServingTypeOK
  <2> QED
    BY <1>1, <1>3, <1>6, <2>1, <2>2, <2>3 DEF Deployed
<1> QED
  BY <1>8, <1>9, <1>10, <1>11

\* gather() returns when every replica has the weights.
LEMMA GatheredStep ==
  ASSUME ServingInv, Serving!Gathered
  PROVE  ServingInv'
<1> USE DEF ServingInv
<1>1. \A r \in Replicas : replica[r].version = hot
  BY DEF Serving!Gathered, Reloads
<1>2. client' \in Deployment /\ client'.pc = "expect" /\ client'.stage = "last"
      /\ OnceEach(client'.listing)
  BY DEF Serving!Gathered, Serving!Goes, ServingTypeOK, Deployment, OnceEach
<1>3. reload' = Serving!NoReload
      /\ UNCHANGED <<Serving!routerVars, messages, replica, expected, hot, deployed, request>>
  BY DEF Serving!Gathered
<1>4. ServingTypeOK'
  BY <1>2, <1>3 DEF ServingTypeOK, Serving!NoReload, Serving!ForTimes, Serving!routerVars
<1>5. Once' /\ Counts' /\ Served'
  BY <1>2, <1>3 DEF Once, OnceEach, Counts, Served, Serving!routerVars
<1>6. Reloads' /\ Deployed'
  BY <1>1, <1>2, <1>3 DEF Reloads, Deployed, Serving!NoReload
<1> QED
  BY <1>4, <1>5, <1>6

\* A request runs with weights that every replica has at least.
LEMMA RequestStep ==
  ASSUME ServingInv, NEW q \in Requests,
         Serving!Route(q) \/ Serving!Start(q) \/ Serving!Return(q)
  PROVE  ServingInv'
<1> USE DEF ServingInv
<1>1. UNCHANGED <<endpoints, messages, replica, expected, Serving!deployVars>> /\ turn' \in Nat
  BY Selected DEF Serving!Route, Serving!Start, Serving!Return, Serving!routerVars,
                  ServingTypeOK
<1>2. PICK v \in Request :
        /\ request' = [request EXCEPT ![q] = v]
        /\ v.since <= deployed
        /\ v.pc = "running" => v.from >= v.since
  <2>1. request[q] \in Request /\ request[q].since <= deployed
    BY DEF ServingTypeOK, Served
  <2>2. deployed \in Nat
    BY DEF ServingTypeOK
  <2>3. CASE Serving!Route(q)
    <3>1. PICK r \in Replicas :
            request' = [request EXCEPT ![q] =
                          [pc |-> "routed", to |-> {r}, since |-> deployed, from |-> 0]]
      BY <2>3 DEF Serving!Route
    <3> DEFINE v == [pc |-> "routed", to |-> {r}, since |-> deployed, from |-> 0]
    <3>2. v \in Request /\ v.since <= deployed /\ v.pc # "running"
      BY <2>2 DEF Request
    <3> QED
      BY <3>1, <3>2
  <2>4. CASE Serving!Start(q)
    <3>1. PICK r \in Replicas :
            request' = [request EXCEPT ![q].pc = "running", ![q].from = replica[r].version]
      BY <2>1, <2>4 DEF Serving!Start, Request
    <3> DEFINE v == [[request[q] EXCEPT !.pc = "running"] EXCEPT !.from = replica[r].version]
    <3>2. deployed <= replica[r].version /\ replica[r].version \in Nat
      BY DEF Deployed, ServingTypeOK, Replica
    <3>3. v \in Request /\ v.since = request[q].since /\ v.from = replica[r].version
      BY <2>1, <3>2 DEF Request
    <3>4. v.from >= v.since
      BY <2>1, <2>2, <3>2, <3>3 DEF Request
    <3>5. request' = [request EXCEPT ![q] = v]
      BY <3>1 DEF ServingTypeOK
    <3> QED
      BY <2>1, <3>3, <3>4, <3>5
  <2>5. CASE Serving!Return(q)
    <3> DEFINE v == [pc |-> "idle", to |-> {}, since |-> 0, from |-> 0]
    <3>1. v \in Request /\ v.since <= deployed /\ v.pc # "running"
      BY <2>2 DEF Request
    <3> QED
      BY <2>5, <3>1 DEF Serving!Return
  <2> QED
    BY <2>3, <2>4, <2>5
<1>3. ServingTypeOK'
  BY <1>1, <1>2 DEF ServingTypeOK, Serving!deployVars
<1>4. Once' /\ Counts' /\ Reloads' /\ Deployed'
  BY <1>1 DEF Once, OnceEach, Counts, Reloads, Deployed, Serving!deployVars
<1>5. Served'
  BY <1>1, <1>2 DEF Served, ServingTypeOK, Serving!deployVars
<1> QED
  BY <1>3, <1>4, <1>5

\* Every step keeps the invariant.
LEMMA ServingStep == ServingInv /\ [Serving!Next]_(Serving!vars) => ServingInv'
<1> SUFFICES ASSUME ServingInv, [Serving!Next]_(Serving!vars) PROVE ServingInv'
  OBVIOUS
<1>1. CASE UNCHANGED Serving!vars
  BY <1>1 DEF ServingInv, Serving!vars, Serving!routerVars, Serving!deployVars,
              ServingTypeOK, Once, OnceEach, Counts, Reloads,
              Deployed, Served
<1>2. CASE Serving!Client
  BY <1>2, WaitingStep, AliveStep, ReloadStep, GatheredStep DEF Serving!Client
<1> QED
  BY <1>1, <1>2, RouterStep, ControllerStep, RequestStep DEF Serving!Next

\* Seen from the servers, a behaviour of MCRestarts is one of VLLMServing.
LEMMA DeployingSpec == MCSpec => Serving!Init /\ [][Serving!Next]_(Serving!vars)
<1>1. MCInit => Serving!Init
  BY DEF MCInit
<1>2. [MCNext]_<<kind, resumeVars, simpleOnly, fileVars, contentVars, servingVars>> =>
        [Serving!Next]_(Serving!vars)
  BY DEF MCNext, servingVars, Serving!vars, Serving!routerVars, Serving!deployVars
<1> QED
  BY <1>1, <1>2, PTL DEF MCSpec

\* A request routed after a deployment is answered by its weights or newer ones,
\* however many servers there are, whichever end, register late or never, and
\* whichever calls are lost or retried: no deployment returns before the router
\* has listed every server and each has answered the call to load the weights.
THEOREM FreshRequests == MCSpec => []FreshAnswers
<1>1. ServingInv => FreshAnswers
  BY DEF ServingInv, Served, FreshAnswers, Serving!FreshAnswers
<1> QED
  BY <1>1, ServingInit, ServingStep, DeployingSpec, PTL

\* The variables of the servers, the router and the client keep their shapes.
THEOREM ServingTyped == MCSpec => []ServingTypeOK
<1>1. ServingInv => ServingTypeOK
  BY DEF ServingInv
<1> QED
  BY <1>1, ServingInit, ServingStep, DeployingSpec, PTL
=============================================================================
