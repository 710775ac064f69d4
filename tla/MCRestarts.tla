------------------------------ MODULE MCRestarts ------------------------------
(* What others find of what a job has written, on small instances.  A         *)
(* restarted job finds the flow of the fully asynchronous controller          *)
(* (FullyAsyncResume) or of the other two (SimpleFlowResume) with their       *)
(* checkpoints, and the checkpoint files of all ranks and latest_ckpt         *)
(* (Checkpointer), when writing may fail and the job is killed once; the      *)
(* servers find the trained weights in the hot path (VLLMServing).  A job has *)
(* one of the two controllers, so they share the variables that both have; an *)
(* initial state chooses what is explored.                                    *)
EXTENDS FullyAsyncResume, CheckpointPlans

CONSTANTS
  Strategies, Ranks, SaveIters, SaveInterval, Parts,
  Replicas, Requests, Deploys

VARIABLES
  kind,  \* "async", "simple", "files", "contents" or "serving"
  strategy, sched, locked, ctl,
  iter, start, run, saver, tasks, dump, files, success, tmp, marked,
  plan, mesh, groups, phase, weights, states, saved, hf, index, own, dp0,
  endpoints, turn, messages, replica, expected, hot, client, reload, deployed, request

asyncOnly == <<exhausted, hand, holder, submitted>>
simpleOnly == <<strategy, sched, locked, ctl>>
fileVars == <<iter, start, run, saver, tasks, dump, files, success, tmp, marked>>
contentVars == <<plan, mesh, groups, phase, weights, states, saved, hf, index, own, dp0>>
servingVars == <<endpoints, turn, messages, replica, expected, hot, client, reload,
                 deployed, request>>

\* Blocks of two prompts, the last one cut short by the end of the source.
Simple == INSTANCE SimpleFlowResume WITH PromptPerIter <- 2, NumPrompts <- 5

Ckpt == INSTANCE Checkpointer WITH
  TrainIters <- SaveIters, AsyncDump <- TRUE, MayFail <- TRUE

Contents == INSTANCE CheckpointContents WITH
  Plans <- CCPlans, Published <- CCPublished, NumLayers <- CCLayers, MoELayers <- CCMoELayers,
  NumExperts <- CCExperts, KVHeads <- CCHeads, HeadDim <- CCHeadDim, GateDims <- CCGates,
  Vocab <- CCVocab, state <- states, files <- saved

Serving == INSTANCE VLLMServing

ASSUME Contents!ContentsAssumption
ASSUME RestartsAssumption ==
  /\ Simple!SimpleFlowAssumption /\ Simple!ResumeAssumption
  /\ Ckpt!CheckpointerAssumption
  /\ Serving!ServingAssumption

MCInit ==
  /\ kind \in {"async", "simple", "files", "contents", "serving"}
  /\ IF kind = "simple"
     THEN /\ Simple!ResumeInit
          /\ exhausted = FALSE /\ hand = NoItem /\ holder = "none" /\ submitted = {}
     ELSE /\ ResumeInit
          /\ strategy = "none" /\ sched = 0 /\ locked = FALSE /\ ctl = "none"
  /\ Ckpt!Init /\ Serving!Init
  /\ IF kind = "contents" THEN Contents!Init
     ELSE /\ plan = "none" /\ mesh = <<>> /\ groups = <<>> /\ phase = "none" /\ weights = <<>>
          /\ states = <<>> /\ saved = <<>> /\ hf = <<>> /\ index = <<>> /\ own = <<>> /\ dp0 = <<>>

MCNext ==
  /\ UNCHANGED kind
  /\ \/ /\ kind = "async" /\ ResumeNext
        /\ UNCHANGED <<simpleOnly, fileVars, contentVars, servingVars>>
     \/ /\ kind = "simple" /\ Simple!ResumeNext
        /\ UNCHANGED <<asyncOnly, fileVars, contentVars, servingVars>>
     \/ /\ kind = "files" /\ Ckpt!Next
        /\ UNCHANGED <<resumeVars, simpleOnly, contentVars, servingVars>>
     \/ /\ kind = "contents" /\ Contents!Next
        /\ UNCHANGED <<resumeVars, simpleOnly, fileVars, servingVars>>
     \/ /\ kind = "serving" /\ Serving!Next
        /\ UNCHANGED <<resumeVars, simpleOnly, fileVars, contentVars>>

MCSpec ==
  MCInit /\ [][MCNext]_<<kind, resumeVars, simpleOnly, fileVars, contentVars, servingVars>>

RankSymmetry == Permutations(Ranks)

\* SimpleFlowResume says what it cuts off.
CleanRuns == kind = "simple" => Simple!CleanRuns
-----------------------------------------------------------------------------
(* The properties; the module of each component explains its own.          *)

\* The fully asynchronous flow resumes exactly, under its cap and by weights
\* that are new enough, and gives no source up that has prompts.
AsyncResumes == kind = "async" => AsyncResumeExact /\ NeverEndedEarly

\* The waits close to a circle only after a restart.
WedgesOnlyRestored == kind = "async" => WedgedOnlyRestored

\* No prompt of the other two strategies is lost or trained on twice, and their
\* blocks stay whole, in order, ...
SimpleResumes == kind = "simple" => Simple!ResumeExactlyOnce /\ Simple!ResumeBatches

\* ... and their rollouts as fresh as without a crash.
ResumeFresh == kind = "simple" => Simple!ResumeFresh

\* The checkpoint a restarted job finds is complete on every rank if no two runs
\* left .success files in its root directory.
OneRunComplete == Ckpt!OneRunComplete

\* Requests after a deployment are answered by its weights, on every server.
FreshAnswers == Serving!FreshAnswers

\* A restarted job has the weights that were trained, cut for its own mesh, and
\* each rank its own states; safetensors hold all of the model.
Restored == kind = "contents" => Contents!Restored
===============================================================================
