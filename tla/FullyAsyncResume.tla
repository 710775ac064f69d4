--------------------------- MODULE FullyAsyncResume ---------------------------
(***************************************************************************)
(* FullyAsyncFlow with the checkpoint the trainer takes of it and with     *)
(* crashes of the process, as SimpleFlowResume does for SimpleFlow.        *)
(* state_dict() takes no lock: the train version, source_exhausted and the *)
(* stages of the flow are read one after the other.  running_genables is   *)
(* not read but put in the state by reference, and move_to_memory() then   *)
(* iterates over it while the other threads insert and remove, which       *)
(* raises in the trainer when its size changes on the way.                 *)
(*                                                                         *)
(* clean and tainted are history variables, as in SimpleFlowResume: the    *)
(* checkpoint is the image of one moment, and a checkpoint that is not has *)
(* been restored.                                                          *)
(***************************************************************************)
EXTENDS FullyAsyncFlow

CONSTANT MaxCrashes  \* bound on the crashes of a behaviour

ASSUME ResumeAssumption == MaxCrashes \in Nat

VARIABLES
  snap,     \* the snapshot being taken: part to read next, checkpoint, size
  dumps,    \* snapshots submitted to the dumping thread, oldest first
  latest,   \* the checkpoint latest_ckpt points to
  crashes,
  tainted

ckptVars == <<snap, dumps, latest>>
resumeVars == <<vars, ckptVars, crashes, tainted>>

\* Where a start without any checkpoint begins.
FreshCkpt ==
  [train |-> -1, exhausted |-> FALSE, source |-> 1, genData |-> <<>>,
   genPending |-> <<>>, trainItems |-> <<>>, log |-> <<>>, clean |-> TRUE]

NoSnap == [part |-> "none", ckpt |-> FreshCkpt, size |-> 0]

ResumeInit ==
  /\ Init
  /\ snap = NoSnap /\ dumps = <<>> /\ latest = FreshCkpt
  /\ crashes = 0 /\ tainted = FALSE

\* A step of another thread while the snapshot is being taken.
Background ==
  /\ Control \/ Generation \/ Callback
  /\ snap' = IF snap.part \in {"none", "copy"} THEN snap
             ELSE [snap EXCEPT !.ckpt.clean = FALSE]
  /\ UNCHANGED <<dumps, latest, crashes, tainted>>

TrainerStep ==
  /\ Collecting \/ TrainNoSave
  /\ UNCHANGED <<ckptVars, crashes, tainted>>
-----------------------------------------------------------------------------
(* save_checkpoint().                                                      *)

\* join_dumping_thread() leaves room for one dump in progress; weight_dumped();
\* then the versions.
SaveBegin ==
  /\ trainer.pc = "after" /\ Len(dumps) <= 1
  /\ preTrain' = WeightDumped
  /\ trainer' = [trainer EXCEPT !.pc = "snapshot"]
  /\ snap' = [part |-> "exhausted", size |-> 0,
              ckpt |-> [FreshCkpt EXCEPT !.train = train, !.log = log,
                                         !.clean = (holder = "none")]]
  /\ UNCHANGED <<verVars, ctlVars, preGen, holder, genVars, log,
                 dumps, latest, crashes, tainted>>

Read(part, next, field, value) ==
  /\ snap.part = part
  /\ snap' = [snap EXCEPT !.part = next, !.ckpt[field] = value]
  /\ UNCHANGED <<vars, dumps, latest, crashes, tainted>>

SnapExhausted == Read("exhausted", "source", "exhausted", exhausted)

SnapSource == Read("source", "genData", "source", source)

SnapGenData == Read("genData", "genPending", "genData", preGen.data)

SnapGenPending == Read("genPending", "train", "genPending", preGen.pending)

SnapTrain == Read("train", "move", "trainItems", StateDict(preTrain.pending, preTrain.data))

\* move_to_memory() starts to iterate over running_genables ...
MoveBegin ==
  /\ snap.part = "move"
  /\ snap' = [snap EXCEPT !.part = "copy", !.size = Cardinality(running)]
  /\ UNCHANGED <<vars, dumps, latest, crashes, tainted>>

\* ... and gets to the end, if the size did not change under it or changed
\* after the last key; the checkpoint goes to the dumping thread.
MoveDone ==
  /\ snap.part = "copy"
  /\ dumps' = Append(dumps, snap.ckpt)
  /\ snap' = NoSnap
  /\ trainer' = [trainer EXCEPT !.pc = "idle"]
  /\ UNCHANGED <<verVars, ctlVars, preGen, preTrain, holder, genVars, log,
                 latest, crashes, tainted>>

\* "dictionary changed size during iteration": the trainer ends.
MoveFails ==
  /\ snap.part = "copy" /\ snap.size # 0 /\ Cardinality(running) # snap.size
  /\ trainer' = [trainer EXCEPT !.pc = "failed"]
  /\ snap' = NoSnap
  /\ UNCHANGED <<verVars, ctlVars, preGen, preTrain, holder, genVars, log,
                 dumps, latest, crashes, tainted>>

Snapshot ==
  SnapExhausted \/ SnapSource \/ SnapGenData \/ SnapGenPending \/ SnapTrain \/ MoveBegin \/ MoveDone

DumpDone ==
  /\ dumps # <<>>
  /\ latest' = Head(dumps) /\ dumps' = Tail(dumps)
  /\ UNCHANGED <<vars, snap, crashes, tainted>>
-----------------------------------------------------------------------------
(* Crash and restart: start(), _load_state_dict().                         *)

\* "In-flight prompts are reconstructed from pre_gen pending items."
ResumedRunning == {}

\* A prompt restored from pre_gen keeps its scheduled_version.
Restart ==
  /\ crashes < MaxCrashes
  /\ crashes' = crashes + 1
  /\ train' = latest.train /\ infer' = -1 /\ served' = -1
  /\ source' = latest.source /\ exhausted' = latest.exhausted
  /\ hand' = NoItem
  /\ preGen' = LoadState(EmptyQueue, StateDict(latest.genPending, latest.genData))
  /\ preTrain' = LoadState(EmptyQueue, latest.trainItems)
  /\ holder' = "none"
  /\ gen' = [pc |-> "pop", item |-> NoItem]
  /\ running' = ResumedRunning /\ submitted' = {} /\ cbAlive' = TRUE
  /\ trainer' = [pc |-> "idle", batch |-> <<>>]
  /\ log' = latest.log
  /\ snap' = NoSnap /\ dumps' = <<>>
  /\ tainted' = (tainted \/ ~latest.clean)
  /\ UNCHANGED latest

Done == Finished /\ UNCHANGED <<ckptVars, crashes, tainted>>

ResumeNext ==
  \/ Background \/ TrainerStep \/ SaveBegin \/ Snapshot \/ MoveFails \/ DumpDone
  \/ Restart \/ Done

ResumeSpec == ResumeInit /\ [][ResumeNext]_resumeVars

\* The threads are scheduled; nobody owes a crash or a failing copy.
ResumeFairSpec ==
  /\ ResumeSpec
  /\ WF_resumeVars(Control /\ Background) /\ WF_resumeVars(Generation /\ Background)
  /\ SF_resumeVars(Callback /\ Background) /\ SF_resumeVars(TrainerStep)
  /\ WF_resumeVars(Snapshot) /\ WF_resumeVars(DumpDone)
-----------------------------------------------------------------------------
(* Properties.                                                             *)

\* As long as every restored checkpoint was clean: no prompt is lost or trained
\* on twice, whatever was running, waiting or delivered at the crash, counting
\* the iterations that survive in the restored weights; none is generated by
\* weights older than its own; and restored prompts count under the cap, to
\* which each run of the job adds no more than the one prompt whose error ended
\* its callback thread, and which stays un-acked.
AsyncResumeExact ==
  ~tainted =>
    /\ ExactlyOnce
    /\ Outstanding <= MaxUntrainedPrompts + 1 + crashes
    /\ VersionGate

\* Whatever checkpoint was restored: the control worker gives the source up only
\* when every prompt has been popped, although source_exhausted and the
\* source's position are saved at different moments.
NeverEndedEarly == exhausted => source > NumPrompts

\* The only running prompt is not submitted because it waits for newer weights,
\* and the trainer that would deploy them waits for it to end, or for results.
Wedged ==
  /\ gen.pc = "wait" /\ ~WeightsReady(gen.item) /\ submitted = {}
  /\ \/ trainer.pc = "idle" /\ Len(log) < TrainIters /\ ~CanAdvanceWeight
     \/ trainer.pc = "collect" /\ QLen(preTrain) < PromptPerIter

\* The waits of the condition variable close to a circle only after a restart and
\* before the first deployment.
WedgedOnlyRestored == Wedged => crashes > 0 /\ infer = -1

\* README of the generators: infer_weight_version is reset to -1 on restore, so
\* that a resume re-syncs the weights to inference.
ResumeSyncs ==
  (crashes = MaxCrashes /\ infer = -1 /\ Len(log) < TrainIters) ~> infer >= 0
=============================================================================
