--------------------------- MODULE SimpleFlowResume ---------------------------
(***************************************************************************)
(* SimpleFlow with the checkpoint the trainer takes of it and with crashes *)
(* of the process.  PPOTrainer.save_checkpoint() calls weight_dumped() and *)
(* then state_dict() from the trainer thread, without flow.lock, while the *)
(* control, generation and callback threads go on: the parts of the flow   *)
(* are read one after the other.  The dumping thread makes the snapshots   *)
(* durable in order (module Checkpointer); a restart loads the last one.   *)
(*                                                                         *)
(* Two history variables serve the properties: a checkpoint's "clean" says *)
(* that it is the image of one moment at which no thread was in the middle *)
(* of moving an item and no error had ended the callback thread, and       *)
(* "tainted" that a checkpoint that was not clean has been restored.       *)
(***************************************************************************)
EXTENDS SimpleFlow

CONSTANT MaxCrashes  \* bound on the crashes of a behaviour

ResumeAssumption == MaxCrashes \in Nat

VARIABLES
  snap,     \* the snapshot being taken, with the part to read next
  dumps,    \* snapshots submitted to the dumping thread, oldest first
  latest,   \* the checkpoint latest_ckpt points to
  crashes,
  tainted

ckptVars == <<snap, dumps, latest>>
resumeVars == <<vars, ckptVars, crashes, tainted>>

\* Where a start without any checkpoint begins.
FreshCkpt ==
  [train |-> -1, source |-> 1, genData |-> <<>>, genPending |-> <<>>,
   trainItems |-> <<>>, sched |-> FirstSched, log |-> <<>>, clean |-> TRUE]

ResumeInit ==
  /\ Init
  /\ snap = [part |-> "none", ckpt |-> FreshCkpt]
  /\ dumps = <<>> /\ latest = FreshCkpt
  /\ crashes = 0 /\ tainted = FALSE

\* No thread holds an item that is in no queue, no block is half written.
Settled == ~locked /\ gen.pc # "pend"

\* A step of another thread while the snapshot is being taken.
Disturb ==
  snap' = IF snap.part = "none" THEN snap ELSE [snap EXCEPT !.ckpt.clean = FALSE]

Background ==
  /\ Control \/ Generation \/ Callback
  /\ Disturb
  /\ UNCHANGED <<dumps, latest, crashes, tainted>>

TrainerStep ==
  /\ Collecting \/ TrainNoSave
  /\ UNCHANGED <<ckptVars, crashes, tainted>>
-----------------------------------------------------------------------------
(* save_checkpoint().                                                      *)

\* join_dumping_thread() returns as soon as no task is waiting, which leaves
\* room for one being dumped; then the weights, weight_dumped(), and the
\* train version.
SaveBegin ==
  /\ trainer.pc = "after" /\ Len(dumps) <= 1
  /\ preTrain' = WeightDumped
  /\ trainer' = [trainer EXCEPT !.pc = "snapshot"]
  /\ snap' = [part |-> "source",
              ckpt |-> [FreshCkpt EXCEPT !.train = train, !.log = log,
                                         !.clean = Settled /\ cbAlive]]
  /\ UNCHANGED <<strategy, ctlVars, verVars, preGen, gen, running, cbAlive, log,
                 dumps, latest, crashes, tainted>>

\* PersistentFlow.state_dict(): the stages in order, then meta.
Read(part, next, field, value) ==
  /\ snap.part = part
  /\ snap' = [snap EXCEPT !.part = next, !.ckpt[field] = value]
  /\ UNCHANGED <<vars, dumps, latest, crashes, tainted>>

SnapSource == Read("source", "genData", "source", source)

\* PersistentQueue.state_dict() copies data, then pending.
SnapGenData == Read("genData", "genPending", "genData", preGen.data)

SnapGenPending == Read("genPending", "train", "genPending", preGen.pending)

SnapTrain ==
  Read("train", "meta", "trainItems", StateDict(preTrain.pending, preTrain.data))

\* meta is read last; the checkpoint goes to the dumping thread.
SnapMeta ==
  /\ snap.part = "meta"
  /\ dumps' = Append(dumps, [snap.ckpt EXCEPT !.sched = sched])
  /\ snap' = [part |-> "none", ckpt |-> FreshCkpt]
  /\ trainer' = [trainer EXCEPT !.pc = "idle"]
  /\ UNCHANGED <<strategy, ctlVars, verVars, preGen, preTrain, gen, running, cbAlive, log,
                 latest, crashes, tainted>>

DumpDone ==
  /\ dumps # <<>>
  /\ latest' = Head(dumps) /\ dumps' = Tail(dumps)
  /\ UNCHANGED <<vars, snap, crashes, tainted>>

Snapshot == SnapSource \/ SnapGenData \/ SnapGenPending \/ SnapTrain \/ SnapMeta
-----------------------------------------------------------------------------
(* Crash and restart: start(), _load_state_dict().                         *)

\* Mutant: the restored servers are taken to have the restored weights.
RestoredInfer == latest.train

ResumedInfer == -1

\* Threads and generations are gone; both queues get their un-acked items
\* back in front, infer_weight_version is -1, and the training iterations
\* after the checkpoint are lost with the weights.
Restart ==
  /\ crashes < MaxCrashes
  /\ crashes' = crashes + 1
  /\ train' = latest.train /\ infer' = ResumedInfer /\ served' = -1
  /\ source' = latest.source
  /\ sched' = latest.sched
  /\ preGen' = LoadState(EmptyQueue, StateDict(latest.genPending, latest.genData))
  /\ preTrain' = LoadState(EmptyQueue, latest.trainItems)
  /\ locked' = FALSE
  /\ ctl' = [pc |-> "check", left |-> 0, hand |-> NoItem]
  /\ gen' = [pc |-> "pop", item |-> NoItem, needAck |-> NoItem, active |-> 0]
  /\ running' = {} /\ cbAlive' = TRUE
  /\ trainer' = [pc |-> "idle", batch |-> <<>>]
  /\ log' = latest.log
  /\ snap' = [part |-> "none", ckpt |-> FreshCkpt]
  /\ dumps' = <<>>
  /\ tainted' = (tainted \/ ~latest.clean)
  /\ UNCHANGED <<strategy, latest>>

Done == Finished /\ UNCHANGED <<ckptVars, crashes, tainted>>

ResumeNext ==
  \/ Background \/ TrainerStep \/ SaveBegin \/ Snapshot \/ DumpDone
  \/ Restart \/ Done

ResumeSpec == ResumeInit /\ [][ResumeNext]_resumeVars
-----------------------------------------------------------------------------
(* Properties.                                                             *)

\* Where the properties that are conditional on ~tainted can fail: a behaviour
\* that takes a checkpoint that is not clean either restores it, and is tainted
\* for ever, or never does, and then skipping that checkpoint (TrainNoSave)
\* reaches the same states of the flow.
CleanRuns ==
  /\ ~tainted /\ snap.ckpt.clean /\ latest.clean
  /\ \A i \in DOMAIN dumps : dumps[i].clean

\* After any crashes and restarts, as long as every restored checkpoint was
\* clean: no prompt is lost or trained on twice, counting the iterations that
\* survive in the restored weights.
ResumeExactlyOnce == ~tainted => ExactlyOnce

\* ... as long as no error has ended the callback thread either, batches stay
\* whole and in the source's order, ...
ResumeBatches ==
  ~tainted /\ cbAlive => \A k \in DOMAIN log : PromptIds(log[k]) # {} =>
    PromptIds(log[k]) = (k - 1) * PromptPerIter + 1 .. k * PromptPerIter

\* ... and rollouts restored from a checkpoint, or regenerated after it, are
\* as fresh as those of an uninterrupted run.
ResumeFresh == ~tainted => FreshRollouts /\ (cbAlive => GatedStream)

\* The README of the generators: the checkpoint has the queued items and the
\* popped but not yet acked ones, so a resume keeps unfinished work.  Here for
\* whatever checkpoint the code writes: no prompt the source has handed out
\* is missing after a restart.
NothingDropped ==
  \A p \in 1 .. source - 1 : Copies(p) > 0
=============================================================================
