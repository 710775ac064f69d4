------------------------- MODULE FullyAsyncFlowProofs -------------------------
(***************************************************************************)
(* Proofs about FullyAsyncFlow, and about its checkpoints and restarts     *)
(* (FullyAsyncResume), for every value of their constants.                 *)
(***************************************************************************)
EXTENDS FullyAsyncResume, QueueLemmas, FiniteSetTheorems
-----------------------------------------------------------------------------
(* The inductive invariants.                                               *)

\* A prompt somewhere between the source and the generation worker's lock.
Waiting ==
     (IF holder = "control" THEN {hand} ELSE {})
  \cup {preGen.data[i] : i \in 1 .. Len(preGen.data)}
  \cup (IF gen.pc = "pend" THEN {gen.item} ELSE {})

\* pre_gen holds one prompt at most and the control worker adds one only when
\* it is empty, so prompts go through in the order of the source: those
\* submitted, then the one the generation worker has, then the one before it.
\* Every submitted prompt counts as running.
SingleFile ==
  /\ Len(preGen.data) <= 1
  /\ holder # "none" => preGen.data = <<>>
  /\ gen.pc = "pend" <=> holder = "generation"
  /\ \A w \in Waiting : w.p < source
  /\ gen.pc = "wait" =>
       /\ gen.item \in running
       /\ gen.item.p < source
       /\ \A w \in Waiting : gen.item.p < w.p
       /\ \A x \in submitted : x.p < gen.item.p
  /\ \A x \in submitted :
       /\ x.p < source
       /\ \A w \in Waiting : x.p < w.p
       /\ ItemOf(x) \in running
  /\ \A x, y \in submitted : x.p = y.p => x = y

\* Backpressure, with the prompt in the control worker's hand counted.
Capped ==
  /\ Backpressure
  /\ holder = "control" => QLen(preTrain) + Cardinality(running) <= MaxUntrainedPrompts


\* Which weights can have been seen where.
VersionInv ==
  /\ infer <= served /\ served <= train
  /\ trainer.pc = "deployed" => served = train
  /\ \A x \in submitted : x.sv <= train
  /\ VersionGate

\* A batch the trainer has taken and not yet asked to replace.
Credit == IF trainer.pc \in {"sync", "deployed", "collect"} THEN 0 ELSE PromptPerIter

Available == QLen(preTrain) + Cardinality(running)

\* The trainer's version counts the batches it has asked for.
LogLength == Len(log) = train + (IF trainer.pc \in {"after", "idle"} THEN 1 ELSE 0)

\* Each version the trainer moves past a prompt costs it prompt_per_iter of
\* the prompts ahead of that prompt, and there are never more than the cap.
WaitingLag ==
  \A w \in Waiting :
    PromptPerIter * (train - w.sv) + Available + Credit
      <= MaxUntrainedPrompts + PromptPerIter

ReadyLag ==
  \A i \in DOMAIN preTrain.data :
    PromptPerIter * (train - preTrain.data[i].sv) + (i - 1) + Credit
      <= PromptPerIter * RunningLag + MaxUntrainedPrompts + PromptPerIter

BatchLag ==
  /\ trainer.pc # "step" => trainer.batch = <<>>
  /\ \A i \in DOMAIN trainer.batch : train - trainer.batch[i].sv <= RunningLag + PipelineLag

LagInv == LogLength /\ WaitingLag /\ ReadyLag /\ BatchLag /\ BoundedLag
-----------------------------------------------------------------------------
(* Types.                                                                  *)

\* What the configuration gives is what FullyAsyncAssumption says.
LEMMA ConfigTypes == FullyAsyncAssumption
BY FullyAsyncConfig

\* No item is typed as a prompt.
LEMMA NoItemType == NoItem \in PromptType
BY ConfigTypes DEF FullyAsyncAssumption, NoItem, PromptType

\* The initial state is well typed.
LEMMA InitType == Init => TypeOK
<1> SUFFICES ASSUME Init PROVE TypeOK
  OBVIOUS
<1>1. source \in 1 .. NumPrompts + 1
  BY ConfigTypes DEF Init, FullyAsyncAssumption
<1>2. running \in SUBSET PromptType /\ IsFiniteSet(running) /\ submitted \in SUBSET GeneratingType
  BY FS_EmptySet DEF Init
<1>3. hand \in PromptType /\ gen \in [pc : {"pop", "pend", "wait"}, item : PromptType]
  BY NoItemType DEF Init
<1>5. trainer \in TrainerType /\ log \in Seq(Seq(RolloutType))
  BY DEF Init, TrainerType
<1>4. /\ preGen \in [data : Seq(PromptType), pending : Seq(PromptType)]
      /\ preTrain \in [data : Seq(RolloutType), pending : Seq(RolloutType)]
  BY DEF Init, EmptyQueue
<1>6. train \in Int /\ infer \in Int /\ served \in Int
  BY DEF Init
<1>7. exhausted \in BOOLEAN /\ cbAlive \in BOOLEAN /\ holder \in {"none", "control", "generation"}
  BY DEF Init
<1> QED BY <1>1, <1>2, <1>3, <1>4, <1>5, <1>6, <1>7 DEF TypeOK

\* Every step keeps the state well typed.
LEMMA StepType == TypeOK /\ [Next]_vars => TypeOK'
<1> SUFFICES ASSUME TypeOK, [Next]_vars
             PROVE  TypeOK'
  OBVIOUS
<1> USE ConfigTypes DEF FullyAsyncAssumption, TrainerType
<1>1. CASE CtlPop
  BY <1>1 DEF TypeOK, CtlPop, ScheduledVersion, Prompt, PromptType, verVars, genVars, trainVars
<1>2. CASE CtlPut
  <2>1. preGen' \in [data : Seq(PromptType), pending : Seq(PromptType)]
    BY <1>2, QueueTypes DEF TypeOK, CtlPut
  <2>2. hand' \in PromptType
    BY <1>2 DEF CtlPut, NoItem, PromptType
  <2> QED BY <1>2, <2>1, <2>2 DEF TypeOK, CtlPut, verVars, genVars, trainVars
<1>3. CASE CtlExhausted
  BY <1>3 DEF TypeOK, CtlExhausted, verVars, genVars, trainVars
<1>4. CASE GenPop
  <2>1. /\ preGen' \in [data : Seq(PromptType), pending : Seq(PromptType)]
        /\ Peek(preGen) \in PromptType
    BY <1>4, QueueTypes, NoItemType DEF TypeOK, GenPop
  <2> QED BY <1>4, <2>1 DEF TypeOK, GenPop, verVars, ctlVars, trainVars
<1>5. CASE GenPend
  <2>1. preGen' \in [data : Seq(PromptType), pending : Seq(PromptType)]
    BY <1>5, QueueTypes DEF TypeOK, GenPend
  <2>2. running' \in SUBSET PromptType /\ IsFiniteSet(running')
    BY <1>5, FS_AddElement DEF TypeOK, GenPend
  <2> QED BY <1>5, <2>1, <2>2 DEF TypeOK, GenPend, verVars, ctlVars, trainVars
<1>6. CASE GenSubmit
  <2>1. submitted' \in SUBSET GeneratingType
    BY <1>6 DEF TypeOK, GenSubmit, Generating, GeneratingType, PromptType
  <2>2. gen' \in [pc : {"pop", "pend", "wait"}, item : PromptType]
    BY <1>6, NoItemType DEF GenSubmit
  <2> QED BY <1>6, <2>1, <2>2 DEF TypeOK, GenSubmit, verVars, ctlVars, trainVars
<1>7. ASSUME NEW x \in submitted, Deliver(x)
      PROVE  TypeOK'
  <2>1. Rollout(x) \in RolloutType
    BY DEF TypeOK, Rollout, RolloutType, GeneratingType
  <2>2. preTrain' \in [data : Seq(RolloutType), pending : Seq(RolloutType)]
    BY <1>7, <2>1, QueueTypes DEF TypeOK, Deliver
  <2>3. preGen' \in [data : Seq(PromptType), pending : Seq(PromptType)]
    BY <1>7, QueueTypes, NoItemType DEF TypeOK, Deliver
  <2>4. running' \in SUBSET PromptType /\ IsFiniteSet(running')
    BY <1>7, FS_RemoveElement DEF TypeOK, Deliver
  <2> QED BY <1>7, <2>2, <2>3, <2>4 DEF TypeOK, Deliver, verVars, ctlVars, trainVars
<1>8. ASSUME NEW x \in submitted, CbRaise(x)
      PROVE  TypeOK'
  <2>1. running' \in SUBSET PromptType /\ IsFiniteSet(running')
    BY <1>8, FS_RemoveElement DEF TypeOK, CbRaise
  <2> QED BY <1>8, <2>1 DEF TypeOK, CbRaise, verVars, ctlVars, trainVars
<1>9. CASE TrainAdvance
  <2>1. train' \in Int
    BY <1>9 DEF TypeOK, TrainAdvance
  <2>2. trainer' \in TrainerType
    BY <1>9 DEF TypeOK, TrainAdvance
  <2> QED BY <1>9, <2>1, <2>2 DEF TypeOK, TrainAdvance, ctlVars, genVars
<1>10. CASE TrainDeploy
  <2>1. submitted' \in SUBSET GeneratingType
    BY <1>10 DEF TypeOK, TrainDeploy, Generating, GeneratingType
  <2> QED BY <1>10, <2>1 DEF TypeOK, TrainDeploy, ctlVars, genVars
<1>11. CASE TrainSynced
  BY <1>11 DEF TypeOK, TrainSynced, ctlVars, genVars
<1>12. CASE TrainTake
  <2> DEFINE d == preTrain.data
  <2>1. /\ d \in Seq(RolloutType) /\ preTrain.pending \in Seq(RolloutType)
        /\ Len(d) >= PromptPerIter
    BY <1>12 DEF TypeOK, TrainTake, QLen
  <2>2. /\ SubSeq(d, 1, PromptPerIter) \in Seq(RolloutType)
        /\ SubSeq(d, PromptPerIter + 1, Len(d)) \in Seq(RolloutType)
    BY <2>1, SubSeqProperties
  <2>3. preTrain.pending \o SubSeq(d, 1, PromptPerIter) \in Seq(RolloutType)
    BY <2>1, <2>2, ConcatProperties
  <2> QED BY <1>12, <2>2, <2>3 DEF TypeOK, TrainTake, QLen, verVars, ctlVars, genVars
<1>13. CASE TrainStep
  <2>1. log' \in Seq(Seq(RolloutType))
    BY <1>13, AppendProperties DEF TypeOK, TrainStep
  <2>2. trainer' \in TrainerType
    BY <1>13 DEF TrainStep
  <2> QED BY <1>13, <2>1, <2>2 DEF TypeOK, TrainStep, verVars, ctlVars, genVars
<1>14. CASE TrainSave
  <2>1. preTrain' = [data |-> preTrain.data, pending |-> <<>>]
    BY <1>14 DEF TypeOK, TrainSave, WeightDumped
  <2>2. preTrain' \in [data : Seq(RolloutType), pending : Seq(RolloutType)]
    BY <2>1, EmptySeq DEF TypeOK
  <2>3. trainer' \in TrainerType
    BY <1>14 DEF TypeOK, TrainSave
  <2> QED BY <1>14, <2>2, <2>3 DEF TypeOK, TrainSave, verVars, ctlVars, genVars
<1>15. CASE TrainNoSave
  BY <1>15 DEF TypeOK, TrainNoSave, verVars, ctlVars, genVars
<1>16. CASE UNCHANGED vars
  BY <1>16 DEF TypeOK, vars, verVars, ctlVars, genVars, trainVars
<1> QED
  BY <1>1, <1>2, <1>3, <1>4, <1>5, <1>6, <1>7, <1>8, <1>9, <1>10, <1>11, <1>12,
     <1>13, <1>14, <1>15, <1>16
     DEF Next, Control, Generation, Callback, CbDone, CbIgnoreError, Trainer, Collecting,
         Finished

\* The shared state of FullyAsyncFlowController keeps its shape.
THEOREM TypeInvariant == Spec => []TypeOK
<1>1. Init => TypeOK
  BY InitType
<1>2. TypeOK /\ [Next]_vars => TypeOK'
  BY StepType
<1> QED BY <1>1, <1>2, PTL DEF Spec
-----------------------------------------------------------------------------
(* Prompts go through the controller in single file.                       *)

\* No thread has an item at first.
LEMMA InitSingleFile == Init => SingleFile
BY DEF Init, SingleFile, Waiting, EmptyQueue

\* The generation worker takes the only prompt of pre_gen.
LEMMA GenPopWaiting ==
  ASSUME TypeOK, SingleFile, GenPop
  PROVE  preGen'.data = <<>> /\ Waiting' = Waiting
<1>1. preGen.data \in Seq(PromptType)
  BY DEF TypeOK
<1>2. Len(preGen.data) <= 1 /\ Len(preGen.data) > 0
  BY DEF SingleFile, GenPop, QLen
<1>3. /\ Len(preGen.data) = 1
      /\ Tail(preGen.data) = <<>> /\ Head(preGen.data) = preGen.data[1]
  BY <1>1, <1>2, SingletonSeq
<1>4. preGen'.data = Tail(preGen.data) /\ gen'.item = Head(preGen.data)
  BY DEF TypeOK, GenPop, Pop, Peek
<1> QED BY <1>3, <1>4 DEF TypeOK, SingleFile, GenPop, Waiting, ctlVars

\* Every step keeps the items of the threads in single file.
LEMMA StepSingleFile == TypeOK /\ SingleFile /\ [Next]_vars => SingleFile'
<1> SUFFICES ASSUME TypeOK, SingleFile, [Next]_vars
             PROVE  SingleFile'
  OBVIOUS
<1> DEFINE Untouched == UNCHANGED <<holder, hand, preGen, gen, running, submitted, source>>
<1>1. CASE CtlPop
  <2>1. preGen.data = <<>>
    BY <1>1 DEF TypeOK, CtlPop, ScheduledVersion, CanSchedulePrompt, QLen
  <2>2. Waiting = {} /\ Waiting' = {hand'} /\ gen.pc # "pend"
    BY <1>1, <2>1 DEF TypeOK, SingleFile, CtlPop, Waiting, genVars
  <2>3. hand'.p = source /\ source' = source + 1
    BY <1>1 DEF CtlPop, ScheduledVersion, Prompt
  <2> QED BY <1>1, <2>1, <2>2, <2>3
          DEF TypeOK, SingleFile, CtlPop, genVars, PromptType, GeneratingType
<1>2. CASE CtlPut
  <2>1. preGen.data = <<>> /\ Len(preGen'.data) = 1 /\ preGen'.data[1] = hand
    BY <1>2 DEF TypeOK, SingleFile, CtlPut, Put
  <2>2. Waiting' = Waiting
    BY <1>2, <2>1 DEF TypeOK, SingleFile, CtlPut, Waiting, genVars
  <2> QED BY <1>2, <2>1, <2>2 DEF TypeOK, SingleFile, CtlPut, genVars
<1>3. CASE GenPop
  <2>1. preGen'.data = <<>> /\ Waiting' = Waiting
    BY <1>3, GenPopWaiting
  <2>2. gen'.item \in Waiting
    BY <1>3, <2>1 DEF GenPop, Waiting
  <2> QED BY <1>3, <2>1, <2>2 DEF TypeOK, SingleFile, GenPop, ctlVars
<1>4. CASE GenPend
  <2>1. preGen.data = <<>> /\ preGen'.data = <<>>
    BY <1>4 DEF TypeOK, SingleFile, GenPend, Pend
  <2>2. Waiting = {gen.item} /\ Waiting' = {} /\ gen'.item = gen.item
    BY <1>4, <2>1 DEF TypeOK, SingleFile, GenPend, Waiting, ctlVars
  <2> QED BY <1>4, <2>1, <2>2 DEF TypeOK, SingleFile, GenPend, ctlVars
<1>5. CASE GenSubmit
  <2> DEFINE y == Generating(gen.item, {served})
  <2>1. Waiting' = Waiting
    BY <1>5 DEF TypeOK, SingleFile, GenSubmit, Waiting, ctlVars
  <2>2. y.p = gen.item.p /\ ItemOf(y) = gen.item
    BY DEF TypeOK, Generating, ItemOf, Prompt, PromptType
  <2>3. submitted' = submitted \cup {y} /\ gen'.pc = "pop"
    BY <1>5 DEF GenSubmit
  <2>4. ASSUME NEW x \in submitted
        PROVE  x.p < gen.item.p /\ x.p \in Int /\ gen.item.p \in Int
    BY <1>5 DEF TypeOK, SingleFile, GenSubmit, GeneratingType, PromptType
  <2> HIDE DEF y
  <2>5. \A x \in submitted' : /\ x.p < source
                              /\ \A w \in Waiting : x.p < w.p
                              /\ ItemOf(x) \in running
    BY <1>5, <2>2, <2>3 DEF SingleFile, GenSubmit
  <2>6. \A x, z \in submitted' : x.p = z.p => x = z
    BY <2>2, <2>3, <2>4 DEF SingleFile
  <2> QED BY <1>5, <2>1, <2>3, <2>5, <2>6 DEF SingleFile, GenSubmit, ctlVars
<1>6. ASSUME NEW x \in submitted,
             running' = running \ {ItemOf(x)}, submitted' = submitted \ {x},
             preGen'.data = preGen.data, UNCHANGED <<holder, hand, gen, source>>
      PROVE  SingleFile'
  <2>1. Waiting' = Waiting
    BY <1>6 DEF Waiting
  <2>2. gen.pc = "wait" => gen.item \in running'
    BY <1>6 DEF TypeOK, SingleFile, ItemOf, Prompt, PromptType, GeneratingType
  <2>3. \A z \in submitted' : ItemOf(z) \in running'
    BY <1>6 DEF TypeOK, SingleFile, ItemOf, Prompt, GeneratingType
  <2> QED BY <1>6, <2>1, <2>2, <2>3 DEF SingleFile
<1>7. CASE TrainDeploy
  <2>1. Waiting' = Waiting
    BY <1>7 DEF TrainDeploy, Waiting, ctlVars
  <2>2. \A z \in submitted' : \E x \in submitted :
          /\ z = Generating(x, x.seen \cup {train})
          /\ z.p = x.p /\ ItemOf(z) = ItemOf(x)
    BY <1>7 DEF TrainDeploy, Generating, ItemOf, Prompt
  <2>3. \A z \in submitted' : /\ z.p < source
                              /\ \A w \in Waiting : z.p < w.p
                              /\ gen.pc = "wait" => z.p < gen.item.p
                              /\ ItemOf(z) \in running
    BY <2>2 DEF SingleFile
  <2>4. ASSUME NEW y \in submitted', NEW z \in submitted', y.p = z.p
        PROVE  y = z
    <3>1. PICK v \in submitted : y = Generating(v, v.seen \cup {train}) /\ y.p = v.p
      BY <2>2
    <3>2. PICK x \in submitted : z = Generating(x, x.seen \cup {train}) /\ z.p = x.p
      BY <2>2
    <3>3. v = x
      BY <2>4, <3>1, <3>2 DEF SingleFile
    <3> QED BY <3>1, <3>2, <3>3
  <2> QED BY <1>7, <2>1, <2>3, <2>4 DEF SingleFile, TrainDeploy, ctlVars
<1>8. CASE Untouched
  BY <1>8 DEF SingleFile, Waiting
<1>9. ASSUME NEW x \in submitted, Deliver(x)
      PROVE  SingleFile'
  <2>1. preGen'.data = preGen.data
    BY <1>9 DEF TypeOK, Deliver, Ack
  <2> QED BY <1>6, <1>9, <2>1 DEF Deliver, ctlVars
<1>10. ASSUME NEW x \in submitted, CbRaise(x)
       PROVE  SingleFile'
  BY <1>6, <1>10 DEF CbRaise, ctlVars
<1>11. CtlExhausted => Untouched
  BY DEF CtlExhausted, genVars
<1>12. TrainAdvance \/ TrainSynced \/ TrainTake => Untouched
  BY DEF TrainAdvance, TrainSynced, TrainTake, ctlVars, genVars
<1>13. TrainStep \/ TrainSave \/ TrainNoSave \/ UNCHANGED vars => Untouched
  BY DEF TrainStep, TrainSave, TrainNoSave, vars, ctlVars, genVars
<1> HIDE DEF Untouched
<1> QED
  BY <1>1, <1>2, <1>3, <1>4, <1>5, <1>7, <1>8, <1>9, <1>10, <1>11, <1>12, <1>13
     DEF Next, Control, Generation, Callback, CbDone, CbIgnoreError, Trainer, Collecting,
         Finished
-----------------------------------------------------------------------------
(* The cap on the prompts between the source and the trainer.              *)

\* What get_train_samples() leaves in pre_train.
LEMMA TakeFacts ==
  ASSUME NEW S, NEW q \in [data : Seq(S), pending : Seq(S)], NEW xs,
         QLen(q) >= PromptPerIter
  PROVE  LET rest == [data |-> SubSeq(q.data, PromptPerIter + 1, QLen(q)), pending |-> xs]
         IN  /\ QLen(rest) = QLen(q) - PromptPerIter
             /\ QLen(q) - PromptPerIter \in Nat
             /\ QLen(q) - PromptPerIter <= QLen(q)
             /\ \A i \in 1 .. QLen(rest) : rest.data[i] = q.data[i + PromptPerIter]
<1> USE ConfigTypes DEF FullyAsyncAssumption
<1>1. q.data \in Seq(S) /\ QLen(q) \in Nat /\ PromptPerIter \in Nat
  BY QLenNat
<1>2. \A i \in PromptPerIter + 1 .. QLen(q) : q.data[i] \in S
  BY <1>1, ElementOfSeq DEF QLen
<1> DEFINE tail == SubSeq(q.data, PromptPerIter + 1, QLen(q))
<1>3. /\ Len(tail) = QLen(q) - PromptPerIter
      /\ \A i \in 1 .. QLen(q) - PromptPerIter : tail[i] = q.data[i + PromptPerIter]
  BY <1>1, <1>2, SubSeqProperties
<1> QED BY <1>1, <1>3 DEF QLen

\* Nothing is scheduled at first.
LEMMA InitCapped == Init => Capped
BY ConfigTypes, FS_EmptySet
   DEF FullyAsyncAssumption, Init, Capped, Backpressure, Outstanding, InHand, QLen, EmptyQueue

\* Every step keeps the count of what is under way within the cap.
LEMMA StepCapped == TypeOK /\ SingleFile /\ Capped /\ [Next]_vars => Capped'
<1> SUFFICES ASSUME TypeOK, SingleFile, Capped, [Next]_vars
             PROVE  Capped'
  OBVIOUS
<1> USE ConfigTypes DEF FullyAsyncAssumption
<1> DEFINE g == QLen(preGen)
           t == QLen(preTrain)
           r == Cardinality(running)
           h == InHand
<1>0. g \in Nat /\ t \in Nat /\ r \in Nat /\ h \in Nat
  BY QLenNat, FS_CardinalityType DEF TypeOK, InHand
<1>a. g + h + r + t <= MaxUntrainedPrompts + 1
  BY DEF Capped, Backpressure, Outstanding
<1>b. holder = "control" => t + r <= MaxUntrainedPrompts
  BY DEF Capped
\* What is to be shown, in terms of the four counts.
<1>c. ASSUME g' + h' + r' + t' <= MaxUntrainedPrompts + 1,
             holder' = "control" => t' + r' <= MaxUntrainedPrompts
      PROVE  Capped'
  BY <1>c DEF Capped, Backpressure, Outstanding
<1> DEFINE SameCounts == g' = g /\ h' = h /\ r' = r /\ t' = t /\ holder' = holder
<1>d. CASE SameCounts
  BY <1>0, <1>a, <1>b, <1>c, <1>d
<1>1. CASE CtlPop
  <2>1. g = 0 /\ t + r <= MaxUntrainedPrompts
    BY <1>1 DEF CtlPop, CanSchedulePrompt
  <2>2. g' = g /\ t' = t /\ r' = r
    BY <1>1 DEF CtlPop, genVars
  <2>3. h' = 1
    BY <1>1 DEF TypeOK, SingleFile, CtlPop, InHand, genVars
  <2> QED BY <1>0, <1>c, <2>1, <2>2, <2>3
<1>2. CASE CtlPut
  <2>1. t' = t /\ r' = r /\ holder' = "none"
    BY <1>2 DEF CtlPut, genVars
  <2>2. g' = g + 1
    <3>1. preGen \in [data : Seq(PromptType), pending : Seq(PromptType)] /\ hand \in PromptType
      BY DEF TypeOK
    <3>2. preGen' = Put(preGen, hand)
      BY <1>2 DEF CtlPut
    <3> QED BY <3>1, <3>2, QLenOf
  <2>3. h = 1 /\ h' = 0
    BY <1>2 DEF TypeOK, SingleFile, CtlPut, InHand, genVars
  <2> QED BY <1>0, <1>a, <1>c, <2>1, <2>2, <2>3
<1>3. CASE GenPop
  <2>1. t' = t /\ r' = r /\ holder' = "generation" /\ g > 0
    BY <1>3 DEF GenPop
  <2>2. g' = g - 1
    BY <1>3, <2>1, QLenOf, NoItemType DEF TypeOK, GenPop
  <2>3. h = 0 /\ h' = 1
    BY <1>3 DEF TypeOK, SingleFile, GenPop, InHand
  <2> QED BY <1>0, <1>a, <1>c, <2>1, <2>2, <2>3
<1>4. CASE GenPend
  <2>1. t' = t /\ holder' = "none"
    BY <1>4 DEF GenPend
  <2>2. g' = g
    <3>1. preGen \in [data : Seq(PromptType), pending : Seq(PromptType)] /\ gen.item \in PromptType
      BY DEF TypeOK
    <3>2. preGen' = Pend(preGen, gen.item)
      BY <1>4 DEF GenPend
    <3> QED BY <3>1, <3>2, QLenOf
  <2>3. h = 1 /\ h' = 0
    BY <1>4 DEF TypeOK, SingleFile, GenPend, InHand
  <2>4. r' \in Nat /\ r' <= r + 1
    <3>1. IsFiniteSet(running) /\ running' = running \cup {gen.item}
      BY <1>4 DEF TypeOK, GenPend
    <3>2. r' = r \/ r' = r + 1
      BY <3>1, FS_AddElement
    <3> QED BY <1>0, <3>2
  <2> QED BY <1>0, <1>a, <1>c, <2>1, <2>2, <2>3, <2>4
<1>5. CASE GenSubmit
  <2>1. SameCounts
    BY <1>5 DEF GenSubmit, InHand, ctlVars
  <2> QED BY <1>d, <2>1
<1>6. ASSUME NEW x \in submitted, Deliver(x)
      PROVE  Capped'
  <2>1. Rollout(x) \in RolloutType
    BY DEF TypeOK, Rollout, RolloutType, GeneratingType
  <2>2. t' = t + 1
    <3>1. preTrain \in [data : Seq(RolloutType), pending : Seq(RolloutType)]
      BY DEF TypeOK
    <3>2. preTrain' = Put(preTrain, Rollout(x))
      BY <1>6 DEF Deliver
    <3> QED BY <2>1, <3>1, <3>2, QLenOf
  <2>3. g' = g
    BY <1>6, QLenOf, NoItemType DEF TypeOK, Deliver
  <2>4. r' = r - 1
    BY <1>6, FS_RemoveElement DEF TypeOK, SingleFile, Deliver
  <2>5. h' = h /\ holder' = "none"
    BY <1>6 DEF Deliver, InHand
  <2> QED BY <1>0, <1>a, <1>c, <2>2, <2>3, <2>4, <2>5
<1>7. ASSUME NEW x \in submitted, CbRaise(x)
      PROVE  Capped'
  <2>1. t' = t /\ g' = g /\ h' = h /\ holder' = "none"
    BY <1>7 DEF CbRaise, InHand
  <2>2. r' = r - 1
    BY <1>7, FS_RemoveElement DEF TypeOK, SingleFile, CbRaise
  <2> QED BY <1>0, <1>a, <1>c, <2>1, <2>2
<1>8. CASE TrainTake
  <2>1. g' = g /\ h' = h /\ r' = r /\ holder' = "none"
    BY <1>8 DEF TrainTake, InHand, genVars
  <2>2. t' \in Nat /\ t' <= t
    <3>1. preTrain \in [data : Seq(RolloutType), pending : Seq(RolloutType)] /\ t >= PromptPerIter
      BY <1>8 DEF TypeOK, TrainTake
    <3>2. PICK xs : preTrain' = [data |-> SubSeq(preTrain.data, PromptPerIter + 1, t),
                                 pending |-> xs]
      BY <1>8 DEF TrainTake
    <3> QED BY <3>1, <3>2, TakeFacts
  <2> QED BY <1>0, <1>a, <1>c, <2>1, <2>2
<1>9. CASE TrainSave
  <2>1. t' = t
    BY <1>9 DEF TypeOK, TrainSave, WeightDumped, QLen
  <2>2. SameCounts
    BY <1>9, <2>1 DEF TrainSave, InHand, genVars
  <2> QED BY <1>d, <2>2
<1>10. CtlExhausted => SameCounts
  BY DEF CtlExhausted, InHand, genVars
<1>11. TrainAdvance \/ TrainDeploy \/ TrainSynced => SameCounts
  BY DEF TrainAdvance, TrainDeploy, TrainSynced, InHand, ctlVars, genVars
<1>12. TrainStep \/ TrainNoSave \/ UNCHANGED vars => SameCounts
  BY DEF TrainStep, TrainNoSave, InHand, vars, ctlVars, genVars
<1> HIDE DEF SameCounts
<1> QED
  BY <1>1, <1>2, <1>3, <1>4, <1>5, <1>6, <1>7, <1>8, <1>9, <1>10, <1>11, <1>12, <1>d
     DEF Next, Control, Generation, Callback, CbDone, CbIgnoreError, Trainer, Collecting,
         Finished

\* At most max_untrained_prompts + 1 prompts are ever on their way from the
\* source to the trainer: the cap of _can_schedule_prompt_locked() holds
\* although the threads test and use it at different moments.
THEOREM BackpressureInvariant == Spec => []Backpressure
<1>1. Init => TypeOK /\ SingleFile /\ Capped
  BY InitType, InitSingleFile, InitCapped
<1>2. TypeOK /\ SingleFile /\ Capped /\ [Next]_vars => (TypeOK /\ SingleFile /\ Capped)'
  BY StepType, StepSingleFile, StepCapped
<1>3. Capped => Backpressure
  BY DEF Capped
<1> QED BY <1>1, <1>2, <1>3, PTL DEF Spec
-----------------------------------------------------------------------------
(* Which weights generate a prompt.                                        *)

\* The elements of pre_train after a take.
LEMMA TakeElements ==
  ASSUME NEW S, NEW q \in [data : Seq(S), pending : Seq(S)], QLen(q) >= PromptPerIter
  PROVE  /\ \A i \in DOMAIN SubSeq(q.data, 1, PromptPerIter) :
              /\ i \in 1 .. PromptPerIter /\ i \in DOMAIN q.data
              /\ SubSeq(q.data, 1, PromptPerIter)[i] = q.data[i]
         /\ \A i \in DOMAIN SubSeq(q.data, PromptPerIter + 1, QLen(q)) :
              /\ i \in Nat /\ i + PromptPerIter \in DOMAIN q.data
              /\ SubSeq(q.data, PromptPerIter + 1, QLen(q))[i] = q.data[i + PromptPerIter]
<1> USE ConfigTypes DEF FullyAsyncAssumption
<1>1. q.data \in Seq(S) /\ QLen(q) \in Nat /\ PromptPerIter \in Nat /\ QLen(q) = Len(q.data)
  BY QLenNat DEF QLen
<1>2. DOMAIN q.data = 1 .. QLen(q) /\ \A i \in 1 .. QLen(q) : q.data[i] \in S
  BY <1>1, LenProperties, ElementOfSeq
<1> DEFINE head == SubSeq(q.data, 1, PromptPerIter)
           tail == SubSeq(q.data, PromptPerIter + 1, QLen(q))
<1>3. /\ head \in Seq(S) /\ Len(head) = PromptPerIter
      /\ \A i \in 1 .. PromptPerIter : head[i] = q.data[i]
  BY <1>1, <1>2, SubSeqProperties
<1>4. /\ tail \in Seq(S) /\ Len(tail) = QLen(q) - PromptPerIter
      /\ \A i \in 1 .. QLen(q) - PromptPerIter : tail[i] = q.data[i + PromptPerIter]
  BY <1>1, <1>2, SubSeqProperties
<1>5. DOMAIN head = 1 .. PromptPerIter /\ DOMAIN tail = 1 .. QLen(q) - PromptPerIter
  BY <1>3, <1>4, LenProperties
<1> HIDE DEF head, tail
<1>6. \A i \in DOMAIN head : /\ i \in 1 .. PromptPerIter /\ i \in DOMAIN q.data
                            /\ head[i] = q.data[i]
  BY <1>1, <1>2, <1>3, <1>5
<1>7. \A i \in DOMAIN tail : /\ i \in Nat /\ i + PromptPerIter \in DOMAIN q.data
                            /\ tail[i] = q.data[i + PromptPerIter]
  BY <1>1, <1>2, <1>4, <1>5
<1> QED BY <1>6, <1>7 DEF head, tail

\* Nothing is scheduled for any version at first.
LEMMA InitVersion == Init => VersionInv
BY DEF Init, VersionInv, VersionGate, EmptyQueue

\* Every step keeps prompts behind the versions they were scheduled for.
LEMMA StepVersion == TypeOK /\ VersionInv /\ [Next]_vars => VersionInv'
<1> SUFFICES ASSUME TypeOK, VersionInv, [Next]_vars
             PROVE  VersionInv'
  OBVIOUS
<1> USE ConfigTypes DEF FullyAsyncAssumption
<1> DEFINE Untouched == UNCHANGED <<verVars, submitted, preTrain, trainer>>
<1>0. /\ preTrain \in [data : Seq(RolloutType), pending : Seq(RolloutType)]
      /\ train \in Int /\ infer \in Int /\ served \in Int
  BY DEF TypeOK
\* The rollouts in pre_train, when the weights only move forward.
<1>a. ASSUME train' \in Int, train <= train',
             \A i \in DOMAIN preTrain'.data : \E j \in DOMAIN preTrain.data :
               preTrain'.data[i] = preTrain.data[j]
      PROVE  \A i \in DOMAIN preTrain'.data :
               preTrain'.data[i].seen \subseteq preTrain'.data[i].sv .. train'
  <2>1. \A j \in DOMAIN preTrain.data : preTrain.data[j].sv \in Int
    <3>1. \A j \in DOMAIN preTrain.data : preTrain.data[j] \in RolloutType
      BY <1>0
    <3> QED BY <3>1 DEF RolloutType
  <2>2. ASSUME NEW i \in DOMAIN preTrain'.data
        PROVE  preTrain'.data[i].seen \subseteq preTrain'.data[i].sv .. train'
    <3>1. PICK j \in DOMAIN preTrain.data : preTrain'.data[i] = preTrain.data[j]
      BY <1>a
    <3>2. preTrain.data[j].seen \subseteq preTrain.data[j].sv .. train
      BY DEF VersionInv, VersionGate
    <3> QED BY <1>0, <1>a, <2>1, <3>1, <3>2
  <2> QED BY <2>2
<1>1. CASE GenSubmit
  <2> DEFINE y == Generating(gen.item, {served})
  <2>1. y.sv = gen.item.sv /\ y.seen = {served} /\ gen.item.sv \in Int
    BY DEF TypeOK, Generating, PromptType
  <2>2. submitted' = submitted \cup {y} /\ infer >= gen.item.sv
    BY <1>1 DEF GenSubmit, WeightsReady
  <2>3. UNCHANGED <<train, infer, served, preTrain, trainer>>
    BY <1>1 DEF GenSubmit, verVars, trainVars
  <2> HIDE DEF y
  <2>4. y.sv <= train /\ y.seen \subseteq y.sv .. train
    <3>1. infer <= served /\ served <= train
      BY DEF VersionInv
    <3>2. served \in y.sv .. train /\ y.sv <= train
      BY <1>0, <2>1, <2>2, <3>1
    <3> QED BY <2>1, <3>2
  <2> QED BY <2>2, <2>3, <2>4 DEF VersionInv, VersionGate
<1>2. ASSUME NEW x \in submitted, Deliver(x)
      PROVE  VersionInv'
  <2> DEFINE y == Rollout(x)
  <2>1. y \in RolloutType /\ y.sv = x.sv /\ y.seen = x.seen
    BY DEF TypeOK, Rollout, RolloutType, GeneratingType
  <2>2. preTrain' = Put(preTrain, y) /\ submitted' = submitted \ {x}
    BY <1>2 DEF Deliver
  <2>3. UNCHANGED <<train, infer, served, trainer>>
    BY <1>2 DEF Deliver, verVars, trainVars
  <2> HIDE DEF y
  <2>4. \A i \in DOMAIN preTrain'.data :
          preTrain'.data[i].seen \subseteq preTrain'.data[i].sv .. train
    BY <1>0, <2>1, <2>2, PutElements DEF VersionInv, VersionGate
  <2> QED BY <2>2, <2>3, <2>4 DEF VersionInv, VersionGate
<1>3. ASSUME NEW x \in submitted, CbRaise(x)
      PROVE  VersionInv'
  BY <1>3 DEF CbRaise, verVars, trainVars, VersionInv, VersionGate
<1>4. CASE TrainAdvance
  <2>1. train' = train + 1 /\ trainer'.pc = "sync"
    BY <1>4 DEF TypeOK, TrainAdvance, TrainerType
  <2>2. UNCHANGED <<infer, served, preTrain, submitted>>
    BY <1>4 DEF TrainAdvance, genVars
  <2>3. \A i \in DOMAIN preTrain'.data :
          preTrain'.data[i].seen \subseteq preTrain'.data[i].sv .. train'
    BY <1>0, <1>a, <2>1, <2>2
  <2>4. \A x \in submitted : x.sv <= train' /\ x.seen \subseteq x.sv .. train'
    BY <1>0, <2>1 DEF TypeOK, GeneratingType, VersionInv, VersionGate
  <2> QED BY <1>0, <2>1, <2>2, <2>3, <2>4 DEF VersionInv, VersionGate
<1>5. CASE TrainDeploy
  <2>1. UNCHANGED <<train, infer, preTrain>> /\ served' = train
    BY <1>5 DEF TrainDeploy
  <2>2. ASSUME NEW z \in submitted'
        PROVE  z.sv <= train /\ z.seen \subseteq z.sv .. train
    <3>1. PICK x \in submitted : z = Generating(x, x.seen \cup {train})
      BY <1>5 DEF TrainDeploy
    <3>2. z.sv = x.sv /\ z.seen = x.seen \cup {train} /\ x.sv \in Int
      BY <3>1 DEF TypeOK, Generating, GeneratingType
    <3> QED BY <1>0, <3>2 DEF VersionInv, VersionGate
  <2> QED BY <1>0, <2>1, <2>2 DEF VersionInv, VersionGate
<1>6. CASE TrainSynced
  <2>1. UNCHANGED <<train, served, preTrain, submitted>> /\ infer' = train
    BY <1>6 DEF TrainSynced, genVars
  <2>2. served = train /\ trainer'.pc = "collect"
    BY <1>6 DEF TypeOK, TrainSynced, TrainerType, VersionInv
  <2> QED BY <1>0, <2>1, <2>2 DEF VersionInv, VersionGate
<1>7. CASE TrainTake
  <2>1. UNCHANGED <<train, infer, served, submitted>> /\ trainer'.pc = "step"
    BY <1>7 DEF TrainTake, verVars, genVars
  <2>2. preTrain'.data = SubSeq(preTrain.data, PromptPerIter + 1, QLen(preTrain))
    BY <1>7 DEF TrainTake
  <2>3. QLen(preTrain) >= PromptPerIter
    BY <1>7 DEF TrainTake
  <2>4. \A i \in DOMAIN preTrain'.data : \E j \in DOMAIN preTrain.data :
          preTrain'.data[i] = preTrain.data[j]
    <3>1. ASSUME NEW i \in DOMAIN preTrain'.data
          PROVE  /\ i + PromptPerIter \in DOMAIN preTrain.data
                 /\ preTrain'.data[i] = preTrain.data[i + PromptPerIter]
      BY <1>0, <2>2, <2>3, TakeElements
    <3> QED BY <3>1
  <2>5. \A i \in DOMAIN preTrain'.data :
          preTrain'.data[i].seen \subseteq preTrain'.data[i].sv .. train'
    BY <1>0, <1>a, <2>1, <2>4
  <2> QED BY <2>1, <2>5 DEF VersionInv, VersionGate
<1>8. CASE TrainStep \/ TrainNoSave
  <2>1. UNCHANGED <<verVars, submitted, preTrain>> /\ trainer'.pc # "deployed"
    BY <1>8 DEF TypeOK, TrainStep, TrainNoSave, TrainerType, genVars
  <2> QED BY <2>1 DEF verVars, VersionInv, VersionGate
<1>9. CASE TrainSave
  <2>1. UNCHANGED <<verVars, submitted>> /\ trainer'.pc # "deployed"
    BY <1>9 DEF TypeOK, TrainSave, TrainerType, genVars
  <2>2. preTrain'.data = preTrain.data
    BY <1>9 DEF TypeOK, TrainSave, WeightDumped
  <2> QED BY <2>1, <2>2 DEF verVars, VersionInv, VersionGate
<1>10. CASE Untouched
  BY <1>10 DEF verVars, VersionInv, VersionGate
<1>11. CtlPop \/ CtlPut \/ CtlExhausted => Untouched
  BY DEF CtlPop, CtlPut, CtlExhausted, genVars, trainVars
<1>12. GenPop \/ GenPend \/ UNCHANGED vars => Untouched
  BY DEF GenPop, GenPend, vars, genVars, trainVars
<1> HIDE DEF Untouched
<1> QED
  BY <1>1, <1>2, <1>3, <1>4, <1>5, <1>6, <1>7, <1>8, <1>9, <1>10, <1>11, <1>12
     DEF Next, Control, Generation, Callback, CbDone, CbIgnoreError, Trainer, Collecting,
         Finished

\* No prompt is generated by weights older than those it was scheduled for, or
\* by weights the trainer has not produced.
THEOREM VersionGateInvariant == Spec => []VersionGate
<1>1. Init => TypeOK /\ VersionInv
  BY InitType, InitVersion
<1>2. TypeOK /\ VersionInv /\ [Next]_vars => (TypeOK /\ VersionInv)'
  BY StepType, StepVersion
<1>3. VersionInv => VersionGate
  BY DEF VersionInv
<1> QED BY <1>1, <1>2, <1>3, PTL DEF Spec
-----------------------------------------------------------------------------
(* The lag of a prompt behind the trainer.                                 *)

\* The arithmetic of PromptPerIter * lag.
LEMMA Arithmetic ==
  /\ PipelineLag \in Nat /\ RunningLag \in Nat
  /\ PipelineLag <= RunningLag /\ MaxStaleness <= RunningLag
  /\ \A l \in Int : PromptPerIter * l \in Int
  /\ \A l \in Int : PromptPerIter * (l + 1) = PromptPerIter * l + PromptPerIter
  /\ \A l, m \in Int : l <= m => PromptPerIter * l <= PromptPerIter * m
  /\ \A l, m \in Int : PromptPerIter * (l - m) = PromptPerIter * l - PromptPerIter * m
  /\ \A l \in Int :
       PromptPerIter * l <= MaxUntrainedPrompts + PromptPerIter => l <= PipelineLag
<1> USE ConfigTypes DEF FullyAsyncAssumption
<1>1. PipelineLag \in Nat
  BY DEF PipelineLag
<1>2. RunningLag \in Nat /\ PipelineLag <= RunningLag /\ MaxStaleness <= RunningLag
  BY <1>1 DEF RunningLag
<1>3. ASSUME NEW l \in Int
      PROVE  /\ PromptPerIter * l \in Int
             /\ PromptPerIter * (l + 1) = PromptPerIter * l + PromptPerIter
  OBVIOUS
<1>4. ASSUME NEW l \in Int, NEW m \in Int
      PROVE  PromptPerIter * (l - m) = PromptPerIter * l - PromptPerIter * m
  OBVIOUS
<1>5. ASSUME NEW l \in Int, NEW m \in Int, l <= m
      PROVE  PromptPerIter * l <= PromptPerIter * m
  BY <1>5
<1>6. ASSUME NEW l \in Int, PromptPerIter * l <= MaxUntrainedPrompts + PromptPerIter
      PROVE  l <= PipelineLag
  BY <1>6 DEF PipelineLag
<1> QED BY <1>1, <1>2, <1>3, <1>4, <1>5, <1>6

\* Nothing is under way at first.
LEMMA InitLag == Init => LagInv
BY DEF Init, LagInv, LogLength, WaitingLag, Waiting, ReadyLag, BatchLag, BoundedLag, EmptyQueue

\* Every step keeps the lag bounded.
LEMMA StepLag ==
  TypeOK /\ SingleFile /\ Capped /\ LagInv /\ [Next]_vars => LagInv'
<1> SUFFICES ASSUME TypeOK, SingleFile, Capped, LagInv, [Next]_vars
             PROVE  LagInv'
  OBVIOUS
<1> USE ConfigTypes DEF FullyAsyncAssumption
<1> DEFINE t == QLen(preTrain)
           r == Cardinality(running)
<1>0. /\ train \in Int /\ t \in Nat /\ r \in Nat
      /\ preTrain \in [data : Seq(RolloutType), pending : Seq(RolloutType)]
      /\ running \in SUBSET PromptType /\ IsFiniteSet(running)
  BY QLenNat, FS_CardinalityType DEF TypeOK
<1>a. Credit \in {0, PromptPerIter} /\ Available = t + r /\ Available \in Nat
  BY <1>0 DEF Credit, Available
<1>b. \A w \in Waiting : w.sv \in Nat
  <2>1. preGen.data \in Seq(PromptType) /\ hand \in PromptType /\ gen.item \in PromptType
    BY DEF TypeOK
  <2>2. \A i \in 1 .. Len(preGen.data) : preGen.data[i] \in PromptType
    BY <2>1, ElementOfSeq
  <2>3. Waiting \subseteq PromptType
    BY <2>1, <2>2 DEF Waiting
  <2> QED BY <2>3 DEF PromptType
<1>c. \A i \in DOMAIN preTrain.data : i \in Nat \ {0} /\ preTrain.data[i].sv \in Nat
  <2>1. preTrain.data \in Seq(RolloutType)
    BY <1>0
  <2>2. \A i \in DOMAIN preTrain.data : i \in Nat \ {0} /\ preTrain.data[i] \in RolloutType
    BY <2>1, LenProperties, ElementOfSeq
  <2> QED BY <2>2 DEF RolloutType
<1>d. \A x \in running : x.sv \in Nat
  BY <1>0 DEF PromptType
<1> DEFINE SameTrainer == UNCHANGED <<train, trainer, log>>
\* As long as the trainer stays, a waiting prompt is not overtaken.
<1>w. ASSUME UNCHANGED train, Waiting' \subseteq Waiting,
             Available' \in Int, Credit' \in Int,
             Available' + Credit' <= Available + Credit
      PROVE  WaitingLag'
  <2>1. ASSUME NEW w \in Waiting'
        PROVE  PromptPerIter * (train - w.sv) + Available' + Credit'
                 <= MaxUntrainedPrompts + PromptPerIter
    <3>1. w \in Waiting /\ w.sv \in Nat
      BY <1>b, <1>w
    <3> DEFINE n == PromptPerIter * (train - w.sv)
    <3>2. n \in Int
      BY <1>0, <3>1, Arithmetic
    <3>3. n + Available + Credit <= MaxUntrainedPrompts + PromptPerIter
      BY <3>1 DEF LagInv, WaitingLag
    <3> HIDE DEF n
    <3>4. n + Available' + Credit' <= MaxUntrainedPrompts + PromptPerIter
      <4>1. \A a, c, a2, c2 \in Int :
              n + a + c <= MaxUntrainedPrompts + PromptPerIter /\ a2 + c2 <= a + c
                => n + a2 + c2 <= MaxUntrainedPrompts + PromptPerIter
        BY <3>2
      <4>2. Available \in Int /\ Credit \in Int
        BY <1>a
      <4> QED BY <1>w, <3>3, <4>1, <4>2
    <3> QED BY <3>4 DEF n
  <2> QED BY <1>w, <2>1 DEF WaitingLag
<1>r. ASSUME UNCHANGED train, preTrain'.data = preTrain.data, Credit' = Credit
      PROVE  ReadyLag'
  BY <1>r DEF LagInv, ReadyLag
<1>s. ASSUME SameTrainer, \A x \in running' : train - x.sv <= RunningLag
      PROVE  LogLength' /\ BatchLag' /\ BoundedLag' /\ Credit' = Credit
  BY <1>s DEF LagInv, LogLength, BatchLag, BoundedLag, Credit
<1>1. CASE CtlPop
  <2>1. preGen.data = <<>> /\ t + r <= MaxUntrainedPrompts
    BY <1>1 DEF TypeOK, CtlPop, ScheduledVersion, CanSchedulePrompt, QLen
  <2>2. UNCHANGED <<preGen, gen, running, preTrain>> /\ SameTrainer
    BY <1>1 DEF CtlPop, verVars, genVars, trainVars
  <2>3. Waiting' = {hand'}
    BY <1>1, <2>1, <2>2 DEF TypeOK, SingleFile, CtlPop, Waiting
  <2>4. hand'.sv \in Nat /\ train <= hand'.sv
    BY <1>0, <1>1 DEF CtlPop, ScheduledVersion, Prompt
  <2>5. Available' = Available /\ Credit' = Credit
    BY <2>2 DEF Available, Credit
  <2>6. PromptPerIter * (train - hand'.sv) \in Int /\ PromptPerIter * (train - hand'.sv) <= 0
    <3>1. train - hand'.sv \in Int /\ train - hand'.sv <= 0
      BY <1>0, <2>4
    <3> QED BY <3>1, Arithmetic
  <2>7. WaitingLag'
    BY <1>0, <1>a, <2>1, <2>2, <2>3, <2>5, <2>6 DEF WaitingLag
  <2> QED BY <1>r, <1>s, <2>2, <2>7 DEF LagInv, BoundedLag
<1>2. ASSUME Waiting' \subseteq Waiting, running' = running, preTrain'.data = preTrain.data,
             SameTrainer
      PROVE  LagInv'
  <2>1. Available' = Available /\ Credit' = Credit
    BY <1>2 DEF Available, Credit, QLen
  <2> QED BY <1>0, <1>a, <1>2, <1>w, <1>r, <1>s, <2>1 DEF LagInv, BoundedLag
<1>3. CASE CtlPut
  <2>1. preGen.data = <<>> /\ Len(preGen'.data) = 1 /\ preGen'.data[1] = hand
    BY <1>3 DEF TypeOK, SingleFile, CtlPut, Put
  <2>2. Waiting' = Waiting
    BY <1>3, <2>1 DEF TypeOK, SingleFile, CtlPut, Waiting, genVars
  <2> QED BY <1>2, <1>3, <2>2 DEF CtlPut, verVars, genVars, trainVars
<1>4. CASE GenPop
  <2>1. Waiting' = Waiting
    BY <1>4, GenPopWaiting
  <2> QED BY <1>2, <1>4, <2>1 DEF GenPop, verVars, trainVars
<1>5. CASE GenPend
  <2>1. preGen.data = <<>> /\ preGen'.data = <<>>
    BY <1>5 DEF TypeOK, SingleFile, GenPend, Pend
  <2>2. gen.item \in Waiting /\ Waiting' = {}
    BY <1>5, <2>1 DEF TypeOK, SingleFile, GenPend, Waiting, ctlVars
  <2>3. running' = running \cup {gen.item} /\ preTrain' = preTrain /\ SameTrainer
    BY <1>5 DEF GenPend, verVars, trainVars
  <2>4. train - gen.item.sv <= RunningLag
    <3> DEFINE l == train - gen.item.sv
    <3>1. l \in Int /\ PromptPerIter * l \in Int
      BY <1>0, <1>b, <2>2, Arithmetic
    <3>2. PromptPerIter * l + Available + Credit <= MaxUntrainedPrompts + PromptPerIter
      BY <2>2 DEF LagInv, WaitingLag
    <3> HIDE DEF l
    <3>3. PromptPerIter * l <= MaxUntrainedPrompts + PromptPerIter
      BY <1>a, <3>1, <3>2
    <3>4. l <= PipelineLag
      BY <3>1, <3>3, Arithmetic
    <3> QED BY <3>1, <3>4, Arithmetic DEF l
  <2>5. \A x \in running' : train - x.sv <= RunningLag
    BY <2>3, <2>4 DEF LagInv, BoundedLag
  <2> QED BY <1>r, <1>s, <2>2, <2>3, <2>5 DEF LagInv, WaitingLag
<1>6. CASE GenSubmit
  <2>1. Waiting' = Waiting
    BY <1>6 DEF TypeOK, GenSubmit, Waiting, ctlVars
  <2> QED BY <1>2, <1>6, <2>1 DEF GenSubmit, verVars, trainVars
\* A callback: the prompt leaves running, for pre_train or for good.
<1>7. ASSUME NEW x \in submitted, Deliver(x)
      PROVE  LagInv'
  <2> DEFINE y == Rollout(x)
  <2>1. y \in RolloutType /\ y.sv = x.sv /\ ItemOf(x).sv = x.sv /\ ItemOf(x) \in running
    BY DEF TypeOK, SingleFile, Rollout, RolloutType, GeneratingType, ItemOf, Prompt
  <2>2. preTrain' = Put(preTrain, y) /\ running' = running \ {ItemOf(x)} /\ SameTrainer
    BY <1>7 DEF Deliver, verVars, trainVars
  <2> HIDE DEF y
  <2>3. Waiting' = Waiting
    BY <1>7 DEF TypeOK, Deliver, Ack, Waiting, ctlVars
  <2>4. t' = t + 1 /\ r' = r - 1 /\ r >= 1
    <3>1. t' = t + 1
      BY <1>0, <2>1, <2>2, QLenOf
    <3>2. r' = r - 1
      <4>1. IsFiniteSet(running) /\ ItemOf(x) \in running /\ running' = running \ {ItemOf(x)}
        BY <1>0, <2>1, <2>2
      <4> QED BY <4>1, FS_RemoveElement
    <3>3. r # 0
      BY <1>0, <2>1, FS_EmptySet
    <3> QED BY <1>0, <3>1, <3>2, <3>3
  <2>5. Available' = Available /\ Credit' = Credit
    <3>1. t' + r' = t + r
      BY <1>0, <2>4
    <3> QED BY <1>a, <2>2, <3>1 DEF Available, Credit
  <2>6. WaitingLag'
    BY <1>a, <1>w, <2>2, <2>3, <2>5
  <2>7. t <= MaxUntrainedPrompts
    <3>1. QLen(preGen) \in Nat /\ InHand \in Nat
      BY QLenNat DEF TypeOK, InHand
    <3>2. QLen(preGen) + InHand + r + t <= MaxUntrainedPrompts + 1
      BY DEF Capped, Backpressure, Outstanding
    <3> QED BY <1>0, <2>4, <3>1, <3>2
  <2>8. PromptPerIter * (train - x.sv) <= PromptPerIter * RunningLag
    <3>1. train - x.sv <= RunningLag /\ train - x.sv \in Int
      BY <1>0, <1>d, <2>1 DEF LagInv, BoundedLag
    <3> QED BY <3>1, Arithmetic
  <2>9. ReadyLag'
    <3> DEFINE Bound == PromptPerIter * RunningLag + MaxUntrainedPrompts + PromptPerIter
    <3>1. \A i \in DOMAIN preTrain'.data :
            \/ i \in DOMAIN preTrain.data /\ preTrain'.data[i] = preTrain.data[i]
            \/ i = t + 1 /\ preTrain'.data[i] = y
      BY <1>0, <2>1, <2>2, PutElements
    <3>2. PromptPerIter * (train - x.sv) \in Int /\ PromptPerIter * RunningLag \in Int
      <4>1. train - x.sv \in Int
        BY <1>0, <1>d, <2>1
      <4> QED BY <4>1, Arithmetic
    <3>3. PromptPerIter * (train - x.sv) + ((t + 1) - 1) + Credit <= Bound
      BY <1>0, <1>a, <2>7, <2>8, <3>2
    <3>4. \A i \in DOMAIN preTrain.data :
            PromptPerIter * (train - preTrain.data[i].sv) + (i - 1) + Credit <= Bound
      BY DEF LagInv, ReadyLag
    <3> HIDE DEF Bound
    <3>5. \A i \in DOMAIN preTrain'.data :
            PromptPerIter * (train - preTrain'.data[i].sv) + (i - 1) + Credit <= Bound
      BY <2>1, <3>1, <3>3, <3>4
    <3> QED BY <2>2, <2>5, <3>5 DEF ReadyLag, Bound
  <2>10. \A z \in running' : train - z.sv <= RunningLag
    BY <2>2 DEF LagInv, BoundedLag
  <2> QED BY <1>s, <2>2, <2>6, <2>9, <2>10 DEF LagInv
<1>8. ASSUME NEW x \in submitted, CbRaise(x)
      PROVE  LagInv'
  <2>1. running' = running \ {ItemOf(x)} /\ preTrain' = preTrain /\ SameTrainer
    BY <1>8 DEF CbRaise, verVars, trainVars
  <2>2. Waiting' = Waiting
    BY <1>8 DEF CbRaise, Waiting, ctlVars
  <2>3. Available' \in Nat /\ Available' <= Available /\ Credit' = Credit
    <3>1. r' \in Nat /\ r' <= r
      <4>1. IsFiniteSet(running') /\ (r' = r \/ r' = r - 1)
        BY <1>0, <2>1, FS_RemoveElement
      <4>2. r' \in Nat
        BY <4>1, FS_CardinalityType
      <4> QED BY <1>0, <4>1, <4>2
    <3>2. t' = t
      BY <2>1
    <3> QED BY <1>0, <2>1, <3>1, <3>2 DEF Available, Credit
  <2>4. WaitingLag'
    BY <1>a, <1>w, <2>1, <2>2, <2>3
  <2>5. \A z \in running' : train - z.sv <= RunningLag
    BY <2>1 DEF LagInv, BoundedLag
  <2> QED BY <1>r, <1>s, <2>1, <2>3, <2>4, <2>5 DEF LagInv
\* The version moves: what prompts lose in credit they gain in lag.
<1>9. CASE TrainAdvance
  <2>1. /\ train' = train + 1
        /\ UNCHANGED <<preTrain, running, log>>
        /\ trainer.pc = "idle" /\ trainer'.pc = "sync" /\ trainer'.batch = trainer.batch
    BY <1>9 DEF TypeOK, TrainAdvance, TrainerType, genVars
  <2>2. Waiting' = Waiting
    BY <1>9 DEF TrainAdvance, Waiting, ctlVars, genVars
  <2>3. Available' = Available /\ Credit' = 0 /\ Credit = PromptPerIter
    BY <2>1 DEF Available, Credit
  <2>4. \A sv \in Nat : /\ PromptPerIter * (train - sv) \in Int
                        /\ PromptPerIter * (train' - sv)
                             = PromptPerIter * (train - sv) + PromptPerIter
    <3>1. ASSUME NEW sv \in Nat
          PROVE  train' - sv = (train - sv) + 1 /\ train - sv \in Int
      BY <1>0, <2>1
    <3> QED BY <3>1, Arithmetic
  <2>5. WaitingLag'
    <3>1. ASSUME NEW w \in Waiting
          PROVE  PromptPerIter * (train' - w.sv) + Available + 0
                   <= MaxUntrainedPrompts + PromptPerIter
      <4>1. PromptPerIter * (train - w.sv) + Available + PromptPerIter
              <= MaxUntrainedPrompts + PromptPerIter
        BY <2>3 DEF LagInv, WaitingLag
      <4> QED BY <1>a, <1>b, <2>4, <4>1
    <3> QED BY <2>2, <2>3, <3>1 DEF WaitingLag
  <2>6. ReadyLag'
    <3> DEFINE Bound == PromptPerIter * RunningLag + MaxUntrainedPrompts + PromptPerIter
    <3>1. Bound \in Int
      BY Arithmetic
    <3> HIDE DEF Bound
    <3>2. ASSUME NEW i \in DOMAIN preTrain.data
          PROVE  PromptPerIter * (train' - preTrain.data[i].sv) + (i - 1) + 0 <= Bound
      <4>1. PromptPerIter * (train - preTrain.data[i].sv) + (i - 1) + PromptPerIter <= Bound
        BY <2>3 DEF LagInv, ReadyLag, Bound
      <4> QED BY <1>c, <2>4, <3>1, <4>1
    <3> QED BY <2>1, <2>3, <3>2 DEF ReadyLag, Bound
  <2>7. BoundedLag'
    <3>1. \A x \in running : train' - x.sv <= RunningLag
      <4>1. \A x \in running : (train + 1) - x.sv <= MaxStaleness
        BY <1>9 DEF TrainAdvance, CanAdvanceWeight
      <4> QED BY <1>0, <1>d, <2>1, <4>1, Arithmetic
    <3> QED BY <2>1, <3>1 DEF LagInv, BoundedLag
  <2>8. LogLength' /\ BatchLag'
    BY <1>0, <2>1 DEF LagInv, LogLength, BatchLag
  <2> QED BY <2>5, <2>6, <2>7, <2>8 DEF LagInv
<1>10. ASSUME UNCHANGED <<train, log, running>>, Waiting' = Waiting,
              preTrain'.data = preTrain.data, Credit' = Credit,
              (trainer'.pc \in {"after", "idle"}) <=> (trainer.pc \in {"after", "idle"}),
              trainer'.batch = trainer.batch, trainer.pc # "step"
       PROVE  LagInv'
  <2>1. Available' = Available
    BY <1>10 DEF Available, QLen
  <2>2. WaitingLag'
    BY <1>a, <1>w, <1>10, <2>1
  <2>3. LogLength' /\ BatchLag' /\ BoundedLag'
    BY <1>10 DEF LagInv, LogLength, BatchLag, BoundedLag
  <2> QED BY <1>r, <1>10, <2>2, <2>3 DEF LagInv
<1>11. CASE TrainDeploy \/ TrainSynced
  <2>1. /\ trainer.pc \in {"sync", "deployed"} /\ trainer'.pc \in {"deployed", "collect"}
        /\ trainer'.batch = trainer.batch
    BY <1>11 DEF TypeOK, TrainDeploy, TrainSynced, TrainerType
  <2>2. UNCHANGED <<train, log, running, preTrain, holder, hand, preGen, gen>>
    BY <1>11 DEF TrainDeploy, TrainSynced, ctlVars, genVars
  <2> QED BY <1>10, <2>1, <2>2 DEF Waiting, Credit
<1>12. CASE TrainSave \/ TrainNoSave
  <2>1. trainer.pc = "after" /\ trainer'.pc = "idle" /\ trainer'.batch = trainer.batch
    BY <1>12 DEF TypeOK, TrainSave, TrainNoSave, TrainerType
  <2>2. UNCHANGED <<train, log, running, holder, hand, preGen, gen>>
    BY <1>12 DEF TrainSave, TrainNoSave, verVars, ctlVars, genVars
  <2>3. preTrain'.data = preTrain.data
    BY <1>12 DEF TypeOK, TrainSave, TrainNoSave, WeightDumped
  <2> QED BY <1>10, <2>1, <2>2, <2>3 DEF Waiting, Credit
\* A batch is taken: the prompts behind it move up by as much as it is owed.
<1>13. CASE TrainTake
  <2>1. /\ UNCHANGED <<train, running, log, holder, hand, preGen, gen>>
        /\ trainer.pc = "collect" /\ trainer'.pc = "step"
        /\ trainer'.batch = SubSeq(preTrain.data, 1, PromptPerIter)
        /\ preTrain'.data = SubSeq(preTrain.data, PromptPerIter + 1, t)
        /\ t >= PromptPerIter
    BY <1>13 DEF TrainTake, verVars, ctlVars, genVars
  <2>2. Waiting' = Waiting /\ Credit = 0 /\ Credit' = PromptPerIter
    BY <2>1 DEF Waiting, Credit
  <2>3. Available' = Available - PromptPerIter
    <3>1. preTrain' = [data |-> SubSeq(preTrain.data, PromptPerIter + 1, t),
                       pending |-> preTrain'.pending]
      BY <1>13 DEF TrainTake
    <3>2. t' = t - PromptPerIter
      BY <1>0, <2>1, <3>1, TakeFacts
    <3> QED BY <1>0, <2>1, <3>2 DEF Available
  <2>4. WaitingLag'
    BY <1>a, <1>w, <2>1, <2>2, <2>3
  <2> DEFINE Bound == PromptPerIter * RunningLag + MaxUntrainedPrompts + PromptPerIter
  <2>5. \A i \in DOMAIN preTrain.data :
          /\ PromptPerIter * (train - preTrain.data[i].sv) + (i - 1) <= Bound
          /\ PromptPerIter * (train - preTrain.data[i].sv) \in Int
          /\ train - preTrain.data[i].sv \in Int /\ i \in Int
    <3>1. \A i \in DOMAIN preTrain.data : i \in Int /\ train - preTrain.data[i].sv \in Int
      BY <1>0, <1>c
    <3>2. \A i \in DOMAIN preTrain.data : PromptPerIter * (train - preTrain.data[i].sv) \in Int
      BY <3>1, Arithmetic
    <3>3. \A i \in DOMAIN preTrain.data :
            PromptPerIter * (train - preTrain.data[i].sv) + (i - 1) + 0 <= Bound
      BY <2>2 DEF LagInv, ReadyLag
    <3> HIDE DEF Bound
    <3> QED BY <3>1, <3>2, <3>3
  <2>6. ReadyLag'
    <3>1. ASSUME NEW i \in DOMAIN preTrain'.data
          PROVE  PromptPerIter * (train - preTrain'.data[i].sv) + (i - 1) + PromptPerIter
                   <= Bound
      <4>1. /\ i \in Nat /\ i + PromptPerIter \in DOMAIN preTrain.data
            /\ preTrain'.data[i] = preTrain.data[i + PromptPerIter]
        BY <1>0, <2>1, TakeElements
      <4> HIDE DEF Bound
      <4> DEFINE n == PromptPerIter * (train - preTrain'.data[i].sv)
      <4>2. n \in Int /\ n + ((i + PromptPerIter) - 1) <= Bound
        BY <2>5, <4>1
      <4> HIDE DEF n
      <4>3. n + (i - 1) + PromptPerIter <= Bound
        <5>1. n + (i - 1) + PromptPerIter = n + ((i + PromptPerIter) - 1)
          BY <4>1, <4>2
        <5> QED BY <4>2, <5>1
      <4> QED BY <4>3 DEF n
    <3> QED BY <2>1, <2>2, <3>1 DEF ReadyLag
  <2>7. BatchLag'
    <3>1. ASSUME NEW i \in DOMAIN trainer'.batch
          PROVE  train - trainer'.batch[i].sv <= RunningLag + PipelineLag
      <4>1. /\ i \in 1 .. PromptPerIter /\ i \in DOMAIN preTrain.data
            /\ trainer'.batch[i] = preTrain.data[i]
        BY <1>0, <2>1, TakeElements
      <4> DEFINE l == train - trainer'.batch[i].sv
      <4>2. /\ PromptPerIter * l + (i - 1) <= Bound
            /\ l \in Int /\ PromptPerIter * l \in Int
        BY <2>5, <4>1
      <4> HIDE DEF l
      <4>3. PromptPerIter * (l - RunningLag) <= MaxUntrainedPrompts + PromptPerIter
        <5>1. PromptPerIter * (l - RunningLag) = PromptPerIter * l - PromptPerIter * RunningLag
          BY <4>2, Arithmetic
        <5>2. PromptPerIter * RunningLag \in Int
          BY Arithmetic
        <5>3. PromptPerIter * l <= Bound
          BY <4>1, <4>2, <5>2
        <5> QED BY <4>2, <5>1, <5>2, <5>3
      <4>4. l - RunningLag <= PipelineLag
        BY <4>2, <4>3, Arithmetic
      <4>5. l <= RunningLag + PipelineLag
        BY <4>2, <4>4, Arithmetic
      <4> QED BY <4>5 DEF l
    <3> QED BY <2>1, <3>1 DEF BatchLag
  <2>8. LogLength' /\ BoundedLag'
    BY <2>1 DEF LagInv, LogLength, BoundedLag
  <2> QED BY <2>4, <2>6, <2>7, <2>8 DEF LagInv
<1>14. CASE TrainStep
  <2>1. /\ UNCHANGED <<train, running, preTrain, holder, hand, preGen, gen>>
        /\ trainer.pc = "step" /\ trainer'.pc = "after" /\ trainer'.batch = <<>>
        /\ log' = Append(log, trainer.batch)
    BY <1>14 DEF TrainStep, verVars, ctlVars, genVars
  <2>2. Waiting' = Waiting /\ Credit' = Credit /\ Available' = Available
    BY <2>1 DEF Waiting, Credit, Available
  <2>3. WaitingLag'
    BY <1>a, <1>w, <2>1, <2>2
  <2>4. /\ Len(log') = Len(log) + 1 /\ Len(log) = train
        /\ \A k \in DOMAIN log' :
             \/ k \in DOMAIN log /\ log'[k] = log[k]
             \/ k - 1 = train /\ log'[k] = trainer.batch
    <3>1. log \in Seq(Seq(RolloutType)) /\ trainer.batch \in Seq(RolloutType)
      BY DEF TypeOK, TrainerType
    <3>2. Len(log) = train
      BY <1>0, <2>1 DEF LagInv, LogLength
    <3>3. /\ DOMAIN log' = 1 .. Len(log) + 1 /\ DOMAIN log = 1 .. Len(log)
          /\ \A k \in 1 .. Len(log) : log'[k] = log[k]
          /\ log'[Len(log) + 1] = trainer.batch
          /\ Len(log') = Len(log) + 1
      BY <2>1, <3>1, AppendProperties, LenProperties
    <3> QED BY <1>0, <3>2, <3>3
  <2>5. BoundedLag'
    BY <2>1, <2>4 DEF LagInv, BoundedLag, BatchLag
  <2>6. LogLength' /\ BatchLag'
    BY <2>1, <2>4 DEF LogLength, BatchLag
  <2> QED BY <1>r, <2>1, <2>2, <2>3, <2>5, <2>6 DEF LagInv
<1>15. CASE CtlExhausted \/ UNCHANGED vars
  <2>1. SameTrainer /\ UNCHANGED <<running, preTrain, holder, hand, preGen, gen>>
    BY <1>15 DEF CtlExhausted, vars, verVars, ctlVars, genVars, trainVars
  <2> QED BY <1>2, <2>1 DEF Waiting
<1> HIDE DEF SameTrainer
<1> QED
  BY <1>1, <1>3, <1>4, <1>5, <1>6, <1>7, <1>8, <1>9, <1>11, <1>12, <1>13, <1>14, <1>15
     DEF Next, Control, Generation, Callback, CbDone, CbIgnoreError, Trainer, Collecting,
         Finished

\* A prompt that runs lags the trainer by no more than RunningLag versions and
\* one that is trained on by no more than RunningLag + PipelineLag, for every
\* cap, batch size and max_staleness.
THEOREM BoundedLagInvariant == Spec => []BoundedLag
<1>1. Init => TypeOK /\ SingleFile /\ Capped /\ LagInv
  BY InitType, InitSingleFile, InitCapped, InitLag
<1>2. TypeOK /\ SingleFile /\ Capped /\ LagInv /\ [Next]_vars
        => (TypeOK /\ SingleFile /\ Capped /\ LagInv)'
  BY StepType, StepSingleFile, StepCapped, StepLag
<1>3. LagInv => BoundedLag
  BY DEF LagInv
<1> QED BY <1>1, <1>2, <1>3, PTL DEF Spec
-----------------------------------------------------------------------------
(* The copies of a prompt.                                                 *)

\* The items of S that are of a prompt; Count counts these.
OfPrompt(S, p) == {x \in S : x.p = p}

\* How many there are is a number.
LEMMA CountTotal ==
  ASSUME NEW S, NEW s \in Seq(S), NEW p
  PROVE  Count(s, p) = Total(s, OfPrompt(S, p)) /\ Count(s, p) \in Nat
<1>1. DOMAIN s = 1 .. Len(s) /\ \A i \in 1 .. Len(s) : s[i] \in S
  BY LenProperties, ElementOfSeq
<1>2. {i \in DOMAIN s : s[i].p = p} = Places(s, OfPrompt(S, p))
  BY <1>1 DEF Places, OfPrompt
<1> QED BY <1>2, TotalType DEF Count, Total

\* Nothing is in the empty sequence.
LEMMA CountEmpty ==
  ASSUME NEW p
  PROVE  Count(<<>>, p) = 0
<1>1. {i \in DOMAIN <<>> : <<>>[i].p = p} = {}
  OBVIOUS
<1> QED BY <1>1, FS_EmptySet DEF Count

\* An item appended is one more of its prompt.
LEMMA CountAppend ==
  ASSUME NEW S, NEW s \in Seq(S), NEW x \in S, NEW p
  PROVE  Count(Append(s, x), p) = Count(s, p) + (IF x.p = p THEN 1 ELSE 0)
<1>1. Append(s, x) \in Seq(S) /\ (x \in OfPrompt(S, p) <=> x.p = p)
  BY AppendProperties DEF OfPrompt
<1>2. /\ Count(Append(s, x), p) = Total(Append(s, x), OfPrompt(S, p))
      /\ Count(s, p) = Total(s, OfPrompt(S, p))
  BY <1>1, CountTotal
<1>3. Total(Append(s, x), OfPrompt(S, p))
        = Total(s, OfPrompt(S, p)) + (IF x \in OfPrompt(S, p) THEN 1 ELSE 0)
  BY TotalAppend
<1> QED BY <1>1, <1>2, <1>3

\* One sequence behind another has the items of both.
LEMMA CountConcat ==
  ASSUME NEW S, NEW s \in Seq(S), NEW t \in Seq(S), NEW p
  PROVE  Count(s \o t, p) = Count(s, p) + Count(t, p)
<1>1. s \o t \in Seq(S)
  BY ConcatProperties
<1>2. Total(s \o t, OfPrompt(S, p)) = Total(s, OfPrompt(S, p)) + Total(t, OfPrompt(S, p))
  BY TotalConcat
<1>3. Count(s \o t, p) = Total(s \o t, OfPrompt(S, p))
  BY <1>1, CountTotal
<1>4. Count(s, p) = Total(s, OfPrompt(S, p)) /\ Count(t, p) = Total(t, OfPrompt(S, p))
  BY CountTotal
<1> QED BY <1>2, <1>3, <1>4

\* The oldest item is taken.
LEMMA CountTail ==
  ASSUME NEW S, NEW s \in Seq(S), Len(s) > 0, NEW p
  PROVE  Count(s, p) = Count(Tail(s), p) + (IF Head(s).p = p THEN 1 ELSE 0)
<1>1. Tail(s) \in Seq(S) /\ Head(s) \in S
  BY EmptySeq, HeadTailProperties
<1>2. Head(s) \in OfPrompt(S, p) <=> Head(s).p = p
  BY <1>1 DEF OfPrompt
<1>3. Count(s, p) = Total(s, OfPrompt(S, p)) /\ Count(Tail(s), p) = Total(Tail(s), OfPrompt(S, p))
  BY <1>1, CountTotal
<1>4. Total(s, OfPrompt(S, p))
        = Total(Tail(s), OfPrompt(S, p)) + (IF Head(s) \in OfPrompt(S, p) THEN 1 ELSE 0)
  BY TotalTail
<1> QED BY <1>2, <1>3, <1>4

\* An item that is pending is acked.
LEMMA CountWithout ==
  ASSUME NEW S, NEW s \in Seq(S), NEW k \in 1 .. Len(s), NEW p
  PROVE  /\ Count(s, p) = Count(Without(s, s[k]), p) + (IF s[k].p = p THEN 1 ELSE 0)
         /\ Without(s, s[k]) \in Seq(S)
         /\ Len(Without(s, s[k])) = Len(s) - 1
<1>1. s[k] \in S
  BY ElementOfSeq
<1>2. s[k] \in OfPrompt(S, p) <=> s[k].p = p
  BY <1>1 DEF OfPrompt
<1> QED BY <1>2, CountTotal, TotalWithout

\* A sequence is cut in two.
LEMMA CountCut ==
  ASSUME NEW S, NEW s \in Seq(S), NEW n \in Nat, n <= Len(s), NEW p
  PROVE  Count(s, p) = Count(SubSeq(s, 1, n), p) + Count(SubSeq(s, n + 1, Len(s)), p)
<1> DEFINE l == SubSeq(s, 1, n)
           r == SubSeq(s, n + 1, Len(s))
<1>1. Len(s) \in Nat /\ \A i \in 1 .. Len(s) : s[i] \in S
  BY LenProperties, ElementOfSeq
<1>2. /\ l \in Seq(S) /\ Len(l) = n
      /\ \A i \in 1 .. n : l[i] = s[i]
  <2>1. \A i \in 1 .. n : s[i] \in S
    BY <1>1
  <2> QED BY <2>1, SubSeqProperties
<1>3. /\ r \in Seq(S) /\ Len(r) = Len(s) - n
      /\ \A i \in 1 .. Len(s) - n : r[i] = s[n + i]
  <2>1. \A i \in n + 1 .. Len(s) : s[i] \in S
    BY <1>1
  <2>2. n + 1 \in Int /\ Len(s) \in Int
    BY <1>1
  <2>3. /\ r \in Seq(S)
        /\ Len(r) = IF n + 1 <= Len(s) THEN Len(s) - (n + 1) + 1 ELSE 0
        /\ \A i \in 1 .. Len(s) - (n + 1) + 1 : r[i] = s[(n + 1) + i - 1]
    BY <2>1, <2>2, SubSeqProperties
  <2>4. PICK m \in Nat : m = Len(s)
    BY <1>1
  <2>5. (IF n + 1 <= m THEN m - (n + 1) + 1 ELSE 0) = m - n
    BY <2>4
  <2>6. \A i \in 1 .. m - n : i \in 1 .. m - (n + 1) + 1 /\ (n + 1) + i - 1 = n + i
    BY <2>4
  <2> HIDE DEF r
  <2> QED BY <2>3, <2>4, <2>5, <2>6
<1> HIDE DEF l, r
<1>4. /\ l \o r \in Seq(S) /\ Len(l \o r) = Len(s)
      /\ \A i \in 1 .. Len(s) : (l \o r)[i] = (IF i <= n THEN l[i] ELSE r[i - n])
  <2>1. /\ l \o r \in Seq(S) /\ Len(l \o r) = Len(l) + Len(r)
        /\ \A i \in 1 .. Len(l) + Len(r) :
             (l \o r)[i] = (IF i <= Len(l) THEN l[i] ELSE r[i - Len(l)])
    BY <1>2, <1>3, ConcatProperties
  <2>2. Len(l) + Len(r) = Len(s)
    BY <1>1, <1>2, <1>3
  <2> QED BY <1>2, <2>1, <2>2
<1>5. \A i \in 1 .. Len(s) : (l \o r)[i] = s[i]
  <2>1. ASSUME NEW i \in 1 .. Len(s), ~(i <= n)
        PROVE  i - n \in 1 .. Len(s) - n /\ n + (i - n) = i
    BY <1>1, <2>1
  <2>2. \A i \in 1 .. Len(s) : i <= n => i \in 1 .. n
    BY <1>1
  <2> QED BY <1>2, <1>3, <1>4, <2>1, <2>2
<1>6. l \o r = s
  BY <1>1, <1>4, <1>5, SeqEqual
<1>7. Count(l \o r, p) = Count(l, p) + Count(r, p)
  BY <1>2, <1>3, CountConcat
<1> QED BY <1>6, <1>7 DEF l, r

\* The places of a prompt in the batches trained on are finitely many.
LEMMA TrainedSpread ==
  ASSUME NEW S, NEW l \in Seq(Seq(S)), NEW p
  PROVE  Trained(l, p) = Spread(l, OfPrompt(S, p)) /\ IsFiniteSet(Trained(l, p))
<1>1. ASSUME NEW k \in DOMAIN l
      PROVE  {i \in DOMAIN l[k] : l[k][i].p = p} = Places(l[k], OfPrompt(S, p))
  <2>1. l[k] \in Seq(S)
    BY LenProperties, ElementOfSeq
  <2>2. DOMAIN l[k] = 1 .. Len(l[k]) /\ \A i \in 1 .. Len(l[k]) : l[k][i] \in S
    BY <2>1, LenProperties, ElementOfSeq
  <2> QED BY <2>2 DEF Places, OfPrompt
<1>2. Trained(l, p) = Spread(l, OfPrompt(S, p))
  BY <1>1 DEF Trained, Spread
<1> QED BY <1>2, SpreadFinite

\* A batch is added to those trained on.
LEMMA TrainedAppend ==
  ASSUME NEW S, NEW l \in Seq(Seq(S)), NEW b \in Seq(S), NEW p
  PROVE  Cardinality(Trained(Append(l, b), p)) = Cardinality(Trained(l, p)) + Count(b, p)
<1>1. Append(l, b) \in Seq(Seq(S))
  BY AppendProperties
<1>2. /\ Trained(Append(l, b), p) = Spread(Append(l, b), OfPrompt(S, p))
      /\ Trained(l, p) = Spread(l, OfPrompt(S, p))
  BY <1>1, TrainedSpread
<1>3. Count(b, p) = Total(b, OfPrompt(S, p))
  BY CountTotal
<1>4. Cardinality(Spread(Append(l, b), OfPrompt(S, p)))
        = Cardinality(Spread(l, OfPrompt(S, p))) + Total(b, OfPrompt(S, p))
  BY SpreadAppend
<1> QED BY <1>2, <1>3, <1>4
-----------------------------------------------------------------------------
(* Restarts: the inductive invariants.                                     *)

CkptType ==
  [train : Int, exhausted : BOOLEAN, source : 1 .. NumPrompts + 1,
   genData : Seq(PromptType), genPending : Seq(PromptType),
   trainItems : Seq(RolloutType), log : Seq(Seq(RolloutType)), clean : BOOLEAN]

SnapType ==
  [part : {"none", "exhausted", "source", "genData", "genPending", "train", "move", "copy"},
   ckpt : CkptType, size : Nat]

\* The shared state of the controller, its checkpoints and the snapshot.
ResumeTypeOK ==
  /\ TypeOK
  /\ snap \in SnapType /\ dumps \in Seq(CkptType) /\ latest \in CkptType
  /\ crashes \in Nat /\ tainted \in BOOLEAN

\* The checkpoints a restart may find now or later.
Saved == {latest} \cup {dumps[i] : i \in DOMAIN dumps}

\* A checkpoint, once written, ends no source early ...
EndsLate(c) == c.exhausted => c.source > NumPrompts

\* ... and neither does one whose source is still to be read.
Early ==
  /\ NeverEndedEarly
  /\ \A c \in Saved : EndsLate(c)
  /\ snap.part = "source" => (snap.ckpt.exhausted => source > NumPrompts)
  /\ snap.part \notin {"exhausted", "source"} => EndsLate(snap.ckpt)

\* The generation worker inside the lock, and the batch in the trainer's hands.
Handed ==
  /\ gen.pc = "pend" <=> holder = "generation"
  /\ trainer.pc # "step" => trainer.batch = <<>>

\* The same, and what is known of a snapshot whatever the other threads did
\* while it was taken.
Taking ==
  /\ gen.pc = "pend" <=> holder = "generation"
  /\ trainer.pc # "step" => trainer.batch = <<>>
  /\ snap.part # "none" =>
       /\ trainer.pc = "snapshot" /\ preTrain.pending = <<>>
       /\ snap.ckpt.train = train /\ snap.ckpt.log = log
  /\ snap.part = "none" => snap.ckpt = FreshCkpt

\* The rollouts of a checkpoint were generated by weights it has, and its
\* prompts scheduled for versions it has.
SeenBy(c) ==
  \A i \in DOMAIN c.trainItems : c.trainItems[i].seen \subseteq c.trainItems[i].sv .. c.train

NoNewer(s, v) == \A i \in DOMAIN s : s[i].sv <= v \/ s[i].sv = 0

Scheduled(c) == NoNewer(c.genData, c.train) /\ NoNewer(c.genPending, c.train)

Versions ==
  /\ VersionInv
  /\ train >= -1
  /\ \A c \in Saved : c.train >= -1 /\ SeenBy(c) /\ Scheduled(c)
  /\ SeenBy(snap.ckpt) /\ Scheduled(snap.ckpt)

\* Prompts are scheduled for versions that are deployed or about to be.
Synced ==
  /\ trainer.pc = "idle" => infer \in {-1, train} /\ (crashes = 0 => infer = train)
  /\ trainer.pc \in {"collect", "step", "after", "snapshot", "failed"} => infer = train
  /\ trainer.pc # "idle" => train >= 0
  /\ NoNewer(preGen.data, train) /\ NoNewer(preGen.pending, train)
  /\ \A x \in running : x.sv <= train \/ x.sv = 0
  /\ hand.sv <= train \/ hand.sv = 0
  /\ gen.item.sv <= train \/ gen.item.sv = 0

\* The prompts that count as running are those handed out and not acked, and
\* those that are submitted are different prompts.
Running ==
  /\ \A y \in running : Contains(preGen.pending, y)
  /\ Len(preGen.pending) = Cardinality(running) + (IF cbAlive THEN 0 ELSE 1)
  /\ gen.pc = "wait" => gen.item \in running /\ \A x \in submitted : x.p # gen.item.p
  /\ \A x \in submitted : ItemOf(x) \in running
  /\ \A x, y \in submitted : x.p = y.p => x = y

CappedResume == Outstanding <= MaxUntrainedPrompts + 1 + crashes

CkptCopies(c, p) ==
  Cardinality(Trained(c.log, p)) + Count(c.trainItems, p)
    + Count(c.genPending, p) + Count(c.genData, p)

\* A checkpoint of one moment has every prompt handed out by then once, and no
\* more of them than the cap of a run after n crashes lets through.
Exact(c, n) ==
  /\ \A p \in 0 .. NumPrompts : CkptCopies(c, p) = IF p \in 1 .. c.source - 1 THEN 1 ELSE 0
  /\ Len(c.trainItems) + Len(c.genPending) + Len(c.genData) <= MaxUntrainedPrompts + 2 + n

\* What a snapshot still of one moment has read.
Reading ==
  snap.part \notin {"none", "copy"} =>
    /\ holder = "none"
    /\ snap.part \notin {"exhausted", "source"} => snap.ckpt.source = source
    /\ snap.part \in {"genPending", "train", "move"} => snap.ckpt.genData = preGen.data
    /\ snap.part \in {"train", "move"} => snap.ckpt.genPending = preGen.pending
    /\ snap.part = "move" => snap.ckpt.trainItems = preTrain.data

Good ==
  /\ ExactlyOnce
  /\ Running
  /\ CappedResume
  /\ \A c \in Saved : c.clean => Exact(c, crashes)
  /\ snap.part = "copy" /\ snap.ckpt.clean => Exact(snap.ckpt, crashes)
  /\ snap.ckpt.clean => Reading

ResumeInv ==
  /\ ResumeTypeOK /\ Early /\ Taking /\ Versions /\ Synced
  /\ ~tainted => Good
-----------------------------------------------------------------------------
(* The steps.                                                              *)

\* A step of FullyAsyncFlow, other than a save, while the snapshot is kept.
FlowStep ==
  /\ \/ Control \/ Generation \/ Callback \/ Collecting \/ TrainNoSave
     \/ UNCHANGED vars
  /\ UNCHANGED <<dumps, latest, crashes, tainted>>
  /\ \/ snap' = snap
     \/ snap.part \notin {"none", "copy"} /\ snap' = [snap EXCEPT !.ckpt.clean = FALSE]
  /\ snap.part \notin {"none", "copy"} /\ snap' = snap =>
       UNCHANGED vars \/ Collecting \/ TrainNoSave \/ ~snap.ckpt.clean

\* What a snapshot is once a part has been read.
ReadStep ==
  \/ SnapExhausted \/ SnapSource \/ SnapGenData \/ SnapGenPending \/ SnapTrain \/ MoveBegin

\* A record with its clean flag cleared is the same otherwise.
LEMMA CleanOnly ==
  ASSUME snap \in SnapType, snap' = [snap EXCEPT !.ckpt.clean = FALSE]
  PROVE  /\ snap' \in SnapType /\ snap'.part = snap.part /\ ~snap'.ckpt.clean
         /\ snap'.ckpt = [snap.ckpt EXCEPT !.clean = FALSE]
<1>1. snap.ckpt \in CkptType /\ snap.size \in Nat
  BY DEF SnapType
<1>2. snap'.ckpt = [snap.ckpt EXCEPT !.clean = FALSE] /\ snap'.part = snap.part
  BY DEF SnapType
<1>3. [snap.ckpt EXCEPT !.clean = FALSE] \in CkptType
  BY <1>1 DEF CkptType
<1>4. ~snap'.ckpt.clean
  BY <1>1, <1>2 DEF CkptType
<1>5. snap' = [snap EXCEPT !.ckpt = [snap.ckpt EXCEPT !.clean = FALSE]]
  OBVIOUS
<1>6. snap' \in SnapType
  BY <1>3, <1>5 DEF SnapType
<1> QED BY <1>2, <1>4, <1>6

\* Every step is one of these.
LEMMA StepKinds ==
  ASSUME ResumeTypeOK, [ResumeNext]_resumeVars
  PROVE  FlowStep \/ SaveBegin \/ ReadStep \/ MoveDone \/ MoveFails \/ DumpDone \/ Restart
<1>1. CASE Background
  <2>1. CASE snap.part \in {"none", "copy"}
    BY <1>1, <2>1 DEF Background, FlowStep
  <2>2. CASE snap.part \notin {"none", "copy"}
    <3>1. snap' = [snap EXCEPT !.ckpt.clean = FALSE]
      BY <1>1, <2>2 DEF Background
    <3>2. ~snap'.ckpt.clean
      BY <3>1, CleanOnly DEF ResumeTypeOK
    <3> QED BY <1>1, <2>2, <3>1, <3>2 DEF Background, FlowStep
  <2> QED BY <2>1, <2>2
<1>2. CASE TrainerStep
  BY <1>2 DEF TrainerStep, FlowStep, ckptVars
<1>3. CASE Done \/ UNCHANGED resumeVars
  <2>1. UNCHANGED vars /\ UNCHANGED <<ckptVars, crashes, tainted>>
    BY <1>3 DEF Done, Finished, resumeVars
  <2> QED BY <2>1 DEF FlowStep, ckptVars
<1> QED BY <1>1, <1>2, <1>3 DEF ResumeNext, Snapshot, ReadStep

\* A flow step is a step of FullyAsyncFlow.
LEMMA FlowStepNext == FlowStep => [Next]_vars
BY DEF FlowStep, Next, Trainer

\* What a flow step leaves of a snapshot.
LEMMA FlowStepSnap ==
  ASSUME snap \in SnapType, FlowStep
  PROVE  /\ snap' \in SnapType /\ snap'.part = snap.part
         /\ snap'.ckpt.train = snap.ckpt.train /\ snap'.ckpt.exhausted = snap.ckpt.exhausted
         /\ snap'.ckpt.source = snap.ckpt.source /\ snap'.ckpt.genData = snap.ckpt.genData
         /\ snap'.ckpt.genPending = snap.ckpt.genPending
         /\ snap'.ckpt.trainItems = snap.ckpt.trainItems /\ snap'.ckpt.log = snap.ckpt.log
         /\ snap'.ckpt.clean => snap' = snap
<1>1. CASE snap' = snap
  BY <1>1
<1>2. CASE snap' = [snap EXCEPT !.ckpt.clean = FALSE]
  <2>1. snap.ckpt \in CkptType
    BY DEF SnapType
  <2>2. /\ snap' \in SnapType /\ snap'.part = snap.part /\ ~snap'.ckpt.clean
        /\ snap'.ckpt = [snap.ckpt EXCEPT !.clean = FALSE]
    BY <1>2, CleanOnly
  <2> QED BY <2>1, <2>2 DEF CkptType
<1> QED BY <1>1, <1>2 DEF FlowStep

\* A part is read into the snapshot.
LEMMA ReadSteps ==
  ASSUME ResumeTypeOK, ReadStep
  PROVE  /\ UNCHANGED <<vars, dumps, latest, crashes, tainted>>
         /\ snap' \in SnapType
         /\ \/ /\ snap.part = "exhausted" /\ snap'.part = "source"
               /\ snap'.ckpt = [snap.ckpt EXCEPT !.exhausted = exhausted]
            \/ /\ snap.part = "source" /\ snap'.part = "genData"
               /\ snap'.ckpt = [snap.ckpt EXCEPT !.source = source]
            \/ /\ snap.part = "genData" /\ snap'.part = "genPending"
               /\ snap'.ckpt = [snap.ckpt EXCEPT !.genData = preGen.data]
            \/ /\ snap.part = "genPending" /\ snap'.part = "train"
               /\ snap'.ckpt = [snap.ckpt EXCEPT !.genPending = preGen.pending]
            \/ /\ snap.part = "train" /\ snap'.part = "move"
               /\ snap'.ckpt =
                    [snap.ckpt EXCEPT !.trainItems = preTrain.pending \o preTrain.data]
            \/ snap.part = "move" /\ snap'.part = "copy" /\ snap'.ckpt = snap.ckpt
<1> DEFINE Parts == {"none", "exhausted", "source", "genData", "genPending", "train",
                     "move", "copy"}
           Set(c, part, size) == [part |-> part, ckpt |-> c, size |-> size]
<1>1. /\ snap.ckpt \in CkptType /\ snap.size \in Nat
      /\ snap = [part |-> snap.part, ckpt |-> snap.ckpt, size |-> snap.size]
  BY DEF ResumeTypeOK, SnapType
<1>2. /\ exhausted \in BOOLEAN /\ source \in 1 .. NumPrompts + 1
      /\ preGen.data \in Seq(PromptType) /\ preGen.pending \in Seq(PromptType)
      /\ preTrain.data \in Seq(RolloutType) /\ preTrain.pending \in Seq(RolloutType)
      /\ IsFiniteSet(running)
  BY DEF ResumeTypeOK, TypeOK
<1>3. preTrain.pending \o preTrain.data \in Seq(RolloutType)
  BY <1>2, ConcatProperties
<1>a. ASSUME NEW c \in CkptType, NEW part \in Parts, NEW size \in Nat, snap' = Set(c, part, size)
      PROVE  snap' \in SnapType /\ snap'.part = part /\ snap'.ckpt = c
  BY <1>a DEF SnapType
<1>4. CASE SnapExhausted
  <2>1. /\ snap.part = "exhausted" /\ UNCHANGED <<vars, dumps, latest, crashes, tainted>>
        /\ snap' = [snap EXCEPT !.part = "source", !.ckpt["exhausted"] = exhausted]
    BY <1>4 DEF SnapExhausted, Read
  <2> DEFINE c == [snap.ckpt EXCEPT !.exhausted = exhausted]
  <2>2. c \in CkptType
    BY <1>1, <1>2 DEF CkptType
  <2>3. snap' = Set(c, "source", snap.size)
    BY <1>1, <2>1
  <2> HIDE DEF c, Set
  <2>4. snap' \in SnapType /\ snap'.part = "source" /\ snap'.ckpt = c
    BY <1>a, <1>1, <2>2, <2>3
  <2> QED BY <2>1, <2>4 DEF c
<1>5. CASE SnapSource
  <2>1. /\ snap.part = "source" /\ UNCHANGED <<vars, dumps, latest, crashes, tainted>>
        /\ snap' = [snap EXCEPT !.part = "genData", !.ckpt["source"] = source]
    BY <1>5 DEF SnapSource, Read
  <2> DEFINE c == [snap.ckpt EXCEPT !.source = source]
  <2>2. c \in CkptType
    BY <1>1, <1>2 DEF CkptType
  <2>3. snap' = Set(c, "genData", snap.size)
    BY <1>1, <2>1
  <2> HIDE DEF c, Set
  <2>4. snap' \in SnapType /\ snap'.part = "genData" /\ snap'.ckpt = c
    BY <1>a, <1>1, <2>2, <2>3
  <2> QED BY <2>1, <2>4 DEF c
<1>6. CASE SnapGenData
  <2>1. /\ snap.part = "genData" /\ UNCHANGED <<vars, dumps, latest, crashes, tainted>>
        /\ snap' = [snap EXCEPT !.part = "genPending", !.ckpt["genData"] = preGen.data]
    BY <1>6 DEF SnapGenData, Read
  <2> DEFINE c == [snap.ckpt EXCEPT !.genData = preGen.data]
  <2>2. c \in CkptType
    BY <1>1, <1>2 DEF CkptType
  <2>3. snap' = Set(c, "genPending", snap.size)
    BY <1>1, <2>1
  <2> HIDE DEF c, Set
  <2>4. snap' \in SnapType /\ snap'.part = "genPending" /\ snap'.ckpt = c
    BY <1>a, <1>1, <2>2, <2>3
  <2> QED BY <2>1, <2>4 DEF c
<1>7. CASE SnapGenPending
  <2>1. /\ snap.part = "genPending" /\ UNCHANGED <<vars, dumps, latest, crashes, tainted>>
        /\ snap' = [snap EXCEPT !.part = "train", !.ckpt["genPending"] = preGen.pending]
    BY <1>7 DEF SnapGenPending, Read
  <2> DEFINE c == [snap.ckpt EXCEPT !.genPending = preGen.pending]
  <2>2. c \in CkptType
    BY <1>1, <1>2 DEF CkptType
  <2>3. snap' = Set(c, "train", snap.size)
    BY <1>1, <2>1
  <2> HIDE DEF c, Set
  <2>4. snap' \in SnapType /\ snap'.part = "train" /\ snap'.ckpt = c
    BY <1>a, <1>1, <2>2, <2>3
  <2> QED BY <2>1, <2>4 DEF c
<1>8. CASE SnapTrain
  <2>1. /\ snap.part = "train" /\ UNCHANGED <<vars, dumps, latest, crashes, tainted>>
        /\ snap' = [snap EXCEPT !.part = "move",
                                !.ckpt["trainItems"] = preTrain.pending \o preTrain.data]
    BY <1>8 DEF SnapTrain, Read, StateDict
  <2> DEFINE c == [snap.ckpt EXCEPT !.trainItems = preTrain.pending \o preTrain.data]
  <2>2. c \in CkptType
    BY <1>1, <1>3 DEF CkptType
  <2>3. snap' = Set(c, "move", snap.size)
    BY <1>1, <2>1
  <2> HIDE DEF c, Set
  <2>4. snap' \in SnapType /\ snap'.part = "move" /\ snap'.ckpt = c
    BY <1>a, <1>1, <2>2, <2>3
  <2> QED BY <2>1, <2>4 DEF c
<1>9. CASE MoveBegin
  <2>1. /\ snap.part = "move" /\ UNCHANGED <<vars, dumps, latest, crashes, tainted>>
        /\ snap' = [snap EXCEPT !.part = "copy", !.size = Cardinality(running)]
    BY <1>9 DEF MoveBegin
  <2>2. Cardinality(running) \in Nat
    BY <1>2, FS_CardinalityType
  <2>3. snap' = Set(snap.ckpt, "copy", Cardinality(running))
    BY <1>1, <2>1
  <2> HIDE DEF Set
  <2>4. snap' \in SnapType /\ snap'.part = "copy" /\ snap'.ckpt = snap.ckpt
    BY <1>a, <1>1, <2>2, <2>3
  <2> QED BY <2>1, <2>4
<1> QED BY <1>4, <1>5, <1>6, <1>7, <1>8, <1>9 DEF ReadStep

\* A fresh start is a checkpoint.
LEMMA FreshType == FreshCkpt \in CkptType /\ NoSnap \in SnapType
<1>1. FreshCkpt \in CkptType
  BY ConfigTypes, EmptySeq DEF FullyAsyncAssumption, FreshCkpt, CkptType
<1> QED BY <1>1 DEF NoSnap, SnapType

\* What a save begins with.
LEMMA SaveBeginSnap ==
  ASSUME ResumeTypeOK, SaveBegin
  PROVE  /\ snap' \in SnapType /\ snap'.part = "exhausted"
         /\ snap'.ckpt.train = train /\ snap'.ckpt.log = log
         /\ snap'.ckpt.clean <=> holder = "none"
         /\ snap'.ckpt.genData = <<>> /\ snap'.ckpt.genPending = <<>>
         /\ snap'.ckpt.trainItems = <<>>
         /\ preTrain' = [data |-> preTrain.data, pending |-> <<>>]
<1> DEFINE c == [FreshCkpt EXCEPT !.train = train, !.log = log, !.clean = (holder = "none")]
<1>1. FreshCkpt \in CkptType
  BY FreshType
<1>2. train \in Int /\ log \in Seq(Seq(RolloutType))
  BY DEF ResumeTypeOK, TypeOK
<1>3. (holder = "none") \in BOOLEAN
  OBVIOUS
<1>4. c \in CkptType
  BY <1>1, <1>2, <1>3 DEF CkptType
<1>5. snap' = [part |-> "exhausted", size |-> 0, ckpt |-> c]
  BY DEF SaveBegin
<1>6. /\ c.train = train /\ c.log = log /\ (c.clean <=> holder = "none")
      /\ c.genData = <<>> /\ c.genPending = <<>> /\ c.trainItems = <<>>
  BY DEF FreshCkpt
<1>7. preTrain' = [data |-> preTrain.data, pending |-> <<>>]
  BY DEF ResumeTypeOK, TypeOK, SaveBegin, WeightDumped
<1> HIDE DEF c
<1> QED BY <1>4, <1>5, <1>6, <1>7 DEF SnapType

\* What a restart finds.
LEMMA RestartQueues ==
  ASSUME Restart
  PROVE  /\ preGen' = [data |-> latest.genPending \o latest.genData, pending |-> <<>>]
         /\ preTrain' = [data |-> latest.trainItems, pending |-> <<>>]
BY DEF Restart, LoadState, StateDict, EmptyQueue

\* Checkpoints are saved, dumped and found again.
LEMMA SavedStep ==
  ASSUME ResumeTypeOK, [ResumeNext]_resumeVars, NEW c \in Saved'
  PROVE  c \in Saved \/ (MoveDone /\ c = snap.ckpt)
<1>0. dumps \in Seq(CkptType) /\ DOMAIN dumps = 1 .. Len(dumps) /\ Len(dumps) \in Nat
  BY LenProperties DEF ResumeTypeOK
<1>1. CASE UNCHANGED <<dumps, latest>>
  BY <1>1 DEF Saved
<1>2. CASE MoveDone
  <2>1. dumps' = Append(dumps, snap.ckpt) /\ latest' = latest /\ snap.ckpt \in CkptType
    BY <1>2 DEF MoveDone, ResumeTypeOK, SnapType
  <2>2. /\ DOMAIN dumps' = 1 .. Len(dumps) + 1
        /\ \A i \in 1 .. Len(dumps) : dumps'[i] = dumps[i]
        /\ dumps'[Len(dumps) + 1] = snap.ckpt
    BY <1>0, <2>1, AppendProperties, LenProperties
  <2>3. \A i \in DOMAIN dumps' : i \in DOMAIN dumps \/ i = Len(dumps) + 1
    BY <1>0, <2>2
  <2> QED BY <1>0, <1>2, <2>1, <2>2, <2>3 DEF Saved
<1>3. CASE DumpDone
  <2>1. dumps # <<>> /\ latest' = Head(dumps) /\ dumps' = Tail(dumps)
    BY <1>3 DEF DumpDone
  <2>2. /\ Len(Tail(dumps)) = Len(dumps) - 1 /\ Tail(dumps) \in Seq(CkptType)
        /\ Head(dumps) = dumps[1] /\ 1 \in DOMAIN dumps
        /\ \A i \in 1 .. Len(dumps) - 1 : Tail(dumps)[i] = dumps[i + 1]
    BY <1>0, <2>1, HeadTailProperties, EmptySeq
  <2>3. DOMAIN dumps' = 1 .. Len(dumps) - 1
    BY <2>1, <2>2, LenProperties
  <2>4. \A i \in DOMAIN dumps' : i + 1 \in DOMAIN dumps
    BY <1>0, <2>3
  <2> QED BY <2>1, <2>2, <2>3, <2>4 DEF Saved
<1>4. CASE Restart
  <2>1. latest' = latest /\ dumps' = <<>>
    BY <1>4 DEF Restart
  <2> QED BY <2>1 DEF Saved
<1>5. SaveBegin \/ MoveFails => UNCHANGED <<dumps, latest>>
  BY DEF SaveBegin, MoveFails
<1>6. FlowStep => UNCHANGED <<dumps, latest>>
  BY DEF FlowStep
<1>7. ReadStep => UNCHANGED <<dumps, latest>>
  BY ReadSteps
<1> QED BY <1>1, <1>2, <1>3, <1>4, <1>5, <1>6, <1>7, StepKinds

\* The initial state is well typed.
LEMMA InitResumeType == ResumeInit => ResumeTypeOK
<1> SUFFICES ASSUME ResumeInit PROVE ResumeTypeOK
  OBVIOUS
<1>1. TypeOK /\ dumps = <<>> /\ latest = FreshCkpt /\ snap = NoSnap
  BY InitType DEF ResumeInit
<1>2. crashes \in Nat /\ tainted \in BOOLEAN
  BY DEF ResumeInit
<1>3. dumps \in Seq(CkptType)
  BY <1>1
<1> QED BY <1>1, <1>2, <1>3, FreshType DEF ResumeTypeOK

\* Every step keeps it well typed.
LEMMA StepResumeType ==
  ASSUME ResumeTypeOK, [ResumeNext]_resumeVars
  PROVE  ResumeTypeOK'
<1>0. /\ TypeOK /\ snap \in SnapType /\ dumps \in Seq(CkptType) /\ latest \in CkptType
      /\ crashes \in Nat /\ tainted \in BOOLEAN /\ snap.ckpt \in CkptType
  BY DEF ResumeTypeOK, SnapType
<1>1. CASE FlowStep
  <2>1. TypeOK'
    BY <1>0, <1>1, FlowStepNext, StepType
  <2>2. snap' \in SnapType
    BY <1>0, <1>1, FlowStepSnap
  <2> QED BY <1>0, <1>1, <2>1, <2>2 DEF FlowStep, ResumeTypeOK
<1>2. CASE SaveBegin
  <2>1. snap' \in SnapType /\ preTrain' = [data |-> preTrain.data, pending |-> <<>>]
    BY <1>2, SaveBeginSnap
  <2>2. preTrain' \in [data : Seq(RolloutType), pending : Seq(RolloutType)]
    BY <1>0, <2>1, EmptySeq DEF TypeOK
  <2>3. trainer' \in TrainerType
    BY <1>0, <1>2 DEF SaveBegin, TypeOK, TrainerType
  <2>4. TypeOK'
    BY <1>0, <1>2, <2>2, <2>3 DEF SaveBegin, TypeOK, verVars, ctlVars, genVars
  <2> QED BY <1>0, <1>2, <2>1, <2>4 DEF SaveBegin, ResumeTypeOK
<1>3. CASE ReadStep
  <2>1. UNCHANGED <<vars, dumps, latest, crashes, tainted>> /\ snap' \in SnapType
    BY <1>3, ReadSteps
  <2>2. TypeOK'
    BY <1>0, <2>1, StepType
  <2> QED BY <1>0, <2>1, <2>2 DEF ResumeTypeOK
<1>4. CASE MoveDone
  <2>1. dumps' \in Seq(CkptType)
    BY <1>0, <1>4, AppendProperties DEF MoveDone
  <2>2. trainer' \in TrainerType
    BY <1>0, <1>4 DEF MoveDone, TypeOK, TrainerType
  <2>3. TypeOK'
    BY <1>0, <1>4, <2>2 DEF MoveDone, TypeOK, verVars, ctlVars, genVars
  <2> QED BY <1>0, <1>4, <2>1, <2>3, FreshType DEF MoveDone, ResumeTypeOK
<1>5. CASE MoveFails
  <2>2. trainer' \in TrainerType
    BY <1>0, <1>5 DEF MoveFails, TypeOK, TrainerType
  <2>3. TypeOK'
    BY <1>0, <1>5, <2>2 DEF MoveFails, TypeOK, verVars, ctlVars, genVars
  <2> QED BY <1>0, <1>5, <2>3, FreshType DEF MoveFails, ResumeTypeOK
<1>6. CASE DumpDone
  <2>1. dumps' \in Seq(CkptType) /\ latest' \in CkptType
    BY <1>0, <1>6, HeadTailProperties, EmptySeq DEF DumpDone
  <2>2. TypeOK'
    BY <1>0, <1>6, StepType DEF DumpDone
  <2> QED BY <1>0, <1>6, <2>1, <2>2 DEF DumpDone, ResumeTypeOK
<1>7. CASE Restart
  <2>1. /\ latest.genPending \o latest.genData \in Seq(PromptType)
        /\ latest.trainItems \in Seq(RolloutType)
    BY <1>0, ConcatProperties DEF CkptType
  <2>2. /\ preGen' \in [data : Seq(PromptType), pending : Seq(PromptType)]
        /\ preTrain' \in [data : Seq(RolloutType), pending : Seq(RolloutType)]
    <3>1. <<>> \in Seq(PromptType) /\ <<>> \in Seq(RolloutType)
      OBVIOUS
    <3>2. /\ preGen' = [data |-> latest.genPending \o latest.genData, pending |-> <<>>]
          /\ preTrain' = [data |-> latest.trainItems, pending |-> <<>>]
      BY <1>7, RestartQueues
    <3> QED BY <2>1, <3>1, <3>2
  <2>3. running' \in SUBSET PromptType /\ IsFiniteSet(running') /\ submitted' = {}
    BY <1>7, FS_EmptySet DEF Restart, ResumedRunning
  <2>4. /\ hand' \in PromptType /\ gen' \in [pc : {"pop", "pend", "wait"}, item : PromptType]
        /\ trainer' \in TrainerType
    BY <1>7, NoItemType, EmptySeq DEF Restart, TrainerType
  <2>5. /\ train' \in Int /\ infer' \in Int /\ served' \in Int
        /\ source' \in 1 .. NumPrompts + 1 /\ exhausted' \in BOOLEAN /\ cbAlive' \in BOOLEAN
        /\ holder' \in {"none", "control", "generation"}
        /\ log' \in Seq(Seq(RolloutType)) /\ tainted' \in BOOLEAN /\ crashes' \in Nat
        /\ latest' = latest /\ dumps' = <<>> /\ snap' = NoSnap
    BY <1>0, <1>7 DEF Restart, CkptType
  <2>6. TypeOK'
    BY <2>2, <2>3, <2>4, <2>5 DEF TypeOK
  <2> QED BY <1>0, <2>5, <2>6, FreshType, EmptySeq DEF ResumeTypeOK
<1> QED BY <1>1, <1>2, <1>3, <1>4, <1>5, <1>6, <1>7, StepKinds

\* Every checkpoint is one.
LEMMA SavedType == ResumeTypeOK => \A c \in Saved : c \in CkptType
<1> SUFFICES ASSUME ResumeTypeOK PROVE \A c \in Saved : c \in CkptType
  OBVIOUS
<1>1. \A i \in DOMAIN dumps : dumps[i] \in CkptType
  BY LenProperties, ElementOfSeq DEF ResumeTypeOK
<1> QED BY <1>1 DEF ResumeTypeOK, Saved
-----------------------------------------------------------------------------
(* No source is given up early.                                            *)

\* Nothing is given up at first.
LEMMA InitEarly == ResumeInit => Early
BY ConfigTypes DEF FullyAsyncAssumption, ResumeInit, Init, Early, NeverEndedEarly, Saved,
   EndsLate, FreshCkpt, NoSnap

\* Every step keeps the source and what is saved of it so.
LEMMA StepEarly ==
  ASSUME ResumeTypeOK, Early, [ResumeNext]_resumeVars
  PROVE  Early'
<1> USE ConfigTypes DEF FullyAsyncAssumption
<1>0. /\ source \in 1 .. NumPrompts + 1 /\ snap \in SnapType /\ snap.ckpt \in CkptType
      /\ snap'.ckpt \in CkptType
  BY StepResumeType DEF ResumeTypeOK, TypeOK, SnapType
<1>1. \A c \in Saved' : EndsLate(c)'
  <2> SUFFICES ASSUME NEW c \in Saved' PROVE EndsLate(c)
    BY DEF EndsLate
  <2>1. CASE c \in Saved
    BY <2>1 DEF Early
  <2>2. CASE MoveDone /\ c = snap.ckpt
    BY <2>2 DEF Early, MoveDone
  <2> QED BY <2>1, <2>2, SavedStep
<1>2. CASE FlowStep
  <2>1. \/ UNCHANGED <<source, exhausted>>
        \/ CtlPop
        \/ CtlExhausted
    BY <1>2 DEF FlowStep, Control, Generation, Callback, CbDone, CbIgnoreError, Collecting,
       CtlPut, GenPop, GenPend, GenSubmit, Deliver, CbRaise, TrainAdvance, TrainDeploy,
       TrainSynced, TrainTake, TrainStep, TrainNoSave, vars, ctlVars
  <2>2. source <= source' /\ NeverEndedEarly'
    BY <1>0, <2>1 DEF CtlPop, CanSchedulePrompt, CtlExhausted, Early, NeverEndedEarly
  <2>3. /\ snap'.part = snap.part
        /\ snap'.ckpt.exhausted = snap.ckpt.exhausted /\ snap'.ckpt.source = snap.ckpt.source
    BY <1>0, <1>2, FlowStepSnap
  <2>4. source' \in 1 .. NumPrompts + 1
    BY StepResumeType DEF ResumeTypeOK, TypeOK
  <2> QED BY <1>0, <1>1, <2>2, <2>3, <2>4 DEF Early, EndsLate
<1>3. CASE SaveBegin
  <2>1. UNCHANGED <<source, exhausted>> /\ snap'.part = "exhausted"
    BY <1>3, SaveBeginSnap DEF SaveBegin, ctlVars
  <2> QED BY <1>1, <2>1 DEF Early, NeverEndedEarly
<1>4. CASE ReadStep
  <2>1. UNCHANGED <<source, exhausted>>
    BY <1>4, ReadSteps DEF vars, ctlVars
  <2>2. NeverEndedEarly'
    BY <2>1 DEF Early, NeverEndedEarly
  <2>3. \/ /\ snap'.part = "source" /\ snap'.ckpt.exhausted = exhausted
        \/ /\ snap.part = "source" /\ snap'.part = "genData"
           /\ snap'.ckpt.source = source /\ snap'.ckpt.exhausted = snap.ckpt.exhausted
        \/ /\ snap.part \notin {"exhausted", "source"}
           /\ snap'.part \notin {"exhausted", "source"}
           /\ snap'.ckpt.source = snap.ckpt.source /\ snap'.ckpt.exhausted = snap.ckpt.exhausted
    BY <1>0, <1>4, ReadSteps DEF CkptType
  <2> QED BY <1>1, <2>1, <2>2, <2>3 DEF Early, NeverEndedEarly, EndsLate
<1>5. CASE MoveDone \/ MoveFails
  <2>1. UNCHANGED <<source, exhausted>> /\ snap' = NoSnap
    BY <1>5 DEF MoveDone, MoveFails, ctlVars
  <2> QED BY <1>1, <2>1 DEF Early, NeverEndedEarly, NoSnap, EndsLate, FreshCkpt
<1>6. CASE DumpDone
  <2>1. UNCHANGED <<source, exhausted, snap>>
    BY <1>6 DEF DumpDone, vars, ctlVars
  <2> QED BY <1>1, <2>1 DEF Early, NeverEndedEarly, EndsLate
<1>7. CASE Restart
  <2>1. source' = latest.source /\ exhausted' = latest.exhausted /\ snap' = NoSnap
    BY <1>7 DEF Restart
  <2>2. EndsLate(latest)
    BY DEF Early, Saved
  <2> QED BY <1>1, <2>1, <2>2 DEF Early, NeverEndedEarly, NoSnap, EndsLate, FreshCkpt
<1> QED BY <1>2, <1>3, <1>4, <1>5, <1>6, <1>7, StepKinds

\* Whichever checkpoint is restored, the control worker gives the source up only
\* when every prompt has been popped.
THEOREM EndedLateInvariant == ResumeSpec => []NeverEndedEarly
<1>1. ResumeInit => ResumeTypeOK /\ Early
  BY InitResumeType, InitEarly
<1>2. ResumeTypeOK /\ Early /\ [ResumeNext]_resumeVars => (ResumeTypeOK /\ Early)'
  BY StepResumeType, StepEarly
<1>3. Early => NeverEndedEarly
  BY DEF Early
<1> QED BY <1>1, <1>2, <1>3, PTL DEF ResumeSpec
-----------------------------------------------------------------------------
(* The snapshot and the trainer.                                           *)

\* Nothing is taken at first.
LEMMA InitTaking == ResumeInit => Taking
BY DEF ResumeInit, Init, Taking, NoSnap

\* Every step keeps the snapshot the trainer's.
LEMMA StepTaking ==
  ASSUME ResumeTypeOK, Taking, [ResumeNext]_resumeVars
  PROVE  Taking'
<1>0. snap \in SnapType /\ TypeOK /\ snap.ckpt \in CkptType
  BY DEF ResumeTypeOK, SnapType
<1>1. CASE FlowStep
  <2> DEFINE Still == UNCHANGED <<trainer, train, log>> /\ preTrain'.pending = preTrain.pending
  <2>1. /\ Control => Still /\ gen' = gen /\ holder # "generation" /\ holder' # "generation"
        /\ Generation => Still
        /\ Callback => Still /\ UNCHANGED <<gen, holder>>
        /\ Collecting \/ TrainNoSave => trainer.pc # "snapshot" /\ UNCHANGED <<gen, holder>>
        /\ UNCHANGED vars => Still /\ UNCHANGED <<gen, holder>>
    <3>1. Control => Still /\ gen' = gen /\ holder # "generation" /\ holder' # "generation"
      BY <1>0 DEF TypeOK, Control, CtlPop, CtlPut, CtlExhausted, verVars, trainVars, genVars
    <3>2. Generation => Still
      BY DEF Generation, GenPop, GenPend, GenSubmit, verVars, trainVars
    <3>3. Callback => Still /\ UNCHANGED <<gen, holder>>
      <4> SUFFICES ASSUME Callback PROVE Still /\ UNCHANGED <<gen, holder>>
        OBVIOUS
      <4>1. PICK x \in submitted : Deliver(x) \/ CbRaise(x)
        BY DEF Callback, CbDone, CbIgnoreError
      <4>2. Put(preTrain, Rollout(x)).pending = preTrain.pending
        BY <1>0 DEF TypeOK, Put
      <4> QED BY <4>1, <4>2 DEF Deliver, CbRaise, verVars, trainVars
    <3>4. Collecting \/ TrainNoSave => trainer.pc # "snapshot" /\ UNCHANGED <<gen, holder>>
      BY DEF Collecting, TrainNoSave, TrainAdvance, TrainDeploy, TrainSynced, TrainTake,
         TrainStep, genVars
    <3>5. UNCHANGED vars => Still /\ UNCHANGED <<gen, holder>>
      BY DEF vars, verVars, trainVars, genVars
    <3> QED BY <3>1, <3>2, <3>3, <3>4, <3>5
  <2>2. gen'.pc = "pend" <=> holder' = "generation"
    <3>1. Generation => (gen'.pc = "pend" <=> holder' = "generation")
      BY <1>0 DEF TypeOK, Taking, Generation, GenPop, GenPend, GenSubmit
    <3> QED BY <1>1, <2>1, <3>1 DEF FlowStep, Taking
  <2>3. trainer'.pc # "step" => trainer'.batch = <<>>
    <3>1. Collecting \/ TrainNoSave => (trainer'.pc # "step" => trainer'.batch = <<>>)
      BY <1>0 DEF TypeOK, TrainerType, Taking, Collecting, TrainNoSave, TrainAdvance,
         TrainDeploy, TrainSynced, TrainTake, TrainStep
    <3> QED BY <1>1, <2>1, <3>1 DEF FlowStep, Taking
  <2>4. /\ snap'.part = snap.part /\ snap'.ckpt.train = snap.ckpt.train
        /\ snap'.ckpt.log = snap.ckpt.log
    BY <1>0, <1>1, FlowStepSnap
  <2>5. snap.part # "none" => Still
    BY <1>1, <2>1 DEF FlowStep, Taking
  <2>6. snap.part = "none" => snap' = snap
    BY <1>1 DEF FlowStep
  <2> QED BY <2>2, <2>3, <2>4, <2>5, <2>6 DEF Taking
<1>2. CASE SaveBegin
  <2>1. /\ UNCHANGED <<train, log, gen, holder>>
        /\ trainer'.pc = "snapshot" /\ trainer'.batch = trainer.batch /\ trainer.pc = "after"
    BY <1>0, <1>2 DEF SaveBegin, TypeOK, TrainerType, verVars, genVars
  <2>2. /\ snap'.part = "exhausted" /\ preTrain'.pending = <<>>
        /\ snap'.ckpt.train = train /\ snap'.ckpt.log = log
    BY <1>2, SaveBeginSnap
  <2> QED BY <2>1, <2>2 DEF Taking
<1>3. CASE ReadStep
  <2>1. UNCHANGED <<train, log, gen, holder, trainer, preTrain>>
    BY <1>3, ReadSteps DEF vars, verVars, genVars, trainVars
  <2>2. /\ snap.part # "none" /\ snap'.part # "none"
        /\ snap'.ckpt.train = snap.ckpt.train /\ snap'.ckpt.log = snap.ckpt.log
    BY <1>0, <1>3, ReadSteps DEF CkptType
  <2> QED BY <2>1, <2>2 DEF Taking
<1>4. CASE MoveDone \/ MoveFails
  <2>1. UNCHANGED <<gen, holder>> /\ snap' = NoSnap /\ snap.part = "copy"
    BY <1>4 DEF MoveDone, MoveFails, genVars
  <2>2. trainer'.batch = trainer.batch
    BY <1>0, <1>4 DEF MoveDone, MoveFails, TypeOK, TrainerType
  <2>3. trainer.pc # "step"
    BY <2>1 DEF Taking
  <2> QED BY <2>1, <2>2, <2>3 DEF Taking, NoSnap
<1>5. CASE DumpDone
  <2>1. UNCHANGED <<train, log, gen, holder, trainer, preTrain, snap>>
    BY <1>5 DEF DumpDone, vars, verVars, genVars, trainVars
  <2> QED BY <2>1 DEF Taking
<1>6. CASE Restart
  BY <1>6 DEF Restart, Taking, NoSnap
<1> QED BY <1>1, <1>2, <1>3, <1>4, <1>5, <1>6, StepKinds
-----------------------------------------------------------------------------
(* Versions across a restart.                                              *)

\* What a sequence of prompts is scheduled for, under the operations of a queue.
LEMMA NoNewerKept ==
  ASSUME NEW s \in Seq(PromptType), NEW v \in Int, NoNewer(s, v)
  PROVE  /\ \A w \in Int : v <= w => NoNewer(s, w)
         /\ \A x \in PromptType : (x.sv <= v \/ x.sv = 0) => NoNewer(Append(s, x), v)
         /\ Len(s) > 0 => NoNewer(Tail(s), v) /\ (Head(s).sv <= v \/ Head(s).sv = 0)
         /\ \A x : NoNewer(Without(s, x), v)
         /\ \A t \in Seq(PromptType) : NoNewer(t, v) => NoNewer(s \o t, v)
<1>0. /\ DOMAIN s = 1 .. Len(s) /\ Len(s) \in Nat
      /\ \A i \in 1 .. Len(s) : s[i].sv \in Int
  <2>1. \A i \in 1 .. Len(s) : s[i] \in PromptType
    BY ElementOfSeq
  <2>2. \A x \in PromptType : x.sv \in Int
    BY DEF PromptType
  <2> QED BY <2>1, <2>2, LenProperties
<1>1. \A w \in Int : v <= w => NoNewer(s, w)
  BY <1>0 DEF NoNewer
<1>2. ASSUME NEW x \in PromptType, x.sv <= v \/ x.sv = 0
      PROVE  NoNewer(Append(s, x), v)
  <2>1. /\ DOMAIN Append(s, x) = 1 .. Len(s) + 1
        /\ \A i \in 1 .. Len(s) : Append(s, x)[i] = s[i]
        /\ Append(s, x)[Len(s) + 1] = x
    BY AppendProperties, LenProperties
  <2>2. \A i \in 1 .. Len(s) + 1 : i \in 1 .. Len(s) \/ i = Len(s) + 1
    BY <1>0
  <2> QED BY <1>0, <1>2, <2>1, <2>2 DEF NoNewer
<1>3. ASSUME Len(s) > 0
      PROVE  NoNewer(Tail(s), v) /\ (Head(s).sv <= v \/ Head(s).sv = 0)
  <2>1. /\ Tail(s) \in Seq(PromptType) /\ Len(Tail(s)) = Len(s) - 1 /\ Head(s) = s[1]
        /\ \A i \in 1 .. Len(s) - 1 : Tail(s)[i] = s[i + 1]
    BY <1>0, <1>3, HeadTailProperties, EmptySeq
  <2>2. DOMAIN Tail(s) = 1 .. Len(s) - 1
    BY <2>1, LenProperties
  <2>3. \A i \in 1 .. Len(s) - 1 : i + 1 \in 1 .. Len(s)
    BY <1>0
  <2>4. 1 \in 1 .. Len(s)
    BY <1>0, <1>3
  <2> QED BY <1>0, <2>1, <2>2, <2>3, <2>4 DEF NoNewer
<1>4. ASSUME NEW x
      PROVE  NoNewer(Without(s, x), v)
  <2>1. CASE Without(s, x) = s
    BY <2>1
  <2>2. ASSUME NEW k \in 1 .. Len(s), Len(Without(s, x)) = Len(s) - 1,
               \A i \in 1 .. Len(s) - 1 :
                 Without(s, x)[i] = (IF i < k THEN s[i] ELSE s[i + 1])
        PROVE  NoNewer(Without(s, x), v)
    <3>1. DOMAIN Without(s, x) = 1 .. Len(s) - 1
      BY <2>2, WithoutType, LenProperties
    <3>2. \A i \in 1 .. Len(s) - 1 : i \in 1 .. Len(s) /\ i + 1 \in 1 .. Len(s)
      BY <1>0
    <3>3. ASSUME NEW i \in DOMAIN Without(s, x)
          PROVE  Without(s, x)[i].sv <= v \/ Without(s, x)[i].sv = 0
      <4>1. i \in 1 .. Len(s) - 1
        BY <3>1
      <4>2. Without(s, x)[i] = s[i] \/ Without(s, x)[i] = s[i + 1]
        BY <2>2, <4>1
      <4> QED BY <1>0, <3>2, <4>1, <4>2 DEF NoNewer
    <3> QED BY <3>3 DEF NoNewer
  <2> QED BY <2>1, <2>2, WithoutShape
<1>5. ASSUME NEW t \in Seq(PromptType), NoNewer(t, v)
      PROVE  NoNewer(s \o t, v)
  <2>1. /\ DOMAIN t = 1 .. Len(t) /\ Len(t) \in Nat
        /\ s \o t \in Seq(PromptType) /\ Len(s \o t) = Len(s) + Len(t)
        /\ \A i \in 1 .. Len(s) + Len(t) :
             (s \o t)[i] = (IF i <= Len(s) THEN s[i] ELSE t[i - Len(s)])
    BY LenProperties, ConcatProperties
  <2>2. DOMAIN (s \o t) = 1 .. Len(s) + Len(t)
    BY <2>1, LenProperties
  <2>3. ASSUME NEW i \in 1 .. Len(s) + Len(t)
        PROVE  IF i <= Len(s) THEN i \in 1 .. Len(s) ELSE i - Len(s) \in 1 .. Len(t)
    BY <1>0, <2>1
  <2> QED BY <1>0, <1>5, <2>1, <2>2, <2>3 DEF NoNewer
<1> QED BY <1>1, <1>2, <1>3, <1>4, <1>5

\* Before the first iteration nothing is newer than version 0.
LEMMA InitVersions == ResumeInit => Versions /\ Synced
<1> SUFFICES ASSUME ResumeInit PROVE Versions /\ Synced
  OBVIOUS
<1>1. VersionInv
  BY InitVersion DEF ResumeInit
<1>2. /\ train = -1 /\ infer = -1 /\ trainer.pc = "idle" /\ preGen = EmptyQueue
      /\ running = {} /\ hand.sv = 0 /\ gen.item.sv = 0
      /\ snap = NoSnap /\ dumps = <<>> /\ latest = FreshCkpt
  BY DEF ResumeInit, Init, NoItem
<1>3. \A c \in Saved : c = FreshCkpt
  BY <1>2 DEF Saved
<1>4. FreshCkpt.train = -1 /\ SeenBy(FreshCkpt) /\ Scheduled(FreshCkpt)
  BY DEF FreshCkpt, SeenBy, Scheduled, NoNewer
<1>5. Versions
  BY <1>1, <1>2, <1>3, <1>4 DEF Versions, NoSnap
<1>6. Synced
  BY <1>2 DEF Synced, NoNewer, EmptyQueue
<1> QED BY <1>5, <1>6

\* What is saved was scheduled for, and generated by, weights that are saved too.
LEMMA StepVersions ==
  ASSUME ResumeTypeOK, Taking, Versions, Synced, [ResumeNext]_resumeVars
  PROVE  Versions'
<1>0. /\ snap \in SnapType /\ TypeOK /\ snap.ckpt \in CkptType /\ latest \in CkptType
      /\ train \in Int /\ preTrain.data \in Seq(RolloutType)
  BY DEF ResumeTypeOK, SnapType, TypeOK
<1>1. \A c \in Saved' : c.train >= -1 /\ SeenBy(c) /\ Scheduled(c)
  <2> SUFFICES ASSUME NEW c \in Saved' PROVE c.train >= -1 /\ SeenBy(c) /\ Scheduled(c)
    OBVIOUS
  <2>1. CASE c \in Saved
    BY <2>1 DEF Versions
  <2>2. CASE MoveDone /\ c = snap.ckpt
    BY <2>2 DEF Versions, Taking, MoveDone
  <2> QED BY <2>1, <2>2, SavedStep
\* What is left to show when nothing is read.
<1>a. ASSUME VersionInv', train' >= -1, SeenBy(snap'.ckpt), Scheduled(snap'.ckpt)
      PROVE  Versions'
  BY <1>1, <1>a DEF Versions, SeenBy, Scheduled, NoNewer
<1>b. SeenBy(FreshCkpt) /\ Scheduled(FreshCkpt)
  BY DEF FreshCkpt, SeenBy, Scheduled, NoNewer
<1>2. CASE FlowStep
  <2>1. VersionInv'
    BY <1>0, <1>2, FlowStepNext, StepVersion DEF Versions
  <2>2. train' \in {train, train + 1}
    BY <1>2 DEF FlowStep, Control, Generation, Callback, CbDone, CbIgnoreError, Collecting,
       CtlPop, CtlPut, CtlExhausted, GenPop, GenPend, GenSubmit, Deliver, CbRaise, TrainAdvance,
       TrainDeploy, TrainSynced, TrainTake, TrainStep, TrainNoSave, vars, verVars
  <2>3. /\ snap'.ckpt.train = snap.ckpt.train /\ snap'.ckpt.genData = snap.ckpt.genData
        /\ snap'.ckpt.genPending = snap.ckpt.genPending
        /\ snap'.ckpt.trainItems = snap.ckpt.trainItems
    BY <1>0, <1>2, FlowStepSnap
  <2>4. SeenBy(snap'.ckpt) /\ Scheduled(snap'.ckpt)
    BY <2>3 DEF Versions, SeenBy, Scheduled
  <2>5. train' >= -1
    BY <1>0, <2>2 DEF Versions
  <2> QED BY <1>a, <2>1, <2>4, <2>5
<1>3. CASE SaveBegin
  <2>1. /\ UNCHANGED <<train, infer, served, submitted>> /\ preTrain'.data = preTrain.data
        /\ trainer'.pc # "deployed"
    BY <1>0, <1>3, SaveBeginSnap DEF SaveBegin, TypeOK, TrainerType, verVars, genVars
  <2>2. VersionInv' /\ train' >= -1
    BY <2>1 DEF Versions, VersionInv, VersionGate
  <2>3. /\ snap'.ckpt.genData = <<>> /\ snap'.ckpt.genPending = <<>>
        /\ snap'.ckpt.trainItems = <<>>
    BY <1>3, SaveBeginSnap
  <2>4. SeenBy(snap'.ckpt) /\ Scheduled(snap'.ckpt)
    BY <2>3 DEF SeenBy, Scheduled, NoNewer
  <2> QED BY <1>a, <2>2, <2>4
<1>4. CASE ReadStep
  <2>1. UNCHANGED <<vars>>
    BY <1>4, ReadSteps
  <2>2. VersionInv' /\ train' >= -1
    BY <1>0, <2>1, StepVersion DEF Versions, vars, verVars
  <2>3. preTrain.pending \o preTrain.data = preTrain.data \/ snap.part = "none"
    BY <1>0, ConcatEmptySeq DEF Taking
  <2>4. snap.part # "none" => snap.ckpt.train = train
    BY DEF Taking
  <2>5. /\ NoNewer(preGen.data, train) /\ NoNewer(preGen.pending, train)
        /\ \A i \in DOMAIN preTrain.data :
             preTrain.data[i].seen \subseteq preTrain.data[i].sv .. train
    BY DEF Synced, Versions, VersionInv, VersionGate
  <2>6. /\ snap.part # "none" /\ snap'.ckpt.train = snap.ckpt.train
        /\ \/ UNCHANGED <<snap.ckpt.genData, snap.ckpt.genPending, snap.ckpt.trainItems>>
           \/ /\ snap'.ckpt.genData = preGen.data
              /\ UNCHANGED <<snap.ckpt.genPending, snap.ckpt.trainItems>>
           \/ /\ snap'.ckpt.genPending = preGen.pending
              /\ UNCHANGED <<snap.ckpt.genData, snap.ckpt.trainItems>>
           \/ /\ snap'.ckpt.trainItems = preTrain.pending \o preTrain.data
              /\ UNCHANGED <<snap.ckpt.genData, snap.ckpt.genPending>>
    BY <1>0, <1>4, ReadSteps DEF CkptType
  <2>7. SeenBy(snap'.ckpt)
    BY <2>3, <2>4, <2>5, <2>6 DEF SeenBy, Versions
  <2>8. Scheduled(snap'.ckpt)
    BY <2>4, <2>5, <2>6 DEF Scheduled, Versions
  <2> QED BY <1>a, <2>2, <2>7, <2>8
<1>5. CASE MoveDone \/ MoveFails
  <2>1. /\ UNCHANGED <<train, infer, served, submitted, preTrain>> /\ snap' = NoSnap
        /\ trainer'.pc # "deployed"
    BY <1>0, <1>5 DEF MoveDone, MoveFails, TypeOK, TrainerType, verVars, genVars
  <2>2. VersionInv' /\ train' >= -1
    BY <2>1 DEF Versions, VersionInv, VersionGate
  <2> QED BY <1>a, <1>b, <2>1, <2>2 DEF NoSnap
<1>6. CASE DumpDone
  <2>1. UNCHANGED vars /\ snap' = snap
    BY <1>6 DEF DumpDone
  <2>2. VersionInv' /\ train' >= -1
    BY <1>0, <2>1, StepVersion DEF Versions, vars, verVars
  <2> QED BY <1>a, <2>1, <2>2 DEF Versions
<1>7. CASE Restart
  <2>1. /\ train' = latest.train /\ infer' = -1 /\ served' = -1 /\ submitted' = {}
        /\ trainer'.pc = "idle" /\ snap' = NoSnap
    BY <1>7 DEF Restart
  <2>2. preTrain'.data = latest.trainItems
    BY <1>7, RestartQueues
  <2>3. latest.train >= -1 /\ SeenBy(latest) /\ latest.train \in Int
    BY <1>0 DEF Versions, Saved, CkptType
  <2>4. VersionInv'
    BY <2>1, <2>2, <2>3 DEF VersionInv, VersionGate, SeenBy
  <2> QED BY <1>a, <1>b, <2>1, <2>3, <2>4 DEF NoSnap
<1> QED BY <1>2, <1>3, <1>4, <1>5, <1>6, <1>7, StepKinds

\* What the weights deployed have to do with the version trained, and prompts
\* with either.
LEMMA StepSynced ==
  ASSUME ResumeTypeOK, Taking, Versions, Synced, [ResumeNext]_resumeVars
  PROVE  Synced'
<1>0. /\ snap \in SnapType /\ TypeOK /\ latest \in CkptType /\ crashes \in Nat
      /\ train \in Int /\ infer \in Int /\ train >= -1 /\ trainer \in TrainerType
      /\ preGen \in [data : Seq(PromptType), pending : Seq(PromptType)]
      /\ preGen.data \in Seq(PromptType) /\ preGen.pending \in Seq(PromptType)
      /\ hand \in PromptType /\ gen \in [pc : {"pop", "pend", "wait"}, item : PromptType]
      /\ gen.item \in PromptType /\ running \in SUBSET PromptType
  BY DEF ResumeTypeOK, TypeOK, Versions
<1> DEFINE Old(x) == x.sv <= train \/ x.sv = 0
           Trainers == UNCHANGED <<train, infer, trainer, crashes>>
           Weights ==
             /\ trainer.pc = "idle" =>
                  infer \in {-1, train} /\ (crashes = 0 => infer = train)
             /\ trainer.pc \in {"collect", "step", "after", "snapshot", "failed"} => infer = train
             /\ trainer.pc # "idle" => train >= 0
           Prompts ==
             /\ NoNewer(preGen.data, train) /\ NoNewer(preGen.pending, train)
             /\ \A x \in running : x.sv <= train \/ x.sv = 0
             /\ hand.sv <= train \/ hand.sv = 0
             /\ gen.item.sv <= train \/ gen.item.sv = 0
<1>a. Synced <=> Weights /\ Prompts
  BY DEF Synced
<1>b. (Weights' /\ Prompts') => Synced'
  BY DEF Synced
<1>c. /\ NoNewer(preGen.data, train) /\ NoNewer(preGen.pending, train)
      /\ \A x \in running : Old(x)
      /\ Old(hand) /\ Old(gen.item)
  BY DEF Synced
\* The prompts, when the weights stay.
<1>d. ASSUME train' = train, NoNewer(preGen'.data, train), NoNewer(preGen'.pending, train),
             \A x \in running' : Old(x), Old(hand'), Old(gen'.item)
      PROVE  Prompts'
  BY <1>d
<1>e. ASSUME Trainers PROVE Weights'
  BY <1>a, <1>e
<1>f. NoItem.sv = 0
  BY DEF NoItem
<1>g. \A x \in PromptType : x.sv \in Int
  BY DEF PromptType
<1>1. CASE CtlPop /\ FlowStep
  <2>1. /\ Trainers /\ UNCHANGED <<preGen, running, gen>>
        /\ hand' = Prompt(source, ScheduledVersion)
    BY <1>1 DEF CtlPop, FlowStep, verVars, genVars, trainVars
  <2>2. Old(hand')
    BY <1>0, <2>1 DEF Prompt, ScheduledVersion
  <2> QED BY <1>b, <1>c, <1>d, <1>e, <2>1, <2>2
<1>2. CASE CtlPut /\ FlowStep
  <2>1. /\ Trainers /\ UNCHANGED <<running, gen>>
        /\ hand' = NoItem /\ preGen' = Put(preGen, hand)
    BY <1>2 DEF CtlPut, FlowStep, verVars, genVars, trainVars
  <2>2. preGen'.data = Append(preGen.data, hand) /\ preGen'.pending = preGen.pending
    BY <1>0, <2>1 DEF Put
  <2>3. NoNewer(preGen'.data, train)
    BY <1>0, <1>c, <2>2, NoNewerKept
  <2> QED BY <1>b, <1>c, <1>d, <1>e, <1>f, <2>1, <2>2, <2>3
<1>3. CASE GenPop /\ FlowStep
  <2>1. /\ Trainers /\ UNCHANGED <<running, hand>> /\ QLen(preGen) > 0
        /\ gen'.item = Peek(preGen) /\ preGen' = Pop(preGen)
    BY <1>3 DEF GenPop, FlowStep, verVars, ctlVars, trainVars
  <2>2. /\ preGen'.data = Tail(preGen.data) /\ preGen'.pending = preGen.pending
        /\ gen'.item = Head(preGen.data) /\ Len(preGen.data) > 0
    BY <1>0, <2>1 DEF Pop, Peek, QLen
  <2>3. NoNewer(preGen'.data, train) /\ Old(gen'.item)
    BY <1>0, <1>c, <2>2, NoNewerKept
  <2> QED BY <1>b, <1>c, <1>d, <1>e, <2>1, <2>2, <2>3
<1>4. CASE GenPend /\ FlowStep
  <2>1. /\ Trainers /\ hand' = hand /\ gen'.item = gen.item
        /\ running' = running \cup {gen.item} /\ preGen' = Pend(preGen, gen.item)
    BY <1>0, <1>4 DEF GenPend, FlowStep, verVars, ctlVars, trainVars
  <2>2. preGen'.data = preGen.data /\ preGen'.pending = Append(preGen.pending, gen.item)
    BY <1>0, <2>1 DEF Pend
  <2>3. NoNewer(preGen'.pending, train)
    BY <1>0, <1>c, <2>2, NoNewerKept
  <2> QED BY <1>b, <1>c, <1>d, <1>e, <2>1, <2>2, <2>3
<1>5. CASE GenSubmit /\ FlowStep
  <2>1. Trainers /\ UNCHANGED <<preGen, running, hand>> /\ gen'.item = NoItem
    BY <1>5 DEF GenSubmit, FlowStep, verVars, ctlVars, trainVars
  <2> QED BY <1>b, <1>c, <1>d, <1>e, <1>f, <2>1
<1>6. ASSUME FlowStep, NEW x, Deliver(x) \/ CbRaise(x)
      PROVE  Synced'
  <2>1. Trainers /\ UNCHANGED <<hand, gen>> /\ running' = running \ {ItemOf(x)}
    BY <1>6 DEF Deliver, CbRaise, FlowStep, verVars, ctlVars, trainVars
  <2>2. \/ preGen' = preGen
        \/ /\ preGen'.data = preGen.data
           /\ preGen'.pending = Without(preGen.pending, ItemOf(x))
    BY <1>0, <1>6 DEF Deliver, CbRaise, Ack
  <2>3. NoNewer(preGen'.data, train) /\ NoNewer(preGen'.pending, train)
    BY <1>0, <1>c, <2>2, NoNewerKept
  <2> QED BY <1>b, <1>c, <1>d, <1>e, <2>1, <2>3
<1>7. CASE (CtlExhausted \/ UNCHANGED vars) /\ FlowStep
  <2>1. Trainers /\ UNCHANGED <<preGen, running, hand, gen>>
    BY <1>7 DEF CtlExhausted, FlowStep, vars, verVars, ctlVars, genVars, trainVars
  <2> QED BY <1>b, <1>c, <1>d, <1>e, <2>1
<1>8. CASE TrainAdvance /\ FlowStep
  <2>1. /\ train' = train + 1 /\ trainer'.pc = "sync"
        /\ UNCHANGED <<preGen, running, hand, gen>>
    BY <1>0, <1>8 DEF TrainAdvance, TrainerType, ctlVars, genVars
  <2>2. /\ NoNewer(preGen.data, train + 1) /\ NoNewer(preGen.pending, train + 1)
    <3>1. train + 1 \in Int /\ train <= train + 1
      BY <1>0
    <3> QED BY <1>0, <1>c, <3>1, NoNewerKept
  <2>3. \A x \in PromptType : Old(x) => x.sv <= train + 1 \/ x.sv = 0
    BY <1>0, <1>g
  <2>4. Prompts'
    BY <1>0, <1>c, <2>1, <2>2, <2>3
  <2>5. Weights'
    BY <1>0, <2>1
  <2> QED BY <1>b, <2>4, <2>5
<1>9. CASE (TrainDeploy \/ TrainSynced \/ TrainTake \/ TrainStep \/ TrainNoSave) /\ FlowStep
  <2>1. train' = train /\ UNCHANGED <<preGen, running, hand, gen, crashes>>
    BY <1>9 DEF TrainDeploy, TrainSynced, TrainTake, TrainStep, TrainNoSave, FlowStep,
       verVars, ctlVars, genVars
  <2>2. \/ trainer.pc = "sync" /\ trainer'.pc = "deployed" /\ infer' = infer
        \/ trainer.pc = "deployed" /\ trainer'.pc = "collect" /\ infer' = train
        \/ /\ trainer.pc \in {"collect", "step", "after"} /\ infer' = infer
           /\ trainer'.pc \in {"step", "after", "idle"}
    BY <1>0, <1>9 DEF TrainDeploy, TrainSynced, TrainTake, TrainStep, TrainNoSave, TrainerType,
       verVars
  <2>3. Weights'
    BY <1>a, <2>1, <2>2
  <2> QED BY <1>b, <1>c, <1>d, <2>1, <2>3
<1>10. CASE SaveBegin
  <2>1. /\ UNCHANGED <<train, infer, preGen, running, hand, gen, crashes>>
        /\ trainer.pc = "after" /\ trainer'.pc = "snapshot"
    BY <1>0, <1>10 DEF SaveBegin, TrainerType, verVars, ctlVars, genVars
  <2>2. Weights'
    BY <1>a, <2>1
  <2> QED BY <1>b, <1>c, <1>d, <2>1, <2>2
<1>11. CASE ReadStep \/ DumpDone
  <2>1. UNCHANGED <<vars, crashes>>
    BY <1>0, <1>11, ReadSteps DEF DumpDone
  <2>2. Trainers /\ UNCHANGED <<preGen, running, hand, gen>>
    BY <2>1 DEF vars, verVars, ctlVars, genVars, trainVars
  <2> QED BY <1>b, <1>c, <1>d, <1>e, <2>2
<1>12. CASE MoveDone \/ MoveFails
  <2>1. /\ UNCHANGED <<train, infer, preGen, running, hand, gen, crashes>>
        /\ snap.part # "none" /\ trainer'.pc \in {"idle", "failed"}
    BY <1>0, <1>12 DEF MoveDone, MoveFails, TrainerType, verVars, ctlVars, genVars
  <2>2. trainer.pc = "snapshot"
    BY <2>1 DEF Taking
  <2>3. Weights'
    BY <1>a, <2>1, <2>2
  <2> QED BY <1>b, <1>c, <1>d, <2>1, <2>3
<1>13. CASE Restart
  <2>1. /\ train' = latest.train /\ infer' = -1 /\ trainer'.pc = "idle" /\ crashes' = crashes + 1
        /\ running' = {} /\ hand' = NoItem /\ gen'.item = NoItem
    BY <1>13 DEF Restart, ResumedRunning
  <2>2. preGen' = [data |-> latest.genPending \o latest.genData, pending |-> <<>>]
    BY <1>13, RestartQueues
  <2>3. /\ latest.genPending \in Seq(PromptType) /\ latest.genData \in Seq(PromptType)
        /\ latest.train \in Int
        /\ NoNewer(latest.genPending, latest.train) /\ NoNewer(latest.genData, latest.train)
    BY <1>0 DEF CkptType, Versions, Saved, Scheduled
  <2>4. NoNewer(latest.genPending \o latest.genData, latest.train)
    BY <2>3, NoNewerKept
  <2>5. NoNewer(<<>>, latest.train)
    BY DEF NoNewer
  <2>6. Prompts'
    BY <1>f, <2>1, <2>2, <2>4, <2>5
  <2>7. crashes' # 0
    BY <1>0, <2>1
  <2>8. Weights'
    BY <2>1, <2>7
  <2> QED BY <1>b, <2>6, <2>8
<1> HIDE DEF Old, Trainers, Weights, Prompts
<1> QED
  BY <1>1, <1>2, <1>3, <1>4, <1>5, <1>6, <1>7, <1>8, <1>9, <1>10, <1>11, <1>12, <1>13, StepKinds
     DEF FlowStep, Control, Generation, Callback, CbDone, CbIgnoreError, Collecting

\* The waits close to a circle only before the first deployment of a restarted
\* job: otherwise the weights a prompt waits for are deployed before the trainer
\* waits for the prompt.
LEMMA NoWedge ==
  ASSUME ResumeTypeOK, Versions, Synced
  PROVE  WedgedOnlyRestored
<1> USE ConfigTypes DEF FullyAsyncAssumption
<1> SUFFICES ASSUME Wedged PROVE crashes > 0 /\ infer = -1
  BY DEF WedgedOnlyRestored
<1>0. /\ train \in Int /\ infer \in Int /\ crashes \in Nat /\ train >= -1
      /\ gen.item.sv \in Nat /\ \A x \in running : x.sv \in Nat
  BY DEF ResumeTypeOK, TypeOK, PromptType, Versions
<1>1. infer < gen.item.sv /\ (gen.item.sv <= train \/ gen.item.sv = 0)
  BY <1>0 DEF Wedged, WeightsReady, Synced
<1>2. trainer.pc # "collect"
  BY <1>0, <1>1 DEF Synced
<1>3. trainer.pc = "idle" /\ ~CanAdvanceWeight
  BY <1>2 DEF Wedged
<1>4. infer \in {-1, train} /\ (crashes = 0 => infer = train)
  BY <1>3 DEF Synced
<1>5. CASE train = -1
  <2>1. \A x \in running : x.sv = 0
    BY <1>0, <1>5 DEF Synced
  <2>2. CanAdvanceWeight
    BY <1>5, <2>1 DEF CanAdvanceWeight
  <2> QED BY <1>3, <2>2
<1>6. CASE train # -1
  BY <1>0, <1>1, <1>4, <1>6
<1> QED BY <1>5, <1>6

\* Whatever was restored, the prompts in flight, the generation worker and the
\* trainer wait for each other only in a restarted job that has not deployed yet.
THEOREM WedgeInvariant == ResumeSpec => []WedgedOnlyRestored
<1> DEFINE Inv == ResumeTypeOK /\ Taking /\ Versions /\ Synced
<1>1. ResumeInit => Inv
  BY InitResumeType, InitTaking, InitVersions
<1>2. Inv /\ [ResumeNext]_resumeVars => Inv'
  BY StepResumeType, StepTaking, StepVersions, StepSynced
<1>3. Inv => WedgedOnlyRestored
  BY NoWedge
<1> HIDE DEF Inv
<1> QED BY <1>1, <1>2, <1>3, PTL DEF ResumeSpec
-----------------------------------------------------------------------------
(* Exactly once.                                                           *)

\* Nothing is handed out at first.
LEMMA InitOnce == Init => ExactlyOnce
<1> SUFFICES ASSUME Init, NEW p \in 0 .. NumPrompts
             PROVE  Copies(p) = IF p \in 1 .. source - 1 THEN 1 ELSE 0
  BY DEF ExactlyOnce
<1>1. /\ log = <<>> /\ trainer.batch = <<>> /\ preTrain.data = <<>> /\ preGen.pending = <<>>
      /\ preGen.data = <<>> /\ holder = "none" /\ gen.pc = "pop" /\ source = 1
  BY DEF Init, EmptyQueue
<1>2. Trained(<<>>, p) = {}
  BY DEF Trained
<1>3. Count(<<>>, p) = 0 /\ Cardinality({}) = 0
  BY CountEmpty, FS_EmptySet
<1>4. /\ Cardinality(Trained(log, p)) = 0 /\ Count(trainer.batch, p) = 0
      /\ Count(preTrain.data, p) = 0 /\ Count(preGen.pending, p) = 0 /\ Count(preGen.data, p) = 0
  BY <1>1, <1>2, <1>3
<1>5. Copies(p) = 0
  BY <1>1, <1>4 DEF Copies
<1> QED BY <1>1, <1>5

\* A prompt moves from one place of the pipeline to the next.
LEMMA StepExact ==
  ASSUME TypeOK, Handed, ExactlyOnce, Running, [Next]_vars
  PROVE  ExactlyOnce'
<1> USE ConfigTypes DEF FullyAsyncAssumption
<1> SUFFICES ASSUME NEW p \in 0 .. NumPrompts
             PROVE  Copies(p)' = IF p \in 1 .. source' - 1 THEN 1 ELSE 0
  BY DEF ExactlyOnce
<1> DEFINE T == Cardinality(Trained(log, p))
           B == Count(trainer.batch, p)
           D == Count(preTrain.data, p)
           P == Count(preGen.pending, p)
           G == Count(preGen.data, p)
           H == IF holder = "control" /\ hand.p = p THEN 1 ELSE 0
           W == IF gen.pc = "pend" /\ gen.item.p = p THEN 1 ELSE 0
           Is(x) == IF x.p = p THEN 1 ELSE 0
           Kept == UNCHANGED <<T, B, D, P, G, H, W>>
<1>0. /\ TypeOK /\ log \in Seq(Seq(RolloutType)) /\ trainer \in TrainerType
      /\ trainer.batch \in Seq(RolloutType)
      /\ preTrain \in [data : Seq(RolloutType), pending : Seq(RolloutType)]
      /\ preGen \in [data : Seq(PromptType), pending : Seq(PromptType)]
      /\ preTrain.data \in Seq(RolloutType)
      /\ preGen.data \in Seq(PromptType) /\ preGen.pending \in Seq(PromptType)
      /\ hand \in PromptType /\ gen \in [pc : {"pop", "pend", "wait"}, item : PromptType]
      /\ gen.item \in PromptType /\ source \in 1 .. NumPrompts + 1
  BY DEF TypeOK, TrainerType
<1>a. /\ B \in Nat /\ D \in Nat /\ P \in Nat /\ G \in Nat /\ H \in Nat /\ W \in Nat
      /\ IsFiniteSet(Trained(log, p)) /\ T \in Nat
  <2>1. B \in Nat /\ D \in Nat /\ P \in Nat /\ G \in Nat
    BY <1>0, CountTotal
  <2>2. IsFiniteSet(Trained(log, p))
    BY TrainedSpread DEF TypeOK
  <2> QED BY <2>1, <2>2, FS_CardinalityType
<1>b. /\ Copies(p) = T + B + D + P + G + H + W
      /\ Copies(p)' = T' + B' + D' + P' + G' + H' + W'
      /\ Copies(p) = IF p \in 1 .. source - 1 THEN 1 ELSE 0
  BY DEF Copies, ExactlyOnce
<1>c. ASSUME Kept, source' = source
      PROVE  Copies(p)' = IF p \in 1 .. source' - 1 THEN 1 ELSE 0
  BY <1>b, <1>c
<1>1. CASE CtlPop
  <2>1. UNCHANGED <<T, B, D, P, G, W>> /\ source' = source + 1
    BY <1>1 DEF CtlPop, genVars, trainVars
  <2>2. H = 0 /\ H' = (IF source = p THEN 1 ELSE 0)
    BY <1>1 DEF CtlPop, Prompt
  <2> HIDE DEF T, B, D, P, G, H, W
  <2> QED BY <1>0, <1>a, <1>b, <2>1, <2>2
<1>2. CASE CtlPut
  <2>1. UNCHANGED <<T, B, D, W, source>> /\ preGen' = Put(preGen, hand)
    BY <1>2 DEF CtlPut, genVars, trainVars
  <2>2. H = Is(hand) /\ H' = 0
    BY <1>2 DEF CtlPut
  <2>3. preGen'.data = Append(preGen.data, hand) /\ preGen'.pending = preGen.pending
    BY <1>0, <2>1 DEF Put
  <2>4. G' = G + Is(hand) /\ P' = P
    BY <1>0, <2>3, CountAppend
  <2>5. Is(hand) \in Nat
    OBVIOUS
  <2> HIDE DEF T, B, D, P, G, H, W, Is
  <2> QED BY <1>a, <1>b, <2>1, <2>2, <2>4, <2>5
<1>3. CASE GenPop
  <2>1. /\ UNCHANGED <<T, B, D, source>> /\ QLen(preGen) > 0 /\ preGen' = Pop(preGen)
        /\ gen'.pc = "pend" /\ gen'.item = Peek(preGen)
    BY <1>3 DEF GenPop, ctlVars, trainVars
  <2>2. H = 0 /\ H' = 0 /\ W = 0
    BY <1>3 DEF GenPop
  <2>3. /\ preGen'.data = Tail(preGen.data) /\ preGen'.pending = preGen.pending
        /\ gen'.item = Head(preGen.data) /\ Len(preGen.data) > 0
    BY <1>0, <2>1 DEF Pop, Peek, QLen
  <2>4. G = G' + Is(Head(preGen.data)) /\ P' = P
    BY <1>0, <2>3, CountTail
  <2>5. W' = Is(Head(preGen.data))
    BY <2>1, <2>3
  <2>6. G' \in Nat
    <3>1. preGen'.data \in Seq(PromptType)
      BY <1>0, <2>3, HeadTailProperties, EmptySeq
    <3> QED BY <3>1, CountTotal
  <2>7. Is(Head(preGen.data)) \in Nat
    OBVIOUS
  <2> HIDE DEF T, B, D, P, G, H, W, Is
  <2> QED BY <1>a, <1>b, <2>1, <2>2, <2>4, <2>5, <2>6, <2>7
<1>4. CASE GenPend
  <2>1. /\ UNCHANGED <<T, B, D, source>> /\ preGen' = Pend(preGen, gen.item)
        /\ gen.pc = "pend" /\ gen'.pc = "wait" /\ holder' = "none" /\ holder = "generation"
    BY <1>0, <1>4 DEF GenPend, ctlVars, trainVars, Handed
  <2>2. H = 0 /\ H' = 0 /\ W = Is(gen.item) /\ W' = 0
    BY <2>1
  <2>3. preGen'.data = preGen.data /\ preGen'.pending = Append(preGen.pending, gen.item)
    BY <1>0, <2>1 DEF Pend
  <2>4. P' = P + Is(gen.item) /\ G' = G
    BY <1>0, <2>3, CountAppend
  <2>5. Is(gen.item) \in Nat
    OBVIOUS
  <2> HIDE DEF T, B, D, P, G, H, W, Is
  <2> QED BY <1>a, <1>b, <2>1, <2>2, <2>4, <2>5
<1>5. CASE GenSubmit
  <2>1. Kept /\ source' = source
    BY <1>5 DEF GenSubmit, ctlVars, trainVars
  <2> QED BY <1>c, <2>1
<1>6. ASSUME NEW x \in submitted, Deliver(x)
      PROVE  Copies(p)' = IF p \in 1 .. source' - 1 THEN 1 ELSE 0
  <2>1. /\ UNCHANGED <<T, B, H, W, source>>
        /\ preTrain' = Put(preTrain, Rollout(x)) /\ preGen' = Ack(preGen, ItemOf(x))
    BY <1>6 DEF Deliver, ctlVars, trainVars
  <2>2. /\ preGen'.data = preGen.data /\ preGen'.pending = Without(preGen.pending, ItemOf(x))
        /\ preTrain'.data = Append(preTrain.data, Rollout(x))
    BY <1>0, <2>1 DEF Put, Ack
  <2>3. PICK k \in 1 .. Len(preGen.pending) : preGen.pending[k] = ItemOf(x)
    BY DEF Running, Contains
  <2>4. /\ P = Count(Without(preGen.pending, preGen.pending[k]), p) + Is(preGen.pending[k])
        /\ Without(preGen.pending, preGen.pending[k]) \in Seq(PromptType)
    BY <1>0, CountWithout
  <2>5. P = P' + Is(ItemOf(x)) /\ P' \in Nat
    BY <2>2, <2>3, <2>4, CountTotal
  <2>6. Rollout(x) \in RolloutType
    BY <1>0 DEF TypeOK, Rollout, RolloutType, GeneratingType
  <2>7. D' = D + Is(Rollout(x)) /\ G' = G
    BY <1>0, <2>2, <2>6, CountAppend
  <2>8. Is(Rollout(x)) = Is(ItemOf(x)) /\ Is(ItemOf(x)) \in Nat
    BY DEF Rollout, ItemOf, Prompt
  <2>9. UNCHANGED <<T, B, H, W, source>>
    BY <2>1
  <2>10. PICK n \in Nat : n = Is(ItemOf(x))
    BY <2>8
  <2>11. P = P' + n /\ D' = D + n
    BY <2>5, <2>7, <2>8, <2>10
  <2> HIDE DEF T, B, D, P, G, H, W, Is
  <2>12. D' \in Nat /\ P' \in Nat /\ G' = G
    BY <1>a, <2>5, <2>7, <2>11
  <2>13. PICK d \in Nat, q \in Nat : d = D' /\ q = P'
    BY <2>12
  <2>14. d = D + n /\ P = q + n
    BY <2>11, <2>13
  <2>15. T + B + d + q + G + H + W = T + B + D + P + G + H + W
    BY <1>a, <2>14
  <2>16. T' + B' + D' + P' + G' + H' + W' = T + B + D + P + G + H + W
    BY <2>9, <2>12, <2>13, <2>15
  <2> QED BY <1>b, <2>9, <2>16
<1>7. ASSUME NEW x \in submitted, CbRaise(x)
      PROVE  Copies(p)' = IF p \in 1 .. source' - 1 THEN 1 ELSE 0
  <2>1. Kept /\ source' = source
    BY <1>7 DEF CbRaise, ctlVars, trainVars
  <2> QED BY <1>c, <2>1
<1>8. CASE CtlExhausted \/ UNCHANGED vars
  <2>1. Kept /\ source' = source
    BY <1>8 DEF CtlExhausted, vars, ctlVars, genVars, trainVars
  <2> QED BY <1>c, <2>1
<1>9. CASE TrainAdvance \/ TrainDeploy \/ TrainSynced \/ TrainSave \/ TrainNoSave
  <2>1. trainer'.batch = trainer.batch /\ preTrain'.data = preTrain.data
    BY <1>0, <1>9 DEF TrainAdvance, TrainDeploy, TrainSynced, TrainSave, TrainNoSave,
       TrainerType, WeightDumped
  <2>2. Kept /\ source' = source
    BY <1>9, <2>1 DEF TrainAdvance, TrainDeploy, TrainSynced, TrainSave, TrainNoSave,
       ctlVars, genVars
  <2> QED BY <1>c, <2>2
<1>10. CASE TrainTake
  <2>1. /\ UNCHANGED <<T, P, G, H, W, source>> /\ trainer.pc = "collect"
        /\ PromptPerIter <= Len(preTrain.data)
        /\ preTrain'.data = SubSeq(preTrain.data, PromptPerIter + 1, Len(preTrain.data))
        /\ trainer'.batch = SubSeq(preTrain.data, 1, PromptPerIter)
    BY <1>0, <1>10, LenProperties DEF TrainTake, QLen, ctlVars, genVars
  <2>2. D = B' + D'
    BY <1>0, <2>1, CountCut
  <2>3. B = 0
    BY <2>1, CountEmpty DEF Handed
  <2>4. B' \in Nat /\ D' \in Nat
    <3>1. trainer'.batch \in Seq(RolloutType) /\ preTrain'.data \in Seq(RolloutType)
      BY <1>0, <2>1, SubSeqProperties
    <3> QED BY <3>1, CountTotal
  <2>5. UNCHANGED <<T, P, G, H, W, source>>
    BY <2>1
  <2> HIDE DEF T, B, D, P, G, H, W, Is
  <2>6. T' + B' + D' + P' + G' + H' + W' = T + B + D + P + G + H + W
    BY <1>a, <2>2, <2>3, <2>4, <2>5
  <2> QED BY <1>b, <2>5, <2>6
<1>11. CASE TrainStep
  <2>1. /\ UNCHANGED <<D, P, G, H, W, source>>
        /\ log' = Append(log, trainer.batch) /\ trainer'.batch = <<>>
    BY <1>11 DEF TrainStep, ctlVars, genVars
  <2>2. T' = T + B
    BY <1>0, <1>a, <2>1, TrainedAppend
  <2>3. B' = 0
    BY <2>1, CountEmpty
  <2> HIDE DEF T, B, D, P, G, H, W, Is
  <2> QED BY <1>a, <1>b, <2>1, <2>2, <2>3
<1> QED
  BY <1>1, <1>2, <1>3, <1>4, <1>5, <1>6, <1>7, <1>8, <1>9, <1>10, <1>11
     DEF Next, Control, Generation, Callback, CbDone, CbIgnoreError, Trainer, Collecting,
         Finished

\* An item of a sequence is counted.
LEMMA CountContained ==
  ASSUME NEW S, NEW s \in Seq(S), NEW x, Contains(s, x)
  PROVE  /\ Count(s, x.p) > 0 /\ Count(s, x.p) \in Nat
         /\ Len(Without(s, x)) = Len(s) - 1
<1>1. PICK k \in 1 .. Len(s) : s[k] = x
  BY DEF Contains
<1>2. /\ Count(s, x.p) = Count(Without(s, s[k]), x.p) + (IF s[k].p = x.p THEN 1 ELSE 0)
      /\ Without(s, s[k]) \in Seq(S)
      /\ Len(Without(s, s[k])) = Len(s) - 1
  BY CountWithout
<1>3. Count(Without(s, s[k]), x.p) \in Nat
  BY <1>2, CountTotal
<1> QED BY <1>1, <1>2, <1>3

\* The prompt the generation worker has in hand is not running, nor is any other
\* of its number.
LEMMA HandOnly ==
  ASSUME TypeOK, ExactlyOnce, Running, gen.pc = "pend"
  PROVE  /\ gen.item \notin running
         /\ \A x \in submitted : x.p # gen.item.p
<1> USE ConfigTypes DEF FullyAsyncAssumption
<1>0. /\ preGen.pending \in Seq(PromptType) /\ preGen.data \in Seq(PromptType)
      /\ preTrain.data \in Seq(RolloutType) /\ trainer.batch \in Seq(RolloutType)
      /\ gen.item \in PromptType /\ gen.item.p \in 0 .. NumPrompts
      /\ log \in Seq(Seq(RolloutType))
  BY DEF TypeOK, TrainerType, PromptType
<1> DEFINE p == gen.item.p
           T == Cardinality(Trained(log, p))
           B == Count(trainer.batch, p)
           D == Count(preTrain.data, p)
           P == Count(preGen.pending, p)
           G == Count(preGen.data, p)
           H == IF holder = "control" /\ hand.p = p THEN 1 ELSE 0
<1>1. /\ B \in Nat /\ D \in Nat /\ P \in Nat /\ G \in Nat /\ H \in Nat /\ T \in Nat
  <2>1. B \in Nat /\ D \in Nat /\ P \in Nat /\ G \in Nat
    BY <1>0, CountTotal
  <2>2. IsFiniteSet(Trained(log, p))
    BY <1>0, TrainedSpread
  <2> QED BY <2>1, <2>2, FS_CardinalityType
<1>2. Copies(p) = T + B + D + P + G + H + 1
  BY DEF Copies
<1>3. Copies(p) \in {0, 1}
  BY <1>0 DEF ExactlyOnce
<1>4. P = 0
  <2> HIDE DEF T, B, D, P, G, H, p
  <2> QED BY <1>1, <1>2, <1>3
<1>5. ASSUME NEW y \in running PROVE y.p # p
  <2>1. Contains(preGen.pending, y)
    BY DEF Running
  <2>2. Count(preGen.pending, y.p) > 0
    BY <1>0, <2>1, CountContained
  <2> QED BY <1>4, <2>2
<1>6. ASSUME NEW x \in submitted PROVE x.p # p
  <2>1. ItemOf(x) \in running /\ ItemOf(x).p = x.p
    BY DEF Running, ItemOf, Prompt
  <2> QED BY <1>5, <2>1
<1> QED BY <1>5, <1>6

\* The prompts that count as running are those handed out and not acked.
LEMMA StepRunning ==
  ASSUME TypeOK, Handed, ExactlyOnce, Running, [Next]_vars
  PROVE  Running'
<1> USE ConfigTypes DEF FullyAsyncAssumption
<1>0. /\ preGen \in [data : Seq(PromptType), pending : Seq(PromptType)]
      /\ preGen.pending \in Seq(PromptType) /\ Len(preGen.pending) \in Nat
      /\ gen \in [pc : {"pop", "pend", "wait"}, item : PromptType] /\ gen.item \in PromptType
      /\ running \in SUBSET PromptType /\ IsFiniteSet(running) /\ Cardinality(running) \in Nat
      /\ submitted \in SUBSET GeneratingType /\ cbAlive \in BOOLEAN
  BY LenProperties, FS_CardinalityType DEF TypeOK
<1>1. ASSUME preGen'.pending = preGen.pending, UNCHANGED <<running, submitted, cbAlive>>,
             gen' = gen \/ gen'.pc # "wait"
      PROVE  Running'
  BY <1>1 DEF Running
<1>2. CASE CtlPut \/ GenPop
  <2>1. preGen'.pending = preGen.pending
    BY <1>0, <1>2 DEF CtlPut, GenPop, Put, Pop
  <2>2. UNCHANGED <<running, submitted, cbAlive>> /\ (gen' = gen \/ gen'.pc # "wait")
    BY <1>2 DEF CtlPut, GenPop, genVars
  <2> QED BY <1>1, <2>1, <2>2
<1>3. CASE GenPend
  <2>1. /\ running' = running \cup {gen.item} /\ UNCHANGED <<submitted, cbAlive>>
        /\ gen'.item = gen.item /\ preGen' = Pend(preGen, gen.item) /\ gen.pc = "pend"
    BY <1>0, <1>3 DEF GenPend
  <2>2. preGen'.pending = Append(preGen.pending, gen.item)
    BY <1>0, <2>1 DEF Pend
  <2>3. gen.item \notin running /\ \A x \in submitted : x.p # gen.item.p
    BY <2>1, HandOnly
  <2>4. Len(preGen'.pending) = Len(preGen.pending) + 1
    BY <1>0, <2>2, AppendProperties
  <2>5. Cardinality(running') = Cardinality(running) + 1
    BY <1>0, <2>1, <2>3, FS_AddElement
  <2>6. \A y \in running' : Contains(preGen'.pending, y)
    BY <1>0, <2>1, <2>2, ContainsKept, ContainsNew DEF Running
  <2>7. Len(preGen'.pending) = Cardinality(running') + (IF cbAlive' THEN 0 ELSE 1)
    BY <1>0, <2>1, <2>4, <2>5 DEF Running
  <2> QED BY <2>1, <2>3, <2>6, <2>7 DEF Running
<1>4. CASE GenSubmit
  <2> DEFINE z == Generating(gen.item, {served})
  <2>1. /\ submitted' = submitted \cup {z} /\ UNCHANGED <<preGen, running, cbAlive>>
        /\ gen'.pc = "pop" /\ gen.pc = "wait"
    BY <1>4 DEF GenSubmit
  <2>2. z.p = gen.item.p /\ ItemOf(z) = gen.item
    BY <1>0 DEF Generating, ItemOf, Prompt, PromptType
  <2> HIDE DEF z
  <2> QED BY <2>1, <2>2 DEF Running
<1>5. ASSUME NEW x \in submitted, Deliver(x)
      PROVE  Running'
  <2>1. /\ running' = running \ {ItemOf(x)} /\ submitted' = submitted \ {x}
        /\ UNCHANGED <<gen, cbAlive>> /\ preGen' = Ack(preGen, ItemOf(x))
    BY <1>5 DEF Deliver
  <2>2. preGen'.pending = Without(preGen.pending, ItemOf(x))
    BY <1>0, <2>1 DEF Ack
  <2>3. ItemOf(x) \in running /\ ItemOf(x) \in PromptType
    BY <1>0 DEF Running
  <2>4. Contains(preGen.pending, ItemOf(x))
    BY <2>3 DEF Running
  <2>5. Len(preGen'.pending) = Len(preGen.pending) - 1
    BY <1>0, <2>2, <2>4, CountContained
  <2>6. Cardinality(running') = Cardinality(running) - 1
    BY <1>0, <2>1, <2>3, FS_RemoveElement
  <2>7. \A y \in running' : Contains(preGen'.pending, y)
    BY <1>0, <2>1, <2>2, <2>3, ContainsKept DEF Running
  <2>8. Len(preGen'.pending) = Cardinality(running') + (IF cbAlive' THEN 0 ELSE 1)
    BY <1>0, <2>1, <2>5, <2>6 DEF Running
  <2>9. gen.pc = "wait" => gen.item # ItemOf(x)
    BY DEF Running, ItemOf, Prompt
  <2>10. \A y \in submitted' : ItemOf(y) \in running'
    BY <2>1 DEF Running, ItemOf, Prompt
  <2> QED BY <2>1, <2>7, <2>8, <2>9, <2>10 DEF Running
<1>6. ASSUME NEW x \in submitted, CbRaise(x)
      PROVE  Running'
  <2>1. /\ running' = running \ {ItemOf(x)} /\ submitted' = submitted \ {x}
        /\ UNCHANGED <<gen, preGen>> /\ cbAlive /\ ~cbAlive'
    BY <1>6 DEF CbRaise
  <2>2. ItemOf(x) \in running
    BY DEF Running
  <2>3. Cardinality(running') = Cardinality(running) - 1
    BY <1>0, <2>1, <2>2, FS_RemoveElement
  <2>4. \A y \in running' : Contains(preGen'.pending, y)
    BY <2>1 DEF Running
  <2>5. Len(preGen'.pending) = Cardinality(running') + (IF cbAlive' THEN 0 ELSE 1)
    BY <1>0, <2>1, <2>3 DEF Running
  <2>6. gen.pc = "wait" => gen.item # ItemOf(x)
    BY DEF Running, ItemOf, Prompt
  <2>7. \A y \in submitted' : ItemOf(y) \in running'
    BY <2>1 DEF Running, ItemOf, Prompt
  <2> QED BY <2>1, <2>4, <2>5, <2>6, <2>7 DEF Running
<1>7. CASE TrainDeploy
  <2>1. /\ UNCHANGED <<preGen, running, cbAlive, gen>>
        /\ submitted' = {Generating(x, x.seen \cup {train}) : x \in submitted}
    BY <1>7 DEF TrainDeploy
  <2>2. \A z \in submitted' : \E x \in submitted :
          /\ z = Generating(x, x.seen \cup {train}) /\ z.p = x.p /\ ItemOf(z) = ItemOf(x)
    BY <2>1 DEF Generating, ItemOf, Prompt
  <2>3. ASSUME NEW y \in submitted', NEW z \in submitted', y.p = z.p
        PROVE  y = z
    <3>1. PICK v \in submitted : y = Generating(v, v.seen \cup {train}) /\ y.p = v.p
      BY <2>2
    <3>2. PICK x \in submitted : z = Generating(x, x.seen \cup {train}) /\ z.p = x.p
      BY <2>2
    <3>3. v = x
      BY <2>3, <3>1, <3>2 DEF Running
    <3> QED BY <3>1, <3>2, <3>3
  <2>4. ASSUME NEW z \in submitted'
        PROVE  ItemOf(z) \in running /\ (gen.pc = "wait" => z.p # gen.item.p)
    <3>1. PICK x \in submitted : z.p = x.p /\ ItemOf(z) = ItemOf(x)
      BY <2>2
    <3> QED BY <3>1 DEF Running
  <2>5. /\ \A z \in submitted' : ItemOf(z) \in running'
        /\ gen'.pc = "wait" => gen'.item \in running' /\ \A z \in submitted' : z.p # gen'.item.p
    BY <2>1, <2>4 DEF Running
  <2> QED BY <2>1, <2>3, <2>5 DEF Running
<1>8. CASE \/ CtlPop \/ CtlExhausted \/ TrainAdvance \/ TrainSynced \/ TrainTake \/ TrainStep
           \/ TrainSave \/ TrainNoSave \/ UNCHANGED vars
  <2>1. UNCHANGED <<preGen, running, submitted, cbAlive, gen>>
    BY <1>8 DEF CtlPop, CtlExhausted, TrainAdvance, TrainSynced, TrainTake, TrainStep,
       TrainSave, TrainNoSave, vars, ctlVars, genVars
  <2> QED BY <1>1, <2>1
<1> QED
  BY <1>2, <1>3, <1>4, <1>5, <1>6, <1>7, <1>8
     DEF Next, Control, Generation, Callback, CbDone, CbIgnoreError, Trainer, Collecting,
         Finished

\* A restarted run adds no more to the pipeline than the cap lets through.
LEMMA StepCappedResume ==
  ASSUME ResumeTypeOK, Taking, Running, CappedResume, FlowStep
  PROVE  CappedResume'
<1> USE ConfigTypes DEF FullyAsyncAssumption
<1> DEFINE g == QLen(preGen)
           t == QLen(preTrain)
           r == Cardinality(running)
           h == InHand
<1>0. /\ preGen \in [data : Seq(PromptType), pending : Seq(PromptType)]
      /\ preTrain \in [data : Seq(RolloutType), pending : Seq(RolloutType)]
      /\ hand \in PromptType /\ gen.item \in PromptType
      /\ gen \in [pc : {"pop", "pend", "wait"}, item : PromptType]
      /\ IsFiniteSet(running) /\ submitted \in SUBSET GeneratingType
  BY DEF ResumeTypeOK, TypeOK
<1>a. g \in Nat /\ t \in Nat /\ r \in Nat /\ h \in Nat /\ crashes \in Nat
  BY <1>0, QLenNat, FS_CardinalityType DEF InHand, ResumeTypeOK
<1>b. g + h + r + t <= MaxUntrainedPrompts + 1 + crashes
  BY DEF CappedResume, Outstanding
<1>c. crashes' = crashes
  BY DEF FlowStep
\* What is to be shown, in terms of the four counts.
<1>d. ASSUME g' + h' + r' + t' <= MaxUntrainedPrompts + 1 + crashes
      PROVE  CappedResume'
  BY <1>c, <1>d DEF CappedResume, Outstanding
<1>e. ASSUME UNCHANGED <<g, h, r, t>> PROVE CappedResume'
  BY <1>b, <1>d, <1>e
<1>f. gen.pc = "pend" <=> holder = "generation"
  BY DEF Taking
<1>1. CASE CtlPop
  <2>1. g = 0 /\ t + r <= MaxUntrainedPrompts
    BY <1>1 DEF CtlPop, CanSchedulePrompt
  <2>2. UNCHANGED <<g, t, r>>
    BY <1>1 DEF CtlPop, genVars
  <2>3. h' = 1
    BY <1>1, <1>f DEF CtlPop, InHand, genVars
  <2> HIDE DEF g, t, r, h
  <2> QED BY <1>a, <1>d, <2>1, <2>2, <2>3
<1>2. CASE CtlPut
  <2>1. UNCHANGED <<t, r>> /\ h = 1 /\ h' = 0
    BY <1>2, <1>f DEF CtlPut, InHand, genVars
  <2>2. g' = g + 1
    BY <1>0, <1>2, QLenOf DEF CtlPut
  <2> HIDE DEF g, t, r, h
  <2> QED BY <1>a, <1>b, <1>d, <2>1, <2>2
<1>3. CASE GenPop
  <2>1. UNCHANGED <<t, r>> /\ h = 0 /\ h' = 1 /\ g > 0
    BY <1>3 DEF GenPop, InHand
  <2>2. g' = g - 1
    BY <1>0, <1>3, <2>1, QLenOf DEF GenPop
  <2> HIDE DEF g, t, r, h
  <2> QED BY <1>a, <1>b, <1>d, <2>1, <2>2
<1>4. CASE GenPend
  <2>1. t' = t /\ h = 1 /\ h' = 0
    BY <1>0, <1>4, <1>f DEF GenPend, InHand
  <2>2. g' = g
    BY <1>0, <1>4, QLenOf DEF GenPend
  <2>3. r' = r \/ r' = r + 1
    BY <1>0, <1>4, FS_AddElement DEF GenPend
  <2> HIDE DEF g, t, r, h
  <2> QED BY <1>a, <1>b, <1>d, <2>1, <2>2, <2>3
<1>5. ASSUME NEW x \in submitted, Deliver(x)
      PROVE  CappedResume'
  <2>1. Rollout(x) \in RolloutType /\ ItemOf(x) \in running
    BY <1>0 DEF Rollout, RolloutType, GeneratingType, Running
  <2>2. preTrain' = Put(preTrain, Rollout(x)) /\ preGen' = Ack(preGen, ItemOf(x))
    BY <1>5 DEF Deliver
  <2>3. t' = t + 1
    BY <1>0, <2>1, <2>2, QLenOf
  <2>4. g' = g
    BY <1>0, <2>2, QLenOf
  <2>5. r' = r - 1
    BY <1>0, <1>5, <2>1, FS_RemoveElement DEF Deliver
  <2>6. h' = h
    BY <1>5 DEF Deliver, InHand
  <2> HIDE DEF g, t, r, h
  <2> QED BY <1>a, <1>b, <1>d, <2>3, <2>4, <2>5, <2>6
<1>6. ASSUME NEW x \in submitted, CbRaise(x)
      PROVE  CappedResume'
  <2>1. UNCHANGED <<g, t, h>>
    BY <1>6 DEF CbRaise, InHand
  <2>2. r' = r - 1
    BY <1>0, <1>6, FS_RemoveElement DEF CbRaise, Running
  <2> HIDE DEF g, t, r, h
  <2> QED BY <1>a, <1>b, <1>d, <2>1, <2>2
<1>7. CASE TrainTake
  <2>1. UNCHANGED <<g, h, r>>
    BY <1>7 DEF TrainTake, InHand, genVars
  <2>2. t >= PromptPerIter
    BY <1>7 DEF TrainTake
  <2>3. PICK xs : preTrain' = [data |-> SubSeq(preTrain.data, PromptPerIter + 1, t),
                               pending |-> xs]
    BY <1>7 DEF TrainTake
  <2>4. t' \in Nat /\ t' <= t
    BY <1>0, <2>2, <2>3, TakeFacts
  <2>5. PICK a \in Nat, b \in Nat, c \in Nat, m \in Nat, n \in Nat :
          a = g /\ b = h /\ c = r /\ m = t /\ n = t'
    BY <1>a, <2>4
  <2> HIDE DEF g, t, r, h
  <2>6. a + b + c + m <= MaxUntrainedPrompts + 1 + crashes /\ n <= m
    BY <1>b, <2>4, <2>5
  <2>7. a + b + c + n <= MaxUntrainedPrompts + 1 + crashes
    BY <1>a, <2>6
  <2>8. g' + h' + r' + t' <= MaxUntrainedPrompts + 1 + crashes
    BY <2>1, <2>5, <2>7
  <2> QED BY <1>d, <2>8
<1>8. CASE \/ CtlExhausted \/ GenSubmit \/ TrainAdvance \/ TrainDeploy \/ TrainSynced \/ TrainStep
           \/ TrainNoSave \/ UNCHANGED vars
  <2>1. UNCHANGED <<preGen, preTrain, running, holder>> /\ (gen' = gen \/ GenSubmit)
    BY <1>8 DEF CtlExhausted, GenSubmit, TrainAdvance, TrainDeploy, TrainSynced, TrainStep,
       TrainNoSave, vars, ctlVars, genVars
  <2>2. h' = h
    BY <2>1 DEF InHand, GenSubmit
  <2> QED BY <1>e, <2>1, <2>2
<1> QED
  BY <1>1, <1>2, <1>3, <1>4, <1>5, <1>6, <1>7, <1>8
     DEF FlowStep, Control, Generation, Callback, CbDone, CbIgnoreError, Collecting

\* A step that leaves the pipeline as it is leaves the counts.
LEMMA SamePipeline ==
  ASSUME ExactlyOnce, Running, CappedResume,
         UNCHANGED <<log, trainer.batch, preTrain.data, preGen, holder, hand, gen, running,
                     submitted, cbAlive, source, crashes>>
  PROVE  (ExactlyOnce /\ Running /\ CappedResume)'
<1>1. \A p : Copies(p)' = Copies(p)
  BY DEF Copies
<1>2. ExactlyOnce'
  BY <1>1 DEF ExactlyOnce
<1>3. Running'
  BY DEF Running
<1>4. CappedResume'
  BY DEF CappedResume, Outstanding, InHand, QLen
<1> QED BY <1>2, <1>3, <1>4

\* A snapshot that stayed the image of one moment is exact.
LEMMA SnapExact ==
  ASSUME ResumeTypeOK, Taking, ExactlyOnce, Running, CappedResume, Reading,
         snap.part = "move"
  PROVE  Exact(snap.ckpt, crashes)
<1> USE ConfigTypes DEF FullyAsyncAssumption
<1> DEFINE c == snap.ckpt
<1>1. /\ c.log = log /\ c.source = source /\ c.trainItems = preTrain.data
      /\ c.genPending = preGen.pending /\ c.genData = preGen.data
      /\ holder = "none" /\ gen.pc # "pend" /\ trainer.batch = <<>>
  BY DEF Taking, Reading
<1> HIDE DEF c
<1>2. ASSUME NEW p \in 0 .. NumPrompts
      PROVE  CkptCopies(c, p) = IF p \in 1 .. c.source - 1 THEN 1 ELSE 0
  <2> DEFINE T == Cardinality(Trained(log, p))
             D == Count(preTrain.data, p)
             P == Count(preGen.pending, p)
             G == Count(preGen.data, p)
  <2>1. Copies(p) = T + 0 + D + P + G + 0 + 0
    BY <1>1, CountEmpty DEF Copies
  <2>2. CkptCopies(c, p) = T + D + P + G
    BY <1>1 DEF CkptCopies
  <2>3. T \in Int /\ D \in Nat /\ P \in Nat /\ G \in Nat
    <3>1. D \in Nat /\ P \in Nat /\ G \in Nat
      BY CountTotal DEF ResumeTypeOK, TypeOK
    <3>2. IsFiniteSet(Trained(log, p))
      BY TrainedSpread DEF ResumeTypeOK, TypeOK
    <3> QED BY <3>1, <3>2, FS_CardinalityType
  <2>4. Copies(p) = IF p \in 1 .. source - 1 THEN 1 ELSE 0
    BY DEF ExactlyOnce
  <2> HIDE DEF T, D, P, G
  <2> QED BY <1>1, <2>1, <2>2, <2>3, <2>4
<1>3. Len(c.trainItems) + Len(c.genPending) + Len(c.genData) <= MaxUntrainedPrompts + 2 + crashes
  <2> DEFINE d == Len(preTrain.data)
             q == Len(preGen.pending)
             g == Len(preGen.data)
             r == Cardinality(running)
  <2>1. d \in Nat /\ q \in Nat /\ g \in Nat /\ r \in Nat /\ crashes \in Nat
    BY LenProperties, FS_CardinalityType DEF ResumeTypeOK, TypeOK
  <2>2. q = r \/ q = r + 1
    BY <2>1 DEF Running
  <2>3. g + 0 + r + d <= MaxUntrainedPrompts + 1 + crashes
    BY <1>1 DEF CappedResume, Outstanding, InHand, QLen
  <2>4. d + q + g <= MaxUntrainedPrompts + 2 + crashes
    <3> HIDE DEF d, q, g, r
    <3> QED BY <2>1, <2>2, <2>3
  <2> QED BY <1>1, <2>4
<1>4. Exact(c, crashes)
  BY <1>2, <1>3 DEF Exact
<1> QED BY <1>4 DEF c

\* What a restart finds in an exact checkpoint is in the pipeline once, under
\* the cap.
LEMMA RestartExact ==
  ASSUME ResumeTypeOK, Restart, Exact(latest, crashes)
  PROVE  (ExactlyOnce /\ Running /\ CappedResume)'
<1> USE ConfigTypes DEF FullyAsyncAssumption
<1> DEFINE c == latest
<1>0. /\ c \in CkptType /\ crashes \in Nat /\ c.genPending \in Seq(PromptType)
      /\ c.genData \in Seq(PromptType) /\ c.trainItems \in Seq(RolloutType)
      /\ c.log \in Seq(Seq(RolloutType))
  BY DEF ResumeTypeOK, CkptType
<1>1. /\ log' = c.log /\ source' = c.source /\ trainer'.batch = <<>> /\ holder' = "none"
      /\ gen'.pc = "pop" /\ running' = {} /\ submitted' = {} /\ cbAlive' = TRUE
      /\ crashes' = crashes + 1
  BY DEF Restart, ResumedRunning
<1>2. /\ preGen'.data = c.genPending \o c.genData /\ preGen'.pending = <<>>
      /\ preTrain'.data = c.trainItems
  <2>1. /\ preGen' = [data |-> c.genPending \o c.genData, pending |-> <<>>]
        /\ preTrain' = [data |-> c.trainItems, pending |-> <<>>]
    BY RestartQueues
  <2> QED BY <2>1
<1> HIDE DEF c
<1>3. ASSUME NEW p \in 0 .. NumPrompts
      PROVE  Copies(p)' = IF p \in 1 .. source' - 1 THEN 1 ELSE 0
  <2> DEFINE T == Cardinality(Trained(c.log, p))
             D == Count(c.trainItems, p)
             P == Count(c.genPending, p)
             G == Count(c.genData, p)
  <2>1. Count(c.genPending \o c.genData, p) = P + G
    BY <1>0, CountConcat
  <2>2. Copies(p)' = T + 0 + D + 0 + (P + G) + 0 + 0
    <3>1. Count(preGen.pending, p)' = 0 /\ Count(trainer.batch, p)' = 0
      BY <1>1, <1>2, CountEmpty
    <3>2. Count(preGen.data, p)' = P + G /\ Count(preTrain.data, p)' = D
      BY <1>2, <2>1
    <3>3. Cardinality(Trained(log, p))' = T
      BY <1>1
    <3> HIDE DEF T, D, P, G
    <3> QED BY <1>1, <3>1, <3>2, <3>3 DEF Copies
  <2>3. T + D + P + G = IF p \in 1 .. c.source - 1 THEN 1 ELSE 0
    BY DEF Exact, CkptCopies, c
  <2>4. T \in Nat /\ D \in Nat /\ P \in Nat /\ G \in Nat
    <3>1. D \in Nat /\ P \in Nat /\ G \in Nat
      BY <1>0, CountTotal
    <3>2. IsFiniteSet(Trained(c.log, p))
      BY <1>0, TrainedSpread
    <3> QED BY <3>1, <3>2, FS_CardinalityType
  <2> HIDE DEF T, D, P, G
  <2> QED BY <1>1, <2>2, <2>3, <2>4
<1>4. ExactlyOnce'
  BY <1>3 DEF ExactlyOnce
<1>5. Running'
  <2>1. Len(preGen'.pending) = 0 /\ Cardinality(running') = 0
    BY <1>1, <1>2, FS_EmptySet
  <2> QED BY <1>1, <2>1 DEF Running
<1>6. CappedResume'
  <2> DEFINE d == Len(c.trainItems)
             q == Len(c.genPending)
             g == Len(c.genData)
  <2>1. d \in Nat /\ q \in Nat /\ g \in Nat
    BY <1>0, LenProperties
  <2>2. d + q + g <= MaxUntrainedPrompts + 2 + crashes
    BY DEF Exact, c
  <2>3. QLen(preGen)' = q + g /\ QLen(preTrain)' = d
    BY <1>0, <1>2, ConcatProperties DEF QLen
  <2>4. InHand' = 0 /\ Cardinality(running)' = 0
    BY <1>1, FS_EmptySet DEF InHand
  <2>5. Outstanding' = (q + g) + 0 + 0 + d
    BY <2>3, <2>4 DEF Outstanding
  <2> HIDE DEF d, q, g
  <2>6. Outstanding' <= MaxUntrainedPrompts + 1 + (crashes + 1)
    BY <1>0, <2>1, <2>2, <2>5
  <2> QED BY <1>1, <2>6 DEF CappedResume
<1> QED BY <1>4, <1>5, <1>6

\* What was exact stays so after further crashes.
LEMMA ExactLater ==
  ASSUME NEW c \in CkptType, NEW m \in Nat, NEW n \in Nat, m <= n, Exact(c, m)
  PROVE  Exact(c, n)
<1>1. Len(c.trainItems) \in Nat /\ Len(c.genPending) \in Nat /\ Len(c.genData) \in Nat
  BY LenProperties DEF CkptType
<1>2. MaxUntrainedPrompts \in Nat
  BY ConfigTypes DEF FullyAsyncAssumption
<1>3. PICK a \in Nat, b \in Nat, d \in Nat :
        a = Len(c.trainItems) /\ b = Len(c.genPending) /\ d = Len(c.genData)
  BY <1>1
<1>4. a + b + d <= MaxUntrainedPrompts + 2 + m
  BY <1>3 DEF Exact
<1>5. a + b + d <= MaxUntrainedPrompts + 2 + n
  BY <1>2, <1>4
<1> QED BY <1>3, <1>5 DEF Exact

\* At first nothing is handed out or saved.
LEMMA InitGood == ResumeInit => Good
<1> USE ConfigTypes DEF FullyAsyncAssumption
<1> SUFFICES ASSUME ResumeInit PROVE Good
  OBVIOUS
<1>1. /\ running = {} /\ submitted = {} /\ cbAlive = TRUE /\ gen.pc = "pop" /\ holder = "none"
      /\ preGen = EmptyQueue /\ preTrain = EmptyQueue /\ crashes = 0
      /\ snap = NoSnap /\ dumps = <<>> /\ latest = FreshCkpt
  BY DEF ResumeInit, Init
<1>2. ExactlyOnce
  BY InitOnce DEF ResumeInit
<1>3. Running
  BY <1>1, FS_EmptySet DEF Running, EmptyQueue
<1>4. CappedResume
  BY <1>1, FS_EmptySet DEF CappedResume, Outstanding, InHand, QLen, EmptyQueue
<1>5. \A c \in Saved : c = FreshCkpt
  BY <1>1 DEF Saved
<1>6. Exact(FreshCkpt, crashes)
  <2>1. \A p : Trained(<<>>, p) = {}
    BY DEF Trained
  <2>2. ASSUME NEW p \in 0 .. NumPrompts
        PROVE  CkptCopies(FreshCkpt, p) = 0
    <3>1. /\ Cardinality(Trained(FreshCkpt.log, p)) = 0 /\ Count(FreshCkpt.trainItems, p) = 0
          /\ Count(FreshCkpt.genPending, p) = 0 /\ Count(FreshCkpt.genData, p) = 0
      BY <2>1, CountEmpty, FS_EmptySet DEF FreshCkpt
    <3> QED BY <3>1 DEF CkptCopies
  <2>3. FreshCkpt.source = 1 /\ Len(FreshCkpt.trainItems) = 0 /\ Len(FreshCkpt.genPending) = 0
        /\ Len(FreshCkpt.genData) = 0
    BY DEF FreshCkpt
  <2> QED BY <1>1, <2>2, <2>3 DEF Exact
<1> QED BY <1>1, <1>2, <1>3, <1>4, <1>5, <1>6 DEF Good, Reading, NoSnap

\* Every step that restores no torn checkpoint keeps the pipeline, the clean
\* checkpoints and the clean part of a snapshot exact.
LEMMA StepGood ==
  ASSUME ResumeTypeOK, Taking, ~tainted => Good, [ResumeNext]_resumeVars, ~tainted'
  PROVE  Good'
<1> USE ConfigTypes DEF FullyAsyncAssumption
<1>0. /\ snap \in SnapType /\ snap.ckpt \in CkptType /\ crashes \in Nat
      /\ preTrain.data \in Seq(RolloutType) /\ preTrain.pending \in Seq(RolloutType)
  BY DEF ResumeTypeOK, TypeOK, SnapType
<1>1. /\ ~tainted /\ Good
      /\ Restart => latest.clean
  <2>1. Restart => tainted' = (tainted \/ ~latest.clean)
    BY DEF Restart
  <2>2. FlowStep \/ SaveBegin \/ MoveDone \/ MoveFails \/ DumpDone => tainted' = tainted
    BY DEF FlowStep, SaveBegin, MoveDone, MoveFails, DumpDone
  <2>3. ReadStep => tainted' = tainted
    BY ReadSteps
  <2>4. ~tainted
    BY <2>1, <2>2, <2>3, StepKinds
  <2> QED BY <2>1, <2>4
<1>2. ExactlyOnce /\ Running /\ CappedResume
  BY <1>1 DEF Good
<1>3. \A c \in Saved' : c \in Saved \/ (MoveDone /\ c = snap.ckpt)
  BY SavedStep
<1>4. CASE UNCHANGED crashes /\ ~Restart
  <2>1. \A c \in Saved' : c.clean => Exact(c, crashes)
    BY <1>1, <1>3 DEF Good, MoveDone
  <2>2. \A c \in Saved' : c.clean => Exact(c, crashes')
    BY <1>4, <2>1
  <2>3. CASE FlowStep
    <3>1. (ExactlyOnce /\ Running /\ CappedResume)'
      <4>1. TypeOK /\ Handed /\ [Next]_vars
        BY <2>3, FlowStepNext DEF ResumeTypeOK, Taking, Handed
      <4> QED BY <1>2, <2>3, <4>1, StepExact, StepRunning, StepCappedResume
    <3>2. snap'.part = snap.part /\ (snap'.ckpt.clean => snap' = snap)
      BY <1>0, <2>3, FlowStepSnap
    <3>3. snap'.part = "copy" /\ snap'.ckpt.clean => Exact(snap'.ckpt, crashes')
      BY <1>1, <1>4, <3>2 DEF Good
    <3>4. ASSUME snap'.ckpt.clean, snap'.part \notin {"none", "copy"}
          PROVE  UNCHANGED vars /\ snap' = snap /\ snap.ckpt.clean
      <4>1. snap' = snap /\ snap.ckpt.clean /\ snap.part \notin {"none", "copy"}
        BY <3>2, <3>4
      <4>2. trainer.pc = "snapshot"
        BY <4>1 DEF Taking
      <4>3. ~(Collecting \/ TrainNoSave)
        BY <4>2 DEF Collecting, TrainNoSave, TrainAdvance, TrainDeploy, TrainSynced, TrainTake,
           TrainStep
      <4> QED BY <2>3, <4>1, <4>3 DEF FlowStep
    <3>5. snap'.ckpt.clean => Reading'
      BY <1>1, <3>4 DEF Good, Reading, vars, ctlVars
    <3> QED BY <2>2, <3>1, <3>3, <3>5 DEF Good
  <2>4. CASE SaveBegin
    <3>1. preTrain' = [data |-> preTrain.data, pending |-> <<>>]
      BY <2>4, SaveBeginSnap
    <3>2. trainer'.batch = trainer.batch
      BY <2>4 DEF SaveBegin, ResumeTypeOK, TypeOK, TrainerType
    <3>3. (ExactlyOnce /\ Running /\ CappedResume)'
      BY <1>2, <1>4, <2>4, <3>1, <3>2, SamePipeline DEF SaveBegin, ctlVars, genVars
    <3>4. snap'.part = "exhausted" /\ (snap'.ckpt.clean => holder = "none") /\ holder' = holder
      BY <2>4, SaveBeginSnap DEF SaveBegin
    <3>5. snap'.ckpt.clean => Reading'
      BY <3>4 DEF Reading
    <3> QED BY <2>2, <3>3, <3>4, <3>5 DEF Good
  <2>5. CASE ReadStep
    <3>1. UNCHANGED vars
      BY <2>5, ReadSteps
    <3>2. (ExactlyOnce /\ Running /\ CappedResume)'
      BY <1>2, <1>4, <3>1, SamePipeline DEF vars, ctlVars, genVars, trainVars
    <3>3. /\ snap.part \notin {"none", "copy"}
          /\ snap'.ckpt.clean = snap.ckpt.clean
          /\ \/ /\ snap.part = "exhausted" /\ snap'.part = "source"
             \/ /\ snap.part = "source" /\ snap'.part = "genData" /\ snap'.ckpt.source = source
             \/ /\ snap.part = "genData" /\ snap'.part = "genPending"
                /\ snap'.ckpt.source = snap.ckpt.source /\ snap'.ckpt.genData = preGen.data
             \/ /\ snap.part = "genPending" /\ snap'.part = "train"
                /\ snap'.ckpt.source = snap.ckpt.source
                /\ snap'.ckpt.genData = snap.ckpt.genData
                /\ snap'.ckpt.genPending = preGen.pending
             \/ /\ snap.part = "train" /\ snap'.part = "move"
                /\ snap'.ckpt.source = snap.ckpt.source
                /\ snap'.ckpt.genData = snap.ckpt.genData
                /\ snap'.ckpt.genPending = snap.ckpt.genPending
                /\ snap'.ckpt.trainItems = preTrain.pending \o preTrain.data
             \/ /\ snap.part = "move" /\ snap'.part = "copy" /\ snap'.ckpt = snap.ckpt
      BY <1>0, <2>5, ReadSteps DEF CkptType
    <3>4. preTrain.pending \o preTrain.data = preTrain.data
      BY <1>0, <3>3, ConcatEmptySeq DEF Taking
    <3>5. snap.ckpt.clean => Reading
      BY <1>1 DEF Good
    <3>6. ASSUME snap'.ckpt.clean, snap'.part # "copy"
          PROVE  Reading'
      <4>1. holder' = holder /\ UNCHANGED <<source, preGen, preTrain>>
        BY <3>1 DEF vars, ctlVars
      <4>2. Reading
        BY <3>3, <3>5, <3>6
      <4> QED BY <3>3, <3>4, <3>6, <4>1, <4>2 DEF Reading
    <3>7. ASSUME snap'.ckpt.clean, snap'.part = "copy"
          PROVE  Exact(snap'.ckpt, crashes')
      <4>1. snap.part = "move" /\ snap'.ckpt = snap.ckpt /\ Reading
        BY <3>3, <3>5, <3>7
      <4>2. Exact(snap.ckpt, crashes)
        BY <1>2, <4>1, SnapExact
      <4> QED BY <1>4, <4>1, <4>2
    <3>8. snap'.part = "copy" => Reading'
      BY DEF Reading
    <3> QED BY <2>2, <3>2, <3>6, <3>7, <3>8 DEF Good
  <2>6. CASE MoveDone \/ MoveFails
    <3>1. trainer'.batch = trainer.batch /\ snap' = NoSnap
      BY <2>6 DEF MoveDone, MoveFails, ResumeTypeOK, TypeOK, TrainerType
    <3>2. (ExactlyOnce /\ Running /\ CappedResume)'
      BY <1>2, <1>4, <2>6, <3>1, SamePipeline DEF MoveDone, MoveFails, ctlVars, genVars
    <3> QED BY <2>2, <3>1, <3>2 DEF Good, Reading, NoSnap
  <2>7. CASE DumpDone
    <3>1. UNCHANGED vars /\ snap' = snap
      BY <2>7 DEF DumpDone
    <3>2. (ExactlyOnce /\ Running /\ CappedResume)'
      BY <1>2, <1>4, <3>1, SamePipeline DEF vars, ctlVars, genVars, trainVars
    <3>3. snap'.ckpt.clean => Reading'
      BY <1>1, <3>1 DEF Good, Reading, vars, ctlVars
    <3>4. snap'.part = "copy" /\ snap'.ckpt.clean => Exact(snap'.ckpt, crashes')
      BY <1>1, <1>4, <3>1 DEF Good
    <3> QED BY <2>2, <3>2, <3>3, <3>4 DEF Good
  <2> QED BY <1>4, <2>3, <2>4, <2>5, <2>6, <2>7, StepKinds
<1>5. CASE Restart
  <2>1. latest' = latest /\ dumps' = <<>> /\ snap' = NoSnap /\ crashes' = crashes + 1
    BY <1>5 DEF Restart
  <2>2. latest.clean /\ Exact(latest, crashes)
    BY <1>1, <1>5 DEF Good, Saved
  <2>3. (ExactlyOnce /\ Running /\ CappedResume)'
    BY <1>5, <2>2, RestartExact
  <2>4. Exact(latest, crashes')
    <3>1. crashes + 1 \in Nat /\ crashes <= crashes + 1 /\ latest \in CkptType
      BY <1>0 DEF ResumeTypeOK
    <3>2. Exact(latest, crashes + 1)
      BY <1>0, <2>2, <3>1, ExactLater
    <3> QED BY <2>1, <3>2
  <2>5. \A c \in Saved' : c = latest
    BY <2>1 DEF Saved
  <2> QED BY <2>1, <2>3, <2>4, <2>5 DEF Good, Reading, NoSnap
<1>6. FlowStep \/ SaveBegin \/ MoveDone \/ MoveFails \/ DumpDone => UNCHANGED crashes
  BY DEF FlowStep, SaveBegin, MoveDone, MoveFails, DumpDone
<1>7. ReadStep => UNCHANGED crashes
  BY ReadSteps
<1> QED BY <1>4, <1>5, <1>6, <1>7, StepKinds

\* The inductive invariant of the resume: at first, ...
LEMMA InitResume == ResumeInit => ResumeInv
BY InitResumeType, InitEarly, InitTaking, InitVersions, InitGood DEF ResumeInv

\* ... in every step, ...
LEMMA StepResume == ResumeInv /\ [ResumeNext]_resumeVars => ResumeInv'
<1> SUFFICES ASSUME ResumeInv, [ResumeNext]_resumeVars PROVE ResumeInv'
  OBVIOUS
<1>1. /\ ResumeTypeOK /\ Early /\ Taking /\ Versions /\ Synced
      /\ ~tainted => Good
  BY DEF ResumeInv
<1>2. ResumeTypeOK' /\ Early' /\ Taking' /\ Versions' /\ Synced'
  BY <1>1, StepResumeType, StepEarly, StepTaking, StepVersions, StepSynced
<1>3. (~tainted => Good)'
  BY <1>1, StepGood
<1> QED BY <1>2, <1>3 DEF ResumeInv

\* ... and what it says of the properties.
LEMMA ResumeFacts ==
  ResumeInv => AsyncResumeExact /\ NeverEndedEarly /\ WedgedOnlyRestored
<1>1. ResumeInv => AsyncResumeExact
  BY DEF ResumeInv, AsyncResumeExact, Good, CappedResume, Versions, VersionInv
<1>2. ResumeInv => NeverEndedEarly
  BY DEF ResumeInv, Early
<1>3. ResumeInv => WedgedOnlyRestored
  BY NoWedge DEF ResumeInv
<1> QED BY <1>1, <1>2, <1>3

\* A restarted job resumes exactly: as long as every restored checkpoint was the
\* image of one moment, no prompt is lost or trained on twice, restored prompts
\* count under the cap, and none is generated by weights older than its own.
THEOREM AsyncResumeInvariant == ResumeSpec => []AsyncResumeExact
BY InitResume, StepResume, ResumeFacts, PTL DEF ResumeSpec
-----------------------------------------------------------------------------
(* The promise of BatchStream.                                             *)

\* The batch of a training step is whole, and the trainer asks for no more
\* batches than it is to train on.
Stepping ==
  /\ trainer.pc = "step" => Len(trainer.batch) = PromptPerIter
  /\ trainer.pc \in {"sync", "deployed", "collect", "step"} => Len(log) < TrainIters

\* What holds between the steps of a run that does not restart.
Piped == TypeOK /\ Handed /\ ExactlyOnce /\ Running /\ Stepping

\* The initial states.
LEMMA InitPiped == Init => Piped
<1> SUFFICES ASSUME Init PROVE Piped
  OBVIOUS
<1>1. TypeOK
  BY InitType
<1>2. Handed /\ Stepping
  BY DEF Init, Handed, Stepping
<1>3. ExactlyOnce
  BY InitOnce
<1>4. Running
  BY FS_EmptySet DEF Init, Running, EmptyQueue
<1> QED BY <1>1, <1>2, <1>3, <1>4 DEF Piped

\* Who is inside the lock, and with what.
LEMMA StepHanded == TypeOK /\ Handed /\ [Next]_vars => Handed'
<1> SUFFICES ASSUME TypeOK, Handed, [Next]_vars PROVE Handed'
  OBVIOUS
<1>1. trainer \in TrainerType /\ gen \in [pc : {"pop", "pend", "wait"}, item : PromptType]
  BY DEF TypeOK
<1>2. gen'.pc = "pend" <=> holder' = "generation"
  <2>1. CASE Generation
    BY <1>1, <2>1 DEF Generation, GenPop, GenPend, GenSubmit, Handed
  <2>2. CASE Control
    BY <2>2 DEF Control, CtlPop, CtlPut, CtlExhausted, genVars, Handed
  <2>3. CASE ~Generation /\ ~Control
    <3>1. UNCHANGED <<gen, holder>>
      BY <2>3 DEF Next, Callback, CbDone, CbIgnoreError, CbRaise, Deliver, Finished, Trainer,
         Collecting, TrainAdvance, TrainDeploy, TrainSynced, TrainTake, TrainStep, TrainSave,
         TrainNoSave, vars, genVars
    <3> QED BY <3>1 DEF Handed
  <2> QED BY <2>1, <2>2, <2>3
<1>3. trainer'.pc # "step" => trainer'.batch = <<>>
  <2>1. CASE Trainer
    BY <1>1, <2>1 DEF TrainerType, Trainer, Collecting, TrainAdvance, TrainDeploy, TrainSynced,
       TrainTake, TrainStep, TrainSave, TrainNoSave, Handed
  <2>2. CASE ~Trainer
    <3>1. trainer' = trainer
      BY <2>2 DEF Next, Control, CtlPop, CtlPut, CtlExhausted, Generation, GenPop, GenPend,
         GenSubmit, Callback, CbDone, CbIgnoreError, CbRaise, Deliver, Finished, vars, trainVars
    <3> QED BY <3>1 DEF Handed
  <2> QED BY <2>1, <2>2
<1> QED BY <1>2, <1>3 DEF Handed

\* prompt_per_iter results are taken, and only for an iteration to come.
LEMMA StepStepping == TypeOK /\ Stepping /\ [Next]_vars => Stepping'
<1> SUFFICES ASSUME TypeOK, Stepping, [Next]_vars PROVE Stepping'
  OBVIOUS
<1>1. trainer \in TrainerType /\ preTrain.data \in Seq(RolloutType)
  BY DEF TypeOK
<1>2. CASE TrainTake
  <2>1. /\ trainer.pc = "collect" /\ log' = log /\ PromptPerIter <= Len(preTrain.data)
        /\ trainer' = [pc |-> "step", batch |-> SubSeq(preTrain.data, 1, PromptPerIter)]
    BY <1>2, LenProperties, ConfigTypes DEF TrainTake, FullyAsyncAssumption, QLen
  <2>2. Len(SubSeq(preTrain.data, 1, PromptPerIter)) = PromptPerIter
    <3>1. PICK n \in Nat : n = Len(preTrain.data)
      BY <1>1, LenProperties
    <3>2. PICK k \in Nat \ {0} : k = PromptPerIter
      BY ConfigTypes DEF FullyAsyncAssumption
    <3>3. 1 .. k \subseteq 1 .. n /\ k - 1 + 1 = k /\ 1 <= k
      BY <2>1, <3>1, <3>2
    <3>4. \A i \in 1 .. k : preTrain.data[i] \in RolloutType
      BY <1>1, <3>1, <3>3, ElementOfSeq
    <3>5. Len(SubSeq(preTrain.data, 1, k)) = k
      BY <3>3, <3>4, SubSeqProperties
    <3> QED BY <3>2, <3>5
  <2> QED BY <2>1, <2>2 DEF Stepping
<1>3. CASE TrainAdvance \/ TrainDeploy \/ TrainSynced
  BY <1>1, <1>3 DEF TrainAdvance, TrainDeploy, TrainSynced, TrainerType, Stepping
<1>4. CASE TrainStep \/ TrainSave \/ TrainNoSave
  BY <1>1, <1>4 DEF TrainStep, TrainSave, TrainNoSave, TrainerType, Stepping
<1>5. CASE ~Trainer
  <2>1. trainer' = trainer /\ log' = log
    BY <1>5 DEF Next, Control, CtlPop, CtlPut, CtlExhausted, Generation, GenPop, GenPend,
       GenSubmit, Callback, CbDone, CbIgnoreError, CbRaise, Deliver, Finished, vars, trainVars
  <2> QED BY <2>1 DEF Stepping
<1> QED BY <1>2, <1>3, <1>4, <1>5 DEF Trainer, Collecting

\* Every step keeps all of it.
LEMMA StepPiped == Piped /\ [Next]_vars => Piped'
BY StepType, StepHanded, StepExact, StepRunning, StepStepping DEF Piped

\* Whatever the order of the threads' steps, and whether or not generations
\* raise, no prompt is lost or trained on twice.
THEOREM ExactlyOnceInvariant == Spec => []ExactlyOnce
BY InitPiped, StepPiped, PTL DEF Spec, Piped

\* A prompt of the batch in the trainer's hands is nowhere else: it is one of the
\* source's, it is there once and no batch before had it.
LEMMA OnlyInBatch ==
  ASSUME TypeOK, ExactlyOnce, NEW i \in DOMAIN trainer.batch
  PROVE  /\ trainer.batch[i].p \in 1 .. NumPrompts
         /\ \A j \in DOMAIN trainer.batch : trainer.batch[j].p = trainer.batch[i].p => j = i
         /\ \A k \in DOMAIN log : trainer.batch[i].p \notin PromptIds(log[k])
<1>0. /\ preGen.pending \in Seq(PromptType) /\ preGen.data \in Seq(PromptType)
      /\ preTrain.data \in Seq(RolloutType) /\ trainer.batch \in Seq(RolloutType)
      /\ log \in Seq(Seq(RolloutType)) /\ source \in 1 .. NumPrompts + 1
      /\ NumPrompts \in Nat
  BY ConfigTypes DEF TypeOK, TrainerType, FullyAsyncAssumption
<1> DEFINE p == trainer.batch[i].p
           I == {j \in DOMAIN trainer.batch : trainer.batch[j].p = p}
           T == Cardinality(Trained(log, p))
           B == Count(trainer.batch, p)
           D == Count(preTrain.data, p)
           P == Count(preGen.pending, p)
           G == Count(preGen.data, p)
           H == IF holder = "control" /\ hand.p = p THEN 1 ELSE 0
           W == IF gen.pc = "pend" /\ gen.item.p = p THEN 1 ELSE 0
<1>1. p \in 0 .. NumPrompts
  <2>1. trainer.batch[i] \in RolloutType
    BY <1>0, LenProperties, ElementOfSeq
  <2> QED BY <2>1 DEF RolloutType
<1>2. /\ B \in Nat /\ D \in Nat /\ P \in Nat /\ G \in Nat /\ H \in Nat /\ W \in Nat
      /\ IsFiniteSet(Trained(log, p)) /\ T \in Nat
  <2>1. B \in Nat /\ D \in Nat /\ P \in Nat /\ G \in Nat
    BY <1>0, CountTotal
  <2>2. IsFiniteSet(Trained(log, p))
    BY <1>0, TrainedSpread
  <2> QED BY <2>1, <2>2, FS_CardinalityType
<1>3. i \in I /\ IsFiniteSet(I) /\ B = Cardinality(I)
  <2>1. DOMAIN trainer.batch = 1 .. Len(trainer.batch) /\ Len(trainer.batch) \in Nat
    BY <1>0, LenProperties
  <2>2. IsFiniteSet(DOMAIN trainer.batch) /\ I \subseteq DOMAIN trainer.batch
    BY <2>1, FS_Interval
  <2> QED BY <2>2, FS_Subset DEF Count
<1>4. B # 0
  <2> HIDE DEF p, I, B
  <2> QED BY <1>3, FS_EmptySet
<1>5. /\ Copies(p) = T + B + D + P + G + H + W
      /\ Copies(p) = IF p \in 1 .. source - 1 THEN 1 ELSE 0
  BY <1>1 DEF Copies, ExactlyOnce
<1>6. B = 1 /\ T = 0 /\ p \in 1 .. source - 1
  <2> HIDE DEF p, T, B, D, P, G, H, W
  <2> QED BY <1>2, <1>4, <1>5
<1>7. p \in 1 .. NumPrompts
  <2> HIDE DEF p
  <2> QED BY <1>0, <1>6
<1>8. ASSUME NEW j \in I PROVE j = i
  <2> HIDE DEF p, I, B
  <2>1. Cardinality(I) = 1
    BY <1>3, <1>6
  <2>2. PICK x : I = {x}
    BY <1>3, <2>1, FS_Singleton
  <2> QED BY <1>3, <2>2
<1>9. ASSUME NEW k \in DOMAIN log PROVE p \notin PromptIds(log[k])
  <2>1. Trained(log, p) = {}
    <3> HIDE DEF p
    <3> QED BY <1>2, <1>6, FS_EmptySet DEF T
  <2>2. ASSUME NEW j \in DOMAIN log[k], log[k][j].p = p
        PROVE  FALSE
    <3>1. <<k, j>> \in Trained(log, p)
      BY <2>2 DEF Trained
    <3> QED BY <2>1, <3>1
  <2> QED BY <2>2 DEF PromptIds
<1> QED BY <1>7, <1>8, <1>9

\* What the trainer has received, as BatchStream has it.
Batches == [k \in DOMAIN log |-> PromptIds(log[k])]

\* A training step appends the prompts of its batch.
LEMMA BatchAppended ==
  ASSUME TypeOK, log' = Append(log, trainer.batch)
  PROVE  Batches' = Append(Batches, PromptIds(trainer.batch)) /\ Len(Batches) = Len(log)
<1>1. PICK n \in Nat : n = Len(log)
  BY LenProperties DEF TypeOK
<1>2. PICK B : B = PromptIds(trainer.batch)
  OBVIOUS
<1>3. /\ log \in Seq(Seq(RolloutType)) /\ trainer.batch \in Seq(RolloutType)
      /\ DOMAIN log = 1 .. n
  BY <1>1, LenProperties DEF TypeOK, TrainerType
<1> DEFINE S == {PromptIds(b) : b \in Seq(RolloutType)}
<1>4. B \in S /\ \A k \in 1 .. n : PromptIds(log[k]) \in S
  BY <1>1, <1>2, <1>3, ElementOfSeq
<1> HIDE DEF S
<1>5. DOMAIN Batches = 1 .. n /\ Batches \in Seq(S) /\ Len(Batches) = n
  <2>1. Batches \in [1 .. n -> S]
    BY <1>3, <1>4 DEF Batches
  <2>2. Batches \in Seq(S)
    BY <2>1, SeqDef
  <2> QED BY <2>1, <2>2, LenProperties
<1>6. /\ Append(Batches, B) \in Seq(S) /\ Len(Append(Batches, B)) = n + 1
      /\ \A k \in 1 .. n : Append(Batches, B)[k] = Batches[k]
      /\ Append(Batches, B)[n + 1] = B
  BY <1>4, <1>5, AppendProperties
<1>7. DOMAIN log' = 1 .. n + 1 /\ log'[n + 1] = trainer.batch /\ \A k \in 1 .. n : log'[k] = log[k]
  <2>1. /\ Append(log, trainer.batch) \in Seq(Seq(RolloutType))
        /\ Len(Append(log, trainer.batch)) = n + 1
        /\ Append(log, trainer.batch)[n + 1] = trainer.batch
        /\ \A k \in 1 .. n : Append(log, trainer.batch)[k] = log[k]
    BY <1>1, <1>3, AppendProperties
  <2> QED BY <2>1, LenProperties
<1>8. Batches' = [k \in 1 .. n + 1 |-> PromptIds(log'[k])]
  BY <1>7 DEF Batches
<1>9. ASSUME NEW k \in 1 .. n + 1
      PROVE  PromptIds(log'[k]) = Append(Batches, B)[k]
  <2>1. CASE k \in 1 .. n
    BY <1>3, <1>6, <1>7, <2>1 DEF Batches
  <2>2. CASE k = n + 1
    BY <1>2, <1>6, <1>7, <2>2
  <2>3. k \in 1 .. n \/ k = n + 1
    OBVIOUS
  <2> QED BY <2>1, <2>2, <2>3
<1>10. PICK a \in Seq(S) : a = Append(Batches, B)
  BY <1>6
<1>11. PICK l : l = Batches'
  OBVIOUS
<1>12. /\ Len(a) = n + 1 /\ \A k \in 1 .. n + 1 : a[k] \in S
       /\ l = [k \in 1 .. n + 1 |-> a[k]]
  BY <1>6, <1>8, <1>9, <1>10, <1>11, ElementOfSeq
<1>13. l \in [1 .. n + 1 -> S] /\ (\A k \in 1 .. n + 1 : l[k] = a[k]) /\ n + 1 \in Nat
  BY <1>12
<1>14. l \in Seq(S)
  BY <1>13, SeqDef
<1>15. Len(l) = n + 1
  BY <1>13, <1>14, LenProperties
<1>16. l = a
  BY <1>12, <1>13, <1>14, <1>15, SeqEqual
<1> QED BY <1>1, <1>2, <1>5, <1>10, <1>11, <1>16

\* A training step receives prompt_per_iter prompts no step before received.
LEMMA TrainReceives ==
  ASSUME Piped, TrainStep
  PROVE  /\ Stream!Receive(PromptIds(trainer.batch))
         /\ PromptIds(trainer.batch) \in SUBSET Stream!Prompts
<1>1. PICK P \in Nat \ {0} : P = PromptPerIter
  BY ConfigTypes DEF FullyAsyncAssumption
<1>2. PICK b : b = trainer.batch
  OBVIOUS
<1>3. /\ TypeOK /\ ExactlyOnce /\ trainer.pc = "step" /\ log' = Append(log, trainer.batch)
      /\ b \in Seq(RolloutType) /\ Len(b) = P /\ DOMAIN b = 1 .. P
      /\ Len(log) < TrainIters
  BY <1>1, <1>2, LenProperties DEF Piped, TrainStep, Stepping, TypeOK, TrainerType
<1>4. \A i \in 1 .. P :
        /\ b[i].p \in 1 .. NumPrompts
        /\ \A j \in 1 .. P : b[j].p = b[i].p => j = i
        /\ \A k \in DOMAIN log : b[i].p \notin PromptIds(log[k])
  BY <1>2, <1>3, OnlyInBatch
<1>5. PromptIds(trainer.batch) = {b[i].p : i \in 1 .. P}
  BY <1>2, <1>3 DEF PromptIds
<1>6. PromptIds(trainer.batch) \in SUBSET Stream!Prompts
  BY <1>4, <1>5 DEF Stream!Prompts
<1>7. PromptIds(trainer.batch) \cap Stream!Received = {}
  BY <1>4, <1>5 DEF Stream!Received, Stream!Range
<1>8. Cardinality(PromptIds(trainer.batch)) = P
  <2> DEFINE f == [i \in 1 .. P |-> b[i].p]
             B == {b[i].p : i \in 1 .. P}
  <2>1. f \in Bijection(1 .. P, B)
    <3>1. f \in [1 .. P -> B] /\ \A i \in 1 .. P : f[i] = b[i].p
      OBVIOUS
    <3>2. \A i, j \in 1 .. P : f[i] = f[j] => i = j
      BY <1>4, <3>1
    <3>3. \A x \in B : \E i \in 1 .. P : f[i] = x
      BY <3>1
    <3> HIDE DEF f, B
    <3> QED BY <3>1, <3>2, <3>3 DEF Bijection, Injection, Surjection,
                                       IsInjective
  <2>2. IsFiniteSet(1 .. P) /\ Cardinality(1 .. P) = P
    BY FS_Interval
  <2>3. Cardinality(B) = Cardinality(1 .. P)
    <3> HIDE DEF f, B
    <3> QED BY <2>1, <2>2, FS_Bijection DEF ExistsBijection
  <2> QED BY <1>5, <2>2, <2>3
<1>9. Stream!Cardinality(PromptIds(trainer.batch)) = PromptPerIter
  BY <1>1, <1>8 DEF Stream!Cardinality, Cardinality
<1>10. Batches' = Append(Batches, PromptIds(trainer.batch)) /\ Len(Batches) = Len(log)
  BY <1>3, BatchAppended
<1> QED BY <1>3, <1>6, <1>7, <1>9, <1>10 DEF Stream!Receive, Batches

\* Every other step receives nothing.
LEMMA StepReceives ==
  ASSUME Piped, [Next]_vars
  PROVE  [Stream!Next]_Batches
<1>1. CASE TrainStep
  BY <1>1, TrainReceives DEF Stream!Next
<1>2. CASE ~TrainStep
  <2>1. log' = log
    BY <1>2 DEF Next, Control, CtlPop, CtlPut, CtlExhausted, Generation, GenPop, GenPend,
       GenSubmit, Callback, CbDone, CbIgnoreError, CbRaise, Deliver, Finished, Trainer,
       Collecting, TrainAdvance, TrainDeploy, TrainSynced, TrainTake, TrainSave, TrainNoSave,
       vars, trainVars
  <2> QED BY <2>1 DEF Batches
<1> QED BY <1>1, <1>2

\* The controller starts as BatchStream does.
LEMMA InitReceives == Init => Stream!Init
<1> SUFFICES ASSUME Init PROVE Batches = <<>>
  BY DEF Stream!Init, Batches
<1>1. DOMAIN Batches = {} /\ log = <<>>
  BY DEF Init, Batches
<1>2. Batches \in [1 .. 0 -> {}]
  BY <1>1 DEF Batches
<1>3. Batches \in Seq({}) /\ Len(Batches) = 0
  BY <1>2, SeqDef, LenProperties
<1> QED BY <1>3, EmptySeq

\* The controller implements BatchStream without the source's order: every
\* training step receives prompt_per_iter prompts of the source that no step
\* before received, and no other step receives anything, whatever the cap, the
\* staleness limit and the order of the threads' steps, and even when an error
\* has ended the callback thread.
THEOREM ImplementsStream == Spec => Stream!Spec
<1>1. Spec => []Piped
  BY InitPiped, StepPiped, PTL DEF Spec
<1>2. Piped /\ [Next]_vars => [Stream!Next]_Batches
  BY StepReceives
<1> QED BY <1>1, <1>2, InitReceives, PTL DEF Spec, Stream!Spec, Batches
=============================================================================
