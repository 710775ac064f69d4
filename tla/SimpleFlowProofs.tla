--------------------------- MODULE SimpleFlowProofs ---------------------------
(***************************************************************************)
(* Proofs about SimpleFlow and SimpleFlowResume, for every value of their  *)
(* constants: the types, the items a worker has in hand, the versions and  *)
(* gates, the batches, what a replay of pre_gen is gated by, what of it is *)
(* un-acked, the checkpoints, crashes and restarts, and last the copies of *)
(* each prompt and the blocks they are trained in.                         *)
(***************************************************************************)
EXTENDS SimpleFlowResume, QueueLemmas, FiniteSetTheorems

\* The items of the queues, by kind, and the queues.
PromptItem  == [t : {"prompt"}, p : Nat \ {0}]
NeedItem    == {x \in [t : {"need"}, v : Nat, b : Int] : x = Need(x.b)}
BarrierItem == [t : {"train"}, b : Int]
RolloutItem == [t : {"rollout"}, p : Nat \ {0}, seen : SUBSET Int]
GenItem     == PromptItem \cup NeedItem \cup BarrierItem
TrainItem   == RolloutItem \cup BarrierItem
Generated   == [p : Nat \ {0}, seen : SUBSET Int]

GenQueue   == [data : Seq(GenItem), pending : Seq(GenItem)]
TrainQueue == [data : Seq(TrainItem), pending : Seq(TrainItem)]

\* The control worker holds a prompt only while it fills a block.
CtlType(c) ==
  /\ c \in [pc : {"check", "fill", "advance", "exit"}, left : Nat,
            hand : PromptItem \cup {NoItem}]
  /\ c.hand # NoItem => c.pc = "fill" /\ c.left > 0

\* What the generation worker has in hand at each point of its loop.
GenType(g) ==
  /\ g \in [pc : {"pop", "pend", "need", "prompt", "train"}, item : GenItem \cup {NoItem},
            needAck : GenItem \cup {NoItem}, active : Int]
  /\ g.pc = "pop" <=> g.item = NoItem
  /\ g.pc \notin {"pop", "pend"} => g.item.t = g.pc

\* Where the trainer is, and the batch it has collected.
TrainerType == [pc : {"idle", "sync", "deployed", "collect", "step", "after",
                      "snapshot"},
                batch : Seq(RolloutItem)]

\* The types of all variables.
TypeOK ==
  /\ strategy \in {"on-policy", "one-step-off"}
  /\ train \in Int /\ infer \in Int /\ served \in Int
  /\ sched \in Int
  /\ source \in Nat \ {0}
  /\ preGen \in GenQueue
  /\ preTrain \in TrainQueue
  /\ locked \in BOOLEAN
  /\ CtlType(ctl)
  /\ GenType(gen)
  /\ running \subseteq Generated
  /\ cbAlive \in BOOLEAN
  /\ trainer \in TrainerType
  /\ log \in Seq(Seq(RolloutItem))
-----------------------------------------------------------------------------
(* Types.                                                                  *)

\* The sizes and bounds the code's configuration gives are numbers.
LEMMA ConfigTypes ==
  /\ PromptPerIter \in Nat \ {0} /\ TrainIters \in Nat /\ NumPrompts \in Nat
  /\ Strategies \subseteq {"on-policy", "one-step-off"}
BY SimpleFlowConfig DEF SimpleFlowAssumption

\* The constructors of the items, and the kinds that tell them apart.
LEMMA ItemTypes ==
  /\ \A b \in Int : Need(b) \in NeedItem /\ Need(b).b = b
                    /\ Need(b).v = (IF b > 0 THEN b ELSE 0)
  /\ \A b \in Int : Barrier(b) \in BarrierItem
  /\ \A p \in Nat \ {0} : Prompt(p) \in PromptItem /\ NoItem # Prompt(p)
  /\ \A x \in PromptItem : x.t = "prompt" /\ x.p \in Nat \ {0} /\ x = Prompt(x.p)
  /\ \A x \in NeedItem : x.t = "need" /\ x.b \in Int /\ x = Need(x.b)
  /\ \A x \in BarrierItem : x.t = "train" /\ x.b \in Int /\ x = Barrier(x.b)
  /\ \A x \in RolloutItem : x.t = "rollout" /\ x.p \in Nat \ {0} /\ x.seen \in SUBSET Int
  /\ \A p \in Nat \ {0}, s \in SUBSET Int : Rollout(p, s) \in RolloutItem
  /\ NoItem.t = "none" /\ NoItem \notin GenItem
<1>1. \A b \in Int : Need(b) \in [t : {"need"}, v : Nat, b : Int] /\ Need(b).b = b
                    /\ Need(b).v = (IF b > 0 THEN b ELSE 0)
  BY DEF Need
<1>2. \A b \in Int : Need(b) \in NeedItem
  BY <1>1 DEF NeedItem
<1>3. \A x \in PromptItem : x = Prompt(x.p)
  BY DEF PromptItem, Prompt
<1>4. \A x \in BarrierItem : x = Barrier(x.b)
  BY DEF BarrierItem, Barrier
<1>5. \A p \in Nat \ {0}, s \in SUBSET Int : Rollout(p, s) \in RolloutItem
  BY DEF Rollout, RolloutItem
<1>6. NoItem.t = "none"
  BY DEF NoItem
<1>7. NoItem \notin GenItem
  BY <1>6 DEF GenItem, PromptItem, NeedItem, BarrierItem
<1>8. \A p \in Nat \ {0} : Prompt(p) \in PromptItem
  BY DEF Prompt, PromptItem
<1>9. \A p \in Nat \ {0} : NoItem # Prompt(p)
  BY <1>7, <1>8 DEF GenItem
<1> QED BY <1>1, <1>2, <1>3, <1>4, <1>5, <1>6, <1>7, <1>8, <1>9
        DEF PromptItem, NeedItem, BarrierItem, RolloutItem, Barrier

\* The initial state is well typed.
LEMMA InitType == Init => TypeOK
<1> SUFFICES ASSUME Init PROVE TypeOK
  OBVIOUS
<1>1. <<>> \in Seq(GenItem) /\ <<>> \in Seq(TrainItem) /\ <<>> \in Seq(RolloutItem)
      /\ <<>> \in Seq(Seq(RolloutItem))
  BY EmptySeq
<1>2. sched \in Int
  BY DEF Init, FirstSched
<1>3. preGen \in GenQueue /\ preTrain \in TrainQueue
  BY <1>1 DEF Init, EmptyQueue, GenQueue, TrainQueue
<1>4. CtlType(ctl) /\ GenType(gen)
  BY DEF Init, CtlType, GenType
<1>7. trainer \in TrainerType /\ log \in Seq(Seq(RolloutItem))
  BY <1>1 DEF Init, TrainerType
<1>5. /\ strategy \in {"on-policy", "one-step-off"}
      /\ train \in Int /\ infer \in Int /\ served \in Int /\ source \in Nat \ {0}
      /\ running \subseteq Generated
  BY ConfigTypes DEF Init
<1>6. locked \in BOOLEAN /\ cbAlive \in BOOLEAN
  BY DEF Init
<1> QED BY <1>1, <1>2, <1>3, <1>4, <1>5, <1>6, <1>7 DEF TypeOK

\* Every step keeps the state well typed.
LEMMA StepType == TypeOK /\ [Next]_vars => TypeOK'
<1> SUFFICES ASSUME TypeOK, [Next]_vars
             PROVE  TypeOK'
  OBVIOUS
<1> USE ConfigTypes
<1>0. /\ preGen \in GenQueue /\ preTrain \in TrainQueue
      /\ preGen \in [data : Seq(GenItem), pending : Seq(GenItem)]
      /\ preTrain \in [data : Seq(TrainItem), pending : Seq(TrainItem)]
  BY DEF TypeOK, GenQueue, TrainQueue
<1>1. CASE CtlOpen
  <2>1. preGen' \in GenQueue
    BY <1>0, <1>1, ItemTypes, QueueTypes DEF TypeOK, CtlOpen, GenItem, GenQueue
  <2>2. CtlType(ctl')
    BY <1>1 DEF TypeOK, CtlOpen, CtlType
  <2> QED BY <1>1, <2>1, <2>2 DEF TypeOK, CtlOpen, verVars, trainVars
<1>2. CASE CtlPop
  <2>1. CtlType(ctl')
    BY <1>2, ItemTypes DEF TypeOK, CtlPop, CtlType
  <2>2. source' \in Nat \ {0}
    BY <1>2 DEF TypeOK, CtlPop
  <2> QED BY <1>2, <2>1, <2>2 DEF TypeOK, CtlPop, verVars, trainVars
<1>3. CASE CtlPut
  <2>1. preGen' \in GenQueue
    BY <1>0, <1>3, QueueTypes DEF TypeOK, CtlPut, GenItem, GenQueue, CtlType
  <2>2. CtlType(ctl')
    <3>1. ctl.left - 1 \in Nat
      BY <1>3 DEF TypeOK, CtlPut, CtlType
    <3> QED BY <1>3, <3>1 DEF TypeOK, CtlPut, CtlType
  <2> QED BY <1>3, <2>1, <2>2 DEF TypeOK, CtlPut, verVars, trainVars
<1>4. CASE CtlExhausted
  <2>1. CtlType(ctl')
    BY <1>4 DEF TypeOK, CtlExhausted, CtlType
  <2> QED BY <1>4, <2>1 DEF TypeOK, CtlExhausted, verVars, trainVars
<1>5. CASE CtlClose
  <2>1. preGen' \in GenQueue
    BY <1>0, <1>5, ItemTypes, QueueTypes DEF TypeOK, CtlClose, GenItem, GenQueue
  <2>2. CtlType(ctl')
    BY <1>5 DEF TypeOK, CtlClose, CtlType
  <2> QED BY <1>5, <2>1, <2>2 DEF TypeOK, CtlClose, verVars, trainVars
<1>6. CASE CtlAdvance
  <2>1. CtlType(ctl')
    BY <1>6 DEF TypeOK, CtlAdvance, CtlType
  <2>2. sched' \in Int
    BY <1>6 DEF TypeOK, CtlAdvance
  <2> QED BY <1>6, <2>1, <2>2 DEF TypeOK, CtlAdvance, verVars, trainVars
<1>7. CASE GenPop
  <2>1. preGen' \in GenQueue /\ Peek(preGen) \in GenItem
    BY <1>0, <1>7, PopShape DEF GenPop, GenQueue, Pop
  <2>2. GenType(gen')
    BY <1>7, <2>1, ItemTypes DEF TypeOK, GenPop, GenType
  <2> QED BY <1>7, <2>1, <2>2 DEF TypeOK, GenPop, ctlVars, verVars, trainVars
<1>8. CASE GenPend
  <2>1. gen.item \in GenItem /\ gen.item.t \in {"prompt", "need", "train"}
    BY <1>8, ItemTypes DEF TypeOK, GenPend, GenItem, GenType
  <2>2. preGen' \in GenQueue
    BY <1>0, <1>8, <2>1, QueueTypes DEF GenPend, GenQueue
  <2>3. GenType(gen')
    BY <1>8, <2>1, ItemTypes DEF TypeOK, GenPend, GenType
  <2> QED BY <1>8, <2>2, <2>3 DEF TypeOK, GenPend, ctlVars, verVars, trainVars
<1>9. CASE GenNeed
  <2>1. GenType(gen')
    BY <1>9 DEF TypeOK, GenNeed, GenType
  <2> QED BY <1>9, <2>1 DEF TypeOK, GenNeed, ctlVars, verVars, trainVars
<1>10. CASE GenSubmit
  <2>1. gen.item \in PromptItem
    BY <1>10, ItemTypes DEF TypeOK, GenSubmit, GenItem, GenType
  <2>2. running' \subseteq Generated
    BY <1>10, <2>1, ItemTypes DEF TypeOK, GenSubmit, Generated
  <2>3. GenType(gen')
    <3>1. gen.active + 1 \in Int
      BY DEF TypeOK, GenType
    <3> QED BY <1>10, <3>1 DEF TypeOK, GenSubmit, GenType
  <2> QED BY <1>10, <2>2, <2>3 DEF TypeOK, GenSubmit, ctlVars, verVars, trainVars
<1>11. CASE GenBarrier
  <2>1. gen.item \in BarrierItem
    BY <1>11, ItemTypes DEF TypeOK, GenBarrier, GenItem, GenType
  <2>2. preTrain' \in TrainQueue
    BY <1>0, <1>11, <2>1, QueueTypes DEF GenBarrier, TrainItem, TrainQueue
  <2>3. Ack(preGen, gen.needAck) \in [data : Seq(GenItem), pending : Seq(GenItem)]
    BY <1>0, <2>1, QueueTypes DEF GenItem
  <2>4. preGen' \in GenQueue
    BY <1>11, <2>1, <2>3, QueueTypes DEF GenBarrier, GenItem, GenQueue
  <2>5. GenType(gen')
    BY <1>11 DEF TypeOK, GenBarrier, GenType
  <2> QED BY <1>11, <2>2, <2>4, <2>5 DEF TypeOK, GenBarrier, ctlVars, verVars, trainVars
<1>12. ASSUME NEW x \in running, Deliver(x)
       PROVE  TypeOK'
  <2>1. Rollout(x.p, x.seen) \in TrainItem
    BY ItemTypes DEF TypeOK, Generated, TrainItem
  <2>2. preTrain' \in TrainQueue
    BY <1>0, <1>12, <2>1, QueueTypes DEF Deliver, TrainQueue
  <2>3. preGen' \in GenQueue
    <3>1. Prompt(1) \in GenItem
      BY ItemTypes DEF GenItem
    <3> QED BY <1>0, <1>12, <3>1, QueueTypes DEF Deliver, GenQueue
  <2>4. GenType(gen') /\ running' \subseteq Generated
    <3>1. gen.active - 1 \in Int
      BY DEF TypeOK, GenType
    <3>2. GenType(gen')
      BY <1>12, <3>1 DEF TypeOK, Deliver, GenType
    <3> QED BY <1>12, <3>2 DEF TypeOK, Deliver
  <2> QED BY <1>12, <2>2, <2>3, <2>4 DEF TypeOK, Deliver, ctlVars, verVars, trainVars
<1>13. ASSUME NEW x \in running, CbRaise(x)
       PROVE  TypeOK'
  <2>1. GenType(gen') /\ running' \subseteq Generated
    <3>1. gen.active - 1 \in Int
      BY DEF TypeOK, GenType
    <3>2. GenType(gen')
      BY <1>13, <3>1 DEF TypeOK, CbRaise, GenType
    <3> QED BY <1>13, <3>2 DEF TypeOK, CbRaise
  <2>2. cbAlive' \in BOOLEAN
    BY <1>13 DEF CbRaise
  <2> QED BY <1>13, <2>1, <2>2 DEF TypeOK, CbRaise, ctlVars, verVars, trainVars
<1>14. CASE TrainRequest
  <2>0. train' \in Int
    BY <1>14 DEF TypeOK, TrainRequest
  <2>1. train' \in Int /\ trainer' \in TrainerType
    BY <1>14, <2>0 DEF TypeOK, TrainRequest, TrainerType
  <2> QED BY <1>14, <2>1 DEF TypeOK, TrainRequest, ctlVars
<1>15. CASE TrainDeploy
  <2>1. running' \subseteq Generated
    <3>1. ASSUME NEW x \in running
          PROVE  [x EXCEPT !.seen = @ \cup {train}] \in Generated
      BY DEF TypeOK, Generated
    <3> QED BY <1>15, <3>1 DEF TrainDeploy
  <2>2. trainer' \in TrainerType
    BY <1>15 DEF TypeOK, TrainDeploy, TrainerType
  <2> QED BY <1>15, <2>1, <2>2 DEF TypeOK, TrainDeploy, ctlVars
<1>16. CASE TrainSynced
  <2>1. trainer' \in TrainerType
    BY <1>16 DEF TypeOK, TrainSynced, TrainerType
  <2> QED BY <1>16, <2>1 DEF TypeOK, TrainSynced, ctlVars
<1>17. CASE TrainCollect
  <2>1. preTrain' \in TrainQueue /\ Peek(preTrain) \in TrainItem
    <3>1. /\ Pop(preTrain) \in [data : Seq(TrainItem), pending : Seq(TrainItem)]
          /\ Peek(preTrain) \in TrainItem
      BY <1>0, <1>17, PopShape DEF TrainCollect, Pop
    <3> QED BY <1>17, <3>1, QueueTypes DEF TrainCollect, Get, TrainQueue
  <2>2. trainer' \in TrainerType
    <3>1. CASE Peek(preTrain).t = "train"
      BY <1>17, <3>1 DEF TypeOK, TrainCollect, TrainerType
    <3>2. CASE Peek(preTrain).t # "train"
      <4>1. Peek(preTrain) \in RolloutItem
        BY <2>1, <3>2, ItemTypes DEF TrainItem
      <4>2. Append(trainer.batch, Peek(preTrain)) \in Seq(RolloutItem)
        BY <4>1, AppendProperties DEF TypeOK, TrainerType
      <4> QED BY <1>17, <3>2, <4>2 DEF TypeOK, TrainCollect, TrainerType
    <3> QED BY <3>1, <3>2
  <2> QED BY <1>17, <2>1, <2>2 DEF TypeOK, TrainCollect, ctlVars, verVars
<1>18. CASE TrainStep
  <2>1. log' \in Seq(Seq(RolloutItem))
    BY <1>18, AppendProperties DEF TypeOK, TrainStep, TrainerType
  <2>2. trainer' \in TrainerType
    BY <1>18, EmptySeq DEF TrainStep, TrainerType
  <2> QED BY <1>18, <2>1, <2>2 DEF TypeOK, TrainStep, ctlVars, verVars
<1>19. CASE TrainSave
  <2>1. preTrain' \in TrainQueue
    BY <1>0, <1>19, EmptySeq DEF TrainSave, WeightDumped, TrainQueue
  <2>2. trainer' \in TrainerType
    BY <1>19 DEF TypeOK, TrainSave, TrainerType
  <2> QED BY <1>19, <2>1, <2>2 DEF TypeOK, TrainSave, ctlVars, verVars
<1>20. CASE TrainNoSave
  <2>1. trainer' \in TrainerType
    BY <1>20 DEF TypeOK, TrainNoSave, TrainerType
  <2> QED BY <1>20, <2>1 DEF TypeOK, TrainNoSave, ctlVars, verVars
<1>21. CASE UNCHANGED vars
  BY <1>21 DEF TypeOK, vars, ctlVars, verVars, trainVars
<1> QED
  BY <1>1, <1>2, <1>3, <1>4, <1>5, <1>6, <1>7, <1>8, <1>9, <1>10, <1>11, <1>12, <1>13,
     <1>14, <1>15, <1>16, <1>17, <1>18, <1>19, <1>20, <1>21
     DEF Next, Control, Generation, Callback, CbDone, CbIgnoreError, Trainer, Collecting,
         Finished

\* The queues, threads and versions of SimpleFlowController keep their types,
\* for every strategy, batch size and number of iterations.
THEOREM TypeInvariant == Spec => []TypeOK
<1>1. Init => TypeOK
  BY InitType
<1>2. TypeOK /\ [Next]_vars => TypeOK'
  BY StepType
<1> QED BY <1>1, <1>2, PTL DEF Spec
-----------------------------------------------------------------------------
(* How far the source runs ahead.                                          *)

\* The strategy never changes, and the first scheduled version with it.
LEMMA StrategyFixed == [Next]_vars => FirstSched' = FirstSched
<1> SUFFICES ASSUME [Next]_vars PROVE FirstSched' = FirstSched
  OBVIOUS
<1>1. Control => strategy' = strategy
  BY DEF Control, CtlOpen, CtlPop, CtlPut, CtlExhausted, CtlClose, CtlAdvance
<1>2. Generation => strategy' = strategy
  BY DEF Generation, GenPop, GenPend, GenNeed, GenSubmit, GenBarrier
<1>3. Callback => strategy' = strategy
  BY DEF Callback, CbDone, CbIgnoreError, CbRaise, Deliver
<1>4. Trainer => strategy' = strategy
  BY DEF Trainer, Collecting, TrainRequest, TrainDeploy, TrainSynced, TrainCollect, TrainStep,
         TrainSave, TrainNoSave
<1>5. strategy' = strategy
  BY <1>1, <1>2, <1>3, <1>4 DEF Next, Finished, vars
<1> QED BY <1>5 DEF FirstSched

\* The first version the control worker schedules for.
LEMMA FirstSchedType == FirstSched \in Int /\ -1 <= FirstSched /\ FirstSched <= 0
BY DEF FirstSched

\* Blocks of PromptPerIter prompts: where a block ends and the next begins,
\* and which block a prompt is of.
LEMMA BlockArithmetic ==
  /\ \A n \in Int : PromptPerIter * n \in Int /\ PromptPerIter * (n + 1) = PromptPerIter * n + PromptPerIter
  /\ \A m, n \in Int : m <= n => PromptPerIter * m <= PromptPerIter * n
  /\ \A n \in Int, k \in 0 .. PromptPerIter - 1 : (PromptPerIter * n + k) \div PromptPerIter = n
<1>1. PromptPerIter \in Nat /\ PromptPerIter > 0
  BY ConfigTypes
<1>2. \A n \in Int : PromptPerIter * n \in Int /\ PromptPerIter * (n + 1) = PromptPerIter * n + PromptPerIter
  BY <1>1
<1>3. \A m, n \in Int : m <= n => PromptPerIter * m <= PromptPerIter * n
  BY <1>1
<1>4. ASSUME NEW n \in Int, NEW k \in 0 .. PromptPerIter - 1
      PROVE  (PromptPerIter * n + k) \div PromptPerIter = n
  BY <1>1
<1> QED BY <1>2, <1>3, <1>4

\* BlockOf, for any first version.
Block(f, p) == f + (p - 1) \div PromptPerIter

\* The block the control worker is at ends where the next one begins, so the
\* position of the source says how many versions were scheduled.
BlockStart == PromptPerIter * (sched - FirstSched)

\* No prompt is left for the rest of the block.
Spent == source > NumPrompts /\ BlockStart <= source - 1 /\ source - 1 <= BlockStart + PromptPerIter

\* A job restarted from a checkpoint taken after the source ended opens the last
\* block once more, and finds no prompt for it.
Filling ==
  /\ ctl.pc = "check" => \/ source - 1 = BlockStart /\ sched <= train + 2
                         \/ Spent /\ sched <= train + 1
  /\ ctl.pc = "fill" =>
       /\ sched <= train + 1
       /\ ctl.left <= PromptPerIter
       /\ \/ source - 1 = BlockStart + (PromptPerIter - ctl.left)
                                    + (IF ctl.hand = NoItem THEN 0 ELSE 1)
          \/ Spent /\ ctl.left = PromptPerIter /\ ctl.hand = NoItem
       /\ ctl.hand # NoItem => Block(FirstSched, ctl.hand.p) = sched
  /\ ctl.pc = "advance" => source - 1 = BlockStart + PromptPerIter /\ sched <= train + 1
  /\ ctl.pc = "exit" => Spent /\ sched <= train + 1

\* Where the block that is being filled starts is a number.
LEMMA BlockStartType == TypeOK => BlockStart \in Int /\ PromptPerIter \in Nat /\ PromptPerIter > 0
BY ConfigTypes, FirstSchedType, BlockArithmetic DEF TypeOK, BlockStart

\* Nothing is scheduled at first.
LEMMA InitFilling == Init => Filling
<1> SUFFICES ASSUME Init PROVE Filling
  OBVIOUS
<1>1. BlockStart = 0
  BY FirstSchedType, ConfigTypes DEF Init, BlockStart
<1> QED BY <1>1, FirstSchedType DEF Init, Filling

\* A block is filled prompt by prompt, and closed when it is full.
LEMMA StepFilling == TypeOK /\ Filling /\ [Next]_vars => Filling'
<1> SUFFICES ASSUME TypeOK, Filling, [Next]_vars
             PROVE  Filling'
  OBVIOUS
<1>0. /\ FirstSched' = FirstSched /\ FirstSched \in Int /\ BlockStart \in Int
      /\ PromptPerIter \in Nat /\ PromptPerIter > 0
      /\ sched \in Int /\ train \in Int /\ source \in Nat \ {0} /\ ctl.left \in Nat
      /\ ctl.pc \in {"check", "fill", "advance", "exit"}
  BY StrategyFixed, FirstSchedType, BlockStartType DEF TypeOK, CtlType
<1>a. sched' = sched => BlockStart' = BlockStart /\ (source' = source => (Spent' <=> Spent))
  BY <1>0 DEF BlockStart, Spent
<1>1. CASE CtlOpen
  <2>1. /\ ctl'.pc = "fill" /\ ctl'.left = PromptPerIter /\ ctl'.hand = ctl.hand
        /\ ctl.hand = NoItem
    BY <1>1 DEF TypeOK, CtlType, CtlOpen
  <2>2. source' = source /\ sched' = sched /\ train' = train /\ sched <= train + 1
        /\ (source - 1 = BlockStart \/ Spent)
    BY <1>1 DEF CtlOpen, MayOpen, verVars, Filling
  <2>3. CASE Spent
    <3>1. Spent'
      BY <1>a, <2>2, <2>3
    <3> QED BY <1>0, <2>1, <2>2, <3>1 DEF Filling
  <2>4. CASE source - 1 = BlockStart
    <3>1. source' - 1 = BlockStart' + (PromptPerIter - PromptPerIter) + 0
      BY <1>0, <1>a, <2>2, <2>4
    <3> QED BY <1>0, <2>1, <2>2, <3>1 DEF Filling
  <2> QED BY <2>2, <2>3, <2>4
<1>2. CASE CtlPop
  <2>1. /\ ctl'.pc = "fill" /\ ctl'.left = ctl.left /\ ctl'.hand = Prompt(source)
        /\ ctl'.hand # NoItem
    BY <1>2, <1>0, ItemTypes DEF TypeOK, CtlType, CtlPop
  <2>2. /\ source' = source + 1 /\ sched' = sched /\ train' = train
        /\ ctl.pc = "fill" /\ ctl.left > 0 /\ ctl.hand = NoItem /\ ~Spent
    BY <1>0, <1>2, ConfigTypes DEF CtlPop, verVars, Spent
  <2>3. sched <= train + 1 /\ source - 1 = BlockStart + (PromptPerIter - ctl.left)
        /\ ctl.left <= PromptPerIter
    BY <1>0, <2>2 DEF Filling
  <2>4. Block(FirstSched, source) = sched
    <3>1. PromptPerIter - ctl.left \in 0 .. PromptPerIter - 1 /\ sched - FirstSched \in Int
      BY <1>0, <2>2, <2>3
    <3>2. (PromptPerIter * (sched - FirstSched) + (PromptPerIter - ctl.left)) \div PromptPerIter
            = sched - FirstSched
      BY <3>1, BlockArithmetic
    <3>3. (source - 1) \div PromptPerIter = sched - FirstSched
      BY <2>3, <3>2 DEF BlockStart
    <3> QED BY <1>0, <3>3 DEF Block
  <2>5. ctl'.hand.p = source
    BY <2>1 DEF Prompt
  <2> QED BY <1>0, <1>a, <2>1, <2>2, <2>3, <2>4, <2>5 DEF Filling
<1>3. CASE CtlPut
  <2>1. /\ ctl.pc = "fill" /\ ctl.left > 0 /\ ctl.hand # NoItem
        /\ ctl'.pc = "fill" /\ ctl'.left = ctl.left - 1 /\ ctl'.hand = NoItem
    BY <1>3 DEF TypeOK, CtlType, CtlPut
  <2>2. source' = source /\ sched' = sched /\ train' = train
    BY <1>3 DEF CtlPut, verVars
  <2> QED BY <1>0, <1>a, <2>1, <2>2 DEF Filling
<1>4. CASE CtlExhausted
  <2>1. ctl'.pc = "exit" /\ ctl.pc = "fill" /\ ctl.left > 0 /\ ctl.hand = NoItem
    BY <1>4 DEF TypeOK, CtlType, CtlExhausted
  <2>2. source' = source /\ sched' = sched /\ train' = train /\ source > NumPrompts
    BY <1>4 DEF CtlExhausted, verVars
  <2>3. sched <= train + 1 /\ Spent
    BY <1>0, <2>1, <2>2 DEF Filling, Spent
  <2> QED BY <1>a, <2>1, <2>2, <2>3 DEF Filling
<1>5. CASE CtlClose
  <2>1. ctl'.pc = "advance" /\ ctl.pc = "fill" /\ ctl.left = 0 /\ ctl.hand = NoItem
    BY <1>5, <1>0 DEF TypeOK, CtlType, CtlClose
  <2>2. source' = source /\ sched' = sched /\ train' = train
    BY <1>5 DEF CtlClose, verVars
  <2> QED BY <1>0, <1>a, <2>1, <2>2 DEF Filling
<1>6. CASE CtlAdvance
  <2>1. ctl'.pc = "check" /\ ctl.pc = "advance"
    BY <1>6 DEF TypeOK, CtlType, CtlAdvance
  <2>2. source' = source /\ sched' = sched + 1 /\ train' = train
    BY <1>6 DEF CtlAdvance, verVars
  <2>3. BlockStart' = BlockStart + PromptPerIter
    <3>1. (sched + 1) - FirstSched = (sched - FirstSched) + 1 /\ sched - FirstSched \in Int
      BY <1>0
    <3> QED BY <1>0, <2>2, <3>1, BlockArithmetic DEF BlockStart
  <2> QED BY <1>0, <2>1, <2>2, <2>3 DEF Filling
<1>7. ASSUME UNCHANGED <<ctl, source, sched>>, train' \in Int, train <= train'
      PROVE  Filling'
  <2>1. /\ ctl' = ctl /\ source' = source /\ sched' = sched /\ BlockStart' = BlockStart
        /\ Spent' <=> Spent
        /\ train' \in Int /\ train <= train' /\ FirstSched' = FirstSched
    BY <1>0, <1>a, <1>7
  <2>2. /\ sched <= train + 1 => sched <= train' + 1
        /\ sched <= train + 2 => sched <= train' + 2
    <3>1. \A a, b, c \in Int : b <= c => (a <= b + 1 => a <= c + 1) /\ (a <= b + 2 => a <= c + 2)
      OBVIOUS
    <3> QED BY <1>0, <2>1, <3>1
  <2> QED BY <2>1, <2>2 DEF Filling
<1>8. Generation => Filling'
  BY <1>0, <1>7 DEF Generation, GenPop, GenPend, GenNeed, GenSubmit, GenBarrier, ctlVars, verVars
<1>9. Callback => Filling'
  BY <1>0, <1>7 DEF Callback, CbDone, CbIgnoreError, CbRaise, Deliver, ctlVars, verVars
<1>10. Trainer => Filling'
  <2>1. TrainRequest => Filling'
    BY <1>0, <1>7 DEF TrainRequest, ctlVars
  <2> QED BY <1>0, <1>7, <2>1
          DEF Trainer, Collecting, TrainDeploy, TrainSynced, TrainCollect, TrainStep,
              TrainSave, TrainNoSave, ctlVars, verVars
<1>11. UNCHANGED vars => Filling'
  BY <1>0, <1>7 DEF vars, ctlVars, verVars
<1> QED BY <1>1, <1>2, <1>3, <1>4, <1>5, <1>6, <1>8, <1>9, <1>10, <1>11
        DEF Next, Control, Finished

\* What is scheduled but not trained is at most the blocks Ahead allows.
LEMMA FillingLookahead == TypeOK /\ Filling => Lookahead
<1> SUFFICES ASSUME TypeOK, Filling PROVE Lookahead
  OBVIOUS
<1>1. /\ FirstSched \in Int /\ sched \in Int /\ train \in Int /\ source \in Nat
      /\ BlockStart \in Int /\ PromptPerIter \in Nat /\ PromptPerIter > 0
  BY FirstSchedType, BlockStartType DEF TypeOK
<1> DEFINE Bound == PromptPerIter * (train + 2 - FirstSched)
<1>2. Bound \in Int /\ train + 2 - FirstSched \in Int /\ sched - FirstSched \in Int
  BY <1>1, BlockArithmetic
<1>3. sched <= train + 2 => BlockStart <= Bound
  <2>1. sched <= train + 2 => sched - FirstSched <= train + 2 - FirstSched
    BY <1>1
  <2> QED BY <1>2, <2>1, BlockArithmetic DEF BlockStart
<1>4. sched <= train + 1 => BlockStart + PromptPerIter <= Bound
  <2>1. sched <= train + 1 => (sched - FirstSched) + 1 <= train + 2 - FirstSched
    BY <1>1
  <2>2. PromptPerIter * ((sched - FirstSched) + 1) = BlockStart + PromptPerIter
    BY <1>2, BlockArithmetic DEF BlockStart
  <2>3. (sched - FirstSched) + 1 \in Int
    BY <1>2
  <2> QED BY <1>2, <2>1, <2>2, <2>3, BlockArithmetic
<1> HIDE DEF Bound
<1>5. ctl.pc = "check" => source - 1 <= Bound
  BY <1>1, <1>2, <1>3, <1>4 DEF Filling, Spent
<1>6. ctl.pc = "fill" => source - 1 <= Bound
  <2>1. ctl.left \in Nat /\ (ctl.hand # NoItem => ctl.left > 0)
    BY DEF TypeOK, CtlType
  <2> QED BY <1>1, <1>2, <1>4, <2>1 DEF Filling, Spent
<1>7. ctl.pc \in {"advance", "exit"} => source - 1 <= Bound
  BY <1>1, <1>2, <1>4 DEF Filling, Spent
<1> QED BY <1>5, <1>6, <1>7 DEF Lookahead, Bound, TypeOK, CtlType

\* The source is never more than one block ahead of training on-policy and
\* two one-step-off.
THEOREM LookaheadInvariant == Spec => []Lookahead
<1>1. Init => TypeOK /\ Filling
  BY InitType, InitFilling
<1>2. TypeOK /\ Filling /\ [Next]_vars => TypeOK' /\ Filling'
  BY StepType, StepFilling
<1>3. TypeOK /\ Filling => Lookahead
  BY FillingLookahead
<1> QED BY <1>1, <1>2, <1>3, PTL DEF Spec
-----------------------------------------------------------------------------
(* Blocks go through the pipeline in order: the barrier that closes a block *)
(* is behind everything of that block and of those before.                  *)

\* The version an item was scheduled for.
Blk(f, x) == IF x.t \in {"prompt", "rollout"} THEN Block(f, x.p) ELSE x.b

\* The version whose items the control worker puts next.
Ahead == IF ctl.pc = "advance" THEN sched + 1 ELSE sched

\* Whatever has not reached pre_train yet is of a later version than b.
Later(b) ==
  /\ b < Ahead
  /\ \A x \in running : b < Block(FirstSched, x.p)
  /\ gen.item # NoItem => b < Blk(FirstSched, gen.item)
  /\ \A j \in 1 .. Len(preGen.data) : b < Blk(FirstSched, preGen.data[j])

\* A barrier in the generation worker's hand or in pre_gen, and what follows.
GenOrdered ==
  /\ gen.item # NoItem /\ gen.item.t = "train" =>
       /\ gen.item.b < Ahead
       /\ \A j \in 1 .. Len(preGen.data) : gen.item.b < Blk(FirstSched, preGen.data[j])
  /\ \A i \in 1 .. Len(preGen.data) : preGen.data[i].t = "train" =>
       /\ preGen.data[i].b < Ahead
       /\ \A j \in i + 1 .. Len(preGen.data) :
            preGen.data[i].b < Blk(FirstSched, preGen.data[j])

\* A barrier in pre_train, and what follows; a barrier with generations still
\* running would overtake their rollouts.
TrainOrdered ==
  /\ IsFiniteSet(running)
  /\ gen.active >= Cardinality(running)
  /\ \A b \in Int, i \in 1 .. Len(preTrain.data) : preTrain.data[i] = Barrier(b) =>
       /\ Later(b)
       /\ \A j \in i + 1 .. Len(preTrain.data) : b < Blk(FirstSched, preTrain.data[j])

\* The version whose rollouts the trainer collects next.
Collected ==
  train + FirstSched + (IF trainer.pc \in {"step", "after", "snapshot", "idle"} THEN 1 ELSE 0)

\* Everything of an earlier version has been trained on.
Reached ==
  /\ Later(Collected - 1)
  /\ \A i \in 1 .. Len(preTrain.data) : Collected <= Blk(FirstSched, preTrain.data[i])
  /\ \A i \in 1 .. Len(trainer.batch) :
       train + FirstSched <= Block(FirstSched, trainer.batch[i].p)
  /\ trainer.pc \notin {"collect", "step"} => trainer.batch = <<>>

\* The blocks of prompts, and the version each is generated for, are numbers.
LEMMA BlockTypes ==
  ASSUME NEW f \in Int
  PROVE  /\ \A p \in Nat \ {0} : Block(f, p) \in Int
         /\ \A x \in GenItem \cup TrainItem : Blk(f, x) \in Int
         /\ \A x \in PromptItem \cup RolloutItem : Blk(f, x) = Block(f, x.p)
         /\ \A x \in NeedItem \cup BarrierItem : Blk(f, x) = x.b
<1>1. PromptPerIter \in Nat /\ PromptPerIter > 0
  BY ConfigTypes
<1>2. \A p \in Nat \ {0} : Block(f, p) \in Int
  BY <1>1 DEF Block
<1>3. /\ \A x \in PromptItem \cup RolloutItem : Blk(f, x) = Block(f, x.p)
      /\ \A x \in NeedItem \cup BarrierItem : Blk(f, x) = x.b
  BY ItemTypes DEF Blk
<1> QED BY <1>2, <1>3, ItemTypes DEF GenItem, TrainItem

\* The control worker puts items of the version it is at, and is past it once
\* the block is closed.
LEMMA EnterFacts ==
  ASSUME TypeOK, Filling, CtlOpen \/ CtlPut \/ CtlClose
  PROVE  \E x \in GenItem :
           /\ preGen' = Put(preGen, x)
           /\ Blk(FirstSched, x) = Ahead
           /\ Ahead' = IF x.t = "train" THEN Ahead + 1 ELSE Ahead
<1>0. sched \in Int
  BY DEF TypeOK
<1>1. CASE CtlOpen
  <2>1. Need(sched) \in NeedItem /\ Need(sched).b = sched /\ Need(sched).t = "need"
    BY <1>0, ItemTypes
  <2>2. Blk(FirstSched, Need(sched)) = sched
    BY <2>1, BlockTypes, FirstSchedType
  <2>3. Ahead = sched /\ Ahead' = sched
    BY <1>1 DEF CtlOpen, Ahead, TypeOK, CtlType
  <2>4. preGen' = Put(preGen, Need(sched)) /\ Need(sched) \in GenItem
    BY <1>1, <2>1 DEF CtlOpen, GenItem
  <2> QED BY <2>1, <2>2, <2>3, <2>4
<1>2. CASE CtlPut
  <2>1. ctl.hand \in PromptItem /\ ctl.hand.t = "prompt" /\ ctl.pc = "fill"
    BY <1>2, ItemTypes DEF CtlPut, TypeOK, CtlType
  <2>2. Blk(FirstSched, ctl.hand) = sched
    BY <1>2, <2>1, BlockTypes, FirstSchedType DEF CtlPut, Filling
  <2>3. Ahead = sched /\ Ahead' = sched
    BY <1>2, <2>1 DEF CtlPut, Ahead, TypeOK, CtlType
  <2>4. preGen' = Put(preGen, ctl.hand) /\ ctl.hand \in GenItem
    BY <1>2, <2>1 DEF CtlPut, GenItem
  <2> QED BY <2>1, <2>2, <2>3, <2>4
<1>3. CASE CtlClose
  <2>1. Barrier(sched) \in BarrierItem /\ Barrier(sched).b = sched /\ Barrier(sched).t = "train"
    BY <1>0, ItemTypes DEF Barrier
  <2>2. Blk(FirstSched, Barrier(sched)) = sched
    BY <2>1, BlockTypes, FirstSchedType
  <2>3. Ahead = sched /\ Ahead' = sched + 1
    BY <1>3 DEF CtlClose, Ahead, TypeOK, CtlType
  <2>4. preGen' = Put(preGen, Barrier(sched)) /\ Barrier(sched) \in GenItem
    BY <1>3, <2>1 DEF CtlClose, GenItem
  <2> QED BY <2>1, <2>2, <2>3, <2>4
<1> QED BY <1>1, <1>2, <1>3

\* How far the strategy runs ahead is a number.
LEMMA AheadType == TypeOK => Ahead \in Int
BY DEF TypeOK, Ahead

\* What has not reached pre_train at a step had not reached it before, or is
\* new and of the version the control worker is at.
LEMMA LaterStep ==
  ASSUME TypeOK, Filling, [Next]_vars, NEW b \in Int, Later(b)
  PROVE  Later(b)'
<1>0. /\ FirstSched' = FirstSched /\ FirstSched \in Int /\ Ahead \in Int
      /\ preGen \in [data : Seq(GenItem), pending : Seq(GenItem)]
      /\ Len(preGen.data) \in Nat
  BY StrategyFixed, FirstSchedType, AheadType, LenProperties DEF TypeOK, GenQueue
<1>1. CASE CtlOpen \/ CtlPut \/ CtlClose
  <2>1. PICK x \in GenItem :
           /\ preGen' = Put(preGen, x)
           /\ Blk(FirstSched, x) = Ahead
           /\ Ahead' = IF x.t = "train" THEN Ahead + 1 ELSE Ahead
    BY <1>1, EnterFacts
  <2>2. b < Ahead'
    BY <1>0, <2>1 DEF Later
  <2>3. gen' = gen /\ running' = running
    BY <1>1 DEF CtlOpen, CtlPut, CtlClose
  <2>4. ASSUME NEW j \in 1 .. Len(preGen'.data)
        PROVE  b < Blk(FirstSched, preGen'.data[j])
    <3>1. j \in 1 .. Len(preGen.data) \/ j = Len(preGen.data) + 1
      BY <1>0, <2>1, PutShape
    <3> QED BY <1>0, <2>1, <3>1, PutShape DEF Later
  <2> QED BY <1>0, <2>2, <2>3, <2>4 DEF Later
<1>2. ASSUME preGen'.data = preGen.data, gen'.item = gen.item, Ahead <= Ahead', Ahead' \in Int,
             \A y \in running' : \E x \in running : y.p = x.p
      PROVE  Later(b)'
  <2>1. b < Ahead'
    BY <1>0, <1>2 DEF Later
  <2> QED BY <1>0, <1>2, <2>1 DEF Later
<1>3. CASE CtlPop \/ CtlExhausted
  <2>1. preGen' = preGen /\ gen' = gen /\ running' = running /\ Ahead' = Ahead
    BY <1>3 DEF CtlPop, CtlExhausted, Ahead, TypeOK, CtlType
  <2> QED BY <1>0, <1>2, <2>1
<1>4. CASE CtlAdvance
  <2>1. preGen' = preGen /\ gen' = gen /\ running' = running /\ Ahead' = Ahead
    BY <1>4 DEF CtlAdvance, Ahead, TypeOK, CtlType
  <2> QED BY <1>0, <1>2, <2>1
<1>5. CASE GenPop
  <2>1. /\ Len(preGen'.data) = Len(preGen.data) - 1
        /\ \A i \in 1 .. Len(preGen.data) - 1 : preGen'.data[i] = preGen.data[i + 1]
        /\ Peek(preGen) = preGen.data[1] /\ Len(preGen.data) > 0
    BY <1>0, <1>5, PopShape DEF GenPop
  <2>2. gen'.item = preGen.data[1] /\ running' = running /\ Ahead' = Ahead
    BY <1>5, <2>1 DEF GenPop, Ahead, ctlVars, TypeOK, GenType
  <2>3. ASSUME NEW j \in 1 .. Len(preGen'.data)
        PROVE  b < Blk(FirstSched, preGen'.data[j])
    <3>1. j \in 1 .. Len(preGen.data) - 1 /\ j + 1 \in 1 .. Len(preGen.data)
      BY <1>0, <2>1
    <3> QED BY <2>1, <3>1 DEF Later
  <2>4. b < Blk(FirstSched, gen'.item)
    <3>1. 1 \in 1 .. Len(preGen.data)
      BY <1>0, <2>1
    <3> QED BY <2>2, <3>1 DEF Later
  <2> QED BY <1>0, <2>2, <2>3, <2>4 DEF Later
<1>6. CASE GenPend
  <2>1. preGen'.data = preGen.data /\ gen'.item = gen.item /\ running' = running /\ Ahead' = Ahead
    BY <1>6 DEF GenPend, Pend, Ahead, ctlVars, TypeOK, GenType
  <2> QED BY <1>0, <1>2, <2>1
<1>7. ASSUME preGen'.data = preGen.data, gen'.item = NoItem, Ahead' = Ahead,
             \A y \in running' :
                \/ y \in running
                \/ y.p = gen.item.p /\ gen.item \in PromptItem
      PROVE  Later(b)'
  <2>1. gen.item \in PromptItem =>
          gen.item # NoItem /\ Blk(FirstSched, gen.item) = Block(FirstSched, gen.item.p)
    <3>1. NoItem \notin PromptItem
      BY ItemTypes DEF GenItem
    <3>2. \A x \in PromptItem : Blk(FirstSched, x) = Block(FirstSched, x.p)
      BY <1>0, BlockTypes
    <3> QED BY <3>1, <3>2
  <2>2. ASSUME NEW y \in running'
        PROVE  b < Block(FirstSched, y.p)
    BY <1>7, <2>1 DEF Later
  <2>3. b < Ahead' /\ \A j \in 1 .. Len(preGen'.data) : b < Blk(FirstSched, preGen'.data[j])
    BY <1>7 DEF Later
  <2> QED BY <1>0, <1>7, <2>2, <2>3 DEF Later
<1>8. CASE GenNeed
  <2>1. preGen' = preGen /\ gen'.item = NoItem /\ running' = running /\ Ahead' = Ahead
    BY <1>8 DEF GenNeed, Ahead, ctlVars, TypeOK, GenType
  <2>2. \A y \in running' : y \in running
    BY <2>1
  <2> QED BY <1>7, <2>1, <2>2
<1>9. CASE GenSubmit
  <2>1. preGen' = preGen /\ gen'.item = NoItem /\ Ahead' = Ahead
    BY <1>9 DEF GenSubmit, Ahead, ctlVars, TypeOK, GenType
  <2>2. gen.item \in PromptItem
    BY <1>9, ItemTypes DEF TypeOK, GenSubmit, GenItem, GenType
  <2>3. \A y \in running' : y \in running \/ y.p = gen.item.p
    BY <1>9 DEF GenSubmit
  <2> QED BY <1>7, <2>1, <2>2, <2>3
<1>10. CASE GenBarrier
  <2>1. preGen'.data = preGen.data /\ gen'.item = NoItem /\ running' = running /\ Ahead' = Ahead
    BY <1>10 DEF GenBarrier, Ack, Ahead, ctlVars, TypeOK, GenType
  <2>2. \A y \in running' : y \in running
    BY <2>1
  <2> QED BY <1>7, <2>1, <2>2
<1>11. CASE Callback
  <2>1. PICK x \in running : Deliver(x) \/ CbRaise(x)
    BY <1>11 DEF Callback, CbDone, CbIgnoreError
  <2>2. preGen'.data = preGen.data
    BY <1>0, <2>1 DEF Deliver, CbRaise, Ack
  <2>3. gen'.item = gen.item
    BY <2>1 DEF Deliver, CbRaise, TypeOK, GenType
  <2>4. running' \subseteq running /\ Ahead' = Ahead
    BY <2>1 DEF Deliver, CbRaise, Ahead, ctlVars
  <2> QED BY <1>0, <1>2, <2>2, <2>3, <2>4
<1>12. CASE TrainDeploy
  <2>1. preGen' = preGen /\ gen' = gen /\ Ahead' = Ahead
    BY <1>12 DEF TrainDeploy, Ahead, ctlVars
  <2>2. \A y \in running' : \E x \in running : y.p = x.p
    BY <1>12 DEF TrainDeploy, TypeOK, Generated
  <2> QED BY <1>0, <1>2, <2>1, <2>2
<1>13. CASE \/ TrainRequest \/ TrainSynced \/ TrainCollect \/ TrainStep \/ TrainSave \/ TrainNoSave
            \/ UNCHANGED vars
  <2>1. preGen' = preGen /\ gen' = gen /\ running' = running /\ Ahead' = Ahead
    BY <1>13 DEF TrainRequest, TrainSynced, TrainCollect, TrainStep, TrainSave, TrainNoSave,
                 vars, Ahead, ctlVars
  <2> QED BY <1>0, <1>2, <2>1
<1> QED BY <1>1, <1>3, <1>4, <1>5, <1>6, <1>8, <1>9, <1>10, <1>11, <1>12, <1>13
        DEF Next, Control, Generation, Trainer, Collecting, Finished

\* Items that are all new to a version are all new to an older one.
LEMMA LaterDown ==
  ASSUME TypeOK, NEW b \in Int, NEW c \in Int, c <= b, Later(b)
  PROVE  Later(c)
<1>0. FirstSched \in Int /\ Ahead \in Int
  BY FirstSchedType, AheadType
<1>1. \A m \in Int : b < m => c < m
  OBVIOUS
<1>2. \A x \in running : Block(FirstSched, x.p) \in Int
  BY <1>0, BlockTypes DEF TypeOK, Generated
<1>3. gen.item # NoItem => Blk(FirstSched, gen.item) \in Int
  BY <1>0, BlockTypes DEF TypeOK, GenType
<1>4. \A j \in 1 .. Len(preGen.data) : Blk(FirstSched, preGen.data[j]) \in Int
  BY <1>0, BlockTypes, ElementOfSeq DEF TypeOK, GenQueue
<1> QED BY <1>0, <1>1, <1>2, <1>3, <1>4 DEF Later

\* The queues are empty at first.
LEMMA InitOrdered == Init => GenOrdered /\ TrainOrdered /\ Reached
<1> SUFFICES ASSUME Init PROVE GenOrdered /\ TrainOrdered /\ Reached
  OBVIOUS
<1>1. GenOrdered
  BY DEF Init, GenOrdered, EmptyQueue
<1>2. TrainOrdered
  BY FS_EmptySet DEF Init, TrainOrdered, EmptyQueue
<1>3. Collected - 1 < Ahead
  BY FirstSchedType DEF Init, Collected, Ahead
<1>4. Later(Collected - 1)
  BY <1>3 DEF Init, Later, EmptyQueue
<1> QED BY <1>1, <1>2, <1>4 DEF Init, Reached, EmptyQueue

\* The items of pre_gen stay in the order the control worker put them in.
LEMMA StepGenOrdered == TypeOK /\ Filling /\ GenOrdered /\ [Next]_vars => GenOrdered'
<1> SUFFICES ASSUME TypeOK, Filling, GenOrdered, [Next]_vars
             PROVE  GenOrdered'
  OBVIOUS
<1>0. /\ FirstSched' = FirstSched /\ FirstSched \in Int /\ Ahead \in Int
      /\ preGen \in [data : Seq(GenItem), pending : Seq(GenItem)]
      /\ Len(preGen.data) \in Nat
      /\ \A i \in 1 .. Len(preGen.data) : preGen.data[i] \in GenItem
  BY StrategyFixed, FirstSchedType, AheadType, LenProperties, ElementOfSeq DEF TypeOK, GenQueue
<1>a. \A x \in GenItem : x.t = "train" => x.b \in Int /\ Blk(FirstSched, x) = x.b
  BY <1>0, ItemTypes, BlockTypes DEF GenItem
<1>1. CASE CtlOpen \/ CtlPut \/ CtlClose
  <2>1. PICK x \in GenItem :
           /\ preGen' = Put(preGen, x)
           /\ Blk(FirstSched, x) = Ahead
           /\ Ahead' = IF x.t = "train" THEN Ahead + 1 ELSE Ahead
    BY <1>1, EnterFacts
  <2>2. /\ Len(preGen'.data) = Len(preGen.data) + 1
        /\ \A i \in 1 .. Len(preGen.data) : preGen'.data[i] = preGen.data[i]
        /\ preGen'.data[Len(preGen.data) + 1] = x
    BY <1>0, <2>1, PutShape
  <2>3. \A b \in Int : b < Ahead => b < Ahead'
    BY <1>0, <2>1
  <2>4. gen' = gen
    BY <1>1 DEF CtlOpen, CtlPut, CtlClose
  <2>5. \A j \in 1 .. Len(preGen'.data) : j \in 1 .. Len(preGen.data) \/ j = Len(preGen.data) + 1
    BY <1>0, <2>2
  <2>6. ASSUME gen.item # NoItem, gen.item.t = "train"
        PROVE  /\ gen.item.b < Ahead'
               /\ \A j \in 1 .. Len(preGen'.data) :
                    gen.item.b < Blk(FirstSched, preGen'.data[j])
    <3>1. gen.item.b \in Int /\ gen.item.b < Ahead
      BY <2>6, <1>a DEF TypeOK, GenType, GenOrdered
    <3>2. gen.item.b < Ahead'
      BY <2>3, <3>1
    <3> QED BY <2>1, <2>2, <2>5, <2>6, <3>1, <3>2 DEF GenOrdered
  <2>7. ASSUME NEW i \in 1 .. Len(preGen'.data), preGen'.data[i].t = "train"
        PROVE  /\ preGen'.data[i].b < Ahead'
               /\ \A j \in i + 1 .. Len(preGen'.data) :
                    preGen'.data[i].b < Blk(FirstSched, preGen'.data[j])
    <3>1. CASE i \in 1 .. Len(preGen.data)
      <4>1. /\ preGen'.data[i] = preGen.data[i] /\ preGen.data[i].b \in Int
            /\ preGen.data[i].b < Ahead
            /\ \A j \in i + 1 .. Len(preGen.data) :
                  preGen.data[i].b < Blk(FirstSched, preGen.data[j])
        BY <1>0, <1>a, <2>2, <2>7, <3>1 DEF GenOrdered
      <4>2. preGen.data[i].b < Ahead'
        BY <2>3, <4>1
      <4>3. ASSUME NEW j \in i + 1 .. Len(preGen'.data)
            PROVE  preGen.data[i].b < Blk(FirstSched, preGen'.data[j])
        <5>1. \/ j \in i + 1 .. Len(preGen.data) /\ j \in 1 .. Len(preGen.data)
              \/ j = Len(preGen.data) + 1
          BY <1>0, <2>2, <3>1
        <5> QED BY <2>1, <2>2, <4>1, <5>1
      <4> QED BY <4>1, <4>2, <4>3
    <3>2. CASE i = Len(preGen.data) + 1
      <4>1. preGen'.data[i] = x /\ x.b = Ahead /\ Ahead' = Ahead + 1
        BY <1>a, <2>1, <2>2, <2>7, <3>2
      <4>2. \A j \in i + 1 .. Len(preGen'.data) : FALSE
        BY <1>0, <2>2, <3>2
      <4> QED BY <1>0, <4>1, <4>2
    <3> QED BY <2>5, <3>1, <3>2
  <2> QED BY <1>0, <2>4, <2>6, <2>7 DEF GenOrdered
<1>2. ASSUME preGen'.data = preGen.data, gen'.item \in {gen.item, NoItem}, Ahead' = Ahead
      PROVE  GenOrdered'
  BY <1>0, <1>2 DEF GenOrdered
<1>3. CASE CtlPop \/ CtlExhausted \/ CtlAdvance
  <2>1. preGen' = preGen /\ gen' = gen
    BY <1>3 DEF CtlPop, CtlExhausted, CtlAdvance
  <2>2. Ahead' = Ahead
    BY <1>3 DEF CtlPop, CtlExhausted, CtlAdvance, Ahead, TypeOK, CtlType
  <2> QED BY <1>2, <2>1, <2>2
<1>4. CASE GenPop
  <2>1. /\ Len(preGen'.data) = Len(preGen.data) - 1
        /\ \A i \in 1 .. Len(preGen.data) - 1 : preGen'.data[i] = preGen.data[i + 1]
        /\ Peek(preGen) = preGen.data[1] /\ Len(preGen.data) > 0
    BY <1>0, <1>4, PopShape DEF GenPop
  <2>2. gen'.item = preGen.data[1] /\ Ahead' = Ahead
    BY <1>4, <2>1 DEF GenPop, Ahead, ctlVars, TypeOK, GenType
  <2>3. \A j \in 1 .. Len(preGen'.data) :
          j \in 1 .. Len(preGen.data) - 1 /\ j + 1 \in 1 .. Len(preGen.data)
    BY <1>0, <2>1
  <2>4. ASSUME gen'.item.t = "train"
        PROVE  /\ gen'.item.b < Ahead
               /\ \A j \in 1 .. Len(preGen'.data) :
                    gen'.item.b < Blk(FirstSched, preGen'.data[j])
    <3>1. 1 \in 1 .. Len(preGen.data)
      BY <1>0, <2>1
    <3>2. \A j \in 1 .. Len(preGen'.data) : j + 1 \in 1 + 1 .. Len(preGen.data)
      BY <1>0, <2>1
    <3> QED BY <2>1, <2>2, <2>3, <2>4, <3>1, <3>2 DEF GenOrdered
  <2>5. ASSUME NEW i \in 1 .. Len(preGen'.data), preGen'.data[i].t = "train"
        PROVE  /\ preGen'.data[i].b < Ahead
               /\ \A j \in i + 1 .. Len(preGen'.data) :
                    preGen'.data[i].b < Blk(FirstSched, preGen'.data[j])
    <3>1. /\ preGen'.data[i] = preGen.data[i + 1]
          /\ preGen.data[i + 1].b < Ahead
          /\ \A j \in (i + 1) + 1 .. Len(preGen.data) :
                preGen.data[i + 1].b < Blk(FirstSched, preGen.data[j])
      BY <2>1, <2>3, <2>5 DEF GenOrdered
    <3>2. ASSUME NEW j \in i + 1 .. Len(preGen'.data)
          PROVE  preGen'.data[i].b < Blk(FirstSched, preGen'.data[j])
      <4>1. j + 1 \in (i + 1) + 1 .. Len(preGen.data) /\ j \in 1 .. Len(preGen.data) - 1
        BY <1>0, <2>1
      <4> QED BY <2>1, <3>1, <4>1
    <3> QED BY <3>1, <3>2
  <2> QED BY <1>0, <2>2, <2>4, <2>5 DEF GenOrdered
<1>5. CASE GenPend \/ GenNeed \/ GenSubmit \/ GenBarrier
  <2>1. preGen'.data = preGen.data
    BY <1>0, <1>5 DEF GenPend, GenNeed, GenSubmit, GenBarrier, Pend, Ack
  <2>2. gen'.item \in {gen.item, NoItem}
    BY <1>5 DEF GenPend, GenNeed, GenSubmit, GenBarrier, TypeOK, GenType
  <2>3. Ahead' = Ahead
    BY <1>5 DEF GenPend, GenNeed, GenSubmit, GenBarrier, Ahead, ctlVars
  <2> QED BY <1>2, <2>1, <2>2, <2>3
<1>6. CASE Callback
  <2>1. PICK x \in running : Deliver(x) \/ CbRaise(x)
    BY <1>6 DEF Callback, CbDone, CbIgnoreError
  <2>2. preGen'.data = preGen.data
    BY <1>0, <2>1 DEF Deliver, CbRaise, Ack
  <2>3. gen'.item = gen.item
    BY <2>1 DEF Deliver, CbRaise, TypeOK, GenType
  <2>4. Ahead' = Ahead
    BY <2>1 DEF Deliver, CbRaise, Ahead, ctlVars
  <2> QED BY <1>2, <2>2, <2>3, <2>4
<1>7. CASE Trainer \/ UNCHANGED vars
  <2>1. preGen' = preGen /\ gen' = gen /\ Ahead' = Ahead
    BY <1>7 DEF Trainer, Collecting, TrainRequest, TrainDeploy, TrainSynced, TrainCollect,
                TrainStep, TrainSave, TrainNoSave, vars, Ahead, ctlVars
  <2> QED BY <1>2, <2>1
<1> QED BY <1>1, <1>3, <1>4, <1>5, <1>6, <1>7 DEF Next, Control, Generation, Finished

\* Each generation that runs is counted until its callback is over.
LEMMA StepCounted ==
  ASSUME TypeOK, TrainOrdered, [Next]_vars
  PROVE  IsFiniteSet(running') /\ gen'.active >= Cardinality(running')
<1>0. /\ IsFiniteSet(running) /\ Cardinality(running) \in Nat
      /\ gen.active \in Int /\ gen.active >= Cardinality(running)
  BY FS_CardinalityType DEF TypeOK, GenType, TrainOrdered
<1>1. CASE running' = running /\ gen'.active = gen.active
  BY <1>0, <1>1
<1>2. CASE GenSubmit
  <2> DEFINE x == [p |-> gen.item.p, seen |-> {served}]
  <2>1. running' = running \cup {x} /\ gen'.active = gen.active + 1
    BY <1>2 DEF GenSubmit, TypeOK, GenType
  <2>2. /\ IsFiniteSet(running \cup {x})
        /\ Cardinality(running \cup {x}) \in Nat
        /\ Cardinality(running \cup {x}) <= Cardinality(running) + 1
    <3>1. /\ IsFiniteSet(running \cup {x})
          /\ Cardinality(running \cup {x}) =
               IF x \in running THEN Cardinality(running) ELSE Cardinality(running) + 1
      BY <1>0, FS_AddElement
    <3> HIDE DEF x
    <3> QED BY <1>0, <3>1
  <2> HIDE DEF x
  <2> QED BY <1>0, <2>1, <2>2
<1>3. CASE Callback
  <2>1. PICK x \in running : Deliver(x) \/ CbRaise(x)
    BY <1>3 DEF Callback, CbDone, CbIgnoreError
  <2>2. running' = running \ {x} /\ gen'.active = gen.active - 1
    BY <2>1 DEF Deliver, CbRaise, TypeOK, GenType
  <2>3. IsFiniteSet(running \ {x}) /\ Cardinality(running \ {x}) = Cardinality(running) - 1
    BY <1>0, FS_RemoveElement
  <2> QED BY <1>0, <2>2, <2>3
<1>4. CASE TrainDeploy
  <2> DEFINE F(x) == [x EXCEPT !.seen = @ \cup {train}]
  <2>1. running' = {F(x) : x \in running} /\ gen' = gen
    BY <1>4 DEF TrainDeploy
  <2> DEFINE f == [x \in running |-> F(x)]
             R == {F(x) : x \in running}
  <2>2. f \in Surjection(running, R)
    BY DEF Surjection
  <2>3. IsFiniteSet(R) /\ Cardinality(R) <= Cardinality(running)
    <3> HIDE DEF f, R
    <3> QED BY <1>0, <2>2, FS_Surjection
  <2> QED BY <1>0, <2>1, <2>3, FS_CardinalityType
<1>5. Control \/ UNCHANGED vars => running' = running /\ gen'.active = gen.active
  BY DEF Control, CtlOpen, CtlPop, CtlPut, CtlExhausted, CtlClose, CtlAdvance, vars
<1>6. GenPop \/ GenPend \/ GenNeed \/ GenBarrier => running' = running /\ gen'.active = gen.active
  BY DEF GenPop, GenPend, GenNeed, GenBarrier, TypeOK, GenType
<1>7. TrainRequest \/ TrainSynced \/ TrainCollect \/ TrainStep \/ TrainSave \/ TrainNoSave
        => running' = running /\ gen'.active = gen.active
  BY DEF TrainRequest, TrainSynced, TrainCollect, TrainStep, TrainSave, TrainNoSave
<1> QED BY <1>1, <1>2, <1>3, <1>4, <1>5, <1>6, <1>7
        DEF Next, Generation, Trainer, Collecting, Finished

\* The items of pre_train stay ordered by version: rollouts of a block are all
\* delivered before the train signal that closes it.
LEMMA StepTrainOrdered ==
  TypeOK /\ Filling /\ GenOrdered /\ TrainOrdered /\ [Next]_vars => TrainOrdered'
<1> SUFFICES ASSUME TypeOK, Filling, GenOrdered, TrainOrdered, [Next]_vars
             PROVE  TrainOrdered'
  OBVIOUS
<1>0. /\ FirstSched' = FirstSched /\ FirstSched \in Int /\ Ahead \in Int
      /\ preTrain \in [data : Seq(TrainItem), pending : Seq(TrainItem)]
      /\ Len(preTrain.data) \in Nat
      /\ \A i \in 1 .. Len(preTrain.data) : preTrain.data[i] \in TrainItem
  BY StrategyFixed, FirstSchedType, AheadType, LenProperties, ElementOfSeq DEF TypeOK, TrainQueue
<1>b. \A b \in Int : Later(b) => Later(b)'
  BY LaterStep
<1>c. IsFiniteSet(running') /\ gen'.active >= Cardinality(running')
  BY StepCounted
<1>1. ASSUME preTrain'.data = preTrain.data
      PROVE  TrainOrdered'
  BY <1>0, <1>1, <1>b, <1>c DEF TrainOrdered
<1>2. ASSUME NEW x \in TrainItem, preTrain' = Put(preTrain, x),
             \A b \in Int : Later(b) => b < Blk(FirstSched, x),
             \A b \in Int : x = Barrier(b) => Later(b)'
      PROVE  TrainOrdered'
  <2>1. /\ Len(preTrain'.data) = Len(preTrain.data) + 1
        /\ \A i \in 1 .. Len(preTrain.data) : preTrain'.data[i] = preTrain.data[i]
        /\ preTrain'.data[Len(preTrain.data) + 1] = x
    BY <1>0, <1>2, PutShape
  <2>2. ASSUME NEW b \in Int, NEW i \in 1 .. Len(preTrain'.data), preTrain'.data[i] = Barrier(b)
        PROVE  /\ Later(b)'
               /\ \A j \in i + 1 .. Len(preTrain'.data) : b < Blk(FirstSched, preTrain'.data[j])
    <3>1. CASE i \in 1 .. Len(preTrain.data)
      <4>1. /\ Later(b)
            /\ \A j \in i + 1 .. Len(preTrain.data) : b < Blk(FirstSched, preTrain.data[j])
        BY <2>1, <2>2, <3>1 DEF TrainOrdered
      <4>2. ASSUME NEW j \in i + 1 .. Len(preTrain'.data)
            PROVE  b < Blk(FirstSched, preTrain'.data[j])
        <5>1. (j \in i + 1 .. Len(preTrain.data) /\ j \in 1 .. Len(preTrain.data))
                \/ j = Len(preTrain.data) + 1
          BY <1>0, <2>1, <3>1
        <5> QED BY <1>2, <2>1, <4>1, <5>1
      <4> QED BY <1>b, <4>1, <4>2
    <3>2. CASE i = Len(preTrain.data) + 1
      <4>1. \A j \in i + 1 .. Len(preTrain'.data) : FALSE
        BY <1>0, <2>1, <3>2
      <4> QED BY <1>2, <2>1, <2>2, <3>2, <4>1
    <3>3. i \in 1 .. Len(preTrain.data) \/ i = Len(preTrain.data) + 1
      BY <1>0, <2>1
    <3> QED BY <3>1, <3>2, <3>3
  <2> QED BY <1>0, <1>c, <2>2 DEF TrainOrdered
<1>3. CASE GenBarrier
  <2>1. gen.item \in BarrierItem /\ gen.item.b \in Int /\ gen.item.t = "train"
        /\ gen.item # NoItem
    BY <1>3, ItemTypes DEF TypeOK, GenBarrier, GenItem, GenType
  <2>2. Blk(FirstSched, gen.item) = gen.item.b
    BY <1>0, <2>1, BlockTypes
  <2>3. preTrain' = Put(preTrain, gen.item) /\ gen.item \in TrainItem
    BY <1>3, <2>1 DEF GenBarrier, TrainItem
  <2>4. \A b \in Int : Later(b) => b < Blk(FirstSched, gen.item)
    BY <2>1 DEF Later
  <2>5. ASSUME NEW b \in Int, gen.item = Barrier(b)
        PROVE  Later(b)'
    <3>1. gen.item.b = b
      BY <2>5 DEF Barrier
    <3>2. gen.active = 0 /\ running' = running /\ gen'.item = NoItem /\ Ahead' = Ahead
      BY <1>3 DEF GenBarrier, Drained, Ahead, ctlVars, TypeOK, GenType
    <3>3. running = {}
      <4>1. Cardinality(running) = 0
        BY <3>2, FS_CardinalityType DEF TrainOrdered
      <4> QED BY <4>1, FS_EmptySet DEF TrainOrdered
    <3>4. preGen'.data = preGen.data
      BY <1>3 DEF GenBarrier, Ack, TypeOK, GenQueue
    <3>5. b < Ahead /\ \A j \in 1 .. Len(preGen.data) : b < Blk(FirstSched, preGen.data[j])
      BY <2>1, <3>1 DEF GenOrdered
    <3> QED BY <1>0, <3>2, <3>3, <3>4, <3>5 DEF Later
  <2> QED BY <1>2, <2>3, <2>4, <2>5
<1>4. ASSUME NEW x \in running, Deliver(x)
      PROVE  TrainOrdered'
  <2> DEFINE r == Rollout(x.p, x.seen)
  <2>1. r \in RolloutItem /\ r.p = x.p /\ r.t = "rollout"
    BY ItemTypes DEF TypeOK, Generated, Rollout
  <2>2. Blk(FirstSched, r) = Block(FirstSched, x.p)
    BY <1>0, <2>1, BlockTypes
  <2>3. preTrain' = Put(preTrain, r) /\ r \in TrainItem
    BY <1>4, <2>1 DEF Deliver, TrainItem
  <2>4. \A b \in Int : Later(b) => b < Blk(FirstSched, r)
    BY <2>2 DEF Later
  <2>5. \A b \in Int : r # Barrier(b)
    BY <2>1 DEF Barrier
  <2> HIDE DEF r
  <2> QED BY <1>2, <2>3, <2>4, <2>5
<1>5. CASE TrainCollect
  <2>1. /\ Len(preTrain'.data) = Len(preTrain.data) - 1
        /\ \A i \in 1 .. Len(preTrain.data) - 1 : preTrain'.data[i] = preTrain.data[i + 1]
    BY <1>0, <1>5, PopShape DEF TrainCollect, Get, Pend, Pop
  <2>2. ASSUME NEW b \in Int, NEW i \in 1 .. Len(preTrain'.data), preTrain'.data[i] = Barrier(b)
        PROVE  /\ Later(b)'
               /\ \A j \in i + 1 .. Len(preTrain'.data) : b < Blk(FirstSched, preTrain'.data[j])
    <3>1. i \in 1 .. Len(preTrain.data) - 1 /\ i + 1 \in 1 .. Len(preTrain.data)
      BY <1>0, <2>1
    <3>2. /\ Later(b)
          /\ \A j \in (i + 1) + 1 .. Len(preTrain.data) : b < Blk(FirstSched, preTrain.data[j])
      BY <2>1, <2>2, <3>1 DEF TrainOrdered
    <3>3. ASSUME NEW j \in i + 1 .. Len(preTrain'.data)
          PROVE  b < Blk(FirstSched, preTrain'.data[j])
      <4>1. j + 1 \in (i + 1) + 1 .. Len(preTrain.data) /\ j \in 1 .. Len(preTrain.data) - 1
        BY <1>0, <2>1
      <4> QED BY <2>1, <3>2, <4>1
    <3> QED BY <1>b, <3>2, <3>3
  <2> QED BY <1>0, <1>c, <2>2 DEF TrainOrdered
<1>6. ASSUME NEW x \in running, CbRaise(x)
      PROVE  TrainOrdered'
  BY <1>1, <1>6 DEF CbRaise
<1>7. Control \/ UNCHANGED vars => preTrain'.data = preTrain.data
  BY DEF Control, CtlOpen, CtlPop, CtlPut, CtlExhausted, CtlClose, CtlAdvance, vars
<1>8. GenPop \/ GenPend \/ GenNeed \/ GenSubmit => preTrain'.data = preTrain.data
  BY DEF GenPop, GenPend, GenNeed, GenSubmit
<1>9. TrainRequest \/ TrainDeploy \/ TrainSynced \/ TrainStep \/ TrainNoSave
        => preTrain'.data = preTrain.data
  BY DEF TrainRequest, TrainDeploy, TrainSynced, TrainStep, TrainNoSave
<1>10. TrainSave => preTrain'.data = preTrain.data
  BY <1>0 DEF TrainSave, WeightDumped
<1> QED BY <1>1, <1>3, <1>4, <1>5, <1>6, <1>7, <1>8, <1>9, <1>10
        DEF Next, Generation, Callback, CbDone, CbIgnoreError, Trainer, Collecting, Finished

\* The trainer is done with a version when it takes its barrier.
LEMMA CollectedStep ==
  ASSUME TypeOK, [Next]_vars
  PROVE  /\ Collected \in Int
         /\ Collected' = IF TrainCollect /\ Peek(preTrain).t = "train"
                         THEN Collected + 1 ELSE Collected
         /\ TrainCollect => Collected = train + FirstSched /\ trainer.pc = "collect"
<1>0. /\ FirstSched' = FirstSched /\ FirstSched \in Int /\ train \in Int
      /\ trainer.pc \in {"idle", "sync", "deployed", "collect", "step", "after", "snapshot"}
  BY StrategyFixed, FirstSchedType DEF TypeOK, TrainerType
<1>1. Collected \in Int
  BY <1>0 DEF Collected
<1>2. CASE TrainCollect
  <2>1. trainer.pc = "collect" /\ train' = train
    BY <1>2 DEF TrainCollect, verVars
  <2>2. trainer'.pc = IF Peek(preTrain).t = "train" THEN "step" ELSE "collect"
    BY <1>2, <2>1 DEF TrainCollect, TypeOK, TrainerType
  <2> QED BY <1>0, <1>1, <1>2, <2>1, <2>2 DEF Collected
<1>3. CASE TrainRequest
  <2>1. /\ trainer.pc = "idle" /\ trainer'.pc = "sync" /\ train' = train + 1
    BY <1>3 DEF TrainRequest, TypeOK, TrainerType
  <2>2. ~TrainCollect
    BY <2>1 DEF TrainCollect
  <2> QED BY <1>0, <1>1, <2>1, <2>2 DEF Collected
<1>4. CASE TrainDeploy \/ TrainSynced \/ TrainStep \/ TrainSave \/ TrainNoSave
  <2>1. /\ train' = train
        /\ trainer.pc \in {"step", "after", "snapshot", "idle"} <=> trainer'.pc \in {"step", "after", "snapshot", "idle"}
    BY <1>4 DEF TrainDeploy, TrainSynced, TrainStep, TrainSave, TrainNoSave, verVars, TypeOK, TrainerType
  <2>2. ~TrainCollect
    BY <1>4 DEF TrainDeploy, TrainSynced, TrainStep, TrainSave, TrainNoSave, TrainCollect
  <2> QED BY <1>0, <1>1, <2>1, <2>2 DEF Collected
<1>5. CASE ~Trainer
  <2>1. train' = train /\ trainer' = trainer
    BY <1>5 DEF Next, Control, CtlOpen, CtlPop, CtlPut, CtlExhausted, CtlClose, CtlAdvance,
                Generation, GenPop, GenPend, GenNeed, GenSubmit, GenBarrier,
                Callback, CbDone, CbIgnoreError, CbRaise, Deliver, Finished,
                vars, verVars, trainVars
  <2>2. ~TrainCollect
    BY <1>5 DEF Trainer, Collecting
  <2> QED BY <1>0, <1>1, <2>1, <2>2 DEF Collected
<1> QED BY <1>2, <1>3, <1>4, <1>5 DEF Trainer, Collecting

\* The trainer has reached the version it took the barrier of.
LEMMA StepReached ==
  TypeOK /\ Filling /\ TrainOrdered /\ Reached /\ [Next]_vars => Reached'
<1> SUFFICES ASSUME TypeOK, Filling, TrainOrdered, Reached, [Next]_vars
             PROVE  Reached'
  OBVIOUS
<1>0. /\ FirstSched' = FirstSched /\ FirstSched \in Int /\ train \in Int
      /\ Collected \in Int
      /\ preTrain \in [data : Seq(TrainItem), pending : Seq(TrainItem)]
      /\ Len(preTrain.data) \in Nat
      /\ \A i \in 1 .. Len(preTrain.data) :
           preTrain.data[i] \in TrainItem /\ Blk(FirstSched, preTrain.data[i]) \in Int
      /\ trainer.batch \in Seq(RolloutItem) /\ Len(trainer.batch) \in Nat
  BY StrategyFixed, FirstSchedType, CollectedStep, LenProperties, ElementOfSeq, BlockTypes
     DEF TypeOK, TrainQueue, TrainerType
<1>b. \A b \in Int : Later(b) => Later(b)'
  BY LaterStep
<1>1. CASE TrainCollect
  <2>1. /\ Len(preTrain'.data) = Len(preTrain.data) - 1 /\ Len(preTrain.data) > 0
        /\ \A i \in 1 .. Len(preTrain.data) - 1 : preTrain'.data[i] = preTrain.data[i + 1]
        /\ Peek(preTrain) = preTrain.data[1] /\ Peek(preTrain) \in TrainItem
    BY <1>0, <1>1, PopShape DEF TrainCollect, Get, Pend, Pop
  <2>2. /\ Collected = train + FirstSched /\ trainer.pc = "collect" /\ train' = train
        /\ 1 \in 1 .. Len(preTrain.data)
        /\ \A i \in 1 .. Len(preTrain'.data) :
             i \in 1 .. Len(preTrain.data) - 1 /\ i + 1 \in 1 .. Len(preTrain.data)
    <3>1. Collected = train + FirstSched /\ trainer.pc = "collect" /\ train' = train
      BY <1>0, <1>1, CollectedStep DEF TrainCollect, verVars
    <3>2. PICK n \in Nat : n = Len(preTrain.data)
      BY <1>0
    <3>3. Len(preTrain'.data) = n - 1 /\ n > 0
      BY <2>1, <3>2
    <3>4. 1 \in 1 .. n /\ \A i \in 1 .. n - 1 : i + 1 \in 1 .. n
      BY <3>3
    <3> QED BY <3>1, <3>2, <3>3, <3>4
  <2>3. Collected <= Blk(FirstSched, preTrain.data[1])
    BY <2>2 DEF Reached
  <2>4. CASE Peek(preTrain).t = "train"
    <3>1. PICK b \in Int : preTrain.data[1] = Barrier(b) /\ Blk(FirstSched, preTrain.data[1]) = b
      <4>1. preTrain.data[1] \in BarrierItem
        BY <2>1, <2>4, ItemTypes DEF TrainItem
      <4>2. Blk(FirstSched, preTrain.data[1]) = preTrain.data[1].b
        BY <1>0, <4>1, BlockTypes
      <4>3. preTrain.data[1].b \in Int /\ preTrain.data[1] = Barrier(preTrain.data[1].b)
        BY <4>1, ItemTypes
      <4> QED BY <4>2, <4>3
    <3>2. /\ Later(b)
          /\ \A j \in 1 + 1 .. Len(preTrain.data) : b < Blk(FirstSched, preTrain.data[j])
      BY <2>2, <3>1 DEF TrainOrdered
    <3>3. Collected' = Collected + 1
      BY <1>1, <2>4, CollectedStep
    <3>4. Collected <= b
      BY <2>3, <3>1
    <3>5. Later(Collected)
      BY <1>0, <3>2, <3>4, LaterDown
    <3>6. Later(Collected - 1)'
      <4>1. PICK c \in Int : c = Collected
        BY <1>0
      <4>2. Later(c)'
        BY <1>b, <3>5, <4>1
      <4>3. Collected' - 1 = c
        BY <1>0, <3>3, <4>1
      <4> QED BY <4>2, <4>3 DEF Later
    <3>7. ASSUME NEW i \in 1 .. Len(preTrain'.data)
          PROVE  Collected' <= Blk(FirstSched, preTrain'.data[i])
      <4>1. i + 1 \in 1 + 1 .. Len(preTrain.data) /\ i + 1 \in 1 .. Len(preTrain.data)
            /\ preTrain'.data[i] = preTrain.data[i + 1]
        BY <1>0, <2>1, <2>2
      <4>2. b < Blk(FirstSched, preTrain.data[i + 1]) /\ Blk(FirstSched, preTrain.data[i + 1]) \in Int
        BY <1>0, <3>2, <4>1
      <4> QED BY <1>0, <3>3, <3>4, <4>1, <4>2
    <3>8. trainer'.pc = "step" /\ trainer'.batch = trainer.batch
      BY <1>1, <2>4 DEF TrainCollect, TypeOK, TrainerType
    <3> QED BY <1>0, <2>2, <3>6, <3>7, <3>8 DEF Reached
  <2>5. CASE Peek(preTrain).t # "train"
    <3>1. Peek(preTrain) \in RolloutItem
      BY <2>1, <2>5, ItemTypes DEF TrainItem
    <3>2. Collected <= Block(FirstSched, Peek(preTrain).p)
      BY <1>0, <2>1, <2>3, <3>1, BlockTypes
    <3>3. /\ trainer'.pc = "collect"
          /\ trainer'.batch = Append(trainer.batch, Peek(preTrain))
      BY <1>1, <2>5 DEF TrainCollect, TypeOK, TrainerType
    <3>4. /\ Len(trainer'.batch) = Len(trainer.batch) + 1
          /\ \A i \in 1 .. Len(trainer.batch) : trainer'.batch[i] = trainer.batch[i]
          /\ trainer'.batch[Len(trainer.batch) + 1] = Peek(preTrain)
      BY <1>0, <3>1, <3>3, AppendProperties
    <3>5. ASSUME NEW i \in 1 .. Len(trainer'.batch)
          PROVE  train + FirstSched <= Block(FirstSched, trainer'.batch[i].p)
      <4>1. i \in 1 .. Len(trainer.batch) \/ i = Len(trainer.batch) + 1
        BY <1>0, <3>4
      <4> QED BY <2>2, <3>2, <3>4, <4>1 DEF Reached
    <3>6. Collected' = Collected
      BY <2>5, CollectedStep
    <3>7. Later(Collected - 1)'
      <4>1. PICK c \in Int : c = Collected - 1
        BY <1>0
      <4>2. Later(c)'
        BY <1>b, <4>1 DEF Reached
      <4> QED BY <3>6, <4>1, <4>2 DEF Later
    <3>8. \A i \in 1 .. Len(preTrain'.data) : Collected' <= Blk(FirstSched, preTrain'.data[i])
      BY <2>1, <2>2, <3>6 DEF Reached
    <3> QED BY <1>0, <2>2, <3>3, <3>5, <3>7, <3>8 DEF Reached
  <2> QED BY <2>4, <2>5
<1>2. CASE ~TrainCollect
  <2>1. Collected' = Collected
    BY <1>2, CollectedStep
  <2>2. Later(Collected - 1)'
    <3>1. PICK c \in Int : c = Collected - 1
      BY <1>0
    <3>2. Later(c)'
      BY <1>b, <3>1 DEF Reached
    <3> QED BY <2>1, <3>1, <3>2 DEF Later
  <2>3. /\ \A i \in 1 .. Len(trainer'.batch) :
             train' + FirstSched <= Block(FirstSched, trainer'.batch[i].p)
        /\ trainer'.pc \notin {"collect", "step"} => trainer'.batch = <<>>
    <3>1. CASE trainer' = trainer /\ train' = train
      BY <3>1 DEF Reached
    <3>2. CASE TrainRequest \/ TrainDeploy \/ TrainSynced \/ TrainSave \/ TrainNoSave
      <4>1. trainer.batch = <<>>
        BY <3>2 DEF Reached, TrainRequest, TrainDeploy, TrainSynced, TrainSave, TrainNoSave
      <4>2. trainer'.batch = trainer.batch
        BY <3>2 DEF TrainRequest, TrainDeploy, TrainSynced, TrainSave, TrainNoSave,
                    TypeOK, TrainerType
      <4>3. \A i \in 1 .. Len(trainer'.batch) : FALSE
        BY <4>1, <4>2
      <4> QED BY <4>1, <4>2, <4>3
    <3>3. CASE TrainStep
      <4>1. trainer'.batch = <<>>
        BY <3>3 DEF TrainStep
      <4>2. \A i \in 1 .. Len(trainer'.batch) : FALSE
        BY <4>1
      <4> QED BY <4>1, <4>2
    <3>4. ~Trainer => trainer' = trainer /\ train' = train
      BY DEF Next, Control, CtlOpen, CtlPop, CtlPut, CtlExhausted, CtlClose, CtlAdvance,
             Generation, GenPop, GenPend, GenNeed, GenSubmit, GenBarrier,
             Callback, CbDone, CbIgnoreError, CbRaise, Deliver, Finished,
             vars, verVars, trainVars
    <3> QED BY <1>2, <3>1, <3>2, <3>3, <3>4 DEF Trainer, Collecting
  <2>4. ASSUME NEW x \in TrainItem, preTrain' = Put(preTrain, x), Collected <= Blk(FirstSched, x),
               NEW i \in 1 .. Len(preTrain'.data)
        PROVE  Collected <= Blk(FirstSched, preTrain'.data[i])
    <3>1. /\ Len(preTrain'.data) = Len(preTrain.data) + 1
          /\ \A k \in 1 .. Len(preTrain.data) : preTrain'.data[k] = preTrain.data[k]
          /\ preTrain'.data[Len(preTrain.data) + 1] = x
      BY <1>0, <2>4, PutShape
    <3>2. i \in 1 .. Len(preTrain.data) \/ i = Len(preTrain.data) + 1
      BY <1>0, <3>1
    <3> QED BY <2>4, <3>1, <3>2 DEF Reached
  <2>5. \A i \in 1 .. Len(preTrain'.data) : Collected <= Blk(FirstSched, preTrain'.data[i])
    <3>1. CASE preTrain'.data = preTrain.data
      BY <3>1 DEF Reached
    <3>2. CASE GenBarrier
      <4>1. gen.item \in BarrierItem /\ gen.item # NoItem
        BY <3>2, ItemTypes DEF TypeOK, GenBarrier, GenItem, GenType
      <4>2. preTrain' = Put(preTrain, gen.item) /\ gen.item \in TrainItem
        BY <3>2, <4>1 DEF GenBarrier, TrainItem
      <4>3. Collected - 1 < Blk(FirstSched, gen.item) /\ Blk(FirstSched, gen.item) \in Int
        BY <1>0, <4>1, <4>2, BlockTypes DEF Reached, Later
      <4>4. Collected <= Blk(FirstSched, gen.item)
        BY <1>0, <4>3
      <4> QED BY <2>4, <4>2, <4>4
    <3>3. ASSUME NEW x \in running, Deliver(x)
          PROVE  \A i \in 1 .. Len(preTrain'.data) : Collected <= Blk(FirstSched, preTrain'.data[i])
      <4> DEFINE r == Rollout(x.p, x.seen)
      <4>1. r \in RolloutItem /\ r.p = x.p /\ x.p \in Nat \ {0}
        BY ItemTypes DEF TypeOK, Generated, Rollout
      <4>2. preTrain' = Put(preTrain, r) /\ r \in TrainItem
        BY <3>3, <4>1 DEF Deliver, TrainItem
      <4>3. Blk(FirstSched, r) = Block(FirstSched, x.p) /\ Block(FirstSched, x.p) \in Int
        BY <1>0, <4>1, BlockTypes
      <4>4. Collected - 1 < Block(FirstSched, x.p)
        BY DEF Reached, Later
      <4> HIDE DEF r
      <4>5. Collected <= Blk(FirstSched, r)
        BY <1>0, <4>3, <4>4
      <4> QED BY <2>4, <4>2, <4>5
    <3>4. ASSUME NEW x \in running, CbRaise(x)
          PROVE  preTrain'.data = preTrain.data
      BY <3>4 DEF CbRaise
    <3>5. Control \/ UNCHANGED vars => preTrain'.data = preTrain.data
      BY DEF Control, CtlOpen, CtlPop, CtlPut, CtlExhausted, CtlClose, CtlAdvance, vars
    <3>6. GenPop \/ GenPend \/ GenNeed \/ GenSubmit => preTrain'.data = preTrain.data
      BY DEF GenPop, GenPend, GenNeed, GenSubmit
    <3>7. TrainRequest \/ TrainDeploy \/ TrainSynced \/ TrainStep \/ TrainNoSave
            => preTrain'.data = preTrain.data
      BY DEF TrainRequest, TrainDeploy, TrainSynced, TrainStep, TrainNoSave
    <3>8. TrainSave => preTrain'.data = preTrain.data
      BY <1>0 DEF TrainSave, WeightDumped
    <3> QED BY <1>2, <3>1, <3>2, <3>3, <3>4, <3>5, <3>6, <3>7, <3>8
            DEF Next, Generation, Callback, CbDone, CbIgnoreError, Trainer, Collecting, Finished
  <2> QED BY <1>0, <2>1, <2>2, <2>3, <2>5 DEF Reached
<1> QED BY <1>1, <1>2
-----------------------------------------------------------------------------
(* Which weights a rollout was generated by.                               *)

\* The servers are between the version the generation worker knows of and the
\* one the trainer is at; the log says how far training is.
Versions ==
  /\ infer <= served /\ served <= train
  /\ trainer.pc = "deployed" => served = train
  /\ Len(log) = train + (IF trainer.pc \in {"after", "snapshot", "idle"} THEN 1 ELSE 0)

\* The version a block waits for is served, or its need_version is what the
\* generation worker waits on.
Open(b) == infer >= Max0(b) \/ gen.item = Need(b)

\* Every prompt that was not submitted yet still has its gate in front of it.
Gated ==
  /\ \A p \in Nat \ {0} : gen.item = Prompt(p) => infer >= Max0(Block(FirstSched, p))
  /\ ctl.pc = "fill" =>
       Open(sched) \/ \E i \in 1 .. Len(preGen.data) : preGen.data[i] = Need(sched)
  /\ \A p \in Nat \ {0}, j \in 1 .. Len(preGen.data) : preGen.data[j] = Prompt(p) =>
       \/ Open(Block(FirstSched, p))
       \/ \E i \in 1 .. j - 1 : preGen.data[i] = Need(Block(FirstSched, p))

\* x was generated by the version of its block and later ones.
SeenOf(f, t, x) ==
  /\ x.seen # {}
  /\ \A v \in x.seen : Max0(Block(f, x.p)) <= v /\ v <= t

\* So was every rollout that is not trained on yet.
Seen ==
  /\ \A x \in running : SeenOf(FirstSched, train, x)
  /\ \A i \in 1 .. Len(preTrain.data) :
       preTrain.data[i].t = "rollout" => SeenOf(FirstSched, train, preTrain.data[i])
  /\ \A i \in 1 .. Len(trainer.batch) : SeenOf(FirstSched, train, trainer.batch[i])

\* The larger of a number and zero.
LEMMA Max0Type == \A n \in Int : Max0(n) \in Nat /\ n <= Max0(n) /\ (n \in Nat => Max0(n) = n)
BY DEF Max0

\* Nothing is generated at first.
LEMMA InitFresh == Init => Versions /\ Gated /\ Seen /\ FreshRollouts
BY DEF Init, Versions, Gated, Seen, FreshRollouts, EmptyQueue, NoItem, Prompt

\* The served version never passes the trained one.
LEMMA StepVersions == TypeOK /\ Versions /\ [Next]_vars => Versions'
<1> SUFFICES ASSUME TypeOK, Versions, [Next]_vars
             PROVE  Versions'
  OBVIOUS
<1>0. /\ infer \in Int /\ served \in Int /\ train \in Int /\ Len(log) \in Nat
      /\ trainer.pc \in {"idle", "sync", "deployed", "collect", "step", "after", "snapshot"}
  BY LenProperties DEF TypeOK, TrainerType
<1>1. CASE TrainRequest
  <2>1. /\ trainer.pc = "idle" /\ trainer'.pc = "sync" /\ train' = train + 1
        /\ infer' = infer /\ served' = served /\ log' = log
    BY <1>1 DEF TrainRequest, TypeOK, TrainerType
  <2> QED BY <1>0, <2>1 DEF Versions
<1>2. CASE TrainDeploy
  <2>1. /\ trainer.pc = "sync" /\ trainer'.pc = "deployed" /\ train' = train
        /\ infer' = infer /\ served' = train /\ log' = log
    BY <1>2 DEF TrainDeploy, TypeOK, TrainerType
  <2>2. \A a, b, c \in Int : a <= b /\ b <= c => a <= c
    OBVIOUS
  <2> QED BY <1>0, <2>1, <2>2 DEF Versions
<1>3. CASE TrainSynced
  <2>1. /\ trainer.pc = "deployed" /\ trainer'.pc = "collect" /\ train' = train
        /\ infer' = train /\ served' = served /\ log' = log
    BY <1>3 DEF TrainSynced, TypeOK, TrainerType
  <2> QED BY <1>0, <2>1 DEF Versions
<1>4. CASE TrainStep
  <2>1. /\ trainer.pc = "step" /\ trainer'.pc = "after" /\ train' = train
        /\ infer' = infer /\ served' = served
    BY <1>4 DEF TrainStep, verVars
  <2>2. Len(log') = Len(log) + 1
    BY <1>4, AppendProperties DEF TrainStep, TypeOK, TrainerType
  <2> QED BY <1>0, <2>1, <2>2 DEF Versions
<1>5. CASE TrainCollect \/ TrainSave \/ TrainNoSave
  <2>1. /\ trainer.pc \in {"after", "snapshot", "idle"} <=> trainer'.pc \in {"after", "snapshot", "idle"}
        /\ trainer'.pc # "deployed"
    BY <1>5 DEF TrainCollect, TrainSave, TrainNoSave, TypeOK, TrainerType
  <2>2. train' = train /\ infer' = infer /\ served' = served /\ log' = log
    BY <1>5 DEF TrainCollect, TrainSave, TrainNoSave, verVars
  <2> QED BY <1>0, <2>1, <2>2 DEF Versions
<1>6. CASE ~Trainer
  <2>1. train' = train /\ infer' = infer /\ served' = served /\ log' = log /\ trainer' = trainer
    BY <1>6 DEF Next, Control, CtlOpen, CtlPop, CtlPut, CtlExhausted, CtlClose, CtlAdvance,
                Generation, GenPop, GenPend, GenNeed, GenSubmit, GenBarrier,
                Callback, CbDone, CbIgnoreError, CbRaise, Deliver, Finished,
                vars, verVars, trainVars
  <2> QED BY <2>1 DEF Versions
<1> QED BY <1>1, <1>2, <1>3, <1>4, <1>5, <1>6 DEF Trainer, Collecting

\* A block that is open stays open.
LEMMA OpenStep ==
  ASSUME TypeOK, Versions, [Next]_vars, NEW b \in Int, Open(b)
  PROVE  Open(b)'
<1>0. Max0(b) \in Nat /\ infer \in Int /\ served \in Int /\ train \in Int
  BY Max0Type DEF TypeOK
<1>1. CASE infer' = infer /\ gen'.item = gen.item
  BY <1>1 DEF Open
<1>2. CASE infer >= Max0(b)
  <2>1. infer' \in Int /\ infer <= infer'
    <3>1. TrainSynced => infer' \in Int /\ infer <= infer'
      <4>1. \A x, y, z \in Int : x <= y /\ y <= z => x <= z
        OBVIOUS
      <4> QED BY <1>0, <4>1 DEF TrainSynced, Versions
    <3>2. ~TrainSynced => infer' = infer
      BY DEF Next, Control, CtlOpen, CtlPop, CtlPut, CtlExhausted, CtlClose, CtlAdvance,
             Generation, GenPop, GenPend, GenNeed, GenSubmit, GenBarrier,
             Callback, CbDone, CbIgnoreError, CbRaise, Deliver, Finished, Trainer, Collecting,
             TrainRequest, TrainDeploy, TrainCollect, TrainStep, TrainSave, TrainNoSave,
             vars, verVars
    <3> QED BY <1>0, <3>1, <3>2
  <2>2. \A x, y, z \in Int : x >= z /\ x <= y => y >= z
    OBVIOUS
  <2> QED BY <1>0, <1>2, <2>1, <2>2 DEF Open
<1>3. CASE gen.item = Need(b) /\ ~(infer' = infer /\ gen'.item = gen.item) /\ ~(infer >= Max0(b))
  <2>1. /\ Need(b) # NoItem /\ gen.item.t = "need" /\ gen.item.v = Max0(b)
        /\ gen.pc \in {"pend", "need"}
    BY <1>3, ItemTypes DEF Max0, TypeOK, GenType, GenItem
  <2>2. ~(GenPop \/ GenSubmit \/ GenBarrier \/ GenNeed)
    BY <1>3, <2>1 DEF GenPop, GenSubmit, GenBarrier, GenNeed, HasVersion
  <2>3. gen'.item = gen.item
    <3>1. GenPend => gen'.item = gen.item
      BY DEF GenPend, TypeOK, GenType
    <3>2. Callback => gen'.item = gen.item
      BY DEF Callback, CbDone, CbIgnoreError, CbRaise, Deliver, TypeOK, GenType
    <3>3. Control \/ Trainer \/ UNCHANGED vars => gen' = gen
      BY DEF Control, CtlOpen, CtlPop, CtlPut, CtlExhausted, CtlClose, CtlAdvance,
             Trainer, Collecting, TrainRequest, TrainDeploy, TrainSynced, TrainCollect, TrainStep,
             TrainSave, TrainNoSave, vars
    <3> QED BY <2>2, <3>1, <3>2, <3>3 DEF Next, Generation, Finished
  <2> QED BY <1>3, <2>3 DEF Open
<1> QED BY <1>1, <1>2, <1>3 DEF Open

\* What runs was let through by the gate of its own block.
LEMMA StepGated == TypeOK /\ Filling /\ Versions /\ Gated /\ [Next]_vars => Gated'
<1> SUFFICES ASSUME TypeOK, Filling, Versions, Gated, [Next]_vars
             PROVE  Gated'
  OBVIOUS
<1>0. /\ FirstSched' = FirstSched /\ FirstSched \in Int /\ sched \in Int
      /\ preGen \in [data : Seq(GenItem), pending : Seq(GenItem)]
      /\ Len(preGen.data) \in Nat
      /\ \A p \in Nat \ {0} : Block(FirstSched, p) \in Int
  BY StrategyFixed, FirstSchedType, LenProperties, BlockTypes DEF TypeOK, GenQueue
<1>b. \A b \in Int : Open(b) => Open(b)'
  BY OpenStep
<1>c. \A p \in Nat \ {0} : Open(Block(FirstSched, p)) => Open(Block(FirstSched, p))'
  <2>1. ASSUME NEW p \in Nat \ {0}, Open(Block(FirstSched, p))
        PROVE  Open(Block(FirstSched, p))'
    <3>1. PICK b \in Int : b = Block(FirstSched, p)
      BY <1>0
    <3>2. Open(b)' /\ Block(FirstSched, p)' = b
      BY <1>0, <1>b, <2>1, <3>1
    <3> QED BY <3>2 DEF Open
  <2> QED BY <2>1
<1>d. sched' = sched /\ Open(sched) => Open(sched)'
  <2>1. PICK b \in Int : b = sched
    BY <1>0
  <2> QED BY <1>b, <2>1 DEF Open
<1>e. \A p \in Nat \ {0} : /\ NoItem # Prompt(p) /\ Prompt(p).p = p
                          /\ \A b \in Int : Prompt(p) # Need(b) /\ Prompt(p) # Barrier(b)
  BY ItemTypes DEF Prompt, Need, Barrier
<1>1. ASSUME NEW x \in GenItem, preGen' = Put(preGen, x), infer' = infer, gen' = gen,
             \A p \in Nat \ {0} : x = Prompt(p) =>
                ctl.pc = "fill" /\ Block(FirstSched, p) = sched,
             ctl'.pc = "fill" => sched' = sched /\ (ctl.pc = "fill" \/ x = Need(sched))
      PROVE  Gated'
  <2>1. /\ Len(preGen'.data) = Len(preGen.data) + 1
        /\ \A i \in 1 .. Len(preGen.data) : preGen'.data[i] = preGen.data[i]
        /\ preGen'.data[Len(preGen.data) + 1] = x
    BY <1>0, <1>1, PutShape
  <2>2. /\ Len(preGen.data) + 1 \in 1 .. Len(preGen'.data)
        /\ \A i \in 1 .. Len(preGen.data) : i \in 1 .. Len(preGen'.data)
        /\ \A i \in 1 .. Len(preGen'.data) : i \in 1 .. Len(preGen.data) \/ i = Len(preGen.data) + 1
    BY <1>0, <2>1
  <2>3. ctl'.pc = "fill" =>
          Open(sched)' \/ \E i \in 1 .. Len(preGen'.data) : preGen'.data[i] = Need(sched)
    BY <1>1, <1>d, <2>1, <2>2 DEF Gated
  <2>4. ASSUME NEW p \in Nat \ {0}, NEW j \in 1 .. Len(preGen'.data), preGen'.data[j] = Prompt(p)
        PROVE  \/ Open(Block(FirstSched, p))'
               \/ \E i \in 1 .. j - 1 : preGen'.data[i] = Need(Block(FirstSched, p))
    <3>1. CASE j \in 1 .. Len(preGen.data)
      <4>1. \/ Open(Block(FirstSched, p))
            \/ \E i \in 1 .. j - 1 : preGen.data[i] = Need(Block(FirstSched, p))
        BY <2>1, <2>4, <3>1 DEF Gated
      <4>2. \A i \in 1 .. j - 1 : i \in 1 .. Len(preGen.data)
        BY <1>0, <3>1
      <4> QED BY <1>c, <2>1, <4>1, <4>2
    <3>2. CASE j = Len(preGen.data) + 1
      <4>1. x = Prompt(p) /\ ctl.pc = "fill" /\ Block(FirstSched, p) = sched
        BY <1>1, <2>1, <2>4, <3>2
      <4>2. Open(sched) \/ \E i \in 1 .. Len(preGen.data) : preGen.data[i] = Need(sched)
        BY <4>1 DEF Gated
      <4>3. Open(sched) => Open(Block(FirstSched, p))'
        BY <1>c, <4>1
      <4>4. j - 1 = Len(preGen.data)
        BY <1>0, <3>2
      <4> QED BY <2>1, <4>1, <4>2, <4>3, <4>4
    <3> QED BY <2>2, <3>1, <3>2
  <2>5. \A p \in Nat \ {0} : gen'.item = Prompt(p) => infer' >= Max0(Block(FirstSched, p))
    BY <1>1 DEF Gated
  <2> QED BY <1>0, <1>1, <2>3, <2>4, <2>5 DEF Gated
<1>2. CASE CtlOpen
  <2>1. /\ preGen' = Put(preGen, Need(sched)) /\ infer' = infer /\ gen' = gen /\ sched' = sched
    BY <1>2 DEF CtlOpen, verVars
  <2>2. Need(sched) \in GenItem /\ \A p \in Nat \ {0} : Need(sched) # Prompt(p)
    BY <1>0, <1>e, ItemTypes DEF GenItem
  <2> QED BY <1>1, <2>1, <2>2
<1>3. CASE CtlPut
  <2>1. /\ preGen' = Put(preGen, ctl.hand) /\ infer' = infer /\ gen' = gen /\ sched' = sched
        /\ ctl.pc = "fill" /\ ctl.hand \in PromptItem /\ Block(FirstSched, ctl.hand.p) = sched
    BY <1>3 DEF CtlPut, verVars, TypeOK, CtlType, Filling
  <2>2. ctl.hand \in GenItem /\ \A p \in Nat \ {0} : ctl.hand = Prompt(p) => ctl.hand.p = p
    BY <1>e, <2>1 DEF GenItem
  <2> QED BY <1>1, <2>1, <2>2
<1>4. CASE CtlClose
  <2>1. /\ preGen' = Put(preGen, Barrier(sched)) /\ infer' = infer /\ gen' = gen
        /\ ctl'.pc = "advance"
    BY <1>4 DEF CtlClose, verVars, TypeOK, CtlType
  <2>2. Barrier(sched) \in GenItem /\ \A p \in Nat \ {0} : Barrier(sched) # Prompt(p)
    BY <1>0, <1>e, ItemTypes DEF GenItem
  <2> QED BY <1>1, <2>1, <2>2
<1>5. ASSUME preGen'.data = preGen.data, gen'.item \in {gen.item, NoItem},
             ctl'.pc = "fill" => ctl.pc = "fill" /\ sched' = sched
      PROVE  Gated'
  <2>1. ASSUME NEW p \in Nat \ {0}, gen'.item = Prompt(p)
        PROVE  infer' >= Max0(Block(FirstSched, p))
    <3>1. gen.item = Prompt(p) /\ Prompt(p) # Need(Block(FirstSched, p))
      BY <1>0, <1>5, <1>e, <2>1
    <3>2. Open(Block(FirstSched, p))
      BY <3>1 DEF Gated, Open
    <3>3. Open(Block(FirstSched, p))'
      BY <1>c, <3>2
    <3>4. infer' >= Max0(Block(FirstSched', p)) \/ gen'.item = Need(Block(FirstSched', p))
      BY <3>3 DEF Open
    <3> QED BY <1>0, <2>1, <3>1, <3>4
  <2>2. \A p \in Nat \ {0}, j \in 1 .. Len(preGen.data) : preGen.data[j] = Prompt(p) =>
           \/ Open(Block(FirstSched, p))'
           \/ \E i \in 1 .. j - 1 : preGen.data[i] = Need(Block(FirstSched, p))
    BY <1>c DEF Gated
  <2>3. ctl'.pc = "fill" =>
          Open(sched)' \/ \E i \in 1 .. Len(preGen.data) : preGen.data[i] = Need(sched)
    BY <1>5, <1>d DEF Gated
  <2> QED BY <1>0, <1>5, <2>1, <2>2, <2>3 DEF Gated
<1>6. CASE CtlPop \/ CtlExhausted \/ CtlAdvance
  <2>1. preGen' = preGen /\ gen' = gen
    BY <1>6 DEF CtlPop, CtlExhausted, CtlAdvance
  <2>2. ctl'.pc = "fill" => ctl.pc = "fill" /\ sched' = sched
    BY <1>6 DEF CtlPop, CtlExhausted, CtlAdvance, TypeOK, CtlType
  <2> QED BY <1>5, <2>1, <2>2
<1>7. CASE GenPop
  <2>1. /\ Len(preGen'.data) = Len(preGen.data) - 1 /\ Len(preGen.data) > 0
        /\ \A i \in 1 .. Len(preGen.data) - 1 : preGen'.data[i] = preGen.data[i + 1]
        /\ Peek(preGen) = preGen.data[1]
    BY <1>0, <1>7, PopShape DEF GenPop
  <2>2. gen.item = NoItem /\ gen'.item = preGen.data[1] /\ infer' = infer
        /\ ctl' = ctl /\ sched' = sched
    BY <1>7, <2>1 DEF GenPop, ctlVars, verVars, TypeOK, GenType
  <2>3. 1 \in 1 .. Len(preGen.data) /\ (\A i \in 1 .. 1 - 1 : FALSE)
    BY <1>0, <2>1
  <2>4. ASSUME NEW p \in Nat \ {0}, gen'.item = Prompt(p)
        PROVE  infer' >= Max0(Block(FirstSched, p))
    <3>1. Open(Block(FirstSched, p))
      BY <2>2, <2>3, <2>4 DEF Gated
    <3>2. NoItem # Need(Block(FirstSched, p))
      BY DEF NoItem, Need
    <3> QED BY <2>2, <3>1, <3>2 DEF Open
  <2>5. ASSUME NEW i \in 1 .. Len(preGen.data), NEW b \in Int, preGen.data[i] = Need(b)
        PROVE  gen'.item = Need(b) \/ (i - 1 \in 1 .. Len(preGen'.data) /\ preGen'.data[i - 1] = Need(b))
    <3>1. CASE i = 1
      BY <2>2, <2>5, <3>1
    <3>2. CASE i # 1
      <4>1. i - 1 \in 1 .. Len(preGen.data) - 1 /\ (i - 1) + 1 = i
        BY <1>0, <3>2
      <4> QED BY <2>1, <2>5, <4>1
    <3> QED BY <3>1, <3>2
  <2>6. ASSUME ctl'.pc = "fill"
        PROVE  Open(sched)' \/ \E i \in 1 .. Len(preGen'.data) : preGen'.data[i] = Need(sched)
    <3>1. Open(sched) \/ \E i \in 1 .. Len(preGen.data) : preGen.data[i] = Need(sched)
      BY <2>2, <2>6 DEF Gated
    <3>2. gen'.item = Need(sched) => Open(sched)'
      BY <2>2 DEF Open
    <3> QED BY <1>0, <1>d, <2>2, <2>5, <3>1, <3>2
  <2>7. ASSUME NEW p \in Nat \ {0}, NEW j \in 1 .. Len(preGen'.data), preGen'.data[j] = Prompt(p)
        PROVE  \/ Open(Block(FirstSched, p))'
               \/ \E i \in 1 .. j - 1 : preGen'.data[i] = Need(Block(FirstSched, p))
    <3>1. j \in 1 .. Len(preGen.data) - 1 /\ j + 1 \in 1 .. Len(preGen.data) /\ (j + 1) - 1 = j
      BY <1>0, <2>1
    <3>2. preGen.data[j + 1] = Prompt(p)
      BY <2>1, <2>7, <3>1
    <3>3. \/ Open(Block(FirstSched, p))
          \/ \E i \in 1 .. j : preGen.data[i] = Need(Block(FirstSched, p))
      BY <3>1, <3>2 DEF Gated
    <3>4. ASSUME NEW i \in 1 .. j, preGen.data[i] = Need(Block(FirstSched, p))
          PROVE  \/ Open(Block(FirstSched, p))'
                 \/ \E k \in 1 .. j - 1 : preGen'.data[k] = Need(Block(FirstSched, p))
      <4>1. i \in 1 .. Len(preGen.data) /\ (i - 1 \in 1 .. Len(preGen'.data) => i - 1 \in 1 .. j - 1)
        BY <1>0, <3>1
      <4>2. gen'.item = Need(Block(FirstSched, p)) => Open(Block(FirstSched, p))'
        BY <1>0 DEF Open
      <4> QED BY <1>0, <2>5, <3>4, <4>1, <4>2
    <3> QED BY <1>c, <3>3, <3>4
  <2> QED BY <1>0, <2>2, <2>4, <2>6, <2>7 DEF Gated
<1>8. CASE GenPend \/ GenNeed \/ GenSubmit \/ GenBarrier
  <2>1. preGen'.data = preGen.data
    BY <1>0, <1>8 DEF GenPend, GenNeed, GenSubmit, GenBarrier, Pend, Ack
  <2>2. gen'.item \in {gen.item, NoItem}
    BY <1>8 DEF GenPend, GenNeed, GenSubmit, GenBarrier, TypeOK, GenType
  <2>3. ctl' = ctl /\ sched' = sched
    BY <1>8 DEF GenPend, GenNeed, GenSubmit, GenBarrier, ctlVars
  <2> QED BY <1>5, <2>1, <2>2, <2>3
<1>9. CASE Callback
  <2>1. PICK x \in running : Deliver(x) \/ CbRaise(x)
    BY <1>9 DEF Callback, CbDone, CbIgnoreError
  <2>2. preGen'.data = preGen.data
    BY <1>0, <2>1 DEF Deliver, CbRaise, Ack
  <2>3. gen'.item = gen.item
    BY <2>1 DEF Deliver, CbRaise, TypeOK, GenType
  <2>4. ctl' = ctl /\ sched' = sched
    BY <2>1 DEF Deliver, CbRaise, ctlVars
  <2> QED BY <1>5, <2>2, <2>3, <2>4
<1>10. CASE Trainer \/ UNCHANGED vars
  <2>1. preGen' = preGen /\ gen' = gen /\ ctl' = ctl /\ sched' = sched
    BY <1>10 DEF Trainer, Collecting, TrainRequest, TrainDeploy, TrainSynced, TrainCollect,
                 TrainStep, TrainSave, TrainNoSave, vars, ctlVars
  <2> QED BY <1>5, <2>1
<1> QED BY <1>2, <1>3, <1>4, <1>6, <1>7, <1>8, <1>9, <1>10 DEF Next, Control, Generation, Finished

\* A rollout keeps the versions it was generated by.
LEMMA StepSeen == TypeOK /\ Versions /\ Gated /\ Seen /\ [Next]_vars => Seen'
<1> SUFFICES ASSUME TypeOK, Versions, Gated, Seen, [Next]_vars
             PROVE  Seen'
  OBVIOUS
<1>0. /\ FirstSched' = FirstSched /\ FirstSched \in Int
      /\ train \in Int /\ served \in Int /\ infer \in Int
      /\ preTrain \in [data : Seq(TrainItem), pending : Seq(TrainItem)]
      /\ Len(preTrain.data) \in Nat
      /\ trainer.batch \in Seq(RolloutItem) /\ Len(trainer.batch) \in Nat
      /\ \A p \in Nat \ {0} : Max0(Block(FirstSched, p)) \in Int
  BY StrategyFixed, FirstSchedType, LenProperties, BlockTypes, Max0Type
     DEF TypeOK, TrainQueue, TrainerType
<1>a. train' \in Int /\ train <= train'
  <2>1. TrainRequest => train' \in Int /\ train <= train'
    BY <1>0 DEF TrainRequest
  <2>2. ~TrainRequest => train' = train
    BY DEF Next, Control, CtlOpen, CtlPop, CtlPut, CtlExhausted, CtlClose, CtlAdvance,
           Generation, GenPop, GenPend, GenNeed, GenSubmit, GenBarrier,
           Callback, CbDone, CbIgnoreError, CbRaise, Deliver, Finished, Trainer, Collecting,
           TrainDeploy, TrainSynced, TrainCollect, TrainStep, TrainSave, TrainNoSave,
           vars, verVars
  <2> QED BY <1>0, <2>1, <2>2
<1>b. ASSUME NEW x, x.seen \in SUBSET Int, SeenOf(FirstSched, train, x)
      PROVE  SeenOf(FirstSched', train', x)
  <2>1. \A v \in Int : v <= train => v <= train'
    <3>1. \A a, b, c \in Int : a <= b /\ b <= c => a <= c
      OBVIOUS
    <3> QED BY <1>0, <1>a, <3>1
  <2> QED BY <1>0, <1>b, <2>1 DEF SeenOf
<1>c. \A x \in running : x.seen \in SUBSET Int /\ x.p \in Nat \ {0}
  BY DEF TypeOK, Generated
<1>d. /\ \A i \in 1 .. Len(preTrain.data) : preTrain.data[i] \in TrainItem
      /\ \A i \in 1 .. Len(trainer.batch) : trainer.batch[i] \in RolloutItem
  BY <1>0, ElementOfSeq
<1>e. \A x \in TrainItem : x.t = "rollout" <=> x \in RolloutItem
  BY ItemTypes DEF TrainItem
<1>f. \A x \in RolloutItem : SeenOf(FirstSched, train, x) => SeenOf(FirstSched', train', x)
  BY <1>b, ItemTypes
<1>1. \A x \in running' : SeenOf(FirstSched', train', x)
  <2>1. CASE running' \subseteq running
    BY <1>b, <1>c, <2>1 DEF Seen
  <2>2. CASE GenSubmit
    <3>1. gen.item \in PromptItem /\ gen.item.p \in Nat \ {0} /\ gen.item = Prompt(gen.item.p)
      BY <2>2, ItemTypes DEF TypeOK, GenSubmit, GenItem, GenType
    <3>2. infer >= Max0(Block(FirstSched, gen.item.p))
      BY <3>1 DEF Gated
    <3>3. Max0(Block(FirstSched, gen.item.p)) <= served /\ served <= train
      <4>1. \A a, b, c \in Int : b >= a /\ b <= c => a <= c
        OBVIOUS
      <4> QED BY <1>0, <3>1, <3>2, <4>1 DEF Versions
    <3> DEFINE y == [p |-> gen.item.p, seen |-> {served}]
    <3>4. y.p = gen.item.p /\ y.seen = {served}
      OBVIOUS
    <3>5. train' = train /\ running' = running \cup {y}
      BY <2>2 DEF GenSubmit, verVars
    <3> HIDE DEF y
    <3>6. SeenOf(FirstSched', train', y)
      BY <1>0, <3>3, <3>4, <3>5 DEF SeenOf
    <3> QED BY <1>b, <1>c, <3>5, <3>6 DEF Seen
  <2>3. CASE TrainDeploy
    <3>1. ASSUME NEW x \in running
          PROVE  SeenOf(FirstSched', train', [x EXCEPT !.seen = @ \cup {train}])
      <4> DEFINE y == [x EXCEPT !.seen = @ \cup {train}]
      <4>1. y.p = x.p /\ y.seen = x.seen \cup {train}
        BY DEF TypeOK, Generated
      <4>2. SeenOf(FirstSched, train, x) /\ x.seen \in SUBSET Int /\ Max0(Block(FirstSched, x.p)) \in Int
        BY <1>0, <1>c DEF Seen
      <4>3. Max0(Block(FirstSched, x.p)) <= train
        <5>1. PICK v \in x.seen : Max0(Block(FirstSched, x.p)) <= v /\ v <= train
          BY <4>2 DEF SeenOf
        <5>2. v \in Int
          BY <4>2
        <5>3. \A a, b, c \in Int : a <= b /\ b <= c => a <= c
          OBVIOUS
        <5> QED BY <1>0, <4>2, <5>1, <5>2, <5>3
      <4>4. train' = train
        BY <2>3 DEF TrainDeploy
      <4> HIDE DEF y
      <4>5. SeenOf(FirstSched', train', y)
        <5>1. y.seen # {} /\ \A v \in y.seen : Max0(Block(FirstSched, y.p)) <= v /\ v <= train
          <6>1. ASSUME NEW v \in y.seen
                PROVE  Max0(Block(FirstSched, y.p)) <= v /\ v <= train
            <7>1. CASE v = train
              BY <1>0, <4>1, <4>3, <7>1
            <7>2. CASE v \in x.seen
              BY <4>1, <4>2, <7>2 DEF SeenOf
            <7> QED BY <4>1, <7>1, <7>2
          <6> QED BY <4>1, <6>1
        <5> QED BY <1>0, <4>4, <5>1 DEF SeenOf
      <4> QED BY <4>5 DEF y
    <3> QED BY <2>3, <3>1 DEF TrainDeploy
  <2>4. ASSUME NEW x \in running, Deliver(x) \/ CbRaise(x)
        PROVE  running' \subseteq running
    BY <2>4 DEF Deliver, CbRaise
  <2>5. Control \/ GenPop \/ GenPend \/ GenNeed \/ GenBarrier \/ UNCHANGED vars => running' = running
    BY DEF Control, CtlOpen, CtlPop, CtlPut, CtlExhausted, CtlClose, CtlAdvance,
           GenPop, GenPend, GenNeed, GenBarrier, vars
  <2>6. TrainRequest \/ TrainSynced \/ TrainCollect \/ TrainStep \/ TrainSave \/ TrainNoSave
          => running' = running
    BY DEF TrainRequest, TrainSynced, TrainCollect, TrainStep, TrainSave, TrainNoSave
  <2> QED BY <2>1, <2>2, <2>3, <2>4, <2>5, <2>6
          DEF Next, Generation, Callback, CbDone, CbIgnoreError, Trainer, Collecting, Finished
<1>2. ASSUME NEW x \in TrainItem, preTrain' = Put(preTrain, x), x.t = "rollout" => SeenOf(FirstSched', train', x)
      PROVE  \A i \in 1 .. Len(preTrain'.data) :
               preTrain'.data[i].t = "rollout" => SeenOf(FirstSched', train', preTrain'.data[i])
  <2>1. /\ Len(preTrain'.data) = Len(preTrain.data) + 1
        /\ \A i \in 1 .. Len(preTrain.data) : preTrain'.data[i] = preTrain.data[i]
        /\ preTrain'.data[Len(preTrain.data) + 1] = x
    <3>1. preTrain' = Put(preTrain, x)
      BY <1>2
    <3>2. preTrain \in [data : Seq(TrainItem), pending : Seq(TrainItem)]
      BY <1>0
    <3> QED BY <3>1, <3>2, PutShape
  <2>2. \A i \in 1 .. Len(preTrain'.data) : i \in 1 .. Len(preTrain.data) \/ i = Len(preTrain.data) + 1
    <3>1. PICK n \in Nat : n = Len(preTrain.data)
      BY <1>0
    <3>2. Len(preTrain'.data) = n + 1
      BY <2>1, <3>1
    <3>3. \A i \in 1 .. n + 1 : i \in 1 .. n \/ i = n + 1
      OBVIOUS
    <3> QED BY <3>1, <3>2, <3>3
  <2> QED BY <1>2, <1>d, <1>e, <1>f, <2>1, <2>2 DEF Seen
<1>3. \A i \in 1 .. Len(preTrain'.data) :
        preTrain'.data[i].t = "rollout" => SeenOf(FirstSched', train', preTrain'.data[i])
  <2>1. CASE preTrain'.data = preTrain.data
    BY <1>d, <1>e, <1>f, <2>1 DEF Seen
  <2>2. CASE GenBarrier
    <3>1. gen.item \in BarrierItem
      BY <2>2, ItemTypes DEF TypeOK, GenBarrier, GenItem, GenType
    <3>2. preTrain' = Put(preTrain, gen.item) /\ gen.item \in TrainItem /\ gen.item.t # "rollout"
      BY <2>2, <3>1, ItemTypes DEF GenBarrier, TrainItem
    <3> QED BY <1>2, <3>2
  <2>3. ASSUME NEW x \in running, Deliver(x)
        PROVE  \A i \in 1 .. Len(preTrain'.data) :
                 preTrain'.data[i].t = "rollout" => SeenOf(FirstSched', train', preTrain'.data[i])
    <3> DEFINE r == Rollout(x.p, x.seen)
    <3>1. r \in TrainItem /\ r.p = x.p /\ r.seen = x.seen /\ r.seen \in SUBSET Int
      BY <1>c, ItemTypes DEF Rollout, TrainItem
    <3>2. preTrain' = Put(preTrain, r)
      BY <2>3 DEF Deliver
    <3> HIDE DEF r
    <3>3. SeenOf(FirstSched, train, r)
      BY <3>1 DEF Seen, SeenOf
    <3> QED BY <1>2, <1>b, <3>1, <3>2, <3>3
  <2>4. CASE TrainCollect
    <3>1. /\ Len(preTrain'.data) = Len(preTrain.data) - 1
          /\ \A i \in 1 .. Len(preTrain.data) - 1 : preTrain'.data[i] = preTrain.data[i + 1]
      BY <1>0, <2>4, PopShape DEF TrainCollect, Get, Pend, Pop
    <3>2. \A i \in 1 .. Len(preTrain'.data) :
            i \in 1 .. Len(preTrain.data) - 1 /\ i + 1 \in 1 .. Len(preTrain.data)
      BY <1>0, <3>1
    <3> QED BY <1>d, <1>e, <1>f, <3>1, <3>2 DEF Seen
  <2>5. ASSUME NEW x \in running, CbRaise(x)
        PROVE  preTrain'.data = preTrain.data
    BY <2>5 DEF CbRaise
  <2>6. Control \/ UNCHANGED vars => preTrain'.data = preTrain.data
    BY DEF Control, CtlOpen, CtlPop, CtlPut, CtlExhausted, CtlClose, CtlAdvance, vars
  <2>7. GenPop \/ GenPend \/ GenNeed \/ GenSubmit => preTrain'.data = preTrain.data
    BY DEF GenPop, GenPend, GenNeed, GenSubmit
  <2>8. TrainRequest \/ TrainDeploy \/ TrainSynced \/ TrainStep \/ TrainNoSave
          => preTrain'.data = preTrain.data
    BY DEF TrainRequest, TrainDeploy, TrainSynced, TrainStep, TrainNoSave
  <2>9. TrainSave => preTrain'.data = preTrain.data
    BY <1>0 DEF TrainSave, WeightDumped
  <2> QED BY <2>1, <2>2, <2>3, <2>4, <2>5, <2>6, <2>7, <2>8, <2>9
          DEF Next, Generation, Callback, CbDone, CbIgnoreError, Trainer, Collecting, Finished
<1>4. \A i \in 1 .. Len(trainer'.batch) : SeenOf(FirstSched', train', trainer'.batch[i])
  <2>1. CASE trainer'.batch = trainer.batch
    BY <1>d, <1>f, <2>1 DEF Seen
  <2>2. CASE TrainStep
    <3>1. trainer'.batch = <<>>
      BY <2>2 DEF TrainStep
    <3>2. \A i \in 1 .. Len(trainer'.batch) : FALSE
      BY <3>1
    <3> QED BY <3>2
  <2>3. CASE TrainCollect
    <3>1. CASE Peek(preTrain).t = "train"
      <4>1. trainer'.batch = trainer.batch
        BY <2>3, <3>1 DEF TrainCollect, TypeOK, TrainerType
      <4> QED BY <2>1, <4>1
    <3>2. CASE Peek(preTrain).t # "train"
      <4>1. Peek(preTrain) = preTrain.data[1] /\ Peek(preTrain) \in TrainItem /\ Len(preTrain.data) > 0
        BY <1>0, <2>3, PopShape DEF TrainCollect
      <4>2. Peek(preTrain) \in RolloutItem /\ 1 \in 1 .. Len(preTrain.data)
        BY <1>0, <3>2, <4>1, ItemTypes DEF TrainItem
      <4>3. SeenOf(FirstSched', train', Peek(preTrain))
        BY <1>e, <1>f, <4>1, <4>2 DEF Seen
      <4>4. trainer'.batch = Append(trainer.batch, Peek(preTrain))
        BY <2>3, <3>2 DEF TrainCollect, TypeOK, TrainerType
      <4>5. /\ Len(trainer'.batch) = Len(trainer.batch) + 1
            /\ \A i \in 1 .. Len(trainer.batch) : trainer'.batch[i] = trainer.batch[i]
            /\ trainer'.batch[Len(trainer.batch) + 1] = Peek(preTrain)
        BY <1>0, <4>2, <4>4, AppendProperties
      <4>6. \A i \in 1 .. Len(trainer'.batch) :
              i \in 1 .. Len(trainer.batch) \/ i = Len(trainer.batch) + 1
        BY <1>0, <4>5
      <4> QED BY <1>d, <1>f, <4>3, <4>5, <4>6 DEF Seen
    <3> QED BY <3>1, <3>2
  <2>4. TrainRequest \/ TrainDeploy \/ TrainSynced \/ TrainSave \/ TrainNoSave
          => trainer'.batch = trainer.batch
    BY DEF TrainRequest, TrainDeploy, TrainSynced, TrainSave, TrainNoSave, TypeOK, TrainerType
  <2>5. ~Trainer => trainer' = trainer
    BY DEF Next, Control, CtlOpen, CtlPop, CtlPut, CtlExhausted, CtlClose, CtlAdvance,
           Generation, GenPop, GenPend, GenNeed, GenSubmit, GenBarrier,
           Callback, CbDone, CbIgnoreError, CbRaise, Deliver, Finished, vars, trainVars
  <2> QED BY <2>1, <2>2, <2>3, <2>4, <2>5 DEF Trainer, Collecting
<1> QED BY <1>1, <1>3, <1>4 DEF Seen

\* A rollout joins the batch of its own block only.
LEMMA StepFreshRollouts ==
  TypeOK /\ Reached /\ Versions /\ Seen /\ FreshRollouts /\ [Next]_vars => FreshRollouts'
<1> SUFFICES ASSUME TypeOK, Reached, Versions, Seen, FreshRollouts, [Next]_vars
             PROVE  FreshRollouts'
  OBVIOUS
<1>0. /\ strategy' = strategy \/ TrainStep
      /\ train \in Int /\ log \in Seq(Seq(RolloutItem)) /\ Len(log) \in Nat
      /\ trainer.batch \in Seq(RolloutItem) /\ Len(trainer.batch) \in Nat
      /\ DOMAIN log = 1 .. Len(log) /\ DOMAIN trainer.batch = 1 .. Len(trainer.batch)
  BY LenProperties
     DEF TypeOK, TrainerType, Next, Control, CtlOpen, CtlPop, CtlPut, CtlExhausted, CtlClose,
         CtlAdvance, Generation, GenPop, GenPend, GenNeed, GenSubmit, GenBarrier,
         Callback, CbDone, CbIgnoreError, CbRaise, Deliver, Finished, Trainer, Collecting,
         TrainRequest, TrainDeploy, TrainSynced, TrainCollect, TrainSave, TrainNoSave, vars
<1>1. CASE TrainStep
  <2>1. /\ trainer.pc = "step" /\ log' = Append(log, trainer.batch) /\ strategy' = strategy
    BY <1>1 DEF TrainStep
  <2>2. Len(log) = train /\ train \in Nat
    BY <1>0, <2>1 DEF Versions
  <2>3. /\ DOMAIN log' = 1 .. Len(log) + 1
        /\ \A k \in 1 .. Len(log) : log'[k] = log[k]
        /\ log'[Len(log) + 1] = trainer.batch
    <3>1. log' \in Seq(Seq(RolloutItem)) /\ Len(log') = Len(log) + 1
      BY <1>0, <2>1, AppendProperties
    <3> QED BY <1>0, <2>1, <3>1, AppendProperties, LenProperties
  <2>4. ASSUME NEW i \in 1 .. Len(trainer.batch)
        PROVE  /\ trainer.batch[i].seen # {}
               /\ trainer.batch[i].seen \subseteq
                    (IF strategy = "on-policy" THEN {train} ELSE {Max0(train - 1), train})
    <3> DEFINE x == trainer.batch[i]
               b == Block(FirstSched, trainer.batch[i].p)
    <3>1. x \in RolloutItem /\ x.seen \in SUBSET Int /\ x.p \in Nat \ {0}
      BY <1>0, ElementOfSeq, ItemTypes
    <3>2. b \in Int /\ Max0(b) \in Nat /\ b <= Max0(b)
      <4>1. b \in Int
        BY <3>1, BlockTypes, FirstSchedType
      <4> HIDE DEF b
      <4> QED BY <4>1, Max0Type
    <3>3. x.seen # {} /\ \A v \in x.seen : Max0(b) <= v /\ v <= train
      BY DEF Seen, SeenOf
    <3>4. train + FirstSched <= b
      BY DEF Reached
    <3> HIDE DEF x, b
    <3>5. ASSUME NEW v \in x.seen
          PROVE  v \in (IF strategy = "on-policy" THEN {train} ELSE {Max0(train - 1), train})
      <4>1. v \in Int /\ Max0(b) <= v /\ v <= train
        BY <3>1, <3>3
      <4>2. CASE strategy = "on-policy"
        <5>1. FirstSched = 0
          BY <4>2 DEF FirstSched
        <5>2. v = train
          BY <2>2, <3>2, <3>4, <4>1, <5>1
        <5> QED BY <4>2, <5>2
      <4>3. CASE strategy # "on-policy"
        <5>1. FirstSched = -1
          BY <4>3 DEF FirstSched
        <5>2. v = train \/ v = train - 1
          BY <2>2, <3>2, <3>4, <4>1, <5>1
        <5>3. v = train - 1 => Max0(train - 1) = v
          <6>1. v >= 0
            BY <3>2, <4>1
          <6> QED BY <2>2, <4>1, <6>1 DEF Max0
        <5> QED BY <4>3, <5>2, <5>3
      <4> QED BY <4>2, <4>3
    <3>6. x.seen # {} /\ x.seen \subseteq (IF strategy = "on-policy" THEN {train} ELSE {Max0(train - 1), train})
      BY <3>3, <3>5
    <3> QED BY <3>6 DEF x
  <2>5. ASSUME NEW k \in DOMAIN log', NEW i \in DOMAIN log'[k]
        PROVE  /\ log'[k][i].seen # {}
               /\ log'[k][i].seen \subseteq
                    (IF strategy = "on-policy" THEN {k - 1} ELSE {Max0(k - 2), k - 1})
    <3>1. CASE k \in 1 .. Len(log)
      BY <1>0, <2>3, <3>1 DEF FreshRollouts
    <3>2. CASE k = Len(log) + 1
      <4>1. k - 1 = train /\ k - 2 = train - 1
        BY <1>0, <2>2, <3>2
      <4>2. log'[k] = trainer.batch /\ i \in 1 .. Len(trainer.batch)
        BY <1>0, <2>3, <3>2
      <4> QED BY <2>4, <4>1, <4>2
    <3>3. k \in 1 .. Len(log) \/ k = Len(log) + 1
      BY <1>0, <2>3
    <3> QED BY <3>1, <3>2, <3>3
  <2> QED BY <2>1, <2>5 DEF FreshRollouts
<1>2. CASE ~TrainStep
  <2>1. log' = log
    BY <1>2 DEF Next, Control, CtlOpen, CtlPop, CtlPut, CtlExhausted, CtlClose, CtlAdvance,
           Generation, GenPop, GenPend, GenNeed, GenSubmit, GenBarrier,
           Callback, CbDone, CbIgnoreError, CbRaise, Deliver, Finished, Trainer, Collecting,
           TrainRequest, TrainDeploy, TrainSynced, TrainCollect, TrainSave, TrainNoSave,
           vars, trainVars
  <2>2. strategy' = strategy
    BY <1>0, <1>2
  <2> QED BY <2>1, <2>2 DEF FreshRollouts
<1> QED BY <1>1, <1>2

\* On-policy, iteration k trains on rollouts of version k alone; one-step-off,
\* of the versions k - 1 and k.
THEOREM FreshRolloutsInvariant == Spec => []FreshRollouts
<1> DEFINE Pipeline == TypeOK /\ Filling /\ GenOrdered /\ TrainOrdered /\ Reached
           Fresh    == Versions /\ Gated /\ Seen /\ FreshRollouts
<1>1. Init => Pipeline /\ Fresh
  BY InitType, InitFilling, InitOrdered, InitFresh
<1>2. Pipeline /\ Fresh /\ [Next]_vars => Pipeline' /\ Fresh'
  BY StepType, StepFilling, StepGenOrdered, StepTrainOrdered, StepReached,
     StepVersions, StepGated, StepSeen, StepFreshRollouts
<1> QED BY <1>1, <1>2, PTL DEF Spec
-----------------------------------------------------------------------------
(* What a checkpoint of pre_gen replays.                                   *)

\* GatedStream, and what it takes to keep it, of a sequence of items.
GatesOf(f, s) ==
  \A i \in 1 .. Len(s) : s[i].t = "prompt" =>
    \E j \in 1 .. i - 1 :
      /\ s[j] = Need(Block(f, s[i].p))
      /\ \A m \in j + 1 .. i - 1 : s[m].t = "prompt"

\* The prompts of s come in the source's order.
Increasing(s) ==
  \A i, j \in 1 .. Len(s) :
    i < j /\ s[i].t = "prompt" /\ s[j].t = "prompt" => s[i].p < s[j].p

\* None of them is n or comes after it.
Below(s, n) == \A i \in 1 .. Len(s) : s[i].t = "prompt" => s[i].p < n

\* The block of version b is the last one of s and has its gate.
OpenBlock(s, b) ==
  \E j \in 1 .. Len(s) : s[j] = Need(b) /\ \A m \in j + 1 .. Len(s) : s[m].t = "prompt"

\* What a checkpoint of the queue q would replay.
ReplayOf(q, g) == q.pending \o (IF g.pc = "pend" THEN <<g.item>> ELSE <<>>) \o q.data

\* Prompts are replayed in the source's order, each behind its gate.
ReplayGated ==
  LET r == ReplayOf(preGen, gen)
  IN  /\ GatesOf(FirstSched, r) /\ Increasing(r) /\ Below(r, source)
      /\ ctl.hand # NoItem => ctl.hand.p < source /\ Below(r, ctl.hand.p)
      /\ ctl.pc = "fill" => OpenBlock(r, sched)

\* An un-acked prompt is generating or about to, and the barrier the generation
\* worker waits at is the newest un-acked item.
Held ==
  /\ \A p \in Nat \ {0}, i \in 1 .. Len(preGen.pending) : preGen.pending[i] = Prompt(p) =>
       \/ \E x \in running : x.p = p
       \/ gen.pc = "prompt" /\ gen.item = Prompt(p)
  /\ gen.pc = "train" =>
       Len(preGen.pending) > 0 /\ preGen.pending[Len(preGen.pending)] = gen.item
  /\ gen.needAck \in NeedItem \cup {NoItem}

\* The three parts of a replay r: P un-acked items, M in the hand of the worker
\* between get()'s two effects, D waiting.
Shape(q, g, r, P, D, M) ==
  /\ P = Len(q.pending) /\ D = Len(q.data)
  /\ (g.pc = "pend" /\ M = 1) \/ (g.pc # "pend" /\ M = 0)
  /\ r \in Seq(GenItem) /\ Len(r) = P + M + D
  /\ \A i \in 1 .. P : r[i] = q.pending[i]
  /\ g.pc = "pend" => r[P + 1] = g.item
  /\ \A i \in P + M + 1 .. P + M + D : r[i] = q.data[i - (P + M)]

\* What a checkpoint of a queue replays: the pending items, then the waiting.
LEMMA ReplayShape ==
  ASSUME NEW q \in GenQueue, NEW g, GenType(g)
  PROVE  \E P, D, M \in Nat : Shape(q, g, ReplayOf(q, g), P, D, M)
<1>1. q.pending \in Seq(GenItem) /\ q.data \in Seq(GenItem)
  BY DEF GenQueue
<1>2. PICK P \in Nat : P = Len(q.pending)
  BY <1>1, LenProperties
<1>3. PICK D \in Nat : D = Len(q.data)
  BY <1>1, LenProperties
<1>4. PICK M \in Nat : (g.pc = "pend" /\ M = 1) \/ (g.pc # "pend" /\ M = 0)
  OBVIOUS
<1> DEFINE mid == IF g.pc = "pend" THEN <<g.item>> ELSE <<>>
<1>5. mid \in Seq(GenItem) /\ Len(mid) = M /\ (g.pc = "pend" => mid[1] = g.item)
  <2>1. CASE g.pc = "pend"
    <3>1. g.item \in GenItem
      BY <2>1 DEF GenType
    <3>2. <<g.item>> \in Seq(GenItem) /\ Len(<<g.item>>) = 1 /\ <<g.item>>[1] = g.item
      BY <3>1
    <3> QED BY <1>4, <2>1, <3>2
  <2>2. CASE g.pc # "pend"
    BY <1>4, <2>2, EmptySeq
  <2> QED BY <2>1, <2>2
<1>6. PICK a : a = q.pending \o mid
  OBVIOUS
<1>7. PICK R : R = a \o q.data
  OBVIOUS
<1>8. ReplayOf(q, g) = R
  BY <1>6, <1>7 DEF ReplayOf
<1> HIDE DEF mid
<1>9. /\ a \in Seq(GenItem) /\ Len(a) = Len(q.pending) + Len(mid)
      /\ \A i \in 1 .. Len(q.pending) + Len(mid) :
           a[i] = IF i <= Len(q.pending) THEN q.pending[i] ELSE mid[i - Len(q.pending)]
  BY <1>1, <1>5, <1>6, ConcatProperties
<1>10. /\ Len(a) = P + M
       /\ \A i \in 1 .. P + M : a[i] = IF i <= P THEN q.pending[i] ELSE mid[i - P]
  BY <1>2, <1>5, <1>9
<1>11. /\ R \in Seq(GenItem) /\ Len(R) = Len(a) + Len(q.data)
       /\ \A i \in 1 .. Len(a) + Len(q.data) :
            R[i] = IF i <= Len(a) THEN a[i] ELSE q.data[i - Len(a)]
  <2>1. a \in Seq(GenItem)
    BY <1>9
  <2> QED BY <1>1, <1>7, <2>1, ConcatProperties
<1>12. /\ Len(R) = P + M + D
       /\ \A i \in 1 .. P + M + D :
            R[i] = IF i <= P + M THEN a[i] ELSE q.data[i - (P + M)]
  BY <1>3, <1>10, <1>11
<1>13. ASSUME NEW i \in 1 .. P
       PROVE  R[i] = q.pending[i]
  <2>1. i \in 1 .. P + M /\ i <= P /\ i \in 1 .. P + M + D /\ i <= P + M
    OBVIOUS
  <2> QED BY <1>10, <1>12, <2>1
<1>14. ASSUME g.pc = "pend"
       PROVE  R[P + 1] = g.item
  <2>1. M = 1
    BY <1>4, <1>14
  <2>2. /\ P + 1 \in 1 .. P + M /\ ~(P + 1 <= P) /\ (P + 1) - P = 1
        /\ P + 1 \in 1 .. P + M + D /\ P + 1 <= P + M
    BY <2>1
  <2>3. R[P + 1] = mid[(P + 1) - P]
    BY <1>10, <1>12, <2>2
  <2> QED BY <1>5, <1>14, <2>2, <2>3
<1>15. ASSUME NEW i \in P + M + 1 .. P + M + D
       PROVE  R[i] = q.data[i - (P + M)]
  <2>1. i \in 1 .. P + M + D /\ ~(i <= P + M)
    OBVIOUS
  <2>2. R[i] = IF i <= P + M THEN a[i] ELSE q.data[i - (P + M)]
    BY <1>12, <2>1
  <2> QED BY <2>1, <2>2
<1>16. Shape(q, g, R, P, D, M)
  BY <1>2, <1>3, <1>4, <1>11, <1>12, <1>13, <1>14, <1>15 DEF Shape
<1> QED BY <1>8, <1>16

\* t is s with x behind it.
Behind(s, x, t) ==
  /\ s \in Seq(GenItem) /\ Len(s) \in Nat
  /\ Len(t) = Len(s) + 1 /\ t[Len(s) + 1] = x
  /\ \A i \in 1 .. Len(s) : t[i] = s[i]

\* To be behind an item in the replay is to be behind it in one of the parts.
LEMMA BehindReplay ==
  ASSUME NEW f, NEW s, NEW x \in GenItem, NEW t, NEW n \in Int, Behind(s, x, t),
         GatesOf(f, s), Increasing(s), Below(s, n)
  PROVE  /\ x.t # "prompt" => GatesOf(f, t) /\ Increasing(t) /\ Below(t, n)
         /\ \A b \in Int : x = Need(b) => OpenBlock(t, b)
         /\ x.t = "prompt" /\ x.p \in Int /\ Below(s, x.p) /\ x.p < n => Increasing(t) /\ Below(t, n)
         /\ \A b \in Int : x.t = "prompt" /\ Block(f, x.p) = b /\ OpenBlock(s, b)
                            => GatesOf(f, t) /\ OpenBlock(t, b)
<1> USE DEF Behind
<1>1. /\ Len(s) + 1 \in 1 .. Len(t)
      /\ \A i \in 1 .. Len(s) : i \in 1 .. Len(t)
      /\ \A i \in 1 .. Len(t) : i \in 1 .. Len(s) \/ i = Len(s) + 1
      /\ \A i \in 1 .. Len(s) : \A m \in 1 .. i - 1 : m \in 1 .. Len(s)
  OBVIOUS
<1>2. ASSUME NEW i \in 1 .. Len(s), t[i].t = "prompt"
      PROVE  \E j \in 1 .. i - 1 :
               t[j] = Need(Block(f, t[i].p)) /\ \A m \in j + 1 .. i - 1 : t[m].t = "prompt"
  <2>1. PICK j \in 1 .. i - 1 :
               s[j] = Need(Block(f, s[i].p)) /\ \A m \in j + 1 .. i - 1 : s[m].t = "prompt"
    BY <1>2 DEF GatesOf
  <2>2. \A m \in j + 1 .. i - 1 : m \in 1 .. Len(s)
    OBVIOUS
  <2> QED BY <1>1, <2>1, <2>2
<1>3. x.t # "prompt" => GatesOf(f, t) /\ Increasing(t) /\ Below(t, n)
  BY <1>1, <1>2 DEF GatesOf, Increasing, Below
<1>4. ASSUME NEW b \in Int, x = Need(b)
      PROVE  OpenBlock(t, b)
  <2>1. \A m \in (Len(s) + 1) + 1 .. Len(t) : FALSE
    OBVIOUS
  <2> QED BY <1>1, <1>4, <2>1 DEF OpenBlock
<1>5. ASSUME x.t = "prompt", x.p \in Int, Below(s, x.p), x.p < n
      PROVE  Increasing(t) /\ Below(t, n)
  <2>1. Below(t, n)
    BY <1>1, <1>5 DEF Below
  <2>2. ASSUME NEW i \in 1 .. Len(t), NEW j \in 1 .. Len(t), i < j,
               t[i].t = "prompt", t[j].t = "prompt"
        PROVE  t[i].p < t[j].p
    <3>1. i \in 1 .. Len(s)
      BY <2>2
    <3> QED BY <1>1, <1>5, <2>2, <3>1 DEF Increasing, Below
  <2> QED BY <2>1, <2>2 DEF Increasing
<1>6. ASSUME NEW b \in Int, x.t = "prompt", Block(f, x.p) = b, OpenBlock(s, b)
      PROVE  GatesOf(f, t) /\ OpenBlock(t, b)
  <2>1. PICK j \in 1 .. Len(s) : s[j] = Need(b) /\ \A m \in j + 1 .. Len(s) : s[m].t = "prompt"
    BY <1>6 DEF OpenBlock
  <2>2. t[j] = Need(b) /\ \A m \in j + 1 .. Len(s) : t[m].t = "prompt"
    BY <2>1
  <2>3. OpenBlock(t, b)
    <3>1. \A m \in j + 1 .. Len(t) : m \in j + 1 .. Len(s) \/ m = Len(s) + 1
      OBVIOUS
    <3> QED BY <1>1, <1>6, <2>2, <3>1 DEF OpenBlock
  <2>4. ASSUME NEW i \in 1 .. Len(t), t[i].t = "prompt"
        PROVE  \E k \in 1 .. i - 1 :
                 t[k] = Need(Block(f, t[i].p)) /\ \A m \in k + 1 .. i - 1 : t[m].t = "prompt"
    <3>1. CASE i \in 1 .. Len(s)
      BY <1>2, <2>4, <3>1
    <3>2. CASE i = Len(s) + 1
      <4>1. i - 1 = Len(s)
        BY <3>2
      <4> QED BY <1>6, <2>2, <3>2, <4>1
    <3> QED BY <1>1, <3>1, <3>2
  <2> QED BY <2>3, <2>4 DEF GatesOf
<1> QED BY <1>3, <1>4, <1>5, <1>6
\* A put shows behind everything else.
LEMMA PutReplay ==
  ASSUME NEW q \in GenQueue, NEW g, GenType(g), NEW x \in GenItem
  PROVE  Behind(ReplayOf(q, g), x, ReplayOf(Put(q, x), g))
<1>1. q \in [data : Seq(GenItem), pending : Seq(GenItem)] /\ Put(q, x) \in GenQueue
  BY QueueTypes DEF GenQueue
<1>2. PICK v : v = Put(q, x)
  OBVIOUS
<1>3. PICK r : r = ReplayOf(q, g)
  OBVIOUS
<1>4. PICK t : t = ReplayOf(v, g)
  OBVIOUS
<1>50. PICK P, D, M \in Nat : Shape(q, g, r, P, D, M)
  BY <1>3, ReplayShape
<1>51. P = Len(q.pending) /\ D = Len(q.data) /\ r \in Seq(GenItem) /\ Len(r) = P + M + D
  BY <1>50 DEF Shape
<1>5. /\ \A i \in 1 .. P : r[i] = q.pending[i]
      /\ g.pc = "pend" => r[P + 1] = g.item
      /\ \A i \in P + M + 1 .. P + M + D : r[i] = q.data[i - (P + M)]
  BY <1>50 DEF Shape
<1>8. /\ v \in GenQueue /\ v.pending = q.pending /\ Len(v.data) = D + 1 /\ v.data[D + 1] = x
      /\ \A i \in 1 .. D : v.data[i] = q.data[i]
  BY <1>1, <1>2, <1>51, PutShape
<1>9. PICK P2, D2, M2 \in Nat : Shape(v, g, t, P2, D2, M2)
  BY <1>4, <1>8, ReplayShape
<1>90. P2 = P /\ D2 = D + 1 /\ M2 = M
  BY <1>8, <1>9, <1>50 DEF Shape
<1>10. /\ Len(t) = P + M + (D + 1)
       /\ \A i \in 1 .. P : t[i] = q.pending[i]
       /\ g.pc = "pend" => t[P + 1] = g.item
       /\ \A i \in P + M + 1 .. P + M + (D + 1) : t[i] = v.data[i - (P + M)]
  BY <1>8, <1>9, <1>90 DEF Shape
<1>100. Len(t) = P + M + (D + 1) /\ Len(r) = P + M + D
  BY <1>10, <1>51
<1>11. M = 0 \/ (M = 1 /\ g.pc = "pend")
  BY <1>50 DEF Shape
<1>12. Len(r) \in Nat /\ Len(t) = Len(r) + 1 /\ Len(r) = P + M + D
  BY <1>100
<1>13. ASSUME NEW i \in 1 .. P + M + D
       PROVE  t[i] = r[i]
  <2>1. CASE i \in 1 .. P
    BY <1>5, <1>10, <2>1
  <2>2. CASE i = P + 1 /\ M = 1
    BY <1>5, <1>10, <1>11, <2>2
  <2>3. CASE i \in P + M + 1 .. P + M + D
    <3>1. i - (P + M) \in 1 .. D /\ i \in P + M + 1 .. P + M + (D + 1)
      BY <2>3
    <3> QED BY <1>8, <1>5, <1>10, <2>3, <3>1
  <2> QED BY <1>11, <2>1, <2>2, <2>3
<1>14. t[P + M + D + 1] = x
  <2>1. P + M + D + 1 \in P + M + 1 .. P + M + (D + 1) /\ (P + M + D + 1) - (P + M) = D + 1
    OBVIOUS
  <2> QED BY <1>8, <1>10, <2>1
<1> QED BY <1>2, <1>3, <1>4, <1>51, <1>12, <1>13, <1>14 DEF Behind

\* t is s closed up over its item k.
Closed(s, k, t) ==
  /\ k \in 1 .. Len(s) /\ Len(t) = Len(s) - 1
  /\ \A i \in 1 .. Len(s) - 1 : t[i] = (IF i < k THEN s[i] ELSE s[i + 1])

\* Item k gates no prompt: it is a prompt, or not behind a barrier that no
\* prompt precedes.
Ungating(s, k) ==
  \/ s[k].t = "prompt"
  \/ \E e \in k .. Len(s) : s[e].t = "train" /\ \A m \in 1 .. e : s[m].t # "prompt"

\* An item that goes takes its gate with it only if it is the gate.
LEMMA RemoveReplay ==
  ASSUME NEW f, NEW s \in Seq(GenItem), NEW t, NEW k, Closed(s, k, t), Ungating(s, k),
         GatesOf(f, s), Increasing(s)
  PROVE  /\ GatesOf(f, t) /\ Increasing(t)
         /\ \A n \in Int : Below(s, n) => Below(t, n)
         /\ \A b \in Int : OpenBlock(s, b) => OpenBlock(t, b)
<1> USE DEF Closed, Ungating
<1>1. PICK n : n = Len(s)
  OBVIOUS
<1>2. n \in Nat /\ k \in Int /\ 1 <= k /\ k <= n /\ Len(t) = n - 1
  BY <1>1, LenProperties
\* Where the items of t were.
<1>3. PICK at : at = [i \in 1 .. n - 1 |-> IF i < k THEN i ELSE i + 1]
  OBVIOUS
<1>4. \A i \in 1 .. n - 1 : at[i] \in 1 .. n /\ at[i] # k /\ t[i] = s[at[i]]
  BY <1>1, <1>2, <1>3
<1>5. \A i, j \in 1 .. n - 1 : i < j <=> at[i] < at[j]
  BY <1>2, <1>3
<1>6. \A i \in 1 .. n : i # k => \E j \in 1 .. n - 1 : at[j] = i
  <2>1. ASSUME NEW i \in 1 .. n, i # k
        PROVE  \E j \in 1 .. n - 1 : at[j] = i
    <3>1. CASE i < k
      <4>1. i \in 1 .. n - 1 /\ at[i] = i
        BY <1>2, <1>3, <3>1
      <4> QED BY <4>1
    <3>2. CASE i > k
      <4>1. i - 1 \in 1 .. n - 1 /\ ~(i - 1 < k) /\ (i - 1) + 1 = i
        BY <1>2, <3>2
      <4>2. at[i - 1] = i
        BY <1>3, <4>1
      <4> QED BY <4>1, <4>2
    <3> QED BY <1>2, <2>1, <3>1, <3>2
  <2> QED BY <2>1
\* What is followed by prompts only was not removed.
<1>7. ASSUME NEW b, NEW j \in 1 .. n, s[j] = Need(b), NEW i \in j .. n,
             s[i].t = "prompt" \/ i = n,
             \A m \in j + 1 .. i : s[m].t = "prompt"
      PROVE  j # k
  <2>0. s[j].t = "need"
    BY <1>7 DEF Need
  <2>1. CASE s[k].t = "prompt"
    BY <2>0, <2>1
  <2>2. CASE \E e \in k .. Len(s) : s[e].t = "train" /\ \A m \in 1 .. e : s[m].t # "prompt"
    <3>1. PICK e \in k .. n : s[e].t = "train" /\ \A m \in 1 .. e : s[m].t # "prompt"
      BY <1>1, <2>2
    <3>2. e # j
      BY <2>0, <3>1
    <3>3. CASE e < j
      BY <1>2, <3>1, <3>3
    <3>4. CASE e > j /\ e <= i
      <4>1. e \in j + 1 .. i
        BY <1>2, <3>4
      <4> QED BY <1>7, <3>1, <4>1
    <3>5. CASE e > i
      <4>1. i \in 1 .. e /\ i # n
        BY <1>2, <3>1, <3>5
      <4> QED BY <1>7, <3>1, <4>1
    <3> QED BY <1>2, <3>1, <3>2, <3>3, <3>4, <3>5
  <2> QED BY <2>1, <2>2
<1>8. GatesOf(f, t)
  <2>1. ASSUME NEW i \in 1 .. Len(t), t[i].t = "prompt"
        PROVE  \E j \in 1 .. i - 1 :
                 t[j] = Need(Block(f, t[i].p)) /\ \A m \in j + 1 .. i - 1 : t[m].t = "prompt"
    <3>1. i \in 1 .. n - 1 /\ at[i] \in 1 .. n /\ t[i] = s[at[i]]
      BY <1>2, <1>4
    <3>2. PICK c : c = at[i]
      OBVIOUS
    <3>3. PICK j \in 1 .. c - 1 :
            s[j] = Need(Block(f, t[i].p)) /\ \A m \in j + 1 .. c - 1 : s[m].t = "prompt"
      BY <1>1, <2>1, <3>1, <3>2 DEF GatesOf
    <3>30. c \in Int /\ c <= n /\ j \in Int /\ 1 <= j /\ j < c
      BY <1>2, <3>1, <3>2, <3>3
    <3>4. /\ j \in 1 .. n /\ c \in j .. n
          /\ \A m \in j + 1 .. c : m \in j + 1 .. c - 1 \/ m = c
      BY <1>2, <3>30
    <3>5. s[c].t = "prompt" /\ \A m \in j + 1 .. c : s[m].t = "prompt"
      BY <2>1, <3>1, <3>2, <3>3, <3>4
    <3>6. j # k
      BY <1>7, <3>3, <3>4, <3>5
    <3>7. PICK h \in 1 .. n - 1 : at[h] = j
      BY <1>6, <3>4, <3>6
    <3>8. h < i /\ h \in 1 .. i - 1 /\ t[h] = Need(Block(f, t[i].p))
      <4>1. at[h] < at[i]
        BY <3>2, <3>30, <3>7
      <4>2. h < i
        BY <1>5, <3>1, <4>1
      <4> QED BY <1>4, <3>1, <3>3, <3>7, <4>2
    <3>9. ASSUME NEW m \in h + 1 .. i - 1
          PROVE  t[m].t = "prompt"
      <4>1. m \in 1 .. n - 1 /\ h < m /\ m < i
        BY <1>2, <3>1
      <4>2. at[h] < at[m] /\ at[m] < at[i]
        BY <1>5, <3>1, <4>1
      <4>3. at[m] \in 1 .. n
        BY <1>4, <4>1
      <4>4. at[m] \in j + 1 .. c - 1
        BY <3>1, <3>2, <3>3, <3>7, <4>2, <4>3
      <4> QED BY <1>4, <3>3, <4>1, <4>4
    <3> QED BY <3>8, <3>9
  <2> QED BY <2>1 DEF GatesOf
<1>9. Increasing(t)
  <2>1. ASSUME NEW i \in 1 .. Len(t), NEW j \in 1 .. Len(t), i < j,
               t[i].t = "prompt", t[j].t = "prompt"
        PROVE  t[i].p < t[j].p
    <3>1. /\ at[i] \in 1 .. Len(s) /\ at[j] \in 1 .. Len(s) /\ at[i] < at[j]
          /\ t[i] = s[at[i]] /\ t[j] = s[at[j]]
      BY <1>1, <1>2, <1>4, <1>5, <2>1
    <3> QED BY <2>1, <3>1 DEF Increasing
  <2> QED BY <2>1 DEF Increasing
<1>10. ASSUME NEW l \in Int, Below(s, l)
       PROVE  Below(t, l)
  <2>1. \A i \in 1 .. n - 1 : t[i].t = "prompt" => t[i].p < l
    BY <1>1, <1>4, <1>10 DEF Below
  <2> QED BY <1>2, <2>1 DEF Below
<1>11. ASSUME NEW b \in Int, OpenBlock(s, b)
       PROVE  OpenBlock(t, b)
  <2>1. PICK j \in 1 .. n : s[j] = Need(b) /\ \A m \in j + 1 .. n : s[m].t = "prompt"
    BY <1>1, <1>11 DEF OpenBlock
  <2>2. j # k
    <3>1. n \in j .. n
      BY <1>2
    <3> QED BY <1>7, <2>1, <3>1
  <2>3. PICK h \in 1 .. n - 1 : at[h] = j
    BY <1>6, <2>2
  <2>4. ASSUME NEW m \in h + 1 .. n - 1
        PROVE  t[m].t = "prompt"
    <3>1. m \in 1 .. n - 1 /\ h < m
      BY <1>2
    <3>2. at[h] < at[m] /\ at[m] \in 1 .. n
      BY <1>4, <1>5, <3>1
    <3>3. at[m] \in j + 1 .. n
      BY <2>3, <3>2
    <3> QED BY <1>4, <2>1, <3>1, <3>3
  <2> QED BY <1>2, <1>4, <2>1, <2>3, <2>4 DEF OpenBlock
<1> QED BY <1>8, <1>9, <1>10, <1>11

\* Taking an item out closes the sequence up over its place.
LEMMA WithoutClosed ==
  ASSUME NEW s \in Seq(GenItem), NEW x, NEW w, w = Without(s, x)
  PROVE  \/ (\A i \in 1 .. Len(s) : s[i] # x) /\ w = s
         \/ \E k \in 1 .. Len(s) : s[k] = x /\ Closed(s, k, w)
<1>1. CASE (\A i \in 1 .. Len(s) : s[i] # x) /\ Without(s, x) = s
  BY <1>1
<1>2. CASE \E k \in 1 .. Len(s) :
             /\ s[k] = x
             /\ Len(Without(s, x)) = Len(s) - 1
             /\ \A i \in 1 .. Len(s) - 1 :
                  Without(s, x)[i] = (IF i < k THEN s[i] ELSE s[i + 1])
  BY <1>2 DEF Closed
<1> QED BY <1>1, <1>2, WithoutShape

\* Acking y takes it out of the replay, if it is there.
LEMMA AckReplay ==
  ASSUME NEW q \in GenQueue, NEW g, GenType(g), NEW y, NEW r, r = ReplayOf(q, g),
         NEW t, t = ReplayOf(Ack(q, y), g)
  PROVE  \/ /\ t = r /\ Ack(q, y).pending = q.pending
            /\ \A i \in 1 .. Len(q.pending) : q.pending[i] # y
         \/ \E k \in 1 .. Len(q.pending) :
              q.pending[k] = y /\ Closed(r, k, t) /\ Closed(q.pending, k, Ack(q, y).pending)
<1>1. PICK v : v = Ack(q, y)
  OBVIOUS
<1>2. q.pending \in Seq(GenItem) /\ v.pending = Without(q.pending, y) /\ v.data = q.data
  BY <1>1 DEF GenQueue, Ack
<1>3. v \in GenQueue
  BY <1>2, <1>1, WithoutType DEF GenQueue, Ack
<1>4. PICK w : w = Without(q.pending, y)
  OBVIOUS
<1>5. CASE (\A i \in 1 .. Len(q.pending) : q.pending[i] # y) /\ w = q.pending
  <2>1. t = r
    BY <1>1, <1>2, <1>4, <1>5 DEF ReplayOf
  <2> QED BY <1>1, <1>2, <1>4, <1>5, <2>1
<1>6. ASSUME NEW k \in 1 .. Len(q.pending), q.pending[k] = y, Closed(q.pending, k, w)
      PROVE  Closed(r, k, t)
  <2> USE DEF Closed
  <2>1. PICK P, D, M \in Nat : Shape(q, g, r, P, D, M)
    BY ReplayShape
  <2>2. PICK P2, D2, M2 \in Nat : Shape(v, g, t, P2, D2, M2)
    BY <1>1, <1>3, ReplayShape
  <2>3. P = Len(q.pending) /\ P2 = P - 1 /\ D2 = D /\ M2 = M
    BY <1>2, <1>4, <1>6, <2>1, <2>2 DEF Shape
  <2>4. /\ Len(r) = P + M + D
        /\ \A i \in 1 .. P : r[i] = q.pending[i]
        /\ g.pc = "pend" => r[P + 1] = g.item
        /\ \A i \in P + M + 1 .. P + M + D : r[i] = q.data[i - (P + M)]
        /\ M = 0 \/ (M = 1 /\ g.pc = "pend")
    BY <2>1 DEF Shape
  <2>5. /\ Len(t) = P2 + M2 + D2
        /\ \A i \in 1 .. P2 : t[i] = v.pending[i]
        /\ g.pc = "pend" => t[P2 + 1] = g.item
        /\ \A i \in P2 + M2 + 1 .. P2 + M2 + D2 : t[i] = v.data[i - (P2 + M2)]
    BY <2>2 DEF Shape
  <2>6. k \in 1 .. P /\ Len(t) = P + M + D - 1 /\ Len(r) = P + M + D
    BY <2>3, <2>4, <2>5
  <2>7. ASSUME NEW i \in 1 .. P + M + D - 1
        PROVE  t[i] = (IF i < k THEN r[i] ELSE r[i + 1])
    <3>1. CASE i \in 1 .. P - 1
      <4>1. t[i] = w[i] /\ w[i] = (IF i < k THEN q.pending[i] ELSE q.pending[i + 1])
        BY <1>2, <1>4, <1>6, <2>3, <2>5, <3>1
      <4>2. i \in 1 .. P /\ i + 1 \in 1 .. P
        BY <3>1
      <4>3. r[i] = q.pending[i] /\ r[i + 1] = q.pending[i + 1]
        BY <2>4, <4>2
      <4> QED BY <4>1, <4>3
    <3>2. CASE i = P /\ M = 1
      <4>1. ~(i < k) /\ i = P2 + 1
        BY <2>3, <2>6, <3>2
      <4>2. t[P2 + 1] = g.item /\ r[P + 1] = g.item
        BY <2>4, <2>5, <3>2
      <4> QED BY <3>2, <4>1, <4>2
    <3>3. CASE i \in P + M .. P + M + D - 1
      <4>1. /\ ~(i < k) /\ i \in P2 + M2 + 1 .. P2 + M2 + D2
            /\ i + 1 \in P + M + 1 .. P + M + D
            /\ i - (P2 + M2) = (i + 1) - (P + M)
        BY <2>3, <2>6, <3>3
      <4>2. t[i] = v.data[i - (P2 + M2)] /\ r[i + 1] = q.data[(i + 1) - (P + M)]
        BY <2>4, <2>5, <4>1
      <4> QED BY <1>2, <4>1, <4>2
    <3>4. i \in 1 .. P - 1 \/ (i = P /\ M = 1) \/ i \in P + M .. P + M + D - 1
      BY <2>4, <2>6
    <3> QED BY <3>1, <3>2, <3>3, <3>4
  <2>8. k \in 1 .. Len(r) /\ Len(t) = Len(r) - 1
    BY <2>6
  <2>9. ASSUME NEW i \in 1 .. Len(r) - 1
        PROVE  t[i] = (IF i < k THEN r[i] ELSE r[i + 1])
    <3>1. i \in 1 .. P + M + D - 1
      BY <2>6
    <3> QED BY <2>7, <3>1
  <2> QED BY <2>8, <2>9
<1>7. \/ (\A i \in 1 .. Len(q.pending) : q.pending[i] # y) /\ w = q.pending
      \/ \E k \in 1 .. Len(q.pending) : q.pending[k] = y /\ Closed(q.pending, k, w)
  BY <1>2, <1>4, WithoutClosed
<1>8. Ack(q, y).pending = w
  BY <1>1, <1>2, <1>4
<1> QED BY <1>5, <1>6, <1>7, <1>8

\* get() hands the oldest waiting item out in two effects: the replay stays.
LEMMA GetReplay ==
  ASSUME NEW q \in GenQueue, NEW g, GenType(g), NEW h, GenType(h)
  PROVE  /\ g.pc = "pop" /\ h.pc = "pend" /\ h.item = Peek(q) /\ QLen(q) > 0
               => ReplayOf(Pop(q), h) = ReplayOf(q, g)
         /\ g.pc = "pend" /\ h.pc # "pend" => ReplayOf(Pend(q, g.item), h) = ReplayOf(q, g)
<1>0. q \in [data : Seq(GenItem), pending : Seq(GenItem)]
  BY DEF GenQueue
<1>1. ASSUME g.pc = "pop", h.pc = "pend", h.item = Peek(q), QLen(q) > 0
      PROVE  ReplayOf(Pop(q), h) = ReplayOf(q, g)
  <2>1. PICK v : v = Pop(q)
    OBVIOUS
  <2>2. /\ v \in GenQueue /\ v.pending = q.pending /\ Len(q.data) > 0
        /\ Len(v.data) = Len(q.data) - 1
        /\ \A i \in 1 .. Len(q.data) - 1 : v.data[i] = q.data[i + 1]
        /\ h.item = q.data[1]
    BY <1>0, <1>1, <2>1, PopShape, QueueTypes DEF GenQueue
  <2>3. PICK r : r = ReplayOf(q, g)
    OBVIOUS
  <2>4. PICK t : t = ReplayOf(v, h)
    OBVIOUS
  <2>5. PICK P, D, M \in Nat : Shape(q, g, r, P, D, M)
    BY <2>3, ReplayShape
  <2>6. PICK P2, D2, M2 \in Nat : Shape(v, h, t, P2, D2, M2)
    BY <2>2, <2>4, ReplayShape
  <2>70. D = Len(q.data) /\ P = Len(q.pending)
    BY <2>5 DEF Shape
  <2>7. M = 0 /\ M2 = 1 /\ P2 = P /\ D2 = D - 1 /\ D > 0
    BY <1>1, <2>2, <2>5, <2>6 DEF Shape
  <2>8. /\ r \in Seq(GenItem) /\ Len(r) = P + M + D
        /\ \A i \in 1 .. P : r[i] = q.pending[i]
        /\ \A i \in P + M + 1 .. P + M + D : r[i] = q.data[i - (P + M)]
    BY <2>5 DEF Shape
  <2>9. /\ t \in Seq(GenItem) /\ Len(t) = P2 + M2 + D2
        /\ \A i \in 1 .. P2 : t[i] = v.pending[i]
        /\ t[P2 + 1] = h.item
        /\ \A i \in P2 + M2 + 1 .. P2 + M2 + D2 : t[i] = v.data[i - (P2 + M2)]
    BY <1>1, <2>6 DEF Shape
  <2>10. Len(r) = P + D /\ Len(t) = P + D
    <3>1. Len(r) = P + M + D /\ Len(t) = P2 + M2 + D2
      BY <2>8, <2>9
    <3>2. P + M + D = P + D /\ P2 + M2 + D2 = P + D
      BY <2>7
    <3> QED BY <3>1, <3>2
  <2>11. ASSUME NEW i \in 1 .. P + D
         PROVE  t[i] = r[i]
    <3>1. CASE i \in 1 .. P
      <4>1. i \in 1 .. P2
        BY <2>7, <3>1
      <4>2. r[i] = q.pending[i] /\ t[i] = v.pending[i]
        BY <2>8, <2>9, <3>1, <4>1
      <4> QED BY <2>2, <4>2
    <3>2. CASE i = P + 1
      <4>1. i \in P + M + 1 .. P + M + D /\ i - (P + M) = 1
        BY <2>7, <3>2
      <4>2. r[i] = q.data[1]
        BY <2>8, <4>1
      <4> QED BY <2>2, <2>7, <2>9, <3>2, <4>2
    <3>3. CASE i \in P + 2 .. P + D
      <4>1. /\ i \in P + M + 1 .. P + M + D /\ i - (P + M) = i - P
            /\ i \in P2 + M2 + 1 .. P2 + M2 + D2 /\ i - (P2 + M2) = (i - P) - 1
            /\ (i - P) - 1 \in 1 .. D - 1 /\ ((i - P) - 1) + 1 = i - P
        BY <2>7, <3>3
      <4>2. t[i] = v.data[(i - P) - 1] /\ r[i] = q.data[i - P]
        BY <2>8, <2>9, <4>1
      <4>3. v.data[(i - P) - 1] = q.data[((i - P) - 1) + 1]
        BY <2>2, <2>70, <4>1
      <4> QED BY <4>1, <4>2, <4>3
    <3> QED BY <3>1, <3>2, <3>3
  <2>12. t = r
    BY <2>8, <2>9, <2>10, <2>11, SeqEqual
  <2> QED BY <2>1, <2>3, <2>4, <2>12
<1>2. ASSUME g.pc = "pend", h.pc # "pend"
      PROVE  ReplayOf(Pend(q, g.item), h) = ReplayOf(q, g)
  <2>0. g.item \in GenItem
    BY <1>2 DEF GenType
  <2>1. PICK v : v = Pend(q, g.item)
    OBVIOUS
  <2>2. /\ v \in GenQueue /\ v.data = q.data
        /\ Len(v.pending) = Len(q.pending) + 1
        /\ \A i \in 1 .. Len(q.pending) : v.pending[i] = q.pending[i]
        /\ v.pending[Len(q.pending) + 1] = g.item
    <3>1. v \in GenQueue
      BY <1>0, <2>0, <2>1, QueueTypes DEF GenQueue
    <3> QED BY <1>0, <2>0, <2>1, <3>1, PendShape
  <2>3. PICK r : r = ReplayOf(q, g)
    OBVIOUS
  <2>4. PICK t : t = ReplayOf(v, h)
    OBVIOUS
  <2>5. PICK P, D, M \in Nat : Shape(q, g, r, P, D, M)
    BY <2>3, ReplayShape
  <2>6. PICK P2, D2, M2 \in Nat : Shape(v, h, t, P2, D2, M2)
    BY <2>2, <2>4, ReplayShape
  <2>70. D = Len(q.data) /\ P = Len(q.pending)
    BY <2>5 DEF Shape
  <2>7. M = 1 /\ M2 = 0 /\ P2 = P + 1 /\ D2 = D
    BY <1>2, <2>2, <2>5, <2>6 DEF Shape
  <2>8. /\ r \in Seq(GenItem) /\ Len(r) = P + M + D
        /\ \A i \in 1 .. P : r[i] = q.pending[i]
        /\ r[P + 1] = g.item
        /\ \A i \in P + M + 1 .. P + M + D : r[i] = q.data[i - (P + M)]
    BY <1>2, <2>5 DEF Shape
  <2>9. /\ t \in Seq(GenItem) /\ Len(t) = P2 + M2 + D2
        /\ \A i \in 1 .. P2 : t[i] = v.pending[i]
        /\ \A i \in P2 + M2 + 1 .. P2 + M2 + D2 : t[i] = v.data[i - (P2 + M2)]
    BY <2>6 DEF Shape
  <2>10. Len(r) = P + 1 + D /\ Len(t) = P + 1 + D
    <3>1. Len(r) = P + M + D /\ Len(t) = P2 + M2 + D2
      BY <2>8, <2>9
    <3>2. P + M + D = P + 1 + D /\ P2 + M2 + D2 = P + 1 + D
      BY <2>7
    <3> QED BY <3>1, <3>2
  <2>11. ASSUME NEW i \in 1 .. P + 1 + D
         PROVE  t[i] = r[i]
    <3>1. CASE i \in 1 .. P
      <4>1. i \in 1 .. P2
        BY <2>7, <3>1
      <4>2. r[i] = q.pending[i] /\ t[i] = v.pending[i]
        BY <2>8, <2>9, <3>1, <4>1
      <4>3. v.pending[i] = q.pending[i]
        BY <2>2, <2>70, <3>1
      <4> QED BY <4>2, <4>3
    <3>2. CASE i = P + 1
      <4>1. i \in 1 .. P2
        BY <2>7, <3>2
      <4>2. r[P + 1] = g.item /\ t[i] = v.pending[i]
        BY <2>8, <2>9, <4>1
      <4> QED BY <2>2, <2>70, <3>2, <4>2
    <3>3. CASE i \in P + 2 .. P + 1 + D
      <4>1. /\ i \in P + M + 1 .. P + M + D /\ i \in P2 + M2 + 1 .. P2 + M2 + D2
            /\ P + M = P2 + M2
        BY <2>7, <3>3
      <4>2. t[i] = v.data[i - (P2 + M2)] /\ r[i] = q.data[i - (P + M)]
        BY <2>8, <2>9, <4>1
      <4> QED BY <2>2, <4>1, <4>2
    <3> QED BY <3>1, <3>2, <3>3
  <2>12. t = r
    BY <2>8, <2>9, <2>10, <2>11, SeqEqual
  <2> QED BY <2>1, <2>3, <2>4, <2>12
<1> QED BY <1>1, <1>2
\* What a step of the control worker does to the replay.
LEMMA ControlReplay == TypeOK /\ Filling /\ ReplayGated /\ Held /\ Control => ReplayGated' /\ Held'
<1> SUFFICES ASSUME TypeOK, Filling, ReplayGated, Held, Control
             PROVE  ReplayGated' /\ Held'
  OBVIOUS
<1>0. /\ FirstSched' = FirstSched /\ FirstSched \in Int /\ preGen \in GenQueue /\ GenType(gen)
      /\ gen' = gen /\ running' = running /\ sched \in Int /\ source \in Nat /\ source \in Int
  BY FirstSchedType DEF TypeOK, FirstSched, Control, CtlOpen, CtlPop, CtlPut, CtlExhausted,
     CtlClose, CtlAdvance
<1>1. PICK r : r = ReplayOf(preGen, gen)
  OBVIOUS
<1>2. /\ GatesOf(FirstSched, r) /\ Increasing(r) /\ Below(r, source)
      /\ ctl.hand # NoItem => ctl.hand.p < source /\ Below(r, ctl.hand.p)
      /\ ctl.pc = "fill" => OpenBlock(r, sched)
  BY <1>1 DEF ReplayGated
<1>3. /\ ctl.hand # NoItem => ctl.pc = "fill" /\ ctl.hand \in PromptItem
      /\ ctl.hand.p \in Int \/ ctl.hand = NoItem
  BY ItemTypes DEF TypeOK, CtlType
<1>4. ASSUME preGen'.pending = preGen.pending
      PROVE  Held'
  BY <1>0, <1>4 DEF Held
\* A put.
<1>5. ASSUME NEW x \in GenItem, preGen' = Put(preGen, x)
      PROVE  /\ Held'
             /\ \E t : t = ReplayOf(preGen', gen') /\ Behind(r, x, t)
  <2>1. preGen'.pending = preGen.pending
    BY <1>5 DEF Put, TypeOK, GenQueue
  <2>2. PICK t : t = ReplayOf(Put(preGen, x), gen)
    OBVIOUS
  <2>3. Behind(r, x, t)
    BY <1>0, <1>1, <2>2, PutReplay
  <2> QED BY <1>0, <1>4, <1>5, <2>1, <2>2, <2>3
<1>6. CASE CtlOpen
  <2>1. /\ Need(sched) \in GenItem /\ Need(sched).t # "prompt" /\ preGen' = Put(preGen, Need(sched))
        /\ sched' = sched /\ source' = source /\ ctl'.hand = NoItem
    BY <1>0, <1>3, <1>6, ItemTypes DEF CtlOpen, GenItem, TypeOK, CtlType
  <2>2. PICK t : t = ReplayOf(preGen', gen') /\ Behind(r, Need(sched), t)
    BY <1>5, <2>1
  <2>3. GatesOf(FirstSched, t) /\ Increasing(t) /\ Below(t, source) /\ OpenBlock(t, sched)
    BY <1>0, <1>2, <2>1, <2>2, BehindReplay
  <2> QED BY <1>0, <1>5, <2>1, <2>2, <2>3 DEF ReplayGated
<1>7. CASE CtlPut
  <2>1. /\ ctl.hand # NoItem /\ ctl.pc = "fill" /\ ctl.hand \in GenItem /\ ctl.hand.t = "prompt"
        /\ ctl.hand.p \in Int /\ preGen' = Put(preGen, ctl.hand)
        /\ sched' = sched /\ source' = source /\ ctl'.hand = NoItem /\ ctl'.pc = "fill"
    BY <1>3, <1>7, ItemTypes DEF CtlPut, GenItem, TypeOK, CtlType
  <2>2. PICK t : t = ReplayOf(preGen', gen') /\ Behind(r, ctl.hand, t)
    BY <1>5, <2>1
  <2>3. Block(FirstSched, ctl.hand.p) = sched
    BY <2>1 DEF Filling
  <2>4. PICK x : x = ctl.hand
    OBVIOUS
  <2>5. /\ x \in GenItem /\ x.t = "prompt" /\ x.p \in Int /\ x.p < source /\ Below(r, x.p)
        /\ Block(FirstSched, x.p) = sched /\ OpenBlock(r, sched) /\ Behind(r, x, t)
    BY <1>2, <2>1, <2>2, <2>3, <2>4
  <2>50. /\ GatesOf(FirstSched, r) /\ Increasing(r) /\ Below(r, source)
         /\ sched \in Int /\ source \in Int
    BY <1>0, <1>2
  <2>6. Increasing(t) /\ Below(t, source)
    BY <2>5, <2>50, BehindReplay
  <2>7. GatesOf(FirstSched, t) /\ OpenBlock(t, sched)
    BY <2>5, <2>50, BehindReplay
  <2> QED BY <1>0, <1>5, <2>1, <2>2, <2>6, <2>7 DEF ReplayGated
<1>8. CASE CtlClose
  <2>1. /\ Barrier(sched) \in GenItem /\ Barrier(sched).t # "prompt"
        /\ preGen' = Put(preGen, Barrier(sched))
        /\ sched' = sched /\ source' = source /\ ctl'.hand = ctl.hand /\ ctl'.pc = "advance"
    BY <1>0, <1>8, ItemTypes DEF CtlClose, GenItem, TypeOK, CtlType, Barrier
  <2>2. PICK t : t = ReplayOf(preGen', gen') /\ Behind(r, Barrier(sched), t)
    BY <1>5, <2>1
  <2>3. GatesOf(FirstSched, t) /\ Increasing(t) /\ Below(t, source)
    BY <1>0, <1>2, <2>1, <2>2, BehindReplay
  <2>4. ctl.hand = NoItem
    BY <1>8 DEF CtlClose, TypeOK, CtlType
  <2> QED BY <1>0, <1>5, <2>1, <2>2, <2>3, <2>4 DEF ReplayGated
<1>9. CASE CtlPop
  <2>1. /\ preGen' = preGen /\ sched' = sched /\ source' = source + 1
        /\ ctl'.hand = Prompt(source) /\ ctl'.pc = "fill" /\ ctl.pc = "fill"
    BY <1>9 DEF CtlPop, TypeOK, CtlType
  <2>2. Prompt(source).p = source /\ source < source + 1
    BY <1>0 DEF Prompt
  <2>3. Below(r, source + 1)
    <3>1. r \in Seq(GenItem)
      <4>1. PICK P, D, M \in Nat : Shape(preGen, gen, r, P, D, M)
        BY <1>0, <1>1, ReplayShape
      <4> QED BY <4>1 DEF Shape
    <3>2. \A i \in 1 .. Len(r) : r[i].t = "prompt" => r[i].p \in Int
      <4>1. \A i \in 1 .. Len(r) : r[i] \in GenItem
        BY <3>1, ElementOfSeq, LenProperties
      <4> QED BY <4>1, ItemTypes DEF GenItem
    <3>3. \A m \in Int : m < source => m < source + 1
      BY <1>0
    <3> QED BY <1>2, <3>2, <3>3 DEF Below
  <2>4. GatesOf(FirstSched, r) /\ Increasing(r) /\ OpenBlock(r, sched) /\ Below(r, source)
    BY <1>2, <2>1
  <2>5. ReplayOf(preGen', gen') = r
    BY <1>0, <1>1, <2>1
  <2>6. Held'
    BY <1>4, <2>1
  <2> QED BY <1>0, <2>1, <2>2, <2>3, <2>4, <2>5, <2>6 DEF ReplayGated
<1>10. CASE CtlExhausted \/ CtlAdvance
  <2>1. preGen' = preGen /\ source' = source /\ ctl'.pc # "fill" /\ ctl'.hand = NoItem
    BY <1>10 DEF CtlExhausted, CtlAdvance, TypeOK, CtlType
  <2>2. ReplayOf(preGen', gen') = r
    BY <1>0, <1>1, <2>1
  <2>3. Held'
    BY <1>4, <2>1
  <2> QED BY <1>0, <1>2, <2>1, <2>2, <2>3 DEF ReplayGated
<1> QED BY <1>6, <1>7, <1>8, <1>9, <1>10 DEF Control
\* An ack of y when nothing behind it is gated by it.
LEMMA AckGated ==
  ASSUME NEW f \in Int, NEW q \in GenQueue, NEW g, GenType(g), NEW y,
         NEW r, r = ReplayOf(q, g), NEW t, t = ReplayOf(Ack(q, y), g),
         GatesOf(f, r), Increasing(r),
         \/ y.t = "prompt"
         \/ \E e \in 1 .. Len(q.pending) :
              /\ e = Len(q.pending) /\ q.pending[e].t = "train"
              /\ \A m \in 1 .. e : q.pending[m].t # "prompt"
  PROVE  /\ GatesOf(f, t) /\ Increasing(t)
         /\ \A n \in Int : Below(r, n) => Below(t, n)
         /\ \A b \in Int : OpenBlock(r, b) => OpenBlock(t, b)
<1>1. CASE t = r
  BY <1>1
<1>2. CASE \E k \in 1 .. Len(q.pending) :
              q.pending[k] = y /\ Closed(r, k, t)
  <2>1. PICK k \in 1 .. Len(q.pending) :
              q.pending[k] = y /\ Closed(r, k, t)
    BY <1>2
  <2>2. PICK P, D, M \in Nat : Shape(q, g, r, P, D, M)
    BY ReplayShape
  <2>3. /\ P = Len(q.pending) /\ r \in Seq(GenItem) /\ Len(r) = P + M + D
        /\ \A i \in 1 .. P : r[i] = q.pending[i]
    BY <2>2 DEF Shape
  <2>4. k \in 1 .. P /\ r[k] = y
    BY <2>1, <2>3
  <2>5. Ungating(r, k)
    <3>1. CASE y.t = "prompt"
      BY <2>4, <3>1 DEF Ungating
    <3>2. CASE \E e \in 1 .. Len(q.pending) :
                 /\ e = Len(q.pending) /\ q.pending[e].t = "train"
                 /\ \A m \in 1 .. e : q.pending[m].t # "prompt"
      <4>1. PICK e \in 1 .. P : e = P /\ q.pending[e].t = "train"
                                /\ \A m \in 1 .. e : q.pending[m].t # "prompt"
        BY <2>3, <3>2
      <4>2. P \in k .. P + M + D /\ P \in 1 .. P
        BY <2>4
      <4>3. P \in k .. Len(r)
        BY <2>3, <4>2
      <4>4. r[P].t = "train" /\ \A m \in 1 .. P : r[m].t # "prompt"
        BY <2>3, <4>1, <4>2
      <4> QED BY <4>3, <4>4 DEF Ungating
    <3> QED BY <3>1, <3>2
  <2> QED BY <2>1, <2>3, <2>5, RemoveReplay
<1> QED BY <1>1, <1>2, AckReplay

\* What keeps Held when pending loses y: it closes up over one item.
LEMMA AckPending ==
  ASSUME NEW q \in GenQueue, NEW y, NEW w, w = Ack(q, y).pending
  PROVE  /\ \A i \in 1 .. Len(w) : \E j \in 1 .. Len(q.pending) : w[i] = q.pending[j]
         /\ Len(q.pending) > 0 /\ q.pending[Len(q.pending)] # y =>
              Len(w) > 0 /\ w[Len(w)] = q.pending[Len(q.pending)]
<1>1. PICK s : s = q.pending
  OBVIOUS
<1>2. s \in Seq(GenItem) /\ w = Without(s, y)
  BY <1>1 DEF GenQueue, Ack
<1>3. CASE w = s
  BY <1>1, <1>3
<1>4. CASE \E k \in 1 .. Len(s) : s[k] = y /\ Closed(s, k, w)
  <2>1. PICK k \in 1 .. Len(s) :
             /\ s[k] = y
             /\ Len(w) = Len(s) - 1
             /\ \A i \in 1 .. Len(s) - 1 : w[i] = (IF i < k THEN s[i] ELSE s[i + 1])
    BY <1>4 DEF Closed
  <2>2. PICK n \in Nat : n = Len(s)
    BY <1>2, LenProperties
  <2>3. k \in 1 .. n /\ Len(w) = n - 1
    BY <2>1, <2>2
  <2>4. ASSUME NEW i \in 1 .. n - 1
        PROVE  \E j \in 1 .. n : w[i] = s[j]
    <3>1. w[i] = (IF i < k THEN s[i] ELSE s[i + 1])
      BY <2>1, <2>2
    <3>2. i \in 1 .. n /\ i + 1 \in 1 .. n
      BY <2>2
    <3> QED BY <3>1, <3>2
  <2>5. ASSUME n > 0, s[n] # y
        PROVE  n - 1 > 0 /\ w[n - 1] = s[n]
    <3>1. k # n
      BY <2>1, <2>5
    <3>2. n - 1 \in 1 .. n - 1 /\ ~(n - 1 < k) /\ (n - 1) + 1 = n
      BY <2>3, <3>1
    <3>3. w[n - 1] = s[(n - 1) + 1]
      BY <2>1, <2>2, <3>2
    <3> QED BY <3>2, <3>3
  <2> QED BY <1>1, <2>2, <2>3, <2>4, <2>5
<1> QED BY <1>2, <1>3, <1>4, WithoutClosed
\* What a step of the generation worker does to the replay.
LEMMA GenerationReplay ==
  TypeOK /\ TrainOrdered /\ ReplayGated /\ Held /\ Generation => ReplayGated' /\ Held'
<1> SUFFICES ASSUME TypeOK, TrainOrdered, ReplayGated, Held, Generation
             PROVE  ReplayGated' /\ Held'
  OBVIOUS
<1>0. /\ FirstSched' = FirstSched /\ FirstSched \in Int /\ preGen \in GenQueue /\ GenType(gen)
      /\ sched' = sched /\ source' = source /\ ctl' = ctl /\ sched \in Int /\ source \in Int
  BY FirstSchedType DEF TypeOK, FirstSched, Generation, GenPop, GenPend, GenNeed, GenSubmit,
     GenBarrier, ctlVars
<1>t. GenType(gen')
  BY StepType DEF TypeOK, Next
<1>1. PICK r : r = ReplayOf(preGen, gen)
  OBVIOUS
<1>2. /\ GatesOf(FirstSched, r) /\ Increasing(r) /\ Below(r, source)
      /\ ctl.hand # NoItem => ctl.hand.p < source /\ Below(r, ctl.hand.p)
      /\ ctl.pc = "fill" => OpenBlock(r, sched)
  BY <1>1 DEF ReplayGated
<1>3. ASSUME ReplayOf(preGen', gen') = r
      PROVE  ReplayGated'
  BY <1>0, <1>2, <1>3 DEF ReplayGated
<1>4. CASE GenPop
  <2>1. /\ gen.pc = "pop" /\ gen'.pc = "pend" /\ gen'.item = Peek(preGen) /\ QLen(preGen) > 0
        /\ preGen' = Pop(preGen) /\ gen'.needAck = gen.needAck /\ running' = running
    BY <1>4 DEF GenPop, TypeOK, GenType
  <2>2. ReplayOf(preGen', gen') = r
    BY <1>0, <1>1, <1>t, <2>1, GetReplay
  <2>3. preGen'.pending = preGen.pending
    BY <1>0, <2>1 DEF Pop, GenQueue
  <2>4. Held'
    BY <2>1, <2>3 DEF Held
  <2> QED BY <1>3, <2>2, <2>4
<1>5. CASE GenPend
  <2>1. /\ gen.pc = "pend" /\ gen'.pc = gen.item.t /\ gen'.item = gen.item /\ gen.item \in GenItem
        /\ preGen' = Pend(preGen, gen.item) /\ gen'.needAck = gen.needAck /\ running' = running
    BY <1>5 DEF GenPend, TypeOK, GenType
  <2>2. gen'.pc # "pend"
    BY <2>1, ItemTypes DEF GenItem
  <2>3. ReplayOf(preGen', gen') = r
    BY <1>0, <1>1, <1>t, <2>1, <2>2, GetReplay
  <2>4. PICK w : w = preGen'.pending
    OBVIOUS
  <2>5. PICK n \in Nat : n = Len(preGen.pending)
    BY <1>0, LenProperties DEF GenQueue
  <2>6. /\ Len(w) = n + 1
        /\ \A i \in 1 .. n : w[i] = preGen.pending[i]
        /\ w[n + 1] = gen.item
    <3>1. preGen \in [data : Seq(GenItem), pending : Seq(GenItem)]
      BY <1>0 DEF GenQueue
    <3> QED BY <2>1, <2>4, <2>5, <3>1, PendShape
  <2>7. ASSUME NEW p \in Nat \ {0}, NEW i \in 1 .. Len(w), w[i] = Prompt(p)
        PROVE  \/ \E x \in running' : x.p = p
               \/ gen'.pc = "prompt" /\ gen'.item = Prompt(p)
    <3>1. CASE i \in 1 .. n
      BY <2>1, <2>5, <2>6, <2>7, <3>1 DEF Held
    <3>2. CASE i = n + 1
      <4>1. gen.item = Prompt(p) /\ gen.item.t = "prompt"
        BY <2>6, <2>7, <3>2 DEF Prompt
      <4> QED BY <2>1, <4>1
    <3>3. i \in 1 .. n + 1
      BY <2>6
    <3> QED BY <3>1, <3>2, <3>3
  <2>8. Len(w) > 0 /\ w[Len(w)] = gen'.item
    BY <2>1, <2>6
  <2>9. Held'
    BY <2>1, <2>4, <2>7, <2>8 DEF Held
  <2> QED BY <1>3, <2>3, <2>9
<1>6. CASE GenNeed
  <2>1. /\ gen.pc = "need" /\ gen'.pc = "pop" /\ gen'.needAck = gen.item /\ preGen' = preGen
        /\ running' = running
    BY <1>6 DEF GenNeed, TypeOK, GenType
  <2>2. ReplayOf(preGen', gen') = r
    BY <1>1, <2>1 DEF ReplayOf
  <2>3. gen.item \in NeedItem
    BY <1>0, <2>1, ItemTypes DEF GenType, GenItem
  <2>4. Held'
    BY <2>1, <2>3 DEF Held
  <2> QED BY <1>3, <2>2, <2>4
<1>7. CASE GenSubmit
  <2>1. /\ gen.pc = "prompt" /\ gen'.pc = "pop" /\ gen'.needAck = gen.needAck /\ preGen' = preGen
        /\ running' = running \cup {[p |-> gen.item.p, seen |-> {served}]}
    BY <1>7 DEF GenSubmit, TypeOK, GenType
  <2>2. ReplayOf(preGen', gen') = r
    BY <1>1, <2>1 DEF ReplayOf
  <2>3. ASSUME NEW p \in Nat \ {0}, NEW i \in 1 .. Len(preGen.pending),
               preGen.pending[i] = Prompt(p)
        PROVE  \E x \in running' : x.p = p
    <3>1. CASE \E x \in running : x.p = p
      BY <2>1, <3>1
    <3>2. CASE gen.item = Prompt(p)
      <4>1. gen.item.p = p
        BY <3>2 DEF Prompt
      <4>2. PICK x : x = [p |-> gen.item.p, seen |-> {served}]
        OBVIOUS
      <4>3. x \in running'
        BY <2>1, <4>2
      <4>4. x.p = p
        BY <4>1, <4>2
      <4> QED BY <4>3, <4>4
    <3> QED BY <2>3, <3>1, <3>2 DEF Held
  <2>4. Held'
    BY <2>1, <2>3 DEF Held
  <2> QED BY <1>3, <2>2, <2>4
<1>8. CASE GenBarrier
  <2>1. /\ gen.pc = "train" /\ gen'.pc = "pop" /\ gen'.needAck = gen.needAck /\ gen.active = 0
        /\ preGen' = Ack(Ack(preGen, gen.needAck), gen.item) /\ gen.item.t = "train"
    BY <1>8 DEF GenBarrier, Drained, TypeOK, GenType
  <2>2. running = {}
    <3>1. Cardinality(running) = 0
      BY <2>1, FS_CardinalityType DEF TrainOrdered
    <3> QED BY <3>1, FS_EmptySet DEF TrainOrdered
  <2>3. \A i \in 1 .. Len(preGen.pending) : preGen.pending[i].t # "prompt"
    <3>1. ASSUME NEW i \in 1 .. Len(preGen.pending), preGen.pending[i].t = "prompt"
          PROVE  FALSE
      <4>1. preGen.pending[i] \in GenItem
        BY <1>0, ElementOfSeq, LenProperties DEF GenQueue
      <4>2. preGen.pending[i].p \in Nat \ {0} /\ preGen.pending[i] = Prompt(preGen.pending[i].p)
        BY <3>1, <4>1, ItemTypes DEF GenItem
      <4>3. gen.pc = "prompt"
        BY <2>2, <4>2 DEF Held
      <4> QED BY <2>1, <4>3
    <3> QED BY <3>1
  <2>4. PICK q : q = Ack(preGen, gen.needAck)
    OBVIOUS
  <2>5. q \in GenQueue
    BY <1>0, <2>4, WithoutType DEF GenQueue, Ack
  <2>6. PICK s : s = ReplayOf(q, gen)
    OBVIOUS
  <2>7. /\ Len(preGen.pending) > 0 /\ preGen.pending[Len(preGen.pending)] = gen.item
        /\ gen.needAck # gen.item /\ Len(preGen.pending) \in Nat
    <3>1. gen.needAck.t # "train"
      BY ItemTypes DEF Held
    <3>2. Len(preGen.pending) \in Nat
      BY <1>0, LenProperties DEF GenQueue
    <3> QED BY <2>1, <3>1, <3>2 DEF Held
  <2>8. Len(preGen.pending) \in 1 .. Len(preGen.pending)
    BY <2>7
  <2>9. /\ GatesOf(FirstSched, s) /\ Increasing(s)
        /\ \A n \in Int : Below(r, n) => Below(s, n)
        /\ \A b \in Int : OpenBlock(r, b) => OpenBlock(s, b)
    <3>1. \E e \in 1 .. Len(preGen.pending) :
            /\ e = Len(preGen.pending) /\ preGen.pending[e].t = "train"
            /\ \A m \in 1 .. e : preGen.pending[m].t # "prompt"
      BY <2>1, <2>3, <2>7, <2>8
    <3> QED BY <1>0, <1>1, <1>2, <2>4, <2>6, <3>1, AckGated
  <2>10. PICK w : w = q.pending
    OBVIOUS
  <2>11. /\ \A i \in 1 .. Len(w) : w[i].t # "prompt"
         /\ Len(w) > 0 /\ w[Len(w)] = gen.item
    BY <1>0, <2>3, <2>4, <2>7, <2>10, AckPending
  <2>12. PICK t : t = ReplayOf(Ack(q, gen.item), gen)
    OBVIOUS
  <2>13. /\ GatesOf(FirstSched, t) /\ Increasing(t)
         /\ \A n \in Int : Below(s, n) => Below(t, n)
         /\ \A b \in Int : OpenBlock(s, b) => OpenBlock(t, b)
    <3>1. Len(w) \in Nat
      BY <2>5, <2>10, LenProperties DEF GenQueue
    <3>2. Len(w) \in 1 .. Len(w)
      BY <2>11, <3>1
    <3>3. \E e \in 1 .. Len(q.pending) :
            /\ e = Len(q.pending) /\ q.pending[e].t = "train"
            /\ \A m \in 1 .. e : q.pending[m].t # "prompt"
      BY <2>1, <2>10, <2>11, <3>2
    <3> QED BY <1>0, <2>5, <2>6, <2>9, <2>12, <3>3, AckGated
  <2>14. ReplayOf(preGen', gen') = t
    BY <2>1, <2>4, <2>12 DEF ReplayOf
  <2>15. ReplayGated'
    <3>1. ctl.hand # NoItem => ctl.hand.p \in Int
      BY ItemTypes DEF TypeOK, CtlType
    <3>2. Below(t, source) /\ (ctl.hand # NoItem => ctl.hand.p < source /\ Below(t, ctl.hand.p))
      BY <1>0, <1>2, <2>9, <2>13, <3>1
    <3>3. ctl.pc = "fill" => OpenBlock(t, sched)
      BY <1>0, <1>2, <2>9, <2>13
    <3> QED BY <1>0, <2>13, <2>14, <3>2, <3>3 DEF ReplayGated
  <2>16. Held'
    <3>1. PICK v : v = preGen'.pending
      OBVIOUS
    <3>11. v = Ack(q, gen.item).pending
      BY <2>1, <2>4, <3>1
    <3>2. \A i \in 1 .. Len(v) : \E j \in 1 .. Len(w) : v[i] = w[j]
      <4>1. \A i \in 1 .. Len(v) : \E j \in 1 .. Len(q.pending) : v[i] = q.pending[j]
        BY <2>5, <3>11, AckPending
      <4> QED BY <2>10, <4>1
    <3>3. \A i \in 1 .. Len(v) : v[i].t # "prompt"
      BY <2>11, <3>2
    <3>4. \A p \in Nat \ {0} : Prompt(p).t = "prompt"
      BY DEF Prompt
    <3> QED BY <2>1, <3>1, <3>3, <3>4 DEF Held
  <2> QED BY <2>15, <2>16
<1> QED BY <1>4, <1>5, <1>6, <1>7, <1>8 DEF Generation

\* What a delivered rollout does to the replay.
LEMMA DeliverReplay ==
  ASSUME TypeOK, ReplayGated, Held, NEW x \in running, Deliver(x)
  PROVE  ReplayGated' /\ Held'
<1>0. /\ FirstSched' = FirstSched /\ FirstSched \in Int /\ preGen \in GenQueue /\ GenType(gen)
      /\ sched' = sched /\ source' = source /\ ctl' = ctl /\ sched \in Int /\ source \in Int
  BY FirstSchedType DEF TypeOK, FirstSched, Deliver, ctlVars
<1>1. /\ preGen' = Ack(preGen, Prompt(x.p)) /\ running' = running \ {x}
      /\ gen'.pc = gen.pc /\ gen'.item = gen.item /\ gen'.needAck = gen.needAck
      /\ x.p \in Nat \ {0}
  BY DEF Deliver, TypeOK, GenType, Generated
<1>2. PICK r : r = ReplayOf(preGen, gen)
  OBVIOUS
<1>3. /\ GatesOf(FirstSched, r) /\ Increasing(r) /\ Below(r, source)
      /\ ctl.hand # NoItem => ctl.hand.p < source /\ Below(r, ctl.hand.p)
      /\ ctl.pc = "fill" => OpenBlock(r, sched)
  BY <1>2 DEF ReplayGated
<1>4. PICK t : t = ReplayOf(Ack(preGen, Prompt(x.p)), gen)
  OBVIOUS
<1>5. Prompt(x.p).t = "prompt"
  BY DEF Prompt
<1>6. /\ GatesOf(FirstSched, t) /\ Increasing(t)
      /\ \A n \in Int : Below(r, n) => Below(t, n)
      /\ \A b \in Int : OpenBlock(r, b) => OpenBlock(t, b)
  BY <1>0, <1>2, <1>3, <1>4, <1>5, AckGated
<1>7. ReplayOf(preGen', gen') = t
  BY <1>1, <1>4 DEF ReplayOf
<1>8. ReplayGated'
  <2>1. ctl.hand # NoItem => ctl.hand.p \in Int
    BY ItemTypes DEF TypeOK, CtlType
  <2>2. Below(t, source) /\ (ctl.hand # NoItem => ctl.hand.p < source /\ Below(t, ctl.hand.p))
    BY <1>0, <1>3, <1>6, <2>1
  <2>3. ctl.pc = "fill" => OpenBlock(t, sched)
    BY <1>0, <1>3, <1>6
  <2> QED BY <1>0, <1>6, <1>7, <2>2, <2>3 DEF ReplayGated
<1>9. PICK w : w = preGen'.pending
  OBVIOUS
<1>10. PICK s : s = preGen.pending
  OBVIOUS
\* The delivered prompt was pending once only.
<1>11. \A i \in 1 .. Len(w) : w[i] # Prompt(x.p)
  <2>1. CASE t = r /\ w = s /\ \A i \in 1 .. Len(s) : s[i] # Prompt(x.p)
    BY <2>1
  <2>2. CASE \E k \in 1 .. Len(s) : s[k] = Prompt(x.p) /\ Closed(s, k, w)
    <3>1. PICK k \in 1 .. Len(s) :
               /\ s[k] = Prompt(x.p)
               /\ Len(w) = Len(s) - 1
               /\ \A i \in 1 .. Len(s) - 1 : w[i] = (IF i < k THEN s[i] ELSE s[i + 1])
      BY <2>2 DEF Closed
    <3>2. PICK P, D, M \in Nat : Shape(preGen, gen, r, P, D, M)
      BY <1>0, <1>2, ReplayShape
    <3>3. P = Len(s) /\ Len(r) = P + M + D /\ \A i \in 1 .. P : r[i] = s[i]
      BY <1>10, <3>2 DEF Shape
    <3>4. \A i \in 1 .. P : i \in 1 .. Len(r)
      <4>1. \A i \in 1 .. P : i \in 1 .. P + M + D
        OBVIOUS
      <4> QED BY <3>3, <4>1
    <3>5. \A i, j \in 1 .. P : i < j /\ s[i].t = "prompt" /\ s[j].t = "prompt" => s[i].p < s[j].p
      BY <1>3, <3>3, <3>4 DEF Increasing
    <3>6. ASSUME NEW i \in 1 .. P, NEW j \in 1 .. P, i < j, s[i] = Prompt(x.p), s[j] = Prompt(x.p)
          PROVE  FALSE
      <4>1. s[i].p = x.p /\ s[j].p = x.p /\ s[i].t = "prompt" /\ s[j].t = "prompt"
        BY <3>6 DEF Prompt
      <4>2. x.p < x.p
        BY <3>5, <3>6, <4>1
      <4> QED BY <1>1, <4>2
    <3>7. ASSUME NEW i \in 1 .. P - 1, w[i] = Prompt(x.p)
          PROVE  FALSE
      <4>1. w[i] = (IF i < k THEN s[i] ELSE s[i + 1]) /\ k \in 1 .. P
        BY <3>1, <3>3
      <4>2. i \in 1 .. P /\ i + 1 \in 1 .. P /\ (i < k \/ k < i + 1)
        BY <4>1
      <4>3. CASE i < k
        BY <3>1, <3>6, <3>7, <4>1, <4>2, <4>3
      <4>4. CASE ~(i < k)
        BY <3>1, <3>6, <3>7, <4>1, <4>2, <4>4
      <4> QED BY <4>3, <4>4
    <3>8. Len(w) = P - 1
      BY <3>1, <3>3
    <3> QED BY <3>7, <3>8
  <2>3. PICK y : y = Prompt(x.p)
    OBVIOUS
  <2>4. w = Ack(preGen, y).pending /\ t = ReplayOf(Ack(preGen, y), gen)
    BY <1>1, <1>4, <1>9, <2>3
  <2>5. \/ /\ t = r /\ Ack(preGen, y).pending = preGen.pending
           /\ \A i \in 1 .. Len(preGen.pending) : preGen.pending[i] # y
        \/ \E k \in 1 .. Len(preGen.pending) :
             preGen.pending[k] = y /\ Closed(preGen.pending, k, Ack(preGen, y).pending)
    BY <1>0, <1>2, <2>4, AckReplay
  <2> QED BY <1>10, <2>1, <2>2, <2>3, <2>4, <2>5
<1>12. /\ \A i \in 1 .. Len(w) : \E j \in 1 .. Len(s) : w[i] = s[j]
       /\ Len(s) > 0 /\ s[Len(s)] # Prompt(x.p) => Len(w) > 0 /\ w[Len(w)] = s[Len(s)]
  BY <1>0, <1>1, <1>9, <1>10, AckPending
<1>13. ASSUME NEW p \in Nat \ {0}, NEW i \in 1 .. Len(w), w[i] = Prompt(p)
       PROVE  \/ \E y \in running' : y.p = p
              \/ gen'.pc = "prompt" /\ gen'.item = Prompt(p)
  <2>1. p # x.p
    BY <1>11, <1>13
  <2>2. PICK j \in 1 .. Len(s) : s[j] = Prompt(p)
    BY <1>12, <1>13
  <2>3. CASE \E y \in running : y.p = p
    BY <1>1, <2>1, <2>3
  <2>4. CASE gen.pc = "prompt" /\ gen.item = Prompt(p)
    BY <1>1, <2>4
  <2> QED BY <1>10, <2>2, <2>3, <2>4 DEF Held
<1>14. gen.pc = "train" => Len(w) > 0 /\ w[Len(w)] = gen.item
  <2>1. ASSUME gen.pc = "train"
        PROVE  Len(w) > 0 /\ w[Len(w)] = gen.item
    <3>1. Len(s) > 0 /\ s[Len(s)] = gen.item
      BY <1>10, <2>1 DEF Held
    <3>2. gen.item # Prompt(x.p)
      BY <1>0, <1>5, <2>1 DEF GenType
    <3> QED BY <1>12, <3>1, <3>2
  <2> QED BY <2>1
<1>15. Held'
  BY <1>1, <1>9, <1>13, <1>14 DEF Held
<1> QED BY <1>8, <1>15

\* Failures that end the callback thread are the only steps that break the gates:
\* the count of what is generating drops although the prompt stays un-acked.
LEMMA StepReplay ==
  ASSUME cbAlive', TypeOK, Filling, TrainOrdered, ReplayGated, Held, [Next]_vars
  PROVE  ReplayGated' /\ Held'
<1>1. CASE Control
  BY <1>1, ControlReplay
<1>2. CASE Generation
  BY <1>2, GenerationReplay
<1>3. CASE Callback
  <2>1. PICK x \in running : Deliver(x)
    BY <1>3 DEF Callback, CbDone, CbIgnoreError, CbRaise
  <2> QED BY <2>1, DeliverReplay
<1>4. CASE Trainer \/ Finished \/ UNCHANGED vars
  <2>1. /\ preGen' = preGen /\ gen' = gen /\ ctl' = ctl /\ source' = source /\ sched' = sched
        /\ FirstSched' = FirstSched
    BY <1>4 DEF Trainer, Collecting, TrainRequest, TrainDeploy, TrainSynced, TrainCollect,
       TrainStep, TrainSave, TrainNoSave, Finished, vars, ctlVars, FirstSched
  <2>2. \A x \in running : \E y \in running' : y.p = x.p
    <3>1. CASE TrainDeploy
      <4>1. \A x \in running : [x EXCEPT !.seen = @ \cup {train}].p = x.p
        BY DEF TypeOK, Generated
      <4>2. \A x \in running : [x EXCEPT !.seen = @ \cup {train}] \in running'
        BY <3>1 DEF TrainDeploy
      <4> QED BY <4>1, <4>2
    <3>2. CASE ~TrainDeploy
      <4>1. running' = running
        BY <1>4, <3>2 DEF Trainer, Collecting, TrainRequest, TrainSynced, TrainCollect,
           TrainStep, TrainSave, TrainNoSave, Finished, vars
      <4> QED BY <4>1
    <3> QED BY <3>1, <3>2
  <2>3. ReplayGated'
    BY <2>1 DEF ReplayGated
  <2>4. Held'
    BY <2>1, <2>2 DEF Held
  <2> QED BY <2>3, <2>4
<1> QED BY <1>1, <1>2, <1>3, <1>4 DEF Next

\* Nothing is replayed at first.
LEMMA InitReplay == Init => ReplayGated /\ Held
<1> SUFFICES ASSUME Init PROVE ReplayGated /\ Held
  OBVIOUS
<1>1. preGen.pending = <<>> /\ preGen.data = <<>> /\ gen.pc = "pop"
  BY DEF Init, EmptyQueue
<1>2. ReplayOf(preGen, gen) = <<>>
  BY <1>1 DEF ReplayOf
<1>3. \A i \in 1 .. Len(<<>>) : FALSE
  OBVIOUS
<1>4. ReplayGated
  BY <1>2, <1>3 DEF Init, ReplayGated, GatesOf, Increasing, Below
<1>5. Held
  BY <1>1, <1>3 DEF Init, Held
<1> QED BY <1>4, <1>5

\* The order of the replay is what GatedStream asks for.
LEMMA ReplayGates == TypeOK /\ ReplayGated => GatedStream
<1> SUFFICES ASSUME TypeOK, ReplayGated PROVE GatedStream
  OBVIOUS
<1>1. Replayed = ReplayOf(preGen, gen)
  BY DEF Replayed, ReplayOf
<1>2. PICK P, D, M \in Nat : Shape(preGen, gen, Replayed, P, D, M)
  BY <1>1, ReplayShape DEF TypeOK
<1>3. DOMAIN Replayed = 1 .. Len(Replayed)
  BY <1>2, LenProperties DEF Shape
<1>4. GatesOf(FirstSched, Replayed)
  BY <1>1 DEF ReplayGated
<1>5. \A p : BlockOf(p) = Block(FirstSched, p)
  BY DEF BlockOf, Block
<1> HIDE DEF Replayed
<1> QED BY <1>3, <1>4, <1>5 DEF GatedStream, GatesOf

\* A checkpoint of pre_gen replays every prompt behind the need_version of its
\* block, when generations do not fail or failures are ignored.  (A failure
\* that is not ignored drops the count of generations without acking its
\* prompt, so the barrier may ack the gate of a prompt that stays pending.)
THEOREM GatedStreamInvariant == (AllowErrors \/ ~GenMayFail) /\ Spec => []GatedStream
<1> SUFFICES ASSUME AllowErrors \/ ~GenMayFail
             PROVE  Spec => []GatedStream
  OBVIOUS
<1> DEFINE Inv == /\ TypeOK /\ Filling /\ GenOrdered /\ TrainOrdered
                  /\ cbAlive /\ ReplayGated /\ Held
<1>1. Init => Inv
  <2>1. Init => cbAlive
    BY DEF Init
  <2> QED BY <2>1, InitType, InitFilling, InitOrdered, InitReplay
<1>2. Inv /\ [Next]_vars => Inv'
  <2>1. cbAlive /\ [Next]_vars => cbAlive'
    BY DEF Next, Control, CtlOpen, CtlPop, CtlPut, CtlExhausted, CtlClose, CtlAdvance,
           Generation, GenPop, GenPend, GenNeed, GenSubmit, GenBarrier,
           Callback, CbDone, CbIgnoreError, CbRaise, Deliver, Finished, Trainer, Collecting,
           TrainRequest, TrainDeploy, TrainSynced, TrainCollect, TrainStep, TrainSave,
           TrainNoSave, vars
  <2> QED BY <2>1, StepType, StepFilling, StepGenOrdered, StepTrainOrdered, StepReplay
<1>3. Inv => GatedStream
  BY ReplayGates
<1> QED BY <1>1, <1>2, <1>3, PTL DEF Spec
-----------------------------------------------------------------------------
(* The blocks of a replay.                                                 *)

\* The block item i is of is closed in s.
TrainAfter(s, i) == \E m \in i + 1 .. Len(s) : s[m].t = "train"

\* Every gate in s is closed by a barrier, except that of block b if o; and no two
\* are of the same block, except, if d, of one that no barrier closes.
Blocked(s, b, o, d) ==
  /\ \A i \in 1 .. Len(s) : s[i].t = "need" => TrainAfter(s, i) \/ (o /\ s[i].b = b)
  /\ \A i, j \in 1 .. Len(s) : i < j /\ s[i].t = "need" /\ s[j].t = "need" =>
       \/ \E m \in i + 1 .. j - 1 : s[m].t = "train"
       \/ d /\ ~TrainAfter(s, i)

\* The source has ended, and no block will be closed any more.
NoMore ==
  /\ source > NumPrompts
  /\ \/ ctl.pc \in {"check", "exit"}
     \/ ctl.pc = "fill" /\ ctl.left = PromptPerIter /\ ctl.hand = NoItem

\* The last block is not closed yet, or will never be.
Unclosed == ctl.pc = "fill" \/ (ctl.pc \in {"check", "exit"} /\ source > NumPrompts)

\* flow.lock is the control worker's while it writes a block.
Locking ==
  /\ locked <=> ctl.pc \in {"fill", "advance"}
  /\ ctl.pc = "exit" => source > NumPrompts

\* Of the un-acked items, the newest alone may be one the generation worker waits
\* at; the gate of the block it is in was acked with no barrier yet.
PendingKinds ==
  /\ \A i \in 1 .. Len(preGen.pending) :
       /\ preGen.pending[i].t = "train" => gen.pc = "train" /\ i = Len(preGen.pending)
       /\ preGen.pending[i].t = "need" =>
            preGen.pending[i] = gen.needAck \/ (gen.pc = "need" /\ i = Len(preGen.pending))
  /\ gen.pc = "need" =>
       Len(preGen.pending) > 0 /\ preGen.pending[Len(preGen.pending)] = gen.item

\* What is un-acked is of a later block than what was passed on to training.
LaterPending ==
  /\ \A b \in Int, i \in 1 .. Len(preTrain.data) : preTrain.data[i] = Barrier(b) =>
       \A j \in 1 .. Len(preGen.pending) : b < Blk(FirstSched, preGen.pending[j])
  /\ \A j \in 1 .. Len(preGen.pending) : Collected <= Blk(FirstSched, preGen.pending[j])

\* The blocks of the replay are closed in order, and acked up to the open one.
Blocks ==
  /\ Blocked(ReplayOf(preGen, gen), sched, Unclosed, NoMore)
  /\ PendingKinds /\ LaterPending

\* A put adds to the last block, or closes it, or opens the next.
LEMMA BlockedBehind ==
  ASSUME NEW s, NEW x \in GenItem, NEW t, Behind(s, x, t),
         NEW b \in Int, NEW o, NEW d, Blocked(s, b, o, d)
  PROVE  /\ x.t = "prompt" => Blocked(t, b, o, d)
         /\ x.t = "train" /\ ~d => Blocked(t, b, FALSE, FALSE)
         /\ x = Need(b) /\ (o => d) => Blocked(t, b, TRUE, d)
<1> USE DEF Behind
<1>1. PICK n : n = Len(s)
  OBVIOUS
<1>2. /\ n \in Nat /\ Len(t) = n + 1 /\ t[n + 1] = x
      /\ \A i \in 1 .. n : t[i] = s[i]
      /\ x.t = "prompt" \/ x.t = "train" \/ x.t = "need"
  BY <1>1, ItemTypes DEF GenItem
<1>3. \A i \in 1 .. n : TrainAfter(t, i) <=> TrainAfter(s, i) \/ x.t = "train"
  <2> SUFFICES ASSUME NEW i \in 1 .. n
               PROVE  TrainAfter(t, i) <=> TrainAfter(s, i) \/ x.t = "train"
    OBVIOUS
  <2>1. \A m \in i + 1 .. n : m \in 1 .. n
    BY <1>2
  <2>2. \A m \in i + 1 .. n + 1 : m \in i + 1 .. n \/ m = n + 1
    BY <1>2
  <2>3. n + 1 \in i + 1 .. n + 1 /\ \A m \in i + 1 .. n : m \in i + 1 .. n + 1
    BY <1>2
  <2>4. TrainAfter(s, i) => TrainAfter(t, i)
    BY <1>1, <1>2, <2>1, <2>3 DEF TrainAfter
  <2>5. x.t = "train" => TrainAfter(t, i)
    BY <1>2, <2>3 DEF TrainAfter
  <2>6. TrainAfter(t, i) => TrainAfter(s, i) \/ x.t = "train"
    BY <1>1, <1>2, <2>1, <2>2 DEF TrainAfter
  <2> QED BY <2>4, <2>5, <2>6
<1>4. /\ \A i \in 1 .. n : s[i].t = "need" => TrainAfter(s, i) \/ (o /\ s[i].b = b)
      /\ \A i, j \in 1 .. n : i < j /\ s[i].t = "need" /\ s[j].t = "need" =>
           \/ \E m \in i + 1 .. j - 1 : s[m].t = "train"
           \/ d /\ ~TrainAfter(s, i)
  BY <1>1 DEF Blocked
<1>5. ASSUME NEW i \in 1 .. n, NEW j \in 1 .. n, i < j, t[i].t = "need", t[j].t = "need"
      PROVE  (\E m \in i + 1 .. j - 1 : t[m].t = "train") \/ (d /\ ~TrainAfter(s, i))
  <2>1. \A m \in i + 1 .. j - 1 : m \in 1 .. n
    BY <1>2
  <2> QED BY <1>2, <1>4, <1>5, <2>1
<1>6. \A i, j \in 1 .. n + 1 : i < j => i \in 1 .. n /\ (j \in 1 .. n \/ j = n + 1)
  BY <1>2
<1>7. ASSUME x.t = "prompt"
      PROVE  Blocked(t, b, o, d)
  <2>1. \A i \in 1 .. n + 1 : t[i].t = "need" => TrainAfter(t, i) \/ (o /\ t[i].b = b)
    <3> SUFFICES ASSUME NEW i \in 1 .. n + 1, t[i].t = "need"
                 PROVE  TrainAfter(t, i) \/ (o /\ t[i].b = b)
      OBVIOUS
    <3>1. i \in 1 .. n
      BY <1>2, <1>7
    <3> QED BY <1>2, <1>3, <1>4, <3>1
  <2>2. \A i, j \in 1 .. n + 1 : i < j /\ t[i].t = "need" /\ t[j].t = "need" =>
           \/ \E m \in i + 1 .. j - 1 : t[m].t = "train"
           \/ d /\ ~TrainAfter(t, i)
    <3> SUFFICES ASSUME NEW i \in 1 .. n + 1, NEW j \in 1 .. n + 1, i < j,
                        t[i].t = "need", t[j].t = "need"
                 PROVE  (\E m \in i + 1 .. j - 1 : t[m].t = "train") \/ (d /\ ~TrainAfter(t, i))
      OBVIOUS
    <3>1. i \in 1 .. n /\ j \in 1 .. n
      BY <1>2, <1>6, <1>7
    <3>2. TrainAfter(t, i) <=> TrainAfter(s, i)
      BY <1>3, <1>7, <3>1
    <3> QED BY <1>5, <3>1, <3>2
  <2> QED BY <1>2, <2>1, <2>2 DEF Blocked
<1>8. ASSUME x.t = "train", ~d
      PROVE  Blocked(t, b, FALSE, FALSE)
  <2>1. \A i \in 1 .. n + 1 : t[i].t = "need" => TrainAfter(t, i)
    <3> SUFFICES ASSUME NEW i \in 1 .. n + 1, t[i].t = "need"
                 PROVE  TrainAfter(t, i)
      OBVIOUS
    <3>1. i \in 1 .. n
      BY <1>2, <1>8
    <3> QED BY <1>3, <1>8, <3>1
  <2>2. \A i, j \in 1 .. n + 1 : i < j /\ t[i].t = "need" /\ t[j].t = "need" =>
           \E m \in i + 1 .. j - 1 : t[m].t = "train"
    <3> SUFFICES ASSUME NEW i \in 1 .. n + 1, NEW j \in 1 .. n + 1, i < j,
                        t[i].t = "need", t[j].t = "need"
                 PROVE  \E m \in i + 1 .. j - 1 : t[m].t = "train"
      OBVIOUS
    <3>1. i \in 1 .. n /\ j \in 1 .. n
      BY <1>2, <1>6, <1>8
    <3> QED BY <1>5, <1>8, <3>1
  <2> QED BY <1>2, <2>1, <2>2 DEF Blocked
<1>9. ASSUME x = Need(b), o => d
      PROVE  Blocked(t, b, TRUE, d)
  <2>0. x.t = "need" /\ x.b = b
    BY <1>9, ItemTypes DEF NeedItem
  <2>1. \A i \in 1 .. n + 1 : t[i].t = "need" => TrainAfter(t, i) \/ t[i].b = b
    <3> SUFFICES ASSUME NEW i \in 1 .. n + 1, t[i].t = "need"
                 PROVE  TrainAfter(t, i) \/ t[i].b = b
      OBVIOUS
    <3>1. CASE i \in 1 .. n
      BY <1>2, <1>3, <1>4, <3>1
    <3>2. CASE i = n + 1
      BY <1>2, <2>0, <3>2
    <3> QED BY <1>2, <3>1, <3>2
  <2>2. \A i, j \in 1 .. n + 1 : i < j /\ t[i].t = "need" /\ t[j].t = "need" =>
           \/ \E m \in i + 1 .. j - 1 : t[m].t = "train"
           \/ d /\ ~TrainAfter(t, i)
    <3> SUFFICES ASSUME NEW i \in 1 .. n + 1, NEW j \in 1 .. n + 1, i < j,
                        t[i].t = "need", t[j].t = "need"
                 PROVE  (\E m \in i + 1 .. j - 1 : t[m].t = "train") \/ (d /\ ~TrainAfter(t, i))
      OBVIOUS
    <3>1. i \in 1 .. n /\ (j \in 1 .. n \/ j = n + 1)
      BY <1>6
    <3>2. TrainAfter(t, i) <=> TrainAfter(s, i)
      BY <1>3, <2>0, <3>1
    <3>3. CASE j \in 1 .. n
      BY <1>5, <3>1, <3>2, <3>3
    <3>4. CASE j = n + 1
      <4>1. CASE TrainAfter(s, i)
        <5>1. PICK m \in i + 1 .. n : s[m].t = "train"
          BY <1>1, <4>1 DEF TrainAfter
        <5>2. m \in 1 .. n /\ m \in i + 1 .. j - 1
          BY <1>2, <3>1, <3>4, <5>1
        <5> QED BY <1>2, <5>1, <5>2
      <4>2. CASE ~TrainAfter(s, i)
        <5>1. o
          BY <1>2, <1>4, <3>1, <4>2
        <5> QED BY <1>9, <3>2, <4>2, <5>1
      <4> QED BY <4>1, <4>2
    <3> QED BY <3>1, <3>3, <3>4
  <2> QED BY <1>2, <2>1, <2>2 DEF Blocked
<1> QED BY <1>7, <1>8, <1>9

\* An acked prompt is of no account.
LEMMA BlockedClosed ==
  ASSUME NEW s \in Seq(GenItem), NEW k, NEW t, Closed(s, k, t), s[k].t = "prompt",
         NEW b, NEW o, NEW d, Blocked(s, b, o, d)
  PROVE  Blocked(t, b, o, d)
<1>1. PICK n : n = Len(s)
  OBVIOUS
<1>2. n \in Nat /\ k \in Int /\ 1 <= k /\ k <= n /\ Len(t) = n - 1
  BY <1>1, LenProperties DEF Closed
\* Where the items of t were.
<1>3. PICK at : at = [i \in 1 .. n - 1 |-> IF i < k THEN i ELSE i + 1]
  OBVIOUS
<1>4. \A i \in 1 .. n - 1 : at[i] \in 1 .. n /\ at[i] # k /\ t[i] = s[at[i]]
  BY <1>1, <1>2, <1>3 DEF Closed
<1>5. \A i, j \in 1 .. n - 1 : i < j <=> at[i] < at[j]
  BY <1>2, <1>3
<1>6. \A i \in 1 .. n : i # k => \E j \in 1 .. n - 1 : at[j] = i
  <2> SUFFICES ASSUME NEW i \in 1 .. n, i # k PROVE \E j \in 1 .. n - 1 : at[j] = i
    OBVIOUS
  <2>1. CASE i < k
    <3>1. i \in 1 .. n - 1 /\ at[i] = i
      BY <1>2, <1>3, <2>1
    <3> QED BY <3>1
  <2>2. CASE i > k
    <3>1. i - 1 \in 1 .. n - 1 /\ at[i - 1] = i
      BY <1>2, <1>3, <2>2
    <3> QED BY <3>1
  <2> QED BY <1>2, <2>1, <2>2
<1>7. ASSUME NEW i \in 1 .. n - 1
      PROVE  TrainAfter(t, i) <=> TrainAfter(s, at[i])
  <2>1. ASSUME NEW m \in i + 1 .. n - 1, t[m].t = "train"
        PROVE  TrainAfter(s, at[i])
    <3>1. m \in 1 .. n - 1 /\ i < m
      OBVIOUS
    <3>2. at[m] \in at[i] + 1 .. n
      BY <1>4, <1>5, <3>1
    <3> QED BY <1>1, <1>4, <2>1, <3>1, <3>2 DEF TrainAfter
  <2>2. ASSUME NEW m \in at[i] + 1 .. n, s[m].t = "train"
        PROVE  TrainAfter(t, i)
    <3>1. m \in 1 .. n /\ m # k /\ at[i] < m
      BY <1>4, <2>2
    <3>2. PICK j \in 1 .. n - 1 : at[j] = m
      BY <1>6, <3>1
    <3>3. j \in i + 1 .. n - 1
      BY <1>5, <3>1, <3>2
    <3> QED BY <1>2, <1>4, <2>2, <3>2, <3>3 DEF TrainAfter
  <2> QED BY <1>1, <1>2, <2>1, <2>2 DEF TrainAfter
<1>8. ASSUME NEW i \in 1 .. n - 1, t[i].t = "need"
      PROVE  TrainAfter(t, i) \/ (o /\ t[i].b = b)
  BY <1>1, <1>4, <1>7, <1>8 DEF Blocked
<1>9. ASSUME NEW i \in 1 .. n - 1, NEW j \in 1 .. n - 1, i < j, t[i].t = "need", t[j].t = "need"
      PROVE  (\E m \in i + 1 .. j - 1 : t[m].t = "train") \/ (d /\ ~TrainAfter(t, i))
  <2>1. at[i] \in 1 .. n /\ at[j] \in 1 .. n /\ at[i] < at[j]
        /\ s[at[i]].t = "need" /\ s[at[j]].t = "need"
    BY <1>4, <1>5, <1>9
  <2>2. CASE \E m \in at[i] + 1 .. at[j] - 1 : s[m].t = "train"
    <3>1. PICK m \in at[i] + 1 .. at[j] - 1 : s[m].t = "train"
      BY <2>2
    <3>20. PICK u \in 1 .. n, v \in 1 .. n : u = at[i] /\ v = at[j]
      BY <2>1
    <3>22. m \in u + 1 .. v - 1
      BY <3>20
    <3>21. m \in 1 .. n /\ u < m /\ m < v
      BY <1>2, <3>22
    <3>2. m \in 1 .. n /\ m # k /\ at[i] < m /\ m < at[j]
      BY <3>1, <3>20, <3>21
    <3>3. PICK h \in 1 .. n - 1 : at[h] = m
      BY <1>6, <3>2
    <3>4. i < h /\ h < j
      BY <1>5, <3>2, <3>3
    <3> QED BY <1>4, <3>1, <3>3, <3>4
  <2>3. CASE d /\ ~TrainAfter(s, at[i])
    BY <1>7, <2>3
  <2> QED BY <1>1, <2>1, <2>2, <2>3 DEF Blocked
<1> QED BY <1>2, <1>8, <1>9 DEF Blocked

\* What is left of a replay whose first items are acked is as well blocked.
LEMMA BlockedSuffix ==
  ASSUME NEW s \in Seq(GenItem), NEW k \in Nat, NEW t \in Seq(GenItem), Len(s) = k + Len(t),
         \A i \in 1 .. Len(t) : t[i] = s[k + i],
         NEW b, NEW o, NEW d, Blocked(s, b, o, d)
  PROVE  Blocked(t, b, o, d)
<1>1. PICK n \in Nat : n = Len(t)
  BY LenProperties
<1>2. Len(s) = k + n /\ \A i \in 1 .. n : k + i \in 1 .. k + n /\ t[i] = s[k + i]
  BY <1>1
<1>3. ASSUME NEW i \in 1 .. n
      PROVE  TrainAfter(t, i) <=> TrainAfter(s, k + i)
  <2>1. ASSUME NEW m \in i + 1 .. n, t[m].t = "train"
        PROVE  TrainAfter(s, k + i)
    <3>1. m \in 1 .. n /\ k + m \in (k + i) + 1 .. k + n
      OBVIOUS
    <3> QED BY <1>2, <2>1, <3>1 DEF TrainAfter
  <2>2. ASSUME NEW m \in (k + i) + 1 .. k + n, s[m].t = "train"
        PROVE  TrainAfter(t, i)
    <3>1. m - k \in i + 1 .. n /\ m - k \in 1 .. n /\ k + (m - k) = m
      OBVIOUS
    <3> QED BY <1>1, <1>2, <2>2, <3>1 DEF TrainAfter
  <2> QED BY <1>1, <1>2, <2>1, <2>2 DEF TrainAfter
<1>4. ASSUME NEW i \in 1 .. n, t[i].t = "need"
      PROVE  TrainAfter(t, i) \/ (o /\ t[i].b = b)
  BY <1>2, <1>3, <1>4 DEF Blocked
<1>5. ASSUME NEW i \in 1 .. n, NEW j \in 1 .. n, i < j, t[i].t = "need", t[j].t = "need"
      PROVE  (\E m \in i + 1 .. j - 1 : t[m].t = "train") \/ (d /\ ~TrainAfter(t, i))
  <2>1. /\ k + i \in 1 .. k + n /\ k + j \in 1 .. k + n /\ k + i < k + j
        /\ s[k + i].t = "need" /\ s[k + j].t = "need"
    BY <1>2, <1>5
  <2>2. CASE \E m \in (k + i) + 1 .. (k + j) - 1 : s[m].t = "train"
    <3>1. PICK m \in (k + i) + 1 .. (k + j) - 1 : s[m].t = "train"
      BY <2>2
    <3>2. m - k \in i + 1 .. j - 1 /\ m - k \in 1 .. n /\ k + (m - k) = m
      BY <3>1
    <3> QED BY <1>2, <3>1, <3>2
  <2>3. CASE d /\ ~TrainAfter(s, k + i)
    BY <1>3, <2>3
  <2> QED BY <1>2, <2>1, <2>2, <2>3 DEF Blocked
<1> QED BY <1>1, <1>4, <1>5 DEF Blocked

\* What the block a replay ends with may be taken for.
LEMMA BlockedWeaker ==
  ASSUME NEW s, NEW b, NEW o, NEW d, Blocked(s, b, o, d),
         NEW c, NEW e, NEW f, o => e /\ c = b, d => f
  PROVE  Blocked(s, c, e, f)
BY DEF Blocked

\* Nothing is blocked, held or passed on at first.
LEMMA InitBlocks == Init => Locking /\ Blocks
<1> SUFFICES ASSUME Init PROVE Locking /\ Blocks
  OBVIOUS
<1>1. preGen.pending = <<>> /\ preGen.data = <<>> /\ gen.pc = "pop" /\ preTrain.data = <<>>
  BY DEF Init, EmptyQueue
<1>2. ReplayOf(preGen, gen) = <<>>
  BY <1>1 DEF ReplayOf
<1>3. \A i \in 1 .. Len(<<>>) : FALSE
  OBVIOUS
<1>4. Blocked(<<>>, sched, Unclosed, NoMore)
  BY <1>3 DEF Blocked
<1>5. PendingKinds /\ LaterPending
  BY <1>1, <1>3 DEF PendingKinds, LaterPending
<1>6. Locking
  BY DEF Init, Locking
<1> QED BY <1>2, <1>4, <1>5, <1>6 DEF Blocks

\* The lock is held exactly while a block is written.
LEMMA StepLocking == TypeOK /\ Locking /\ [Next]_vars => Locking'
<1> SUFFICES ASSUME TypeOK, Locking, [Next]_vars PROVE Locking'
  OBVIOUS
<1>1. CASE CtlOpen \/ CtlPop \/ CtlPut \/ CtlClose \/ CtlAdvance \/ CtlExhausted
  BY <1>1 DEF Locking, TypeOK, CtlType, CtlOpen, CtlPop, CtlPut, CtlClose, CtlAdvance, CtlExhausted
<1>2. CASE ~Control
  <2>1. UNCHANGED <<ctl, locked, source>>
    BY <1>2 DEF Next, Generation, GenPop, GenPend, GenNeed, GenSubmit, GenBarrier,
       Callback, CbDone, CbIgnoreError, CbRaise, Deliver, Finished, Trainer, Collecting,
       TrainRequest, TrainDeploy, TrainSynced, TrainCollect, TrainStep, TrainSave,
       TrainNoSave, vars, ctlVars
  <2> QED BY <2>1 DEF Locking
<1> QED BY <1>1, <1>2 DEF Control

\* What the rest of Blocks is about stays when the pipeline does.
LEMMA SamePending ==
  ASSUME PendingKinds, LaterPending, FirstSched' = FirstSched, Collected' = Collected,
         preGen'.pending = preGen.pending, preTrain'.data = preTrain.data,
         gen'.pc = gen.pc, gen'.item = gen.item, gen'.needAck = gen.needAck
  PROVE  PendingKinds' /\ LaterPending'
<1>1. PendingKinds'
  BY DEF PendingKinds
<1>2. LaterPending'
  BY DEF LaterPending
<1> QED BY <1>1, <1>2

\* The control worker opens blocks, fills them and closes them.
LEMMA ControlBlocks ==
  ASSUME TypeOK, Filling, Locking, Blocks, Control
  PROVE  Blocks'
<1>0. /\ FirstSched' = FirstSched /\ FirstSched \in Int /\ preGen \in GenQueue /\ GenType(gen)
      /\ gen' = gen /\ sched \in Int /\ source \in Nat
      /\ preTrain' = preTrain /\ train' = train /\ trainer' = trainer
      /\ PromptPerIter > 0 /\ PromptPerIter \in Nat
  BY FirstSchedType, ConfigTypes DEF TypeOK, FirstSched, Control, CtlOpen, CtlPop, CtlPut, CtlExhausted,
     CtlClose, CtlAdvance, verVars, trainVars
<1>1. PICK r : r = ReplayOf(preGen, gen)
  OBVIOUS
<1>2. Blocked(r, sched, Unclosed, NoMore) /\ Unclosed \in BOOLEAN /\ NoMore \in BOOLEAN
  BY <1>1 DEF Blocks, Unclosed, NoMore
<1>3. /\ ctl.hand # NoItem => ctl.pc = "fill" /\ ctl.hand \in PromptItem
      /\ ctl.hand \in PromptItem => ctl.hand.t = "prompt" /\ ctl.hand \in GenItem
  BY ItemTypes DEF TypeOK, CtlType, GenItem
<1>4. Collected' = Collected
  BY <1>0 DEF Collected
\* A put.
<1>5. ASSUME NEW x \in GenItem, preGen' = Put(preGen, x)
      PROVE  /\ PendingKinds' /\ LaterPending'
             /\ Behind(r, x, ReplayOf(preGen', gen'))
  <2>1. preGen'.pending = preGen.pending
    BY <1>5 DEF Put, TypeOK, GenQueue
  <2>2. PendingKinds' /\ LaterPending'
    BY <1>0, <1>4, <2>1, SamePending DEF Blocks
  <2>3. Behind(r, x, ReplayOf(Put(preGen, x), gen))
    BY <1>0, <1>1, PutReplay
  <2> QED BY <1>0, <1>5, <2>2, <2>3
<1>6. CASE CtlOpen
  <2>1. /\ Need(sched) \in GenItem /\ preGen' = Put(preGen, Need(sched))
        /\ sched' = sched /\ source' = source /\ ctl.hand = NoItem /\ ctl'.hand = NoItem
        /\ ctl.pc = "check" /\ ctl'.pc = "fill" /\ ctl'.left = PromptPerIter
    BY <1>0, <1>3, <1>6, ItemTypes DEF CtlOpen, GenItem, TypeOK, CtlType
  <2>2. (Unclosed => NoMore) /\ (NoMore' <=> NoMore) /\ Unclosed'
    BY <2>1 DEF Unclosed, NoMore
  <2>3. PICK t : t = ReplayOf(preGen', gen')
    OBVIOUS
  <2>4. Behind(r, Need(sched), t) /\ PendingKinds' /\ LaterPending'
    BY <1>5, <2>1, <2>3
  <2>5. Blocked(t, sched, TRUE, NoMore)
    BY <1>0, <1>2, <2>1, <2>2, <2>4, BlockedBehind
  <2>6. Blocked(t, sched', Unclosed', NoMore')
    BY <2>1, <2>2, <2>5 DEF Blocked
  <2> QED BY <2>3, <2>4, <2>6 DEF Blocks
<1>7. CASE CtlPut
  <2>1. /\ ctl.hand # NoItem /\ preGen' = Put(preGen, ctl.hand)
        /\ sched' = sched /\ source' = source /\ ctl'.pc = ctl.pc
    BY <1>7 DEF CtlPut, TypeOK, CtlType
  <2>2. Unclosed' = Unclosed /\ ~NoMore
    BY <1>3, <2>1 DEF Unclosed, NoMore
  <2>3. PICK t : t = ReplayOf(preGen', gen')
    OBVIOUS
  <2>4. Behind(r, ctl.hand, t) /\ PendingKinds' /\ LaterPending'
    BY <1>3, <1>5, <2>1, <2>3
  <2>5. Blocked(t, sched, Unclosed, NoMore)
    BY <1>0, <1>2, <1>3, <2>1, <2>4, BlockedBehind
  <2>6. Blocked(t, sched', Unclosed', NoMore')
    BY <2>1, <2>2, <2>5, BlockedWeaker
  <2> QED BY <2>3, <2>4, <2>6 DEF Blocks
<1>8. CASE CtlClose
  <2>1. /\ Barrier(sched) \in GenItem /\ Barrier(sched).t = "train"
        /\ preGen' = Put(preGen, Barrier(sched)) /\ ctl.left = 0 /\ ctl.pc = "fill"
    BY <1>0, <1>8, ItemTypes DEF CtlClose, GenItem, Barrier
  <2>2. ~NoMore
    BY <1>0, <2>1 DEF NoMore
  <2>3. PICK t : t = ReplayOf(preGen', gen')
    OBVIOUS
  <2>4. Behind(r, Barrier(sched), t) /\ PendingKinds' /\ LaterPending'
    BY <1>5, <2>1, <2>3
  <2>50. Blocked(r, sched, TRUE, FALSE)
    BY <1>2, <2>2, BlockedWeaker
  <2>5. Blocked(t, sched, FALSE, FALSE)
    BY <1>0, <2>50, <2>1, <2>4, BlockedBehind
  <2>6. Blocked(t, sched', Unclosed', NoMore')
    BY <2>5, BlockedWeaker
  <2> QED BY <2>3, <2>4, <2>6 DEF Blocks
<1>9. CASE CtlPop \/ CtlExhausted \/ CtlAdvance
  <2>1. preGen' = preGen
    BY <1>9 DEF CtlPop, CtlExhausted, CtlAdvance
  <2>2. ReplayOf(preGen', gen') = r
    BY <1>0, <1>1, <2>1
  <2>3. PendingKinds' /\ LaterPending'
    BY <1>0, <1>4, <2>1, SamePending DEF Blocks
  <2>4. /\ Unclosed => Unclosed' /\ sched' = sched
        /\ NoMore => NoMore'
    <3>1. CASE CtlPop
      BY <1>0, <3>1, ConfigTypes DEF CtlPop, Unclosed, NoMore, TypeOK, CtlType
    <3>2. CASE CtlExhausted
      BY <3>2 DEF CtlExhausted, Unclosed, NoMore, TypeOK, CtlType
    <3>3. CASE CtlAdvance
      BY <3>3 DEF CtlAdvance, Unclosed, NoMore
    <3> QED BY <1>9, <3>1, <3>2, <3>3
  <2>5. Blocked(r, sched', Unclosed', NoMore')
    BY <1>2, <2>4, BlockedWeaker
  <2> QED BY <2>2, <2>3, <2>5 DEF Blocks
<1> QED BY <1>6, <1>7, <1>8, <1>9 DEF Control

\* When the generation worker passes a barrier on, nothing else is un-acked but the
\* gate of its block, and both are acked.
LEMMA BarrierAcksAll ==
  ASSUME TypeOK, TrainOrdered, Held, Blocks, GenBarrier
  PROVE  Len(preGen'.pending) = 0
<1>0. /\ preGen \in GenQueue /\ GenType(gen) /\ gen.pc = "train" /\ gen.item \in BarrierItem
      /\ gen.item.t = "train"
      /\ gen.needAck \in NeedItem \cup {NoItem} /\ gen.needAck.t # "train"
      /\ gen.item \in GenItem
  BY ItemTypes DEF TypeOK, GenType, GenBarrier, Held, GenItem
<1>1. PICK P : P = preGen.pending
  OBVIOUS
<1>2. P \in Seq(GenItem)
  BY <1>0, <1>1 DEF GenQueue
<1>3. PICK n \in Nat : n = Len(P)
  BY <1>2, LenProperties
<1>4. \A i \in 1 .. n : P[i] \in GenItem
  BY <1>2, <1>3, ElementOfSeq
<1>5. running = {}
  <2>1. gen.active = 0 /\ IsFiniteSet(running) /\ gen.active >= Cardinality(running)
    BY DEF GenBarrier, Drained, TrainOrdered
  <2>2. Cardinality(running) \in Nat
    BY <2>1, FS_CardinalityType
  <2>3. Cardinality(running) = 0
    BY <2>1, <2>2
  <2> QED BY <2>1, <2>3, FS_EmptySet
<1>6. \A i \in 1 .. n : P[i].t # "prompt"
  <2> SUFFICES ASSUME NEW i \in 1 .. n, P[i].t = "prompt" PROVE FALSE
    OBVIOUS
  <2>1. P[i] \in PromptItem
    BY <1>4, ItemTypes DEF GenItem
  <2>2. P[i] = Prompt(P[i].p) /\ P[i].p \in Nat \ {0}
    BY <2>1, ItemTypes
  <2> QED BY <1>0, <1>1, <1>3, <1>5, <2>2 DEF Held
<1>7. n > 0 /\ P[n] = gen.item
  BY <1>0, <1>1, <1>3 DEF Held
<1>8. \A i \in 1 .. n : i # n => P[i].t = "need" /\ P[i] = gen.needAck
  <2> SUFFICES ASSUME NEW i \in 1 .. n, i # n PROVE P[i].t = "need" /\ P[i] = gen.needAck
    OBVIOUS
  <2>1. P[i].t # "train" /\ (P[i].t = "need" => P[i] = gen.needAck)
    BY <1>0, <1>1, <1>3 DEF Blocks, PendingKinds
  <2>2. P[i].t \in {"prompt", "need", "train"}
    BY <1>4, ItemTypes DEF GenItem
  <2> QED BY <1>6, <2>1, <2>2
<1>9. n <= 2
  <2> SUFFICES ASSUME n > 2 PROVE FALSE
    OBVIOUS
  <2>1. PICK r : r = ReplayOf(preGen, gen)
    OBVIOUS
  <2>2. PICK Q, D, M \in Nat : Shape(preGen, gen, r, Q, D, M)
    BY <1>0, <2>1, ReplayShape
  <2>3. Q = n /\ Len(r) = n + M + D /\ \A i \in 1 .. n : r[i] = P[i]
    BY <1>1, <1>3, <2>2 DEF Shape
  <2>4. 1 \in 1 .. n /\ 2 \in 1 .. n /\ n \in 1 .. n /\ 1 # n /\ 2 # n
    OBVIOUS
  <2>5. r[1].t = "need" /\ r[2].t = "need" /\ r[n].t = "train"
    BY <1>0, <1>7, <1>8, <2>3, <2>4
  <2>6. PICK L \in Nat : L = Len(r) /\ n <= L
    BY <2>3
  <2>7. 1 \in 1 .. L /\ 2 \in 1 .. L /\ n \in 1 + 1 .. L
    BY <2>4, <2>6
  <2>8. TrainAfter(r, 1)
    BY <2>5, <2>6, <2>7 DEF TrainAfter
  <2>9. ~\E m \in 1 + 1 .. 2 - 1 : r[m].t = "train"
    OBVIOUS
  <2>10. Blocked(r, sched, Unclosed, NoMore)
    BY <2>1 DEF Blocks
  <2> QED BY <2>5, <2>6, <2>7, <2>8, <2>9, <2>10 DEF Blocked
<1>10. PICK u : u = Without(P, gen.needAck)
  OBVIOUS
<1>11. PICK w : w = Without(u, gen.item)
  OBVIOUS
<1>12. preGen'.pending = w
  BY <1>0, <1>1, <1>10, <1>11 DEF GenBarrier, Ack, GenQueue
<1>13. u \in Seq(GenItem)
  BY <1>2, <1>10, WithoutType
<1>14. Len(u) = 1 /\ u[1] = gen.item
  <2>1. CASE n = 1
    <3>1. P[1] # gen.needAck
      BY <1>0, <1>7, <2>1
    <3>2. ~\E k \in 1 .. Len(P) : P[k] = gen.needAck /\ Closed(P, k, u)
      BY <1>3, <2>1, <3>1
    <3>3. u = P
      BY <1>2, <1>10, <3>2, WithoutClosed
    <3> QED BY <1>3, <1>7, <2>1, <3>3
  <2>2. CASE n = 2
    <3>1. P[1] = gen.needAck /\ P[2] = gen.item /\ P[2] # gen.needAck
      BY <1>0, <1>7, <1>8, <2>2
    <3>0. Len(P) = 2 /\ 1 \in 1 .. Len(P)
      BY <1>3, <2>2
    <3>2. \E k \in 1 .. Len(P) : P[k] = gen.needAck /\ Closed(P, k, u)
      BY <1>2, <1>10, <3>0, <3>1, WithoutClosed
    <3>3. PICK k \in 1 .. 2 : P[k] = gen.needAck /\ Closed(P, k, u)
      BY <3>0, <3>2
    <3>4. k = 1
      BY <3>1, <3>3
    <3>5. Len(u) = 1 /\ u[1] = (IF 1 < 1 THEN P[1] ELSE P[1 + 1])
      BY <3>0, <3>3, <3>4 DEF Closed
    <3> QED BY <3>1, <3>5
  <2> QED BY <1>7, <1>9, <2>1, <2>2
<1>15. Len(w) = 0
  <2>1. \E k \in 1 .. Len(u) : u[k] = gen.item /\ Closed(u, k, w)
    BY <1>11, <1>13, <1>14, WithoutClosed
  <2> QED BY <1>14, <2>1 DEF Closed
<1> QED BY <1>12, <1>15

\* The generation worker takes the blocks one by one.
LEMMA GenerationBlocks ==
  ASSUME TypeOK, TrainOrdered, Reached, Held, Blocks, Generation
  PROVE  Blocks'
<1>0. /\ FirstSched' = FirstSched /\ preGen \in GenQueue /\ GenType(gen)
      /\ sched' = sched /\ source' = source /\ ctl' = ctl
      /\ train' = train /\ trainer' = trainer
  BY DEF TypeOK, FirstSched, Generation, GenPop, GenPend, GenNeed, GenSubmit,
     GenBarrier, ctlVars, verVars, trainVars
<1>t. GenType(gen')
  BY StepType DEF TypeOK, Next
<1>1. PICK r : r = ReplayOf(preGen, gen)
  OBVIOUS
<1>2. Blocked(r, sched, Unclosed, NoMore) /\ PendingKinds /\ LaterPending
  BY <1>1 DEF Blocks
<1>3. Collected' = Collected /\ (Unclosed' <=> Unclosed) /\ (NoMore' <=> NoMore)
  <2>1. Collected' = Collected
    BY <1>0 DEF Collected
  <2>2. Unclosed' <=> Unclosed
    BY <1>0 DEF Unclosed
  <2>3. NoMore' <=> NoMore
    BY <1>0 DEF NoMore
  <2> QED BY <2>1, <2>2, <2>3
<1>4. ASSUME NEW t, Blocked(t, sched, Unclosed, NoMore), t = ReplayOf(preGen', gen'),
             PendingKinds', LaterPending'
      PROVE  Blocks'
  <2>1. Blocked(t, sched', Unclosed', NoMore')
    BY <1>0, <1>3, <1>4 DEF Blocked
  <2> QED BY <1>4, <2>1 DEF Blocks
<1>5. ASSUME preGen'.pending = preGen.pending, preTrain' = preTrain
      PROVE  LaterPending'
  BY <1>0, <1>2, <1>3, <1>5 DEF LaterPending
<1>6. CASE GenPop
  <2>1. /\ preGen' = Pop(preGen) /\ preGen'.pending = preGen.pending /\ preTrain' = preTrain
        /\ gen.pc = "pop" /\ gen'.pc = "pend" /\ gen'.item = Peek(preGen)
        /\ gen'.needAck = gen.needAck /\ QLen(preGen) > 0
    BY <1>0, <1>6 DEF GenPop, Pop, GenQueue, TypeOK, GenType
  <2>2. ReplayOf(preGen', gen') = r
    BY <1>0, <1>1, <1>t, <2>1, GetReplay
  <2>3. PendingKinds'
    BY <1>2, <2>1 DEF PendingKinds
  <2> QED BY <1>2, <1>4, <1>5, <2>1, <2>2, <2>3
<1>7. CASE GenPend
  <2>1. /\ preGen' = Pend(preGen, gen.item) /\ preTrain' = preTrain
        /\ gen.pc = "pend" /\ gen'.pc = gen.item.t /\ gen'.item = gen.item
        /\ gen'.needAck = gen.needAck /\ gen.item \in GenItem
    BY <1>0, <1>7 DEF GenPend, TypeOK, GenType
  <2>2. gen'.pc # "pend"
    BY <2>1, ItemTypes DEF GenItem
  <2>3. ReplayOf(preGen', gen') = r
    BY <1>0, <1>1, <1>t, <2>1, <2>2, GetReplay
  <2>4. PICK s : s = preGen.pending
    OBVIOUS
  <2>5. s \in Seq(GenItem) /\ preGen'.pending = Append(s, gen.item)
    BY <1>0, <2>1, <2>4 DEF GenQueue, Pend
  <2>6. PICK n \in Nat : n = Len(s)
    BY <2>5, LenProperties
  <2>7. PICK w : w = preGen'.pending
    OBVIOUS
  <2>8. Len(w) = n + 1 /\ w[n + 1] = gen.item /\ \A i \in 1 .. n : w[i] = s[i]
    BY <2>1, <2>5, <2>6, <2>7, AppendProperties
  <2>9. PendingKinds'
    <3>1. ASSUME NEW i \in 1 .. n + 1
          PROVE  /\ w[i].t = "train" => gen'.pc = "train" /\ i = n + 1
                 /\ w[i].t = "need" => w[i] = gen'.needAck \/ (gen'.pc = "need" /\ i = n + 1)
      <4>1. CASE i \in 1 .. n
        BY <1>2, <2>1, <2>4, <2>6, <2>8, <4>1 DEF PendingKinds
      <4>2. CASE i = n + 1
        BY <2>1, <2>8, <4>2
      <4> QED BY <4>1, <4>2
    <3> QED BY <2>1, <2>7, <2>8, <3>1 DEF PendingKinds
  <2>10. LaterPending'
    <3>1. gen.item # NoItem
      BY <2>1, ItemTypes
    <3>2. Collected \in Int /\ Blk(FirstSched, gen.item) \in Int
      BY <2>1, FirstSchedType, BlockTypes DEF Collected, TypeOK
    <3>3. Collected <= Blk(FirstSched, gen.item)
      <4>1. Collected - 1 < Blk(FirstSched, gen.item)
        BY <3>1 DEF Reached, Later
      <4> QED BY <3>2, <4>1
    <3>4. ASSUME NEW b \in Int, NEW i \in 1 .. Len(preTrain.data), preTrain.data[i] = Barrier(b)
          PROVE  \A j \in 1 .. n + 1 : b < Blk(FirstSched, w[j])
      <4>1. b < Blk(FirstSched, gen.item)
        BY <3>1, <3>4 DEF TrainOrdered, Later
      <4>2. \A j \in 1 .. n : b < Blk(FirstSched, w[j])
        BY <1>2, <2>4, <2>6, <2>8, <3>4 DEF LaterPending
      <4> QED BY <2>8, <4>1, <4>2
    <3>5. \A j \in 1 .. n + 1 : Collected <= Blk(FirstSched, w[j])
      <4>1. \A j \in 1 .. n : Collected <= Blk(FirstSched, w[j])
        BY <1>2, <2>4, <2>6, <2>8 DEF LaterPending
      <4> QED BY <2>8, <3>3, <4>1
    <3> QED BY <1>0, <1>3, <2>1, <2>7, <2>8, <3>4, <3>5 DEF LaterPending
  <2> QED BY <1>2, <1>4, <2>3, <2>9, <2>10
<1>8. CASE GenNeed
  <2>1. /\ preGen' = preGen /\ preTrain' = preTrain
        /\ gen.pc = "need" /\ gen'.pc = "pop" /\ gen'.needAck = gen.item
    BY <1>8 DEF GenNeed, TypeOK, GenType
  <2>2. ReplayOf(preGen', gen') = r
    BY <1>1, <2>1 DEF ReplayOf
  <2>3. PICK s : s = preGen.pending
    OBVIOUS
  <2>4. s \in Seq(GenItem)
    BY <1>0, <2>3 DEF GenQueue
  <2>5. PICK n \in Nat : n = Len(s)
    BY <2>4, LenProperties
  <2>6. n > 0 /\ s[n] = gen.item
    BY <1>2, <2>1, <2>3, <2>5 DEF PendingKinds
  <2>7. \A i \in 1 .. n : s[i].t # "train" /\ s[i] \in GenItem
    BY <1>2, <2>1, <2>3, <2>4, <2>5, ElementOfSeq DEF PendingKinds
  <2>8. ASSUME NEW i \in 1 .. n, s[i].t = "need"
        PROVE  s[i] = gen.item
    <3>1. CASE i = n
      BY <2>6, <3>1
    <3>2. CASE i # n
      <4>1. PICK Q, D, M \in Nat : Shape(preGen, gen, r, Q, D, M)
        BY <1>0, <1>1, ReplayShape
      <4>2. Q = n /\ Len(r) = n + M + D /\ \A k \in 1 .. n : r[k] = s[k]
        BY <2>3, <2>5, <4>1 DEF Shape
      <4>3. PICK L \in Nat : L = Len(r) /\ n <= L
        BY <4>2
      <4>4. i \in 1 .. L /\ n \in 1 .. L /\ n \in 1 .. n /\ i < n
        BY <2>6, <3>2, <4>3
      <4>5. s[n].t = "need"
        BY <1>0, <2>1, <2>6 DEF GenType
      <4>6. r[i].t = "need" /\ r[n].t = "need" /\ r[i] = s[i] /\ r[n] = s[n]
        BY <2>8, <4>2, <4>4, <4>5
      <4>7. ~\E m \in i + 1 .. n - 1 : r[m].t = "train"
        <5>1. \A m \in i + 1 .. n - 1 : m \in 1 .. n
          OBVIOUS
        <5> QED BY <2>7, <4>2, <5>1
      <4>8. ~TrainAfter(r, i)
        BY <1>2, <4>3, <4>4, <4>6, <4>7 DEF Blocked
      <4>9. ~TrainAfter(r, n)
        <5>1. \A m \in n + 1 .. L : m \in i + 1 .. L
          BY <4>4
        <5> QED BY <4>3, <4>8, <5>1 DEF TrainAfter
      <4>10. r[i].b = sched /\ r[n].b = sched
        BY <1>2, <4>3, <4>4, <4>6, <4>8, <4>9 DEF Blocked
      <4>11. s[i] \in NeedItem /\ s[n] \in NeedItem
        BY <2>7, <2>8, <4>4, <4>5, ItemTypes DEF GenItem
      <4>12. s[i] = Need(s[i].b) /\ s[n] = Need(s[n].b)
        BY <4>11, ItemTypes
      <4> QED BY <2>6, <4>6, <4>10, <4>12
    <3> QED BY <3>1, <3>2
  <2>9. PendingKinds'
    BY <2>1, <2>3, <2>5, <2>7, <2>8 DEF PendingKinds
  <2> QED BY <1>2, <1>4, <1>5, <2>1, <2>2, <2>9
<1>9. CASE GenSubmit
  <2>1. /\ preGen' = preGen /\ preTrain' = preTrain
        /\ gen.pc = "prompt" /\ gen'.pc = "pop" /\ gen'.needAck = gen.needAck
    BY <1>9 DEF GenSubmit, TypeOK, GenType
  <2>2. ReplayOf(preGen', gen') = r
    BY <1>1, <2>1 DEF ReplayOf
  <2>3. PendingKinds'
    BY <1>2, <2>1 DEF PendingKinds
  <2> QED BY <1>2, <1>4, <1>5, <2>1, <2>2, <2>3
<1>10. CASE GenBarrier
  <2>1. /\ preGen' = Ack(Ack(preGen, gen.needAck), gen.item)
        /\ gen.pc = "train" /\ gen'.pc = "pop"
    BY <1>10 DEF GenBarrier, TypeOK, GenType
  <2>2. preGen' \in GenQueue /\ preGen'.data = preGen.data
    <3>1. preGen' \in GenQueue
      BY StepType DEF TypeOK, Next
    <3> QED BY <2>1, <3>1 DEF Ack
  <2>3. Len(preGen'.pending) = 0
    BY <1>10, BarrierAcksAll
  <2>4. PICK t : t = ReplayOf(preGen', gen')
    OBVIOUS
  <2>5. PICK P, D, M \in Nat : Shape(preGen, gen, r, P, D, M)
    BY <1>0, <1>1, ReplayShape
  <2>6. PICK P2, D2, M2 \in Nat : Shape(preGen', gen', t, P2, D2, M2)
    BY <1>t, <2>2, <2>4, ReplayShape
  <2>7. M = 0 /\ M2 = 0 /\ P2 = 0 /\ D2 = D
    BY <2>1, <2>2, <2>3, <2>5, <2>6 DEF Shape
  <2>8. /\ r \in Seq(GenItem) /\ Len(r) = P + M + D
        /\ \A i \in P + M + 1 .. P + M + D : r[i] = preGen.data[i - (P + M)]
    BY <2>5 DEF Shape
  <2>9. /\ t \in Seq(GenItem) /\ Len(t) = P2 + M2 + D2
        /\ \A i \in P2 + M2 + 1 .. P2 + M2 + D2 : t[i] = preGen.data[i - (P2 + M2)]
    BY <2>2, <2>6 DEF Shape
  <2>10. Len(r) = P + D /\ Len(t) = D
    BY <2>7, <2>8, <2>9
  <2>11. ASSUME NEW i \in 1 .. D
         PROVE  t[i] = r[P + i]
    <3>1. t[i] = preGen.data[i]
      <4>1. i \in P2 + M2 + 1 .. P2 + M2 + D2 /\ i - (P2 + M2) = i
        BY <2>7
      <4> QED BY <2>9, <4>1
    <3>2. r[P + i] = preGen.data[i]
      <4>1. P + i \in P + M + 1 .. P + M + D /\ (P + i) - (P + M) = i
        BY <2>7
      <4> QED BY <2>8, <4>1
    <3> QED BY <3>1, <3>2
  <2>12. Blocked(t, sched, Unclosed, NoMore)
    <3>1. Len(r) = P + Len(t) /\ \A i \in 1 .. Len(t) : t[i] = r[P + i]
      BY <2>10, <2>11
    <3> QED BY <1>2, <2>8, <2>9, <3>1, BlockedSuffix
  <2>13. PendingKinds' /\ LaterPending'
    <3>1. \A i \in 1 .. Len(preGen'.pending) : FALSE
      BY <2>3
    <3> QED BY <2>1, <3>1 DEF PendingKinds, LaterPending
  <2> QED BY <1>4, <2>4, <2>12, <2>13
<1> QED BY <1>6, <1>7, <1>8, <1>9, <1>10 DEF Generation

\* A delivered rollout takes its prompt out of what is un-acked.
LEMMA DeliverBlocks ==
  ASSUME TypeOK, Blocks, NEW x \in running, Deliver(x)
  PROVE  Blocks'
<1>0. /\ FirstSched' = FirstSched /\ preGen \in GenQueue /\ GenType(gen)
      /\ sched' = sched /\ source' = source /\ ctl' = ctl
      /\ train' = train /\ trainer' = trainer
      /\ gen'.pc = gen.pc /\ gen'.item = gen.item /\ gen'.needAck = gen.needAck
      /\ preGen' = Ack(preGen, Prompt(x.p)) /\ preTrain' = Put(preTrain, Rollout(x.p, x.seen))
      /\ preTrain \in [data : Seq(TrainItem), pending : Seq(TrainItem)]
      /\ Rollout(x.p, x.seen) \in TrainItem
  BY ItemTypes DEF TypeOK, FirstSched, Deliver, ctlVars, verVars, trainVars, GenType, Generated,
     TrainQueue, TrainItem
<1>1. PICK r : r = ReplayOf(preGen, gen)
  OBVIOUS
<1>2. Blocked(r, sched, Unclosed, NoMore) /\ PendingKinds /\ LaterPending
  BY <1>1 DEF Blocks
<1>3. Collected' = Collected
  BY <1>0 DEF Collected
<1>4. (Unclosed' <=> Unclosed) /\ (NoMore' <=> NoMore)
  <2>1. Unclosed' <=> Unclosed
    BY <1>0 DEF Unclosed
  <2>2. NoMore' <=> NoMore
    BY <1>0 DEF NoMore
  <2> QED BY <2>1, <2>2
<1>5. PICK t : t = ReplayOf(preGen', gen')
  OBVIOUS
<1>6. t = ReplayOf(Ack(preGen, Prompt(x.p)), gen)
  BY <1>0, <1>5 DEF ReplayOf
<1>7. PICK s : s = preGen.pending
  OBVIOUS
<1>8. PICK w : w = preGen'.pending
  OBVIOUS
<1>9. \/ t = r /\ w = s
      \/ \E k \in 1 .. Len(s) : s[k] = Prompt(x.p) /\ Closed(r, k, t) /\ Closed(s, k, w)
  BY <1>0, <1>1, <1>6, <1>7, <1>8, AckReplay
<1>10. s \in Seq(GenItem)
  BY <1>0, <1>7 DEF GenQueue
<1>11. PICK n \in Nat : n = Len(s)
  BY <1>10, LenProperties
<1>12. Blocked(t, sched, Unclosed, NoMore)
  <2>1. ASSUME NEW k \in 1 .. n, s[k] = Prompt(x.p), Closed(r, k, t)
        PROVE  Blocked(t, sched, Unclosed, NoMore)
    <3>1. PICK P, D, M \in Nat : Shape(preGen, gen, r, P, D, M)
      BY <1>0, <1>1, ReplayShape
    <3>2. r \in Seq(GenItem) /\ r[k] = s[k]
      BY <1>7, <1>11, <3>1 DEF Shape
    <3>3. r[k].t = "prompt"
      BY <2>1, <3>2 DEF Prompt
    <3> QED BY <1>2, <2>1, <3>2, <3>3, BlockedClosed
  <2> QED BY <1>2, <1>9, <1>11, <2>1
<1>13. PendingKinds'
  <2>1. CASE w = s
    BY <1>0, <1>2, <1>7, <1>8, <2>1 DEF PendingKinds
  <2>2. CASE \E k \in 1 .. n : s[k] = Prompt(x.p) /\ Closed(s, k, w)
    <3>1. PICK k \in 1 .. n : s[k] = Prompt(x.p) /\ Closed(s, k, w)
      BY <2>2
    <3>2. Len(w) = n - 1 /\ \A i \in 1 .. n - 1 : w[i] = (IF i < k THEN s[i] ELSE s[i + 1])
      BY <1>11, <3>1 DEF Closed
    <3>3. s[k].t = "prompt"
      BY <3>1 DEF Prompt
    <3>4. \A i \in 1 .. n :
             /\ s[i].t = "train" => gen.pc = "train" /\ i = n
             /\ s[i].t = "need" => s[i] = gen.needAck \/ (gen.pc = "need" /\ i = n)
      BY <1>2, <1>7, <1>11 DEF PendingKinds
    <3>5. ASSUME NEW i \in 1 .. n - 1
          PROVE  /\ w[i].t = "train" => gen.pc = "train" /\ i = n - 1
                 /\ w[i].t = "need" => w[i] = gen.needAck \/ (gen.pc = "need" /\ i = n - 1)
      <4>1. CASE i < k
        <5>1. w[i] = s[i] /\ i \in 1 .. n /\ i # n
          BY <3>2, <4>1
        <5> QED BY <3>4, <5>1
      <4>2. CASE ~(i < k)
        <5>1. w[i] = s[i + 1] /\ i + 1 \in 1 .. n /\ (i + 1 = n => i = n - 1)
          BY <3>2, <4>2
        <5> QED BY <3>4, <5>1
      <4> QED BY <4>1, <4>2
    <3>6. gen.pc = "need" => Len(w) > 0 /\ w[Len(w)] = gen.item
      <4> SUFFICES ASSUME gen.pc = "need" PROVE Len(w) > 0 /\ w[Len(w)] = gen.item
        OBVIOUS
      <4>1. n > 0 /\ s[n] = gen.item /\ gen.item.t = "need"
        BY <1>0, <1>2, <1>7, <1>11 DEF PendingKinds, GenType
      <4>2. k # n
        BY <3>3, <4>1
      <4>3. n - 1 \in 1 .. n - 1 /\ ~(n - 1 < k) /\ (n - 1) + 1 = n
        BY <4>2
      <4>4. w[n - 1] = s[(n - 1) + 1]
        BY <3>2, <4>3
      <4> QED BY <3>2, <4>1, <4>3, <4>4
    <3> QED BY <1>0, <1>8, <3>2, <3>5, <3>6 DEF PendingKinds
  <2> QED BY <1>9, <1>11, <2>1, <2>2
<1>14. LaterPending'
  <2>1. \A i \in 1 .. Len(w) : \E j \in 1 .. n : w[i] = s[j]
    <3>1. PICK y : y = Prompt(x.p)
      OBVIOUS
    <3>2. w = Ack(preGen, y).pending
      BY <1>0, <1>8, <3>1
    <3>3. \A i \in 1 .. Len(w) : \E j \in 1 .. Len(preGen.pending) : w[i] = preGen.pending[j]
      BY <1>0, <3>2, AckPending
    <3> QED BY <1>7, <1>11, <3>3
  <2>2. \A b : Rollout(x.p, x.seen) # Barrier(b)
    BY DEF Rollout, Barrier
  <2>3. PICK m \in Nat : m = Len(preTrain.data)
    BY <1>0, LenProperties
  <2>4. /\ Len(preTrain'.data) = m + 1
        /\ \A i \in 1 .. m : preTrain'.data[i] = preTrain.data[i]
        /\ preTrain'.data[m + 1] = Rollout(x.p, x.seen)
    BY <1>0, <2>3, PutShape
  <2>5. ASSUME NEW b \in Int, NEW i \in 1 .. m + 1, preTrain'.data[i] = Barrier(b),
               NEW j \in 1 .. Len(w)
        PROVE  b < Blk(FirstSched, w[j])
    <3>1. i \in 1 .. m
      BY <2>2, <2>4, <2>5
    <3>2. PICK h \in 1 .. n : w[j] = s[h]
      BY <2>1
    <3> QED BY <1>2, <1>7, <1>11, <2>3, <2>4, <2>5, <3>1, <3>2 DEF LaterPending
  <2>6. ASSUME NEW j \in 1 .. Len(w)
        PROVE  Collected <= Blk(FirstSched, w[j])
    <3>1. PICK h \in 1 .. n : w[j] = s[h]
      BY <2>1
    <3> QED BY <1>2, <1>7, <1>11, <3>1 DEF LaterPending
  <2> QED BY <1>0, <1>3, <1>8, <2>4, <2>5, <2>6 DEF LaterPending
<1>15. Blocked(t, sched', Unclosed', NoMore')
  BY <1>0, <1>4, <1>12 DEF Blocked
<1> QED BY <1>5, <1>13, <1>14, <1>15 DEF Blocks

\* The trainer moves on when it takes a barrier, and what is un-acked is of a later
\* block than the barrier.
LEMMA TrainerBlocks ==
  ASSUME TypeOK, Reached, Blocks, Trainer \/ Finished \/ UNCHANGED vars
  PROVE  Blocks'
<1>0. /\ FirstSched' = FirstSched /\ FirstSched \in Int /\ preGen \in GenQueue
      /\ sched' = sched /\ source' = source /\ ctl' = ctl /\ gen' = gen /\ preGen' = preGen
      /\ preTrain \in [data : Seq(TrainItem), pending : Seq(TrainItem)]
  BY FirstSchedType DEF TypeOK, FirstSched, TrainQueue, Trainer, Collecting, TrainRequest, TrainDeploy,
     TrainSynced, TrainCollect, TrainStep, TrainSave, TrainNoSave, Finished, vars, ctlVars
<1>1. Collected' = IF TrainCollect /\ Peek(preTrain).t = "train" THEN Collected + 1 ELSE Collected
  BY CollectedStep DEF Next
<1>2. Blocked(ReplayOf(preGen, gen), sched, Unclosed, NoMore) /\ PendingKinds /\ LaterPending
  BY DEF Blocks
<1>3. Blocked(ReplayOf(preGen', gen'), sched', Unclosed', NoMore')
  <2>1. Unclosed' <=> Unclosed
    BY <1>0 DEF Unclosed
  <2>2. NoMore' <=> NoMore
    BY <1>0 DEF NoMore
  <2>3. PICK r : r = ReplayOf(preGen, gen)
    OBVIOUS
  <2>4. Blocked(r, sched', Unclosed', NoMore')
    BY <1>0, <1>2, <2>1, <2>2, <2>3 DEF Blocked
  <2> QED BY <1>0, <2>3, <2>4
<1>4. PendingKinds'
  BY <1>0, <1>2 DEF PendingKinds
<1>5. CASE TrainCollect
  <2>1. PICK n \in Nat : n = Len(preTrain.data)
    BY <1>0, LenProperties
  <2>2. /\ n > 0 /\ Len(preTrain'.data) = n - 1
        /\ \A i \in 1 .. n - 1 : preTrain'.data[i] = preTrain.data[i + 1]
        /\ Peek(preTrain) = preTrain.data[1] /\ Peek(preTrain) \in TrainItem
    BY <1>0, <1>5, <2>1, PopShape DEF TrainCollect, Get, Pend, Pop
  <2>3. ASSUME NEW b \in Int, NEW i \in 1 .. n - 1, preTrain'.data[i] = Barrier(b),
               NEW j \in 1 .. Len(preGen.pending)
        PROVE  b < Blk(FirstSched, preGen.pending[j])
    <3>1. i + 1 \in 1 .. n /\ preTrain.data[i + 1] = Barrier(b)
      BY <2>2, <2>3
    <3> QED BY <1>2, <2>1, <3>1 DEF LaterPending
  <2>4. ASSUME NEW j \in 1 .. Len(preGen.pending)
        PROVE  Collected' <= Blk(FirstSched, preGen.pending[j])
    <3>1. Collected <= Blk(FirstSched, preGen.pending[j])
      BY <1>2 DEF LaterPending
    <3>2. CASE Peek(preTrain).t = "train"
      <4>1. PICK b \in Int : Peek(preTrain) = Barrier(b)
        BY <2>2, <3>2, ItemTypes DEF TrainItem
      <4>2. 1 \in 1 .. n
        BY <2>2
      <4>3. b < Blk(FirstSched, preGen.pending[j])
        BY <1>2, <2>1, <2>2, <4>1, <4>2 DEF LaterPending
      <4>4. Blk(FirstSched, Barrier(b)) = b
        BY ItemTypes, BlockTypes, FirstSchedType, <1>0 DEF Blk, Barrier
      <4>5. Collected <= b
        BY <2>1, <2>2, <4>1, <4>2, <4>4 DEF Reached
      <4>6. preGen.pending[j] \in GenItem
        <5>1. preGen.pending \in Seq(GenItem)
          BY <1>0 DEF GenQueue
        <5> QED BY <5>1, ElementOfSeq, LenProperties
      <4>7. Blk(FirstSched, preGen.pending[j]) \in Int /\ Collected \in Int
        <5>1. Blk(FirstSched, preGen.pending[j]) \in Int
          BY <1>0, <4>6, BlockTypes
        <5>2. Collected \in Int
          BY CollectedStep DEF Next
        <5> QED BY <5>1, <5>2
      <4> QED BY <1>1, <1>5, <3>2, <4>3, <4>5, <4>7
    <3>3. CASE Peek(preTrain).t # "train"
      BY <1>1, <3>1, <3>3
    <3> QED BY <3>2, <3>3
  <2>5. LaterPending'
    BY <1>0, <2>2, <2>3, <2>4 DEF LaterPending
  <2> QED BY <1>3, <1>4, <2>5 DEF Blocks
<1>6. CASE ~TrainCollect
  <2>1. preTrain'.data = preTrain.data
    BY <1>0, <1>6 DEF Trainer, Collecting, TrainRequest, TrainDeploy, TrainSynced, TrainStep, TrainSave,
       TrainNoSave, Finished, vars, WeightDumped
  <2>2. LaterPending'
    BY <1>0, <1>1, <1>2, <1>6, <2>1 DEF LaterPending
  <2> QED BY <1>3, <1>4, <2>2 DEF Blocks
<1> QED BY <1>5, <1>6

\* As long as the callback thread lives, the blocks stay whole.
LEMMA StepBlocks ==
  ASSUME cbAlive', TypeOK, Filling, Locking, TrainOrdered, Reached, Held, Blocks, [Next]_vars
  PROVE  Blocks'
<1>1. CASE Control
  BY <1>1, ControlBlocks
<1>2. CASE Generation
  BY <1>2, GenerationBlocks
<1>3. CASE Callback
  <2>1. PICK x \in running : Deliver(x)
    BY <1>3 DEF Callback, CbDone, CbIgnoreError, CbRaise
  <2> QED BY <2>1, DeliverBlocks
<1>4. CASE Trainer \/ Finished \/ UNCHANGED vars
  BY <1>4, TrainerBlocks
<1> QED BY <1>1, <1>2, <1>3, <1>4 DEF Next
-----------------------------------------------------------------------------
(* The whole invariant of the flow.                                        *)

\* What holds whatever generations do, ...
Flowing ==
  /\ TypeOK /\ Filling /\ Locking /\ GenOrdered /\ TrainOrdered /\ Reached
  /\ Versions /\ Gated /\ Seen /\ FreshRollouts

\* ... and what holds as long as the callback thread lives.
Streaming == ReplayGated /\ Held /\ Blocks

\* The initial states.
LEMMA InitFlowing == Init => Flowing /\ Streaming
BY InitType, InitFilling, InitBlocks, InitOrdered, InitFresh, InitReplay DEF Flowing, Streaming

\* The steps of the flow.
LEMMA StepFlowing ==
  Flowing /\ (cbAlive => Streaming) /\ [Next]_vars => Flowing' /\ (cbAlive' => Streaming')
<1> SUFFICES ASSUME Flowing, cbAlive => Streaming, [Next]_vars
             PROVE  Flowing' /\ (cbAlive' => Streaming')
  OBVIOUS
<1>1. Flowing'
  BY StepType, StepFilling, StepLocking, StepGenOrdered, StepTrainOrdered, StepReached,
     StepVersions, StepGated, StepSeen, StepFreshRollouts DEF Flowing
<1>2. cbAlive' => cbAlive
  BY DEF Next, Control, CtlOpen, CtlPop, CtlPut, CtlExhausted, CtlClose, CtlAdvance,
         Generation, GenPop, GenPend, GenNeed, GenSubmit, GenBarrier,
         Callback, CbDone, CbIgnoreError, CbRaise, Deliver, Finished, Trainer, Collecting,
         TrainRequest, TrainDeploy, TrainSynced, TrainCollect, TrainStep, TrainSave,
         TrainNoSave, vars
<1>3. ASSUME cbAlive' PROVE Streaming'
  BY <1>2, <1>3, StepReplay, StepBlocks DEF Flowing, Streaming
<1> QED BY <1>1, <1>3

\* The two steps of the trainer at the ends of save_checkpoint().
SaveStep ==
  /\ \/ trainer.pc = "after" /\ trainer' = [trainer EXCEPT !.pc = "snapshot"]
     \/ trainer.pc = "snapshot" /\ trainer' = [trainer EXCEPT !.pc = "idle"]
  /\ preTrain' = preTrain \/ preTrain' = WeightDumped
  /\ UNCHANGED <<strategy, ctlVars, verVars, preGen, gen, running, cbAlive, log>>

\* save_checkpoint() moves nothing through the pipeline.
LEMMA SaveKeeps ==
  Flowing /\ (cbAlive => Streaming) /\ SaveStep => Flowing' /\ (cbAlive' => Streaming')
<1> SUFFICES ASSUME Flowing, cbAlive => Streaming, SaveStep
             PROVE  Flowing' /\ (cbAlive' => Streaming')
  OBVIOUS
<1>1. /\ UNCHANGED <<strategy, sched, source, locked, ctl, train, infer, served, preGen, gen,
                     running, cbAlive, log>>
      /\ FirstSched' = FirstSched
  BY DEF SaveStep, ctlVars, verVars, FirstSched
<1>2. preTrain' \in TrainQueue /\ preTrain'.data = preTrain.data
  BY EmptySeq DEF SaveStep, WeightDumped, Flowing, TypeOK, TrainQueue
<1>3. /\ trainer' \in TrainerType /\ trainer'.batch = trainer.batch
      /\ trainer.pc \in {"after", "snapshot"} /\ trainer'.pc \in {"snapshot", "idle"}
  BY DEF SaveStep, Flowing, TypeOK, TrainerType
<1>4. Collected' = Collected
  BY <1>1, <1>3 DEF Collected
<1>5. TypeOK'
  BY <1>1, <1>2, <1>3 DEF Flowing, TypeOK
<1>6. Filling' /\ Locking'
  BY <1>1 DEF Flowing, Filling, Locking, BlockStart, Spent
<1>7. GenOrdered' /\ TrainOrdered' /\ Reached'
  <2>1. Ahead' = Ahead
    BY <1>1 DEF Ahead
  <2>2. \A b : Later(b)' <=> Later(b)
    BY <1>1, <2>1 DEF Later
  <2>3. GenOrdered'
    BY <1>1, <2>1 DEF Flowing, GenOrdered
  <2>4. TrainOrdered'
    BY <1>1, <1>2, <2>2 DEF Flowing, TrainOrdered
  <2>5. Later(Collected - 1)'
    BY <1>4, <2>2 DEF Flowing, Reached
  <2>6. Reached'
    BY <1>1, <1>2, <1>3, <1>4, <2>5 DEF Flowing, Reached
  <2> QED BY <2>3, <2>4, <2>6
<1>8. Versions'
  BY <1>1, <1>3 DEF Flowing, Versions
<1>9. Gated'
  BY <1>1 DEF Flowing, Gated, Open
<1>10. Seen'
  BY <1>1, <1>2, <1>3 DEF Flowing, Seen
<1>11. FreshRollouts'
  BY <1>1 DEF Flowing, FreshRollouts
<1>12. ASSUME cbAlive' PROVE Streaming'
  <2>1. ReplayGated /\ Held /\ Blocks
    BY <1>1, <1>12 DEF Streaming
  <2>2. ReplayGated' /\ Held'
    BY <1>1, <2>1 DEF ReplayGated, Held
  <2>3. PendingKinds'
    BY <1>1, <2>1 DEF Blocks, PendingKinds
  <2>4. LaterPending'
    BY <1>1, <1>2, <1>4, <2>1 DEF Blocks, LaterPending
  <2>5. (Unclosed' <=> Unclosed) /\ (NoMore' <=> NoMore)
    <3>1. Unclosed' <=> Unclosed
      BY <1>1 DEF Unclosed
    <3>2. NoMore' <=> NoMore
      BY <1>1 DEF NoMore
    <3> QED BY <3>1, <3>2
  <2>6. PICK r : r = ReplayOf(preGen, gen)
    OBVIOUS
  <2>7. Blocked(r, sched', Unclosed', NoMore')
    BY <1>1, <2>1, <2>5, <2>6 DEF Blocks, Blocked
  <2>8. r = ReplayOf(preGen', gen')
    BY <1>1, <2>6
  <2> QED BY <2>2, <2>3, <2>4, <2>7, <2>8 DEF Streaming, Blocks
<1> QED BY <1>5, <1>6, <1>7, <1>8, <1>9, <1>10, <1>11, <1>12 DEF Flowing
-----------------------------------------------------------------------------
(* What a checkpoint that is the image of one moment holds.                *)

\* The checkpoints.
CkptType ==
  [train : Int, source : Nat \ {0}, genData : Seq(GenItem), genPending : Seq(GenItem),
   trainItems : Seq(TrainItem), sched : Int, log : Seq(Seq(RolloutItem)), clean : BOOLEAN]

\* FreshRollouts of the batches l.
FreshOf(f, l) ==
  \A k \in DOMAIN l : \A i \in DOMAIN l[k] :
    /\ l[k][i].seen # {}
    /\ l[k][i].seen \subseteq (IF f = 0 THEN {k - 1} ELSE {Max0(k - 2), k - 1})

\* Where the source, the control worker and training are.
GoodCounts(f, c) ==
  /\ c.train + f < c.sched
  /\ \/ c.source - 1 = PromptPerIter * (c.sched - f) /\ c.sched <= c.train + 2
     \/ /\ c.source > NumPrompts /\ c.sched <= c.train + 1
        /\ PromptPerIter * (c.sched - f) <= c.source - 1
        /\ c.source - 1 <= PromptPerIter * (c.sched - f) + PromptPerIter
  /\ Len(c.log) = c.train + 1 /\ FreshOf(f, c.log)

\* The items r that pre_gen gets back.
GoodReplay(f, c, r) ==
  /\ GatesOf(f, r) /\ Increasing(r) /\ Below(r, c.source)
  /\ Blocked(r, c.sched, c.source > NumPrompts, c.source > NumPrompts)
  /\ \A i \in 1 .. Len(r) : c.train + f < Blk(f, r[i])
  /\ \A i \in 1 .. Len(r) : r[i].t = "train" =>
       r[i].b < c.sched /\ \A j \in i + 1 .. Len(r) : r[i].b < Blk(f, r[j])

\* The items w that pre_train gets back.
GoodTrain(f, c, r, w) ==
  /\ \A b \in Int, i \in 1 .. Len(w) : w[i] = Barrier(b) =>
       /\ b < c.sched
       /\ \A j \in 1 .. Len(r) : b < Blk(f, r[j])
       /\ \A j \in i + 1 .. Len(w) : b < Blk(f, w[j])
  /\ \A i \in 1 .. Len(w) : c.train + f + 1 <= Blk(f, w[i])
  /\ \A i \in 1 .. Len(w) : w[i].t = "rollout" => SeenOf(f, c.train, w[i])

\* ... is what a flow that was never interrupted may hold.
Good(f, c) ==
  /\ GoodCounts(f, c)
  /\ GoodReplay(f, c, c.genPending \o c.genData)
  /\ GoodTrain(f, c, c.genPending \o c.genData, c.trainItems)

\* Whatever a checkpoint holds, a restart from it leaves the state well typed.
LEMMA RestartType ==
  ASSUME TypeOK, latest \in CkptType, Restart
  PROVE  /\ TypeOK'
         /\ preGen' = [data |-> latest.genPending \o latest.genData, pending |-> <<>>]
         /\ preTrain' = [data |-> latest.trainItems, pending |-> <<>>]
<1>1. /\ <<>> \in Seq(GenItem) /\ <<>> \in Seq(TrainItem) /\ <<>> \in Seq(RolloutItem)
  BY EmptySeq
<1>2. latest.genPending \o latest.genData \in Seq(GenItem) /\ latest.trainItems \in Seq(TrainItem)
  BY ConcatProperties DEF CkptType
<1>3. /\ preGen' = [data |-> latest.genPending \o latest.genData, pending |-> <<>>]
      /\ preTrain' = [data |-> latest.trainItems, pending |-> <<>>]
  BY DEF Restart, LoadState, StateDict, EmptyQueue
<1>4. preGen' \in GenQueue /\ preTrain' \in TrainQueue
  BY <1>1, <1>2, <1>3 DEF GenQueue, TrainQueue
<1>5. CtlType(ctl') /\ GenType(gen')
  BY DEF Restart, CtlType, GenType
<1>6. trainer' \in TrainerType
  BY <1>1 DEF Restart, TrainerType
<1>7. /\ train' \in Int /\ infer' \in Int /\ served' \in Int /\ sched' \in Int
      /\ source' \in Nat \ {0} /\ log' \in Seq(Seq(RolloutItem))
      /\ locked' \in BOOLEAN /\ cbAlive' \in BOOLEAN /\ strategy' = strategy /\ running' = {}
  <2>1. /\ latest.train \in Int /\ latest.sched \in Int /\ latest.source \in Nat \ {0}
        /\ latest.log \in Seq(Seq(RolloutItem))
    BY DEF CkptType
  <2>2. /\ train' = latest.train /\ infer' = -1 /\ served' = -1 /\ sched' = latest.sched
        /\ source' = latest.source /\ log' = latest.log /\ locked' = FALSE /\ cbAlive' = TRUE
        /\ strategy' = strategy /\ running' = {}
    BY DEF Restart, ResumedInfer
  <2>3. locked' \in BOOLEAN /\ cbAlive' \in BOOLEAN
    BY <2>2
  <2>4. infer' \in Int /\ served' \in Int
    BY <2>2
  <2> QED BY <2>1, <2>2, <2>3, <2>4
<1> QED BY <1>3, <1>4, <1>5, <1>6, <1>7 DEF TypeOK

\* A restart from such a checkpoint leaves the flow in order.
LEMMA RestartGood ==
  ASSUME TypeOK, latest \in CkptType, Restart, Good(FirstSched, latest)
  PROVE  Flowing' /\ Streaming'
<1>1. PICK f : f = FirstSched
  OBVIOUS
<1>2. PICK c \in CkptType : c = latest
  OBVIOUS
<1>3. PICK r \in Seq(GenItem) : r = c.genPending \o c.genData
  BY ConcatProperties DEF CkptType
<1>4. PICK w \in Seq(TrainItem) : w = c.trainItems
  BY DEF CkptType
<1>5. GoodCounts(f, c) /\ GoodReplay(f, c, r) /\ GoodTrain(f, c, r, w)
  BY <1>1, <1>2, <1>3, <1>4 DEF Good
<1>6. /\ TypeOK' /\ preGen'.data = r /\ preGen'.pending = <<>> /\ preTrain'.data = w
  <2>1. /\ TypeOK'
        /\ preGen' = [data |-> latest.genPending \o latest.genData, pending |-> <<>>]
        /\ preTrain' = [data |-> latest.trainItems, pending |-> <<>>]
    BY RestartType
  <2>2. preGen' = [data |-> r, pending |-> <<>>] /\ preTrain' = [data |-> w, pending |-> <<>>]
    BY <1>2, <1>3, <1>4, <2>1
  <2>3. preGen'.data = r /\ preGen'.pending = <<>>
    BY <2>2
  <2>4. preTrain'.data = w
    BY <2>2
  <2> QED BY <2>1, <2>3, <2>4
<1>7. /\ train' = c.train /\ infer' = -1 /\ served' = -1 /\ source' = c.source /\ sched' = c.sched
      /\ locked' = FALSE /\ ctl'.pc = "check" /\ ctl'.hand = NoItem
      /\ gen' = [pc |-> "pop", item |-> NoItem, needAck |-> NoItem, active |-> 0]
      /\ running' = {} /\ trainer' = [pc |-> "idle", batch |-> <<>>] /\ log' = c.log
      /\ FirstSched' = f /\ strategy' = strategy
  BY <1>1, <1>2 DEF Restart, ResumedInfer, FirstSched
<1>8. /\ c.train \in Int /\ c.sched \in Int /\ c.source \in Nat \ {0} /\ f \in Int
      /\ c.log \in Seq(Seq(RolloutItem)) /\ Len(c.log) \in Nat
      /\ PromptPerIter * (c.sched - f) \in Int
  <2>1. c.train \in Int /\ c.sched \in Int /\ c.source \in Nat \ {0} /\ c.log \in Seq(Seq(RolloutItem))
    BY DEF CkptType
  <2>2. f \in Int
    BY <1>1, FirstSchedType
  <2>3. c.sched - f \in Int
    BY <2>1, <2>2
  <2> QED BY <2>1, <2>2, <2>3, BlockArithmetic, LenProperties
<1>9. Ahead' = c.sched /\ Collected' = c.train + f + 1
  BY <1>7, <1>8 DEF Ahead, Collected
<1>10. Filling' /\ Locking'
  <2>1. BlockStart' = PromptPerIter * (c.sched - f)
    BY <1>7 DEF BlockStart
  <2> QED BY <1>5, <1>7, <2>1 DEF GoodCounts, Filling, Locking, Spent
<1>11. ASSUME NEW b \in Int, b < c.sched, \A j \in 1 .. Len(r) : b < Blk(f, r[j])
       PROVE  Later(b)'
  BY <1>6, <1>7, <1>9, <1>11 DEF Later
<1>12. GenOrdered'
  BY <1>5, <1>6, <1>7, <1>9 DEF GenOrdered, GoodReplay
<1>13. TrainOrdered'
  <2>1. IsFiniteSet(running') /\ gen'.active >= Cardinality(running')
    BY <1>7, FS_EmptySet
  <2>2. ASSUME NEW b \in Int, NEW i \in 1 .. Len(w), w[i] = Barrier(b)
        PROVE  Later(b)' /\ \A j \in i + 1 .. Len(w) : b < Blk(f, w[j])
    BY <1>5, <1>11, <2>2 DEF GoodTrain
  <2> QED BY <1>6, <1>7, <2>1, <2>2 DEF TrainOrdered
<1>14. Reached'
  <2>1. Later(c.train + f)'
    <3>1. c.train + f \in Int
      BY <1>8
    <3> QED BY <1>5, <1>11, <3>1 DEF GoodCounts, GoodReplay
  <2>2. Collected' - 1 = c.train + f
    BY <1>8, <1>9
  <2>3. (Later(Collected - 1))'
    BY <2>1, <2>2 DEF Later
  <2>4. \A i \in 1 .. Len(w) : Collected' <= Blk(f, w[i])
    BY <1>5, <1>9 DEF GoodTrain
  <2> QED BY <1>6, <1>7, <2>3, <2>4 DEF Reached
<1>15. Versions'
  <2>1. -1 <= c.train
    BY <1>5, <1>8 DEF GoodCounts
  <2> QED BY <1>5, <1>7, <2>1 DEF Versions, GoodCounts
<1>16. Gated'
  <2>1. \A p \in Nat \ {0} : NoItem # Prompt(p)
    BY ItemTypes
  <2>2. ASSUME NEW p \in Nat \ {0}, NEW j \in 1 .. Len(r), r[j] = Prompt(p)
        PROVE  \E i \in 1 .. j - 1 : r[i] = Need(Block(f, p))
    <3>1. r[j].t = "prompt" /\ r[j].p = p
      BY <2>2 DEF Prompt
    <3> QED BY <1>5, <3>1 DEF GoodReplay, GatesOf
  <2> QED BY <1>6, <1>7, <2>1, <2>2 DEF Gated
<1>17. Seen'
  BY <1>5, <1>6, <1>7 DEF Seen, GoodTrain
<1>18. FreshRollouts'
  <2>1. f = 0 <=> strategy' = "on-policy"
    BY <1>1, <1>7 DEF FirstSched
  <2>2. FreshOf(f, log')
    BY <1>5, <1>7 DEF GoodCounts
  <2> QED BY <2>1, <2>2 DEF FreshRollouts, FreshOf
<1>19. ReplayOf(preGen', gen') = r
  <2>1. ReplayOf(preGen', gen') = (<<>> \o <<>>) \o r
    BY <1>6, <1>7 DEF ReplayOf
  <2> QED BY <2>1
<1>20. ReplayGated'
  <2>1. GatesOf(f, r) /\ Increasing(r) /\ Below(r, c.source)
    BY <1>5 DEF GoodReplay
  <2> QED BY <1>7, <1>19, <2>1 DEF ReplayGated
<1>21. Held'
  BY <1>6, <1>7 DEF Held
<1>22. Blocks'
  <2>1. (Unclosed' <=> c.source > NumPrompts) /\ (NoMore' <=> c.source > NumPrompts)
    BY <1>7 DEF Unclosed, NoMore
  <2>2. Blocked(r, sched', Unclosed', NoMore')
    BY <1>5, <1>7, <2>1 DEF GoodReplay, Blocked
  <2>3. PendingKinds' /\ LaterPending'
    BY <1>6, <1>7 DEF PendingKinds, LaterPending
  <2> QED BY <1>19, <2>2, <2>3 DEF Blocks
<1> QED BY <1>6, <1>10, <1>12, <1>13, <1>14, <1>15, <1>16, <1>17, <1>18, <1>20, <1>21, <1>22
        DEF Flowing, Streaming

\* The state a checkpoint is the image of, while no thread moves an item.
Image(c) ==
  /\ c.train = train /\ c.source = source /\ c.sched = sched /\ c.log = log
  /\ c.genData = preGen.data /\ c.genPending = preGen.pending
  /\ c.trainItems = preTrain.data

\* Behind what is un-acked comes what waits.
LEMMA ImageReplay ==
  ASSUME TypeOK, gen.pc # "pend"
  PROVE  /\ ReplayOf(preGen, gen) = preGen.pending \o preGen.data
         /\ \E P, D \in Nat :
              LET r == preGen.pending \o preGen.data IN
              /\ P = Len(preGen.pending) /\ D = Len(preGen.data) /\ Len(r) = P + D
              /\ r \in Seq(GenItem)
              /\ \A i \in 1 .. P : r[i] = preGen.pending[i]
              /\ \A i \in P + 1 .. P + D : i - P \in 1 .. D /\ r[i] = preGen.data[i - P]
<1>1. PICK p \in Seq(GenItem) : p = preGen.pending
  BY DEF TypeOK, GenQueue
<1>2. PICK d \in Seq(GenItem) : d = preGen.data
  BY DEF TypeOK, GenQueue
<1>3. p \o <<>> = p
  BY EmptySeq, ConcatEmptySeq
<1>4. ReplayOf(preGen, gen) = p \o d
  <2>1. ReplayOf(preGen, gen) = (p \o <<>>) \o d
    BY <1>1, <1>2 DEF ReplayOf
  <2> QED BY <1>3, <2>1
<1>5. PICK P, D \in Nat : P = Len(p) /\ D = Len(d)
  BY LenProperties
<1>6. PICK r : r = p \o d
  OBVIOUS
<1>7. /\ r \in Seq(GenItem) /\ Len(r) = Len(p) + Len(d)
      /\ \A i \in 1 .. Len(p) + Len(d) : r[i] = IF i <= Len(p) THEN p[i] ELSE d[i - Len(p)]
  BY <1>6, ConcatProperties
<1>8. \A i \in 1 .. P : r[i] = p[i]
  <2>1. \A i \in 1 .. P : i \in 1 .. P + D /\ i <= P
    OBVIOUS
  <2> QED BY <1>5, <1>7, <2>1
<1>9. \A i \in P + 1 .. P + D : i - P \in 1 .. D /\ r[i] = d[i - P]
  <2>1. \A i \in P + 1 .. P + D : i \in 1 .. P + D /\ ~(i <= P) /\ i - P \in 1 .. D
    OBVIOUS
  <2> QED BY <1>5, <1>7, <2>1
<1> QED BY <1>1, <1>2, <1>4, <1>5, <1>6, <1>7, <1>8, <1>9

\* The image of one moment is a good checkpoint.
LEMMA ImageGood ==
  ASSUME Flowing, Streaming, Settled, trainer.pc = "snapshot", NEW c, Image(c)
  PROVE  Good(FirstSched, c)
<1>0. /\ TypeOK /\ Filling /\ Locking /\ GenOrdered /\ TrainOrdered /\ Reached
      /\ Versions /\ Seen /\ FreshRollouts /\ ReplayGated /\ Held /\ Blocks
      /\ PendingKinds /\ LaterPending
  BY DEF Flowing, Streaming, Blocks
<1>1. PICK f \in Int : f = FirstSched
  BY FirstSchedType
<1>2. /\ gen.pc # "pend" /\ ctl.pc \in {"check", "exit"} /\ ~locked
      /\ train \in Int /\ sched \in Int /\ source \in Nat
      /\ Ahead = sched /\ Collected = train + f + 1 /\ Len(log) = train + 1
  <2>1. gen.pc # "pend" /\ ~locked
    BY DEF Settled
  <2>2. ctl.pc \in {"check", "exit"}
    BY <1>0, <2>1 DEF Locking, TypeOK, CtlType
  <2>3. train \in Int /\ sched \in Int /\ source \in Nat
    BY <1>0 DEF TypeOK
  <2> QED BY <1>0, <1>1, <2>1, <2>2, <2>3 DEF Ahead, Collected, Versions
<1>3. PICK r : r = preGen.pending \o preGen.data
  OBVIOUS
<1>4. r = ReplayOf(preGen, gen)
  BY <1>0, <1>2, <1>3, ImageReplay
<1>5. PICK P, D \in Nat :
        /\ P = Len(preGen.pending) /\ D = Len(preGen.data) /\ Len(r) = P + D
        /\ r \in Seq(GenItem)
        /\ \A i \in 1 .. P : r[i] = preGen.pending[i]
        /\ \A i \in P + 1 .. P + D : i - P \in 1 .. D /\ r[i] = preGen.data[i - P]
  BY <1>0, <1>2, <1>3, ImageReplay
<1>6. \A i \in 1 .. P + D : i \in 1 .. P \/ i \in P + 1 .. P + D
  OBVIOUS
\* Anything passed on that is of an earlier version than what waits and what is un-acked.
<1>7. ASSUME NEW b, \A j \in 1 .. P : b < Blk(f, preGen.pending[j]),
             \A j \in 1 .. D : b < Blk(f, preGen.data[j])
      PROVE  \A j \in 1 .. P + D : b < Blk(f, r[j])
  BY <1>5, <1>6, <1>7
<1>8. GoodCounts(f, c)
  <2>1. train + f < sched
    <3>1. Collected - 1 < Ahead
      BY <1>0 DEF Reached, Later
    <3> QED BY <1>2, <3>1
  <2>2. \/ source - 1 = BlockStart /\ sched <= train + 2
        \/ Spent /\ sched <= train + 1
    BY <1>0, <1>2 DEF Filling
  <2>3. FreshOf(f, log)
    <3>1. f = 0 <=> strategy = "on-policy"
      BY <1>1 DEF FirstSched
    <3> QED BY <1>0, <3>1 DEF FreshRollouts, FreshOf
  <2> QED BY <1>1, <1>2, <2>1, <2>2, <2>3 DEF GoodCounts, Image, BlockStart, Spent
<1>9. GoodReplay(f, c, r)
  <2>1. GatesOf(f, r) /\ Increasing(r) /\ Below(r, c.source)
    BY <1>0, <1>1, <1>4 DEF ReplayGated, Image
  <2>2. Blocked(r, c.sched, c.source > NumPrompts, c.source > NumPrompts)
    <3>1. Blocked(r, sched, Unclosed, NoMore)
      BY <1>0, <1>4 DEF Blocks
    <3>2. (Unclosed <=> source > NumPrompts) /\ (NoMore <=> source > NumPrompts)
      BY <1>2 DEF Unclosed, NoMore
    <3> QED BY <3>1, <3>2 DEF Image, Blocked
  <2>3. \A i \in 1 .. P + D : train + f < Blk(f, r[i])
    <3>1. \A j \in 1 .. D : train + f < Blk(f, preGen.data[j])
      <4>1. \A j \in 1 .. D : Collected - 1 < Blk(f, preGen.data[j])
        BY <1>0, <1>1, <1>5 DEF Reached, Later
      <4>2. Collected - 1 = train + f
        BY <1>2
      <4> QED BY <4>1, <4>2
    <3>2. \A j \in 1 .. P : train + f < Blk(f, preGen.pending[j])
      <4> SUFFICES ASSUME NEW j \in 1 .. P PROVE train + f < Blk(f, preGen.pending[j])
        OBVIOUS
      <4>1. Collected <= Blk(f, preGen.pending[j])
        BY <1>0, <1>1, <1>5 DEF LaterPending
      <4>2. preGen.pending[j] \in GenItem
        BY <1>0, <1>5, ElementOfSeq DEF TypeOK, GenQueue
      <4>3. Blk(f, preGen.pending[j]) \in Int
        BY <4>2, BlockTypes
      <4> QED BY <1>2, <4>1, <4>3
    <3> QED BY <1>7, <3>1, <3>2
  <2>4. ASSUME NEW i \in 1 .. P + D, r[i].t = "train"
        PROVE  r[i].b < sched /\ \A j \in i + 1 .. P + D : r[i].b < Blk(f, r[j])
    <3>1. CASE i \in 1 .. P
      <4>1. preGen.pending[i].t = "train" /\ r[i] = preGen.pending[i]
        BY <1>5, <2>4, <3>1
      <4>2. gen.pc = "train" /\ i = P
        BY <1>0, <1>5, <3>1, <4>1 DEF PendingKinds
      <4>3. r[i] = gen.item
        BY <1>0, <1>5, <4>1, <4>2 DEF Held
      <4>4. gen.item # NoItem /\ gen.item.t = "train"
        BY <1>0, <4>2, <4>3, <2>4, ItemTypes
      <4>5. gen.item.b < sched /\ \A j \in 1 .. D : gen.item.b < Blk(f, preGen.data[j])
        BY <1>0, <1>1, <1>2, <1>5, <4>4 DEF GenOrdered
      <4>6. \A j \in i + 1 .. P + D : r[j] = preGen.data[j - P] /\ j - P \in 1 .. D
        BY <1>5, <4>2
      <4> QED BY <4>3, <4>5, <4>6
    <3>2. CASE i \in P + 1 .. P + D
      <4>1. PICK k \in 1 .. D : k = i - P /\ r[i] = preGen.data[k]
        BY <1>5, <3>2
      <4>2. r[i].b < sched /\ \A j \in k + 1 .. D : r[i].b < Blk(f, preGen.data[j])
        BY <1>0, <1>1, <1>2, <1>5, <2>4, <4>1 DEF GenOrdered
      <4>3. ASSUME NEW j \in i + 1 .. P + D
            PROVE  r[j] = preGen.data[j - P] /\ j - P \in k + 1 .. D
        <5>1. j \in P + 1 .. P + D /\ j - P \in k + 1 .. D
          BY <3>2, <4>1
        <5> QED BY <1>5, <5>1
      <4> QED BY <4>2, <4>3
    <3> QED BY <1>6, <3>1, <3>2
  <2> QED BY <1>5, <2>1, <2>2, <2>3, <2>4 DEF GoodReplay, Image
<1>10. GoodTrain(f, c, r, c.trainItems)
  <2>1. ASSUME NEW b \in Int, NEW i \in 1 .. Len(preTrain.data), preTrain.data[i] = Barrier(b)
        PROVE  /\ b < sched /\ \A j \in 1 .. P + D : b < Blk(f, r[j])
               /\ \A j \in i + 1 .. Len(preTrain.data) : b < Blk(f, preTrain.data[j])
    <3>1. b < Ahead /\ (\A j \in 1 .. D : b < Blk(f, preGen.data[j]))
          /\ \A j \in i + 1 .. Len(preTrain.data) : b < Blk(f, preTrain.data[j])
      BY <1>0, <1>1, <1>5, <2>1 DEF TrainOrdered, Later
    <3>2. \A j \in 1 .. P : b < Blk(f, preGen.pending[j])
      BY <1>0, <1>1, <1>5, <2>1 DEF LaterPending
    <3> QED BY <1>2, <1>7, <3>1, <3>2
  <2>2. \A i \in 1 .. Len(preTrain.data) : train + f + 1 <= Blk(f, preTrain.data[i])
    BY <1>0, <1>1, <1>2 DEF Reached
  <2>3. \A i \in 1 .. Len(preTrain.data) :
          preTrain.data[i].t = "rollout" => SeenOf(f, train, preTrain.data[i])
    BY <1>0, <1>1 DEF Seen
  <2> QED BY <1>5, <2>1, <2>2, <2>3 DEF GoodTrain, Image
<1>11. r = c.genPending \o c.genData
  BY <1>3 DEF Image
<1> QED BY <1>1, <1>8, <1>9, <1>10, <1>11 DEF Good
-----------------------------------------------------------------------------
(* Checkpoints, crashes and restarts.                                      *)

\* A snapshot, with the part to read next.
Parts == {"none", "source", "genData", "genPending", "train", "meta"}
SnapType == [part : Parts, ckpt : CkptType]

\* The types of all variables, with the checkpoints'.
ResumeTypeOK ==
  /\ TypeOK
  /\ snap \in SnapType /\ dumps \in Seq(CkptType) /\ latest \in CkptType
  /\ snap.part = "none" <=> trainer.pc # "snapshot"

\* A snapshot that nothing has disturbed: what was read of the flow is still so.
Reading ==
  snap.part # "none" /\ snap.ckpt.clean =>
    /\ Settled /\ cbAlive /\ preTrain.pending = <<>>
    /\ snap.ckpt.train = train /\ snap.ckpt.log = log
    /\ snap.part # "source" => snap.ckpt.source = source
    /\ snap.part \notin {"source", "genData"} => snap.ckpt.genData = preGen.data
    /\ snap.part \in {"train", "meta"} => snap.ckpt.genPending = preGen.pending
    /\ snap.part = "meta" => snap.ckpt.trainItems = preTrain.data

\* Every checkpoint that says so is the image of one moment.
Sound ==
  /\ latest.clean => Good(FirstSched, latest)
  /\ \A i \in 1 .. Len(dumps) : dumps[i].clean => Good(FirstSched, dumps[i])

\* What holds until a checkpoint that is no such image is restored ...
Resumable == Flowing /\ (cbAlive => Streaming) /\ Reading /\ Sound

\* ... is, with the types, kept by every step.
ResumeInv == ResumeTypeOK /\ (~tainted => Resumable)

\* A step of the flow, or none, that tells a snapshot being taken of it.
FlowStep ==
  /\ [Next]_vars
  /\ trainer.pc = "snapshot" <=> trainer'.pc = "snapshot"
  /\ \/ snap.part # "none" /\ snap' = [snap EXCEPT !.ckpt.clean = FALSE]
     \/ snap' = snap /\ (snap.part = "none" \/ UNCHANGED vars)
  /\ UNCHANGED <<dumps, latest, tainted>>

\* One part of the flow is read into the snapshot.
ReadStep == SnapSource \/ SnapGenData \/ SnapGenPending \/ SnapTrain

\* Every step moves the flow or reads it, submits or restores a checkpoint.
LEMMA StepKinds ==
  ASSUME ResumeTypeOK, [ResumeNext]_resumeVars
  PROVE  FlowStep \/ SaveBegin \/ ReadStep \/ SnapMeta \/ DumpDone \/ Restart
<1>1. CASE Background
  <2>1. Next /\ trainer' = trainer
    BY <1>1 DEF Background, Next, Control, CtlOpen, CtlPop, CtlPut, CtlExhausted, CtlClose,
       CtlAdvance, Generation, GenPop, GenPend, GenNeed, GenSubmit, GenBarrier,
       Callback, CbDone, CbIgnoreError, CbRaise, Deliver, trainVars
  <2> QED BY <1>1, <2>1 DEF Background, Disturb, FlowStep
<1>2. CASE TrainerStep
  <2>1. Next /\ snap' = snap /\ UNCHANGED <<dumps, latest, tainted>>
    BY <1>2 DEF TrainerStep, Next, Trainer, ckptVars
  <2>2. trainer.pc # "snapshot"
    BY <1>2 DEF TrainerStep, Collecting, TrainRequest, TrainDeploy, TrainSynced, TrainCollect,
       TrainStep, TrainNoSave
  <2>3. trainer'.pc # "snapshot"
    BY <1>2 DEF TrainerStep, Collecting, TrainRequest, TrainDeploy, TrainSynced, TrainCollect,
       TrainStep, TrainNoSave, ResumeTypeOK, TypeOK, TrainerType
  <2> QED BY <2>1, <2>2, <2>3 DEF FlowStep, ResumeTypeOK
<1>3. CASE Done \/ UNCHANGED resumeVars
  <2>1. UNCHANGED vars /\ UNCHANGED <<snap, dumps, latest, tainted>>
    BY <1>3 DEF Done, Finished, resumeVars, ckptVars
  <2> QED BY <2>1 DEF FlowStep, vars, trainVars
<1> QED BY <1>1, <1>2, <1>3 DEF ResumeNext, Snapshot, ReadStep

\* A start without any checkpoint.
LEMMA FreshType == TypeOK => FreshCkpt \in CkptType
<1>1. FirstSched \in Int
  BY FirstSchedType
<1> QED BY <1>1, EmptySeq DEF FreshCkpt, CkptType

\* A part is read into the snapshot.
LEMMA ReadSteps ==
  ASSUME ResumeTypeOK, ReadStep
  PROVE  /\ UNCHANGED <<vars, dumps, latest, tainted>>
         /\ snap' \in SnapType
         /\ \/ /\ snap.part = "source" /\ snap'.part = "genData"
               /\ snap'.ckpt = [snap.ckpt EXCEPT !.source = source]
            \/ /\ snap.part = "genData" /\ snap'.part = "genPending"
               /\ snap'.ckpt = [snap.ckpt EXCEPT !.genData = preGen.data]
            \/ /\ snap.part = "genPending" /\ snap'.part = "train"
               /\ snap'.ckpt = [snap.ckpt EXCEPT !.genPending = preGen.pending]
            \/ /\ snap.part = "train" /\ snap'.part = "meta"
               /\ snap'.ckpt =
                    [snap.ckpt EXCEPT !.trainItems = preTrain.pending \o preTrain.data]
<1> DEFINE Set(c, part) == [part |-> part, ckpt |-> c]
<1>1. /\ snap.ckpt \in CkptType
      /\ snap = [part |-> snap.part, ckpt |-> snap.ckpt]
  BY DEF ResumeTypeOK, SnapType
<1>2. /\ source \in Nat \ {0}
      /\ preGen.data \in Seq(GenItem) /\ preGen.pending \in Seq(GenItem)
      /\ preTrain.data \in Seq(TrainItem) /\ preTrain.pending \in Seq(TrainItem)
  BY DEF ResumeTypeOK, TypeOK, GenQueue, TrainQueue
<1>3. preTrain.pending \o preTrain.data \in Seq(TrainItem)
  BY <1>2, ConcatProperties
<1>4. ASSUME NEW c \in CkptType, NEW part \in Parts, snap' = Set(c, part)
      PROVE  snap' \in SnapType /\ snap'.part = part /\ snap'.ckpt = c
  BY <1>4 DEF SnapType
<1>5. CASE SnapSource
  <2>1. /\ snap.part = "source" /\ UNCHANGED <<vars, dumps, latest, crashes, tainted>>
        /\ snap' = [snap EXCEPT !.part = "genData", !.ckpt["source"] = source]
    BY <1>5 DEF SnapSource, Read
  <2> DEFINE c == [snap.ckpt EXCEPT !.source = source]
  <2>2. c \in CkptType
    BY <1>1, <1>2 DEF CkptType
  <2>3. snap' = Set(c, "genData") /\ "genData" \in Parts
    BY <1>1, <2>1 DEF Parts
  <2> HIDE DEF c, Set
  <2>4. snap' \in SnapType /\ snap'.part = "genData" /\ snap'.ckpt = c
    BY <1>4, <2>2, <2>3
  <2> QED BY <2>1, <2>4 DEF c
<1>6. CASE SnapGenData
  <2>1. /\ snap.part = "genData" /\ UNCHANGED <<vars, dumps, latest, crashes, tainted>>
        /\ snap' = [snap EXCEPT !.part = "genPending", !.ckpt["genData"] = preGen.data]
    BY <1>6 DEF SnapGenData, Read
  <2> DEFINE c == [snap.ckpt EXCEPT !.genData = preGen.data]
  <2>2. c \in CkptType
    BY <1>1, <1>2 DEF CkptType
  <2>3. snap' = Set(c, "genPending") /\ "genPending" \in Parts
    BY <1>1, <2>1 DEF Parts
  <2> HIDE DEF c, Set
  <2>4. snap' \in SnapType /\ snap'.part = "genPending" /\ snap'.ckpt = c
    BY <1>4, <2>2, <2>3
  <2> QED BY <2>1, <2>4 DEF c
<1>7. CASE SnapGenPending
  <2>1. /\ snap.part = "genPending" /\ UNCHANGED <<vars, dumps, latest, crashes, tainted>>
        /\ snap' = [snap EXCEPT !.part = "train", !.ckpt["genPending"] = preGen.pending]
    BY <1>7 DEF SnapGenPending, Read
  <2> DEFINE c == [snap.ckpt EXCEPT !.genPending = preGen.pending]
  <2>2. c \in CkptType
    BY <1>1, <1>2 DEF CkptType
  <2>3. snap' = Set(c, "train") /\ "train" \in Parts
    BY <1>1, <2>1 DEF Parts
  <2> HIDE DEF c, Set
  <2>4. snap' \in SnapType /\ snap'.part = "train" /\ snap'.ckpt = c
    BY <1>4, <2>2, <2>3
  <2> QED BY <2>1, <2>4 DEF c
<1>8. CASE SnapTrain
  <2>1. /\ snap.part = "train" /\ UNCHANGED <<vars, dumps, latest, crashes, tainted>>
        /\ snap' = [snap EXCEPT !.part = "meta",
                                !.ckpt["trainItems"] = preTrain.pending \o preTrain.data]
    BY <1>8 DEF SnapTrain, Read, StateDict
  <2> DEFINE c == [snap.ckpt EXCEPT !.trainItems = preTrain.pending \o preTrain.data]
  <2>2. c \in CkptType
    BY <1>1, <1>3 DEF CkptType
  <2>3. snap' = Set(c, "meta") /\ "meta" \in Parts
    BY <1>1, <2>1 DEF Parts
  <2> HIDE DEF c, Set
  <2>4. snap' \in SnapType /\ snap'.part = "meta" /\ snap'.ckpt = c
    BY <1>4, <2>2, <2>3
  <2> QED BY <2>1, <2>4 DEF c
<1> QED BY <1>5, <1>6, <1>7, <1>8 DEF ReadStep

\* What a save begins with.
LEMMA SaveBeginSnap ==
  ASSUME ResumeTypeOK, SaveBegin
  PROVE  /\ snap' \in SnapType /\ snap'.part = "source"
         /\ snap'.ckpt.train = train /\ snap'.ckpt.log = log
         /\ snap'.ckpt.clean <=> Settled /\ cbAlive
         /\ preTrain' = [data |-> preTrain.data, pending |-> <<>>]
         /\ SaveStep /\ trainer'.pc = "snapshot"
<1> DEFINE b == Settled /\ cbAlive
<1>0. b \in BOOLEAN
  OBVIOUS
<1> HIDE DEF b
<1> DEFINE c == [FreshCkpt EXCEPT !.train = train, !.log = log, !.clean = b]
<1>1. FreshCkpt \in CkptType
  BY FreshType DEF ResumeTypeOK
<1>2. train \in Int /\ log \in Seq(Seq(RolloutItem))
  BY DEF ResumeTypeOK, TypeOK
<1>4. c \in CkptType
  BY <1>0, <1>1, <1>2 DEF CkptType
<1>5. snap' = [part |-> "source", ckpt |-> c]
  BY DEF SaveBegin, b
<1>6. c.train = train /\ c.log = log /\ (c.clean <=> b)
  BY DEF FreshCkpt
<1>7. preTrain' = [data |-> preTrain.data, pending |-> <<>>]
  BY DEF ResumeTypeOK, TypeOK, TrainQueue, SaveBegin, WeightDumped
<1>8. SaveStep /\ trainer'.pc = "snapshot"
  BY DEF SaveBegin, SaveStep, ResumeTypeOK, TypeOK, TrainerType
<1> HIDE DEF c
<1>9. snap' \in SnapType /\ snap'.part = "source" /\ snap'.ckpt = c
  BY <1>4, <1>5 DEF SnapType, Parts
<1> QED BY <1>6, <1>7, <1>8, <1>9 DEF b

\* What a save ends with.
LEMMA SnapMetaDumps ==
  ASSUME ResumeTypeOK, SnapMeta
  PROVE  /\ snap'.part = "none" /\ snap' \in SnapType
         /\ \E c \in CkptType :
              /\ dumps' = Append(dumps, c) /\ c = [snap.ckpt EXCEPT !.sched = sched]
         /\ SaveStep /\ trainer'.pc = "idle"
<1> DEFINE c == [snap.ckpt EXCEPT !.sched = sched]
<1>1. c \in CkptType
  BY DEF ResumeTypeOK, TypeOK, SnapType, CkptType
<1>2. dumps' = Append(dumps, c)
  BY DEF SnapMeta
<1>3. snap' \in SnapType /\ snap'.part = "none"
  BY FreshType DEF SnapMeta, SnapType, Parts, ResumeTypeOK
<1>4. SaveStep /\ trainer'.pc = "idle"
  <2>1. snap.part = "meta" /\ trainer.pc = "snapshot"
    BY DEF SnapMeta, ResumeTypeOK
  <2> QED BY <2>1 DEF SnapMeta, SaveStep, ResumeTypeOK, TypeOK, TrainerType
<1> HIDE DEF c
<1>5. \E x \in CkptType : dumps' = Append(dumps, x) /\ x = [snap.ckpt EXCEPT !.sched = sched]
  BY <1>1, <1>2 DEF c
<1> QED BY <1>3, <1>4, <1>5

\* A record with its clean flag cleared is the same otherwise.
LEMMA CleanOnly ==
  ASSUME snap \in SnapType, snap' = [snap EXCEPT !.ckpt.clean = FALSE]
  PROVE  snap' \in SnapType /\ snap'.part = snap.part /\ ~snap'.ckpt.clean
<1>1. snap.ckpt \in CkptType
  BY DEF SnapType
<1>2. snap'.ckpt = [snap.ckpt EXCEPT !.clean = FALSE] /\ snap'.part = snap.part
  BY DEF SnapType
<1>3. [snap.ckpt EXCEPT !.clean = FALSE] \in CkptType
  BY <1>1 DEF CkptType
<1>4. ~snap'.ckpt.clean
  BY <1>1, <1>2 DEF CkptType
<1>5. snap' = [snap EXCEPT !.ckpt = [snap.ckpt EXCEPT !.clean = FALSE]]
  OBVIOUS
<1> QED BY <1>2, <1>3, <1>4, <1>5 DEF SnapType

\* The steps of save_checkpoint() keep the types.
LEMMA SaveType == TypeOK /\ SaveStep => TypeOK'
<1> SUFFICES ASSUME TypeOK, SaveStep PROVE TypeOK'
  OBVIOUS
<1>1. UNCHANGED <<strategy, sched, source, locked, ctl, train, infer, served, preGen, gen,
                  running, cbAlive, log>>
  BY DEF SaveStep, ctlVars, verVars
<1>2. preTrain' \in TrainQueue
  BY EmptySeq DEF SaveStep, WeightDumped, TypeOK, TrainQueue
<1>3. trainer' \in TrainerType
  BY DEF SaveStep, TypeOK, TrainerType
<1> QED BY <1>1, <1>2, <1>3 DEF TypeOK

\* The strategy, and the first version with it, is the job's.
LEMMA ResumeStrategy ==
  ASSUME ResumeTypeOK, [ResumeNext]_resumeVars
  PROVE  FirstSched' = FirstSched
<1>1. CASE FlowStep
  BY <1>1, StrategyFixed DEF FlowStep
<1>2. CASE SaveBegin \/ SnapMeta \/ DumpDone \/ Restart
  BY <1>2 DEF SaveBegin, SnapMeta, DumpDone, Restart, vars, FirstSched
<1>3. CASE ReadStep
  BY <1>3, ReadSteps DEF vars, FirstSched
<1> QED BY <1>1, <1>2, <1>3, StepKinds

\* The initial state.
LEMMA InitResume == ResumeInit => ResumeInv
<1> SUFFICES ASSUME ResumeInit PROVE ResumeInv
  OBVIOUS
<1>1. /\ Init /\ snap = [part |-> "none", ckpt |-> FreshCkpt] /\ dumps = <<>>
      /\ latest = FreshCkpt /\ trainer.pc = "idle"
  BY DEF ResumeInit, Init
<1>2. TypeOK /\ FreshCkpt \in CkptType
  BY <1>1, InitType, FreshType
<1>3. ResumeTypeOK
  BY <1>1, <1>2, EmptySeq DEF ResumeTypeOK, SnapType, Parts
<1>4. Flowing /\ Streaming
  BY <1>1, InitFlowing
<1>5. Reading
  BY <1>1 DEF Reading
<1>6. Good(FirstSched, FreshCkpt)
  <2>1. PICK f \in Int : f = FirstSched /\ f <= 0
    BY FirstSchedType
  <2>2. PICK c : c = FreshCkpt
    OBVIOUS
  <2>3. /\ c.train = -1 /\ c.source = 1 /\ c.sched = f /\ c.log = <<>> /\ c.trainItems = <<>>
        /\ c.genPending = <<>> /\ c.genData = <<>>
    BY <2>1, <2>2 DEF FreshCkpt
  <2>4. PromptPerIter * (f - f) = 0
    BY <2>1, ConfigTypes
  <2>5. GoodCounts(f, c)
    BY <2>1, <2>3, <2>4 DEF GoodCounts, FreshOf
  <2>6. \A i \in 1 .. Len(<<>>) : FALSE
    OBVIOUS
  <2>7. GoodReplay(f, c, <<>>)
    BY <2>6 DEF GoodReplay, GatesOf, Increasing, Below, Blocked
  <2>8. GoodTrain(f, c, <<>>, <<>>)
    BY <2>6 DEF GoodTrain
  <2>9. c.genPending \o c.genData = <<>>
    BY <2>3
  <2> QED BY <2>1, <2>2, <2>3, <2>5, <2>7, <2>8, <2>9 DEF Good
<1>7. Sound
  BY <1>1, <1>6 DEF Sound
<1> QED BY <1>3, <1>4, <1>5, <1>7 DEF ResumeInv, Resumable

\* Every step keeps the types.
LEMMA StepResumeType ==
  ASSUME ResumeTypeOK, [ResumeNext]_resumeVars
  PROVE  ResumeTypeOK'
<1>0. /\ TypeOK /\ snap \in SnapType /\ dumps \in Seq(CkptType) /\ latest \in CkptType
      /\ snap.part = "none" <=> trainer.pc # "snapshot"
  BY DEF ResumeTypeOK
<1>1. CASE FlowStep
  <2>1. TypeOK'
    BY <1>0, <1>1, StepType DEF FlowStep
  <2>2. snap' \in SnapType /\ snap'.part = snap.part
    BY <1>0, <1>1, CleanOnly DEF FlowStep
  <2> QED BY <1>0, <1>1, <2>1, <2>2 DEF FlowStep, ResumeTypeOK
<1>2. CASE SaveBegin
  <2>1. snap' \in SnapType /\ snap'.part = "source" /\ SaveStep /\ trainer'.pc = "snapshot"
    BY <1>2, SaveBeginSnap
  <2>2. TypeOK'
    BY <1>0, <2>1, SaveType
  <2>3. UNCHANGED <<dumps, latest>>
    BY <1>2 DEF SaveBegin
  <2> QED BY <1>0, <2>1, <2>2, <2>3 DEF ResumeTypeOK
<1>3. CASE ReadStep
  <2>1. /\ UNCHANGED <<vars, dumps, latest>> /\ snap' \in SnapType
        /\ snap.part # "none" /\ snap'.part # "none"
    BY <1>3, ReadSteps
  <2>2. TypeOK' /\ trainer' = trainer
    BY <1>0, <2>1, StepType DEF vars, trainVars
  <2> QED BY <1>0, <2>1, <2>2 DEF ResumeTypeOK
<1>4. CASE SnapMeta
  <2>1. /\ snap' \in SnapType /\ snap'.part = "none" /\ SaveStep /\ trainer'.pc = "idle"
        /\ \E c \in CkptType : dumps' = Append(dumps, c)
    BY <1>4, SnapMetaDumps
  <2>2. TypeOK'
    BY <1>0, <2>1, SaveType
  <2>3. dumps' \in Seq(CkptType)
    BY <1>0, <2>1, AppendProperties
  <2>4. latest' = latest
    BY <1>4 DEF SnapMeta
  <2> QED BY <1>0, <2>1, <2>2, <2>3, <2>4 DEF ResumeTypeOK
<1>5. CASE DumpDone
  <2>1. /\ UNCHANGED vars /\ snap' = snap /\ dumps # <<>>
        /\ latest' = Head(dumps) /\ dumps' = Tail(dumps)
    BY <1>5 DEF DumpDone
  <2>2. TypeOK' /\ trainer' = trainer
    BY <1>0, <2>1, StepType DEF vars, trainVars
  <2>3. dumps' \in Seq(CkptType) /\ latest' \in CkptType
    BY <1>0, <2>1, HeadTailProperties
  <2> QED BY <1>0, <2>1, <2>2, <2>3 DEF ResumeTypeOK
<1>6. CASE Restart
  <2>1. TypeOK'
    BY <1>0, <1>6, RestartType
  <2>2. /\ snap' = [part |-> "none", ckpt |-> FreshCkpt] /\ dumps' = <<>> /\ latest' = latest
        /\ trainer'.pc = "idle"
    BY <1>6 DEF Restart
  <2>3. snap' \in SnapType /\ snap'.part = "none"
    BY <1>0, <2>2, FreshType DEF SnapType, Parts
  <2> QED BY <1>0, <2>1, <2>2, <2>3, EmptySeq DEF ResumeTypeOK
<1> QED BY <1>1, <1>2, <1>3, <1>4, <1>5, <1>6, StepKinds

\* The checkpoint a save ends with, if nothing disturbed it.
LEMMA MetaGood ==
  ASSUME ResumeTypeOK, Resumable, SnapMeta, snap.ckpt.clean,
         NEW c, c = [snap.ckpt EXCEPT !.sched = sched]
  PROVE  Good(FirstSched, c)
<1>1. snap.part = "meta" /\ snap.ckpt \in CkptType /\ trainer.pc = "snapshot"
  BY DEF SnapMeta, ResumeTypeOK, SnapType
<1>2. /\ Settled /\ cbAlive /\ snap.ckpt.train = train /\ snap.ckpt.log = log
      /\ snap.ckpt.source = source /\ snap.ckpt.genData = preGen.data
      /\ snap.ckpt.genPending = preGen.pending /\ snap.ckpt.trainItems = preTrain.data
  BY <1>1 DEF Resumable, Reading
<1>3. Image(c)
  BY <1>1, <1>2 DEF Image, CkptType
<1> QED BY <1>1, <1>2, <1>3, ImageGood DEF Resumable

\* As long as no other checkpoint was restored, everything stays in order.
LEMMA StepResumable ==
  ASSUME ResumeInv, [ResumeNext]_resumeVars, ~tainted'
  PROVE  Resumable'
<1>0. /\ ResumeTypeOK /\ TypeOK /\ snap \in SnapType /\ dumps \in Seq(CkptType)
      /\ latest \in CkptType /\ FirstSched' = FirstSched
      /\ Len(dumps) \in Nat /\ \A i \in 1 .. Len(dumps) : dumps[i] \in CkptType
  BY ResumeStrategy, LenProperties, ElementOfSeq DEF ResumeInv, ResumeTypeOK
<1>a. tainted' = tainted \/ Restart
  BY <1>0, StepKinds, ReadSteps DEF FlowStep, SaveBegin, SnapMeta, DumpDone
<1>b. ~tainted
  BY <1>a DEF Restart
<1>c. Flowing /\ (cbAlive => Streaming) /\ Reading /\ Sound /\ Resumable
  BY <1>b DEF ResumeInv, Resumable
<1>1. CASE FlowStep
  <2>1. Flowing' /\ (cbAlive' => Streaming')
    BY <1>1, <1>c, StepFlowing DEF FlowStep
  <2>2. Sound'
    BY <1>0, <1>1, <1>c DEF Sound, FlowStep
  <2>3. Reading'
    <3>1. CASE snap' = [snap EXCEPT !.ckpt.clean = FALSE]
      BY <1>0, <3>1, CleanOnly DEF Reading
    <3>2. CASE snap' = snap /\ snap.part = "none"
      BY <3>2 DEF Reading
    <3>3. CASE snap' = snap /\ UNCHANGED vars
      BY <1>c, <3>3 DEF Reading, Settled, vars, ctlVars, verVars, trainVars
    <3> QED BY <1>1, <3>1, <3>2, <3>3 DEF FlowStep
  <2> QED BY <2>1, <2>2, <2>3 DEF Resumable
<1>2. CASE SaveBegin
  <2>1. /\ SaveStep /\ snap'.part = "source" /\ snap'.ckpt.train = train /\ snap'.ckpt.log = log
        /\ snap'.ckpt.clean <=> Settled /\ cbAlive
        /\ preTrain' = [data |-> preTrain.data, pending |-> <<>>]
    BY <1>0, <1>2, SaveBeginSnap
  <2>2. Flowing' /\ (cbAlive' => Streaming')
    BY <1>c, <2>1, SaveKeeps
  <2>3. Sound'
    BY <1>0, <1>2, <1>c DEF Sound, SaveBegin
  <2>4. UNCHANGED <<locked, gen, cbAlive, train, log>>
    BY <2>1 DEF SaveStep, ctlVars, verVars
  <2>5. Reading'
    BY <2>1, <2>4 DEF Reading, Settled
  <2> QED BY <2>2, <2>3, <2>5 DEF Resumable
<1>3. CASE ReadStep
  <2>1. /\ UNCHANGED <<vars, dumps, latest, tainted>>
        /\ \/ /\ snap.part = "source" /\ snap'.part = "genData"
              /\ snap'.ckpt = [snap.ckpt EXCEPT !.source = source]
           \/ /\ snap.part = "genData" /\ snap'.part = "genPending"
              /\ snap'.ckpt = [snap.ckpt EXCEPT !.genData = preGen.data]
           \/ /\ snap.part = "genPending" /\ snap'.part = "train"
              /\ snap'.ckpt = [snap.ckpt EXCEPT !.genPending = preGen.pending]
           \/ /\ snap.part = "train" /\ snap'.part = "meta"
              /\ snap'.ckpt =
                   [snap.ckpt EXCEPT !.trainItems = preTrain.pending \o preTrain.data]
    BY <1>0, <1>3, ReadSteps
  <2>2. Flowing' /\ (cbAlive' => Streaming')
    BY <1>c, <2>1, StepFlowing
  <2>3. Sound'
    BY <1>0, <1>c, <2>1 DEF Sound
  <2>4. UNCHANGED <<source, train, log, locked, gen, cbAlive, preGen, preTrain>>
    BY <2>1 DEF vars, ctlVars, verVars, trainVars
  <2>5. Reading'
    <3>1. snap.ckpt \in CkptType /\ (Settled' <=> Settled)
      BY <1>0, <2>4 DEF SnapType, Settled
    <3>2. preTrain.data \in Seq(TrainItem)
      BY <1>0 DEF TypeOK, TrainQueue
    <3>3. preTrain.pending = <<>> => preTrain.pending \o preTrain.data = preTrain.data
      BY <3>2, ConcatEmptySeq
    <3> QED BY <1>c, <2>1, <2>4, <3>1, <3>3 DEF Reading, CkptType
  <2> QED BY <2>2, <2>3, <2>5 DEF Resumable
<1>4. CASE SnapMeta
  <2>1. snap'.part = "none" /\ SaveStep /\ latest' = latest
    BY <1>0, <1>4, SnapMetaDumps DEF SnapMeta
  <2>2. PICK c \in CkptType : dumps' = Append(dumps, c) /\ c = [snap.ckpt EXCEPT !.sched = sched]
    BY <1>0, <1>4, SnapMetaDumps
  <2>3. Flowing' /\ (cbAlive' => Streaming')
    BY <1>c, <2>1, SaveKeeps
  <2>4. Reading'
    BY <2>1 DEF Reading
  <2>5. c.clean => Good(FirstSched, c)
    <3>1. c.clean <=> snap.ckpt.clean
      BY <1>0, <2>2 DEF SnapType, CkptType
    <3> QED BY <1>0, <1>4, <1>c, <2>2, <3>1, MetaGood
  <2>6. Len(dumps') = Len(dumps) + 1 /\ dumps'[Len(dumps) + 1] = c
        /\ \A i \in 1 .. Len(dumps) : dumps'[i] = dumps[i]
    BY <1>0, <2>2, AppendProperties
  <2>7. \A i \in 1 .. Len(dumps') : dumps'[i].clean => Good(FirstSched, dumps'[i])
    <3> SUFFICES ASSUME NEW i \in 1 .. Len(dumps'), dumps'[i].clean
                 PROVE  Good(FirstSched, dumps'[i])
      OBVIOUS
    <3>1. i \in 1 .. Len(dumps) \/ i = Len(dumps) + 1
      BY <1>0, <2>6
    <3> QED BY <1>c, <2>5, <2>6, <3>1 DEF Sound
  <2>8. Sound'
    BY <1>0, <1>c, <2>1, <2>7 DEF Sound
  <2> QED BY <2>3, <2>4, <2>8 DEF Resumable
<1>5. CASE DumpDone
  <2>1. /\ UNCHANGED vars /\ snap' = snap /\ dumps # <<>>
        /\ latest' = Head(dumps) /\ dumps' = Tail(dumps)
    BY <1>5 DEF DumpDone
  <2>2. Flowing' /\ (cbAlive' => Streaming')
    BY <1>c, <2>1, StepFlowing
  <2>3. Reading'
    BY <1>c, <2>1 DEF Reading, Settled, vars, ctlVars, verVars, trainVars
  <2>4. /\ Len(dumps) > 0 /\ latest' = dumps[1] /\ Len(dumps') = Len(dumps) - 1
        /\ \A i \in 1 .. Len(dumps) - 1 : dumps'[i] = dumps[i + 1]
    BY <1>0, <2>1, HeadTailProperties
  <2>5. 1 \in 1 .. Len(dumps) /\ \A i \in 1 .. Len(dumps) - 1 : i + 1 \in 1 .. Len(dumps)
    BY <1>0, <2>4
  <2>6. latest'.clean => Good(FirstSched, latest')
    BY <1>c, <2>4, <2>5 DEF Sound
  <2>7. \A i \in 1 .. Len(dumps) - 1 : dumps'[i].clean => Good(FirstSched, dumps'[i])
    BY <1>c, <2>4, <2>5 DEF Sound
  <2>8. Sound'
    BY <1>0, <2>4, <2>6, <2>7 DEF Sound
  <2> QED BY <2>2, <2>3, <2>8 DEF Resumable
<1>6. CASE Restart
  <2>1. latest.clean
    BY <1>6 DEF Restart
  <2>2. Flowing' /\ Streaming'
    BY <1>0, <1>6, <1>c, <2>1, RestartGood DEF Sound
  <2>3. snap'.part = "none" /\ dumps' = <<>> /\ latest' = latest
    BY <1>6 DEF Restart
  <2>4. Reading'
    BY <2>3 DEF Reading
  <2>5. Sound'
    BY <1>0, <1>c, <2>3 DEF Sound
  <2> QED BY <2>2, <2>4, <2>5 DEF Resumable
<1> QED BY <1>0, <1>1, <1>2, <1>3, <1>4, <1>5, <1>6, StepKinds

\* Every step keeps the invariant, ...
LEMMA StepResume == ResumeInv /\ [ResumeNext]_resumeVars => ResumeInv'
<1> SUFFICES ASSUME ResumeInv, [ResumeNext]_resumeVars PROVE ResumeInv'
  OBVIOUS
<1>1. ResumeTypeOK'
  BY StepResumeType DEF ResumeInv
<1>2. ~tainted' => Resumable'
  BY StepResumable
<1> QED BY <1>1, <1>2 DEF ResumeInv

\* ... and what it says of the property.
LEMMA ResumeFacts == ResumeInv => ResumeFresh
BY ReplayGates DEF ResumeInv, Resumable, Flowing, Streaming, ResumeFresh

\* A job restarted from the image of one moment, however often and wherever it
\* crashed, trains on rollouts as fresh as those of an uninterrupted run, and as
\* long as its callback thread lives a checkpoint of it replays every prompt behind
\* the need_version of its block.
THEOREM ResumeFreshInvariant == ResumeSpec => []ResumeFresh
BY InitResume, StepResume, ResumeFacts, PTL DEF ResumeSpec
-----------------------------------------------------------------------------
(* The copies of a prompt.                                                 *)

AnyItem == GenItem \cup TrainItem

\* The items that are a prompt or its rollout; Count counts these.
OfPrompt(p) == {x \in AnyItem : IsPrompt(x) /\ x.p = p}

One(x, p) == IF IsPrompt(x) /\ x.p = p THEN 1 ELSE 0

\* How many of them a sequence has.
LEMMA CountTotal ==
  ASSUME NEW S, S \subseteq AnyItem, NEW s \in Seq(S), NEW p
  PROVE  Count(s, p) = Total(s, OfPrompt(p)) /\ Count(s, p) \in Nat
<1>1. DOMAIN s = 1 .. Len(s) /\ \A i \in 1 .. Len(s) : s[i] \in AnyItem
  BY LenProperties, ElementOfSeq
<1>2. {i \in DOMAIN s : IsPrompt(s[i]) /\ s[i].p = p} = Places(s, OfPrompt(p))
  BY <1>1 DEF Places, OfPrompt
<1>3. Total(s, OfPrompt(p)) \in Nat
  BY TotalType
<1> QED BY <1>2, <1>3 DEF Count, Total

\* An item is one of a prompt, or none.
LEMMA OneItem ==
  ASSUME NEW x \in AnyItem, NEW p
  PROVE  /\ One(x, p) = (IF x \in OfPrompt(p) THEN 1 ELSE 0) /\ One(x, p) \in Nat
         /\ x \in NeedItem \cup BarrierItem => One(x, p) = 0
         /\ x \in PromptItem \cup RolloutItem => One(x, p) = (IF x.p = p THEN 1 ELSE 0)
<1>1. x \in NeedItem \cup BarrierItem => ~IsPrompt(x)
  BY ItemTypes DEF IsPrompt
<1>2. x \in PromptItem \cup RolloutItem => IsPrompt(x)
  BY ItemTypes DEF IsPrompt
<1> QED BY <1>1, <1>2 DEF One, OfPrompt

\* Nothing is in the empty sequence.
LEMMA CountEmpty ==
  ASSUME NEW p
  PROVE  Count(<<>>, p) = 0
<1>1. {i \in DOMAIN <<>> : IsPrompt(<<>>[i]) /\ <<>>[i].p = p} = {}
  OBVIOUS
<1> QED BY <1>1, FS_EmptySet DEF Count

\* An item appended is one more of its prompt.
LEMMA CountAppend ==
  ASSUME NEW S, S \subseteq AnyItem, NEW s \in Seq(S), NEW x \in S, NEW p
  PROVE  Count(Append(s, x), p) = Count(s, p) + One(x, p)
<1>1. Append(s, x) \in Seq(S) /\ x \in AnyItem
  BY AppendProperties
<1>2. /\ Count(Append(s, x), p) = Total(Append(s, x), OfPrompt(p))
      /\ Count(s, p) = Total(s, OfPrompt(p))
  BY <1>1, CountTotal
<1>3. Total(Append(s, x), OfPrompt(p))
        = Total(s, OfPrompt(p)) + (IF x \in OfPrompt(p) THEN 1 ELSE 0)
  BY TotalAppend
<1>4. One(x, p) = (IF x \in OfPrompt(p) THEN 1 ELSE 0)
  BY <1>1, OneItem
<1> QED BY <1>2, <1>3, <1>4

\* One sequence behind another has the items of both.
LEMMA CountConcat ==
  ASSUME NEW S, S \subseteq AnyItem, NEW s \in Seq(S), NEW t \in Seq(S), NEW p
  PROVE  Count(s \o t, p) = Count(s, p) + Count(t, p)
<1>1. s \o t \in Seq(S)
  BY ConcatProperties
<1>2. Total(s \o t, OfPrompt(p)) = Total(s, OfPrompt(p)) + Total(t, OfPrompt(p))
  BY TotalConcat
<1>3. Count(s \o t, p) = Total(s \o t, OfPrompt(p))
  BY <1>1, CountTotal
<1>4. Count(s, p) = Total(s, OfPrompt(p)) /\ Count(t, p) = Total(t, OfPrompt(p))
  BY CountTotal
<1> QED BY <1>2, <1>3, <1>4

\* The oldest item is taken.
LEMMA CountTail ==
  ASSUME NEW S, S \subseteq AnyItem, NEW s \in Seq(S), Len(s) > 0, NEW p
  PROVE  /\ Count(s, p) = Count(Tail(s), p) + One(Head(s), p)
         /\ Count(Tail(s), p) \in Nat /\ One(Head(s), p) \in Nat
<1>1. Tail(s) \in Seq(S) /\ Head(s) \in S
  BY EmptySeq, HeadTailProperties
<1>2. Head(s) \in AnyItem
  BY <1>1
<1>3. /\ Count(s, p) = Total(s, OfPrompt(p)) /\ Count(Tail(s), p) = Total(Tail(s), OfPrompt(p))
      /\ Count(Tail(s), p) \in Nat
  BY <1>1, CountTotal
<1>4. Total(s, OfPrompt(p))
        = Total(Tail(s), OfPrompt(p)) + (IF Head(s) \in OfPrompt(p) THEN 1 ELSE 0)
  BY TotalTail
<1>5. One(Head(s), p) = (IF Head(s) \in OfPrompt(p) THEN 1 ELSE 0) /\ One(Head(s), p) \in Nat
  BY <1>2, OneItem
<1> QED BY <1>3, <1>4, <1>5

\* An item is acked, if it is pending.
LEMMA CountWithout ==
  ASSUME NEW S, S \subseteq AnyItem, NEW s \in Seq(S), NEW x, NEW p
  PROVE  /\ Contains(s, x) => Count(s, p) = Count(Without(s, x), p) + One(x, p)
         /\ ~Contains(s, x) => Count(s, p) = Count(Without(s, x), p)
         /\ Count(Without(s, x), p) \in Nat
<1>1. Without(s, x) \in Seq(S)
  BY WithoutType
<1>2. /\ Count(s, p) = Total(s, OfPrompt(p))
      /\ Count(Without(s, x), p) = Total(Without(s, x), OfPrompt(p))
      /\ Count(Without(s, x), p) \in Nat
  BY <1>1, CountTotal
<1>3. ASSUME Contains(s, x)
      PROVE  Count(s, p) = Count(Without(s, x), p) + One(x, p)
  <2>1. PICK k \in 1 .. Len(s) : s[k] = x
    BY <1>3 DEF Contains
  <2>2. x \in AnyItem
    BY <2>1, ElementOfSeq
  <2>3. Total(s, OfPrompt(p))
          = Total(Without(s, s[k]), OfPrompt(p)) + (IF s[k] \in OfPrompt(p) THEN 1 ELSE 0)
    BY TotalWithout
  <2>4. One(x, p) = (IF x \in OfPrompt(p) THEN 1 ELSE 0)
    BY <2>2, OneItem
  <2> QED BY <1>2, <2>1, <2>3, <2>4
<1>4. ~Contains(s, x) => Without(s, x) = s
  BY DEF Without
<1> QED BY <1>2, <1>3, <1>4

\* What is counted is there.
LEMMA CountSome ==
  ASSUME NEW S, S \subseteq AnyItem, NEW s \in Seq(S), NEW p
  PROVE  Count(s, p) # 0 <=> \E i \in 1 .. Len(s) : IsPrompt(s[i]) /\ s[i].p = p
<1>1. DOMAIN s = 1 .. Len(s) /\ \A i \in 1 .. Len(s) : s[i] \in AnyItem
  BY LenProperties, ElementOfSeq
<1>2. Count(s, p) = Total(s, OfPrompt(p))
  BY CountTotal
<1>3. ASSUME Count(s, p) # 0
      PROVE  \E i \in 1 .. Len(s) : IsPrompt(s[i]) /\ s[i].p = p
  <2>1. \E i \in 1 .. Len(s) : s[i] \in OfPrompt(p)
    BY <1>2, <1>3, TotalSome
  <2> QED BY <2>1 DEF OfPrompt
<1>4. ASSUME NEW i \in 1 .. Len(s), IsPrompt(s[i]), s[i].p = p
      PROVE  Count(s, p) # 0
  <2>1. s[i] \in OfPrompt(p) /\ Contains(s, s[i])
    BY <1>1, <1>4 DEF OfPrompt, Contains
  <2>2. Total(s, OfPrompt(p)) > 0
    BY <2>1, TotalContained
  <2> QED BY <1>2, <2>2
<1> QED BY <1>3, <1>4

\* The places of a prompt in the batches trained on are finitely many.
LEMMA TrainedSpread ==
  ASSUME NEW l \in Seq(Seq(RolloutItem)), NEW p
  PROVE  Trained(l, p) = Spread(l, OfPrompt(p)) /\ Cardinality(Trained(l, p)) \in Nat
<1>1. ASSUME NEW k \in DOMAIN l
      PROVE  {i \in DOMAIN l[k] : IsPrompt(l[k][i]) /\ l[k][i].p = p} = Places(l[k], OfPrompt(p))
  <2>1. l[k] \in Seq(RolloutItem)
    BY LenProperties, ElementOfSeq
  <2>2. DOMAIN l[k] = 1 .. Len(l[k]) /\ \A i \in 1 .. Len(l[k]) : l[k][i] \in AnyItem
    BY <2>1, LenProperties, ElementOfSeq DEF AnyItem, TrainItem
  <2> QED BY <2>2 DEF Places, OfPrompt
<1>2. Trained(l, p) = Spread(l, OfPrompt(p))
  BY <1>1 DEF Trained, Spread
<1> QED BY <1>2, SpreadFinite

\* A batch is added to those trained on.
LEMMA TrainedAppend ==
  ASSUME NEW l \in Seq(Seq(RolloutItem)), NEW b \in Seq(RolloutItem), NEW p
  PROVE  Cardinality(Trained(Append(l, b), p)) = Cardinality(Trained(l, p)) + Count(b, p)
<1>1. Append(l, b) \in Seq(Seq(RolloutItem)) /\ RolloutItem \subseteq AnyItem
  BY AppendProperties DEF AnyItem, TrainItem
<1>2. /\ Trained(Append(l, b), p) = Spread(Append(l, b), OfPrompt(p))
      /\ Trained(l, p) = Spread(l, OfPrompt(p))
  BY <1>1, TrainedSpread
<1>3. Count(b, p) = Total(b, OfPrompt(p))
  BY <1>1, CountTotal
<1>4. Cardinality(Spread(Append(l, b), OfPrompt(p)))
        = Cardinality(Spread(l, OfPrompt(p))) + Total(b, OfPrompt(p))
  BY SpreadAppend
<1> QED BY <1>2, <1>3, <1>4

\* A prompt that is in no batch was not trained on.
LEMMA TrainedNone ==
  ASSUME NEW l, NEW p, \A k \in DOMAIN l : p \notin PromptIds(l[k])
  PROVE  Cardinality(Trained(l, p)) = 0
<1>1. Trained(l, p) = {}
  BY DEF Trained, PromptIds
<1> QED BY <1>1, FS_EmptySet

\* One of an item that pre_gen holds.
LEMMA OneGen ==
  ASSUME NEW x \in GenItem, NEW p \in Nat \ {0}
  PROVE  /\ One(x, p) = (IF x = Prompt(p) THEN 1 ELSE 0)
         /\ One(x, p) \in Nat
<1>1. x \in AnyItem
  BY DEF AnyItem
<1>2. CASE x \in PromptItem
  <2>1. x = Prompt(p) <=> x.p = p
    BY <1>2, ItemTypes DEF Prompt
  <2>2. One(x, p) = (IF x.p = p THEN 1 ELSE 0)
    BY <1>1, <1>2, OneItem
  <2> QED BY <1>1, <2>1, <2>2, OneItem
<1>3. CASE x \in NeedItem \cup BarrierItem
  <2>1. x # Prompt(p)
    BY <1>3, ItemTypes DEF Prompt
  <2>2. One(x, p) = 0
    BY <1>1, <1>3, OneItem
  <2> QED BY <2>1, <2>2
<1> QED BY <1>2, <1>3 DEF GenItem

\* What each operation of a queue does to the copies of a prompt in it: the item
\* put is one more of its prompt, ...
LEMMA PutCount ==
  ASSUME NEW S, S \subseteq AnyItem, NEW q \in [data : Seq(S), pending : Seq(S)], NEW x \in S, NEW p
  PROVE  /\ Count(Put(q, x).data, p) = Count(q.data, p) + One(x, p)
         /\ Put(q, x).pending = q.pending
<1>1. q.data \in Seq(S) /\ Put(q, x).data = Append(q.data, x) /\ Put(q, x).pending = q.pending
  BY DEF Put
<1> QED BY <1>1, CountAppend

\* The item taken is one less that waits, ...
LEMMA PopCount ==
  ASSUME NEW S, S \subseteq AnyItem, NEW q \in [data : Seq(S), pending : Seq(S)], QLen(q) > 0, NEW p
  PROVE  /\ Count(q.data, p) = Count(Pop(q).data, p) + One(Peek(q), p)
         /\ Count(Pop(q).data, p) \in Nat
         /\ Pop(q).pending = q.pending
<1>1. /\ q.data \in Seq(S) /\ Pop(q).data = Tail(q.data) /\ Pop(q).pending = q.pending
      /\ Peek(q) = Head(q.data) /\ Len(q.data) > 0
  BY DEF Pop, Peek, QLen
<1> QED BY <1>1, CountTail

\* ... one more among the un-acked ones, ...
LEMMA PendCount ==
  ASSUME NEW S, S \subseteq AnyItem, NEW q \in [data : Seq(S), pending : Seq(S)], NEW x \in S, NEW p
  PROVE  /\ Count(Pend(q, x).pending, p) = Count(q.pending, p) + One(x, p)
         /\ Pend(q, x).data = q.data
<1>1. /\ q.pending \in Seq(S) /\ Pend(q, x).pending = Append(q.pending, x)
      /\ Pend(q, x).data = q.data
  BY DEF Pend
<1> QED BY <1>1, CountAppend

\* ... and one less of them once it is acked.
LEMMA AckCount ==
  ASSUME NEW S, S \subseteq AnyItem, NEW q \in [data : Seq(S), pending : Seq(S)], NEW y, NEW p
  PROVE  /\ Contains(q.pending, y) => Count(q.pending, p) = Count(Ack(q, y).pending, p) + One(y, p)
         /\ ~Contains(q.pending, y) => Count(q.pending, p) = Count(Ack(q, y).pending, p)
         /\ Count(Ack(q, y).pending, p) \in Nat
         /\ Ack(q, y).data = q.data
<1>1. /\ q.pending \in Seq(S) /\ Ack(q, y).pending = Without(q.pending, y)
      /\ Ack(q, y).data = q.data
  BY DEF Ack
<1> QED BY <1>1, CountWithout

\* An ack of what is no prompt changes nothing.
LEMMA AckOther ==
  ASSUME NEW S, S \subseteq AnyItem, NEW q \in [data : Seq(S), pending : Seq(S)], NEW y, NEW p,
         One(y, p) = 0
  PROVE  Count(Ack(q, y).pending, p) = Count(q.pending, p) /\ Ack(q, y).data = q.data
<1>1. Count(Ack(q, y).pending, p) \in Nat
  BY AckCount
<1>2. Count(q.pending, p) = Count(Ack(q, y).pending, p) + One(y, p) \/ Count(q.pending, p) = Count(Ack(q, y).pending, p)
  BY AckCount
<1>3. Ack(q, y).data = q.data
  BY AckCount
<1> QED BY <1>1, <1>2, <1>3
-----------------------------------------------------------------------------
(* Each prompt is in one place.                                            *)

\* Every prompt the source has handed out is somewhere, once; no other is.
Once == \A p \in Nat \ {0} : Copies(p) = IF p < source THEN 1 ELSE 0

\* A prompt that generates, or is about to, is un-acked, and none does twice; what
\* the generation worker acks besides is no prompt.
Submitted ==
  /\ \A x \in running : Contains(preGen.pending, Prompt(x.p))
  /\ \A x, y \in running : x.p = y.p => x = y
  /\ gen.pc = "prompt" =>
       Contains(preGen.pending, gen.item) /\ \A x \in running : x.p # gen.item.p
  /\ gen.needAck \in NeedItem \cup {NoItem}

\* The parts of Copies.
LEMMA CopiesParts ==
  ASSUME TypeOK, NEW p \in Nat \ {0}
  PROVE  /\ Cardinality(Trained(log, p)) \in Nat /\ Count(trainer.batch, p) \in Nat
         /\ Count(preTrain.data, p) \in Nat /\ Count(preGen.pending, p) \in Nat
         /\ Count(preGen.data, p) \in Nat
         /\ GenItem \subseteq AnyItem /\ TrainItem \subseteq AnyItem /\ RolloutItem \subseteq AnyItem
<1>1. GenItem \subseteq AnyItem /\ TrainItem \subseteq AnyItem /\ RolloutItem \subseteq AnyItem
  BY DEF AnyItem, TrainItem
<1>2. /\ log \in Seq(Seq(RolloutItem)) /\ trainer.batch \in Seq(RolloutItem)
      /\ preTrain.data \in Seq(TrainItem) /\ preGen.pending \in Seq(GenItem)
      /\ preGen.data \in Seq(GenItem)
  BY DEF TypeOK, TrainerType, TrainQueue, GenQueue
<1>3. Cardinality(Trained(log, p)) \in Nat
  BY <1>2, TrainedSpread
<1> QED BY <1>1, <1>2, <1>3, CountTotal

\* No step loses a prompt or copies one.
LEMMA StepOnce ==
  ASSUME TypeOK, Once, Submitted, [Next]_vars
  PROVE  Once'
<1> SUFFICES ASSUME NEW p \in Nat \ {0}
             PROVE  Copies(p)' = IF p < source' THEN 1 ELSE 0
  BY DEF Once
<1> DEFINE T == Cardinality(Trained(log, p))
           B == Count(trainer.batch, p)
           D == Count(preTrain.data, p)
           P == Count(preGen.pending, p)
           G == Count(preGen.data, p)
           H == IF ctl.hand = Prompt(p) THEN 1 ELSE 0
           W == IF gen.pc = "pend" /\ gen.item = Prompt(p) THEN 1 ELSE 0
           Kept == UNCHANGED <<T, B, D, P, G, H, W>>
<1>0. /\ log \in Seq(Seq(RolloutItem)) /\ trainer \in TrainerType
      /\ trainer.batch \in Seq(RolloutItem)
      /\ preTrain \in [data : Seq(TrainItem), pending : Seq(TrainItem)]
      /\ preGen \in [data : Seq(GenItem), pending : Seq(GenItem)]
      /\ CtlType(ctl) /\ GenType(gen) /\ source \in Nat \ {0}
      /\ GenItem \subseteq AnyItem /\ TrainItem \subseteq AnyItem /\ RolloutItem \subseteq AnyItem
  BY CopiesParts DEF TypeOK, TrainerType, TrainQueue, GenQueue
<1>a. /\ T \in Nat /\ B \in Nat /\ D \in Nat /\ P \in Nat /\ G \in Nat /\ H \in Nat /\ W \in Nat
  BY CopiesParts
<1>b. /\ Copies(p) = T + B + D + P + G + H + W
      /\ Copies(p)' = T' + B' + D' + P' + G' + H' + W'
      /\ Copies(p) = IF p < source THEN 1 ELSE 0
  BY DEF Copies, Once
<1>c. ASSUME Kept, source' = source
      PROVE  Copies(p)' = IF p < source' THEN 1 ELSE 0
  BY <1>b, <1>c
<1>1. CASE CtlPop
  <2>1. UNCHANGED <<T, B, D, P, G, W>> /\ source' = source + 1
    BY <1>1 DEF CtlPop, trainVars
  <2>2. H = 0 /\ H' = (IF source = p THEN 1 ELSE 0)
    <3>1. ctl.hand = NoItem /\ ctl'.hand = Prompt(source)
      BY <1>0, <1>1 DEF CtlPop, CtlType
    <3>2. Prompt(source) = Prompt(p) <=> source = p
      BY DEF Prompt
    <3> QED BY <3>1, <3>2, ItemTypes
  <2>3. UNCHANGED <<T, B, D, P, G, W>>
    BY <2>1
  <2> HIDE DEF T, B, D, P, G, H, W
  <2>4. T' + B' + D' + P' + G' + H' + W' = T + B + D + P + G + H + W + H'
    BY <1>a, <2>2, <2>3
  <2> QED BY <1>0, <1>a, <1>b, <2>1, <2>2, <2>4
<1>2. CASE CtlPut
  <2>1. /\ UNCHANGED <<T, B, D, W, source>> /\ preGen' = Put(preGen, ctl.hand)
        /\ ctl.hand \in PromptItem /\ ctl'.hand = NoItem
    BY <1>0, <1>2 DEF CtlPut, trainVars, CtlType
  <2>2. H = One(ctl.hand, p) /\ H' = 0 /\ ctl.hand \in GenItem
    BY <2>1, OneGen, ItemTypes DEF GenItem
  <2>3. G' = G + One(ctl.hand, p) /\ P' = P
    BY <1>0, <2>1, <2>2, PutCount
  <2>4. UNCHANGED <<T, B, D, W, source>>
    BY <2>1
  <2>5. PICK n \in Nat : n = One(ctl.hand, p)
    BY <2>2, OneGen
  <2> HIDE DEF T, B, D, P, G, H, W
  <2>6. T' + B' + D' + P' + G' + H' + W' = T + B + D + P + G + H + W
    BY <1>a, <2>2, <2>3, <2>4, <2>5
  <2> QED BY <1>b, <2>4, <2>6
<1>3. CASE GenPop
  <2>1. /\ UNCHANGED <<T, B, D, H, source>> /\ QLen(preGen) > 0 /\ preGen' = Pop(preGen)
        /\ gen.pc = "pop" /\ gen'.pc = "pend" /\ gen'.item = Peek(preGen)
    BY <1>0, <1>3 DEF GenPop, ctlVars, trainVars, GenType
  <2>2. Peek(preGen) \in GenItem
    BY <1>0, <2>1, PopShape
  <2>3. W = 0 /\ W' = One(Peek(preGen), p)
    BY <2>1, <2>2, OneGen
  <2>4. G = G' + One(Peek(preGen), p) /\ P' = P /\ G' \in Nat
    BY <1>0, <2>1, PopCount
  <2>5. UNCHANGED <<T, B, D, H, source>>
    BY <2>1
  <2>6. PICK n \in Nat : n = One(Peek(preGen), p)
    BY <2>2, OneGen
  <2> HIDE DEF T, B, D, P, G, H, W
  <2>7. T' + B' + D' + P' + G' + H' + W' = T + B + D + P + G + H + W
    BY <1>a, <2>3, <2>4, <2>5, <2>6
  <2> QED BY <1>b, <2>5, <2>7
<1>4. CASE GenPend
  <2>1. /\ UNCHANGED <<T, B, D, H, source>> /\ preGen' = Pend(preGen, gen.item)
        /\ gen.pc = "pend" /\ gen'.pc = gen.item.t /\ gen.item \in GenItem
    BY <1>0, <1>4 DEF GenPend, ctlVars, trainVars, GenType
  <2>2. W = One(gen.item, p) /\ W' = 0
    <3>1. gen'.pc # "pend"
      BY <2>1, ItemTypes DEF GenItem
    <3> QED BY <2>1, <3>1, OneGen
  <2>3. P' = P + One(gen.item, p) /\ G' = G
    <3>1. PICK y \in GenItem : y = gen.item
      BY <2>1
    <3>2. /\ Count(Pend(preGen, y).pending, p) = Count(preGen.pending, p) + One(y, p)
          /\ Pend(preGen, y).data = preGen.data
      BY <1>0, PendCount
    <3> QED BY <2>1, <3>1, <3>2
  <2>4. UNCHANGED <<T, B, D, H, source>>
    BY <2>1
  <2>5. PICK n \in Nat : n = One(gen.item, p)
    BY <2>1, OneGen
  <2> HIDE DEF T, B, D, P, G, H, W
  <2>6. T' + B' + D' + P' + G' + H' + W' = T + B + D + P + G + H + W
    BY <1>a, <2>2, <2>3, <2>4, <2>5
  <2> QED BY <1>b, <2>4, <2>6
<1>5. CASE GenBarrier
  <2>1. /\ UNCHANGED <<T, B, H, source>> /\ gen.pc = "train"
        /\ preTrain' = Put(preTrain, gen.item)
        /\ preGen' = Ack(Ack(preGen, gen.needAck), gen.item)
        /\ gen'.pc = "pop"
    BY <1>0, <1>5 DEF GenBarrier, ctlVars, trainVars, GenType
  <2>2. gen.item \in BarrierItem /\ gen.item \in TrainItem /\ gen.item \in GenItem
    BY <1>0, <2>1, ItemTypes DEF GenType, GenItem, TrainItem
  <2>3. One(gen.item, p) = 0 /\ One(gen.needAck, p) = 0
    <3>1. One(gen.item, p) = 0
      BY <1>0, <2>2, OneItem
    <3>2. One(NoItem, p) = 0
      BY DEF One, IsPrompt, NoItem
    <3>3. gen.needAck \in NeedItem => One(gen.needAck, p) = 0
      BY <1>0, OneItem DEF GenItem
    <3> QED BY <3>1, <3>2, <3>3 DEF Submitted
  <2>4. PICK q : q = Ack(preGen, gen.needAck)
    OBVIOUS
  <2>5. q \in [data : Seq(GenItem), pending : Seq(GenItem)]
    BY <1>0, <2>2, <2>4, QueueTypes
  <2>6. Count(q.pending, p) = P /\ q.data = preGen.data
    BY <1>0, <2>3, <2>4, AckOther
  <2>7. preGen' = Ack(q, gen.item)
    BY <2>1, <2>4
  <2>8. Count(Ack(q, gen.item).pending, p) = Count(q.pending, p) /\ Ack(q, gen.item).data = q.data
    BY <1>0, <2>3, <2>5, AckOther
  <2>9. P' = P /\ G' = G
    BY <2>6, <2>7, <2>8
  <2>10. D' = D + One(gen.item, p)
    <3>1. PICK y \in TrainItem : y = gen.item
      BY <2>2
    <3>2. Count(Put(preTrain, y).data, p) = Count(preTrain.data, p) + One(y, p)
      BY <1>0, PutCount
    <3> QED BY <2>1, <3>1, <3>2
  <2>11. D' = D
    BY <1>a, <2>3, <2>10
  <2>12. W = 0 /\ W' = 0
    BY <2>1
  <2>13. Kept /\ source' = source
    BY <2>1, <2>9, <2>11, <2>12
  <2> QED BY <1>c, <2>13
<1>6. CASE GenNeed \/ GenSubmit
  <2>1. gen.pc # "pend" /\ gen'.pc # "pend"
    BY <1>0, <1>6 DEF GenNeed, GenSubmit, GenType
  <2>2. Kept /\ source' = source
    BY <1>6, <2>1 DEF GenNeed, GenSubmit, ctlVars, trainVars
  <2> QED BY <1>c, <2>2
<1>7. ASSUME NEW x \in running, Deliver(x)
      PROVE  Copies(p)' = IF p < source' THEN 1 ELSE 0
  <2>1. /\ UNCHANGED <<T, B, H, source>>
        /\ preTrain' = Put(preTrain, Rollout(x.p, x.seen)) /\ preGen' = Ack(preGen, Prompt(x.p))
        /\ gen'.pc = gen.pc /\ gen'.item = gen.item
    BY <1>0, <1>7 DEF Deliver, ctlVars, trainVars, GenType
  <2>2. /\ Rollout(x.p, x.seen) \in RolloutItem /\ Prompt(x.p) \in PromptItem
        /\ Rollout(x.p, x.seen) \in TrainItem /\ Prompt(x.p) \in AnyItem
        /\ Rollout(x.p, x.seen) \in AnyItem
        /\ Rollout(x.p, x.seen).p = x.p /\ Prompt(x.p).p = x.p
    <3>1. x.p \in Nat \ {0} /\ x.seen \in SUBSET Int
      BY DEF TypeOK, Generated
    <3> QED BY <3>1, ItemTypes DEF TrainItem, AnyItem, GenItem, Rollout, Prompt
  <2>3. PICK n \in Nat : One(Prompt(x.p), p) = n /\ One(Rollout(x.p, x.seen), p) = n
    BY <2>2, OneItem
  <2>4. P = P' + n /\ P' \in Nat /\ G' = G
    <3>1. Contains(preGen.pending, Prompt(x.p))
      BY DEF Submitted
    <3>2. PICK y : y = Prompt(x.p)
      OBVIOUS
    <3>3. /\ Count(preGen.pending, p) = Count(Ack(preGen, y).pending, p) + One(y, p)
          /\ Count(Ack(preGen, y).pending, p) \in Nat /\ Ack(preGen, y).data = preGen.data
      BY <1>0, <3>1, <3>2, AckCount
    <3> QED BY <2>1, <2>3, <3>2, <3>3
  <2>5. D' = D + n
    <3>1. PICK y \in TrainItem : y = Rollout(x.p, x.seen)
      BY <2>2
    <3>2. Count(Put(preTrain, y).data, p) = Count(preTrain.data, p) + One(y, p)
      BY <1>0, PutCount
    <3> QED BY <2>1, <2>3, <3>1, <3>2
  <2>6. W' = W /\ UNCHANGED <<T, B, H, source>>
    BY <2>1
  <2> HIDE DEF T, B, D, P, G, H, W
  <2>7. T' + B' + D' + P' + G' + H' + W' = T + B + D + P + G + H + W
    BY <1>a, <2>3, <2>4, <2>5, <2>6
  <2> QED BY <1>b, <2>6, <2>7
<1>8. ASSUME NEW x \in running, CbRaise(x)
      PROVE  Copies(p)' = IF p < source' THEN 1 ELSE 0
  <2>1. gen'.pc = gen.pc /\ gen'.item = gen.item
    BY <1>0, <1>8 DEF CbRaise, GenType
  <2>2. Kept /\ source' = source
    BY <1>8, <2>1 DEF CbRaise, ctlVars, trainVars
  <2> QED BY <1>c, <2>2
<1>9. CASE CtlOpen \/ CtlClose
  <2>1. PICK y \in GenItem : preGen' = Put(preGen, y) /\ One(y, p) = 0
    <3>1. sched \in Int
      BY DEF TypeOK
    <3>2. Need(sched) \in NeedItem /\ Barrier(sched) \in BarrierItem
      BY <3>1, ItemTypes
    <3>3. /\ Need(sched) \in GenItem /\ Barrier(sched) \in GenItem
          /\ One(Need(sched), p) = 0 /\ One(Barrier(sched), p) = 0
      BY <1>0, <3>2, OneItem DEF GenItem
    <3> QED BY <1>9, <3>3 DEF CtlOpen, CtlClose
  <2>2. P' = P /\ G' = G
    <3>1. /\ Count(Put(preGen, y).data, p) = Count(preGen.data, p) + One(y, p)
          /\ Put(preGen, y).pending = preGen.pending
      BY <1>0, PutCount
    <3> QED BY <1>a, <2>1, <3>1
  <2>3. UNCHANGED <<T, B, D, H, W, source>>
    BY <1>0, <1>9 DEF CtlOpen, CtlClose, trainVars, CtlType
  <2>4. Kept /\ source' = source
    BY <2>2, <2>3
  <2> QED BY <1>c, <2>4
<1>10. CASE CtlExhausted \/ CtlAdvance \/ UNCHANGED vars
  <2>1. ctl'.hand = ctl.hand
    BY <1>0, <1>10 DEF CtlExhausted, CtlAdvance, vars, ctlVars, CtlType
  <2>2. Kept /\ source' = source
    BY <1>10, <2>1 DEF CtlExhausted, CtlAdvance, vars, ctlVars, trainVars
  <2> QED BY <1>c, <2>2
<1>11. CASE TrainRequest \/ TrainDeploy \/ TrainSynced \/ TrainNoSave \/ TrainSave
  <2>1. trainer'.batch = trainer.batch /\ preTrain'.data = preTrain.data
    BY <1>0, <1>11 DEF TrainRequest, TrainDeploy, TrainSynced, TrainNoSave, TrainSave,
       WeightDumped, TrainerType
  <2>2. Kept /\ source' = source
    BY <1>11, <2>1 DEF TrainRequest, TrainDeploy, TrainSynced, TrainNoSave, TrainSave, ctlVars
  <2> QED BY <1>c, <2>2
<1>12. CASE TrainCollect
  <2>1. /\ UNCHANGED <<T, P, G, H, W, source>> /\ QLen(preTrain) > 0
        /\ preTrain'.data = Pop(preTrain).data
    BY <1>12 DEF TrainCollect, Get, Pend, ctlVars
  <2>2. D = D' + One(Peek(preTrain), p) /\ D' \in Nat /\ Peek(preTrain) \in TrainItem
    BY <1>0, <2>1, PopCount, PopShape
  <2>3. B' = B + One(Peek(preTrain), p)
    <3>1. CASE Peek(preTrain).t = "train"
      <4>1. Peek(preTrain) \in BarrierItem
        BY <2>2, <3>1, ItemTypes DEF TrainItem
      <4>2. One(Peek(preTrain), p) = 0
        BY <1>0, <2>2, <4>1, OneItem
      <4>3. trainer'.batch = trainer.batch
        BY <1>0, <1>12, <3>1 DEF TrainCollect, TrainerType
      <4> QED BY <1>a, <4>2, <4>3
    <3>2. CASE Peek(preTrain).t # "train"
      <4>1. Peek(preTrain) \in RolloutItem
        BY <2>2, <3>2, ItemTypes DEF TrainItem
      <4>2. trainer'.batch = Append(trainer.batch, Peek(preTrain))
        BY <1>0, <1>12, <3>2 DEF TrainCollect, TrainerType
      <4> QED BY <1>0, <4>1, <4>2, CountAppend
    <3> QED BY <3>1, <3>2
  <2>4. PICK n \in Nat : n = One(Peek(preTrain), p)
    BY <1>0, <2>2, OneItem
  <2>5. UNCHANGED <<T, P, G, H, W, source>>
    BY <2>1
  <2> HIDE DEF T, B, D, P, G, H, W
  <2>6. T' + B' + D' + P' + G' + H' + W' = T + B + D + P + G + H + W
    BY <1>a, <2>2, <2>3, <2>4, <2>5
  <2> QED BY <1>b, <2>5, <2>6
<1>13. CASE TrainStep
  <2>1. /\ UNCHANGED <<D, P, G, H, W, source>>
        /\ log' = Append(log, trainer.batch) /\ trainer'.batch = <<>>
    BY <1>13 DEF TrainStep, ctlVars
  <2>2. T' = T + B
    BY <1>0, <2>1, TrainedAppend
  <2>3. B' = 0
    BY <2>1, CountEmpty
  <2>4. UNCHANGED <<D, P, G, H, W, source>>
    BY <2>1
  <2> HIDE DEF T, B, D, P, G, H, W
  <2>5. T' + B' + D' + P' + G' + H' + W' = T + B + D + P + G + H + W
    BY <1>a, <2>2, <2>3, <2>4
  <2> QED BY <1>b, <2>4, <2>5
<1> QED
  BY <1>1, <1>2, <1>3, <1>4, <1>5, <1>6, <1>7, <1>8, <1>9, <1>10, <1>11, <1>12, <1>13
     DEF Next, Control, Generation, Callback, CbDone, CbIgnoreError, Trainer, Collecting, Finished

\* What is un-acked stays so when something else is acked.
LEMMA AckKeeps ==
  ASSUME NEW S, NEW q \in [data : Seq(S), pending : Seq(S)], NEW x, Contains(q.pending, x),
         NEW y, x # y
  PROVE  Contains(Ack(q, y).pending, x)
<1>1. q.pending \in Seq(S) /\ Ack(q, y).pending = Without(q.pending, y)
  BY DEF Ack
<1>2. CASE y \in S
  BY <1>1, <1>2, ContainsKept
<1>3. CASE ~Contains(q.pending, y)
  BY <1>1, <1>3 DEF Without
<1>4. Contains(q.pending, y) => y \in S
  BY <1>1, ElementOfSeq DEF Contains
<1> QED BY <1>2, <1>3, <1>4

\* The generations stay those of un-acked prompts.
LEMMA StepSubmitted ==
  ASSUME TypeOK, Once, Submitted, [Next]_vars
  PROVE  Submitted'
<1>0. /\ preGen \in [data : Seq(GenItem), pending : Seq(GenItem)]
      /\ GenType(gen) /\ running \subseteq Generated
      /\ preGen.pending \in Seq(GenItem)
  BY DEF TypeOK, GenQueue
<1>1. ASSUME preGen'.pending = preGen.pending, running' = running, gen' = gen
      PROVE  Submitted'
  BY <1>1 DEF Submitted
<1>2. CASE Control \/ UNCHANGED vars
  <2>1. preGen'.pending = preGen.pending /\ running' = running /\ gen' = gen
    BY <1>0, <1>2 DEF Control, CtlOpen, CtlPop, CtlPut, CtlExhausted, CtlClose, CtlAdvance, vars, Put
  <2> QED BY <1>1, <2>1
<1>3. CASE Trainer /\ ~TrainDeploy
  <2>1. preGen'.pending = preGen.pending /\ running' = running /\ gen' = gen
    BY <1>3 DEF Trainer, Collecting, TrainRequest, TrainSynced, TrainCollect, TrainStep, TrainSave,
       TrainNoSave
  <2> QED BY <1>1, <2>1
<1>4. CASE TrainDeploy
  <2>1. /\ running' = {[x EXCEPT !.seen = @ \cup {train}] : x \in running}
        /\ preGen' = preGen /\ gen' = gen
    BY <1>4 DEF TrainDeploy
  <2>2. \A y \in running' : \E x \in running : y = [x EXCEPT !.seen = @ \cup {train}] /\ y.p = x.p
    BY <1>0, <2>1 DEF Generated
  <2>3. ASSUME NEW y \in running', NEW z \in running', y.p = z.p
        PROVE  y = z
    <3>1. PICK x \in running : y = [x EXCEPT !.seen = @ \cup {train}] /\ y.p = x.p
      BY <2>2
    <3>2. PICK u \in running : z = [u EXCEPT !.seen = @ \cup {train}] /\ z.p = u.p
      BY <2>2
    <3>3. x = u
      BY <2>3, <3>1, <3>2 DEF Submitted
    <3> QED BY <3>1, <3>2, <3>3
  <2>4. \A y \in running' : Contains(preGen'.pending, Prompt(y.p))
    BY <2>1, <2>2 DEF Submitted
  <2>5. gen'.pc = "prompt" =>
          Contains(preGen'.pending, gen'.item) /\ \A y \in running' : y.p # gen'.item.p
    BY <2>1, <2>2 DEF Submitted
  <2> QED BY <2>1, <2>3, <2>4, <2>5 DEF Submitted
<1>5. CASE GenPop
  <2>1. /\ preGen'.pending = preGen.pending /\ running' = running
        /\ gen'.pc = "pend" /\ gen'.needAck = gen.needAck
    BY <1>0, <1>5 DEF GenPop, Pop, GenType
  <2> QED BY <2>1 DEF Submitted
<1>6. CASE GenPend
  <2>1. PICK i \in GenItem : i = gen.item
    BY <1>0, <1>6 DEF GenPend, GenType
  <2>2. /\ preGen' = Pend(preGen, i) /\ running' = running /\ gen.pc = "pend"
        /\ gen'.pc = i.t /\ gen'.item = i /\ gen'.needAck = gen.needAck
    BY <1>0, <1>6, <2>1 DEF GenPend, GenType
  <2>3. preGen'.pending = Append(preGen.pending, i)
    BY <1>0, <2>2 DEF Pend
  <2>4. \A x \in running : Contains(preGen'.pending, Prompt(x.p))
    BY <1>0, <2>3, ContainsKept DEF Submitted
  <2>5. Contains(preGen'.pending, i)
    BY <1>0, <2>3, ContainsNew
  <2>6. ASSUME i.t = "prompt", NEW x \in running, x.p = i.p
        PROVE  FALSE
    <3>1. PICK p \in Nat \ {0} : i = Prompt(p) /\ i.p = p
      BY <2>6, ItemTypes DEF GenItem
    <3>2. Contains(preGen.pending, Prompt(p))
      BY <2>6, <3>1 DEF Submitted
    <3>3. PICK k \in 1 .. Len(preGen.pending) : preGen.pending[k] = Prompt(p)
      BY <3>2 DEF Contains
    <3>4. IsPrompt(preGen.pending[k]) /\ preGen.pending[k].p = p
      BY <3>3 DEF IsPrompt, Prompt
    <3>5. Count(preGen.pending, p) # 0
      BY <1>0, <3>4, CopiesParts, CountSome
    <3> DEFINE T == Cardinality(Trained(log, p))
               B == Count(trainer.batch, p)
               D == Count(preTrain.data, p)
               P == Count(preGen.pending, p)
               G == Count(preGen.data, p)
               H == IF ctl.hand = Prompt(p) THEN 1 ELSE 0
    <3>6. T \in Nat /\ B \in Nat /\ D \in Nat /\ P \in Nat /\ G \in Nat /\ H \in Nat
      BY CopiesParts
    <3>7. Copies(p) = T + B + D + P + G + H + 1
      BY <2>1, <2>2, <3>1 DEF Copies
    <3>8. Copies(p) \in {0, 1}
      BY DEF Once
    <3>9. P # 0
      BY <3>5
    <3> HIDE DEF T, B, D, P, G, H
    <3> QED BY <3>6, <3>7, <3>8, <3>9
  <2> QED BY <2>2, <2>4, <2>5, <2>6 DEF Submitted
<1>7. CASE GenNeed
  <2>1. /\ preGen' = preGen /\ running' = running /\ gen'.pc = "pop" /\ gen'.needAck = gen.item
        /\ gen.pc = "need"
    BY <1>0, <1>7 DEF GenNeed, GenType
  <2>2. gen.item \in NeedItem
    BY <1>0, <2>1, ItemTypes DEF GenType, GenItem
  <2> QED BY <2>1, <2>2 DEF Submitted
<1>8. CASE GenSubmit
  <2> DEFINE n == [p |-> gen.item.p, seen |-> {served}]
  <2>1. /\ preGen' = preGen /\ running' = running \cup {n} /\ gen'.pc = "pop"
        /\ gen'.needAck = gen.needAck /\ gen.pc = "prompt"
    BY <1>0, <1>8 DEF GenSubmit, GenType
  <2>2. gen.item = Prompt(gen.item.p)
    BY <1>0, <2>1, ItemTypes DEF GenType, GenItem
  <2>3. Contains(preGen.pending, Prompt(n.p)) /\ \A x \in running : x.p # n.p
    BY <2>1, <2>2 DEF Submitted
  <2> HIDE DEF n
  <2> QED BY <2>1, <2>3 DEF Submitted
<1>9. CASE GenBarrier
  <2>1. /\ gen.pc = "train" /\ preGen' = Ack(Ack(preGen, gen.needAck), gen.item)
        /\ running' = running /\ gen'.pc = "pop" /\ gen'.needAck = gen.needAck
    BY <1>0, <1>9 DEF GenBarrier, GenType
  <2>2. gen.item.t = "train" /\ gen.item \in GenItem /\ gen.needAck.t # "prompt"
    BY <1>0, <2>1, ItemTypes DEF GenType, GenItem, Submitted
  <2>3. PICK q : q = Ack(preGen, gen.needAck)
    OBVIOUS
  <2>4. q \in [data : Seq(GenItem), pending : Seq(GenItem)]
    BY <1>0, <2>2, <2>3, QueueTypes
  <2>5. ASSUME NEW x \in running
        PROVE  Contains(preGen'.pending, Prompt(x.p))
    <3>0. Prompt(x.p).t = "prompt"
      BY DEF Prompt
    <3>1. PICK y : y = Prompt(x.p) /\ y.t = "prompt"
      BY <3>0
    <3>2. Contains(preGen.pending, y) /\ y # gen.needAck /\ y # gen.item
      BY <2>2, <3>1 DEF Submitted
    <3>3. Contains(q.pending, y)
      BY <1>0, <2>3, <3>2, AckKeeps
    <3>4. Contains(Ack(q, gen.item).pending, y)
      BY <2>4, <3>2, <3>3, AckKeeps
    <3> QED BY <2>1, <2>3, <3>1, <3>4
  <2> QED BY <2>1, <2>5 DEF Submitted
<1>10. ASSUME NEW x \in running, Deliver(x)
       PROVE  Submitted'
  <2>1. /\ preGen' = Ack(preGen, Prompt(x.p)) /\ running' = running \ {x}
        /\ gen'.pc = gen.pc /\ gen'.item = gen.item /\ gen'.needAck = gen.needAck
    BY <1>0, <1>10 DEF Deliver, GenType
  <2>2. ASSUME NEW y, Contains(preGen.pending, y), y # Prompt(x.p)
        PROVE  Contains(preGen'.pending, y)
    <3>1. PICK z : z = Prompt(x.p)
      OBVIOUS
    <3>2. Contains(Ack(preGen, z).pending, y)
      BY <1>0, <2>2, <3>1, AckKeeps
    <3> QED BY <2>1, <3>1, <3>2
  <2>3. \A y \in running' : Contains(preGen'.pending, Prompt(y.p))
    <3> SUFFICES ASSUME NEW y \in running' PROVE Contains(preGen'.pending, Prompt(y.p))
      OBVIOUS
    <3>1. y \in running /\ y.p # x.p
      BY <2>1 DEF Submitted
    <3>2. Prompt(y.p) # Prompt(x.p)
      BY <3>1 DEF Prompt
    <3>3. Contains(preGen.pending, Prompt(y.p))
      BY <3>1 DEF Submitted
    <3> QED BY <2>2, <3>2, <3>3
  <2>4. ASSUME gen.pc = "prompt"
        PROVE  Contains(preGen'.pending, gen.item)
    <3>1. Contains(preGen.pending, gen.item) /\ x.p # gen.item.p
      BY <2>4 DEF Submitted
    <3>2. gen.item # Prompt(x.p)
      BY <3>1 DEF Prompt
    <3> QED BY <2>2, <3>1, <3>2
  <2> QED BY <2>1, <2>3, <2>4 DEF Submitted
<1>11. ASSUME NEW x \in running, CbRaise(x)
       PROVE  Submitted'
  <2>1. /\ preGen' = preGen /\ running' = running \ {x}
        /\ gen'.pc = gen.pc /\ gen'.item = gen.item /\ gen'.needAck = gen.needAck
    BY <1>0, <1>11 DEF CbRaise, GenType
  <2> QED BY <2>1 DEF Submitted
<1> QED BY <1>2, <1>3, <1>4, <1>5, <1>6, <1>7, <1>8, <1>9, <1>10, <1>11
        DEF Next, Generation, Callback, CbDone, CbIgnoreError, Finished

-----------------------------------------------------------------------------
(* Blocks go through the pipeline behind the barrier of the one before.    *)

\* The blocks before b were all trained on, or are about to be: the trainer has
\* reached b, or the barrier before it was passed on to training ...
Passed(b) == b <= Collected \/ Contains(preTrain.data, Barrier(b - 1))

\* ... or will be before anything else is.
Cleared(b) == Passed(b) \/ gen.item = Barrier(b - 1)

\* Nothing overtakes the barrier before its block: what leaves pre_gen is of a
\* block whose predecessor was passed on, and in the queues the barrier is in front.
Fenced ==
  /\ \A j \in 1 .. Len(preGen.pending) : Passed(Blk(FirstSched, preGen.pending[j]))
  /\ gen.item # NoItem => Passed(Blk(FirstSched, gen.item))
  /\ \A j \in 1 .. Len(preGen.data) :
       \/ Cleared(Blk(FirstSched, preGen.data[j]))
       \/ \E i \in 1 .. j - 1 : preGen.data[i] = Barrier(Blk(FirstSched, preGen.data[j]) - 1)
  /\ Cleared(Ahead) \/ \E i \in 1 .. Len(preGen.data) : preGen.data[i] = Barrier(Ahead - 1)
  /\ \A j \in 1 .. Len(preTrain.data) :
       \/ Blk(FirstSched, preTrain.data[j]) <= Collected
       \/ \E i \in 1 .. j - 1 : preTrain.data[i] = Barrier(Blk(FirstSched, preTrain.data[j]) - 1)
  /\ \A i \in 1 .. Len(trainer.batch) :
       Block(FirstSched, trainer.batch[i].p) <= train + FirstSched

\* The trainer takes the oldest item, which is of the version it has reached.
LEMMA HeadReached ==
  ASSUME TypeOK, Reached, Fenced, TrainCollect
  PROVE  /\ Len(preTrain.data) \in Nat /\ Len(preTrain.data) > 0
         /\ preTrain'.data \in Seq(TrainItem) /\ Len(preTrain'.data) = Len(preTrain.data) - 1
         /\ \A i \in 1 .. Len(preTrain.data) - 1 : preTrain'.data[i] = preTrain.data[i + 1]
         /\ Peek(preTrain) = preTrain.data[1] /\ Peek(preTrain) \in TrainItem
         /\ Blk(FirstSched, Peek(preTrain)) = Collected
<1>0. /\ preTrain \in [data : Seq(TrainItem), pending : Seq(TrainItem)]
      /\ FirstSched \in Int /\ Collected \in Int
  BY FirstSchedType DEF TypeOK, TrainQueue, Collected
<1>1. /\ Len(preTrain.data) \in Nat /\ Len(preTrain.data) > 0
      /\ Pop(preTrain).data \in Seq(TrainItem) /\ Len(Pop(preTrain).data) = Len(preTrain.data) - 1
      /\ \A i \in 1 .. Len(preTrain.data) - 1 : Pop(preTrain).data[i] = preTrain.data[i + 1]
      /\ Peek(preTrain) = preTrain.data[1] /\ Peek(preTrain) \in TrainItem
  BY <1>0, PopShape DEF TrainCollect
<1>2. preTrain'.data = Pop(preTrain).data
  BY <1>0 DEF TrainCollect, Get, Pend, Pop
<1>3. 1 \in 1 .. Len(preTrain.data) /\ \A i \in 1 .. 1 - 1 : FALSE
  BY <1>1
<1>4. Blk(FirstSched, preTrain.data[1]) <= Collected
  BY <1>3 DEF Fenced
<1>5. Collected <= Blk(FirstSched, preTrain.data[1])
  BY <1>3 DEF Reached
<1>6. Blk(FirstSched, preTrain.data[1]) \in Int
  BY <1>0, <1>1, BlockTypes
<1>7. Blk(FirstSched, preTrain.data[1]) = Collected
  BY <1>0, <1>4, <1>5, <1>6
<1> QED BY <1>1, <1>2, <1>7

\* What was passed on stays so.
LEMMA PassedStep ==
  ASSUME TypeOK, Reached, Fenced, [Next]_vars, NEW b \in Int, Passed(b)
  PROVE  Passed(b)'
<1>0. /\ preTrain \in [data : Seq(TrainItem), pending : Seq(TrainItem)]
      /\ preTrain.data \in Seq(TrainItem) /\ FirstSched \in Int
      /\ Collected \in Int
      /\ Collected' = IF TrainCollect /\ Peek(preTrain).t = "train"
                      THEN Collected + 1 ELSE Collected
      /\ Barrier(b - 1) \in BarrierItem /\ Barrier(b - 1) \in TrainItem
      /\ Barrier(b - 1).t = "train" /\ Barrier(b - 1).b = b - 1
  BY FirstSchedType, CollectedStep, ItemTypes DEF TypeOK, TrainQueue, TrainItem, Barrier
<1>1. CASE b <= Collected
  BY <1>0, <1>1 DEF Passed
<1>2. CASE Contains(preTrain.data, Barrier(b - 1))
  <2>1. ASSUME preTrain'.data = preTrain.data
        PROVE  Passed(b)'
    BY <1>2, <2>1 DEF Passed
  <2>2. ASSUME NEW x \in TrainItem, preTrain' = Put(preTrain, x)
        PROVE  Passed(b)'
    <3>1. preTrain'.data = Append(preTrain.data, x)
      BY <1>0, <2>2 DEF Put
    <3>2. Contains(Append(preTrain.data, x), Barrier(b - 1))
      BY <1>0, <1>2, ContainsKept
    <3> QED BY <3>1, <3>2 DEF Passed
  <2>3. CASE TrainCollect
    <3>1. PICK i \in 1 .. Len(preTrain.data) : preTrain.data[i] = Barrier(b - 1)
      BY <1>2 DEF Contains
    <3>2. /\ Len(preTrain.data) \in Nat /\ Len(preTrain.data) > 0
          /\ Len(preTrain'.data) = Len(preTrain.data) - 1
          /\ \A k \in 1 .. Len(preTrain.data) - 1 : preTrain'.data[k] = preTrain.data[k + 1]
          /\ Peek(preTrain) = preTrain.data[1]
          /\ Blk(FirstSched, Peek(preTrain)) = Collected
      BY <2>3, HeadReached
    <3>3. CASE i = 1
      <4>1. Peek(preTrain).t = "train" /\ Blk(FirstSched, Peek(preTrain)) = b - 1
        BY <1>0, <3>1, <3>2, <3>3, BlockTypes
      <4>2. Collected' = Collected + 1 /\ Collected = b - 1
        BY <1>0, <2>3, <3>2, <4>1
      <4> QED BY <1>0, <4>2 DEF Passed
    <3>4. CASE i # 1
      <4>1. PICK k \in Int : k = i - 1 /\ k + 1 = i
        BY <3>2
      <4>2. k \in 1 .. Len(preTrain.data) - 1
        BY <3>2, <3>4, <4>1
      <4>3. preTrain'.data[k] = Barrier(b - 1) /\ k \in 1 .. Len(preTrain'.data)
        BY <3>1, <3>2, <4>1, <4>2
      <4> QED BY <4>3 DEF Passed, Contains
    <3> QED BY <3>3, <3>4
  <2>4. CASE GenBarrier
    <3>1. gen.item \in TrainItem
      BY <2>4, ItemTypes DEF TypeOK, GenBarrier, GenItem, GenType, TrainItem
    <3> QED BY <2>2, <2>4, <3>1 DEF GenBarrier
  <2>5. ASSUME NEW x \in running, Deliver(x)
        PROVE  Passed(b)'
    <3>1. Rollout(x.p, x.seen) \in TrainItem
      BY ItemTypes DEF TypeOK, Generated, TrainItem
    <3> QED BY <2>2, <2>5, <3>1 DEF Deliver
  <2>6. ASSUME NEW x \in running, CbRaise(x)
        PROVE  Passed(b)'
    BY <2>1, <2>6 DEF CbRaise
  <2>7. Control \/ UNCHANGED vars => preTrain'.data = preTrain.data
    BY DEF Control, CtlOpen, CtlPop, CtlPut, CtlExhausted, CtlClose, CtlAdvance, vars
  <2>8. GenPop \/ GenPend \/ GenNeed \/ GenSubmit => preTrain'.data = preTrain.data
    BY DEF GenPop, GenPend, GenNeed, GenSubmit
  <2>9. TrainRequest \/ TrainDeploy \/ TrainSynced \/ TrainStep \/ TrainNoSave
          => preTrain'.data = preTrain.data
    BY DEF TrainRequest, TrainDeploy, TrainSynced, TrainStep, TrainNoSave
  <2>10. TrainSave => preTrain'.data = preTrain.data
    BY <1>0 DEF TrainSave, WeightDumped
  <2> QED BY <2>1, <2>3, <2>4, <2>5, <2>6, <2>7, <2>8, <2>9, <2>10
          DEF Next, Generation, Callback, CbDone, CbIgnoreError, Trainer, Collecting, Finished
<1> QED BY <1>1, <1>2 DEF Passed

\* The barrier the generation worker has in hand is passed on next.
LEMMA ClearedStep ==
  ASSUME TypeOK, Reached, Fenced, [Next]_vars, NEW b \in Int, Cleared(b)
  PROVE  Cleared(b)'
<1>0. /\ preTrain \in [data : Seq(TrainItem), pending : Seq(TrainItem)]
      /\ GenType(gen) /\ Barrier(b - 1).t = "train" /\ Barrier(b - 1) # NoItem
      /\ Barrier(b - 1) \in TrainItem
  BY ItemTypes DEF TypeOK, TrainQueue, Barrier, TrainItem
<1>1. CASE Passed(b)
  BY <1>1, PassedStep DEF Cleared
<1>2. CASE gen.item = Barrier(b - 1)
  <2>1. gen.pc # "pop" /\ (gen.pc # "pend" => gen.pc = "train")
    BY <1>0, <1>2 DEF GenType
  <2>2. CASE GenBarrier
    <3>1. preTrain' = Put(preTrain, Barrier(b - 1))
      BY <1>2, <2>2 DEF GenBarrier
    <3>2. preTrain'.data = Append(preTrain.data, Barrier(b - 1)) /\ preTrain.data \in Seq(TrainItem)
      BY <1>0, <3>1 DEF Put
    <3>3. Contains(preTrain'.data, Barrier(b - 1))
      BY <1>0, <3>2, ContainsNew
    <3> QED BY <3>3 DEF Cleared, Passed
  <2>3. CASE gen'.item = gen.item
    BY <1>2, <2>3 DEF Cleared
  <2>4. ~GenPop /\ ~GenNeed /\ ~GenSubmit
    BY <2>1 DEF GenPop, GenNeed, GenSubmit
  <2>5. GenPend => gen'.item = gen.item
    BY <1>0 DEF GenPend, GenType
  <2>6. Control \/ UNCHANGED vars => gen' = gen
    BY DEF Control, CtlOpen, CtlPop, CtlPut, CtlExhausted, CtlClose, CtlAdvance, vars
  <2>7. Trainer => gen' = gen
    BY DEF Trainer, Collecting, TrainRequest, TrainDeploy, TrainSynced, TrainCollect, TrainStep,
       TrainSave, TrainNoSave
  <2>8. Callback => gen'.item = gen.item
    BY <1>0 DEF Callback, CbDone, CbIgnoreError, CbRaise, Deliver, GenType
  <2> QED BY <2>2, <2>3, <2>4, <2>5, <2>6, <2>7, <2>8 DEF Next, Generation, Finished
<1> QED BY <1>1, <1>2 DEF Cleared

\* Passed and Cleared, after a step.
Now(b) == b <= Collected' \/ Contains(preTrain'.data, Barrier(b - 1))
Soon(b) == Now(b) \/ gen'.item = Barrier(b - 1)

\* No step takes them back.
LEMMA NowStep ==
  ASSUME TypeOK, Reached, Fenced, [Next]_vars
  PROVE  /\ \A b \in Int : Passed(b) => Now(b)
         /\ \A b \in Int : Cleared(b) => Soon(b)
<1>1. ASSUME NEW b \in Int, Passed(b) PROVE Now(b)
  <2>1. Passed(b)'
    BY <1>1, PassedStep
  <2> QED BY <2>1 DEF Passed, Now
<1>2. ASSUME NEW b \in Int, Cleared(b) PROVE Soon(b)
  <2>1. Cleared(b)'
    BY <1>2, ClearedStep
  <2> QED BY <2>1 DEF Cleared, Passed, Now, Soon
<1> QED BY <1>1, <1>2

\* What has left pre_gen's queue stays behind its barrier.
LEMMA StepFencedOut ==
  ASSUME TypeOK, Reached, Fenced, [Next]_vars
  PROVE  /\ \A j \in 1 .. Len(preGen'.pending) : Now(Blk(FirstSched, preGen'.pending[j]))
         /\ gen'.item # NoItem => Now(Blk(FirstSched, gen'.item))
<1>0. /\ preGen \in [data : Seq(GenItem), pending : Seq(GenItem)]
      /\ preGen.pending \in Seq(GenItem) /\ Len(preGen.pending) \in Nat
      /\ GenType(gen) /\ FirstSched \in Int
      /\ \A j \in 1 .. Len(preGen.pending) : preGen.pending[j] \in GenItem
      /\ \A x \in GenItem : Blk(FirstSched, x) \in Int
  BY FirstSchedType, BlockTypes, LenProperties, ElementOfSeq DEF TypeOK, GenQueue
<1>n. /\ \A b \in Int : Passed(b) => Now(b)
      /\ \A b \in Int : Cleared(b) => Soon(b)
  BY NowStep
<1>p. \A j \in 1 .. Len(preGen.pending) : Now(Blk(FirstSched, preGen.pending[j]))
  BY <1>0, <1>n DEF Fenced
<1>i. gen.item # NoItem => Now(Blk(FirstSched, gen.item)) /\ gen.item \in GenItem
  BY <1>0, <1>n DEF Fenced, GenType
<1>1. ASSUME NEW y, preGen'.pending = Without(preGen.pending, y)
      PROVE  \A j \in 1 .. Len(preGen'.pending) : Now(Blk(FirstSched, preGen'.pending[j]))
  BY <1>0, <1>1, <1>p, ContainsWas
<1>2. ASSUME preGen'.pending = preGen.pending, gen'.item = gen.item \/ gen'.item = NoItem
      PROVE  /\ \A j \in 1 .. Len(preGen'.pending) : Now(Blk(FirstSched, preGen'.pending[j]))
             /\ gen'.item # NoItem => Now(Blk(FirstSched, gen'.item))
  BY <1>2, <1>p, <1>i
<1>3. CASE Control \/ UNCHANGED vars
  <2>1. preGen'.pending = preGen.pending /\ gen' = gen
    BY <1>0, <1>3 DEF Control, CtlOpen, CtlPop, CtlPut, CtlExhausted, CtlClose, CtlAdvance, vars, Put
  <2> QED BY <1>2, <2>1
<1>4. CASE Trainer
  <2>1. preGen'.pending = preGen.pending /\ gen' = gen
    BY <1>4 DEF Trainer, Collecting, TrainRequest, TrainDeploy, TrainSynced, TrainCollect, TrainStep,
       TrainSave, TrainNoSave
  <2> QED BY <1>2, <2>1
<1>5. CASE GenPop
  <2>1. /\ preGen' = Pop(preGen) /\ QLen(preGen) > 0 /\ gen'.item = Peek(preGen) /\ gen.pc = "pop"
    BY <1>0, <1>5 DEF GenPop, GenType
  <2>2. /\ Pop(preGen).pending = preGen.pending /\ Len(preGen.data) \in Nat /\ Len(preGen.data) > 0
        /\ Peek(preGen) = preGen.data[1] /\ Peek(preGen) \in GenItem
    BY <1>0, <2>1, PopShape
  <2>3. 1 \in 1 .. Len(preGen.data) /\ \A i \in 1 .. 1 - 1 : FALSE
    BY <2>2
  <2>4. Cleared(Blk(FirstSched, preGen.data[1]))
    BY <2>3 DEF Fenced
  <2>5. Passed(Blk(FirstSched, preGen.data[1]))
    <3>1. gen.item = NoItem
      BY <1>0, <2>1 DEF GenType
    <3>2. gen.item # Barrier(Blk(FirstSched, preGen.data[1]) - 1)
      BY <3>1 DEF NoItem, Barrier
    <3> QED BY <2>4, <3>2 DEF Cleared
  <2> QED BY <1>0, <1>n, <1>p, <2>1, <2>2, <2>5
<1>6. CASE GenPend
  <2>1. PICK x \in GenItem : x = gen.item
    BY <1>0, <1>6 DEF GenPend, GenType
  <2>2. preGen' = Pend(preGen, x) /\ gen'.item = x
    BY <1>0, <1>6, <2>1 DEF GenPend, GenType
  <2>3. /\ Len(Pend(preGen, x).pending) = Len(preGen.pending) + 1
        /\ \A i \in 1 .. Len(preGen.pending) : Pend(preGen, x).pending[i] = preGen.pending[i]
        /\ Pend(preGen, x).pending[Len(preGen.pending) + 1] = x
    BY <1>0, PendShape
  <2>4. x # NoItem /\ Now(Blk(FirstSched, x))
    BY <1>i, <2>1, ItemTypes
  <2>5. ASSUME NEW j \in 1 .. Len(preGen'.pending)
        PROVE  Now(Blk(FirstSched, preGen'.pending[j]))
    <3>1. j \in 1 .. Len(preGen.pending) \/ j = Len(preGen.pending) + 1
      BY <1>0, <2>2, <2>3
    <3> QED BY <1>p, <2>2, <2>3, <2>4, <3>1
  <2> QED BY <2>2, <2>4, <2>5
<1>7. CASE GenNeed \/ GenSubmit
  <2>1. preGen' = preGen /\ gen'.item = NoItem
    BY <1>0, <1>7 DEF GenNeed, GenSubmit, GenType
  <2> QED BY <1>2, <2>1
<1>8. CASE GenBarrier
  <2>1. preGen' = Ack(Ack(preGen, gen.needAck), gen.item) /\ gen'.item = NoItem
    BY <1>0, <1>8 DEF GenBarrier, GenType
  <2>2. PICK w \in Seq(GenItem) : w = Without(preGen.pending, gen.needAck)
    BY <1>0, WithoutType
  <2>3. preGen'.pending = Without(w, gen.item)
    BY <1>0, <2>1, <2>2 DEF Ack
  <2>4. \A j \in 1 .. Len(w) : \E k \in 1 .. Len(preGen.pending) : preGen.pending[k] = w[j]
    <3>1. PICK y : y = gen.needAck
      OBVIOUS
    <3>2. \A j \in 1 .. Len(Without(preGen.pending, y)) :
            \E k \in 1 .. Len(preGen.pending) : preGen.pending[k] = Without(preGen.pending, y)[j]
      BY <1>0, ContainsWas
    <3> QED BY <2>2, <3>1, <3>2
  <2>5. \A j \in 1 .. Len(preGen'.pending) : \E k \in 1 .. Len(w) : w[k] = preGen'.pending[j]
    BY <2>3, ContainsWas
  <2> QED BY <1>p, <2>1, <2>4, <2>5
<1>9. CASE Callback
  <2>1. gen'.item = gen.item
    BY <1>0, <1>9 DEF Callback, CbDone, CbIgnoreError, CbRaise, Deliver, GenType
  <2>2. PICK x \in running : Deliver(x) \/ CbRaise(x)
    BY <1>9 DEF Callback, CbDone, CbIgnoreError
  <2>3. CASE CbRaise(x)
    BY <1>2, <2>1, <2>3 DEF CbRaise
  <2>4. CASE Deliver(x)
    <3>1. preGen'.pending = Without(preGen.pending, Prompt(x.p))
      BY <1>0, <2>4 DEF Deliver, Ack
    <3> QED BY <1>1, <1>i, <2>1, <3>1
  <2> QED BY <2>2, <2>3, <2>4
<1> QED BY <1>3, <1>4, <1>5, <1>6, <1>7, <1>8, <1>9 DEF Next, Generation, Finished

\* The barriers stay in front of what follows them in pre_gen.
LEMMA StepFencedQueue ==
  ASSUME TypeOK, Filling, Reached, Fenced, [Next]_vars
  PROVE  /\ \A j \in 1 .. Len(preGen'.data) :
              \/ Soon(Blk(FirstSched, preGen'.data[j]))
              \/ \E i \in 1 .. j - 1 : preGen'.data[i] = Barrier(Blk(FirstSched, preGen'.data[j]) - 1)
         /\ \/ Soon(Ahead')
            \/ \E i \in 1 .. Len(preGen'.data) : preGen'.data[i] = Barrier(Ahead' - 1)
<1>0. /\ preGen \in [data : Seq(GenItem), pending : Seq(GenItem)]
      /\ preGen.data \in Seq(GenItem) /\ Len(preGen.data) \in Nat
      /\ GenType(gen) /\ FirstSched \in Int /\ Ahead \in Int
      /\ \A j \in 1 .. Len(preGen.data) : preGen.data[j] \in GenItem
      /\ \A x \in GenItem : Blk(FirstSched, x) \in Int
  BY FirstSchedType, AheadType, BlockTypes, LenProperties, ElementOfSeq DEF TypeOK, GenQueue
<1>n. /\ \A b \in Int : Passed(b) => Now(b)
      /\ \A b \in Int : Cleared(b) => Soon(b)
  BY NowStep
<1>d. /\ \A j \in 1 .. Len(preGen.data) :
           \/ Soon(Blk(FirstSched, preGen.data[j]))
           \/ \E i \in 1 .. j - 1 : preGen.data[i] = Barrier(Blk(FirstSched, preGen.data[j]) - 1)
      /\ \/ Soon(Ahead)
         \/ \E i \in 1 .. Len(preGen.data) : preGen.data[i] = Barrier(Ahead - 1)
  BY <1>0, <1>n DEF Fenced
<1>1. CASE preGen'.data = preGen.data /\ Ahead' = Ahead
  BY <1>1, <1>d
<1>2. CASE CtlOpen \/ CtlPut \/ CtlClose
  <2>1. PICK x \in GenItem :
           /\ preGen' = Put(preGen, x)
           /\ Blk(FirstSched, x) = Ahead
           /\ Ahead' = IF x.t = "train" THEN Ahead + 1 ELSE Ahead
    BY <1>2, EnterFacts
  <2>2. PICK n \in Nat : n = Len(preGen.data)
    BY <1>0
  <2>3. /\ Len(preGen'.data) = n + 1
        /\ \A i \in 1 .. n : preGen'.data[i] = preGen.data[i]
        /\ preGen'.data[n + 1] = x
    BY <1>0, <2>1, <2>2, PutShape
  <2>4. ASSUME NEW j \in 1 .. n + 1
        PROVE  \/ Soon(Blk(FirstSched, preGen'.data[j]))
               \/ \E i \in 1 .. j - 1 : preGen'.data[i] = Barrier(Blk(FirstSched, preGen'.data[j]) - 1)
    <3>1. CASE j \in 1 .. n
      <4>1. \A i \in 1 .. j - 1 : i \in 1 .. n
        BY <3>1
      <4> QED BY <1>d, <2>2, <2>3, <3>1, <4>1
    <3>2. CASE j = n + 1
      <4>1. \A i \in 1 .. n : i \in 1 .. j - 1
        BY <3>2
      <4> QED BY <1>d, <2>1, <2>2, <2>3, <3>2, <4>1
    <3> QED BY <3>1, <3>2
  <2>5. \/ Soon(Ahead')
        \/ \E i \in 1 .. n + 1 : preGen'.data[i] = Barrier(Ahead' - 1)
    <3>1. CASE x.t = "train"
      <4>1. x \in BarrierItem
        BY <3>1, ItemTypes DEF GenItem
      <4>2. x = Barrier(x.b) /\ x.b \in Int /\ x.b = Ahead
        BY <1>0, <2>1, <4>1, BlockTypes, ItemTypes
      <4>3. Ahead' - 1 = Ahead
        BY <1>0, <2>1, <3>1
      <4>4. preGen'.data[n + 1] = Barrier(Ahead' - 1) /\ n + 1 \in 1 .. n + 1
        BY <2>3, <4>2, <4>3
      <4> QED BY <4>4
    <3>2. CASE x.t # "train"
      <4>1. \A i \in 1 .. n : i \in 1 .. n + 1
        OBVIOUS
      <4> QED BY <1>d, <2>1, <2>2, <2>3, <3>2, <4>1
    <3> QED BY <3>1, <3>2
  <2> QED BY <2>3, <2>4, <2>5
<1>3. CASE GenPop
  <2>1. /\ preGen' = Pop(preGen) /\ QLen(preGen) > 0 /\ gen'.item = Peek(preGen)
        /\ Ahead' = Ahead
    BY <1>0, <1>3 DEF GenPop, GenType, ctlVars, Ahead
  <2>2. PICK n \in Nat : n = Len(preGen.data)
    BY <1>0
  <2>3. /\ n > 0 /\ Len(preGen'.data) = n - 1
        /\ \A i \in 1 .. n - 1 : preGen'.data[i] = preGen.data[i + 1]
        /\ gen'.item = preGen.data[1]
    BY <1>0, <2>1, <2>2, PopShape
\* The place of an item before it moved up, or the hand it moved to.
  <2>4. ASSUME NEW b, NEW m \in 1 .. n + 1, \E i \in 1 .. m - 1 : preGen.data[i] = Barrier(b - 1)
        PROVE  Soon(b) \/ \E i \in 1 .. m - 1 - 1 : preGen'.data[i] = Barrier(b - 1)
    <3>1. PICK i \in 1 .. m - 1 : preGen.data[i] = Barrier(b - 1)
      BY <2>4
    <3>2. CASE i = 1
      BY <2>3, <3>1, <3>2 DEF Soon
    <3>3. CASE i # 1
      <4>1. PICK k \in Int : k = i - 1 /\ k + 1 = i
        OBVIOUS
      <4>2. k \in 1 .. m - 1 - 1 /\ k \in 1 .. n - 1
        BY <3>3, <4>1
      <4> QED BY <2>3, <3>1, <4>1, <4>2
    <3> QED BY <3>2, <3>3
  <2>5. ASSUME NEW j \in 1 .. n - 1
        PROVE  \/ Soon(Blk(FirstSched, preGen'.data[j]))
               \/ \E i \in 1 .. j - 1 : preGen'.data[i] = Barrier(Blk(FirstSched, preGen'.data[j]) - 1)
    <3>1. PICK m \in 1 .. n + 1 : m = j + 1 /\ m \in 1 .. n /\ m - 1 - 1 = j - 1
      OBVIOUS
    <3>2. preGen'.data[j] = preGen.data[m]
      BY <2>3, <3>1
    <3>3. PICK b : b = Blk(FirstSched, preGen.data[m])
      OBVIOUS
    <3>4. Soon(b) \/ \E i \in 1 .. m - 1 : preGen.data[i] = Barrier(b - 1)
      BY <1>d, <2>2, <3>1, <3>3
    <3>5. Soon(b) \/ \E i \in 1 .. m - 1 - 1 : preGen'.data[i] = Barrier(b - 1)
      BY <2>4, <3>4
    <3> QED BY <3>1, <3>2, <3>3, <3>5
  <2>6. Soon(Ahead) \/ \E i \in 1 .. n - 1 : preGen'.data[i] = Barrier(Ahead - 1)
    <3>1. PICK m \in 1 .. n + 1 : m = n + 1 /\ m - 1 = n /\ m - 1 - 1 = n - 1
      OBVIOUS
    <3>2. PICK b : b = Ahead
      OBVIOUS
    <3>3. Soon(b) \/ \E i \in 1 .. m - 1 : preGen.data[i] = Barrier(b - 1)
      BY <1>d, <2>2, <3>1, <3>2
    <3>4. Soon(b) \/ \E i \in 1 .. m - 1 - 1 : preGen'.data[i] = Barrier(b - 1)
      BY <2>4, <3>3
    <3> QED BY <3>1, <3>2, <3>4
  <2> QED BY <2>1, <2>3, <2>5, <2>6
<1>4. CtlPop \/ CtlExhausted \/ CtlAdvance \/ UNCHANGED vars => preGen' = preGen /\ Ahead' = Ahead
  BY DEF CtlPop, CtlExhausted, CtlAdvance, vars, ctlVars, Ahead, TypeOK, CtlType
<1>5. GenPend \/ GenNeed \/ GenSubmit \/ GenBarrier => preGen'.data = preGen.data /\ Ahead' = Ahead
  BY <1>0 DEF GenPend, GenNeed, GenSubmit, GenBarrier, Pend, Ack, ctlVars, Ahead
<1>6. Callback => preGen'.data = preGen.data /\ Ahead' = Ahead
  BY <1>0 DEF Callback, CbDone, CbIgnoreError, CbRaise, Deliver, Ack, ctlVars, Ahead
<1>7. Trainer => preGen' = preGen /\ Ahead' = Ahead
  BY DEF Trainer, Collecting, TrainRequest, TrainDeploy, TrainSynced, TrainCollect, TrainStep,
     TrainSave, TrainNoSave, ctlVars, Ahead
<1> QED BY <1>1, <1>2, <1>3, <1>4, <1>5, <1>6, <1>7 DEF Next, Control, Generation, Finished

\* The barriers stay in front of what follows them in pre_train.
LEMMA StepFencedTrain ==
  ASSUME TypeOK, Reached, Submitted, Fenced, [Next]_vars
  PROVE  \A j \in 1 .. Len(preTrain'.data) :
           \/ Blk(FirstSched, preTrain'.data[j]) <= Collected'
           \/ \E i \in 1 .. j - 1 :
                preTrain'.data[i] = Barrier(Blk(FirstSched, preTrain'.data[j]) - 1)
<1>0. /\ preTrain \in [data : Seq(TrainItem), pending : Seq(TrainItem)]
      /\ preTrain.data \in Seq(TrainItem) /\ FirstSched \in Int
      /\ Collected \in Int /\ GenType(gen)
      /\ Collected' = IF TrainCollect /\ Peek(preTrain).t = "train"
                      THEN Collected + 1 ELSE Collected
      /\ \A x \in TrainItem \cup GenItem : Blk(FirstSched, x) \in Int
  BY FirstSchedType, CollectedStep, BlockTypes DEF TypeOK, TrainQueue
<1>1. PICK n \in Nat : n = Len(preTrain.data)
  BY <1>0, LenProperties
<1>2. \A j \in 1 .. n : preTrain.data[j] \in TrainItem /\ Blk(FirstSched, preTrain.data[j]) \in Int
  BY <1>0, <1>1, ElementOfSeq
<1>3. \A j \in 1 .. n :
        \/ Blk(FirstSched, preTrain.data[j]) <= Collected'
        \/ \E i \in 1 .. j - 1 : preTrain.data[i] = Barrier(Blk(FirstSched, preTrain.data[j]) - 1)
  <2> SUFFICES ASSUME NEW j \in 1 .. n, Blk(FirstSched, preTrain.data[j]) <= Collected
               PROVE  Blk(FirstSched, preTrain.data[j]) <= Collected'
    BY <1>1 DEF Fenced
  <2>1. PICK b \in Int : b = Blk(FirstSched, preTrain.data[j])
    BY <1>2
  <2> QED BY <1>0, <2>1
<1>4. CASE preTrain'.data = preTrain.data
  BY <1>1, <1>3, <1>4
<1>5. ASSUME NEW x \in TrainItem, preTrain' = Put(preTrain, x), Passed(Blk(FirstSched, x)),
             Collected' = Collected
      PROVE  \A j \in 1 .. Len(preTrain'.data) :
               \/ Blk(FirstSched, preTrain'.data[j]) <= Collected'
               \/ \E i \in 1 .. j - 1 :
                    preTrain'.data[i] = Barrier(Blk(FirstSched, preTrain'.data[j]) - 1)
  <2>1. /\ Len(preTrain'.data) = n + 1
        /\ \A i \in 1 .. n : preTrain'.data[i] = preTrain.data[i]
        /\ preTrain'.data[n + 1] = x
    BY <1>0, <1>1, <1>5, PutShape
  <2> SUFFICES ASSUME NEW j \in 1 .. n + 1
               PROVE  \/ Blk(FirstSched, preTrain'.data[j]) <= Collected'
                      \/ \E i \in 1 .. j - 1 :
                           preTrain'.data[i] = Barrier(Blk(FirstSched, preTrain'.data[j]) - 1)
    BY <2>1
  <2>2. CASE j \in 1 .. n
    <3>1. \A i \in 1 .. j - 1 : i \in 1 .. n
      BY <2>2
    <3> QED BY <1>3, <2>1, <2>2, <3>1
  <2>3. CASE j = n + 1
    <3>1. \A i \in 1 .. n : i \in 1 .. j - 1
      BY <2>3
    <3> QED BY <1>1, <1>5, <2>1, <2>3, <3>1 DEF Passed, Contains
  <2> QED BY <2>2, <2>3
<1>6. CASE TrainCollect
  <2>1. /\ n > 0 /\ Len(preTrain'.data) = n - 1
        /\ \A i \in 1 .. n - 1 : preTrain'.data[i] = preTrain.data[i + 1]
        /\ Peek(preTrain) = preTrain.data[1] /\ Peek(preTrain) \in TrainItem
        /\ Blk(FirstSched, Peek(preTrain)) = Collected
    BY <1>1, <1>6, HeadReached
  <2> SUFFICES ASSUME NEW j \in 1 .. n - 1
               PROVE  \/ Blk(FirstSched, preTrain'.data[j]) <= Collected'
                      \/ \E i \in 1 .. j - 1 :
                           preTrain'.data[i] = Barrier(Blk(FirstSched, preTrain'.data[j]) - 1)
    BY <2>1
  <2>2. PICK m \in 1 .. n : m = j + 1 /\ m - 1 = j /\ preTrain'.data[j] = preTrain.data[m]
    <3>1. j + 1 \in 1 .. n /\ (j + 1) - 1 = j
      BY <1>1
    <3> QED BY <2>1, <3>1
  <2>3. PICK b \in Int : b = Blk(FirstSched, preTrain.data[m])
    BY <1>2
  <2>4. CASE b <= Collected'
    BY <2>2, <2>3, <2>4
  <2>5. CASE \E i \in 1 .. m - 1 : preTrain.data[i] = Barrier(b - 1)
    <3>1. PICK i \in 1 .. m - 1 : preTrain.data[i] = Barrier(b - 1)
      BY <2>5
    <3>2. CASE i = 1
      <4>1. Barrier(b - 1) \in BarrierItem /\ Barrier(b - 1).t = "train" /\ Barrier(b - 1).b = b - 1
        BY <2>3, ItemTypes DEF Barrier
      <4>2. Blk(FirstSched, Barrier(b - 1)) = b - 1
        BY <1>0, <4>1, BlockTypes
      <4>3. Peek(preTrain).t = "train" /\ Collected = b - 1
        BY <2>1, <3>1, <3>2, <4>1, <4>2
      <4>4. Collected' = Collected + 1
        BY <1>0, <1>6, <4>3
      <4>5. b <= Collected'
        BY <2>3, <4>3, <4>4
      <4> QED BY <2>4, <4>5
    <3>3. CASE i # 1
      <4>1. PICK k \in Int : k = i - 1 /\ k + 1 = i
        OBVIOUS
      <4>2. k \in 1 .. j - 1 /\ k \in 1 .. n - 1
        BY <1>1, <2>2, <3>3, <4>1
      <4>3. preTrain'.data[k] = Barrier(b - 1)
        BY <2>1, <3>1, <4>1, <4>2
      <4> QED BY <2>2, <2>3, <4>2, <4>3
    <3> QED BY <3>2, <3>3
  <2> QED BY <1>3, <2>3, <2>4, <2>5
<1>7. CASE GenBarrier
  <2>1. gen.item \in BarrierItem /\ gen.item # NoItem /\ gen.item \in TrainItem
    BY <1>0, <1>7, ItemTypes DEF GenBarrier, GenItem, GenType, TrainItem
  <2>2. Passed(Blk(FirstSched, gen.item))
    BY <2>1 DEF Fenced
  <2>3. PICK x \in TrainItem : x = gen.item
    BY <2>1
  <2>4. preTrain' = Put(preTrain, x) /\ trainer' = trainer
    BY <1>7, <2>3 DEF GenBarrier, trainVars
  <2>5. Collected' = Collected
    <3>1. train' = train /\ FirstSched' = FirstSched
      BY <1>7 DEF GenBarrier, verVars, FirstSched
    <3> QED BY <2>4, <3>1 DEF Collected
  <2> QED BY <1>5, <2>2, <2>3, <2>4, <2>5
<1>8. ASSUME NEW x \in running, Deliver(x)
      PROVE  \A j \in 1 .. Len(preTrain'.data) :
               \/ Blk(FirstSched, preTrain'.data[j]) <= Collected'
               \/ \E i \in 1 .. j - 1 :
                    preTrain'.data[i] = Barrier(Blk(FirstSched, preTrain'.data[j]) - 1)
  <2>1. /\ Rollout(x.p, x.seen) \in RolloutItem /\ Prompt(x.p) \in PromptItem
        /\ Rollout(x.p, x.seen).p = x.p /\ Prompt(x.p).p = x.p
    <3>1. x.p \in Nat \ {0} /\ x.seen \in SUBSET Int
      BY DEF TypeOK, Generated
    <3> QED BY <3>1, ItemTypes DEF Rollout, Prompt
  <2>2. Blk(FirstSched, Rollout(x.p, x.seen)) = Blk(FirstSched, Prompt(x.p))
    BY <1>0, <2>1, BlockTypes
  <2>3. Passed(Blk(FirstSched, Prompt(x.p)))
    <3>1. Contains(preGen.pending, Prompt(x.p))
      BY DEF Submitted
    <3>2. PICK k \in 1 .. Len(preGen.pending) : preGen.pending[k] = Prompt(x.p)
      BY <3>1 DEF Contains
    <3>3. Passed(Blk(FirstSched, preGen.pending[k]))
      BY DEF Fenced
    <3> QED BY <3>2, <3>3
  <2>4. PICK y \in TrainItem : y = Rollout(x.p, x.seen)
    BY <2>1 DEF TrainItem
  <2>5. preTrain' = Put(preTrain, y) /\ trainer' = trainer
    BY <1>8, <2>4 DEF Deliver, trainVars
  <2>6. Collected' = Collected
    <3>1. train' = train /\ FirstSched' = FirstSched
      BY <1>8 DEF Deliver, verVars, FirstSched
    <3> QED BY <2>5, <3>1 DEF Collected
  <2> QED BY <1>5, <2>2, <2>3, <2>4, <2>5, <2>6
<1>9. ASSUME NEW x \in running, CbRaise(x)
      PROVE  preTrain'.data = preTrain.data
  BY <1>9 DEF CbRaise
<1>10. Control \/ UNCHANGED vars => preTrain'.data = preTrain.data
  BY DEF Control, CtlOpen, CtlPop, CtlPut, CtlExhausted, CtlClose, CtlAdvance, vars
<1>11. GenPop \/ GenPend \/ GenNeed \/ GenSubmit => preTrain'.data = preTrain.data
  BY DEF GenPop, GenPend, GenNeed, GenSubmit
<1>12. TrainRequest \/ TrainDeploy \/ TrainSynced \/ TrainStep \/ TrainNoSave
        => preTrain'.data = preTrain.data
  BY DEF TrainRequest, TrainDeploy, TrainSynced, TrainStep, TrainNoSave
<1>13. TrainSave => preTrain'.data = preTrain.data
  BY <1>0 DEF TrainSave, WeightDumped
<1> QED BY <1>4, <1>6, <1>7, <1>8, <1>9, <1>10, <1>11, <1>12, <1>13
        DEF Next, Generation, Callback, CbDone, CbIgnoreError, Trainer, Collecting, Finished

\* The batch is of no later version than the one that is collected.
LEMMA StepFencedBatch ==
  ASSUME TypeOK, Reached, Fenced, [Next]_vars
  PROVE  \A i \in 1 .. Len(trainer'.batch) :
           Block(FirstSched, trainer'.batch[i].p) <= train' + FirstSched
<1>0. /\ trainer \in TrainerType /\ trainer.batch \in Seq(RolloutItem) /\ train \in Int
      /\ FirstSched \in Int /\ Len(trainer.batch) \in Nat
  BY FirstSchedType, LenProperties DEF TypeOK, TrainerType
<1>1. CASE trainer'.batch = trainer.batch /\ train' = train
  BY <1>1 DEF Fenced
<1>2. CASE trainer'.batch = <<>>
  <2>1. \A i \in 1 .. Len(trainer'.batch) : FALSE
    BY <1>2
  <2> QED BY <2>1
<1>3. CASE TrainCollect
  <2>1. /\ Blk(FirstSched, Peek(preTrain)) = Collected /\ Peek(preTrain) \in TrainItem
        /\ Collected = train + FirstSched /\ train' = train
    BY <1>3, HeadReached, CollectedStep DEF TrainCollect, verVars
  <2>2. CASE Peek(preTrain).t = "train"
    <3>1. trainer'.batch = trainer.batch
      BY <1>0, <1>3, <2>2 DEF TrainCollect, TrainerType
    <3> QED BY <1>1, <2>1, <3>1
  <2>3. CASE Peek(preTrain).t # "train"
    <3>1. PICK x \in RolloutItem : x = Peek(preTrain)
      BY <2>1, <2>3, ItemTypes DEF TrainItem
    <3>2. trainer'.batch = Append(trainer.batch, x)
      BY <1>0, <1>3, <2>3, <3>1 DEF TrainCollect, TrainerType
    <3>3. /\ Len(trainer'.batch) = Len(trainer.batch) + 1
          /\ \A i \in 1 .. Len(trainer.batch) : trainer'.batch[i] = trainer.batch[i]
          /\ trainer'.batch[Len(trainer.batch) + 1] = x
      BY <1>0, <3>2, AppendProperties
    <3>4. Block(FirstSched, x.p) = train + FirstSched
      BY <1>0, <2>1, <3>1, BlockTypes
    <3>5. ASSUME NEW i \in 1 .. Len(trainer'.batch)
          PROVE  Block(FirstSched, trainer'.batch[i].p) <= train' + FirstSched
      <4>1. i \in 1 .. Len(trainer.batch) \/ i = Len(trainer.batch) + 1
        BY <1>0, <3>3
      <4>2. train + FirstSched <= train + FirstSched
        BY <1>0
      <4> QED BY <2>1, <3>3, <3>4, <4>1, <4>2 DEF Fenced
    <3> QED BY <3>5
  <2> QED BY <2>2, <2>3
<1>4. TrainStep => trainer'.batch = <<>>
  BY DEF TrainStep
<1>5. TrainRequest \/ TrainDeploy \/ TrainSynced \/ TrainSave \/ TrainNoSave => trainer'.batch = <<>>
  <2>1. TrainRequest \/ TrainDeploy \/ TrainSynced \/ TrainSave \/ TrainNoSave
          => trainer.batch = <<>> /\ trainer'.batch = trainer.batch
    BY <1>0 DEF Reached, TrainRequest, TrainDeploy, TrainSynced, TrainSave, TrainNoSave, TrainerType
  <2> QED BY <2>1
<1>6. ~Trainer => trainer' = trainer /\ train' = train
  BY DEF Next, Control, CtlOpen, CtlPop, CtlPut, CtlExhausted, CtlClose, CtlAdvance,
         Generation, GenPop, GenPend, GenNeed, GenSubmit, GenBarrier,
         Callback, CbDone, CbIgnoreError, CbRaise, Deliver, Finished,
         vars, verVars, trainVars
<1> QED BY <1>1, <1>2, <1>3, <1>4, <1>5, <1>6 DEF Trainer, Collecting

\* Nothing overtakes a barrier.
LEMMA StepFenced ==
  ASSUME TypeOK, Filling, Reached, Submitted, Fenced, [Next]_vars
  PROVE  Fenced'
<1>1. FirstSched' = FirstSched
  BY StrategyFixed
<1>2. /\ \A j \in 1 .. Len(preGen'.pending) : Now(Blk(FirstSched, preGen'.pending[j]))
      /\ gen'.item # NoItem => Now(Blk(FirstSched, gen'.item))
  BY StepFencedOut
<1>3. /\ \A j \in 1 .. Len(preGen'.data) :
           \/ Soon(Blk(FirstSched, preGen'.data[j]))
           \/ \E i \in 1 .. j - 1 : preGen'.data[i] = Barrier(Blk(FirstSched, preGen'.data[j]) - 1)
      /\ \/ Soon(Ahead')
         \/ \E i \in 1 .. Len(preGen'.data) : preGen'.data[i] = Barrier(Ahead' - 1)
  BY StepFencedQueue
<1>4. \A j \in 1 .. Len(preTrain'.data) :
        \/ Blk(FirstSched, preTrain'.data[j]) <= Collected'
        \/ \E i \in 1 .. j - 1 :
             preTrain'.data[i] = Barrier(Blk(FirstSched, preTrain'.data[j]) - 1)
  BY StepFencedTrain
<1>5. \A i \in 1 .. Len(trainer'.batch) :
        Block(FirstSched, trainer'.batch[i].p) <= train' + FirstSched
  BY StepFencedBatch
<1> QED BY <1>1, <1>2, <1>3, <1>4, <1>5 DEF Fenced, Passed, Cleared, Now, Soon

-----------------------------------------------------------------------------
(* Batches are the blocks of the source.                                   *)

\* Each batch of l is the next block of the source, whole.
Whole(l) == \A k \in DOMAIN l : PromptIds(l[k]) = (k - 1) * PromptPerIter + 1 .. k * PromptPerIter

\* The prompts of a block.
LEMMA BlockRange ==
  ASSUME NEW f \in Int, NEW p \in Nat \ {0}, NEW n \in Int
  PROVE  Block(f, p) = f + n <=> PromptPerIter * n + 1 <= p /\ p <= PromptPerIter * n + PromptPerIter
<1>1. PICK P \in Nat \ {0} : P = PromptPerIter
  BY ConfigTypes
<1>2. PICK q \in Int : q = (p - 1) \div P
  BY <1>1
<1>3. P * q <= p - 1 /\ p - 1 < P * q + P
  BY <1>1, <1>2
<1>4. Block(f, p) = f + n <=> q = n
  BY <1>1, <1>2 DEF Block
<1>5. q = n => P * n + 1 <= p /\ p <= P * n + P
  BY <1>1, <1>3
<1>6. ASSUME P * n + 1 <= p, p <= P * n + P PROVE q = n
  <2>1. PICK k \in 0 .. P - 1 : p - 1 = P * n + k
    <3>1. PICK k \in Int : k = p - 1 - P * n
      BY <1>1
    <3>2. k \in 0 .. P - 1 /\ p - 1 = P * n + k
      BY <1>1, <1>6, <3>1
    <3> QED BY <3>2
  <2>2. (P * n + k) \div P = n
    BY <1>1, BlockArithmetic
  <2> QED BY <1>2, <2>1, <2>2
<1> QED BY <1>1, <1>4, <1>5, <1>6

\* The source is past every block before the one the control worker is at.
LEMMA SourcePast ==
  ASSUME TypeOK, Filling, NEW n \in Int, FirstSched + n < Ahead
  PROVE  PromptPerIter * n + PromptPerIter <= source - 1
<1>1. PICK P \in Nat \ {0} : P = PromptPerIter
  BY ConfigTypes
<1>2. /\ sched \in Int /\ FirstSched \in Int /\ source \in Nat /\ CtlType(ctl)
      /\ BlockStart = PromptPerIter * (sched - FirstSched)
  BY FirstSchedType DEF TypeOK, BlockStart
<1>3. PICK d \in Int : d = sched - FirstSched
  BY <1>2
<1>4. BlockStart = P * d /\ P * d \in Int /\ P * (n + 1) = P * n + P /\ P * n \in Int
  BY <1>1, <1>2, <1>3
<1>5. n + 1 <= d => P * (n + 1) <= P * d
  BY <1>1, <1>3, BlockArithmetic
<1>6. P * d <= source - 1 /\ (ctl.pc = "advance" => P * d + P <= source - 1)
  <2>1. ctl.pc \in {"check", "fill", "advance", "exit"} /\ ctl.left \in Nat
    BY <1>2 DEF CtlType
  <2>2. CASE ctl.pc = "fill"
    BY <1>1, <1>2, <1>4, <2>1, <2>2 DEF Filling, Spent
  <2>3. CASE ctl.pc # "fill"
    BY <1>1, <1>2, <1>4, <2>1, <2>3 DEF Filling, Spent
  <2> QED BY <2>2, <2>3
<1>7. CASE ctl.pc = "advance"
  <2>1. n <= d
    BY <1>2, <1>3, <1>7 DEF Ahead
  <2>2. P * n <= P * d
    BY <1>1, <1>3, <2>1, BlockArithmetic
  <2> QED BY <1>1, <1>2, <1>4, <1>6, <1>7, <2>2
<1>8. CASE ctl.pc # "advance"
  <2>1. n + 1 <= d
    BY <1>2, <1>3, <1>8 DEF Ahead
  <2> QED BY <1>1, <1>2, <1>4, <1>5, <1>6, <2>1
<1> QED BY <1>7, <1>8

\* A prompt of the block the trainer has collected is nowhere but in the batch.
LEMMA BatchWhole ==
  ASSUME TypeOK, Filling, Reached, Versions, LaterPending, Once, Fenced, Whole(log),
         trainer.pc = "step"
  PROVE  PromptIds(trainer.batch)
           = Len(log) * PromptPerIter + 1 .. (Len(log) + 1) * PromptPerIter
<1>1. PICK f \in Int : f = FirstSched
  BY FirstSchedType
<1>2. PICK P \in Nat \ {0} : P = PromptPerIter
  BY ConfigTypes
<1>3. PICK n \in Nat : n = Len(log) /\ n = train
  BY LenProperties DEF TypeOK, Versions
<1>4. /\ trainer.batch \in Seq(RolloutItem) /\ Len(trainer.batch) \in Nat
      /\ DOMAIN trainer.batch = 1 .. Len(trainer.batch)
      /\ \A i \in 1 .. Len(trainer.batch) : trainer.batch[i] \in RolloutItem
      /\ DOMAIN log = 1 .. n
  BY <1>3, LenProperties, ElementOfSeq DEF TypeOK, TrainerType
<1>5. Collected = n + f + 1 /\ Collected - 1 = f + n
  BY <1>1, <1>3 DEF Collected
<1>6. ASSUME NEW p \in PromptIds(trainer.batch)
      PROVE  p \in P * n + 1 .. P * n + P
  <2>1. PICK i \in 1 .. Len(trainer.batch) : p = trainer.batch[i].p
    BY <1>4 DEF PromptIds
  <2>2. p \in Nat \ {0}
    BY <1>4, <2>1, ItemTypes
  <2>3. PICK b \in Int : b = Block(f, p)
    BY <2>2, BlockTypes
  <2>4. n + f <= b /\ b <= n + f
    BY <1>1, <1>3, <2>1, <2>3 DEF Reached, Fenced
  <2>5. Block(f, p) = f + n
    BY <2>3, <2>4
  <2>6. PromptPerIter * n + 1 <= p /\ p <= PromptPerIter * n + PromptPerIter
    <3>1. n \in Int
      OBVIOUS
    <3> QED BY <2>2, <2>5, <3>1, BlockRange
  <2> QED BY <1>2, <2>2, <2>6
<1>7. ASSUME NEW p \in P * n + 1 .. P * n + P
      PROVE  p \in PromptIds(trainer.batch)
  <2>1. p \in Nat \ {0} /\ P * n + 1 <= p /\ p <= P * n + P
    <3>1. P * n \in Nat
      OBVIOUS
    <3> QED BY <3>1
  <2>2. Block(f, p) = f + n
    BY <1>2, <2>1, BlockRange
  <2>3. p < source
    <3>1. FirstSched + n < Ahead
      BY <1>1, <1>5 DEF Reached, Later
    <3>2. PromptPerIter * n + PromptPerIter <= source - 1
      BY <3>1, SourcePast
    <3>3. source \in Nat /\ P * n \in Nat
      BY DEF TypeOK
    <3> QED BY <1>2, <2>1, <3>2, <3>3
  <2> DEFINE T == Cardinality(Trained(log, p))
             B == Count(trainer.batch, p)
             D == Count(preTrain.data, p)
             Q == Count(preGen.pending, p)
             G == Count(preGen.data, p)
             H == IF ctl.hand = Prompt(p) THEN 1 ELSE 0
             W == IF gen.pc = "pend" /\ gen.item = Prompt(p) THEN 1 ELSE 0
  <2>4. /\ T \in Nat /\ B \in Nat /\ D \in Nat /\ Q \in Nat /\ G \in Nat
        /\ GenItem \subseteq AnyItem /\ TrainItem \subseteq AnyItem /\ RolloutItem \subseteq AnyItem
    BY <2>1, CopiesParts
  <2>5. T + B + D + Q + G + H + W = 1
    BY <2>1, <2>3 DEF Once, Copies
  <2>6. T = 0
    <3>1. ASSUME NEW k \in 1 .. n PROVE p \notin PromptIds(log[k])
      <4>1. PromptIds(log[k]) = (k - 1) * P + 1 .. k * P
        BY <1>2, <1>4 DEF Whole
      <4>2. PromptPerIter * k <= PromptPerIter * n
        BY BlockArithmetic
      <4>3. k * P <= P * n
        BY <1>2, <4>2
      <4>4. P * n \in Nat /\ k * P \in Nat /\ (k - 1) * P \in Int
        OBVIOUS
      <4> QED BY <2>1, <4>1, <4>3, <4>4
    <3>2. \A k \in DOMAIN log : p \notin PromptIds(log[k])
      BY <1>4, <3>1
    <3> QED BY <3>2, TrainedNone
  <2>7. ASSUME NEW x, IsPrompt(x), x.p = p PROVE Blk(f, x) = f + n
    BY <2>2, <2>7 DEF Blk, IsPrompt
  <2>8. D = 0
    <3>1. ASSUME NEW i \in 1 .. Len(preTrain.data), IsPrompt(preTrain.data[i]),
                 preTrain.data[i].p = p
          PROVE  FALSE
      <4>1. Blk(f, preTrain.data[i]) = f + n
        BY <2>7, <3>1
      <4>2. n + f + 1 <= Blk(f, preTrain.data[i])
        BY <1>1, <1>5 DEF Reached
      <4> QED BY <4>1, <4>2
    <3>2. preTrain.data \in Seq(TrainItem)
      BY DEF TypeOK, TrainQueue
    <3> QED BY <2>4, <3>1, <3>2, CountSome
  <2>9. Q = 0
    <3>1. ASSUME NEW i \in 1 .. Len(preGen.pending), IsPrompt(preGen.pending[i]),
                 preGen.pending[i].p = p
          PROVE  FALSE
      <4>1. Blk(f, preGen.pending[i]) = f + n
        BY <2>7, <3>1
      <4>2. n + f + 1 <= Blk(f, preGen.pending[i])
        BY <1>1, <1>5 DEF LaterPending
      <4> QED BY <4>1, <4>2
    <3>2. preGen.pending \in Seq(GenItem)
      BY DEF TypeOK, GenQueue
    <3> QED BY <2>4, <3>1, <3>2, CountSome
  <2>10. G = 0
    <3>1. ASSUME NEW i \in 1 .. Len(preGen.data), IsPrompt(preGen.data[i]),
                 preGen.data[i].p = p
          PROVE  FALSE
      <4>1. Blk(f, preGen.data[i]) = f + n
        BY <2>7, <3>1
      <4>2. f + n < Blk(f, preGen.data[i])
        BY <1>1, <1>5 DEF Reached, Later
      <4> QED BY <4>1, <4>2
    <3>2. preGen.data \in Seq(GenItem)
      BY DEF TypeOK, GenQueue
    <3> QED BY <2>4, <3>1, <3>2, CountSome
  <2>a. IsPrompt(Prompt(p)) /\ Prompt(p).p = p /\ Prompt(p) # NoItem
    BY ItemTypes DEF IsPrompt, Prompt, NoItem
  <2>11. H = 0
    <3>1. SUFFICES ASSUME ctl.hand = Prompt(p) PROVE FALSE
      OBVIOUS
    <3>2. ctl.hand # NoItem /\ ctl.hand.p = p
      BY <2>a, <3>1
    <3>3. ctl.pc = "fill"
      BY <3>2 DEF TypeOK, CtlType
    <3>4. Ahead = sched /\ Block(f, p) = sched
      BY <1>1, <3>2, <3>3 DEF Filling, Ahead
    <3>5. f + n < Ahead
      BY <1>5 DEF Reached, Later
    <3> QED BY <2>2, <3>4, <3>5
  <2>12. W = 0
    <3>1. SUFFICES ASSUME gen.item = Prompt(p) PROVE FALSE
      OBVIOUS
    <3>2. f + n < Blk(f, gen.item)
      BY <1>1, <1>5, <2>a, <3>1 DEF Reached, Later
    <3>3. Blk(f, gen.item) = f + n
      BY <2>7, <2>a, <3>1
    <3> QED BY <3>2, <3>3
  <2>13. B # 0
    <3> HIDE DEF T, B, D, Q, G, H, W
    <3> QED BY <2>4, <2>5, <2>6, <2>8, <2>9, <2>10, <2>11, <2>12
  <2>14. \E i \in 1 .. Len(trainer.batch) : IsPrompt(trainer.batch[i]) /\ trainer.batch[i].p = p
    BY <1>4, <2>4, <2>13, CountSome
  <2> QED BY <1>4, <2>14 DEF PromptIds
<1>8. n * P + 1 = P * n + 1 /\ (n + 1) * P = P * n + P
  OBVIOUS
<1>9. PromptIds(trainer.batch) = P * n + 1 .. P * n + P
  BY <1>6, <1>7
<1> QED BY <1>2, <1>3, <1>8, <1>9

\* The batches stay whole.
LEMMA StepWhole ==
  ASSUME TypeOK, Filling, Reached, Versions, LaterPending, Once, Fenced, Whole(log), [Next]_vars
  PROVE  Whole(log')
<1>1. CASE TrainStep
  <2>1. trainer.pc = "step" /\ log' = Append(log, trainer.batch)
    BY <1>1 DEF TrainStep
  <2>2. log \in Seq(Seq(RolloutItem)) /\ trainer.batch \in Seq(RolloutItem) /\ Len(log) \in Nat
    BY LenProperties DEF TypeOK, TrainerType
  <2>3. /\ DOMAIN log = 1 .. Len(log) /\ DOMAIN log' = 1 .. Len(log) + 1
        /\ log'[Len(log) + 1] = trainer.batch /\ \A k \in 1 .. Len(log) : log'[k] = log[k]
    <3>1. /\ Append(log, trainer.batch) \in Seq(Seq(RolloutItem))
          /\ Len(Append(log, trainer.batch)) = Len(log) + 1
          /\ Append(log, trainer.batch)[Len(log) + 1] = trainer.batch
          /\ \A k \in 1 .. Len(log) : Append(log, trainer.batch)[k] = log[k]
      BY <2>2, AppendProperties
    <3> QED BY <2>1, <2>2, <3>1, LenProperties
  <2>4. PromptIds(trainer.batch)
          = Len(log) * PromptPerIter + 1 .. (Len(log) + 1) * PromptPerIter
    BY <2>1, BatchWhole
  <2>5. ASSUME NEW k \in 1 .. Len(log) + 1
        PROVE  PromptIds(log'[k]) = (k - 1) * PromptPerIter + 1 .. k * PromptPerIter
    <3>1. CASE k \in 1 .. Len(log)
      BY <2>3, <3>1 DEF Whole
    <3>2. CASE k = Len(log) + 1
      <4>1. k - 1 = Len(log)
        BY <2>2, <3>2
      <4> QED BY <2>3, <2>4, <3>2, <4>1
    <3>3. k \in 1 .. Len(log) \/ k = Len(log) + 1
      BY <2>2
    <3> QED BY <3>1, <3>2, <3>3
  <2> QED BY <2>3, <2>5 DEF Whole
<1>2. CASE ~TrainStep
  <2>1. log' = log
    BY <1>2 DEF Next, Control, CtlOpen, CtlPop, CtlPut, CtlExhausted, CtlClose, CtlAdvance,
                Generation, GenPop, GenPend, GenNeed, GenSubmit, GenBarrier,
                Callback, CbDone, CbIgnoreError, CbRaise, Deliver, Finished,
                Trainer, Collecting, TrainRequest, TrainDeploy, TrainSynced, TrainCollect,
                TrainSave, TrainNoSave, vars, trainVars
  <2> QED BY <2>1
<1> QED BY <1>1, <1>2

\* What says that nothing is lost, duplicated or split.
Accounted == Once /\ Submitted /\ Fenced /\ (cbAlive => Whole(log))

\* Nothing was handed out at first.
LEMMA InitAccounted == Init => Accounted
<1> SUFFICES ASSUME Init PROVE Accounted
  OBVIOUS
<1>1. /\ log = <<>> /\ trainer.batch = <<>> /\ preTrain.data = <<>> /\ preGen.pending = <<>>
      /\ preGen.data = <<>> /\ ctl.hand = NoItem /\ gen.pc = "pop" /\ gen.item = NoItem
      /\ gen.needAck = NoItem /\ running = {} /\ source = 1 /\ train = -1
      /\ sched = FirstSched /\ ctl.pc = "check" /\ trainer.pc = "idle"
  BY DEF Init, EmptyQueue
<1>2. \A k \in DOMAIN <<>> : FALSE
  OBVIOUS
<1>3. Once
  <2> SUFFICES ASSUME NEW p \in Nat \ {0} PROVE Copies(p) = 0
    BY <1>1 DEF Once
  <2>1. Cardinality(Trained(log, p)) = 0
    BY <1>1, <1>2, TrainedNone
  <2>2. Count(<<>>, p) = 0
    BY CountEmpty
  <2>3. ctl.hand # Prompt(p)
    BY <1>1, ItemTypes
  <2> QED BY <1>1, <2>1, <2>2, <2>3 DEF Copies
<1>4. Submitted
  BY <1>1 DEF Submitted
<1>5. Fenced
  <2>1. FirstSched \in Int
    BY FirstSchedType
  <2>2. Collected = FirstSched /\ Ahead = FirstSched
    BY <1>1, <2>1 DEF Collected, Ahead
  <2>3. Cleared(Ahead)
    BY <2>1, <2>2 DEF Cleared, Passed
  <2> QED BY <1>1, <2>3 DEF Fenced
<1>6. Whole(log)
  BY <1>1, <1>2 DEF Whole
<1> QED BY <1>3, <1>4, <1>5, <1>6 DEF Accounted

\* No step of the flow loses, duplicates or splits anything.
LEMMA StepAccounted ==
  ASSUME Flowing, cbAlive => Streaming, Accounted, [Next]_vars
  PROVE  Accounted'
<1>1. TypeOK /\ Filling /\ Reached /\ Versions /\ Once /\ Submitted /\ Fenced
  BY DEF Flowing, Accounted
<1>2. Once' /\ Submitted' /\ Fenced'
  BY <1>1, StepOnce, StepSubmitted, StepFenced
<1>3. cbAlive' => cbAlive
  BY DEF Next, Control, CtlOpen, CtlPop, CtlPut, CtlExhausted, CtlClose, CtlAdvance,
         Generation, GenPop, GenPend, GenNeed, GenSubmit, GenBarrier,
         Callback, CbDone, CbIgnoreError, CbRaise, Deliver, Finished, Trainer, Collecting,
         TrainRequest, TrainDeploy, TrainSynced, TrainCollect, TrainStep, TrainSave,
         TrainNoSave, vars
<1>4. ASSUME cbAlive' PROVE Whole(log')
  <2>1. LaterPending /\ Whole(log)
    BY <1>3, <1>4 DEF Streaming, Blocks, Accounted
  <2> QED BY <1>1, <2>1, StepWhole
<1> QED BY <1>2, <1>4 DEF Accounted, Whole

\* Nor do the ends of save_checkpoint().
LEMMA SaveAccounted ==
  ASSUME TypeOK, Accounted, SaveStep
  PROVE  Accounted'
<1>1. /\ UNCHANGED <<strategy, sched, source, locked, ctl, train, infer, served, preGen, gen,
                     running, cbAlive, log>>
      /\ FirstSched' = FirstSched
  BY DEF SaveStep, ctlVars, verVars, FirstSched
<1>2. preTrain'.data = preTrain.data
  BY DEF SaveStep, WeightDumped, TypeOK, TrainQueue
<1>3. /\ trainer'.batch = trainer.batch
      /\ trainer.pc \in {"after", "snapshot"} /\ trainer'.pc \in {"snapshot", "idle"}
  BY DEF SaveStep, TypeOK, TrainerType
<1>4. Collected' = Collected /\ Ahead' = Ahead
  BY <1>1, <1>3 DEF Collected, Ahead
<1>5. Once'
  BY <1>1, <1>2, <1>3 DEF Accounted, Once, Copies
<1>6. Submitted'
  BY <1>1 DEF Accounted, Submitted
<1>7. \A b : (Passed(b)' <=> Passed(b)) /\ (Cleared(b)' <=> Cleared(b))
  BY <1>1, <1>2, <1>4 DEF Passed, Cleared
<1>8. Fenced'
  <2>1. /\ \A j \in 1 .. Len(preGen.pending) : Passed(Blk(FirstSched, preGen.pending[j]))'
        /\ gen.item # NoItem => Passed(Blk(FirstSched, gen.item))'
        /\ \A j \in 1 .. Len(preGen.data) :
             \/ Cleared(Blk(FirstSched, preGen.data[j]))'
             \/ \E i \in 1 .. j - 1 : preGen.data[i] = Barrier(Blk(FirstSched, preGen.data[j]) - 1)
        /\ Cleared(Ahead)' \/ \E i \in 1 .. Len(preGen.data) : preGen.data[i] = Barrier(Ahead - 1)
    BY <1>1, <1>2, <1>4 DEF Accounted, Fenced, Passed, Cleared
  <2>2. /\ \A j \in 1 .. Len(preTrain.data) :
             \/ Blk(FirstSched, preTrain.data[j]) <= Collected
             \/ \E i \in 1 .. j - 1 :
                  preTrain.data[i] = Barrier(Blk(FirstSched, preTrain.data[j]) - 1)
        /\ \A i \in 1 .. Len(trainer.batch) :
             Block(FirstSched, trainer.batch[i].p) <= train + FirstSched
    BY DEF Accounted, Fenced
  <2> QED BY <1>1, <1>2, <1>3, <1>4, <2>1, <2>2 DEF Fenced
<1>9. cbAlive' => Whole(log)'
  BY <1>1 DEF Accounted
<1> QED BY <1>5, <1>6, <1>8, <1>9 DEF Accounted
-----------------------------------------------------------------------------
(* What a checkpoint that is the image of one moment accounts for.         *)

\* Everywhere a checkpoint may have a prompt.
CkptCopies(c, p) ==
  Cardinality(Trained(c.log, p)) + Count(c.trainItems, p) + Count(c.genPending, p)
    + Count(c.genData, p)

\* The blocks before b were trained on, or will be before anything else that a
\* restart from c gives back to pre_train, w, ...
CkptPassed(f, c, w, b) == b <= c.train + f + 1 \/ Contains(w, Barrier(b - 1))

\* ... and the barriers are in front in what it gives back to pre_gen, r.
CkptFenced(f, c, r, w) ==
  /\ \A j \in 1 .. Len(r) :
       \/ CkptPassed(f, c, w, Blk(f, r[j]))
       \/ \E i \in 1 .. j - 1 : r[i] = Barrier(Blk(f, r[j]) - 1)
  /\ CkptPassed(f, c, w, c.sched) \/ \E i \in 1 .. Len(r) : r[i] = Barrier(c.sched - 1)
  /\ \A j \in 1 .. Len(w) :
       \/ Blk(f, w[j]) <= c.train + f + 1
       \/ \E i \in 1 .. j - 1 : w[i] = Barrier(Blk(f, w[j]) - 1)

\* A restart from c loses, duplicates and splits nothing.
Exact(f, c) ==
  /\ \A p \in Nat \ {0} : CkptCopies(c, p) = IF p < c.source THEN 1 ELSE 0
  /\ CkptFenced(f, c, c.genPending \o c.genData, c.trainItems)
  /\ Whole(c.log)

\* So does one from the image of one moment.
LEMMA ImageExact ==
  ASSUME Flowing, Streaming, Settled, trainer.pc = "snapshot", Once, Fenced, Whole(log),
         NEW c, Image(c)
  PROVE  Exact(FirstSched, c)
<1>0. TypeOK /\ Locking /\ Reached /\ Held
  BY DEF Flowing, Streaming
<1>1. PICK f \in Int : f = FirstSched
  BY FirstSchedType
<1>2. /\ gen.pc # "pend" /\ ctl.pc \in {"check", "exit"} /\ ctl.hand = NoItem
      /\ trainer.batch = <<>> /\ Collected = train + f + 1 /\ train \in Int
      /\ Ahead = sched /\ GenType(gen)
  <2>1. gen.pc # "pend" /\ ~locked
    BY DEF Settled
  <2>2. CtlType(ctl) /\ GenType(gen) /\ train \in Int
    BY <1>0 DEF TypeOK
  <2>3. ctl.pc \in {"check", "exit"} /\ ctl.hand = NoItem
    BY <1>0, <2>1, <2>2 DEF Locking, CtlType
  <2>4. trainer.batch = <<>>
    BY <1>0 DEF Reached
  <2> QED BY <1>1, <2>1, <2>2, <2>3, <2>4 DEF Collected, Ahead
<1>3. ASSUME NEW p \in Nat \ {0}
      PROVE  CkptCopies(c, p) = IF p < c.source THEN 1 ELSE 0
  <2>1. Copies(p) = IF p < source THEN 1 ELSE 0
    BY DEF Once
  <2>2. Count(trainer.batch, p) = 0
    BY <1>2, CountEmpty
  <2>3. ctl.hand # Prompt(p)
    BY <1>2, ItemTypes
  <2>4. /\ Cardinality(Trained(log, p)) \in Nat
        /\ Count(preTrain.data, p) \in Nat /\ Count(preGen.pending, p) \in Nat
        /\ Count(preGen.data, p) \in Nat
    BY <1>0, CopiesParts
  <2>5. Copies(p) = Cardinality(Trained(log, p)) + Count(preTrain.data, p)
                      + Count(preGen.pending, p) + Count(preGen.data, p)
    BY <1>2, <2>2, <2>3, <2>4 DEF Copies
  <2> QED BY <2>1, <2>5 DEF CkptCopies, Image
<1>4. PICK r : r = preGen.pending \o preGen.data
  OBVIOUS
<1>5. PICK P, D \in Nat :
        /\ P = Len(preGen.pending) /\ D = Len(preGen.data) /\ Len(r) = P + D
        /\ r \in Seq(GenItem)
        /\ \A i \in 1 .. P : r[i] = preGen.pending[i]
        /\ \A i \in P + 1 .. P + D : i - P \in 1 .. D /\ r[i] = preGen.data[i - P]
  BY <1>0, <1>2, <1>4, ImageReplay
<1>6. PICK w : w = preTrain.data
  OBVIOUS
<1>7. \A b : Passed(b) => CkptPassed(f, c, w, b)
  BY <1>2, <1>6 DEF Passed, CkptPassed, Image
<1>8. \A i \in 1 .. D : P + i \in P + 1 .. P + D /\ r[P + i] = preGen.data[i]
  <2> SUFFICES ASSUME NEW i \in 1 .. D
               PROVE  P + i \in P + 1 .. P + D /\ r[P + i] = preGen.data[i]
    OBVIOUS
  <2>1. P + i \in P + 1 .. P + D /\ (P + i) - P = i
    OBVIOUS
  <2> QED BY <1>5, <2>1
<1>9. ASSUME NEW b, Cleared(b)
      PROVE  CkptPassed(f, c, w, b) \/ (P > 0 /\ r[P] = Barrier(b - 1))
  <2>1. CASE Passed(b)
    BY <1>7, <2>1
  <2>2. CASE gen.item = Barrier(b - 1)
    <3>1. gen.item # NoItem /\ gen.item.t = "train"
      BY <2>2, ItemTypes DEF Barrier, NoItem
    <3>2. gen.pc = "train"
      BY <1>2, <3>1 DEF GenType
    <3>3. P > 0 /\ preGen.pending[P] = gen.item
      BY <1>0, <1>5, <3>2 DEF Held
    <3>4. P \in 1 .. P
      BY <3>3
    <3> QED BY <1>5, <2>2, <3>3, <3>4
  <2> QED BY <1>9, <2>1, <2>2 DEF Cleared
<1>10. ASSUME NEW j \in 1 .. P + D
       PROVE  \/ CkptPassed(f, c, w, Blk(f, r[j]))
              \/ \E i \in 1 .. j - 1 : r[i] = Barrier(Blk(f, r[j]) - 1)
  <2>1. CASE j \in 1 .. P
    <3>1. Passed(Blk(f, preGen.pending[j]))
      BY <1>1, <1>5, <2>1 DEF Fenced
    <3> QED BY <1>5, <1>7, <2>1, <3>1
  <2>2. CASE j \in P + 1 .. P + D
    <3>1. PICK k \in 1 .. D : k = j - P /\ r[j] = preGen.data[k]
      BY <1>5, <2>2
    <3>2. PICK b : b = Blk(f, r[j])
      OBVIOUS
    <3>3. CASE Cleared(b)
      <4>1. CkptPassed(f, c, w, b) \/ (P > 0 /\ r[P] = Barrier(b - 1))
        BY <1>9, <3>3
      <4>2. P > 0 => P \in 1 .. j - 1
        BY <2>2
      <4> QED BY <3>2, <4>1, <4>2
    <3>4. CASE \E i \in 1 .. k - 1 : preGen.data[i] = Barrier(b - 1)
      <4>1. PICK i \in 1 .. k - 1 : preGen.data[i] = Barrier(b - 1)
        BY <3>4
      <4>2. i \in 1 .. D /\ P + i \in 1 .. j - 1
        BY <3>1
      <4>3. r[P + i] = Barrier(b - 1)
        BY <1>8, <4>1, <4>2
      <4> QED BY <3>2, <4>2, <4>3
    <3> QED BY <1>1, <1>5, <3>1, <3>2, <3>3, <3>4 DEF Fenced
  <2>3. j \in 1 .. P \/ j \in P + 1 .. P + D
    OBVIOUS
  <2> QED BY <2>1, <2>2, <2>3
<1>11. CkptPassed(f, c, w, sched) \/ \E i \in 1 .. P + D : r[i] = Barrier(sched - 1)
  <2>1. CASE Cleared(sched)
    <3>1. CkptPassed(f, c, w, sched) \/ (P > 0 /\ r[P] = Barrier(sched - 1))
      BY <1>9, <2>1
    <3>2. P > 0 => P \in 1 .. P + D
      OBVIOUS
    <3> QED BY <3>1, <3>2
  <2>2. CASE \E i \in 1 .. D : preGen.data[i] = Barrier(sched - 1)
    <3>1. PICK i \in 1 .. D : preGen.data[i] = Barrier(sched - 1)
      BY <2>2
    <3>2. P + i \in 1 .. P + D
      OBVIOUS
    <3> QED BY <1>8, <3>1, <3>2
  <2> QED BY <1>2, <1>5, <2>1, <2>2 DEF Fenced
<1>12. ASSUME NEW j \in 1 .. Len(w)
       PROVE  \/ Blk(f, w[j]) <= train + f + 1
              \/ \E i \in 1 .. j - 1 : w[i] = Barrier(Blk(f, w[j]) - 1)
  BY <1>1, <1>2, <1>6 DEF Fenced
<1>13. /\ c.genPending \o c.genData = r /\ c.trainItems = w /\ c.sched = sched
       /\ c.train = train /\ c.log = log
  BY <1>4, <1>6 DEF Image
<1>14. CkptFenced(f, c, r, w)
  BY <1>5, <1>10, <1>11, <1>12, <1>13 DEF CkptFenced
<1> QED BY <1>1, <1>3, <1>13, <1>14 DEF Exact

\* A restart from such a checkpoint accounts for everything.
LEMMA RestartExact ==
  ASSUME TypeOK, latest \in CkptType, Restart, Exact(FirstSched, latest)
  PROVE  Accounted'
<1>1. PICK f \in Int : f = FirstSched
  BY FirstSchedType
<1>2. PICK c \in CkptType : c = latest
  OBVIOUS
<1>3. PICK r \in Seq(GenItem) : r = c.genPending \o c.genData
  BY ConcatProperties DEF CkptType
<1>4. PICK w \in Seq(TrainItem) : w = c.trainItems
  BY DEF CkptType
<1>5. /\ preGen'.data = r /\ preGen'.pending = <<>> /\ preTrain'.data = w
  <2>1. /\ preGen' = [data |-> latest.genPending \o latest.genData, pending |-> <<>>]
        /\ preTrain' = [data |-> latest.trainItems, pending |-> <<>>]
    BY RestartType
  <2>2. preGen' = [data |-> r, pending |-> <<>>] /\ preTrain' = [data |-> w, pending |-> <<>>]
    BY <1>2, <1>3, <1>4, <2>1
  <2>3. preGen'.data = r /\ preGen'.pending = <<>>
    BY <2>2
  <2>4. preTrain'.data = w
    BY <2>2
  <2> QED BY <2>3, <2>4
<1>6. /\ train' = c.train /\ source' = c.source /\ sched' = c.sched
      /\ ctl'.pc = "check" /\ ctl'.hand = NoItem
      /\ gen' = [pc |-> "pop", item |-> NoItem, needAck |-> NoItem, active |-> 0]
      /\ running' = {} /\ trainer' = [pc |-> "idle", batch |-> <<>>] /\ log' = c.log
      /\ FirstSched' = f
  BY <1>1, <1>2 DEF Restart, FirstSched
<1>7. c.train \in Int /\ c.genPending \in Seq(GenItem) /\ c.genData \in Seq(GenItem)
  BY DEF CkptType
<1>8. Ahead' = c.sched /\ Collected' = c.train + f + 1
  BY <1>1, <1>6, <1>7 DEF Ahead, Collected
<1>9. Exact(f, c)
  BY <1>1, <1>2
<1>10. CkptFenced(f, c, r, w) /\ Whole(c.log)
  BY <1>3, <1>4, <1>9 DEF Exact
<1>11. Once'
  <2> SUFFICES ASSUME NEW p \in Nat \ {0}
               PROVE  Copies(p)' = IF p < source' THEN 1 ELSE 0
    BY DEF Once
  <2>1. GenItem \subseteq AnyItem /\ TrainItem \subseteq AnyItem /\ c.log \in Seq(Seq(RolloutItem))
    BY DEF AnyItem, CkptType
  <2>2. Count(r, p) = Count(c.genPending, p) + Count(c.genData, p)
    BY <1>3, <1>7, <2>1, CountConcat
  <2>3. Count(<<>>, p) = 0
    BY CountEmpty
  <2>4. /\ Cardinality(Trained(c.log, p)) \in Nat /\ Count(w, p) \in Nat
        /\ Count(c.genPending, p) \in Nat /\ Count(c.genData, p) \in Nat
    BY <1>7, <2>1, CountTotal, TrainedSpread
  <2>5. Copies(p)' = Cardinality(Trained(c.log, p)) + 0 + Count(w, p) + 0 + Count(r, p) + 0 + 0
    <3>1. ctl'.hand # Prompt(p) /\ gen'.pc # "pend" /\ trainer'.batch = <<>>
      BY <1>6, ItemTypes
    <3> QED BY <1>5, <1>6, <2>3, <3>1 DEF Copies
  <2>6. CkptCopies(c, p) = IF p < c.source THEN 1 ELSE 0
    BY <1>9 DEF Exact
  <2>7. CkptCopies(c, p) = Cardinality(Trained(c.log, p)) + Count(w, p) + Count(c.genPending, p)
                             + Count(c.genData, p)
    BY <1>4 DEF CkptCopies
  <2>8. Copies(p)' = CkptCopies(c, p)
    BY <2>2, <2>4, <2>5, <2>7
  <2> QED BY <1>6, <2>6, <2>8
<1>12. Submitted'
  BY <1>6 DEF Submitted
<1>13. Fenced'
  <2>1. ASSUME NEW b, CkptPassed(f, c, w, b)
        PROVE  Soon(b)
    BY <1>5, <1>8, <2>1 DEF CkptPassed, Soon, Now
  <2>2. \A j \in 1 .. Len(r) :
          \/ Soon(Blk(f, r[j]))
          \/ \E i \in 1 .. j - 1 : r[i] = Barrier(Blk(f, r[j]) - 1)
    BY <1>10, <2>1 DEF CkptFenced
  <2>3. Soon(c.sched) \/ \E i \in 1 .. Len(r) : r[i] = Barrier(c.sched - 1)
    BY <1>10, <2>1 DEF CkptFenced
  <2>4. \A j \in 1 .. Len(w) :
          \/ Blk(f, w[j]) <= Collected'
          \/ \E i \in 1 .. j - 1 : w[i] = Barrier(Blk(f, w[j]) - 1)
    BY <1>8, <1>10 DEF CkptFenced
  <2>5. gen'.item = NoItem /\ trainer'.batch = <<>>
    BY <1>6
  <2>6. /\ \A j \in 1 .. Len(preGen'.data) :
             \/ Soon(Blk(FirstSched', preGen'.data[j]))
             \/ \E i \in 1 .. j - 1 :
                  preGen'.data[i] = Barrier(Blk(FirstSched', preGen'.data[j]) - 1)
        /\ \/ Soon(Ahead')
           \/ \E i \in 1 .. Len(preGen'.data) : preGen'.data[i] = Barrier(Ahead' - 1)
    BY <1>5, <1>6, <1>8, <2>2, <2>3
  <2>7. \A j \in 1 .. Len(preTrain'.data) :
          \/ Blk(FirstSched', preTrain'.data[j]) <= Collected'
          \/ \E i \in 1 .. j - 1 :
               preTrain'.data[i] = Barrier(Blk(FirstSched', preTrain'.data[j]) - 1)
    BY <1>5, <1>6, <2>4
  <2> QED BY <1>5, <2>5, <2>6, <2>7 DEF Fenced, Cleared, Passed, Soon, Now
<1> QED BY <1>6, <1>10, <1>11, <1>12, <1>13 DEF Accounted

-----------------------------------------------------------------------------
(* No checkpoint, crash or restart loses or duplicates anything.           *)

\* What holds, with Resumable, until a checkpoint that is no image of one moment
\* is restored.
Resumed ==
  /\ Accounted
  /\ latest.clean => Exact(FirstSched, latest)
  /\ \A i \in 1 .. Len(dumps) : dumps[i].clean => Exact(FirstSched, dumps[i])

\* What every step keeps.
ResumeExactInv == ResumeInv /\ (~tainted => Resumed)

\* The initial state.
LEMMA InitResumeExact == ResumeInit => ResumeExactInv
<1> SUFFICES ASSUME ResumeInit PROVE ResumeExactInv
  OBVIOUS
<1>1. Init /\ dumps = <<>> /\ latest = FreshCkpt
  BY DEF ResumeInit
<1>2. ResumeInv /\ Accounted
  BY <1>1, InitResume, InitAccounted
<1>3. Exact(FirstSched, FreshCkpt)
  <2>1. PICK f \in Int : f = FirstSched
    BY FirstSchedType
  <2>2. PICK c : c = FreshCkpt
    OBVIOUS
  <2>3. /\ c.train = -1 /\ c.source = 1 /\ c.sched = f /\ c.log = <<>> /\ c.trainItems = <<>>
        /\ c.genPending = <<>> /\ c.genData = <<>>
    BY <2>1, <2>2 DEF FreshCkpt
  <2>4. (\A k \in DOMAIN <<>> : FALSE) /\ \A i \in 1 .. Len(<<>>) : FALSE
    OBVIOUS
  <2>5. ASSUME NEW p \in Nat \ {0}
        PROVE  CkptCopies(c, p) = IF p < c.source THEN 1 ELSE 0
    <3>1. Cardinality(Trained(c.log, p)) = 0
      BY <2>3, <2>4, TrainedNone
    <3>2. Count(<<>>, p) = 0
      BY CountEmpty
    <3> QED BY <2>3, <3>1, <3>2 DEF CkptCopies
  <2>6. CkptFenced(f, c, <<>>, <<>>)
    <3>1. CkptPassed(f, c, <<>>, c.sched)
      BY <2>3 DEF CkptPassed
    <3> QED BY <2>4, <3>1 DEF CkptFenced
  <2>7. c.genPending \o c.genData = <<>>
    BY <2>3
  <2>8. Whole(c.log)
    BY <2>3, <2>4 DEF Whole
  <2> QED BY <2>1, <2>2, <2>3, <2>5, <2>6, <2>7, <2>8 DEF Exact
<1>4. \A i \in 1 .. Len(<<>>) : FALSE
  OBVIOUS
<1> QED BY <1>1, <1>2, <1>3, <1>4 DEF ResumeExactInv, Resumed

\* The checkpoint a save ends with, if nothing disturbed it.
LEMMA MetaExact ==
  ASSUME ResumeTypeOK, Resumable, Accounted, SnapMeta, snap.ckpt.clean,
         NEW c, c = [snap.ckpt EXCEPT !.sched = sched]
  PROVE  Exact(FirstSched, c)
<1>1. snap.part = "meta" /\ snap.ckpt \in CkptType /\ trainer.pc = "snapshot"
  BY DEF SnapMeta, ResumeTypeOK, SnapType
<1>2. /\ Settled /\ cbAlive /\ snap.ckpt.train = train /\ snap.ckpt.log = log
      /\ snap.ckpt.source = source /\ snap.ckpt.genData = preGen.data
      /\ snap.ckpt.genPending = preGen.pending /\ snap.ckpt.trainItems = preTrain.data
  BY <1>1 DEF Resumable, Reading
<1>3. Image(c)
  BY <1>1, <1>2 DEF Image, CkptType
<1>4. Flowing /\ Streaming /\ Once /\ Fenced /\ Whole(log)
  BY <1>2 DEF Resumable, Accounted
<1> QED BY <1>1, <1>2, <1>3, <1>4, ImageExact

\* As long as no other checkpoint was restored, everything is accounted for.
LEMMA StepResumed ==
  ASSUME ResumeExactInv, [ResumeNext]_resumeVars, ~tainted'
  PROVE  Resumed'
<1>0. /\ ResumeInv /\ ResumeTypeOK /\ TypeOK /\ snap \in SnapType /\ dumps \in Seq(CkptType)
      /\ latest \in CkptType /\ FirstSched' = FirstSched
      /\ Len(dumps) \in Nat /\ \A i \in 1 .. Len(dumps) : dumps[i] \in CkptType
  BY ResumeStrategy, LenProperties, ElementOfSeq DEF ResumeExactInv, ResumeInv, ResumeTypeOK
<1>a. tainted' = tainted \/ Restart
  BY <1>0, StepKinds, ReadSteps DEF FlowStep, SaveBegin, SnapMeta, DumpDone
<1>b. ~tainted
  BY <1>a DEF Restart
<1>c. Resumable /\ Resumed /\ Flowing /\ (cbAlive => Streaming) /\ Accounted
  BY <1>b DEF ResumeExactInv, ResumeInv, Resumable, Resumed
<1>1. ASSUME Accounted', dumps' = dumps, latest' = latest
      PROVE  Resumed'
  BY <1>0, <1>1, <1>c DEF Resumed
<1>2. CASE FlowStep
  <2>1. Accounted'
    BY <1>2, <1>c, StepAccounted DEF FlowStep
  <2> QED BY <1>1, <1>2, <2>1 DEF FlowStep
<1>3. CASE SaveBegin
  <2>1. SaveStep
    BY <1>0, <1>3, SaveBeginSnap
  <2>2. Accounted'
    BY <1>0, <1>c, <2>1, SaveAccounted
  <2> QED BY <1>1, <1>3, <2>2 DEF SaveBegin
<1>4. CASE ReadStep
  <2>1. UNCHANGED <<vars, dumps, latest, tainted>>
    BY <1>0, <1>4, ReadSteps
  <2>2. Accounted'
    BY <1>c, <2>1, StepAccounted
  <2> QED BY <1>1, <2>1, <2>2
<1>5. CASE SnapMeta
  <2>1. SaveStep /\ latest' = latest
    BY <1>0, <1>5, SnapMetaDumps DEF SnapMeta
  <2>2. PICK c \in CkptType : dumps' = Append(dumps, c) /\ c = [snap.ckpt EXCEPT !.sched = sched]
    BY <1>0, <1>5, SnapMetaDumps
  <2>3. Accounted'
    BY <1>0, <1>c, <2>1, SaveAccounted
  <2>4. c.clean => Exact(FirstSched, c)
    <3>1. c.clean <=> snap.ckpt.clean
      BY <1>0, <2>2 DEF SnapType, CkptType
    <3> QED BY <1>0, <1>5, <1>c, <2>2, <3>1, MetaExact
  <2>5. Len(dumps') = Len(dumps) + 1 /\ dumps'[Len(dumps) + 1] = c
        /\ \A i \in 1 .. Len(dumps) : dumps'[i] = dumps[i]
    BY <1>0, <2>2, AppendProperties
  <2>6. \A i \in 1 .. Len(dumps') : dumps'[i].clean => Exact(FirstSched, dumps'[i])
    <3> SUFFICES ASSUME NEW i \in 1 .. Len(dumps'), dumps'[i].clean
                 PROVE  Exact(FirstSched, dumps'[i])
      OBVIOUS
    <3>1. i \in 1 .. Len(dumps) \/ i = Len(dumps) + 1
      BY <1>0, <2>5
    <3> QED BY <1>c, <2>4, <2>5, <3>1 DEF Resumed
  <2> QED BY <1>0, <1>c, <2>1, <2>3, <2>6 DEF Resumed
<1>6. CASE DumpDone
  <2>1. /\ UNCHANGED vars /\ dumps # <<>>
        /\ latest' = Head(dumps) /\ dumps' = Tail(dumps)
    BY <1>6 DEF DumpDone
  <2>2. Accounted'
    BY <1>c, <2>1, StepAccounted
  <2>3. /\ Len(dumps) > 0 /\ latest' = dumps[1] /\ Len(dumps') = Len(dumps) - 1
        /\ \A i \in 1 .. Len(dumps) - 1 : dumps'[i] = dumps[i + 1]
    BY <1>0, <2>1, HeadTailProperties
  <2>4. 1 \in 1 .. Len(dumps) /\ \A i \in 1 .. Len(dumps) - 1 : i + 1 \in 1 .. Len(dumps)
    BY <1>0, <2>3
  <2>5. latest'.clean => Exact(FirstSched, latest')
    BY <1>c, <2>3, <2>4 DEF Resumed
  <2>6. \A i \in 1 .. Len(dumps) - 1 : dumps'[i].clean => Exact(FirstSched, dumps'[i])
    BY <1>c, <2>3, <2>4 DEF Resumed
  <2> QED BY <1>0, <2>2, <2>3, <2>5, <2>6 DEF Resumed
<1>7. CASE Restart
  <2>1. latest.clean
    BY <1>7 DEF Restart
  <2>2. Accounted'
    BY <1>0, <1>7, <1>c, <2>1, RestartExact DEF Resumed
  <2>3. dumps' = <<>> /\ latest' = latest
    BY <1>7 DEF Restart
  <2>4. \A i \in 1 .. Len(<<>>) : FALSE
    OBVIOUS
  <2> QED BY <1>0, <1>c, <2>2, <2>3, <2>4 DEF Resumed
<1> QED BY <1>0, <1>2, <1>3, <1>4, <1>5, <1>6, <1>7, StepKinds

\* Every step keeps the invariant, ...
LEMMA StepResumeExact == ResumeExactInv /\ [ResumeNext]_resumeVars => ResumeExactInv'
<1> SUFFICES ASSUME ResumeExactInv, [ResumeNext]_resumeVars PROVE ResumeExactInv'
  OBVIOUS
<1>1. ResumeInv'
  BY StepResume DEF ResumeExactInv
<1>2. ~tainted' => Resumed'
  BY StepResumed
<1> QED BY <1>1, <1>2 DEF ResumeExactInv

\* ... and what it says of the properties.
LEMMA ResumeExactFacts == ResumeExactInv => ResumeExactlyOnce /\ ResumeBatches
<1> SUFFICES ASSUME ResumeExactInv PROVE ResumeExactlyOnce /\ ResumeBatches
  OBVIOUS
<1>1. ~tainted => Once /\ (cbAlive => Whole(log))
  BY DEF ResumeExactInv, Resumed, Accounted
<1>2. 1 .. NumPrompts \subseteq Nat \ {0}
  BY ConfigTypes
<1>3. ResumeExactlyOnce
  BY <1>1, <1>2 DEF ResumeExactlyOnce, ExactlyOnce, Once
<1>4. ResumeBatches
  BY <1>1 DEF ResumeBatches, Whole
<1> QED BY <1>3, <1>4

\* Whatever crashes and restarts, from the images of single moments, a job goes
\* through, every prompt the source has handed out is trained on once or is in one
\* place, and as long as the callback thread lives iteration k is trained on the
\* k-th block of the source, whole.
THEOREM ResumeExact == ResumeSpec => [](ResumeExactlyOnce /\ ResumeBatches)
BY InitResumeExact, StepResumeExact, ResumeExactFacts, PTL DEF ResumeSpec
-----------------------------------------------------------------------------
(* The promise of BatchStream.                                             *)

\* The source hands out no more than it has, and the trainer asks for no more
\* batches than it is to train on.
HandedOut ==
  /\ source <= NumPrompts + 1
  /\ trainer.pc \in {"sync", "deployed", "collect", "step"} => Len(log) < TrainIters

\* Nothing is asked for at first.
LEMMA InitHandedOut == Init => HandedOut
BY ConfigTypes DEF Init, HandedOut

\* No step exceeds either.
LEMMA StepHandedOut == TypeOK /\ HandedOut /\ [Next]_vars => HandedOut'
<1> SUFFICES ASSUME TypeOK, HandedOut, [Next]_vars PROVE HandedOut'
  OBVIOUS
<1>0. NumPrompts \in Nat /\ source \in Nat /\ trainer \in TrainerType
  BY ConfigTypes DEF TypeOK
<1>1. source' <= NumPrompts + 1
  <2>1. CASE CtlPop
    BY <1>0, <2>1 DEF CtlPop
  <2>2. CASE ~CtlPop
    <3>1. source' = source
      BY <2>2 DEF Next, Control, CtlOpen, CtlPut, CtlExhausted, CtlClose, CtlAdvance,
                  Generation, GenPop, GenPend, GenNeed, GenSubmit, GenBarrier,
                  Callback, CbDone, CbIgnoreError, CbRaise, Deliver, Finished,
                  Trainer, Collecting, TrainRequest, TrainDeploy, TrainSynced, TrainCollect,
                  TrainStep, TrainSave, TrainNoSave, vars, ctlVars
    <3> QED BY <3>1 DEF HandedOut
  <2> QED BY <2>1, <2>2
<1>2. trainer'.pc \in {"sync", "deployed", "collect", "step"} => Len(log') < TrainIters
  <2>1. CASE TrainRequest \/ TrainDeploy \/ TrainSynced \/ TrainCollect
    BY <1>0, <2>1 DEF TrainRequest, TrainDeploy, TrainSynced, TrainCollect, HandedOut
  <2>2. CASE TrainStep \/ TrainSave \/ TrainNoSave
    BY <1>0, <2>2 DEF TrainStep, TrainSave, TrainNoSave, TrainerType
  <2>3. CASE ~Trainer
    <3>1. trainer' = trainer /\ log' = log
      BY <2>3 DEF Next, Control, CtlOpen, CtlPop, CtlPut, CtlExhausted, CtlClose, CtlAdvance,
                  Generation, GenPop, GenPend, GenNeed, GenSubmit, GenBarrier,
                  Callback, CbDone, CbIgnoreError, CbRaise, Deliver, Finished, vars, trainVars
    <3> QED BY <3>1 DEF HandedOut
  <2> QED BY <2>1, <2>2, <2>3 DEF Trainer, Collecting
<1> QED BY <1>1, <1>2 DEF HandedOut

\* What the trainer has received, as BatchStream has it.
Batches == [k \in DOMAIN log |-> PromptIds(log[k])]

\* A training step receives the next block.
LEMMA TrainReceives ==
  ASSUME TypeOK, Filling, Reached, Versions, LaterPending, Once, Fenced, Whole(log),
         HandedOut, TrainStep
  PROVE  /\ Stream!Receive(PromptIds(trainer.batch))
         /\ PromptIds(trainer.batch) \in SUBSET Stream!Prompts
<1>1. PICK n \in Nat : n = Len(log)
  BY LenProperties DEF TypeOK
<1>2. PICK P \in Nat \ {0} : P = PromptPerIter
  BY ConfigTypes
<1>3. PICK B : B = PromptIds(trainer.batch)
  OBVIOUS
<1>4. /\ trainer.pc = "step" /\ log' = Append(log, trainer.batch)
      /\ log \in Seq(Seq(RolloutItem)) /\ trainer.batch \in Seq(RolloutItem)
      /\ DOMAIN log = 1 .. n
  BY <1>1, LenProperties DEF TrainStep, TypeOK, TrainerType
<1>5. B = n * P + 1 .. (n + 1) * P
  BY <1>1, <1>2, <1>3, <1>4, BatchWhole
<1>6. n * P \in Nat /\ (n + 1) * P = n * P + P /\ (n + 1) - 1 = n /\ P * n = n * P
  OBVIOUS
<1>7. B \in SUBSET Stream!Prompts
  <2>1. FirstSched + n < Ahead
    <3>1. FirstSched \in Int /\ train \in Int /\ n = train
      BY <1>1, <1>4, FirstSchedType DEF TypeOK, Versions
    <3>2. Collected - 1 = FirstSched + n
      BY <1>4, <3>1 DEF Collected
    <3> QED BY <3>2 DEF Reached, Later
  <2>2. PromptPerIter * n + PromptPerIter <= source - 1
    BY <2>1, SourcePast
  <2>3. n * P + P <= NumPrompts
    <3>1. source \in Nat /\ NumPrompts \in Nat
      BY ConfigTypes DEF TypeOK
    <3> QED BY <1>2, <1>6, <2>2, <3>1 DEF HandedOut
  <2>4. NumPrompts \in Nat
    BY ConfigTypes
  <2> QED BY <1>5, <1>6, <2>3, <2>4 DEF Stream!Prompts
<1>8. B \cap Stream!Received = {}
  <2>1. SUFFICES ASSUME NEW p \in B, p \in Stream!Received PROVE FALSE
    OBVIOUS
  <2>2. PICK k \in 1 .. n : p \in PromptIds(log[k])
    BY <1>4, <2>1 DEF Stream!Received, Stream!Range
  <2>3. PromptIds(log[k]) = (k - 1) * P + 1 .. k * P
    BY <1>2, <1>4 DEF Whole
  <2>4. PromptPerIter * k <= PromptPerIter * n
    BY BlockArithmetic
  <2>5. k * P <= n * P /\ k * P \in Int /\ (k - 1) * P \in Int
    BY <1>2, <2>4
  <2>6. p \in Int /\ n * P + 1 <= p
    BY <1>5, <1>6
  <2>7. p <= k * P
    BY <2>2, <2>3, <2>5
  <2> QED BY <1>6, <2>5, <2>6, <2>7
<1>9. Stream!Cardinality(B) = PromptPerIter
  <2>1. Cardinality(n * P + 1 .. n * P + P) = P
    BY <1>6, FS_Interval
  <2> QED BY <1>2, <1>5, <1>6, <2>1 DEF Stream!Cardinality, Cardinality
<1>10. DOMAIN Batches = 1 .. n /\ Batches \in Seq(SUBSET Int) /\ Len(Batches) = n
  <2>1. \A k \in 1 .. n : PromptIds(log[k]) \in SUBSET Int
    <3> SUFFICES ASSUME NEW k \in 1 .. n PROVE PromptIds(log[k]) \in SUBSET Int
      OBVIOUS
    <3>1. PromptIds(log[k]) = (k - 1) * PromptPerIter + 1 .. k * PromptPerIter
      BY <1>4 DEF Whole
    <3> QED BY <3>1
  <2>2. Batches \in [1 .. n -> SUBSET Int]
    BY <1>4, <2>1 DEF Batches
  <2>3. Batches \in Seq(SUBSET Int)
    BY <2>2, SeqDef
  <2> QED BY <2>2, <2>3, LenProperties
<1>11. Batches' = Append(Batches, B)
  <2>1. B \in SUBSET Int
    BY <1>5, <1>6
  <2>2. /\ Append(Batches, B) \in Seq(SUBSET Int) /\ Len(Append(Batches, B)) = n + 1
        /\ \A k \in 1 .. n : Append(Batches, B)[k] = Batches[k]
        /\ Append(Batches, B)[n + 1] = B
    BY <1>10, <2>1, AppendProperties
  <2>3. DOMAIN Append(Batches, B) = 1 .. n + 1
    BY <2>2, LenProperties
  <2>4. /\ Append(log, trainer.batch) \in Seq(Seq(RolloutItem))
        /\ Len(Append(log, trainer.batch)) = n + 1
        /\ Append(log, trainer.batch)[n + 1] = trainer.batch
        /\ \A k \in 1 .. n : Append(log, trainer.batch)[k] = log[k]
    BY <1>1, <1>4, AppendProperties
  <2>5. DOMAIN log' = 1 .. n + 1 /\ log'[n + 1] = trainer.batch /\ \A k \in 1 .. n : log'[k] = log[k]
    BY <1>4, <2>4, LenProperties
  <2>6. Batches' = [k \in 1 .. n + 1 |-> PromptIds(log'[k])]
    BY <2>5 DEF Batches
  <2>7. ASSUME NEW k \in 1 .. n + 1
        PROVE  PromptIds(log'[k]) = Append(Batches, B)[k]
    <3>1. CASE k \in 1 .. n
      BY <1>4, <2>2, <2>5, <3>1 DEF Batches
    <3>2. CASE k = n + 1
      BY <1>3, <2>2, <2>5, <3>2
    <3>3. k \in 1 .. n \/ k = n + 1
      OBVIOUS
    <3> QED BY <3>1, <3>2, <3>3
  <2>8. PICK a \in Seq(SUBSET Int) : a = Append(Batches, B)
    BY <2>2
  <2>9. PICK l : l = Batches'
    OBVIOUS
  <2>10. /\ Len(a) = n + 1 /\ \A k \in 1 .. n + 1 : a[k] \in SUBSET Int
         /\ l = [k \in 1 .. n + 1 |-> a[k]]
    BY <2>2, <2>6, <2>7, <2>8, <2>9, ElementOfSeq
  <2>11. l \in [1 .. n + 1 -> SUBSET Int] /\ \A k \in 1 .. n + 1 : l[k] = a[k]
    BY <2>10
  <2>12. n + 1 \in Nat
    OBVIOUS
  <2>13. l \in Seq(SUBSET Int)
    BY <2>11, <2>12, SeqDef
  <2>14. Len(l) = n + 1
    BY <2>11, <2>12, <2>13, LenProperties
  <2>15. l = a
    BY <2>10, <2>11, <2>13, <2>14, SeqEqual
  <2> QED BY <2>8, <2>9, <2>15
<1>12. Len(Batches) < TrainIters
  BY <1>1, <1>4, <1>10 DEF HandedOut
<1>13. B = Stream!Block(Len(Batches) + 1)
  BY <1>2, <1>5, <1>6, <1>10 DEF Stream!Block
<1> QED BY <1>3, <1>7, <1>8, <1>9, <1>11, <1>12, <1>13 DEF Stream!Receive, Batches

\* What holds of a job whose callback thread lives.
Running == Flowing /\ Streaming /\ Accounted /\ HandedOut /\ cbAlive

\* Every step of it receives the next block, or nothing.
LEMMA StepReceives ==
  ASSUME Running, [Next]_vars
  PROVE  [Stream!Next]_Batches
<1>1. CASE TrainStep
  <2>1. /\ TypeOK /\ Filling /\ Reached /\ Versions /\ LaterPending /\ Once /\ Fenced
        /\ Whole(log) /\ HandedOut
    BY DEF Running, Flowing, Streaming, Blocks, Accounted
  <2>2. /\ Stream!Receive(PromptIds(trainer.batch))
        /\ PromptIds(trainer.batch) \in SUBSET Stream!Prompts
    BY <1>1, <2>1, TrainReceives
  <2> QED BY <2>2 DEF Stream!Next
<1>2. CASE ~TrainStep
  <2>1. log' = log
    BY <1>2 DEF Next, Control, CtlOpen, CtlPop, CtlPut, CtlExhausted, CtlClose, CtlAdvance,
                Generation, GenPop, GenPend, GenNeed, GenSubmit, GenBarrier,
                Callback, CbDone, CbIgnoreError, CbRaise, Deliver, Finished,
                Trainer, Collecting, TrainRequest, TrainDeploy, TrainSynced, TrainCollect,
                TrainSave, TrainNoSave, vars, trainVars
  <2> QED BY <2>1 DEF Batches
<1> QED BY <1>1, <1>2

\* It keeps running as long as no error ends the callback thread.
LEMMA StepRunning == (AllowErrors \/ ~GenMayFail) /\ Running /\ [Next]_vars => Running'
<1> SUFFICES ASSUME AllowErrors \/ ~GenMayFail, Running, [Next]_vars PROVE Running'
  OBVIOUS
<1>1. cbAlive'
  BY DEF Running, Next, Control, CtlOpen, CtlPop, CtlPut, CtlExhausted, CtlClose, CtlAdvance,
         Generation, GenPop, GenPend, GenNeed, GenSubmit, GenBarrier,
         Callback, CbDone, CbIgnoreError, CbRaise, Deliver, Finished, Trainer, Collecting,
         TrainRequest, TrainDeploy, TrainSynced, TrainCollect, TrainStep, TrainSave,
         TrainNoSave, vars
<1>2. Flowing' /\ Streaming' /\ Accounted'
  BY <1>1, StepFlowing, StepAccounted DEF Running
<1>3. HandedOut'
  BY StepHandedOut DEF Running, Flowing
<1> QED BY <1>1, <1>2, <1>3 DEF Running

\* Its initial states are BatchStream's.
LEMMA InitRunning == Init => Running /\ Stream!Init
<1> SUFFICES ASSUME Init PROVE Running /\ Stream!Init
  OBVIOUS
<1>1. Running
  BY InitFlowing, InitAccounted, InitHandedOut DEF Init, Running
<1>2. DOMAIN Batches = {} /\ log = <<>>
  BY DEF Init, Batches
<1>3. Batches = <<>>
  <2>1. Batches = [k \in 1 .. 0 |-> PromptIds(log[k])]
    BY <1>2 DEF Batches
  <2>2. Batches \in [1 .. 0 -> SUBSET Int]
    BY <2>1
  <2>3. Batches \in Seq(SUBSET Int) /\ Len(Batches) = 0
    BY <2>2, SeqDef, LenProperties
  <2> HIDE DEF Batches
  <2> QED BY <2>3, EmptySeq
<1> QED BY <1>1, <1>3 DEF Stream!Init, Batches

\* The controller implements BatchStream: when no generation error can end the
\* callback thread, each training step receives the next block of the source,
\* whole and once, and no other step receives anything, for both strategies and
\* every batch size and numbers of iterations and prompts.
THEOREM ImplementsStream == (AllowErrors \/ ~GenMayFail) /\ Spec => Stream!Spec
<1> SUFFICES ASSUME AllowErrors \/ ~GenMayFail
             PROVE  Spec => Stream!Spec
  OBVIOUS
<1>1. Running /\ [Next]_vars => Running'
  BY StepRunning
<1>2. Running /\ [Next]_vars => [Stream!Next]_Batches
  BY StepReceives
<1> QED BY <1>1, <1>2, InitRunning, PTL DEF Spec, Stream!Spec, Batches

\* Without a crash, whatever errors the generations raise: every prompt the source
\* has handed out is trained on once, or is in one place.
THEOREM ExactlyOnceInvariant == Spec => []ExactlyOnce
<1> DEFINE Inv == Flowing /\ (cbAlive => Streaming) /\ Accounted
<1>1. Init => Inv
  BY InitFlowing, InitAccounted
<1>2. Inv /\ [Next]_vars => Inv'
  BY StepFlowing, StepAccounted
<1>3. Inv => ExactlyOnce
  <2>1. 1 .. NumPrompts \subseteq Nat \ {0}
    BY ConfigTypes
  <2> QED BY <2>1 DEF Accounted, Once, ExactlyOnce
<1> HIDE DEF Inv
<1> QED BY <1>1, <1>2, <1>3, PTL DEF Spec
=============================================================================
