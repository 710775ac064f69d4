---------------------------- MODULE FlowSimulator ----------------------------
(***************************************************************************)
(* FlowControllerSimulator (core/generators/flow_controller_simulator.py): *)
(* the deterministic clock-driven simulation of the three strategies, from *)
(* which a run is sized before it is started.  The fully asynchronous      *)
(* strategy is simulated tick by tick, the other two block by block.       *)
(***************************************************************************)
EXTENDS Integers, Sequences, FiniteSets, SequencesExt, FiniteSetsExt

CONSTANT SimConfigs
  (* Records [strategy, ppi, cost, slots, cap, stale, costs]:              *)
  (* prompt_per_iter, train_cost, max_concurrent (0: None), and for the    *)
  (* fully asynchronous strategy max_untrained_prompts and max_staleness;  *)
  (* costs are the infer costs of the prompts, in source order.            *)

\* What the constructor and simulate() accept.
SimulatorAssumption ==
  \A c \in SimConfigs :
    /\ c.strategy \in {"on-policy", "one-step-off", "fully-async"}
    /\ c.ppi \in Nat \ {0} /\ c.cost \in Nat /\ c.slots \in Nat
    /\ c.cap \in Nat /\ c.stale \in Nat /\ c.costs \in Seq(Nat)
    /\ c.strategy = "fully-async" => c.cap + 1 >= c.ppi

VARIABLES
  sim,      \* the configuration that is simulated
  state,    \* [next, running, ready]: source, running and pre_train
  version,  \* current_version
  training, \* training_remaining
  blocked,  \* blocked_on_staleness
  trained,  \* train_batches: [version, prompts]
  infer,    \* infer_tokens, as numbers
  train,    \* train_tokens, as "T" and "N"
  window,   \* concurrency: how many prompts of the block ran in each tick
  blocks,   \* FlowSimulationBlocks of the other two strategies
  ended     \* the result has been returned

simVars == <<sim, state, version, training, blocked, trained, infer, train, window, blocks, ended>>

Async == sim.strategy = "fully-async"

SimInit ==
  /\ sim \in SimConfigs
  /\ state = [next |-> 1, running |-> <<>>, ready |-> <<>>]
  /\ version = 0 /\ training = 0 /\ blocked = FALSE
  /\ trained = <<>> /\ infer = <<>> /\ train = <<>> /\ window = <<>> /\ blocks = <<>>
  /\ ended = FALSE
-----------------------------------------------------------------------------
(* Starting and running prompts, the same for all strategies.              *)

\* Whether another prompt may run while n do (max_concurrent).
Slot(n) == sim.slots = 0 \/ n < sim.slots

\* Mutant: "<" for "<=" in the cap.
DispatchBelowCap(n) == Async => n < sim.cap

\* _can_dispatch_fully_async(), while n prompts run or wait in pre_train.
CanDispatch(n) == Async => n <= sim.cap

\* The last prompt that may be started: of the source, or of the block.
LastStart == IF Async THEN Len(sim.costs)
        ELSE Min({(Len(blocks) + 1) * sim.ppi, Len(sim.costs)})

\* _launch_fully_async_genables() and the refill of _simulate_parallel_window():
\* start prompts in order.  One that costs nothing takes no slot.
Launch(s) ==
  LET Started(k) == {p \in s.next .. s.next + k - 1 : sim.costs[p] > 0}
      May(k) == /\ Slot(Len(s.running) + Cardinality(Started(k)))
                /\ CanDispatch(Len(s.ready) + Len(s.running) + k)
      n == Max({k \in 0 .. LastStart - s.next + 1 : \A j \in 0 .. k - 1 : May(j)})
      new == [i \in 1 .. n |-> [p |-> s.next + i - 1, v |-> version,
                                left |-> sim.costs[s.next + i - 1]]]
  IN  [next |-> s.next + n,
       running |-> s.running \o SelectSeq(new, LAMBDA x : x.left > 0),
       ready |-> s.ready \o SelectSeq(new, LAMBDA x : x.left = 0)]

\* One tick of the running prompts; those that finish are ready.
Generate(s) ==
  LET ticked == [i \in DOMAIN s.running |-> [s.running[i] EXCEPT !.left = @ - 1]]
  IN  [s EXCEPT !.running = SelectSeq(ticked, LAMBDA x : x.left > 0),
                !.ready = @ \o SelectSeq(ticked, LAMBDA x : x.left = 0)]
-----------------------------------------------------------------------------
(* _simulate_fully_async().                                                *)

\* Mutant: the check looks at the version that is left, not at the next one.
AdvanceLate(v, running) ==
  \A i \in DOMAIN running : v - running[i].v <= sim.stale

CanAdvance(v, running) == \A i \in DOMAIN running : v - running[i].v < sim.stale

FutureWork(s) ==
  s.next <= Len(sim.costs) \/ s.running # <<>> \/ Len(s.ready) >= sim.ppi

\* A train step has ended: the next version, now or once prompts have finished.
NextVersion(s) ==
  LET advance == FutureWork(s) /\ CanAdvance(version, s.running)
  IN  /\ version' = IF advance THEN version + 1 ELSE version
      /\ blocked' = (FutureWork(s) /\ ~advance)

\* The version switch that was put off.
Unblocks == training = 0 /\ blocked /\ CanAdvance(version, state.running)

Unblock ==
  /\ Async /\ ~ended /\ Unblocks
  /\ version' = version + 1 /\ blocked' = FALSE
  /\ UNCHANGED <<sim, state, training, trained, infer, train, window, blocks, ended>>

CanYield == training = 0 /\ ~blocked /\ Len(state.ready) >= sim.ppi

\* A train step that costs nothing ends in the same moment.
Yield ==
  /\ Async /\ ~ended /\ CanYield
  /\ LET batch == SubSeq(state.ready, 1, sim.ppi)
         s == [state EXCEPT !.ready = SubSeq(@, sim.ppi + 1, Len(@))]
     IN  /\ trained' = Append(trained, [version |-> version, prompts |-> batch])
         /\ state' = s
         /\ training' = sim.cost
         /\ IF sim.cost = 0 THEN NextVersion(s) ELSE UNCHANGED <<version, blocked>>
  /\ UNCHANGED <<sim, infer, train, window, blocks, ended>>

Exhausted(s) ==
  /\ training = 0 /\ ~blocked
  /\ s.next > Len(sim.costs) /\ s.running = <<>> /\ Len(s.ready) < sim.ppi

Tick ==
  /\ Async /\ ~ended /\ ~Unblocks /\ ~CanYield
  /\ LET s == Launch(state)
         t == Generate(s)
     IN  /\ ~Exhausted(s)
         /\ state' = t
         /\ infer' = Append(infer, Len(s.running))
         /\ train' = Append(train, IF training > 0 THEN "T" ELSE "N")
         /\ training' = IF training > 0 THEN training - 1 ELSE 0
         /\ IF training = 1 THEN NextVersion(t) ELSE UNCHANGED <<version, blocked>>
  /\ UNCHANGED <<sim, trained, window, blocks, ended>>

\* What the last launch makes ready is dropped with the rest of a batch.
Return ==
  /\ Async /\ ~ended /\ ~Unblocks /\ ~CanYield
  /\ LET s == Launch(state)
     IN  Exhausted(s) /\ state' = s
  /\ ended' = TRUE
  /\ UNCHANGED <<sim, version, training, blocked, trained, infer, train, window, blocks>>
-----------------------------------------------------------------------------
(* _build_blocks(): on-policy and one-step-off.                            *)

\* _required_version(), blocks counted from 0.
RequiredVersion(k) == IF sim.strategy = "on-policy" THEN k ELSE Max({k - 1, 0})

\* _simulate_parallel_window(): one tick of the block's prompts.
WindowTick ==
  /\ ~Async /\ ~ended
  /\ LET s == Launch(state)
     IN  /\ s.running # <<>>
         /\ window' = Append(window, Len(s.running))
         /\ state' = [Generate(s) EXCEPT !.ready = <<>>]
  /\ UNCHANGED <<sim, version, training, blocked, trained, infer, train, blocks, ended>>

GenStart(sync) ==
  IF blocks = <<>> THEN sync ELSE Max({blocks[Len(blocks)].ready, sync})

\* sync_times[v]: when the trainer asked for block v, as it does with the
\* weights of version v.
SyncTime(v) == IF v = 0 THEN 0 ELSE blocks[v].trainEnd

BuildBlock ==
  LET k == Len(blocks)
      request == SyncTime(k)
      start == GenStart(SyncTime(RequiredVersion(k)))
      ready == start + Len(window)
      yield == Max({request, ready})
      s == Launch(state)
  IN  /\ ~Async /\ ~ended
      /\ k * sim.ppi < Len(sim.costs) /\ s.next > LastStart /\ s.running = <<>>
      /\ blocks' = Append(blocks,
           [window |-> window, start |-> start, ready |-> ready, yield |-> yield,
            trainEnd |-> yield + sim.cost])
      /\ window' = <<>>
      /\ state' = [s EXCEPT !.ready = <<>>]
      /\ UNCHANGED <<sim, version, training, blocked, trained, infer, train, ended>>

\* _render_timelines(): a tick shows the last block that claims it.
Render ==
  LET final == blocks[Len(blocks)].trainEnd
      Claims(t) == {k \in DOMAIN blocks : blocks[k].start <= t /\ t < blocks[k].ready}
      Busy(t) == \E k \in DOMAIN blocks : blocks[k].yield <= t /\ t < blocks[k].trainEnd
  IN  /\ ~Async /\ ~ended /\ Len(blocks) * sim.ppi >= Len(sim.costs)
      /\ IF blocks = <<>> THEN UNCHANGED <<infer, train>>
         ELSE /\ infer' = [t \in 1 .. final |->
                    IF Claims(t - 1) = {} THEN 0
                    ELSE LET k == Max(Claims(t - 1))
                         IN  blocks[k].window[t - blocks[k].start]]
              /\ train' = [t \in 1 .. final |-> IF Busy(t - 1) THEN "T" ELSE "N"]
      /\ ended' = TRUE
      /\ UNCHANGED <<sim, state, version, training, blocked, trained, window, blocks>>

\* The result has been returned: the only state without a next step.
Returned == ended /\ UNCHANGED simVars

SimNext == Unblock \/ Yield \/ Tick \/ Return \/ WindowTick \/ BuildBlock \/ Render \/ Returned

SimSpec == SimInit /\ [][SimNext]_simVars
-----------------------------------------------------------------------------
(* Properties.                                                             *)

\* Each tick generates, trains, or has just made a batch ready, so simulate()
\* returns: what it rejects as "deadlocks when max_untrained_prompts + 1 <
\* prompt_per_iter" is exactly what would tick for ever, also when the version
\* switch waits for old prompts.
NeverIdles ==
  [][Tick => \/ infer'[Len(infer')] > 0 \/ train'[Len(train')] = "T"
             \/ Len(state'.ready) >= sim.ppi]_simVars

Trained == IF Async THEN trained ELSE blocks

\* The timelines lose nothing: each prompt's cost is shown, each step is shown
\* as train_cost ticks, and all whole batches are trained, each prompt once.
TimelineComplete ==
  ended =>
    /\ FoldLeft(+, 0, infer) = FoldLeft(+, 0, sim.costs)
    /\ Len(SelectSeq(train, LAMBDA t : t = "T")) = sim.cost * Len(Trained)
    /\ Async => LET ids == FlattenSeq([i \in DOMAIN trained |->
                             [j \in DOMAIN trained[i].prompts |-> trained[i].prompts[j].p]])
                IN  /\ Len(ids) = sim.ppi * (Len(sim.costs) \div sim.ppi)
                    /\ IsInjective(ids)

\* A running prompt lags behind the weights by at most max_staleness, and one that
\* waits in pre_train ages by what the cap allows, one batch per version: the
\* promise of the fully asynchronous strategy.  A block of the others is
\* generated with the weights it requires, after the step that made them.
SimulatedLag ==
  /\ \A i \in DOMAIN state.running : version - state.running[i].v <= sim.stale
  /\ \A i \in DOMAIN trained : \A j \in DOMAIN trained[i].prompts :
       trained[i].version - trained[i].prompts[j].v
         <= sim.stale + 1 + sim.cap \div sim.ppi
  /\ \A k \in DOMAIN blocks :
       LET lag == IF sim.strategy = "on-policy" THEN 1 ELSE 2
       IN  k > lag => blocks[k].start >= blocks[k - lag].trainEnd
=============================================================================
