--------------------------- MODULE MCFullyAsyncFlow ---------------------------
(***************************************************************************)
(* FullyAsyncFlow, the simulator of the strategies (FlowSimulator) and the *)
(* update that follows the rollouts (PolicyUpdate) on small instances.     *)
(* They share no state, so one run explores them side by side: an initial  *)
(* state chooses one.                                                      *)
(***************************************************************************)
EXTENDS FullyAsyncFlow, PolicyUpdate

VARIABLES
  kind,  \* "controller", "simulator" or "update"
  sim, state, version, training, blocked, trained, inferTokens, trainTokens,
  window, blocks, ended

simVars == <<sim, state, version, training, blocked, trained, inferTokens,
             trainTokens, window, blocks, ended>>

\* Even, growing, long-tailed and free prompts, and an incomplete last batch.
MCCosts ==
  {<<>>, <<2, 2, 2, 2, 2, 2>>, <<1, 2, 3, 1, 2, 3>>, <<4, 1, 1, 1, 1, 1, 1, 1>>,
   <<1, 4, 1, 1, 4, 1, 1>>, <<2, 0, 0, 1, 0>>}

MCSimConfigs ==
  {c \in [strategy : {"on-policy", "one-step-off", "fully-async"}, ppi : {1, 2, 3},
          cost : {0, 1, 3}, slots : 0 .. 2, cap : 0 .. 3, stale : 0 .. 2,
          costs : MCCosts] :
     IF c.strategy = "fully-async" THEN c.cap + 1 >= c.ppi
                                   ELSE c.cap = 0 /\ c.stale = 0}

Simulator == INSTANCE FlowSimulator WITH
               SimConfigs <- MCSimConfigs, infer <- inferTokens, train <- trainTokens

ASSUME Simulator!SimulatorAssumption

\* One rank with two steps per iteration, or two ranks with one: the numbers of
\* packs of two ranks may differ, and then so would their numbers of steps.
MCSetups ==
  {[ranks |-> 1, align |-> 2, iters |-> 2, epochs |-> 1, warmup |-> 1,
    skipRef |-> FALSE, skipActor |-> FALSE, offload |-> TRUE],
   [ranks |-> 1, align |-> 4, iters |-> 2, epochs |-> 2, warmup |-> 0,
    skipRef |-> TRUE, skipActor |-> FALSE, offload |-> FALSE],
   [ranks |-> 2, align |-> 2, iters |-> 1, epochs |-> 1, warmup |-> 0,
    skipRef |-> FALSE, skipActor |-> TRUE, offload |-> TRUE]}

\* Samples of one and of two turns, and one that is too long.
MCMasks ==
  {<<FALSE, TRUE>>, <<FALSE, TRUE, FALSE, TRUE>>, <<FALSE, FALSE, TRUE, TRUE, TRUE>>,
   <<FALSE, FALSE, TRUE, TRUE, TRUE, TRUE, TRUE>>}

MCRollouts == UNION {[1 .. n -> MCMasks] : n \in 3 .. 5}

ASSUME UpdateAssumption

\* A component that is not explored is in one of its initial states.
MCInit ==
  /\ kind \in {"controller", "simulator", "update"}
  /\ Init
  /\ IF kind = "simulator" THEN sim \in MCSimConfigs
     ELSE sim = CHOOSE c \in MCSimConfigs : TRUE
  /\ Simulator!SimInit
  /\ UpdateInit /\ (kind # "update" => setup = CHOOSE s \in MCSetups : TRUE)

Is(k) == kind = k /\ UNCHANGED kind

MCNext ==
  \/ Is("controller") /\ Next /\ UNCHANGED <<simVars, updateVars>>
  \/ Is("simulator") /\ Simulator!SimNext /\ UNCHANGED <<vars, updateVars>>
  \/ Is("update") /\ UpdateNext /\ UNCHANGED <<vars, simVars>>

\* Fairness of FullyAsyncFlow, where it is the one that is explored.
ControllerFairness ==
  /\ WF_vars(Is("controller") /\ Control)
  /\ WF_vars(Is("controller") /\ Generation)
  /\ SF_vars(Is("controller") /\ Callback)
  /\ SF_vars(Is("controller") /\ Trainer)

MCSpec ==
  /\ MCInit /\ [][MCNext]_<<kind, vars, simVars, updateVars>>
  /\ ControllerFairness
-----------------------------------------------------------------------------
\* The controller keeps the promise of BatchStream, in any order: whole
\* batches of new prompts, and no wait for ever while the source has prompts.
StreamSpec == Stream!Spec /\ (kind = "controller" => Stream!Progress)

\* The simulator's promises; FlowSimulator explains each.

\* Every simulated tick makes progress, so every simulation ends.
NeverIdles == Simulator!NeverIdles

\* The timelines show every tick of generation and of training, and simulated
\* prompts are no older than max_staleness and the cap allow.
SimulatorFollows == Simulator!TimelineComplete /\ Simulator!SimulatedLag
=============================================================================
