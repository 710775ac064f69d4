--------------------------- MODULE PipelineSchedule ---------------------------
(***************************************************************************)
(* One training or evaluation step of the pipeline: PPScheduler (1F1B) and *)
(* VPPScheduler (interleaved) of core/pipeline_parallel/schedules.py over  *)
(* core/pipeline_parallel/p2p_communication.py.                            *)
(*                                                                         *)
(* What a rank does does not depend on the tensors it receives: run() is a *)
(* list of turns, each of which may wait for communication, run passes     *)
(* through a model chunk, start sends and receives, and put the received   *)
(* tensors into the lists the later passes read.  A tensor is the number   *)
(* of the virtual stage and of the microbatch that produced it.            *)
(***************************************************************************)
EXTENDS Integers, Sequences, FiniteSets, SequencesExt, FiniteSetsExt

CONSTANT Configs
  (* Records [pp, vpp, num, training, overlap, shapes]: the sizes PP and VPP, *)
  (* forward_num, whether gradients are computed, overlap_p2p_comm, and     *)
  (* variable_seq_lengths.                                                  *)

\* VPPScheduler.run() asserts the divisibility.
PipelineAssumption ==
  \A c \in Configs :
    /\ c.pp \in Nat \ {0, 1} /\ c.vpp \in Nat \ {0} /\ c.num \in Nat \ {0}
    /\ c.training \in BOOLEAN /\ c.overlap \in BOOLEAN /\ c.shapes \in BOOLEAN
    /\ c.vpp > 1 => c.num % c.pp = 0

VARIABLES
  cfg,   \* the configuration of this step
  todo,  \* [ranks -> Seq(turn)]: the turns of run() still to take
  rank,  \* [ranks -> [inputs, outputs, grads, done, out, back]]: its locals
  slots, \* [ranks -> [F, B : Seq(tensor)]]: the receive buffers, in order
  net,   \* [ranks -> [ranks -> Seq(op)]]: operations posted towards a peer
  used   \* passes made: [pass, stage, mb, input, grad] (history)

vars == <<cfg, todo, rank, slots, net, used>>

None == <<"none", 0, 0>>
Unfilled == <<"unfilled", 0, 0>>
Shape == <<"shape", 0, 0>>
Act(stage, mb) == <<"act", stage, mb>>
Grad(stage, mb) == <<"grad", stage, mb>>

RanksOf(c) == 0 .. c.pp - 1
Stages(c) == 0 .. c.pp * c.vpp - 1
LastStage(c) == c.pp * c.vpp - 1
Microbatches(c) == c.num * c.vpp
-----------------------------------------------------------------------------
(* The turns of run().                                                     *)

\* A turn waits for the handles `wait` (and always for "now"), makes `pass`,
\* posts `send` and `recv`, whose handle is h, and fills lists by `put`: a
\* <<direction, chunk, whether with the newest buffer or else None>>.
Turn == [wait |-> {}, pass |-> <<>>, send |-> {}, recv |-> {}, h |-> "now", put |-> <<>>]

\* get_model_chunk_id().
ChunkF(c, k) == (k % (c.pp * c.vpp)) \div c.pp
ChunkB(c, k) == c.vpp - ChunkF(c, k) - 1

When(cond, dir) == IF cond THEN {dir} ELSE {}

FirstRank(r) == r = 0
LastRank(c, r) == r = c.pp - 1

Repeat(n, turns(_)) == FlattenSeq([i \in 1 .. n |-> turns(i - 1)])

\* Mutant: one warm-up pass more.
EagerWarmup(c, r) == Min({c.pp - r, c.num})

\* PPScheduler.run(): warm-up, 1F1B, cool-down.  The p2p functions wait.
PPWarmup(c, r) == Min({c.pp - r - 1, c.num})

\* The functions of p2p_communication.py as turns: the pass whose result they
\* send, and what is received into which chunk's list.
RecvForward(r) ==
  [Turn EXCEPT !.recv = When(~FirstRank(r), "F"), !.put = <<<<"F", 0, ~FirstRank(r)>>>>]

RecvBackward(c, r) ==
  [Turn EXCEPT !.recv = When(~LastRank(c, r), "B"),
               !.put = <<<<"B", c.vpp - 1, ~LastRank(c, r)>>>>]

SendForward(c, r, k) ==
  [Turn EXCEPT !.pass = <<<<"F", k>>>>, !.send = When(~LastRank(c, r), "F")]

SendBackward(r, k) ==
  [Turn EXCEPT !.pass = <<<<"B", k>>>>, !.send = When(~FirstRank(r), "B")]

SendForwardRecvBackward(c, r, k) ==
  [SendForward(c, r, k) EXCEPT !.recv = RecvBackward(c, r).recv, !.put = RecvBackward(c, r).put]

SendBackwardRecvForward(r, k) ==
  [SendBackward(r, k) EXCEPT !.recv = RecvForward(r).recv, !.put = RecvForward(r).put]

PPTurns(c, r) ==
  LET warm == PPWarmup(c, r)
      left == c.num - warm
      warmup(k) == <<RecvForward(r), SendForward(c, r, k)>>
      steady(i) ==
        LET more == i # left - 1
        IN IF c.training
           THEN <<SendForwardRecvBackward(c, r, warm + i),
                  IF more THEN SendBackwardRecvForward(r, i) ELSE SendBackward(r, i)>>
           ELSE <<SendForward(c, r, warm + i)>> \o (IF more THEN <<RecvForward(r)>> ELSE <<>>)
      cooldown(i) == <<RecvBackward(c, r), SendBackward(r, left + i)>>
  IN Repeat(warm, warmup)
       \o (IF left > 0 THEN <<RecvForward(r)>> ELSE <<>>)
       \o Repeat(left, steady)
       \o (IF c.training THEN Repeat(warm, cooldown) ELSE <<>>)

\* VPPScheduler.run().
AllWarmup(c) == c.training /\ c.num = c.pp

VPPWarmup(c, r) ==
  IF ~c.training \/ AllWarmup(c) THEN Microbatches(c)
  ELSE Min({(c.pp - r - 1) * 2 + (c.vpp - 1) * c.pp, Microbatches(c)})

\* Mutant: the first rank is taken to be one microbatch less ahead.
LessAhead(c, r, k) ==
  IF FirstRank(r)
  THEN LET chunk == ChunkF(c, k - (c.pp - 2)) IN <<chunk # c.vpp - 1, chunk + 1>>
  ELSE <<TRUE, ChunkF(c, k + 1)>>

\* In the steady state, <<whether, into which chunk>> to receive forward: the
\* first rank receives no activation for chunk 0 ...
SteadyRecvF(c, r, k) ==
  IF FirstRank(r)
  THEN LET chunk == ChunkF(c, k - (c.pp - 1)) IN <<chunk # c.vpp - 1, chunk + 1>>
  ELSE <<TRUE, ChunkF(c, k + 1)>>

\* ... and backward: the last rank receives no gradient for its last chunk.
SteadyRecvB(c, r, k) ==
  IF LastRank(c, r)
  THEN LET chunk == ChunkB(c, k - (c.pp - 1)) IN <<chunk # 0, chunk - 1>>
  ELSE <<TRUE, ChunkB(c, k + 1)>>

\* The interleaved schedule's sends; it says itself what to receive.
SendF(c, r, k) == When(~(LastRank(c, r) /\ ChunkF(c, k) = c.vpp - 1), "F")
SendB(c, r, k) == When(~(FirstRank(r) /\ ChunkB(c, k) = 0), "B")

SendForwardRecvForward(c, r, k, recv, h) ==
  [Turn EXCEPT !.wait = {"fwd"}, !.pass = <<<<"F", k>>>>,
               !.send = SendF(c, r, k), !.recv = When(recv, "F"), !.h = h]

SendBackwardRecvBackward(c, r, k, recv, h) ==
  [Turn EXCEPT !.wait = {"bwd"}, !.pass = <<<<"B", k>>>>,
               !.send = SendB(c, r, k), !.recv = When(recv, "B"), !.h = h]

\* Both at once, without handles.
SendBothRecvBoth(fwd, bwd) ==
  [Turn EXCEPT !.wait = {"fwd"}, !.pass = fwd.pass \o bwd.pass,
               !.send = fwd.send \cup bwd.send, !.recv = fwd.recv \cup bwd.recv]

Handle(c, h) == IF c.overlap THEN h ELSE "now"

\* The last warm-up pass also receives the first gradient.
VPPWarmTurns(c, r, k) ==
  LET next  == ChunkF(c, k + 1)
      recv  == ~(FirstRank(r) /\ next = 0) /\ k # Microbatches(c) - 1
      fput  == <<<<"F", next, recv>>>>
      fwd   == SendForwardRecvForward(c, r, k, recv, Handle(c, "fwd"))
      bwd   == [RecvBackward(c, r) EXCEPT !.h = Handle(c, "bwd"), !.put = @ \o fput]
  IN IF k # VPPWarmup(c, r) - 1 \/ ~c.training \/ AllWarmup(c)
     THEN <<[fwd EXCEPT !.put = fput]>>
     ELSE IF c.overlap THEN <<fwd, bwd>>
     ELSE <<[SendBothRecvBoth(fwd, bwd) EXCEPT !.put = bwd.put]>>

VPPSteadyTurns(c, r, k) ==
  LET warm == VPPWarmup(c, r)
      f    == SteadyRecvF(c, r, k + warm)
      b    == SteadyRecvB(c, r, k)
      recv == f[1] /\ k # Microbatches(c) - warm - 1
      fwd  == SendForwardRecvForward(c, r, k + warm, recv, Handle(c, "fwd"))
      bwd  == SendBackwardRecvBackward(c, r, k, b[1], Handle(c, "bwd"))
      puts == (IF recv THEN <<<<"F", f[2], TRUE>>>> ELSE <<>>)
                \o (IF b[1] THEN <<<<"B", b[2], TRUE>>>> ELSE <<>>)
  IN IF c.overlap THEN <<fwd, [bwd EXCEPT !.put = puts]>>
     ELSE <<[SendBothRecvBoth(fwd, bwd) EXCEPT !.put = puts]>>

\* The handle is waited for at once.
VPPCoolTurns(c, r, k) ==
  LET next == ChunkB(c, k + 1)
      recv == ~(LastRank(c, r) /\ next = c.vpp - 1) /\ k # Microbatches(c) - 1
  IN <<[SendBackwardRecvBackward(c, r, k, recv, "now") EXCEPT !.put = <<<<"B", next, recv>>>>]>>

VPPTurns(c, r) ==
  LET warm == VPPWarmup(c, r)
      left == Microbatches(c) - warm
      warmup(k) == VPPWarmTurns(c, r, k)
      steady(k) == VPPSteadyTurns(c, r, k)
      cooldown(k) == VPPCoolTurns(c, r, left + k)
  IN <<RecvForward(r)>> \o Repeat(warm, warmup) \o Repeat(left, steady)
       \o <<[Turn EXCEPT !.wait = {"fwd", "bwd"}]>>
       \o (IF AllWarmup(c) THEN <<RecvBackward(c, r)>> ELSE <<>>)
       \o (IF c.training THEN Repeat(warm, cooldown) ELSE <<>>)

\* _communicate_shapes(): the shapes are exchanged and waited for before the
\* tensors are, and it then waits for all that the device still does.
WithShapes(turns) ==
  FlattenSeq([i \in DOMAIN turns |->
    <<[turns[i] EXCEPT !.h = "shape", !.put = <<>>],
      [turns[i] EXCEPT !.wait = {"fwd", "bwd"}, !.pass = <<>>]>>])

Turns(c, r) ==
  LET turns == IF c.vpp = 1 THEN PPTurns(c, r) ELSE VPPTurns(c, r)
  IN IF c.shapes THEN WithShapes(turns) ELSE turns
-----------------------------------------------------------------------------
(* Passes through a model chunk.                                           *)

Chunks(c) == 0 .. c.vpp - 1
StageOf(c, r, chunk) == chunk * c.pp + r

\* A rank after forward_step_helper(k): the input is the newest of the chunk's
\* list, the data are the next of the prefetched ones.
ForwardPass(c, r, s, k) ==
  LET chunk  == ChunkF(c, k)
      mb     == s.done[chunk]
      stage  == StageOf(c, r, chunk)
      ins    == IF stage = 0 /\ Len(s.inputs[chunk]) = Len(s.outputs[chunk])
                THEN Append(s.inputs[chunk], 0) ELSE s.inputs[chunk]
      kept(q) == IF c.training THEN q ELSE Front(q)
  IN [s EXCEPT !.inputs[chunk] = kept(ins),
               !.outputs[chunk] = kept(Append(@, mb)),
               !.done[chunk] = @ + 1,
               !.out = Act(stage, mb),
               !.log = Append(@, [pass |-> "F", stage |-> stage, mb |-> mb,
                                  input |-> ins[Len(ins)], grad |-> 0])]

\* backward_step_helper(k): the oldest input, output and gradient.
BackwardPass(c, r, s, k) ==
  LET chunk == ChunkB(c, k)
      stage == StageOf(c, r, chunk)
      gs    == IF stage = LastStage(c) /\ s.grads[chunk] = <<>> THEN <<0>> ELSE s.grads[chunk]
      mb    == Head(s.outputs[chunk])
  IN [s EXCEPT !.inputs[chunk] = Tail(@),
               !.outputs[chunk] = Tail(@),
               !.grads[chunk] = Tail(gs),
               !.back = Grad(stage, mb),
               !.log = Append(@, [pass |-> "B", stage |-> stage, mb |-> mb,
                                  input |-> Head(s.inputs[chunk]), grad |-> Head(gs)])]

Passed(c, r, s, passes) ==
  FoldLeft(LAMBDA t, p : IF p[1] = "F" THEN ForwardPass(c, r, t, p[2])
                                       ELSE BackwardPass(c, r, t, p[2]),
           s, passes)
-----------------------------------------------------------------------------
(* Communication.                                                          *)

NextRank(c, r) == (r + 1) % c.pp
PrevRank(c, r) == (r - 1) % c.pp

\* An operation: what is sent, or the number of the buffer that is filled.
Sends(peer, tensor, h) == [to |-> peer, do |-> "send", dir |-> "F", slot |-> 0, tensor |-> tensor, h |-> h]
Recvs(peer, dir, slot, h) == [to |-> peer, do |-> "recv", dir |-> dir, slot |-> slot, tensor |-> None, h |-> h]

\* Mutant: _p2p_ops() in the order of the even ranks, whatever the rank.
SameOrder(r, sp, rp, sn, rn) == sn \o rp \o sp \o rn

\* The order in which _p2p_ops() posts them.
UnbatchedOrder(r, sp, rp, sn, rn) ==
  IF r % 2 = 0 THEN sn \o rp \o sp \o rn ELSE rp \o sn \o rn \o sp

\* The operations of a turn, in order; n is the numbers of the buffers.
Ops(c, r, t, s, n) ==
  LET if(cond, op) == IF cond THEN <<op>> ELSE <<>>
      what(tensor) == IF t.h = "shape" THEN Shape ELSE tensor
      sp == if("B" \in t.send, Sends(PrevRank(c, r), what(s.back), t.h))
      rp == if("F" \in t.recv, Recvs(PrevRank(c, r), "F", n.F, t.h))
      sn == if("F" \in t.send, Sends(NextRank(c, r), what(s.out), t.h))
      rn == if("B" \in t.recv, Recvs(NextRank(c, r), "B", n.B, t.h))
  IN IF c.overlap /\ t.h # "shape" THEN UnbatchedOrder(r, sp, rp, sn, rn)
     ELSE sp \o rp \o sn \o rn

Waits(r, h) == \A p \in DOMAIN net[r] : \A i \in DOMAIN net[r][p] : net[r][p][i].h # h

\* A turn of rank r: run()'s code from one wait to the next.
TakeTurn(r) ==
  /\ todo[r] # <<>>
  /\ LET t == Head(todo[r])
         s == Passed(cfg, r, [rank[r] EXCEPT !.log = <<>>], t.pass)
         fills(dir) == t.h # "shape" /\ dir \in t.recv
         n == [dir \in {"F", "B"} |-> Len(slots[r][dir]) + (IF fills(dir) THEN 1 ELSE 0)]
         ops == Ops(cfg, r, t, s, n)
         puts(list, dir) == [chunk \in Chunks(cfg) |->
           list[chunk] \o LET mine == SelectSeq(t.put, LAMBDA p : p[1] = dir /\ p[2] = chunk)
                          IN [i \in DOMAIN mine |-> IF mine[i][3] THEN n[dir] ELSE 0]]
         tensor(dir, slot) == IF slot = 0 THEN None ELSE slots[r][dir][slot]
     IN /\ \A h \in t.wait \cup {"now", "shape"} : Waits(r, h)
        /\ rank' = [rank EXCEPT ![r] = [s EXCEPT
             !.inputs = puts(@, "F"), !.grads = puts(@, "B"), !.log = <<>>]]
        /\ todo' = [todo EXCEPT ![r] = Tail(@)]
        /\ slots' = [slots EXCEPT ![r] = [dir \in {"F", "B"} |->
             IF fills(dir) THEN Append(@[dir], Unfilled) ELSE @[dir]]]
        /\ net' = [net EXCEPT ![r] = [p \in DOMAIN @ |->
             @[p] \o SelectSeq(ops, LAMBDA op : op.to = p)]]
        /\ used' = used \cup {[pass |-> l.pass, stage |-> l.stage, mb |-> l.mb,
                               input |-> tensor("F", l.input), grad |-> tensor("B", l.grad)] :
                              l \in ToSet(s.log)}
  /\ UNCHANGED cfg

\* The first operation of a kind that r has posted towards p, 0 if none.
FirstOp(r, p, do, shape) ==
  LET is == {i \in DOMAIN net[r][p] : net[r][p][i].do = do /\ (net[r][p][i].h = "shape") = shape}
  IN IF is = {} THEN 0 ELSE Min(is)

\* A send meets a receive.  Those of a batch start together, and the sends of
\* a pair of ranks meet its receives in order; those that are not batched run
\* one after the other at both ends.
Meet(r, p) ==
  \E shape \in BOOLEAN :
    LET i == FirstOp(r, p, "send", shape)
        j == FirstOp(p, r, "recv", shape)
    IN /\ i # 0 /\ j # 0
       /\ cfg.overlap /\ ~shape => i = 1 /\ j = 1
       /\ net' = [net EXCEPT ![r][p] = RemoveAt(@, i), ![p][r] = RemoveAt(@, j)]
       /\ slots' = IF shape THEN slots
                   ELSE [slots EXCEPT ![p][net[p][r][j].dir][net[p][r][j].slot] =
                           net[r][p][i].tensor]
       /\ UNCHANGED <<cfg, todo, rank, used>>

Init ==
  /\ cfg \in Configs
  /\ todo = [r \in RanksOf(cfg) |-> Turns(cfg, r)]
  /\ rank = [r \in RanksOf(cfg) |->
       [inputs |-> [k \in Chunks(cfg) |-> <<>>], outputs |-> [k \in Chunks(cfg) |-> <<>>],
        grads |-> [k \in Chunks(cfg) |-> <<>>], done |-> [k \in Chunks(cfg) |-> 0],
        out |-> None, back |-> None, log |-> <<>>]]
  /\ slots = [r \in RanksOf(cfg) |-> [dir \in {"F", "B"} |-> <<>>]]
  /\ net = [r \in RanksOf(cfg) |-> [p \in RanksOf(cfg) |-> <<>>]]
  /\ used = {}

Finished(r) == todo[r] = <<>>

StepOver == (\A r \in DOMAIN rank : Finished(r)) /\ UNCHANGED vars

Progress ==
  \/ \E r \in DOMAIN rank : TakeTurn(r)
  \/ \E r, p \in DOMAIN rank : Meet(r, p)

Next == Progress \/ StepOver

Spec == Init /\ [][Next]_vars

\* The ranks run and the network delivers.
FairSpec == Spec /\ WF_vars(Progress)
-----------------------------------------------------------------------------
(* Properties.                                                             *)

\* The tensor of another stage that a pass needs.
NeededInput(u) == IF u.stage = 0 THEN None ELSE Act(u.stage - 1, u.mb)
NeededGrad(u) ==
  IF u.pass = "F" \/ u.stage = LastStage(cfg) THEN None ELSE Grad(u.stage + 1, u.mb)

\* Every pass reads the activation of the stage before, the gradient of the
\* stage after and the stored input of its own microbatch: sends and receives
\* are paired, buffers are read when they are filled, lists are in step.
RightTensors ==
  \A u \in used : u.input = NeededInput(u) /\ u.grad = NeededGrad(u)

\* Activations a rank keeps for the backward passes are bounded by the place of
\* the rank, whatever the number of microbatches (unless it equals PP: then the
\* interleaved schedule runs all forward passes first).
BoundedActivations ==
  cfg.training => \A r \in DOMAIN rank :
    FoldFunctionOnSet(LAMBDA q, n : Len(q) + n, 0, rank[r].outputs, Chunks(cfg))
      <= IF cfg.vpp = 1 THEN cfg.pp - r
         ELSE IF cfg.num = cfg.pp THEN cfg.pp * cfg.vpp
         ELSE (cfg.pp - r - 1) * 2 + (cfg.vpp - 1) * cfg.pp + 1

\* No schedule blocks: every rank ends its step, with a forward and, in
\* training, a backward pass of every microbatch through each of its stages.
StepCompletes ==
  <>(/\ \A r \in DOMAIN rank : Finished(r)
     /\ {<<u.pass, u.stage, u.mb>> : u \in used} =
          (IF cfg.training THEN {"F", "B"} ELSE {"F"}) \X Stages(cfg) \X (0 .. cfg.num - 1))
=============================================================================
