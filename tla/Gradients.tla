------------------------------ MODULE Gradients ------------------------------
(***************************************************************************)
(* A step of the optimizer on divided parameters: GradientManager          *)
(* (optimizer/base_gradient_manager.py), with its two kinds,               *)
(* Zero1GradientManager and AccInFP32GradientManager, the norm and clipping*)
(* of clip_grads.py, and the buffers of model/utils/comm_buffer.py.        *)
(*                                                                         *)
(* All processes run the same program, and a step is one of its statements *)
(* on all of them.  Numbers are integers modulo a prime; the inner         *)
(* optimizer subtracts the gradient from the parameter, and clipping       *)
(* multiplies by the squared norm, which stand for any function of them.   *)
(***************************************************************************)
EXTENDS Matrices, ParallelMesh

CONSTANTS
  Configs,   \* meshes with the fields sp, zero1 and clip
  Params,    \* model.parameters(): a sequence of [kind, fp32, size]
  MicroBatches, Steps

GradientsAssumption ==
  /\ \A c \in Configs : Sane(c)
  /\ \A p \in DOMAIN Params : Params[p].kind \in {"shard", "replica", "expert"} /\ Params[p].size > 0

VARIABLES
  conf,    \* the configuration
  groups,  \* its process groups: [name -> [rank -> the ranks of its group]]
  info,    \* _param_info: [bucket -> [size, start, owner]]
  step, batch, pc,
  param,   \* [rank -> [parameter -> its values]]
  main,    \* fp16_params_in_fp32 and fp32_params, of the optimizer's own
  buffer,  \* _grad_buffers, whose storage _param_buffers share
  grad,    \* the .grad of the optimizer's own
  norm,    \* what clip_grad_norm() returns
  ref      \* [whose values -> them], and the norm, on one process, for reference

vars == <<conf, groups, info, step, batch, pc, param, main, buffer, grad, norm, ref>>

Ranks == World(conf)
SP == conf.sp /\ conf.tp > 1
RankOf(name, r) == SelectInSeq(groups[name][r], LAMBDA q : q = r) - 1
Stage(r) == RankOf("PP", r)
All == DOMAIN Params
Flagged(p) == SP /\ Params[p].kind = "replica"  \* sequence_parallel

\* get_bucket_key_from_param_attrs(): by type, and group that has the same parameter.
Key(p) == <<Params[p].fp32, Params[p].kind = "expert">>
Buckets == {Key(p) : p \in All}
GroupName(k) == IF k[2] THEN "EDP" ELSE "DP"
In(k) == {p \in All : Key(p) = k}

\* Which part of parameter p rank r has.
Held(r, p) ==
  [stage |-> Stage(r), p |-> p,
   part |-> CASE Params[p].kind = "shard" -> RankOf("TP", r)
              [] Params[p].kind = "expert" -> RankOf("EP", r)
              [] OTHER -> 0]
Vector(n, f(_)) == [i \in 1 .. n |-> f(i) % Prime]
Sum(S, n, f(_)) == FoldSet(LAMBDA x, sum : Vector(n, LAMBDA i : sum[i] + f(x)[i]), Vector(n, LAMBDA i : 0), S)
-----------------------------------------------------------------------------
(* build_grad_buffers().                                                   *)

\* balanced_list_split(): the largest first, to the part that has least.
Split(k, n) ==
  LET order == SetToSortSeq(In(k), LAMBDA p, q : \/ Params[p].size > Params[q].size
                                                  \/ (Params[p].size = Params[q].size /\ p > q))
      SizeIn(ps) == FoldLeft(LAMBDA sum, p : sum + Params[p].size, 0, ps)
      Least(parts) == CHOOSE d \in DOMAIN parts : \A e \in DOMAIN parts :
                        \/ SizeIn(parts[d]) < SizeIn(parts[e])
                        \/ (SizeIn(parts[d]) = SizeIn(parts[e]) /\ d <= e)
  IN  FoldLeft(LAMBDA parts, p : [parts EXCEPT ![Least(parts)] = Append(@, p)],
               [d \in 0 .. n - 1 |-> <<>>], order)

\* The place of each parameter in the buffer of bucket k on n ranks; none is cut.
Layout(k, n) ==
  LET parts == Split(k, n)
      Before(d, j) == FoldSet(LAMBDA i, sum : sum + Params[parts[d][i]].size, 0, 1 .. j - 1)
      most == Max({Before(d, Len(parts[d]) + 1) : d \in DOMAIN parts})
      Owner(p) == CHOOSE d \in DOMAIN parts : p \in ToSet(parts[d])
  IN  [size |-> most,
       owner |-> [p \in In(k) |-> Owner(p)],
       start |-> [p \in In(k) |->
                    LET d == Owner(p) IN most * d + Before(d, SelectInSeq(parts[d], LAMBDA q : q = p))]]

BufferSize(k) == info[k].size * Len(groups[GroupName(k)][0])
Empty == [k \in Buckets |-> Vector(BufferSize(k), LAMBDA i : 0)]

\* A parameter's range of a rank's buffers, and the buffers with values put in
\* the ranges of some parameters.
Range1(b, p) == LET k == Key(p) IN [i \in 1 .. Params[p].size |-> b[k][info[k].start[p] + i]]
Filled(b, ps, value(_)) ==
  FoldSet(LAMBDA p, new :
            LET k == Key(p)
                s == info[k].start[p]
            IN  [new EXCEPT ![k] = [i \in DOMAIN @ |->
                   IF i - s \in 1 .. Params[p].size THEN value(p)[i - s] ELSE @[i]]],
          b, ps)

\* in_this_dp, or every parameter without ZeRO.
Own(r, p) == conf.zero1 => info[Key(p)].owner[p] = RankOf(GroupName(Key(p)), r)
Owned(r) == {p \in All : Own(r, p)}
-----------------------------------------------------------------------------
(* Gradients.  A microbatch of a data rank has two parts, each of which TP   *)
(* rank 0 or 1 has under sequence parallelism; any numbers would do.       *)

TokenGrad(held, d, part) ==
  Vector(Params[held.p].size, LAMBDA i :
    (5 + i * i + 3 * held.p + 7 * held.part + 2 * d + 6 * held.stage + 11 * batch + 4 * step)
      * (1 + part + d * batch + i * held.part))
InitialValue(held) ==
  Vector(Params[held.p].size, LAMBDA i : 20 + 3 * i + 5 * held.p + 9 * held.part + 4 * held.stage)

OwnParts(r) == IF SP THEN {RankOf("TP", r)} ELSE {0, 1}

\* What a backward pass gives rank r for parameter p: a shard sees the whole
\* sequence; a replica the rank's tokens; an expert those of its EP group.
LocalGrad(r, p) ==
  LET held == Held(r, p)
      From(q, parts) == Sum(parts, Params[p].size,
                            LAMBDA t : TokenGrad(held, RankOf("DP", q), t))
  IN  CASE Params[p].kind = "shard" -> From(r, {0, 1})
        [] Params[p].kind = "replica" -> From(r, OwnParts(r))
        [] OTHER -> Sum(ToSet(groups.EP[r]), Params[p].size,
                        LAMBDA q : From(q, OwnParts(q)))

\* The same on one process, for what a rank holds: the mean over the data ranks.
DenseGrad(held) ==
  LET n == Len(groups.DP[0])
      inverse == Quotient(1, n)
      all == Sum((0 .. n - 1) \X {0, 1}, Params[held.p].size,
                 LAMBDA x : TokenGrad(held, x[1], x[2]))
  IN  Vector(Params[held.p].size, LAMBDA i : all[i] * inverse)
-----------------------------------------------------------------------------
(* The program.                                                            *)

Squares(v) == Sigma(1, Len(v), LAMBDA i : v[i] * v[i])
None == [r \in Ranks |-> <<>>]

Init ==
  /\ conf \in Configs
  /\ groups = [name \in {"TP", "PP", "DP", "MP", "EP", "EDP"} |->
                 [r \in World(conf) |-> RanksOf(conf, name, r)]]
  /\ info = [k \in Buckets |-> Layout(k, Len(groups[GroupName(k)][0]))]
  /\ step = 0 /\ batch = 0 /\ pc = "zero"
  /\ param = [r \in World(conf) |-> [p \in All |-> InitialValue(Held(r, p))]]
  /\ main = [r \in World(conf) |-> [p \in Owned(r) |-> InitialValue(Held(r, p))]]
  /\ buffer = [r \in World(conf) |-> Empty]
  /\ grad = None /\ norm = [r \in World(conf) |-> 0]
  /\ LET held == {Held(r, p) : r \in World(conf), p \in All}
     IN  ref = [value |-> [h \in held |-> InitialValue(h)],
                grad |-> [h \in held |-> Vector(Params[h.p].size, LAMBDA i : 0)], norm |-> 0]

Goto(here, there) == pc = here /\ pc' = there
fixed == <<conf, groups, info>>

\* Mutant: gradients set to None, with buffers as the last step left them.
KeepsBuffers == UNCHANGED buffer

ZeroBuffers == buffer' = [r \in Ranks |-> Empty]

\* zero_grad().
ZeroGrad ==
  /\ step < Steps /\ Goto("zero", "backward")
  /\ ZeroBuffers
  /\ grad' = None /\ batch' = 0
  /\ ref' = [ref EXCEPT !.grad = [h \in DOMAIN ref.grad |-> Vector(Params[h.p].size, LAMBDA i : 0)]]
  /\ UNCHANGED <<fixed, step, param, main, norm>>

\* The hooks on a microbatch's gradients: main_grad, a view of the buffer, grows.
Backward ==
  /\ pc = "backward"
  /\ buffer' = [r \in Ranks |->
       Filled(buffer[r], All, LAMBDA p :
         LET old == Range1(buffer[r], p)
             new == LocalGrad(r, p)
         IN  Vector(Len(old), LAMBDA i : old[i] + new[i]))]
  /\ ref' = [ref EXCEPT !.grad = [h \in DOMAIN ref.grad |->
       LET new == DenseGrad(h) IN Vector(Len(new), LAMBDA i : ref.grad[h][i] + new[i])]]
  /\ batch' = batch + 1
  /\ pc' = IF batch + 1 < MicroBatches THEN pc ELSE "flagged"
  /\ UNCHANGED <<fixed, step, param, main, grad, norm>>

\* _custom_allreduce("sequence_parallel"), over TP.
ReduceFlagged ==
  /\ Goto("flagged", "experts")
  /\ buffer' = [r \in Ranks |->
       Filled(buffer[r], {p \in All : Flagged(p)}, LAMBDA p :
         Sum(ToSet(groups.TP[r]), Params[p].size, LAMBDA q : Range1(buffer[q], p)))]
  /\ UNCHANGED <<fixed, step, batch, param, main, grad, norm, ref>>

\* _process_expert_parallel_grads(): experts saw the tokens of their EP group.
ScaleExperts ==
  /\ Goto("experts", "reduce")
  /\ LET scale == conf.tp * Quotient(1, conf.ep)
     IN  buffer' = IF conf.ep = 1 THEN buffer
                   ELSE [r \in Ranks |-> [k \in Buckets |->
                           IF GroupName(k) = "EDP"
                           THEN Vector(Len(buffer[r][k]), LAMBDA i : buffer[r][k][i] * scale)
                           ELSE buffer[r][k]]]
  /\ UNCHANGED <<fixed, step, batch, param, main, grad, norm, ref>>

\* A rank's own part of the buffer: what reduce_scatter_tensor() writes.
Mine(r, k, i) == (i - 1) \div info[k].size = RankOf(GroupName(k), r)

\* _reduce_model_grads(): the mean over the bucket's group.
Reduce ==
  /\ Goto("reduce", "to main")
  /\ buffer' = [r \in Ranks |-> [k \in Buckets |->
       LET group == ToSet(groups[GroupName(k)][r])
           inverse == Quotient(1, Cardinality(group))
           total == Sum(group, BufferSize(k), LAMBDA q : buffer[q][k])
       IN  Vector(BufferSize(k), LAMBDA i :
             inverse * (IF conf.zero1 /\ ~Mine(r, k, i) THEN buffer[r][k][i] ELSE total[i]))]]
  /\ UNCHANGED <<fixed, step, batch, param, main, grad, norm, ref>>

\* _copy_model_grads_to_fp32_params().
ToMain ==
  /\ Goto("to main", "clip")
  /\ grad' = [r \in Ranks |-> [p \in Owned(r) |-> Range1(buffer[r], p)]]
  /\ UNCHANGED <<fixed, step, batch, param, main, buffer, norm, ref>>

\* _get_grads_for_grad_norm(): the linear layers do not set tensor_model_parallel,
\* so no parameter of theirs is counted but on TP rank 0.
Counted(r) == {p \in Owned(r) : Params[p].kind = "expert" \/ RankOf("TP", r) = 0}

\* clip_grad_norm_fp32(), over the world or the ranks of one copy of the model.
Clip ==
  /\ Goto("clip", "inner")
  /\ LET OwnSquares(q) == FoldSet(LAMBDA p, sum : (sum + Squares(grad[q][p])) % Prime, 0, Counted(q))
         squares == [q \in Ranks |-> OwnSquares(q)]
         Over(r) == IF conf.zero1 THEN Ranks ELSE ToSet(groups.MP[r])
         total == [r \in Ranks |-> FoldSet(LAMBDA q, sum : (sum + squares[q]) % Prime, 0, Over(r))]
     IN  IF conf.clip
         THEN /\ norm' = total
              /\ grad' = [r \in Ranks |-> [p \in Owned(r) |->
                   Vector(Len(grad[r][p]), LAMBDA i : grad[r][p][i] * total[r])]]
         ELSE UNCHANGED <<norm, grad>>
  /\ ref' = [ref EXCEPT !.norm =
       FoldSet(LAMBDA h, sum : (sum + Squares(ref.grad[h])) % Prime, 0, DOMAIN ref.grad)]
  /\ UNCHANGED <<fixed, step, batch, param, main, buffer>>

\* optimizer.step(), on main copies or on fp32 parameters themselves.
InnerStep ==
  /\ Goto("inner", "copy")
  /\ main' = [r \in Ranks |-> [p \in Owned(r) |->
       Vector(Params[p].size, LAMBDA i : main[r][p][i] - grad[r][p][i])]]
  /\ param' = [r \in Ranks |-> [p \in All |->
       IF Own(r, p) /\ Params[p].fp32 THEN main'[r][p] ELSE param[r][p]]]
  /\ ref' = [ref EXCEPT !.value = [h \in DOMAIN ref.value |->
       LET scale == IF conf.clip THEN ref.norm ELSE 1
       IN  Vector(Len(ref.value[h]), LAMBDA i : ref.value[h][i] - ref.grad[h][i] * scale)]]
  /\ UNCHANGED <<fixed, step, batch, buffer, grad, norm>>

\* A value in a type with fewer bits.
Rounded(v) == [i \in DOMAIN v |-> v[i] - (v[i] % 8)]

\* _copy_fp32_params_to_model_params().
CopyBack ==
  /\ pc = "copy"
  /\ param' = [r \in Ranks |-> [p \in All |->
       IF Own(r, p) /\ ~Params[p].fp32 THEN Rounded(main[r][p]) ELSE param[r][p]]]
  /\ IF conf.zero1 THEN pc' = "fill" /\ UNCHANGED step ELSE pc' = "zero" /\ step' = step + 1
  /\ UNCHANGED <<fixed, batch, main, buffer, grad, norm, ref>>

\* _gather_model_params(): the rank's own parameters to their ranges, then all.
Fill ==
  /\ Goto("fill", "gather")
  /\ buffer' = [r \in Ranks |-> Filled(Empty, Owned(r), LAMBDA p : param[r][p])]
  /\ UNCHANGED <<fixed, step, batch, param, main, grad, norm, ref>>

Gather ==
  /\ Goto("gather", "spread")
  /\ buffer' = [r \in Ranks |-> [k \in Buckets |->
       Vector(BufferSize(k), LAMBDA i :
         buffer[CHOOSE q \in ToSet(groups[GroupName(k)][r]) : Mine(q, k, i)][k][i])]]
  /\ UNCHANGED <<fixed, step, batch, param, main, grad, norm, ref>>

Spread ==
  /\ Goto("spread", "zero")
  /\ param' = [r \in Ranks |-> [p \in All |-> Range1(buffer[r], p)]]
  /\ step' = step + 1
  /\ UNCHANGED <<fixed, batch, main, buffer, grad, norm, ref>>

Next ==
  \/ ZeroGrad \/ Backward \/ ReduceFlagged \/ ScaleExperts \/ Reduce \/ ToMain
  \/ Clip \/ InnerStep \/ CopyBack \/ Fill \/ Gather \/ Spread
Spec == Init /\ [][Next]_vars
-----------------------------------------------------------------------------
\* After each step every rank has, of each parameter, what one process would
\* have: hence the same on all ranks that hold it.  (Zero1GradientManager.step(),
\* AccInFP32GradientManager.step(), zero_grad(), build_grad_buffers().)
StepIsDense ==
  pc = "zero" /\ step > 0 =>
    \A r \in Ranks, p \in All :
      param[r][p] = IF Params[p].fp32 THEN ref.value[Held(r, p)] ELSE Rounded(ref.value[Held(r, p)])

\* The norm is that of all gradients, each counted once: "Total norm of the
\* parameters (viewed as a single vector)" (clip_grad_norm_fp32()).
NormIsDense == pc = "inner" /\ conf.clip => \A r \in Ranks : norm[r] = ref.norm
=============================================================================
