---------------------------- MODULE ParallelMesh ----------------------------
(***************************************************************************)
(* The process groups of ParallelManager (core/parallel_state.py), as      *)
(* ParallelConfig (exp/base_exp.py) defines them: the ranks of the world   *)
(* are laid out along axes, the first one slowest, and a group holds the   *)
(* ranks that differ along its own axes only, in order.                    *)
(*                                                                         *)
(* A mesh is a record [world, pp, tp, cp, ep, etp].                        *)
(***************************************************************************)
EXTENDS Integers, Sequences, FiniteSets, SequencesExt, FiniteSetsExt

\* parallel_definition: the axes of the world, and those of a group.
Attention == <<"p", "d", "t">>
Context == <<"p", "d", "c", "t">>
Expert == <<"p", "edp", "ep", "etp">>

Definition ==
  [TP |-> [axes |-> Attention, own |-> {"t"}],
   PP |-> [axes |-> Attention, own |-> {"p"}],
   DP |-> [axes |-> Attention, own |-> {"d"}],
   CP |-> [axes |-> Context, own |-> {"c"}],
   MP |-> [axes |-> Attention, own |-> {"p", "t"}],
   EP |-> [axes |-> Expert, own |-> {"ep"}],
   ETP |-> [axes |-> Expert, own |-> {"etp"}],
   EDP |-> [axes |-> Expert, own |-> {"edp"}]]

\* The sizes that build_parallel() gives; "d" and "edp" take what is left.
Given(m) == [p |-> m.pp, t |-> m.tp, c |-> m.cp, ep |-> m.ep, etp |-> m.etp]
Degree(m, axes, a) ==
  IF a \in DOMAIN Given(m) THEN Given(m)[a]
  ELSE m.world \div FoldSet(LAMBDA b, n : n * Given(m)[b], 1, ToSet(axes) \ {a})

\* The place of rank r along an axis: what slower and faster axes leave.
Place(m, axes, a, r) ==
  LET faster == ToSet(SubSeq(axes, SelectInSeq(axes, LAMBDA b : b = a) + 1, Len(axes)))
      stride == FoldSet(LAMBDA b, n : n * Degree(m, axes, b), 1, faster)
  IN  (r \div stride) % Degree(m, axes, a)

World(m) == 0 .. m.world - 1

\* ranks_of(name), on rank r.
RanksOf(m, name, r) ==
  LET d == Definition[name]
      Same(q) == \A a \in ToSet(d.axes) \ d.own :
                   Place(m, d.axes, a, q) = Place(m, d.axes, a, r)
  IN  SetToSortSeq({q \in World(m) : Same(q)}, <)

\* size_of(name) and rank_in(name), on rank r.
SizeOf(m, name) == Len(RanksOf(m, name, 0))
RankIn(m, name, r) == SelectInSeq(RanksOf(m, name, r), LAMBDA q : q = r) - 1

\* ParallelConfig.sanity_check().
Sane(m) ==
  /\ m.world % (m.pp * m.tp * m.cp) = 0
  /\ m.world % (m.pp * m.ep * m.etp) = 0
=============================================================================
