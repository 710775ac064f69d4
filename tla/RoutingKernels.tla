--------------------------- MODULE RoutingKernels ---------------------------
(***************************************************************************)
(* The kernels that run tokens through the experts of one process, forward *)
(* and backward: routed_grouped_ffn() (model/utils/moe_utils.py) with its  *)
(* Triton alternatives (model/optimizations).                              *)
(*                                                                         *)
(* The stream runs one launch at a time; the programs of a launch run in   *)
(* any order, each in one step (what it adds to shared cells it adds with  *)
(* atomics, and it reads nothing that others write).  A buffer is a        *)
(* function from its cells to numbers modulo a prime; SwiGLU is a product  *)
(* of two halves; a cell of an empty buffer holds Garbage until a program  *)
(* stores there.                                                           *)
(***************************************************************************)
EXTENDS Matrices, FiniteSetsExt, SequencesExt

CONSTANTS
  Routings,        \* the inputs: [x, ids, weights], by rows; an id of -1 is no expert
  ExpertW1, ExpertW2,  \* one matrix for each expert, of rows by output
  BlockN, BlockE, BlockH,     \* of the routing, the scatter and the gather
  BlockM, BlockCols, BlockK,  \* of the tiles of grouped_gemm()
  NumSM,                      \* programs of grouped_gemm()
  ChunkK                      \* columns that one chunk of the weights' gradients has

VARIABLES
  input,     \* the tokens, their experts and weights
  fused,     \* whether triton_routed_grouped_ffn_fused() is chosen
  launch,    \* the kernel that runs
  programs,  \* those of its programs that have not run
  mem        \* the buffers: [name -> [cell -> number]]

vars == <<input, fused, launch, programs, mem>>

Garbage == 7777
CeilDiv(a, b) == (a + b - 1) \div b
Upto(n) == 0 .. n - 1

E == Len(ExpertW1)
Hidden == Len(ExpertW1[1][1])     \* w1 is [experts, 2 * ffn, hidden]
Ffn2 == Len(ExpertW1[1])
TopK == Len(input.ids[1])
Tokens == Len(input.x)
Slots == Upto(Tokens * TopK)      \* indices.reshape(-1)
Token(o) == o \div TopK
Flat(o) == input.ids[Token(o) + 1][(o % TopK) + 1]
Valid(o) == Flat(o) >= 0
Weight(o) == input.weights[Token(o) + 1][(o % TopK) + 1]
X(t, h) == input.x[t + 1][h + 1]
OutGrad(t, h) == (3 * X(t, Hidden - 1 - h) + h + 1) % Prime  \* of the output, by its consumer

\* Kernels mask what is past the end of a block.
Block(b, size, all) == {o \in b * size .. (b + 1) * size - 1 : o \in all}
Grid2(n, m) == Upto(n) \X Upto(m)
Empty(cells) == [c \in cells |-> Garbage]
Zeros(cells) == [c \in cells |-> 0]
Store(buffer, new) == [c \in DOMAIN buffer |-> IF c \in DOMAIN new THEN new[c] ELSE buffer[c]]
AtomicAdd(buffer, new) ==
  [c \in DOMAIN buffer |->
     IF c \in DOMAIN new THEN (buffer[c] + new[c]) % Prime ELSE buffer[c]]
Put(name, buffer) == mem' = [mem EXCEPT ![name] = buffer]

HBlocks == CeilDiv(Hidden, BlockH)
NBlocks == CeilDiv(Tokens * TopK, BlockN)
InBlock(b) == Block(b, BlockN, Slots)
ColsH(b) == Block(b, BlockH, Upto(Hidden))

\* What the code requires of its inputs; a row without any expert of this process
\* is not sent here (moe_utils.py:231 is not modelled), and the reduced dimension of
\* a product is within one block or a multiple of it (the masks of
\* grouped_matmul_kernel() assume it).
KernelsAssumption ==
  /\ \A r \in Routings :
       /\ Len(r.x) > 0 /\ Len(r.ids) = Len(r.x) /\ Len(r.weights) = Len(r.x)
       /\ \A i \in DOMAIN r.ids : Len(r.ids[i]) = Len(r.ids[1]) /\ ToSet(r.ids[i]) \subseteq -1 .. E - 1
       /\ \E i \in DOMAIN r.ids : \E k \in DOMAIN r.ids[i] : r.ids[i][k] >= 0
  /\ \A k \in {Hidden, Ffn2 \div 2} : k <= BlockK \/ k % BlockK = 0
-----------------------------------------------------------------------------
(* From the experts of each token to places of a buffer ordered by expert. *)

Total == MapThenSumSet(LAMBDA e : mem.hist[e], Upto(E))       \* batch_sizes.sum()
Start(e) == MapThenSumSet(LAMBDA d : mem.hist[d], Upto(e))    \* cumsum - histogram
BlockOffset(b, e) == MapThenSumSet(LAMBDA a : mem.count[<<a, e>>], Upto(b))

Histogram(b) ==
  AtomicAdd(mem.hist, [e \in Upto(E) |-> Cardinality({o \in InBlock(b) : Flat(o) = e})])

CountPerBlock(b, eb) ==
  Store(mem.count, [c \in {b} \X Block(eb, BlockE, Upto(E)) |->
                      Cardinality({o \in InBlock(b) : Flat(o) = c[2]})])

\* Mutant: where an id is not valid, its expert is taken to be 0, and counted.
EarlierSafe(b, o) == {q \in InBlock(b) : q < o /\ Max({Flat(q), 0}) = Flat(o)}

\* safe_idx is 0 where idx is not valid: valid_prev takes those out again.
Earlier(b, o) == {q \in InBlock(b) : q < o /\ Valid(q) /\ Max({Flat(q), 0}) = Flat(o)}
Place(b, o) == Start(Flat(o)) + BlockOffset(b, Flat(o)) + Cardinality(Earlier(b, o))

\* out is a copy of indices: what is not valid stays.
IndexCompute(b) == Store(mem.index, [o \in {o \in InBlock(b) : Valid(o)} |-> Place(b, o)])

\* Both in one kernel, which also stores what is not valid.
ScatterIndex(b) == Store(mem.index, [o \in InBlock(b) |-> IF Valid(o) THEN Place(b, o) ELSE Flat(o)])
ScatterRows(b) ==
  Store(mem.rows, [c \in {Place(b, o) : o \in {o \in InBlock(b) : Valid(o)}} \X Upto(Hidden) |->
                     X(Token(CHOOSE o \in InBlock(b) : Valid(o) /\ Place(b, o) = c[1]), c[2])])

\* moe_scatter(): a program for each element and block of columns.
MoEScatter(n, hb) ==
  IF mem.index[n] < 0 \/ mem.index[n] >= Total THEN mem.rows
  ELSE Store(mem.rows, [c \in {mem.index[n]} \X ColsH(hb) |-> X(Token(n), c[2])])
-----------------------------------------------------------------------------
(* grouped_gemm(): one product for each expert.                            *)

\* The tiles that program p walks to, over the products in order: <<e, m, n>>.
Walk(p, cols) ==
  FoldLeft(LAMBDA s, e :
             LET across == CeilDiv(cols, BlockCols)
                 tiles == CeilDiv(mem.hist[e - 1], BlockM) * across
                 mine == {t \in s.next .. s.end + tiles - 1 :
                            s.next >= s.end /\ (t - s.next) % NumSM = 0}
             IN  [next |-> IF mine = {} THEN s.next ELSE Max(mine) + NumSM,
                  end |-> s.end + tiles,
                  tiles |-> s.tiles \cup {<<e - 1, (t - s.end) \div across, (t - s.end) % across>> : t \in mine}],
           [next |-> p, end |-> 0, tiles |-> {}], [e \in 1 .. E |-> e]).tiles

\* a[row, k] and b[e][k, col] where a's rows and b's matrices lie one after the
\* other.  offs_k does not move on with the pointers: the mask k < K is that of the
\* first block, and past the last column the next row is read.
LoadA(a, inner, row, k) ==
  LET at == row * inner + k
      c == <<at \div inner, at % inner>>
  IN  IF c \in DOMAIN a THEN a[c] ELSE Garbage
LoadB(w, e, k, col) ==
  LET inner == Len(w[1][1])
      row == e * inner + k
  IN  IF row < E * inner THEN w[row \div inner + 1][col + 1][(row % inner) + 1] ELSE Garbage

Accumulated(a, w, e, row, col) ==
  LET inner == Len(w[1][1])
      Masked(k) == IF k % BlockK < inner
                   THEN LoadA(a, inner, Start(e) + row, k) * LoadB(w, e, k, col) ELSE 0
  IN  Sigma(0, CeilDiv(inner, BlockK) * BlockK - 1, Masked)

GroupedGemm(p, out, a, w) ==
  LET cols == Len(w[1])
      Cells(t) == {<<Start(t[1]) + i, j>> :
                     i \in Block(t[2], BlockM, Upto(mem.hist[t[1]])),
                     j \in Block(t[3], BlockCols, Upto(cols))}
      Of(i) == CHOOSE e \in Upto(E) : i >= Start(e) /\ i < Start(e) + mem.hist[e]
  IN  Store(out, [c \in UNION {Cells(t) : t \in Walk(p, cols)} |->
                    Accumulated(a, w, Of(c[1]), c[1] - Start(Of(c[1])), c[2])])

Activation(h) ==
  [c \in Upto(Total) \X Upto(Ffn2 \div 2) |-> Mul(h[c], h[<<c[1], c[2] + Ffn2 \div 2>>])]
ActivationGrad(h, g) ==
  LET n == Ffn2 \div 2
  IN  [c \in DOMAIN h |-> IF c[2] < n THEN Mul(g[c], h[<<c[1], c[2] + n>>])
                          ELSE Mul(g[<<c[1], c[2] - n>>], h[<<c[1], c[2] - n>>])]

\* The gradients of a product, expert by expert in empty buffers; that of an expert
\* without rows is zeroed.
Segment(e) == {i \in Upto(Total) : i >= Start(e) /\ i < Start(e) + mem.hist[e]}
GemmGradA(g, w) ==
  Store(Empty(Upto(Total) \X Upto(Len(w[1][1]))),
        [c \in UNION {Segment(e) \X Upto(Len(w[1][1])) : e \in Upto(E)} |->
           LET e == CHOOSE e \in Upto(E) : c[1] \in Segment(e)
           IN  Sigma(0, Len(w[1]) - 1, LAMBDA j : g[<<c[1], j>>] * w[e + 1][j + 1][c[2] + 1])])
GemmGradB(g, a, w) ==
  [c \in Upto(E) \X (Upto(Len(w[1])) \X Upto(Len(w[1][1]))) |->
     IF mem.hist[c[1]] = 0 THEN 0
     ELSE Sigma(Start(c[1]), Start(c[1]) + mem.hist[c[1]] - 1,
                LAMBDA i : g[<<i, c[2][1]>>] * a[<<i, c[2][2]>>])]
-----------------------------------------------------------------------------
(* moe_weighted_gather(), and the ways back.                               *)

SlotsOf(t) == {o \in Slots : Token(o) = t}
SumOver(os, F(_)) == FoldSet(LAMBDA o, sum : (sum + F(o)) % Prime, 0, os)

WeightedGather(t, hb) ==
  Store(mem.out, [c \in {t} \X ColsH(hb) |->
    SumOver(SlotsOf(t), LAMBDA o :
      LET idx == mem.index[o]
      IN  mem.y[<<Max({idx, 0}), c[2]>>] * (IF idx >= 0 THEN Weight(o) ELSE 0))])

\* Rows of experts are added by atomics, for any two tokens may share none or many.
GatherGradIn(t, hb) ==
  AtomicAdd(mem.dy, [c \in {mem.index[o] : o \in {o \in SlotsOf(t) : mem.index[o] >= 0}} \X ColsH(hb) |->
    SumOver({o \in SlotsOf(t) : mem.index[o] = c[1]}, LAMBDA o : OutGrad(t, c[2]) * Weight(o))])

\* _compute_grad_weight_chunked(): ChunkK columns at a time.
GradWeight ==
  LET Chunks == {Block(c, ChunkK, Upto(TopK)) : c \in Upto(CeilDiv(TopK, ChunkK))}
      Element(o) == IF mem.index[o] < 0 THEN 0
                    ELSE Sigma(0, Hidden - 1, LAMBDA h : mem.y[<<mem.index[o], h>>] * OutGrad(Token(o), h))
  IN  Store(Empty(Slots), [o \in {o \in Slots : \E ks \in Chunks : o % TopK \in ks} |-> Element(o)])

\* index_scatter's kernel; index_select() and a sum in moe_scatter's backward pass.
ScatterBackward(t, hb) ==
  Store(mem.dx, [c \in {t} \X ColsH(hb) |->
    SumOver(SlotsOf(t), LAMBDA o :
      IF mem.index[o] >= 0 THEN mem.drows[<<mem.index[o], c[2]>>] ELSE 0)])
-----------------------------------------------------------------------------
(* The same reordering in PyTorch (model/utils/permute_utils.py), by slots *)
(* ("index") or by a mask of tokens and experts ("mask").                  *)

PadOrTrim(rows, n) ==
  IF n < 0 THEN rows ELSE [j \in 1 .. n |-> IF j <= Len(rows) THEN rows[j] ELSE -1]
RowIdMap(by, n) ==
  PadOrTrim(IF by = "index"
            THEN SetToSortSeq({o \in Slots : Valid(o)},
                              LAMBDA o, q : Flat(o) < Flat(q) \/ (Flat(o) = Flat(q) /\ o < q))
            ELSE SetToSortSeq({Flat(o) * Tokens + Token(o) : o \in {o \in Slots : Valid(o)}}, <), n)
TokenOf(by, row) == IF by = "index" THEN row \div TopK ELSE row % Tokens
Permuted(by, n) ==
  LET rows == RowIdMap(by, n)
  IN  [j \in DOMAIN rows |-> [h \in Upto(Hidden) |->
         IF rows[j] >= 0 THEN X(TokenOf(by, rows[j]), h) ELSE 0]]

\* moe_unpermute() with merging_probs, by slot or by token and expert.
Prob(by, row) ==
  IF by = "index" THEN Weight(row)
  ELSE SumOver({o \in Slots : Token(o) = row % Tokens /\ Flat(o) = row \div Tokens}, Weight)
Unpermuted(by, n, y) ==
  LET rows == RowIdMap(by, n)
  IN  [c \in Grid2(Tokens, Hidden) |->
         SumOver({j \in DOMAIN rows : rows[j] >= 0 /\ TokenOf(by, rows[j]) = c[1]},
                 LAMBDA j : y[<<j - 1, c[2]>>] * Prob(by, rows[j]))]
-----------------------------------------------------------------------------
(* The stream.                                                             *)

Rows(width) == Upto(Total) \X Upto(width)
Launches ==
  <<"histogram", "count">>
    \o (IF fused THEN <<"index_scatter">> ELSE <<"index", "scatter">>)
    \o <<"gemm1", "gemm2", "gather", "gather_backward", "scatter_backward", "done">>

\* The grid of a kernel.
Grid(kernel) ==
  CASE kernel \in {"histogram", "index", "index_scatter"} -> {<<b>> : b \in Upto(NBlocks)}
    [] kernel = "count" -> Grid2(NBlocks, CeilDiv(E, BlockE))
    [] kernel = "scatter" -> Grid2(Tokens * TopK, HBlocks)
    [] kernel \in {"gemm1", "gemm2"} -> {<<p>> : p \in Upto(NumSM)}
    [] kernel = "done" -> {}
    [] OTHER -> Grid2(Tokens, HBlocks)

Init ==
  /\ input \in Routings
  /\ fused \in BOOLEAN
  /\ launch = 1
  /\ programs = Grid("histogram")
  /\ mem = [hist |-> Zeros(Upto(E)),
            count |-> Empty(Grid2(NBlocks, E)),
            index |-> [o \in Slots |-> Flat(o)],
            rows |-> <<>>, h |-> <<>>, act |-> <<>>, y |-> <<>>, out |-> Zeros(Grid2(Tokens, Hidden)),
            dweight |-> <<>>, dy |-> <<>>, drows |-> <<>>, dw1 |-> <<>>, dw2 |-> <<>>,
            dx |-> Empty(Grid2(Tokens, Hidden))]

Kernel == Launches[launch]

\* What torch does before the next kernel: new buffers, the activation, and in the
\* backward pass the products.
Launch ==
  /\ programs = {} /\ Kernel # "done"
  /\ launch' = launch + 1
  /\ LET next == Launches[launch + 1]
     IN  /\ programs' = Grid(next)
         /\ mem' =
              CASE next \in {"index", "index_scatter"} -> [mem EXCEPT !.rows = Zeros(Rows(Hidden))]
                [] next = "gemm1" -> [mem EXCEPT !.h = Empty(Rows(Ffn2))]
                [] next = "gemm2" -> [mem EXCEPT !.act = Activation(mem.h), !.y = Empty(Rows(Hidden))]
                [] next = "gather_backward" ->
                     [mem EXCEPT !.dweight = GradWeight, !.dy = Zeros(Rows(Hidden))]
                [] next = "scatter_backward" ->
                     LET dact == GemmGradA(mem.dy, ExpertW2)
                         dh == ActivationGrad(mem.h, dact)
                     IN  [mem EXCEPT !.dw2 = GemmGradB(mem.dy, mem.act, ExpertW2),
                                     !.dw1 = GemmGradB(dh, mem.rows, ExpertW1),
                                     !.drows = GemmGradA(dh, ExpertW1)]
                [] OTHER -> mem
  /\ UNCHANGED <<input, fused>>

Run(kernel, p) ==
  /\ Kernel = kernel /\ p \in programs
  /\ programs' = programs \ {p}
  /\ UNCHANGED <<input, fused, launch>>

RunHistogram == \E p \in programs : Run("histogram", p) /\ Put("hist", Histogram(p[1]))
RunCount == \E p \in programs : Run("count", p) /\ Put("count", CountPerBlock(p[1], p[2]))
RunIndex == \E p \in programs : Run("index", p) /\ Put("index", IndexCompute(p[1]))
RunIndexScatter ==
  \E p \in programs :
    /\ Run("index_scatter", p)
    /\ mem' = [mem EXCEPT !.index = ScatterIndex(p[1]), !.rows = ScatterRows(p[1])]
RunScatter == \E p \in programs : Run("scatter", p) /\ Put("rows", MoEScatter(p[1], p[2]))
RunGemm1 == \E p \in programs : Run("gemm1", p) /\ Put("h", GroupedGemm(p[1], mem.h, mem.rows, ExpertW1))
RunGemm2 == \E p \in programs : Run("gemm2", p) /\ Put("y", GroupedGemm(p[1], mem.y, mem.act, ExpertW2))
RunGather == \E p \in programs : Run("gather", p) /\ Put("out", WeightedGather(p[1], p[2]))
RunGatherBackward ==
  \E p \in programs : Run("gather_backward", p) /\ Put("dy", GatherGradIn(p[1], p[2]))
RunScatterBackward ==
  \E p \in programs : Run("scatter_backward", p) /\ Put("dx", ScatterBackward(p[1], p[2]))

Next ==
  \/ Launch \/ RunHistogram \/ RunCount \/ RunIndex \/ RunIndexScatter \/ RunScatter
  \/ RunGemm1 \/ RunGemm2 \/ RunGather \/ RunGatherBackward \/ RunScatterBackward
Spec == Init /\ [][Next]_vars
-----------------------------------------------------------------------------
(* The same, slot by slot: each token through each of its experts.         *)

Before1(e, o, i) == Sigma(0, Hidden - 1, LAMBDA h : ExpertW1[e + 1][i + 1][h + 1] * X(Token(o), h))
Act(e, o, i) == Mul(Before1(e, o, i), Before1(e, o, i + Ffn2 \div 2))
Through(e, o, h) == Sigma(0, Ffn2 \div 2 - 1, LAMBDA i : ExpertW2[e + 1][h + 1][i + 1] * Act(e, o, i))
DOut(o, h) == Mul(Weight(o), OutGrad(Token(o), h))
DAct(e, o, i) == Sigma(0, Hidden - 1, LAMBDA h : ExpertW2[e + 1][h + 1][i + 1] * DOut(o, h))
DBefore(e, o, i) ==
  LET n == Ffn2 \div 2
  IN  IF i < n THEN Mul(DAct(e, o, i), Before1(e, o, i + n))
      ELSE Mul(DAct(e, o, i - n), Before1(e, o, i - n))
DRow(e, o, h) == Sigma(0, Ffn2 - 1, LAMBDA i : ExpertW1[e + 1][i + 1][h + 1] * DBefore(e, o, i))

RoutedTo(e) == {o \in Slots : Flat(o) = e}
ValidOf(t) == {o \in SlotsOf(t) : Valid(o)}

\* Whatever order the programs of each kernel run in, a forward and a backward pass
\* give the output and the gradients that each token gets by going through its experts
\* one by one; and every place of the ordered buffer belongs to one slot, those of an
\* expert together and in the order of the tokens.  The reordering in PyTorch agrees,
\* with and without padding.  (optimizable: an alternative must give the output of the
\* function it replaces; tests/test_permute_utils.py.)
KernelsExact ==
  /\ Kernel \in {"gemm1", "done"} =>
       \A o \in Slots :
         IF Valid(o)
         THEN mem.index[o] = Cardinality({q \in Slots : Valid(q) /\ (Flat(q) < Flat(o) \/ (Flat(q) = Flat(o) /\ q < o))})
         ELSE mem.index[o] = -1
  /\ Kernel = "done" =>
       /\ \A by \in {"index", "mask"}, n \in {-1, Total + 1} :
            LET rows == Permuted(by, n)
            IN  /\ \A j \in DOMAIN rows, h \in Upto(Hidden) :
                     rows[j][h] = IF j <= Total THEN mem.rows[<<j - 1, h>>] ELSE 0
                /\ Unpermuted(by, n, mem.y) = mem.out
       /\ \A t \in Upto(Tokens), h \in Upto(Hidden) :
            /\ mem.out[<<t, h>>] = SumOver(ValidOf(t), LAMBDA o : Weight(o) * Through(Flat(o), o, h))
            /\ mem.dx[<<t, h>>] = SumOver(ValidOf(t), LAMBDA o : DRow(Flat(o), o, h))
       /\ \A o \in Slots :
            mem.dweight[o] = IF Valid(o) THEN Sigma(0, Hidden - 1, LAMBDA h : Through(Flat(o), o, h) * OutGrad(Token(o), h))
                             ELSE 0
       /\ \A e \in Upto(E) :
            /\ \A i \in Upto(Ffn2), h \in Upto(Hidden) :
                 mem.dw1[<<e, <<i, h>>>>] = SumOver(RoutedTo(e), LAMBDA o : DBefore(e, o, i) * X(Token(o), h))
            /\ \A h \in Upto(Hidden), i \in Upto(Ffn2 \div 2) :
                 mem.dw2[<<e, <<h, i>>>>] = SumOver(RoutedTo(e), LAMBDA o : DOut(o, h) * Act(e, o, i))
=============================================================================
