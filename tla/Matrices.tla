------------------------------ MODULE Matrices ------------------------------
(***************************************************************************)
(* Matrices over the integers modulo a prime, which stand for tensors of   *)
(* floating-point numbers: sums, products and quotients are exact, so two  *)
(* ways to compute a value agree exactly when they agree as formulas,      *)
(* except by accident.  A matrix is a sequence of rows.                    *)
(***************************************************************************)
EXTENDS Integers, Sequences

Prime == 9973

\* f(lo) + ... + f(hi).
Sigma(lo, hi, f(_)) ==
  LET sum[k \in lo - 1 .. hi] == IF k < lo THEN 0 ELSE (sum[k - 1] + f(k)) % Prime
  IN  sum[hi]

Mul(x, y) == (x * y) % Prime

\* x / n, for n that is not 0 modulo the prime.
Quotient(x, n) == CHOOSE q \in 0 .. Prime - 1 : (q * (n % Prime)) % Prime = x % Prime

\* a matrix by its size and its elements.
Matrix(rows, cols, f(_, _)) == [i \in 1 .. rows |-> [j \in 1 .. cols |-> f(i, j) % Prime]]

Width(a) == IF a = <<>> THEN 0 ELSE Len(a[1])
Transposed(a) == [j \in 1 .. Width(a) |-> [i \in DOMAIN a |-> a[i][j]]]

\* a b^T and a b, as torch.matmul(a, b.t()) and torch.matmul(a, b).
TimesT(a, b) ==
  Matrix(Len(a), Len(b), LAMBDA i, j : Sigma(1, Len(a[i]), LAMBDA k : a[i][k] * b[j][k]))
Times(a, b) == TimesT(a, Transposed(b))

Plus(a, b) == Matrix(Len(a), Width(a), LAMBDA i, j : a[i][j] + b[i][j])

\* Elementwise product, and the product of each row with a vector.
Hadamard(a, b) == Matrix(Len(a), Width(a), LAMBDA i, j : a[i][j] * b[i][j])
Scaled(a, v) == Matrix(Len(a), Width(a), LAMBDA i, j : a[i][j] * v[j])

\* The sum of matrices f[k] of one size, over k in 0 .. n - 1.
SumOf(n, f) ==
  Matrix(Len(f[0]), Width(f[0]), LAMBDA i, j : Sigma(0, n - 1, LAMBDA k : f[k][i][j]))

\* Chunk k, from 0, of n equal chunks of a sequence, or of a matrix by columns.
Chunk(s, n, k) == LET size == Len(s) \div n IN SubSeq(s, k * size + 1, (k + 1) * size)
ColChunk(a, n, k) == [i \in DOMAIN a |-> Chunk(a[i], n, k)]

\* f[0] \o ... \o f[n - 1], of sequences or of matrices by columns.
Joined(n, f) ==
  LET cat[k \in 0 .. n] == IF k = 0 THEN <<>> ELSE cat[k - 1] \o f[k - 1] IN cat[n]
ColJoined(n, f) == [i \in DOMAIN f[0] |-> Joined(n, [k \in 0 .. n - 1 |-> f[k][i]])]
=============================================================================
