---------------------------- MODULE SeifertForm ----------------------------
(***************************************************************************)
(* Seifert matrices of braid closures and what is read off them            *)
(* (invariants/seifert.py).  A word is a sequence of nonzero integers, a   *)
(* matrix a sequence of rows.                                              *)
(***************************************************************************)
EXTENDS Complexes

Size(x) == IF x < 0 THEN -x ELSE x
Written(m) == Table([i \in DOMAIN m |-> Table(m[i])])

(* Generators sit between a crossing and the next one between the same two *)
(* strands.                                                                *)
Later(word, i) == {j \in i + 1..Len(word) : Size(word[j]) = Size(word[i])}
Following(word, i) == Min(Later(word, i))
Gens(word) == SelectSeq([i \in DOMAIN word |-> i], LAMBDA i : Later(word, i) # {})

Loop(word, i) ==
  CASE (word[i] > 0) # (word[Following(word, i)] > 0) -> 0
    [] word[i] > 0 -> -1
    [] OTHER -> 1
(* Mutant: interleaved generators of neighbouring columns are not linked.  *)
UnlinkedColumns(word, i, j) ==
  LET hi == Following(word, i)
  IN IF hi > Following(word, j) \/ hi # j THEN <<0, 0>>
     ELSE IF word[j] > 0 THEN <<0, 1>> ELSE <<-1, 0>>
(* <<m_ij, m_ji>> for generators i < j: Collins' cases.                    *)
Linking(word, i, j) ==
  LET hi == Following(word, i)
      hj == Following(word, j)
      d == Size(word[i]) - Size(word[j])
  IN CASE hi > hj \/ hi < j -> <<0, 0>>
       [] hi = j -> IF word[j] > 0 THEN <<0, 1>> ELSE <<-1, 0>>
       [] d = -1 -> <<1, 0>>
       [] d = 1 -> <<0, -1>>
       [] OTHER -> <<0, 0>>

SeifertMatrix(word) ==
  LET gens == Gens(word)
  IN Written([a \in DOMAIN gens |-> [b \in DOMAIN gens |->
        CASE a = b -> Loop(word, gens[a])
          [] a < b -> Linking(word, gens[a], gens[b])[1]
          [] OTHER -> Linking(word, gens[b], gens[a])[2]]])
(* Mutant: the form is not symmetrised.                                    *)
Unsymmetrized(m) == m
Symmetrized(m) == Written([a \in DOMAIN m |-> [b \in DOMAIN m |-> m[a][b] + m[b][a]]])

-----------------------------------------------------------------------------
(* Bareiss: one column is cleared after another; no pivot, no determinant. *)
(* The divisions are exact.  The last entry of the empty matrix is an      *)
(* IndexError.                                                             *)
Exchanged(a, i, k) == [a EXCEPT ![i] = a[k], ![k] = a[i]]
Determinant(m) ==
  LET n == Len(m)
      step(s, k) ==
        LET pivots == {i \in k..n : s.a[i][k] # 0}
            a == Exchanged(s.a, Min(pivots), k)
        IN IF pivots = {} THEN [s EXCEPT !.sign = 0]
           ELSE [sign |-> IF Min(pivots) = k THEN s.sign ELSE -s.sign,
                 prev |-> a[k][k],
                 a |-> Written([i \in 1..n |-> [j \in 1..n |->
                          IF i <= k \/ j <= k THEN a[i][j]
                          ELSE (a[i][j] * a[k][k] - a[i][k] * a[k][j]) \div s.prev]])]
      last == FoldLeft(LAMBDA s, k : IF s.sign = 0 THEN s ELSE step(s, k),
                       [sign |-> 1, prev |-> 1, a |-> m], [k \in 1..n - 1 |-> k])
  IN last.sign * last.a[n][n]

(* Signature by symmetric congruence.  The entries are kept up to a common *)
(* positive factor, where the code keeps fractions.                        *)
Signature(m) ==
  LET n == Len(m)
      swapped(a, k, i) ==
        LET p(x) == IF x = k THEN i ELSE IF x = i THEN k ELSE x
        IN Written([x \in 1..n |-> [y \in 1..n |-> a[p(x)][p(y)]]])
      doubled(a, k, j) ==
        LET rows == [a EXCEPT ![k] = [y \in 1..n |-> a[k][y] + a[j][y]]]
        IN Written([x \in 1..n |-> [rows[x] EXCEPT ![k] = rows[x][k] + rows[x][j]]])
      ready(a, k) ==
        LET diagonal == {i \in k..n : a[i][i] # 0}
            partners == {j \in k + 1..n : a[k][j] # 0}
        IN IF diagonal # {} THEN swapped(a, k, Min(diagonal))
           ELSE IF partners # {} THEN doubled(a, k, Min(partners)) ELSE a
      cleared(a, k) ==
        Written([x \in 1..n |-> [y \in 1..n |->
           IF x <= k \/ y <= k THEN a[x][y]
           ELSE (a[x][y] * a[k][k] - a[x][k] * a[k][y]) * (IF a[k][k] < 0 THEN -1 ELSE 1)]])
      step(s, k) ==
        LET a == ready(s.a, k)
        IN IF a[k][k] = 0 THEN s
           ELSE [a |-> cleared(a, k), signature |-> s.signature + (IF a[k][k] > 0 THEN 1 ELSE -1)]
  IN FoldLeft(step, [a |-> m, signature |-> 0], [k \in 1..n |-> k]).signature

-----------------------------------------------------------------------------
(* The Alexander polynomial by interpolation of det(V - x V^T) at 0..n; the*)
(* sum is scaled by n!, of which the code's fractions are the quotients.   *)
Factorial(n) == FoldLeft(LAMBDA acc, k : acc * k, 1, [k \in 1..n |-> k])
Interpolated(ys) ==                \* ys[x + 1] is the value at x
  LET n == Len(ys) - 1
      shifted(b, x) == Table([i \in 1..Len(b) + 1 |->
        (IF i > 1 THEN b[i - 1] ELSE 0) - x * (IF i <= Len(b) THEN b[i] ELSE 0)])
      basis(k) == FoldLeft(shifted, <<1>>, SelectSeq([x \in 1..n + 1 |-> x - 1], LAMBDA x : x # k))
      weight(k) == (IF (n - k) % 2 = 0 THEN 1 ELSE -1)
                     * (Factorial(n) \div (Factorial(k) * Factorial(n - k)))
  IN Table([i \in 1..n + 1 |->
        MapThenSumSet(LAMBDA k : ys[k + 1] * weight(k) * basis(k)[i], 0..n) \div Factorial(n)])

CanonicalAlexander(coeffs) ==
  LET there == {k \in DOMAIN coeffs : coeffs[k] # 0}
      c == SubSeq(coeffs, Min(there), Max(there))
  IN IF there = {} THEN <<0>> ELSE IF c[1] < 0 THEN [k \in DOMAIN c |-> -c[k]] ELSE c
AlexanderPolynomial(v) ==
  LET n == Len(v)
      at(x) == Determinant(Written([i \in 1..n |-> [j \in 1..n |-> v[i][j] - x * v[j][i]]]))
  IN IF n = 0 THEN <<1>> ELSE CanonicalAlexander(Interpolated(Table([x \in 1..n + 1 |-> at(x - 1)])))
=============================================================================
