-------------------------------- MODULE Grid --------------------------------
(***************************************************************************)
(* The grid chain complex of a knot (engines/floer: grid.py, gradings.py,  *)
(* differential.py and the array kernels *_jit.py), as constant-level      *)
(* definitions.  Rows and columns are numbered from 0 on a torus.          *)
(***************************************************************************)
EXTENDS Integers, FiniteSets, TLC

CONSTANTS N,    \* the size of the grid
          O, X  \* O[r], X[r]: the column of the marker in row r

Rows == 0..(N - 1)

(* A generator places one point in every row and column.                   *)
IsPermutation(x) == x \in [Rows -> Rows] /\ \A i, j \in Rows : x[i] = x[j] => i = j
Generators == {x \in [Rows -> Rows] : \A i, j \in Rows : x[i] = x[j] => i = j}

(* What the constructor of GridDiagram demands.                            *)
ValidGrid ==
  /\ IsPermutation(O) /\ IsPermutation(X)
  /\ \A r \in Rows : O[r] # X[r]

OCells == {<<r, O[r]>> : r \in Rows}
MarkerCells == OCells \cup {<<r, X[r]>> : r \in Rows}

-----------------------------------------------------------------------------
(* Gradings.  Points are in half units: generator points on the lattice    *)
(* (even), markers at cell centres (odd).  Sw counts the pairs strictly    *)
(* south-west of each other.                                               *)
Points(x) == {<<2 * i, 2 * x[i]>> : i \in Rows}
Centres(m) == {<<2 * i + 1, 2 * m[i] + 1>> : i \in Rows}
Sw(A, B) == Cardinality({pq \in A \X B : pq[1][1] < pq[2][1] /\ pq[1][2] < pq[2][2]})

MaslovRel(x, m) ==
  Sw(Points(x), Points(x)) - Sw(Points(x), Centres(m)) - Sw(Centres(m), Points(x))
    + Sw(Centres(m), Centres(m)) + 1

Maslov(x) == MaslovRel(x, O)
(* Mutant: the size of the grid is not taken off.                          *)
AlexanderUnshifted(x) == (MaslovRel(x, O) - MaslovRel(x, X)) \div 2
Alexander(x) == (MaslovRel(x, O) - MaslovRel(x, X) - (N - 1)) \div 2

-----------------------------------------------------------------------------
(* The differential of the reference: the rectangle from the point in row i*)
(* up to row j and right to column x[j], on the torus, counts when it holds*)
(* no other point and no cell to avoid; a target counts modulo two.        *)
Height(i, j) == (j - i) % N
Width(x, i, j) == (x[j] - x[i]) % N

Empty(x, i, j) ==
  LET openRows == {(i + t) % N : t \in 1..(Height(i, j) - 1)}
      openCols == {(x[i] + t) % N : t \in 1..(Width(x, i, j) - 1)}
  IN \A k \in openRows : x[k] \notin openCols
Avoids(x, i, j, cells) ==
  LET cellRows == {(i + t) % N : t \in 0..(Height(i, j) - 1)}
      cellCols == {(x[i] + t) % N : t \in 0..(Width(x, i, j) - 1)}
  IN \A m \in cells : ~(m[1] \in cellRows /\ m[2] \in cellCols)

Rectangles(x, cells) ==
  {ij \in Rows \X Rows : ij[1] # ij[2] /\ Empty(x, ij[1], ij[2]) /\ Avoids(x, ij[1], ij[2], cells)}

Transpose(x, i, j) == [x EXCEPT ![i] = x[j], ![j] = x[i]]
Odd(S) == Cardinality(S) % 2 = 1
(* Mutant: a target of two rectangles is counted although they cancel.     *)
TargetsOf(x, rectangles) == {Transpose(x, ij[1], ij[2]) : ij \in rectangles}
ReduceMod2(x, rectangles) ==
  {y \in TargetsOf(x, rectangles) :
     Odd({ij \in rectangles : Transpose(x, ij[1], ij[2]) = y})}

Differential(x) == ReduceMod2(x, Rectangles(x, MarkerCells))
FilteredDifferential(x) == ReduceMod2(x, Rectangles(x, OCells))

-----------------------------------------------------------------------------
(* The kernel of the scheduled path: the same rectangles in modular        *)
(* arithmetic, one unordered pair of rows at a time.                       *)
(* Mutant: the last interior row and column are not looked at.             *)
InteriorShort(extent) == 1..(extent - 2)
Interior(extent) == 1..(extent - 1)
RectValid(x, a, b) ==
  LET height == (b - a) % N
      width == (x[b] - x[a]) % N
  IN /\ \A t \in Interior(height) : (x[(a + t) % N] - x[a]) % N \notin Interior(width)
     /\ \A m \in MarkerCells : ~((m[1] - a) % N < height /\ (m[2] - x[a]) % N < width)

SurvivingPairs(x) ==
  {ij \in Rows \X Rows : ij[1] < ij[2] /\ ~(RectValid(x, ij[1], ij[2]) <=> RectValid(x, ij[2], ij[1]))}
DifferentialJit(x) == {Transpose(x, ij[1], ij[2]) : ij \in SurvivingPairs(x)}

-----------------------------------------------------------------------------
(* Ranks in lexicographic order, by the factorial number system.           *)
Factorial[n \in Nat] == IF n = 0 THEN 1 ELSE n * Factorial[n - 1]
Total == Factorial[N]

SmallerUnused(x, t) == Cardinality({v \in 0..(x[t] - 1) : \A u \in 0..(t - 1) : x[u] # v})
RankOf(x) ==
  LET sum[t \in 0..N] == IF t = N THEN 0 ELSE SmallerUnused(x, t) * Factorial[N - 1 - t] + sum[t + 1]
  IN sum[0]

(* The place-th smallest of a set of numbers, counting from 0.             *)
Nth(S, place) == CHOOSE v \in S : Cardinality({u \in S : u < v}) = place
(* The columns are chosen one by one: what is left of the index says which *)
(* of the columns still available comes next.                              *)
Unrank(k) ==
  LET after[t \in 0..N] ==
        IF t = 0 THEN [index |-> k, available |-> Rows, perm |-> <<>>]
        ELSE LET left == after[t - 1]
                 choice == Nth(left.available, left.index \div Factorial[N - t])
             IN [index |-> left.index % Factorial[N - t], available |-> left.available \ {choice},
                 perm |-> [u \in 0..(t - 1) |-> IF u = t - 1 THEN choice ELSE left.perm[u]]]
  IN after[N].perm
(* Lexicographic order itself.                                             *)
Before(x, y) == \E t \in Rows : x[t] < y[t] /\ \A u \in 0..(t - 1) : x[u] = y[u]

-----------------------------------------------------------------------------
(* generation_jobs cuts the ranks into slices of at most states each.      *)
SliceCount(states) ==
  LET ceiling == (Total + states - 1) \div states IN IF ceiling > 1 THEN ceiling ELSE 1
SliceStart(total, count, w) == (total * w) \div count
SliceStop(total, count, w) == (total * (w + 1)) \div count
=============================================================================
