------------------------------ MODULE Complexes ------------------------------
(***************************************************************************)
(* Graded complexes over F2 (algebra: complex.py, reduce_reference.py,     *)
(* reduce_f2_packed.f2_rank_bitint, tiers.f2_homology, memory.py).         *)
(* A vector is the set of its nonzero rows, a matrix the sequence of its   *)
(* columns, a complex [dims, maps] with zero dimensions and maps left out. *)
(***************************************************************************)
EXTENDS Integers, FiniteSets, FiniteSetsExt, Sequences, SequencesExt

(* A function written out as a table (the same function to the reader).    *)
Table(f) == CHOOSE g \in {f} : g = f

(* Sparse vectors and polynomials: zeros are left out.                     *)
Entry(v, r) == IF r \in DOMAIN v THEN v[r] ELSE 0
Sparse(v) == Table([r \in {row \in DOMAIN v : v[row] # 0} |-> v[r]])

Add(v, w) == (v \ w) \cup (w \ v)

(* Column reduction: a column is eliminated against the pivot of its       *)
(* leading row until it is zero or has a leading row of its own.  combo    *)
(* holds the columns that were added up to it.                             *)
Eliminated(pivots, column, number) ==
  LET reduce[c \in [column : SUBSET Int, combo : SUBSET Int]] ==
        IF c.column = {} \/ Max(c.column) \notin DOMAIN pivots THEN c
        ELSE LET p == pivots[Max(c.column)]
             IN reduce[[column |-> Add(c.column, p.column), combo |-> Add(c.combo, p.combo)]]
  IN reduce[[column |-> column, combo |-> {number}]]

(* The pivots and the relations found after the first columns.             *)
Elimination(columns) ==
  LET after[j \in 0..Len(columns)] ==
        IF j = 0 THEN [pivots |-> <<>>, kernel |-> <<>>]
        ELSE LET before == after[j - 1]
                 c == Eliminated(before.pivots, columns[j], j)
             IN IF c.column = {} THEN [before EXCEPT !.kernel = Append(@, c.combo)]
                ELSE [before EXCEPT !.pivots =
                        [r \in DOMAIN @ \cup {Max(c.column)} |-> IF r = Max(c.column) THEN c ELSE @[r]]]
  IN after[Len(columns)]

F2Rank(columns) == Cardinality(DOMAIN Elimination(columns).pivots)
F2Kernel(columns) == Elimination(columns).kernel

-----------------------------------------------------------------------------
Dim(dims, n) == IF n \in DOMAIN dims THEN dims[n] ELSE 0
Columns(cx, n) ==
  IF n \in DOMAIN cx.maps THEN cx.maps[n] ELSE [j \in 1..Dim(cx.dims, n) |-> {}]
NonZero(maps) == [n \in {d \in DOMAIN maps : \E j \in DOMAIN maps[d] : maps[d][j] # {}} |-> maps[n]]

Betti(cx, n) == Dim(cx.dims, n) - F2Rank(Columns(cx, n)) - F2Rank(Columns(cx, n - 1))
Homology(cx) ==
  LET betti == [n \in DOMAIN cx.dims |-> Betti(cx, n)]
  IN [n \in {d \in DOMAIN betti : betti[d] # 0} |-> betti[n]]

-----------------------------------------------------------------------------
(* The packed reducer holds one boundary block at a time, a column of      *)
(* 64-bit words each, and its pivots: the bytes that predicts.              *)
Words(rows) == (rows + 63) \div 64
(* Mutant: the pivots are not counted.                                     *)
MatrixBytes(cols, rows) == IF cols = 0 \/ rows = 0 THEN 0 ELSE cols * Words(rows) * 8
BlockBytes(cols, rows) ==
  IF cols = 0 \/ rows = 0 THEN 0 ELSE (cols + Min({cols, rows})) * Words(rows) * 8
PeakBytes(dims) == Max({0} \cup {BlockBytes(dims[n], Dim(dims, n + 1)) : n \in DOMAIN dims})
=============================================================================
