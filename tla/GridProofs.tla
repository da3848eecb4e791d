----------------------------- MODULE GridProofs -----------------------------
(***************************************************************************)
(* Facts about the grid kernels for grids of every size.                   *)
(***************************************************************************)
EXTENDS Grid, FiniteSetTheorems, FunctionTheorems, TLAPS

(* Remainders of what lies within one period of the range.                 *)
LEMMA ModSmall ==
  ASSUME N \in Nat \ {0}, NEW a \in Int
  PROVE  /\ a % N \in 0..(N - 1)
         /\ 0 <= a /\ a < N => a % N = a
         /\ -N <= a /\ a < 0 => a % N = a + N
         /\ N <= a /\ a < 2 * N => a % N = a - N
OBVIOUS

LEMMA DivBounds ==
  ASSUME NEW a \in Nat, NEW b \in Nat \ {0}
  PROVE  a \div b \in Nat /\ b * (a \div b) <= a /\ a < b * ((a \div b) + 1)
OBVIOUS

(* Products with a positive number keep their order.                       *)
LEMMA MulKeepsOrder ==
  ASSUME NEW c \in Nat \ {0}, NEW a \in Int, NEW b \in Int
  PROVE  /\ a <= b <=> c * a <= c * b
         /\ a < b <=> c * a < c * b
OBVIOUS

(* Dividing the same way keeps the order.                                  *)
LEMMA DivKeepsOrder ==
  ASSUME NEW c \in Nat \ {0}, NEW a \in Nat, NEW b \in Nat, a <= b
  PROVE  a \div c <= b \div c
<1>1. c * (a \div c) < c * ((b \div c) + 1)
  BY DivBounds
<1>2. a \div c \in Nat /\ b \div c \in Nat
  BY DivBounds
<1>3. a \div c < (b \div c) + 1
  BY <1>1, <1>2, MulKeepsOrder
<1> QED
  BY <1>2, <1>3

-----------------------------------------------------------------------------
(* generation_jobs cuts [0, total) into count slices: every rank is in     *)
(* exactly one of them, whatever the two numbers are.                      *)
THEOREM SlicesTileTheRanks ==
  ASSUME NEW total \in Nat \ {0}, NEW count \in Nat \ {0}, NEW k \in 0..(total - 1)
  PROVE  /\ \E w \in 0..(count - 1) :
              SliceStart(total, count, w) <= k /\ k < SliceStop(total, count, w)
         /\ \A v, w \in 0..(count - 1) :
              /\ SliceStart(total, count, v) <= k /\ k < SliceStop(total, count, v)
              /\ SliceStart(total, count, w) <= k /\ k < SliceStop(total, count, w)
              => v = w
<1> DEFINE last == (k + 1) * count - 1
           slice == last \div total
<1>1. last \in Nat
  <2>1. count * 1 <= count * (k + 1)
    BY MulKeepsOrder
  <2> QED
    BY <2>1
<1>2. slice \in Nat /\ total * slice <= last /\ last < total * (slice + 1)
  BY <1>1, DivBounds
<1> HIDE DEF slice
<1>3. slice \in 0..(count - 1)
  <2>1. count * (k + 1) <= count * total
    BY MulKeepsOrder
  <2>2. total * slice < total * count
    BY <1>2, <2>1
  <2> QED
    BY <1>2, <2>2, MulKeepsOrder
<1>4. SliceStart(total, count, slice) <= k
  <2> DEFINE start == (total * slice) \div count
  <2>1. start \in Nat /\ count * start <= total * slice
    BY <1>2, DivBounds
  <2> HIDE DEF start
  <2>2. count * start < count * (k + 1)
    BY <2>1, <1>2
  <2>3. start < k + 1
    BY <2>1, <2>2, MulKeepsOrder
  <2> QED
    BY <2>1, <2>3 DEF SliceStart, start
<1>5. k < SliceStop(total, count, slice)
  <2> DEFINE stop == (total * (slice + 1)) \div count
  <2>1. total * (slice + 1) \in Nat
    BY <1>2
  <2>2. stop \in Nat /\ total * (slice + 1) < count * (stop + 1)
    BY <2>1, DivBounds
  <2> HIDE DEF stop
  <2>3. count * (k + 1) < count * (stop + 1)
    BY <2>2, <1>2
  <2>4. k + 1 < stop + 1
    BY <2>2, <2>3, MulKeepsOrder
  <2> QED
    BY <2>2, <2>4 DEF SliceStop, stop
<1>6. ASSUME NEW v \in 0..(count - 1), NEW w \in 0..(count - 1), v < w
      PROVE  SliceStop(total, count, v) <= SliceStart(total, count, w)
  <2>1. total * (v + 1) \in Nat /\ total * w \in Nat
    OBVIOUS
  <2>2. total * (v + 1) <= total * w
    BY <1>6, MulKeepsOrder
  <2> QED
    BY <2>1, <2>2, DivKeepsOrder DEF SliceStop, SliceStart
<1>7. ASSUME NEW v \in 0..(count - 1)
      PROVE  SliceStart(total, count, v) \in Nat /\ SliceStop(total, count, v) \in Nat
  <2>1. total * v \in Nat /\ total * (v + 1) \in Nat
    OBVIOUS
  <2> QED
    BY <2>1, DivBounds DEF SliceStop, SliceStart
<1> QED
  BY <1>3, <1>4, <1>5, <1>6, <1>7

-----------------------------------------------------------------------------
(* A number lies in a band that starts at another and runs up on the torus *)
(* exactly when its offset from the start, modulo the size, is in range.   *)
LEMMA BandIsOffset ==
  ASSUME N \in Nat \ {0}, NEW c \in Rows, NEW start \in Rows,
         NEW first \in {0, 1}, NEW extent \in 0..(N - 1)
  PROVE  c \in {(start + t) % N : t \in first..(extent - 1)}
           <=> (c - start) % N \in first..(extent - 1)
<1>1. ASSUME NEW t \in first..(extent - 1), c = (start + t) % N
      PROVE  (c - start) % N = t
  <2>0. start + t \in Int /\ 0 <= start + t /\ start + t < 2 * N
    BY DEF Rows
  <2>1. start + t < N => c = start + t
    BY <1>1, <2>0, ModSmall
  <2>2. N <= start + t => c = start + t - N
    <3> DEFINE a == start + t
    <3>1. a \in Int /\ a < 2 * N /\ c = a % N
      BY <1>1, <2>0
    <3> HIDE DEF a
    <3>2. N <= a => c = a - N
      BY <3>1, ModSmall
    <3> QED
      BY <3>1, <3>2 DEF a, Rows
  <2>3. start + t < N => (c - start) % N = t
    BY <2>1, ModSmall DEF Rows
  <2>4. N <= start + t => (c - start) % N = t
    BY <2>2, ModSmall DEF Rows
  <2> QED
    BY <2>3, <2>4 DEF Rows
<1>2. (start + ((c - start) % N)) % N = c
  <2> DEFINE t == (c - start) % N
  <2>1. start <= c => t = c - start
    BY ModSmall DEF Rows
  <2>2. c < start => t = c - start + N
    BY SMTT(30), ModSmall DEF Rows
  <2> HIDE DEF t
  <2>3. start <= c => (start + t) % N = c
    BY SMTT(30), <2>1, ModSmall DEF Rows
  <2>4. c < start => (start + t) % N = c
    BY SMTT(30), <2>2, ModSmall DEF Rows
  <2> QED
    BY <2>3, <2>4 DEF Rows, t
<1> QED
  BY <1>1, <1>2

(* The tests of the kernel are the tests of the reference.                 *)
LEMMA RectanglesAgree ==
  ASSUME N \in Nat \ {0}, O \in [Rows -> Rows], X \in [Rows -> Rows],
         NEW x \in [Rows -> Rows], NEW i \in Rows, NEW j \in Rows
  PROVE  RectValid(x, i, j) <=> Empty(x, i, j) /\ Avoids(x, i, j, MarkerCells)
<1> DEFINE height == Height(i, j)
           width == Width(x, i, j)
<1>1. height \in 0..(N - 1) /\ width \in 0..(N - 1) /\ x[i] \in Rows
  <2>1. x[i] \in Rows /\ x[j] \in Rows
    OBVIOUS
  <2>2. j - i \in Int /\ x[j] - x[i] \in Int
    BY <2>1 DEF Rows
  <2> QED
    BY <2>1, <2>2, ModSmall DEF Height, Width
<1>2. ASSUME NEW m \in MarkerCells
      PROVE  m[1] \in Rows /\ m[2] \in Rows
  BY DEF MarkerCells, OCells
<1>3. ASSUME NEW t \in 1..(height - 1)
      PROVE  (i + t) % N \in Rows /\ x[(i + t) % N] \in Rows
  <2>1. i + t \in Int
    BY <1>1 DEF Rows
  <2>2. (i + t) % N \in Rows
    BY <2>1, ModSmall DEF Rows
  <2> QED
    BY <2>2
<1>4. ASSUME NEW c \in Rows
      PROVE  (c - x[i]) % N \in 1..(width - 1)
               <=> c \in {(x[i] + t) % N : t \in 1..(width - 1)}
  BY <1>1, BandIsOffset
<1>5. ASSUME NEW c \in Rows
      PROVE  /\ (c - x[i]) % N < width <=> c \in {(x[i] + t) % N : t \in 0..(width - 1)}
             /\ (c - i) % N < height <=> c \in {(i + t) % N : t \in 0..(height - 1)}
  <2>0. c - x[i] \in Int /\ c - i \in Int
    BY <1>1 DEF Rows
  <2>1. (c - x[i]) % N \in 0..(N - 1) /\ (c - i) % N \in 0..(N - 1)
    BY <2>0, ModSmall
  <2>2. (c - x[i]) % N < width <=> (c - x[i]) % N \in 0..(width - 1)
    BY <2>1, <1>1
  <2>3. (c - i) % N < height <=> (c - i) % N \in 0..(height - 1)
    BY <2>1, <1>1
  <2>4. (c - x[i]) % N \in 0..(width - 1) <=> c \in {(x[i] + t) % N : t \in 0..(width - 1)}
    BY <1>1, BandIsOffset
  <2>5. (c - i) % N \in 0..(height - 1) <=> c \in {(i + t) % N : t \in 0..(height - 1)}
    BY <1>1, BandIsOffset
  <2> QED
    BY <2>2, <2>3, <2>4, <2>5
<1> DEFINE clear == \A t \in 1..(height - 1) : (x[(i + t) % N] - x[i]) % N \notin 1..(width - 1)
           free == \A m \in MarkerCells : ~((m[1] - i) % N < height /\ (m[2] - x[i]) % N < width)
<1>6. RectValid(x, i, j) <=> clear /\ free
  BY DEF RectValid, Interior, Height, Width
<1>7. clear <=> Empty(x, i, j)
  BY <1>3, <1>4 DEF Empty
<1>8. free <=> Avoids(x, i, j, MarkerCells)
  BY <1>2, <1>5 DEF Avoids
<1> QED
  BY <1>6, <1>7, <1>8

(* Transpositions of different pairs of rows lead to different targets.    *)
LEMMA TargetNamesThePair ==
  ASSUME NEW x \in Generators, NEW i \in Rows, NEW j \in Rows, NEW k \in Rows, NEW l \in Rows,
         i # j, k # l
  PROVE  /\ Transpose(x, i, j) = Transpose(x, j, i)
         /\ Transpose(x, i, j) = Transpose(x, k, l) => {i, j} = {k, l}
<1>1. x \in [Rows -> Rows] /\ x[i] # x[j]
  BY DEF Generators
<1>2. Transpose(x, i, j) = Transpose(x, j, i)
  BY <1>1 DEF Transpose
<1>3. /\ Transpose(x, i, j)[i] = x[j] /\ Transpose(x, i, j)[j] = x[i]
      /\ \A r \in Rows \ {k, l} : Transpose(x, k, l)[r] = x[r]
  BY <1>1 DEF Transpose
<1>4. Transpose(x, i, j) = Transpose(x, k, l) => i \in {k, l} /\ j \in {k, l}
  BY <1>1, <1>3
<1> QED
  BY <1>2, <1>4

(* The sizes a pair of rectangles can leave.                               *)
LEMMA OddOfPair ==
  ASSUME NEW p, NEW q, p # q, NEW S, S \subseteq {p, q}
  PROVE  Odd(S) <=> ~(p \in S <=> q \in S)
<1>1. CASE p \in S /\ q \in S
  <2>1. S = {p} \cup {q}
    BY <1>1
  <2>2. IsFiniteSet({p}) /\ Cardinality({p}) = 1 /\ q \notin {p}
    BY FS_Singleton
  <2>3. Cardinality({p} \cup {q}) = 2
    BY <2>2, FS_AddElement
  <2> QED
    BY <1>1, <2>1, <2>3 DEF Odd
<1>2. CASE p \in S /\ q \notin S
  <2>1. S = {p}
    BY <1>2
  <2> QED
    <3>1. Cardinality(S) = 1
      BY <2>1, FS_Singleton
    <3> QED
      BY <1>2, <3>1 DEF Odd
<1>3. CASE p \notin S /\ q \in S
  <2>1. S = {q}
    BY <1>3
  <2> QED
    <3>1. Cardinality(S) = 1
      BY <2>1, FS_Singleton
    <3> QED
      BY <1>3, <3>1 DEF Odd
<1>4. CASE p \notin S /\ q \notin S
  <2>1. S = {}
    BY <1>4
  <2> QED
    <3>1. Cardinality(S) = 0
      BY <2>1, FS_EmptySet
    <3> QED
      BY <1>4, <3>1 DEF Odd
<1> QED
  BY <1>1, <1>2, <1>3, <1>4

(* The differential of the scheduled path, which decides the parity pair by*)
(* pair in modular arithmetic, is the differential of the reference, which *)
(* counts every rectangle and reduces the counts modulo two: on every grid.*)
THEOREM KernelIsTheDifferential ==
  ASSUME N \in Nat \ {0}, O \in [Rows -> Rows], X \in [Rows -> Rows], NEW x \in Generators
  PROVE  DifferentialJit(x) = Differential(x)
<1> DEFINE R == Rectangles(x, MarkerCells)
           Over(y) == {ij \in R : Transpose(x, ij[1], ij[2]) = y}
<1>1. ASSUME NEW i \in Rows, NEW j \in Rows, i # j
      PROVE  <<i, j>> \in R <=> RectValid(x, i, j)
  <2>1. x \in [Rows -> Rows]
    BY DEF Generators
  <2>2. RectValid(x, i, j) <=> Empty(x, i, j) /\ Avoids(x, i, j, MarkerCells)
    BY <2>1, RectanglesAgree
  <2> QED
    BY <1>1, <2>2 DEF Rectangles
<1>2. ASSUME NEW ij \in R
      PROVE  /\ ij[1] \in Rows /\ ij[2] \in Rows /\ ij = <<ij[1], ij[2]>>
             /\ ij[1] # ij[2]
  BY DEF Rectangles
<1> HIDE DEF R
<1>3. ASSUME NEW i \in Rows, NEW j \in Rows, i < j
      PROVE  Odd(Over(Transpose(x, i, j))) <=> ~(RectValid(x, i, j) <=> RectValid(x, j, i))
  <2> DEFINE y == Transpose(x, i, j)
  <2>1. i # j
    BY <1>3 DEF Rows
  <2>2. \A ij \in Over(y) : ij = <<i, j>> \/ ij = <<j, i>>
    <3> SUFFICES ASSUME NEW ij \in Over(y)
                 PROVE  ij = <<i, j>> \/ ij = <<j, i>>
      OBVIOUS
    <3>1. ij \in R /\ Transpose(x, ij[1], ij[2]) = Transpose(x, i, j)
      OBVIOUS
    <3>2. ij[1] \in Rows /\ ij[2] \in Rows /\ ij[1] # ij[2] /\ ij = <<ij[1], ij[2]>>
      BY <3>1, <1>2
    <3>3. \A a, b \in Rows : a # b /\ Transpose(x, a, b) = Transpose(x, i, j) => {a, b} = {i, j}
      BY <2>1, TargetNamesThePair
    <3>4. {ij[1], ij[2]} = {i, j}
      BY <3>1, <3>2, <3>3, Zenon
    <3> QED
      BY <3>2, <3>4
  <2>3. <<i, j>> \in Over(y) <=> RectValid(x, i, j)
    BY <1>1, <2>1
  <2>4. <<j, i>> \in Over(y) <=> RectValid(x, j, i)
    BY <1>1, <2>1, TargetNamesThePair
  <2>5. <<i, j>> # <<j, i>>
    BY <2>1
  <2> HIDE DEF Over, y
  <2>6. Over(y) \subseteq {<<i, j>>, <<j, i>>}
    BY <2>2
  <2> DEFINE S == Over(y)
             p == <<i, j>>
             q == <<j, i>>
  <2>7. Odd(Over(y)) <=> ~(<<i, j>> \in Over(y) <=> <<j, i>> \in Over(y))
    <3>1. p # q /\ S \subseteq {p, q}
      BY <2>5, <2>6
    <3> HIDE DEF p, q, S
    <3>2. Odd(S) <=> ~(p \in S <=> q \in S)
      BY <3>1, OddOfPair
    <3> QED
      BY <3>2 DEF p, q, S
  <2> QED
    BY <2>3, <2>4, <2>7 DEF y
<1>4. \A y : y \in Differential(x)
               <=> (\E ij \in R : Transpose(x, ij[1], ij[2]) = y) /\ Odd(Over(y))
  BY DEF Differential, ReduceMod2, TargetsOf, R
<1>5. ASSUME NEW y \in DifferentialJit(x)
      PROVE  y \in Differential(x)
  <2>1. PICK ij \in SurvivingPairs(x) : y = Transpose(x, ij[1], ij[2])
    BY <1>5 DEF DifferentialJit
  <2> DEFINE i == ij[1]
             j == ij[2]
  <2>2. i \in Rows /\ j \in Rows /\ i < j /\ ~(RectValid(x, i, j) <=> RectValid(x, j, i))
    BY <2>1 DEF SurvivingPairs
  <2>3. i # j
    BY <2>2 DEF Rows
  <2>4. Odd(Over(y))
    BY <1>3, <2>1, <2>2
  <2>5. Transpose(x, j, i) = y
    BY <2>1, <2>2, <2>3, TargetNamesThePair
  <2>6. <<i, j>> \in R \/ <<j, i>> \in R
    <3>1. <<i, j>> \in R <=> RectValid(x, i, j)
      BY <1>1, <2>2, <2>3
    <3>2. <<j, i>> \in R <=> RectValid(x, j, i)
      BY <1>1, <2>2, <2>3
    <3> QED
      BY <2>2, <3>1, <3>2
  <2>7. \E rows \in R : Transpose(x, rows[1], rows[2]) = y
    BY <2>1, <2>5, <2>6
  <2> QED
    BY <1>4, <2>4, <2>7
<1>6. ASSUME NEW y \in Differential(x)
      PROVE  y \in DifferentialJit(x)
  <2>1. PICK ij \in R : Transpose(x, ij[1], ij[2]) = y
    BY <1>4, <1>6
  <2>2. Odd(Over(y))
    BY <1>4, <1>6
  <2>3. \E i, j \in Rows : i < j /\ Transpose(x, i, j) = y
    <3>1. ij[1] < ij[2] \/ ij[2] < ij[1]
      BY <1>2 DEF Rows
    <3>2. Transpose(x, ij[2], ij[1]) = y
      BY <1>2, <2>1, TargetNamesThePair
    <3> QED
      BY <1>2, <2>1, <3>1, <3>2
  <2>4. PICK i \in Rows, j \in Rows : i < j /\ Transpose(x, i, j) = y
    BY <2>3
  <2>5. ~(RectValid(x, i, j) <=> RectValid(x, j, i))
    BY <1>3, <2>2, <2>4
  <2>6. <<i, j>> \in SurvivingPairs(x)
    BY <2>4, <2>5 DEF SurvivingPairs
  <2> QED
    BY <2>4, <2>6 DEF DifferentialJit
<1> QED
  BY <1>5, <1>6 DEF DifferentialJit, Differential, ReduceMod2

-----------------------------------------------------------------------------
(* Ranks.                                                                  *)
Sums == INSTANCE TotalsProofs

(* The factorials exist: up to every bound, and so altogether.             *)
Factors(f) == f = [n \in Nat |-> IF n = 0 THEN 1 ELSE n * f[n - 1]]
FactorsUpTo(g, n) == g \in [0..n -> Nat] /\ g[0] = 1 /\ \A k \in 1..n : g[k] = k * g[k - 1]

LEMMA FactorialUpTo == \A n \in Nat : \E g : FactorsUpTo(g, n)
<1> DEFINE S == {n \in Nat : \E g : FactorsUpTo(g, n)}
<1>1. 0 \in S
  <2>1. FactorsUpTo([k \in 0..0 |-> 1], 0)
    BY DEF FactorsUpTo
  <2> QED BY <2>1
<1>2. ASSUME NEW n \in S PROVE n + 1 \in S
  <2>1. PICK g : FactorsUpTo(g, n)
    OBVIOUS
  <2> DEFINE h == [k \in 0..(n + 1) |-> IF k <= n THEN g[k] ELSE (n + 1) * g[n]]
  <2>2. n \in Nat /\ g[n] \in Nat /\ \A k \in 0..n : g[k] \in Nat
    BY <2>1 DEF FactorsUpTo
  <2>3. (n + 1) * g[n] \in Nat
    BY <2>2
  <2>4. h \in [0..(n + 1) -> Nat]
    BY <2>2, <2>3
  <2>5. h[n + 1] = (n + 1) * g[n] /\ \A k \in 0..n : h[k] = g[k]
    BY <2>2
  <2> HIDE DEF h
  <2>6. \A k \in 1..(n + 1) : h[k] = k * h[k - 1]
    <3> SUFFICES ASSUME NEW k \in 1..(n + 1) PROVE h[k] = k * h[k - 1]
      OBVIOUS
    <3>1. CASE k = n + 1
      <4>1. k - 1 = n /\ n \in 0..n
        BY <2>2, <3>1
      <4> QED BY <2>5, <3>1, <4>1
    <3>2. CASE k \in 1..n
      <4>1. k \in 0..n /\ k - 1 \in 0..n /\ g[k] = k * g[k - 1]
        BY <2>1, <2>2, <3>2 DEF FactorsUpTo
      <4> QED BY <2>5, <4>1
    <3> QED BY <2>2, <3>1, <3>2
  <2>7. h[0] = 1
    BY <2>1, <2>2, <2>5 DEF FactorsUpTo
  <2>8. FactorsUpTo(h, n + 1)
    BY <2>4, <2>6, <2>7 DEF FactorsUpTo
  <2> QED BY <2>2, <2>8
<1> HIDE DEF S
<1>3. S = Nat
  <2>1. S \subseteq Nat
    BY DEF S
  <2> QED BY <1>1, <1>2, <2>1, Sums!Counting
<1> QED BY <1>3 DEF S

LEMMA FactorsAgree ==
  ASSUME NEW n \in Nat, NEW m \in Nat, n <= m, NEW g, FactorsUpTo(g, n), NEW h, FactorsUpTo(h, m)
  PROVE  g[n] = h[n]
<1> DEFINE S == {k \in Nat : k <= n => g[k] = h[k]}
<1>1. 0 \in S
  BY DEF FactorsUpTo
<1>2. ASSUME NEW k \in S PROVE k + 1 \in S
  <2> SUFFICES ASSUME k + 1 <= n PROVE g[k + 1] = h[k + 1]
    OBVIOUS
  <2>1. k \in Nat /\ k + 1 \in 1..n /\ k + 1 \in 1..m /\ (k + 1) - 1 = k /\ k <= n
    OBVIOUS
  <2>2. g[k] = h[k]
    BY <2>1
  <2> HIDE DEF S
  <2>3. g[k + 1] = (k + 1) * g[k] /\ h[k + 1] = (k + 1) * h[k]
    <3>1. g[k + 1] = (k + 1) * g[(k + 1) - 1] /\ h[k + 1] = (k + 1) * h[(k + 1) - 1]
      BY <2>1 DEF FactorsUpTo
    <3> QED BY <2>1, <3>1
  <2> QED BY <2>2, <2>3
<1>3. S = Nat
  <2>1. S \subseteq Nat
    OBVIOUS
  <2> HIDE DEF S
  <2> QED BY <1>1, <1>2, <2>1, Sums!Counting
<1>4. n \in S
  BY <1>3
<1> QED BY <1>4

LEMMA FactorialIs ==
  /\ Factorial[0] = 1
  /\ \A n \in Nat : Factorial[n] \in Nat \ {0} /\ Factorial[n + 1] = (n + 1) * Factorial[n]
<1> DEFINE g(n) == CHOOSE it : FactorsUpTo(it, n)
           w == [n \in Nat |-> g(n)[n]]
<1>1. \A n \in Nat : FactorsUpTo(g(n), n)
  BY FactorialUpTo
<1> HIDE DEF g
<1>2. ASSUME NEW n \in Nat \ {0} PROVE w[n] = n * w[n - 1]
  <2>1. n - 1 \in Nat /\ n - 1 <= n /\ n \in 1..n
    OBVIOUS
  <2>2. g(n)[n] = n * g(n)[n - 1]
    BY <1>1, <2>1 DEF FactorsUpTo
  <2>3. FactorsUpTo(g(n - 1), n - 1) /\ FactorsUpTo(g(n), n)
    BY <1>1, <2>1
  <2>4. g(n - 1)[n - 1] = g(n)[n - 1]
    BY <2>1, <2>3, FactorsAgree
  <2> QED BY <2>1, <2>2, <2>4
<1>3. w[0] = 1
  BY <1>1 DEF FactorsUpTo
<1>4. Factors(w)
  <2>1. w = [n \in Nat |-> w[n]]
    OBVIOUS
  <2> HIDE DEF w
  <2>2. \A n \in Nat : w[n] = IF n = 0 THEN 1 ELSE n * w[n - 1]
    BY <1>2, <1>3
  <2> QED BY <2>1, <2>2 DEF Factors
<1>5. Factors(Factorial)
  <2>1. Factorial = CHOOSE it : Factors(it)
    BY DEF Factorial, Factors
  <2> HIDE DEF w
  <2> QED BY <1>4, <2>1
<1>6. \A n \in Nat : Factorial[n] = IF n = 0 THEN 1 ELSE n * Factorial[n - 1]
  BY <1>5 DEF Factors
<1>7. \A n \in Nat : Factorial[n + 1] = (n + 1) * Factorial[n]
  <2> SUFFICES ASSUME NEW n \in Nat PROVE Factorial[n + 1] = (n + 1) * Factorial[n]
    OBVIOUS
  <2>1. n + 1 \in Nat /\ n + 1 # 0 /\ (n + 1) - 1 = n
    OBVIOUS
  <2>2. Factorial[n + 1] = (n + 1) * Factorial[(n + 1) - 1]
    BY <1>6, <2>1
  <2> QED BY <2>1, <2>2
<1>8. \A n \in Nat : Factorial[n] \in Nat \ {0}
  <2> DEFINE S == {n \in Nat : Factorial[n] \in Nat \ {0}}
  <2>1. 0 \in S
    BY <1>6
  <2>2. ASSUME NEW n \in S PROVE n + 1 \in S
    <3>1. n \in Nat /\ Factorial[n] \in Nat \ {0} /\ Factorial[n + 1] = (n + 1) * Factorial[n]
      BY <1>7
    <3>2. (n + 1) * Factorial[n] \in Nat \ {0}
      BY <3>1
    <3> QED BY <3>1, <3>2
  <2>3. S \subseteq Nat
    OBVIOUS
  <2> HIDE DEF S
  <2>4. S = Nat
    BY <2>1, <2>2, <2>3, Sums!Counting
  <2> QED BY <2>4 DEF S
<1> QED BY <1>6, <1>7, <1>8

-----------------------------------------------------------------------------
(* Disjoint sets of one size: as many elements as sets times the size.     *)
Together(A, S) == UNION {A[s] : s \in S}
LEMMA EqualParts ==
  ASSUME NEW S, IsFiniteSet(S), NEW c \in Nat, NEW A,
         \A s \in S : IsFiniteSet(A[s]) /\ Cardinality(A[s]) = c,
         \A s, r \in S : s # r => A[s] \cap A[r] = {}
  PROVE  IsFiniteSet(Together(A, S)) /\ Cardinality(Together(A, S)) = Cardinality(S) * c
<1> DEFINE all == Together(A, S)
           P == S \X (1..c)
           b(s) == CHOOSE f : f \in Bijection(1..c, A[s])
           F == [p \in P |-> b(p[1])[p[2]]]
<1>1. IsFiniteSet(1..c) /\ Cardinality(1..c) = c
  BY FS_Interval
<1>2. ASSUME NEW s \in S PROVE b(s) \in Bijection(1..c, A[s])
  <2>1. ExistsBijection(1..c, A[s])
    BY <1>1, FS_SameCardinalityBij
  <2> QED BY <2>1 DEF ExistsBijection
<1> HIDE DEF b
<1>3. \A s \in S : /\ \A k \in 1..c : b(s)[k] \in A[s]
                   /\ \A k, l \in 1..c : b(s)[k] = b(s)[l] => k = l
                   /\ \A v \in A[s] : \E k \in 1..c : b(s)[k] = v
  BY <1>2 DEF Bijection, Injection, Surjection, IsInjective
<1>4. \A p \in P : p[1] \in S /\ p[2] \in 1..c /\ p = <<p[1], p[2]>> /\ F[p] = b(p[1])[p[2]]
  OBVIOUS
<1>5. F \in [P -> all]
  <2>1. \A p \in P : b(p[1])[p[2]] \in all
    BY <1>3, <1>4 DEF Together
  <2> QED BY <2>1
<1>6. \A p, q \in P : F[p] = F[q] => p = q
  <2> SUFFICES ASSUME NEW p \in P, NEW q \in P, F[p] = F[q] PROVE p = q
    OBVIOUS
  <2>1. F[p] \in A[p[1]] /\ F[q] \in A[q[1]]
    BY <1>3, <1>4
  <2>2. p[1] = q[1]
    BY <1>4, <2>1
  <2>3. p[2] = q[2]
    BY <1>3, <1>4, <2>2
  <2> QED BY <1>4, <2>2, <2>3
<1>7. \A v \in all : \E p \in P : F[p] = v
  <2> SUFFICES ASSUME NEW v \in all PROVE \E p \in P : F[p] = v
    OBVIOUS
  <2>1. PICK s \in S : v \in A[s]
    BY DEF Together
  <2>2. PICK k \in 1..c : b(s)[k] = v
    BY <1>3, <2>1
  <2>3. <<s, k>> \in P /\ F[<<s, k>>] = v
    BY <2>2
  <2> QED BY <2>3
<1>8. IsFiniteSet(P) /\ Cardinality(P) = Cardinality(S) * c
  <2> DEFINE T == 1..c
  <2>1. IsFiniteSet(T) /\ Cardinality(T) = c
    BY <1>1
  <2> HIDE DEF T
  <2>2. IsFiniteSet(S \X T) /\ Cardinality(S \X T) = Cardinality(S) * Cardinality(T)
    BY <2>1, FS_Product
  <2> QED BY <2>1, <2>2 DEF T
<1> HIDE DEF F, P, all
<1>9. ExistsBijection(P, all)
  <2>1. F \in Injection(P, all)
    BY <1>5, <1>6 DEF Injection, IsInjective
  <2>2. F \in Surjection(P, all)
    BY <1>5, <1>7 DEF Surjection
  <2> QED BY <2>1, <2>2 DEF ExistsBijection, Bijection
<1>10. IsFiniteSet(all) /\ Cardinality(all) = Cardinality(P)
  BY <1>8, <1>9, FS_Bijection
<1> QED BY <1>8, <1>10 DEF all

(* The generators that begin as p does, and the columns p leaves free.     *)
Begins(p, t) ==
  p \in [Rows -> Rows] /\ \A u, w \in 0..(t - 1) : p[u] = p[w] => u = w
Completions(p, t) == {y \in Generators : \A u \in 0..(t - 1) : y[u] = p[u]}
Free(p, t) == {v \in Rows : \A u \in 0..(t - 1) : p[u] # v}
Going(p, t, V) == {y \in Completions(p, t) : y[t] \in V}
With(p, t, v) == [p EXCEPT ![t] = v]

LEMMA FreeColumns ==
  ASSUME N \in Nat \ {0}, NEW t \in 0..N, NEW p, Begins(p, t)
  PROVE  IsFiniteSet(Free(p, t)) /\ Cardinality(Free(p, t)) = N - t
<1> DEFINE used == {p[u] : u \in 0..(t - 1)}
           f == [u \in 0..(t - 1) |-> p[u]]
<1>1. IsFiniteSet(Rows) /\ Cardinality(Rows) = N /\ IsFiniteSet(0..(t - 1)) /\ Cardinality(0..(t - 1)) = t
  BY FS_Interval DEF Rows
<1>2. 0..(t - 1) \subseteq Rows
  BY DEF Rows
<1>3. used \subseteq Rows /\ Free(p, t) = Rows \ used
  BY <1>2 DEF Begins, Free
<1>4. f \in [0..(t - 1) -> used] /\ (\A u, w \in 0..(t - 1) : f[u] = f[w] => u = w)
      /\ \A v \in used : \E u \in 0..(t - 1) : f[u] = v
  BY DEF Begins
<1> HIDE DEF f, used
<1>5. ExistsBijection(0..(t - 1), used)
  <2>1. f \in Injection(0..(t - 1), used) /\ f \in Surjection(0..(t - 1), used)
    BY <1>4 DEF Injection, IsInjective, Surjection
  <2> QED BY <2>1 DEF ExistsBijection, Bijection
<1>6. IsFiniteSet(used) /\ Cardinality(used) = t
  BY <1>1, <1>5, FS_Bijection
<1>7. Rows \cap used = used
  BY <1>3
<1>8. IsFiniteSet(Rows \ used) /\ Cardinality(Rows \ used) = Cardinality(Rows) - Cardinality(Rows \cap used)
  BY <1>1, FS_Difference
<1> QED BY <1>1, <1>3, <1>6, <1>7, <1>8

(* Those that go on in one of the columns of V: a factorial for each.      *)
Counted(t) == \A p : Begins(p, t) =>
                IsFiniteSet(Completions(p, t)) /\ Cardinality(Completions(p, t)) = Factorial[N - t]
LEMMA GoingOn ==
  ASSUME N \in Nat \ {0}, NEW t \in Rows, NEW p, Begins(p, t), Counted(t + 1),
         NEW V \in SUBSET Free(p, t)
  PROVE  /\ IsFiniteSet(Going(p, t, V))
         /\ Cardinality(Going(p, t, V)) = Cardinality(V) * Factorial[N - (t + 1)]
<1> DEFINE A == [v \in V |-> Completions(With(p, t, v), t + 1)]
           c == Factorial[N - (t + 1)]
<1>1. t \in 0..N /\ t \in Nat /\ N - (t + 1) \in Nat /\ 0..((t + 1) - 1) = 0..(t - 1) \cup {t} /\ t \notin 0..(t - 1)
      /\ 0..(t - 1) \subseteq Rows
  BY DEF Rows
<1>2. c \in Nat
  BY <1>1, FactorialIs
<1>3. V \subseteq Rows /\ \A v \in V : \A u \in 0..(t - 1) : p[u] # v
  BY DEF Free
<1>4. p \in [Rows -> Rows] /\ \A u, w \in 0..(t - 1) : p[u] = p[w] => u = w
  BY DEF Begins
<1>5. ASSUME NEW v \in V
      PROVE  /\ With(p, t, v) \in [Rows -> Rows] /\ With(p, t, v)[t] = v
             /\ \A u \in 0..(t - 1) : With(p, t, v)[u] = p[u]
  BY <1>1, <1>3, <1>4 DEF With
<1>6. ASSUME NEW v \in V PROVE Begins(With(p, t, v), t + 1)
  BY <1>1, <1>3, <1>4, <1>5 DEF Begins
<1>7. \A v \in V : IsFiniteSet(A[v]) /\ Cardinality(A[v]) = c
  BY <1>6 DEF Counted
<1>8. \A v \in V : A[v] = {y \in Generators : y[t] = v /\ \A u \in 0..(t - 1) : y[u] = p[u]}
  BY <1>1, <1>5 DEF Completions
<1>9. \A v, w \in V : v # w => A[v] \cap A[w] = {}
  BY <1>8
<1>10. Going(p, t, V) = Together(A, V)
  BY <1>8 DEF Going, Completions, Together
<1>11. IsFiniteSet(V)
  BY <1>1, FreeColumns, FS_Subset
<1> HIDE DEF A, c
<1>12. IsFiniteSet(Together(A, V)) /\ Cardinality(Together(A, V)) = Cardinality(V) * c
  BY <1>2, <1>7, <1>9, <1>11, EqualParts
<1> QED BY <1>10, <1>12 DEF c

LEMMA CompletionsCounted == ASSUME N \in Nat \ {0}, NEW t \in 0..N PROVE Counted(t)
<1> DEFINE S == {d \in Nat : d <= N => Counted(N - d)}
<1>1. 0 \in S
  <2> SUFFICES ASSUME NEW p, Begins(p, N)
               PROVE  IsFiniteSet(Completions(p, N)) /\ Cardinality(Completions(p, N)) = Factorial[N - N]
    BY DEF Counted
  <2>1. p \in Generators
    BY DEF Begins, Generators, Rows
  <2>2. \A y \in Completions(p, N) : y = p
    BY <2>1 DEF Completions, Generators, Rows
  <2>3. Completions(p, N) = {p}
    BY <2>1, <2>2 DEF Completions
  <2>4. IsFiniteSet({p}) /\ Cardinality({p}) = 1
    BY FS_Singleton
  <2>5. N - N = 0
    OBVIOUS
  <2> QED BY <2>3, <2>4, <2>5, FactorialIs
<1>2. ASSUME NEW d \in S PROVE d + 1 \in S
  <2> SUFFICES ASSUME d + 1 <= N, NEW p, Begins(p, N - (d + 1))
               PROVE  /\ IsFiniteSet(Completions(p, N - (d + 1)))
                      /\ Cardinality(Completions(p, N - (d + 1))) = Factorial[N - (N - (d + 1))]
    BY DEF Counted
  <2> DEFINE k == N - (d + 1)
             V == Free(p, k)
  <2>1. d \in Nat /\ k \in Rows /\ k \in 0..N /\ k + 1 = N - d /\ N - k = d + 1 /\ N - (k + 1) = d /\ d <= N
    BY DEF Rows
  <2>2. Counted(k + 1)
    BY <2>1
  <2> HIDE DEF S, k, V
  <2>3. Begins(p, k)
    BY DEF k
  <2>4. Cardinality(V) = d + 1
    BY <2>1, <2>3, FreeColumns DEF V
  <2>5. IsFiniteSet(Going(p, k, V)) /\ Cardinality(Going(p, k, V)) = Cardinality(V) * Factorial[N - (k + 1)]
    BY <2>1, <2>2, <2>3, GoingOn DEF V
  <2>6. Completions(p, k) = Going(p, k, V)
    <3> SUFFICES ASSUME NEW y \in Completions(p, k) PROVE y[k] \in V
      BY DEF Going
    <3>1. y \in [Rows -> Rows] /\ (\A u, w \in Rows : y[u] = y[w] => u = w)
          /\ \A u \in 0..(k - 1) : y[u] = p[u]
      BY DEF Completions, Generators
    <3>2. \A u \in 0..(k - 1) : u \in Rows /\ u # k
      BY <2>1 DEF Rows
    <3>3. \A u \in 0..(k - 1) : y[u] # y[k]
      BY <2>1, <3>1, <3>2
    <3> QED BY <2>1, <3>1, <3>3 DEF V, Free
  <2>7. Factorial[d + 1] = (d + 1) * Factorial[d]
    BY <2>1, FactorialIs
  <2>8. Cardinality(Completions(p, k)) = Factorial[N - k]
    BY <2>1, <2>4, <2>5, <2>6, <2>7
  <2> QED BY <2>5, <2>6, <2>8 DEF k
<1>3. S = Nat
  <2>1. S \subseteq Nat
    OBVIOUS
  <2> HIDE DEF S
  <2> QED BY <1>1, <1>2, <2>1, Sums!Counting
<1>4. N - t \in S /\ N - t <= N /\ N - (N - t) = t
  <2> HIDE DEF S
  <2> QED BY <1>3
<1> QED BY <1>4

-----------------------------------------------------------------------------
(* The generators before x that begin as x does, t columns long.           *)
Earlier(x, t) == {y \in Completions(x, t) : Before(y, x)}
Below(x, t) == {v \in 0..(x[t] - 1) : \A u \in 0..(t - 1) : x[u] # v}

LEMMA GeneratorsBegin ==
  ASSUME N \in Nat \ {0}, NEW x \in Generators
  PROVE  /\ x \in [Rows -> Rows] /\ \A i, j \in Rows : x[i] = x[j] => i = j
         /\ \A t \in 0..N : Begins(x, t) /\ x \in Completions(x, t)
<1>1. x \in [Rows -> Rows] /\ \A i, j \in Rows : x[i] = x[j] => i = j
  BY DEF Generators
<1>2. \A t \in 0..N : 0..(t - 1) \subseteq Rows
  BY DEF Rows
<1> QED BY <1>1, <1>2 DEF Begins, Completions

LEMMA EarlierSplits ==
  ASSUME N \in Nat \ {0}, NEW x \in Generators, NEW t \in Rows
  PROVE  /\ Below(x, t) \subseteq Free(x, t)
         /\ Below(x, t) = {v \in Free(x, t) : v < x[t]}
         /\ Earlier(x, t) = Going(x, t, Below(x, t)) \cup Earlier(x, t + 1)
         /\ Going(x, t, Below(x, t)) \cap Earlier(x, t + 1) = {}
<1>1. x \in [Rows -> Rows] /\ x[t] \in Rows
  BY GeneratorsBegin
<1>2. Below(x, t) = {v \in Free(x, t) : v < x[t]}
  <2>1. \A v : v \in 0..(x[t] - 1) <=> v \in Rows /\ v < x[t]
    <3>1. PICK c \in 0..(N - 1) : c = x[t]
      BY <1>1 DEF Rows
    <3>2. \A v : v \in 0..(c - 1) <=> v \in 0..(N - 1) /\ v < c
      OBVIOUS
    <3> QED BY <3>1, <3>2 DEF Rows
  <2> QED BY <2>1 DEF Below, Free
<1>3. t \in Nat /\ 0..((t + 1) - 1) = 0..(t - 1) \cup {t} /\ t \notin 0..(t - 1) /\ 0..(t - 1) \subseteq Rows
  BY DEF Rows
<1>4. ASSUME NEW y \in Generators, \A u \in 0..(t - 1) : y[u] = x[u]
      PROVE  /\ y[t] \in Below(x, t) <=> y[t] < x[t]
             /\ y[t] \in Below(x, t) => Before(y, x)
             /\ Before(y, x) => y[t] < x[t] \/ y[t] = x[t]
  <2>1. y \in [Rows -> Rows] /\ y[t] \in Rows /\ \A i, j \in Rows : y[i] = y[j] => i = j
    BY GeneratorsBegin
  <2>2. y[t] \in Free(x, t)
    <3>1. \A u \in 0..(t - 1) : u \in Rows /\ u # t
      BY <1>3
    <3> QED BY <1>4, <2>1, <3>1 DEF Free
  <2>3. y[t] \in Below(x, t) <=> y[t] < x[t]
    BY <1>2, <2>2
  <2>4. y[t] < x[t] => Before(y, x)
    BY <1>4 DEF Before
  <2>5. ASSUME Before(y, x) PROVE y[t] < x[t] \/ y[t] = x[t]
    <3>1. PICK s \in Rows : y[s] < x[s] /\ \A u \in 0..(s - 1) : y[u] = x[u]
      BY <2>5 DEF Before
    <3>2. s \in Nat /\ x[s] \in Nat
      BY <1>1 DEF Rows
    <3>3. ~(s \in 0..(t - 1))
      BY <1>4, <3>1, <3>2
    <3>4. s = t \/ t \in 0..(s - 1)
      BY <1>3, <3>2, <3>3
    <3> QED BY <3>1, <3>4
  <2> QED BY <2>3, <2>4, <2>5
<1>5. Earlier(x, t) = Going(x, t, Below(x, t)) \cup Earlier(x, t + 1)
  <2>1. ASSUME NEW y \in Earlier(x, t)
        PROVE  y \in Going(x, t, Below(x, t)) \/ y \in Earlier(x, t + 1)
    <3>1. y \in Generators /\ (\A u \in 0..(t - 1) : y[u] = x[u]) /\ Before(y, x)
      BY <2>1 DEF Earlier, Completions
    <3>2. CASE y[t] < x[t]
      BY <1>4, <3>1, <3>2 DEF Going, Completions
    <3>3. CASE y[t] = x[t]
      BY <1>3, <3>1, <3>3 DEF Earlier, Completions
    <3> QED BY <1>4, <3>1, <3>2, <3>3
  <2>2. ASSUME NEW y \in Going(x, t, Below(x, t))
        PROVE  y \in Earlier(x, t)
    <3>1. y \in Generators /\ (\A u \in 0..(t - 1) : y[u] = x[u]) /\ y[t] \in Below(x, t)
      BY <2>2 DEF Going, Completions
    <3> QED BY <1>4, <3>1 DEF Earlier, Completions
  <2>3. Earlier(x, t + 1) \subseteq Earlier(x, t)
    BY <1>3 DEF Earlier, Completions
  <2> QED BY <2>1, <2>2, <2>3
<1>6. Going(x, t, Below(x, t)) \cap Earlier(x, t + 1) = {}
  <2>1. \A y \in Earlier(x, t + 1) : y[t] = x[t]
    BY <1>3 DEF Earlier, Completions
  <2>2. \A y \in Going(x, t, Below(x, t)) : y[t] < x[t]
    BY <1>2 DEF Going
  <2>3. ~(x[t] < x[t])
    BY <1>1 DEF Rows
  <2> QED BY <2>1, <2>2, <2>3
<1> QED BY <1>2, <1>5, <1>6

(* Fewer than all of those that begin so, as x is one and not before x.    *)
LEMMA EarlierFewer ==
  ASSUME N \in Nat \ {0}, NEW x \in Generators, NEW t \in 0..N
  PROVE  /\ IsFiniteSet(Earlier(x, t)) /\ Cardinality(Earlier(x, t)) \in Nat
         /\ Cardinality(Earlier(x, t)) < Factorial[N - t]
<1>1. IsFiniteSet(Completions(x, t)) /\ Cardinality(Completions(x, t)) = Factorial[N - t]
  BY CompletionsCounted, GeneratorsBegin DEF Counted
<1>2. x \in Completions(x, t) /\ x \notin Earlier(x, t)
  <2>1. ~Before(x, x)
    <3>1. \A s \in Rows : x[s] \in Nat
      BY GeneratorsBegin DEF Rows
    <3> QED BY <3>1 DEF Before
  <2> QED BY <2>1, GeneratorsBegin DEF Earlier
<1>3. Earlier(x, t) \subseteq Completions(x, t)
  BY DEF Earlier
<1>4. IsFiniteSet(Earlier(x, t)) /\ Cardinality(Earlier(x, t)) <= Cardinality(Completions(x, t))
      /\ (Cardinality(Completions(x, t)) = Cardinality(Earlier(x, t)) => Completions(x, t) = Earlier(x, t))
  BY <1>1, <1>3, FS_Subset
<1>5. Cardinality(Earlier(x, t)) \in Nat /\ Cardinality(Completions(x, t)) \in Nat
  BY <1>1, <1>4, FS_CardinalityType
<1> QED BY <1>1, <1>2, <1>4, <1>5

LEMMA EarlierCounted ==
  ASSUME N \in Nat \ {0}, NEW x \in Generators
  PROVE  /\ Cardinality(Earlier(x, N)) = 0
         /\ \A t \in Rows : /\ SmallerUnused(x, t) \in Nat
                            /\ Cardinality(Earlier(x, t)) =
                                 SmallerUnused(x, t) * Factorial[N - 1 - t] + Cardinality(Earlier(x, t + 1))
<1>1. Cardinality(Earlier(x, N)) = 0
  <2>1. N \in 0..N /\ N - N = 0
    OBVIOUS
  <2>2. Cardinality(Earlier(x, N)) \in Nat /\ Cardinality(Earlier(x, N)) < Factorial[N - N]
    BY <2>1, EarlierFewer
  <2> QED BY <2>1, <2>2, FactorialIs
<1>2. ASSUME NEW t \in Rows
      PROVE  /\ SmallerUnused(x, t) \in Nat
             /\ Cardinality(Earlier(x, t)) =
                  SmallerUnused(x, t) * Factorial[N - 1 - t] + Cardinality(Earlier(x, t + 1))
  <2> DEFINE A == Going(x, t, Below(x, t))
             B == Earlier(x, t + 1)
  <2>1. t \in 0..N /\ t + 1 \in 0..N /\ N - (t + 1) = N - 1 - t /\ N - 1 - t \in Nat
    BY DEF Rows
  <2>2. Below(x, t) \subseteq Free(x, t) /\ Earlier(x, t) = A \cup B /\ A \cap B = {}
    BY EarlierSplits
  <2>3. SmallerUnused(x, t) = Cardinality(Below(x, t))
    BY DEF SmallerUnused, Below
  <2>4. IsFiniteSet(Below(x, t)) /\ Cardinality(Below(x, t)) \in Nat
    <3>1. IsFiniteSet(Free(x, t))
      BY <2>1, GeneratorsBegin, FreeColumns
    <3> QED BY <2>2, <3>1, FS_Subset, FS_CardinalityType
  <2>5. IsFiniteSet(A) /\ Cardinality(A) = Cardinality(Below(x, t)) * Factorial[N - (t + 1)]
    <3>1. Begins(x, t) /\ Counted(t + 1)
      BY <2>1, GeneratorsBegin, CompletionsCounted
    <3> QED BY <2>2, <3>1, GoingOn
  <2>6. IsFiniteSet(B) /\ Cardinality(B) \in Nat
    BY <2>1, EarlierFewer
  <2> HIDE DEF A, B
  <2>7. Cardinality(A \cup B) = Cardinality(A) + Cardinality(B) - Cardinality(A \cap B)
    BY <2>5, <2>6, FS_Union
  <2>8. Factorial[N - 1 - t] \in Nat
    BY <2>1, FactorialIs
  <2>9. Cardinality(A) \in Nat
    BY <2>5, FS_CardinalityType
  <2>10. Cardinality(Earlier(x, t)) = Cardinality(A) + Cardinality(B)
    <3>1. Cardinality(A \cap B) = 0
      BY <2>2, FS_EmptySet
    <3>2. Cardinality(A \cup B) = Cardinality(A) + Cardinality(B)
      BY <2>6, <2>7, <2>9, <3>1
    <3> QED BY <2>2, <3>2
  <2>11. Cardinality(A) = SmallerUnused(x, t) * Factorial[N - 1 - t]
    BY <2>1, <2>3, <2>5
  <2> QED BY <2>3, <2>4, <2>10, <2>11 DEF B
<1> QED BY <1>1, <1>2

(* The rank the code computes is the number of generators before x.        *)
SumsUp(f, x) ==
  f = [t \in 0..N |-> IF t = N THEN 0 ELSE SmallerUnused(x, t) * Factorial[N - 1 - t] + f[t + 1]]
LEMMA RankCounts ==
  ASSUME N \in Nat \ {0}, NEW x \in Generators
  PROVE  RankOf(x) = Cardinality({y \in Generators : Before(y, x)})
<1> DEFINE w == [t \in 0..N |-> Cardinality(Earlier(x, t))]
           f == CHOOSE it : SumsUp(it, x)
           S == {d \in Nat : d <= N => f[N - d] = Cardinality(Earlier(x, N - d))}
<1>1. SumsUp(w, x)
  <2>1. \A t \in 0..N : w[t] = IF t = N THEN 0 ELSE SmallerUnused(x, t) * Factorial[N - 1 - t] + w[t + 1]
    <3> SUFFICES ASSUME NEW t \in 0..N
                 PROVE  w[t] = IF t = N THEN 0 ELSE SmallerUnused(x, t) * Factorial[N - 1 - t] + w[t + 1]
      OBVIOUS
    <3>1. CASE t = N
      BY <3>1, EarlierCounted
    <3>2. CASE t # N
      <4>1. t \in Rows /\ t + 1 \in 0..N
        BY <3>2 DEF Rows
      <4>2. w[t + 1] = Cardinality(Earlier(x, t + 1))
        BY <4>1
      <4> QED BY <3>2, <4>1, <4>2, EarlierCounted
    <3> QED BY <3>1, <3>2
  <2>2. w = [t \in 0..N |-> w[t]]
    OBVIOUS
  <2> HIDE DEF w
  <2> QED BY <2>1, <2>2 DEF SumsUp
<1>2. SumsUp(f, x)
  <2> HIDE DEF w
  <2> QED BY <1>1
<1>3. RankOf(x) = f[0]
  BY DEF RankOf, SumsUp
<1> HIDE DEF f, w
<1>4. \A t \in 0..N : f[t] = IF t = N THEN 0 ELSE SmallerUnused(x, t) * Factorial[N - 1 - t] + f[t + 1]
  BY <1>2 DEF SumsUp
<1>5. 0 \in S
  <2>1. N - 0 = N /\ N \in 0..N
    OBVIOUS
  <2>2. f[N - 0] = 0
    BY <1>4, <2>1
  <2>3. Cardinality(Earlier(x, N - 0)) = 0
    BY <2>1, EarlierCounted
  <2> QED BY <2>2, <2>3
<1>6. ASSUME NEW d \in S PROVE d + 1 \in S
  <2> SUFFICES ASSUME d + 1 <= N PROVE f[N - (d + 1)] = Cardinality(Earlier(x, N - (d + 1)))
    OBVIOUS
  <2> DEFINE t == N - (d + 1)
  <2>1. d \in Nat /\ d <= N /\ t \in Rows /\ t \in 0..N /\ t # N /\ t + 1 = N - d
    BY DEF Rows
  <2>2. f[t + 1] = Cardinality(Earlier(x, t + 1))
    BY <2>1
  <2> HIDE DEF S, t
  <2>3. f[t] = SmallerUnused(x, t) * Factorial[N - 1 - t] + f[t + 1]
    BY <1>4, <2>1
  <2>4. f[t] = Cardinality(Earlier(x, t))
    BY <2>1, <2>2, <2>3, EarlierCounted
  <2> QED BY <2>4 DEF t
<1>7. S = Nat
  <2>1. S \subseteq Nat
    OBVIOUS
  <2> HIDE DEF S
  <2> QED BY <1>5, <1>6, <2>1, Sums!Counting
<1>8. f[N - N] = Cardinality(Earlier(x, N - N))
  <2>1. N \in S
    BY <1>7
  <2> QED BY <2>1
<1>9. N - N = 0 /\ 0..(0 - 1) = {}
  OBVIOUS
<1>10. Earlier(x, 0) = {y \in Generators : Before(y, x)}
  BY <1>9 DEF Earlier, Completions
<1> QED BY <1>3, <1>8, <1>9, <1>10

-----------------------------------------------------------------------------
(* Unranking undoes ranking.                                               *)
LEMMA Digits ==
  ASSUME NEW s \in Nat, NEW f \in Nat \ {0}, NEW e \in Nat, e < f
  PROVE  (s * f + e) \div f = s /\ (s * f + e) % f = e
OBVIOUS

LEMMA NthIs ==
  ASSUME NEW S \in SUBSET Nat, IsFiniteSet(S), NEW v \in S
  PROVE  Nth(S, Cardinality({u \in S : u < v})) = v
<1> DEFINE under(w) == {u \in S : u < w}
           place == Cardinality(under(v))
           w == Nth(S, place)
<1>1. ASSUME NEW a \in S, NEW b \in S, a < b
      PROVE  Cardinality(under(a)) < Cardinality(under(b))
  <2>1. under(a) \subseteq under(b) /\ a \in under(b) /\ a \notin under(a) /\ under(b) \subseteq S
    <3>1. a \in Nat /\ b \in Nat /\ ~(a < a) /\ \A u \in S : u < a => u < b
      <4>1. \A u \in Nat : u < a => u < b
        BY <1>1
      <4> QED BY <4>1
    <3> HIDE DEF w, place
    <3> QED BY <1>1, <3>1
  <2> HIDE DEF under
  <2>2. IsFiniteSet(under(b))
    BY <2>1, FS_Subset
  <2>3. /\ IsFiniteSet(under(a)) /\ Cardinality(under(a)) <= Cardinality(under(b))
        /\ (Cardinality(under(b)) = Cardinality(under(a)) => under(b) = under(a))
    BY <2>1, <2>2, FS_Subset
  <2>4. Cardinality(under(a)) \in Nat /\ Cardinality(under(b)) \in Nat
    BY <2>2, <2>3, FS_CardinalityType
  <2> QED BY <2>1, <2>3, <2>4
<1>2. w \in S /\ Cardinality(under(w)) = place
  <2>1. \E a \in S : Cardinality(under(a)) = place
    OBVIOUS
  <2>2. w = CHOOSE a \in S : Cardinality(under(a)) = place
    BY DEF Nth
  <2> HIDE DEF under, w, place
  <2> QED BY <2>1, <2>2
<1>3. \A a \in S : Cardinality(under(a)) \in Nat
  <2> SUFFICES ASSUME NEW a \in S PROVE Cardinality(under(a)) \in Nat
    OBVIOUS
  <2>1. under(a) \subseteq S
    OBVIOUS
  <2> HIDE DEF under
  <2> QED BY <2>1, FS_Subset, FS_CardinalityType
<1> HIDE DEF w, under
<1>4. w = v
  <2>1. v \in Nat /\ w \in Nat
    BY <1>2
  <2>2. ~(w < v) /\ ~(v < w)
    BY <1>1, <1>2, <1>3
  <2> QED BY <2>1, <2>2
<1> QED BY <1>4 DEF w, under

(* One column is chosen: what is left of the index, of the columns, and    *)
(* the columns so far.                                                     *)
Chosen(left, t) ==
  LET choice == Nth(left.available, left.index \div Factorial[N - t])
  IN [index |-> left.index % Factorial[N - t], available |-> left.available \ {choice},
      perm |-> [u \in 0..(t - 1) |-> IF u = t - 1 THEN choice ELSE left.perm[u]]]
Start(k) == [index |-> k, available |-> Rows, perm |-> <<>>]
Chooses(f, k) == f = [t \in 0..N |-> IF t = 0 THEN Start(k) ELSE Chosen(f[t - 1], t)]
Begun(x, t) ==
  [index |-> Cardinality(Earlier(x, t)), available |-> Free(x, t),
   perm |-> IF t = 0 THEN <<>> ELSE [u \in 0..(t - 1) |-> x[u]]]

LEMMA ChoosesNext ==
  ASSUME N \in Nat \ {0}, NEW x \in Generators, NEW t \in Rows
  PROVE  Chosen(Begun(x, t), t + 1) = Begun(x, t + 1)
<1> DEFINE left == Begun(x, t)
           s == SmallerUnused(x, t)
           f == Factorial[N - (t + 1)]
           e == Cardinality(Earlier(x, t + 1))
           choice == Nth(left.available, left.index \div f)
<1>1. t \in 0..N /\ t + 1 \in 0..N /\ N - (t + 1) = N - 1 - t /\ N - (t + 1) \in Nat /\ t \in Nat
      /\ (t + 1) - 1 = t /\ t + 1 # 0
  BY DEF Rows
<1>2. left.index = Cardinality(Earlier(x, t)) /\ left.available = Free(x, t)
      /\ left.perm = IF t = 0 THEN <<>> ELSE [u \in 0..(t - 1) |-> x[u]]
  BY DEF Begun
<1>3. s \in Nat /\ f \in Nat \ {0} /\ e \in Nat /\ e < f
  BY <1>1, EarlierCounted, EarlierFewer, FactorialIs
<1>4. left.index = s * f + e
  BY <1>1, <1>2, EarlierCounted
<1>5. left.index \div f = s /\ left.index % f = e
  <2> HIDE DEF left, s, f, e
  <2>1. (s * f + e) \div f = s /\ (s * f + e) % f = e
    BY <1>3, Digits
  <2> QED BY <1>4, <2>1
<1>6. x[t] \in Free(x, t)
  <2>1. x \in [Rows -> Rows] /\ \A i, j \in Rows : x[i] = x[j] => i = j
    BY GeneratorsBegin
  <2>2. \A u \in 0..(t - 1) : u \in Rows /\ u # t
    BY <1>1 DEF Rows
  <2> QED BY <2>1, <2>2 DEF Free
<1>7. choice = x[t]
  <2>1. s = Cardinality({v \in Free(x, t) : v < x[t]})
    <3>1. s = Cardinality(Below(x, t))
      BY DEF SmallerUnused, Below
    <3> QED BY <3>1, EarlierSplits
  <2>2. Free(x, t) \subseteq Nat /\ IsFiniteSet(Free(x, t))
    <3>1. Free(x, t) \subseteq Nat
      BY DEF Free, Rows
    <3> QED BY <1>1, <3>1, GeneratorsBegin, FreeColumns
  <2>3. Nth(Free(x, t), s) = x[t]
    <3> DEFINE S == Free(x, t)
    <3>1. S \subseteq Nat /\ IsFiniteSet(S) /\ x[t] \in S /\ s = Cardinality({v \in S : v < x[t]})
      BY <1>6, <2>1, <2>2
    <3> HIDE DEF S, s
    <3>2. Nth(S, s) = x[t]
      BY <3>1, NthIs
    <3> QED BY <3>2 DEF S
  <2> QED BY <1>2, <1>5, <2>3
<1>8. Free(x, t) \ {x[t]} = Free(x, t + 1)
  <2>1. 0..((t + 1) - 1) = 0..(t - 1) \cup {t}
    BY <1>1
  <2> QED BY <2>1 DEF Free
<1>9. [u \in 0..((t + 1) - 1) |-> IF u = (t + 1) - 1 THEN x[t] ELSE left.perm[u]]
        = [u \in 0..((t + 1) - 1) |-> x[u]]
  <2>1. \A u \in 0..((t + 1) - 1) : u # (t + 1) - 1 => left.perm[u] = x[u]
    BY <1>1, <1>2
  <2> HIDE DEF left
  <2> QED BY <1>1, <2>1
<1>10. Chosen(left, t + 1) =
         [index |-> left.index % f, available |-> left.available \ {choice},
          perm |-> [u \in 0..((t + 1) - 1) |-> IF u = (t + 1) - 1 THEN choice ELSE left.perm[u]]]
  BY DEF Chosen
<1>11. Begun(x, t + 1) = [index |-> e, available |-> Free(x, t + 1),
                          perm |-> [u \in 0..((t + 1) - 1) |-> x[u]]]
  BY <1>1 DEF Begun
<1> HIDE DEF left, s, f, e, choice
<1> QED BY <1>2, <1>5, <1>7, <1>8, <1>9, <1>10, <1>11 DEF left

(* Unrank and RankOf are inverse: the scheduled path names generators as   *)
(* the reference does.                                                     *)
LEMMA UnrankUndoesRank ==
  ASSUME N \in Nat \ {0}, NEW x \in Generators
  PROVE  Unrank(RankOf(x)) = x
<1> DEFINE k == RankOf(x)
           w == [t \in 0..N |-> Begun(x, t)]
           f == CHOOSE it : Chooses(it, k)
           S == {t \in Nat : t <= N => f[t] = Begun(x, t)}
<1>1. Start(k) = Begun(x, 0)
  <2>1. 0..(0 - 1) = {}
    OBVIOUS
  <2>2. Earlier(x, 0) = {y \in Generators : Before(y, x)}
    BY <2>1 DEF Earlier, Completions
  <2>3. Free(x, 0) = Rows
    BY <2>1 DEF Free
  <2>4. k = Cardinality(Earlier(x, 0))
    BY <2>2, RankCounts
  <2> HIDE DEF k
  <2> QED BY <2>3, <2>4 DEF Start, Begun
<1>2. Chooses(w, k)
  <2>1. \A t \in 0..N : w[t] = IF t = 0 THEN Start(k) ELSE Chosen(w[t - 1], t)
    <3> SUFFICES ASSUME NEW t \in 0..N, t # 0
                 PROVE  w[t] = Chosen(w[t - 1], t)
      BY <1>1
    <3>1. t - 1 \in Rows /\ t - 1 \in 0..N /\ (t - 1) + 1 = t
      BY DEF Rows
    <3>2. Chosen(Begun(x, t - 1), (t - 1) + 1) = Begun(x, (t - 1) + 1)
      BY <3>1, ChoosesNext
    <3> QED BY <3>1, <3>2
  <2>2. w = [t \in 0..N |-> w[t]]
    OBVIOUS
  <2> HIDE DEF w, k
  <2> QED BY <2>1, <2>2 DEF Chooses
<1>3. Chooses(f, k)
  <2> HIDE DEF w, k
  <2> QED BY <1>2
<1>4. Unrank(k) = f[N].perm
  <2> HIDE DEF k
  <2> QED BY DEF Unrank, Chooses, Start, Chosen
<1> HIDE DEF f, w, k
<1>5. \A t \in 0..N : f[t] = IF t = 0 THEN Start(k) ELSE Chosen(f[t - 1], t)
  BY <1>3 DEF Chooses
<1>6. 0 \in S
  BY <1>1, <1>5
<1>7. ASSUME NEW t \in S PROVE t + 1 \in S
  <2> SUFFICES ASSUME t + 1 <= N PROVE f[t + 1] = Begun(x, t + 1)
    OBVIOUS
  <2>1. t \in Nat /\ t <= N /\ t \in Rows /\ t + 1 \in 0..N /\ t + 1 # 0 /\ (t + 1) - 1 = t
    BY DEF Rows
  <2>2. f[t] = Begun(x, t)
    BY <2>1
  <2> HIDE DEF S
  <2>3. f[t + 1] = Chosen(f[t], t + 1)
    BY <1>5, <2>1
  <2> QED BY <2>1, <2>2, <2>3, ChoosesNext
<1>8. S = Nat
  <2>1. S \subseteq Nat
    OBVIOUS
  <2> HIDE DEF S
  <2> QED BY <1>6, <1>7, <2>1, Sums!Counting
<1>9. f[N] = Begun(x, N)
  <2>1. N \in S
    BY <1>8
  <2> QED BY <2>1
<1>10. Begun(x, N).perm = [u \in 0..(N - 1) |-> x[u]]
  BY DEF Begun
<1>11. [u \in 0..(N - 1) |-> x[u]] = x
  BY GeneratorsBegin DEF Rows
<1> QED BY <1>4, <1>9, <1>10, <1>11 DEF k

(* There are n! generators, and their ranks are below n!.                  *)
LEMMA GeneratorsFinite ==
  ASSUME N \in Nat \ {0}
  PROVE  IsFiniteSet(Generators) /\ Cardinality(Generators) = Total
<1> DEFINE p == [i \in Rows |-> i]
<1>1. Begins(p, 0) /\ 0 \in 0..N /\ N - 0 = N /\ 0..(0 - 1) = {}
  BY DEF Begins
<1>2. Completions(p, 0) = Generators
  BY <1>1 DEF Completions
<1> HIDE DEF p
<1> QED BY <1>1, <1>2, CompletionsCounted DEF Counted, Total

LEMMA RankIsBelow ==
  ASSUME N \in Nat \ {0}, NEW x \in Generators
  PROVE  RankOf(x) \in 0..(Total - 1)
<1>1. 0 \in 0..N /\ N - 0 = N /\ 0..(0 - 1) = {}
  OBVIOUS
<1>2. RankOf(x) = Cardinality(Earlier(x, 0))
  BY <1>1, RankCounts DEF Earlier, Completions
<1>3. Cardinality(Earlier(x, 0)) \in Nat /\ Cardinality(Earlier(x, 0)) < Factorial[N - 0]
  BY <1>1, EarlierFewer
<1>4. Total \in Nat \ {0}
  BY FactorialIs DEF Total
<1> QED BY <1>1, <1>2, <1>3, <1>4 DEF Total

(* Every rank below n! names a generator, and is its rank: the slices run  *)
(* over the generators, each once and in lexicographic order.              *)
THEOREM RanksNameTheGenerators ==
  ASSUME N \in Nat \ {0}, NEW k \in 0..(Total - 1)
  PROVE  Unrank(k) \in Generators /\ RankOf(Unrank(k)) = k
<1> DEFINE R == [x \in Generators |-> RankOf(x)]
           T == 0..(Total - 1)
<1>1. Total \in Nat \ {0} /\ IsFiniteSet(T) /\ Cardinality(T) = Total
  <2>1. Total \in Nat \ {0}
    BY FactorialIs DEF Total
  <2> QED BY <2>1, FS_Interval
<1>2. IsFiniteSet(Generators) /\ Cardinality(Generators) = Total
  BY GeneratorsFinite
<1>3. \A x \in Generators : RankOf(x) \in T /\ Unrank(RankOf(x)) = x
  BY RankIsBelow, UnrankUndoesRank
<1>4. R \in [Generators -> T] /\ \A x, y \in Generators : R[x] = R[y] => x = y
  BY <1>3
<1>5. \A x \in Generators : R[x] = RankOf(x)
  OBVIOUS
<1> HIDE DEF R, T
<1>6. R \in Surjection(Generators, T)
  <2>1. R \in Injection(Generators, T)
    BY <1>4 DEF Injection, IsInjective
  <2> QED BY <1>1, <1>2, <2>1, FS_Injection
<1>7. PICK x \in Generators : R[x] = k
  BY <1>6 DEF Surjection, T
<1> QED BY <1>3, <1>5, <1>7

-----------------------------------------------------------------------------
(* Sw counts pairs; splitting a set of points splits the count.            *)
Beyond(p, C) == {m \in C : p[1] < m[1] /\ p[2] < m[2]}
Behind(p, C) == {m \in C : m[1] < p[1] /\ m[2] < p[2]}
SwPairs(A, B) == {pq \in A \X B : pq[1][1] < pq[2][1] /\ pq[1][2] < pq[2][2]}

(* A count is a number.                                                    *)
LEMMA SwIsNatural ==
  ASSUME NEW A, NEW B, IsFiniteSet(A), IsFiniteSet(B)
  PROVE  Sw(A, B) \in Nat /\ Sw(A, B) = Cardinality(SwPairs(A, B)) /\ IsFiniteSet(SwPairs(A, B))
<1>1. IsFiniteSet(A \X B)
  BY FS_Product
<1>2. SwPairs(A, B) \subseteq A \X B
  BY DEF SwPairs
<1>3. IsFiniteSet(SwPairs(A, B))
  BY <1>1, <1>2, FS_Subset
<1> QED
  BY <1>3, FS_CardinalityType DEF Sw, SwPairs

(* The size of a union of two disjoint sets.                               *)
LEMMA DisjointUnion ==
  ASSUME NEW S, NEW T, IsFiniteSet(S), IsFiniteSet(T), S \cap T = {}
  PROVE  IsFiniteSet(S \cup T) /\ Cardinality(S \cup T) = Cardinality(S) + Cardinality(T)
<1>1. Cardinality(S) \in Nat /\ Cardinality(T) \in Nat
  BY FS_CardinalityType
<1>2. IsFiniteSet(S \cup T) /\ Cardinality(S \cup T) = Cardinality(S) + Cardinality(T) - Cardinality(S \cap T)
  BY FS_Union
<1> QED
  BY <1>1, <1>2, FS_EmptySet

(* Pairs are counted part by part.                                         *)
LEMMA SwSplits ==
  ASSUME NEW A, NEW B, NEW C, IsFiniteSet(A), IsFiniteSet(B), IsFiniteSet(C), A \cap B = {}
  PROVE  /\ Sw(A \cup B, C) = Sw(A, C) + Sw(B, C)
         /\ Sw(C, A \cup B) = Sw(C, A) + Sw(C, B)
<1>1. /\ SwPairs(A \cup B, C) = SwPairs(A, C) \cup SwPairs(B, C)
      /\ SwPairs(A, C) \cap SwPairs(B, C) = {}
      /\ SwPairs(C, A \cup B) = SwPairs(C, A) \cup SwPairs(C, B)
      /\ SwPairs(C, A) \cap SwPairs(C, B) = {}
  BY DEF SwPairs
<1>2. IsFiniteSet(A \cup B)
  BY FS_Union
<1>3. /\ Sw(A, C) \in Nat /\ Sw(A, C) = Cardinality(SwPairs(A, C)) /\ IsFiniteSet(SwPairs(A, C))
      /\ Sw(B, C) \in Nat /\ Sw(B, C) = Cardinality(SwPairs(B, C)) /\ IsFiniteSet(SwPairs(B, C))
      /\ Sw(C, A) \in Nat /\ Sw(C, A) = Cardinality(SwPairs(C, A)) /\ IsFiniteSet(SwPairs(C, A))
      /\ Sw(C, B) \in Nat /\ Sw(C, B) = Cardinality(SwPairs(C, B)) /\ IsFiniteSet(SwPairs(C, B))
  BY SwIsNatural
<1>4. /\ Sw(A \cup B, C) = Cardinality(SwPairs(A \cup B, C))
      /\ Sw(C, A \cup B) = Cardinality(SwPairs(C, A \cup B))
  BY <1>2, SwIsNatural
<1>5. Cardinality(SwPairs(A, C) \cup SwPairs(B, C)) = Cardinality(SwPairs(A, C)) + Cardinality(SwPairs(B, C))
  BY <1>1, <1>3, DisjointUnion
<1>6. Cardinality(SwPairs(C, A) \cup SwPairs(C, B)) = Cardinality(SwPairs(C, A)) + Cardinality(SwPairs(C, B))
  BY <1>1, <1>3, DisjointUnion
<1> QED
  BY <1>1, <1>3, <1>4, <1>5, <1>6

(* What is matched one to one has the same size.                           *)
LEMMA Matched ==
  ASSUME NEW S, NEW T, IsFiniteSet(S), NEW f \in [S -> T],
         \A a, b \in S : f[a] = f[b] => a = b,
         \A c \in T : \E a \in S : f[a] = c
  PROVE  IsFiniteSet(T) /\ Cardinality(T) = Cardinality(S) /\ Cardinality(S) \in Nat
<1>1. f \in Bijection(S, T)
  BY DEF Bijection, Injection, Surjection, IsInjective
<1>2. ExistsBijection(S, T)
  BY <1>1 DEF ExistsBijection
<1> QED
  BY <1>2, FS_Bijection, FS_CardinalityType

(* What one more point, taken away before, adds to the count.              *)
LEMMA SwOne ==
  ASSUME NEW p, NEW C, IsFiniteSet(C)
  PROVE  /\ Sw({p}, C) = Cardinality(Beyond(p, C))
         /\ Sw(C, {p}) = Cardinality(Behind(p, C))
         /\ IsFiniteSet(Beyond(p, C)) /\ IsFiniteSet(Behind(p, C))
         /\ Cardinality(Beyond(p, C)) \in Nat /\ Cardinality(Behind(p, C)) \in Nat
<1> DEFINE f == [m \in Beyond(p, C) |-> <<p, m>>]
           g == [m \in Behind(p, C) |-> <<m, p>>]
<1>1. IsFiniteSet(Beyond(p, C)) /\ IsFiniteSet(Behind(p, C))
  <2>1. Beyond(p, C) \subseteq C /\ Behind(p, C) \subseteq C
    BY DEF Beyond, Behind
  <2> QED
    BY <2>1, FS_Subset
<1>2. /\ f \in [Beyond(p, C) -> SwPairs({p}, C)]
      /\ \A m, k \in Beyond(p, C) : f[m] = f[k] => m = k
      /\ \A q \in SwPairs({p}, C) : \E m \in Beyond(p, C) : f[m] = q
  <2>1. f \in [Beyond(p, C) -> SwPairs({p}, C)]
    BY DEF Beyond, SwPairs
  <2>2. \A m, k \in Beyond(p, C) : f[m] = f[k] => m = k
    OBVIOUS
  <2>3. \A q \in SwPairs({p}, C) : \E m \in Beyond(p, C) : f[m] = q
    BY DEF Beyond, SwPairs
  <2> QED
    BY <2>1, <2>2, <2>3
<1>3. /\ g \in [Behind(p, C) -> SwPairs(C, {p})]
      /\ \A m, k \in Behind(p, C) : g[m] = g[k] => m = k
      /\ \A q \in SwPairs(C, {p}) : \E m \in Behind(p, C) : g[m] = q
  <2>1. g \in [Behind(p, C) -> SwPairs(C, {p})]
    BY DEF Behind, SwPairs
  <2>2. \A m, k \in Behind(p, C) : g[m] = g[k] => m = k
    OBVIOUS
  <2>3. \A q \in SwPairs(C, {p}) : \E m \in Behind(p, C) : g[m] = q
    BY DEF Behind, SwPairs
  <2> QED
    BY <2>1, <2>2, <2>3
<1> HIDE DEF f, g
<1>4. Cardinality(SwPairs({p}, C)) = Cardinality(Beyond(p, C)) /\ Cardinality(Beyond(p, C)) \in Nat
  BY <1>1, <1>2, Matched
<1>5. Cardinality(SwPairs(C, {p})) = Cardinality(Behind(p, C)) /\ Cardinality(Behind(p, C)) \in Nat
  BY <1>1, <1>3, Matched
<1> QED
  BY <1>1, <1>4, <1>5 DEF Sw, SwPairs

(* The corners of a box, added with alternating signs, count the box.      *)
AfterBox(C, l, r, s, t) == {m \in C : l < m[1] /\ m[1] <= r /\ s < m[2] /\ m[2] <= t}
FromBox(C, l, r, s, t) == {m \in C : l <= m[1] /\ m[1] < r /\ s <= m[2] /\ m[2] < t}

IsBox(box, a, b, c, d) == b \subseteq a /\ c \subseteq a /\ b \cap c = d /\ a \ (b \cup c) = box

(* Inclusion and exclusion of two parts of a set.                          *)
LEMMA FourCorners ==
  ASSUME NEW box, NEW a, NEW b, NEW c, NEW d, IsBox(box, a, b, c, d), IsFiniteSet(a)
  PROVE  /\ Cardinality(box) \in Nat
         /\ Cardinality(a) + Cardinality(d) - Cardinality(b) - Cardinality(c) = Cardinality(box)
<1> DEFINE bc == b \cup c
<1>1. IsFiniteSet(b) /\ IsFiniteSet(c) /\ IsFiniteSet(bc) /\ IsFiniteSet(box) /\ IsFiniteSet(d)
  <2>1. b \subseteq a /\ c \subseteq a /\ bc \subseteq a /\ d \subseteq a /\ box \subseteq a
    BY DEF IsBox
  <2> QED
    BY <2>1, FS_Subset
<1>2. Cardinality(bc) = Cardinality(b) + Cardinality(c) - Cardinality(d)
  <2>1. Cardinality(b \cup c) = Cardinality(b) + Cardinality(c) - Cardinality(b \cap c)
    BY <1>1, FS_Union
  <2> QED
    BY Zenon, <2>1 DEF IsBox
<1>3. a = bc \cup box /\ bc \cap box = {}
  BY DEF IsBox
<1> HIDE DEF bc
<1>4. Cardinality(a) = Cardinality(bc) + Cardinality(box)
  BY <1>1, <1>3, DisjointUnion
<1>5. Cardinality(a) \in Nat /\ Cardinality(b) \in Nat /\ Cardinality(c) \in Nat /\ Cardinality(d) \in Nat
      /\ Cardinality(box) \in Nat
  BY <1>1, FS_CardinalityType
<1> QED
  BY <1>2, <1>4, <1>5

(* A finite set of points of the lattice.                                  *)
ArePoints(C) == C \subseteq Int \X Int /\ IsFiniteSet(C)

(* Adding the counts of the corners of a box with alternating signs counts *)
(* the points in it.                                                       *)
LEMMA BoxByCorners ==
  ASSUME NEW C, ArePoints(C),
         NEW l \in Int, NEW r \in Int, NEW s \in Int, NEW t \in Int, l < r, s < t
  PROVE  /\ Cardinality(Beyond(<<l, s>>, C)) + Cardinality(Beyond(<<r, t>>, C))
              - Cardinality(Beyond(<<l, t>>, C)) - Cardinality(Beyond(<<r, s>>, C))
            = Cardinality(AfterBox(C, l, r, s, t))
         /\ Cardinality(Behind(<<r, t>>, C)) + Cardinality(Behind(<<l, s>>, C))
              - Cardinality(Behind(<<l, t>>, C)) - Cardinality(Behind(<<r, s>>, C))
            = Cardinality(FromBox(C, l, r, s, t))
         /\ Cardinality(AfterBox(C, l, r, s, t)) \in Nat
         /\ Cardinality(FromBox(C, l, r, s, t)) \in Nat
<1>0. /\ \A m \in C : m[1] \in Int /\ m[2] \in Int
      /\ IsFiniteSet(Beyond(<<l, s>>, C)) /\ IsFiniteSet(Behind(<<r, t>>, C))
  BY SwOne DEF ArePoints
<1> DEFINE b1 == Beyond(<<l, s>>, C)
           b2 == Beyond(<<l, t>>, C)
           b3 == Beyond(<<r, s>>, C)
           b4 == Beyond(<<r, t>>, C)
           d1 == Behind(<<r, t>>, C)
           d2 == Behind(<<l, t>>, C)
           d3 == Behind(<<r, s>>, C)
           d4 == Behind(<<l, s>>, C)
           after == AfterBox(C, l, r, s, t)
           from == FromBox(C, l, r, s, t)
<1>1. IsBox(after, b1, b2, b3, b4)
  BY <1>0 DEF Beyond, AfterBox, IsBox
<1>2. IsBox(from, d1, d2, d3, d4)
  BY <1>0 DEF Behind, FromBox, IsBox
<1>3. IsFiniteSet(b1) /\ IsFiniteSet(d1)
  BY <1>0
<1> HIDE DEF b1, b2, b3, b4, d1, d2, d3, d4, after, from
<1>4. Cardinality(after) \in Nat
      /\ Cardinality(b1) + Cardinality(b4) - Cardinality(b2) - Cardinality(b3) = Cardinality(after)
  BY <1>1, <1>3, FourCorners
<1>5. Cardinality(from) \in Nat
      /\ Cardinality(d1) + Cardinality(d4) - Cardinality(d2) - Cardinality(d3) = Cardinality(from)
  BY <1>2, <1>3, FourCorners
<1> QED
  BY <1>4, <1>5 DEF b1, b2, b3, b4, d1, d2, d3, d4, after, from

(* Two points more.                                                        *)
SwBit(p, q) == IF p[1] < q[1] /\ p[2] < q[2] THEN 1 ELSE 0

(* The count of one point against another.                                 *)
LEMMA SwOfTwo == ASSUME NEW p, NEW q PROVE Sw({p}, {q}) = SwBit(p, q)
<1>1. IsFiniteSet({q}) /\ Cardinality({q}) = 1 /\ Cardinality({}) = 0
  BY FS_Singleton, FS_EmptySet
<1>2. Sw({p}, {q}) = Cardinality(Beyond(p, {q}))
  BY <1>1, SwOne
<1>3. CASE p[1] < q[1] /\ p[2] < q[2]
  <2>1. Beyond(p, {q}) = {q}
    BY <1>3 DEF Beyond
  <2> QED
    BY <1>1, <1>2, <1>3, <2>1 DEF SwBit
<1>4. CASE ~(p[1] < q[1] /\ p[2] < q[2])
  <2>1. Beyond(p, {q}) = {}
    BY <1>4 DEF Beyond
  <2> QED
    BY <1>1, <1>2, <1>4, <2>1 DEF SwBit
<1> QED
  BY <1>3, <1>4

WithTwo(A, p, q) == A \cup {p, q}

(* What two points more add to the count of a set with itself.             *)
LEMMA SwWithTwo ==
  ASSUME NEW A, IsFiniteSet(A), NEW p, NEW q, p # q, p \notin A, q \notin A
  PROVE  /\ IsFiniteSet(WithTwo(A, p, q))
         /\ \A C : IsFiniteSet(C) =>
              /\ Sw(WithTwo(A, p, q), C) = Sw(A, C) + Cardinality(Beyond(p, C)) + Cardinality(Beyond(q, C))
              /\ Sw(C, WithTwo(A, p, q)) = Sw(C, A) + Cardinality(Behind(p, C)) + Cardinality(Behind(q, C))
         /\ Sw(WithTwo(A, p, q), WithTwo(A, p, q)) =
              Sw(A, A) + Cardinality(Beyond(p, A)) + Cardinality(Beyond(q, A))
                + Cardinality(Behind(p, A)) + Cardinality(Behind(q, A))
                + SwBit(p, p) + SwBit(p, q) + SwBit(q, p) + SwBit(q, q)
<1> DEFINE all == WithTwo(A, p, q)
<1>1. /\ IsFiniteSet({p}) /\ IsFiniteSet({q}) /\ IsFiniteSet({p, q}) /\ IsFiniteSet(all)
      /\ {p, q} = {p} \cup {q} /\ {p} \cap {q} = {} /\ A \cap {p, q} = {}
  <2>1. IsFiniteSet({p}) /\ IsFiniteSet({q}) /\ {p, q} = {p} \cup {q}
    BY FS_Singleton
  <2>2. IsFiniteSet({p} \cup {q})
    BY <2>1, FS_Union
  <2> QED
    BY <2>1, <2>2, FS_Union DEF WithTwo
<1>2. ASSUME NEW C, IsFiniteSet(C)
      PROVE  /\ Sw(all, C) = Sw(A, C) + (Sw({p}, C) + Sw({q}, C))
             /\ Sw(C, all) = Sw(C, A) + (Sw(C, {p}) + Sw(C, {q}))
  <2>1. Sw(all, C) = Sw(A, C) + Sw({p, q}, C) /\ Sw(C, all) = Sw(C, A) + Sw(C, {p, q})
    BY <1>1, <1>2, SwSplits DEF WithTwo
  <2>2. Sw({p} \cup {q}, C) = Sw({p}, C) + Sw({q}, C) /\ Sw(C, {p} \cup {q}) = Sw(C, {p}) + Sw(C, {q})
    BY <1>1, <1>2, SwSplits
  <2> QED
    BY <1>1, <2>1, <2>2
<1> HIDE DEF all
<1>3. ASSUME NEW C, IsFiniteSet(C)
      PROVE  /\ Sw(A, C) \in Nat /\ Sw(C, A) \in Nat
             /\ \A r : /\ Sw({r}, C) = Cardinality(Beyond(r, C)) /\ Sw(C, {r}) = Cardinality(Behind(r, C))
                      /\ Cardinality(Beyond(r, C)) \in Nat /\ Cardinality(Behind(r, C)) \in Nat
  BY <1>3, SwOne, SwIsNatural
<1>4. ASSUME NEW C, IsFiniteSet(C)
      PROVE  /\ Sw(all, C) = Sw(A, C) + Cardinality(Beyond(p, C)) + Cardinality(Beyond(q, C))
             /\ Sw(C, all) = Sw(C, A) + Cardinality(Behind(p, C)) + Cardinality(Behind(q, C))
  <2>1. /\ Sw(all, C) = Sw(A, C) + (Sw({p}, C) + Sw({q}, C))
        /\ Sw(C, all) = Sw(C, A) + (Sw(C, {p}) + Sw(C, {q}))
    BY <1>2, <1>4
  <2>2. /\ Sw(A, C) \in Nat /\ Sw(C, A) \in Nat
        /\ \A r : /\ Sw({r}, C) = Cardinality(Beyond(r, C)) /\ Sw(C, {r}) = Cardinality(Behind(r, C))
                 /\ Cardinality(Beyond(r, C)) \in Nat /\ Cardinality(Behind(r, C)) \in Nat
    BY <1>3, <1>4
  <2> QED
    BY <2>1, <2>2
<1>5. Sw(all, all) = Sw(A, all) + (Sw({p}, all) + Sw({q}, all))
  BY <1>1, <1>2
<1>6. /\ Sw(A, all) = Sw(A, A) + Cardinality(Behind(p, A)) + Cardinality(Behind(q, A))
      /\ Sw({p}, all) = Sw({p}, A) + (Sw({p}, {p}) + Sw({p}, {q}))
      /\ Sw({q}, all) = Sw({q}, A) + (Sw({q}, {p}) + Sw({q}, {q}))
  BY <1>1, <1>2, <1>4
<1>7. /\ Sw({p}, A) = Cardinality(Beyond(p, A)) /\ Sw({q}, A) = Cardinality(Beyond(q, A)) /\ Sw(A, A) \in Nat
      /\ Cardinality(Beyond(p, A)) \in Nat /\ Cardinality(Beyond(q, A)) \in Nat
      /\ Cardinality(Behind(p, A)) \in Nat /\ Cardinality(Behind(q, A)) \in Nat
  BY <1>3
<1>8. /\ Sw({p}, {p}) = SwBit(p, p) /\ Sw({p}, {q}) = SwBit(p, q)
      /\ Sw({q}, {p}) = SwBit(q, p) /\ Sw({q}, {q}) = SwBit(q, q)
      /\ SwBit(p, p) \in Nat /\ SwBit(p, q) \in Nat /\ SwBit(q, p) \in Nat /\ SwBit(q, q) \in Nat
  <2>1. \A r, s : SwBit(r, s) \in Nat
    BY DEF SwBit
  <2> QED
    BY <2>1, SwOfTwo
<1>9. Sw(all, all) =
        Sw(A, A) + Cardinality(Beyond(p, A)) + Cardinality(Beyond(q, A))
          + Cardinality(Behind(p, A)) + Cardinality(Behind(q, A))
          + SwBit(p, p) + SwBit(p, q) + SwBit(q, p) + SwBit(q, q)
  BY <1>5, <1>6, <1>7, <1>8
<1> QED
  BY <1>1, <1>4, <1>9 DEF all

-----------------------------------------------------------------------------
(* What a transposition does to a grading: it counts the points and the    *)
(* markers between the two points it moves.                                *)
Inside(x, a, b) == {k \in Rows : a < k /\ k < b /\ x[a] < x[k] /\ x[k] < x[b]}
Marked(x, m, a, b) == {k \in Rows : a <= k /\ k < b /\ x[a] <= m[k] /\ m[k] < x[b]}

(* Rows are the numbers below N, and generators permute them.              *)
LEMMA RowFacts ==
  ASSUME N \in Nat \ {0}
  PROVE  /\ IsFiniteSet(Rows) /\ Cardinality(Rows) = N
         /\ \A k \in Rows : k \in Int /\ 0 <= k /\ k < N
         /\ \A f \in [Rows -> Rows] : \A k \in Rows : f[k] \in Int /\ f[k] \in Rows
         /\ \A x \in Generators : x \in [Rows -> Rows] /\ \A i, j \in Rows : x[i] = x[j] => i = j
<1>1. IsFiniteSet(Rows) /\ Cardinality(Rows) = N
  BY FS_Interval DEF Rows
<1>2. \A k \in Rows : k \in Int /\ 0 <= k /\ k < N
  BY DEF Rows
<1>3. \A x \in Generators : x \in [Rows -> Rows] /\ \A i, j \in Rows : x[i] = x[j] => i = j
  BY DEF Generators
<1> QED
  BY <1>1, <1>2, <1>3

(* The points of a generator and the centres of its cells are finitely many.*)
LEMMA PointSets ==
  ASSUME N \in Nat \ {0}, NEW x \in [Rows -> Rows]
  PROVE  /\ IsFiniteSet(Points(x)) /\ IsFiniteSet(Centres(x))
         /\ Points(x) \subseteq Int \X Int /\ Centres(x) \subseteq Int \X Int
<1> DEFINE f == [i \in Rows |-> <<2 * i, 2 * x[i]>>]
           g == [i \in Rows |-> <<2 * i + 1, 2 * x[i] + 1>>]
<1>1. IsFiniteSet(Rows)
  BY FS_Interval DEF Rows
<1>2. f \in Surjection(Rows, Points(x)) /\ g \in Surjection(Rows, Centres(x))
  BY DEF Surjection, Points, Centres
<1>3. IsFiniteSet(Points(x)) /\ IsFiniteSet(Centres(x))
  <2> HIDE DEF f, g
  <2> QED BY <1>1, <1>2, FS_Surjection
<1>4. \A i \in Rows : i \in Int /\ x[i] \in Int
  BY DEF Rows
<1> QED
  BY <1>3, <1>4 DEF Points, Centres

(* The points inside a box are the rows that hold them.                    *)
LEMMA InsideCounted ==
  ASSUME N \in Nat \ {0}, NEW x \in Generators, NEW a \in Rows, NEW b \in Rows, a < b, x[a] < x[b],
         NEW A, A = Points(x) \ {<<2 * a, 2 * x[a]>>, <<2 * b, 2 * x[b]>>}
  PROVE  /\ Cardinality(AfterBox(A, 2 * a, 2 * b, 2 * x[a], 2 * x[b])) = Cardinality(Inside(x, a, b))
         /\ Cardinality(FromBox(A, 2 * a, 2 * b, 2 * x[a], 2 * x[b])) = Cardinality(Inside(x, a, b))
         /\ Cardinality(Inside(x, a, b)) \in Nat
<1> DEFINE S == Inside(x, a, b)
           P == {<<2 * k, 2 * x[k]>> : k \in S}
           f == [k \in S |-> <<2 * k, 2 * x[k]>>]
<1>0. /\ x \in [Rows -> Rows] /\ \A i, j \in Rows : x[i] = x[j] => i = j
      /\ \A k \in Rows : k \in Int /\ x[k] \in Int
  BY DEF Generators, Rows
<1>1. IsFiniteSet(S)
  <2>1. IsFiniteSet(Rows) /\ S \subseteq Rows
    BY RowFacts DEF Inside
  <2> QED
    BY <2>1, FS_Subset
<1>2. ASSUME NEW u \in A
      PROVE  \E k \in Rows \ {a, b} : u = <<2 * k, 2 * x[k]>> /\ x[k] # x[a] /\ x[k] # x[b]
  <2>1. PICK k \in Rows : u = <<2 * k, 2 * x[k]>>
    BY DEF Points
  <2>2. k # a /\ k # b
    <3>1. u # <<2 * a, 2 * x[a]>> /\ u # <<2 * b, 2 * x[b]>>
      OBVIOUS
    <3> QED
      BY <2>1, <3>1
  <2>3. x[k] # x[a] /\ x[k] # x[b]
    BY <1>0, <2>2
  <2> QED
    BY <2>1, <2>2, <2>3
<1>3. ASSUME NEW k \in S
      PROVE  <<2 * k, 2 * x[k]>> \in A
  <2>1. k \in Rows /\ a < k /\ k < b
    BY DEF Inside
  <2>2. <<2 * k, 2 * x[k]>> \in Points(x)
    BY <2>1 DEF Points
  <2> QED
    BY <1>0, <2>1, <2>2
<1>4. AfterBox(A, 2 * a, 2 * b, 2 * x[a], 2 * x[b]) = P
  <2>1. ASSUME NEW u \in AfterBox(A, 2 * a, 2 * b, 2 * x[a], 2 * x[b]) PROVE u \in P
    <3>1. u \in A /\ 2 * a < u[1] /\ u[1] <= 2 * b /\ 2 * x[a] < u[2] /\ u[2] <= 2 * x[b]
      BY DEF AfterBox
    <3>2. PICK k \in Rows \ {a, b} : u = <<2 * k, 2 * x[k]>> /\ x[k] # x[a] /\ x[k] # x[b]
      BY <1>2, <3>1
    <3>3. k \in S
      BY <1>0, <3>1, <3>2 DEF Inside
    <3> QED
      BY <3>2, <3>3
  <2>2. ASSUME NEW k \in S PROVE <<2 * k, 2 * x[k]>> \in AfterBox(A, 2 * a, 2 * b, 2 * x[a], 2 * x[b])
    <3>1. k \in Rows /\ a < k /\ k < b /\ x[a] < x[k] /\ x[k] < x[b]
      BY DEF Inside
    <3> QED
      BY <1>0, <1>3, <3>1 DEF AfterBox
  <2> QED
    BY <2>1, <2>2
<1>5. FromBox(A, 2 * a, 2 * b, 2 * x[a], 2 * x[b]) = P
  <2>1. ASSUME NEW u \in FromBox(A, 2 * a, 2 * b, 2 * x[a], 2 * x[b]) PROVE u \in P
    <3>1. u \in A /\ 2 * a <= u[1] /\ u[1] < 2 * b /\ 2 * x[a] <= u[2] /\ u[2] < 2 * x[b]
      BY DEF FromBox
    <3>2. PICK k \in Rows \ {a, b} : u = <<2 * k, 2 * x[k]>> /\ x[k] # x[a] /\ x[k] # x[b]
      BY <1>2, <3>1
    <3>3. k \in S
      BY <1>0, <3>1, <3>2 DEF Inside
    <3> QED
      BY <3>2, <3>3
  <2>2. ASSUME NEW k \in S PROVE <<2 * k, 2 * x[k]>> \in FromBox(A, 2 * a, 2 * b, 2 * x[a], 2 * x[b])
    <3>1. k \in Rows /\ a < k /\ k < b /\ x[a] < x[k] /\ x[k] < x[b]
      BY DEF Inside
    <3> QED
      BY <1>0, <1>3, <3>1 DEF FromBox
  <2> QED
    BY <2>1, <2>2
<1>6. /\ f \in [S -> P]
      /\ \A k, l \in S : f[k] = f[l] => k = l
      /\ \A u \in P : \E k \in S : f[k] = u
  <2>1. \A k \in S : k \in Int
    BY DEF Inside, Rows
  <2> QED
    BY <2>1
<1> HIDE DEF f, P, S
<1>7. Cardinality(P) = Cardinality(S) /\ Cardinality(S) \in Nat
  BY <1>1, <1>6, Matched
<1> QED
  BY <1>4, <1>5, <1>7 DEF S

(* So are the markers.                                                     *)
LEMMA MarkedCounted ==
  ASSUME N \in Nat \ {0}, NEW x \in [Rows -> Rows], NEW m \in [Rows -> Rows], NEW a \in Rows, NEW b \in Rows
  PROVE  /\ Cardinality(AfterBox(Centres(m), 2 * a, 2 * b, 2 * x[a], 2 * x[b])) = Cardinality(Marked(x, m, a, b))
         /\ Cardinality(FromBox(Centres(m), 2 * a, 2 * b, 2 * x[a], 2 * x[b])) = Cardinality(Marked(x, m, a, b))
         /\ Cardinality(Marked(x, m, a, b)) \in Nat /\ IsFiniteSet(Marked(x, m, a, b))
<1> DEFINE S == Marked(x, m, a, b)
           P == {<<2 * k + 1, 2 * m[k] + 1>> : k \in S}
           f == [k \in S |-> <<2 * k + 1, 2 * m[k] + 1>>]
<1>0. \A k \in Rows : k \in Int /\ x[k] \in Int /\ m[k] \in Int
  BY RowFacts
<1>1. IsFiniteSet(S)
  <2>1. IsFiniteSet(Rows) /\ S \subseteq Rows
    BY RowFacts DEF Marked
  <2> QED
    BY <2>1, FS_Subset
<1>2. AfterBox(Centres(m), 2 * a, 2 * b, 2 * x[a], 2 * x[b]) = P
  BY <1>0 DEF AfterBox, Centres, Marked
<1>3. FromBox(Centres(m), 2 * a, 2 * b, 2 * x[a], 2 * x[b]) = P
  BY <1>0 DEF FromBox, Centres, Marked
<1>6. /\ f \in [S -> P]
      /\ \A k, l \in S : f[k] = f[l] => k = l
      /\ \A u \in P : \E k \in S : f[k] = u
  <2>1. \A k \in S : k \in Int
    BY DEF Marked, Rows
  <2> QED
    BY <2>1
<1> HIDE DEF f, P, S
<1>7. Cardinality(P) = Cardinality(S) /\ Cardinality(S) \in Nat
  BY <1>1, <1>6, Matched
<1> QED
  BY <1>1, <1>2, <1>3, <1>7 DEF S

(* Swapping the two corners of a box that does not wrap lowers the grading *)
(* by one and twice its points, and raises it by twice its markers.        *)
LEMMA MaslovChange ==
  ASSUME N \in Nat \ {0}, NEW x \in Generators, NEW m \in [Rows -> Rows],
         NEW a \in Rows, NEW b \in Rows, a < b, x[a] < x[b]
  PROVE  /\ Cardinality(Inside(x, a, b)) \in Nat /\ Cardinality(Marked(x, m, a, b)) \in Nat
         /\ MaslovRel(x, m) \in Int /\ MaslovRel(Transpose(x, a, b), m) \in Int
         /\ MaslovRel(x, m) = MaslovRel(Transpose(x, a, b), m) + 1
                                + 2 * Cardinality(Inside(x, a, b)) - 2 * Cardinality(Marked(x, m, a, b))
<1> DEFINE y == Transpose(x, a, b)
           p == <<2 * a, 2 * x[a]>>
           q == <<2 * b, 2 * x[b]>>
           r == <<2 * a, 2 * x[b]>>
           s == <<2 * b, 2 * x[a]>>
           A == Points(x) \ {p, q}
           C == Centres(m)
<1>0. /\ x \in [Rows -> Rows] /\ \A i, j \in Rows : x[i] = x[j] => i = j
      /\ \A k \in Rows : k \in Int /\ x[k] \in Int
      /\ a # b /\ x[a] # x[b]
  <2>1. x \in [Rows -> Rows] /\ \A i, j \in Rows : x[i] = x[j] => i = j
    BY RowFacts
  <2>2. \A k \in Rows : k \in Int /\ x[k] \in Int
    BY <2>1, RowFacts
  <2> QED
    BY <2>1, <2>2
<1>1. y \in [Rows -> Rows] /\ y[a] = x[b] /\ y[b] = x[a] /\ \A k \in Rows \ {a, b} : y[k] = x[k]
  BY <1>0 DEF Transpose
<1>2. Points(x) = A \cup {p, q} /\ p \notin A /\ q \notin A /\ p # q
  BY <1>0 DEF Points
<1>3. Points(y) = A \cup {r, s} /\ r \notin A /\ s \notin A /\ r # s
  <2>1. r \notin Points(x) /\ s \notin Points(x)
    BY <1>0 DEF Points
  <2>2. ASSUME NEW k \in Rows \ {a, b} PROVE <<2 * k, 2 * y[k]>> \in A
    BY <1>0, <1>1 DEF Points
  <2>3. ASSUME NEW u \in A PROVE u \in Points(y)
    <3>1. PICK k \in Rows : u = <<2 * k, 2 * x[k]>>
      BY DEF Points
    <3>2. k \notin {a, b}
      BY <1>0, <3>1
    <3> QED
      BY <1>1, <3>1, <3>2 DEF Points
  <2>4. r \in Points(y) /\ s \in Points(y)
    BY <1>1 DEF Points
  <2>5. ASSUME NEW u \in Points(y) PROVE u \in A \cup {r, s}
    <3>1. PICK k \in Rows : u = <<2 * k, 2 * y[k]>>
      BY DEF Points
    <3> QED
      BY <1>1, <2>2, <3>1
  <2> QED
    BY <1>0, <2>1, <2>3, <2>4, <2>5
<1>4. /\ IsFiniteSet(A) /\ IsFiniteSet(C) /\ A \subseteq Int \X Int /\ C \subseteq Int \X Int
  <2>1. IsFiniteSet(Points(x)) /\ IsFiniteSet(C) /\ Points(x) \subseteq Int \X Int /\ C \subseteq Int \X Int
    BY <1>0, PointSets
  <2>2. A \subseteq Points(x)
    OBVIOUS
  <2>3. IsFiniteSet(A)
    BY <2>1, <2>2, FS_Subset
  <2> QED
    BY <2>1, <2>2, <2>3
<1> DEFINE i1 == Cardinality(Inside(x, a, b))
           k1 == Cardinality(Marked(x, m, a, b))
<1>5. /\ Cardinality(AfterBox(A, 2 * a, 2 * b, 2 * x[a], 2 * x[b])) = i1
      /\ Cardinality(FromBox(A, 2 * a, 2 * b, 2 * x[a], 2 * x[b])) = i1 /\ i1 \in Nat
      /\ Cardinality(AfterBox(C, 2 * a, 2 * b, 2 * x[a], 2 * x[b])) = k1
      /\ Cardinality(FromBox(C, 2 * a, 2 * b, 2 * x[a], 2 * x[b])) = k1 /\ k1 \in Nat
  <2>1. /\ Cardinality(AfterBox(A, 2 * a, 2 * b, 2 * x[a], 2 * x[b])) = i1
        /\ Cardinality(FromBox(A, 2 * a, 2 * b, 2 * x[a], 2 * x[b])) = i1 /\ i1 \in Nat
    BY InsideCounted
  <2>2. /\ Cardinality(AfterBox(C, 2 * a, 2 * b, 2 * x[a], 2 * x[b])) = k1
        /\ Cardinality(FromBox(C, 2 * a, 2 * b, 2 * x[a], 2 * x[b])) = k1 /\ k1 \in Nat
    BY <1>0, MarkedCounted
  <2> QED
    BY <2>1, <2>2
<1>6. /\ SwBit(p, p) = 0 /\ SwBit(p, q) = 1 /\ SwBit(q, p) = 0 /\ SwBit(q, q) = 0
      /\ SwBit(r, r) = 0 /\ SwBit(r, s) = 0 /\ SwBit(s, r) = 0 /\ SwBit(s, s) = 0
  BY <1>0 DEF SwBit
<1>7. /\ 2 * a \in Int /\ 2 * b \in Int /\ 2 * x[a] \in Int /\ 2 * x[b] \in Int
      /\ 2 * a < 2 * b /\ 2 * x[a] < 2 * x[b]
  BY <1>0
<1>8. /\ Cardinality(Beyond(p, A)) + Cardinality(Beyond(q, A)) - Cardinality(Beyond(r, A)) - Cardinality(Beyond(s, A)) = i1
      /\ Cardinality(Behind(q, A)) + Cardinality(Behind(p, A)) - Cardinality(Behind(r, A)) - Cardinality(Behind(s, A)) = i1
      /\ Cardinality(Beyond(p, C)) + Cardinality(Beyond(q, C)) - Cardinality(Beyond(r, C)) - Cardinality(Beyond(s, C)) = k1
      /\ Cardinality(Behind(q, C)) + Cardinality(Behind(p, C)) - Cardinality(Behind(r, C)) - Cardinality(Behind(s, C)) = k1
  <2> DEFINE a2 == 2 * a
             b2 == 2 * b
             c2 == 2 * x[a]
             d2 == 2 * x[b]
  <2>1. /\ a2 \in Int /\ b2 \in Int /\ c2 \in Int /\ d2 \in Int /\ a2 < b2 /\ c2 < d2
        /\ p = <<a2, c2>> /\ q = <<b2, d2>> /\ r = <<a2, d2>> /\ s = <<b2, c2>>
        /\ Cardinality(AfterBox(A, a2, b2, c2, d2)) = i1 /\ Cardinality(FromBox(A, a2, b2, c2, d2)) = i1
        /\ Cardinality(AfterBox(C, a2, b2, c2, d2)) = k1 /\ Cardinality(FromBox(C, a2, b2, c2, d2)) = k1
    BY <1>5, <1>7
  <2>2. ArePoints(A) /\ ArePoints(C)
    BY <1>4 DEF ArePoints
  <2> HIDE DEF A, C, i1, k1, a2, b2, c2, d2, p, q, r, s
  <2>3. /\ Cardinality(Beyond(<<a2, c2>>, A)) + Cardinality(Beyond(<<b2, d2>>, A))
              - Cardinality(Beyond(<<a2, d2>>, A)) - Cardinality(Beyond(<<b2, c2>>, A)) = Cardinality(AfterBox(A, a2, b2, c2, d2))
        /\ Cardinality(Behind(<<b2, d2>>, A)) + Cardinality(Behind(<<a2, c2>>, A))
              - Cardinality(Behind(<<a2, d2>>, A)) - Cardinality(Behind(<<b2, c2>>, A)) = Cardinality(FromBox(A, a2, b2, c2, d2))
    BY <1>4, <2>1, <2>2, BoxByCorners
  <2>4. /\ Cardinality(Beyond(<<a2, c2>>, C)) + Cardinality(Beyond(<<b2, d2>>, C))
              - Cardinality(Beyond(<<a2, d2>>, C)) - Cardinality(Beyond(<<b2, c2>>, C)) = Cardinality(AfterBox(C, a2, b2, c2, d2))
        /\ Cardinality(Behind(<<b2, d2>>, C)) + Cardinality(Behind(<<a2, c2>>, C))
              - Cardinality(Behind(<<a2, d2>>, C)) - Cardinality(Behind(<<b2, c2>>, C)) = Cardinality(FromBox(C, a2, b2, c2, d2))
    BY <1>4, <2>1, <2>2, BoxByCorners
  <2> QED
    BY <2>1, <2>3, <2>4, Zenon
<1> HIDE DEF y, p, q, r, s, A, C, i1, k1
<1> DEFINE Counts(u) == /\ Cardinality(Beyond(u, A)) \in Nat /\ Cardinality(Behind(u, A)) \in Nat
                        /\ Cardinality(Beyond(u, C)) \in Nat /\ Cardinality(Behind(u, C)) \in Nat
<1>9. Counts(p) /\ Counts(q) /\ Counts(r) /\ Counts(s)
  BY <1>4, SwOne
<1>10. /\ Sw(Points(x), C) = Sw(A, C) + Cardinality(Beyond(p, C)) + Cardinality(Beyond(q, C))
       /\ Sw(C, Points(x)) = Sw(C, A) + Cardinality(Behind(p, C)) + Cardinality(Behind(q, C))
       /\ Sw(Points(x), Points(x)) =
              Sw(A, A) + Cardinality(Beyond(p, A)) + Cardinality(Beyond(q, A))
                + Cardinality(Behind(p, A)) + Cardinality(Behind(q, A))
                + SwBit(p, p) + SwBit(p, q) + SwBit(q, p) + SwBit(q, q)
  <2>1. IsFiniteSet(A) /\ p \notin A /\ q \notin A /\ p # q
    BY <1>2, <1>4
  <2>2. /\ Sw(WithTwo(A, p, q), C) = Sw(A, C) + Cardinality(Beyond(p, C)) + Cardinality(Beyond(q, C))
        /\ Sw(C, WithTwo(A, p, q)) = Sw(C, A) + Cardinality(Behind(p, C)) + Cardinality(Behind(q, C))
    BY <1>4, <2>1, SwWithTwo
  <2>3. Sw(WithTwo(A, p, q), WithTwo(A, p, q)) =
              Sw(A, A) + Cardinality(Beyond(p, A)) + Cardinality(Beyond(q, A))
                + Cardinality(Behind(p, A)) + Cardinality(Behind(q, A))
                + SwBit(p, p) + SwBit(p, q) + SwBit(q, p) + SwBit(q, q)
    BY <2>1, SwWithTwo
  <2>4. Points(x) = WithTwo(A, p, q)
    BY <1>2 DEF WithTwo
  <2> QED
    BY <2>2, <2>3, <2>4, Zenon
<1>11. /\ Sw(Points(y), C) = Sw(A, C) + Cardinality(Beyond(r, C)) + Cardinality(Beyond(s, C))
       /\ Sw(C, Points(y)) = Sw(C, A) + Cardinality(Behind(r, C)) + Cardinality(Behind(s, C))
       /\ Sw(Points(y), Points(y)) =
              Sw(A, A) + Cardinality(Beyond(r, A)) + Cardinality(Beyond(s, A))
                + Cardinality(Behind(r, A)) + Cardinality(Behind(s, A))
                + SwBit(r, r) + SwBit(r, s) + SwBit(s, r) + SwBit(s, s)
  <2>1. IsFiniteSet(A) /\ r \notin A /\ s \notin A /\ r # s
    BY <1>3, <1>4
  <2>2. /\ Sw(WithTwo(A, r, s), C) = Sw(A, C) + Cardinality(Beyond(r, C)) + Cardinality(Beyond(s, C))
        /\ Sw(C, WithTwo(A, r, s)) = Sw(C, A) + Cardinality(Behind(r, C)) + Cardinality(Behind(s, C))
    BY <1>4, <2>1, SwWithTwo
  <2>3. Sw(WithTwo(A, r, s), WithTwo(A, r, s)) =
              Sw(A, A) + Cardinality(Beyond(r, A)) + Cardinality(Beyond(s, A))
                + Cardinality(Behind(r, A)) + Cardinality(Behind(s, A))
                + SwBit(r, r) + SwBit(r, s) + SwBit(s, r) + SwBit(s, s)
    BY <2>1, SwWithTwo
  <2>4. Points(y) = WithTwo(A, r, s)
    BY <1>3 DEF WithTwo
  <2> QED
    BY <2>2, <2>3, <2>4, Zenon
<1>12. Sw(A, A) \in Nat /\ Sw(A, C) \in Nat /\ Sw(C, A) \in Nat /\ Sw(C, C) \in Nat
  BY <1>4, SwIsNatural
<1>13. /\ MaslovRel(x, m) = Sw(Points(x), Points(x)) - Sw(Points(x), C) - Sw(C, Points(x)) + Sw(C, C) + 1
       /\ MaslovRel(y, m) = Sw(Points(y), Points(y)) - Sw(Points(y), C) - Sw(C, Points(y)) + Sw(C, C) + 1
  BY DEF MaslovRel, C
<1>14. i1 \in Nat /\ k1 \in Nat
  BY <1>5
<1> HIDE DEF Counts
<1>15. /\ Sw(Points(x), Points(x)) \in Int /\ Sw(Points(y), Points(y)) \in Int
       /\ Sw(Points(x), Points(x)) = Sw(Points(y), Points(y)) + 2 * i1 + 1
  <2>1. /\ Cardinality(Beyond(p, A)) \in Nat /\ Cardinality(Beyond(q, A)) \in Nat
        /\ Cardinality(Beyond(r, A)) \in Nat /\ Cardinality(Beyond(s, A)) \in Nat
        /\ Cardinality(Behind(p, A)) \in Nat /\ Cardinality(Behind(q, A)) \in Nat
        /\ Cardinality(Behind(r, A)) \in Nat /\ Cardinality(Behind(s, A)) \in Nat
    BY <1>9 DEF Counts
  <2> QED
    BY <1>6, <1>8, <1>10, <1>11, <1>12, <1>14, <2>1
<1>16. /\ Sw(Points(x), C) \in Int /\ Sw(Points(y), C) \in Int
       /\ Sw(C, Points(x)) \in Int /\ Sw(C, Points(y)) \in Int
       /\ Sw(Points(x), C) = Sw(Points(y), C) + k1 /\ Sw(C, Points(x)) = Sw(C, Points(y)) + k1
  <2>1. /\ Cardinality(Beyond(p, C)) \in Nat /\ Cardinality(Beyond(q, C)) \in Nat
        /\ Cardinality(Beyond(r, C)) \in Nat /\ Cardinality(Beyond(s, C)) \in Nat
        /\ Cardinality(Behind(p, C)) \in Nat /\ Cardinality(Behind(q, C)) \in Nat
        /\ Cardinality(Behind(r, C)) \in Nat /\ Cardinality(Behind(s, C)) \in Nat
    BY <1>9 DEF Counts
  <2> QED
    BY <1>8, <1>10, <1>11, <1>12, <1>14, <2>1
<1>17. MaslovRel(x, m) \in Int /\ MaslovRel(y, m) \in Int
       /\ MaslovRel(x, m) = MaslovRel(y, m) + 1 + 2 * i1 - 2 * k1
  BY <1>12, <1>13, <1>14, <1>15, <1>16
<1> QED
  BY <1>14, <1>17 DEF y, i1, k1

-----------------------------------------------------------------------------
(* Bands on the torus as sets of numbers: one interval, or two at the ends.*)
InBand(c, s, e) == IF s < e THEN s <= c /\ c < e ELSE s <= c \/ c < e
WithinBand(c, s, e) == IF s < e THEN s < c /\ c < e ELSE s < c \/ c < e

(* How far a line is from another, going up.                               *)
LEMMA OffsetIs ==
  ASSUME N \in Nat \ {0}, NEW c \in Rows, NEW s \in Rows
  PROVE  /\ (c - s) % N = IF s <= c THEN c - s ELSE c - s + N
         /\ (c - s) % N \in 0..(N - 1)
<1>1. c \in Int /\ s \in Int /\ 0 <= c /\ c < N /\ 0 <= s /\ s < N
  BY RowFacts
<1> DEFINE d == c - s
<1>2. d \in Int /\ -N <= d /\ d < N /\ (s <= c <=> 0 <= d)
  BY <1>1
<1> HIDE DEF d
<1>3. d % N = (IF s <= c THEN d ELSE d + N) /\ d % N \in 0..(N - 1)
  <2>1. d % N \in 0..(N - 1) /\ (0 <= d /\ d < N => d % N = d) /\ (-N <= d /\ d < 0 => d % N = d + N)
    BY <1>2, ModSmall
  <2> QED
    BY <1>1, <1>2, <2>1
<1> QED
  BY <1>1, <1>3 DEF d

(* The lines of a band, by their offset from its first.                    *)
LEMMA BandsAre ==
  ASSUME N \in Nat \ {0}, NEW c \in Rows, NEW s \in Rows, NEW e \in Rows, s # e
  PROVE  /\ (c - s) % N < (e - s) % N <=> InBand(c, s, e)
         /\ (c - s) % N \in 1..(((e - s) % N) - 1) <=> WithinBand(c, s, e)
<1>1. /\ c \in Int /\ s \in Int /\ e \in Int /\ 0 <= c /\ c < N /\ 0 <= s /\ s < N /\ 0 <= e /\ e < N
  BY RowFacts
<1>2. /\ (c - s) % N = IF s <= c THEN c - s ELSE c - s + N
      /\ (e - s) % N = IF s <= e THEN e - s ELSE e - s + N
  BY OffsetIs
<1> DEFINE p == (c - s) % N
           q == (e - s) % N
<1> HIDE DEF p, q
<1>3. /\ p = IF s <= c THEN c - s ELSE c - s + N
      /\ q = IF s <= e THEN e - s ELSE e - s + N
  BY <1>2 DEF p, q
<1>4. (p < q <=> InBand(c, s, e)) /\ (p \in 1..(q - 1) <=> WithinBand(c, s, e))
  BY <1>1, <1>3 DEF InBand, WithinBand
<1> QED
  BY <1>4 DEF p, q

(* The markers in a rectangle, and what it means to be empty.              *)
Covered(x, m, i, j) == {k \in Rows : InBand(k, i, j) /\ InBand(m[k], x[i], x[j])}

(* The rectangles of the differential in terms of bands.                   *)
LEMMA RectanglesAre ==
  ASSUME N \in Nat \ {0}, NEW x \in Generators, NEW i \in Rows, NEW j \in Rows, i # j
  PROVE  /\ Empty(x, i, j) <=> \A k \in Rows : ~(WithinBand(k, i, j) /\ WithinBand(x[k], x[i], x[j]))
         /\ \A cells \in SUBSET (Rows \X Rows) :
              Avoids(x, i, j, cells) <=> \A c \in cells : ~(InBand(c[1], i, j) /\ InBand(c[2], x[i], x[j]))
<1>0. x \in [Rows -> Rows] /\ x[i] \in Rows /\ x[j] \in Rows /\ x[i] # x[j]
  BY RowFacts
<1>1. Height(i, j) \in 0..(N - 1) /\ Width(x, i, j) \in 0..(N - 1)
  BY <1>0, OffsetIs DEF Height, Width
<1> DEFINE h == Height(i, j)
           w == Width(x, i, j)
<1>2. ASSUME NEW c \in Rows
      PROVE  /\ c \in {(i + t) % N : t \in 1..(h - 1)} <=> WithinBand(c, i, j)
             /\ c \in {(i + t) % N : t \in 0..(h - 1)} <=> InBand(c, i, j)
             /\ c \in {(x[i] + t) % N : t \in 1..(w - 1)} <=> WithinBand(c, x[i], x[j])
             /\ c \in {(x[i] + t) % N : t \in 0..(w - 1)} <=> InBand(c, x[i], x[j])
  <2>1. /\ c \in {(i + t) % N : t \in 1..(h - 1)} <=> (c - i) % N \in 1..(h - 1)
        /\ c \in {(i + t) % N : t \in 0..(h - 1)} <=> (c - i) % N \in 0..(h - 1)
    BY <1>1, BandIsOffset
  <2>2. /\ c \in {(x[i] + t) % N : t \in 1..(w - 1)} <=> (c - x[i]) % N \in 1..(w - 1)
        /\ c \in {(x[i] + t) % N : t \in 0..(w - 1)} <=> (c - x[i]) % N \in 0..(w - 1)
    BY <1>0, <1>1, BandIsOffset
  <2>3. /\ (c - i) % N \in 0..(N - 1) /\ (c - x[i]) % N \in 0..(N - 1)
    BY <1>0, OffsetIs
  <2>4. /\ (c - i) % N < h <=> InBand(c, i, j)
        /\ (c - i) % N \in 1..(h - 1) <=> WithinBand(c, i, j)
    BY BandsAre DEF Height
  <2>5. /\ (c - x[i]) % N < w <=> InBand(c, x[i], x[j])
        /\ (c - x[i]) % N \in 1..(w - 1) <=> WithinBand(c, x[i], x[j])
    BY <1>0, BandsAre DEF Width
  <2>6. ASSUME NEW u \in 0..(N - 1), NEW v \in 0..(N - 1) PROVE u < v <=> u \in 0..(v - 1)
    OBVIOUS
  <2>7. /\ (c - i) % N < h <=> (c - i) % N \in 0..(h - 1)
        /\ (c - x[i]) % N < w <=> (c - x[i]) % N \in 0..(w - 1)
    BY <1>1, <2>3, <2>6
  <2> QED
    BY <2>1, <2>2, <2>4, <2>5, <2>7
<1>3. Empty(x, i, j) <=> \A k \in Rows : ~(WithinBand(k, i, j) /\ WithinBand(x[k], x[i], x[j]))
  <2>1. {(i + t) % N : t \in 1..(h - 1)} \subseteq Rows
    <3>1. ASSUME NEW t \in 1..(h - 1) PROVE (i + t) % N \in Rows
      <4>1. i + t \in Int
        BY <1>1, RowFacts
      <4> QED
        BY <4>1, ModSmall DEF Rows
    <3> QED
      BY <3>1
  <2> DEFINE openRows == {(i + t) % N : t \in 1..(h - 1)}
             openCols == {(x[i] + t) % N : t \in 1..(w - 1)}
  <2>2. Empty(x, i, j) <=> \A k \in openRows : x[k] \notin openCols
    BY DEF Empty
  <2>3. \A c \in Rows : (c \in openRows <=> WithinBand(c, i, j)) /\ (c \in openCols <=> WithinBand(c, x[i], x[j]))
    BY <1>2
  <2>4. openRows \subseteq Rows
    BY <2>1
  <2> HIDE DEF openRows, openCols
  <2> QED
    BY <1>0, <2>2, <2>3, <2>4
<1>4. ASSUME NEW cells \in SUBSET (Rows \X Rows)
      PROVE  Avoids(x, i, j, cells) <=> \A c \in cells : ~(InBand(c[1], i, j) /\ InBand(c[2], x[i], x[j]))
  <2> DEFINE cellRows == {(i + t) % N : t \in 0..(h - 1)}
             cellCols == {(x[i] + t) % N : t \in 0..(w - 1)}
  <2>1. Avoids(x, i, j, cells) <=> \A m \in cells : ~(m[1] \in cellRows /\ m[2] \in cellCols)
    BY DEF Avoids
  <2>2. \A c \in Rows : (c \in cellRows <=> InBand(c, i, j)) /\ (c \in cellCols <=> InBand(c, x[i], x[j]))
    BY <1>2
  <2>3. \A c \in cells : c[1] \in Rows /\ c[2] \in Rows
    OBVIOUS
  <2> HIDE DEF cellRows, cellCols
  <2> QED
    BY <2>1, <2>2, <2>3
<1> QED
  BY <1>3, <1>4

(* The numbers from s up to and without t.                                 *)
LEMMA IntervalSize ==
  ASSUME NEW s \in Int, NEW t \in Int, s <= t
  PROVE  IsFiniteSet(s..(t - 1)) /\ Cardinality(s..(t - 1)) = t - s
<1> DEFINE b == t - 1
<1>1. b \in Int
  OBVIOUS
<1>2. IsFiniteSet(s..b) /\ Cardinality(s..b) = IF s > b THEN 0 ELSE b - s + 1
  <2> HIDE DEF b
  <2> QED BY <1>1, FS_Interval
<1> QED
  BY <1>2

(* A permutation takes each value once.                                    *)
ValuesIn(m, s, t) == {k \in Rows : s <= m[k] /\ m[k] < t}

(* As many rows as there are values.                                       *)
LEMMA ValuesCounted ==
  ASSUME N \in Nat \ {0}, NEW m \in Generators, NEW s \in 0..N, NEW t \in 0..N, s <= t
  PROVE  IsFiniteSet(ValuesIn(m, s, t)) /\ Cardinality(ValuesIn(m, s, t)) = t - s
<1> DEFINE S == ValuesIn(m, s, t)
           T == s..(t - 1)
           f == [k \in S |-> m[k]]
<1>0. /\ m \in [Rows -> Rows] /\ \A i, j \in Rows : m[i] = m[j] => i = j
      /\ IsFiniteSet(Rows) /\ Cardinality(Rows) = N
      /\ \A k \in Rows : m[k] \in Int /\ m[k] \in Rows
  BY RowFacts
<1>1. IsFiniteSet(S)
  <2>1. S \subseteq Rows
    BY DEF ValuesIn
  <2> QED
    BY <1>0, <2>1, FS_Subset
<1>2. \A v \in Rows : \E k \in Rows : m[k] = v
  <2>1. m \in Injection(Rows, Rows)
    BY <1>0 DEF Injection, IsInjective
  <2>2. m \in Surjection(Rows, Rows)
    BY <1>0, <2>1, FS_Injection
  <2> QED
    BY <2>2 DEF Surjection
<1>3. T \subseteq Rows
  BY DEF Rows
<1>4. /\ f \in [S -> T]
      /\ \A k, l \in S : f[k] = f[l] => k = l
      /\ \A v \in T : \E k \in S : f[k] = v
  <2>1. \A k \in S : k \in Rows /\ s <= m[k] /\ m[k] < t
    BY DEF ValuesIn
  <2>2. \A k \in S : m[k] \in T
    BY <1>0, <2>1
  <2>3. \A v \in T : \E k \in S : m[k] = v
    BY <1>2, <1>3 DEF ValuesIn
  <2> HIDE DEF S, T
  <2> QED
    BY <1>0, <2>1, <2>2, <2>3
<1>5. Cardinality(T) = t - s
  BY IntervalSize
<1> HIDE DEF S, T, f
<1>6. Cardinality(T) = Cardinality(S)
  BY <1>1, <1>4, Matched
<1> QED
  BY <1>1, <1>5, <1>6 DEF S

RowsIn(s, t) == {k \in Rows : s <= k /\ k < t}

LEMMA RowsCounted ==
  ASSUME N \in Nat \ {0}, NEW s \in 0..N, NEW t \in 0..N, s <= t
  PROVE  IsFiniteSet(RowsIn(s, t)) /\ Cardinality(RowsIn(s, t)) = t - s
<1>1. RowsIn(s, t) = s..(t - 1)
  BY DEF RowsIn, Rows
<1> QED
  BY <1>1, IntervalSize

(* Swapping is undone by swapping again, whichever row is named first.     *)
LEMMA TransposeTwice ==
  ASSUME N \in Nat \ {0}, NEW x \in Generators, NEW a \in Rows, NEW b \in Rows, a # b
  PROVE  /\ Transpose(x, a, b) \in Generators
         /\ Transpose(x, a, b)[a] = x[b] /\ Transpose(x, a, b)[b] = x[a]
         /\ \A k \in Rows \ {a, b} : Transpose(x, a, b)[k] = x[k]
         /\ Transpose(Transpose(x, a, b), a, b) = x
         /\ Transpose(x, b, a) = Transpose(x, a, b)
<1> DEFINE y == Transpose(x, a, b)
<1>0. x \in [Rows -> Rows] /\ \A i, j \in Rows : x[i] = x[j] => i = j
  BY RowFacts
<1>1. y \in [Rows -> Rows] /\ y[a] = x[b] /\ y[b] = x[a] /\ \A k \in Rows \ {a, b} : y[k] = x[k]
  BY <1>0 DEF Transpose
<1>2. \A i, j \in Rows : y[i] = y[j] => i = j
  BY <1>0, <1>1
<1>3. y \in Generators
  BY <1>1, <1>2 DEF Generators
<1>4. Transpose(y, a, b) = x
  <2>1. Transpose(y, a, b) \in [Rows -> Rows] /\ \A k \in Rows : Transpose(y, a, b)[k] = x[k]
    BY <1>0, <1>1 DEF Transpose
  <2> QED
    BY <1>0, <2>1
<1>5. Transpose(x, b, a) = y
  BY TargetNamesThePair
<1> QED
  BY <1>1, <1>3, <1>4, <1>5

(* The arithmetic of a rectangle that wraps round one side of the torus.   *)
LEMMA WrapOneWay ==
  ASSUME NEW k \in Int, NEW r \in Int, NEW w \in Int, NEW e \in Int, NEW u \in Int, NEW v \in Int,
         r = w + k, e = r - 1, v = u + 1 + 2 * e - 2 * k
  PROVE  v = u - 1 + 2 * w
  OBVIOUS

(* The grading relative to any set of markers changes by one less than     *)
(* twice the markers in the rectangle, on every side of the torus.         *)
LEMMA GradingChange ==
  ASSUME N \in Nat \ {0}, NEW x \in Generators, NEW m \in Generators,
         NEW i \in Rows, NEW j \in Rows, i # j, Empty(x, i, j)
  PROVE  /\ Cardinality(Covered(x, m, i, j)) \in Nat /\ IsFiniteSet(Covered(x, m, i, j))
         /\ MaslovRel(x, m) \in Int /\ MaslovRel(Transpose(x, i, j), m) \in Int
         /\ MaslovRel(Transpose(x, i, j), m)
              = MaslovRel(x, m) - 1 + 2 * Cardinality(Covered(x, m, i, j))
<1> DEFINE y == Transpose(x, i, j)
           W == Covered(x, m, i, j)
<1>0. /\ x \in [Rows -> Rows] /\ m \in [Rows -> Rows]
      /\ \A k, l \in Rows : x[k] = x[l] => k = l
      /\ \A k \in Rows : k \in Int /\ 0 <= k /\ k < N
      /\ \A k \in Rows : x[k] \in Rows /\ m[k] \in Rows /\ x[k] \in Int /\ m[k] \in Int
                           /\ 0 <= x[k] /\ x[k] < N /\ 0 <= m[k] /\ m[k] < N
      /\ IsFiniteSet(Rows) /\ Cardinality(Rows) = N
  BY RowFacts
<1>1. \A k \in Rows : ~(WithinBand(k, i, j) /\ WithinBand(x[k], x[i], x[j]))
  BY RectanglesAre
<1>2. IsFiniteSet(W) /\ Cardinality(W) \in Nat
  <2>1. W \subseteq Rows
    BY DEF Covered
  <2> QED
    BY <1>0, <2>1, FS_Subset, FS_CardinalityType
<1>3. x[i] # x[j]
  BY <1>0
<1>4. CASE i < j /\ x[i] < x[j]
  <2>1. Inside(x, i, j) = {}
    BY <1>0, <1>1, <1>4 DEF Inside, WithinBand
  <2>2. Marked(x, m, i, j) = W
    BY <1>0, <1>4 DEF Marked, Covered, InBand
  <2>3. /\ MaslovRel(x, m) \in Int /\ MaslovRel(y, m) \in Int
        /\ MaslovRel(x, m) = MaslovRel(y, m) + 1
             + 2 * Cardinality(Inside(x, i, j)) - 2 * Cardinality(Marked(x, m, i, j))
    BY <1>0, <1>4, MaslovChange
  <2>4. Cardinality(Inside(x, i, j)) = 0
    BY <2>1, FS_EmptySet
  <2>5. Cardinality(Marked(x, m, i, j)) = Cardinality(W)
    BY <2>2
  <2> HIDE DEF W, y
  <2> QED
    BY <1>2, <2>3, <2>4, <2>5 DEF W, y
<1>5. CASE j < i /\ x[j] < x[i]
  <2> DEFINE R == RowsIn(j, i)
             C == ValuesIn(m, x[j], x[i])
             K == Marked(x, m, j, i)
             I == Inside(x, j, i)
             R1 == RowsIn(j, i + 1)
             C1 == ValuesIn(x, x[j], x[i] + 1)
             I1 == I \cup {j, i}
  <2>1. /\ IsFiniteSet(R) /\ Cardinality(R) = i - j
        /\ IsFiniteSet(R1) /\ Cardinality(R1) = i + 1 - j
    BY <1>0, <1>5, RowsCounted
  <2>2. /\ IsFiniteSet(C) /\ Cardinality(C) = x[i] - x[j]
        /\ IsFiniteSet(C1) /\ Cardinality(C1) = x[i] + 1 - x[j]
    BY <1>0, <1>5, ValuesCounted
  <2>3. IsBox(W, Rows, R, C, K)
    BY <1>0, <1>5 DEF IsBox, RowsIn, ValuesIn, Marked, Covered, InBand
  <2>4. IsBox({}, Rows, R1, C1, I1)
    <3>1. R1 \subseteq Rows /\ C1 \subseteq Rows
      BY DEF RowsIn, ValuesIn
    <3>2. R1 \cap C1 = I1
      <4>1. ASSUME NEW k \in R1 \cap C1 PROVE k \in I1
        <5>1. k \in Rows /\ j <= k /\ k < i + 1 /\ x[j] <= x[k] /\ x[k] < x[i] + 1
          BY DEF RowsIn, ValuesIn
        <5>2. k # i /\ k # j => x[k] # x[i] /\ x[k] # x[j]
          BY <1>0, <5>1
        <5> QED
          BY <1>0, <5>1, <5>2 DEF Inside
      <4>2. I \subseteq R1 \cap C1
        BY <1>0 DEF Inside, RowsIn, ValuesIn
      <4>3. i \in R1 \cap C1 /\ j \in R1 \cap C1
        BY <1>0, <1>5 DEF RowsIn, ValuesIn
      <4> QED
        BY <4>1, <4>2, <4>3
    <3>3. \A k \in Rows : k \in R1 \/ k \in C1
      <4> SUFFICES ASSUME NEW k \in Rows, k \notin R1, k \notin C1 PROVE FALSE
        OBVIOUS
      <4>1. WithinBand(k, i, j)
        BY <1>0, <1>5 DEF RowsIn, WithinBand
      <4>2. WithinBand(x[k], x[i], x[j])
        BY <1>0, <1>5 DEF ValuesIn, WithinBand
      <4> QED
        BY <1>1, <4>1, <4>2
    <3> HIDE DEF R1, C1, I1
    <3> QED
      BY <3>1, <3>2, <3>3 DEF IsBox
  <2>5. /\ Cardinality(I) \in Nat /\ Cardinality(K) \in Nat
        /\ MaslovRel(x, m) \in Int /\ MaslovRel(y, m) \in Int
        /\ MaslovRel(x, m) = MaslovRel(y, m) + 1 + 2 * Cardinality(I) - 2 * Cardinality(K)
    <3>1. Transpose(x, j, i) = y
      BY <1>5, TransposeTwice
    <3>2. /\ Cardinality(I) \in Nat /\ Cardinality(K) \in Nat
          /\ MaslovRel(x, m) \in Int /\ MaslovRel(Transpose(x, j, i), m) \in Int
          /\ MaslovRel(x, m) = MaslovRel(Transpose(x, j, i), m) + 1 + 2 * Cardinality(I) - 2 * Cardinality(K)
      BY <1>0, <1>5, MaslovChange
    <3> HIDE DEF y
    <3> QED
      BY <3>1, <3>2
  <2>6. Cardinality(I1) = Cardinality(I) + 2
    <3>1. IsFiniteSet(I) /\ j \notin I /\ i \notin I /\ i # j
      <4>1. I \subseteq Rows
        BY DEF Inside
      <4> QED
        BY <1>0, <1>5, <4>1, FS_Subset DEF Inside
    <3>2. I1 = (I \cup {j}) \cup {i}
      OBVIOUS
    <3> HIDE DEF I
    <3>3. IsFiniteSet(I \cup {j}) /\ Cardinality(I \cup {j}) = Cardinality(I) + 1
      BY <3>1, FS_AddElement
    <3>4. Cardinality((I \cup {j}) \cup {i}) = Cardinality(I) + 1 + 1
      BY <3>1, <3>3, FS_AddElement
    <3>5. Cardinality(I1) = Cardinality((I \cup {j}) \cup {i})
      <4> HIDE DEF I1
      <4> QED BY <3>2, Zenon
    <3> HIDE DEF I1
    <3> QED
      BY <2>5, <3>4, <3>5
  <2> HIDE DEF R, C, K, I, R1, C1, I1, W, y
  <2>7. N + Cardinality(K) - Cardinality(R) - Cardinality(C) = Cardinality(W)
    BY <1>0, <2>3, FourCorners
  <2>8. N + Cardinality(I1) - Cardinality(R1) - Cardinality(C1) = 0
    <3>1. Cardinality({}) = 0
      BY FS_EmptySet
    <3> QED
      BY <1>0, <2>4, <3>1, FourCorners
  <2>9. i \in Int /\ j \in Int /\ x[i] \in Int /\ x[j] \in Int
    BY <1>0
  <2>10. /\ Cardinality(R) \in Int /\ Cardinality(R1) = Cardinality(R) + 1
         /\ Cardinality(C) \in Int /\ Cardinality(C1) = Cardinality(C) + 1
    BY <2>1, <2>2, <2>9
  <2>11. N + (Cardinality(I) + 2) - (Cardinality(R) + 1) - (Cardinality(C) + 1) = 0
    BY <2>6, <2>8, <2>10, Zenon
  <2>12. MaslovRel(y, m) = MaslovRel(x, m) - 1 + 2 * Cardinality(W)
    <3>1. /\ N \in Int /\ Cardinality(K) \in Int /\ Cardinality(I) \in Int /\ Cardinality(W) \in Int
          /\ Cardinality(R) \in Int /\ Cardinality(C) \in Int
      BY <1>2, <2>5, <2>10
    <3> DEFINE v == MaslovRel(y, m)
               u == MaslovRel(x, m)
               e == Cardinality(I)
               k == Cardinality(K)
               r == Cardinality(R)
               c == Cardinality(C)
               w == Cardinality(W)
    <3>2. /\ e \in Int /\ k \in Int /\ r \in Int /\ c \in Int /\ w \in Int /\ u \in Int /\ v \in Int
          /\ N + k - r - c = w /\ u = v + 1 + 2 * e - 2 * k
          /\ N + (e + 2) - (r + 1) - (c + 1) = 0
      BY <3>1, <2>5, <2>7, <2>11, Zenon
    <3> HIDE DEF u, v, e, k, r, c, w
    <3>3. v = u - 1 + 2 * w
      BY <3>1, <3>2
    <3> QED
      BY <3>3 DEF u, v, w
  <2> QED
    BY <1>2, <2>5, <2>12 DEF W, y
<1>6. y \in Generators /\ y[i] = x[j] /\ y[j] = x[i] /\ (\A k \in Rows \ {i, j} : y[k] = x[k])
      /\ Transpose(y, i, j) = x /\ Transpose(y, j, i) = x
  BY TransposeTwice
<1>7. CASE i < j /\ x[j] < x[i]
  <2> DEFINE R == RowsIn(i, j)
             R1 == RowsIn(i + 1, j)
             K == Marked(y, m, i, j)
             I == Inside(y, i, j)
  <2>1. /\ IsFiniteSet(R) /\ Cardinality(R) = j - i
        /\ IsFiniteSet(R1) /\ Cardinality(R1) = j - (i + 1)
    BY <1>0, <1>7, RowsCounted
  <2>2. I = R1
    <3>1. I \subseteq R1
      BY <1>0 DEF Inside, RowsIn
    <3>2. ASSUME NEW k \in R1 PROVE k \in I
      <4>1. k \in Rows /\ i < k /\ k < j /\ k \notin {i, j}
        BY <1>0 DEF RowsIn
      <4>2. WithinBand(k, i, j)
        BY <1>7, <4>1 DEF WithinBand
      <4>3. ~WithinBand(x[k], x[i], x[j])
        BY <1>1, <4>1, <4>2
      <4>4. y[k] = x[k] /\ x[k] # x[i] /\ x[k] # x[j]
        BY <1>0, <1>6, <4>1
      <4>5. x[j] < x[k] /\ x[k] < x[i]
        BY <1>0, <1>7, <4>1, <4>3, <4>4 DEF WithinBand
      <4> QED
        BY <1>6, <4>1, <4>4, <4>5 DEF Inside
    <3> QED
      BY <3>1, <3>2
  <2>3. R = W \cup K /\ W \cap K = {}
    BY <1>0, <1>6, <1>7 DEF RowsIn, Marked, Covered, InBand
  <2>4. IsFiniteSet(K)
    <3>1. K \subseteq Rows
      BY DEF Marked
    <3> QED
      BY <1>0, <3>1, FS_Subset
  <2>5. /\ Cardinality(I) \in Nat /\ Cardinality(K) \in Nat
        /\ MaslovRel(x, m) \in Int /\ MaslovRel(y, m) \in Int
        /\ MaslovRel(y, m) = MaslovRel(x, m) + 1 + 2 * Cardinality(I) - 2 * Cardinality(K)
    <3>1. y[i] < y[j]
      BY <1>6, <1>7
    <3> HIDE DEF y
    <3>2. /\ Cardinality(I) \in Nat /\ Cardinality(K) \in Nat
          /\ MaslovRel(y, m) \in Int /\ MaslovRel(Transpose(y, i, j), m) \in Int
          /\ MaslovRel(y, m) = MaslovRel(Transpose(y, i, j), m) + 1 + 2 * Cardinality(I) - 2 * Cardinality(K)
      BY <1>0, <1>6, <1>7, <3>1, MaslovChange
    <3> QED
      BY <1>6, <3>2
  <2> HIDE DEF R, R1, K, I, W, y
  <2>6. Cardinality(R) = Cardinality(W) + Cardinality(K)
    BY <1>2, <2>3, <2>4, DisjointUnion
  <2>7. Cardinality(R) \in Int /\ Cardinality(I) = Cardinality(R) - 1
    <3>1. i \in Int /\ j \in Int /\ x[i] \in Int /\ x[j] \in Int
      BY <1>0
    <3>2. Cardinality(I) = Cardinality(R1)
      BY <2>2, Zenon
    <3> QED
      BY <2>1, <3>1, <3>2
  <2>8. MaslovRel(y, m) = MaslovRel(x, m) - 1 + 2 * Cardinality(W)
    BY <1>2, <2>5, <2>6, <2>7, WrapOneWay
  <2> QED
    BY <1>2, <2>5, <2>8 DEF W, y
<1>8. CASE j < i /\ x[i] < x[j]
  <2> DEFINE C == ValuesIn(m, x[i], x[j])
             C1 == ValuesIn(x, x[i] + 1, x[j])
             K == Marked(y, m, j, i)
             I == Inside(y, j, i)
  <2>1. /\ IsFiniteSet(C) /\ Cardinality(C) = x[j] - x[i]
        /\ IsFiniteSet(C1) /\ Cardinality(C1) = x[j] - (x[i] + 1)
    BY <1>0, <1>8, ValuesCounted
  <2>2. I = C1
    <3>1. ASSUME NEW k \in I PROVE k \in C1
      <4>1. k \in Rows /\ j < k /\ k < i /\ y[j] < y[k] /\ y[k] < y[i]
        BY DEF Inside
      <4>2. y[k] = x[k]
        BY <1>0, <1>6, <4>1
      <4> QED
        BY <1>0, <1>6, <4>1, <4>2 DEF ValuesIn
    <3>2. ASSUME NEW k \in C1 PROVE k \in I
      <4>1. k \in Rows /\ x[i] < x[k] /\ x[k] < x[j]
        BY <1>0 DEF ValuesIn
      <4>2. k # i /\ k # j
        BY <1>0, <4>1
      <4>3. ~WithinBand(k, i, j)
        BY <1>1, <1>8, <4>1 DEF WithinBand
      <4>4. j < k /\ k < i
        BY <1>0, <1>8, <4>1, <4>2, <4>3 DEF WithinBand
      <4>5. y[k] = x[k]
        BY <1>6, <4>1, <4>2
      <4> QED
        BY <1>6, <4>1, <4>4, <4>5 DEF Inside
    <3> QED
      BY <3>1, <3>2
  <2>3. C = W \cup K /\ W \cap K = {}
    BY <1>0, <1>6, <1>8 DEF ValuesIn, Marked, Covered, InBand
  <2>4. IsFiniteSet(K)
    <3>1. K \subseteq Rows
      BY DEF Marked
    <3> QED
      BY <1>0, <3>1, FS_Subset
  <2>5. /\ Cardinality(I) \in Nat /\ Cardinality(K) \in Nat
        /\ MaslovRel(x, m) \in Int /\ MaslovRel(y, m) \in Int
        /\ MaslovRel(y, m) = MaslovRel(x, m) + 1 + 2 * Cardinality(I) - 2 * Cardinality(K)
    <3>1. y[j] < y[i]
      BY <1>6, <1>8
    <3> HIDE DEF y
    <3>2. /\ Cardinality(I) \in Nat /\ Cardinality(K) \in Nat
          /\ MaslovRel(y, m) \in Int /\ MaslovRel(Transpose(y, j, i), m) \in Int
          /\ MaslovRel(y, m) = MaslovRel(Transpose(y, j, i), m) + 1 + 2 * Cardinality(I) - 2 * Cardinality(K)
      BY <1>0, <1>6, <1>8, <3>1, MaslovChange
    <3> QED
      BY <1>6, <3>2
  <2> HIDE DEF C, C1, K, I, W, y
  <2>6. Cardinality(C) = Cardinality(W) + Cardinality(K)
    BY <1>2, <2>3, <2>4, DisjointUnion
  <2>7. Cardinality(C) \in Int /\ Cardinality(I) = Cardinality(C) - 1
    <3>1. i \in Int /\ j \in Int /\ x[i] \in Int /\ x[j] \in Int
      BY <1>0
    <3>2. Cardinality(I) = Cardinality(C1)
      BY <2>2, Zenon
    <3> QED
      BY <2>1, <3>1, <3>2
  <2>8. MaslovRel(y, m) = MaslovRel(x, m) - 1 + 2 * Cardinality(W)
    BY <1>2, <2>5, <2>6, <2>7, WrapOneWay
  <2> QED
    BY <1>2, <2>5, <2>8 DEF W, y
<1>9. i \in Int /\ j \in Int /\ x[i] \in Int /\ x[j] \in Int
  BY <1>0
<1> QED
  BY <1>3, <1>4, <1>5, <1>7, <1>8, <1>9

(* A grading is a whole number.                                            *)
LEMMA GradingsAreIntegers ==
  ASSUME N \in Nat \ {0}, NEW x \in [Rows -> Rows], NEW m \in [Rows -> Rows]
  PROVE  MaslovRel(x, m) \in Int
<1>1. /\ IsFiniteSet(Points(x)) /\ IsFiniteSet(Centres(m))
  BY PointSets
<1>2. /\ Sw(Points(x), Points(x)) \in Int /\ Sw(Points(x), Centres(m)) \in Int
      /\ Sw(Centres(m), Points(x)) \in Int /\ Sw(Centres(m), Centres(m)) \in Int
  BY <1>1, SwIsNatural
<1> QED
  BY <1>2 DEF MaslovRel

(* Taking an even number off commutes with halving.                        *)
LEMMA HalfOfEven ==
  ASSUME NEW d \in Int, NEW w \in Int
  PROVE  (d - 2 * w) \div 2 = (d \div 2) - w
<1> DEFINE q == d \div 2
<1>1. q \in Int /\ 2 * q <= d /\ d < 2 * q + 2
  OBVIOUS
<1>2. (d - 2 * w) \div 2 \in Int /\ 2 * ((d - 2 * w) \div 2) <= d - 2 * w /\ d - 2 * w < 2 * ((d - 2 * w) \div 2) + 2
  OBVIOUS
<1> QED
  BY <1>1, <1>2

(* A rectangle of the differential covers no marker it must avoid, and the *)
(* gradings of its target follow.                                          *)
LEMMA TargetGradings ==
  ASSUME N \in Nat \ {0}, O \in Generators, X \in Generators,
         NEW x \in Generators, NEW i \in Rows, NEW j \in Rows, i # j, Empty(x, i, j), Avoids(x, i, j, OCells)
  PROVE  LET y == Transpose(x, i, j)
             w == Cardinality(Covered(x, X, i, j))
         IN /\ w \in Nat /\ IsFiniteSet(Covered(x, X, i, j))
            /\ Maslov(x) \in Int /\ Maslov(y) = Maslov(x) - 1
            /\ Alexander(x) \in Int /\ Alexander(y) = Alexander(x) - w
<1> DEFINE y == Transpose(x, i, j)
           w == Cardinality(Covered(x, X, i, j))
<1>1. Covered(x, O, i, j) = {}
  <2>1. O \in [Rows -> Rows] /\ OCells \in SUBSET (Rows \X Rows)
    BY DEF OCells, Generators
  <2>2. \A c \in OCells : ~(InBand(c[1], i, j) /\ InBand(c[2], x[i], x[j]))
    BY <2>1, RectanglesAre
  <2>3. \A k \in Rows : <<k, O[k]>> \in OCells
    BY DEF OCells
  <2>4. \A k \in Rows : ~(InBand(k, i, j) /\ InBand(O[k], x[i], x[j]))
    BY <2>2, <2>3
  <2> QED
    BY <2>4 DEF Covered
<1>2. Cardinality(Covered(x, O, i, j)) = 0
  BY <1>1, FS_EmptySet
<1>3. /\ MaslovRel(x, O) \in Int /\ MaslovRel(y, O) = MaslovRel(x, O) - 1
  BY <1>2, GradingChange
<1>4. /\ w \in Nat /\ IsFiniteSet(Covered(x, X, i, j))
      /\ MaslovRel(x, X) \in Int /\ MaslovRel(y, X) = MaslovRel(x, X) - 1 + 2 * w
  BY GradingChange
<1> HIDE DEF y, w
<1>5. Alexander(x) \in Int /\ Alexander(y) = Alexander(x) - w
  <2> DEFINE p == MaslovRel(x, O)
             q == MaslovRel(x, X)
             d == p - q - (N - 1)
  <2>1. p \in Int /\ q \in Int /\ MaslovRel(y, O) = p - 1 /\ MaslovRel(y, X) = q - 1 + 2 * w /\ w \in Int /\ N \in Int
    BY <1>3, <1>4
  <2> HIDE DEF p, q
  <2>2. d \in Int /\ (p - 1) - (q - 1 + 2 * w) - (N - 1) = d - 2 * w
    BY <2>1
  <2>3. Alexander(x) = d \div 2
    BY DEF Alexander, p, q
  <2>4. Alexander(y) = (d - 2 * w) \div 2
    BY <2>1, <2>2 DEF Alexander
  <2> HIDE DEF d
  <2>5. (d - 2 * w) \div 2 = (d \div 2) - w /\ d \div 2 \in Int
    BY <2>1, <2>2, HalfOfEven
  <2> QED
    BY <2>3, <2>4, <2>5
<1> QED
  BY <1>3, <1>4, <1>5 DEF Maslov, y, w

(* Both differentials of a grid of any size lower the Maslov grading by    *)
(* one.  The one whose rectangles avoid every marker keeps the Alexander   *)
(* grading, so that the complex splits into the shards the jobs reduce;    *)
(* the one whose rectangles avoid the O markers alone never raises it, so  *)
(* that it is filtered.  test_floer_homology.py:28 sweeps the first on the *)
(* generators of two knots; nothing tests the second.                      *)
THEOREM DifferentialsRespectGradings ==
  ASSUME N \in Nat \ {0}, ValidGrid, NEW x \in Generators
  PROVE  /\ Differential(x) \subseteq Generators /\ FilteredDifferential(x) \subseteq Generators
         /\ \A y \in Differential(x) : Maslov(y) = Maslov(x) - 1 /\ Alexander(y) = Alexander(x)
         /\ \A y \in FilteredDifferential(x) : Maslov(y) = Maslov(x) - 1 /\ Alexander(y) <= Alexander(x)
<1>1. O \in Generators /\ X \in Generators
  BY DEF ValidGrid, IsPermutation, Generators
<1>2. ASSUME NEW y \in FilteredDifferential(x)
      PROVE  y \in Generators /\ Maslov(y) = Maslov(x) - 1 /\ Alexander(y) <= Alexander(x)
  <2>1. PICK ij \in Rectangles(x, OCells) : y = Transpose(x, ij[1], ij[2])
    BY DEF FilteredDifferential, ReduceMod2, TargetsOf
  <2>2. /\ ij[1] \in Rows /\ ij[2] \in Rows /\ ij[1] # ij[2]
        /\ Empty(x, ij[1], ij[2]) /\ Avoids(x, ij[1], ij[2], OCells)
    BY DEF Rectangles
  <2>3. y \in Generators
    BY <2>1, <2>2, TransposeTwice
  <2> DEFINE w == Cardinality(Covered(x, X, ij[1], ij[2]))
  <2>4. /\ w \in Nat /\ Maslov(y) = Maslov(x) - 1
        /\ Alexander(x) \in Int /\ Alexander(y) = Alexander(x) - w
    BY <1>1, <2>1, <2>2, TargetGradings
  <2> HIDE DEF w
  <2> QED
    BY <2>3, <2>4
<1>3. ASSUME NEW y \in Differential(x)
      PROVE  y \in Generators /\ Maslov(y) = Maslov(x) - 1 /\ Alexander(y) = Alexander(x)
  <2>1. PICK ij \in Rectangles(x, MarkerCells) : y = Transpose(x, ij[1], ij[2])
    BY DEF Differential, ReduceMod2, TargetsOf
  <2> DEFINE i == ij[1]
             j == ij[2]
  <2>2. i \in Rows /\ j \in Rows /\ i # j /\ Empty(x, i, j) /\ Avoids(x, i, j, MarkerCells)
    BY DEF Rectangles
  <2> HIDE DEF i, j
  <2>3. Avoids(x, i, j, OCells)
    BY <2>2 DEF Avoids, MarkerCells
  <2>4. y = Transpose(x, i, j) /\ y \in Generators
    BY <2>1, <2>2, TransposeTwice DEF i, j
  <2>5. Covered(x, X, i, j) = {}
    <3>1. X \in [Rows -> Rows] /\ O \in [Rows -> Rows]
      BY <1>1, RowFacts
    <3>2. MarkerCells \in SUBSET (Rows \X Rows) /\ \A k \in Rows : <<k, X[k]>> \in MarkerCells
      BY <3>1 DEF MarkerCells, OCells
    <3>3. \A c \in MarkerCells : ~(InBand(c[1], i, j) /\ InBand(c[2], x[i], x[j]))
      BY <2>2, <3>2, RectanglesAre
    <3>4. \A k \in Rows : ~(InBand(k, i, j) /\ InBand(X[k], x[i], x[j]))
      BY <3>2, <3>3
    <3> QED
      BY <3>4 DEF Covered
  <2> DEFINE w == Cardinality(Covered(x, X, i, j))
  <2>6. w = 0
    BY <2>5, FS_EmptySet
  <2>7. /\ w \in Nat /\ Maslov(y) = Maslov(x) - 1
        /\ Alexander(x) \in Int /\ Alexander(y) = Alexander(x) - w
    BY <1>1, <2>2, <2>3, <2>4, TargetGradings
  <2> HIDE DEF w
  <2> QED
    BY <2>4, <2>6, <2>7
<1> QED
  BY <1>2, <1>3

-----------------------------------------------------------------------------
(* The differentials square to zero.  Rectangles one after the other.      *)
Chain(x, i, j, k, l, cells) ==
  <<i, j>> \in Rectangles(x, cells) /\ <<k, l>> \in Rectangles(Transpose(x, i, j), cells)
End(x, i, j, k, l) == Transpose(Transpose(x, i, j), k, l)
Chains(x, z, cells) ==
  {q \in (Rows \X Rows) \X (Rows \X Rows) :
     Chain(x, q[1][1], q[1][2], q[2][1], q[2][2], cells) /\ End(x, q[1][1], q[1][2], q[2][1], q[2][2]) = z}

(* The other way to cut what the two rectangles cover: in the other order  *)
(* when they share no row, else along the other edge from the corner.      *)
PartnerOf(x, i, j, k, l) ==
  IF k # i /\ k # j /\ l # i /\ l # j THEN <<<<k, l>>, <<i, j>>>>
  ELSE IF k = i THEN IF WithinBand(j, i, l) THEN <<<<j, l>>, <<i, j>>>> ELSE <<<<i, l>>, <<l, j>>>>
  ELSE IF l = j THEN IF WithinBand(i, k, j) THEN <<<<k, i>>, <<i, j>>>> ELSE <<<<k, j>>, <<i, k>>>>
  ELSE IF k = j THEN IF WithinBand(x[l], x[i], x[j]) THEN <<<<i, l>>, <<i, j>>>> ELSE <<<<j, l>>, <<i, l>>>>
  ELSE IF WithinBand(x[i], x[k], x[j]) THEN <<<<k, i>>, <<k, j>>>> ELSE <<<<k, j>>, <<i, j>>>>
Partner(x, q) == PartnerOf(x, q[1][1], q[1][2], q[2][1], q[2][2])

(* Nothing of a set lies in a rectangle of rows from i and columns from a. *)
Void(S, i, j, a, b) == \A c \in S : ~(InBand(c[1], i, j) /\ InBand(c[2], a, b))
(* What a rectangle may not hold, the points of its own rows aside.        *)
Foreign(x, own, cells) == cells \cup {<<t, x[t]>> : t \in Rows \ own}

(* Three lines on a circle come in one of two orders.                      *)
LEMMA TwoOrders ==
  ASSUME NEW a \in Int, NEW b \in Int, NEW c \in Int, a # b, b # c, a # c
  PROVE  /\ WithinBand(b, a, c) <=> WithinBand(c, b, a)
         /\ WithinBand(b, a, c) <=> WithinBand(a, c, b)
         /\ WithinBand(c, a, b) <=> ~WithinBand(b, a, c)
         /\ WithinBand(c, a, b) <=> WithinBand(b, c, a)
         /\ WithinBand(c, a, b) <=> WithinBand(a, b, c)
BY DEF WithinBand

(* A band is two, cut at a line within it.                                 *)
LEMMA BandSplits ==
  ASSUME NEW a \in Int, NEW b \in Int, NEW c \in Int, NEW t \in Int, WithinBand(b, a, c), a # c
  PROVE  InBand(t, a, c) <=> (InBand(t, a, b) \/ InBand(t, b, c))
BY DEF WithinBand, InBand

(* The four ways an L-shaped region is cut in two.                         *)
LEMMA CutsOfACorner ==
  ASSUME NEW S, S \subseteq Int \X Int,
         NEW i \in Int, NEW j \in Int, NEW k \in Int, WithinBand(j, i, k), i # k,
         NEW a \in Int, NEW b \in Int, NEW c \in Int, WithinBand(b, a, c), a # c
  PROVE  /\ Void(S, i, j, a, b) /\ Void(S, i, k, b, c) <=> Void(S, j, k, b, c) /\ Void(S, i, j, a, c)
         /\ Void(S, i, j, a, b) /\ Void(S, j, k, a, c) <=> Void(S, j, k, b, c) /\ Void(S, i, k, a, b)
         /\ Void(S, i, k, a, b) /\ Void(S, i, j, b, c) <=> Void(S, i, j, a, c) /\ Void(S, j, k, a, b)
         /\ Void(S, i, k, b, c) /\ Void(S, j, k, a, b) <=> Void(S, j, k, a, c) /\ Void(S, i, j, b, c)
<1>1. \A s \in S : s[1] \in Int /\ s[2] \in Int
  OBVIOUS
<1>2. \A s \in S : InBand(s[1], i, k) <=> (InBand(s[1], i, j) \/ InBand(s[1], j, k))
  BY <1>1, BandSplits
<1>3. \A s \in S : InBand(s[2], a, c) <=> (InBand(s[2], a, b) \/ InBand(s[2], b, c))
  BY <1>1, BandSplits
<1> QED
  BY <1>2, <1>3, Zenon DEF Void

(* A rectangle counts when it holds nothing foreign and none of the points *)
(* of the rows told apart.                                                 *)
LEMMA RectangleIs ==
  ASSUME N \in Nat \ {0}, NEW x \in Generators, NEW cells \in SUBSET (Rows \X Rows),
         NEW own \in SUBSET Rows, NEW i \in own, NEW j \in own, i # j
  PROVE  <<i, j>> \in Rectangles(x, cells) <=>
           /\ Void(Foreign(x, own, cells), i, j, x[i], x[j])
           /\ \A k \in own \ {i, j} : ~(WithinBand(k, i, j) /\ WithinBand(x[k], x[i], x[j]))
<1>1. /\ i \in Rows /\ j \in Rows /\ \A k \in Rows : k \in Int /\ x[k] \in Int
      /\ \A k, l \in Rows : x[k] = x[l] => k = l
  BY RowFacts
<1>2. <<i, j>> \in Rectangles(x, cells) <=> Empty(x, i, j) /\ Avoids(x, i, j, cells)
  BY <1>1 DEF Rectangles
<1>3. Empty(x, i, j) <=> \A k \in Rows : ~(WithinBand(k, i, j) /\ WithinBand(x[k], x[i], x[j]))
  BY <1>1, RectanglesAre
<1>4. Avoids(x, i, j, cells) <=> Void(cells, i, j, x[i], x[j])
  BY <1>1, RectanglesAre DEF Void
<1>5. ASSUME NEW k \in Rows \ own
      PROVE  WithinBand(k, i, j) /\ WithinBand(x[k], x[i], x[j]) <=> InBand(k, i, j) /\ InBand(x[k], x[i], x[j])
  <2>1. k # i /\ k # j /\ x[k] # x[i] /\ x[k] # x[j] /\ x[i] # x[j]
    BY <1>1
  <2> QED BY <1>1, <2>1 DEF WithinBand, InBand
<1>6. ~WithinBand(i, i, j) /\ ~WithinBand(j, i, j)
  BY <1>1 DEF WithinBand
<1>7. (\A k \in Rows : ~(WithinBand(k, i, j) /\ WithinBand(x[k], x[i], x[j]))) <=>
        /\ \A k \in own \ {i, j} : ~(WithinBand(k, i, j) /\ WithinBand(x[k], x[i], x[j]))
        /\ \A k \in Rows \ own : ~(InBand(k, i, j) /\ InBand(x[k], x[i], x[j]))
  BY <1>5, <1>6
<1>8. Void(Foreign(x, own, cells), i, j, x[i], x[j]) <=>
        /\ Void(cells, i, j, x[i], x[j])
        /\ \A k \in Rows \ own : ~(InBand(k, i, j) /\ InBand(x[k], x[i], x[j]))
  <2> DEFINE F == Foreign(x, own, cells)
  <2>1. cells \subseteq F /\ \A c \in F : c \in cells \/ \E k \in Rows \ own : c = <<k, x[k]>>
    BY DEF Foreign
  <2>2. \A k \in Rows \ own : <<k, x[k]>> \in F /\ <<k, x[k]>>[1] = k /\ <<k, x[k]>>[2] = x[k]
    BY DEF Foreign
  <2> HIDE DEF F
  <2>3. Void(F, i, j, x[i], x[j]) <=>
          /\ Void(cells, i, j, x[i], x[j])
          /\ \A k \in Rows \ own : ~(InBand(k, i, j) /\ InBand(x[k], x[i], x[j]))
    <3>1. ASSUME Void(F, i, j, x[i], x[j]), NEW k \in Rows \ own
          PROVE  ~(InBand(k, i, j) /\ InBand(x[k], x[i], x[j]))
      BY <2>2, <3>1 DEF Void
    <3>2. ASSUME Void(F, i, j, x[i], x[j])
          PROVE  Void(cells, i, j, x[i], x[j])
      BY <2>1, <3>2 DEF Void
    <3>3. ASSUME Void(cells, i, j, x[i], x[j]), NEW c \in F,
                 \A k \in Rows \ own : ~(InBand(k, i, j) /\ InBand(x[k], x[i], x[j]))
          PROVE  ~(InBand(c[1], i, j) /\ InBand(c[2], x[i], x[j]))
      <4>1. CASE c \in cells
        BY <3>3, <4>1 DEF Void
      <4>2. CASE \E k \in Rows \ own : c = <<k, x[k]>>
        BY <2>2, <3>3, <4>2
      <4> QED BY <2>1, <4>1, <4>2
    <3>4. ASSUME Void(cells, i, j, x[i], x[j]),
                 \A k \in Rows \ own : ~(InBand(k, i, j) /\ InBand(x[k], x[i], x[j]))
          PROVE  Void(F, i, j, x[i], x[j])
      BY <3>3, <3>4 DEF Void
    <3> QED BY <3>1, <3>2, <3>4
  <2> QED BY <2>3 DEF F
<1> QED BY <1>2, <1>3, <1>4, <1>7, <1>8

(* Two rectangles one after the other, in terms of the points they start   *)
(* from.                                                                   *)
LEMMA ChainIs ==
  ASSUME N \in Nat \ {0}, NEW x \in Generators, NEW cells \in SUBSET (Rows \X Rows),
         NEW own \in SUBSET Rows, NEW i \in own, NEW j \in own, i # j, NEW k \in own, NEW l \in own, k # l
  PROVE  LET y == Transpose(x, i, j)
             F == Foreign(x, own, cells)
         IN  Chain(x, i, j, k, l, cells) <=>
               /\ Void(F, i, j, x[i], x[j]) /\ Void(F, k, l, y[k], y[l])
               /\ \A m \in own \ {i, j} : ~(WithinBand(m, i, j) /\ WithinBand(x[m], x[i], x[j]))
               /\ \A m \in own \ {k, l} : ~(WithinBand(m, k, l) /\ WithinBand(y[m], y[k], y[l]))
<1> DEFINE y == Transpose(x, i, j)
<1>1. y \in Generators /\ \A m \in Rows \ {i, j} : y[m] = x[m]
  BY TransposeTwice
<1>2. Foreign(y, own, cells) = Foreign(x, own, cells)
  BY <1>1 DEF Foreign
<1> HIDE DEF y
<1>3. <<i, j>> \in Rectangles(x, cells) <=>
           /\ Void(Foreign(x, own, cells), i, j, x[i], x[j])
           /\ \A m \in own \ {i, j} : ~(WithinBand(m, i, j) /\ WithinBand(x[m], x[i], x[j]))
  BY RectangleIs
<1>4. <<k, l>> \in Rectangles(y, cells) <=>
           /\ Void(Foreign(y, own, cells), k, l, y[k], y[l])
           /\ \A m \in own \ {k, l} : ~(WithinBand(m, k, l) /\ WithinBand(y[m], y[k], y[l]))
  BY <1>1, RectangleIs
<1> QED BY <1>2, <1>3, <1>4 DEF Chain, y

(* What may not be held is a set of cells and of points, on the grid.      *)
LEMMA ForeignIsOnTheGrid ==
  ASSUME N \in Nat \ {0}, NEW x \in Generators, NEW cells \in SUBSET (Rows \X Rows), NEW own
  PROVE  Foreign(x, own, cells) \subseteq Int \X Int
<1>1. \A k \in Rows : k \in Int /\ x[k] \in Int
  BY RowFacts
<1> QED BY <1>1 DEF Foreign

(* Two rectangles that share one row.                                      *)
LEMMA ChainsOfThree ==
  ASSUME N \in Nat \ {0}, NEW x \in Generators, NEW cells \in SUBSET (Rows \X Rows),
         NEW i \in Rows, NEW j \in Rows, NEW k \in Rows, i # j, j # k, i # k
  PROVE  LET F == Foreign(x, {i, j, k}, cells)
             clear == Void(F, i, j, x[i], x[j]) /\ ~(WithinBand(k, i, j) /\ WithinBand(x[k], x[i], x[j]))
         IN  /\ Chain(x, i, j, i, k, cells) <=>
                  clear /\ Void(F, i, k, x[j], x[k]) /\ ~(WithinBand(j, i, k) /\ WithinBand(x[i], x[j], x[k]))
             /\ Chain(x, i, j, j, k, cells) <=>
                  clear /\ Void(F, j, k, x[i], x[k]) /\ ~(WithinBand(i, j, k) /\ WithinBand(x[j], x[i], x[k]))
             /\ Chain(x, i, j, k, i, cells) <=>
                  clear /\ Void(F, k, i, x[k], x[j]) /\ ~(WithinBand(j, k, i) /\ WithinBand(x[i], x[k], x[j]))
             /\ Chain(x, i, j, k, j, cells) <=>
                  clear /\ Void(F, k, j, x[k], x[i]) /\ ~(WithinBand(i, k, j) /\ WithinBand(x[j], x[k], x[i]))
<1> DEFINE y == Transpose(x, i, j)
           own == {i, j, k}
           F == Foreign(x, own, cells)
<1>1. y[i] = x[j] /\ y[j] = x[i] /\ y[k] = x[k]
  BY TransposeTwice
<1>2. /\ own \in SUBSET Rows /\ i \in own /\ j \in own /\ k \in own
      /\ own \ {i, j} = {k} /\ own \ {i, k} = {j} /\ own \ {j, k} = {i} /\ own \ {k, i} = {j} /\ own \ {k, j} = {i}
  OBVIOUS
<1> HIDE DEF own
<1>3. ASSUME NEW a \in own, NEW b \in own, a # b
      PROVE  Chain(x, i, j, a, b, cells) <=>
               /\ Void(F, i, j, x[i], x[j]) /\ Void(F, a, b, y[a], y[b])
               /\ \A m \in own \ {i, j} : ~(WithinBand(m, i, j) /\ WithinBand(x[m], x[i], x[j]))
               /\ \A m \in own \ {a, b} : ~(WithinBand(m, a, b) /\ WithinBand(y[m], y[a], y[b]))
  <2>1. a # b /\ a \in own /\ b \in own
    BY <1>3
  <2> HIDE DEF y
  <2>2. Chain(x, i, j, a, b, cells) <=>
               /\ Void(Foreign(x, own, cells), i, j, x[i], x[j])
               /\ Void(Foreign(x, own, cells), a, b, Transpose(x, i, j)[a], Transpose(x, i, j)[b])
               /\ \A m \in own \ {i, j} : ~(WithinBand(m, i, j) /\ WithinBand(x[m], x[i], x[j]))
               /\ \A m \in own \ {a, b} :
                    ~(WithinBand(m, a, b)
                        /\ WithinBand(Transpose(x, i, j)[m], Transpose(x, i, j)[a], Transpose(x, i, j)[b]))
    BY <1>2, <2>1, ChainIs
  <2> QED BY <2>2 DEF y
<1> HIDE DEF F, y
<1>4. Chain(x, i, j, i, k, cells) <=>
        /\ Void(F, i, j, x[i], x[j]) /\ Void(F, i, k, x[j], x[k])
        /\ ~(WithinBand(k, i, j) /\ WithinBand(x[k], x[i], x[j])) /\ ~(WithinBand(j, i, k) /\ WithinBand(x[i], x[j], x[k]))
  BY <1>1, <1>2, <1>3
<1>5. Chain(x, i, j, j, k, cells) <=>
        /\ Void(F, i, j, x[i], x[j]) /\ Void(F, j, k, x[i], x[k])
        /\ ~(WithinBand(k, i, j) /\ WithinBand(x[k], x[i], x[j])) /\ ~(WithinBand(i, j, k) /\ WithinBand(x[j], x[i], x[k]))
  BY <1>1, <1>2, <1>3
<1>6. Chain(x, i, j, k, i, cells) <=>
        /\ Void(F, i, j, x[i], x[j]) /\ Void(F, k, i, x[k], x[j])
        /\ ~(WithinBand(k, i, j) /\ WithinBand(x[k], x[i], x[j])) /\ ~(WithinBand(j, k, i) /\ WithinBand(x[i], x[k], x[j]))
  BY <1>1, <1>2, <1>3
<1>7. Chain(x, i, j, k, j, cells) <=>
        /\ Void(F, i, j, x[i], x[j]) /\ Void(F, k, j, x[k], x[i])
        /\ ~(WithinBand(k, i, j) /\ WithinBand(x[k], x[i], x[j])) /\ ~(WithinBand(i, k, j) /\ WithinBand(x[j], x[k], x[i]))
  BY <1>1, <1>2, <1>3
<1> QED BY <1>4, <1>5, <1>6, <1>7 DEF F, own

(* When the columns go round as the rows do, the first rectangle goes up to*)
(* the next row and the region is cut along its right or its upper edge.   *)
LEMMA CutsAlong ==
  ASSUME N \in Nat \ {0}, NEW x \in Generators, NEW cells \in SUBSET (Rows \X Rows),
         NEW i \in Rows, NEW j \in Rows, NEW k \in Rows, i # j, j # k, i # k,
         WithinBand(j, i, k), WithinBand(x[j], x[i], x[k])
  PROVE  /\ Chain(x, i, j, i, k, cells) <=> Chain(x, j, k, i, j, cells)
         /\ Chain(x, i, j, j, k, cells) <=> Chain(x, j, k, i, k, cells)
<1> DEFINE F == Foreign(x, {i, j, k}, cells)
           a == x[i]
           b == x[j]
           c == x[k]
<1>1. {j, k, i} = {i, j, k}
  OBVIOUS
<1>2. /\ Chain(x, i, j, i, k, cells) <=>
           /\ Void(F, i, j, a, b) /\ ~(WithinBand(k, i, j) /\ WithinBand(c, a, b))
           /\ Void(F, i, k, b, c) /\ ~(WithinBand(j, i, k) /\ WithinBand(a, b, c))
      /\ Chain(x, i, j, j, k, cells) <=>
           /\ Void(F, i, j, a, b) /\ ~(WithinBand(k, i, j) /\ WithinBand(c, a, b))
           /\ Void(F, j, k, a, c) /\ ~(WithinBand(i, j, k) /\ WithinBand(b, a, c))
  BY ChainsOfThree
<1>3. /\ Chain(x, j, k, i, j, cells) <=>
           /\ Void(F, j, k, b, c) /\ ~(WithinBand(i, j, k) /\ WithinBand(a, b, c))
           /\ Void(F, i, j, a, c) /\ ~(WithinBand(k, i, j) /\ WithinBand(b, a, c))
      /\ Chain(x, j, k, i, k, cells) <=>
           /\ Void(F, j, k, b, c) /\ ~(WithinBand(i, j, k) /\ WithinBand(a, b, c))
           /\ Void(F, i, k, a, b) /\ ~(WithinBand(j, i, k) /\ WithinBand(c, a, b))
  <2>1. /\ Chain(x, j, k, i, j, cells) <=>
           /\ Void(Foreign(x, {j, k, i}, cells), j, k, b, c) /\ ~(WithinBand(i, j, k) /\ WithinBand(a, b, c))
           /\ Void(Foreign(x, {j, k, i}, cells), i, j, a, c) /\ ~(WithinBand(k, i, j) /\ WithinBand(b, a, c))
        /\ Chain(x, j, k, i, k, cells) <=>
           /\ Void(Foreign(x, {j, k, i}, cells), j, k, b, c) /\ ~(WithinBand(i, j, k) /\ WithinBand(a, b, c))
           /\ Void(Foreign(x, {j, k, i}, cells), i, k, a, b) /\ ~(WithinBand(j, i, k) /\ WithinBand(c, a, b))
    BY ChainsOfThree
  <2> QED BY <1>1, <2>1
<1>4. /\ F \subseteq Int \X Int /\ i \in Int /\ j \in Int /\ k \in Int
      /\ a \in Int /\ b \in Int /\ c \in Int /\ a # b /\ b # c /\ a # c
  BY RowFacts, ForeignIsOnTheGrid
<1> HIDE DEF F
<1>5. WithinBand(j, i, k) /\ WithinBand(b, a, c)
  OBVIOUS
<1> HIDE DEF a, b, c
<1>6. /\ ~WithinBand(k, i, j) /\ ~WithinBand(i, j, k)
      /\ ~WithinBand(c, a, b) /\ ~WithinBand(a, b, c)
  BY <1>4, <1>5, TwoOrders
<1>7. /\ Void(F, i, j, a, b) /\ Void(F, i, k, b, c) <=> Void(F, j, k, b, c) /\ Void(F, i, j, a, c)
      /\ Void(F, i, j, a, b) /\ Void(F, j, k, a, c) <=> Void(F, j, k, b, c) /\ Void(F, i, k, a, b)
  BY <1>4, <1>5, CutsOfACorner
<1> QED BY <1>2, <1>3, <1>6, <1>7

(* When they go round the other way, it is cut along the others.           *)
LEMMA CutsAgainst ==
  ASSUME N \in Nat \ {0}, NEW x \in Generators, NEW cells \in SUBSET (Rows \X Rows),
         NEW i \in Rows, NEW j \in Rows, NEW k \in Rows, i # j, j # k, i # k,
         WithinBand(j, i, k), WithinBand(x[k], x[i], x[j])
  PROVE  /\ Chain(x, i, k, i, j, cells) <=> Chain(x, i, j, j, k, cells)
         /\ Chain(x, i, k, j, k, cells) <=> Chain(x, j, k, i, j, cells)
<1> DEFINE F == Foreign(x, {i, j, k}, cells)
           a == x[i]
           b == x[j]
           c == x[k]
<1>1. {j, k, i} = {i, j, k} /\ {i, k, j} = {i, j, k}
  OBVIOUS
<1>2. Chain(x, i, j, j, k, cells) <=>
           /\ Void(F, i, j, a, b) /\ ~(WithinBand(k, i, j) /\ WithinBand(c, a, b))
           /\ Void(F, j, k, a, c) /\ ~(WithinBand(i, j, k) /\ WithinBand(b, a, c))
  BY ChainsOfThree
<1>3. Chain(x, j, k, i, j, cells) <=>
           /\ Void(F, j, k, b, c) /\ ~(WithinBand(i, j, k) /\ WithinBand(a, b, c))
           /\ Void(F, i, j, a, c) /\ ~(WithinBand(k, i, j) /\ WithinBand(b, a, c))
  <2>1. Chain(x, j, k, i, j, cells) <=>
           /\ Void(Foreign(x, {j, k, i}, cells), j, k, b, c) /\ ~(WithinBand(i, j, k) /\ WithinBand(a, b, c))
           /\ Void(Foreign(x, {j, k, i}, cells), i, j, a, c) /\ ~(WithinBand(k, i, j) /\ WithinBand(b, a, c))
    BY ChainsOfThree
  <2> QED BY <1>1, <2>1
<1>4. /\ Chain(x, i, k, i, j, cells) <=>
           /\ Void(F, i, k, a, c) /\ ~(WithinBand(j, i, k) /\ WithinBand(b, a, c))
           /\ Void(F, i, j, c, b) /\ ~(WithinBand(k, i, j) /\ WithinBand(a, c, b))
      /\ Chain(x, i, k, j, k, cells) <=>
           /\ Void(F, i, k, a, c) /\ ~(WithinBand(j, i, k) /\ WithinBand(b, a, c))
           /\ Void(F, j, k, b, a) /\ ~(WithinBand(i, j, k) /\ WithinBand(c, b, a))
  <2>1. /\ Chain(x, i, k, i, j, cells) <=>
           /\ Void(Foreign(x, {i, k, j}, cells), i, k, a, c) /\ ~(WithinBand(j, i, k) /\ WithinBand(b, a, c))
           /\ Void(Foreign(x, {i, k, j}, cells), i, j, c, b) /\ ~(WithinBand(k, i, j) /\ WithinBand(a, c, b))
        /\ Chain(x, i, k, j, k, cells) <=>
           /\ Void(Foreign(x, {i, k, j}, cells), i, k, a, c) /\ ~(WithinBand(j, i, k) /\ WithinBand(b, a, c))
           /\ Void(Foreign(x, {i, k, j}, cells), j, k, b, a) /\ ~(WithinBand(i, j, k) /\ WithinBand(c, b, a))
    BY ChainsOfThree
  <2> QED BY <1>1, <2>1
<1>5. /\ F \subseteq Int \X Int /\ i \in Int /\ j \in Int /\ k \in Int
      /\ a \in Int /\ b \in Int /\ c \in Int /\ a # b /\ b # c /\ a # c
  BY RowFacts, ForeignIsOnTheGrid
<1> HIDE DEF F
<1>6. WithinBand(j, i, k) /\ WithinBand(c, a, b)
  OBVIOUS
<1> HIDE DEF a, b, c
<1>7. /\ ~WithinBand(k, i, j) /\ ~WithinBand(i, j, k)
      /\ ~WithinBand(b, a, c) /\ ~WithinBand(a, c, b) /\ WithinBand(a, b, c)
  BY <1>5, <1>6, TwoOrders
<1>8. Void(F, i, k, a, c) /\ Void(F, i, j, c, b) <=> Void(F, i, j, a, b) /\ Void(F, j, k, a, c)
  BY <1>5, <1>6, CutsOfACorner
<1>9. Void(F, i, k, a, c) /\ Void(F, j, k, b, a) <=> Void(F, j, k, b, c) /\ Void(F, i, j, a, c)
  BY <1>5, <1>6, <1>7, CutsOfACorner
<1> QED BY <1>2, <1>3, <1>4, <1>7, <1>8, <1>9

(* Both ways of cutting come to the same generator.                        *)
LEMMA CutsMeet ==
  ASSUME N \in Nat \ {0}, NEW x \in Generators,
         NEW i \in Rows, NEW j \in Rows, NEW k \in Rows, i # j, j # k, i # k
  PROVE  /\ End(x, i, j, i, k) = End(x, j, k, i, j)
         /\ End(x, i, j, j, k) = End(x, j, k, i, k)
         /\ End(x, i, k, i, j) = End(x, i, j, j, k)
         /\ End(x, i, k, j, k) = End(x, j, k, i, j)
<1>1. x \in [Rows -> Rows]
  BY RowFacts
<1>2. End(x, i, j, i, k) = End(x, j, k, i, j)
  BY <1>1 DEF End, Transpose
<1>3. End(x, i, j, j, k) = End(x, j, k, i, k)
  BY <1>1 DEF End, Transpose
<1>4. End(x, i, k, i, j) = End(x, i, j, j, k)
  BY <1>1 DEF End, Transpose
<1>5. End(x, i, k, j, k) = End(x, j, k, i, j)
  BY <1>1 DEF End, Transpose
<1> QED BY <1>2, <1>3, <1>4, <1>5

(* Of two rectangles that share no line of points either may come first.   *)
LEMMA OrdersMix ==
  ASSUME NEW i \in Int, NEW j \in Int, NEW k \in Int, NEW l \in Int,
         i # j, i # k, i # l, j # k, j # l, k # l,
         NEW a \in Int, NEW b \in Int, NEW c \in Int, NEW d \in Int,
         a # b, a # c, a # d, b # c, b # d, c # d,
         ~(WithinBand(k, i, j) /\ WithinBand(c, a, b)), ~(WithinBand(l, i, j) /\ WithinBand(d, a, b)),
         ~(WithinBand(i, k, l) /\ WithinBand(b, c, d)), ~(WithinBand(j, k, l) /\ WithinBand(a, c, d))
  PROVE  /\ ~(WithinBand(i, k, l) /\ WithinBand(a, c, d)) /\ ~(WithinBand(j, k, l) /\ WithinBand(b, c, d))
         /\ ~(WithinBand(k, i, j) /\ WithinBand(d, a, b)) /\ ~(WithinBand(l, i, j) /\ WithinBand(c, a, b))
<1>1. ASSUME NEW p \in Int, NEW q \in Int, NEW r \in Int, NEW s \in Int,
             p # q, p # r, p # s, q # r, q # s, r # s
      PROVE  /\ WithinBand(p, r, s) /\ ~WithinBand(q, r, s) => ~WithinBand(r, p, q) /\ WithinBand(s, p, q)
             /\ WithinBand(q, r, s) /\ ~WithinBand(p, r, s) => WithinBand(r, p, q) /\ ~WithinBand(s, p, q)
  BY <1>1 DEF WithinBand
<1>2. /\ WithinBand(i, k, l) /\ ~WithinBand(j, k, l) => ~WithinBand(k, i, j) /\ WithinBand(l, i, j)
      /\ WithinBand(j, k, l) /\ ~WithinBand(i, k, l) => WithinBand(k, i, j) /\ ~WithinBand(l, i, j)
      /\ WithinBand(k, i, j) /\ ~WithinBand(l, i, j) => ~WithinBand(i, k, l) /\ WithinBand(j, k, l)
      /\ WithinBand(l, i, j) /\ ~WithinBand(k, i, j) => WithinBand(i, k, l) /\ ~WithinBand(j, k, l)
  BY <1>1
<1>3. /\ WithinBand(a, c, d) /\ ~WithinBand(b, c, d) => ~WithinBand(c, a, b) /\ WithinBand(d, a, b)
      /\ WithinBand(b, c, d) /\ ~WithinBand(a, c, d) => WithinBand(c, a, b) /\ ~WithinBand(d, a, b)
      /\ WithinBand(c, a, b) /\ ~WithinBand(d, a, b) => ~WithinBand(a, c, d) /\ WithinBand(b, c, d)
      /\ WithinBand(d, a, b) /\ ~WithinBand(c, a, b) => WithinBand(a, c, d) /\ ~WithinBand(b, c, d)
  BY <1>1
<1> QED BY <1>2, <1>3

LEMMA CutsApart ==
  ASSUME N \in Nat \ {0}, NEW x \in Generators, NEW cells \in SUBSET (Rows \X Rows),
         NEW i \in Rows, NEW j \in Rows, NEW k \in Rows, NEW l \in Rows,
         i # j, i # k, i # l, j # k, j # l, k # l, Chain(x, i, j, k, l, cells)
  PROVE  Chain(x, k, l, i, j, cells) /\ End(x, k, l, i, j) = End(x, i, j, k, l)
<1> DEFINE own == {i, j, k, l}
           F == Foreign(x, own, cells)
           y == Transpose(x, i, j)
           w == Transpose(x, k, l)
<1>1. /\ own \in SUBSET Rows /\ i \in own /\ j \in own /\ k \in own /\ l \in own
      /\ own \ {i, j} = {k, l} /\ own \ {k, l} = {i, j}
  OBVIOUS
<1>2. /\ y[i] = x[j] /\ y[j] = x[i] /\ y[k] = x[k] /\ y[l] = x[l]
      /\ w[k] = x[l] /\ w[l] = x[k] /\ w[i] = x[i] /\ w[j] = x[j]
  BY TransposeTwice
<1> HIDE DEF own
<1>3. Chain(x, i, j, k, l, cells) <=>
        /\ Void(F, i, j, x[i], x[j]) /\ Void(F, k, l, y[k], y[l])
        /\ \A m \in own \ {i, j} : ~(WithinBand(m, i, j) /\ WithinBand(x[m], x[i], x[j]))
        /\ \A m \in own \ {k, l} : ~(WithinBand(m, k, l) /\ WithinBand(y[m], y[k], y[l]))
  BY <1>1, ChainIs
<1>4. Chain(x, k, l, i, j, cells) <=>
        /\ Void(F, k, l, x[k], x[l]) /\ Void(F, i, j, w[i], w[j])
        /\ \A m \in own \ {k, l} : ~(WithinBand(m, k, l) /\ WithinBand(x[m], x[k], x[l]))
        /\ \A m \in own \ {i, j} : ~(WithinBand(m, i, j) /\ WithinBand(w[m], w[i], w[j]))
  BY <1>1, ChainIs
<1> HIDE DEF F, y, w
<1>5. /\ i \in Int /\ j \in Int /\ k \in Int /\ l \in Int
      /\ x[i] \in Int /\ x[j] \in Int /\ x[k] \in Int /\ x[l] \in Int
      /\ x[i] # x[j] /\ x[i] # x[k] /\ x[i] # x[l] /\ x[j] # x[k] /\ x[j] # x[l] /\ x[k] # x[l]
  BY RowFacts
<1>6. /\ ~(WithinBand(k, i, j) /\ WithinBand(x[k], x[i], x[j])) /\ ~(WithinBand(l, i, j) /\ WithinBand(x[l], x[i], x[j]))
      /\ ~(WithinBand(i, k, l) /\ WithinBand(x[j], x[k], x[l])) /\ ~(WithinBand(j, k, l) /\ WithinBand(x[i], x[k], x[l]))
  BY <1>1, <1>2, <1>3
<1>7. /\ ~(WithinBand(i, k, l) /\ WithinBand(x[i], x[k], x[l])) /\ ~(WithinBand(j, k, l) /\ WithinBand(x[j], x[k], x[l]))
      /\ ~(WithinBand(k, i, j) /\ WithinBand(x[l], x[i], x[j])) /\ ~(WithinBand(l, i, j) /\ WithinBand(x[k], x[i], x[j]))
  BY <1>5, <1>6, OrdersMix
<1>8. Chain(x, k, l, i, j, cells)
  BY <1>1, <1>2, <1>3, <1>4, <1>7
<1>9. End(x, k, l, i, j) = End(x, i, j, k, l)
  <2>1. x \in [Rows -> Rows]
    BY RowFacts
  <2> QED BY <2>1 DEF End, Transpose
<1> QED BY <1>8, <1>9

(* Two rectangles on the same two rows make a ring round the torus, which  *)
(* holds a marker of O.                                                    *)
LEMMA NoneGoesRound ==
  ASSUME N \in Nat \ {0}, O \in Generators, NEW x \in Generators,
         NEW cells \in SUBSET (Rows \X Rows), OCells \subseteq cells,
         NEW i \in Rows, NEW j \in Rows, i # j
  PROVE  ~Chain(x, i, j, i, j, cells) /\ ~Chain(x, i, j, j, i, cells)
<1> DEFINE own == {i, j}
           F == Foreign(x, own, cells)
           y == Transpose(x, i, j)
<1>1. own \in SUBSET Rows /\ i \in own /\ j \in own
  OBVIOUS
<1>2. y[i] = x[j] /\ y[j] = x[i]
  BY TransposeTwice
<1>3. \A r \in Rows : <<r, O[r]>> \in F
  BY DEF Foreign, OCells
<1>4. /\ O \in [Rows -> Rows] /\ \A r, s \in Rows : O[r] = O[s] => r = s
      /\ \A r \in Rows : r \in Int /\ O[r] \in Int /\ x[r] \in Int /\ x[r] \in Rows
      /\ i \in Int /\ j \in Int /\ x[i] # x[j] /\ IsFiniteSet(Rows)
  BY RowFacts
<1> HIDE DEF own, F
<1>5. Chain(x, i, j, i, j, cells) => Void(F, i, j, x[i], x[j]) /\ Void(F, i, j, x[j], x[i])
  BY <1>1, <1>2, ChainIs DEF F
<1>6. Chain(x, i, j, j, i, cells) => Void(F, i, j, x[i], x[j]) /\ Void(F, j, i, x[i], x[j])
  BY <1>1, <1>2, ChainIs DEF F
<1> HIDE DEF y
<1>7. ~(Void(F, i, j, x[i], x[j]) /\ Void(F, i, j, x[j], x[i]))
  <2>1. InBand(i, i, j) /\ (InBand(O[i], x[i], x[j]) \/ InBand(O[i], x[j], x[i]))
    BY <1>4 DEF InBand
  <2>2. <<i, O[i]>> \in F /\ <<i, O[i]>>[1] = i /\ <<i, O[i]>>[2] = O[i]
    BY <1>3
  <2> QED BY <2>1, <2>2 DEF Void
<1>8. ~(Void(F, i, j, x[i], x[j]) /\ Void(F, j, i, x[i], x[j]))
  <2>1. PICK r \in Rows : O[r] = x[i]
    <3>1. O \in Injection(Rows, Rows)
      BY <1>4 DEF Injection, IsInjective
    <3>2. O \in Surjection(Rows, Rows)
      BY <1>4, <3>1, FS_Injection
    <3> QED BY <1>4, <3>2 DEF Surjection
  <2>2. InBand(O[r], x[i], x[j]) /\ (InBand(r, i, j) \/ InBand(r, j, i))
    BY <1>4, <2>1 DEF InBand
  <2>3. <<r, O[r]>> \in F /\ <<r, O[r]>>[1] = r /\ <<r, O[r]>>[2] = O[r]
    BY <1>3
  <2> QED BY <2>2, <2>3 DEF Void
<1> QED BY <1>5, <1>6, <1>7, <1>8

(* The partner of the first chain is the second.                           *)
Leads(x, i, j, k, l, a, b, c, d) == PartnerOf(x, i, j, k, l) = <<<<a, b>>, <<c, d>>>>

(* The partner of a chain is another chain to the same generator, of which *)
(* it is the partner.                                                      *)
LEMMA PartnerIs ==
  ASSUME N \in Nat \ {0}, O \in Generators, NEW x \in Generators,
         NEW cells \in SUBSET (Rows \X Rows), OCells \subseteq cells,
         NEW i \in Rows, NEW j \in Rows, NEW k \in Rows, NEW l \in Rows, Chain(x, i, j, k, l, cells)
  PROVE  LET q == <<<<i, j>>, <<k, l>>>>
             p == PartnerOf(x, i, j, k, l)
         IN  p \in Chains(x, End(x, i, j, k, l), cells) /\ p # q /\ Partner(x, p) = q
<1> DEFINE Goal == LET q == <<<<i, j>>, <<k, l>>>>
                       p == PartnerOf(x, i, j, k, l)
                   IN  p \in Chains(x, End(x, i, j, k, l), cells) /\ p # q /\ Partner(x, p) = q
<1>1. ASSUME NEW a \in Rows, NEW b \in Rows, NEW c \in Rows, NEW d \in Rows,
             Chain(x, a, b, c, d, cells), End(x, a, b, c, d) = End(x, i, j, k, l),
             Leads(x, i, j, k, l, a, b, c, d), Leads(x, a, b, c, d, i, j, k, l), a # i \/ b # j
      PROVE  Goal
  <2> DEFINE p == <<<<a, b>>, <<c, d>>>>
  <2>1. p[1][1] = a /\ p[1][2] = b /\ p[2][1] = c /\ p[2][2] = d /\ p \in (Rows \X Rows) \X (Rows \X Rows)
    OBVIOUS
  <2>2. p \in Chains(x, End(x, i, j, k, l), cells)
    BY <1>1, <2>1 DEF Chains
  <2>3. Partner(x, p) = <<<<i, j>>, <<k, l>>>> /\ PartnerOf(x, i, j, k, l) = p
    BY <1>1, <2>1 DEF Partner, Leads
  <2>4. p # <<<<i, j>>, <<k, l>>>>
    BY <1>1
  <2> QED BY <2>2, <2>3, <2>4
<1> SUFFICES Goal
  OBVIOUS
<1>2. i # j /\ k # l
  BY DEF Chain, Rectangles
<1>3. ~(k = i /\ l = j) /\ ~(k = j /\ l = i)
  BY <1>2, NoneGoesRound
<1>4. /\ i \in Int /\ j \in Int /\ k \in Int /\ l \in Int
      /\ \A r \in Rows : r \in Int /\ x[r] \in Int
      /\ \A r, s \in Rows : x[r] = x[s] => r = s
  BY RowFacts
<1> HIDE DEF Goal
<1>5. CASE k # i /\ k # j /\ l # i /\ l # j
  <2>1. Chain(x, k, l, i, j, cells) /\ End(x, k, l, i, j) = End(x, i, j, k, l)
    BY <1>2, <1>5, CutsApart
  <2>2. Leads(x, i, j, k, l, k, l, i, j) /\ Leads(x, k, l, i, j, i, j, k, l)
    BY <1>5 DEF Leads, PartnerOf
  <2>3. k # i \/ l # j
    BY <1>5
  <2> QED BY <1>1, <2>1, <2>2, <2>3
<1>6. CASE k = i
  <2>1. i # j /\ j # l /\ i # l /\ Chain(x, i, j, i, l, cells)
    BY <1>2, <1>3, <1>6
  <2>2. /\ ~(WithinBand(l, i, j) /\ WithinBand(x[l], x[i], x[j]))
        /\ ~(WithinBand(j, i, l) /\ WithinBand(x[i], x[j], x[l]))
    BY <2>1, ChainsOfThree
  <2>3. WithinBand(l, i, j) <=> ~WithinBand(j, i, l)
    BY <1>4, <2>1, TwoOrders
  <2>4. /\ x[i] \in Int /\ x[j] \in Int /\ x[l] \in Int /\ x[i] # x[j] /\ x[j] # x[l] /\ x[i] # x[l]
    BY <1>4, <2>1
  <2>5. /\ WithinBand(x[l], x[i], x[j]) <=> ~WithinBand(x[j], x[i], x[l])
        /\ WithinBand(x[l], x[i], x[j]) <=> WithinBand(x[i], x[j], x[l])
    BY <2>4, TwoOrders
  <2>6. WithinBand(x[j], x[i], x[l])
    BY <2>2, <2>3, <2>5
  <2>7. CASE WithinBand(j, i, l)
    <3>1. Chain(x, j, l, i, j, cells)
      BY <2>1, <2>6, <2>7, CutsAlong
    <3>2. End(x, j, l, i, j) = End(x, i, j, i, l)
      BY <2>1, CutsMeet
    <3>3. Leads(x, i, j, i, l, j, l, i, j)
      BY <2>7 DEF Leads, PartnerOf
    <3>4. Leads(x, j, l, i, j, i, j, i, l)
      BY <2>1, <2>6 DEF Leads, PartnerOf
    <3>5. j # i \/ l # j
      BY <2>1
    <3> QED BY <1>1, <1>6, <3>1, <3>2, <3>3, <3>4, <3>5
  <2>8. CASE ~WithinBand(j, i, l)
    <3>1. WithinBand(l, i, j)
      BY <2>3, <2>8
    <3>2. Chain(x, i, l, l, j, cells)
      BY <2>1, <2>6, <3>1, CutsAgainst
    <3>3. End(x, i, l, l, j) = End(x, i, j, i, l)
      BY <2>1, CutsMeet
    <3>4. Leads(x, i, j, i, l, i, l, l, j)
      BY <2>8 DEF Leads, PartnerOf
    <3>5. Leads(x, i, l, l, j, i, j, i, l)
      BY <2>1, <2>6 DEF Leads, PartnerOf
    <3>6. i # i \/ l # j
      BY <2>1
    <3> QED BY <1>1, <1>6, <3>2, <3>3, <3>4, <3>5, <3>6
  <2> QED BY <2>7, <2>8
<1>7. CASE k # i /\ l = j
  <2>1. i # j /\ j # k /\ i # k /\ Chain(x, i, j, k, j, cells)
    BY <1>2, <1>7
  <2>2. /\ ~(WithinBand(k, i, j) /\ WithinBand(x[k], x[i], x[j]))
        /\ ~(WithinBand(i, k, j) /\ WithinBand(x[j], x[k], x[i]))
    BY <2>1, ChainsOfThree
  <2>3. WithinBand(k, i, j) <=> ~WithinBand(i, k, j)
    BY <1>4, <2>1, TwoOrders
  <2>4. /\ x[i] \in Int /\ x[j] \in Int /\ x[k] \in Int /\ x[i] # x[j] /\ x[j] # x[k] /\ x[i] # x[k]
    BY <1>4, <2>1
  <2>5. /\ WithinBand(x[k], x[i], x[j]) <=> WithinBand(x[j], x[k], x[i])
        /\ WithinBand(x[k], x[i], x[j]) <=> ~WithinBand(x[j], x[i], x[k])
        /\ WithinBand(x[j], x[i], x[k]) <=> WithinBand(x[i], x[k], x[j])
    BY <2>4, TwoOrders
  <2>6. WithinBand(x[j], x[i], x[k]) /\ WithinBand(x[i], x[k], x[j])
        /\ ~WithinBand(x[k], x[i], x[j]) /\ ~WithinBand(x[j], x[k], x[i])
    BY <2>2, <2>3, <2>5
  <2>7. CASE WithinBand(i, k, j)
    <3>1. Chain(x, k, i, i, j, cells)
      BY <2>1, <2>6, <2>7, CutsAlong
    <3>2. End(x, k, i, i, j) = End(x, i, j, k, j)
      BY <2>1, CutsMeet
    <3>3. Leads(x, i, j, k, j, k, i, i, j)
      BY <2>1, <2>7 DEF Leads, PartnerOf
    <3>4. Leads(x, k, i, i, j, i, j, k, j)
      BY <2>1, <2>6 DEF Leads, PartnerOf
    <3>5. k # i \/ i # j
      BY <2>1
    <3> QED BY <1>1, <1>7, <3>1, <3>2, <3>3, <3>4, <3>5
  <2>8. CASE ~WithinBand(i, k, j)
    <3>1. WithinBand(k, i, j)
      BY <2>3, <2>8
    <3>2. Chain(x, k, j, i, k, cells)
      BY <2>1, <2>6, <3>1, CutsAgainst
    <3>3. End(x, k, j, i, k) = End(x, i, j, k, j)
      BY <2>1, CutsMeet
    <3>4. Leads(x, i, j, k, j, k, j, i, k)
      BY <2>1, <2>8 DEF Leads, PartnerOf
    <3>5. Leads(x, k, j, i, k, i, j, k, j)
      BY <2>1, <2>6 DEF Leads, PartnerOf
    <3>6. k # i \/ j # j
      BY <2>1
    <3> QED BY <1>1, <1>7, <3>2, <3>3, <3>4, <3>5, <3>6
  <2> QED BY <2>7, <2>8
<1>8. CASE k = j
  <2>1. i # j /\ j # l /\ i # l /\ Chain(x, i, j, j, l, cells)
    BY <1>2, <1>3, <1>8
  <2>2. /\ ~(WithinBand(l, i, j) /\ WithinBand(x[l], x[i], x[j]))
        /\ ~(WithinBand(i, j, l) /\ WithinBand(x[j], x[i], x[l]))
    BY <2>1, ChainsOfThree
  <2>3. /\ WithinBand(l, i, j) <=> ~WithinBand(j, i, l)
        /\ WithinBand(l, i, j) <=> WithinBand(i, j, l)
    BY <1>4, <2>1, TwoOrders
  <2>4. /\ x[i] \in Int /\ x[j] \in Int /\ x[l] \in Int /\ x[i] # x[j] /\ x[j] # x[l] /\ x[i] # x[l]
    BY <1>4, <2>1
  <2>5. WithinBand(x[l], x[i], x[j]) <=> ~WithinBand(x[j], x[i], x[l])
    BY <2>4, TwoOrders
  <2>6. WithinBand(j, i, l) /\ ~WithinBand(l, i, j)
    BY <2>2, <2>3, <2>5
  <2>7. CASE WithinBand(x[l], x[i], x[j])
    <3>1. Chain(x, i, l, i, j, cells)
      BY <2>1, <2>6, <2>7, CutsAgainst
    <3>2. End(x, i, l, i, j) = End(x, i, j, j, l)
      BY <2>1, CutsMeet
    <3>3. Leads(x, i, j, j, l, i, l, i, j)
      BY <2>1, <2>7 DEF Leads, PartnerOf
    <3>4. Leads(x, i, l, i, j, i, j, j, l)
      BY <2>1, <2>6 DEF Leads, PartnerOf
    <3>5. i # i \/ l # j
      BY <2>1
    <3> QED BY <1>1, <1>8, <3>1, <3>2, <3>3, <3>4, <3>5
  <2>8. CASE ~WithinBand(x[l], x[i], x[j])
    <3>1. WithinBand(x[j], x[i], x[l])
      BY <2>5, <2>8
    <3>2. Chain(x, j, l, i, l, cells)
      BY <2>1, <2>6, <3>1, CutsAlong
    <3>3. End(x, j, l, i, l) = End(x, i, j, j, l)
      BY <2>1, CutsMeet
    <3>4. Leads(x, i, j, j, l, j, l, i, l)
      BY <2>1, <2>8 DEF Leads, PartnerOf
    <3>5. Leads(x, j, l, i, l, i, j, j, l)
      BY <2>1, <2>6 DEF Leads, PartnerOf
    <3>6. j # i \/ l # j
      BY <2>1
    <3> QED BY <1>1, <1>8, <3>2, <3>3, <3>4, <3>5, <3>6
  <2> QED BY <2>7, <2>8
<1>9. CASE k # j /\ l = i
  <2>1. i # j /\ j # k /\ i # k /\ Chain(x, i, j, k, i, cells)
    BY <1>2, <1>9
  <2>2. /\ ~(WithinBand(k, i, j) /\ WithinBand(x[k], x[i], x[j]))
        /\ ~(WithinBand(j, k, i) /\ WithinBand(x[i], x[k], x[j]))
    BY <2>1, ChainsOfThree
  <2>3. /\ WithinBand(k, i, j) <=> ~WithinBand(i, k, j)
        /\ WithinBand(j, k, i) <=> ~WithinBand(i, k, j)
    BY <1>4, <2>1, TwoOrders
  <2>4. /\ x[i] \in Int /\ x[j] \in Int /\ x[k] \in Int /\ x[i] # x[j] /\ x[j] # x[k] /\ x[i] # x[k]
    BY <1>4, <2>1
  <2>5. /\ WithinBand(x[i], x[k], x[j]) <=> ~WithinBand(x[k], x[i], x[j])
        /\ WithinBand(x[k], x[i], x[j]) <=> WithinBand(x[j], x[k], x[i])
    BY <2>4, TwoOrders
  <2>6. WithinBand(i, k, j) /\ ~WithinBand(k, i, j)
    BY <2>2, <2>3, <2>5
  <2>7. CASE WithinBand(x[i], x[k], x[j])
    <3>1. Chain(x, k, i, k, j, cells)
      BY <2>1, <2>6, <2>7, CutsAlong
    <3>2. End(x, k, i, k, j) = End(x, i, j, k, i)
      BY <2>1, CutsMeet
    <3>3. Leads(x, i, j, k, i, k, i, k, j)
      BY <2>1, <2>7 DEF Leads, PartnerOf
    <3>4. Leads(x, k, i, k, j, i, j, k, i)
      BY <2>1, <2>6 DEF Leads, PartnerOf
    <3>5. k # i \/ i # j
      BY <2>1
    <3> QED BY <1>1, <1>9, <3>1, <3>2, <3>3, <3>4, <3>5
  <2>8. CASE ~WithinBand(x[i], x[k], x[j])
    <3>1. WithinBand(x[j], x[k], x[i])
      BY <2>5, <2>8
    <3>2. Chain(x, k, j, i, j, cells)
      BY <2>1, <2>6, <3>1, CutsAgainst
    <3>3. End(x, k, j, i, j) = End(x, i, j, k, i)
      BY <2>1, CutsMeet
    <3>4. Leads(x, i, j, k, i, k, j, i, j)
      BY <2>1, <2>8 DEF Leads, PartnerOf
    <3>5. Leads(x, k, j, i, j, i, j, k, i)
      BY <2>1, <2>6 DEF Leads, PartnerOf
    <3>6. k # i \/ j # j
      BY <2>1
    <3> QED BY <1>1, <1>9, <3>2, <3>3, <3>4, <3>5, <3>6
  <2> QED BY <2>7, <2>8
<1> QED BY <1>3, <1>5, <1>6, <1>7, <1>8, <1>9

(* What falls into pairs is even in number.                                *)
PairsUp(f, S) == \A s \in S : f[s] \in S /\ f[f[s]] = s /\ f[s] # s
LEMMA PairsAreEven ==
  ASSUME NEW f, NEW S, IsFiniteSet(S), PairsUp(f, S)
  PROVE  Cardinality(S) % 2 = 0
<1> DEFINE OddPairs(n) == \E U : IsFiniteSet(U) /\ Cardinality(U) = n /\ PairsUp(f, U)
           T == {n \in Nat : n % 2 = 1 /\ OddPairs(n)}
<1> SUFFICES ASSUME Cardinality(S) % 2 # 0 PROVE FALSE
  OBVIOUS
<1>1. Cardinality(S) \in T
  <2>1. Cardinality(S) \in Nat
    BY FS_CardinalityType
  <2>2. Cardinality(S) % 2 = 1
    BY <2>1
  <2> QED BY <2>1, <2>2
<1>2. PICK n \in T : \A m \in T : n <= m
  <2>1. T \in SUBSET Nat /\ T # {}
    BY <1>1
  <2> HIDE DEF T
  <2> QED BY <2>1, Sums!LeastNat
<1>3. PICK U : IsFiniteSet(U) /\ Cardinality(U) = n /\ PairsUp(f, U)
  OBVIOUS
<1>4. n \in Nat /\ n % 2 = 1 /\ n # 0
  OBVIOUS
<1>5. PICK s \in U : TRUE
  BY <1>3, <1>4, FS_EmptySet
<1> DEFINE t == f[s]
           V == U \ {s}
           W == V \ {t}
<1>6. t \in V
  BY <1>3 DEF PairsUp
<1>7. IsFiniteSet(V) /\ Cardinality(V) = n - 1
  BY <1>3, FS_RemoveElement
<1>8. IsFiniteSet(W) /\ Cardinality(W) = n - 1 - 1
  <2> HIDE DEF V, t
  <2> QED BY <1>6, <1>7, FS_RemoveElement
<1>9. PairsUp(f, W)
  BY <1>3 DEF PairsUp
<1> HIDE DEF W, V, t
<1>10. n - 1 - 1 \in Nat /\ (n - 1 - 1) % 2 = 1 /\ ~(n <= n - 1 - 1)
  <2>1. n - 1 - 1 \in Nat
    BY <1>8, FS_CardinalityType
  <2> QED BY <1>4, <2>1
<1>11. n - 1 - 1 \in T
  <2>1. OddPairs(n - 1 - 1)
    BY <1>8, <1>9
  <2> HIDE DEF OddPairs
  <2> QED BY <1>10, <2>1
<1> QED BY <1>2, <1>10, <1>11

(* A product is odd when both factors are.                                 *)
LEMMA OddProduct ==
  ASSUME NEW m \in Nat, NEW n \in Nat
  PROVE  (m * n) % 2 = 1 <=> m % 2 = 1 /\ n % 2 = 1
<1>1. PICK a \in Nat : m = 2 * a \/ m = 2 * a + 1
  <2>1. m \div 2 \in Nat /\ (m = 2 * (m \div 2) \/ m = 2 * (m \div 2) + 1)
    OBVIOUS
  <2> QED BY <2>1
<1> DEFINE k == a * n
<1>2. k \in Nat
  OBVIOUS
<1>3. CASE m = 2 * a
  <2>1. m * n = 2 * k /\ m % 2 = 0
    BY <1>3
  <2> HIDE DEF k
  <2> QED BY <1>2, <2>1
<1>4. CASE m = 2 * a + 1
  <2>1. m * n = 2 * k + n /\ m % 2 = 1
    BY <1>4
  <2> HIDE DEF k
  <2>2. (2 * k + n) % 2 = n % 2
    BY <1>2
  <2> QED BY <2>1, <2>2
<1> QED BY <1>1, <1>3, <1>4

(* Modulo two, a whole is as many as the parts that are odd.               *)
OddOnes(A, S) == {s \in S : Odd(A[s])}
LEMMA OddParts ==
  ASSUME NEW S, IsFiniteSet(S), NEW A, \A s \in S : IsFiniteSet(A[s]),
         \A s, r \in S : s # r => A[s] \cap A[r] = {}
  PROVE  Cardinality(Together(A, S)) % 2 = Cardinality(OddOnes(A, S)) % 2
<1> DEFINE Right(W) == /\ IsFiniteSet(Together(A, W))
                       /\ Cardinality(Together(A, W)) % 2 = Cardinality(OddOnes(A, W)) % 2
           Wrong(n) == \E W \in SUBSET S : Cardinality(W) = n /\ ~Right(W)
           T == {n \in Nat : Wrong(n)}
<1> SUFFICES Right(S)
  OBVIOUS
<1> SUFFICES ASSUME ~Right(S) PROVE FALSE
  OBVIOUS
<1>1. PICK n \in T : \A m \in T : n <= m
  <2>1. Cardinality(S) \in Nat /\ Wrong(Cardinality(S))
    BY FS_CardinalityType
  <2>2. T \in SUBSET Nat /\ T # {}
    BY <2>1
  <2> HIDE DEF T
  <2> QED BY <2>2, Sums!LeastNat
<1>2. PICK W \in SUBSET S : Cardinality(W) = n /\ ~Right(W)
  BY <1>1
<1>3. IsFiniteSet(W) /\ n \in Nat
  BY <1>2, FS_Subset
<1>4. W # {}
  <2>1. Together(A, {}) = {} /\ OddOnes(A, {}) = {}
    BY DEF Together, OddOnes
  <2>2. Right({})
    BY <2>1, FS_EmptySet
  <2> QED BY <1>2, <2>2
<1>5. PICK w \in W : TRUE
  BY <1>4
<1> DEFINE V == W \ {w}
<1>6. V \in SUBSET S /\ IsFiniteSet(V) /\ Cardinality(V) = n - 1 /\ n - 1 \in Nat
  <2>1. IsFiniteSet(V) /\ Cardinality(V) = n - 1
    BY <1>2, <1>3, <1>5, FS_RemoveElement
  <2>2. Cardinality(V) \in Nat
    BY <2>1, FS_CardinalityType
  <2> QED BY <2>1, <2>2
<1>7. Right(V)
  <2>1. n - 1 \notin T
    <3>1. ~(n <= n - 1)
      BY <1>3
    <3> QED BY <1>1, <3>1
  <2> HIDE DEF Right
  <2> QED BY <1>6, <2>1
<1>8. /\ Together(A, W) = Together(A, V) \cup A[w] /\ Together(A, V) \cap A[w] = {}
      /\ OddOnes(A, W) = OddOnes(A, V) \cup (IF Odd(A[w]) THEN {w} ELSE {})
      /\ w \notin OddOnes(A, V)
  <2>1. W = V \cup {w} /\ w \notin V /\ \A v \in V : A[v] \cap A[w] = {}
    BY <1>5
  <2> HIDE DEF V
  <2>2. Together(A, W) = Together(A, V) \cup A[w] /\ Together(A, V) \cap A[w] = {}
    BY <2>1 DEF Together
  <2>3. w \notin OddOnes(A, V) /\ OddOnes(A, W) = OddOnes(A, V) \cup (IF Odd(A[w]) THEN {w} ELSE {})
    BY <2>1 DEF OddOnes
  <2> QED BY <2>2, <2>3
<1> DEFINE a == Cardinality(Together(A, V))
           b == Cardinality(A[w])
           o == Cardinality(OddOnes(A, V))
<1>9. IsFiniteSet(A[w]) /\ a \in Nat /\ b \in Nat /\ a % 2 = o % 2
  BY <1>5, <1>7, FS_CardinalityType
<1>10. IsFiniteSet(OddOnes(A, V)) /\ o \in Nat
  <2>1. OddOnes(A, V) \in SUBSET V
    BY DEF OddOnes
  <2>2. IsFiniteSet(OddOnes(A, V))
    <3> HIDE DEF V
    <3> QED BY <1>6, <2>1, FS_Subset
  <2> QED BY <2>2, FS_CardinalityType
<1>11. IsFiniteSet(Together(A, W)) /\ Cardinality(Together(A, W)) = a + b
  <2>1. IsFiniteSet(Together(A, V))
    BY <1>7
  <2> HIDE DEF V
  <2>2. /\ IsFiniteSet(Together(A, V) \cup A[w])
        /\ Cardinality(Together(A, V) \cup A[w]) = Cardinality(Together(A, V)) + Cardinality(A[w])
    BY <1>8, <1>9, <2>1, DisjointUnion
  <2> QED BY <1>8, <2>2
<1>12. Cardinality(OddOnes(A, W)) = IF b % 2 = 1 THEN o + 1 ELSE o
  <2>1. CASE b % 2 = 1
    <3>1. OddOnes(A, W) = OddOnes(A, V) \cup {w}
      BY <1>8, <2>1 DEF Odd
    <3>2. Cardinality(OddOnes(A, V) \cup {w}) = o + 1
      BY <1>8, <1>10, FS_AddElement
    <3> QED BY <2>1, <3>1, <3>2
  <2>2. CASE b % 2 # 1
    <3>1. OddOnes(A, W) = OddOnes(A, V)
      BY <1>8, <2>2 DEF Odd
    <3> QED BY <2>2, <3>1
  <2> QED BY <2>1, <2>2
<1> HIDE DEF a, b, o
<1>13. (a + b) % 2 = (IF b % 2 = 1 THEN o + 1 ELSE o) % 2
  BY <1>9, <1>10
<1>14. Right(W)
  BY <1>11, <1>12, <1>13
<1> QED BY <1>2, <1>14

(* What the differential of the differential names twice cancels.          *)
LEMMA SquaresCancel ==
  ASSUME N \in Nat \ {0}, O \in Generators, NEW x \in Generators,
         NEW cells \in SUBSET (Rows \X Rows), OCells \subseteq cells, NEW z
  PROVE  Cardinality({y \in ReduceMod2(x, Rectangles(x, cells)) : z \in ReduceMod2(y, Rectangles(y, cells))}) % 2 = 0
<1> DEFINE C == Chains(x, z, cells)
           pairs == Rows \X Rows
           Into(y, w) == {ij \in Rectangles(y, cells) : Transpose(y, ij[1], ij[2]) = w}
           A == [y \in Generators |-> Into(x, y) \X Into(y, z)]
           f == [q \in C |-> Partner(x, q)]
<1>1. IsFiniteSet(pairs)
  <2>1. IsFiniteSet(Rows)
    BY RowFacts
  <2> QED BY <2>1, FS_Product
<1>2. \A q \in C : /\ q[1] \in pairs /\ q[2] \in pairs /\ q = <<<<q[1][1], q[1][2]>>, <<q[2][1], q[2][2]>>>>
                   /\ q[1][1] \in Rows /\ q[1][2] \in Rows /\ q[2][1] \in Rows /\ q[2][2] \in Rows
                   /\ Chain(x, q[1][1], q[1][2], q[2][1], q[2][2], cells)
                   /\ End(x, q[1][1], q[1][2], q[2][1], q[2][2]) = z
  BY DEF Chains
<1>3. IsFiniteSet(C)
  <2>1. C \in SUBSET (pairs \X pairs)
    BY DEF Chains
  <2>2. IsFiniteSet(pairs \X pairs)
    <3> HIDE DEF pairs
    <3> QED BY <1>1, FS_Product
  <2> HIDE DEF C, pairs
  <2> QED BY <2>1, <2>2, FS_Subset
<1>4. PairsUp(f, C)
  <2> SUFFICES ASSUME NEW q \in C PROVE Partner(x, q) \in C /\ Partner(x, Partner(x, q)) = q /\ Partner(x, q) # q
    BY DEF PairsUp
  <2> DEFINE i == q[1][1]
             j == q[1][2]
             k == q[2][1]
             l == q[2][2]
  <2>1. /\ q = <<<<i, j>>, <<k, l>>>> /\ i \in Rows /\ j \in Rows /\ k \in Rows /\ l \in Rows
        /\ Chain(x, i, j, k, l, cells) /\ End(x, i, j, k, l) = z
    BY <1>2
  <2>2. Partner(x, q) = PartnerOf(x, i, j, k, l)
    BY DEF Partner
  <2> HIDE DEF i, j, k, l, C
  <2>3. /\ PartnerOf(x, i, j, k, l) \in Chains(x, End(x, i, j, k, l), cells)
        /\ PartnerOf(x, i, j, k, l) # <<<<i, j>>, <<k, l>>>>
        /\ Partner(x, PartnerOf(x, i, j, k, l)) = <<<<i, j>>, <<k, l>>>>
    BY <2>1, PartnerIs
  <2> QED BY <2>1, <2>2, <2>3 DEF C
<1>5. Cardinality(C) % 2 = 0
  <2> HIDE DEF C, f
  <2> QED BY <1>3, <1>4, PairsAreEven
<1>6. ASSUME NEW y \in Generators, NEW w
      PROVE  Into(y, w) \in SUBSET pairs /\ IsFiniteSet(Into(y, w)) /\ Cardinality(Into(y, w)) \in Nat
  <2>1. Into(y, w) \in SUBSET pairs
    BY DEF Rectangles
  <2> HIDE DEF pairs, Into
  <2> QED BY <1>1, <2>1, FS_Subset, FS_CardinalityType
<1>7. C = Together(A, Generators)
  <2>1. ASSUME NEW q \in C PROVE q \in Together(A, Generators)
    <3> DEFINE y == Transpose(x, q[1][1], q[1][2])
    <3>0. q[1] = <<q[1][1], q[1][2]>> /\ q[2] = <<q[2][1], q[2][2]>>
      BY <1>2
    <3>1. q[1] \in Rectangles(x, cells) /\ q[2] \in Rectangles(y, cells) /\ Transpose(y, q[2][1], q[2][2]) = z
      <4>1. Chain(x, q[1][1], q[1][2], q[2][1], q[2][2], cells) /\ End(x, q[1][1], q[1][2], q[2][1], q[2][2]) = z
        BY <1>2
      <4>2. <<q[1][1], q[1][2]>> \in Rectangles(x, cells) /\ <<q[2][1], q[2][2]>> \in Rectangles(y, cells)
        BY <4>1 DEF Chain
      <4>3. Transpose(y, q[2][1], q[2][2]) = z
        BY <4>1 DEF End
      <4> HIDE DEF y, C
      <4> QED BY <3>0, <4>2, <4>3
    <3>2. q[1][1] \in Rows /\ q[1][2] \in Rows /\ q[1][1] # q[1][2]
      BY <1>2, <3>1 DEF Rectangles
    <3>3. y \in Generators
      BY <3>2, TransposeTwice
    <3>4. q \in Into(x, y) \X Into(y, z)
      <4>1. q[1] \in Into(x, y) /\ q[2] \in Into(y, z)
        BY <3>1
      <4>2. q = <<q[1], q[2]>>
        BY <1>2
      <4> HIDE DEF Into, y
      <4> QED BY <4>1, <4>2
    <3> HIDE DEF y, Into
    <3> QED BY <3>3, <3>4 DEF Together
  <2>2. ASSUME NEW q \in Together(A, Generators) PROVE q \in C
    <3>1. PICK y \in Generators : q \in Into(x, y) \X Into(y, z)
      BY DEF Together
    <3>2. q[1] \in Into(x, y) /\ q[2] \in Into(y, z) /\ q = <<q[1], q[2]>>
      BY <3>1
    <3>3. q[1] \in pairs /\ q[2] \in pairs
      BY <1>6, <3>2
    <3>4. /\ q[1] \in Rectangles(x, cells) /\ Transpose(x, q[1][1], q[1][2]) = y
          /\ q[2] \in Rectangles(y, cells) /\ Transpose(y, q[2][1], q[2][2]) = z
      BY <3>2
    <3>5. q[1] = <<q[1][1], q[1][2]>> /\ q[2] = <<q[2][1], q[2][2]>>
      BY <3>3
    <3>6. q \in (Rows \X Rows) \X (Rows \X Rows)
      BY <3>2, <3>3
    <3> QED BY <3>4, <3>5, <3>6 DEF Chains, Chain, End
  <2> HIDE DEF C, A
  <2> QED BY <2>1, <2>2
<1>8. \A y \in Generators : IsFiniteSet(A[y]) /\ (Odd(A[y]) <=> Odd(Into(x, y)) /\ Odd(Into(y, z)))
  <2> SUFFICES ASSUME NEW y \in Generators
               PROVE  IsFiniteSet(A[y]) /\ (Odd(A[y]) <=> Odd(Into(x, y)) /\ Odd(Into(y, z)))
    OBVIOUS
  <2> DEFINE P == Into(x, y)
             Q == Into(y, z)
  <2>1. IsFiniteSet(P) /\ IsFiniteSet(Q) /\ Cardinality(P) \in Nat /\ Cardinality(Q) \in Nat /\ A[y] = P \X Q
    BY <1>6
  <2> HIDE DEF P, Q, A
  <2>2. IsFiniteSet(P \X Q) /\ Cardinality(P \X Q) = Cardinality(P) * Cardinality(Q)
    BY <2>1, FS_Product
  <2>3. (Cardinality(P) * Cardinality(Q)) % 2 = 1 <=> Cardinality(P) % 2 = 1 /\ Cardinality(Q) % 2 = 1
    BY <2>1, OddProduct
  <2>4. IsFiniteSet(A[y]) /\ (Odd(A[y]) <=> Odd(P) /\ Odd(Q))
    BY <2>1, <2>2, <2>3 DEF Odd
  <2> QED BY <2>4 DEF P, Q
<1>9. \A y, w \in Generators : y # w => A[y] \cap A[w] = {}
  <2> SUFFICES ASSUME NEW y \in Generators, NEW w \in Generators, y # w, NEW q \in A[y] \cap A[w] PROVE FALSE
    OBVIOUS
  <2>1. q \in Into(x, y) \X Into(y, z) /\ q \in Into(x, w) \X Into(w, z)
    OBVIOUS
  <2>2. q[1] \in Into(x, y) /\ q[1] \in Into(x, w)
    <3> HIDE DEF Into
    <3> QED BY <2>1
  <2>3. Transpose(x, q[1][1], q[1][2]) = y /\ Transpose(x, q[1][1], q[1][2]) = w
    BY <2>2
  <2> QED BY <2>3
<1>10. OddOnes(A, Generators) = {y \in ReduceMod2(x, Rectangles(x, cells)) : z \in ReduceMod2(y, Rectangles(y, cells))}
  <2>1. ASSUME NEW y \in Generators, NEW w
        PROVE  w \in ReduceMod2(y, Rectangles(y, cells)) <=> Odd(Into(y, w))
    <3>1. w \in ReduceMod2(y, Rectangles(y, cells)) <=> w \in TargetsOf(y, Rectangles(y, cells)) /\ Odd(Into(y, w))
      BY DEF ReduceMod2
    <3>2. ASSUME Odd(Into(y, w)) PROVE w \in TargetsOf(y, Rectangles(y, cells))
      <4>1. Into(y, w) # {}
        <5>1. ~Odd({})
          BY FS_EmptySet DEF Odd
        <5> QED BY <3>2, <5>1
      <4>2. PICK ij \in Rectangles(y, cells) : Transpose(y, ij[1], ij[2]) = w
        BY <4>1
      <4> QED BY <4>2 DEF TargetsOf
    <3> QED BY <3>1, <3>2
  <2>2. ReduceMod2(x, Rectangles(x, cells)) \subseteq Generators
    <3> SUFFICES ASSUME NEW y \in ReduceMod2(x, Rectangles(x, cells)) PROVE y \in Generators
      OBVIOUS
    <3>1. PICK ij \in Rectangles(x, cells) : y = Transpose(x, ij[1], ij[2])
      BY DEF ReduceMod2, TargetsOf
    <3>2. ij[1] \in Rows /\ ij[2] \in Rows /\ ij[1] # ij[2]
      BY DEF Rectangles
    <3> QED BY <3>1, <3>2, TransposeTwice
  <2>3. \A y \in Generators : Odd(A[y]) <=>
          y \in ReduceMod2(x, Rectangles(x, cells)) /\ z \in ReduceMod2(y, Rectangles(y, cells))
    <3> HIDE DEF A, Into
    <3> QED BY <1>8, <2>1
  <2> HIDE DEF A
  <2> QED BY <2>2, <2>3 DEF OddOnes
<1>11. Cardinality(Together(A, Generators)) % 2 = Cardinality(OddOnes(A, Generators)) % 2
  <2>1. IsFiniteSet(Generators)
    BY GeneratorsFinite
  <2> HIDE DEF A
  <2> QED BY <1>8, <1>9, <2>1, OddParts
<1> HIDE DEF A, C
<1> QED BY <1>5, <1>7, <1>10, <1>11

(* Both differentials of a grid of any size square to zero: the targets of *)
(* the targets that are named an odd number of times by one another are    *)
(* themselves even in number, since what two rectangles cover can be cut   *)
(* in two in exactly one other way.  A reduction of their columns is then  *)
(* one of a chain complex; test_floer_homology.py:28 sweeps the first on   *)
(* the generators of two knots.                                            *)
THEOREM DifferentialsSquareToZero ==
  ASSUME N \in Nat \ {0}, ValidGrid, NEW x \in Generators, NEW z
  PROVE  /\ Cardinality({y \in Differential(x) : z \in Differential(y)}) % 2 = 0
         /\ Cardinality({y \in FilteredDifferential(x) : z \in FilteredDifferential(y)}) % 2 = 0
<1>1. O \in Generators /\ X \in Generators
  BY DEF ValidGrid, IsPermutation, Generators
<1>2. /\ MarkerCells \in SUBSET (Rows \X Rows) /\ OCells \in SUBSET (Rows \X Rows)
      /\ OCells \subseteq MarkerCells /\ OCells \subseteq OCells
  <2>1. O \in [Rows -> Rows] /\ X \in [Rows -> Rows]
    BY <1>1, RowFacts
  <2> QED BY <2>1 DEF MarkerCells, OCells
<1>3. Cardinality({y \in ReduceMod2(x, Rectangles(x, MarkerCells)) : z \in ReduceMod2(y, Rectangles(y, MarkerCells))}) % 2 = 0
  BY <1>1, <1>2, SquaresCancel
<1>4. Cardinality({y \in ReduceMod2(x, Rectangles(x, OCells)) : z \in ReduceMod2(y, Rectangles(y, OCells))}) % 2 = 0
  BY <1>1, <1>2, SquaresCancel
<1> QED BY <1>3, <1>4 DEF Differential, FilteredDifferential

-----------------------------------------------------------------------------
(* Places in a finite set of numbers.                                      *)
Lower(S, v) == {u \in S : u < v}
Place(S, v) == Cardinality(Lower(S, v))

(* Lower numbers have lower places.                                        *)
LEMMA PlacesGrow ==
  ASSUME NEW S \in SUBSET Nat, IsFiniteSet(S), NEW a \in S, NEW b \in S
  PROVE  /\ Place(S, a) \in Nat /\ Place(S, b) \in Nat
         /\ Place(S, a) < Cardinality(S)
         /\ a < b <=> Place(S, a) < Place(S, b)
         /\ Place(S, a) = Place(S, b) => a = b
<1>1. \A c \in S : IsFiniteSet(Lower(S, c)) /\ Place(S, c) \in Nat
  <2> SUFFICES ASSUME NEW c \in S PROVE IsFiniteSet(Lower(S, c)) /\ Place(S, c) \in Nat
    OBVIOUS
  <2>1. Lower(S, c) \subseteq S
    BY DEF Lower
  <2> QED
    BY <2>1, FS_Subset, FS_CardinalityType DEF Place
<1>2. ASSUME NEW c \in S, NEW d \in S, c < d PROVE Place(S, c) < Place(S, d)
  <2>1. c \in Nat /\ d \in Nat /\ \A u \in S : u \in Nat
    OBVIOUS
  <2>2. Lower(S, c) \subseteq Lower(S, d) /\ c \in Lower(S, d) /\ c \notin Lower(S, c)
    <3>1. \A u \in S : u < c => u < d
      BY <1>2, <2>1
    <3>2. ~(c < c)
      BY <2>1
    <3> QED BY <1>2, <3>1, <3>2 DEF Lower
  <2>3. Place(S, c) <= Place(S, d) /\ (Place(S, c) = Place(S, d) => Lower(S, c) = Lower(S, d))
    BY <1>1, <2>2, FS_Subset DEF Place
  <2> QED
    BY <1>1, <2>2, <2>3
<1>3. Place(S, a) < Cardinality(S)
  <2>1. a \in Nat /\ ~(a < a)
    OBVIOUS
  <2>2. Lower(S, a) \subseteq S /\ a \notin Lower(S, a)
    BY <2>1 DEF Lower
  <2>3. Place(S, a) <= Cardinality(S) /\ (Place(S, a) = Cardinality(S) => Lower(S, a) = S) /\ Cardinality(S) \in Nat
    BY <2>2, FS_Subset, FS_CardinalityType DEF Place
  <2> QED
    BY <1>1, <2>2, <2>3
<1>4. a \in Nat /\ b \in Nat
  OBVIOUS
<1>5. a < b \/ b < a \/ a = b
  BY <1>4
<1> QED
  BY <1>1, <1>2, <1>3, <1>4, <1>5

(* Every place below the size is the place of one of the numbers.          *)
LEMMA PlacesAreFilled ==
  ASSUME NEW S \in SUBSET Nat, IsFiniteSet(S), NEW k \in Nat, k < Cardinality(S)
  PROVE  /\ \E v \in S : Place(S, v) = k
         /\ Nth(S, k) \in S /\ Place(S, Nth(S, k)) = k
<1> DEFINE n == Cardinality(S)
           T == 0..(n - 1)
           f == [v \in S |-> Place(S, v)]
<1>1. n \in Nat \ {0}
  BY FS_CardinalityType
<1>2. IsFiniteSet(T) /\ Cardinality(T) = n
  <2> HIDE DEF n
  <2>1. 0 \in Int /\ n - 1 \in Int /\ ~(0 > n - 1) /\ (n - 1) - 0 + 1 = n
    BY <1>1
  <2> QED
    BY <2>1, FS_Interval
<1>3. \A v \in S : f[v] = Place(S, v) /\ f[v] \in T
  <2> SUFFICES ASSUME NEW v \in S PROVE Place(S, v) \in T
    OBVIOUS
  <2>1. Place(S, v) \in Nat /\ Place(S, v) < n
    BY PlacesGrow
  <2> HIDE DEF n
  <2> QED
    BY <1>1, <2>1
<1>4. \A u, v \in S : f[u] = f[v] => u = v
  BY PlacesGrow
<1> HIDE DEF n
<1>5. f \in Surjection(S, T)
  <2>1. f \in Injection(S, T)
    <3>1. f \in [S -> T]
      BY <1>3
    <3> HIDE DEF f
    <3> QED BY <1>4, <3>1 DEF Injection, IsInjective
  <2> HIDE DEF f, T
  <2> QED BY <1>2, <2>1, FS_Injection DEF n
<1>6. \E v \in S : Place(S, v) = k
  <2>1. k \in T
    BY <1>1 DEF n
  <2>2. PICK v \in S : f[v] = k
    BY <1>5, <2>1 DEF Surjection
  <2> QED BY <1>3, <2>2
<1>7. Nth(S, k) = CHOOSE v \in S : Place(S, v) = k
  BY DEF Nth, Place, Lower
<1> QED BY <1>6, <1>7

-----------------------------------------------------------------------------
(* Lexicographic order is a linear order.                                  *)
LEMMA LexicographicOrder ==
  ASSUME N \in Nat \ {0}, NEW x \in Generators, NEW y \in Generators, NEW z \in Generators
  PROVE  /\ ~Before(x, x)
         /\ x = y \/ Before(x, y) \/ Before(y, x)
         /\ Before(x, y) /\ Before(y, z) => Before(x, z)
<1>1. /\ \A f \in Generators : f \in [Rows -> Rows] /\ \A t \in Rows : f[t] \in Int
      /\ \A t \in Rows : t \in Int /\ t \in Nat
  <2>1. \A t \in Rows : t \in Int /\ t \in Nat
    BY DEF Rows
  <2> QED BY <2>1, RowFacts
<1>2. ~Before(x, x)
  BY <1>1 DEF Before
<1>3. x = y \/ Before(x, y) \/ Before(y, x)
  <2> DEFINE D == {t \in Rows : x[t] # y[t]}
  <2> SUFFICES ASSUME x # y PROVE Before(x, y) \/ Before(y, x)
    OBVIOUS
  <2>1. D # {} /\ D \in SUBSET Nat
    <3>1. x \in [Rows -> Rows] /\ y \in [Rows -> Rows]
      BY <1>1
    <3> QED BY <1>1, <3>1
  <2>2. PICK t \in D : \A u \in D : t <= u
    <3> HIDE DEF D
    <3> QED BY <2>1, Sums!LeastNat
  <2>3. \A u \in 0..(t - 1) : x[u] = y[u]
    <3> SUFFICES ASSUME NEW u \in 0..(t - 1), x[u] # y[u] PROVE FALSE
      OBVIOUS
    <3>1. t \in Rows /\ t \in Int /\ u \in Int /\ u < t
      BY <1>1
    <3>2. u \in Rows
      BY <3>1 DEF Rows
    <3> QED BY <2>2, <3>1, <3>2
  <2>4. x[t] < y[t] \/ y[t] < x[t]
    <3>1. t \in Rows /\ x[t] # y[t]
      BY <2>2
    <3>2. x[t] \in Int /\ y[t] \in Int
      BY <1>1, <3>1
    <3> QED BY <3>1, <3>2
  <2> QED BY <2>2, <2>3, <2>4 DEF Before
<1>4. ASSUME Before(x, y), Before(y, z) PROVE Before(x, z)
  <2>1. PICK s \in Rows : x[s] < y[s] /\ \A u \in 0..(s - 1) : x[u] = y[u]
    BY <1>4 DEF Before
  <2>2. PICK t \in Rows : y[t] < z[t] /\ \A u \in 0..(t - 1) : y[u] = z[u]
    BY <1>4 DEF Before
  <2>3. s \in Nat /\ t \in Nat
    BY <1>1
  <2>4. CASE s < t
    <3>1. s \in 0..(t - 1) /\ 0..(s - 1) \subseteq 0..(t - 1)
      BY <2>3, <2>4
    <3>2. x[s] < z[s] /\ \A u \in 0..(s - 1) : x[u] = z[u]
      BY <2>1, <2>2, <3>1
    <3> QED BY <3>2 DEF Before
  <2>5. CASE t < s
    <3>1. t \in 0..(s - 1) /\ 0..(t - 1) \subseteq 0..(s - 1)
      BY <2>3, <2>5
    <3>2. x[t] < z[t] /\ \A u \in 0..(t - 1) : x[u] = z[u]
      BY <2>1, <2>2, <3>1
    <3> QED BY <3>2 DEF Before
  <2>6. CASE s = t
    <3>1. x[s] < z[s]
      <4>1. x[s] \in Int /\ y[s] \in Int /\ z[s] \in Int
        BY <1>1
      <4> QED BY <2>1, <2>2, <2>6, <4>1
    <3> QED BY <2>1, <2>2, <2>6, <3>1 DEF Before
  <2> QED BY <2>3, <2>4, <2>5, <2>6
<1> QED BY <1>2, <1>3, <1>4

(* Ranks are in lexicographic order.                                       *)
LEMMA RanksInOrder ==
  ASSUME N \in Nat \ {0}, NEW x \in Generators, NEW y \in Generators
  PROVE  /\ RankOf(x) \in 0..(Total - 1) /\ RankOf(y) \in 0..(Total - 1)
         /\ Before(x, y) <=> RankOf(x) < RankOf(y)
         /\ RankOf(x) = RankOf(y) => x = y
<1> DEFINE L(w) == {z \in Generators : Before(z, w)}
<1>1. \A w \in Generators : RankOf(w) = Cardinality(L(w)) /\ RankOf(w) \in 0..(Total - 1) /\ IsFiniteSet(L(w))
  <2> SUFFICES ASSUME NEW w \in Generators
               PROVE  RankOf(w) = Cardinality(L(w)) /\ RankOf(w) \in 0..(Total - 1) /\ IsFiniteSet(L(w))
    OBVIOUS
  <2>1. RankOf(w) \in 0..(Total - 1)
    BY RankIsBelow
  <2>2. L(w) \subseteq Generators
    OBVIOUS
  <2> HIDE DEF L
  <2> QED BY <2>1, <2>2, RankCounts, GeneratorsFinite, FS_Subset DEF L
<1>2. ASSUME NEW v \in Generators, NEW w \in Generators, Before(v, w) PROVE RankOf(v) < RankOf(w)
  <2>1. L(v) \subseteq L(w) /\ v \in L(w) /\ v \notin L(v)
    BY <1>2, LexicographicOrder
  <2>2. /\ Cardinality(L(v)) <= Cardinality(L(w))
        /\ (Cardinality(L(v)) = Cardinality(L(w)) => L(v) = L(w))
    BY <1>1, <2>1, FS_Subset
  <2>3. RankOf(v) = Cardinality(L(v)) /\ RankOf(w) = Cardinality(L(w)) /\ RankOf(v) \in Int /\ RankOf(w) \in Int
    <3>1. Total \in Nat
      BY FactorialIs DEF Total
    <3> QED BY <1>1, <3>1
  <2> HIDE DEF L
  <2> QED BY <2>1, <2>2, <2>3
<1>3. RankOf(x) \in Int /\ RankOf(y) \in Int
  <2>1. Total \in Nat
    BY FactorialIs DEF Total
  <2> QED BY <2>1, RankIsBelow
<1> HIDE DEF L
<1> QED BY <1>1, <1>2, <1>3, LexicographicOrder

-----------------------------------------------------------------------------
(* A pair of rows as one number.                                           *)
CodeOf(ij) == ij[1] * N + ij[2]
Codes(x) == {CodeOf(ij) : ij \in SurvivingPairs(x)}
TargetOf(x, code) == Transpose(x, code \div N, code % N)

(* The targets read off the codes in order are those of the differential.  *)
LEMMA CodesAreTargets ==
  ASSUME N \in Nat \ {0}, NEW x \in Generators
  PROVE  /\ Codes(x) \in SUBSET Nat /\ IsFiniteSet(Codes(x)) /\ Cardinality(Codes(x)) \in Nat
         /\ {TargetOf(x, Nth(Codes(x), k - 1)) : k \in 1..Cardinality(Codes(x))} = DifferentialJit(x)
<1> DEFINE C == Codes(x)
           P == SurvivingPairs(x)
<1>1. \A ij \in P : ij[1] \in Rows /\ ij[2] \in Rows /\ ij \in Rows \X Rows
  BY DEF SurvivingPairs
<1>2. ASSUME NEW ij \in P
      PROVE  /\ CodeOf(ij) \in Nat /\ CodeOf(ij) \div N = ij[1] /\ CodeOf(ij) % N = ij[2]
             /\ TargetOf(x, CodeOf(ij)) = Transpose(x, ij[1], ij[2])
  <2> DEFINE a == ij[1]
             b == ij[2]
  <2>1. a \in Nat /\ b \in Nat /\ b < N
    BY <1>1 DEF Rows
  <2>2. CodeOf(ij) = a * N + b
    BY DEF CodeOf
  <2> HIDE DEF a, b
  <2>3. a * N + b \in Nat /\ (a * N + b) \div N = a /\ (a * N + b) % N = b
    <3>1. a * N \in Nat
      BY <2>1
    <3> QED BY <2>1, <3>1, Digits
  <2> QED BY <2>2, <2>3 DEF TargetOf, a, b
<1>3. C \in SUBSET Nat
  BY <1>2 DEF Codes
<1>4. IsFiniteSet(C) /\ Cardinality(C) \in Nat
  <2> DEFINE f == [ij \in P |-> CodeOf(ij)]
  <2>1. IsFiniteSet(P)
    <3>1. IsFiniteSet(Rows \X Rows)
      BY RowFacts, FS_Product
    <3>2. P \subseteq Rows \X Rows
      BY <1>1
    <3> HIDE DEF P
    <3> QED BY <3>1, <3>2, FS_Subset
  <2>2. f \in Surjection(P, C)
    BY DEF Surjection, Codes
  <2> HIDE DEF f, C, P
  <2>3. IsFiniteSet(C)
    BY <2>1, <2>2, FS_Surjection
  <2> QED BY <2>3, FS_CardinalityType
<1>5. DifferentialJit(x) = {TargetOf(x, c) : c \in C}
  <2>1. DifferentialJit(x) = {Transpose(x, ij[1], ij[2]) : ij \in P}
    BY DEF DifferentialJit
  <2>2. \A ij \in P : CodeOf(ij) \in C
    BY DEF Codes
  <2>3. \A c \in C : \E ij \in P : c = CodeOf(ij)
    BY DEF Codes
  <2>4. \A ij \in P : TargetOf(x, CodeOf(ij)) = Transpose(x, ij[1], ij[2])
    BY <1>2
  <2> HIDE DEF C, P
  <2> QED BY <2>1, <2>2, <2>3, <2>4
<1> HIDE DEF C
<1> DEFINE n == Cardinality(C)
<1>6. ASSUME NEW k \in 1..n PROVE Nth(C, k - 1) \in C
  <2>1. k - 1 \in Nat /\ k - 1 < n
    BY <1>4
  <2> HIDE DEF n
  <2> QED BY <1>3, <1>4, <2>1, PlacesAreFilled DEF n
<1>7. ASSUME NEW c \in C PROVE \E k \in 1..n : Nth(C, k - 1) = c
  <2> DEFINE p == Place(C, c)
  <2>1. p \in Nat /\ p < n
    BY <1>3, <1>4, PlacesGrow
  <2>2. Nth(C, p) = c
    BY <1>3, <1>4, NthIs DEF Place, Lower
  <2> HIDE DEF n, p
  <2>3. p + 1 \in 1..n /\ (p + 1) - 1 = p
    BY <1>4, <2>1 DEF n
  <2> QED BY <2>2, <2>3
<1>8. {TargetOf(x, Nth(C, k - 1)) : k \in 1..n} = {TargetOf(x, c) : c \in C}
  <2> HIDE DEF n
  <2> QED BY <1>6, <1>7
<1> QED BY <1>3, <1>4, <1>5, <1>8 DEF C
=============================================================================
