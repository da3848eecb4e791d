------------------------------ MODULE Reducers ------------------------------
(***************************************************************************)
(* The reducers of algebra/ beside those of Complexes: word-packed columns *)
(* (reduce_f2_packed.py, reduce_f2_jit.py), dense rows (f2_rank_dense),    *)
(* rational columns (rational_reduce.py), several primes (multimodular.py) *)
(* and cancellation of the complex (reduce_gaussian.py).  A sparse column  *)
(* maps rows to nonzero integers; over Q it stands for its multiples and   *)
(* is kept primitive, where the code keeps fractions.                      *)
(***************************************************************************)
EXTENDS Complexes

CONSTANT WordBits   \* bits in a word of a packed column (64)
CONSTANT Primes     \* the primes of the multimodular rank
ASSUME ReducersAssumption == WordBits \in Nat \ {0} /\ Primes \subseteq Nat \ {0, 1}

Q == 0              \* the field of rational numbers, beside the primes p

Over(p, v) == IF p = Q THEN v ELSE Sparse([r \in DOMAIN v |-> v[r] % p])

Magnitude(x) == IF x < 0 THEN -x ELSE x
Primitive(v) ==
  LET common == {d \in 1..Min({Magnitude(v[r]) : r \in DOMAIN v}) :
                   \A r \in DOMAIN v : Magnitude(v[r]) % d = 0}
      divided(x) == IF x < 0 THEN -(-x \div Max(common)) ELSE x \div Max(common)
  IN IF DOMAIN v = {} THEN v ELSE Table([r \in DOMAIN v |-> divided(v[r])])
InverseMod(p, x) == CHOOSE y \in 1..p - 1 : (x * y) % p = 1

(* v less the multiple of pivot that clears the row.                       *)
Cleared(p, v, pivot, row) ==
  LET rows == DOMAIN v \cup DOMAIN pivot
  IN IF p = Q
     THEN Primitive(Sparse([r \in rows |-> pivot[row] * Entry(v, r) - v[row] * Entry(pivot, r)]))
     ELSE LET factor == (v[row] * InverseMod(p, pivot[row])) % p
          IN Sparse([r \in rows |-> (Entry(v, r) - factor * Entry(pivot, r)) % p])

(* Column rank over Q (rational_rank) or modulo p (rank_mod_p): a column is*)
(* cleared against the pivots of its leading rows, at most all of them.    *)
SparsePivots(p, columns) ==
  LET reduced(pivots, column) ==
        LET after[k \in 0..Cardinality(DOMAIN pivots)] ==
              IF k = 0 THEN Over(p, column)
              ELSE LET v == after[k - 1]
                   IN IF DOMAIN v = {} \/ Max(DOMAIN v) \notin DOMAIN pivots THEN v
                      ELSE Cleared(p, v, pivots[Max(DOMAIN v)], Max(DOMAIN v))
        IN after[Cardinality(DOMAIN pivots)]
      found[j \in 0..Len(columns)] ==
        IF j = 0 THEN <<>>
        ELSE LET pivots == found[j - 1]
                 v == reduced(pivots, columns[j])
             IN IF DOMAIN v = {} THEN pivots ELSE (Max(DOMAIN v) :> v) @@ pivots
  IN found[Len(columns)]
RationalRank(columns) == Cardinality(DOMAIN SparsePivots(Q, columns))
RankModP(p, columns) == Cardinality(DOMAIN SparsePivots(p, columns))
RationalRankMultimodular(columns) == Max({RankModP(p, columns) : p \in Primes})

-----------------------------------------------------------------------------
(* Packed columns over F2: row r is bit (r - 1) % WordBits of word         *)
(* (r - 1) \div WordBits + 1; a word is the set of its bits.               *)
PackedWords(nrows) == Max({1, (nrows + WordBits - 1) \div WordBits})
Packed(column, nrows) ==
  [w \in 1..PackedWords(nrows) |->
     {(r - 1) % WordBits : r \in {row \in column : (row - 1) \div WordBits = w - 1}}]
(* Mutant: the position of the word is forgotten.                          *)
BitOfWord(v) == Max(v[Max({word \in DOMAIN v : v[word] # {}})])
LeadingRow(v) ==
  LET w == Max({word \in DOMAIN v : v[word] # {}}) IN (w - 1) * WordBits + Max(v[w])
IsZero(v) == \A w \in DOMAIN v : v[w] = {}

(* The compiled reducer keeps pivots in slots, as many as it has columns   *)
(* or bits; slot[lead] is the one of a leading row.                        *)
PackedRank(columns, nrows) ==
  LET xor(v, u) == [w \in DOMAIN v |-> Add(v[w], u[w])]
      reduced(s, column) ==
        LET after[k \in 0..Len(s.pivots)] ==
              IF k = 0 THEN Packed(column, nrows)
              ELSE LET v == after[k - 1]
                   IN IF IsZero(v) \/ LeadingRow(v) \notin DOMAIN s.slot THEN v
                      ELSE Table(xor(v, s.pivots[s.slot[LeadingRow(v)]]))
        IN after[Len(s.pivots)]
      found[j \in 0..Len(columns)] ==
        IF j = 0 THEN [slot |-> <<>>, pivots |-> <<>>]
        ELSE LET s == found[j - 1]
                 v == reduced(s, columns[j])
             IN IF IsZero(v) THEN s
                ELSE [slot |-> (LeadingRow(v) :> Len(s.pivots) + 1) @@ s.slot,
                      pivots |-> Append(s.pivots, v)]
  IN Len(found[Len(columns)].pivots)

(* Dense elimination by rows: the first row from prow on with a bit in the *)
(* column is swapped up and added to every other row that has the bit.     *)
DenseRank(columns, nrows) ==
  LET step(s, c) ==
        LET hits == {r \in s.prow + 1..nrows : c \in s.rows[r]}
            swapped == [s.rows EXCEPT ![Min(hits)] = s.rows[s.prow + 1],
                                      ![s.prow + 1] = s.rows[Min(hits)]]
        IN IF hits = {} THEN s
           ELSE [prow |-> s.prow + 1,
                 rows |-> Table([r \in 1..nrows |->
                    IF r # s.prow + 1 /\ c \in swapped[r]
                    THEN Add(swapped[r], swapped[s.prow + 1]) ELSE swapped[r]])]
      after[c \in 0..Len(columns)] ==
        IF c = 0 THEN [prow |-> 0, rows |-> [r \in 1..nrows |-> {j \in DOMAIN columns : r \in columns[j]}]]
        ELSE step(after[c - 1], c)
  IN after[Len(columns)].prow

-----------------------------------------------------------------------------
(* Cancellation: a unit entry of d takes its two generators out and every  *)
(* other column with that row picks up the correction, until d is zero;    *)
(* what is left is the homology.  cols[n][k] is the column of generator k. *)
Cancelled(p, cols, n, a, b) ==
  LET corrected(v) == IF b \in DOMAIN v THEN Cleared(p, v, cols[n][a], b) ELSE v
      without(f, k) == Table([x \in DOMAIN f \ {k} |-> f[x]])
  IN [m \in DOMAIN cols |->
        CASE m = n -> Table([x \in DOMAIN cols[n] \ {a} |-> corrected(cols[n][x])])
          [] m = n + 1 -> without(cols[m], b)
          [] m = n - 1 -> Table([x \in DOMAIN cols[m] |-> without(cols[m][x], a)])
          [] OTHER -> cols[m]]
CancelAll(p, cx) ==
  LET start == [n \in DOMAIN cx.dims |-> [k \in 1..cx.dims[n] |-> Over(p, cx.maps[n][k])]]
      units(cols) == {<<n, a>> \in UNION {{n} \X DOMAIN cols[n] : n \in DOMAIN cols} :
                        DOMAIN cols[n][a] # {}}
      after[k \in 0..SumFunction(cx.dims)] ==
        IF k = 0 THEN start
        ELSE LET cols == after[k - 1]
                 unit == CHOOSE u \in units(cols) : TRUE
             IN IF units(cols) = {} THEN cols
                ELSE Cancelled(p, cols, unit[1], unit[2],
                               CHOOSE r \in DOMAIN cols[unit[1]][unit[2]] : TRUE)
      left == after[SumFunction(cx.dims)]
  IN [n \in {m \in DOMAIN left : DOMAIN left[m] # {}} |-> Cardinality(DOMAIN left[n])]

-----------------------------------------------------------------------------
(* Rational homology by ranks, and the checks before it.                   *)
SquaresToZero(cx) ==
  \A n \in {m \in DOMAIN cx.dims : m + 1 \in DOMAIN cx.dims} : \A k \in DOMAIN cx.maps[n] :
    LET d == cx.maps[n][k]
        image == UNION {DOMAIN cx.maps[n + 1][r] : r \in DOMAIN d}
    IN \A t \in image : MapThenSumSet(LAMBDA r : d[r] * Entry(cx.maps[n + 1][r], t), DOMAIN d) = 0
F2SquaresToZero(cx) ==
  \A n \in {m \in DOMAIN cx.dims : m + 1 \in DOMAIN cx.dims} : \A k \in DOMAIN cx.maps[n] :
    FoldSet(LAMBDA r, acc : Add(acc, cx.maps[n + 1][r]), {}, cx.maps[n][k]) = {}

RationalHomology(cx) ==
  LET ranks == Table([n \in DOMAIN cx.dims |-> RationalRank(cx.maps[n])])
      betti(n) == cx.dims[n] - ranks[n] - Entry(ranks, n - 1)
  IN [n \in {m \in DOMAIN cx.dims : betti(m) # 0} |-> betti(n)]
=============================================================================
