--------------------------- MODULE KnotFloerProps ---------------------------
(***************************************************************************)
(* What the path from markers to HFK-hat promises.  Statements about a     *)
(* grid are evaluated once, at the stage where the grid is new.            *)
(***************************************************************************)
EXTENDS KnotFloer

(* The reflection of a grid across its horizontal axis.                    *)
Reversed(m) == [r \in 0..(grid.n - 1) |-> m[grid.n - 1 - r]]
T == INSTANCE GridTau WITH N <- grid.n, O <- grid.O, X <- grid.X
Mirror == INSTANCE GridTau WITH N <- grid.n, O <- Reversed(grid.O), X <- Reversed(grid.X)

-----------------------------------------------------------------------------
(* A marker list is a knot when the n rows and the n columns hold two      *)
(* distinct markers each and nothing but the whole list is closed under    *)
(* sharing a row or a column.                                              *)
SameLine(i, k) == \E axis \in {1, 2} : markers[i][axis] = markers[k][axis]
IsKnot ==
  /\ WellFormed
  /\ \A i \in DOMAIN markers : markers[i] \in (1..Size) \X (1..Size)
  /\ \A i, k \in DOMAIN markers : markers[i] = markers[k] => i = k
  /\ \A S \in SUBSET DOMAIN markers :
       S # {} /\ (\A i \in S : \A k \in DOMAIN markers : SameLine(i, k) => k \in S)
         => S = DOMAIN markers

(* The tracing of GridDiagram.from_markers accepts exactly the lists that  *)
(* are knots, links and malformed lists being refused, and the grid it     *)
(* builds holds the given markers, mirrored, in every row one O and one X. *)
TraceIsRight ==
  /\ stage = "rejected" => ~IsKnot
  /\ stage = "built" =>
       /\ IsKnot /\ G!ValidGrid
       /\ G!MarkerCells = {<<Size - markers[i][1], markers[i][2] - 1>> : i \in DOMAIN markers}

(* The graph of a knot is one the scheduler's JobGraph accepts and can     *)
(* serve: no job reads a result its producer does not leave behind, the    *)
(* result of every job but the assembly is read, and the merge delivers    *)
(* exactly the shards the graph declared before any generator was built,   *)
(* each with the dimensions it was priced at.                              *)
Merged == stage = "running" /\ DOMAIN held = SliceKeys \cup {Merge}
JobsAccepted ==
  /\ stage = "running" /\ held = <<>> =>
       /\ Graph!AllValid /\ Graph!Servable
       /\ \A j \in KnotJobs \ {Assemble} : Graph!Dependents(j) # {}
  /\ Merged => histogram = [a \in DOMAIN held[Merge] |-> held[Merge][a].dims]

(* The array kernels of the scheduled path agree with the readable         *)
(* definitions: the pairwise parity with the global count modulo two, the  *)
(* ranks with lexicographic order.                                         *)
KernelAgrees ==
  stage = "built" =>
    /\ \A x \in G!Generators : G!DifferentialJit(x) = G!Differential(x)
    /\ \A x \in G!Generators :
         /\ G!RankOf(x) = Cardinality({y \in G!Generators : G!Before(y, x)})
         /\ G!Unrank(G!RankOf(x)) = x

(* Both differentials square to zero and lower Maslov by one; the one that *)
(* avoids every marker keeps the Alexander grading, the one that avoids    *)
(* the O markers never raises it.                                          *)
SquaresToZero(d) ==
  \A x \in DOMAIN d : \A z \in UNION {d[y] : y \in d[x]} :
    Cardinality({y \in d[x] : z \in d[y]}) % 2 = 0
ChainComplex ==
  stage = "built" =>
    LET hat == Table([x \in G!Generators |-> G!Differential(x)])
        filtered == Table([x \in G!Generators |-> G!FilteredDifferential(x)])
        maslov == Table([x \in G!Generators |-> G!Maslov(x)])
        alexander == Table([x \in G!Generators |-> G!Alexander(x)])
    IN /\ SquaresToZero(hat) /\ SquaresToZero(filtered)
       /\ \A x \in G!Generators :
            /\ \A y \in hat[x] : maslov[y] = maslov[x] - 1 /\ alexander[y] = alexander[x]
            /\ \A y \in filtered[x] : maslov[y] = maslov[x] - 1 /\ alexander[y] <= alexander[x]

-----------------------------------------------------------------------------
(* The complexes of the slices, merged in whatever order they are handed   *)
(* over, are those of the serial grid_complexes, entry by entry.           *)
MergeIsSerial == Merged => held[Merge] = GridComplexes

(* The memory a reduction is declared with, from dimensions alone, covers  *)
(* the matrix and the pivots the packed reducer really holds.              *)
PriceCovers ==
  Merged =>
    \A a \in DOMAIN held[Merge] :
      LET cx == held[Merge][a]
      IN \A n \in DOMAIN cx.maps :
           (cx.dims[n] + F2Rank(cx.maps[n])) * Words(cx.dims[n + 1]) * 8 <= PeakBytes(histogram[a])

-----------------------------------------------------------------------------
Sign(m) == IF m % 2 = 0 THEN 1 ELSE -1
Genus == Max({c[2] : c \in DOMAIN hfk})

(* Every knot gets an answer: no Betti number is negative, and the grid    *)
(* homology factors as HFK-hat times the V factors.  The answer has the    *)
(* shape of a knot's HFK-hat: symmetric under reversal of the Alexander    *)
(* grading, and with Euler characteristic plus or minus one, the value of  *)
(* the Alexander polynomial at 1.                                          *)
HfkIsKnotFloer ==
  /\ stage # "unvalidated"
  /\ stage = "answered" =>
       /\ hfk # <<>>
       /\ \A c \in DOMAIN hfk : At(hfk, <<c[1] - 2 * c[2], -c[2]>>) = hfk[c]
       /\ MapThenSumSet(LAMBDA c : Sign(c[1]) * hfk[c], DOMAIN hfk) \in {1, -1}

(* tau is defined for every knot, changes sign with the mirror image and   *)
(* is at most the genus in absolute value, the genus the answer detects.   *)
TauIsBounded ==
  stage = "answered" =>
    \E level \in -Genus..Genus : T!Tau = {level} /\ Mirror!Tau = {-level}
=============================================================================
