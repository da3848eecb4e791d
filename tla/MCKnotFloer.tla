----------------------------- MODULE MCKnotFloer -----------------------------
(* Markers of grids of size 2, 3 and 4, knots and links, of the trefoils and *)
(* the unknot on grids of size 5, and lists that are not grids at all.       *)
EXTENDS KnotFloerProps

Permutations0(n) == {p \in [0..(n - 1) -> 0..(n - 1)] : \A i, j \in DOMAIN p : p[i] = p[j] => i = j}
MarkersOf(n, o, x) ==
  [i \in 1..(2 * n) |-> <<(i - 1) \div 2 + 1, (IF i % 2 = 1 THEN o ELSE x)[(i - 1) \div 2] + 1>>]
(* The O markers on the diagonal, the X markers anywhere else in their row. *)
Diagonal(n) == [r \in 0..(n - 1) |-> r]
GridsOn(n) ==
  {MarkersOf(n, Diagonal(n), x) : x \in {p \in Permutations0(n) : \A r \in DOMAIN p : p[r] # r}}
Trefoil == MarkersOf(5, Diagonal(5), [r \in 0..4 |-> (r + 2) % 5])
LeftTrefoil == MarkersOf(5, [r \in 0..4 |-> 4 - r], [r \in 0..4 |-> (6 - r) % 5])
(* Rows that leave two neighbouring columns free: rectangles with a point   *)
(* inside and no marker.                                                    *)
Staircase == MarkersOf(5, Diagonal(5), [r \in 0..4 |-> (r + 1) % 5])

Malformations == {
  <<<<1, 1>>, <<1, 2>>, <<2, 1>>>>,                        \* an odd number
  <<<<1, 1>>, <<1, 2>>, <<1, 1>>, <<2, 2>>>>,              \* three in a row
  <<<<1, 1>>, <<1, 1>>>>,                                  \* two markers in one cell
  <<<<1, 1>>, <<1, 3>>, <<3, 1>>, <<3, 3>>>>,              \* a row beyond the size
  <<<<1, 1>>, <<1, 3>>, <<2, 1>>, <<2, 3>>>>}              \* a column beyond the size

MCMarkerLists == GridsOn(2) \cup GridsOn(3) \cup GridsOn(4) \cup {Trefoil, LeftTrefoil, Staircase} \cup Malformations
(* Three, five and three slices, of unequal length where they can be.       *)
MCSliceStates == [n \in 1..5 |-> CASE n <= 2 -> 1 [] n = 3 -> 2 [] n = 4 -> 5 [] OTHER -> 50]
==============================================================================
