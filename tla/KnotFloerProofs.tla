--------------------------- MODULE KnotFloerProofs ---------------------------
(***************************************************************************)
(* From the markers to the jobs of a knot, for marker lists of every       *)
(* length: tracing accepts the knots, on the grid it builds the kernels of *)
(* the scheduled path compute what the reference defines, the jobs it is   *)
(* split into are ones JobGraph accepts, and what they merge, in whatever  *)
(* order the slices come, are the complexes of the serial path.            *)
(***************************************************************************)
EXTENDS KnotFloerProps, TotalsProofs, FunctionTheorems, TLAPS

(* The facts about one grid, of the grid that was built.                   *)
Facts == INSTANCE GridProofs WITH N <- grid.n, O <- grid.O, X <- grid.X
-----------------------------------------------------------------------------
(* The trace.  Other is the marker at the other end of an arc.             *)
Other(i, axis) == CHOOSE k \in InGroup(i, axis) \ {i} : TRUE
Axes == {1, 2}
Along == IF byRow THEN 1 ELSE 2
Coloured == DOMAIN colour

Placed == markers # <<>> /\ markers \in Seq((Nat \ {0}) \X (Nat \ {0}))

LEMMA MarkersAre ==
  ASSUME Placed
  PROVE  /\ DOMAIN markers = 1..Len(markers) /\ Len(markers) \in Nat \ {0} /\ 1 \in DOMAIN markers
         /\ IsFiniteSet(DOMAIN markers) /\ Cardinality(DOMAIN markers) = Len(markers)
         /\ \A i \in DOMAIN markers :
              /\ markers[i][1] \in Nat \ {0} /\ markers[i][2] \in Nat \ {0}
              /\ markers[i] = <<markers[i][1], markers[i][2]>>
<1>1. DOMAIN markers = 1..Len(markers) /\ Len(markers) \in Nat \ {0}
  BY DEF Placed
<1>2. IsFiniteSet(1..Len(markers)) /\ Cardinality(1..Len(markers)) = Len(markers)
  BY <1>1, FS_Interval
<1>3. \A i \in DOMAIN markers : markers[i] \in (Nat \ {0}) \X (Nat \ {0})
  BY DEF Placed
<1> QED BY <1>1, <1>2, <1>3

(* In a well-formed list the arcs pair the markers, row by row and column  *)
(* by column.                                                              *)
LEMMA ArcsPair ==
  ASSUME Placed, WellFormed, NEW axis \in Axes, NEW i \in DOMAIN markers
  PROVE  /\ Other(i, axis) \in DOMAIN markers /\ Other(i, axis) # i
         /\ InGroup(i, axis) = {i, Other(i, axis)}
         /\ markers[Other(i, axis)][axis] = markers[i][axis]
         /\ Other(Other(i, axis), axis) = i
<1> DEFINE S == InGroup(i, axis)
           k == Other(i, axis)
<1>1. S \subseteq DOMAIN markers /\ i \in S /\ Cardinality(S) = 2
  BY DEF InGroup, WellFormed, Axes
<1>2. IsFiniteSet(S)
  BY <1>1, MarkersAre, FS_Subset
<1>3. IsFiniteSet(S \ {i}) /\ Cardinality(S \ {i}) = 1
  <2> HIDE DEF S
  <2> QED BY <1>1, <1>2, FS_RemoveElement
<1>4. PICK x : S \ {i} = {x}
  <2> HIDE DEF S
  <2> QED BY <1>3, FS_Singleton
<1>5. k = x
  BY <1>4 DEF Other
<1>6. k \in S /\ k # i /\ S = {i, k}
  BY <1>1, <1>4, <1>5
<1>7. markers[k][axis] = markers[i][axis]
  BY <1>6 DEF InGroup
<1>8. InGroup(k, axis) = S
  BY <1>7 DEF InGroup
<1>9. Other(k, axis) = i
  <2>1. InGroup(k, axis) \ {k} = {i}
    BY <1>6, <1>8
  <2> HIDE DEF k
  <2> QED BY <2>1 DEF Other
<1> QED BY <1>1, <1>6, <1>7, <1>9

(* What the trace has coloured so far: a path of arcs, each of them from O *)
(* to X or back, from the first marker to the last.                        *)
Path ==
  /\ colour = [i \in Coloured |-> colour[i]] /\ Coloured \subseteq DOMAIN markers
  /\ \A i \in Coloured : colour[i] \in {0, 1}
  /\ 1 \in Coloured /\ at \in Coloured /\ colour[1] = 0
  /\ byRow \in BOOLEAN /\ (byRow <=> colour[at] = 0)
RowsPaired ==
  \A i \in Coloured : ~(byRow /\ i = at) =>
    /\ Other(i, 1) \in Coloured /\ colour[Other(i, 1)] = 1 - colour[i]
    /\ byRow => Other(i, 1) # at
ColumnsPaired ==
  \A i \in Coloured : i # 1 /\ ~(~byRow /\ i = at) =>
    /\ Other(i, 2) \in Coloured /\ colour[Other(i, 2)] = 1 - colour[i] /\ Other(i, 2) # 1
    /\ ~byRow => Other(i, 2) # at
Closed(S) == \A i \in S : \A k \in DOMAIN markers : SameLine(i, k) => k \in S
Connected == \A S \in SUBSET DOMAIN markers : Closed(S) => \A i \in Coloured : i \in S <=> 1 \in S
TracePath == Path /\ RowsPaired /\ ColumnsPaired /\ Connected

(* Both ends of an arc lie in the same closed sets.                        *)
LEMMA ArcStaysInside ==
  ASSUME Placed, WellFormed, NEW axis \in Axes, NEW i \in DOMAIN markers,
         NEW S \in SUBSET DOMAIN markers, Closed(S)
  PROVE  Other(i, axis) \in S <=> i \in S
<1>1. /\ Other(i, axis) \in DOMAIN markers /\ markers[Other(i, axis)][axis] = markers[i][axis]
  BY ArcsPair
<1>2. SameLine(i, Other(i, axis)) /\ SameLine(Other(i, axis), i)
  BY <1>1 DEF SameLine, Axes
<1> QED BY <1>1, <1>2 DEF Closed

LEMMA TraceStarts ==
  ASSUME Placed, WellFormed, colour = [i \in {1} |-> 0], at = 1, byRow = TRUE
  PROVE  TracePath
<1>1. Coloured = {1} /\ colour[1] = 0 /\ colour = [i \in Coloured |-> colour[i]]
  BY DEF Coloured
<1> QED BY <1>1, MarkersAre DEF TracePath, Path, RowsPaired, ColumnsPaired, Connected

LEMMA TraceGoesOn ==
  ASSUME Placed, WellFormed, TracePath, Trace
  PROVE  TracePath'
<1> DEFINE p == Other(at, Along)
<1>0. UNCHANGED markers
  BY DEF Trace
<1>1. /\ colour' = [i \in Coloured \cup {p} |-> IF i \in Coloured THEN colour[i] ELSE 1 - colour[at]]
      /\ p \notin Coloured /\ at' = p /\ byRow' = ~byRow
  BY DEF Trace, Partner, Other, Along, Coloured
<1>2. /\ at \in DOMAIN markers /\ at \in Coloured /\ Along \in Axes /\ byRow \in BOOLEAN
      /\ Coloured \subseteq DOMAIN markers /\ 1 \in Coloured
      /\ (byRow <=> colour[at] = 0) /\ \A i \in Coloured : colour[i] \in {0, 1}
  BY DEF TracePath, Path, Along, Axes
<1>3. p \in DOMAIN markers /\ p # at /\ Other(p, Along) = at
  BY <1>2, ArcsPair
<1>4. Coloured' = Coloured \cup {p} /\ colour'[p] = 1 - colour[at]
      /\ (\A i \in Coloured : colour'[i] = colour[i]) /\ colour' = [i \in Coloured' |-> colour'[i]]
  <2> HIDE DEF p
  <2> QED BY <1>1 DEF Coloured
<1>5. \A i, axis : Other(i, axis)' = Other(i, axis)
  BY <1>0 DEF Other, InGroup
<1>6. \A i \in DOMAIN markers : /\ Other(Other(i, 1), 1) = i /\ Other(Other(i, 2), 2) = i
                                /\ Other(i, 1) \in DOMAIN markers /\ Other(i, 2) \in DOMAIN markers
  BY ArcsPair DEF Axes
<1>7. Path'
  <2>1. colour'[1] = colour[1] /\ colour[1] = 0
    BY <1>2, <1>4 DEF TracePath, Path
  <2>2. byRow' <=> colour'[at'] = 0
    <3> HIDE DEF p
    <3>1. colour'[at'] = 1 - colour[at] /\ byRow' = ~byRow
      BY <1>1, <1>4
    <3>2. colour[at] \in {0, 1}
      BY <1>2
    <3>3. CASE byRow
      <4>1. colour[at] = 0
        BY <1>2, <3>3
      <4>2. ~(colour'[at'] = 0)
        BY <3>1, <4>1
      <4>3. ~byRow'
        BY <3>1, <3>3
      <4> QED BY <4>2, <4>3
    <3>4. CASE ~byRow
      <4>1. colour[at] # 0
        BY <1>2, <3>4
      <4>2. colour'[at'] = 0
        BY <3>1, <3>2, <4>1
      <4>3. byRow'
        BY <3>1, <3>4
      <4> QED BY <4>2, <4>3
    <3> QED BY <3>3, <3>4
  <2>3. \A i \in Coloured' : colour'[i] \in {0, 1}
    BY <1>2, <1>4
  <2> HIDE DEF p
  <2> QED BY <1>0, <1>1, <1>2, <1>3, <1>4, <2>1, <2>2, <2>3 DEF Path
<1>8. RowsPaired'
  <2> SUFFICES ASSUME NEW i \in Coloured', ~(byRow' /\ i = at')
               PROVE  /\ Other(i, 1) \in Coloured' /\ colour'[Other(i, 1)] = 1 - colour'[i]
                      /\ byRow' => Other(i, 1) # at'
    BY <1>5 DEF RowsPaired
  <2>1. CASE byRow
    <3>1. p = Other(at, 1) /\ Other(p, 1) = at
      BY <1>3, <2>1 DEF Along
    <3>2. \A k \in Coloured \ {at} : Other(k, 1) \in Coloured /\ colour[Other(k, 1)] = 1 - colour[k]
      BY <2>1 DEF TracePath, RowsPaired
    <3> HIDE DEF p
    <3>3. CASE i = p
      BY <1>1, <1>2, <1>4, <2>1, <3>1, <3>3
    <3>4. CASE i = at
      <4>1. Other(i, 1) = p /\ colour'[i] = colour[at] /\ p \in Coloured' /\ ~byRow'
        BY <1>1, <1>2, <1>4, <2>1, <3>1, <3>4
      <4> QED BY <1>4, <4>1
    <3>5. CASE i \in Coloured \ {at}
      <4>1. Other(i, 1) \in Coloured /\ colour[Other(i, 1)] = 1 - colour[i]
        BY <3>2, <3>5
      <4> QED BY <1>1, <1>4, <2>1, <3>5, <4>1
    <3> QED BY <1>4, <3>3, <3>4, <3>5
  <2>2. CASE ~byRow
    <3>1. i \in Coloured
      BY <1>1, <1>4, <2>2
    <3>2. Other(i, 1) \in Coloured /\ colour[Other(i, 1)] = 1 - colour[i]
      BY <2>2, <3>1 DEF TracePath, RowsPaired
    <3> HIDE DEF p
    <3> QED BY <1>1, <1>4, <3>1, <3>2
  <2> QED BY <2>1, <2>2
<1>9. ColumnsPaired'
  <2> SUFFICES ASSUME NEW i \in Coloured', i # 1, ~(~byRow' /\ i = at')
               PROVE  /\ Other(i, 2) \in Coloured' /\ colour'[Other(i, 2)] = 1 - colour'[i]
                      /\ Other(i, 2) # 1
                      /\ ~byRow' => Other(i, 2) # at'
    BY <1>5 DEF ColumnsPaired
  <2>1. CASE byRow
    <3>1. i \in Coloured
      BY <1>1, <1>4, <2>1
    <3>2. /\ Other(i, 2) \in Coloured /\ colour[Other(i, 2)] = 1 - colour[i]
          /\ Other(i, 2) # 1
      BY <2>1, <3>1 DEF TracePath, ColumnsPaired
    <3> HIDE DEF p
    <3> QED BY <1>1, <1>4, <3>1, <3>2
  <2>2. CASE ~byRow
    <3>1. p = Other(at, 2) /\ Other(p, 2) = at /\ at # 1
      BY <1>2, <1>3, <2>2 DEF Along, TracePath, Path
    <3>2. \A k \in Coloured \ {1, at} :
            Other(k, 2) \in Coloured /\ colour[Other(k, 2)] = 1 - colour[k] /\ Other(k, 2) # 1
      BY <2>2 DEF TracePath, ColumnsPaired
    <3> HIDE DEF p
    <3>3. CASE i = p
      BY <1>1, <1>2, <1>4, <2>2, <3>1, <3>3
    <3>4. CASE i = at
      <4>1. Other(i, 2) = p /\ colour'[i] = colour[at] /\ p \in Coloured' /\ byRow' /\ p # 1
        BY <1>1, <1>2, <1>4, <2>2, <3>1, <3>4
      <4> QED BY <1>4, <4>1
    <3>5. CASE i \in Coloured \ {1, at}
      <4>1. Other(i, 2) \in Coloured /\ colour[Other(i, 2)] = 1 - colour[i] /\ Other(i, 2) # 1
        BY <3>2, <3>5
      <4> QED BY <1>1, <1>4, <2>2, <3>5, <4>1
    <3> QED BY <1>4, <3>3, <3>4, <3>5
  <2> QED BY <2>1, <2>2
<1>10. Connected'
  <2> SUFFICES ASSUME NEW S \in SUBSET DOMAIN markers, Closed(S), NEW i \in Coloured'
               PROVE  i \in S <=> 1 \in S
    BY <1>0 DEF Connected, Closed, SameLine
  <2>1. \A k \in Coloured : k \in S <=> 1 \in S
    BY DEF TracePath, Connected
  <2>2. p \in S <=> at \in S
    BY <1>2, ArcStaysInside
  <2> HIDE DEF p
  <2> QED BY <1>2, <1>4, <2>1, <2>2
<1> QED BY <1>7, <1>8, <1>9, <1>10 DEF TracePath

(* When the trace meets a coloured marker it is the first one: the cycle   *)
(* is closed, along rows and along columns.                                *)
Cycle ==
  \A axis \in Axes : \A i \in Coloured :
    Other(i, axis) \in Coloured /\ colour[Other(i, axis)] = 1 - colour[i]
LEMMA CycleCloses ==
  ASSUME Placed, WellFormed, TracePath, Partner(at) \in Coloured
  PROVE  Cycle
<1>1. Other(at, Along) \in Coloured
  BY DEF Partner, Other, Along
<1>2. /\ at \in DOMAIN markers /\ at \in Coloured /\ Along \in Axes /\ byRow \in BOOLEAN
      /\ Coloured \subseteq DOMAIN markers /\ 1 \in Coloured /\ colour[1] = 0
      /\ (byRow <=> colour[at] = 0) /\ \A i \in Coloured : colour[i] \in {0, 1}
  BY DEF TracePath, Path, Along, Axes
<1>3. Other(at, Along) # at /\ Other(Other(at, Along), Along) = at
  BY <1>2, ArcsPair
<1>4. ~byRow
  BY <1>1, <1>3 DEF TracePath, RowsPaired, Along
<1>5. Other(at, 2) = 1 /\ Other(1, 2) = at
  BY <1>1, <1>3, <1>4 DEF TracePath, ColumnsPaired, Along
<1>6. \A i \in Coloured : Other(i, 1) \in Coloured /\ colour[Other(i, 1)] = 1 - colour[i]
  BY <1>4 DEF TracePath, RowsPaired
<1>7. \A i \in Coloured : Other(i, 2) \in Coloured /\ colour[Other(i, 2)] = 1 - colour[i]
  BY <1>2, <1>4, <1>5 DEF TracePath, ColumnsPaired
<1> QED BY <1>6, <1>7 DEF Cycle, Axes

(* The whole list has been traced, and no row lies beyond the size.        *)
Complete ==
  /\ Placed /\ WellFormed /\ Path /\ Cycle
  /\ Coloured = DOMAIN markers /\ \A i \in DOMAIN markers : markers[i][1] <= Size
OfColour(c) == {i \in DOMAIN markers : colour[i] = c}

LEMMA SizeIs ==
  ASSUME Placed, WellFormed
  PROVE  Size \in Nat \ {0} /\ Len(markers) = 2 * Size
<1>1. Len(markers) \in Nat \ {0} /\ Len(markers) % 2 = 0
  BY MarkersAre DEF WellFormed
<1> HIDE DEF Placed
<1> QED BY <1>1 DEF Size

(* A line holds one marker of each colour.                                 *)
LEMMA OneOfAColour ==
  ASSUME Complete, NEW axis \in Axes, NEW i \in DOMAIN markers, NEW k \in DOMAIN markers,
         markers[i][axis] = markers[k][axis], colour[i] = colour[k]
  PROVE  i = k
<1>1. k \in InGroup(i, axis)
  BY DEF InGroup
<1>2. InGroup(i, axis) = {i, Other(i, axis)}
  BY ArcsPair DEF Complete
<1>3. colour[Other(i, axis)] = 1 - colour[i] /\ colour[i] \in {0, 1}
  BY DEF Complete, Cycle, Path
<1>4. colour[Other(i, axis)] # colour[i]
  BY <1>3
<1> QED BY <1>1, <1>2, <1>4

LEMMA HalfOfEach ==
  ASSUME Complete, NEW c \in {0, 1}
  PROVE  IsFiniteSet(OfColour(c)) /\ Cardinality(OfColour(c)) = Size
<1> DEFINE A == OfColour(c)
           B == OfColour(1 - c)
           f == [i \in A |-> Other(i, 1)]
<1>1. IsFiniteSet(A) /\ IsFiniteSet(B) /\ A \subseteq DOMAIN markers /\ B \subseteq DOMAIN markers
  BY MarkersAre, FS_Subset DEF OfColour, Complete
<1>2. \A i \in DOMAIN markers : colour[i] \in {0, 1} /\ colour[Other(i, 1)] = 1 - colour[i]
                              /\ Other(i, 1) \in DOMAIN markers /\ Other(Other(i, 1), 1) = i
  BY ArcsPair DEF Complete, Cycle, Path, Axes
<1>3. A \cap B = {} /\ A \cup B = DOMAIN markers
  <2>1. \A i \in DOMAIN markers : (colour[i] = c \/ colour[i] = 1 - c) /\ ~(colour[i] = c /\ colour[i] = 1 - c)
    BY <1>2
  <2> QED BY <2>1 DEF OfColour
<1>4. f \in Bijection(A, B)
  <2>1. \A i \in A : Other(i, 1) \in B
    BY <1>2 DEF OfColour
  <2>2. f \in [A -> B]
    BY <2>1
  <2>3. \A i, k \in A : f[i] = f[k] => i = k
    BY <1>1, <1>2
  <2>4. \A k \in B : Other(k, 1) \in A /\ f[Other(k, 1)] = k
    BY <1>2 DEF OfColour
  <2> HIDE DEF A, B, f
  <2>5. f \in Injection(A, B)
    BY <2>2, <2>3 DEF Injection, IsInjective
  <2>6. f \in Surjection(A, B)
    BY <2>2, <2>4 DEF Surjection
  <2> QED BY <2>5, <2>6 DEF Bijection
<1>5. Cardinality(A) = Cardinality(B) /\ Cardinality(A) \in Nat
  <2> HIDE DEF A, B, f
  <2>1. ExistsBijection(A, B)
    BY <1>4 DEF ExistsBijection
  <2> QED BY <1>1, <2>1, FS_Bijection, FS_CardinalityType
<1>6. Cardinality(DOMAIN markers) = Cardinality(A) + Cardinality(B)
  <2> HIDE DEF A, B
  <2>1. Cardinality(A \cup B) = Cardinality(A) + Cardinality(B) - Cardinality(A \cap B)
    BY <1>1, FS_Union
  <2> QED BY <1>3, <1>5, <2>1, FS_EmptySet
<1>7. Cardinality(DOMAIN markers) = 2 * Size /\ Size \in Nat
  BY MarkersAre, SizeIs DEF Complete
<1> HIDE DEF A, B
<1>8. Cardinality(A) = Size
  BY <1>5, <1>6, <1>7
<1> QED BY <1>1, <1>8 DEF A

(* There are as many markers of a colour as rows, at most one to a row: no *)
(* row is without one.                                                     *)
LEMMA EveryRowIsUsed ==
  ASSUME Complete, NEW c \in {0, 1}, NEW r \in 1..Size
  PROVE  \E i \in DOMAIN markers : markers[i][1] = r /\ colour[i] = c
<1> DEFINE A == OfColour(c)
           f == [i \in A |-> markers[i][1]]
<1>1. Size \in Nat /\ \A i \in DOMAIN markers : markers[i][1] \in 1..Size
  BY SizeIs, MarkersAre DEF Complete
<1>2. f \in [A -> 1..Size]
  BY <1>1 DEF OfColour
<1>3. \A i, k \in A : f[i] = f[k] => i = k
  BY OneOfAColour DEF OfColour, Axes
<1>4. IsFiniteSet(1..Size) /\ Cardinality(1..Size) = Size
  BY <1>1, FS_Interval
<1>5. IsFiniteSet(A) /\ Cardinality(A) = Size
  BY HalfOfEach
<1>6. \E i \in A : f[i] = r
  <2> HIDE DEF A, f
  <2>1. f \in Injection(A, 1..Size)
    BY <1>2, <1>3 DEF Injection, IsInjective
  <2>2. f \in Surjection(A, 1..Size)
    BY <1>4, <1>5, <2>1, FS_Injection
  <2> QED BY <2>2 DEF Surjection
<1> QED BY <1>6 DEF OfColour

LEMMA ColumnIs ==
  ASSUME Complete, NEW c \in {0, 1}, NEW r \in 0..(Size - 1), NEW i \in DOMAIN markers,
         markers[i][1] = Size - r, colour[i] = c
  PROVE  ColumnsOf(c)[r] = markers[i][2] - 1
<1> DEFINE k == CHOOSE j \in DOMAIN markers : markers[j][1] = Size - r /\ colour[j] = c
<1>1. k \in DOMAIN markers /\ markers[k][1] = Size - r /\ colour[k] = c
  OBVIOUS
<1>2. k = i
  <2> HIDE DEF k
  <2> QED BY <1>1, OneOfAColour DEF Axes
<1>3. ColumnsOf(c)[r] = markers[k][2] - 1
  BY DEF ColumnsOf
<1> QED BY <1>2, <1>3

(* So every cell of the grid is a marker's and every marker has its cell.  *)
LEMMA CellsAre ==
  ASSUME Complete
  PROVE  /\ \A c \in {0, 1} : \A r \in 0..(Size - 1) : \E i \in DOMAIN markers :
              /\ markers[i][1] = Size - r /\ colour[i] = c
              /\ ColumnsOf(c)[r] = markers[i][2] - 1
         /\ \A i \in DOMAIN markers :
              /\ Size - markers[i][1] \in 0..(Size - 1) /\ colour[i] \in {0, 1}
              /\ Size - (Size - markers[i][1]) = markers[i][1]
              /\ ColumnsOf(colour[i])[Size - markers[i][1]] = markers[i][2] - 1
<1>1. Size \in Nat /\ \A i \in DOMAIN markers : markers[i][1] \in 1..Size
  BY SizeIs, MarkersAre DEF Complete
<1>2. ASSUME NEW c \in {0, 1}, NEW r \in 0..(Size - 1)
      PROVE  \E i \in DOMAIN markers : /\ markers[i][1] = Size - r /\ colour[i] = c
                                        /\ ColumnsOf(c)[r] = markers[i][2] - 1
  <2>1. Size - r \in 1..Size
    BY <1>1
  <2>2. PICK i \in DOMAIN markers : markers[i][1] = Size - r /\ colour[i] = c
    BY <2>1, EveryRowIsUsed
  <2> QED BY <2>2, ColumnIs
<1>3. ASSUME NEW i \in DOMAIN markers
      PROVE  /\ Size - markers[i][1] \in 0..(Size - 1) /\ colour[i] \in {0, 1}
             /\ Size - (Size - markers[i][1]) = markers[i][1]
             /\ ColumnsOf(colour[i])[Size - markers[i][1]] = markers[i][2] - 1
  <2>1. Size - markers[i][1] \in 0..(Size - 1) /\ Size - (Size - markers[i][1]) = markers[i][1]
    BY <1>1
  <2>2. colour[i] \in {0, 1}
    BY DEF Complete, Path
  <2> QED BY <2>1, <2>2, ColumnIs
<1> QED BY <1>2, <1>3

-----------------------------------------------------------------------------
(* The constructor's conditions and the marked cells, for any grid.        *)
ValidOn(n, o, x) ==
  /\ o \in [0..(n - 1) -> 0..(n - 1)] /\ \A i, j \in 0..(n - 1) : o[i] = o[j] => i = j
  /\ x \in [0..(n - 1) -> 0..(n - 1)] /\ \A i, j \in 0..(n - 1) : x[i] = x[j] => i = j
  /\ \A r \in 0..(n - 1) : o[r] # x[r]
CellsOn(n, o, x) == {<<r, o[r]>> : r \in 0..(n - 1)} \cup {<<r, x[r]>> : r \in 0..(n - 1)}
TracedValid == ValidOn(Size, ColumnsOf(0), ColumnsOf(1))
GivenCells == {<<Size - markers[i][1], markers[i][2] - 1>> : i \in DOMAIN markers}

(* The columns of a knot's colours make a grid the constructor accepts.    *)
LEMMA KnotsAreValid ==
  ASSUME Complete, IsKnot
  PROVE  TracedValid
<1> DEFINE n == Size
<1>1. n \in Nat /\ \A i \in DOMAIN markers : markers[i][1] \in 1..n /\ markers[i][2] \in 1..n
  <2>1. \A i \in DOMAIN markers : markers[i] \in (1..n) \X (1..n)
    BY DEF IsKnot
  <2> QED BY <2>1, SizeIs DEF Complete
<1>2. ASSUME NEW c \in {0, 1}
      PROVE  /\ ColumnsOf(c) \in [0..(n - 1) -> 0..(n - 1)]
             /\ \A r, q \in 0..(n - 1) : ColumnsOf(c)[r] = ColumnsOf(c)[q] => r = q
  <2>1. ColumnsOf(c) = [r \in 0..(n - 1) |-> ColumnsOf(c)[r]]
    BY DEF ColumnsOf
  <2>2. ASSUME NEW r \in 0..(n - 1)
        PROVE  ColumnsOf(c)[r] \in 0..(n - 1)
    <3>1. PICK i \in DOMAIN markers : ColumnsOf(c)[r] = markers[i][2] - 1
      BY CellsAre
    <3>2. markers[i][2] \in 1..n
      BY <1>1
    <3> HIDE DEF n
    <3> QED BY <1>1, <3>1, <3>2
  <2>3. ASSUME NEW r \in 0..(n - 1), NEW q \in 0..(n - 1), ColumnsOf(c)[r] = ColumnsOf(c)[q]
        PROVE  r = q
    <3>1. PICK i \in DOMAIN markers : /\ markers[i][1] = n - r /\ colour[i] = c
                                      /\ ColumnsOf(c)[r] = markers[i][2] - 1
      BY CellsAre
    <3>2. PICK k \in DOMAIN markers : /\ markers[k][1] = n - q /\ colour[k] = c
                                      /\ ColumnsOf(c)[q] = markers[k][2] - 1
      BY CellsAre
    <3>3. markers[i][2] = markers[k][2]
      <4>1. markers[i][2] \in Int /\ markers[k][2] \in Int
        BY <1>1
      <4>2. markers[i][2] - 1 = markers[k][2] - 1
        BY <2>3, <3>1, <3>2
      <4> QED BY <4>1, <4>2
    <3>4. i = k
      BY <3>1, <3>2, <3>3, OneOfAColour DEF Axes
    <3>5. n - r = n - q
      BY <3>1, <3>2, <3>4
    <3> HIDE DEF n
    <3> QED BY <1>1, <3>5
  <2> HIDE DEF n
  <2>4. ColumnsOf(c) \in [0..(n - 1) -> 0..(n - 1)]
    BY <2>1, <2>2
  <2> QED BY <2>3, <2>4
<1>3. ASSUME NEW r \in 0..(n - 1)
      PROVE  ColumnsOf(0)[r] # ColumnsOf(1)[r]
  <2>1. PICK i \in DOMAIN markers : /\ markers[i][1] = n - r /\ colour[i] = 0
                                    /\ ColumnsOf(0)[r] = markers[i][2] - 1
    BY CellsAre
  <2>2. PICK k \in DOMAIN markers : /\ markers[k][1] = n - r /\ colour[k] = 1
                                    /\ ColumnsOf(1)[r] = markers[k][2] - 1
    BY CellsAre
  <2>3. i # k /\ markers[i] # markers[k]
    BY <2>1, <2>2 DEF IsKnot
  <2>4. markers[i] = <<markers[i][1], markers[i][2]>> /\ markers[k] = <<markers[k][1], markers[k][2]>>
    BY MarkersAre DEF Complete
  <2>5. markers[i][2] # markers[k][2]
    BY <2>1, <2>2, <2>3, <2>4
  <2>6. markers[i][2] \in Int /\ markers[k][2] \in Int
    BY <1>1
  <2> QED BY <2>1, <2>2, <2>5, <2>6
<1>4. /\ ColumnsOf(0) \in [0..(n - 1) -> 0..(n - 1)]
      /\ \A r, q \in 0..(n - 1) : ColumnsOf(0)[r] = ColumnsOf(0)[q] => r = q
  BY <1>2
<1>5. /\ ColumnsOf(1) \in [0..(n - 1) -> 0..(n - 1)]
      /\ \A r, q \in 0..(n - 1) : ColumnsOf(1)[r] = ColumnsOf(1)[q] => r = q
  BY <1>2
<1> QED BY <1>3, <1>4, <1>5 DEF TracedValid, ValidOn

(* And a list whose colours make such a grid is a knot.                    *)
LEMMA ValidsAreKnots ==
  ASSUME Complete, Connected, TracedValid
  PROVE  IsKnot
<1>1. Size \in Nat /\ Coloured = DOMAIN markers /\ 1 \in DOMAIN markers
  BY SizeIs DEF Complete, Path
<1>2. ASSUME NEW i \in DOMAIN markers
      PROVE  markers[i] \in (1..Size) \X (1..Size)
  <2>1. markers[i] = <<markers[i][1], markers[i][2]>> /\ markers[i][1] \in Nat \ {0}
        /\ markers[i][2] \in Nat \ {0} /\ markers[i][1] <= Size
    BY MarkersAre DEF Complete
  <2>2. /\ Size - markers[i][1] \in 0..(Size - 1) /\ colour[i] \in {0, 1}
        /\ ColumnsOf(colour[i])[Size - markers[i][1]] = markers[i][2] - 1
    BY CellsAre
  <2>3. markers[i][2] - 1 \in 0..(Size - 1)
    <3>1. \A c \in {0, 1} : \A r \in 0..(Size - 1) : ColumnsOf(c)[r] \in 0..(Size - 1)
      BY DEF TracedValid, ValidOn
    <3> QED BY <2>2, <3>1
  <2>4. markers[i][1] \in 1..Size /\ markers[i][2] \in 1..Size
    BY <1>1, <2>1, <2>3
  <2> QED BY <2>1, <2>4
<1>3. ASSUME NEW i \in DOMAIN markers, NEW k \in DOMAIN markers, markers[i] = markers[k]
      PROVE  i = k
  <2>1. CASE colour[i] = colour[k]
    BY <1>3, <2>1, OneOfAColour DEF Axes
  <2>2. CASE colour[i] # colour[k]
    <3>1. /\ Size - markers[i][1] \in 0..(Size - 1) /\ colour[i] \in {0, 1} /\ colour[k] \in {0, 1}
          /\ ColumnsOf(colour[i])[Size - markers[i][1]] = markers[i][2] - 1
          /\ ColumnsOf(colour[k])[Size - markers[i][1]] = markers[i][2] - 1
      BY <1>3, CellsAre
    <3>2. \A r \in 0..(Size - 1) : ColumnsOf(0)[r] # ColumnsOf(1)[r]
      BY DEF TracedValid, ValidOn
    <3> QED BY <2>2, <3>1, <3>2
  <2> QED BY <2>1, <2>2
<1>4. ASSUME NEW S \in SUBSET DOMAIN markers, S # {}, Closed(S)
      PROVE  S = DOMAIN markers
  <2>1. \A i \in DOMAIN markers : i \in S <=> 1 \in S
    BY <1>1, <1>4 DEF Connected
  <2> QED BY <1>4, <2>1
<1>5. \A S \in SUBSET DOMAIN markers :
        S # {} /\ (\A i \in S : \A k \in DOMAIN markers : SameLine(i, k) => k \in S)
          => S = DOMAIN markers
  BY <1>4 DEF Closed
<1> QED BY <1>2, <1>3, <1>5 DEF IsKnot, Complete

LEMMA TracedCells ==
  ASSUME Complete
  PROVE  CellsOn(Size, ColumnsOf(0), ColumnsOf(1)) = GivenCells
<1>1. ASSUME NEW i \in DOMAIN markers
      PROVE  <<Size - markers[i][1], markers[i][2] - 1>> \in CellsOn(Size, ColumnsOf(0), ColumnsOf(1))
  <2>1. /\ Size - markers[i][1] \in 0..(Size - 1) /\ colour[i] \in {0, 1}
        /\ ColumnsOf(colour[i])[Size - markers[i][1]] = markers[i][2] - 1
    BY CellsAre
  <2>2. PICK r \in 0..(Size - 1) : r = Size - markers[i][1]
    BY <2>1
  <2>3. CASE colour[i] = 0
    BY <2>1, <2>2, <2>3 DEF CellsOn
  <2>4. CASE colour[i] = 1
    BY <2>1, <2>2, <2>4 DEF CellsOn
  <2> QED BY <2>1, <2>3, <2>4
<1>2. ASSUME NEW c \in {0, 1}, NEW r \in 0..(Size - 1)
      PROVE  <<r, ColumnsOf(c)[r]>> \in GivenCells
  <2>1. PICK i \in DOMAIN markers : markers[i][1] = Size - r /\ ColumnsOf(c)[r] = markers[i][2] - 1
    BY CellsAre
  <2>2. Size - markers[i][1] = r
    <3>1. Size \in Nat
      BY SizeIs DEF Complete
    <3> QED BY <2>1, <3>1
  <2> QED BY <2>1, <2>2 DEF GivenCells
<1>3. \A r \in 0..(Size - 1) : <<r, ColumnsOf(0)[r]>> \in GivenCells /\ <<r, ColumnsOf(1)[r]>> \in GivenCells
  BY <1>2
<1>4. CellsOn(Size, ColumnsOf(0), ColumnsOf(1)) \subseteq GivenCells
  BY <1>3 DEF CellsOn
<1>5. GivenCells \subseteq CellsOn(Size, ColumnsOf(0), ColumnsOf(1))
  BY <1>1 DEF GivenCells
<1> QED BY <1>4, <1>5

-----------------------------------------------------------------------------
(* Where the trace closes, the constructor decides as the definition of a  *)
(* knot does.                                                              *)
LEMMA ClosedTraceDecides ==
  ASSUME Placed, WellFormed, TracePath, Partner(at) \in Coloured
  PROVE  /\ IsKnot => /\ Cardinality(Coloured) = 2 * Size
                      /\ \A i \in DOMAIN markers : markers[i][1] <= Size
                      /\ TracedValid
         /\ /\ Cardinality(Coloured) = 2 * Size
            /\ \A i \in DOMAIN markers : markers[i][1] <= Size
            /\ TracedValid
            => IsKnot /\ CellsOn(Size, ColumnsOf(0), ColumnsOf(1)) = GivenCells
<1>1. Cycle
  BY CycleCloses
<1>2. /\ Cardinality(DOMAIN markers) = 2 * Size /\ IsFiniteSet(DOMAIN markers)
      /\ Coloured \subseteq DOMAIN markers /\ 1 \in Coloured
  BY MarkersAre, SizeIs DEF TracePath, Path
<1>3. ASSUME IsKnot
      PROVE  /\ Cardinality(Coloured) = 2 * Size
             /\ \A i \in DOMAIN markers : markers[i][1] <= Size
             /\ TracedValid
  <2>1. ASSUME NEW i \in Coloured, NEW k \in DOMAIN markers, SameLine(i, k)
        PROVE  k \in Coloured
    <3>1. PICK axis \in Axes : markers[i][axis] = markers[k][axis]
      BY <2>1 DEF SameLine, Axes
    <3>2. k \in InGroup(i, axis)
      BY <3>1 DEF InGroup
    <3>3. InGroup(i, axis) = {i, Other(i, axis)}
      BY <1>2, ArcsPair
    <3>4. Other(i, axis) \in Coloured
      BY <1>1 DEF Cycle
    <3> QED BY <3>2, <3>3, <3>4
  <2>2. Coloured = DOMAIN markers
    BY <1>2, <1>3, <2>1 DEF IsKnot
  <2>3. \A i \in DOMAIN markers : markers[i][1] <= Size
    <3>1. Size \in Nat
      BY SizeIs
    <3>2. \A i \in DOMAIN markers : markers[i] \in (1..Size) \X (1..Size)
      BY <1>3 DEF IsKnot
    <3> QED BY <3>1, <3>2
  <2>4. Complete
    BY <1>1, <2>2, <2>3 DEF Complete, TracePath
  <2> QED BY <1>2, <1>3, <2>2, <2>3, <2>4, KnotsAreValid
<1>4. ASSUME Cardinality(Coloured) = 2 * Size, TracedValid,
             \A i \in DOMAIN markers : markers[i][1] <= Size
      PROVE  IsKnot /\ CellsOn(Size, ColumnsOf(0), ColumnsOf(1)) = GivenCells
  <2>1. Coloured = DOMAIN markers
    BY <1>2, <1>4, FS_Subset
  <2>2. Complete
    BY <1>1, <1>4, <2>1 DEF Complete, TracePath
  <2> QED BY <1>4, <2>2, ValidsAreKnots, TracedCells DEF TracePath
<1> QED BY <1>3, <1>4

TraceInv ==
  /\ Placed
  /\ stage = "tracing" /\ WellFormed => TracePath
  /\ stage = "built" => grid.n \in Nat \ {0}
  /\ TraceIsRight
Later == {"running", "answered", "unvalidated"}

LEMMA TraceInit == Init => TraceInv
<1> SUFFICES ASSUME Init PROVE TraceInv
  OBVIOUS
<1>1. Placed
  BY MarkersAssumption DEF Init, Placed
<1>2. colour = [i \in {1} |-> 0] /\ at = 1 /\ byRow = TRUE /\ stage = "tracing"
  BY DEF Init
<1>3. WellFormed => TracePath
  BY <1>1, <1>2, TraceStarts
<1>4. TraceIsRight
  BY <1>2 DEF TraceIsRight
<1> QED BY <1>1, <1>2, <1>3, <1>4 DEF TraceInv

(* The verdict does not depend on what the trace leaves behind.            *)
LEMMA VerdictStands ==
  ASSUME UNCHANGED markers
  PROVE  (IsKnot' <=> IsKnot) /\ (WellFormed' <=> WellFormed) /\ (Placed' <=> Placed) /\ Size' = Size
<1>1. WellFormed' <=> WellFormed
  BY DEF WellFormed, InGroup
<1>2. Size' = Size
  BY DEF Size
<1>3. IsKnot' <=> IsKnot
  BY <1>1, <1>2 DEF IsKnot, SameLine
<1> QED BY <1>1, <1>2, <1>3 DEF Placed

LEMMA StandingStill ==
  ASSUME TraceInv, UNCHANGED vars
  PROVE  TraceInv'
<1>1. UNCHANGED <<markers, colour, at, byRow, stage, grid>>
  BY DEF vars, traceVars
<1>2. (IsKnot' <=> IsKnot) /\ (WellFormed' <=> WellFormed) /\ (Placed' <=> Placed) /\ Size' = Size
  BY <1>1, VerdictStands
<1>3. TracePath' <=> TracePath
  <2>1. Coloured' = Coloured /\ \A i, axis : Other(i, axis)' = Other(i, axis)
    BY <1>1 DEF Coloured, Other, InGroup
  <2>2. (Path' <=> Path) /\ (RowsPaired' <=> RowsPaired) /\ (ColumnsPaired' <=> ColumnsPaired)
    BY <1>1, <2>1 DEF Path, RowsPaired, ColumnsPaired
  <2>3. Connected' <=> Connected
    BY <1>1, <2>1 DEF Connected, Closed, SameLine
  <2> QED BY <2>2, <2>3 DEF TracePath
<1>4. TraceIsRight' <=> TraceIsRight
  <2>1. G!ValidGrid' <=> G!ValidGrid
    BY <1>1 DEF G!ValidGrid, G!IsPermutation, G!Rows
  <2>2. G!MarkerCells' = G!MarkerCells
    BY <1>1 DEF G!MarkerCells, G!OCells, G!Rows
  <2> QED BY <1>1, <1>2, <2>1, <2>2 DEF TraceIsRight
<1> QED BY <1>1, <1>2, <1>3, <1>4 DEF TraceInv

LEMMA CloseKeeps ==
  ASSUME TraceInv, CloseCycle
  PROVE  TraceInv'
<1> DEFINE Accepted == /\ Cardinality(Coloured) = 2 * Size
                       /\ \A i \in DOMAIN markers : markers[i][1] <= Size
                       /\ TracedValid
<1>1. /\ Placed /\ WellFormed /\ TracePath /\ Partner(at) \in Coloured /\ UNCHANGED markers
  BY DEF TraceInv, CloseCycle, Coloured, traceVars
<1>2. TracedValid <=> Traced!ValidGrid
  BY DEF TracedValid, ValidOn, Traced!ValidGrid, Traced!IsPermutation, Traced!Rows
<1>3. /\ Accepted => stage' = "built" /\ grid' = [n |-> Size, O |-> ColumnsOf(0), X |-> ColumnsOf(1)]
      /\ ~Accepted => stage' = "rejected"
  BY <1>2 DEF CloseCycle, Coloured
<1>4. CASE ~Accepted
  <2>1. ~IsKnot
    BY <1>1, <1>4, ClosedTraceDecides
  <2>2. stage' = "rejected" /\ ~IsKnot' /\ Placed'
    BY <1>1, <1>3, <1>4, <2>1, VerdictStands
  <2> QED BY <2>2 DEF TraceInv, TraceIsRight
<1>5. CASE Accepted
  <2>1. IsKnot /\ CellsOn(Size, ColumnsOf(0), ColumnsOf(1)) = GivenCells /\ TracedValid
    BY <1>1, <1>5, ClosedTraceDecides
  <2>2. grid' = [n |-> Size, O |-> ColumnsOf(0), X |-> ColumnsOf(1)] /\ stage' = "built"
    BY <1>3, <1>5
  <2>3. grid'.n = Size /\ grid'.O = ColumnsOf(0) /\ grid'.X = ColumnsOf(1)
    BY <2>2
  <2>4. G!ValidGrid'
    <3>1. ValidOn(grid'.n, grid'.O, grid'.X)
      BY <2>1, <2>3 DEF TracedValid
    <3> QED BY <3>1 DEF ValidOn, G!ValidGrid, G!IsPermutation, G!Rows
  <2>5. G!MarkerCells' = CellsOn(grid'.n, grid'.O, grid'.X)
    BY DEF CellsOn, G!MarkerCells, G!OCells, G!Rows
  <2>6. GivenCells' = GivenCells
    BY <1>1, VerdictStands DEF GivenCells
  <2>7. G!MarkerCells' = GivenCells'
    BY <2>1, <2>3, <2>5, <2>6
  <2>8. IsKnot' /\ Placed'
    BY <1>1, <2>1, VerdictStands
  <2>9. TraceIsRight'
    BY <2>2, <2>4, <2>7, <2>8 DEF TraceIsRight, GivenCells
  <2>10. grid'.n \in Nat \ {0}
    BY <1>1, <2>3, SizeIs
  <2> QED BY <2>2, <2>8, <2>9, <2>10 DEF TraceInv
<1> QED BY <1>4, <1>5

LEMMA TraceStep ==
  ASSUME TraceInv, [Next]_vars
  PROVE  TraceInv'
<1>1. CASE Malformed
  <2>1. stage' = "rejected" /\ ~WellFormed /\ UNCHANGED markers
    BY <1>1 DEF Malformed, traceVars
  <2>2. Placed' /\ ~IsKnot'
    BY <2>1, VerdictStands DEF TraceInv, IsKnot
  <2> QED BY <2>1, <2>2 DEF TraceInv, TraceIsRight
<1>2. CASE Trace
  <2>1. stage = "tracing" /\ stage' = "tracing" /\ WellFormed /\ UNCHANGED markers
    BY <1>2 DEF Trace
  <2>2. TracePath'
    BY <1>2, <2>1, TraceGoesOn DEF TraceInv
  <2>3. Placed'
    BY <2>1, VerdictStands DEF TraceInv
  <2> QED BY <2>1, <2>2, <2>3 DEF TraceInv, TraceIsRight
<1>3. CASE CloseCycle
  BY <1>3, CloseKeeps
<1>4. ASSUME stage' \in Later, UNCHANGED markers
      PROVE  TraceInv'
  <2>1. Placed'
    BY <1>4, VerdictStands DEF TraceInv
  <2>2. stage' # "tracing" /\ stage' # "rejected" /\ stage' # "built"
    BY <1>4 DEF Later
  <2> QED BY <2>1, <2>2 DEF TraceInv, TraceIsRight
<1>5. CASE PlanKnot
  <2>1. stage' \in Later /\ UNCHANGED markers
    BY <1>5 DEF PlanKnot, traceVars, Later
  <2> QED BY <1>4, <2>1
<1>6. ASSUME NEW k, RunSlice(k[2])
      PROVE  stage' \in Later /\ UNCHANGED markers
  BY <1>6 DEF RunSlice, Ready, traceVars, Later
<1>7. CASE RunMerge
  <2>1. stage' \in Later /\ UNCHANGED markers
    BY <1>7 DEF RunMerge, Ready, traceVars, Later
  <2> QED BY <1>4, <2>1
<1>8. ASSUME NEW k, RunReduce(k[2])
      PROVE  stage' \in Later /\ UNCHANGED markers
  <2>1. stage = "running" /\ UNCHANGED markers
    BY <1>8 DEF RunReduce, Ready, traceVars
  <2>2. stage' = "unvalidated" \/ stage' = stage
    BY <1>8 DEF RunReduce
  <2> QED BY <2>1, <2>2 DEF Later
<1>9. CASE RunAssemble
  <2>1. stage' \in Later /\ UNCHANGED markers
    BY <1>9 DEF RunAssemble, Ready, traceVars, Later
  <2> QED BY <1>4, <2>1
<1>10. CASE Answer
  <2>1. stage' \in Later /\ UNCHANGED markers
    BY <1>10 DEF Answer, traceVars, Later
  <2> QED BY <1>4, <2>1
<1>11. CASE Done \/ UNCHANGED vars
  <2>1. UNCHANGED vars
    BY <1>11 DEF Done
  <2> QED BY <2>1, StandingStill
<1> QED BY <1>1, <1>2, <1>3, <1>4, <1>5, <1>6, <1>7, <1>8, <1>9, <1>10, <1>11 DEF Next

(* KnotFloer.TraceIsRight for marker lists of every length: a list is      *)
(* refused exactly when it is no knot, and the grid of a list that is not  *)
(* refused holds its markers.                                              *)
THEOREM TracesAreRight == Spec => []TraceIsRight
<1>1. TraceInv => TraceIsRight
  BY DEF TraceInv
<1> QED BY <1>1, TraceInit, TraceStep, PTL DEF Spec

-----------------------------------------------------------------------------
(* The facts are about the same definitions.                               *)
LEMMA SameGenerators ==
  G!Rows = Facts!Rows /\ G!Generators = Facts!Generators
BY DEF G!Rows, G!Generators, Facts!Rows, Facts!Generators

LEMMA SameCounts ==
  ASSUME NEW S
  PROVE  G!Cardinality(S) = Cardinality(S) /\ Facts!Cardinality(S) = Cardinality(S)
BY DEF G!Cardinality, Facts!Cardinality, Cardinality

LEMMA SameDifferentials ==
  ASSUME NEW x
  PROVE  G!DifferentialJit(x) = Facts!DifferentialJit(x) /\ G!Differential(x) = Facts!Differential(x)
<1>1. G!DifferentialJit(x) = Facts!DifferentialJit(x)
  BY DEF G!DifferentialJit, G!SurvivingPairs, G!RectValid, G!Interior, G!MarkerCells, G!OCells, G!Rows,
         G!Transpose, Facts!DifferentialJit, Facts!SurvivingPairs, Facts!RectValid, Facts!Interior,
         Facts!MarkerCells, Facts!OCells, Facts!Rows, Facts!Transpose
<1>2. G!Differential(x) = Facts!Differential(x)
  BY DEF G!Differential, G!ReduceMod2, G!TargetsOf, G!Rectangles, G!Empty, G!Avoids, G!Height, G!Width,
         G!Odd, G!Cardinality, G!MarkerCells, G!OCells, G!Rows, G!Transpose, Facts!Differential, Facts!ReduceMod2,
         Facts!TargetsOf, Facts!Rectangles, Facts!Empty, Facts!Avoids, Facts!Height, Facts!Width,
         Facts!Odd, Facts!Cardinality, Facts!MarkerCells, Facts!OCells, Facts!Rows, Facts!Transpose
<1> QED BY <1>1, <1>2

LEMMA SameRanks ==
  ASSUME NEW x
  PROVE  /\ G!RankOf(x) = Facts!RankOf(x) /\ G!Unrank(x) = Facts!Unrank(x)
         /\ \A y : G!Before(y, x) <=> Facts!Before(y, x)
<1>1. G!RankOf(x) = Facts!RankOf(x)
  BY DEF G!RankOf, G!SmallerUnused, G!Factorial, G!Cardinality,
         Facts!RankOf, Facts!SmallerUnused, Facts!Factorial, Facts!Cardinality
<1>2. G!Unrank(x) = Facts!Unrank(x)
  BY DEF G!Unrank, G!Nth, G!Rows, G!Factorial, G!Cardinality,
         Facts!Unrank, Facts!Nth, Facts!Rows, Facts!Factorial, Facts!Cardinality
<1>3. \A y : G!Before(y, x) <=> Facts!Before(y, x)
  BY DEF G!Before, Facts!Before, G!Rows, Facts!Rows
<1> QED BY <1>1, <1>2, <1>3

(* KnotFloerProps.KernelAgrees for grids of every size: on the grid of a   *)
(* knot the array kernels (differential_jit.py, generation.py) compute the *)
(* differential of the definition and the lexicographic ranks.             *)
THEOREM KernelsAgree == Spec => []KernelAgrees
<1>1. TraceInv => KernelAgrees
  <2> SUFFICES ASSUME TraceInv, stage = "built" PROVE
        /\ \A x \in G!Generators : G!DifferentialJit(x) = G!Differential(x)
        /\ \A x \in G!Generators :
             /\ G!RankOf(x) = Cardinality({y \in G!Generators : G!Before(y, x)})
             /\ G!Unrank(G!RankOf(x)) = x
    BY DEF KernelAgrees
  <2>1. grid.n \in Nat \ {0} /\ grid.O \in [Facts!Rows -> Facts!Rows] /\ grid.X \in [Facts!Rows -> Facts!Rows]
    BY SameGenerators DEF TraceInv, TraceIsRight, G!ValidGrid, G!IsPermutation
  <2>2. ASSUME NEW x \in G!Generators
        PROVE  G!DifferentialJit(x) = G!Differential(x)
    BY <2>1, SameGenerators, SameDifferentials, Facts!KernelIsTheDifferential
  <2>3. ASSUME NEW x \in G!Generators
        PROVE  /\ G!RankOf(x) = Cardinality({y \in G!Generators : G!Before(y, x)})
               /\ G!Unrank(G!RankOf(x)) = x
    <3>1. Facts!RankOf(x) = Facts!Cardinality({y \in Facts!Generators : Facts!Before(y, x)})
      BY <2>1, SameGenerators, Facts!RankCounts
    <3>2. Facts!Unrank(Facts!RankOf(x)) = x
      BY <2>1, SameGenerators, Facts!UnrankUndoesRank
    <3>3. {y \in Facts!Generators : Facts!Before(y, x)} = {y \in G!Generators : G!Before(y, x)}
      BY SameGenerators, SameRanks
    <3>4. G!RankOf(x) = Cardinality({y \in G!Generators : G!Before(y, x)})
      BY <3>1, <3>3, SameRanks, SameCounts
    <3> QED BY <3>2, <3>4, SameRanks
  <2> QED BY <2>2, <2>3
<1> QED BY <1>1, TraceInit, TraceStep, PTL DEF Spec

LEMMA SameComplexes ==
  ASSUME NEW x
  PROVE  /\ G!FilteredDifferential(x) = Facts!FilteredDifferential(x)
         /\ G!Maslov(x) = Facts!Maslov(x) /\ G!Alexander(x) = Facts!Alexander(x)
<1>1. G!FilteredDifferential(x) = Facts!FilteredDifferential(x)
  BY DEF G!FilteredDifferential, G!ReduceMod2, G!TargetsOf, G!Rectangles, G!Empty, G!Avoids, G!Height, G!Width,
         G!Odd, G!Cardinality, G!OCells, G!Rows, G!Transpose, Facts!FilteredDifferential, Facts!ReduceMod2,
         Facts!TargetsOf, Facts!Rectangles, Facts!Empty, Facts!Avoids, Facts!Height, Facts!Width,
         Facts!Odd, Facts!Cardinality, Facts!OCells, Facts!Rows, Facts!Transpose
<1>2. G!Maslov(x) = Facts!Maslov(x)
  BY DEF G!Maslov, G!MaslovRel, G!Sw, G!Points, G!Centres, G!Rows, G!Cardinality,
         Facts!Maslov, Facts!MaslovRel, Facts!Sw, Facts!Points, Facts!Centres, Facts!Rows, Facts!Cardinality
<1>3. G!Alexander(x) = Facts!Alexander(x)
  BY DEF G!Alexander, G!MaslovRel, G!Sw, G!Points, G!Centres, G!Rows, G!Cardinality,
         Facts!Alexander, Facts!MaslovRel, Facts!Sw, Facts!Points, Facts!Centres, Facts!Rows, Facts!Cardinality
<1> QED BY <1>1, <1>2, <1>3

LEMMA TablesAre == ASSUME NEW f PROVE Table(f) = f
BY DEF Table

(* A table of targets squares to zero when what it lists does.             *)
LEMMA TablesSquare ==
  ASSUME NEW S, NEW d, DOMAIN d = S, \A x \in S : d[x] \in SUBSET S,
         \A x \in S : \A z : Cardinality({y \in d[x] : z \in d[y]}) % 2 = 0
  PROVE  SquaresToZero(d)
BY DEF SquaresToZero

(* KnotFloerProps.ChainComplex for grids of every size: differential and   *)
(* filtered_differential (differential.py:59, 65) square to zero and       *)
(* respect the gradings, so that what their ranks leave is homology.       *)
THEOREM GridsAreComplexes == Spec => []ChainComplex
<1>1. TraceInv => ChainComplex
  <2> DEFINE gens == G!Generators
             hat == [x \in gens |-> G!Differential(x)]
             filtered == [x \in gens |-> G!FilteredDifferential(x)]
             maslov == [x \in gens |-> G!Maslov(x)]
             alexander == [x \in gens |-> G!Alexander(x)]
  <2> SUFFICES ASSUME TraceInv, stage = "built"
               PROVE  /\ SquaresToZero(Table(hat)) /\ SquaresToZero(Table(filtered))
                      /\ \A x \in gens :
                           /\ \A y \in Table(hat)[x] : /\ Table(maslov)[y] = Table(maslov)[x] - 1
                                                       /\ Table(alexander)[y] = Table(alexander)[x]
                           /\ \A y \in Table(filtered)[x] : /\ Table(maslov)[y] = Table(maslov)[x] - 1
                                                            /\ Table(alexander)[y] <= Table(alexander)[x]
    BY DEF ChainComplex
  <2>1. Table(hat) = hat /\ Table(filtered) = filtered /\ Table(maslov) = maslov /\ Table(alexander) = alexander
    BY TablesAre
  <2>2. grid.n \in Nat \ {0} /\ Facts!ValidGrid
    BY SameGenerators DEF TraceInv, TraceIsRight, G!ValidGrid, G!IsPermutation, Facts!ValidGrid, Facts!IsPermutation
  <2>3. \A x \in gens : x \in Facts!Generators
    BY SameGenerators
  <2>4. ASSUME NEW x \in gens
        PROVE  /\ hat[x] = Facts!Differential(x) /\ filtered[x] = Facts!FilteredDifferential(x)
               /\ maslov[x] = Facts!Maslov(x) /\ alexander[x] = Facts!Alexander(x)
    BY SameDifferentials, SameComplexes
  <2>5. DOMAIN hat = gens /\ DOMAIN filtered = gens
    OBVIOUS
  <2>6. ASSUME NEW x \in gens
        PROVE  /\ hat[x] \in SUBSET gens /\ filtered[x] \in SUBSET gens
               /\ \A y \in hat[x] : maslov[y] = maslov[x] - 1 /\ alexander[y] = alexander[x]
               /\ \A y \in filtered[x] : maslov[y] = maslov[x] - 1 /\ alexander[y] <= alexander[x]
    <3>1. /\ Facts!Differential(x) \subseteq Facts!Generators /\ Facts!FilteredDifferential(x) \subseteq Facts!Generators
          /\ \A y \in Facts!Differential(x) :
               Facts!Maslov(y) = Facts!Maslov(x) - 1 /\ Facts!Alexander(y) = Facts!Alexander(x)
          /\ \A y \in Facts!FilteredDifferential(x) :
               Facts!Maslov(y) = Facts!Maslov(x) - 1 /\ Facts!Alexander(y) <= Facts!Alexander(x)
      BY <2>2, <2>3, Facts!DifferentialsRespectGradings
    <3>2. hat[x] \in SUBSET gens /\ filtered[x] \in SUBSET gens
      BY <2>4, <3>1, SameGenerators
    <3> HIDE DEF gens, hat, filtered, maslov, alexander
    <3> QED BY <2>4, <3>1, <3>2
  <2>7. ASSUME NEW x \in gens, NEW z
        PROVE  /\ Cardinality({y \in hat[x] : z \in hat[y]}) % 2 = 0
               /\ Cardinality({y \in filtered[x] : z \in filtered[y]}) % 2 = 0
    <3>1. /\ Facts!Cardinality({y \in Facts!Differential(x) : z \in Facts!Differential(y)}) % 2 = 0
          /\ Facts!Cardinality({y \in Facts!FilteredDifferential(x) : z \in Facts!FilteredDifferential(y)}) % 2 = 0
      BY <2>2, <2>3, Facts!DifferentialsSquareToZero
    <3> HIDE DEF gens, hat, filtered
    <3>2. {y \in hat[x] : z \in hat[y]} = {y \in Facts!Differential(x) : z \in Facts!Differential(y)}
      BY <2>4, <2>6
    <3>3. {y \in filtered[x] : z \in filtered[y]}
            = {y \in Facts!FilteredDifferential(x) : z \in Facts!FilteredDifferential(y)}
      BY <2>4, <2>6
    <3> QED BY <3>1, <3>2, <3>3, SameCounts
  <2> HIDE DEF gens, hat, filtered, maslov, alexander
  <2>8. SquaresToZero(hat) /\ SquaresToZero(filtered)
    <3>1. /\ \A x \in gens : hat[x] \in SUBSET gens /\ filtered[x] \in SUBSET gens
          /\ \A x \in gens : \A z : Cardinality({y \in hat[x] : z \in hat[y]}) % 2 = 0
          /\ \A x \in gens : \A z : Cardinality({y \in filtered[x] : z \in filtered[y]}) % 2 = 0
      BY <2>6, <2>7
    <3>2. SquaresToZero(hat)
      BY <2>5, <3>1, TablesSquare
    <3>3. SquaresToZero(filtered)
      BY <2>5, <3>1, TablesSquare
    <3> QED BY <3>2, <3>3
  <2> QED BY <2>1, <2>6, <2>8
<1> QED BY <1>1, TraceInit, TraceStep, PTL DEF Spec

-----------------------------------------------------------------------------
(* The same of a grid given as a value, which a step cannot change.        *)
On(g) == INSTANCE Grid WITH N <- g.n, O <- g.O, X <- g.X

LEMMA OnTheGrid ==
  ASSUME NEW x
  PROVE  /\ G!Total = On(grid)!Total /\ G!Unrank(x) = On(grid)!Unrank(x)
         /\ G!Alexander(x) = On(grid)!Alexander(x) /\ G!Maslov(x) = On(grid)!Maslov(x)
<1>1. G!Total = On(grid)!Total
  BY DEF G!Total, G!Factorial, On!Total, On!Factorial
<1>2. G!Unrank(x) = On(grid)!Unrank(x)
  BY DEF G!Unrank, G!Nth, G!Rows, G!Factorial, G!Cardinality,
         On!Unrank, On!Nth, On!Rows, On!Factorial, On!Cardinality
<1>3. G!Maslov(x) = On(grid)!Maslov(x)
  BY DEF G!Maslov, G!MaslovRel, G!Sw, G!Points, G!Centres, G!Rows, G!Cardinality,
         On!Maslov, On!MaslovRel, On!Sw, On!Points, On!Centres, On!Rows, On!Cardinality
<1>4. G!Alexander(x) = On(grid)!Alexander(x)
  BY DEF G!Alexander, G!MaslovRel, G!Sw, G!Points, G!Centres, G!Rows, G!Cardinality,
         On!Alexander, On!MaslovRel, On!Sw, On!Points, On!Centres, On!Rows, On!Cardinality
<1> QED BY <1>1, <1>2, <1>3, <1>4

LEMMA OnTheRanks ==
  /\ \A states : G!SliceCount(states) = On(grid)!SliceCount(states)
  /\ \A total, count, w : /\ G!SliceStart(total, count, w) = On(grid)!SliceStart(total, count, w)
                          /\ G!SliceStop(total, count, w) = On(grid)!SliceStop(total, count, w)
BY DEF G!SliceCount, G!SliceStart, G!SliceStop, G!Total, G!Factorial,
       On!SliceCount, On!SliceStart, On!SliceStop, On!Total, On!Factorial

RanksOf(g) == 0..(On(g)!Total - 1)
AlexanderAt(g, k) == On(g)!Alexander(On(g)!Unrank(k))
MaslovAt(g, k) == On(g)!Maslov(On(g)!Unrank(k))
CountsOf(g) ==
  [a \in {AlexanderAt(g, k) : k \in RanksOf(g)} |->
     [d \in {-MaslovAt(g, k) : k \in {r \in RanksOf(g) : AlexanderAt(g, r) = a}} |->
        Cardinality({k \in RanksOf(g) : AlexanderAt(g, k) = a /\ -MaslovAt(g, k) = d})]]

CountOf(g) == On(g)!SliceCount(SliceStates[g.n])
FirstOf(g, w) == On(g)!SliceStart(On(g)!Total, CountOf(g), w)
NextOf(g, w) == On(g)!SliceStop(On(g)!Total, CountOf(g), w)
TargetsOn(g, x) ==
  LET codes == {ij[1] * g.n + ij[2] : ij \in On(g)!SurvivingPairs(x)}
      target(code) == On(g)!Transpose(x, code \div g.n, code % g.n)
  IN [k \in 1..Cardinality(codes) |-> On(g)!RankOf(target(On(g)!Nth(codes, k - 1)))]
TargetsAt(g, k) == TargetsOn(g, On(g)!Unrank(k))
IsSlice(g, w, s) ==
  /\ s.start = FirstOf(g, w)
  /\ DOMAIN s.gens = 1..(NextOf(g, w) - FirstOf(g, w)) /\ Len(s.gens) = NextOf(g, w) - FirstOf(g, w)
  /\ \A k \in DOMAIN s.gens : /\ s.gens[k].alexander = AlexanderAt(g, s.start + k - 1)
                              /\ s.gens[k].maslov = MaslovAt(g, s.start + k - 1)
                              /\ s.gens[k].targets = TargetsAt(g, s.start + k - 1)

Sized == grid.n \in Nat \ {0} /\ SliceStates[grid.n] \in Nat \ {0}

(* Targets are ranked the same way.                                        *)
LEMMA OnTheTargets ==
  ASSUME NEW x
  PROVE  TargetRanks(x) = TargetsOn(grid, x)
<1> DEFINE codes == {ij[1] * grid.n + ij[2] : ij \in G!SurvivingPairs(x)}
           target(code) == G!Transpose(x, code \div grid.n, code % grid.n)
           codesOn == {ij[1] * grid.n + ij[2] : ij \in On(grid)!SurvivingPairs(x)}
           targetOn(code) == On(grid)!Transpose(x, code \div grid.n, code % grid.n)
<1>1. G!SurvivingPairs(x) = On(grid)!SurvivingPairs(x)
  BY DEF G!SurvivingPairs, G!RectValid, G!Interior, G!MarkerCells, G!OCells, G!Rows,
         On!SurvivingPairs, On!RectValid, On!Interior, On!MarkerCells, On!OCells, On!Rows
<1>2. codes = codesOn
  BY <1>1
<1>3. \A code : target(code) = targetOn(code)
  BY DEF G!Transpose, On!Transpose
<1>4. \A y : G!RankOf(y) = On(grid)!RankOf(y)
  BY DEF G!RankOf, G!SmallerUnused, G!Factorial, G!Cardinality,
         On!RankOf, On!SmallerUnused, On!Factorial, On!Cardinality
<1>5. \A S, place : G!Nth(S, place) = On(grid)!Nth(S, place)
  BY DEF G!Nth, G!Cardinality, On!Nth, On!Cardinality
<1>6. TargetRanks(x) = [k \in 1..Cardinality(codes) |-> G!RankOf(target(G!Nth(codes, k - 1)))]
  BY DEF TargetRanks
<1>7. TargetsOn(grid, x) =
        [k \in 1..Cardinality(codesOn) |-> On(grid)!RankOf(targetOn(On(grid)!Nth(codesOn, k - 1)))]
  BY DEF TargetsOn
<1> HIDE DEF codes, codesOn, target, targetOn
<1> QED BY <1>2, <1>3, <1>4, <1>5, <1>6, <1>7

(* The slices tile the ranks, with at least one in each.                   *)
LEMMA Tiling ==
  ASSUME Sized
  PROVE  /\ On(grid)!Total \in Nat \ {0} /\ CountOf(grid) \in Nat \ {0}
         /\ \A w \in 0..(CountOf(grid) - 1) :
              /\ FirstOf(grid, w) \in Nat /\ NextOf(grid, w) \in Nat
              /\ FirstOf(grid, w) <= NextOf(grid, w) /\ NextOf(grid, w) <= On(grid)!Total
         /\ \A k \in RanksOf(grid) : \E w \in 0..(CountOf(grid) - 1) :
              FirstOf(grid, w) <= k /\ k < NextOf(grid, w)
         /\ \A k \in RanksOf(grid) : \A v, w \in 0..(CountOf(grid) - 1) :
              /\ FirstOf(grid, v) <= k /\ k < NextOf(grid, v)
              /\ FirstOf(grid, w) <= k /\ k < NextOf(grid, w)
              => v = w
<1> DEFINE total == On(grid)!Total
           count == CountOf(grid)
           first(w) == (total * w) \div count
           next(w) == (total * (w + 1)) \div count
<1>1. total \in Nat \ {0}
  <2>1. total = Facts!Factorial[grid.n]
    BY DEF On!Total, On!Factorial, Facts!Factorial
  <2>2. Facts!Factorial[grid.n] \in Nat \ {0}
    BY Facts!FactorialIs DEF Sized
  <2> QED BY <2>1, <2>2
<1>2. count \in Nat \ {0}
  <2> DEFINE states == SliceStates[grid.n]
  <2>1. count = LET ceiling == (total + states - 1) \div states IN IF ceiling > 1 THEN ceiling ELSE 1
    BY DEF CountOf, On!SliceCount
  <2>2. states \in Nat \ {0}
    BY DEF Sized
  <2> HIDE DEF total, count, states
  <2>3. (total + states - 1) \div states \in Int
    BY <1>1, <2>2
  <2> QED BY <2>1, <2>3
<1>3. \A w : FirstOf(grid, w) = first(w) /\ NextOf(grid, w) = next(w)
  BY DEF FirstOf, NextOf, On!SliceStart, On!SliceStop
<1>4. \A w : Facts!SliceStart(total, count, w) = first(w) /\ Facts!SliceStop(total, count, w) = next(w)
  BY DEF Facts!SliceStart, Facts!SliceStop
<1> HIDE DEF total, count
<1>5. ASSUME NEW w \in 0..(count - 1)
      PROVE  first(w) \in Nat /\ next(w) \in Nat /\ first(w) <= next(w) /\ next(w) <= total
  <2>1. total * w \in Nat /\ total * (w + 1) \in Nat /\ total * count \in Nat
    BY <1>1, <1>2
  <2>2. total * w <= total * (w + 1) /\ total * (w + 1) <= total * count
    BY <1>1, <1>2, Facts!MulKeepsOrder
  <2>3. first(w) \in Nat /\ next(w) \in Nat
    BY <2>1, <1>2, Facts!DivBounds
  <2>4. first(w) <= next(w) /\ next(w) <= (total * count) \div count
    BY <2>1, <2>2, <1>2, Facts!DivKeepsOrder
  <2>5. (total * count) \div count = total
    BY <1>1, <1>2
  <2> QED BY <2>3, <2>4, <2>5
<1>6. ASSUME NEW k \in 0..(total - 1)
      PROVE  /\ \E w \in 0..(count - 1) : first(w) <= k /\ k < next(w)
             /\ \A v, w \in 0..(count - 1) :
                  first(v) <= k /\ k < next(v) /\ first(w) <= k /\ k < next(w) => v = w
  <2> HIDE DEF first, next
  <2>1. /\ \E w \in 0..(count - 1) :
             Facts!SliceStart(total, count, w) <= k /\ k < Facts!SliceStop(total, count, w)
        /\ \A v, w \in 0..(count - 1) :
             /\ Facts!SliceStart(total, count, v) <= k /\ k < Facts!SliceStop(total, count, v)
             /\ Facts!SliceStart(total, count, w) <= k /\ k < Facts!SliceStop(total, count, w)
             => v = w
    BY <1>1, <1>2, Facts!SlicesTileTheRanks
  <2> QED BY <2>1, <1>4
<1> HIDE DEF first, next
<1>7. RanksOf(grid) = 0..(total - 1)
  BY DEF RanksOf, total
<1> QED BY <1>1, <1>2, <1>3, <1>5, <1>6, <1>7 DEF total, count

LEMMA TableIs == \A f : Table(f) = f
BY DEF Table

(* Unranking names every generator once.                                   *)
LEMMA UnrankIsInjective ==
  ASSUME Sized, NEW j \in RanksOf(grid), NEW k \in RanksOf(grid), On(grid)!Unrank(j) = On(grid)!Unrank(k)
  PROVE  j = k
<1>1. \A x : Facts!Unrank(x) = On(grid)!Unrank(x)
  BY OnTheGrid, SameRanks
<1>2. RanksOf(grid) = 0..(Facts!Total - 1)
  BY DEF RanksOf, On!Total, On!Factorial, Facts!Total, Facts!Factorial
<1>3. Facts!RankOf(Facts!Unrank(j)) = j /\ Facts!RankOf(Facts!Unrank(k)) = k
  BY <1>2, Facts!RanksNameTheGenerators DEF Sized
<1> QED BY <1>1, <1>3

LEMMA UnrankKeepsNumbers ==
  ASSUME Sized, NEW R \in SUBSET RanksOf(grid)
  PROVE  Cardinality({On(grid)!Unrank(k) : k \in R}) = Cardinality(R)
<1> DEFINE f == [k \in R |-> On(grid)!Unrank(k)]
           S == {On(grid)!Unrank(k) : k \in R}
<1>1. IsFiniteSet(R)
  <2>1. On(grid)!Total \in Nat
    BY Tiling
  <2>2. IsFiniteSet(RanksOf(grid))
    BY <2>1, FS_Interval DEF RanksOf
  <2> QED BY <2>2, FS_Subset
<1>2. \A j, k \in R : f[j] = f[k] => j = k
  BY UnrankIsInjective
<1>3. f \in [R -> S] /\ \A y \in S : \E k \in R : f[k] = y
  OBVIOUS
<1> HIDE DEF f, S
<1>4. f \in Surjection(R, S) /\ f \in Injection(R, S)
  BY <1>2, <1>3 DEF Surjection, Injection, IsInjective
<1>5. Cardinality(S) = Cardinality(R)
  BY <1>1, <1>4, FS_Surjection
<1> QED BY <1>5 DEF S

(* The histogram of the generators, by rank.                               *)
LEMMA HistogramCounts ==
  ASSUME Sized
  PROVE  GradingHistogram = CountsOf(grid)
<1> DEFINE R == RanksOf(grid)
           U(k) == On(grid)!Unrank(k)
           A(k) == AlexanderAt(grid, k)
           D(k) == -MaslovAt(grid, k)
           all == {G!Unrank(k) : k \in AllRanks}
           al == Table([x \in all |-> G!Alexander(x)])
           de == Table([x \in all |-> Degree(x)])
           F(a) == [d \in {de[x] : x \in {y \in all : al[y] = a}} |->
                      Cardinality({x \in {y \in all : al[y] = a} : de[x] = d})]
           E(a) == [d \in {D(k) : k \in {r \in R : A(r) = a}} |->
                      Cardinality({k \in R : A(k) = a /\ D(k) = d})]
<1>1. GradingHistogram = [a \in {al[x] : x \in all} |-> F(a)]
  BY DEF GradingHistogram
<1>2. CountsOf(grid) = [a \in {A(k) : k \in R} |-> E(a)]
  BY DEF CountsOf
<1>3. all = {U(k) : k \in R}
  <2>1. AllRanks = R
    BY OnTheGrid DEF AllRanks, RanksOf
  <2> QED BY <2>1, OnTheGrid
<1>4. \A k \in R : U(k) \in all /\ al[U(k)] = A(k) /\ de[U(k)] = D(k)
  <2>1. al = [x \in all |-> G!Alexander(x)] /\ de = [x \in all |-> Degree(x)]
    BY TableIs
  <2> SUFFICES ASSUME NEW k \in R PROVE U(k) \in all /\ al[U(k)] = A(k) /\ de[U(k)] = D(k)
    OBVIOUS
  <2>2. U(k) \in all
    BY <1>3
  <2>3. al[U(k)] = G!Alexander(U(k)) /\ de[U(k)] = -G!Maslov(U(k))
    BY <2>1, <2>2 DEF Degree
  <2> QED BY <2>2, <2>3, OnTheGrid DEF AlexanderAt, MaslovAt
<1> HIDE DEF al, de, all, R, A, D, U
<1>5. {al[x] : x \in all} = {A(k) : k \in R}
  BY <1>3, <1>4
<1>6. ASSUME NEW a PROVE F(a) = E(a)
  <2>1. {y \in all : al[y] = a} = {U(k) : k \in {r \in R : A(r) = a}}
    BY <1>3, <1>4
  <2>2. {de[x] : x \in {y \in all : al[y] = a}} = {D(k) : k \in {r \in R : A(r) = a}}
    BY <1>4, <2>1
  <2>3. ASSUME NEW d
        PROVE  Cardinality({x \in {y \in all : al[y] = a} : de[x] = d}) =
               Cardinality({k \in R : A(k) = a /\ D(k) = d})
    <3> DEFINE S == {k \in R : A(k) = a /\ D(k) = d}
    <3>1. {x \in {y \in all : al[y] = a} : de[x] = d} = {U(k) : k \in S}
      BY <1>3, <1>4
    <3>2. S \in SUBSET RanksOf(grid)
      BY DEF R
    <3> HIDE DEF S
    <3>3. Cardinality({U(k) : k \in S}) = Cardinality(S)
      BY <3>2, UnrankKeepsNumbers DEF U
    <3> QED BY <3>1, <3>3 DEF S
  <2> QED BY <2>2, <2>3
<1> HIDE DEF F, E
<1> QED BY <1>1, <1>2, <1>5, <1>6

(* The slices are handed over in some order of the slices.                 *)
LEMMA OrdersArePermutations ==
  ASSUME Sized, NEW order \in Orders(SliceKeys)
  PROVE  \E p \in [1..CountOf(grid) -> 0..(CountOf(grid) - 1)] :
           /\ \A i, j \in 1..CountOf(grid) : p[i] = p[j] => i = j
           /\ \A w \in 0..(CountOf(grid) - 1) : \E i \in 1..CountOf(grid) : p[i] = w
           /\ order = [i \in 1..CountOf(grid) |-> <<"gen_slice", p[i]>>]
<1> DEFINE count == CountOf(grid)
           W == 0..(count - 1)
           I == 1..count
<1>1. count \in Nat \ {0}
  BY Tiling
<1>2. SliceKeys = {<<"gen_slice", w>> : w \in W}
  BY OnTheRanks DEF SliceKeys, CountOf
<1>3. IsFiniteSet(W) /\ Cardinality(W) = count /\ IsFiniteSet(I) /\ Cardinality(I) = count
  <2> HIDE DEF count
  <2>1. IsFiniteSet(0..(count - 1)) /\ Cardinality(0..(count - 1)) = count
    <3>1. 0 \in Int /\ count - 1 \in Int /\ ~(0 > count - 1) /\ (count - 1) - 0 + 1 = count
      BY <1>1
    <3> QED BY <3>1, FS_Interval
  <2>2. IsFiniteSet(1..count) /\ Cardinality(1..count) = count
    <3>1. 1 \in Int /\ count \in Int /\ ~(1 > count) /\ count - 1 + 1 = count
      BY <1>1
    <3> QED BY <3>1, FS_Interval
  <2> QED BY <2>1, <2>2
<1> HIDE DEF count, W
<1>4. Cardinality(SliceKeys) = count
  <2> DEFINE f == [w \in W |-> <<"gen_slice", w>>]
  <2>1. f \in Surjection(W, SliceKeys) /\ f \in Injection(W, SliceKeys)
    BY <1>2 DEF Surjection, Injection, IsInjective
  <2> HIDE DEF f
  <2> QED BY <1>3, <2>1, FS_Surjection
<1>5. {k[2] : k \in SliceKeys} = W
  <2>1. \A k \in SliceKeys : k[2] \in W
    BY <1>2
  <2>2. \A w \in W : <<"gen_slice", w>> \in SliceKeys /\ <<"gen_slice", w>>[2] = w
    BY <1>2
  <2> QED BY <2>1, <2>2
<1>6. PICK p \in [I -> W] : /\ \A i, j \in I : p[i] = p[j] => i = j
                            /\ order = [i \in I |-> <<"gen_slice", p[i]>>]
  BY <1>4, <1>5 DEF Orders
<1>7. \A w \in W : \E i \in I : p[i] = w
  <2>1. p \in Injection(I, W)
    BY <1>6 DEF Injection, IsInjective
  <2>2. p \in Surjection(I, W)
    BY <1>3, <2>1, FS_Injection
  <2> QED BY <2>2 DEF Surjection
<1> QED BY <1>6, <1>7 DEF count, W

(* No slice is empty, and each begins where the one before it ends.        *)
LEMMA SlicesFollow ==
  ASSUME Sized
  PROVE  /\ FirstOf(grid, 0) = 0 /\ FirstOf(grid, CountOf(grid)) = On(grid)!Total
         /\ \A w \in 0..CountOf(grid) : FirstOf(grid, w) \in Nat
         /\ \A w \in 0..(CountOf(grid) - 1) : NextOf(grid, w) = FirstOf(grid, w + 1)
         /\ \A v, w \in 0..CountOf(grid) : v < w => FirstOf(grid, v) < FirstOf(grid, w)
<1> DEFINE total == On(grid)!Total
           count == CountOf(grid)
           states == SliceStates[grid.n]
           first(w) == (total * w) \div count
<1>1. total \in Nat \ {0} /\ count \in Nat \ {0}
  BY Tiling
<1>2. count <= total
  <2>1. count = LET ceiling == (total + states - 1) \div states IN IF ceiling > 1 THEN ceiling ELSE 1
    BY DEF CountOf, On!SliceCount
  <2>2. states \in Nat \ {0}
    BY DEF Sized
  <2> HIDE DEF total, count, states
  <2>3. (total + states - 1) \div states <= total
    <3> DEFINE q == (total + states - 1) \div states
    <3>1. total + states - 1 \in Nat
      BY <1>1, <2>2
    <3>2. q \in Nat /\ states * q <= total + states - 1
      BY <2>2, <3>1, Facts!DivBounds
    <3> HIDE DEF q
    <3> SUFFICES ASSUME total + 1 <= q PROVE FALSE
      BY <1>1, <3>2 DEF q
    <3>3. states * (total + 1) <= states * q
      BY <1>1, <2>2, <3>2, Facts!MulKeepsOrder
    <3>4. states * (total + 1) = states * total + states /\ states * total \in Nat
      BY <1>1, <2>2
    <3>5. 1 * total <= states * total
      <4>1. total * 1 <= total * states
        BY <1>1, <2>2, Facts!MulKeepsOrder
      <4> QED BY <1>1, <2>2, <4>1
    <3> QED BY <1>1, <2>2, <3>2, <3>3, <3>4, <3>5
  <2>4. (total + states - 1) \div states \in Int
    BY <1>1, <2>2
  <2> QED BY <1>1, <2>1, <2>3, <2>4
<1>3. \A w : FirstOf(grid, w) = first(w) /\ NextOf(grid, w) = first(w + 1)
  BY DEF FirstOf, NextOf, On!SliceStart, On!SliceStop
<1> HIDE DEF total, count
<1>4. \A w \in 0..count : w \in Nat /\ total * w \in Nat /\ first(w) \in Nat
  <2> SUFFICES ASSUME NEW w \in 0..count PROVE w \in Nat /\ total * w \in Nat /\ first(w) \in Nat
    OBVIOUS
  <2>1. w \in Nat /\ total * w \in Nat
    BY <1>1
  <2> QED BY <1>1, <2>1, Facts!DivBounds
<1>5. ASSUME NEW v \in 0..count, NEW w \in 0..count, v < w PROVE first(v) < first(w)
  <2> DEFINE a == total * v
             b == total * w
             p == a \div count
             q == b \div count
  <2>1. a \in Nat /\ b \in Nat /\ v \in Nat /\ w \in Nat
    BY <1>4
  <2>2. a + total <= b
    <3>1. v + 1 <= w /\ v + 1 \in Int /\ w \in Int
      BY <1>5, <2>1
    <3>2. total * (v + 1) <= total * w
      BY <1>1, <3>1, Facts!MulKeepsOrder
    <3>3. total * (v + 1) = total * v + total
      BY <1>1, <2>1
    <3> QED BY <3>2, <3>3
  <2>3. /\ p \in Nat /\ count * p <= a /\ a < count * (p + 1)
        /\ q \in Nat /\ count * q <= b /\ b < count * (q + 1)
    <3> HIDE DEF a, b
    <3> QED BY <1>1, <2>1, Facts!DivBounds
  <2> HIDE DEF a, b, p, q
  <2>4. count * (p + 1) = count * p + count /\ count * p \in Nat
    BY <1>1, <2>3
  <2>5. count * (p + 1) <= b
    BY <1>1, <1>2, <2>1, <2>2, <2>3, <2>4
  <2>6. count * (p + 1) < count * (q + 1)
    <3>1. count * (q + 1) \in Nat
      BY <1>1, <2>3
    <3> QED BY <2>1, <2>3, <2>4, <2>5, <3>1, <1>1
  <2>7. p + 1 < q + 1
    BY <1>1, <2>3, <2>6, Facts!MulKeepsOrder
  <2>8. p < q
    BY <2>3, <2>7
  <2> QED BY <2>8 DEF p, q, a, b
<1>6. first(0) = 0 /\ first(count) = total
  <2>1. total * 0 = 0 /\ 0 \div count = 0
    BY <1>1
  <2>2. (total * count) \div count = total
    BY <1>1
  <2> QED BY <2>1, <2>2
<1> HIDE DEF first
<1> QED BY <1>3, <1>4, <1>5, <1>6 DEF total, count

LEMMA DisjointBlocks ==
  ASSUME NEW J, NEW B, IsFiniteSet(J) /\ \A i \in J : IsFiniteSet(B[i]),
         \A i, j \in J : i # j => B[i] \cap B[j] = {},
         NEW whole, whole = UNION {B[i] : i \in J},
         NEW sum, sum = Total([i \in J |-> Cardinality(B[i])], J)
  PROVE  IsFiniteSet(whole) /\ sum = Cardinality(whole)
BY TotalOfSizes

(* The merge finds every generator, in whatever order the slices are given.*)
LEMMA GenerationIsWhole ==
  ASSUME Sized, NEW slices, NEW order \in Orders(SliceKeys), DOMAIN slices = DOMAIN order,
         \A i \in DOMAIN order : IsSlice(grid, order[i][2], slices[i])
  PROVE  /\ GenerationOf(slices).total = On(grid)!Total
         /\ \A r \in RanksOf(grid) :
              /\ GenerationOf(slices).gen[r].alexander = AlexanderAt(grid, r)
              /\ GenerationOf(slices).gen[r].maslov = MaslovAt(grid, r)
              /\ GenerationOf(slices).gen[r].targets = TargetsAt(grid, r)
<1> DEFINE count == CountOf(grid)
           W == 0..(count - 1)
           I == 1..count
<1>1. count \in Nat \ {0} /\ On(grid)!Total \in Nat \ {0}
  BY Tiling
<1>3. IsFiniteSet(I)
  <2> HIDE DEF count
  <2>1. 1 \in Int /\ count \in Int
    BY <1>1
  <2> QED BY <2>1, FS_Interval
<1>6. PICK p \in [I -> W] : /\ \A i, j \in I : p[i] = p[j] => i = j
                            /\ \A w \in W : \E i \in I : p[i] = w
                            /\ order = [i \in I |-> <<"gen_slice", p[i]>>]
  BY OrdersArePermutations
<1>7. \A w \in W : \E i \in I : p[i] = w
  BY <1>6
<1> HIDE DEF count, W
<1>8. DOMAIN slices = I /\ \A i \in I : IsSlice(grid, p[i], slices[i])
  BY <1>6
<1> DEFINE C == [i \in I |-> FirstOf(grid, p[i])..(NextOf(grid, p[i]) - 1)]
<1>9. \A w \in W : /\ FirstOf(grid, w) \in Nat /\ NextOf(grid, w) \in Nat
                   /\ FirstOf(grid, w) <= NextOf(grid, w) /\ NextOf(grid, w) <= On(grid)!Total
  BY Tiling DEF W, count
<1>10. \A i \in I : IsFiniteSet(C[i]) /\ Cardinality(C[i]) = Len(slices[i].gens)
  <2> SUFFICES ASSUME NEW i \in I PROVE IsFiniteSet(C[i]) /\ Cardinality(C[i]) = Len(slices[i].gens)
    OBVIOUS
  <2> DEFINE a == FirstOf(grid, p[i])
             b == NextOf(grid, p[i])
  <2>1. a \in Nat /\ b \in Nat /\ a <= b
    BY <1>6, <1>9
  <2>2. Len(slices[i].gens) = b - a
    BY <1>8 DEF IsSlice
  <2>3. C[i] = a..(b - 1)
    OBVIOUS
  <2> HIDE DEF a, b, C
  <2>4. IsFiniteSet(a..(b - 1)) /\ Cardinality(a..(b - 1)) = b - a
    BY <2>1, FS_Interval
  <2> QED BY <2>2, <2>3, <2>4
<1>11. UNION {C[i] : i \in I} = RanksOf(grid)
  <2>1. ASSUME NEW i \in I, NEW k \in C[i] PROVE k \in RanksOf(grid)
    BY <1>1, <1>6, <1>9, <2>1 DEF RanksOf
  <2>2. ASSUME NEW k \in RanksOf(grid) PROVE \E i \in I : k \in C[i]
    <3>1. PICK w \in W : FirstOf(grid, w) <= k /\ k < NextOf(grid, w)
      BY Tiling DEF W, count
    <3>2. PICK i \in I : p[i] = w
      BY <1>7
    <3>3. k \in Int
      BY DEF RanksOf
    <3> QED BY <1>9, <3>1, <3>2, <3>3
  <2> HIDE DEF C
  <2> QED BY <2>1, <2>2
<1>12. \A i, j \in I : i # j => C[i] \cap C[j] = {}
  <2> SUFFICES ASSUME NEW i \in I, NEW j \in I, i # j, NEW k \in C[i], k \in C[j] PROVE FALSE
    OBVIOUS
  <2>1. k \in RanksOf(grid)
    BY <1>11
  <2>2. /\ FirstOf(grid, p[i]) <= k /\ k < NextOf(grid, p[i])
        /\ FirstOf(grid, p[j]) <= k /\ k < NextOf(grid, p[j])
    BY <1>6, <1>9
  <2>3. p[i] = p[j]
    BY <1>6, <2>1, <2>2, Tiling DEF W, count
  <2> QED BY <1>6, <2>3
<1>13. GenerationOf(slices).total = On(grid)!Total
  <2>1. GenerationOf(slices).total = Total([i \in I |-> Len(slices[i].gens)], I)
    BY <1>8 DEF GenerationOf
  <2>2. [i \in I |-> Len(slices[i].gens)] = [i \in I |-> Cardinality(C[i])]
    BY <1>10
  <2>3. Cardinality(RanksOf(grid)) = On(grid)!Total
    BY <1>1, FS_Interval DEF RanksOf
  <2> HIDE DEF C, I
  <2>4. IsFiniteSet(I) /\ \A i \in I : IsFiniteSet(C[i])
    BY <1>3, <1>10
  <2>5. RanksOf(grid) = UNION {C[i] : i \in I}
    BY <1>11
  <2>6. GenerationOf(slices).total = Total([i \in I |-> Cardinality(C[i])], I)
    BY <2>1, <2>2
  <2>7. GenerationOf(slices).total = Cardinality(RanksOf(grid))
    BY <1>12, <2>4, <2>5, <2>6, DisjointBlocks
  <2> QED BY <2>3, <2>7
<1>14. ASSUME NEW r \in RanksOf(grid)
       PROVE  /\ GenerationOf(slices).gen[r].alexander = AlexanderAt(grid, r)
              /\ GenerationOf(slices).gen[r].maslov = MaslovAt(grid, r)
              /\ GenerationOf(slices).gen[r].targets = TargetsAt(grid, r)
  <2> DEFINE has(i) == slices[i].start <= r /\ r < slices[i].start + Len(slices[i].gens)
             of == CHOOSE i \in DOMAIN slices : has(i)
             k == r - slices[of].start + 1
  <2>1. r \in Nat /\ r \in 0..(On(grid)!Total - 1)
    BY <1>1 DEF RanksOf
  <2>2. \E i \in DOMAIN slices : has(i)
    <3>1. PICK w \in W : FirstOf(grid, w) <= r /\ r < NextOf(grid, w)
      BY Tiling DEF W, count
    <3>2. PICK i \in I : p[i] = w
      BY <1>7
    <3>3. slices[i].start = FirstOf(grid, w) /\ Len(slices[i].gens) = NextOf(grid, w) - FirstOf(grid, w)
      BY <1>8, <3>2 DEF IsSlice
    <3>4. has(i)
      BY <1>9, <2>1, <3>1, <3>3
    <3> QED BY <1>8, <3>4
  <2>3. of \in I /\ has(of)
    BY <1>8, <2>2
  <2>4. GenerationOf(slices).gen[r] = slices[of].gens[k]
    <3> DEFINE place(q) == CHOOSE i \in DOMAIN slices :
                             slices[i].start <= q /\ q < slices[i].start + Len(slices[i].gens)
               at_(q) == slices[place(q)].gens[q - slices[place(q)].start + 1]
    <3>1. GenerationOf(slices).gen = Table([q \in 0..(GenerationOf(slices).total - 1) |-> at_(q)])
      BY DEF GenerationOf
    <3>2. at_(r) = slices[of].gens[k]
      OBVIOUS
    <3> HIDE DEF place, at_, of, k, has
    <3>3. GenerationOf(slices).gen = [q \in 0..(On(grid)!Total - 1) |-> at_(q)]
      BY <3>1, <1>13, TableIs
    <3> QED BY <3>2, <3>3, <2>1
  <2>5. IsSlice(grid, p[of], slices[of]) /\ p[of] \in W
    BY <1>6, <1>8, <2>3
  <2> HIDE DEF of
  <2>6. /\ slices[of].start = FirstOf(grid, p[of])
        /\ Len(slices[of].gens) = NextOf(grid, p[of]) - FirstOf(grid, p[of])
        /\ DOMAIN slices[of].gens = 1..(NextOf(grid, p[of]) - FirstOf(grid, p[of]))
    BY <2>5 DEF IsSlice
  <2>7. k \in DOMAIN slices[of].gens /\ slices[of].start + k - 1 = r
    BY <1>9, <2>1, <2>3, <2>5, <2>6
  <2> HIDE DEF k
  <2> QED BY <2>4, <2>5, <2>7 DEF IsSlice
<1> QED BY <1>13, <1>14

-----------------------------------------------------------------------------
(* A value carried along 1..n is defined by its first and by each step.    *)
Carried(f, n, first, step) ==
  f[0] = first /\ \A i \in 1..n : f[i] = step[<<i, f[i - 1]>>]

LEMMA Iterates ==
  ASSUME NEW n \in Nat, NEW V, NEW first \in V, NEW step \in [(1..n) \X V -> V]
  PROVE  \E f \in [0..n -> V] : Carried(f, n, first, step)
<1> DEFINE S == {m \in Nat : m <= n => \E f \in [0..m -> V] : Carried(f, m, first, step)}
<1>1. 0 \in S
  <2> DEFINE f == [i \in 0..0 |-> first]
  <2>1. f \in [0..0 -> V] /\ f[0] = first /\ 1..0 = {}
    OBVIOUS
  <2> HIDE DEF f
  <2>2. Carried(f, 0, first, step)
    BY <2>1 DEF Carried
  <2> QED
    BY <2>1, <2>2
<1>2. ASSUME NEW m \in S PROVE m + 1 \in S
  <2> SUFFICES ASSUME m + 1 <= n PROVE \E f \in [0..(m + 1) -> V] : Carried(f, m + 1, first, step)
    OBVIOUS
  <2>1. m \in Nat /\ m + 1 \in 1..n
    OBVIOUS
  <2>2. PICK f \in [0..m -> V] : Carried(f, m, first, step)
    OBVIOUS
  <2> DEFINE g == [i \in 0..(m + 1) |-> IF i = m + 1 THEN step[<<m + 1, f[m]>>] ELSE f[i]]
  <2>3. \A i \in 0..m : i \in 0..(m + 1) /\ g[i] = f[i]
    BY <2>1
  <2>4. f[m] \in V /\ g[m + 1] = step[<<m + 1, f[m]>>] /\ step[<<m + 1, f[m]>>] \in V
    BY <2>1
  <2>5. g \in [0..(m + 1) -> V]
    <3>1. \A i \in 0..(m + 1) : g[i] \in V
      <4> SUFFICES ASSUME NEW i \in 0..(m + 1) PROVE g[i] \in V
        OBVIOUS
      <4>1. CASE i = m + 1
        BY <2>4, <4>1
      <4>2. CASE i # m + 1
        <5>1. i \in 0..m
          BY <2>1, <4>2
        <5> QED
          BY <2>3, <5>1
      <4> QED
        BY <4>1, <4>2
    <3> QED
      BY <3>1
  <2> HIDE DEF g
  <2>6. Carried(g, m + 1, first, step)
    <3>1. g[0] = first
      BY <2>1, <2>2, <2>3 DEF Carried
    <3>2. ASSUME NEW i \in 1..(m + 1) PROVE g[i] = step[<<i, g[i - 1]>>]
      <4>1. CASE i = m + 1
        <5>1. i - 1 = m /\ g[m] = f[m]
          BY <2>1, <2>3, <4>1
        <5> QED
          BY <2>4, <4>1, <5>1
      <4>2. CASE i # m + 1
        <5>1. i \in 1..m /\ i \in 0..m /\ i - 1 \in 0..m
          BY <2>1, <4>2
        <5>2. g[i] = f[i] /\ g[i - 1] = f[i - 1]
          BY <2>3, <5>1
        <5> QED
          BY <2>2, <5>1, <5>2 DEF Carried
      <4> QED
        BY <4>1, <4>2
    <3> QED
      BY <3>1, <3>2 DEF Carried
  <2> QED
    BY <2>5, <2>6
<1>3. S = Nat
  <2>1. S \subseteq Nat
    OBVIOUS
  <2> HIDE DEF S
  <2> QED
    BY <1>1, <1>2, <2>1, Counting
<1>4. n \in S
  BY <1>3
<1> QED
  BY <1>4

(* Where each part of a concatenation begins.                              *)
Offsets(off, s, n) == off \in [0..n -> Nat] /\ off[0] = 0 /\ \A i \in 1..n : off[i] = off[i - 1] + Len(s[i])
Flattens(f, s) == f = [i \in 1..Len(s) |-> IF i = 1 THEN s[i] ELSE f[i - 1] \o s[i]]

LEMMA Concatenation ==
  ASSUME NEW Elements, NEW p \in Seq(Elements), NEW q \in Seq(Elements)
  PROVE  /\ p \o q \in Seq(Elements) /\ Len(p) \in Nat /\ Len(q) \in Nat /\ Len(p \o q) = Len(p) + Len(q)
         /\ \A k \in 1..Len(p) : (p \o q)[k] = p[k]
         /\ \A k \in 1..Len(q) : (p \o q)[Len(p) + k] = q[k]
  OBVIOUS

(* Offsets grow.                                                           *)
LEMMA OffsetsGrow ==
  ASSUME NEW n \in Nat, NEW s, NEW off, Offsets(off, s, n), \A i \in 1..n : Len(s[i]) \in Nat
  PROVE  \A m \in 0..n : \A j \in 0..m : off[j] <= off[m] /\ off[j] \in Nat /\ off[m] \in Nat
<1> DEFINE R == {m \in Nat : m <= n => \A j \in 0..m : off[j] <= off[m]}
<1>1. off \in [0..n -> Nat] /\ off[0] = 0 /\ \A i \in 1..n : off[i] = off[i - 1] + Len(s[i])
  BY DEF Offsets
<1>2. 0 \in R
  BY <1>1
<1>3. ASSUME NEW m \in R PROVE m + 1 \in R
  <2> SUFFICES ASSUME m + 1 <= n, NEW j \in 0..(m + 1) PROVE off[j] <= off[m + 1]
    OBVIOUS
  <2>1. m \in Nat /\ m + 1 \in 1..n /\ m \in 0..n /\ (m + 1) - 1 = m /\ m <= n
    OBVIOUS
  <2>2. off[m + 1] = off[m] + Len(s[m + 1]) /\ Len(s[m + 1]) \in Nat /\ off[m] \in Nat /\ off[m + 1] \in Nat
    BY <1>1, <2>1
  <2>3. CASE j = m + 1
    BY <2>2, <2>3
  <2>4. CASE j # m + 1
    <3>1. j \in 0..m /\ j \in 0..n
      BY <2>1, <2>4
    <3>2. off[j] <= off[m] /\ off[j] \in Nat
      BY <1>1, <2>1, <3>1
    <3> QED
      BY <2>2, <3>2
  <2> QED
    BY <2>3, <2>4
<1>4. R = Nat
  <2>1. R \subseteq Nat
    OBVIOUS
  <2> HIDE DEF R
  <2> QED
    BY <1>2, <1>3, <2>1, Counting
<1> SUFFICES ASSUME NEW m \in 0..n, NEW j \in 0..m
             PROVE  off[j] <= off[m] /\ off[j] \in Nat /\ off[m] \in Nat
  OBVIOUS
<1>5. m \in Nat /\ m <= n /\ j \in 0..n
  OBVIOUS
<1>6. m \in R
  BY <1>4, <1>5
<1>7. off[j] <= off[m]
  BY <1>5, <1>6
<1> HIDE DEF R
<1> QED
  BY <1>1, <1>5, <1>7

(* Each part is found behind its offset.                                   *)
LEMMA Flattening ==
  ASSUME NEW Elements, NEW s \in Seq(Seq(Elements)), Len(s) # 0, NEW off, Offsets(off, s, Len(s))
  PROVE  /\ FlattenSeq(s) \in Seq(Elements) /\ Len(FlattenSeq(s)) = off[Len(s)]
         /\ \A i \in 1..Len(s) : \A k \in 1..Len(s[i]) : FlattenSeq(s)[off[i - 1] + k] = s[i][k]
<1> DEFINE n == Len(s)
           V == Seq(Elements)
           step == [iq \in (1..n) \X V |-> iq[2] \o s[iq[1]]]
           f == CHOOSE it : Flattens(it, s)
<1>1. n \in Nat /\ n >= 1 /\ \A i \in 1..n : s[i] \in V
  OBVIOUS
<1>2. \E it : Flattens(it, s)
  <2> HIDE DEF n
  <2>1. step \in [(1..n) \X V -> V]
    <3>1. \A iq \in (1..n) \X V : iq[2] \in V /\ s[iq[1]] \in V
      BY <1>1
    <3> QED
      BY <3>1, Concatenation
  <2>2. <<>> \in V
    OBVIOUS
  <2>3. PICK g \in [0..n -> V] : Carried(g, n, <<>>, step)
    <3> HIDE DEF step, V
    <3> QED
      BY <1>1, <2>1, <2>2, Iterates
  <2> DEFINE h == [i \in 1..n |-> g[i]]
  <2>4. \A i \in 1..n : g[i] = g[i - 1] \o s[i]
    <3> SUFFICES ASSUME NEW i \in 1..n PROVE g[i] = g[i - 1] \o s[i]
      OBVIOUS
    <3>1. i - 1 \in 0..n
      BY <1>1
    <3>2. g[i] = step[<<i, g[i - 1]>>]
      BY <2>3 DEF Carried
    <3> QED
      BY <3>1, <3>2
  <2>5. \A i \in 1..n : h[i] = IF i = 1 THEN s[i] ELSE h[i - 1] \o s[i]
    <3> SUFFICES ASSUME NEW i \in 1..n PROVE h[i] = IF i = 1 THEN s[i] ELSE h[i - 1] \o s[i]
      OBVIOUS
    <3>1. CASE i = 1
      <4>1. g[0] = <<>>
        BY <2>3 DEF Carried
      <4>2. g[1] = <<>> \o s[1]
        <5>1. 1 \in 1..n /\ 1 - 1 = 0
          BY <1>1
        <5> QED
          BY <2>4, <4>1, <5>1
      <4>3. s[1] \in Seq(Elements)
        BY <1>1, <3>1
      <4>4. <<>> \o s[1] = s[1]
        BY <4>3
      <4> QED
        BY <3>1, <4>2, <4>4
    <3>2. CASE i # 1
      <4>1. i - 1 \in 1..n
        BY <1>1, <3>2
      <4> QED
        BY <2>4, <3>2, <4>1
    <3> QED
      BY <3>1, <3>2
  <2>6. Flattens(h, s)
    BY <2>5 DEF Flattens, n
  <2> QED
    BY <2>6
<1>3. Flattens(f, s)
  BY <1>2
<1>4. FlattenSeq(s) = f[n]
  <2>1. n # 0
    BY <1>1
  <2> QED
    BY <2>1 DEF FlattenSeq, Flattens
<1> HIDE DEF f
<1>5. \A i \in 1..n : f[i] = IF i = 1 THEN s[i] ELSE f[i - 1] \o s[i]
  <2>1. f = [i \in 1..n |-> IF i = 1 THEN s[i] ELSE f[i - 1] \o s[i]]
    BY <1>3 DEF Flattens
  <2> QED
    BY <2>1
<1> HIDE DEF n
<1> DEFINE Right(i) == /\ f[i] \in V /\ Len(f[i]) = off[i]
                       /\ \A j \in 1..i : \A k \in 1..Len(s[j]) : f[i][off[j - 1] + k] = s[j][k]
           R == {i \in Nat : i + 1 <= n => Right(i + 1)}
<1>6. off \in [0..n -> Nat] /\ off[0] = 0 /\ \A i \in 1..n : off[i] = off[i - 1] + Len(s[i])
  BY DEF Offsets, n
<1>7. 0 \in R
  <2>1. f[1] = s[1] /\ s[1] \in V
    BY <1>1, <1>5
  <2>2. Len(s[1]) \in Nat /\ off[1] = Len(s[1])
    BY <1>1, <1>6, <2>1
  <2>3. \A j \in 1..1 : j = 1 /\ off[j - 1] = 0
    BY <1>6
  <2>4. \A k \in 1..Len(s[1]) : 0 + k = k
    BY <2>2
  <2>5. Right(1)
    BY <2>1, <2>2, <2>3, <2>4
  <2> HIDE DEF Right
  <2> QED
    BY <2>5
<1>8. ASSUME NEW i \in R PROVE i + 1 \in R
  <2> DEFINE m == i + 1
  <2>0. i \in Nat /\ (m <= n => Right(m))
    <3> HIDE DEF Right
    <3> QED OBVIOUS
  <2> SUFFICES ASSUME m + 1 <= n PROVE Right(m + 1)
    <3> HIDE DEF Right
    <3> QED BY <2>0
  <2>1. m \in 1..n /\ m + 1 \in 1..n /\ m + 1 # 1 /\ (m + 1) - 1 = m /\ m \in Nat
    BY <1>1, <2>0
  <2>2. Right(m)
    <3> HIDE DEF Right
    <3> QED BY <2>0, <2>1
  <2> HIDE DEF m
  <2>3. f[m + 1] = f[m] \o s[m + 1]
    BY <1>5, <2>1
  <2>4. s[m + 1] \in Seq(Elements) /\ f[m] \in Seq(Elements)
    BY <1>1, <2>1, <2>2
  <2>5. /\ f[m + 1] \in Seq(Elements) /\ Len(f[m]) \in Nat /\ Len(s[m + 1]) \in Nat
        /\ Len(f[m + 1]) = Len(f[m]) + Len(s[m + 1])
        /\ \A k \in 1..Len(f[m]) : f[m + 1][k] = f[m][k]
        /\ \A k \in 1..Len(s[m + 1]) : f[m + 1][Len(f[m]) + k] = s[m + 1][k]
    <3> DEFINE p == f[m]
               q == s[m + 1]
               r == f[m + 1]
    <3>1. p \in Seq(Elements) /\ q \in Seq(Elements) /\ r = p \o q
      BY <2>3, <2>4
    <3> HIDE DEF p, q, r, Right, R, V, step
    <3>2. /\ r \in Seq(Elements) /\ Len(p) \in Nat /\ Len(q) \in Nat /\ Len(r) = Len(p) + Len(q)
          /\ \A k \in 1..Len(p) : r[k] = p[k]
          /\ \A k \in 1..Len(q) : r[Len(p) + k] = q[k]
      BY <3>1, Concatenation
    <3> QED
      BY <3>2 DEF p, q, r
  <2>6. Len(f[m]) = off[m] /\ Len(f[m + 1]) = off[m + 1]
    BY <1>6, <2>1, <2>2, <2>5
  <2>7. ASSUME NEW j \in 1..(m + 1), NEW k \in 1..Len(s[j]) PROVE f[m + 1][off[j - 1] + k] = s[j][k]
    <3>1. CASE j = m + 1
      BY <2>1, <2>5, <2>6, <3>1
    <3>2. CASE j # m + 1
      <4>1. j \in 1..m /\ j \in 1..n /\ j \in 0..m /\ m \in 0..n /\ j - 1 \in 0..n /\ j \in 0..n
        BY <1>1, <2>1, <3>2
      <4>2. f[m][off[j - 1] + k] = s[j][k]
        BY <2>2, <4>1
      <4>3. off[j - 1] + k \in 1..off[m]
        <5>1. off[j] <= off[m] /\ off[j] \in Nat /\ off[j - 1] \in Nat /\ off[m] \in Nat /\ off[j] = off[j - 1] + Len(s[j])
          <6>1. Offsets(off, s, n) /\ \A i_ \in 1..n : Len(s[i_]) \in Nat
            BY <1>1 DEF n
          <6>2. off[j] <= off[m]
            BY <1>1, <4>1, <6>1, OffsetsGrow
          <6>3. j \in 0..n /\ off \in [0..n -> Nat]
            BY <1>6, <4>1, Zenon
          <6>4. off[j] = off[j - 1] + Len(s[j])
            BY <1>6, <4>1
          <6> HIDE DEF Right, R, V, step
          <6> QED
            BY <4>1, <6>2, <6>3, <6>4
        <5>2. Len(s[j]) \in Nat
          BY <1>1, <4>1
        <5> HIDE DEF Right, R, V, step
        <5> QED
          BY <5>1, <5>2
      <4> QED
        BY <2>5, <2>6, <4>2, <4>3
    <3> QED
      BY <3>1, <3>2
  <2> QED
    BY <2>5, <2>6, <2>7
<1>9. R = Nat
  <2>1. R \subseteq Nat
    OBVIOUS
  <2> HIDE DEF R
  <2> QED
    BY <1>7, <1>8, <2>1, Counting
<1>10. Right(n)
  <2>1. n - 1 \in R /\ (n - 1) + 1 = n
    <3>1. n - 1 \in Nat /\ (n - 1) + 1 = n
      BY <1>1
    <3> HIDE DEF R
    <3> QED
      BY <1>9, <3>1
  <2> HIDE DEF Right
  <2> QED
    BY <1>1, <2>1
<1> QED
  BY <1>4, <1>10 DEF n

-----------------------------------------------------------------------------
(* Sorting by start puts the slices in their own order.                    *)
LEMMA SlicesAreSorted ==
  ASSUME Sized, NEW slices, NEW order \in Orders(SliceKeys), DOMAIN slices = DOMAIN order,
         \A i \in DOMAIN order : IsSlice(grid, order[i][2], slices[i])
  PROVE  /\ DOMAIN BlocksByStart(slices) = 1..CountOf(grid)
         /\ BlocksByStart(slices) = [b \in 1..CountOf(grid) |-> BlocksByStart(slices)[b]]
         /\ \A b \in 1..CountOf(grid) : IsSlice(grid, b - 1, BlocksByStart(slices)[b])
<1> DEFINE count == CountOf(grid)
           W == 0..(count - 1)
           I == 1..count
           before(i) == {j \in DOMAIN slices : slices[j].start < slices[i].start}
           which(b) == CHOOSE i \in DOMAIN slices : Cardinality(before(i)) = b - 1
<1>1. count \in Nat \ {0}
  BY Tiling
<1>2. PICK p \in [I -> W] :
        /\ \A i, j \in I : p[i] = p[j] => i = j
        /\ \A w \in W : \E i \in I : p[i] = w
        /\ order = [i \in I |-> <<"gen_slice", p[i]>>]
  BY OrdersArePermutations
<1>3. DOMAIN slices = I /\ \A i \in I : IsSlice(grid, p[i], slices[i])
  BY <1>2
<1>4. \A i \in I : p[i] \in W /\ p[i] \in Nat /\ p[i] \in 0..count /\ slices[i].start = FirstOf(grid, p[i])
  <2> HIDE DEF count
  <2>1. \A w \in W : w \in Nat /\ w \in 0..count
    BY <1>1
  <2> HIDE DEF W, I
  <2> QED BY <1>2, <1>3, <2>1 DEF IsSlice
<1>5. \A i, j \in I : slices[j].start < slices[i].start <=> p[j] < p[i]
  <2> SUFFICES ASSUME NEW i \in I, NEW j \in I PROVE slices[j].start < slices[i].start <=> p[j] < p[i]
    OBVIOUS
  <2> DEFINE a == FirstOf(grid, p[i])
             b == FirstOf(grid, p[j])
             v == p[i]
             w == p[j]
  <2>1. v \in 0..count /\ w \in 0..count /\ v \in Nat /\ w \in Nat /\ slices[i].start = a /\ slices[j].start = b
    BY <1>4
  <2>2. a \in Nat /\ b \in Nat /\ (v < w => a < b) /\ (w < v => b < a) /\ (v = w => a = b)
    <3>1. \A x, y \in 0..count : x < y => FirstOf(grid, x) < FirstOf(grid, y)
      BY SlicesFollow
    <3>2. \A x \in 0..count : FirstOf(grid, x) \in Nat
      BY SlicesFollow
    <3> QED BY <2>1, <3>1, <3>2
  <2> HIDE DEF a, b, v, w, count
  <2>3. b < a <=> w < v
    BY <2>1, <2>2
  <2> QED BY <2>1, <2>3 DEF v, w
<1> HIDE DEF count
<1>6. ASSUME NEW i \in I PROVE Cardinality(before(i)) = p[i]
  <2> DEFINE B == before(i)
             T_ == 0..(p[i] - 1)
             f == [j \in B |-> p[j]]
  <2>1. B = {j \in I : p[j] < p[i]}
    BY <1>3, <1>5
  <2> HIDE DEF B
  <2>2. p[i] \in Nat /\ p[i] \in W
    BY <1>4
  <2>3. IsFiniteSet(T_) /\ Cardinality(T_) = p[i]
    <3> DEFINE n == p[i]
    <3>1. n \in Nat
      BY <2>2
    <3> HIDE DEF n
    <3>2. IsFiniteSet(0..(n - 1)) /\ Cardinality(0..(n - 1)) = IF 0 > n - 1 THEN 0 ELSE (n - 1) - 0 + 1
      BY <3>1, FS_Interval
    <3>3. Cardinality(0..(n - 1)) = n
      BY <3>1, <3>2
    <3> QED BY <3>2, <3>3 DEF n
  <2>4. \A j \in B : j \in I /\ f[j] = p[j] /\ p[j] \in T_
    BY <1>4, <2>1, <2>2
  <2>5. \A j, k \in B : f[j] = f[k] => j = k
    BY <1>2, <2>4
  <2>6. \A w \in T_ : \E j \in B : f[j] = w
    <3> SUFFICES ASSUME NEW w \in T_ PROVE \E j \in B : f[j] = w
      OBVIOUS
    <3>1. w \in W /\ w < p[i]
      BY <1>1, <2>2
    <3>2. PICK j \in I : p[j] = w
      BY <1>2, <3>1
    <3>3. j \in B
      BY <2>1, <3>1, <3>2
    <3> QED BY <2>4, <3>2, <3>3
  <2>7. f \in [B -> T_]
    BY <2>4
  <2>8. IsFiniteSet(B)
    <3>1. IsFiniteSet(I)
      <4>1. 1 \in Int /\ count \in Int
        BY <1>1
      <4> QED BY <4>1, FS_Interval
    <3>2. B \subseteq I
      BY <2>4
    <3> QED BY <3>1, <3>2, FS_Subset
  <2> HIDE DEF f, T_
  <2>9. Cardinality(T_) = Cardinality(B)
    <3>1. f \in Injection(B, T_) /\ f \in Surjection(B, T_)
      BY <2>5, <2>6, <2>7 DEF Injection, Surjection, IsInjective
    <3> QED BY <2>8, <3>1, FS_Surjection
  <2> QED BY <2>3, <2>9 DEF B
<1>7. ASSUME NEW b \in I PROVE which(b) \in I /\ p[which(b)] = b - 1
  <2>1. b - 1 \in W
    BY <1>1
  <2>2. PICK i \in I : p[i] = b - 1
    BY <1>2, <2>1
  <2>3. \E k \in DOMAIN slices : Cardinality(before(k)) = b - 1
    BY <1>3, <1>6, <2>2
  <2> HIDE DEF before
  <2>4. which(b) \in DOMAIN slices /\ Cardinality(before(which(b))) = b - 1
    BY <2>3
  <2> QED BY <1>3, <1>6, <2>4
<1>8. BlocksByStart(slices) = [b \in I |-> slices[which(b)]]
  BY <1>3 DEF BlocksByStart
<1> HIDE DEF which
<1>9. \A b \in I : IsSlice(grid, b - 1, BlocksByStart(slices)[b])
  <2> SUFFICES ASSUME NEW b \in I PROVE IsSlice(grid, b - 1, BlocksByStart(slices)[b])
    OBVIOUS
  <2>1. BlocksByStart(slices)[b] = slices[which(b)]
    BY <1>8
  <2>2. IsSlice(grid, p[which(b)], slices[which(b)])
    BY <1>3, <1>7
  <2> QED BY <1>7, <2>1, <2>2
<1> HIDE DEF I
<1>10. DOMAIN BlocksByStart(slices) = I /\ BlocksByStart(slices) = [b \in I |-> BlocksByStart(slices)[b]]
  BY <1>8
<1> QED BY <1>9, <1>10 DEF I, count

(* The grid that was built is one the constructor accepts.                 *)
Laid == Sized /\ ValidOn(grid.n, grid.O, grid.X)
LEMMA LaidIs ==
  ASSUME Laid
  PROVE  /\ Sized /\ grid.n \in Nat \ {0} /\ Facts!ValidGrid
         /\ grid.O \in [Facts!Rows -> Facts!Rows] /\ grid.X \in [Facts!Rows -> Facts!Rows]
<1>1. Facts!ValidGrid
  BY DEF Laid, ValidOn, Facts!ValidGrid, Facts!IsPermutation, Facts!Rows
<1> QED BY <1>1 DEF Laid, Sized, Facts!ValidGrid, Facts!IsPermutation

(* The targets of a generator are numbers.                                 *)
LEMMA TargetsAreRanks ==
  ASSUME Laid, NEW k \in RanksOf(grid)
  PROVE  /\ TargetsAt(grid, k) \in Seq(Nat) /\ Len(TargetsAt(grid, k)) \in Nat
         /\ On(grid)!Unrank(k) \in Facts!Generators
         /\ {TargetsAt(grid, k)[t] : t \in 1..Len(TargetsAt(grid, k))}
              = {Facts!RankOf(y) : y \in Facts!Differential(On(grid)!Unrank(k))}
<1> DEFINE x == On(grid)!Unrank(k)
           codes == Facts!Codes(x)
           n == Cardinality(codes)
           it(t) == Facts!RankOf(Facts!TargetOf(x, Facts!Nth(codes, t - 1)))
<1>1. x \in Facts!Generators
  <2>1. k \in 0..(Facts!Total - 1)
    BY DEF RanksOf, On!Total, On!Factorial, Facts!Total, Facts!Factorial
  <2>2. x = Facts!Unrank(k)
    BY OnTheGrid, SameRanks
  <2> QED BY <2>1, <2>2, LaidIs, Facts!RanksNameTheGenerators
<1>2. /\ codes \in SUBSET Nat /\ n \in Nat
      /\ {Facts!TargetOf(x, Facts!Nth(codes, t - 1)) : t \in 1..n} = Facts!Differential(x)
  <2> HIDE DEF x
  <2>1. /\ codes \in SUBSET Nat /\ n \in Nat
        /\ {Facts!TargetOf(x, Facts!Nth(codes, t - 1)) : t \in 1..n} = Facts!DifferentialJit(x)
    BY <1>1, LaidIs, Facts!CodesAreTargets, SameCounts
  <2>2. Facts!DifferentialJit(x) = Facts!Differential(x)
    BY <1>1, LaidIs, Facts!KernelIsTheDifferential
  <2> QED BY <2>1, <2>2
<1>3. TargetsAt(grid, k) = [t \in 1..n |-> it(t)]
  <2>1. codes = {ij[1] * grid.n + ij[2] : ij \in On(grid)!SurvivingPairs(x)}
    <3>1. Facts!SurvivingPairs(x) = On(grid)!SurvivingPairs(x)
      BY DEF Facts!SurvivingPairs, Facts!RectValid, Facts!Interior, Facts!MarkerCells, Facts!OCells, Facts!Rows,
             On!SurvivingPairs, On!RectValid, On!Interior, On!MarkerCells, On!OCells, On!Rows
    <3> QED BY <3>1 DEF Facts!Codes, Facts!CodeOf
  <2>2. \A code : Facts!TargetOf(x, code) = On(grid)!Transpose(x, code \div grid.n, code % grid.n)
    BY DEF Facts!TargetOf, Facts!Transpose, On!Transpose
  <2>3. \A y : Facts!RankOf(y) = On(grid)!RankOf(y)
    BY DEF Facts!RankOf, Facts!SmallerUnused, Facts!Factorial, Facts!Cardinality,
           On!RankOf, On!SmallerUnused, On!Factorial, On!Cardinality
  <2>4. \A S, place : Facts!Nth(S, place) = On(grid)!Nth(S, place)
    BY DEF Facts!Nth, Facts!Cardinality, On!Nth, On!Cardinality
  <2>5. TargetsAt(grid, k) =
          [t \in 1..n |-> On(grid)!RankOf(On(grid)!Transpose(x, On(grid)!Nth(codes, t - 1) \div grid.n,
                                                               On(grid)!Nth(codes, t - 1) % grid.n))]
    BY <2>1 DEF TargetsAt, TargetsOn
  <2> HIDE DEF codes, n, x
  <2> QED BY <2>2, <2>3, <2>4, <2>5
<1> HIDE DEF codes, n, x
<1>4. \A t \in 1..n : it(t) \in Nat
  <2> SUFFICES ASSUME NEW t \in 1..n PROVE it(t) \in Nat
    OBVIOUS
  <2> DEFINE y == Facts!TargetOf(x, Facts!Nth(codes, t - 1))
  <2>1. y \in Facts!Differential(x)
    BY <1>2
  <2>2. y \in Facts!Generators
    BY <1>1, <2>1, LaidIs, Facts!DifferentialsRespectGradings
  <2>3. Facts!RankOf(y) \in Nat
    <3>1. Facts!Total \in Nat
      BY LaidIs, Facts!FactorialIs DEF Facts!Total
    <3> HIDE DEF y
    <3> QED BY <2>2, <3>1, LaidIs, Facts!RankIsBelow
  <2> QED BY <2>3
<1>5. {it(t) : t \in 1..n} = {Facts!RankOf(y) : y \in Facts!Differential(x)}
  BY <1>2
<1> HIDE DEF it
<1>6. [t \in 1..n |-> it(t)] \in Seq(Nat) /\ Len([t \in 1..n |-> it(t)]) = n
  BY <1>2, <1>4
<1> QED BY <1>1, <1>2, <1>3, <1>5, <1>6 DEF x

(* Where the targets of a rank begin in the array of all targets.          *)
TargetsBy(n) == [i \in 1..n |-> TargetsAt(grid, i - 1)]
RankOffsets(off) == Offsets(off, TargetsBy(On(grid)!Total), On(grid)!Total)

LEMMA TargetsByRank ==
  ASSUME Laid, NEW off, RankOffsets(off)
  PROVE  /\ \A r \in 0..On(grid)!Total : off[r] \in Nat
         /\ off[0] = 0
         /\ \A r \in RanksOf(grid) : off[r + 1] = off[r] + Len(TargetsAt(grid, r)) /\ Len(TargetsAt(grid, r)) \in Nat
         /\ \A q, r \in 0..On(grid)!Total : q <= r => off[q] <= off[r]
<1> DEFINE n == On(grid)!Total
<1>1. n \in Nat \ {0} /\ RanksOf(grid) = 0..(n - 1)
  BY LaidIs, Tiling DEF RanksOf
<1>2. Offsets(off, TargetsBy(n), n)
  BY DEF RankOffsets
<1> HIDE DEF n
<1>3. \A i \in 1..n : TargetsBy(n)[i] = TargetsAt(grid, i - 1) /\ i - 1 \in RanksOf(grid)
  BY <1>1 DEF TargetsBy
<1>4. \A r \in RanksOf(grid) : Len(TargetsAt(grid, r)) \in Nat
  BY TargetsAreRanks
<1>5. \A i \in 1..n : Len(TargetsBy(n)[i]) \in Nat
  BY <1>3, <1>4
<1>6. off \in [0..n -> Nat] /\ off[0] = 0 /\ \A i \in 1..n : off[i] = off[i - 1] + Len(TargetsBy(n)[i])
  BY <1>2 DEF Offsets
<1>7. ASSUME NEW r \in RanksOf(grid) PROVE off[r + 1] = off[r] + Len(TargetsAt(grid, r))
  <2>1. r + 1 \in 1..n /\ (r + 1) - 1 = r
    BY <1>1
  <2> QED BY <1>3, <1>6, <2>1
<1>8. ASSUME NEW q \in 0..n, NEW r \in 0..n, q <= r PROVE off[q] <= off[r]
  <2>1. q \in 0..r
    BY <1>1, <1>8
  <2> QED BY <1>1, <1>2, <1>5, <2>1, OffsetsGrow
<1> QED BY <1>4, <1>6, <1>7, <1>8 DEF n

(* The targets of a slice, one after the other.                            *)
Inner(s) == [k \in DOMAIN s.gens |-> s.gens[k].targets]
LEMMA SliceFlattens ==
  ASSUME Laid, NEW off, RankOffsets(off), NEW w \in 0..(CountOf(grid) - 1), NEW s, IsSlice(grid, w, s)
  PROVE  LET first == FirstOf(grid, w)
             next == FirstOf(grid, w + 1)
             flat == FlattenSeq(Inner(s))
         IN /\ flat \in Seq(Nat) /\ Len(flat) = off[next] - off[first]
            /\ \A r \in first..(next - 1) : \A t \in 1..Len(TargetsAt(grid, r)) :
                 flat[off[r] - off[first] + t] = TargetsAt(grid, r)[t]
<1> DEFINE first == FirstOf(grid, w)
           next == FirstOf(grid, w + 1)
           total == On(grid)!Total
           count == CountOf(grid)
           n == next - first
           parts == Inner(s)
           inner == [k \in 0..n |-> off[first + k] - off[first]]
<1>1. /\ first \in Nat /\ next \in Nat /\ first < next /\ next <= total /\ total \in Nat /\ NextOf(grid, w) = next
  <2>1. count \in Nat \ {0} /\ total \in Nat \ {0} /\ NextOf(grid, w) <= total
    BY LaidIs, Tiling
  <2>2. w \in 0..count /\ w + 1 \in 0..count /\ w < w + 1
    BY <2>1
  <2>3. /\ \A v \in 0..count : FirstOf(grid, v) \in Nat
        /\ NextOf(grid, w) = FirstOf(grid, w + 1)
        /\ \A u, v \in 0..count : u < v => FirstOf(grid, u) < FirstOf(grid, v)
    BY LaidIs, SlicesFollow
  <2> HIDE DEF count, total
  <2> QED BY <2>1, <2>2, <2>3
<1>2. /\ s.start = first /\ DOMAIN s.gens = 1..n
      /\ \A k \in 1..n : s.gens[k].targets = TargetsAt(grid, first + k - 1)
  BY <1>1 DEF IsSlice
<1>3. /\ \A r \in 0..total : off[r] \in Nat
      /\ \A r \in RanksOf(grid) : off[r + 1] = off[r] + Len(TargetsAt(grid, r)) /\ Len(TargetsAt(grid, r)) \in Nat
      /\ \A q, r \in 0..total : q <= r => off[q] <= off[r]
  BY TargetsByRank
<1>4. RanksOf(grid) = 0..(total - 1)
  BY DEF RanksOf
<1> HIDE DEF total, count, first, next
<1>5. \A k \in 1..n : first + k - 1 \in RanksOf(grid) /\ TargetsAt(grid, first + k - 1) \in Seq(Nat)
  <2> SUFFICES ASSUME NEW k \in 1..n
               PROVE  first + k - 1 \in RanksOf(grid) /\ TargetsAt(grid, first + k - 1) \in Seq(Nat)
    OBVIOUS
  <2>1. first + k - 1 \in RanksOf(grid)
    BY <1>1, <1>4
  <2> QED BY <2>1, TargetsAreRanks
<1>6. n \in Nat \ {0}
  BY <1>1
<1>7. parts \in Seq(Seq(Nat)) /\ Len(parts) = n /\ \A k \in 1..n : parts[k] = TargetsAt(grid, first + k - 1)
  <2>1. parts = [k \in 1..n |-> s.gens[k].targets]
    BY <1>2 DEF Inner
  <2>2. \A k \in 1..n : s.gens[k].targets \in Seq(Nat)
    BY <1>2, <1>5
  <2> HIDE DEF n, parts
  <2>3. parts \in Seq(Seq(Nat)) /\ Len(parts) = n
    BY <1>6, <2>1, <2>2
  <2>4. \A k \in 1..n : parts[k] = TargetsAt(grid, first + k - 1)
    BY <1>2, <2>1
  <2> QED BY <2>3, <2>4
<1>8. Offsets(inner, parts, n)
  <2>1. \A k \in 0..n : first + k \in 0..total
    BY <1>1
  <2>2. \A k \in 0..n : inner[k] \in Nat /\ inner[k] = off[first + k] - off[first]
    <3> SUFFICES ASSUME NEW k \in 0..n PROVE inner[k] \in Nat /\ inner[k] = off[first + k] - off[first]
      OBVIOUS
    <3>1. first \in 0..total /\ first + k \in 0..total /\ first <= first + k
      BY <1>1, <2>1
    <3>2. off[first] \in Nat /\ off[first + k] \in Nat /\ off[first] <= off[first + k]
      BY <1>3, <3>1
    <3> QED BY <3>2
  <2>3. inner[0] = 0
    <3>1. first + 0 = first /\ 0 \in 0..n /\ first \in 0..total
      BY <1>1, <1>6
    <3>2. off[first] \in Nat /\ inner[0] = off[first] - off[first]
      BY <1>3, <2>2, <3>1
    <3> QED BY <3>2
  <2>4. ASSUME NEW k \in 1..n PROVE inner[k] = inner[k - 1] + Len(parts[k])
    <3>1. k \in 0..n /\ k - 1 \in 0..n /\ (first + k - 1) + 1 = first + k /\ first + (k - 1) = first + k - 1
      BY <1>1, <1>6
    <3>2. first + k - 1 \in RanksOf(grid)
      BY <1>5
    <3>3. off[first + k] = off[first + k - 1] + Len(TargetsAt(grid, first + k - 1))
      BY <1>3, <3>1, <3>2
    <3>4. parts[k] = TargetsAt(grid, first + k - 1) /\ Len(TargetsAt(grid, first + k - 1)) \in Nat
      BY <1>3, <1>7, <3>2
    <3>5. inner[k] = off[first + k] - off[first] /\ inner[k - 1] = off[first + k - 1] - off[first]
      BY <2>2, <3>1
    <3>6. off[first] \in Nat /\ off[first + k] \in Nat /\ off[first + k - 1] \in Nat
      <4>1. first \in 0..total /\ first + k \in 0..total /\ first + k - 1 \in 0..total
        BY <1>1, <1>6
      <4> QED BY <1>3, <4>1
    <3> HIDE DEF inner
    <3> QED BY <3>3, <3>4, <3>5, <3>6
  <2>5. inner \in [0..n -> Nat]
    BY <2>2
  <2> HIDE DEF inner
  <2> QED BY <2>3, <2>4, <2>5 DEF Offsets
<1> DEFINE flat == FlattenSeq(parts)
<1>9. /\ flat \in Seq(Nat) /\ Len(flat) = inner[n]
      /\ \A k \in 1..n : \A t \in 1..Len(parts[k]) : flat[inner[k - 1] + t] = parts[k][t]
  <2> HIDE DEF inner, parts, n
  <2>1. Len(parts) # 0 /\ Offsets(inner, parts, Len(parts))
    BY <1>6, <1>7, <1>8
  <2>2. parts \in Seq(Seq(Nat))
    BY <1>7
  <2>3. /\ FlattenSeq(parts) \in Seq(Nat) /\ Len(FlattenSeq(parts)) = inner[Len(parts)]
        /\ \A i \in 1..Len(parts) : \A k \in 1..Len(parts[i]) : FlattenSeq(parts)[inner[i - 1] + k] = parts[i][k]
    BY <2>1, <2>2, Flattening
  <2>4. Len(parts) = n
    BY <1>7
  <2> QED BY <2>3, <2>4
<1>10. inner[n] = off[next] - off[first]
  <2>1. n \in 0..n /\ first + n = next
    BY <1>1, <1>6
  <2> QED BY <2>1
<1>11. ASSUME NEW r \in first..(next - 1), NEW t \in 1..Len(TargetsAt(grid, r))
       PROVE  flat[off[r] - off[first] + t] = TargetsAt(grid, r)[t]
  <2> DEFINE k == r - first + 1
  <2>1. k \in 1..n /\ k - 1 \in 0..n /\ first + k - 1 = r /\ first + (k - 1) = r
    BY <1>1
  <2>2. inner[k - 1] = off[r] - off[first]
    BY <2>1
  <2>3. parts[k] = TargetsAt(grid, r)
    BY <1>7, <2>1
  <2> HIDE DEF inner, parts, n, k, flat
  <2> QED BY <1>9, <2>1, <2>2, <2>3
<1> HIDE DEF parts, inner, flat
<1> QED BY <1>9, <1>10, <1>11 DEF flat, parts, first, next

(* The targets of every rank are found behind its offset.                  *)
LEMMA FlatIs ==
  ASSUME Laid, NEW off, RankOffsets(off), NEW blocks, DOMAIN blocks = 1..CountOf(grid),
         \A b \in 1..CountOf(grid) : IsSlice(grid, b - 1, blocks[b])
  PROVE  \A r \in RanksOf(grid) : \A t \in 1..Len(TargetsAt(grid, r)) :
           FlatTargets(blocks)[off[r] + t] = TargetsAt(grid, r)[t]
<1> DEFINE count == CountOf(grid)
           total == On(grid)!Total
           first(w) == FirstOf(grid, w)
           parts == [b \in 1..count |-> FlattenSeq(Inner(blocks[b]))]
           outer == [b \in 0..count |-> off[first(b)]]
<1>1. /\ count \in Nat \ {0} /\ total \in Nat \ {0}
      /\ first(0) = 0 /\ first(count) = total
      /\ \A w \in 0..count : first(w) \in 0..total
      /\ \A w \in 0..(count - 1) : NextOf(grid, w) = first(w + 1) /\ first(w) < first(w + 1)
  <2>1. count \in Nat \ {0} /\ total \in Nat \ {0}
    BY LaidIs, Tiling
  <2>2. /\ first(0) = 0 /\ first(count) = total
        /\ \A w \in 0..count : first(w) \in Nat
        /\ \A w \in 0..(count - 1) : NextOf(grid, w) = first(w + 1)
        /\ \A v, w \in 0..count : v < w => first(v) < first(w)
    BY LaidIs, SlicesFollow
  <2> HIDE DEF count, total, first
  <2>3. \A w \in 0..count : first(w) \in 0..total
    <3> SUFFICES ASSUME NEW w \in 0..count PROVE first(w) \in 0..total
      OBVIOUS
    <3>1. count \in 0..count /\ (w < count \/ w = count)
      BY <2>1
    <3>2. first(w) <= total
      BY <2>1, <2>2, <3>1
    <3> QED BY <2>1, <2>2, <3>2
  <2>4. ASSUME NEW w \in 0..(count - 1) PROVE first(w) < first(w + 1)
    <3>1. w \in 0..count /\ w + 1 \in 0..count /\ w < w + 1
      BY <2>1
    <3> QED BY <2>2, <3>1
  <2> QED BY <2>1, <2>2, <2>3, <2>4
<1>2. /\ \A r \in 0..total : off[r] \in Nat
      /\ off[0] = 0
      /\ \A r \in RanksOf(grid) : off[r + 1] = off[r] + Len(TargetsAt(grid, r)) /\ Len(TargetsAt(grid, r)) \in Nat
      /\ \A q, r \in 0..total : q <= r => off[q] <= off[r]
  BY TargetsByRank
<1>3. FlatTargets(blocks) = FlattenSeq(parts)
  BY DEF FlatTargets, Inner
<1>4. ASSUME NEW b \in 1..count
      PROVE  /\ parts[b] \in Seq(Nat) /\ Len(parts[b]) = off[first(b)] - off[first(b - 1)]
             /\ \A r \in first(b - 1)..(first(b) - 1) : \A t \in 1..Len(TargetsAt(grid, r)) :
                  parts[b][off[r] - off[first(b - 1)] + t] = TargetsAt(grid, r)[t]
  <2>1. b - 1 \in 0..(count - 1) /\ (b - 1) + 1 = b
    BY <1>1
  <2>2. IsSlice(grid, b - 1, blocks[b])
    OBVIOUS
  <2>3. parts[b] = FlattenSeq(Inner(blocks[b]))
    OBVIOUS
  <2> HIDE DEF parts
  <2> QED BY <2>1, <2>2, <2>3, SliceFlattens
<1> HIDE DEF count, total, first
<1>5. parts \in Seq(Seq(Nat)) /\ Len(parts) = count
  <2>1. \A b \in 1..count : FlattenSeq(Inner(blocks[b])) \in Seq(Nat)
    BY <1>4
  <2> QED BY <1>1, <2>1
<1> HIDE DEF parts
<1>6. Offsets(outer, parts, count)
  <2>1. \A b \in 0..count : outer[b] = off[first(b)] /\ outer[b] \in Nat
    BY <1>1, <1>2
  <2>2. outer \in [0..count -> Nat]
    BY <2>1
  <2> HIDE DEF outer
  <2>3. outer[0] = 0
    BY <1>1, <1>2, <2>1
  <2>4. ASSUME NEW b \in 1..count PROVE outer[b] = outer[b - 1] + Len(parts[b])
    <3>1. b \in 0..count /\ b - 1 \in 0..count
      BY <1>1
    <3>2. outer[b] \in Nat /\ outer[b - 1] \in Nat /\ Len(parts[b]) = outer[b] - outer[b - 1]
      BY <1>4, <2>1, <3>1
    <3> QED BY <3>2
  <2> QED BY <2>2, <2>3, <2>4 DEF Offsets
<1>7. \A b \in 1..count : \A j \in 1..Len(parts[b]) : FlattenSeq(parts)[outer[b - 1] + j] = parts[b][j]
  <2> HIDE DEF outer
  <2>1. Len(parts) # 0 /\ Offsets(outer, parts, Len(parts)) /\ parts \in Seq(Seq(Nat))
    BY <1>1, <1>5, <1>6
  <2>2. /\ FlattenSeq(parts) \in Seq(Nat) /\ Len(FlattenSeq(parts)) = outer[Len(parts)]
        /\ \A i \in 1..Len(parts) : \A k \in 1..Len(parts[i]) : FlattenSeq(parts)[outer[i - 1] + k] = parts[i][k]
    BY <2>1, Flattening
  <2> QED BY <1>5, <2>2
<1>8. ASSUME NEW r \in RanksOf(grid), NEW t \in 1..Len(TargetsAt(grid, r))
      PROVE  FlattenSeq(parts)[off[r] + t] = TargetsAt(grid, r)[t]
  <2>1. PICK w \in 0..(count - 1) : first(w) <= r /\ r < first(w + 1)
    <3>1. \E w \in 0..(count - 1) : FirstOf(grid, w) <= r /\ r < NextOf(grid, w)
      BY LaidIs, Tiling DEF count
    <3> QED BY <1>1, <3>1 DEF first
  <2> DEFINE a == first(w)
             c == first(w + 1)
             j == off[r] - off[a] + t
             l == Len(TargetsAt(grid, r))
  <2>2. w + 1 \in 1..count /\ (w + 1) - 1 = w /\ w \in 0..count /\ w + 1 \in 0..count
    BY <1>1
  <2>3. a \in 0..total /\ c \in 0..total /\ r \in 0..total /\ r + 1 \in 0..total /\ a <= r /\ r + 1 <= c
    <3>1. first(w) \in 0..total /\ first(w + 1) \in 0..total
      BY <1>1, <2>2
    <3>2. r \in 0..(total - 1)
      BY DEF RanksOf, total
    <3> QED BY <1>1, <2>1, <3>1, <3>2
  <2> HIDE DEF a, c, l
  <2>4. /\ off[a] \in Nat /\ off[c] \in Nat /\ off[r] \in Nat /\ off[r + 1] \in Nat
        /\ off[a] <= off[r] /\ off[r + 1] <= off[c] /\ off[r + 1] = off[r] + l /\ l \in Nat
    BY <1>2, <2>3 DEF l
  <2>5. t \in 1..l
    BY DEF l
  <2>6. Len(parts[w + 1]) = off[c] - off[a]
    BY <1>4, <2>2 DEF a, c
  <2>7. j \in 1..Len(parts[w + 1]) /\ off[a] + j = off[r] + t
    BY <2>4, <2>5, <2>6
  <2>8. r \in a..(c - 1)
    BY <2>3
  <2>9. parts[w + 1][j] = TargetsAt(grid, r)[t]
    BY <1>4, <2>2, <2>8 DEF a, c
  <2>10. outer[(w + 1) - 1] = off[a]
    BY <2>2 DEF a
  <2> HIDE DEF j, outer
  <2>11. FlattenSeq(parts)[outer[(w + 1) - 1] + j] = parts[w + 1][j]
    BY <1>7, <2>2, <2>7
  <2> QED BY <2>7, <2>9, <2>10, <2>11
<1> QED BY <1>3, <1>8

(* The offsets of the merge are those of the ranks.                        *)
Accumulates(f, n, gen) == f = [r \in 0..n |-> IF r = 0 THEN 0 ELSE f[r - 1] + Len(gen[r - 1].targets)]
LEMMA OffsetsAccumulate ==
  ASSUME Laid, NEW gen, \A r \in RanksOf(grid) : gen[r].targets = TargetsAt(grid, r)
  PROVE  RankOffsets(CHOOSE f : Accumulates(f, On(grid)!Total, gen))
<1> DEFINE n == On(grid)!Total
           f == CHOOSE it : Accumulates(it, n, gen)
           step == [iq \in (1..n) \X Nat |-> iq[2] + Len(TargetsAt(grid, iq[1] - 1))]
<1>1. n \in Nat \ {0} /\ RanksOf(grid) = 0..(n - 1)
  BY LaidIs, Tiling DEF RanksOf
<1> HIDE DEF n
<1>2. \A i \in 1..n : /\ i - 1 \in RanksOf(grid) /\ Len(TargetsAt(grid, i - 1)) \in Nat
                      /\ gen[i - 1].targets = TargetsAt(grid, i - 1)
  <2> SUFFICES ASSUME NEW i \in 1..n
               PROVE  /\ i - 1 \in RanksOf(grid) /\ Len(TargetsAt(grid, i - 1)) \in Nat
                      /\ gen[i - 1].targets = TargetsAt(grid, i - 1)
    OBVIOUS
  <2>1. i - 1 \in RanksOf(grid)
    BY <1>1
  <2> QED BY <2>1, TargetsAreRanks
<1>3. step \in [(1..n) \X Nat -> Nat]
  <2>1. \A iq \in (1..n) \X Nat : iq[2] + Len(TargetsAt(grid, iq[1] - 1)) \in Nat
    BY <1>2
  <2> QED BY <2>1
<1>4. PICK g \in [0..n -> Nat] : Carried(g, n, 0, step)
  <2> HIDE DEF step
  <2>1. 0 \in Nat /\ n \in Nat
    BY <1>1
  <2> QED BY <1>3, <2>1, Iterates
<1>5. g[0] = 0 /\ \A i \in 1..n : g[i] = g[i - 1] + Len(TargetsAt(grid, i - 1))
  <2>1. g[0] = 0
    BY <1>4 DEF Carried
  <2>2. ASSUME NEW i \in 1..n PROVE g[i] = g[i - 1] + Len(TargetsAt(grid, i - 1))
    <3>1. g[i] = step[<<i, g[i - 1]>>]
      BY <1>4 DEF Carried
    <3>2. i - 1 \in 0..n
      BY <1>1
    <3>3. g[i - 1] \in Nat
      BY <3>2
    <3> QED BY <3>1, <3>3
  <2> QED BY <2>1, <2>2
<1> HIDE DEF step
<1>6. Accumulates(g, n, gen)
  <2>1. \A r \in 0..n : g[r] = IF r = 0 THEN 0 ELSE g[r - 1] + Len(gen[r - 1].targets)
    <3> SUFFICES ASSUME NEW r \in 0..n PROVE g[r] = IF r = 0 THEN 0 ELSE g[r - 1] + Len(gen[r - 1].targets)
      OBVIOUS
    <3>1. CASE r = 0
      BY <1>5, <3>1
    <3>2. CASE r # 0
      <4>1. r \in 1..n
        BY <1>1, <3>2
      <4> QED BY <1>2, <1>5, <3>2, <4>1
    <3> QED BY <3>1, <3>2
  <2> QED BY <2>1 DEF Accumulates
<1>7. Accumulates(f, n, gen)
  BY <1>6
<1> HIDE DEF f
<1>8. \A r \in 0..n : f[r] = IF r = 0 THEN 0 ELSE f[r - 1] + Len(gen[r - 1].targets)
  <2>1. f = [r \in 0..n |-> IF r = 0 THEN 0 ELSE f[r - 1] + Len(gen[r - 1].targets)]
    BY <1>7 DEF Accumulates
  <2> QED BY <2>1
<1>9. f[0] = 0 /\ \A i \in 1..n : f[i] = f[i - 1] + Len(TargetsAt(grid, i - 1))
  <2>1. f[0] = 0
    BY <1>1, <1>8
  <2>2. ASSUME NEW i \in 1..n PROVE f[i] = f[i - 1] + Len(TargetsAt(grid, i - 1))
    <3>1. i \in 0..n /\ i # 0
      BY <1>1
    <3> QED BY <1>2, <1>8, <3>1
  <2> QED BY <2>1, <2>2
<1> DEFINE S == {r \in Nat : r <= n => f[r] \in Nat}
<1>10. S = Nat
  <2>1. S \in SUBSET Nat /\ 0 \in S
    BY <1>9
  <2>2. ASSUME NEW r \in S PROVE r + 1 \in S
    <3> SUFFICES ASSUME r + 1 <= n PROVE f[r + 1] \in Nat
      OBVIOUS
    <3>1. r + 1 \in 1..n /\ (r + 1) - 1 = r /\ f[r] \in Nat
      BY <1>1
    <3>2. f[r + 1] = f[r] + Len(TargetsAt(grid, r)) /\ Len(TargetsAt(grid, r)) \in Nat
      BY <1>2, <1>9, <3>1
    <3> QED BY <3>1, <3>2
  <2> HIDE DEF S
  <2> QED BY <2>1, <2>2, Counting
<1>11. f \in [0..n -> Nat]
  <2>1. \A r \in 0..n : f[r] \in Nat
    <3> SUFFICES ASSUME NEW r \in 0..n PROVE f[r] \in Nat
      OBVIOUS
    <3>1. r \in S /\ r <= n
      BY <1>1, <1>10
    <3> QED BY <3>1
  <2>2. f = [r \in 0..n |-> IF r = 0 THEN 0 ELSE f[r - 1] + Len(gen[r - 1].targets)]
    BY <1>7 DEF Accumulates
  <2>3. f = [r \in 0..n |-> f[r]]
    BY <2>2
  <2> QED BY <2>1, <2>3
<1>12. \A i \in 1..n : TargetsBy(n)[i] = TargetsAt(grid, i - 1)
  BY DEF TargetsBy
<1>13. Offsets(f, TargetsBy(n), n)
  BY <1>9, <1>11, <1>12 DEF Offsets
<1> QED BY <1>13 DEF RankOffsets, n, f

-----------------------------------------------------------------------------
(* The grid as a value, in the terms of the facts.                         *)
LEMMA FactsOnTheGrid ==
  /\ \A x : /\ Facts!RankOf(x) = On(grid)!RankOf(x) /\ Facts!Unrank(x) = On(grid)!Unrank(x)
            /\ Facts!Differential(x) = On(grid)!Differential(x) /\ G!Differential(x) = On(grid)!Differential(x)
            /\ Facts!Maslov(x) = On(grid)!Maslov(x) /\ Facts!Alexander(x) = On(grid)!Alexander(x)
  /\ RanksOf(grid) = 0..(Facts!Total - 1)
<1>1. \A x : Facts!RankOf(x) = On(grid)!RankOf(x)
  BY DEF Facts!RankOf, Facts!SmallerUnused, Facts!Factorial, Facts!Cardinality,
         On!RankOf, On!SmallerUnused, On!Factorial, On!Cardinality
<1>2. \A x : Facts!Unrank(x) = On(grid)!Unrank(x)
  BY SameRanks, OnTheGrid
<1>3. \A x : Facts!Differential(x) = On(grid)!Differential(x)
  BY DEF Facts!Differential, Facts!ReduceMod2,
         Facts!TargetsOf, Facts!Rectangles, Facts!Empty, Facts!Avoids, Facts!Height, Facts!Width,
         Facts!Odd, Facts!Cardinality, Facts!MarkerCells, Facts!OCells, Facts!Rows, Facts!Transpose,
         On!Differential, On!ReduceMod2, On!TargetsOf, On!Rectangles, On!Empty, On!Avoids, On!Height, On!Width,
         On!Odd, On!Cardinality, On!MarkerCells, On!OCells, On!Rows, On!Transpose
<1>4. \A x : G!Differential(x) = On(grid)!Differential(x)
  BY <1>3, SameDifferentials
<1>5. \A x : Facts!Maslov(x) = On(grid)!Maslov(x)
  BY DEF Facts!Maslov, Facts!MaslovRel, Facts!Sw, Facts!Points, Facts!Centres, Facts!Rows, Facts!Cardinality,
         On!Maslov, On!MaslovRel, On!Sw, On!Points, On!Centres, On!Rows, On!Cardinality
<1>6. \A x : Facts!Alexander(x) = On(grid)!Alexander(x)
  BY DEF Facts!Alexander, Facts!MaslovRel, Facts!Sw, Facts!Points, Facts!Centres, Facts!Rows, Facts!Cardinality,
         On!Alexander, On!MaslovRel, On!Sw, On!Points, On!Centres, On!Rows, On!Cardinality
<1>7. RanksOf(grid) = 0..(Facts!Total - 1)
  BY DEF RanksOf, On!Total, On!Factorial, Facts!Total, Facts!Factorial
<1> QED BY <1>1, <1>2, <1>3, <1>4, <1>5, <1>6, <1>7

(* What the merge reads behind the offsets of a rank is the differential.  *)
Fetched(m, r) == {m.flat[k] : k \in (m.offset[r] + 1)..m.offset[r + 1]}
BoundaryRanks(g, r) == {On(g)!RankOf(y) : y \in On(g)!Differential(On(g)!Unrank(r))}

LEMMA MergeFetches ==
  ASSUME Laid, NEW slices, NEW order \in Orders(SliceKeys), DOMAIN slices = DOMAIN order,
         \A i \in DOMAIN order : IsSlice(grid, order[i][2], slices[i]),
         NEW r \in RanksOf(grid)
  PROVE  Fetched(GenerationOf(slices), r) = BoundaryRanks(grid, r)
<1> DEFINE m == GenerationOf(slices)
           n == On(grid)!Total
           off == CHOOSE f : Accumulates(f, n, m.gen)
           blocks == BlocksByStart(slices)
           targets == TargetsAt(grid, r)
<1>1. m.total = n /\ \A q \in RanksOf(grid) : m.gen[q].targets = TargetsAt(grid, q)
  BY LaidIs, GenerationIsWhole
<1>2. m.flat = FlatTargets(blocks)
  BY DEF GenerationOf
<1>3. m.offset = Table(CHOOSE f : Accumulates(f, m.total, m.gen))
  BY DEF GenerationOf, Accumulates
<1>4. m.offset = off
  BY <1>1, <1>3, TableIs
<1>5. RankOffsets(off)
  <2> DEFINE gen == m.gen
  <2>1. \A q \in RanksOf(grid) : gen[q].targets = TargetsAt(grid, q)
    BY <1>1
  <2> HIDE DEF gen
  <2>2. RankOffsets(CHOOSE f : Accumulates(f, n, gen))
    BY <2>1, OffsetsAccumulate
  <2> QED BY <2>2 DEF gen
<1> HIDE DEF off, m, n
<1>6. \A t \in 1..Len(targets) : m.flat[off[r] + t] = targets[t]
  <2>1. /\ DOMAIN blocks = 1..CountOf(grid)
        /\ \A b \in 1..CountOf(grid) : IsSlice(grid, b - 1, blocks[b])
    BY LaidIs, SlicesAreSorted
  <2> HIDE DEF blocks
  <2>2. \A q \in RanksOf(grid) : \A t \in 1..Len(TargetsAt(grid, q)) :
          FlatTargets(blocks)[off[q] + t] = TargetsAt(grid, q)[t]
    BY <1>5, <2>1, FlatIs
  <2>3. \A t \in 1..Len(targets) : FlatTargets(blocks)[off[r] + t] = targets[t]
    BY <2>2
  <2> QED BY <1>2, <2>3
<1>7. off[r] \in Nat /\ Len(targets) \in Nat /\ off[r + 1] = off[r] + Len(targets)
  <2>1. r \in 0..On(grid)!Total
    <3>1. On(grid)!Total \in Nat
      BY LaidIs, Tiling
    <3> QED BY <3>1 DEF RanksOf
  <2> QED BY <1>5, <2>1, TargetsByRank
<1>8. {targets[t] : t \in 1..Len(targets)} = BoundaryRanks(grid, r)
  <2>1. {targets[t] : t \in 1..Len(targets)} = {Facts!RankOf(y) : y \in Facts!Differential(On(grid)!Unrank(r))}
    BY TargetsAreRanks
  <2> QED BY <2>1, FactsOnTheGrid DEF BoundaryRanks
<1> HIDE DEF targets
<1>9. {m.flat[k] : k \in (off[r] + 1)..off[r + 1]} = {targets[t] : t \in 1..Len(targets)}
  <2> DEFINE a == off[r]
             l == Len(targets)
             F == m.flat
  <2>1. a \in Nat /\ l \in Nat /\ off[r + 1] = a + l /\ \A t \in 1..l : F[a + t] = targets[t]
    BY <1>6, <1>7
  <2> HIDE DEF a, l, F
  <2>2. \A k \in (a + 1)..(a + l) : k - a \in 1..l /\ a + (k - a) = k
    BY <2>1
  <2>3. \A t \in 1..l : a + t \in (a + 1)..(a + l)
    BY <2>1
  <2>4. {F[k] : k \in (a + 1)..(a + l)} = {targets[t] : t \in 1..l}
    <3>1. \A k \in (a + 1)..(a + l) : F[k] = targets[k - a]
      BY <2>1, <2>2
    <3> QED BY <2>1, <2>2, <2>3, <3>1
  <2> QED BY <2>1, <2>4 DEF a, l, F
<1> QED BY <1>4, <1>8, <1>9 DEF Fetched, m

(* Ranks and generators name each other, in lexicographic order, and the   *)
(* boundary of a rank lies one degree up in its own grading.               *)
LEMMA RanksAndGenerators ==
  ASSUME Laid
  PROVE  /\ \A r \in RanksOf(grid) : /\ On(grid)!Unrank(r) \in Facts!Generators
                                     /\ On(grid)!RankOf(On(grid)!Unrank(r)) = r
         /\ \A x \in Facts!Generators : /\ On(grid)!RankOf(x) \in RanksOf(grid)
                                        /\ On(grid)!Unrank(On(grid)!RankOf(x)) = x
         /\ \A x, y \in Facts!Generators : Facts!Before(x, y) <=> On(grid)!RankOf(x) < On(grid)!RankOf(y)
<1>1. \A r \in RanksOf(grid) : /\ On(grid)!Unrank(r) \in Facts!Generators
                               /\ On(grid)!RankOf(On(grid)!Unrank(r)) = r
  <2> SUFFICES ASSUME NEW r \in RanksOf(grid)
               PROVE  On(grid)!Unrank(r) \in Facts!Generators /\ On(grid)!RankOf(On(grid)!Unrank(r)) = r
    OBVIOUS
  <2>1. r \in 0..(Facts!Total - 1)
    BY FactsOnTheGrid
  <2>2. Facts!Unrank(r) \in Facts!Generators /\ Facts!RankOf(Facts!Unrank(r)) = r
    BY <2>1, LaidIs, Facts!RanksNameTheGenerators
  <2> QED BY <2>2, FactsOnTheGrid
<1>2. ASSUME NEW x \in Facts!Generators
      PROVE  On(grid)!RankOf(x) \in RanksOf(grid) /\ On(grid)!Unrank(On(grid)!RankOf(x)) = x
  <2>1. Facts!RankOf(x) \in 0..(Facts!Total - 1)
    BY LaidIs, Facts!RankIsBelow
  <2>2. Facts!Unrank(Facts!RankOf(x)) = x
    BY LaidIs, Facts!UnrankUndoesRank
  <2> QED BY <2>1, <2>2, FactsOnTheGrid
<1>3. ASSUME NEW x \in Facts!Generators, NEW y \in Facts!Generators
      PROVE  Facts!Before(x, y) <=> On(grid)!RankOf(x) < On(grid)!RankOf(y)
  <2>1. Facts!Before(x, y) <=> Facts!RankOf(x) < Facts!RankOf(y)
    BY LaidIs, Facts!RanksInOrder
  <2> QED BY <2>1, FactsOnTheGrid
<1> QED BY <1>1, <1>2, <1>3

DegreeAt(g, r) == -MaslovAt(g, r)
LEMMA BoundariesAreGraded ==
  ASSUME Laid, NEW r \in RanksOf(grid), NEW y \in On(grid)!Differential(On(grid)!Unrank(r))
  PROVE  /\ y \in Facts!Generators /\ On(grid)!RankOf(y) \in RanksOf(grid)
         /\ AlexanderAt(grid, On(grid)!RankOf(y)) = AlexanderAt(grid, r)
         /\ DegreeAt(grid, On(grid)!RankOf(y)) = DegreeAt(grid, r) + 1
<1> DEFINE x == On(grid)!Unrank(r)
           q == On(grid)!RankOf(y)
<1>1. x \in Facts!Generators
  BY RanksAndGenerators
<1>2. y \in Facts!Differential(x)
  BY FactsOnTheGrid
<1>3. y \in Facts!Generators /\ Facts!Maslov(y) = Facts!Maslov(x) - 1 /\ Facts!Alexander(y) = Facts!Alexander(x)
  BY <1>1, <1>2, LaidIs, Facts!DifferentialsRespectGradings
<1>4. q \in RanksOf(grid) /\ On(grid)!Unrank(q) = y
  BY <1>3, RanksAndGenerators
<1>5. /\ AlexanderAt(grid, q) = Facts!Alexander(y) /\ MaslovAt(grid, q) = Facts!Maslov(y)
      /\ AlexanderAt(grid, r) = Facts!Alexander(x) /\ MaslovAt(grid, r) = Facts!Maslov(x)
  BY <1>4, FactsOnTheGrid DEF AlexanderAt, MaslovAt
<1>6. Facts!Maslov(x) \in Int
  <2>1. x \in [Facts!Rows -> Facts!Rows]
    BY <1>1 DEF Facts!Generators
  <2> QED BY <2>1, LaidIs, Facts!GradingsAreIntegers DEF Facts!Maslov
<1> HIDE DEF x, q
<1>7. DegreeAt(grid, q) = DegreeAt(grid, r) + 1
  BY <1>3, <1>5, <1>6 DEF DegreeAt
<1> QED BY <1>3, <1>4, <1>5, <1>7 DEF q

(* The complexes of a grid by rank: what the merge builds and what the     *)
(* definitions say both come down to.                                      *)
BlockAt(g, a, d) == {k \in RanksOf(g) : AlexanderAt(g, k) = a /\ DegreeAt(g, k) = d}
PlaceAt(g, r) == Cardinality({s \in BlockAt(g, AlexanderAt(g, r), DegreeAt(g, r)) : s < r})
ColumnAt(g, r) == {PlaceAt(g, q) : q \in BoundaryRanks(g, r)}
ColumnsAt(g, a, d) ==
  [k \in 1..Cardinality(BlockAt(g, a, d)) |-> ColumnAt(g, CHOOSE r \in BlockAt(g, a, d) : PlaceAt(g, r) = k - 1)]
DegreesAt(g, a) == {DegreeAt(g, r) : r \in {s \in RanksOf(g) : AlexanderAt(g, s) = a}}
ComplexAt(g, a) ==
  [dims |-> [d \in DegreesAt(g, a) |-> Cardinality(BlockAt(g, a, d))],
   maps |-> NonZero([d \in DegreesAt(g, a) |-> ColumnsAt(g, a, d)])]
ComplexesByRank(g) == [a \in {AlexanderAt(g, r) : r \in RanksOf(g)} |-> ComplexAt(g, a)]

LEMMA PricedDimensions ==
  CountsOf(grid) = [a \in DOMAIN ComplexesByRank(grid) |-> ComplexesByRank(grid)[a].dims]
<1> DEFINE S == {AlexanderAt(grid, r) : r \in RanksOf(grid)}
<1>1. DOMAIN ComplexesByRank(grid) = S /\ \A a \in S : ComplexesByRank(grid)[a] = ComplexAt(grid, a)
  BY DEF ComplexesByRank
<1>2. \A a : ComplexAt(grid, a).dims = [d \in DegreesAt(grid, a) |-> Cardinality(BlockAt(grid, a, d))]
  BY DEF ComplexAt
<1>3. CountsOf(grid) = [a \in S |-> [d \in DegreesAt(grid, a) |-> Cardinality(BlockAt(grid, a, d))]]
  BY DEF CountsOf, DegreesAt, BlockAt, DegreeAt
<1> HIDE DEF S
<1> QED BY <1>1, <1>2, <1>3

(* A block has as many places as members, and each is taken once.          *)
LEMMA BlocksAreFilled ==
  ASSUME Laid, NEW a, NEW d
  PROVE  /\ \A k \in 1..Cardinality(BlockAt(grid, a, d)) : \E r \in BlockAt(grid, a, d) : PlaceAt(grid, r) = k - 1
         /\ \A q, r \in BlockAt(grid, a, d) : PlaceAt(grid, q) = PlaceAt(grid, r) => q = r
         /\ IsFiniteSet(BlockAt(grid, a, d)) /\ Cardinality(BlockAt(grid, a, d)) \in Nat
<1> DEFINE S == BlockAt(grid, a, d)
<1>1. S \in SUBSET Nat /\ IsFiniteSet(S)
  <2>1. On(grid)!Total \in Nat
    BY LaidIs, Tiling
  <2>2. RanksOf(grid) \in SUBSET Nat /\ IsFiniteSet(RanksOf(grid))
    <3>1. 0 \in Int /\ On(grid)!Total - 1 \in Int
      BY <2>1
    <3> QED BY <2>1, <3>1, FS_Interval DEF RanksOf
  <2>3. S \subseteq RanksOf(grid)
    BY DEF BlockAt
  <2> QED BY <2>2, <2>3, FS_Subset
<1>2. \A r \in S : PlaceAt(grid, r) = Facts!Place(S, r)
  <2> SUFFICES ASSUME NEW r \in S PROVE PlaceAt(grid, r) = Facts!Place(S, r)
    OBVIOUS
  <2>1. AlexanderAt(grid, r) = a /\ DegreeAt(grid, r) = d
    BY DEF BlockAt
  <2>2. PlaceAt(grid, r) = Cardinality({s \in S : s < r})
    BY <2>1 DEF PlaceAt
  <2>3. Facts!Place(S, r) = Facts!Cardinality({s \in S : s < r})
    BY DEF Facts!Place, Facts!Lower
  <2> HIDE DEF S
  <2> QED BY <2>2, <2>3, SameCounts
<1> HIDE DEF S
<1>3. Cardinality(S) \in Nat /\ Facts!Cardinality(S) = Cardinality(S)
  BY <1>1, FS_CardinalityType, SameCounts
<1>4. Facts!IsFiniteSet(S)
  BY <1>1 DEF Facts!IsFiniteSet, IsFiniteSet
<1>5. ASSUME NEW k \in 1..Cardinality(S) PROVE \E r \in S : PlaceAt(grid, r) = k - 1
  <2>1. k - 1 \in Nat /\ k - 1 < Facts!Cardinality(S)
    BY <1>3
  <2>2. \E r \in S : Facts!Place(S, r) = k - 1
    BY <1>1, <1>4, <2>1, Facts!PlacesAreFilled
  <2> QED BY <1>2, <2>2
<1>6. ASSUME NEW q \in S, NEW r \in S, PlaceAt(grid, q) = PlaceAt(grid, r) PROVE q = r
  <2>1. Facts!Place(S, q) = Facts!Place(S, r)
    BY <1>2, <1>6
  <2> QED BY <1>1, <1>4, <2>1, Facts!PlacesGrow
<1> QED BY <1>1, <1>3, <1>5, <1>6 DEF S

(* The merge builds them.                                                  *)
LEMMA MergeBuilds ==
  ASSUME Laid, NEW m, m.total = On(grid)!Total,
         \A r \in RanksOf(grid) : /\ m.gen[r].alexander = AlexanderAt(grid, r)
                                  /\ m.gen[r].maslov = MaslovAt(grid, r)
                                  /\ Fetched(m, r) = BoundaryRanks(grid, r)
  PROVE  BuildComplexes(m) = ComplexesByRank(grid)
<1> DEFINE R == RanksOf(grid)
           ranks == 0..(m.total - 1)
           al == Table([r \in ranks |-> m.gen[r].alexander])
           de == Table([r \in ranks |-> -m.gen[r].maslov])
           block(a, d) == {r \in ranks : al[r] = a /\ de[r] = d}
           position == Table([r \in ranks |-> Cardinality({s \in block(al[r], de[r]) : s < r})])
           column == Table([r \in ranks |->
                       {position[m.flat[k]] : k \in {i \in (m.offset[r] + 1)..m.offset[r + 1] :
                                                        de[m.flat[i]] = de[r] + 1}}])
           columns(S) == [k \in 1..Cardinality(S) |-> column[CHOOSE r \in S : position[r] = k - 1]]
           degrees(a) == {de[r] : r \in {s \in ranks : al[s] = a}}
           dims(a) == [d \in degrees(a) |-> Cardinality(block(a, d))]
           maps(a) == NonZero(Table([d \in degrees(a) |-> columns(block(a, d))]))
<1>1. BuildComplexes(m) = [a \in {al[r] : r \in ranks} |-> [dims |-> dims(a), maps |-> maps(a)]]
  BY DEF BuildComplexes
<1>2. ranks = R
  BY DEF RanksOf
<1>3. \A r \in R : al[r] = AlexanderAt(grid, r) /\ de[r] = DegreeAt(grid, r)
  <2>1. al = [r \in ranks |-> m.gen[r].alexander] /\ de = [r \in ranks |-> -m.gen[r].maslov]
    BY TableIs
  <2> QED BY <1>2, <2>1 DEF DegreeAt
<1> HIDE DEF al, de
<1>4. \A a, d : block(a, d) = BlockAt(grid, a, d)
  <2> SUFFICES ASSUME NEW a, NEW d PROVE block(a, d) = BlockAt(grid, a, d)
    OBVIOUS
  <2> HIDE DEF ranks
  <2> QED BY <1>2, <1>3 DEF BlockAt
<1>5. \A r \in R : position[r] = PlaceAt(grid, r)
  <2>1. position = [r \in ranks |-> Cardinality({s \in block(al[r], de[r]) : s < r})]
    BY TableIs
  <2> HIDE DEF position, ranks, block
  <2>2. \A r \in R : position[r] = Cardinality({s \in block(al[r], de[r]) : s < r})
    BY <1>2, <2>1
  <2> QED BY <1>3, <1>4, <2>2 DEF PlaceAt
<1> HIDE DEF position, block
<1>6. ASSUME NEW r \in R PROVE column[r] = ColumnAt(grid, r)
  <2> DEFINE K == (m.offset[r] + 1)..m.offset[r + 1]
  <2>1. column = [q \in ranks |-> {position[m.flat[k]] : k \in {i \in (m.offset[q] + 1)..m.offset[q + 1] :
                                                                  de[m.flat[i]] = de[q] + 1}}]
    BY TableIs
  <2>2. column[r] = {position[m.flat[k]] : k \in {i \in K : de[m.flat[i]] = de[r] + 1}}
    <3> HIDE DEF column, ranks
    <3> QED BY <1>2, <2>1
  <2>3. {m.flat[k] : k \in K} = BoundaryRanks(grid, r)
    BY DEF Fetched
  <2>4. \A q \in BoundaryRanks(grid, r) : q \in R /\ DegreeAt(grid, q) = DegreeAt(grid, r) + 1
    BY BoundariesAreGraded DEF BoundaryRanks
  <2> HIDE DEF column, ranks, K
  <2>5. \A k \in K : m.flat[k] \in BoundaryRanks(grid, r)
    BY <2>3
  <2>6. {i \in K : de[m.flat[i]] = de[r] + 1} = K
    BY <1>3, <2>4, <2>5
  <2>7. column[r] = {PlaceAt(grid, m.flat[k]) : k \in K}
    BY <1>5, <2>2, <2>4, <2>5, <2>6
  <2> QED BY <2>3, <2>7 DEF ColumnAt
<1> HIDE DEF column
<1>7. \A a, d : columns(block(a, d)) = ColumnsAt(grid, a, d)
  <2> SUFFICES ASSUME NEW a, NEW d PROVE columns(block(a, d)) = ColumnsAt(grid, a, d)
    OBVIOUS
  <2> DEFINE S == BlockAt(grid, a, d)
             c(k) == CHOOSE r \in S : position[r] = k - 1
             e(k) == CHOOSE r \in S : PlaceAt(grid, r) = k - 1
  <2>1. S \subseteq R
    BY DEF BlockAt
  <2>2. \A k \in 1..Cardinality(S) : c(k) = e(k) /\ e(k) \in R
    <3> SUFFICES ASSUME NEW k \in 1..Cardinality(S) PROVE c(k) = e(k) /\ e(k) \in R
      OBVIOUS
    <3>1. \E r \in S : PlaceAt(grid, r) = k - 1
      BY BlocksAreFilled
    <3> HIDE DEF S
    <3>2. e(k) \in S
      BY <3>1
    <3>3. \A r \in S : position[r] = k - 1 <=> PlaceAt(grid, r) = k - 1
      BY <1>5, <2>1
    <3> QED BY <2>1, <3>2, <3>3
  <2>3. columns(S) = [k \in 1..Cardinality(S) |-> column[c(k)]]
    OBVIOUS
  <2>4. ColumnsAt(grid, a, d) = [k \in 1..Cardinality(S) |-> ColumnAt(grid, e(k))]
    BY DEF ColumnsAt
  <2> HIDE DEF S, c, e, columns, R
  <2>5. \A k \in 1..Cardinality(S) : column[c(k)] = ColumnAt(grid, e(k))
    BY <1>6, <2>2
  <2>6. columns(S) = ColumnsAt(grid, a, d)
    BY <2>3, <2>4, <2>5
  <2>7. block(a, d) = S
    BY <1>4 DEF S
  <2> QED BY <2>6, <2>7
<1> HIDE DEF columns
<1>8. \A a : degrees(a) = DegreesAt(grid, a)
  <2> HIDE DEF ranks
  <2> QED BY <1>2, <1>3 DEF DegreesAt
<1> HIDE DEF degrees
<1>9. \A a : dims(a) = ComplexAt(grid, a).dims /\ maps(a) = ComplexAt(grid, a).maps
  <2> SUFFICES ASSUME NEW a PROVE dims(a) = ComplexAt(grid, a).dims /\ maps(a) = ComplexAt(grid, a).maps
    OBVIOUS
  <2>1. dims(a) = [d \in DegreesAt(grid, a) |-> Cardinality(BlockAt(grid, a, d))]
    BY <1>4, <1>8
  <2>2. Table([d \in degrees(a) |-> columns(block(a, d))]) = [d \in DegreesAt(grid, a) |-> ColumnsAt(grid, a, d)]
    <3>1. [d \in degrees(a) |-> columns(block(a, d))] = [d \in DegreesAt(grid, a) |-> ColumnsAt(grid, a, d)]
      BY <1>7, <1>8
    <3> QED BY <3>1, TableIs
  <2>3. maps(a) = NonZero([d \in DegreesAt(grid, a) |-> ColumnsAt(grid, a, d)])
    BY <2>2
  <2> HIDE DEF dims, maps
  <2> QED BY <2>1, <2>3 DEF ComplexAt
<1>10. \A a : [dims |-> dims(a), maps |-> maps(a)] = ComplexAt(grid, a)
  <2> HIDE DEF dims, maps
  <2> QED BY <1>9 DEF ComplexAt
<1> HIDE DEF dims, maps
<1>11. {al[r] : r \in ranks} = {AlexanderAt(grid, r) : r \in R}
  <2> HIDE DEF ranks
  <2> QED BY <1>2, <1>3
<1> QED BY <1>1, <1>10, <1>11 DEF ComplexesByRank

-----------------------------------------------------------------------------
(* One grading of the reference.                                           *)
ComplexOn(S) ==
  LET degree == Table([x \in S |-> Degree(x)])
      block(d) == {x \in S : degree[x] = d}
      position == Table([x \in S |-> Cardinality({y \in block(degree[x]) : G!Before(y, x)})])
      column(x) == {position[y] : y \in {z \in G!Differential(x) \cap S : degree[z] = degree[x] + 1}}
      degrees == {degree[x] : x \in S}
  IN [dims |-> [d \in degrees |-> Cardinality(block(d))],
      maps |-> NonZero(Table([d \in degrees |->
        [k \in 1..Cardinality(block(d)) |-> column(CHOOSE x \in block(d) : position[x] = k - 1)]]))]

LEMMA GradingIs ==
  ASSUME Laid, NEW a, NEW S, S = {x \in Facts!Generators : G!Alexander(x) = a}
  PROVE  ComplexOn(S) = ComplexAt(grid, a)
<1> DEFINE rank(x) == On(grid)!RankOf(x)
           unrank(r) == On(grid)!Unrank(r)
           degree == Table([x \in S |-> Degree(x)])
           block(d) == {x \in S : degree[x] = d}
           position == Table([x \in S |-> Cardinality({y \in block(degree[x]) : G!Before(y, x)})])
           column(x) == {position[y] : y \in {z \in G!Differential(x) \cap S : degree[z] = degree[x] + 1}}
           degrees == {degree[x] : x \in S}
           chosen(d, k) == CHOOSE x \in block(d) : position[x] = k - 1
           columns(d) == [k \in 1..Cardinality(block(d)) |-> column(chosen(d, k))]
           In(d) == BlockAt(grid, a, d)
<1>1. ComplexOn(S) = [dims |-> [d \in degrees |-> Cardinality(block(d))],
                      maps |-> NonZero(Table([d \in degrees |-> columns(d)]))]
  BY DEF ComplexOn
<1>2. \A x \in S : /\ x \in Facts!Generators /\ rank(x) \in RanksOf(grid) /\ unrank(rank(x)) = x
                   /\ AlexanderAt(grid, rank(x)) = a /\ degree[x] = DegreeAt(grid, rank(x))
  <2> SUFFICES ASSUME NEW x \in S
               PROVE  /\ x \in Facts!Generators /\ rank(x) \in RanksOf(grid) /\ unrank(rank(x)) = x
                      /\ AlexanderAt(grid, rank(x)) = a /\ degree[x] = DegreeAt(grid, rank(x))
    OBVIOUS
  <2>1. x \in Facts!Generators /\ G!Alexander(x) = a
    OBVIOUS
  <2>2. rank(x) \in RanksOf(grid) /\ unrank(rank(x)) = x
    BY <2>1, RanksAndGenerators
  <2>3. degree = [y \in S |-> Degree(y)]
    BY TableIs
  <2>4. degree[x] = -G!Maslov(x)
    <3> HIDE DEF degree
    <3> QED BY <2>3 DEF Degree
  <2> HIDE DEF degree
  <2> QED BY <2>1, <2>2, <2>4, OnTheGrid DEF AlexanderAt, MaslovAt, DegreeAt
<1>3. \A r \in RanksOf(grid) : AlexanderAt(grid, r) = a => unrank(r) \in S /\ rank(unrank(r)) = r
  <2> SUFFICES ASSUME NEW r \in RanksOf(grid), AlexanderAt(grid, r) = a PROVE unrank(r) \in S /\ rank(unrank(r)) = r
    OBVIOUS
  <2>1. unrank(r) \in Facts!Generators /\ rank(unrank(r)) = r
    BY RanksAndGenerators
  <2>2. G!Alexander(unrank(r)) = a
    BY OnTheGrid DEF AlexanderAt
  <2> QED BY <2>1, <2>2
<1> HIDE DEF degree, rank, unrank
<1>4. /\ \A d : \A x \in block(d) : x \in S /\ rank(x) \in In(d) /\ unrank(rank(x)) = x
      /\ \A d : \A r \in In(d) : unrank(r) \in block(d) /\ rank(unrank(r)) = r
  <2>1. ASSUME NEW d, NEW x \in block(d) PROVE x \in S /\ rank(x) \in In(d) /\ unrank(rank(x)) = x
    BY <1>2, <2>1 DEF BlockAt
  <2>2. ASSUME NEW d, NEW r \in In(d) PROVE unrank(r) \in block(d) /\ rank(unrank(r)) = r
    <3>1. r \in RanksOf(grid) /\ AlexanderAt(grid, r) = a /\ DegreeAt(grid, r) = d
      BY DEF BlockAt
    <3>2. unrank(r) \in S /\ rank(unrank(r)) = r
      BY <1>3, <3>1
    <3> QED BY <1>2, <3>1, <3>2
  <2> QED BY <2>1, <2>2
<1>5. \A d : In(d) \in SUBSET RanksOf(grid)
  BY DEF BlockAt
<1>6. ASSUME NEW B \in SUBSET RanksOf(grid) PROVE Cardinality({unrank(r) : r \in B}) = Cardinality(B)
  BY LaidIs, UnrankKeepsNumbers DEF unrank
<1>7. \A d : Cardinality(block(d)) = Cardinality(In(d))
  <2> SUFFICES ASSUME NEW d PROVE Cardinality(block(d)) = Cardinality(In(d))
    OBVIOUS
  <2> DEFINE P == block(d)
             Q == In(d)
  <2>1. P = {unrank(r) : r \in Q}
    <3>1. \A x \in P : rank(x) \in Q /\ unrank(rank(x)) = x
      BY <1>4
    <3>2. \A r \in Q : unrank(r) \in P
      BY <1>4
    <3> HIDE DEF P, Q
    <3> QED BY <3>1, <3>2
  <2>2. Q \in SUBSET RanksOf(grid)
    BY <1>5
  <2> HIDE DEF P, Q
  <2>3. Cardinality(P) = Cardinality(Q)
    BY <1>6, <2>1, <2>2
  <2> QED BY <2>3 DEF P, Q
<1>8. \A x \in S : position[x] = PlaceAt(grid, rank(x))
  <2> SUFFICES ASSUME NEW x \in S PROVE position[x] = PlaceAt(grid, rank(x))
    OBVIOUS
  <2> DEFINE d == degree[x]
             P == {y \in block(d) : G!Before(y, x)}
             Q == {s \in In(d) : s < rank(x)}
  <2>1. position[x] = Cardinality(P)
    <3>1. position = [y \in S |-> Cardinality({z \in block(degree[y]) : G!Before(z, y)})]
      BY TableIs
    <3> HIDE DEF position, block
    <3> QED BY <3>1
  <2>2. PlaceAt(grid, rank(x)) = Cardinality(Q)
    BY <1>2 DEF PlaceAt
  <2>3. \A y \in S : G!Before(y, x) <=> rank(y) < rank(x)
    <3> SUFFICES ASSUME NEW y \in S PROVE G!Before(y, x) <=> rank(y) < rank(x)
      OBVIOUS
    <3>1. y \in Facts!Generators /\ x \in Facts!Generators
      BY <1>2
    <3>2. Facts!Before(y, x) <=> rank(y) < rank(x)
      BY <3>1, RanksAndGenerators DEF rank
    <3> QED BY <3>2, SameRanks
  <2>4. P = {unrank(r) : r \in Q}
    <3>1. \A y \in P : y \in S /\ rank(y) \in Q /\ unrank(rank(y)) = y
      BY <1>4, <2>3
    <3>2. \A r \in Q : unrank(r) \in P
      <4> SUFFICES ASSUME NEW r \in Q PROVE unrank(r) \in P
        OBVIOUS
      <4>1. unrank(r) \in block(d) /\ rank(unrank(r)) = r /\ r < rank(x)
        BY <1>4
      <4>2. unrank(r) \in S
        BY <1>4, <4>1
      <4> QED BY <2>3, <4>1, <4>2
    <3> HIDE DEF P, Q
    <3> QED BY <3>1, <3>2
  <2>5. Q \in SUBSET RanksOf(grid)
    BY <1>5
  <2> HIDE DEF P, Q
  <2>6. Cardinality(P) = Cardinality(Q)
    BY <1>6, <2>4, <2>5
  <2> QED BY <2>1, <2>2, <2>6
<1> HIDE DEF position
<1>9. \A x \in S : column(x) = ColumnAt(grid, rank(x))
  <2> SUFFICES ASSUME NEW x \in S PROVE column(x) = ColumnAt(grid, rank(x))
    OBVIOUS
  <2> DEFINE D == G!Differential(x)
             r == rank(x)
  <2>1. r \in RanksOf(grid) /\ unrank(r) = x /\ AlexanderAt(grid, r) = a /\ degree[x] = DegreeAt(grid, r)
    BY <1>2
  <2>2. D = On(grid)!Differential(unrank(r))
    BY <2>1, FactsOnTheGrid
  <2> HIDE DEF D, r
  <2>3. ASSUME NEW y \in D
        PROVE  y \in S /\ degree[y] = degree[x] + 1 /\ position[y] = PlaceAt(grid, rank(y))
    <3>1. /\ y \in Facts!Generators /\ rank(y) \in RanksOf(grid)
          /\ AlexanderAt(grid, rank(y)) = a /\ DegreeAt(grid, rank(y)) = DegreeAt(grid, r) + 1
      BY <2>1, <2>2, BoundariesAreGraded DEF rank, unrank
    <3>2. unrank(rank(y)) = y
      BY <3>1, RanksAndGenerators DEF rank, unrank
    <3>3. y \in S
      BY <1>3, <3>1, <3>2
    <3> QED BY <1>2, <1>8, <2>1, <3>1, <3>3
  <2>4. {z \in D \cap S : degree[z] = degree[x] + 1} = D
    BY <2>3
  <2>5. column(x) = {PlaceAt(grid, rank(y)) : y \in D}
    BY <2>3, <2>4 DEF D
  <2>6. BoundaryRanks(grid, r) = {rank(y) : y \in D}
    BY <2>2 DEF BoundaryRanks, rank, unrank
  <2>7. ColumnAt(grid, r) = {PlaceAt(grid, rank(y)) : y \in D}
    BY <2>6 DEF ColumnAt
  <2> QED BY <2>5, <2>7 DEF r
<1> HIDE DEF column
<1>10. \A d : columns(d) = ColumnsAt(grid, a, d)
  <2> SUFFICES ASSUME NEW d PROVE columns(d) = ColumnsAt(grid, a, d)
    OBVIOUS
  <2> DEFINE n == Cardinality(In(d))
             e(k) == CHOOSE r \in In(d) : PlaceAt(grid, r) = k - 1
             c(k) == chosen(d, k)
  <2>1. ASSUME NEW k \in 1..n PROVE c(k) \in S /\ rank(c(k)) = e(k)
    <3> DEFINE P == block(d)
               Q == In(d)
    <3>0. /\ \A x \in P : x \in S /\ rank(x) \in Q /\ position[x] = PlaceAt(grid, rank(x))
          /\ \A r \in Q : unrank(r) \in P /\ rank(unrank(r)) = r
      BY <1>4, <1>8
    <3>1. PICK r \in Q : PlaceAt(grid, r) = k - 1
      BY <2>1, BlocksAreFilled
    <3>2. \A q, s \in Q : PlaceAt(grid, q) = PlaceAt(grid, s) => q = s
      BY BlocksAreFilled
    <3> HIDE DEF P, Q
    <3>3. e(k) \in Q /\ PlaceAt(grid, e(k)) = k - 1
      BY <3>1 DEF Q
    <3>4. position[unrank(r)] = k - 1 /\ unrank(r) \in P
      BY <3>0, <3>1
    <3>5. c(k) \in P /\ position[c(k)] = k - 1
      BY <3>4 DEF P
    <3> HIDE DEF c, e
    <3> QED BY <3>0, <3>2, <3>3, <3>5
  <2>2. columns(d) = [k \in 1..n |-> column(c(k))]
    BY <1>7
  <2>3. ColumnsAt(grid, a, d) = [k \in 1..n |-> ColumnAt(grid, e(k))]
    BY DEF ColumnsAt
  <2> HIDE DEF c, e, n, columns
  <2>4. \A k \in 1..n : column(c(k)) = ColumnAt(grid, e(k))
    BY <1>9, <2>1
  <2> QED BY <2>2, <2>3, <2>4
<1> HIDE DEF columns
<1>11. degrees = DegreesAt(grid, a)
  <2> DEFINE W == {s \in RanksOf(grid) : AlexanderAt(grid, s) = a}
  <2>1. DegreesAt(grid, a) = {DegreeAt(grid, r) : r \in W}
    BY DEF DegreesAt
  <2>2. \A x \in S : rank(x) \in W /\ degree[x] = DegreeAt(grid, rank(x))
    BY <1>2
  <2>3. \A r \in W : unrank(r) \in S /\ degree[unrank(r)] = DegreeAt(grid, r)
    BY <1>2, <1>3
  <2> HIDE DEF W
  <2> QED BY <2>1, <2>2, <2>3
<1> HIDE DEF degrees
<1>12. [d \in degrees |-> Cardinality(block(d))] = [d \in DegreesAt(grid, a) |-> Cardinality(BlockAt(grid, a, d))]
  BY <1>7, <1>11
<1>13. Table([d \in degrees |-> columns(d)]) = [d \in DegreesAt(grid, a) |-> ColumnsAt(grid, a, d)]
  <2>1. [d \in degrees |-> columns(d)] = [d \in DegreesAt(grid, a) |-> ColumnsAt(grid, a, d)]
    BY <1>10, <1>11
  <2> QED BY <2>1, TableIs
<1> QED BY <1>1, <1>12, <1>13 DEF ComplexAt

(* The definitions say the same.                                           *)
LEMMA DefinitionsSay ==
  ASSUME Laid
  PROVE  GridComplexes = ComplexesByRank(grid)
<1> DEFINE al == Table([x \in G!Generators |-> G!Alexander(x)])
           S(a) == {x \in G!Generators : al[x] = a}
           P == {al[x] : x \in G!Generators}
           Q == {AlexanderAt(grid, r) : r \in RanksOf(grid)}
<1>1. GridComplexes = [a \in P |-> ComplexOn(S(a))]
  BY DEF GridComplexes, ComplexOn
<1>2. G!Generators = Facts!Generators
  BY SameGenerators
<1>3. \A x \in Facts!Generators : al[x] = G!Alexander(x)
  <2>1. al = [x \in G!Generators |-> G!Alexander(x)]
    BY TableIs
  <2> HIDE DEF al
  <2> QED BY <1>2, <2>1
<1> HIDE DEF al
<1>4. \A a : ComplexOn(S(a)) = ComplexAt(grid, a)
  <2> SUFFICES ASSUME NEW a PROVE ComplexOn(S(a)) = ComplexAt(grid, a)
    OBVIOUS
  <2> DEFINE Sa == S(a)
  <2>1. Sa = {x \in Facts!Generators : G!Alexander(x) = a}
    BY <1>2, <1>3
  <2> HIDE DEF Sa
  <2>2. ComplexOn(Sa) = ComplexAt(grid, a)
    BY <2>1, GradingIs
  <2> QED BY <2>2 DEF Sa
<1>5. P = Q
  <2>1. \A x \in Facts!Generators : /\ On(grid)!RankOf(x) \in RanksOf(grid)
                                    /\ AlexanderAt(grid, On(grid)!RankOf(x)) = al[x]
    <3> SUFFICES ASSUME NEW x \in Facts!Generators
                 PROVE  /\ On(grid)!RankOf(x) \in RanksOf(grid)
                        /\ AlexanderAt(grid, On(grid)!RankOf(x)) = al[x]
      OBVIOUS
    <3>1. On(grid)!RankOf(x) \in RanksOf(grid) /\ On(grid)!Unrank(On(grid)!RankOf(x)) = x
      BY RanksAndGenerators
    <3> QED BY <1>3, <3>1, OnTheGrid DEF AlexanderAt
  <2>2. \A r \in RanksOf(grid) : On(grid)!Unrank(r) \in Facts!Generators /\ al[On(grid)!Unrank(r)] = AlexanderAt(grid, r)
    <3> SUFFICES ASSUME NEW r \in RanksOf(grid)
                 PROVE  On(grid)!Unrank(r) \in Facts!Generators /\ al[On(grid)!Unrank(r)] = AlexanderAt(grid, r)
      OBVIOUS
    <3>1. On(grid)!Unrank(r) \in Facts!Generators
      BY RanksAndGenerators
    <3> QED BY <1>3, <3>1, OnTheGrid DEF AlexanderAt
  <2> QED BY <1>2, <2>1, <2>2
<1> HIDE DEF S, P, Q
<1>6. [a \in P |-> ComplexOn(S(a))] = [a \in Q |-> ComplexAt(grid, a)]
  BY <1>4, <1>5
<1> QED BY <1>1, <1>6 DEF ComplexesByRank, Q

-----------------------------------------------------------------------------
(* Elimination.  What is reached by following steps until one stops is     *)
(* defined, whether or not one does: of what every set closed under the    *)
(* steps holds, whatever stops.                                            *)
Follows(f, D, Stop, s) == f = [c \in D |-> IF c \in Stop THEN c ELSE f[s[c]]]

LEMMA FollowingSteps ==
  ASSUME NEW D, NEW Stop, NEW s, \A c \in D : c \notin Stop => s[c] \in D
  PROVE  \E f : Follows(f, D, Stop, s)
<1> DEFINE Kept(S) == \A c \in S : c \notin Stop => s[c] \in S
           Ends(c) == {t \in D \cap Stop : \A S \in SUBSET D : c \in S /\ Kept(S) => t \in S}
           f == [c \in D |-> CHOOSE t : t \in Ends(c)]
<1>1. ASSUME NEW c \in D, c \in Stop PROVE f[c] = c
  <2>1. c \in Ends(c)
    BY <1>1
  <2>2. \A t \in Ends(c) : t = c
    <3>1. {c} \in SUBSET D /\ Kept({c})
      BY <1>1
    <3> HIDE DEF Kept
    <3> QED BY <3>1
  <2> HIDE DEF Ends
  <2>3. (CHOOSE t : t \in Ends(c)) = c
    BY <2>1, <2>2
  <2> QED BY <2>3
<1>2. ASSUME NEW c \in D, c \notin Stop PROVE f[c] = f[s[c]]
  <2>1. s[c] \in D
    BY <1>2
  <2>2. ASSUME NEW t \in Ends(c) PROVE t \in Ends(s[c])
    <3> SUFFICES ASSUME NEW S \in SUBSET D, s[c] \in S, Kept(S) PROVE t \in S
      BY <2>2
    <3>1. S \cup {c} \in SUBSET D /\ Kept(S \cup {c})
      BY <1>2
    <3>2. t \in S \cup {c}
      <4> HIDE DEF Kept
      <4> QED BY <2>2, <3>1
    <3>3. t # c
      BY <1>2, <2>2
    <3> QED BY <3>2, <3>3
  <2>3. ASSUME NEW t \in Ends(s[c]) PROVE t \in Ends(c)
    <3> SUFFICES ASSUME NEW S \in SUBSET D, c \in S, Kept(S) PROVE t \in S
      BY <2>3
    <3>1. s[c] \in S
      BY <1>2
    <3> HIDE DEF Kept
    <3> QED BY <2>3, <3>1
  <2> HIDE DEF Ends
  <2>4. Ends(c) = Ends(s[c])
    BY <2>2, <2>3
  <2> QED BY <2>1, <2>4
<1> HIDE DEF f
<1>3. \A c \in D : f[c] = IF c \in Stop THEN c ELSE f[s[c]]
  BY <1>1, <1>2
<1>4. f = [c \in D |-> f[c]]
  BY DEF f
<1>5. f = [c \in D |-> IF c \in Stop THEN c ELSE f[s[c]]]
  BY <1>3, <1>4
<1> QED BY <1>5 DEF Follows

(* A set of naturals below a bound has a largest member.                   *)
LEMMA LargestIs ==
  ASSUME NEW m \in Nat, NEW S \in SUBSET (0..m), S # {}
  PROVE  Max(S) \in S /\ \A y \in S : Max(S) >= y
<1> DEFINE B == {b \in Nat : \A y \in S : y <= b}
<1>1. PICK b \in B : \A c \in B : b <= c
  <2>1. m \in B
    OBVIOUS
  <2> HIDE DEF B
  <2>2. B \in SUBSET Nat
    BY DEF B
  <2> QED BY <2>1, <2>2, LeastNat
<1>2. b \in Nat /\ \A y \in S : y <= b
  OBVIOUS
<1>3. b \in S
  <2> SUFFICES ASSUME b \notin S PROVE FALSE
    OBVIOUS
  <2>1. PICK y \in S : TRUE
    OBVIOUS
  <2>2. b # 0 /\ b - 1 \in Nat
    BY <1>2, <2>1
  <2>3. \A z \in S : z <= b - 1
    BY <1>2, <2>2
  <2>4. b - 1 \in B
    BY <2>2, <2>3
  <2> QED BY <1>1, <1>2, <2>4
<1>4. \E x \in S : \A y \in S : x >= y
  BY <1>2, <1>3
<1> QED BY <1>4 DEF Max

(* A column and the columns added up to it.  A pivot is filed under its    *)
(* leading row.                                                            *)
Vectors == [column : SUBSET Int, combo : SUBSET Int]
Pivoted(pivots, rows) ==
  /\ DOMAIN pivots \in SUBSET (0..(rows - 1))
  /\ \A r \in DOMAIN pivots :
       pivots[r] \in Vectors /\ r \in pivots[r].column /\ pivots[r].column \in SUBSET (0..r)

Stopped(pivots) == {c \in Vectors : c.column = {} \/ Max(c.column) \notin DOMAIN pivots}
Stepped(pivots) ==
  [c \in Vectors |-> LET p == pivots[Max(c.column)]
                     IN [column |-> Add(c.column, p.column), combo |-> Add(c.combo, p.combo)]]
Reduces(f, pivots) ==
  f = [c \in [column : SUBSET Int, combo : SUBSET Int] |->
         IF c.column = {} \/ Max(c.column) \notin DOMAIN pivots THEN c
         ELSE LET p == pivots[Max(c.column)]
              IN f[[column |-> Add(c.column, p.column), combo |-> Add(c.combo, p.combo)]]]

LEMMA ReductionIs ==
  ASSUME NEW rows \in Nat, NEW pivots, Pivoted(pivots, rows)
  PROVE  LET f == CHOOSE it : Reduces(it, pivots)
         IN  /\ \A c \in Stopped(pivots) : f[c] = c
             /\ \A c \in Vectors \ Stopped(pivots) :
                  /\ Stepped(pivots)[c] \in Vectors /\ Max(c.column) \in DOMAIN pivots
                  /\ Stepped(pivots)[c].column = Add(c.column, pivots[Max(c.column)].column)
                  /\ f[c] = f[Stepped(pivots)[c]]
<1> DEFINE f == CHOOSE it : Reduces(it, pivots)
           P == Stopped(pivots)
           s == Stepped(pivots)
<1>1. ASSUME NEW c \in Vectors \ P
      PROVE  /\ s[c] \in Vectors /\ Max(c.column) \in DOMAIN pivots
             /\ s[c].column = Add(c.column, pivots[Max(c.column)].column)
  <2> DEFINE p == pivots[Max(c.column)]
             t == [column |-> Add(c.column, p.column), combo |-> Add(c.combo, p.combo)]
  <2>1. Max(c.column) \in DOMAIN pivots
    BY <1>1 DEF Stopped
  <2>2. p \in Vectors
    BY <2>1 DEF Pivoted
  <2>3. s[c] = t
    BY DEF Stepped
  <2> HIDE DEF p
  <2>4. t \in Vectors
    BY <2>2 DEF Vectors, Add
  <2> QED BY <2>1, <2>3, <2>4 DEF p
<1>2. \A it : Reduces(it, pivots) <=> Follows(it, Vectors, P, s)
  <2> SUFFICES ASSUME NEW it PROVE Reduces(it, pivots) <=> Follows(it, Vectors, P, s)
    OBVIOUS
  <2> DEFINE g(c) == [column |-> Add(c.column, pivots[Max(c.column)].column),
                      combo |-> Add(c.combo, pivots[Max(c.column)].combo)]
  <2>1. Reduces(it, pivots) <=>
          it = [c \in Vectors |-> IF c.column = {} \/ Max(c.column) \notin DOMAIN pivots THEN c ELSE it[g(c)]]
    BY DEF Reduces, Vectors
  <2>2. \A c \in Vectors : s[c] = g(c)
    BY DEF Stepped
  <2>3. \A c \in Vectors : c \in P <=> c.column = {} \/ Max(c.column) \notin DOMAIN pivots
    BY DEF Stopped
  <2> HIDE DEF g, s, P
  <2>4. [c \in Vectors |-> IF c.column = {} \/ Max(c.column) \notin DOMAIN pivots THEN c ELSE it[g(c)]]
          = [c \in Vectors |-> IF c \in P THEN c ELSE it[s[c]]]
    BY <2>2, <2>3
  <2> QED BY <2>1, <2>4 DEF Follows
<1>3. Follows(f, Vectors, P, s)
  <2> HIDE DEF P, s
  <2>1. PICK it : Follows(it, Vectors, P, s)
    BY <1>1, FollowingSteps
  <2>2. Reduces(it, pivots)
    BY <1>2, <2>1
  <2>3. Reduces(f, pivots)
    BY <2>2
  <2> HIDE DEF f
  <2> QED BY <1>2, <2>3
<1> HIDE DEF f, s
<1>4. f = [c \in Vectors |-> IF c \in P THEN c ELSE f[s[c]]]
  BY <1>3 DEF Follows
<1>5. P \subseteq Vectors
  BY DEF Stopped
<1> HIDE DEF P
<1>6. \A c \in Vectors : f[c] = IF c \in P THEN c ELSE f[s[c]]
  BY <1>4
<1> QED BY <1>1, <1>5, <1>6 DEF f, s, P

(* Each addition of a pivot takes the leading row away and adds lower ones *)
(* only, so that a column is reduced in the end: to zero or to a leading   *)
(* row that is new.                                                        *)
LEMMA ColumnsAreReduced ==
  ASSUME NEW rows \in Nat, NEW pivots, Pivoted(pivots, rows),
         NEW column \in SUBSET (0..(rows - 1)), NEW number \in Int
  PROVE  LET v == Eliminated(pivots, column, number)
         IN  /\ v \in Vectors /\ v.column \in SUBSET (0..(rows - 1))
             /\ v.column # {} => Max(v.column) \notin DOMAIN pivots
<1> DEFINE f == CHOOSE it : Reduces(it, pivots)
           P == Stopped(pivots)
           s == Stepped(pivots)
           Below(m) == {c \in Vectors : c.column \in SUBSET (0..(m - 1))}
           R == {m \in Nat : m <= rows => \A c \in Below(m) : f[c] \in P /\ f[c] \in Below(rows)}
<1>1. /\ \A c \in P : f[c] = c
      /\ \A c \in Vectors \ P : /\ s[c] \in Vectors /\ Max(c.column) \in DOMAIN pivots
                                /\ s[c].column = Add(c.column, pivots[Max(c.column)].column)
                                /\ f[c] = f[s[c]]
  BY ReductionIs
<1>2. Eliminated(pivots, column, number) = f[[column |-> column, combo |-> {number}]]
  BY DEF Eliminated, Reduces
<1>3. \A c \in Vectors : c \in P <=> c.column = {} \/ Max(c.column) \notin DOMAIN pivots
  BY DEF Stopped
<1> HIDE DEF f, P, s
<1>4. 0 \in R
  <2>1. ASSUME NEW c \in Below(0) PROVE c.column = {} /\ c \in Vectors
    <3>1. 0..(0 - 1) = {}
      OBVIOUS
    <3> QED BY <2>1, <3>1
  <2>2. \A c \in Below(0) : f[c] = c /\ c \in P /\ c.column \in SUBSET (0..(rows - 1))
    BY <1>1, <1>3, <2>1
  <2> QED BY <2>1, <2>2
<1>5. ASSUME NEW m \in R PROVE m + 1 \in R
  <2> SUFFICES ASSUME m + 1 <= rows, NEW c \in Below(m + 1) PROVE f[c] \in P /\ f[c] \in Below(rows)
    OBVIOUS
  <2>1. m \in Nat /\ m <= rows /\ (m + 1) - 1 = m /\ 0..m \subseteq 0..(rows - 1)
    OBVIOUS
  <2>2. c \in Vectors /\ c.column \in SUBSET (0..m)
    BY <2>1
  <2>3. CASE c \in P
    <3>1. c.column \in SUBSET (0..(rows - 1))
      BY <2>1, <2>2
    <3> QED BY <1>1, <2>2, <2>3, <3>1
  <2>4. CASE c \notin P
    <3> DEFINE top == Max(c.column)
               q == pivots[top].column
    <3>1. /\ s[c] \in Vectors /\ top \in DOMAIN pivots
          /\ s[c].column = Add(c.column, q) /\ f[c] = f[s[c]]
      BY <1>1, <2>2, <2>4
    <3>2. top \in c.column /\ \A y \in c.column : top >= y
      <4>1. c.column # {}
        BY <1>3, <2>2, <2>4
      <4> QED BY <2>1, <2>2, <4>1, LargestIs
    <3>3. top \in q /\ q \in SUBSET (0..top)
      BY <3>1 DEF Pivoted
    <3> HIDE DEF top, q
    <3>4. Add(c.column, q) \in SUBSET (0..(m - 1))
      <4> SUFFICES ASSUME NEW y \in Add(c.column, q) PROVE y \in 0..(m - 1)
        OBVIOUS
      <4>1. top \in 0..m
        BY <2>2, <3>2
      <4>2. y # top
        BY <3>2, <3>3 DEF Add
      <4>3. y \in Nat /\ y <= top
        <5>1. CASE y \in c.column
          <6>1. y \in 0..m
            BY <2>2, <5>1
          <6> QED BY <3>2, <4>1, <5>1, <6>1
        <5>2. CASE y \in q
          <6>1. y \in 0..top
            BY <3>3, <5>2
          <6> QED BY <4>1, <6>1
        <5> QED BY <5>1, <5>2 DEF Add
      <4> QED BY <2>1, <4>1, <4>2, <4>3
    <3>5. s[c] \in Below(m)
      BY <3>1, <3>4
    <3>6. f[s[c]] \in P /\ f[s[c]] \in Below(rows)
      BY <2>1, <3>5
    <3> QED BY <3>1, <3>6
  <2> QED BY <2>3, <2>4
<1>6. R = Nat
  <2>1. R \in SUBSET Nat
    OBVIOUS
  <2> HIDE DEF R
  <2> QED BY <1>4, <1>5, <2>1, Counting
<1> DEFINE c == [column |-> column, combo |-> {number}]
<1>7. c \in Below(rows)
  <2>1. column \in SUBSET Int /\ {number} \in SUBSET Int
    OBVIOUS
  <2>2. c \in Vectors /\ c.column = column
    BY <2>1 DEF Vectors
  <2> QED BY <2>2
<1>8. f[c] \in P /\ f[c] \in Below(rows)
  <2>1. rows \in R
    BY <1>6
  <2> HIDE DEF c
  <2> QED BY <1>7, <2>1
<1> HIDE DEF c
<1>9. f[c] \in Vectors /\ f[c].column \in SUBSET (0..(rows - 1))
  BY <1>8
<1>10. f[c].column # {} => Max(f[c].column) \notin DOMAIN pivots
  BY <1>3, <1>8, <1>9
<1> QED BY <1>2, <1>9, <1>10 DEF c

(* Column by column: what is held is filed under its leading row.          *)
Advanced(before, c) ==
  IF c.column = {} THEN [before EXCEPT !.kernel = Append(@, c.combo)]
  ELSE [before EXCEPT !.pivots =
          [r \in DOMAIN @ \cup {Max(c.column)} |-> IF r = Max(c.column) THEN c ELSE @[r]]]
Advance(before, column, j) == Advanced(before, Eliminated(before.pivots, column, j))
Grown(before, after) ==
  after.pivots = before.pivots \/ \E r : DOMAIN after.pivots = DOMAIN before.pivots \cup {r}
Eliminates(f, columns) ==
  f = [j \in 0..Len(columns) |->
         IF j = 0 THEN [pivots |-> <<>>, kernel |-> <<>>]
         ELSE LET before == f[j - 1]
                  c == Eliminated(before.pivots, columns[j], j)
              IN IF c.column = {} THEN [before EXCEPT !.kernel = Append(@, c.combo)]
                 ELSE [before EXCEPT !.pivots =
                         [r \in DOMAIN @ \cup {Max(c.column)} |-> IF r = Max(c.column) THEN c ELSE @[r]]]]
Supports(rows) == SUBSET (0..(rows - 1))
PivotSets(rows) == {p \in UNION {[D -> Vectors] : D \in SUBSET (0..(rows - 1))} : Pivoted(p, rows)}
Eliminations(rows) == [pivots : PivotSets(rows), kernel : Seq(SUBSET Int)]

LEMMA AdvancesPivot ==
  ASSUME NEW rows \in Nat, NEW before \in Eliminations(rows),
         NEW column \in Supports(rows), NEW j \in Int
  PROVE  Advance(before, column, j) \in Eliminations(rows) /\ Grown(before, Advance(before, column, j))
<1> DEFINE c == Eliminated(before.pivots, column, j)
           top == Max(c.column)
           P == before.pivots
           Q == [r \in DOMAIN P \cup {top} |-> IF r = top THEN c ELSE P[r]]
<1>1. P \in PivotSets(rows) /\ before.kernel \in Seq(SUBSET Int) /\ Pivoted(P, rows)
  BY DEF Eliminations, PivotSets
<1> HIDE DEF P
<1>2. c \in Vectors /\ c.column \in SUBSET (0..(rows - 1))
  <2>1. column \in SUBSET (0..(rows - 1))
    BY DEF Supports
  <2> QED BY <1>1, <2>1, ColumnsAreReduced DEF P
<1> HIDE DEF c
<1>3. CASE c.column = {}
  <2>1. Advanced(before, c) = [before EXCEPT !.kernel = Append(before.kernel, c.combo)]
    BY <1>3 DEF Advanced
  <2>2. c.combo \in SUBSET Int
    BY <1>2 DEF Vectors
  <2>3. Append(before.kernel, c.combo) \in Seq(SUBSET Int)
    BY <1>1, <2>2
  <2>4. Advanced(before, c) = [pivots |-> P, kernel |-> Append(before.kernel, c.combo)]
    BY <2>1 DEF Eliminations, P
  <2>5. Advanced(before, c) \in Eliminations(rows) /\ Advanced(before, c).pivots = P
    BY <1>1, <2>3, <2>4 DEF Eliminations
  <2> QED BY <2>5 DEF c, P, Advance, Grown
<1>4. CASE c.column # {}
  <2>1. Advanced(before, c) = [before EXCEPT !.pivots = Q]
    BY <1>4 DEF Advanced, P
  <2>2. top \in c.column /\ top \in 0..(rows - 1) /\ c.column \in SUBSET (0..top)
    <3>1. rows - 1 \in Nat /\ c.column \in SUBSET (0..(rows - 1))
      BY <1>2, <1>4
    <3>2. top \in c.column /\ \A y \in c.column : top >= y
      <4> DEFINE m == rows - 1
                 S == c.column
      <4>1. m \in Nat /\ S \in SUBSET (0..m) /\ S # {}
        BY <1>4, <3>1
      <4> HIDE DEF m, S
      <4>2. Max(S) \in S /\ \A y \in S : Max(S) >= y
        BY <4>1, LargestIs
      <4> QED BY <4>2 DEF S
    <3> HIDE DEF top
    <3>3. top \in 0..(rows - 1)
      BY <3>1, <3>2
    <3>4. \A y \in c.column : y \in 0..top
      <4> SUFFICES ASSUME NEW y \in c.column PROVE y \in 0..top
        OBVIOUS
      <4>1. y \in 0..(rows - 1) /\ top >= y
        BY <3>1, <3>2
      <4> QED BY <3>3, <4>1
    <3> QED BY <3>2, <3>3, <3>4
  <2> HIDE DEF top
  <2>3. DOMAIN Q = DOMAIN P \cup {top} /\ \A r \in DOMAIN Q : Q[r] = IF r = top THEN c ELSE P[r]
    OBVIOUS
  <2>4. Q = [r \in DOMAIN Q |-> Q[r]]
    OBVIOUS
  <2> HIDE DEF Q
  <2>5. Pivoted(Q, rows)
    <3>1. DOMAIN Q \in SUBSET (0..(rows - 1))
      BY <1>1, <2>2, <2>3 DEF Pivoted
    <3>2. ASSUME NEW r \in DOMAIN Q
          PROVE  Q[r] \in Vectors /\ r \in Q[r].column /\ Q[r].column \in SUBSET (0..r)
      <4>1. CASE r = top
        BY <1>2, <2>2, <2>3, <4>1
      <4>2. CASE r # top
        <5>1. r \in DOMAIN P /\ Q[r] = P[r]
          BY <2>3, <3>2, <4>2
        <5> QED BY <1>1, <5>1 DEF Pivoted
      <4> QED BY <4>1, <4>2
    <3> QED BY <3>1, <3>2 DEF Pivoted
  <2>6. Q \in PivotSets(rows)
    <3>1. \A r \in DOMAIN Q : Q[r] \in Vectors
      BY <2>5 DEF Pivoted
    <3>2. Q \in [DOMAIN Q -> Vectors]
      BY <2>4, <3>1
    <3>3. DOMAIN Q \in SUBSET (0..(rows - 1))
      BY <2>5 DEF Pivoted
    <3> HIDE DEF Vectors
    <3>4. Q \in UNION {[D -> Vectors] : D \in SUBSET (0..(rows - 1))}
      BY <3>2, <3>3
    <3> QED BY <2>5, <3>4 DEF PivotSets
  <2>7. Advanced(before, c) = [pivots |-> Q, kernel |-> before.kernel]
    BY <2>1 DEF Eliminations
  <2>8. Advanced(before, c) \in Eliminations(rows) /\ Advanced(before, c).pivots = Q
    BY <1>1, <2>6, <2>7 DEF Eliminations
  <2> QED BY <2>3, <2>8 DEF c, P, Advance, Grown
<1> QED BY <1>3, <1>4 DEF c

(* The rank is at most the number of columns and at most the number of     *)
(* rows.                                                                   *)
LEMMA RankIsBounded ==
  ASSUME NEW rows \in Nat, NEW columns \in Seq(SUBSET (0..(rows - 1)))
  PROVE  F2Rank(columns) \in Nat /\ F2Rank(columns) <= Len(columns) /\ F2Rank(columns) <= rows
<1> DEFINE n == Len(columns)
           V == Eliminations(rows)
           first == [pivots |-> <<>>, kernel |-> <<>>]
           elim(i, b) == Advanced(b, Eliminated(b.pivots, columns[i], i))
           step == [iq \in (1..n) \X V |-> elim(iq[1], iq[2])]
           f == CHOOSE it : Eliminates(it, columns)
<1>1. n \in Nat /\ \A i \in 1..n : columns[i] \in SUBSET (0..(rows - 1))
  OBVIOUS
<1>2. \A i \in 1..n : \A b \in V :
        /\ elim(i, b) \in V
        /\ elim(i, b).pivots = b.pivots \/ \E r : DOMAIN elim(i, b).pivots = DOMAIN b.pivots \cup {r}
  <2> SUFFICES ASSUME NEW i \in 1..n, NEW b \in V
               PROVE  /\ elim(i, b) \in V
                      /\ elim(i, b).pivots = b.pivots \/ \E r : DOMAIN elim(i, b).pivots = DOMAIN b.pivots \cup {r}
    OBVIOUS
  <2> DEFINE w == columns[i]
  <2>1. w \in Supports(rows) /\ i \in Int /\ b \in Eliminations(rows)
    BY <1>1 DEF Supports
  <2> HIDE DEF w, n, V, step, f, first, elim
  <2>2. Advance(b, w, i) \in Eliminations(rows) /\ Grown(b, Advance(b, w, i))
    BY <2>1, AdvancesPivot
  <2> QED BY <2>2 DEF w, elim, V, Advance, Grown
<1>3. first \in V
  <2> DEFINE none == <<>>
  <2>1. DOMAIN none = {} /\ none = [r \in {} |-> r]
    OBVIOUS
  <2>2. none \in Seq(SUBSET Int)
    OBVIOUS
  <2> HIDE DEF none
  <2>3. none \in [{} -> Vectors] /\ {} \in SUBSET (0..(rows - 1))
    BY <2>1
  <2>4. none \in UNION {[D -> Vectors] : D \in SUBSET (0..(rows - 1))}
    BY <2>3
  <2>5. none \in PivotSets(rows)
    BY <2>1, <2>4 DEF PivotSets, Pivoted
  <2> QED BY <2>2, <2>5 DEF Eliminations, none
<1> HIDE DEF n, V, first
<1>4. step \in [(1..n) \X V -> V]
  <2> HIDE DEF elim
  <2>1. \A iq \in (1..n) \X V : elim(iq[1], iq[2]) \in V
    BY <1>2
  <2> QED BY <2>1
<1>5. PICK g \in [0..n -> V] : Carried(g, n, first, step)
  <2> HIDE DEF step
  <2> QED BY <1>1, <1>3, <1>4, Iterates
<1>6. g[0] = first /\ \A i \in 1..n : g[i] = elim(i, g[i - 1])
  <2>1. ASSUME NEW i \in 1..n PROVE g[i] = elim(i, g[i - 1])
    <3>1. g[i] = step[<<i, g[i - 1]>>]
      BY <1>5 DEF Carried
    <3>2. i - 1 \in 0..n
      BY <1>1
    <3>3. g[i - 1] \in V
      BY <3>2
    <3> HIDE DEF elim
    <3> QED BY <3>1, <3>3
  <2> QED BY <1>5, <2>1 DEF Carried
<1> HIDE DEF step
<1> DEFINE Unfolded(it, j) == IF j = 0 THEN first ELSE elim(j, it[j - 1])
<1>7. \A it : Eliminates(it, columns) <=> it = [j \in 0..n |-> Unfolded(it, j)]
  BY DEF Eliminates, Advanced, n, first
<1> HIDE DEF elim
<1>8. Eliminates(g, columns)
  <2>1. \A j \in 0..n : g[j] = Unfolded(g, j)
    <3> SUFFICES ASSUME NEW j \in 0..n PROVE g[j] = Unfolded(g, j)
      OBVIOUS
    <3>1. CASE j = 0
      BY <1>6, <3>1
    <3>2. CASE j # 0
      <4>1. j \in 1..n
        BY <1>1, <3>2
      <4> QED BY <1>6, <3>2, <4>1
    <3> QED BY <3>1, <3>2
  <2>2. g = [j \in 0..n |-> g[j]]
    OBVIOUS
  <2> HIDE DEF Unfolded
  <2>3. g = [j \in 0..n |-> Unfolded(g, j)]
    BY <2>1, <2>2
  <2> QED BY <1>7, <2>3
<1>9. Eliminates(f, columns)
  BY <1>8
<1>10. F2Rank(columns) = Cardinality(DOMAIN f[n].pivots)
  BY DEF F2Rank, Elimination, Eliminates, n
<1> HIDE DEF f
<1>11. f[0] = first /\ \A i \in 1..n : f[i] = elim(i, f[i - 1])
  <2>1. f = [j \in 0..n |-> Unfolded(f, j)]
    BY <1>7, <1>9
  <2> HIDE DEF Unfolded
  <2>2. \A j \in 0..n : f[j] = Unfolded(f, j)
    BY <2>1
  <2>3. 0 \in 0..n /\ \A i \in 1..n : i \in 0..n /\ i # 0
    BY <1>1
  <2> QED BY <2>2, <2>3 DEF Unfolded
<1> HIDE DEF Unfolded
<1> DEFINE Within(j) == /\ f[j] \in V /\ IsFiniteSet(DOMAIN f[j].pivots)
                        /\ Cardinality(DOMAIN f[j].pivots) \in Nat /\ Cardinality(DOMAIN f[j].pivots) <= j
           R == {j \in Nat : j <= n => Within(j)}
<1>12. Within(0)
  <2>1. DOMAIN f[0].pivots = {}
    BY <1>11 DEF first
  <2> QED BY <1>3, <1>11, <2>1, FS_EmptySet
<1>13. ASSUME NEW j \in 1..n, Within(j - 1) PROVE Within(j)
  <2> DEFINE S == DOMAIN f[j - 1].pivots
  <2>1. f[j] = elim(j, f[j - 1]) /\ f[j - 1] \in V
    BY <1>11, <1>13
  <2>2. f[j] \in V /\ (f[j].pivots = f[j - 1].pivots \/ \E r : DOMAIN f[j].pivots = S \cup {r})
    BY <1>2, <2>1
  <2>3. IsFiniteSet(S) /\ Cardinality(S) \in Nat /\ Cardinality(S) <= j - 1 /\ j \in Nat
    BY <1>1, <1>13
  <2>4. CASE f[j].pivots = f[j - 1].pivots
    <3>1. DOMAIN f[j].pivots = S
      BY <2>4
    <3> HIDE DEF S
    <3> QED BY <2>2, <2>3, <3>1
  <2>5. ASSUME NEW r, DOMAIN f[j].pivots = S \cup {r} PROVE Within(j)
    <3> HIDE DEF S
    <3>1. IsFiniteSet(S \cup {r}) /\ (Cardinality(S \cup {r}) = Cardinality(S) \/ Cardinality(S \cup {r}) = Cardinality(S) + 1)
      BY <2>3, FS_AddElement
    <3> QED BY <2>2, <2>3, <2>5, <3>1
  <2> QED BY <2>2, <2>4, <2>5
<1> HIDE DEF Within
<1>14. R = Nat
  <2>1. R \in SUBSET Nat /\ 0 \in R
    BY <1>12
  <2>2. ASSUME NEW j \in R PROVE j + 1 \in R
    <3> SUFFICES ASSUME j + 1 <= n PROVE Within(j + 1)
      OBVIOUS
    <3>1. j + 1 \in 1..n /\ (j + 1) - 1 = j /\ Within(j)
      BY <1>1
    <3> QED BY <1>13, <3>1
  <2> HIDE DEF R
  <2> QED BY <2>1, <2>2, Counting
<1>15. Within(n)
  BY <1>1, <1>14
<1> DEFINE D == DOMAIN f[n].pivots
<1>16. D \in SUBSET (0..(rows - 1))
  BY <1>15 DEF Within, V, Eliminations, PivotSets, Pivoted
<1>17. IsFiniteSet(0..(rows - 1)) /\ Cardinality(0..(rows - 1)) = rows
  <2>1. 0 \in Int /\ rows - 1 \in Int
    OBVIOUS
  <2>2. /\ IsFiniteSet(0..(rows - 1))
        /\ Cardinality(0..(rows - 1)) = IF 0 > rows - 1 THEN 0 ELSE (rows - 1) - 0 + 1
    BY <2>1, FS_Interval
  <2> QED BY <2>2
<1>18. Cardinality(D) <= rows
  <2> HIDE DEF D
  <2>1. Cardinality(D) <= Cardinality(0..(rows - 1))
    BY <1>16, <1>17, FS_Subset
  <2> QED BY <1>17, <2>1
<1> QED BY <1>10, <1>15, <1>18 DEF Within, n

(* A finite set of naturals has a bound and, if it has members, a largest. *)
LEMMA FiniteSetsAreBounded ==
  ASSUME NEW S \in SUBSET Nat, IsFiniteSet(S)
  PROVE  \E m \in Nat : S \in SUBSET (0..m)
<1> DEFINE Bounded(W) == \E m \in Nat : W \in SUBSET (0..m)
           R == {k \in Nat : \A W \in SUBSET S : Cardinality(W) = k => Bounded(W)}
<1>1. \A W \in SUBSET S : IsFiniteSet(W) /\ Cardinality(W) \in Nat
  BY FS_Subset, FS_CardinalityType
<1>2. 0 \in R
  <2>1. \A W \in SUBSET S : Cardinality(W) = 0 => W = {}
    BY <1>1, FS_EmptySet
  <2>2. Bounded({})
    <3>1. 0 \in Nat /\ {} \in SUBSET (0..0)
      OBVIOUS
    <3> QED BY <3>1
  <2> HIDE DEF Bounded
  <2> QED BY <2>1, <2>2
<1>3. ASSUME NEW k \in R PROVE k + 1 \in R
  <2>0. k \in Nat /\ \A W \in SUBSET S : Cardinality(W) = k => Bounded(W)
    <3> HIDE DEF Bounded
    <3> QED BY <1>3
  <2> SUFFICES ASSUME NEW W \in SUBSET S, Cardinality(W) = k + 1 PROVE Bounded(W)
    <3> HIDE DEF Bounded
    <3> QED BY <2>0
  <2>1. PICK x \in W : TRUE
    <3>1. Cardinality(W) # 0
      BY <2>0
    <3> QED BY <3>1, FS_EmptySet
  <2>2. Cardinality(W \ {x}) = k /\ W \ {x} \in SUBSET S
    <3>1. IsFiniteSet(W)
      BY <1>1
    <3>2. Cardinality(W \ {x}) = Cardinality(W) - 1
      BY <2>1, <3>1, FS_RemoveElement
    <3> QED BY <2>0, <3>2
  <2>3. PICK m \in Nat : W \ {x} \in SUBSET (0..m)
    <3>1. Bounded(W \ {x})
      <4> HIDE DEF Bounded
      <4> QED BY <2>0, <2>2
    <3> QED BY <3>1
  <2>4. x \in Nat /\ m + x \in Nat
    BY <2>1
  <2>5. \A y \in W : y \in 0..(m + x)
    <3> SUFFICES ASSUME NEW y \in W PROVE y \in 0..(m + x)
      OBVIOUS
    <3>1. CASE y = x
      BY <2>4, <3>1
    <3>2. CASE y # x
      <4>1. y \in 0..m
        BY <2>3, <3>2
      <4> QED BY <2>4, <4>1
    <3> QED BY <3>1, <3>2
  <2>6. W \in SUBSET (0..(m + x))
    BY <2>5
  <2> QED BY <2>4, <2>6
<1>4. R = Nat
  <2>1. R \in SUBSET Nat
    OBVIOUS
  <2> HIDE DEF R
  <2> QED BY <1>2, <1>3, <2>1, Counting
<1>5. Bounded(S)
  <2>1. Cardinality(S) \in R
    BY <1>1, <1>4
  <2> HIDE DEF Bounded
  <2> QED BY <2>1
<1> QED BY <1>5

LEMMA ImageIsFinite ==
  ASSUME NEW S, IsFiniteSet(S), NEW f, f = [x \in S |-> f[x]]
  PROVE  IsFiniteSet({f[x] : x \in S})
<1>1. f \in Surjection(S, {f[x] : x \in S})
  BY DEF Surjection
<1> QED BY <1>1, FS_Surjection

(* The peak is at least each block.                                        *)
LEMMA PeakIsAtLeast ==
  ASSUME NEW D \in SUBSET Int, IsFiniteSet(D), NEW dims \in [D -> Nat], NEW n \in D
  PROVE  /\ BlockBytes(dims[n], Dim(dims, n + 1)) \in Nat /\ PeakBytes(dims) \in Nat
         /\ BlockBytes(dims[n], Dim(dims, n + 1)) <= PeakBytes(dims)
<1> DEFINE bytes(d) == BlockBytes(dims[d], Dim(dims, d + 1))
           S == {bytes(d) : d \in D}
<1>1. \A d \in D : bytes(d) \in Nat
  <2> SUFFICES ASSUME NEW d \in D PROVE bytes(d) \in Nat
    OBVIOUS
  <2> DEFINE cols == dims[d]
             rows == Dim(dims, d + 1)
  <2>1. cols \in Nat /\ rows \in Nat
    BY DEF Dim
  <2> HIDE DEF cols, rows
  <2>2. Min({cols, rows}) \in Nat
    <3>1. \E x \in {cols, rows} : \A y \in {cols, rows} : x =< y
      BY <2>1
    <3> QED BY <2>1, <3>1 DEF Min
  <2>3. (rows + 63) \div 64 \in Nat
    BY <2>1
  <2> DEFINE least == Min({cols, rows})
             words == (rows + 63) \div 64
  <2> HIDE DEF least, words
  <2>4. (cols + least) * words * 8 \in Nat
    <3>1. least \in Nat /\ words \in Nat
      BY <2>2, <2>3 DEF least, words
    <3> QED BY <2>1, <3>1
  <2>5. BlockBytes(cols, rows) = 0 \/ BlockBytes(cols, rows) = (cols + least) * words * 8
    BY DEF BlockBytes, Words, least, words
  <2>6. BlockBytes(cols, rows) \in Nat
    BY <2>4, <2>5
  <2> QED BY <2>6 DEF cols, rows
<1>2. PeakBytes(dims) = Max({0} \cup S)
  BY DEF PeakBytes
<1>3. bytes(n) \in S
  OBVIOUS
<1> HIDE DEF bytes
<1>4. S \in SUBSET Nat /\ IsFiniteSet(S)
  <2> DEFINE f == [d \in D |-> bytes(d)]
  <2>1. f = [d \in D |-> f[d]] /\ S = {f[d] : d \in D}
    OBVIOUS
  <2> HIDE DEF f
  <2>2. IsFiniteSet(S)
    BY <2>1, ImageIsFinite
  <2> QED BY <1>1, <2>2
<1> HIDE DEF S
<1> DEFINE W == {0} \cup S
<1>5. W \in SUBSET Nat /\ IsFiniteSet(W) /\ W # {}
  <2>1. IsFiniteSet({0})
    BY FS_Singleton
  <2>2. IsFiniteSet({0} \cup S)
    BY <1>4, <2>1, FS_Union
  <2> QED BY <1>4, <2>2
<1> HIDE DEF W
<1>6. PICK m \in Nat : W \in SUBSET (0..m)
  BY <1>5, FiniteSetsAreBounded
<1>7. \A y \in W : Max(W) >= y
  BY <1>5, <1>6, LargestIs
<1>8. bytes(n) \in W /\ bytes(n) \in Nat
  BY <1>1, <1>3 DEF W
<1>9. Max(W) \in W
  BY <1>5, <1>6, LargestIs
<1> QED BY <1>2, <1>5, <1>7, <1>8, <1>9 DEF W, bytes

LEMMA PriceOfABlock ==
  ASSUME NEW cols \in Nat \ {0}, NEW rows \in Nat \ {0}, NEW rank \in Nat, rank <= cols, rank <= rows
  PROVE  (cols + rank) * Words(rows) * 8 \in Nat /\ (cols + rank) * Words(rows) * 8 <= BlockBytes(cols, rows)
<1> DEFINE least == Min({cols, rows})
           words == Words(rows)
<1>1. least \in Nat /\ rank <= least
  <2>1. \E x \in {cols, rows} : \A y \in {cols, rows} : x =< y
    OBVIOUS
  <2>2. least \in {cols, rows}
    BY <2>1 DEF Min
  <2> QED BY <2>2
<1>2. words \in Nat
  BY DEF Words
<1>3. BlockBytes(cols, rows) = (cols + least) * words * 8
  BY DEF BlockBytes
<1> HIDE DEF least, words
<1>4. (cols + rank) * words <= (cols + least) * words
  <2> DEFINE rest == least - rank
  <2>1. rest \in Nat /\ cols + least = (cols + rank) + rest
    BY <1>1
  <2> HIDE DEF rest
  <2>2. (cols + least) * words = (cols + rank) * words + rest * words
    BY <1>2, <2>1
  <2>3. rest * words \in Nat /\ (cols + rank) * words \in Nat
    BY <1>2, <2>1
  <2> QED BY <2>2, <2>3
<1> DEFINE l == (cols + rank) * words
           r == (cols + least) * words
<1>5. l \in Nat /\ r \in Nat /\ l <= r
  BY <1>1, <1>2, <1>4
<1> HIDE DEF l, r
<1>6. l * 8 <= r * 8
  BY <1>5
<1>7. l * 8 \in Nat
  BY <1>5
<1>8. BlockBytes(cols, rows) = r * 8
  BY <1>3 DEF r
<1> QED BY <1>6, <1>7, <1>8 DEF l, words

(* Degrees are integers.                                                   *)
LEMMA DegreesAreIntegers ==
  ASSUME Laid, NEW r \in RanksOf(grid)
  PROVE  DegreeAt(grid, r) \in Int
<1> DEFINE x == On(grid)!Unrank(r)
<1>1. x \in Facts!Generators
  BY RanksAndGenerators
<1>2. MaslovAt(grid, r) = Facts!Maslov(x)
  BY FactsOnTheGrid DEF MaslovAt
<1>3. Facts!Maslov(x) \in Int
  <2>1. x \in [Facts!Rows -> Facts!Rows]
    BY <1>1 DEF Facts!Generators
  <2> QED BY <2>1, LaidIs, Facts!GradingsAreIntegers DEF Facts!Maslov
<1> HIDE DEF x
<1> QED BY <1>2, <1>3 DEF DegreeAt

(* A nonzero block has the rows of the next degree.                        *)
LEMMA ColumnsFit ==
  ASSUME Laid, NEW a, NEW d \in DOMAIN ComplexAt(grid, a).maps
  PROVE  /\ d \in DegreesAt(grid, a) /\ d + 1 \in DegreesAt(grid, a)
         /\ ComplexAt(grid, a).maps[d] = ColumnsAt(grid, a, d)
         /\ Cardinality(BlockAt(grid, a, d)) \in Nat \ {0}
         /\ Cardinality(BlockAt(grid, a, d + 1)) \in Nat \ {0}
         /\ ColumnsAt(grid, a, d) \in Seq(SUBSET (0..(Cardinality(BlockAt(grid, a, d + 1)) - 1)))
         /\ Len(ColumnsAt(grid, a, d)) = Cardinality(BlockAt(grid, a, d))
<1> DEFINE all == [e \in DegreesAt(grid, a) |-> ColumnsAt(grid, a, e)]
           n == Cardinality(BlockAt(grid, a, d))
           m == Cardinality(BlockAt(grid, a, d + 1))
           chosen(k) == CHOOSE r \in BlockAt(grid, a, d) : PlaceAt(grid, r) = k - 1
           columns == ColumnsAt(grid, a, d)
<1>1. /\ d \in DegreesAt(grid, a) /\ ComplexAt(grid, a).maps[d] = columns
      /\ \E j \in DOMAIN columns : columns[j] # {}
  <2> DEFINE N == {e \in DOMAIN all : \E j \in DOMAIN all[e] : all[e][j] # {}}
  <2>1. ComplexAt(grid, a).maps = [e \in N |-> all[e]]
    BY DEF ComplexAt, NonZero
  <2>2. DOMAIN all = DegreesAt(grid, a) /\ \A e \in DegreesAt(grid, a) : all[e] = ColumnsAt(grid, a, e)
    OBVIOUS
  <2> HIDE DEF all
  <2>3. d \in N /\ ComplexAt(grid, a).maps[d] = all[d]
    BY <2>1
  <2> QED BY <2>2, <2>3
<1> HIDE DEF all
<1>2. n \in Nat /\ m \in Nat /\ IsFiniteSet(BlockAt(grid, a, d + 1))
  BY BlocksAreFilled
<1>3. columns = [k \in 1..n |-> ColumnAt(grid, chosen(k))]
  BY DEF ColumnsAt
<1>4. \A k \in 1..n : chosen(k) \in BlockAt(grid, a, d)
  BY BlocksAreFilled
(* A target is in the block of the next degree, at a place of that block.  *)
<1>5. ASSUME NEW r \in BlockAt(grid, a, d), NEW p \in ColumnAt(grid, r)
      PROVE  /\ p \in 0..(m - 1) /\ BlockAt(grid, a, d + 1) # {}
             /\ d + 1 \in DegreesAt(grid, a)
  <2>1. r \in RanksOf(grid) /\ AlexanderAt(grid, r) = a /\ DegreeAt(grid, r) = d
    BY DEF BlockAt
  <2>2. PICK q \in BoundaryRanks(grid, r) : p = PlaceAt(grid, q)
    BY <1>5 DEF ColumnAt
  <2>3. PICK y \in On(grid)!Differential(On(grid)!Unrank(r)) : q = On(grid)!RankOf(y)
    BY <2>2 DEF BoundaryRanks
  <2>4. q \in RanksOf(grid) /\ AlexanderAt(grid, q) = a /\ DegreeAt(grid, q) = d + 1
    BY <2>1, <2>3, BoundariesAreGraded
  <2> DEFINE B == BlockAt(grid, a, d + 1)
             L == {s \in B : s < q}
  <2>5. q \in B
    BY <2>4 DEF BlockAt
  <2>6. p = Cardinality(L)
    BY <2>2, <2>4 DEF PlaceAt
  <2>7. B \in SUBSET Nat
    <3>1. On(grid)!Total \in Nat
      BY LaidIs, Tiling
    <3>2. RanksOf(grid) \in SUBSET Nat
      BY <3>1 DEF RanksOf
    <3> QED BY <3>2 DEF BlockAt
  <2>8. IsFiniteSet(B) /\ Cardinality(B) = m /\ m \in Nat
    BY <1>2
  <2> HIDE DEF B, m
  <2>9. Cardinality(L) \in Nat /\ Cardinality(L) < m
    <3>0. q \in Nat /\ ~(q < q)
      BY <2>5, <2>7
    <3>1. L \in SUBSET B /\ q \notin L
      BY <3>0
    <3>2. L # B
      BY <2>5, <3>1
    <3> HIDE DEF L
    <3> QED BY <2>8, <3>1, <3>2, FS_Subset, FS_CardinalityType
  <2>10. p \in 0..(m - 1)
    BY <2>6, <2>8, <2>9
  <2>11. d + 1 \in DegreesAt(grid, a)
    BY <2>4 DEF DegreesAt
  <2> QED BY <2>5, <2>10, <2>11 DEF B
<1> HIDE DEF chosen
<1>6. PICK j \in 1..n : columns[j] # {}
  BY <1>1, <1>3
<1>7. PICK p \in ColumnAt(grid, chosen(j)) : TRUE
  BY <1>3, <1>6
<1>8. BlockAt(grid, a, d + 1) # {} /\ d + 1 \in DegreesAt(grid, a)
  BY <1>4, <1>5, <1>6, <1>7
<1>9. m # 0 /\ n # 0
  <2>1. m # 0
    BY <1>2, <1>8, FS_EmptySet
  <2> QED BY <1>2, <1>6, <2>1
<1>10. \A k \in 1..n : columns[k] \in SUBSET (0..(m - 1))
  <2> SUFFICES ASSUME NEW k \in 1..n, NEW q \in columns[k] PROVE q \in 0..(m - 1)
    OBVIOUS
  <2>1. q \in ColumnAt(grid, chosen(k))
    BY <1>3
  <2> QED BY <1>4, <1>5, <2>1
<1>11. columns \in Seq(SUBSET (0..(m - 1))) /\ Len(columns) = n
  <2>1. DOMAIN columns = 1..n /\ columns = [k \in 1..n |-> columns[k]]
    BY <1>3
  <2> HIDE DEF columns, n, m
  <2> QED BY <1>2, <1>10, <2>1
<1> QED BY <1>1, <1>2, <1>8, <1>9, <1>11

LEMMA ComplexIsPriced ==
  ASSUME Laid, NEW a, NEW d \in DOMAIN ComplexAt(grid, a).maps
  PROVE  LET cx == ComplexAt(grid, a)
         IN  (cx.dims[d] + F2Rank(cx.maps[d])) * Words(cx.dims[d + 1]) * 8 <= PeakBytes(cx.dims)
<1> DEFINE dims == ComplexAt(grid, a).dims
           D == DegreesAt(grid, a)
           columns == ColumnsAt(grid, a, d)
           cols == dims[d]
           rows == dims[d + 1]
<1>1. dims = [e \in D |-> Cardinality(BlockAt(grid, a, e))]
  BY DEF ComplexAt
<1>2. dims \in [D -> Nat]
  BY <1>1, BlocksAreFilled
<1>3. D \in SUBSET Int /\ IsFiniteSet(D)
  <2> DEFINE R == {s \in RanksOf(grid) : AlexanderAt(grid, s) = a}
  <2>1. On(grid)!Total \in Nat
    BY LaidIs, Tiling
  <2>2. IsFiniteSet(RanksOf(grid))
    <3>1. 0 \in Int /\ On(grid)!Total - 1 \in Int
      BY <2>1
    <3> QED BY <3>1, FS_Interval DEF RanksOf
  <2>3. IsFiniteSet(R)
    <3>1. R \subseteq RanksOf(grid)
      OBVIOUS
    <3> QED BY <2>2, <3>1, FS_Subset
  <2>4. D = {DegreeAt(grid, r) : r \in R}
    BY DEF DegreesAt
  <2>5. \A r \in R : DegreeAt(grid, r) \in Int
    BY DegreesAreIntegers
  <2> DEFINE f == [r \in R |-> DegreeAt(grid, r)]
  <2> HIDE DEF R, D
  <2>6. f = [r \in R |-> f[r]] /\ D = {f[r] : r \in R}
    BY <2>4
  <2>7. D \in SUBSET Int
    BY <2>4, <2>5
  <2> HIDE DEF f
  <2> QED BY <2>3, <2>6, <2>7, ImageIsFinite
<1>4. /\ d \in D /\ d + 1 \in D /\ ComplexAt(grid, a).maps[d] = columns
      /\ cols \in Nat \ {0} /\ rows \in Nat \ {0}
      /\ columns \in Seq(SUBSET (0..(rows - 1))) /\ Len(columns) = cols
  <2> DEFINE n == Cardinality(BlockAt(grid, a, d))
             m == Cardinality(BlockAt(grid, a, d + 1))
  <2>1. /\ d \in D /\ d + 1 \in D /\ ComplexAt(grid, a).maps[d] = columns
        /\ n \in Nat \ {0} /\ m \in Nat \ {0}
        /\ columns \in Seq(SUBSET (0..(m - 1))) /\ Len(columns) = n
    BY ColumnsFit
  <2>2. cols = n /\ rows = m
    BY <1>1, <2>1
  <2> HIDE DEF D, dims, n, m, columns, cols, rows
  <2> QED BY <2>1, <2>2
<1> HIDE DEF D, columns
<1>5. /\ BlockBytes(cols, Dim(dims, d + 1)) \in Nat /\ PeakBytes(dims) \in Nat
      /\ BlockBytes(cols, Dim(dims, d + 1)) <= PeakBytes(dims)
  <2> HIDE DEF dims
  <2> QED BY <1>2, <1>3, <1>4, PeakIsAtLeast
<1>6. Dim(dims, d + 1) = rows
  BY <1>2, <1>4 DEF Dim
<1> DEFINE rank == F2Rank(columns)
<1>7. rank \in Nat /\ rank <= cols /\ rank <= rows
  <2> HIDE DEF cols, rows
  <2>1. rows \in Nat
    BY <1>4
  <2> QED BY <1>4, <2>1, RankIsBounded
<1> HIDE DEF rank
<1>8. (cols + rank) * Words(rows) * 8 \in Nat /\ (cols + rank) * Words(rows) * 8 <= BlockBytes(cols, rows)
  <2> HIDE DEF cols, rows
  <2> QED BY <1>4, <1>7, PriceOfABlock
<1> DEFINE block == BlockBytes(cols, rows)
           peak == PeakBytes(dims)
           taken == (cols + rank) * Words(rows) * 8
<1>9. taken \in Nat /\ block \in Nat /\ peak \in Nat /\ taken <= block /\ block <= peak
  BY <1>5, <1>6, <1>8
<1>10. taken <= peak
  <2> HIDE DEF taken, block, peak
  <2> QED BY <1>9
<1> QED BY <1>4, <1>10 DEF rank

-----------------------------------------------------------------------------
(* The graph.                                                              *)
LEMMA KnotDepsAre ==
  /\ Merge \notin SliceKeys /\ Assemble \notin SliceKeys /\ Merge \notin ReduceKeys
  /\ Assemble \notin ReduceKeys /\ Merge # Assemble /\ SliceKeys \cap ReduceKeys = {}
  /\ \A j \in SliceKeys : KnotDeps[j] = {}
  /\ KnotDeps[Merge] = WholeOf(SliceKeys)
  /\ \A j \in ReduceKeys : KnotDeps[j] = {<<Merge, Shard(j[2])>>}
  /\ KnotDeps[Assemble] = WholeOf(ReduceKeys)
<1> DEFINE Sl == SliceKeys
           Re == ReduceKeys
<1>1. /\ \A j \in Sl : \E w : j = <<"gen_slice", w>>
      /\ \A j \in Re : \E a : j = <<"reduce", a>>
      /\ Merge = <<"gen_merge">> /\ Assemble = <<"assemble">>
  BY DEF SliceKeys, ReduceKeys, Merge, Assemble
<1>2. KnotJobs = Sl \cup {Merge} \cup Re \cup {Assemble}
  BY DEF KnotJobs
<1> HIDE DEF Sl, Re
<1>3. /\ Merge \notin Sl /\ Assemble \notin Sl /\ Merge \notin Re /\ Assemble \notin Re /\ Merge # Assemble
      /\ Sl \cap Re = {}
  BY <1>1
<1>4. /\ \A j \in Sl : KnotDeps[j] = {}
      /\ KnotDeps[Merge] = WholeOf(Sl)
      /\ \A j \in Re : KnotDeps[j] = {<<Merge, Shard(j[2])>>}
      /\ KnotDeps[Assemble] = WholeOf(Re)
  BY <1>2, <1>3 DEF KnotDeps, Sl, Re
<1> QED BY <1>3, <1>4 DEF Sl, Re

LEMMA GraphOfAKnot ==
  ASSUME DOMAIN histogram # {}
  PROVE  /\ Graph!AllValid /\ Graph!Servable
         /\ \A j \in KnotJobs \ {Assemble} : Graph!Dependents(j) # {}
<1> DEFINE Sl == SliceKeys
           Re == ReduceKeys
           Sh == {Shard(a) : a \in DOMAIN histogram}
<1>1. \A j \in Re : \E a \in DOMAIN histogram : j = <<"reduce", a>>
  BY DEF ReduceKeys
<1>2. KnotJobs = Sl \cup {Merge} \cup Re \cup {Assemble}
  BY DEF KnotJobs
<1>3. PICK a \in DOMAIN histogram : <<"reduce", a>> \in Re /\ Shard(a) \in Sh
  BY DEF ReduceKeys
<1>4. Merge \notin Sl /\ Merge \notin Re
  BY KnotDepsAre
<1>5. /\ \A j \in Sl : KnotDeps[j] = {}
      /\ KnotDeps[Merge] = WholeOf(Sl)
      /\ \A j \in Re : KnotDeps[j] = {<<Merge, Shard(j[2])>>}
      /\ KnotDeps[Assemble] = WholeOf(Re)
  BY KnotDepsAre
<1> HIDE DEF Sl, Re, Sh
<1>6. /\ KnotShards[Merge] = Sh /\ Sh # {}
      /\ \A j \in Sl \cup Re : KnotShards[j] = {}
  BY <1>2, <1>3, <1>4 DEF KnotShards, Sh
<1>7. \A j \in Re : Shard(j[2]) \in Sh
  <2> SUFFICES ASSUME NEW j \in Re PROVE Shard(j[2]) \in Sh
    OBVIOUS
  <2>1. PICK b \in DOMAIN histogram : j = <<"reduce", b>>
    BY <1>1
  <2> QED BY <2>1 DEF Sh
<1>8. \A j \in KnotJobs : j \in Sl \/ j = Merge \/ j \in Re \/ j = Assemble
  BY <1>2
<1>9. \A j \in KnotJobs : \A d \in KnotDeps[j] :
        \/ j = Merge /\ d[1] \in Sl /\ d = <<d[1], "whole">>
        \/ j \in Re /\ d = <<Merge, Shard(j[2])>>
        \/ j = Assemble /\ d[1] \in Re /\ d = <<d[1], "whole">>
  BY <1>5, <1>8 DEF WholeOf
<1>10. Graph!AllValid
  <2> SUFFICES ASSUME NEW j \in KnotJobs, NEW d \in KnotDeps[j] PROVE Graph!ValidDependency(d)
    BY DEF Graph!AllValid
  <2>1. CASE d[2] = "whole" /\ d[1] \in Sl \cup Re
    BY <1>2, <2>1 DEF Graph!ValidDependency, Graph!Whole
  <2>2. CASE d[1] = Merge /\ d[2] \in Sh
    BY <1>2, <1>6, <2>2 DEF Graph!ValidDependency, Graph!Whole
  <2> QED BY <1>7, <1>9, <2>1, <2>2
<1>11. Graph!Servable
  <2> SUFFICES ASSUME NEW j \in KnotJobs, NEW d \in KnotDeps[j]
               PROVE  \E k \in KnotJobs : d \in Graph!OutsOf(k)
    BY DEF Graph!Servable, Graph!Outs
  <2>1. ASSUME NEW k \in Sl \cup Re, d = <<k, "whole">> PROVE d \in Graph!OutsOf(k)
    BY <1>6, <2>1 DEF Graph!OutsOf, Graph!Whole
  <2>2. ASSUME NEW s \in Sh, d = <<Merge, s>> PROVE d \in Graph!OutsOf(Merge)
    BY <1>6, <2>2 DEF Graph!OutsOf
  <2> QED BY <1>2, <1>7, <1>9, <2>1, <2>2
<1>12. ASSUME NEW j \in KnotJobs \ {Assemble} PROVE Graph!Dependents(j) # {}
  <2>1. CASE j \in Sl
    <3>1. <<j, "whole">> \in KnotDeps[Merge]
      BY <1>5, <2>1 DEF WholeOf
    <3>2. Merge \in Graph!Dependents(j)
      BY <1>2, <3>1 DEF Graph!Dependents, Graph!Producers
    <3> QED BY <3>2
  <2>2. CASE j = Merge
    <3> DEFINE r == <<"reduce", a>>
    <3>1. <<Merge, Shard(r[2])>> \in KnotDeps[r] /\ r \in KnotJobs
      BY <1>2, <1>3, <1>5
    <3>2. r \in Graph!Dependents(Merge)
      BY <3>1 DEF Graph!Dependents, Graph!Producers
    <3> QED BY <2>2, <3>2
  <2>3. CASE j \in Re
    <3>1. <<j, "whole">> \in KnotDeps[Assemble]
      BY <1>5, <2>3 DEF WholeOf
    <3>2. Assemble \in Graph!Dependents(j)
      BY <1>2, <3>1 DEF Graph!Dependents, Graph!Producers
    <3> QED BY <3>2
  <2> QED BY <1>8, <2>1, <2>2, <2>3
<1> QED BY <1>10, <1>11, <1>12

-----------------------------------------------------------------------------
(* The jobs.  What is held says what is left to promise.                   *)
SlicesHeld == \A w : <<"gen_slice", w>> \in DOMAIN held => IsSlice(grid, w, held[<<"gen_slice", w>>])
MergeHeld == Merge \in DOMAIN held => held[Merge] = ComplexesByRank(grid)
RunInv ==
  /\ markers \in MarkerLists
  /\ stage \in {"tracing", "built"} => held = <<>>
  /\ stage \in {"built"} \cup Later =>
       grid.n = Size /\ grid.n \in Nat \ {0} /\ ValidOn(grid.n, grid.O, grid.X)
  /\ stage \in Later => histogram = CountsOf(grid)
  /\ SlicesHeld /\ MergeHeld

LEMMA RunInit == Init => RunInv
BY DEF Init, RunInv, SlicesHeld, MergeHeld, Later

LEMMA BuiltIsLaid ==
  ASSUME RunInv, stage \in {"built"} \cup Later
  PROVE  Laid /\ Sized
<1>1. Sized
  BY SliceAssumption DEF RunInv, Sized, Size
<1> QED BY <1>1 DEF RunInv, Laid

LEMMA SlicesAreSlices ==
  ASSUME Sized, NEW w \in 0..(CountOf(grid) - 1)
  PROVE  IsSlice(grid, w, GenerateSlice(w))
<1> DEFINE first == FirstOf(grid, w)
           next == NextOf(grid, w)
           it(k) == Generated(G!Unrank(first + k - 1))
<1>1. first \in Nat /\ next \in Nat /\ first <= next
  BY Tiling
<1>2. G!SliceStart(G!Total, G!SliceCount(SliceStates[grid.n]), w) = first
  BY OnTheGrid, OnTheRanks DEF FirstOf, CountOf
<1>3. G!SliceStop(G!Total, G!SliceCount(SliceStates[grid.n]), w) = next
  BY OnTheGrid, OnTheRanks DEF NextOf, CountOf
<1>4. GenerateSlice(w) = [start |-> first, gens |-> [k \in 1..(next - first) |-> it(k)]]
  BY <1>2, <1>3 DEF GenerateSlice
<1>5. \A k : /\ it(k).alexander = AlexanderAt(grid, first + k - 1)
             /\ it(k).maslov = MaslovAt(grid, first + k - 1)
             /\ it(k).targets = TargetsAt(grid, first + k - 1)
  BY OnTheGrid, OnTheTargets DEF Generated, AlexanderAt, MaslovAt, TargetsAt
<1> HIDE DEF first, next, it
<1>6. next - first \in Nat
  BY <1>1
<1>7. LET gens == [k \in 1..(next - first) |-> it(k)]
      IN  DOMAIN gens = 1..(next - first) /\ Len(gens) = next - first
  <2> DEFINE gens == [k \in 1..(next - first) |-> it(k)]
             values == {it(k) : k \in 1..(next - first)}
  <2>1. gens \in Seq(values) /\ DOMAIN gens = 1..(next - first)
    BY <1>6
  <2> HIDE DEF gens
  <2> QED BY <1>6, <2>1 DEF gens
<1>8. \A k \in 1..(next - first) : GenerateSlice(w).gens[k] = it(k)
  BY <1>4
<1>9. GenerateSlice(w).start = first /\ GenerateSlice(w).gens = [k \in 1..(next - first) |-> it(k)]
  BY <1>4
<1>10. FirstOf(grid, w) = first /\ NextOf(grid, w) = next
  BY DEF first, next
<1> QED BY <1>5, <1>7, <1>8, <1>9, <1>10 DEF IsSlice

LEMMA SliceKeysAre == SliceKeys = {<<"gen_slice", w>> : w \in 0..(CountOf(grid) - 1)}
BY OnTheRanks DEF SliceKeys, CountOf

(* Holding one more result leaves the others as they are.                  *)
LEMMA HoldingOneMore ==
  ASSUME NEW j, NEW result, Hold(j, result), UNCHANGED grid, SlicesHeld, MergeHeld,
         \A w : j = <<"gen_slice", w>> => IsSlice(grid, w, result),
         j = Merge => result = ComplexesByRank(grid)
  PROVE  SlicesHeld' /\ MergeHeld'
<1>1. DOMAIN held' = DOMAIN held \cup {j} /\ held'[j] = result /\ \A k \in DOMAIN held : k # j => held'[k] = held[k]
  BY DEF Hold
<1>2. SlicesHeld'
  <2> SUFFICES ASSUME NEW w, <<"gen_slice", w>> \in DOMAIN held'
               PROVE  IsSlice(grid, w, held'[<<"gen_slice", w>>])
    BY DEF SlicesHeld
  <2>1. CASE j = <<"gen_slice", w>>
    BY <1>1, <2>1
  <2>2. CASE j # <<"gen_slice", w>>
    <3>1. <<"gen_slice", w>> \in DOMAIN held /\ held'[<<"gen_slice", w>>] = held[<<"gen_slice", w>>]
      BY <1>1, <2>2
    <3> QED BY <3>1 DEF SlicesHeld
  <2> QED BY <2>1, <2>2
<1>3. MergeHeld'
  <2>1. Merge' = Merge
    BY DEF Merge
  <2>2. CASE j = Merge
    BY <1>1, <2>1, <2>2 DEF MergeHeld
  <2>3. CASE j # Merge
    BY <1>1, <2>1, <2>3 DEF MergeHeld
  <2> QED BY <2>2, <2>3
<1> QED BY <1>2, <1>3

LEMMA MergeKeeps ==
  ASSUME RunInv, RunMerge
  PROVE  SlicesHeld' /\ MergeHeld'
<1>1. Laid /\ Sized /\ stage = "running" /\ UNCHANGED grid
  BY BuiltIsLaid DEF RunMerge, Ready, Later
<1>2. PICK order \in Orders(SliceKeys) :
        Hold(Merge, BuildComplexes(GenerationOf([i \in DOMAIN order |-> held[order[i]]])))
  BY DEF RunMerge
<1> DEFINE slices == [i \in DOMAIN order |-> held[order[i]]]
           m == GenerationOf(slices)
<1>3. SliceKeys \subseteq DOMAIN held
  <2>1. Merge \in KnotJobs /\ Graph!Producers(Merge) \subseteq DOMAIN held
    BY DEF RunMerge, Ready, Graph!Ready
  <2>2. ASSUME NEW k \in SliceKeys PROVE k \in Graph!Producers(Merge)
    <3>1. <<k, "whole">> \in KnotDeps[Merge]
      BY KnotDepsAre DEF WholeOf
    <3> QED BY <3>1 DEF Graph!Producers
  <2> QED BY <2>1, <2>2
<1>4. \A i \in DOMAIN order : order[i] \in SliceKeys /\ order[i] = <<"gen_slice", order[i][2]>>
  <2>1. PICK p : /\ order = [i \in 1..Cardinality(SliceKeys) |-> <<"gen_slice", p[i]>>]
                 /\ p \in [1..Cardinality(SliceKeys) -> {k[2] : k \in SliceKeys}]
    BY DEF Orders
  <2>2. \A k \in SliceKeys : k = <<"gen_slice", k[2]>>
    BY SliceKeysAre
  <2> SUFFICES ASSUME NEW i \in DOMAIN order
               PROVE  order[i] \in SliceKeys /\ order[i] = <<"gen_slice", order[i][2]>>
    OBVIOUS
  <2>3. PICK k \in SliceKeys : p[i] = k[2]
    BY <2>1
  <2>4. order[i] = <<"gen_slice", k[2]>>
    BY <2>1, <2>3
  <2> QED BY <2>2, <2>4
<1>5. ASSUME NEW i \in DOMAIN order PROVE IsSlice(grid, order[i][2], slices[i])
  <2>1. <<"gen_slice", order[i][2]>> \in DOMAIN held /\ slices[i] = held[<<"gen_slice", order[i][2]>>]
    BY <1>3, <1>4
  <2> QED BY <2>1 DEF RunInv, SlicesHeld
<1>6. DOMAIN slices = DOMAIN order
  OBVIOUS
<1> HIDE DEF slices
<1>7. /\ m.total = On(grid)!Total
      /\ \A r \in RanksOf(grid) :
           /\ m.gen[r].alexander = AlexanderAt(grid, r) /\ m.gen[r].maslov = MaslovAt(grid, r)
           /\ Fetched(m, r) = BoundaryRanks(grid, r)
  BY <1>1, <1>5, <1>6, GenerationIsWhole, MergeFetches
<1> HIDE DEF m
<1>8. BuildComplexes(m) = ComplexesByRank(grid)
  BY <1>1, <1>7, MergeBuilds
<1>9. Hold(Merge, BuildComplexes(m))
  BY <1>2 DEF m, slices
<1>10. \A w : Merge # <<"gen_slice", w>>
  BY DEF Merge
<1> QED BY <1>1, <1>8, <1>9, <1>10, HoldingOneMore DEF RunInv

LEMMA RunStep ==
  ASSUME TraceInv, RunInv, [Next]_vars
  PROVE  RunInv'
<1>0. Later = {"running", "answered", "unvalidated"} /\ markers \in MarkerLists /\ SlicesHeld /\ MergeHeld
  BY DEF RunInv, Later
<1>1. UNCHANGED <<grid, held>> => SlicesHeld' /\ MergeHeld'
  BY <1>0 DEF SlicesHeld, MergeHeld, Merge
<1>2. UNCHANGED markers => Size' = Size
  BY DEF Size
(* The stages that stay.                                                   *)
<1>3. ASSUME UNCHANGED <<markers, grid, histogram>>, stage \in Later, stage' \in Later, SlicesHeld', MergeHeld'
      PROVE  RunInv'
  BY <1>0, <1>2, <1>3 DEF RunInv
<1>4. CASE Malformed
  <2>1. UNCHANGED <<markers, grid, histogram, held>> /\ stage' = "rejected"
    BY <1>4 DEF Malformed, traceVars
  <2> QED BY <1>0, <1>1, <2>1 DEF RunInv
<1>5. CASE Trace
  <2>1. UNCHANGED <<markers, grid, histogram, held, stage>> /\ stage = "tracing"
    BY <1>5 DEF Trace
  <2> QED BY <1>0, <1>1, <2>1 DEF RunInv
<1>6. CASE CloseCycle
  <2>1. /\ UNCHANGED <<markers, histogram, held>> /\ stage = "tracing" /\ WellFormed
        /\ (stage' = "built" /\ grid'.n = Size /\ ValidOn(grid'.n, grid'.O, grid'.X)) \/ stage' = "rejected"
    <3>1. TracedValid <=> Traced!ValidGrid
      BY DEF TracedValid, ValidOn, Traced!ValidGrid, Traced!IsPermutation, Traced!Rows
    <3>2. /\ UNCHANGED <<markers, histogram, held>> /\ stage = "tracing" /\ WellFormed
          /\ \/ /\ stage' = "built" /\ TracedValid
                /\ grid' = [n |-> Size, O |-> ColumnsOf(0), X |-> ColumnsOf(1)]
             \/ stage' = "rejected"
      BY <1>6, <3>1 DEF CloseCycle, traceVars
    <3>3. CASE stage' = "rejected"
      BY <3>2, <3>3
    <3>4. CASE TracedValid /\ grid' = [n |-> Size, O |-> ColumnsOf(0), X |-> ColumnsOf(1)] /\ stage' = "built"
      <4>1. grid'.n = Size /\ grid'.O = ColumnsOf(0) /\ grid'.X = ColumnsOf(1)
        BY <3>4
      <4>2. ValidOn(grid'.n, grid'.O, grid'.X)
        BY <3>4, <4>1 DEF TracedValid
      <4> QED BY <3>2, <3>4, <4>1, <4>2
    <3> QED BY <3>2, <3>3, <3>4
  <2>2. held = <<>> /\ held' = <<>>
    BY <2>1 DEF RunInv
  <2>3. SlicesHeld' /\ MergeHeld'
    BY <2>2 DEF SlicesHeld, MergeHeld
  <2>4. Size \in Nat \ {0}
    BY <2>1, SizeIs DEF TraceInv
  <2> QED BY <1>0, <1>2, <2>1, <2>2, <2>3, <2>4 DEF RunInv
<1>7. CASE PlanKnot
  <2>1. /\ UNCHANGED <<markers, grid, held>> /\ stage = "built" /\ stage' = "running"
        /\ histogram' = GradingHistogram
    BY <1>7 DEF PlanKnot, traceVars
  <2>2. histogram' = CountsOf(grid)
    BY <2>1, BuiltIsLaid, HistogramCounts
  <2> QED BY <1>0, <1>1, <1>2, <2>1, <2>2 DEF RunInv
<1>8. ASSUME NEW w, RunSlice(w)
      PROVE  RunInv'
  <2>1. /\ UNCHANGED <<markers, stage, grid, histogram>> /\ stage \in Later
        /\ Hold(<<"gen_slice", w>>, GenerateSlice(w))
    BY <1>0, <1>8 DEF RunSlice, Ready, traceVars
  <2>2. w \in 0..(CountOf(grid) - 1)
    <3>1. <<"gen_slice", w>> \in KnotJobs
      BY <1>8 DEF RunSlice, Ready, Graph!Ready
    <3>2. <<"gen_slice", w>> \in SliceKeys
      BY <3>1 DEF KnotJobs, Merge, Assemble, ReduceKeys
    <3> QED BY <3>2, SliceKeysAre
  <2>3. IsSlice(grid, w, GenerateSlice(w))
    BY <2>1, <2>2, BuiltIsLaid, SlicesAreSlices
  <2>4. SlicesHeld' /\ MergeHeld'
    <3> DEFINE j == <<"gen_slice", w>>
    <3>1. j # Merge /\ \A v : j = <<"gen_slice", v>> => v = w
      BY DEF Merge
    <3> HIDE DEF j
    <3>2. \A v : j = <<"gen_slice", v>> => IsSlice(grid, v, GenerateSlice(w))
      BY <2>3, <3>1
    <3>3. Hold(j, GenerateSlice(w))
      BY <2>1 DEF j
    <3> QED BY <1>0, <2>1, <3>1, <3>2, <3>3, HoldingOneMore
  <2> QED BY <1>3, <2>1, <2>4
<1>9. CASE RunMerge
  <2>1. UNCHANGED <<markers, stage, grid, histogram>> /\ stage \in Later
    BY <1>0, <1>9 DEF RunMerge, Ready, traceVars
  <2> QED BY <1>3, <1>9, <2>1, MergeKeeps
(* What else is held is neither a slice nor the merge.                     *)
<1>10. ASSUME NEW j, NEW result, Hold(j, result), j # Merge, \A w : j # <<"gen_slice", w>>, UNCHANGED grid
       PROVE  SlicesHeld' /\ MergeHeld'
  BY <1>0, <1>10, HoldingOneMore
<1>11. ASSUME NEW a, RunReduce(a)
       PROVE  RunInv'
  <2>1. UNCHANGED <<markers, grid, histogram>> /\ stage \in Later /\ stage' \in Later
    BY <1>0, <1>11 DEF RunReduce, Ready, traceVars
  <2>2. UNCHANGED held \/ \E result : Hold(<<"reduce", a>>, result)
    BY <1>11 DEF RunReduce
  <2>3. <<"reduce", a>> # Merge /\ \A w : <<"reduce", a>> # <<"gen_slice", w>>
    BY DEF Merge
  <2>4. SlicesHeld' /\ MergeHeld'
    BY <1>1, <1>10, <2>1, <2>2, <2>3
  <2> QED BY <1>3, <2>1, <2>4
<1>12. CASE RunAssemble
  <2>1. UNCHANGED <<markers, stage, grid, histogram>> /\ stage \in Later /\ Hold(Assemble, Poincare)
    BY <1>0, <1>12 DEF RunAssemble, Ready, traceVars
  <2>2. Assemble # Merge /\ \A w : Assemble # <<"gen_slice", w>>
    BY DEF Assemble, Merge
  <2>3. SlicesHeld' /\ MergeHeld'
    BY <1>10, <2>1, <2>2
  <2> QED BY <1>3, <2>1, <2>3
<1>13. CASE Answer
  <2>1. UNCHANGED <<markers, grid, histogram, held>> /\ stage \in Later /\ stage' \in Later
    BY <1>0, <1>13 DEF Answer, traceVars
  <2> QED BY <1>1, <1>3, <2>1
<1>14. CASE Done \/ UNCHANGED vars
  <2>1. UNCHANGED <<markers, stage, grid, histogram, held>>
    BY <1>14 DEF Done, vars, traceVars
  <2> QED BY <1>0, <1>1, <1>2, <2>1 DEF RunInv
<1> QED BY <1>4, <1>5, <1>6, <1>7, <1>8, <1>9, <1>11, <1>12, <1>13, <1>14 DEF Next

(* KnotFloerProps.JobsAccepted for knots of every size: the graph that     *)
(* whole_knot_graph (scheduling.py) builds is one JobGraph accepts and can *)
(* serve, and the merge delivers the shards the histogram declared, in     *)
(* whatever order the slices complete and are handed to it.                *)
THEOREM JobsAreAccepted == Spec => []JobsAccepted
<1>1. TraceInv /\ RunInv => JobsAccepted
  <2> SUFFICES ASSUME TraceInv, RunInv, stage = "running" PROVE
        /\ Graph!AllValid /\ Graph!Servable
        /\ \A j \in KnotJobs \ {Assemble} : Graph!Dependents(j) # {}
        /\ Merged => histogram = [a \in DOMAIN held[Merge] |-> held[Merge][a].dims]
    BY DEF JobsAccepted, Merged
  <2>1. Sized /\ histogram = CountsOf(grid)
    BY BuiltIsLaid DEF RunInv, Later
  <2>2. DOMAIN histogram # {}
    <3>1. 0 \in RanksOf(grid)
      BY <2>1, Tiling DEF RanksOf
    <3>2. AlexanderAt(grid, 0) \in DOMAIN CountsOf(grid)
      BY <3>1 DEF CountsOf
    <3> QED BY <2>1, <3>2
  <2>3. Merged => histogram = [a \in DOMAIN held[Merge] |-> held[Merge][a].dims]
    BY <2>1, PricedDimensions DEF Merged, RunInv, MergeHeld
  <2> QED BY <2>2, <2>3, GraphOfAKnot
<1>2. Init => TraceInv /\ RunInv
  BY TraceInit, RunInit
<1>3. TraceInv /\ RunInv /\ [Next]_vars => (TraceInv /\ RunInv)'
  BY TraceStep, RunStep
<1> QED BY <1>1, <1>2, <1>3, PTL DEF Spec

(* KnotFloerProps.MergeIsSerial for knots of every size: the complexes that*)
(* _merge_run (scheduling.py:126) folds, whatever the number of slices, the*)
(* order they complete in and the order they are handed over in, are entry *)
(* by entry those of grid_complexes.                                       *)
THEOREM MergesAreSerial == Spec => []MergeIsSerial
<1>1. TraceInv /\ RunInv => MergeIsSerial
  <2> SUFFICES ASSUME RunInv, Merged PROVE held[Merge] = GridComplexes
    BY DEF MergeIsSerial
  <2>1. Laid
    BY BuiltIsLaid DEF Merged, Later
  <2>2. held[Merge] = ComplexesByRank(grid)
    BY DEF Merged, RunInv, MergeHeld
  <2> QED BY <2>1, <2>2, DefinitionsSay
<1>2. Init => TraceInv /\ RunInv
  BY TraceInit, RunInit
<1>3. TraceInv /\ RunInv /\ [Next]_vars => (TraceInv /\ RunInv)'
  BY TraceStep, RunStep
<1> QED BY <1>1, <1>2, <1>3, PTL DEF Spec

(* KnotFloerProps.PriceCovers for knots of every size: the memory that     *)
(* predict_peak_bytes (algebra/memory.py) reads off the histogram, before  *)
(* any complex is built, covers the block and the pivots the reducer holds.*)
THEOREM PricesCover == Spec => []PriceCovers
<1>1. TraceInv /\ RunInv => PriceCovers
  <2> SUFFICES ASSUME RunInv, Merged, NEW a \in DOMAIN held[Merge], NEW n \in DOMAIN held[Merge][a].maps
               PROVE  LET cx == held[Merge][a]
                      IN  (cx.dims[n] + F2Rank(cx.maps[n])) * Words(cx.dims[n + 1]) * 8 <= PeakBytes(histogram[a])
    BY DEF PriceCovers
  <2>1. Laid /\ histogram = CountsOf(grid) /\ held[Merge] = ComplexesByRank(grid)
    BY BuiltIsLaid DEF Merged, Later, RunInv, MergeHeld
  <2>2. a \in DOMAIN ComplexesByRank(grid) /\ held[Merge][a] = ComplexAt(grid, a)
    BY <2>1 DEF ComplexesByRank
  <2>3. histogram[a] = ComplexAt(grid, a).dims
    BY <2>1, <2>2, PricedDimensions
  <2>4. n \in DOMAIN ComplexAt(grid, a).maps
    BY <2>2
  <2> QED BY <2>1, <2>2, <2>3, <2>4, ComplexIsPriced
<1>2. Init => TraceInv /\ RunInv
  BY TraceInit, RunInit
<1>3. TraceInv /\ RunInv /\ [Next]_vars => (TraceInv /\ RunInv)'
  BY TraceStep, RunStep
<1> QED BY <1>1, <1>2, <1>3, PTL DEF Spec
=============================================================================
