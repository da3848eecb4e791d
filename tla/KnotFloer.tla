------------------------------ MODULE KnotFloer ------------------------------
(***************************************************************************)
(* From the markers of a knot to its HFK-hat: the grid is recovered from   *)
(* an unlabelled marker list (grid.py), the computation is cut into jobs   *)
(* (scheduling.py, generation.py) that the scheduler runs in any order the *)
(* graph allows, and the result is divided down (homology.py).             *)
(* The parent is one thread; what varies is the order in which workers     *)
(* complete and the order in which results are handed to the merge.        *)
(***************************************************************************)
EXTENDS Complexes, Totals, TLC

CONSTANTS MarkerLists,   \* the marker lists to start from: sequences of <<row, column>>
          SliceStates    \* SliceStates[n]: the generators per slice
(* KnotInfo's markers are numbered from 1 (grid.py), and there are some.   *)
ASSUME MarkersAssumption ==
  \A list \in MarkerLists : list # <<>> /\ list \in Seq((Nat \ {0}) \X (Nat \ {0}))
(* A slice holds at least one generator.                                   *)
ASSUME SliceAssumption ==
  \A list \in MarkerLists : SliceStates[Len(list) \div 2] \in Nat \ {0}

VARIABLES
  markers,    \* the list, numbered from 1
  colour,     \* the markers traced so far: 0 for O, 1 for X
  at, byRow,  \* the last marker traced, and whether the next arc is horizontal
  stage,      \* tracing, rejected, built, running, answered, or unvalidated
  grid,       \* the grid built: [n, O, X]
  histogram,  \* dimensions by Alexander grading and degree, known before any job runs
  held,       \* the results of the completed jobs
  hfk         \* the answer

traceVars == <<markers, colour, at, byRow>>
vars == <<traceVars, stage, grid, histogram, held, hfk>>

G == INSTANCE Grid WITH N <- grid.n, O <- grid.O, X <- grid.X

-----------------------------------------------------------------------------
(* Tracing the knot: from the first marker alternately along its row and   *)
(* its column, colouring O and X in turn, until a coloured marker is met.  *)

Size == Len(markers) \div 2
InGroup(i, axis) == {k \in DOMAIN markers : markers[k][axis] = markers[i][axis]}
WellFormed ==
  /\ Len(markers) % 2 = 0
  /\ \A i \in DOMAIN markers : Cardinality(InGroup(i, 1)) = 2 /\ Cardinality(InGroup(i, 2)) = 2

(* Mutant: the arc is looked up in the rows only.                          *)
PartnerInRow(i) == CHOOSE k \in InGroup(i, 1) \ {i} : TRUE
Partner(i) == CHOOSE k \in InGroup(i, IF byRow THEN 1 ELSE 2) \ {i} : TRUE

Malformed ==
  /\ stage = "tracing" /\ ~WellFormed
  /\ stage' = "rejected"
  /\ UNCHANGED <<traceVars, grid, histogram, held, hfk>>

Trace ==
  /\ stage = "tracing" /\ WellFormed
  /\ Partner(at) \notin DOMAIN colour
  /\ colour' = [i \in DOMAIN colour \cup {Partner(at)} |->
                  IF i \in DOMAIN colour THEN colour[i] ELSE 1 - colour[at]]
  /\ at' = Partner(at) /\ byRow' = ~byRow
  /\ UNCHANGED <<markers, stage, grid, histogram, held, hfk>>

(* The column of the marker of a colour, row by row, rows reversed: the    *)
(* chirality of the tabulation.                                            *)
ColumnsOf(c) ==
  [r \in 0..(Size - 1) |->
     markers[CHOOSE i \in DOMAIN markers : markers[i][1] = Size - r /\ colour[i] = c][2] - 1]
Traced == INSTANCE Grid WITH N <- Size, O <- ColumnsOf(0), X <- ColumnsOf(1)

(* A row beyond the size is an index error, a column beyond it or a shared *)
(* cell is refused by the constructor of the grid.                         *)
CloseCycle ==
  /\ stage = "tracing" /\ WellFormed
  /\ Partner(at) \in DOMAIN colour
  /\ IF /\ Cardinality(DOMAIN colour) = 2 * Size
        /\ \A i \in DOMAIN markers : markers[i][1] <= Size
        /\ Traced!ValidGrid
       THEN stage' = "built" /\ grid' = [n |-> Size, O |-> ColumnsOf(0), X |-> ColumnsOf(1)]
       ELSE stage' = "rejected" /\ UNCHANGED grid
  /\ UNCHANGED <<traceVars, histogram, held, hfk>>

-----------------------------------------------------------------------------
(* What is known of the complexes before any is built: the number of       *)
(* generators per Alexander grading and degree.                            *)

Degree(x) == -G!Maslov(x)
AllRanks == 0..(G!Total - 1)
GradingHistogram ==
  LET all == {G!Unrank(k) : k \in AllRanks}
      alexander == Table([x \in all |-> G!Alexander(x)])
      degree == Table([x \in all |-> Degree(x)])
      graded(a) == {x \in all : alexander[x] = a}
  IN [a \in {alexander[x] : x \in all} |->
        [d \in {degree[x] : x \in graded(a)} |-> Cardinality({x \in graded(a) : degree[x] = d})]]

PlanKnot ==
  /\ stage = "built"
  /\ histogram' = GradingHistogram /\ stage' = "running"
  /\ UNCHANGED <<traceVars, grid, held, hfk>>

(* The graph of one knot: slices, their merge partitioned by grading, a    *)
(* reduction of each shard, the assembly.                                  *)
SliceKeys == {<<"gen_slice", w>> : w \in 0..(G!SliceCount(SliceStates[grid.n]) - 1)}
Merge == <<"gen_merge">>
ReduceKeys == {<<"reduce", a>> : a \in DOMAIN histogram}
Assemble == <<"assemble">>

Shard(a) == ToString(a)   \* shard keys and "whole" in one set
KnotJobs == SliceKeys \cup {Merge} \cup ReduceKeys \cup {Assemble}
WholeOf(keys) == {<<k, "whole">> : k \in keys}
(* Mutant: a reduction depends on the whole merge.                         *)
DepsOnWhole ==
  [j \in KnotJobs |-> CASE j \in SliceKeys -> {}
                        [] j = Merge -> WholeOf(SliceKeys)
                        [] j \in ReduceKeys -> WholeOf({Merge})
                        [] j = Assemble -> WholeOf(ReduceKeys)]
KnotDeps ==
  [j \in KnotJobs |-> CASE j \in SliceKeys -> {}
                        [] j = Merge -> WholeOf(SliceKeys)
                        [] j \in ReduceKeys -> {<<Merge, Shard(j[2])>>}
                        [] j = Assemble -> WholeOf(ReduceKeys)]
KnotShards == [j \in KnotJobs |-> IF j = Merge THEN {Shard(a) : a \in DOMAIN histogram} ELSE {}]

Graph == INSTANCE JobGraph WITH Jobs <- KnotJobs, Deps <- KnotDeps, Shards <- KnotShards

-----------------------------------------------------------------------------
(* A slice: the generators of its ranks in order, each with its gradings   *)
(* and the ranks of its targets.                                           *)
TargetRanks(x) ==
  LET codes == {ij[1] * grid.n + ij[2] : ij \in G!SurvivingPairs(x)}
      target(code) == G!Transpose(x, code \div grid.n, code % grid.n)
  IN [k \in 1..Cardinality(codes) |-> G!RankOf(target(G!Nth(codes, k - 1)))]
Generated(x) ==
  [maslov |-> G!Maslov(x), alexander |-> G!Alexander(x), targets |-> TargetRanks(x)]
GenerateSlice(w) ==
  LET count == G!SliceCount(SliceStates[grid.n])
      start == G!SliceStart(G!Total, count, w)
  IN [start |-> start,
      gens |-> [k \in 1..(G!SliceStop(G!Total, count, w) - start) |-> Generated(G!Unrank(start + k - 1))]]

(* The merge: generators by global rank, the targets of all of them in one *)
(* array in rank order, with the offset at which those of a generator begin.*)
FlatTargets(blocks) == FlattenSeq([b \in DOMAIN blocks |->
                         FlattenSeq([k \in DOMAIN blocks[b].gens |-> blocks[b].gens[k].targets])])
(* Mutant: the blocks stay in the order the slices were handed over in.    *)
BlocksAsGiven(slices) == slices
BlocksByStart(slices) ==
  LET before(i) == {j \in DOMAIN slices : slices[j].start < slices[i].start}
  IN [b \in DOMAIN slices |-> slices[CHOOSE i \in DOMAIN slices : Cardinality(before(i)) = b - 1]]

GenerationOf(slices) ==
  LET total == Total([i \in DOMAIN slices |-> Len(slices[i].gens)], DOMAIN slices)
      sliceOf(r) == CHOOSE i \in DOMAIN slices :
                      slices[i].start <= r /\ r < slices[i].start + Len(slices[i].gens)
      gen == Table([r \in 0..(total - 1) |->
                LET s == slices[sliceOf(r)] IN s.gens[r - s.start + 1]])
      offset[r \in 0..total] == IF r = 0 THEN 0 ELSE offset[r - 1] + Len(gen[r - 1].targets)
  IN [total |-> total, gen |-> gen, offset |-> Table(offset), flat |-> FlatTargets(BlocksByStart(slices))]

(* One complex per grading: positions in rank order within a degree; the   *)
(* column of a generator holds the positions of the targets one degree up. *)
BuildComplexes(m) ==
  LET ranks == 0..(m.total - 1)
      alexander == Table([r \in ranks |-> m.gen[r].alexander])
      degree == Table([r \in ranks |-> -m.gen[r].maslov])
      block(a, d) == {r \in ranks : alexander[r] = a /\ degree[r] = d}
      position == Table([r \in ranks |->
                    Cardinality({s \in block(alexander[r], degree[r]) : s < r})])
      column == Table([r \in ranks |->
                  {position[m.flat[k]] : k \in {i \in (m.offset[r] + 1)..m.offset[r + 1] :
                                                   degree[m.flat[i]] = degree[r] + 1}}])
      columns(S) == [k \in 1..Cardinality(S) |-> column[CHOOSE r \in S : position[r] = k - 1]]
      degrees(a) == {degree[r] : r \in {s \in ranks : alexander[s] = a}}
  IN [a \in {alexander[r] : r \in ranks} |->
        [dims |-> [d \in degrees(a) |-> Cardinality(block(a, d))],
         maps |-> NonZero(Table([d \in degrees(a) |-> columns(block(a, d))]))]]

(* The reference: the same complexes straight from the definitions.        *)
GridComplexes ==
  LET alexander == Table([x \in G!Generators |-> G!Alexander(x)])
      complex(S) ==
        LET degree == Table([x \in S |-> Degree(x)])
            block(d) == {x \in S : degree[x] = d}
            position == Table([x \in S |-> Cardinality({y \in block(degree[x]) : G!Before(y, x)})])
            column(x) == {position[y] : y \in {z \in G!Differential(x) \cap S :
                                                 degree[z] = degree[x] + 1}}
            degrees == {degree[x] : x \in S}
        IN [dims |-> [d \in degrees |-> Cardinality(block(d))],
            maps |-> NonZero(Table([d \in degrees |->
              [k \in 1..Cardinality(block(d)) |->
                 column(CHOOSE x \in block(d) : position[x] = k - 1)]]))]
  IN [a \in {alexander[x] : x \in G!Generators} |-> complex({x \in G!Generators : alexander[x] = a})]

-----------------------------------------------------------------------------
(* The jobs.  A job runs when the graph has it ready; slices are handed to *)
(* the merge in the order of a hash set.                                   *)

Hold(j, result) == held' = [k \in DOMAIN held \cup {j} |-> IF k = j THEN result ELSE held[k]]
Ready(j) == stage = "running" /\ j \in Graph!Ready(DOMAIN held)

RunSlice(w) ==
  /\ Ready(<<"gen_slice", w>>)
  /\ Hold(<<"gen_slice", w>>, GenerateSlice(w))
  /\ UNCHANGED <<traceVars, stage, grid, histogram, hfk>>

Orders(S) == {[i \in 1..Cardinality(S) |-> <<"gen_slice", p[i]>>] :
                p \in {f \in [1..Cardinality(S) -> {k[2] : k \in S}] :
                         \A i, j \in DOMAIN f : f[i] = f[j] => i = j}}
RunMerge ==
  /\ Ready(Merge)
  /\ \E order \in Orders(SliceKeys) :
       Hold(Merge, BuildComplexes(GenerationOf([i \in DOMAIN order |-> held[order[i]]])))
  /\ UNCHANGED <<traceVars, stage, grid, histogram, hfk>>

(* A negative Betti number fails the reduction and, with it, the knot.     *)
RunReduce(a) ==
  /\ Ready(<<"reduce", a>>)
  /\ LET cx == held[Merge][a]
     IN IF \E n \in DOMAIN cx.dims : Betti(cx, n) < 0
          THEN stage' = "unvalidated" /\ UNCHANGED held
          ELSE Hold(<<"reduce", a>>, Homology(cx)) /\ UNCHANGED stage
  /\ UNCHANGED <<traceVars, grid, histogram, hfk>>

Poincare ==
  LET cells == {<<-d, k[2]>> : d \in UNION {DOMAIN held[k] : k \in ReduceKeys}, k \in ReduceKeys}
      dims == [c \in cells |-> Dim(held[<<"reduce", c[2]>>], -c[1])]
  IN [c \in {b \in cells : dims[b] # 0} |-> dims[c]]
RunAssemble ==
  /\ Ready(Assemble)
  /\ Hold(Assemble, Poincare)
  /\ UNCHANGED <<traceVars, stage, grid, histogram, hfk>>

-----------------------------------------------------------------------------
(* The grid homology is HFK-hat with n - 1 factors of V: divided out from  *)
(* the top corner down, and multiplied back to check.                      *)

At(p, c) == IF c \in DOMAIN p THEN p[c] ELSE 0
Support(p) == [c \in {b \in DOMAIN p : p[b] # 0} |-> p[c]]

DivideByV(p) ==
  IF p = <<>> THEN p
  ELSE LET ms == {c[1] : c \in DOMAIN p}
           as == {c[2] : c \in DOMAIN p}
           box == (Min(ms)..Max(ms)) \X (Min(as)..Max(as))
           q[c \in box] ==
             At(p, c) - (IF <<c[1] + 1, c[2] + 1>> \in box THEN q[<<c[1] + 1, c[2] + 1>>] ELSE 0)
       IN Support([c \in box |-> q[c]])
TensorV(p) ==
  Support([c \in DOMAIN p \cup {<<b[1] - 1, b[2] - 1>> : b \in DOMAIN p} |->
             At(p, c) + At(p, <<c[1] + 1, c[2] + 1>>)])
Times(op(_), count, p) ==
  LET after[k \in 0..count] == IF k = 0 THEN p ELSE op(after[k - 1]) IN after[count]

Quotient == Times(DivideByV, grid.n - 1, held[Assemble])

Answer ==
  /\ stage = "running" /\ Assemble \in DOMAIN held
  /\ IF (\A c \in DOMAIN Quotient : Quotient[c] >= 0)
          /\ Times(TensorV, grid.n - 1, Quotient) = held[Assemble]
       THEN stage' = "answered" /\ hfk' = Quotient
       ELSE stage' = "unvalidated" /\ UNCHANGED hfk
  /\ UNCHANGED <<traceVars, grid, histogram, held>>

-----------------------------------------------------------------------------
Init ==
  /\ markers \in MarkerLists
  /\ colour = [i \in {1} |-> 0] /\ at = 1 /\ byRow = TRUE
  /\ stage = "tracing" /\ grid = [n |-> 0, O |-> <<>>, X |-> <<>>]
  /\ histogram = <<>> /\ held = <<>> /\ hfk = <<>>

(* The call has returned, with the answer or with the refusal of the list. *)
Done == stage \in {"rejected", "answered"} /\ UNCHANGED vars

Next ==
  \/ Malformed \/ Trace \/ CloseCycle \/ PlanKnot
  \/ \E k \in (IF stage = "running" THEN SliceKeys ELSE {}) : RunSlice(k[2])
  \/ RunMerge
  \/ \E k \in (IF stage = "running" THEN ReduceKeys ELSE {}) : RunReduce(k[2])
  \/ RunAssemble
  \/ Answer
  \/ Done
Spec == Init /\ [][Next]_vars
==============================================================================
