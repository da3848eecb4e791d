-------------------------------- MODULE Cube --------------------------------
(***************************************************************************)
(* The cube of resolutions of a diagram (engines/cube.py) and the complexes*)
(* over it: Khovanov's over F2 and Q (engines/khovanov/differential.py)    *)
(* and Lee's (lee.py).  A state is the set of crossings resolved by bit 1, *)
(* a circle the set of its arcs, an enhanced generator a state with the    *)
(* set of the circles that carry the label x (the code's -1).              *)
(***************************************************************************)
EXTENDS Diagrams, Complexes

Joined(x, bit) == IF bit = 0 THEN {{x[2], x[3]}, {x[4], x[1]}} ELSE {{x[1], x[2]}, {x[3], x[4]}}

(* Union-find, as the partition it stands for.                             *)
Union(partition, pair) ==
  LET met == {block \in partition : block \cap pair # {}}
  IN (partition \ met) \cup {UNION met}
Resolve(pd, state) ==
  LET after[k \in 0..Len(pd)] ==
        IF k = 0 THEN {{arc} : arc \in Labels(pd)}
        ELSE FoldSet(LAMBDA pair, blocks : Union(blocks, pair), after[k - 1],
                     Joined(pd[k], IF k \in state THEN 1 ELSE 0))
  IN after[Len(pd)]
Resolved(pd) == Table([state \in SUBSET DOMAIN pd |-> Resolve(pd, state)])

-----------------------------------------------------------------------------
(* Generators and gradings (gradings.py).                                  *)
Generators(circles) ==
  UNION {[state : {state}, x : SUBSET circles[state]] : state \in DOMAIN circles}
Homological(pd, g) == Cardinality(g.state) - Negative(pd)
(* Mutant: the shift of the homological degree is forgotten.               *)
QuantumUnshifted(pd, circles, g) ==
  Cardinality(circles[g.state]) - 2 * Cardinality(g.x) + Cardinality(g.state)
Quantum(pd, circles, g) ==
  Cardinality(circles[g.state]) - 2 * Cardinality(g.x)
    + Cardinality(g.state) + Positive(pd) - 2 * Negative(pd)

-----------------------------------------------------------------------------
(* The Frobenius algebras: x.x is 0 for Khovanov and 1 for Lee.  A product *)
(* or coproduct is the set of its terms, each the set of new circles that  *)
(* carry x; xs is the set of old circles that do.                          *)
Multiply(lee, xs, merged) ==
  CASE xs = {} -> {{}}
    [] Cardinality(xs) = 1 -> {{merged}}
    [] OTHER -> IF lee THEN {{}} ELSE {}
Comultiply(lee, xs, new) ==
  IF xs = {} THEN {{circle} : circle \in new}
  ELSE {new} \cup (IF lee THEN {{}} ELSE {})

(* Flipping a crossing of a diagram merges two circles or splits one; the  *)
(* code raises when the number of circles stays.                           *)
EdgesFit(circles) ==
  \A state \in DOMAIN circles : \A c \in UNION DOMAIN circles \ state :
    Cardinality(circles[state \cup {c}]) # Cardinality(circles[state])

Targets(lee, circles, g, c) ==
  LET from == circles[g.state]
      to == circles[g.state \cup {c}]
      xs == g.x \ to
      terms == IF Cardinality(to) < Cardinality(from)
               THEN Multiply(lee, xs, CHOOSE circle \in to \ from : TRUE)
               ELSE Comultiply(lee, xs, to \ from)
  IN {[state |-> g.state \cup {c}, x |-> (g.x \cap to) \cup term] : term \in terms}
(* Mutant: the bits after the crossing are not told from those before it.  *)
SignOfWeight(state, c) == IF Cardinality(state) % 2 = 1 THEN -1 ELSE 1
(* (-1) to the number of 1-bits before the flipped crossing.               *)
EdgeSign(state, c) == IF Cardinality({k \in state : k < c}) % 2 = 1 THEN -1 ELSE 1

(* d(g): its targets with their signs.                                     *)
Boundary(lee, circles, g) ==
  LET free == UNION DOMAIN circles \ g.state
      flipped(t) == CHOOSE c \in t.state : c \notin g.state
  IN [t \in UNION {Targets(lee, circles, g, c) : c \in free} |-> EdgeSign(g.state, flipped(t))]

-----------------------------------------------------------------------------
(* A complex over Z from its bases, a sequence of generators per degree.   *)
(* Columns are maps from rows to nonzero integers.                         *)
Listed(set) == FoldSet(LAMBDA e, seq : Append(seq, e), <<>>, set)
Bases(pd, gens) ==
  Table([i \in {Homological(pd, g) : g \in gens} |->
           Listed({g \in gens : Homological(pd, g) = i})])
InBasis(basis, g) == CHOOSE k \in DOMAIN basis : basis[k] = g
Column(lee, circles, bases, i, g) ==
  LET d == Boundary(lee, circles, g)
  IN Table([r \in {InBasis(bases[i + 1], t) : t \in DOMAIN d} |-> d[bases[i + 1][r]]])
SignedComplex(lee, circles, bases) ==
  [dims |-> Table([i \in DOMAIN bases |-> Len(bases[i])]),
   maps |-> Table([i \in DOMAIN bases |->
              Table([k \in DOMAIN bases[i] |-> Column(lee, circles, bases, i, bases[i][k])])])]

(* One complex per quantum grading over Q; over F2 the same without signs. *)
KhovanovComplexes(pd, circles) ==
  LET gens == Generators(circles)
  IN Table([j \in {Quantum(pd, circles, g) : g \in gens} |->
        SignedComplex(FALSE, circles, Bases(pd, {g \in gens : Quantum(pd, circles, g) = j}))])
OverF2(cx) ==
  [cx EXCEPT !.maps = [i \in DOMAIN @ |-> [k \in DOMAIN @[i] |-> DOMAIN @[i][k]]]]

(* The differential keeps the quantum grading; the code raises otherwise.  *)
GradingKept(pd, circles) ==
  \A g \in Generators(circles) : \A t \in DOMAIN Boundary(FALSE, circles, g) :
    Quantum(pd, circles, t) = Quantum(pd, circles, g)

(* Lee's complex has all quantum degrees together.                         *)
LeeBases(pd, circles) == Bases(pd, Generators(circles))
=============================================================================
