------------------------------ MODULE Diagrams ------------------------------
(***************************************************************************)
(* Planar diagram codes (diagrams/pd.py) and the oriented structure that   *)
(* Seifert's algorithm reads off them (diagrams/seifert_construction.py).  *)
(* A crossing is <<a, b, c, d>>, arcs counterclockwise from the incoming   *)
(* understrand; pd is a sequence of crossings.  Nothing here says that a   *)
(* code is planar: the code does not check it either.                      *)
(***************************************************************************)
EXTENDS Integers, FiniteSets, FiniteSetsExt, Sequences, SequencesExt

Labels(pd) == UNION {ToSet(pd[k]) : k \in DOMAIN pd}
Places(pd, label) == {<<k, p>> \in (DOMAIN pd) \X (1..4) : pd[k][p] = label}

(* What normalize accepts; it raises a ValueError for anything else.       *)
WellFormed(pd) ==
  /\ pd # <<>>
  /\ \A k \in DOMAIN pd : Len(pd[k]) = 4
  /\ \A label \in Labels(pd) : Cardinality(Places(pd, label)) = 2
  /\ Labels(pd) \in {0..2 * Len(pd) - 1, 1..2 * Len(pd)}

-----------------------------------------------------------------------------
(* Orientation.  Arcs are numbered along the knot from 1; the test for     *)
(* b -> d comes first.                                                     *)
Nxt(pd, arc) == (arc % (2 * Len(pd))) + 1
OverFromB(pd, x) == x[4] = Nxt(pd, x[2])
OverFromD(pd, x) == x[2] = Nxt(pd, x[4])

(* The crossings keep the convention; otherwise a ValueError.              *)
Oriented(pd) ==
  \A k \in DOMAIN pd : /\ pd[k][3] = Nxt(pd, pd[k][1])
                       /\ OverFromB(pd, pd[k]) \/ OverFromD(pd, pd[k])

OverIn(pd, x) == IF OverFromB(pd, x) THEN x[2] ELSE x[4]
OverOut(pd, x) == IF OverFromB(pd, x) THEN x[4] ELSE x[2]

(* The sign of a crossing from where its arcs leave it.  Of two places of  *)
(* one arc at a crossing the table position keeps the last.                *)
Direction == <<<<1, 0>>, <<0, 1>>, <<-1, 0>>, <<0, -1>>>>
Position(x, arc) == Direction[Max({p \in 1..4 : x[p] = arc})]
Sign(pd, x) ==
  LET turn(u, v) == u[1] * v[2] - u[2] * v[1]
      along(from, to) == [c \in 1..2 |-> Position(x, to)[c] - Position(x, from)[c]]
  IN IF turn(along(x[1], x[3]), along(OverIn(pd, x), OverOut(pd, x))) > 0 THEN 1 ELSE -1

Writhe(pd) == MapThenSumSet(LAMBDA k : Sign(pd, pd[k]), DOMAIN pd)

(* The orientation-preserving smoothing as a successor on arcs; an arc that*)
(* enters no crossing is a KeyError when the walk comes to it.             *)
Smoothing(pd) ==
  UNION {{<<pd[k][1], OverOut(pd, pd[k])>>, <<OverIn(pd, pd[k]), pd[k][3]>>} : k \in DOMAIN pd}
Traversable(pd) == {s[1] : s \in Smoothing(pd)} = 1..2 * Len(pd)

Successor(pd) == [arc \in Labels(pd) |-> (CHOOSE s \in Smoothing(pd) : s[1] = arc)[2]]
SeifertCircle(pd, arc) ==
  LET walk[n \in 0..2 * Len(pd)] == IF n = 0 THEN arc ELSE Successor(pd)[walk[n - 1]]
  IN {walk[n] : n \in DOMAIN walk}
SeifertCircles(pd) == {SeifertCircle(pd, arc) : arc \in Labels(pd)}
Genus(pd) == (Len(pd) - Cardinality(SeifertCircles(pd)) + 1) \div 2

(* crossing_counts: n+ + n- = n and n+ - n- = writhe.                      *)
Positive(pd) == (Len(pd) + Writhe(pd)) \div 2
Negative(pd) == Len(pd) - Positive(pd)
=============================================================================
