------------------------------- MODULE GridTau -------------------------------
(***************************************************************************)
(* The Ozsvath-Szabo tau of a grid (engines/floer/tau.py): the lowest      *)
(* Alexander level of the filtered complex whose cycles carry the one      *)
(* surviving class of Maslov grading 0.  Generators are named by rank.     *)
(***************************************************************************)
EXTENDS Grid, Complexes

InMaslov(m) == {k \in 0..(Total - 1) : Maslov(Unrank(k)) = m}
Ascending(S) == [k \in 1..Cardinality(S) |-> Nth(S, k - 1)]
(* Mutant: rectangles avoid every marker, as in the graded complex.        *)
GradedBoundary(ranks, into) ==
  [k \in DOMAIN ranks |-> {RankOf(y) : y \in Differential(Unrank(ranks[k]))} \cap into]
(* The columns of the boundary map, as sets of ranks.                      *)
Boundary(ranks, into) ==
  [k \in DOMAIN ranks |-> {RankOf(y) : y \in FilteredDifferential(Unrank(ranks[k]))} \cap into]

(* The level, or nothing when the surviving class is not one class, or no  *)
(* level carries it.                                                       *)
Tau ==
  LET zero == Table(Ascending(InMaslov(0)))
      d0 == Table(Boundary(zero, InMaslov(-1)))
      d1 == Table(Boundary(Ascending(InMaslov(1)), InMaslov(0)))
      rank == F2Rank(d1)
      level == Table([k \in DOMAIN zero |-> Alexander(Unrank(zero[k]))])
      below(a) == SelectSeq([k \in DOMAIN zero |-> k], LAMBDA k : level[k] <= a)
      cycles(a) ==
        LET ks == below(a)
            relations == F2Kernel([p \in DOMAIN ks |-> d0[ks[p]]])
        IN [i \in DOMAIN relations |-> {zero[ks[p]] : p \in relations[i]}]
      carrying == {a \in {level[k] : k \in DOMAIN zero} :
                     F2Rank(d1 \o cycles(a)) > rank}
  IN IF Len(zero) - F2Rank(d0) - rank # 1 \/ carrying = {} THEN {} ELSE {Min(carrying)}
==============================================================================
