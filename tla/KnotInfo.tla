------------------------------ MODULE KnotInfo ------------------------------
(***************************************************************************)
(* The KnotInfo table as knotinfo_backend.py reads it.  A spelling of a    *)
(* name is [ks, lettered, split, knot]: the K's it starts with, whether    *)
(* its number ends in a letter (11n), whether an underscore separates it,  *)
(* and the rest.  The table itself is a package the repository uses.       *)
(***************************************************************************)
EXTENDS LinkPolynomials, SeifertForm, Reducers

CONSTANT Rows     \* name -> row: a value or Blank in every column
CONSTANT Blank    \* an empty cell
TableColumns == {"pd", "braid", "determinant", "signature", "alexander", "jones", "khovanov", "rasmussen"}
ASSUME KnotInfoAssumption == \A name \in DOMAIN Rows : DOMAIN Rows[name] = TableColumns

(* One leading K goes; an underscore is put between a letter and digits.   *)
NormalizeName(name) ==
  [name EXCEPT !.ks = Max({0, @ - 1}),
               !.split = @ \/ (name.ks < 2 /\ name.lettered)]
Known(name) == NormalizeName(name) \in DOMAIN Rows
Row(name) == Rows[NormalizeName(name)]

-----------------------------------------------------------------------------
(* The unreduced integral Khovanov column: a set of [torsion, mult, i, j]. *)
Summed(entries) ==
  [ij \in {<<e.i, e.j>> : e \in entries} |->
     MapThenSumSet(LAMBDA e : IF <<e.i, e.j>> = ij THEN e.mult ELSE 0, entries)]
FreeRanks(vec) == Summed({e \in vec : e.torsion = 0})
(* Mutant: torsion shows in one degree only.                               *)
Mod2OneDegree(vec) ==
  LET tor2 == Summed({e \in vec : e.torsion # 0 /\ e.torsion % 2 = 0})
      free == FreeRanks(vec)
  IN [ij \in DOMAIN free \cup DOMAIN tor2 |-> Entry(free, ij) + Entry(tor2, ij)]
Mod2Ranks(vec) ==
  LET free == FreeRanks(vec)
      tor2 == Summed({e \in vec : e.torsion # 0 /\ e.torsion % 2 = 0})
      places == DOMAIN free \cup DOMAIN tor2 \cup {<<ij[1] - 1, ij[2]>> : ij \in DOMAIN tor2}
  IN Sparse([ij \in places |-> Entry(free, ij) + Entry(tor2, ij) + Entry(tor2, <<ij[1] + 1, ij[2]>>)])
MirrorBigraded(table) == [ij \in {<<-d[1], -d[2]>> : d \in DOMAIN table} |-> table[<<-ij[1], -ij[2]>>]]

(* The oracle for an invariant, in the form the computed value has.        *)
ColumnOf ==
  [determinant |-> "determinant", signature |-> "signature", alexander_polynomial |-> "alexander",
   jones_polynomial |-> "jones", khovanov_homology |-> "khovanov",
   rational_khovanov_homology |-> "khovanov", rasmussen_s |-> "rasmussen"]
Converted(invariant, cell) ==
  CASE invariant = "alexander_polynomial" -> CanonicalAlexander(cell)
    [] invariant = "jones_polynomial" -> CanonicalLaurent(cell.low, cell.coeffs)
    [] invariant = "khovanov_homology" -> MirrorBigraded(Mod2Ranks(cell))
    [] invariant = "rational_khovanov_homology" -> MirrorBigraded(FreeRanks(cell))
    [] invariant = "rasmussen_s" -> -cell
    [] OTHER -> cell
OracleOf(invariant, cell) == IF cell = Blank THEN Blank ELSE Converted(invariant, cell)
KnownAnswer(name, invariant) == OracleOf(invariant, Row(name)[ColumnOf[invariant]])
=============================================================================
