-------------------------- MODULE InvariantsProps --------------------------
(***************************************************************************)
(* What the answers of Invariants should satisfy: against the table, among *)
(* each other, and on the way from a diagram to them.                      *)
(***************************************************************************)
EXTENDS Invariants

CONSTANTS PresentingWords, PresentingCodes   \* name -> what presents the knot

Returned(invariant) == invariant \in DOMAIN answers /\ DOMAIN answers[invariant] # {"raised"}
Value(invariant) == answers[invariant].value
Tabulated ==
  /\ Built
  /\ diagram.identity # NoIdentity /\ Known(diagram.identity)
  /\ CASE request.kind = "name" -> TRUE
       [] request.kind = "pd" -> diagram.pd \in PresentingCodes[diagram.identity]
       [] request.kind = "braid" -> diagram.braid \in PresentingWords[diagram.identity]

(* Where the code is known to fall short: a diagram of one crossing, both  *)
(* of whose labels meet themselves there so that its sign is misread, and  *)
(* the determinant of a word without a loop.  (Where one label does, as in *)
(* a curl of a longer diagram, the sign comes out right.)                  *)
Excepted(invariant) ==
  \/ invariant \in ToSet(PdInvariants) /\ Len(diagram.pd) < 2
  \/ invariant = "determinant" /\ Gens(Word) = <<>>

(* TabulatedConfirmed: whatever diagram of a tabulated knot is given, every*)
(* answer compute() gives agrees with KnotInfo's column, mirrored where the*)
(* backend mirrors it, and is returned; only an empty cell leaves it       *)
(* unconfirmed.                                                            *)
TabulatedConfirmed ==
  \A invariant \in DOMAIN answers :
    Tabulated /\ ~Excepted(invariant)
      => \/ KnownAnswer(diagram.identity, invariant) = Blank
         \/ Returned(invariant) /\ answers[invariant].known = "pass"

-----------------------------------------------------------------------------
(* CubesAreComplexes: the differentials the front end assembles from a     *)
(* diagram whose edges merge or split keep the quantum grading and square  *)
(* to zero over F2, over Q with the edge signs, and over Q with Lee's maps,*)
(* so that the d^2 = 0 check of the back end never raises.                 *)
CubesAreComplexes ==
  /\ complexes # Idle => Verified
  /\ complexes # Idle /\ complexes.lane = "f2" => GradingKept(diagram.pd, cube)

(* ReducersAgree: every reducer of algebra/ finds the same ranks in the    *)
(* blocks of an assembled complex, and cancellation leaves as many         *)
(* generators as the ranks predict.                                        *)
ReducersAgree ==
  complexes # Idle /\ complexes.lane # "lee" =>
    \A j \in DOMAIN complexes.parts :
      LET cx == complexes.parts[j]
      IN IF complexes.lane = "f2"
         THEN /\ \A n \in DOMAIN cx.maps :
                   LET rank == F2Rank(cx.maps[n])
                       rows == Dim(cx.dims, n + 1)
                   IN PackedRank(cx.maps[n], rows) = rank /\ DenseRank(cx.maps[n], rows) = rank
         ELSE /\ \A n \in DOMAIN cx.maps :
                   RationalRankMultimodular(cx.maps[n]) = RationalRank(cx.maps[n])
              /\ CancelAll(Q, cx) = RationalHomology(cx)
              /\ CancelAll(2, cx) = Homology(OverF2(cx))

-----------------------------------------------------------------------------
(* EulerIsJones: the graded Euler characteristic of either Khovanov        *)
(* homology is (q + 1/q) V(q^-2), for tabulated diagrams and for any other *)
(* that the code gives both answers for.                                   *)
Euler(kh) ==
  Sparse([j \in {ij[2] : ij \in DOMAIN kh} |->
    MapThenSumSet(LAMBDA ij : IF ij[2] # j THEN 0 ELSE IF ij[1] % 2 = 0 THEN kh[ij] ELSE -kh[ij],
                  DOMAIN kh)])
Unnormalized(v) ==
  Times((1 :> 1) @@ (-1 :> 1),
        Sparse([e \in {-2 * (v.low + k - 1) : k \in DOMAIN v.coeffs} |-> v.coeffs[(-e \div 2) - v.low + 1]]))
EulerIsJones ==
  \A kh \in {"khovanov_homology", "rational_khovanov_homology"} :
    Returned("jones_polynomial") /\ Returned(kh)
      => Euler(Value(kh)) = Unnormalized(Value("jones_polynomial"))

(* KnightMoves: the rational Khovanov homology of a knot is q^s (q + 1/q)  *)
(* and knight moves (1 + t q^4), with s the answer of the Lee lane, and the*)
(* F2 homology is divisible by q + 1/q.                                    *)
Divides(di, dj, kh) ==      \* 1 + t^di q^dj, with a nonnegative quotient
  LET is == {ij[1] : ij \in DOMAIN kh}
      js == {ij[2] : ij \in DOMAIN kh}
      box == (Min(is)..Max(is)) \X (Min(js)..Max(js))
      quotient[ij \in box] ==
        Entry(kh, ij)
          - (IF <<ij[1] - di, ij[2] - dj>> \in box THEN quotient[<<ij[1] - di, ij[2] - dj>>] ELSE 0)
  IN \A ij \in box : /\ quotient[ij] >= 0
                     /\ <<ij[1] + di, ij[2] + dj>> \notin box => quotient[ij] = 0
KnightMoves ==
  /\ Returned("rasmussen_s") /\ Returned("rational_khovanov_homology") =>
       LET s == Value("rasmussen_s")
           kh == Value("rational_khovanov_homology")
           unit == [ij \in {<<0, s - 1>>, <<0, s + 1>>} |-> -1]
       IN Plus(kh, unit) # <<>> => Divides(1, 4, Plus(kh, unit))
  /\ Returned("khovanov_homology") => Divides(0, 2, Value("khovanov_homology"))

-----------------------------------------------------------------------------
(* SurfacesAgree: what is read off the braid's Seifert form and off the    *)
(* diagram fits together.  |V(-1)| and |Alexander(-1)| are the determinant,*)
(* the Alexander polynomial is a palindrome with value +-1 at 1, half the  *)
(* signature tells the determinant modulo 4, the genus of the diagram's    *)
(* Seifert surface bounds the degree and the signature, s lies within the  *)
(* Bennequin bounds of the diagram, and is the signature if it alternates. *)
(* Answers that raise are not judged here but by TabulatedConfirmed.       *)
AtMinusOne(low, coeffs) ==
  MapThenSumSet(LAMBDA k : IF (low + k) % 2 = 0 THEN -coeffs[k] ELSE coeffs[k], DOMAIN coeffs)
Alternating(pd) ==
  \A label \in Labels(pd) : {place[2] % 2 : place \in Places(pd, label)} = {0, 1}
FormAgrees ==
  Returned("determinant") /\ Returned("signature") /\ Returned("alexander_polynomial") =>
    LET alexander == Value("alexander_polynomial")
    IN /\ Magnitude(AtMinusOne(0, alexander)) = Value("determinant")
       /\ Reverse(alexander) = alexander
       /\ Magnitude(FoldLeft(+, 0, alexander)) = 1
       /\ Value("determinant") % 4 = 1 <=> Value("signature") % 4 = 0
DiagramAgrees ==
  LET pd == diagram.pd
  IN /\ Returned("jones_polynomial") /\ Returned("determinant") =>
          Magnitude(AtMinusOne(Value("jones_polynomial").low, Value("jones_polynomial").coeffs))
            = Value("determinant")
     /\ Returned("jones_polynomial") /\ Returned("alexander_polynomial") /\ Returned("signature") =>
          /\ Len(Value("alexander_polynomial")) - 1 <= 2 * Genus(pd)
          /\ Magnitude(Value("signature")) <= 2 * Genus(pd)
     /\ Returned("rasmussen_s") =>
          /\ Value("rasmussen_s") \in Writhe(pd) - Cardinality(SeifertCircles(pd)) + 1
                                      ..Writhe(pd) + Cardinality(SeifertCircles(pd)) - 1
          /\ Returned("signature") /\ Alternating(pd) => Value("rasmussen_s") = Value("signature")
(* A word closes to one component: its permutation is one cycle.           *)
ClosesToKnot(word) ==
  LET strands == 1..Max({Size(word[k]) : k \in DOMAIN word}) + 1
      through(p, c) == IF p = Size(c) THEN p + 1 ELSE IF p = Size(c) + 1 THEN p - 1 ELSE p
      orbit[n \in 1..Cardinality(strands)] ==
        IF n = 1 THEN 1 ELSE FoldLeft(through, orbit[n - 1], word)
  IN {orbit[n] : n \in DOMAIN orbit} = strands
SurfacesAgree ==
  Built => /\ (Word # Blank /\ ClosesToKnot(Word) => FormAgrees)
           /\ (Tabulated => DiagramAgrees)

(* BraidMovesKept: the answers read off the Seifert form are those of the  *)
(* knot and not of the word: they stay under conjugation, stabilisation,   *)
(* an inserted cancelling pair and the braid relation, and the mirror word *)
(* only negates the signature.  A word without a repeated generator has an *)
(* empty form; its determinant is taken for the 1 of the unknot here, where*)
(* the code raises an IndexError (Excepted, above).                        *)
Moved(word) ==
  LET strands == Max({Size(word[k]) : k \in DOMAIN word})
  IN {Tail(word) \o <<Head(word)>>, word \o <<strands + 1>>, <<-strands - 1>> \o word}
       \cup {<<j>> \o word \o <<-j>> : j \in (-strands..strands) \ {0}}
       \cup {[word EXCEPT ![k] = word[k + 1], ![k + 1] = word[k], ![k + 2] = word[k + 1]] :
               k \in {n \in 1..Len(word) - 2 : /\ word[n] = word[n + 2]
                                               /\ word[n] - word[n + 1] \in {-1, 1}}}
FormOf(word) ==
  LET v == SeifertMatrix(word)
  IN [determinant |-> IF v = <<>> THEN 1 ELSE FromSeifertForm("determinant", v),
      signature |-> FromSeifertForm("signature", v),
      alexander_polynomial |-> FromSeifertForm("alexander_polynomial", v)]
BraidMovesKept ==
  LET mirrored == [k \in DOMAIN Word |-> -Word[k]]
  IN Built /\ answers = <<>> /\ Word # Blank /\ ClosesToKnot(Word) =>
       /\ \A word \in Moved(Word) : FormOf(word) = FormOf(Word)
       /\ FormOf(mirrored) = [FormOf(Word) EXCEPT !.signature = -@]
=============================================================================
