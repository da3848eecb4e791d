-------------------------- MODULE LinkPolynomials --------------------------
(***************************************************************************)
(* The Jones polynomial from the Kauffman bracket (invariants/jones.py). A *)
(* Laurent polynomial maps exponents to nonzero coefficients.              *)
(***************************************************************************)
EXTENDS Cube

Plus(p, q) == Sparse([e \in DOMAIN p \cup DOMAIN q |-> Entry(p, e) + Entry(q, e)])
Times(p, q) ==
  Sparse([e \in {d + f : d \in DOMAIN p, f \in DOMAIN q} |->
            MapThenSumSet(LAMBDA d : p[d] * Entry(q, e - d), DOMAIN p)])
Power(p, k) ==
  LET power[n \in 0..k] == IF n = 0 THEN (0 :> 1) ELSE Times(power[n - 1], p)
  IN power[k]
Delta == (2 :> -1) @@ (-2 :> -1)

(* State sum over the cube: A^(a - b) delta^(circles - 1).                 *)
KauffmanBracket(circles) ==
  LET n == Cardinality(UNION DOMAIN circles)
      term(state) == Times((n - 2 * Cardinality(state)) :> 1,
                           Power(Delta, Cardinality(circles[state]) - 1))
  IN FoldSet(LAMBDA state, total : Plus(total, term(state)), <<>>, DOMAIN circles)

(* The polynomial in t = A^-4 up to writhe: its exponents in A first.      *)
Framed(pd, circles) ==
  LET w == Writhe(pd)
      bracket == KauffmanBracket(circles)
  IN Table([e \in {d - 3 * w : d \in DOMAIN bracket} |->
              (IF w % 2 = 0 THEN 1 ELSE -1) * bracket[e + 3 * w]])

(* A power of t is a multiple of 4 in A, and something is left: what       *)
(* jones_polynomial raises otherwise.                                      *)
JonesErrors(pd, circles) ==
  LET f == Framed(pd, circles)
  IN IF \E e \in DOMAIN f : e % 4 # 0 THEN {"ArithmeticError"}
     ELSE IF f = <<>> THEN {"RuntimeError"} ELSE {}

(* [low, coeffs] with no zero at either end.                               *)
CanonicalLaurent(low, coeffs) ==
  LET there == {k \in DOMAIN coeffs : coeffs[k] # 0}
  IN IF there = {} THEN [low |-> low + Len(coeffs), coeffs |-> <<>>]
     ELSE [low |-> low + Min(there) - 1, coeffs |-> SubSeq(coeffs, Min(there), Max(there))]
JonesPolynomial(pd, circles) ==
  LET f == Framed(pd, circles)
      low == Min(DOMAIN f) \div 4
  IN CanonicalLaurent(low, [k \in 1..(Max(DOMAIN f) \div 4 - low + 1) |-> Entry(f, 4 * (low + k - 1))])
=============================================================================
