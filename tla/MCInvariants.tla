---------------------------- MODULE MCInvariants ----------------------------
(* A table of the unknot, both trefoils and the figure-eight knot, every     *)
(* word of at most three letters that closes to a knot with the diagram of   *)
(* its closure, longer words of the tabulated knots, all oriented codes of   *)
(* two crossings, planar or not, and codes and words that are refused.       *)
EXTENDS InvariantsProps

(* The diagram of a closure.  A passage is a crossing with the side it is    *)
(* entered from; passage t arrives by arc t.  A crossing +j has its          *)
(* understrand from the right.                                               *)
Letters == {-2, -1, 1, 2}
PassagesOf(word) ==
  LET next(k, p) ==      \* the first crossing from k on that strand p meets
        LET meets == {n \in 0..Len(word) - 1 : p - Size(word[((k - 1 + n) % Len(word)) + 1]) \in {0, 1}}
        IN ((k - 1 + Min(meets)) % Len(word)) + 1
      pass(k, p) == [k |-> k, right |-> p = Size(word[k]) + 1]
      after(t) == Size(word[t.k]) + (IF t.right THEN 0 ELSE 1)
      at[t \in 1..2 * Len(word)] ==
        IF t = 1 THEN pass(next(1, 1), 1)
        ELSE LET before == at[t - 1]
             IN pass(next((before.k % Len(word)) + 1, after(before)), after(before))
  IN Table(at)
Closure(word) ==
  LET passages == PassagesOf(word)
      in(k, right) == CHOOSE t \in DOMAIN passages : passages[t] = [k |-> k, right |-> right]
      out(k, right) == (in(k, right) % (2 * Len(word))) + 1
  IN Table([k \in DOMAIN word |->
        IF word[k] > 0 THEN <<in(k, TRUE), in(k, FALSE), out(k, TRUE), out(k, FALSE)>>
        ELSE <<in(k, FALSE), out(k, TRUE), out(k, FALSE), in(k, TRUE)>>])
Negated(word) == Table([k \in DOMAIN word |-> -word[k]])
(* KnotInfo's codes are the mirror of its words in this convention.          *)
Diagram(word) == Closure(Negated(word))

Name(knot) == [ks |-> 0, lettered |-> FALSE, split |-> TRUE, knot |-> knot]
Unknot == Name("unknot")
Trefoil == Name("trefoil")
Mirror == [ks |-> 0, lettered |-> TRUE, split |-> TRUE, knot |-> "mirror"]
FigureEight == Name("eight")
Unfilled == Name("unfilled")     \* a trefoil with empty cells
Undrawn == Name("undrawn")       \* no PD code
Missing == Name("missing")       \* not in the table

Summand(torsion, i, j) == [torsion |-> torsion, mult |-> 1, i |-> i, j |-> j]
Free(degrees) == {Summand(0, ij[1], ij[2]) : ij \in degrees}
TrefoilRow ==
  [braid |-> <<1, 1, 1>>, determinant |-> 3, signature |-> -2,
   alexander |-> <<1, -1, 1>>, jones |-> [low |-> 1, coeffs |-> <<1, 0, 1, -1>>], rasmussen |-> 2,
   khovanov |-> Free({<<3, 9>>, <<2, 5>>, <<0, 3>>, <<0, 1>>}) \cup {Summand(2, 3, 7)}]
Cells ==
  (Unknot :>
    [braid |-> <<1, 2>>, determinant |-> 1, signature |-> 0,
     alexander |-> <<1>>, jones |-> [low |-> 0, coeffs |-> <<1>>], rasmussen |-> 0,
     khovanov |-> Free({<<0, 1>>, <<0, -1>>})])
  @@ (Trefoil :> TrefoilRow)
  @@ (Mirror :>
    [braid |-> <<-1, -1, -1>>, determinant |-> 3, signature |-> 2,
     alexander |-> <<-1, 1, -1>>, jones |-> [low |-> -5, coeffs |-> <<0, -1, 1, 0, 1>>],
     rasmussen |-> -2,
     khovanov |-> Free({<<-3, -9>>, <<-2, -5>>, <<0, -3>>, <<0, -1>>}) \cup {Summand(2, -2, -7)}])
  @@ (FigureEight :>
    [braid |-> <<1, -2, 1, -2>>, determinant |-> 5, signature |-> 0,
     alexander |-> <<1, -3, 1>>, jones |-> [low |-> -2, coeffs |-> <<1, -1, 1, -1, 1>>],
     rasmussen |-> 0,
     khovanov |-> Free({<<-2, -5>>, <<-1, -1>>, <<0, -1>>, <<0, 1>>, <<1, 1>>, <<2, 5>>})
                    \cup {Summand(2, -1, -3), Summand(2, 2, 3)}])
  @@ (Unfilled :> [TrefoilRow EXCEPT !.jones = Blank, !.khovanov = Blank, !.rasmussen = Blank])
  @@ (Undrawn :> TrefoilRow)
MCRows ==
  Table([name \in DOMAIN Cells |->
    (IF name = Undrawn THEN [pd |-> Blank] ELSE [pd |-> Diagram(Cells[name].braid)]) @@ Cells[name]])

KnotWords(n) == {w \in [1..n -> Letters] : ClosesToKnot(w)}
TrefoilWords == {<<1, 1, 1>>, <<1, 1, 1, 2>>, <<1, 2, 1, 2>>, <<-2, 1, 1, 1>>}
MirrorWords == {Negated(w) : w \in TrefoilWords}
FigureEightWords == {<<1, -2, 1, -2>>, <<-2, 1, -2, 1>>, <<-1, 2, -1, 2>>}
UnknotWords == (KnotWords(1) \cup KnotWords(2) \cup KnotWords(3)) \ (TrefoilWords \cup MirrorWords)
MCPresentingWords ==
  (Unknot :> UnknotWords) @@ (Trefoil :> TrefoilWords) @@ (Mirror :> MirrorWords)
    @@ (FigureEight :> FigureEightWords) @@ Table([name \in DOMAIN Cells |-> {}])
MCPresentingCodes == Table([name \in DOMAIN Cells |-> {Diagram(w) : w \in MCPresentingWords[name]}])

(* Oriented codes of two crossings: any way to cut the knot's four passages. *)
OrientedCodes ==
  {pd \in [1..2 -> (1..4) \X (1..4) \X (1..4) \X (1..4)] : WellFormed(pd) /\ Oriented(pd)}
ByName(name) == [kind |-> "name", name |-> name, pd |-> <<>>, word |-> <<>>, validate |-> TRUE]
ByPD(pd, name, validate) ==
  [kind |-> "pd", name |-> name, pd |-> pd, word |-> <<>>, validate |-> validate]
ByBraid(word, name, validate) ==
  [kind |-> "braid", name |-> name, pd |-> <<>>, word |-> word, validate |-> validate]
Spellings ==
  DOMAIN Cells \cup {Missing, [Trefoil EXCEPT !.ks = 1], [Mirror EXCEPT !.ks = 2],
                      [Mirror EXCEPT !.split = FALSE], [Trefoil EXCEPT !.split = FALSE]}
Refusable == {<<>>, <<<<1, 1, 2>>>>, <<<<1, 2, 2, 2>>>>, <<<<3, 1, 4, 2>>, <<1, 3, 2, 5>>>>,
              <<<<0, 2, 1, 3>>, <<2, 0, 3, 1>>>>, <<<<2, 4, 1, 3>>, <<1, 3, 2, 4>>>>}
MCRequests ==
  {ByName(name) : name \in Spellings}
    \cup UNION {{ByPD(pd, name, TRUE) : pd \in MCPresentingCodes[name]} : name \in DOMAIN Cells}
    \cup UNION {{ByBraid(w, name, TRUE) : w \in MCPresentingWords[name]} : name \in DOMAIN Cells}
    \cup {ByPD(pd, NoIdentity, FALSE) : pd \in OrientedCodes \cup Refusable}
    \cup {ByPD(Diagram(<<1, 1, 1>>), Mirror, TRUE), ByPD(Diagram(<<1, 2>>), Missing, FALSE),
          ByPD(Diagram(<<1, 2>>), NoIdentity, TRUE), ByBraid(<<>>, NoIdentity, TRUE),
          ByBraid(<<1, 0>>, NoIdentity, TRUE), ByBraid(<<1, 1>>, NoIdentity, FALSE),
          ByBraid(<<1, 1, 1>>, [Mirror EXCEPT !.ks = 1], FALSE)}
=============================================================================
