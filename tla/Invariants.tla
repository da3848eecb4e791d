----------------------------- MODULE Invariants -----------------------------
(***************************************************************************)
(* From a request to its answers: diagrams/build.py normalises a name, a   *)
(* PD code or a braid word, and invariants/compute.py computes one         *)
(* invariant after another from the diagram and compares it with KnotInfo. *)
(* The Khovanov invariants pass through the front end, which assembles     *)
(* complexes, and the back end, which checks and reduces them.             *)
(***************************************************************************)
EXTENDS KnotInfo

(* What a client may ask for: a name ("name"), a PD code ("pd") or a braid *)
(* word ("braid"), the last two with a name or NoIdentity.                 *)
CONSTANTS Requests, NoIdentity

VARIABLES request,    \* [kind, name, pd, word, validate]
          diagram,    \* Unbuilt, [refused |-> error] or [pd, braid, identity]
          cube,       \* the circles of every state, once they are resolved
          complexes,  \* [lane, parts, qdeg] between assembly and reduction, or Idle
          answers     \* invariant -> [value, known] or [raised |-> error]
vars == <<request, diagram, cube, complexes, answers>>

Unbuilt == [unbuilt |-> TRUE]
Idle == [lane |-> "none"]
Refused(error) == [refused |-> error]
Raised(error) == [raised |-> error]

(* The invariants, in the order the client of this model asks for them.    *)
SeifertInvariants == <<"determinant", "signature", "alexander_polynomial">>
PdInvariants ==
  <<"jones_polynomial", "khovanov_homology", "rational_khovanov_homology", "rasmussen_s">>
Order == SeifertInvariants \o PdInvariants
Asked == Order[Cardinality(DOMAIN answers) + 1]

Built == diagram # Unbuilt /\ DOMAIN diagram # {"refused"}
Asking(invariants) == Built /\ Cardinality(DOMAIN answers) < Len(Order) /\ Asked \in ToSet(invariants)

-----------------------------------------------------------------------------
(* build.py                                                                *)
FromName(name) ==
  LET identity == NormalizeName(name)
  IN CASE ~Known(identity) -> Refused("UnknownKnot")
       [] Known(identity) /\ Row(identity).pd = Blank -> Refused("UnknownKnot")
       [] Known(identity) /\ Row(identity).pd # Blank /\ ~WellFormed(Row(identity).pd) ->
            Refused("ValueError")
       [] OTHER -> [pd |-> Row(identity).pd, braid |-> Blank, identity |-> identity]
FromPD(pd, identity) ==
  IF WellFormed(pd) THEN [pd |-> pd, braid |-> Blank, identity |-> identity]
  ELSE Refused("ValueError")
FromBraid(word, identity) ==
  IF word = <<>> \/ 0 \in ToSet(word) THEN Refused("ValueError")
  ELSE [pd |-> <<>>, braid |-> word,
        identity |-> IF identity = NoIdentity THEN identity ELSE NormalizeName(identity)]

Build ==
  /\ diagram = Unbuilt
  /\ diagram' = CASE request.kind = "name" -> FromName(request.name)
                  [] request.kind = "pd" -> FromPD(request.pd, request.name)
                  [] request.kind = "braid" -> FromBraid(request.word, request.name)
  /\ UNCHANGED <<request, cube, complexes, answers>>

-----------------------------------------------------------------------------
(* _finalize: the oracle is asked for, and an answer that it does not      *)
(* confirm is only returned to a client that opted out of validation.      *)
Oracle(invariant) ==
  IF diagram.identity = NoIdentity THEN Blank ELSE KnownAnswer(diagram.identity, invariant)
Compared(value, oracle) ==
  IF oracle = Blank THEN "not_available" ELSE IF value = oracle THEN "pass" ELSE "fail"
Returning(value, known) ==
  IF request.validate /\ known # "pass" THEN Raised("UnvalidatedResult")
  ELSE [value |-> value, known |-> known]
Finalize(invariant, value) ==
  IF diagram.identity # NoIdentity /\ ~Known(diagram.identity) THEN Raised("UnknownKnot")
  ELSE Returning(value, Compared(value, Oracle(invariant)))

Answer(outcome) == answers' = (Asked :> outcome) @@ answers

(* The Seifert form: of the request's word, or of the table's.             *)
Word ==
  IF diagram.braid # Blank THEN diagram.braid
  ELSE IF diagram.identity # NoIdentity /\ Known(diagram.identity) THEN Row(diagram.identity).braid
  ELSE Blank
FromSeifertForm(invariant, v) ==
  CASE invariant = "determinant" -> Magnitude(Determinant(Symmetrized(v)))
    [] invariant = "signature" -> Signature(Symmetrized(v))
    [] OTHER -> AlexanderPolynomial(v)
ComputeSeifert ==
  /\ Asking(SeifertInvariants)
  /\ Answer(IF Word = Blank THEN Raised("UnknownKnot")
            ELSE IF Asked = "determinant" /\ Gens(Word) = <<>> THEN Raised("IndexError")
            ELSE Finalize(Asked, FromSeifertForm(Asked, SeifertMatrix(Word))))
  /\ UNCHANGED <<request, diagram, cube, complexes>>

(* A PD invariant of a diagram without a PD code.                          *)
RefuseBraid ==
  /\ Asking(PdInvariants)
  /\ diagram.pd = <<>>
  /\ Answer(Raised("UnknownKnot"))
  /\ UNCHANGED <<request, diagram, cube, complexes>>

-----------------------------------------------------------------------------
(* The states of the cube are resolved once for all PD invariants here;    *)
(* the code does it again for each, with the same result.                  *)
ResolveCube ==
  /\ Asking(PdInvariants)
  /\ diagram.pd # <<>> /\ cube = <<>>
  /\ cube' = Resolved(diagram.pd)
  /\ UNCHANGED <<request, diagram, complexes, answers>>
Ready(invariants) == Asking(invariants) /\ cube # <<>> /\ complexes = Idle

(* seifert_structure raises before a sign or a writhe is known.            *)
Orientable == Oriented(diagram.pd) /\ Traversable(diagram.pd)
OrientationError == IF Oriented(diagram.pd) THEN "KeyError" ELSE "ValueError"
RefuseUnoriented ==
  /\ Ready(PdInvariants)
  /\ ~Orientable
  /\ Answer(Raised(OrientationError))
  /\ UNCHANGED <<request, diagram, cube, complexes>>

ComputeJones ==
  /\ Ready(<<"jones_polynomial">>)
  /\ Orientable
  /\ LET errors == JonesErrors(diagram.pd, cube)
     IN Answer(IF errors = {} THEN Finalize(Asked, JonesPolynomial(diagram.pd, cube))
               ELSE Raised(CHOOSE error \in errors : TRUE))
  /\ UNCHANGED <<request, diagram, cube, complexes>>

(* The front end of the three Khovanov invariants.                         *)
Lane == [khovanov_homology |-> "f2", rational_khovanov_homology |-> "q", rasmussen_s |-> "lee"]
Assembled(lane) ==
  CASE lane = "f2" ->
         LET signed == KhovanovComplexes(diagram.pd, cube)
         IN [lane |-> lane, parts |-> Table([j \in DOMAIN signed |-> OverF2(signed[j])])]
    [] lane = "q" -> [lane |-> lane, parts |-> KhovanovComplexes(diagram.pd, cube)]
    [] lane = "lee" ->
         LET bases == LeeBases(diagram.pd, cube)
         IN [lane |-> lane, parts |-> (0 :> SignedComplex(TRUE, cube, bases)),
             qdeg |-> [i \in DOMAIN bases |->
                         [k \in DOMAIN bases[i] |-> Quantum(diagram.pd, cube, bases[i][k])]]]
AssembleComplexes ==
  /\ Ready(Tail(PdInvariants))
  /\ Orientable
  /\ IF EdgesFit(cube) THEN complexes' = Assembled(Lane[Asked]) /\ UNCHANGED answers
     ELSE Answer(Raised("RuntimeError")) /\ UNCHANGED complexes
  /\ UNCHANGED <<request, diagram, cube>>

-----------------------------------------------------------------------------
(* The back end: d^2 = 0 is checked, then the ranks are taken.             *)
Verified ==
  \A j \in DOMAIN complexes.parts :
    IF complexes.lane = "f2" THEN F2SquaresToZero(complexes.parts[j])
    ELSE SquaresToZero(complexes.parts[j])

Bigraded(homology) ==
  [ij \in UNION {{<<i, j>> : i \in DOMAIN homology[j]} : j \in DOMAIN homology} |->
     homology[ij[2]][ij[1]]]

(* rasmussen_s: the dimension of F^k H^0 by ranks of parts of d.           *)
FiltrationDim(cx, q0, k) ==
  LET columns(n) == IF n \in DOMAIN cx.maps THEN cx.maps[n] ELSE <<>>
      high == {pos \in DOMAIN q0 : q0[pos] >= k}
      kept == SelectSeq([pos \in DOMAIN q0 |-> pos], LAMBDA pos : pos \in high)
      z == [n \in DOMAIN kept |-> columns(0)[kept[n]]]
      low(column) == Table([r \in DOMAIN column \ high |-> column[r]])
  IN Cardinality(high) - RationalRank(z)
       - (RationalRank(columns(-1)) - RationalRank([n \in DOMAIN columns(-1) |-> low(columns(-1)[n])]))
Levels(cx, q0, dim) == {k \in ToSet(q0) : FiltrationDim(cx, q0, k) = dim}
(* Not a knot; no level of a dimension, of which max() is taken; a gap     *)
(* that is not 2.                                                          *)
RasmussenErrors(cx, qdeg) ==
  LET level(dim) == Levels(cx, qdeg[0], dim)
  IN IF RationalHomology(cx) # (0 :> 2) THEN {"RuntimeError"}
     ELSE IF {} \in {level(1), level(2)} THEN {"ValueError"}
     ELSE IF Max(level(1)) # Max(level(2)) + 2 THEN {"RuntimeError"} ELSE {}
(* Mutant: the lower level of the two is taken for s.                      *)
LowerLevel(cx, qdeg) == Max(Levels(cx, qdeg[0], 2))
RasmussenS(cx, qdeg) == Max(Levels(cx, qdeg[0], 2)) + 1

Reduced ==
  CASE complexes.lane = "f2" -> Bigraded([j \in DOMAIN complexes.parts |-> Homology(complexes.parts[j])])
    [] complexes.lane = "q" ->
         Bigraded([j \in DOMAIN complexes.parts |-> RationalHomology(complexes.parts[j])])
    [] complexes.lane = "lee" -> RasmussenS(complexes.parts[0], complexes.qdeg)
ReductionErrors ==
  IF ~Verified THEN {"RuntimeError"}
  ELSE IF complexes.lane = "lee" THEN RasmussenErrors(complexes.parts[0], complexes.qdeg) ELSE {}
ReduceComplexes ==
  /\ complexes # Idle
  /\ complexes' = Idle
  /\ Answer(IF ReductionErrors = {} THEN Finalize(Asked, Reduced)
            ELSE Raised(CHOOSE error \in ReductionErrors : TRUE))
  /\ UNCHANGED <<request, diagram, cube>>

(* The client has all its answers, or the error that refused its diagram.  *)
Finished ==
  \/ DOMAIN diagram = {"refused"}
  \/ Cardinality(DOMAIN answers) = Len(Order)

-----------------------------------------------------------------------------
Init ==
  /\ request \in Requests
  /\ diagram = Unbuilt
  /\ cube = <<>>
  /\ complexes = Idle
  /\ answers = <<>>
Next ==
  \/ Build \/ ComputeSeifert \/ RefuseBraid \/ ResolveCube
  \/ RefuseUnoriented \/ ComputeJones \/ AssembleComplexes \/ ReduceComplexes
  \/ Finished /\ UNCHANGED vars
Spec == Init /\ [][Next]_vars
=============================================================================
