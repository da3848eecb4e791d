---------------------------- MODULE TotalsProofs ----------------------------
(***************************************************************************)
(* What a total is, whatever is added up: the facts about sums that the    *)
(* proofs on memory use.  The library's induction theorems take an         *)
(* operator; here induction is by least counterexample (WFMin).            *)
(***************************************************************************)
EXTENDS Totals, FiniteSetTheorems, WellFoundedInduction, TLAPS

Pick(s) == CHOOSE x \in s : TRUE

(* f adds up the weights w over the subsets of S, one element at a time.   *)
Adds(f, w, S) ==
  /\ DOMAIN f = SUBSET S
  /\ f[{}] = 0
  /\ \A s \in SUBSET S : s # {} => f[s] = w[Pick(s)] + f[s \ {Pick(s)}]

Unfolds(f, w, S) ==
  f = [s \in SUBSET S |-> IF s = {} THEN 0 ELSE w[Pick(s)] + f[s \ {Pick(s)}]]

(* The same for the subsets of at most n elements.                         *)
AddsUpTo(f, n, w, S) ==
  /\ f[{}] = 0
  /\ \A s \in SUBSET S : s # {} /\ Cardinality(s) <= n => f[s] = w[Pick(s)] + f[s \ {Pick(s)}]

LEMMA LeastNat == ASSUME NEW T \in SUBSET Nat, T # {} PROVE \E n \in T : \A m \in T : n <= m
<1>1. \E n \in T : \A m \in T : ~(<<m, n>> \in OpToRel(<, Nat))
  BY NatLessThanWellFounded, WFMin, Zenon
<1>2. PICK n \in T : \A m \in T : ~(<<m, n>> \in OpToRel(<, Nat))
  BY <1>1
<1>3. \A m \in T : ~(m < n)
  BY <1>2 DEF OpToRel
<1> QED BY <1>3

(* Induction: a set with 0 and every successor of a member is Nat.         *)
LEMMA Counting ==
  ASSUME NEW S \in SUBSET Nat, 0 \in S, \A n \in S : n + 1 \in S
  PROVE  S = Nat
<1> SUFFICES ASSUME Nat \ S # {} PROVE FALSE
  OBVIOUS
<1>1. PICK n \in Nat \ S : \A m \in Nat \ S : n <= m
  BY LeastNat
<1>2. n # 0 /\ n - 1 \in Nat /\ ~(n <= n - 1)
  OBVIOUS
<1>3. n - 1 \in S
  BY <1>1, <1>2
<1> QED BY <1>3

LEMMA PickIn == \A s : s # {} => Pick(s) \in s
BY DEF Pick

LEMMA AddingExists ==
  ASSUME NEW w, NEW S, IsFiniteSet(S), NEW n \in Nat
  PROVE  \E f : DOMAIN f = SUBSET S /\ AddsUpTo(f, n, w, S)
<1> DEFINE Bad == {m \in Nat : ~\E f : DOMAIN f = SUBSET S /\ AddsUpTo(f, m, w, S)}
<1> SUFFICES ASSUME Bad # {} PROVE FALSE
  OBVIOUS
<1>1. PICK m \in Bad : \A k \in Bad : m <= k
  BY LeastNat
<1>0. \A s \in SUBSET S : IsFiniteSet(s) /\ Cardinality(s) \in Nat /\ (Cardinality(s) = 0 <=> s = {})
  BY FS_Subset, FS_CardinalityType, FS_EmptySet
<1>2. m # 0
  <2> DEFINE f == [s \in SUBSET S |-> 0]
  <2> SUFFICES ASSUME m = 0 PROVE FALSE
    OBVIOUS
  <2>1. DOMAIN f = SUBSET S /\ AddsUpTo(f, 0, w, S)
    BY <1>0 DEF AddsUpTo
  <2> QED BY <2>1
<1>3. m - 1 \in Nat /\ m - 1 \notin Bad
  <2>1. m \in Nat /\ m - 1 \in Nat /\ ~(m <= m - 1)
    BY <1>2
  <2> HIDE DEF Bad
  <2> QED BY <2>1, <1>1
<1>4. PICK f : DOMAIN f = SUBSET S /\ AddsUpTo(f, m - 1, w, S)
  BY <1>3
<1> DEFINE g == [s \in SUBSET S |-> IF Cardinality(s) <= m - 1 THEN f[s] ELSE w[Pick(s)] + f[s \ {Pick(s)}]]
<1>5. AddsUpTo(g, m, w, S)
  <2>1. g[{}] = 0
    BY <1>4, <1>3, FS_EmptySet DEF AddsUpTo
  <2>2. ASSUME NEW s \in SUBSET S, s # {}, Cardinality(s) <= m
        PROVE  g[s] = w[Pick(s)] + g[s \ {Pick(s)}]
    <3> DEFINE r == s \ {Pick(s)}
    <3>1. r \in SUBSET S /\ Cardinality(r) = Cardinality(s) - 1
      BY <1>0, <2>2, PickIn, FS_RemoveElement
    <3>2. g[r] = f[r]
      BY <3>1, <2>2, <1>0
    <3>3. g[s] = w[Pick(s)] + f[r]
      BY <1>4, <2>2, <1>0 DEF AddsUpTo
    <3> QED BY <3>2, <3>3
  <2> QED BY <2>1, <2>2 DEF AddsUpTo
<1>6. DOMAIN g = SUBSET S
  OBVIOUS
<1> HIDE DEF g
<1> QED BY <1>1, <1>5, <1>6

LEMMA TotalAdds ==
  ASSUME NEW w, NEW S, IsFiniteSet(S)
  PROVE  \E f : Adds(f, w, S) /\ Total(w, S) = f[S]
<1>0. \A s \in SUBSET S : IsFiniteSet(s) /\ Cardinality(s) \in Nat /\ Cardinality(s) <= Cardinality(S)
  BY FS_Subset, FS_CardinalityType
<1>1. Cardinality(S) \in Nat
  BY FS_CardinalityType
<1>2. PICK g : DOMAIN g = SUBSET S /\ AddsUpTo(g, Cardinality(S), w, S)
  BY <1>1, AddingExists
<1> DEFINE h == [s \in SUBSET S |-> g[s]]
<1>3. Unfolds(h, w, S)
  BY <1>0, <1>2, PickIn DEF AddsUpTo, Unfolds
<1> DEFINE f == CHOOSE it : Unfolds(it, w, S)
<1>4. Unfolds(f, w, S)
  BY <1>3
<1>5. Total(w, S) = f[S]
  BY DEF Total, MapThenSumSet, MapThenFoldSet, Unfolds, Pick
<1>6. Adds(f, w, S)
  BY <1>4, PickIn DEF Unfolds, Adds
<1> QED BY <1>5, <1>6

(* Whatever element is taken out, its weight is what the rest is short of. *)
LEMMA AnyElement ==
  ASSUME NEW w, NEW S, IsFiniteSet(S), \A k \in S : w[k] \in Int, NEW f, Adds(f, w, S)
  PROVE  \A s \in SUBSET S : f[s] \in Int /\ \A x \in s : f[s] = w[x] + f[s \ {x}]
<1> DEFINE Right(s) == f[s] \in Int /\ \A x \in s : f[s] = w[x] + f[s \ {x}]
           Bad == {Cardinality(s) : s \in {r \in SUBSET S : ~Right(r)}}
<1> SUFFICES ASSUME NEW z \in SUBSET S, ~Right(z) PROVE FALSE
  OBVIOUS
<1>0. \A s \in SUBSET S : IsFiniteSet(s) /\ Cardinality(s) \in Nat
  BY FS_Subset, FS_CardinalityType
<1>1. Bad \in SUBSET Nat /\ Bad # {}
  BY <1>0
<1>2. PICK n \in Bad : \A m \in Bad : n <= m
  BY <1>1, LeastNat
<1>3. PICK s \in SUBSET S : ~Right(s) /\ Cardinality(s) = n
  BY <1>2
<1>4. ASSUME NEW x \in s PROVE Right(s \ {x})
  <2>1. s \ {x} \in SUBSET S /\ Cardinality(s \ {x}) = n - 1 /\ n \in Nat
    BY <1>0, <1>3, FS_RemoveElement
  <2>2. n - 1 \notin Bad
    <3> HIDE DEF Bad
    <3> QED BY <2>1, <1>2, <1>1
  <2> HIDE DEF Right
  <2> QED BY <2>1, <2>2
<1>5. s # {}
  <2>1. f[{}] = 0
    BY DEF Adds
  <2>2. Right({})
    BY <2>1
  <2> HIDE DEF Right
  <2> QED BY <1>3, <2>2
<1> DEFINE c == Pick(s)
<1>6. c \in s
  BY <1>5, PickIn
<1>7. f[s] = w[c] + f[s \ {c}] /\ f[s \ {c}] \in Int /\ f[s] \in Int
  <2>1. f[s] = w[c] + f[s \ {c}]
    BY <1>5 DEF Adds
  <2>2. f[s \ {c}] \in Int
    BY <1>4, <1>6
  <2> QED BY <2>1, <2>2, <1>6
<1> HIDE DEF c
<1>8. ASSUME NEW x \in s, x # c PROVE f[s] = w[x] + f[s \ {x}]
  <2>1. f[s \ {c}] = w[x] + f[(s \ {c}) \ {x}] /\ f[s \ {x}] = w[c] + f[(s \ {x}) \ {c}]
    BY <1>4, <1>6, <1>8
  <2>2. (s \ {c}) \ {x} = (s \ {x}) \ {c}
    OBVIOUS
  <2>3. w[x] \in Int /\ w[c] \in Int
    BY <1>6
  <2>4. f[(s \ {x}) \ {c}] \in Int
    <3>1. Right(s \ {x}) /\ c \in s \ {x}
      BY <1>4, <1>6, <1>8
    <3>2. Right((s \ {x}) \ {c})
      <4>1. (s \ {x}) \ {c} \in SUBSET S /\ Cardinality((s \ {x}) \ {c}) = n - 2 /\ n \in Nat /\ n - 2 \in Nat
        <5>1. s \ {x} \in SUBSET S /\ Cardinality(s \ {x}) = n - 1 /\ n \in Nat
          BY <1>0, <1>3, FS_RemoveElement
        <5>2. (s \ {x}) \ {c} \in SUBSET S /\ IsFiniteSet(s \ {x})
          BY <1>0, <5>1
        <5>3. Cardinality((s \ {x}) \ {c}) = (n - 1) - 1
          <6> DEFINE r == s \ {x}
          <6>1. c \in r /\ IsFiniteSet(r) /\ Cardinality(r) = n - 1
            BY <5>1, <5>2, <3>1
          <6> HIDE DEF r
          <6>2. Cardinality(r \ {c}) = n - 1 - 1
            <7>1. Cardinality(r \ {c}) = Cardinality(r) - 1
              BY <6>1, FS_RemoveElement
            <7> QED BY <6>1, <7>1
          <6> QED BY <6>2 DEF r
        <5>4. Cardinality((s \ {x}) \ {c}) \in Nat
          BY <5>2, <1>0
        <5> QED BY <5>1, <5>2, <5>3, <5>4
      <4>2. n - 2 \notin Bad
        <5> HIDE DEF Bad
        <5> QED BY <4>1, <1>2, <1>1
      <4> HIDE DEF Right
      <4> QED BY <4>1, <4>2
    <3> QED BY <3>2
  <2>5. f[s \ {x}] = w[c] + f[(s \ {c}) \ {x}]
    BY <2>1, <2>2
  <2>6. f[(s \ {c}) \ {x}] \in Int
    BY <2>2, <2>4
  <2>7. f[s] = w[c] + (w[x] + f[(s \ {c}) \ {x}])
    BY <2>1, <1>7
  <2> HIDE DEF Right
  <2> QED BY <2>3, <2>5, <2>6, <2>7
<1>9. \A x \in s : f[s] = w[x] + f[s \ {x}]
  BY <1>7, <1>8
<1> QED BY <1>3, <1>7, <1>9

(* Two additions of the same weights agree on what both can add.           *)
LEMMA AddingAgrees ==
  ASSUME NEW w, NEW v, NEW S, NEW T, IsFiniteSet(S),
         NEW f, NEW g, Adds(f, w, S), Adds(g, v, T), S \subseteq T, \A k \in S : w[k] = v[k]
  PROVE  \A s \in SUBSET S : f[s] = g[s]
<1> DEFINE Bad == {Cardinality(s) : s \in {r \in SUBSET S : f[r] # g[r]}}
<1> SUFFICES ASSUME NEW z \in SUBSET S, f[z] # g[z] PROVE FALSE
  OBVIOUS
<1>0. \A s \in SUBSET S : IsFiniteSet(s) /\ Cardinality(s) \in Nat
  BY FS_Subset, FS_CardinalityType
<1>1. Bad \in SUBSET Nat /\ Bad # {}
  BY <1>0
<1>2. PICK n \in Bad : \A m \in Bad : n <= m
  BY <1>1, LeastNat
<1>3. PICK s \in SUBSET S : f[s] # g[s] /\ Cardinality(s) = n
  BY <1>2
<1>5. s # {}
  BY <1>3 DEF Adds
<1> DEFINE c == Pick(s)
<1>6. c \in s
  BY <1>5, PickIn
<1>7. f[s] = w[c] + f[s \ {c}] /\ g[s] = v[c] + g[s \ {c}] /\ w[c] = v[c]
  BY <1>5, <1>6 DEF Adds
<1>8. s \ {c} \in SUBSET S /\ Cardinality(s \ {c}) = n - 1 /\ n \in Nat
  BY <1>0, <1>3, <1>6, FS_RemoveElement
<1>9. n - 1 \notin Bad
  <2> HIDE DEF Bad
  <2> QED BY <1>8, <1>2, <1>1
<1>10. f[s \ {c}] = g[s \ {c}]
  <2> HIDE DEF c
  <2> QED BY <1>8, <1>9
<1> QED BY <1>3, <1>7, <1>10

-----------------------------------------------------------------------------
(* What a caller needs of a total.                                         *)
LEMMA TotalEmpty == \A w : Total(w, {}) = 0
<1> TAKE w
<1>1. PICK f : Adds(f, w, {}) /\ Total(w, {}) = f[{}]
  BY TotalAdds, FS_EmptySet
<1> QED BY <1>1 DEF Adds

LEMMA TotalType ==
  ASSUME NEW w, NEW S, IsFiniteSet(S), \A k \in S : w[k] \in Int
  PROVE  Total(w, S) \in Int
<1>1. PICK f : Adds(f, w, S) /\ Total(w, S) = f[S]
  BY TotalAdds
<1> QED BY <1>1, AnyElement

(* Only the weights of the elements matter.                                *)
LEMMA TotalSame ==
  ASSUME NEW w, NEW v, NEW S, IsFiniteSet(S), \A k \in S : w[k] = v[k]
  PROVE  Total(w, S) = Total(v, S)
<1>1. PICK f : Adds(f, w, S) /\ Total(w, S) = f[S]
  BY TotalAdds
<1>2. PICK g : Adds(g, v, S) /\ Total(v, S) = g[S]
  BY TotalAdds
<1>3. \A s \in SUBSET S : f[s] = g[s]
  BY <1>1, <1>2, AddingAgrees
<1> QED BY <1>1, <1>2, <1>3

LEMMA TotalRemove ==
  ASSUME NEW w, NEW S, IsFiniteSet(S), \A k \in S : w[k] \in Int, NEW x \in S
  PROVE  Total(w, S) = w[x] + Total(w, S \ {x})
<1>0. IsFiniteSet(S \ {x})
  BY FS_RemoveElement
<1>1. PICK f : Adds(f, w, S) /\ Total(w, S) = f[S]
  BY TotalAdds
<1>2. PICK g : Adds(g, w, S \ {x}) /\ Total(w, S \ {x}) = g[S \ {x}]
  BY <1>0, TotalAdds
<1>3. f[S] = w[x] + f[S \ {x}]
  BY <1>1, AnyElement
<1>4. g[S \ {x}] = f[S \ {x}]
  BY <1>0, <1>1, <1>2, AddingAgrees
<1> QED BY <1>1, <1>2, <1>3, <1>4

LEMMA TotalAdd ==
  ASSUME NEW w, NEW S, IsFiniteSet(S), NEW x, x \notin S, \A k \in S \cup {x} : w[k] \in Int
  PROVE  Total(w, S \cup {x}) = w[x] + Total(w, S)
<1> DEFINE T == S \cup {x}
<1>1. IsFiniteSet(T) /\ x \in T /\ T \ {x} = S /\ \A k \in T : w[k] \in Int
  BY FS_AddElement
<1> HIDE DEF T
<1>2. Total(w, T) = w[x] + Total(w, T \ {x})
  BY <1>1, TotalRemove
<1> QED BY <1>1, <1>2 DEF T

(* Adding up more, of more, gives more.                                    *)
THEOREM TotalGrows ==
  ASSUME NEW w, NEW v, NEW S, NEW T, IsFiniteSet(T), S \subseteq T,
         \A k \in S : w[k] \in Int /\ w[k] <= v[k], \A k \in T : v[k] \in Nat
  PROVE  Total(w, S) <= Total(v, T)
<1> DEFINE Right(R) == Total(w, S \cap R) <= Total(v, R)
           Bad == {Cardinality(R) : R \in {r \in SUBSET T : ~Right(r)}}
<1>0. \A R \in SUBSET T : IsFiniteSet(R) /\ IsFiniteSet(S \cap R) /\ Cardinality(R) \in Nat
  BY FS_Subset, FS_CardinalityType, FS_Intersection
<1>1. SUFFICES ASSUME ~Right(T) PROVE FALSE
  <2>1. S \cap T = S
    OBVIOUS
  <2> QED BY <2>1
<1>2. Bad \in SUBSET Nat /\ Bad # {}
  BY <1>0, <1>1
<1>3. PICK n \in Bad : \A m \in Bad : n <= m
  BY <1>2, LeastNat
<1>4. PICK R \in SUBSET T : ~Right(R) /\ Cardinality(R) = n
  BY <1>3
<1>5. R # {}
  <2>1. S \cap {} = {}
    OBVIOUS
  <2>2. Right({})
    BY <2>1, TotalEmpty
  <2> HIDE DEF Right
  <2> QED BY <1>4, <2>2
<1>6. PICK x : x \in R
  BY <1>5
<1>7. Right(R \ {x})
  <2>1. R \ {x} \in SUBSET T /\ Cardinality(R \ {x}) = n - 1 /\ n \in Nat
    BY <1>0, <1>4, <1>6, FS_RemoveElement
  <2>2. n - 1 \notin Bad
    <3> HIDE DEF Bad
    <3> QED BY <2>1, <1>3, <1>2
  <2> HIDE DEF Right
  <2> QED BY <2>1, <2>2
<1>8. Total(v, R) = v[x] + Total(v, R \ {x}) /\ Total(v, R \ {x}) \in Int /\ v[x] \in Nat
  <2>1. \A k \in R : v[k] \in Int
    BY <1>4
  <2>4. IsFiniteSet(R) /\ IsFiniteSet(R \ {x})
    BY <1>0
  <2> HIDE DEF Right
  <2>2. Total(v, R) = v[x] + Total(v, R \ {x})
    BY <2>1, <2>4, <1>6, TotalRemove
  <2>3. Total(v, R \ {x}) \in Int
    BY <2>1, <2>4, TotalType
  <2> QED BY <2>2, <2>3, <1>6
<1>9. CASE x \notin S
  <2>1. S \cap (R \ {x}) = S \cap R
    BY <1>9
  <2>2. Total(w, S \cap R) \in Int
    BY <1>0, TotalType
  <2>3. Total(w, S \cap (R \ {x})) <= Total(v, R \ {x})
    BY <1>7
  <2>4. Total(w, S \cap R) <= Total(v, R \ {x})
    BY <2>1, <2>3
  <2>5. Total(w, S \cap R) <= Total(v, R)
    BY <2>2, <2>4, <1>8
  <2> QED BY <2>5, <1>4
<1>10. CASE x \in S
  <2> DEFINE Q == S \cap R
  <2>1. Q \ {x} = S \cap (R \ {x}) /\ x \in Q /\ IsFiniteSet(Q) /\ IsFiniteSet(Q \ {x})
    BY <1>0, <1>6, <1>10, FS_RemoveElement
  <2>2. \A k \in Q : w[k] \in Int
    OBVIOUS
  <2>3. Total(w, Q) = w[x] + Total(w, Q \ {x})
    BY <2>1, <2>2, TotalRemove
  <2>4. Total(w, Q \ {x}) \in Int
    BY <2>1, <2>2, TotalType
  <2>5. Total(w, Q \ {x}) <= Total(v, R \ {x})
    BY <2>1, <1>7
  <2>6. w[x] \in Int /\ w[x] <= v[x]
    BY <1>10
  <2>7. Total(w, Q) <= Total(v, R)
    BY <2>3, <2>4, <2>5, <2>6, <1>8
  <2> QED BY <2>7, <1>4
<1> QED BY <1>9, <1>10

LEMMA TotalIsNat ==
  ASSUME NEW w, NEW S, IsFiniteSet(S), \A k \in S : w[k] \in Nat
  PROVE  Total(w, S) \in Nat
<1>1. Total(w, S) \in Int
  BY TotalType
<1>2. Total(w, {}) <= Total(w, S)
  <2>1. {} \subseteq S /\ \A k \in {} : w[k] \in Int /\ w[k] <= w[k]
    OBVIOUS
  <2> QED BY <2>1, TotalGrows
<1> QED BY <1>1, <1>2, TotalEmpty

(* The sizes of finite sets with nothing in common add up to the size of   *)
(* their union.                                                            *)
THEOREM TotalOfSizes ==
  ASSUME NEW I, IsFiniteSet(I), NEW C, \A i \in I : IsFiniteSet(C[i]),
         \A i, j \in I : i # j => C[i] \cap C[j] = {}
  PROVE  /\ IsFiniteSet(UNION {C[i] : i \in I})
         /\ Total([i \in I |-> Cardinality(C[i])], I) = Cardinality(UNION {C[i] : i \in I})
<1> DEFINE w == [i \in I |-> Cardinality(C[i])]
           U(J) == UNION {C[i] : i \in J}
           Right(J) == IsFiniteSet(U(J)) /\ Total(w, J) = Cardinality(U(J))
           Bad == {Cardinality(J) : J \in {r \in SUBSET I : ~Right(r)}}
<1>0. \A J \in SUBSET I : IsFiniteSet(J) /\ Cardinality(J) \in Nat
  BY FS_Subset, FS_CardinalityType
<1>1. SUFFICES ASSUME ~Right(I) PROVE FALSE
  OBVIOUS
<1>2. Bad \in SUBSET Nat /\ Bad # {}
  BY <1>0, <1>1
<1>3. PICK n \in Bad : \A m \in Bad : n <= m
  BY <1>2, LeastNat
<1>4. PICK J \in SUBSET I : ~Right(J) /\ Cardinality(J) = n
  BY <1>3
<1>5. J # {}
  <2>1. U({}) = {}
    OBVIOUS
  <2>2. Right({})
    BY <2>1, TotalEmpty, FS_EmptySet
  <2> HIDE DEF Right
  <2> QED BY <1>4, <2>2
<1>6. PICK x : x \in J
  BY <1>5
<1> DEFINE K == J \ {x}
<1>7. Right(K)
  <2>1. K \in SUBSET I /\ Cardinality(K) = n - 1 /\ n \in Nat
    BY <1>0, <1>4, <1>6, FS_RemoveElement
  <2>2. n - 1 \notin Bad
    <3> HIDE DEF Bad
    <3> QED BY <2>1, <1>3, <1>2
  <2> HIDE DEF Right, K
  <2> QED BY <2>1, <2>2
<1>8. Total(w, J) = Cardinality(C[x]) + Total(w, K)
  <2>1. \A i \in J : w[i] \in Int
    BY FS_CardinalityType
  <2>2. IsFiniteSet(J) /\ w[x] = Cardinality(C[x])
    BY <1>0, <1>6
  <2> HIDE DEF w
  <2> QED BY <2>1, <2>2, <1>6, TotalRemove
<1>9. U(J) = U(K) \cup C[x] /\ U(K) \cap C[x] = {}
  BY <1>6
<1>10. IsFiniteSet(U(J)) /\ Cardinality(U(J)) = Cardinality(U(K)) + Cardinality(C[x])
  <2>1. IsFiniteSet(C[x]) /\ IsFiniteSet(U(K))
    BY <1>6, <1>7
  <2> DEFINE A == U(K)
             B == C[x]
  <2>2. IsFiniteSet(A) /\ IsFiniteSet(B) /\ A \cap B = {} /\ U(J) = A \cup B
    BY <2>1, <1>9
  <2> HIDE DEF A, B
  <2>3. Cardinality(A) \in Nat /\ Cardinality(B) \in Nat
    BY <2>2, FS_CardinalityType
  <2>4. IsFiniteSet(A \cup B) /\ Cardinality(A \cup B) = Cardinality(A) + Cardinality(B) - Cardinality(A \cap B)
    BY <2>2, FS_Union
  <2>5. Cardinality(A \cap B) = 0
    BY <2>2, FS_EmptySet
  <2>6. IsFiniteSet(U(J)) /\ Cardinality(U(J)) = Cardinality(A) + Cardinality(B)
    <3> HIDE DEF U
    <3> QED BY <2>2, <2>3, <2>4, <2>5
  <2> QED BY <2>6 DEF A, B
<1>11. Cardinality(U(K)) \in Nat /\ Cardinality(C[x]) \in Nat
  BY <1>6, <1>7, FS_CardinalityType
<1>12. Total(w, K) = Cardinality(U(K))
  BY <1>7
<1>13. Total(w, J) = Cardinality(U(J))
  <2> HIDE DEF U, K, w
  <2> QED BY <1>8, <1>10, <1>11, <1>12
<1> QED BY <1>4, <1>10, <1>13

(* What one more key, or a new weight for it, can add.                     *)
LEMMA TotalOneMore ==
  ASSUME NEW w, NEW v, NEW R, NEW S, NEW x, NEW c \in Nat,
         IsFiniteSet(R), \A k \in R : w[k] \in Nat,
         S \ {x} \subseteq R, \A k \in S \ {x} : v[k] = w[k], v[x] = c
  PROVE  Total(v, S) <= c + Total(w, R)
<1> DEFINE Q == S \ {x}
<1>1. IsFiniteSet(Q) /\ IsFiniteSet(Q \cup {x})
  BY FS_Subset, FS_AddElement
<1>2. x \notin Q /\ \A k \in Q \cup {x} : v[k] \in Int
  OBVIOUS
<1>3. Total(v, Q) <= Total(w, R)
  <2>1. Q \subseteq R /\ \A k \in Q : v[k] \in Int /\ v[k] <= w[k]
    OBVIOUS
  <2> HIDE DEF Q
  <2> QED BY <2>1, TotalGrows
<1>4. Total(v, Q) \in Int /\ Total(w, R) \in Nat
  <2>1. \A k \in Q : v[k] \in Int
    BY <1>2
  <2> HIDE DEF Q
  <2> QED BY <2>1, <1>1, TotalType, TotalIsNat
<1>5. CASE x \in S
  <2>1. S = Q \cup {x}
    BY <1>5
  <2> HIDE DEF Q
  <2>2. Total(v, Q \cup {x}) = v[x] + Total(v, Q)
    BY <1>1, <1>2, TotalAdd
  <2> QED BY <2>1, <2>2, <1>3, <1>4
<1>6. CASE x \notin S
  <2>1. S = Q
    BY <1>6
  <2> HIDE DEF Q
  <2> QED BY <2>1, <1>3, <1>4
<1> QED BY <1>5, <1>6

LEMMA LeastOf == ASSUME NEW T \in SUBSET Nat, T # {} PROVE Min(T) \in T
<1>1. \E n \in T : \A m \in T : n <= m
  BY LeastNat
<1> QED BY <1>1 DEF Min

(* A sum splits into that of a part and that of the rest.                  *)
LEMMA TotalSplit ==
  ASSUME NEW w, NEW S, IsFiniteSet(S), \A k \in S : w[k] \in Int, NEW part \in SUBSET S
  PROVE  Total(w, S) = Total(w, part) + Total(w, S \ part)
<1> DEFINE Right(r) == Total(w, S) = Total(w, r) + Total(w, S \ r)
           Bad == {Cardinality(r) : r \in {x \in SUBSET S : ~Right(x)}}
<1> SUFFICES ASSUME ~Right(part) PROVE FALSE
  OBVIOUS
<1>1. \A r \in SUBSET S : IsFiniteSet(r) /\ Cardinality(r) \in Nat
  BY FS_Subset, FS_CardinalityType
<1>2. \A r \in SUBSET S : Total(w, r) \in Int
  BY <1>1, TotalType
<1>3. Bad \in SUBSET Nat /\ Bad # {}
  BY <1>1
<1>4. PICK n \in Bad : \A m \in Bad : n <= m
  BY <1>3, LeastNat
<1>5. PICK r \in SUBSET S : ~Right(r) /\ Cardinality(r) = n
  BY <1>4
<1>6. r # {}
  <2>1. Right({})
    <3>1. S \ {} = S /\ Total(w, S) \in Int /\ Total(w, {}) = 0
      BY <1>2, TotalEmpty
    <3> QED BY <3>1
  <2> HIDE DEF Right
  <2> QED BY <1>5, <2>1
<1>7. PICK x : x \in r
  BY <1>6
<1> DEFINE q == r \ {x}
<1>8. q \in SUBSET S /\ Cardinality(q) = n - 1 /\ n \in Nat
  <2>1. IsFiniteSet(r) /\ Cardinality(r) = n /\ n \in Nat
    BY <1>1, <1>5
  <2>2. Cardinality(q) = Cardinality(r) - 1
    BY <1>7, <2>1, FS_RemoveElement
  <2> QED BY <2>1, <2>2
<1>9. Right(q)
  <2>1. n - 1 \notin Bad
    <3>1. n - 1 \in Nat
      BY <1>1, <1>8
    <3> HIDE DEF Bad
    <3> QED BY <3>1, <1>4, <1>8
  <2> HIDE DEF Right, q
  <2> QED BY <1>8, <2>1
<1>10. Total(w, r) = w[x] + Total(w, q)
  BY <1>1, <1>7, TotalRemove
<1>11. Total(w, S \ q) = w[x] + Total(w, S \ r)
  <2> DEFINE rest == S \ r
  <2>1. IsFiniteSet(rest) /\ x \notin rest /\ \A k \in rest \cup {x} : w[k] \in Int
    BY <1>1, <1>7
  <2>2. S \ q = rest \cup {x}
    BY <1>7
  <2> HIDE DEF rest
  <2>3. Total(w, rest \cup {x}) = w[x] + Total(w, rest)
    BY <2>1, TotalAdd
  <2> QED BY <2>2, <2>3 DEF rest
<1>12. /\ Total(w, q) \in Int /\ w[x] \in Int /\ Total(w, S \ r) \in Int
       /\ Total(w, S) = Total(w, q) + Total(w, S \ q)
  BY <1>2, <1>7, <1>8, <1>9
<1> HIDE DEF q
<1>13. Right(r)
  BY <1>10, <1>11, <1>12
<1> HIDE DEF Right
<1> QED BY <1>5, <1>13
=============================================================================
