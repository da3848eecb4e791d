--------------------------- MODULE JobGraphProofs ---------------------------
(***************************************************************************)
(* The constructor of JobGraph accepts exactly the acyclic graphs with     *)
(* valid dependencies, and on those JobGraph.component returns the         *)
(* connected component, whatever the number of jobs.                       *)
(***************************************************************************)
EXTENDS JobGraphObject, FiniteSetTheorems, TLAPS

(* A component holds its root and the neighbours of its members, and is    *)
(* the least such set.                                                     *)
LEMMA ComponentHoldsRoot ==
  ASSUME NEW k \in Jobs
  PROVE  k \in G!Component(k)
BY DEF G!Component, G!Lineage

LEMMA ComponentIsClosed ==
  ASSUME NEW r \in Jobs, NEW k \in G!Component(r), NEW n \in G!Neighbours(k), n \in Jobs
  PROVE  n \in G!Component(r)
<1>1. G!Component(r) \subseteq Jobs
  BY DEF G!Component, G!Lineage
<1>2. ASSUME NEW S \in SUBSET Jobs, r \in S, G!Closed(S)
      PROVE  n \in S
  <2>1. k \in S
    BY <1>2 DEF G!Component, G!Lineage
  <2> QED BY <1>1, <1>2, <2>1 DEF G!Closed, G!Neighbours, G!Dependents
<1> QED BY <1>2 DEF G!Component, G!Lineage

LEMMA ComponentIsLeast ==
  ASSUME NEW r \in Jobs, NEW S \in SUBSET Jobs, r \in S, G!Closed(S)
  PROVE  G!Component(r) \subseteq S
BY DEF G!Component, G!Lineage

(* In a validated graph neighbours are jobs of it.                         *)
LEMMA NeighboursAreJobs ==
  ASSUME G!AllValid, NEW k \in Jobs
  PROVE  G!Neighbours(k) \subseteq Jobs
BY DEF G!Neighbours, G!Producers, G!Dependents, G!AllValid, G!ValidDependency

(* The inductive invariant.  The walk does not start before the graph was  *)
(* validated; it stays inside the component, and what it saw has all its   *)
(* neighbours seen or stacked, so that nothing is forgotten.               *)
Validated == verdict \notin {"validating", "bad dependency"} => G!AllValid
WalkInv ==
  /\ root \in stack \cup seen
  /\ stack \cup seen \subseteq G!Component(root)
  /\ \A k \in seen : G!Neighbours(k) \subseteq stack \cup seen
IInv == TypeOK /\ Validated /\ WalkInv

LEMMA SameGraph ==
  ASSUME deps' = deps, root' = root
  PROVE  /\ G!AllValid' = G!AllValid
         /\ G!Component(root)' = G!Component(root)
         /\ \A k : G!Neighbours(k)' = G!Neighbours(k)
BY DEF G!AllValid, G!ValidDependency, G!Component, G!Lineage, G!Closed, G!Neighbours,
       G!Producers, G!Dependents

(* The inductive invariant of the walk over a graph.                       *)
THEOREM WalkInvariant == Spec => []IInv
<1>1. Init => IInv
  BY ComponentHoldsRoot DEF Init, IInv, TypeOK, Validated, WalkInv
<1>2. IInv /\ [Next]_vars => IInv'
  <2> SUFFICES ASSUME IInv, [Next]_vars
               PROVE  IInv'
    OBVIOUS
  <2>1. deps' = deps /\ root' = root
    BY DEF Next, Reject, CountEdges, Pop, Judge, Skip, Visit, vars, walkVars
  <2>2. CASE Reject \/ CountEdges \/ Pop \/ Judge \/ UNCHANGED vars
    <3>1. UNCHANGED walkVars
      BY <2>2 DEF Reject, CountEdges, Pop, Judge, vars
    <3>2. TypeOK'
      BY <2>2, <3>1 DEF IInv, TypeOK, walkVars, Reject, CountEdges, Pop, Judge, vars
    <3>3. Validated'
      BY <2>1, <2>2, SameGraph DEF IInv, Validated, Reject, CountEdges, Pop, Judge, vars
    <3>4. WalkInv'
      BY <2>1, <3>1, SameGraph DEF IInv, WalkInv, walkVars
    <3> QED BY <3>2, <3>3, <3>4 DEF IInv
  <2>3. CASE Skip
    <3>1. TypeOK'
      BY <2>3 DEF Skip, IInv, TypeOK
    <3>2. Validated'
      BY <2>1, <2>3, SameGraph DEF Skip, IInv, Validated
    <3>3. WalkInv'
      BY <2>1, <2>3, SameGraph DEF Skip, IInv, WalkInv
    <3> QED BY <3>1, <3>2, <3>3 DEF IInv
  <2>4. CASE Visit
    <3> PICK k \in stack \ seen : /\ seen' = seen \cup {k}
                                  /\ stack' = (stack \ {k}) \cup G!Neighbours(k)
      BY <2>4 DEF Visit
    <3>1. k \in Jobs /\ k \in G!Component(root)
      BY DEF IInv, TypeOK, WalkInv
    <3>2. G!AllValid
      BY <2>4 DEF Visit, IInv, Validated
    <3>3. G!Neighbours(k) \subseteq Jobs
      BY <3>1, <3>2, NeighboursAreJobs
    <3>4. TypeOK'
      BY <2>1, <2>4, <3>1, <3>3 DEF Visit, IInv, TypeOK
    <3>5. Validated'
      BY <2>1, <2>4, <3>2, SameGraph DEF Visit, IInv, Validated
    <3>6. G!Neighbours(k) \subseteq G!Component(root)
      BY <3>1, <3>3, ComponentIsClosed DEF IInv, TypeOK
    <3>7. WalkInv'
      BY <2>1, <3>1, <3>6, SameGraph DEF IInv, WalkInv
    <3> QED BY <3>4, <3>5, <3>7 DEF IInv
  <2> QED BY <2>2, <2>3, <2>4 DEF Next
<1> QED BY <1>1, <1>2, PTL DEF Spec

(* JobGraph.component returns the whole lineage of a job and nothing else: *)
(* when the walk ends, what it saw is closed and holds the root.           *)
THEOREM WalkIsRight == Spec => []WalkReturnsComponent
<1>1. IInv => WalkReturnsComponent
  <2> SUFFICES ASSUME IInv, stack = {}
               PROVE  seen = G!Component(root)
    BY DEF WalkReturnsComponent
  <2>1. root \in seen /\ seen \in SUBSET Jobs /\ \A k \in seen : G!Neighbours(k) \subseteq seen
    BY DEF IInv, TypeOK, WalkInv
  <2>2. G!Closed(seen)
    BY <2>1 DEF G!Closed, G!Neighbours, G!Dependents
  <2>3. G!Component(root) \subseteq seen
    BY <2>1, <2>2, ComponentIsLeast DEF IInv, TypeOK
  <2> QED BY <2>3 DEF IInv, WalkInv
<1> QED BY <1>1, WalkInvariant, PTL
-----------------------------------------------------------------------------
(* Kahn's algorithm.  The code keeps a count of the keys it popped and not *)
(* the keys: the invariant says that some set of that size accounts for    *)
(* the queue and the indegrees.  It is closed under producers and acyclic; *)
(* the queue holds the jobs that are ready when it is done, and an         *)
(* indegree counts the producers outside it.                               *)
Orderly(done) ==
  /\ counted = Cardinality(done)
  /\ \A j \in done : G!Producers(j) \subseteq done
  /\ \A S \in SUBSET done : S # {} => \E j \in S : G!Producers(j) \cap S = {}
  /\ queue = G!Ready(done)
  /\ indegree = [j \in Jobs |-> Cardinality(G!Producers(j) \ done)]
Sorting ==
  /\ verdict = "validating" => counted = 0
  /\ verdict = "sorting" => \E done \in SUBSET Jobs : Orderly(done)
VInv == Validated /\ Sorting /\ VerdictIsRight

LEMMA SameTopology ==
  ASSUME deps' = deps
  PROVE  /\ G!AllValid' <=> G!AllValid
         /\ G!Acyclic' <=> G!Acyclic
         /\ \A j : G!Producers(j)' = G!Producers(j)
         /\ \A done : G!Ready(done)' = G!Ready(done)
BY DEF G!AllValid, G!ValidDependency, G!Acyclic, G!Ready, G!Producers

LEMMA ProducersAreJobs ==
  ASSUME G!AllValid, NEW j \in Jobs
  PROVE  G!Producers(j) \subseteq Jobs /\ IsFiniteSet(G!Producers(j))
<1>1. G!Producers(j) \subseteq Jobs
  BY DEF G!AllValid, G!ValidDependency, G!Producers
<1> QED BY <1>1, JobsAssumption, FS_Subset

(* A job popped off the queue joins the keys accounted for: its dependents *)
(* have one producer less to wait for, and those with none left are ready. *)
LEMMA PopKeepsOrder ==
  ASSUME G!AllValid, NEW done \in SUBSET Jobs, Orderly(done), NEW k \in queue, deps' = deps,
         counted' = counted + 1, indegree' = CountDown(k),
         queue' = (queue \ {k}) \cup {j \in G!Dependents(k) : indegree'[j] = 0}
  PROVE  Orderly(done \cup {k})' /\ done \cup {k} \in SUBSET Jobs
<1> DEFINE after == done \cup {k}
<1>1. k \in Jobs /\ k \notin done /\ G!Producers(k) \subseteq done /\ done \in SUBSET Jobs
  BY DEF Orderly, G!Ready
<1>2. IsFiniteSet(done) /\ Cardinality(after) = Cardinality(done) + 1 /\ after \in SUBSET Jobs
  BY <1>1, JobsAssumption, FS_Subset, FS_AddElement
<1>3. ASSUME NEW j \in Jobs
      PROVE  indegree'[j] = Cardinality(G!Producers(j) \ after)
  <2> DEFINE left == G!Producers(j) \ done
  <2>1. IsFiniteSet(left) /\ indegree[j] = Cardinality(left)
    BY <1>3, ProducersAreJobs, FS_Subset, FS_Difference DEF Orderly
  <2>2. CASE j \in G!Dependents(k)
    <3>1. k \in left /\ G!Producers(j) \ after = left \ {k}
      BY <1>1, <2>2 DEF G!Dependents
    <3>2. Cardinality(left \ {k}) = Cardinality(left) - 1
      BY <2>1, <3>1, FS_RemoveElement
    <3>3. indegree'[j] = indegree[j] - 1
      BY <1>3, <2>2 DEF CountDown
    <3> HIDE DEF left
    <3> QED BY <2>1, <3>1, <3>2, <3>3
  <2>3. CASE j \notin G!Dependents(k)
    <3>1. G!Producers(j) \ after = left
      BY <1>3, <2>3 DEF G!Dependents
    <3>2. indegree'[j] = indegree[j]
      BY <1>3, <2>3 DEF CountDown
    <3> QED BY <2>1, <3>1, <3>2
  <2> QED BY <2>2, <2>3
<1>4. indegree' = [j \in Jobs |-> Cardinality(G!Producers(j) \ after)]
  <2>1. indegree' = [j \in Jobs |-> indegree'[j]]
    BY DEF CountDown
  <2> HIDE DEF after
  <2> QED BY <1>3, <2>1
<1>5. queue' = G!Ready(after)
  <2>1. ASSUME NEW j \in Jobs
        PROVE  indegree'[j] = 0 <=> G!Producers(j) \subseteq after
    <3>1. IsFiniteSet(G!Producers(j) \ after)
      BY <2>1, ProducersAreJobs, FS_Difference
    <3>2. Cardinality(G!Producers(j) \ after) = 0 <=> G!Producers(j) \ after = {}
      BY <3>1, FS_EmptySet
    <3> HIDE DEF after
    <3> QED BY <1>3, <2>1, <3>2
  <2>2. G!Dependents(k) \cap done = {}
    BY <1>1 DEF Orderly, G!Dependents
  <2>3. queue = {j \in Jobs \ done : G!Producers(j) \subseteq done}
    BY DEF Orderly, G!Ready
  <2>4. \A j \in Jobs \ after : G!Producers(j) \subseteq after
          <=> G!Producers(j) \subseteq done \/ (j \in G!Dependents(k) /\ G!Producers(j) \subseteq after)
    BY DEF G!Dependents
  <2>5. {j \in G!Dependents(k) : indegree'[j] = 0} = {j \in G!Dependents(k) : G!Producers(j) \subseteq after}
    BY <2>1 DEF G!Dependents
  <2>6. k \notin G!Dependents(k) /\ G!Dependents(k) \subseteq Jobs
    BY <1>1 DEF G!Dependents
  <2>7. G!Ready(after) = {j \in Jobs \ after : G!Producers(j) \subseteq after}
    BY DEF G!Ready
  <2>8. queue' = (queue \ {k}) \cup {j \in G!Dependents(k) : G!Producers(j) \subseteq after}
    BY <2>5
  <2>9. after \subseteq Jobs /\ k \in after /\ done \subseteq after
    BY <1>2
  <2>10. ASSUME NEW j
         PROVE  j \in queue' <=> j \in Jobs /\ j \notin after /\ G!Producers(j) \subseteq after
    <3>1. j \in after <=> j \in done \/ j = k
      OBVIOUS
    <3>2. G!Producers(j) \subseteq done => G!Producers(j) \subseteq after
      OBVIOUS
    <3> HIDE DEF after
    <3>3. j \in queue' <=> \/ /\ j \in Jobs /\ j \notin done /\ j # k
                              /\ G!Producers(j) \subseteq done
                           \/ j \in G!Dependents(k) /\ G!Producers(j) \subseteq after
      BY <2>3, <2>8
    <3> QED BY <2>2, <2>4, <2>6, <3>1, <3>2, <3>3
  <2> HIDE DEF after
  <2> QED BY <2>7, <2>10
<1>6. \A j \in after : G!Producers(j) \subseteq after
  BY <1>1 DEF Orderly
<1>7. \A S \in SUBSET after : S # {} => \E j \in S : G!Producers(j) \cap S = {}
  <2> SUFFICES ASSUME NEW S \in SUBSET after, S # {}
               PROVE  \E j \in S : G!Producers(j) \cap S = {}
    OBVIOUS
  <2>1. CASE S \ {k} = {}
    BY <1>1, <2>1
  <2>2. CASE S \ {k} # {}
    <3>1. S \ {k} \in SUBSET done
      OBVIOUS
    <3>2. PICK j \in S \ {k} : G!Producers(j) \cap (S \ {k}) = {}
      BY <2>2, <3>1 DEF Orderly
    <3>3. k \notin G!Producers(j)
      BY <1>1, <3>1, <3>2 DEF Orderly
    <3> QED BY <3>2, <3>3
  <2> QED BY <2>1, <2>2
<1>8. counted' = Cardinality(after)
  BY <1>2 DEF Orderly
<1> HIDE DEF after
<1>9. /\ \A j : G!Producers(j)' = G!Producers(j)
      /\ \A d : G!Ready(d)' = G!Ready(d)
  BY SameTopology
<1>10. Orderly(after)'
  BY <1>2, <1>4, <1>5, <1>6, <1>7, <1>8, <1>9 DEF Orderly
<1> QED BY <1>2, <1>10 DEF after

(* When nothing is ready, the keys left over all wait for one another, so  *)
(* the graph is acyclic exactly when there are none.                       *)
LEMMA EmptyQueueDecides ==
  ASSUME G!AllValid, NEW done \in SUBSET Jobs, Orderly(done), queue = {}
  PROVE  counted = Cardinality(Jobs) <=> G!Acyclic
<1>1. done \in SUBSET Jobs /\ IsFiniteSet(Jobs)
  BY JobsAssumption DEF Orderly
<1>2. ASSUME counted = Cardinality(Jobs)
      PROVE  G!Acyclic
  <2>1. done = Jobs
    BY <1>1, <1>2, FS_Subset DEF Orderly
  <2> QED BY <2>1 DEF Orderly, G!Acyclic
<1>3. ASSUME counted # Cardinality(Jobs)
      PROVE  ~G!Acyclic
  <2>1. Jobs \ done # {} /\ Jobs \ done \in SUBSET Jobs
    <3>1. Jobs \ done = {} => done = Jobs
      BY <1>1
    <3> QED BY <1>3, <3>1 DEF Orderly
  <2>2. ASSUME NEW j \in Jobs \ done
        PROVE  G!Producers(j) \cap (Jobs \ done) # {}
    <3>1. G!Producers(j) \subseteq Jobs
      BY ProducersAreJobs
    <3>2. ~(G!Producers(j) \subseteq done)
      BY DEF Orderly, G!Ready
    <3> QED BY <3>1, <3>2
  <2> QED BY <2>1, <2>2 DEF G!Acyclic
<1> QED BY <1>2, <1>3

(* The constructor's verdict is right: an accepted graph is valid and      *)
(* acyclic, one called cyclic has a cycle, one refused for a dependency    *)
(* has a bad dependency.                                                   *)
THEOREM VerdictsAreRight == Spec => []VerdictIsRight
<1>1. Init => VInv
  BY DEF Init, VInv, Validated, Sorting, VerdictIsRight
<1>2. VInv /\ [Next]_vars => VInv'
  <2> SUFFICES ASSUME VInv, [Next]_vars
               PROVE  VInv'
    OBVIOUS
  <2>1. deps' = deps
    BY DEF Next, Reject, CountEdges, Pop, Judge, Skip, Visit, vars
  <2>2. CASE Reject
    <3>1. verdict' = "bad dependency" /\ ~G!AllValid
      BY <2>2 DEF Reject
    <3>2. VerdictIsRight'
      BY <2>1, <3>1, SameTopology DEF VerdictIsRight
    <3> QED BY <3>1, <3>2 DEF VInv, Validated, Sorting
  <2>3. CASE CountEdges
    <3>1. G!AllValid /\ verdict' = "sorting" /\ counted = 0 /\ counted' = counted
      BY <2>3 DEF CountEdges, VInv, Sorting, sortVars
    <3>2. Orderly({})'
      <4>1. /\ \A j : G!Producers(j)' = G!Producers(j)
            /\ \A d : G!Ready(d)' = G!Ready(d)
        BY <2>1, SameTopology
      <4>2. queue' = G!Ready({})
        BY <2>3 DEF CountEdges, G!Ready
      <4>3. indegree' = [j \in Jobs |-> Cardinality(G!Producers(j) \ {})]
        BY <2>3 DEF CountEdges
      <4> QED BY <3>1, <4>1, <4>2, <4>3, FS_EmptySet DEF Orderly
    <3>3. Sorting'
      BY <3>1, <3>2 DEF Sorting
    <3> QED BY <2>1, <3>1, <3>3, SameTopology DEF VInv, Validated, VerdictIsRight
  <2>4. CASE Pop
    <3>1. verdict = "sorting" /\ verdict' = "sorting" /\ G!AllValid
      BY <2>4 DEF Pop, VInv, Validated
    <3>2. PICK done \in SUBSET Jobs : Orderly(done)
      BY <3>1 DEF VInv, Sorting
    <3>3. PICK k \in queue : /\ counted' = counted + 1
                            /\ indegree' = CountDown(k)
                            /\ queue' = (queue \ {k}) \cup {j \in G!Dependents(k) : indegree'[j] = 0}
      BY <2>4 DEF Pop
    <3>4. Orderly(done \cup {k})' /\ done \cup {k} \in SUBSET Jobs
      BY <2>1, <3>1, <3>2, <3>3, PopKeepsOrder
    <3>5. Sorting'
      BY <3>1, <3>4 DEF Sorting
    <3> QED BY <2>1, <3>1, <3>5, SameTopology DEF VInv, Validated, VerdictIsRight
  <2>5. CASE Judge
    <3>1. verdict = "sorting" /\ queue = {} /\ G!AllValid
      BY <2>5 DEF Judge, VInv, Validated
    <3>2. PICK done \in SUBSET Jobs : Orderly(done)
      BY <3>1 DEF VInv, Sorting
    <3>3. counted = Cardinality(Jobs) <=> G!Acyclic
      BY <3>1, <3>2, EmptyQueueDecides
    <3>4. verdict' = IF counted # Cardinality(Jobs) THEN "cycle" ELSE "accepted"
      BY <2>5 DEF Judge
    <3>5. VerdictIsRight'
      BY <2>1, <3>1, <3>3, <3>4, SameTopology DEF VerdictIsRight
    <3> QED BY <2>1, <3>1, <3>4, <3>5, SameTopology DEF VInv, Validated, Sorting
  <2>6. CASE Skip \/ Visit
    BY <2>1, <2>6, SameTopology DEF Skip, Visit, VInv, Validated, Sorting, VerdictIsRight
  <2>7. CASE UNCHANGED vars
    <3>1. UNCHANGED <<verdict, indegree, queue, counted>>
      BY <2>7 DEF vars, sortVars
    <3>2. ASSUME NEW done \in SUBSET Jobs, Orderly(done) PROVE Orderly(done)'
      BY <2>1, <3>1, <3>2, SameTopology DEF Orderly
    <3>3. Sorting'
      BY <3>1, <3>2 DEF VInv, Sorting
    <3>4. VerdictIsRight'
      BY <2>1, <3>1, SameTopology DEF VInv, VerdictIsRight
    <3>5. Validated'
      BY <2>1, <3>1, SameTopology DEF VInv, Validated
    <3> QED BY <3>3, <3>4, <3>5 DEF VInv
  <2> QED BY <2>2, <2>3, <2>4, <2>5, <2>6, <2>7 DEF Next
<1>3. VInv => VerdictIsRight
  BY DEF VInv
<1> QED BY <1>1, <1>2, <1>3, PTL DEF Spec
=============================================================================
