--------------------------- MODULE JobGraphObject ---------------------------
(***************************************************************************)
(* The JobGraph class as the code computes it: the constructor validates   *)
(* the dependencies and runs Kahn's algorithm, then component(key) walks   *)
(* the graph.  The graph is part of the state, so that one run covers      *)
(* every graph on Jobs.  Queue and stack are kept as sets: the order in    *)
(* which keys are taken follows hash sets, and a key pushed twice on the   *)
(* stack is skipped the second time.                                       *)
(***************************************************************************)
EXTENDS Integers, FiniteSets

CONSTANTS Jobs, ShardsOf, Graphs
(* The jobs are the keys of a dict.                                        *)
ASSUME JobsAssumption == IsFiniteSet(Jobs)

VARIABLES deps, verdict,
          indegree, queue, counted,   \* _check_acyclic
          root, stack, seen           \* component
sortVars == <<indegree, queue, counted>>
walkVars == <<root, stack, seen>>
vars == <<deps, verdict, sortVars, walkVars>>

G == INSTANCE JobGraph WITH Deps <- deps, Shards <- ShardsOf

Init ==
  /\ deps \in Graphs /\ verdict = "validating"
  /\ indegree = [j \in Jobs |-> 0] /\ queue = {} /\ counted = 0
  /\ root \in Jobs /\ stack = {root} /\ seen = {}

(* The checks of the constructor that raise ValueError for a dependency.   *)
Reject ==
  /\ verdict = "validating" /\ ~G!AllValid
  /\ verdict' = "bad dependency"
  /\ UNCHANGED <<deps, sortVars, walkVars>>

CountEdges ==
  /\ verdict = "validating" /\ G!AllValid
  /\ indegree' = [j \in Jobs |-> Cardinality(G!Producers(j))]
  /\ queue' = {j \in Jobs : G!Producers(j) = {}}
  /\ verdict' = "sorting"
  /\ UNCHANGED <<deps, counted, walkVars>>

(* Mutant: an edge is counted down once per dependency, not per producer.  *)
CountDownPerDependency(k) ==
  [j \in Jobs |-> indegree[j] - Cardinality({d \in deps[j] : d[1] = k})]
(* The children of k after one edge each is counted down.                  *)
CountDown(k) == [j \in Jobs |-> IF j \in G!Dependents(k) THEN indegree[j] - 1 ELSE indegree[j]]

Pop ==
  /\ verdict = "sorting"
  /\ \E k \in queue :
       /\ counted' = counted + 1
       /\ indegree' = CountDown(k)
       /\ queue' = (queue \ {k}) \cup {j \in G!Dependents(k) : indegree'[j] = 0}
  /\ UNCHANGED <<deps, verdict, walkVars>>

(* Mutant: the count is only compared when it covers the graph.            *)
JudgeCoveredOnly ==
  /\ verdict = "sorting" /\ queue = {} /\ counted = Cardinality(Jobs)
  /\ verdict' = "accepted"
  /\ UNCHANGED <<deps, sortVars, walkVars>>
Judge ==
  /\ verdict = "sorting" /\ queue = {}
  /\ verdict' = IF counted # Cardinality(Jobs) THEN "cycle" ELSE "accepted"
  /\ UNCHANGED <<deps, sortVars, walkVars>>

-----------------------------------------------------------------------------
(* component(root) on a constructed graph: pop a key that was seen already,*)
(* or mark a new one and push its parents and children.                    *)
Skip ==
  /\ verdict = "accepted"
  /\ \E k \in stack \cap seen : stack' = stack \ {k}
  /\ UNCHANGED <<deps, verdict, sortVars, root, seen>>

(* Mutant: the walk follows edges only downwards.                          *)
VisitBelow ==
  /\ verdict = "accepted"
  /\ \E k \in stack \ seen :
       /\ seen' = seen \cup {k}
       /\ stack' = (stack \ {k}) \cup G!Dependents(k)
  /\ UNCHANGED <<deps, verdict, sortVars, root>>
Visit ==
  /\ verdict = "accepted"
  /\ \E k \in stack \ seen :
       /\ seen' = seen \cup {k}
       /\ stack' = (stack \ {k}) \cup G!Neighbours(k)
  /\ UNCHANGED <<deps, verdict, sortVars, root>>

Next == Reject \/ CountEdges \/ Pop \/ Judge \/ Skip \/ Visit
Spec == Init /\ [][Next]_vars /\ WF_vars(Next)

-----------------------------------------------------------------------------
TypeOK ==
  /\ verdict \in {"validating", "sorting", "bad dependency", "cycle", "accepted"}
  /\ root \in Jobs /\ stack \subseteq Jobs /\ seen \subseteq Jobs

(* A graph is accepted only if every dependency is valid and the topology  *)
(* is acyclic, and a graph called cyclic does have a cycle: the scheduler  *)
(* would otherwise wait for ever on a cycle, or refuse a legal graph.      *)
VerdictIsRight ==
  /\ verdict = "accepted" => G!AllValid /\ G!Acyclic
  /\ verdict = "cycle" => ~G!Acyclic
  /\ verdict = "bad dependency" => ~G!AllValid

(* The lineage the scheduler abandons when a job fails is exactly the      *)
(* connected component: a walk that stops early would leave a sibling      *)
(* feeding an assembly that can no longer complete, one that goes too far  *)
(* would cancel another knot.                                              *)
WalkReturnsComponent == verdict = "accepted" /\ stack = {} => seen = G!Component(root)

(* Construction ends in a verdict and, on an accepted graph, the walk ends *)
(* although the undirected graph has cycles.                               *)
AlwaysAnswers ==
  <>(verdict \in {"cycle", "bad dependency"} \/ (verdict = "accepted" /\ stack = {}))
=============================================================================
