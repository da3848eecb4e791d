------------------------------ MODULE JobGraph ------------------------------
(***************************************************************************)
(* The job DAG of the scheduler (src/src/tetradrome/scheduler/graph.py and *)
(* the dependency part of job.py) as constant-level definitions.           *)
(*                                                                         *)
(* A dependency names the held result it reads: the pair <<p, Whole>> is   *)
(* the whole result of job p (a plain key in the code), <<p, s>> is one    *)
(* shard of a partitioned job (Shard(p, s) in the code).                   *)
(***************************************************************************)
EXTENDS FiniteSets

CONSTANTS Jobs,     \* the keys of the graph
          Deps,     \* Deps[j]: the held results job j reads
          Shards    \* Shards[j]: declared shard keys, {} when the result is whole

Whole == "whole"

(* What the constructor of JobGraph demands before it looks for cycles: a  *)
(* dependency refers to a job of the graph, and a shard dependency to a    *)
(* declared shard of a partitioned job.  A plain dependency on a           *)
(* partitioned job is not rejected.                                        *)
ValidDependency(d) ==
  /\ d[1] \in Jobs
  /\ d[2] # Whole => d[2] \in Shards[d[1]]

AllValid == \A j \in Jobs : \A d \in Deps[j] : ValidDependency(d)

(* Topology is in terms of producers: the shard distinction is dropped.    *)
Producers(j) == {d[1] : d \in Deps[j]}
Dependents(k) == {j \in Jobs : k \in Producers(j)}
Neighbours(k) == Producers(k) \cup Dependents(k)

(* Jobs whose producers are all completed and which are not completed.     *)
Ready(done) == {j \in Jobs \ done : Producers(j) \subseteq done}

(* The component of k: the least set holding k that no edge leaves.        *)
(* JobGraph.component computes it by a walk over Neighbours, which module  *)
(* JobGraphObject shows to return exactly this set.                        *)
Closed(S) == \A j \in Jobs : \A k \in Producers(j) : j \in S <=> k \in S
Lineage == [k \in Jobs |-> {j \in Jobs : \A S \in SUBSET Jobs : k \in S /\ Closed(S) => j \in S}]
Component(k) == Lineage[k]

(* The reference notion of an acyclic graph: every non-empty set of jobs   *)
(* has a member that depends on none of the set.                           *)
Acyclic == \A S \in SUBSET Jobs : S # {} => \E j \in S : Producers(j) \cap S = {}

(* The held results a job leaves behind when it completes.                 *)
OutsOf(j) == IF Shards[j] = {} THEN {<<j, Whole>>} ELSE {<<j, s>> : s \in Shards[j]}
Outs == UNION {OutsOf(j) : j \in Jobs}

(* Every result a job reads is one its producer really leaves behind.      *)
Servable == \A j \in Jobs : Deps[j] \subseteq Outs
=============================================================================
