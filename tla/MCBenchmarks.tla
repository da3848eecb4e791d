------------------------------ MODULE MCBenchmarks ------------------------------
(* The workstation's tools: two provisionings, two regenerations, two      *)
(* changes by people.                                                      *)
EXTENDS BenchmarksProps

MCArguments ==
  {[recreate |-> FALSE, skipOracles |-> FALSE, routable |-> TRUE],
   [recreate |-> TRUE, skipOracles |-> TRUE, routable |-> TRUE],
   [recreate |-> TRUE, skipOracles |-> FALSE, routable |-> FALSE]}
MCOrders == {[onBranch |-> b, push |-> p] : b \in BOOLEAN, p \in BOOLEAN} \ {[onBranch |-> FALSE, push |-> FALSE]}
================================================================================
