------------------------------ MODULE Placement ------------------------------
(***************************************************************************)
(* The placement decision (placement.py): capability against the bare      *)
(* machine, fit against the ledger, and the choice of the first capable    *)
(* path.  Pure operators on a ledger L and a compute path                  *)
(*   [placement, cores, ram, vram].                                        *)
(***************************************************************************)
EXTENDS Ledger

CONSTANT MarginPct    \* the share of RAM held back, in percent

ASSUME MarginAssumption == MarginPct \in Nat

Margin(bytes) == (MarginPct * bytes) \div 100
(* Mutant: capability is judged against the whole ceiling.                 *)
WholeCap == MemCap
SchedulableCap == MemCap - Margin(MemCap)

(* Why the bare machine cannot serve a path, or "none".                    *)
CapabilityGap(path) ==
  LET nodesWithCores == {i \in DOMAIN NodeSeq : Cardinality(NodeSeq[i].cores) >= path.cores}
  IN CASE path.placement = "gpu" /\ GpuSeq = <<>> -> "no_device"
       [] path.placement = "gpu" /\ \A i \in DOMAIN GpuSeq : GpuSeq[i].vram < path.vram
            -> "exceeds_vram"
       [] path.placement # "cpu_pinned" /\ TotalCores < path.cores -> "exceeds_cores"
       [] SchedulableCap < path.ram -> "exceeds_ram"
       [] path.placement = "cpu_pinned" /\ nodesWithCores = {} -> "exceeds_cores"
       [] path.placement = "cpu_pinned" /\ \A i \in nodesWithCores :
            NodeSeq[i].ram - Margin(NodeSeq[i].ram) < path.ram -> "exceeds_ram"
       [] OTHER -> "none"

Capable(path) == CapabilityGap(path) = "none"

(* The count lowest-numbered cores of a set.                               *)
Take(cores, count) == {c \in cores : Cardinality({d \in cores : d < c}) < count}

(* The devices and nodes that could take the path now.                     *)
FittingGpus(L, path) == {i \in DOMAIN GpuSeq : FreeVram(L, GpuSeq[i].index) >= path.vram}

(* Mutant: the node's own margin is not held back.                         *)
FittingNodesNoMargin(L, path) ==
  {i \in DOMAIN NodeSeq :
     /\ Cardinality(FreeCores(L, NodeSeq[i].index)) >= path.cores
     /\ FreeRamNode(L, NodeSeq[i].index) >= path.ram}
(* Mutant: only the first node with enough free cores is looked at.        *)
FirstNodeOnly(L, path) ==
  LET withCores == {i \in DOMAIN NodeSeq :
                      Cardinality(FreeCores(L, NodeSeq[i].index)) >= path.cores}
  IN {i \in withCores : i = Min(withCores)
        /\ FreeRamNode(L, NodeSeq[i].index) - Margin(NodeSeq[i].ram) >= path.ram}
FittingNodes(L, path) ==
  {i \in DOMAIN NodeSeq :
     /\ Cardinality(FreeCores(L, NodeSeq[i].index)) >= path.cores
     /\ FreeRamNode(L, NodeSeq[i].index) - Margin(NodeSeq[i].ram) >= path.ram}

Placed(path, cores, node, gpu) == [path |-> path, cores |-> cores, node |-> node, gpu |-> gpu]

(* Mutant: cores are taken from the whole node, allocated or not.          *)
PlaceOnBusyCores(L, path) ==
  IF path.placement = "cpu_pinned" /\ FittingNodes(L, path) # {}
    THEN LET n == NodeSeq[Min(FittingNodes(L, path))]
         IN {Placed(path, Take(n.cores, path.cores), n.index, NoIndex)}
    ELSE {}

(* The concrete placement if the path's resources are free now: a set of   *)
(* at most one.  Nodes and devices are tried in order.                     *)
PlaceNow(L, path) ==
  IF GlobalFreeRam(L) - Margin(MemCap) < path.ram THEN {}
  ELSE IF path.placement = "cpu_pinned" THEN
    IF FittingNodes(L, path) = {} THEN {}
    ELSE LET n == NodeSeq[Min(FittingNodes(L, path))].index
         IN {Placed(path, Take(FreeCores(L, n), path.cores), n, NoIndex)}
  ELSE IF Cardinality(FreeCoresAll(L)) < path.cores THEN {}
  ELSE IF path.placement = "cpu_unpinned" THEN
    {Placed(path, Take(FreeCoresAll(L), path.cores), NoIndex, NoIndex)}
  ELSE IF FittingGpus(L, path) = {} THEN {}
    ELSE {Placed(path, Take(FreeCoresAll(L), path.cores), NoIndex,
                 GpuSeq[Min(FittingGpus(L, path))].index)}

(* plan_placement: only the first capable path is ever tried, so busy      *)
(* resources make a job wait and never degrade it.  Feasible is the        *)
(* pre-flight verdict.                                                     *)
CapablePaths(paths) == {i \in DOMAIN paths : Capable(paths[i])}
Feasible(paths) == CapablePaths(paths) # {}

Plan(L, paths) == PlaceNow(L, paths[Min(CapablePaths(paths))])
==============================================================================
