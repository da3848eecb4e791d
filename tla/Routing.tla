------------------------------ MODULE Routing ------------------------------
(***************************************************************************)
(* Warm-versus-fresh routing (routing.py) and the admission view of a job's*)
(* paths (_augment_for_admission in executor.py): what a fresh process     *)
(* costs on top of the working set a path declares.                        *)
(***************************************************************************)
EXTENDS JobGraph, Placement

CONSTANTS
  Paths,          \* Paths[j]: the compute paths of job j, fastest first
  Cost,           \* Cost[j]: predicted operations, 0 when unpredicted
  VramPct,        \* share of the first device's memory from which a path goes fresh
  TimeLimit,      \* time_multiple * context_overhead
  Rates,          \* seconds per operation the calibration may settle on; {} when
                  \* the context overhead is infinite and rates are never consulted
  RamBaseline,    \* a spawned worker's own memory, 0 where workers fork
  ContextVram     \* device memory of one GPU context

(* What the constructor of a path enforces (ComputePath.__post_init__).    *)
ASSUME RouteAssumption ==
  \A j \in Jobs : Paths[j] \in Seq([placement : {"cpu_pinned", "cpu_unpinned", "gpu"},
                                    cores : Nat \ {0}, ram : Nat, vram : Nat])

NoRate == -1      \* the placement has not been observed

RoutesFresh(j, path, rate) ==
  \/ 100 * path.vram >= VramPct * GpuSeq[1].vram
  \/ rate # NoRate /\ Cost[j] * rate >= TimeLimit

(* The paths as the placer sees them at the current calibration.           *)
AugmentedPath(j, path, rate) ==
  CASE path.placement # "gpu" -> [path EXCEPT !.ram = @ + RamBaseline]
    [] path.placement = "gpu" /\ GpuSeq # <<>> /\ RoutesFresh(j, path, rate) ->
         [path EXCEPT !.ram = @ + RamBaseline, !.vram = @ + ContextVram]
    [] OTHER -> path
Augmented(j, rate) == [i \in DOMAIN Paths[j] |-> AugmentedPath(j, Paths[j][i], rate)]

(* One decision per job, that of its last GPU path.                        *)
GpuPaths(j) == {i \in DOMAIN Paths[j] : Paths[j][i].placement = "gpu"}
ExecutesWarm(j, rate) ==
  /\ GpuSeq # <<>> /\ GpuPaths(j) # {}
  /\ ~RoutesFresh(j, Paths[j][Max(GpuPaths(j))], rate)

(* The rates after a job ran on a device: the blend of the old rate and    *)
(* the observation, any of Rates; an unpredicted job teaches nothing.      *)
RatesAfter(j, placement, rate) ==
  IF placement = "gpu" /\ Cost[j] > 0 /\ Rates # {} THEN Rates ELSE {rate}

(* The pre-flight verdict on the graph: the lineages of the jobs no path   *)
(* of which the bare machine serves.                                       *)
Infeasible == {j \in Jobs : ~Feasible(Augmented(j, NoRate))}
Abandoned == UNION {Component(j) : j \in Infeasible}
=============================================================================
