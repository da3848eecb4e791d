------------------------------- MODULE Ledger -------------------------------
(***************************************************************************)
(* The machine (inventory.py) and the resource ledger (ledger.py).  A      *)
(* ledger is a function from allocation keys to allocations; nothing free  *)
(* is stored, every free amount is derived from it.                        *)
(***************************************************************************)
EXTENDS Sequences, Totals

CONSTANTS NodeSeq,  \* the NUMA nodes in order: [index, cores, ram]
          GpuSeq,   \* the devices in order: [index, vram, node]
          MemCap    \* the ceiling on total resident memory

NoIndex == -1       \* None for a node or a device index

NodeIds == {NodeSeq[i].index : i \in DOMAIN NodeSeq}
GpuIds == {GpuSeq[i].index : i \in DOMAIN GpuSeq}
Node(n) == NodeSeq[CHOOSE i \in DOMAIN NodeSeq : NodeSeq[i].index = n]
Gpu(g) == GpuSeq[CHOOSE i \in DOMAIN GpuSeq : GpuSeq[i].index = g]
AllCores == UNION {NodeSeq[i].cores : i \in DOMAIN NodeSeq}
TotalCores == Total([i \in DOMAIN NodeSeq |-> Cardinality(NodeSeq[i].cores)], DOMAIN NodeSeq)

(* The inventory of one box: numbered nodes, cores and devices, and sizes. *)
ASSUME InventoryAssumption ==
  /\ NodeSeq \in Seq([index : Nat, cores : SUBSET Nat, ram : Nat])
  /\ \A i \in DOMAIN NodeSeq : IsFiniteSet(NodeSeq[i].cores)
  /\ GpuSeq \in Seq([index : Nat, vram : Nat, node : Nat \cup {NoIndex}])
  /\ MemCap \in Nat

(* What is known of a machine: indices are distinct, a core belongs to one *)
(* node (both come from the operating system's numbering).                 *)
ASSUME MachineAssumption ==
  /\ NodeSeq # <<>>
  /\ \A i, j \in DOMAIN NodeSeq : i # j =>
        NodeSeq[i].index # NodeSeq[j].index /\ NodeSeq[i].cores \cap NodeSeq[j].cores = {}
  /\ \A i, j \in DOMAIN GpuSeq : i # j => GpuSeq[i].index # GpuSeq[j].index
  /\ \A i \in DOMAIN GpuSeq : GpuSeq[i].node \in NodeIds \cup {NoIndex}

-----------------------------------------------------------------------------
(* Allocations. A held result or input has no cores; a pinned job and a    *)
(* node-local replica name a node; device memory names a device.           *)
Allocation(cores, ram, node, gpu, vram) ==
  [cores |-> cores, ram |-> ram, node |-> node, gpu |-> gpu, vram |-> vram, actual |-> 0]

HostBytes(bytes, node) == Allocation({}, bytes, node, NoIndex, 0)

(* Mutant: the charge follows the measurement down while a job ramps up.   *)
ChargedActual(a) == IF a.actual > 0 THEN a.actual ELSE a.ram

(* A job is charged the worse of its declared and its measured memory.     *)
ChargedRam(a) == IF a.actual > a.ram THEN a.actual ELSE a.ram

(* Ledger.add of several allocations, Ledger.remove / Ledger.discard of a  *)
(* set of keys, Ledger.set_actual.                                         *)
Charge(L, A) == [k \in DOMAIN L \cup DOMAIN A |-> IF k \in DOMAIN A THEN A[k] ELSE L[k]]
Release(L, K) == [k \in DOMAIN L \ K |-> L[k]]
SetActual(L, key, bytes) == [L EXCEPT ![key].actual = bytes]

-----------------------------------------------------------------------------
(* What is free.                                                           *)
AllocatedCores(L) == UNION {L[k].cores : k \in DOMAIN L}
FreeCores(L, n) == Node(n).cores \ AllocatedCores(L)
FreeCoresAll(L) == AllCores \ AllocatedCores(L)

ChargesOf(L) == [k \in DOMAIN L |-> ChargedRam(L[k])]
CommittedRamNode(L, n) ==
  Total(ChargesOf(L), {k \in DOMAIN L : L[k].node = n})
FreeRamNode(L, n) == Node(n).ram - CommittedRamNode(L, n)

GlobalCommittedRam(L) == Total(ChargesOf(L), DOMAIN L)
GlobalFreeRam(L) == MemCap - GlobalCommittedRam(L)

CommittedVram(L, g) ==
  Total([k \in DOMAIN L |-> L[k].vram], {k \in DOMAIN L : L[k].gpu = g})
FreeVram(L, g) == Gpu(g).vram - CommittedVram(L, g)
=============================================================================
