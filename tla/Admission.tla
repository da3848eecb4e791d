------------------------------ MODULE Admission ------------------------------
(***************************************************************************)
(* The ledger by itself: jobs are admitted by PlaceNow, results and inputs *)
(* are charged without asking, and any allocation may be returned.  The    *)
(* executor drives the ledger in these steps only; here they come in every *)
(* order.                                                                  *)
(***************************************************************************)
EXTENDS Placement

CONSTANTS
  Slots,      \* allocation keys in use: the bound on allocations at a time
  PathSet,    \* the paths jobs may take
  HeldSizes   \* the bytes a result may have

(* What the constructor of a path enforces (ComputePath.__post_init__).    *)
ASSUME PathAssumption ==
  /\ \A path \in PathSet :
        /\ path.placement \in {"cpu_pinned", "cpu_unpinned", "gpu"}
        /\ path.cores \in Nat \ {0} /\ path.ram \in Nat /\ path.vram \in Nat
  /\ HeldSizes \subseteq Nat

VARIABLE ledger

Init == ledger = <<>>

Admit ==
  \E k \in Slots \ DOMAIN ledger, path \in PathSet : \E p \in PlaceNow(ledger, path) :
    ledger' = Charge(ledger, [x \in {k} |-> Allocation(p.cores, path.ram, p.node, p.gpu, path.vram)])

Hold ==
  \E k \in Slots \ DOMAIN ledger, b \in HeldSizes, n \in NodeIds \cup {NoIndex} :
    ledger' = Charge(ledger, [x \in {k} |-> HostBytes(b, n)])

Return ==
  \E k \in DOMAIN ledger : ledger' = Release(ledger, {k})

Next == Admit \/ Hold \/ Return
Spec == Init /\ [][Next]_ledger

(* What _place_now grants is there to be granted: the number of cores asked*)
(* for, none of them in use, all on one node when pinned; and after the    *)
(* grant the node, the whole machine and the device still have what they   *)
(* must have, margins included.                                            *)
GrantIsFree(path, p) ==
  LET L == Charge(ledger, [x \in {"grant"} |->
                             Allocation(p.cores, path.ram, p.node, p.gpu, path.vram)])
  IN /\ Cardinality(p.cores) = path.cores
     /\ p.cores \cap AllocatedCores(ledger) = {} /\ p.cores \subseteq AllCores
     /\ GlobalFreeRam(L) >= Margin(MemCap)
     /\ path.placement = "cpu_pinned" =>
          p.cores \subseteq Node(p.node).cores /\ FreeRamNode(L, p.node) >= Margin(Node(p.node).ram)
     /\ path.placement = "gpu" => FreeVram(L, p.gpu) >= 0
GrantsAreFree == \A path \in PathSet : \A p \in PlaceNow(ledger, path) : GrantIsFree(path, p)

(* The pre-flight verdict and the placer agree: a path is capable exactly  *)
(* when it is placed on the idle machine (plan_placement: "feasibility and *)
(* placement have diverged, which is a scheduler bug").                    *)
CapableIsPlaceable ==
  ledger = <<>> => \A path \in PathSet : Capable(path) <=> PlaceNow(ledger, path) # {}

(* Returning resources never hurts: a path that could be placed still can  *)
(* be when an allocation is gone, so a waiting job is not made to wait by  *)
(* another's completion, although nodes and devices are tried in order.    *)
ReturningHelps ==
  \A path \in PathSet : PlaceNow(ledger, path) # {} =>
    \A k \in DOMAIN ledger : PlaceNow(Release(ledger, {k}), path) # {}
==============================================================================
