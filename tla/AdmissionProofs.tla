--------------------------- MODULE AdmissionProofs ---------------------------
(***************************************************************************)
(* For every machine, every set of paths and every number of allocations:  *)
(* what the placer grants is free, returning helps, and what pre-flight    *)
(* calls capable fits the idle machine.                                    *)
(***************************************************************************)
EXTENDS Admission, PlacementProofs

(* After a grant is charged, all it needed is still there, margins too.    *)
LEMMA GrantFits ==
  ASSUME LedgerShape(ledger), NEW path, PathShape(path), NEW p \in PlaceNow(ledger, path)
  PROVE  GrantIsFree(path, p)
<1> DEFINE a == Allocation(p.cores, path.ram, p.node, p.gpu, path.vram)
           M == Charge(ledger, [x \in {"grant"} |-> a])
<1>1. a.ram \in Nat /\ a.actual \in Nat /\ a.vram \in Nat /\ a.vram = path.vram /\ ChargedRam(a) = path.ram
  BY DEF Allocation, ChargedRam, PathShape
<1> HIDE DEF a
<1>2. /\ LedgerShape(M) /\ GlobalCommittedRam(M) <= ChargedRam(a) + GlobalCommittedRam(ledger)
      /\ \A n : CommittedRamNode(M, n) <= ChargedRam(a) + CommittedRamNode(ledger, n)
      /\ \A g : CommittedVram(M, g) <= a.vram + CommittedVram(ledger, g)
  BY <1>1, ChargeCommits
<1> HIDE DEF M
<1>3. path.ram \in Nat /\ path.vram \in Nat /\ MemCap \in Nat /\ Margin(MemCap) \in Int
  BY MarginType, InventoryAssumption DEF PathShape
<1>4. GlobalFreeRam(M) >= Margin(MemCap)
  <2>1. GlobalFreeRam(M) = MemCap - GlobalCommittedRam(M) /\ GlobalCommittedRam(M) \in Nat
    BY <1>2, FreeAmounts, ChargesAreBytes
  <2>2. GlobalFreeRam(ledger) = MemCap - GlobalCommittedRam(ledger) /\ GlobalCommittedRam(ledger) \in Nat
    BY FreeAmounts, ChargesAreBytes
  <2>3. GlobalFreeRam(ledger) - Margin(MemCap) >= path.ram
    BY PlacedIsFree
  <2> QED BY <1>1, <1>2, <1>3, <2>1, <2>2, <2>3
<1>5. ASSUME path.placement = "cpu_pinned"
      PROVE  p.cores \subseteq Node(p.node).cores /\ FreeRamNode(M, p.node) >= Margin(Node(p.node).ram)
  <2>1. PICK i \in DOMAIN NodeSeq : /\ p.node = NodeSeq[i].index
                                   /\ p.cores \subseteq FreeCores(ledger, NodeSeq[i].index)
                                   /\ FreeRamNode(ledger, NodeSeq[i].index) - Margin(NodeSeq[i].ram) >= path.ram
    BY <1>5, PlacedIsFree
  <2> DEFINE n == NodeSeq[i].index
  <2>2. Node(n) = NodeSeq[i] /\ NodeSeq[i].ram \in Nat /\ Margin(NodeSeq[i].ram) \in Int
    BY IndexNames, InventoryShape, MarginType
  <2>3. FreeCores(ledger, n) \subseteq NodeSeq[i].cores
    BY FreeAmounts
  <2>4. FreeRamNode(M, n) = NodeSeq[i].ram - CommittedRamNode(M, n) /\ CommittedRamNode(M, n) \in Nat
    BY <1>2, FreeAmounts, ChargesAreBytes
  <2>5. FreeRamNode(ledger, n) = NodeSeq[i].ram - CommittedRamNode(ledger, n) /\ CommittedRamNode(ledger, n) \in Nat
    BY FreeAmounts, ChargesAreBytes
  <2>6. CommittedRamNode(M, n) <= path.ram + CommittedRamNode(ledger, n)
    BY <1>1, <1>2
  <2>7. FreeRamNode(ledger, n) - Margin(NodeSeq[i].ram) >= path.ram
    BY <2>1
  <2>8. FreeRamNode(M, n) >= Margin(NodeSeq[i].ram)
    <3> HIDE DEF n
    <3> QED BY <2>2, <2>4, <2>5, <2>6, <2>7, <1>3
  <2> QED BY <2>1, <2>2, <2>3, <2>8
<1>6. ASSUME path.placement = "gpu" PROVE FreeVram(M, p.gpu) >= 0
  <2>1. PICK i \in DOMAIN GpuSeq : p.gpu = GpuSeq[i].index /\ FreeVram(ledger, GpuSeq[i].index) >= path.vram
    BY <1>6, PlacedIsFree
  <2> DEFINE g == GpuSeq[i].index
  <2>2. FreeVram(M, g) = GpuSeq[i].vram - CommittedVram(M, g) /\ CommittedVram(M, g) \in Nat
    BY <1>2, FreeAmounts, ChargesAreBytes
  <2>3. FreeVram(ledger, g) = GpuSeq[i].vram - CommittedVram(ledger, g) /\ CommittedVram(ledger, g) \in Nat
    BY FreeAmounts, ChargesAreBytes
  <2>4. GpuSeq[i].vram \in Nat
    BY InventoryShape
  <2>5. CommittedVram(M, g) <= path.vram + CommittedVram(ledger, g)
    BY <1>1, <1>2
  <2>6. FreeVram(ledger, g) >= path.vram
    BY <2>1
  <2>7. FreeVram(M, g) >= 0
    <3> HIDE DEF g
    <3> QED BY <2>2, <2>3, <2>4, <2>5, <2>6, <1>3
  <2> QED BY <2>1, <2>7
<1>7. Cardinality(p.cores) = path.cores /\ p.cores \cap AllocatedCores(ledger) = {} /\ p.cores \subseteq AllCores
  BY PlacedIsFree DEF FreeCoresAll
<1> QED BY <1>4, <1>5, <1>6, <1>7 DEF GrantIsFree, M, a

-----------------------------------------------------------------------------
LEMMA PathsAreShaped == \A path \in PathSet : PathShape(path)
BY PathAssumption DEF PathShape

LEMMA StepKeepsShape == LedgerShape(ledger) /\ [Next]_ledger => LedgerShape(ledger)'
<1> SUFFICES ASSUME LedgerShape(ledger), [Next]_ledger PROVE LedgerShape(ledger')
  BY DEF LedgerShape
<1>1. CASE Admit
  <2>1. PICK k \in Slots \ DOMAIN ledger, path \in PathSet : \E p \in PlaceNow(ledger, path) :
               ledger' = Charge(ledger, [x \in {k} |-> Allocation(p.cores, path.ram, p.node, p.gpu, path.vram)])
    BY <1>1 DEF Admit
  <2>2. PICK p : ledger' = Charge(ledger, [x \in {k} |-> Allocation(p.cores, path.ram, p.node, p.gpu, path.vram)])
    BY <2>1
  <2>3. PICK a : a = Allocation(p.cores, path.ram, p.node, p.gpu, path.vram)
    OBVIOUS
  <2>4. a.ram \in Nat /\ a.actual \in Nat /\ a.vram \in Nat
    BY <2>3, PathsAreShaped DEF Allocation, PathShape
  <2>5. LedgerShape(Charge(ledger, [x \in {k} |-> a]))
    BY <2>4, ChargeCommits
  <2> QED BY <2>2, <2>3, <2>5
<1>2. CASE Hold
  <2>1. PICK k \in Slots \ DOMAIN ledger, b \in HeldSizes, n \in NodeIds \cup {NoIndex} :
               ledger' = Charge(ledger, [x \in {k} |-> HostBytes(b, n)])
    BY <1>2 DEF Hold
  <2>2. PICK a : a = HostBytes(b, n)
    OBVIOUS
  <2>3. a.ram \in Nat /\ a.actual \in Nat /\ a.vram \in Nat
    BY <2>2, PathAssumption DEF Allocation, HostBytes
  <2>4. LedgerShape(Charge(ledger, [x \in {k} |-> a]))
    BY <2>3, ChargeCommits
  <2> QED BY <2>1, <2>2, <2>4
<1>3. CASE Return
  BY <1>3, ReleaseCommitsLess DEF Return
<1>4. CASE UNCHANGED ledger
  BY <1>4
<1> QED BY <1>1, <1>2, <1>3, <1>4 DEF Next

(* However the steps of the ledger are ordered, it stays a finite table of *)
(* whole bytes (Ledger.add, Ledger.remove).                                *)
THEOREM LedgerStaysFinite == Spec => []LedgerShape(ledger)
<1>1. Init => LedgerShape(ledger)
  BY EmptyLedger DEF Init
<1> QED BY <1>1, StepKeepsShape, PTL DEF Spec

(* What _place_now grants is free and leaves the margins, in every state   *)
(* the ledger can be driven to.                                            *)
THEOREM GrantsFit == Spec => []GrantsAreFree
<1>1. LedgerShape(ledger) => GrantsAreFree
  BY PathsAreShaped, GrantFits DEF GrantsAreFree
<1> QED BY <1>1, LedgerStaysFinite, PTL

(* Whatever is given back, a path that could be placed still can be.       *)
THEOREM ReturningNeverHurts == Spec => []ReturningHelps
<1>1. LedgerShape(ledger) => ReturningHelps
  BY PathsAreShaped, ReleaseKeepsPlaceable DEF ReturningHelps
<1> QED BY <1>1, LedgerStaysFinite, PTL

(* On the idle machine the placer serves exactly the capable paths.        *)
THEOREM VerdictsAgree == Spec => []CapableIsPlaceable
<1>1. CapableIsPlaceable
  BY PathsAreShaped, CapableFitsIdle DEF CapableIsPlaceable
<1> QED BY <1>1, PTL
==============================================================================
