--------------------------- MODULE PlacementProofs ---------------------------
(***************************************************************************)
(* The ledger and the placer, for every machine, ledger and path: what is  *)
(* committed and free, what a placement takes, what keeps a path placeable,*)
(* and that pre-flight's verdict is the placer's answer on an idle machine.*)
(***************************************************************************)
EXTENDS Placement, TotalsProofs

-----------------------------------------------------------------------------
(* The machine.                                                            *)
LEMMA InventoryShape ==
  /\ IsFiniteSet(DOMAIN NodeSeq) /\ DOMAIN NodeSeq \subseteq Nat
  /\ IsFiniteSet(DOMAIN GpuSeq) /\ DOMAIN GpuSeq \subseteq Nat
  /\ \A i \in DOMAIN NodeSeq : /\ NodeSeq[i].index \in Nat /\ NodeSeq[i].ram \in Nat
                               /\ NodeSeq[i].cores \in SUBSET Nat /\ IsFiniteSet(NodeSeq[i].cores)
  /\ \A i \in DOMAIN GpuSeq : GpuSeq[i].index \in Nat /\ GpuSeq[i].vram \in Nat
<1>1. DOMAIN NodeSeq = 1..Len(NodeSeq) /\ Len(NodeSeq) \in Nat
  BY InventoryAssumption
<1>2. DOMAIN GpuSeq = 1..Len(GpuSeq) /\ Len(GpuSeq) \in Nat
  BY InventoryAssumption
<1>3. IsFiniteSet(1..Len(NodeSeq)) /\ IsFiniteSet(1..Len(GpuSeq))
  BY <1>1, <1>2, FS_Interval
<1> DEFINE Nodes == [index : Nat, cores : SUBSET Nat, ram : Nat]
           Gpus == [index : Nat, vram : Nat, node : Nat \cup {NoIndex}]
<1>4. \A i \in DOMAIN NodeSeq : NodeSeq[i] \in Nodes
  <2>1. NodeSeq \in Seq(Nodes)
    BY InventoryAssumption
  <2> HIDE DEF Nodes
  <2> QED BY <2>1
<1>5. \A i \in DOMAIN GpuSeq : GpuSeq[i] \in Gpus
  <2>1. GpuSeq \in Seq(Gpus)
    BY InventoryAssumption
  <2> HIDE DEF Gpus
  <2> QED BY <2>1
<1> QED BY <1>1, <1>2, <1>3, <1>4, <1>5, InventoryAssumption

(* An index names its node and its device.                                 *)
LEMMA IndexNames ==
  /\ \A i \in DOMAIN NodeSeq : Node(NodeSeq[i].index) = NodeSeq[i]
  /\ \A i \in DOMAIN GpuSeq : Gpu(GpuSeq[i].index) = GpuSeq[i]
BY MachineAssumption DEF Node, Gpu

LEMMA CoresAddUp == IsFiniteSet(AllCores) /\ TotalCores = Cardinality(AllCores)
<1> DEFINE I == DOMAIN NodeSeq
           C == [i \in I |-> NodeSeq[i].cores]
<1>1. IsFiniteSet(I) /\ \A i \in I : IsFiniteSet(C[i])
  BY InventoryShape
<1>2. \A i, j \in I : i # j => C[i] \cap C[j] = {}
  BY MachineAssumption
<1>3. AllCores = UNION {C[i] : i \in I}
  BY DEF AllCores
<1>4. [i \in I |-> Cardinality(NodeSeq[i].cores)] = [i \in I |-> Cardinality(C[i])]
  OBVIOUS
<1>5. TotalCores = Total([i \in I |-> Cardinality(C[i])], I)
  BY <1>4 DEF TotalCores
<1> HIDE DEF I, C
<1> QED BY <1>1, <1>2, <1>3, <1>5, TotalOfSizes

(* Taking the lowest-numbered cores takes as many as asked for.            *)
Lower(S, c) == {d \in S : d < c}
LEMMA TakenAreLow == \A S, n : Take(S, n) = {c \in S : Cardinality(Lower(S, c)) < n}
BY DEF Take, Lower

LEMMA LowerShape ==
  ASSUME NEW S \in SUBSET Nat, IsFiniteSet(S)
  PROVE  \A c \in S : Lower(S, c) \in SUBSET S /\ IsFiniteSet(Lower(S, c)) /\ Cardinality(Lower(S, c)) \in Nat
<1> TAKE c \in S
<1>1. Lower(S, c) \in SUBSET S
  BY DEF Lower
<1> QED BY <1>1, FS_Subset, FS_CardinalityType

LEMMA TakeOneMore ==
  ASSUME NEW S \in SUBSET Nat, IsFiniteSet(S), NEW n \in Nat,
         n < Cardinality(S), Cardinality(Take(S, n)) = n
  PROVE  Cardinality(Take(S, n + 1)) = n + 1
<1>1. PICK T : T = Take(S, n)
  OBVIOUS
<1>2. T \in SUBSET S /\ IsFiniteSet(T) /\ T # S
  <2>1. T \in SUBSET S
    BY <1>1 DEF Take
  <2> QED BY <2>1, <1>1, FS_Subset
<1>3. PICK m \in S \ T : \A c \in S \ T : m <= c
  BY <1>2, LeastNat
<1>4. \A c \in S : c \in T <=> Cardinality(Lower(S, c)) < n
  BY <1>1, TakenAreLow
<1>5. Lower(S, m) \subseteq T
  <2>1. ASSUME NEW d \in S, d < m PROVE d \in T
    BY <2>1, <1>3
  <2> QED BY <2>1 DEF Lower
<1>6. ASSUME NEW c \in T PROVE c < m
  <2>1. SUFFICES ASSUME m <= c PROVE FALSE
    BY <1>2, <1>3
  <2>2. Lower(S, m) \in SUBSET Lower(S, c)
    <3>1. ASSUME NEW d \in S, d < m PROVE d < c
      BY <2>1, <1>2, <1>3, <3>1
    <3> QED BY <3>1 DEF Lower
  <2>3. Cardinality(Lower(S, m)) <= Cardinality(Lower(S, c))
    BY <2>2, <1>2, LowerShape, FS_Subset
  <2>4. Cardinality(Lower(S, c)) < n /\ ~(Cardinality(Lower(S, m)) < n)
    BY <1>2, <1>3, <1>4
  <2>5. Cardinality(Lower(S, c)) \in Nat /\ Cardinality(Lower(S, m)) \in Nat
    BY <1>2, <1>3, LowerShape
  <2> QED BY <2>3, <2>4, <2>5
<1>7. Lower(S, m) = T
  BY <1>2, <1>5, <1>6 DEF Lower
<1>8. IsFiniteSet(T \cup {m}) /\ Cardinality(T \cup {m}) = n + 1
  BY <1>1, <1>2, <1>3, FS_AddElement
<1>9. ASSUME NEW c \in T \cup {m} PROVE Cardinality(Lower(S, c)) < n + 1
  <2>1. CASE c = m
    BY <2>1, <1>7, <1>1
  <2>2. CASE c \in T
    BY <2>2, <1>2, <1>4, LowerShape
  <2> QED BY <2>1, <2>2
<1>10. ASSUME NEW c \in S, c \notin T \cup {m} PROVE ~(Cardinality(Lower(S, c)) < n + 1)
  <2>1. m < c
    BY <1>3, <1>10
  <2>2. T \cup {m} \in SUBSET Lower(S, c)
    <3>1. \A d \in T \cup {m} : d \in S /\ d < c
      BY <2>1, <1>2, <1>3, <1>6
    <3> QED BY <3>1 DEF Lower
  <2>3. Cardinality(T \cup {m}) <= Cardinality(Lower(S, c))
    BY <2>2, LowerShape, FS_Subset
  <2> QED BY <2>3, <1>8, LowerShape
<1>11. Take(S, n + 1) = T \cup {m}
  BY <1>2, <1>3, <1>9, <1>10, TakenAreLow
<1> QED BY <1>8, <1>11

LEMMA TakeCounts ==
  ASSUME NEW S \in SUBSET Nat, IsFiniteSet(S), NEW n \in Nat, n <= Cardinality(S)
  PROVE  Take(S, n) \subseteq S /\ Cardinality(Take(S, n)) = n
<1> DEFINE Bad == {k \in 0..n : Cardinality(Take(S, k)) # k}
<1>1. Take(S, n) \subseteq S
  BY DEF Take
<1>2. SUFFICES ASSUME Cardinality(Take(S, n)) # n PROVE FALSE
  BY <1>1
<1>3. Bad \in SUBSET Nat /\ Bad # {}
  BY <1>2
<1>4. PICK k \in Bad : \A m \in Bad : k <= m
  <2> HIDE DEF Bad
  <2> QED BY <1>3, LeastNat
<1>5. Cardinality(Take(S, 0)) = 0
  <2>1. Take(S, 0) = {}
    <3>1. \A c \in S : ~(Cardinality(Lower(S, c)) < 0)
      BY LowerShape
    <3> QED BY <3>1, TakenAreLow
  <2> QED BY <2>1, FS_EmptySet
<1>6. k \in Nat /\ k - 1 \in Nat /\ k - 1 < n /\ k - 1 \notin Bad /\ Cardinality(Take(S, k)) # k
  BY <1>4, <1>5
<1>7. Cardinality(Take(S, k - 1)) = k - 1
  BY <1>6
<1>8. k - 1 < Cardinality(S)
  BY <1>6, FS_CardinalityType
<1>9. Cardinality(Take(S, (k - 1) + 1)) = (k - 1) + 1
  BY <1>6, <1>7, <1>8, TakeOneMore
<1>10. (k - 1) + 1 = k
  BY <1>6
<1> QED BY <1>6, <1>9, <1>10

-----------------------------------------------------------------------------
(* The ledger: finitely many allocations, of whole bytes.                  *)
LedgerShape(L) ==
  /\ IsFiniteSet(DOMAIN L)
  /\ \A k \in DOMAIN L : L[k].ram \in Nat /\ L[k].actual \in Nat /\ L[k].vram \in Nat

VramsOf(L) == [k \in DOMAIN L |-> L[k].vram]
OnNode(L, n) == {k \in DOMAIN L : L[k].node = n}
OnGpu(L, g) == {k \in DOMAIN L : L[k].gpu = g}

LEMMA ChargesAreBytes ==
  ASSUME NEW L, LedgerShape(L)
  PROVE  /\ \A k \in DOMAIN L : ChargesOf(L)[k] \in Nat /\ VramsOf(L)[k] \in Nat
         /\ GlobalCommittedRam(L) \in Nat
         /\ \A n : IsFiniteSet(OnNode(L, n)) /\ OnNode(L, n) \subseteq DOMAIN L /\ CommittedRamNode(L, n) \in Nat
         /\ \A g : IsFiniteSet(OnGpu(L, g)) /\ OnGpu(L, g) \subseteq DOMAIN L /\ CommittedVram(L, g) \in Nat
<1>1. \A k \in DOMAIN L : ChargesOf(L)[k] \in Nat /\ VramsOf(L)[k] \in Nat
  BY DEF LedgerShape, ChargesOf, ChargedRam, VramsOf
<1>2. IsFiniteSet(DOMAIN L)
  BY DEF LedgerShape
<1>3. GlobalCommittedRam(L) \in Nat
  BY <1>1, <1>2, TotalIsNat DEF GlobalCommittedRam
<1>4. ASSUME NEW n PROVE IsFiniteSet(OnNode(L, n)) /\ OnNode(L, n) \subseteq DOMAIN L /\ CommittedRamNode(L, n) \in Nat
  <2>1. OnNode(L, n) \in SUBSET DOMAIN L
    BY DEF OnNode
  <2>2. IsFiniteSet(OnNode(L, n))
    BY <1>2, <2>1, FS_Subset
  <2>3. Total(ChargesOf(L), OnNode(L, n)) \in Nat
    BY <1>1, <2>1, <2>2, TotalIsNat
  <2> QED BY <2>1, <2>2, <2>3 DEF CommittedRamNode, OnNode
<1>5. ASSUME NEW g PROVE IsFiniteSet(OnGpu(L, g)) /\ OnGpu(L, g) \subseteq DOMAIN L /\ CommittedVram(L, g) \in Nat
  <2>1. OnGpu(L, g) \in SUBSET DOMAIN L
    BY DEF OnGpu
  <2>2. IsFiniteSet(OnGpu(L, g))
    BY <1>2, <2>1, FS_Subset
  <2>3. Total(VramsOf(L), OnGpu(L, g)) \in Nat
    BY <1>1, <2>1, <2>2, TotalIsNat
  <2> QED BY <2>1, <2>2, <2>3 DEF CommittedVram, OnGpu, VramsOf
<1> QED BY <1>1, <1>3, <1>4, <1>5

(* What is committed after keys are given back is no more than before.     *)
LEMMA ReleaseCommitsLess ==
  ASSUME NEW L, LedgerShape(L), NEW K
  PROVE  /\ LedgerShape(Release(L, K))
         /\ GlobalCommittedRam(Release(L, K)) <= GlobalCommittedRam(L)
         /\ \A n : CommittedRamNode(Release(L, K), n) <= CommittedRamNode(L, n)
         /\ \A g : CommittedVram(Release(L, K), g) <= CommittedVram(L, g)
         /\ AllocatedCores(Release(L, K)) \subseteq AllocatedCores(L)
<1> DEFINE M == Release(L, K)
<1>1. DOMAIN M \subseteq DOMAIN L /\ \A k \in DOMAIN M : M[k] = L[k]
  BY DEF Release
<1> HIDE DEF M
<1>2. LedgerShape(M)
  <2>1. DOMAIN M \in SUBSET DOMAIN L /\ IsFiniteSet(DOMAIN L)
    BY <1>1 DEF LedgerShape
  <2>2. IsFiniteSet(DOMAIN M)
    BY <2>1, FS_Subset
  <2> QED BY <1>1, <2>2 DEF LedgerShape
<1>3. \A k \in DOMAIN M : /\ ChargesOf(M)[k] \in Int /\ ChargesOf(M)[k] <= ChargesOf(L)[k]
                           /\ VramsOf(M)[k] \in Int /\ VramsOf(M)[k] <= VramsOf(L)[k]
  <2> TAKE k \in DOMAIN M
  <2>1. ChargesOf(M)[k] = ChargesOf(L)[k] /\ VramsOf(M)[k] = VramsOf(L)[k]
    BY <1>1 DEF ChargesOf, VramsOf
  <2>2. ChargesOf(M)[k] \in Nat /\ VramsOf(M)[k] \in Nat
    BY <1>2, ChargesAreBytes
  <2> QED BY <2>1, <2>2
<1>4. GlobalCommittedRam(M) <= GlobalCommittedRam(L)
  <2>1. IsFiniteSet(DOMAIN L)
    BY DEF LedgerShape
  <2> QED BY <1>1, <1>3, <2>1, ChargesAreBytes, TotalGrows DEF GlobalCommittedRam
<1>5. ASSUME NEW n PROVE CommittedRamNode(M, n) <= CommittedRamNode(L, n)
  <2>1. OnNode(M, n) \subseteq OnNode(L, n) /\ OnNode(M, n) \subseteq DOMAIN M
    BY <1>1 DEF OnNode
  <2>2. IsFiniteSet(OnNode(L, n)) /\ \A k \in OnNode(L, n) : ChargesOf(L)[k] \in Nat
    BY ChargesAreBytes
  <2>3. \A k \in OnNode(M, n) : ChargesOf(M)[k] \in Int /\ ChargesOf(M)[k] <= ChargesOf(L)[k]
    BY <2>1, <1>3
  <2>4. Total(ChargesOf(M), OnNode(M, n)) <= Total(ChargesOf(L), OnNode(L, n))
    BY <2>1, <2>2, <2>3, TotalGrows
  <2> QED BY <2>4 DEF CommittedRamNode, OnNode
<1>6. ASSUME NEW g PROVE CommittedVram(M, g) <= CommittedVram(L, g)
  <2>1. OnGpu(M, g) \subseteq OnGpu(L, g) /\ OnGpu(M, g) \subseteq DOMAIN M
    BY <1>1 DEF OnGpu
  <2>2. IsFiniteSet(OnGpu(L, g)) /\ \A k \in OnGpu(L, g) : VramsOf(L)[k] \in Nat
    BY ChargesAreBytes
  <2>3. \A k \in OnGpu(M, g) : VramsOf(M)[k] \in Int /\ VramsOf(M)[k] <= VramsOf(L)[k]
    BY <2>1, <1>3
  <2>4. Total(VramsOf(M), OnGpu(M, g)) <= Total(VramsOf(L), OnGpu(L, g))
    BY <2>1, <2>2, <2>3, TotalGrows
  <2> QED BY <2>4 DEF CommittedVram, OnGpu, VramsOf
<1>7. AllocatedCores(M) \subseteq AllocatedCores(L)
  BY <1>1 DEF AllocatedCores
<1> QED BY <1>2, <1>4, <1>5, <1>6, <1>7 DEF M

(* One more allocation commits at most what it asks for.                   *)
LEMMA ChargeCommits ==
  ASSUME NEW L, LedgerShape(L), NEW key, NEW a,
         a.ram \in Nat, a.actual \in Nat, a.vram \in Nat
  PROVE  LET M == Charge(L, [x \in {key} |-> a])
         IN  /\ LedgerShape(M)
             /\ GlobalCommittedRam(M) <= ChargedRam(a) + GlobalCommittedRam(L)
             /\ \A n : CommittedRamNode(M, n) <= ChargedRam(a) + CommittedRamNode(L, n)
             /\ \A g : CommittedVram(M, g) <= a.vram + CommittedVram(L, g)
<1> DEFINE M == Charge(L, [x \in {key} |-> a])
<1>1. /\ DOMAIN M = DOMAIN L \cup {key} /\ M[key] = a
      /\ \A k \in DOMAIN M \ {key} : k \in DOMAIN L /\ M[k] = L[k]
  BY DEF Charge
<1> HIDE DEF M
<1>2. LedgerShape(M)
  <2>1. IsFiniteSet(DOMAIN M)
    BY <1>1, FS_AddElement DEF LedgerShape
  <2> QED BY <1>1, <2>1 DEF LedgerShape
<1>3. /\ ChargesOf(M)[key] = ChargedRam(a) /\ VramsOf(M)[key] = a.vram
      /\ \A k \in DOMAIN M \ {key} : ChargesOf(M)[k] = ChargesOf(L)[k] /\ VramsOf(M)[k] = VramsOf(L)[k]
  BY <1>1 DEF ChargesOf, VramsOf
<1>4. ChargedRam(a) \in Nat
  BY DEF ChargedRam
<1>5. GlobalCommittedRam(M) <= ChargedRam(a) + GlobalCommittedRam(L)
  <2>1. IsFiniteSet(DOMAIN L) /\ \A k \in DOMAIN L : ChargesOf(L)[k] \in Nat
    BY ChargesAreBytes DEF LedgerShape
  <2>2. DOMAIN M \ {key} \subseteq DOMAIN L
    BY <1>1
  <2> QED BY <1>3, <1>4, <2>1, <2>2, TotalOneMore DEF GlobalCommittedRam
<1>6. ASSUME NEW n PROVE CommittedRamNode(M, n) <= ChargedRam(a) + CommittedRamNode(L, n)
  <2>1. OnNode(M, n) \ {key} \subseteq OnNode(L, n) /\ OnNode(M, n) \subseteq DOMAIN M
    BY <1>1 DEF OnNode
  <2>2. IsFiniteSet(OnNode(L, n)) /\ \A k \in OnNode(L, n) : ChargesOf(L)[k] \in Nat
    BY ChargesAreBytes
  <2>3. \A k \in OnNode(M, n) \ {key} : ChargesOf(M)[k] = ChargesOf(L)[k]
    BY <2>1, <1>3
  <2>4. Total(ChargesOf(M), OnNode(M, n)) <= ChargedRam(a) + Total(ChargesOf(L), OnNode(L, n))
    BY <2>1, <2>2, <2>3, <1>3, <1>4, TotalOneMore
  <2> QED BY <2>4 DEF CommittedRamNode, OnNode
<1>7. ASSUME NEW g PROVE CommittedVram(M, g) <= a.vram + CommittedVram(L, g)
  <2>1. OnGpu(M, g) \ {key} \subseteq OnGpu(L, g) /\ OnGpu(M, g) \subseteq DOMAIN M
    BY <1>1 DEF OnGpu
  <2>2. IsFiniteSet(OnGpu(L, g)) /\ \A k \in OnGpu(L, g) : VramsOf(L)[k] \in Nat
    BY ChargesAreBytes
  <2>3. \A k \in OnGpu(M, g) \ {key} : VramsOf(M)[k] = VramsOf(L)[k]
    BY <2>1, <1>3
  <2>4. Total(VramsOf(M), OnGpu(M, g)) <= a.vram + Total(VramsOf(L), OnGpu(L, g))
    BY <2>1, <2>2, <2>3, <1>3, TotalOneMore
  <2> QED BY <2>4 DEF CommittedVram, OnGpu, VramsOf
<1> QED BY <1>2, <1>5, <1>6, <1>7 DEF M

-----------------------------------------------------------------------------
(* What is free.                                                           *)
LEMMA MarginType == \A b \in Nat : Margin(b) \in Int
<1> TAKE b \in Nat
<1>1. MarginPct * b \in Nat
  BY MarginAssumption
<1> QED BY <1>1 DEF Margin

LEMMA FreeAmounts ==
  ASSUME NEW L, LedgerShape(L)
  PROVE  /\ GlobalFreeRam(L) \in Int /\ GlobalFreeRam(L) = MemCap - GlobalCommittedRam(L)
         /\ \A i \in DOMAIN NodeSeq :
              /\ FreeRamNode(L, NodeSeq[i].index) \in Int
              /\ FreeRamNode(L, NodeSeq[i].index) = NodeSeq[i].ram - CommittedRamNode(L, NodeSeq[i].index)
              /\ FreeCores(L, NodeSeq[i].index) = NodeSeq[i].cores \ AllocatedCores(L)
              /\ IsFiniteSet(FreeCores(L, NodeSeq[i].index))
              /\ FreeCores(L, NodeSeq[i].index) \in SUBSET Nat
         /\ \A i \in DOMAIN GpuSeq :
              /\ FreeVram(L, GpuSeq[i].index) \in Int
              /\ FreeVram(L, GpuSeq[i].index) = GpuSeq[i].vram - CommittedVram(L, GpuSeq[i].index)
         /\ IsFiniteSet(FreeCoresAll(L)) /\ FreeCoresAll(L) \in SUBSET Nat
<1>1. GlobalFreeRam(L) \in Int /\ GlobalFreeRam(L) = MemCap - GlobalCommittedRam(L)
  BY InventoryAssumption, ChargesAreBytes DEF GlobalFreeRam
<1>2. ASSUME NEW i \in DOMAIN NodeSeq
      PROVE  /\ FreeRamNode(L, NodeSeq[i].index) \in Int
             /\ FreeRamNode(L, NodeSeq[i].index) = NodeSeq[i].ram - CommittedRamNode(L, NodeSeq[i].index)
             /\ FreeCores(L, NodeSeq[i].index) = NodeSeq[i].cores \ AllocatedCores(L)
             /\ IsFiniteSet(FreeCores(L, NodeSeq[i].index))
             /\ FreeCores(L, NodeSeq[i].index) \in SUBSET Nat
  <2>1. Node(NodeSeq[i].index) = NodeSeq[i]
    BY IndexNames
  <2>2. FreeRamNode(L, NodeSeq[i].index) = NodeSeq[i].ram - CommittedRamNode(L, NodeSeq[i].index)
    BY <2>1 DEF FreeRamNode
  <2>3. FreeCores(L, NodeSeq[i].index) = NodeSeq[i].cores \ AllocatedCores(L)
    BY <2>1 DEF FreeCores
  <2>4. NodeSeq[i].ram \in Nat /\ IsFiniteSet(NodeSeq[i].cores) /\ NodeSeq[i].cores \in SUBSET Nat
    BY InventoryShape
  <2>5. CommittedRamNode(L, NodeSeq[i].index) \in Nat
    BY ChargesAreBytes
  <2>6. IsFiniteSet(NodeSeq[i].cores \ AllocatedCores(L))
    BY <2>4, FS_Difference
  <2> QED BY <2>2, <2>3, <2>4, <2>5, <2>6
<1>3. ASSUME NEW i \in DOMAIN GpuSeq
      PROVE  /\ FreeVram(L, GpuSeq[i].index) \in Int
             /\ FreeVram(L, GpuSeq[i].index) = GpuSeq[i].vram - CommittedVram(L, GpuSeq[i].index)
  <2>1. Gpu(GpuSeq[i].index) = GpuSeq[i] /\ GpuSeq[i].vram \in Nat
    BY IndexNames, InventoryShape
  <2>2. CommittedVram(L, GpuSeq[i].index) \in Nat
    BY ChargesAreBytes
  <2> QED BY <2>1, <2>2 DEF FreeVram
<1>4. IsFiniteSet(FreeCoresAll(L)) /\ FreeCoresAll(L) \in SUBSET Nat
  <2>1. AllCores \in SUBSET Nat
    BY InventoryShape DEF AllCores
  <2> QED BY <2>1, CoresAddUp, FS_Difference DEF FreeCoresAll
<1> QED BY <1>1, <1>2, <1>3, <1>4

PathShape(path) ==
  /\ path.placement \in {"cpu_pinned", "cpu_unpinned", "gpu"}
  /\ path.cores \in Nat /\ path.ram \in Nat /\ path.vram \in Nat

(* What a placement names and takes.                                       *)
LEMMA PlacedIsFree ==
  ASSUME NEW L, LedgerShape(L), NEW path, PathShape(path), NEW p \in PlaceNow(L, path)
  PROVE  /\ GlobalFreeRam(L) - Margin(MemCap) >= path.ram
         /\ Cardinality(p.cores) = path.cores
         /\ p.cores \subseteq FreeCoresAll(L)
         /\ path.placement = "cpu_pinned" =>
              \E i \in DOMAIN NodeSeq : /\ p.node = NodeSeq[i].index
                                        /\ p.cores \subseteq FreeCores(L, NodeSeq[i].index)
                                        /\ FreeRamNode(L, NodeSeq[i].index) - Margin(NodeSeq[i].ram) >= path.ram
         /\ path.placement = "gpu" =>
              \E i \in DOMAIN GpuSeq : p.gpu = GpuSeq[i].index /\ FreeVram(L, GpuSeq[i].index) >= path.vram
<1>1. GlobalFreeRam(L) - Margin(MemCap) >= path.ram
  <2>1. ~(GlobalFreeRam(L) - Margin(MemCap) < path.ram)
    BY DEF PlaceNow
  <2>2. Margin(MemCap) \in Int /\ path.ram \in Nat /\ GlobalFreeRam(L) \in Int
    BY MarginType, InventoryAssumption, FreeAmounts DEF PathShape
  <2> QED BY <2>1, <2>2
<1>2. /\ IsFiniteSet(FreeCoresAll(L)) /\ FreeCoresAll(L) \in SUBSET Nat
      /\ Cardinality(FreeCoresAll(L)) \in Nat /\ path.cores \in Nat
  BY FreeAmounts, FS_CardinalityType DEF PathShape
<1>3. CASE path.placement = "cpu_pinned"
  <2> DEFINE i == Min(FittingNodes(L, path))
             n == NodeSeq[i].index
  <2>1. FittingNodes(L, path) # {} /\ p = Placed(path, Take(FreeCores(L, n), path.cores), n, NoIndex)
    BY <1>3 DEF PlaceNow
  <2>2. FittingNodes(L, path) \in SUBSET Nat
    BY InventoryShape DEF FittingNodes
  <2>3. i \in FittingNodes(L, path)
    BY <2>1, <2>2, LeastOf
  <2> HIDE DEF i
  <2>4. /\ i \in DOMAIN NodeSeq /\ Cardinality(FreeCores(L, n)) >= path.cores
        /\ FreeRamNode(L, n) - Margin(NodeSeq[i].ram) >= path.ram
    BY <2>3 DEF FittingNodes
  <2>5. /\ FreeCores(L, n) = NodeSeq[i].cores \ AllocatedCores(L)
        /\ IsFiniteSet(FreeCores(L, n)) /\ FreeCores(L, n) \in SUBSET Nat
    BY <2>4, FreeAmounts
  <2>6. path.cores <= Cardinality(FreeCores(L, n))
    BY <2>4, <2>5, <1>2, FS_CardinalityType
  <2>7. Take(FreeCores(L, n), path.cores) \subseteq FreeCores(L, n) /\ Cardinality(Take(FreeCores(L, n), path.cores)) = path.cores
    <3> HIDE DEF n
    <3> QED BY <2>5, <2>6, <1>2, TakeCounts
  <2>8. FreeCores(L, n) \subseteq FreeCoresAll(L)
    BY <2>4, <2>5 DEF FreeCoresAll, AllCores
  <2> QED BY <1>1, <1>3, <2>1, <2>4, <2>7, <2>8 DEF Placed
<1>4. CASE path.placement # "cpu_pinned"
  <2>1. ~(Cardinality(FreeCoresAll(L)) < path.cores) /\ p.cores = Take(FreeCoresAll(L), path.cores)
    BY <1>4 DEF PlaceNow, Placed
  <2>2. path.cores <= Cardinality(FreeCoresAll(L))
    BY <2>1, <1>2
  <2>3. Take(FreeCoresAll(L), path.cores) \subseteq FreeCoresAll(L) /\ Cardinality(Take(FreeCoresAll(L), path.cores)) = path.cores
    BY <2>2, <1>2, TakeCounts
  <2>4. ASSUME path.placement = "gpu"
        PROVE  \E i \in DOMAIN GpuSeq : p.gpu = GpuSeq[i].index /\ FreeVram(L, GpuSeq[i].index) >= path.vram
    <3>1. FittingGpus(L, path) # {} /\ p.gpu = GpuSeq[Min(FittingGpus(L, path))].index
      BY <2>4 DEF PlaceNow, Placed
    <3>2. FittingGpus(L, path) \in SUBSET Nat
      BY InventoryShape DEF FittingGpus
    <3>3. Min(FittingGpus(L, path)) \in FittingGpus(L, path)
      BY <3>1, <3>2, LeastOf
    <3> QED BY <3>1, <3>3 DEF FittingGpus
  <2> QED BY <1>1, <1>4, <2>1, <2>3, <2>4
<1> QED BY <1>3, <1>4

(* What fits beside L fits beside any ledger that commits no more of what  *)
(* the placement takes from: the memory of the machine, of its node and of *)
(* its device.                                                             *)
LEMMA MoreRoomPlaces ==
  ASSUME NEW L, LedgerShape(L), NEW M, LedgerShape(M), NEW path, PathShape(path), NEW p \in PlaceNow(L, path),
         GlobalCommittedRam(M) <= GlobalCommittedRam(L),
         AllocatedCores(M) \subseteq AllocatedCores(L),
         CommittedRamNode(M, p.node) <= CommittedRamNode(L, p.node),
         CommittedVram(M, p.gpu) <= CommittedVram(L, p.gpu)
  PROVE  PlaceNow(M, path) # {}
<1>1. GlobalFreeRam(L) - Margin(MemCap) >= path.ram /\ Cardinality(p.cores) = path.cores /\ p.cores \subseteq FreeCoresAll(L)
  BY PlacedIsFree
<1>2. path.ram \in Nat /\ path.vram \in Nat /\ path.cores \in Nat /\ Margin(MemCap) \in Int
  BY MarginType, InventoryAssumption DEF PathShape
<1>3. ~(GlobalFreeRam(M) - Margin(MemCap) < path.ram)
  <2>1. GlobalFreeRam(L) <= GlobalFreeRam(M) /\ GlobalFreeRam(L) \in Int /\ GlobalFreeRam(M) \in Int
    BY FreeAmounts, ChargesAreBytes, InventoryAssumption
  <2> QED BY <1>1, <1>2, <2>1
<1>4. ASSUME path.placement = "cpu_pinned" PROVE FittingNodes(M, path) # {}
  <2>1. PICK i \in DOMAIN NodeSeq : /\ p.node = NodeSeq[i].index
                                   /\ p.cores \subseteq FreeCores(L, NodeSeq[i].index)
                                   /\ FreeRamNode(L, NodeSeq[i].index) - Margin(NodeSeq[i].ram) >= path.ram
    BY <1>4, PlacedIsFree
  <2> DEFINE n == NodeSeq[i].index
  <2>2. /\ IsFiniteSet(FreeCores(M, n))
        /\ FreeCores(L, n) = NodeSeq[i].cores \ AllocatedCores(L)
        /\ FreeCores(M, n) = NodeSeq[i].cores \ AllocatedCores(M)
    BY FreeAmounts
  <2>3. FreeRamNode(L, n) \in Int /\ FreeRamNode(M, n) \in Int /\ FreeRamNode(L, n) <= FreeRamNode(M, n)
    <3>1. FreeRamNode(L, n) = NodeSeq[i].ram - CommittedRamNode(L, n)
      BY FreeAmounts
    <3>2. FreeRamNode(M, n) = NodeSeq[i].ram - CommittedRamNode(M, n)
      BY FreeAmounts
    <3>3. CommittedRamNode(M, n) \in Nat /\ CommittedRamNode(L, n) \in Nat /\ NodeSeq[i].ram \in Nat
      BY ChargesAreBytes, InventoryShape
    <3>4. CommittedRamNode(M, n) <= CommittedRamNode(L, n)
      BY <2>1
    <3> HIDE DEF n
    <3> QED BY <3>1, <3>2, <3>3, <3>4
  <2>4. p.cores \in SUBSET FreeCores(M, n)
    BY <2>1, <2>2
  <2>5. FreeRamNode(L, n) - Margin(NodeSeq[i].ram) >= path.ram /\ Margin(NodeSeq[i].ram) \in Int
    BY <2>1, MarginType, InventoryShape
  <2> HIDE DEF n
  <2>6. Cardinality(p.cores) <= Cardinality(FreeCores(M, n)) /\ Cardinality(FreeCores(M, n)) \in Nat
    BY <2>2, <2>4, FS_Subset, FS_CardinalityType
  <2>7. Cardinality(FreeCores(M, n)) >= path.cores
    BY <1>1, <1>2, <2>6
  <2>8. FreeRamNode(M, n) - Margin(NodeSeq[i].ram) >= path.ram
    BY <1>2, <2>3, <2>5
  <2>9. i \in FittingNodes(M, path)
    BY <2>7, <2>8 DEF FittingNodes, n
  <2> QED BY <2>9
<1>5. ~(Cardinality(FreeCoresAll(M)) < path.cores)
  <2>1. p.cores \in SUBSET FreeCoresAll(M) /\ IsFiniteSet(FreeCoresAll(M))
    BY <1>1, FreeAmounts DEF FreeCoresAll
  <2>2. Cardinality(p.cores) <= Cardinality(FreeCoresAll(M)) /\ Cardinality(FreeCoresAll(M)) \in Nat
    BY <2>1, FS_Subset, FS_CardinalityType
  <2> QED BY <1>1, <1>2, <2>2
<1>6. ASSUME path.placement = "gpu" PROVE FittingGpus(M, path) # {}
  <2>1. PICK i \in DOMAIN GpuSeq : p.gpu = GpuSeq[i].index /\ FreeVram(L, GpuSeq[i].index) >= path.vram
    BY <1>6, PlacedIsFree
  <2> DEFINE g == GpuSeq[i].index
  <2>2. FreeVram(L, g) = GpuSeq[i].vram - CommittedVram(L, g) /\ FreeVram(M, g) = GpuSeq[i].vram - CommittedVram(M, g)
    BY FreeAmounts
  <2>3. CommittedVram(M, g) \in Nat /\ CommittedVram(L, g) \in Nat /\ GpuSeq[i].vram \in Nat
    BY ChargesAreBytes, InventoryShape
  <2>4. CommittedVram(M, g) <= CommittedVram(L, g) /\ FreeVram(L, g) >= path.vram
    BY <2>1
  <2> HIDE DEF g
  <2>5. FreeVram(M, g) >= path.vram
    BY <1>2, <2>2, <2>3, <2>4
  <2>6. i \in FittingGpus(M, path)
    BY <2>5 DEF FittingGpus, g
  <2> QED BY <2>6
<1>7. CASE path.placement = "cpu_pinned"
  BY <1>3, <1>4, <1>7 DEF PlaceNow
<1>8. CASE path.placement = "cpu_unpinned"
  BY <1>3, <1>5, <1>8 DEF PlaceNow
<1>9. CASE path.placement = "gpu"
  BY <1>3, <1>5, <1>6, <1>9 DEF PlaceNow
<1> QED BY <1>7, <1>8, <1>9 DEF PathShape

(* Giving keys back leaves every path that could be placed placeable.      *)
LEMMA ReleaseKeepsPlaceable ==
  ASSUME NEW L, LedgerShape(L), NEW K, NEW path, PathShape(path), PlaceNow(L, path) # {}
  PROVE  PlaceNow(Release(L, K), path) # {}
<1>1. PICK p \in PlaceNow(L, path) : TRUE
  OBVIOUS
<1> QED BY <1>1, ReleaseCommitsLess, MoreRoomPlaces

LEMMA EmptyLedger ==
  /\ LedgerShape(<<>>) /\ AllocatedCores(<<>>) = {} /\ GlobalCommittedRam(<<>>) = 0
  /\ \A n : CommittedRamNode(<<>>, n) = 0
  /\ \A g : CommittedVram(<<>>, g) = 0
<1>1. DOMAIN <<>> = {}
  OBVIOUS
<1>2. LedgerShape(<<>>) /\ AllocatedCores(<<>>) = {}
  BY <1>1, FS_EmptySet DEF LedgerShape, AllocatedCores
<1>3. GlobalCommittedRam(<<>>) = 0
  BY <1>1, TotalEmpty DEF GlobalCommittedRam
<1>4. ASSUME NEW n PROVE CommittedRamNode(<<>>, n) = 0
  <2>1. OnNode(<<>>, n) = {}
    BY <1>1 DEF OnNode
  <2> QED BY <2>1, TotalEmpty DEF CommittedRamNode, OnNode
<1>5. ASSUME NEW g PROVE CommittedVram(<<>>, g) = 0
  <2>1. OnGpu(<<>>, g) = {}
    BY <1>1 DEF OnGpu
  <2> QED BY <2>1, TotalEmpty DEF CommittedVram, OnGpu
<1> QED BY <1>2, <1>3, <1>4, <1>5

(* The pre-flight verdict is the placer's answer on the idle machine.      *)
THEOREM CapableFitsIdle ==
  ASSUME NEW path, PathShape(path)
  PROVE  Capable(path) <=> PlaceNow(<<>>, path) # {}
<1> DEFINE Pinned == path.placement = "cpu_pinned"
           RamFits == path.ram <= SchedulableCap
           Fits(i) == /\ Cardinality(NodeSeq[i].cores) >= path.cores
                      /\ NodeSeq[i].ram - Margin(NodeSeq[i].ram) >= path.ram
           CoresFit == path.cores <= TotalCores
           GpuFits(i) == GpuSeq[i].vram >= path.vram
<1>1. LedgerShape(<<>>) /\ AllocatedCores(<<>>) = {}
  BY EmptyLedger
<1>2. path.ram \in Nat /\ path.cores \in Nat /\ path.vram \in Nat /\ Margin(MemCap) \in Int /\ MemCap \in Nat
  BY MarginType, InventoryAssumption DEF PathShape
<1>3. (GlobalFreeRam(<<>>) - Margin(MemCap) < path.ram) <=> ~RamFits
  BY <1>1, <1>2, EmptyLedger, FreeAmounts DEF SchedulableCap
<1>4. SchedulableCap < path.ram <=> ~RamFits
  BY <1>2 DEF SchedulableCap
<1>5. TotalCores \in Nat /\ FreeCoresAll(<<>>) = AllCores /\ Cardinality(AllCores) = TotalCores
  BY <1>1, CoresAddUp, FS_CardinalityType DEF FreeCoresAll
<1>6. (Cardinality(FreeCoresAll(<<>>)) < path.cores <=> ~CoresFit) /\ (TotalCores < path.cores <=> ~CoresFit)
  BY <1>2, <1>5
<1>7. FittingNodes(<<>>, path) = {i \in DOMAIN NodeSeq : Fits(i)}
  <2>1. ASSUME NEW i \in DOMAIN NodeSeq
        PROVE  /\ FreeCores(<<>>, NodeSeq[i].index) = NodeSeq[i].cores
               /\ FreeRamNode(<<>>, NodeSeq[i].index) = NodeSeq[i].ram
    <3>1. FreeCores(<<>>, NodeSeq[i].index) = NodeSeq[i].cores \ {}
      BY <1>1, FreeAmounts
    <3>2. FreeRamNode(<<>>, NodeSeq[i].index) = NodeSeq[i].ram - 0 /\ NodeSeq[i].ram \in Nat
      BY <1>1, FreeAmounts, EmptyLedger, InventoryShape
    <3> QED BY <3>1, <3>2
  <2> QED BY <2>1 DEF FittingNodes
<1>8. FittingGpus(<<>>, path) = {i \in DOMAIN GpuSeq : GpuFits(i)}
  <2>1. ASSUME NEW i \in DOMAIN GpuSeq PROVE FreeVram(<<>>, GpuSeq[i].index) = GpuSeq[i].vram
    <3>1. FreeVram(<<>>, GpuSeq[i].index) = GpuSeq[i].vram - 0 /\ GpuSeq[i].vram \in Nat
      BY <1>1, FreeAmounts, EmptyLedger, InventoryShape
    <3> QED BY <3>1
  <2> QED BY <2>1 DEF FittingGpus
<1>9. ASSUME NEW i \in DOMAIN NodeSeq
      PROVE  /\ NodeSeq[i].ram - Margin(NodeSeq[i].ram) < path.ram <=>
                  ~(NodeSeq[i].ram - Margin(NodeSeq[i].ram) >= path.ram)
  BY <1>2, InventoryShape, MarginType
<1>10. ASSUME NEW i \in DOMAIN GpuSeq PROVE GpuSeq[i].vram < path.vram <=> ~GpuFits(i)
  BY <1>2, InventoryShape
<1>11. GpuSeq = <<>> => DOMAIN GpuSeq = {}
  OBVIOUS
<1> HIDE DEF RamFits, CoresFit
<1>12. CASE Pinned
  <2>1. PlaceNow(<<>>, path) # {} <=> RamFits /\ \E i \in DOMAIN NodeSeq : Fits(i)
    BY <1>3, <1>7, <1>12 DEF PlaceNow
  <2>2. Capable(path) <=> RamFits /\ \E i \in DOMAIN NodeSeq : Fits(i)
    BY <1>4, <1>9, <1>12 DEF Capable, CapabilityGap
  <2> QED BY <2>1, <2>2
<1>13. CASE path.placement = "cpu_unpinned"
  <2>1. PlaceNow(<<>>, path) # {} <=> RamFits /\ CoresFit
    BY <1>3, <1>6, <1>13 DEF PlaceNow
  <2>2. Capable(path) <=> RamFits /\ CoresFit
    BY <1>4, <1>6, <1>13 DEF Capable, CapabilityGap
  <2> QED BY <2>1, <2>2
<1>14. CASE path.placement = "gpu"
  <2>1. PlaceNow(<<>>, path) # {} <=> RamFits /\ CoresFit /\ \E i \in DOMAIN GpuSeq : GpuFits(i)
    BY <1>3, <1>6, <1>8, <1>14 DEF PlaceNow
  <2>2. Capable(path) <=> RamFits /\ CoresFit /\ \E i \in DOMAIN GpuSeq : GpuFits(i)
    BY <1>4, <1>6, <1>10, <1>11, <1>14 DEF Capable, CapabilityGap
  <2> QED BY <2>1, <2>2
<1> QED BY <1>12, <1>13, <1>14 DEF PathShape
==============================================================================
