---------------------------- MODULE ExecutorProps ----------------------------
(***************************************************************************)
(* What the executor must keep true, stated on the variables of Executor.  *)
(***************************************************************************)
EXTENDS Executor

Blob == {"private", "disk", "gone"}
Residence == {"private", "disk", "shared", "device"}
Domains == NodeIds \cup {NoIndex}

TypeOK ==
  /\ phase \in {"top", "reap", "admit", "spill", "block", "closing", "done"}
  /\ outcome \in {"none", "report", "stalled", "diverged", "missing_result", "wrong_shards"}
  /\ progressed \in BOOLEAN /\ cursor \in 1..(Len(JobOrder) + 1)
  /\ running \subseteq Jobs /\ completed \subseteq Jobs /\ cancelled \subseteq Jobs
  /\ failures \subseteq Jobs /\ computing \subseteq Jobs
  /\ warmRunning \in [DOMAIN warmRunning -> GpuIds] /\ DOMAIN warmRunning \subseteq Jobs
  /\ inputs \in [Jobs -> Blob]
  /\ DOMAIN outputs \subseteq Outs
  /\ \A o \in DOMAIN outputs :
       outputs[o] \in [res : Residence, size : Nat, consumers : Nat, shareable : BOOLEAN,
                       domains : SUBSET Domains, gpu : GpuIds \cup {NoIndex}]
  /\ refs \in [Jobs -> SUBSET (ByReference \X Outs)]
  /\ warmUp \subseteq GpuIds /\ buffers \in [GpuIds -> SUBSET Outs]
  /\ segments \subseteq Outs \X Domains
  /\ rate \in Rates \cup {NoRate} /\ diskUsed \in Nat

-----------------------------------------------------------------------------
(* The ledger charges exactly what is held: every running job, every input *)
(* and result in private memory, every replica, every device-resident      *)
(* result and every standing context, each once.  An entry too many leaks  *)
(* memory for the rest of the run; one too few makes Ledger.remove raise   *)
(* in the loop, and Ledger.add raises on a key charged twice.              *)
Holders ==
  {<<"job", j>> : j \in RunningJobs}
    \cup {<<"input", j>> : j \in {x \in Jobs : inputs[x] = "private"}}
    \cup ChargeKeysOf(outputs, DOMAIN outputs)
    \cup DOMAIN ContextCharge(warmUp)
LedgerExact == phase # "done" => DOMAIN ledger = Holders

(* No core is granted to two jobs at once, whatever mix of pinned, unpinned*)
(* and device jobs _take handed cores to (Placed.cores, launch).           *)
CoresExclusive ==
  \A a, b \in DOMAIN ledger : a # b => ledger[a].cores \cap ledger[b].cores = {}

(* A job has read a result it was handed by value once it is dispatched,   *)
(* and one it was handed by reference once it completes.  Resident.consumers*)
(* counts the readers that are left, so the last one to go frees it: never *)
(* early, and never too late to be freed at all.                           *)
Dispatched == completed \cup RunningJobs
ReadersLeft(o) ==
  {c \in Jobs : o \in Deps[c]} \ (IF outputs[o].res \in ByReference THEN completed ELSE Dispatched)
RefcountExact ==
  phase \notin {"closing", "done"} =>
    \A o \in DOMAIN outputs :
      outputs[o].consumers = Cardinality(ReadersLeft(o)) /\ (ReadersLeft(o) = {} => Fanout(o) = 0)

(* Whatever a running job was handed by reference is there for it to read: *)
(* its segments have not been unlinked, its device buffers are in the      *)
(* registry of the worker it was dispatched to (Job.device_resident: the   *)
(* scheduler "warns and falls back ... rather than failing").              *)
RegistryOf(j) == IF j \in DOMAIN warmRunning THEN buffers[warmRunning[j]] ELSE {}
ReadersServed == phase # "done" => \A j \in RunningJobs : Resolvable(j, RegistryOf(j))

(* The disk budget counts the spill files that exist, and is never passed. *)
SpillBudgetKept ==
  diskUsed = OnDisk(outputs, DOMAIN outputs, Jobs) /\ diskUsed <= SpillBudget

(* A failure is isolated: no two failures are reported for one lineage, and*)
(* an abandoned lineage keeps nothing - no process, no result, no input,   *)
(* no charge ("their allocations return to the ledger").                   *)
KeysOfJob(j) ==
  {<<"job", j>>, <<"input", j>>} \cup {<<"output", o>> : o \in OutsOf(j)}
    \cup {<<"replica", o, d>> : o \in OutsOf(j), d \in Domains}
FailureIsolated ==
  /\ \A j, k \in failures : j # k => k \notin Component(j)
  /\ \A f \in failures : \A j \in Component(f) :
       /\ ~IsRunning(j) /\ j \notin computing
       /\ OutsOf(j) \cap DOMAIN outputs = {}
       /\ KeysOfJob(j) \cap DOMAIN ledger = {}

(* A warm worker's device memory is accounted for: a buffer in its registry*)
(* is charged to its result or to the job still running, or the signal to  *)
(* drop it is on its way (ensure_warm: "so admission never hands out memory*)
(* the worker itself is already using").  DeviceMemoryCharged asks it of   *)
(* the lineages that were not abandoned, DeviceMemoryReturned of all.      *)
FreeOnItsWay(g, o) ==
  \E i \in DOMAIN warmQueue[g] : warmQueue[g][i].tag = "free" /\ o \in warmQueue[g][i].keys
BufferCharged(g, o) ==
  <<"output", o>> \in DOMAIN ledger \/ <<"job", o[1]>> \in DOMAIN ledger \/ FreeOnItsWay(g, o)
DeviceMemoryCharged ==
  \A g \in GpuIds : \A o \in buffers[g] : o[1] \notin cancelled => BufferCharged(g, o)
DeviceMemoryReturned == \A g \in GpuIds : \A o \in buffers[g] : BufferCharged(g, o)

(* However the run ends, nothing outlives it: no process, no segment; and  *)
(* a run that reports has returned every job's and context's charge.       *)
CleanExit ==
  phase = "done" =>
    /\ running = {} /\ computing = {} /\ segments = {}
    /\ outcome = "report" => \A k \in DOMAIN ledger : k[1] \in {"input", "output"}

(* The report has the result of every completed job nobody reads           *)
(* (RunReport: "results for completed jobs").                              *)
Reported == {o \in DOMAIN outputs : outputs[o].res = "private"}
TerminalsReported ==
  phase = "done" /\ outcome = "report" =>
    \A j \in completed : Dependents(j) = {} => OutsOf(j) \subseteq Reported

(* On a graph whose jobs all passed pre-flight the loop gets through: it   *)
(* never gives up with nothing running (job_feasibility: a job that cannot *)
(* be admitted "must be caught here rather than stalling the loop").       *)
NeverStalls == outcome # "stalled"

(* The loop turns to the disk, and gives up when that cannot help, only for*)
(* want of memory: some job is ready, and each that is would be placed if  *)
(* the machine, its node or its device had the bytes.  Cores never are what*)
(* is missing, and a graph that is finished is never taken for one that is *)
(* stuck ("scheduler stalled with nothing running and nothing left to      *)
(* spill").                                                                *)
Chosen(j) == PathsNow(j)[Min(CapablePaths(PathsNow(j)))]
LacksMemory(L, path) ==
  \/ GlobalFreeRam(L) - Margin(MemCap) < path.ram
  \/ path.placement = "cpu_pinned" /\ \A i \in DOMAIN NodeSeq :
       Cardinality(NodeSeq[i].cores) >= path.cores =>
         FreeRamNode(L, NodeSeq[i].index) - Margin(NodeSeq[i].ram) < path.ram
  \/ path.placement = "gpu" /\ \A i \in DOMAIN GpuSeq : FreeVram(L, GpuSeq[i].index) < path.vram
StallsAreForMemory ==
  phase = "spill" =>
    /\ \E j \in Jobs : Eligible(j)
    /\ \A j \in Jobs : Eligible(j) => Feasible(PathsNow(j)) /\ LacksMemory(ledger, Chosen(j))

(* A machine on which that cannot happen: pre-flight judges a job beside   *)
(* nothing, Roomy beside all that the loop cannot move out of its way, at  *)
(* once and on one device: replicas, device-resident results, contexts and *)
(* the blobs that do not go to disk, because they are below the floor or   *)
(* because the budget does not hold every blob of the graph.               *)
AllBytes == Total(InputSize, Jobs) + Total([o \in Outs |-> HeldSize(o)], Outs)
Stays(bytes) == bytes < SpillFloor \/ AllBytes > SpillBudget
IsShareable(o) == Fanout(o) >= SharedMinConsumers /\ HeldSize(o) >= SharedFloor
StandingKeys ==
  {<<"input", j>> : j \in {x \in Jobs : Stays(InputSize[x])}}
    \cup {<<"output", o>> : o \in Outs}
    \cup {<<"replica", o, d>> : o \in {x \in Outs : IsShareable(x)}, d \in Domains}
    \cup {<<"context", g>> : g \in GpuIds}
StandingOutput(o, g) ==
  Allocation({}, IF Stays(HeldSize(o)) THEN HeldSize(o) ELSE 0, NoIndex,
             g, IF o[1] \in DeviceResident THEN OutBytes[o] ELSE 0)
Standing(g) ==
  [k \in StandingKeys |->
     CASE k[1] = "input" -> HostBytes(InputSize[k[2]], NoIndex)
       [] k[1] = "output" -> StandingOutput(k[2], g)
       [] k[1] = "replica" -> HostBytes(OutBytes[k[2]], k[3])
       [] k[1] = "context" -> Allocation({}, RamBaseline, WarmNode(k[2]), k[2], ContextVram)]
Roomy ==
  \A j \in Jobs \ Abandoned, r \in Rates \cup {NoRate} :
    Feasible(Augmented(j, r)) =>
      \E g \in GpuIds \cup {NoIndex} : \E p \in Plan(Standing(g), Augmented(j, r)) : p.gpu = g

-----------------------------------------------------------------------------
(* A job is admitted only into memory that is there: when a job starts, the*)
(* declared memory of all running jobs and of everything held, with the    *)
(* margin, fits the machine's ceiling, except for what its own start       *)
(* charges unasked: the replicas made for it and the context of its worker.*)
DeclaredOf(L, S) == Total([k \in DOMAIN L |-> L[k].ram], S)
Unasked(L, M) == {k \in DOMAIN M \ DOMAIN L : k[1] # "job"}
AdmissionKeepsMargin ==
  [][RunningJobs' \ RunningJobs # {} =>
       DeclaredOf(ledger', DOMAIN ledger')
         <= SchedulableCap + DeclaredOf(ledger', Unasked(ledger, ledger'))]_vars

(* The executor keeps the promise of JobLifecycle.                         *)
Status(j) ==
  CASE j \in cancelled -> "cancelled"
    [] j \in completed -> "completed"
    [] j \in RunningJobs \ (cancelled \cup completed) -> "running"
    [] OTHER -> "waiting"
Over ==
  CASE outcome = "none" -> "running"
    [] outcome = "report" -> "finished"
    [] OTHER -> "raised"
Lifecycle == INSTANCE JobLifecycle WITH status <- [j \in Jobs |-> Status(j)], over <- Over
ImplementsLifecycle == Lifecycle!Spec

(* A run ends, with a report or by raising: no schedule of workers and no  *)
(* order of results leaves the loop waiting for ever ("The run finishes and*)
(* reports").                                                              *)
Terminates == <>(phase = "done")
==============================================================================
