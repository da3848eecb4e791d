------------------------------ MODULE Executor ------------------------------
(***************************************************************************)
(* Scheduler.run (executor.py): one loop in the parent process admits jobs *)
(* against the ledger and reaps their results, while worker processes, one *)
(* warm worker per device and a sampler thread run beside it and talk to   *)
(* the loop through queues.                                                *)
(***************************************************************************)
EXTENDS Routing

CONSTANTS
  JobOrder,           \* the jobs in the order of the graph's dict
  InputSize,          \* bytes of each job's static input
  DeclaredOut,        \* output_bytes of each job
  OutBytes,           \* measured bytes of each held result
  DeviceResident,     \* the jobs that declare device_resident
  SpillFloor, SpillBudget, SharedFloor, SharedMinConsumers,
  MayFail,            \* the jobs whose callable may raise
  WrongShards,        \* partitioned jobs that may return other shards than declared
  WorkersMayDie,      \* whether a worker may be killed from outside
  SampleSizes, MaxSamples  \* bytes a sample may read; bound on queued samples

ASSUME JobOrderAssumption ==
  /\ JobOrder \in Seq(Jobs) /\ Len(JobOrder) = Cardinality(Jobs)
  /\ {JobOrder[i] : i \in DOMAIN JobOrder} = Jobs

(* JobGraph rejects a dependency on an unknown job or an undeclared shard,  *)
(* and a cycle; a plain key is never a Shard object, and a dependency is    *)
(* one or the other; a device-resident job is not partitioned               *)
(* (Job.__post_init__).                                                     *)
ASSUME GraphAssumption ==
  /\ AllValid /\ Acyclic
  /\ \A j \in Jobs : Whole \notin Shards[j] /\ IsFiniteSet(Shards[j])
  /\ \A j \in DeviceResident : j \in Jobs /\ Shards[j] = {}
  /\ \A j \in Jobs : \A d \in Deps[j] : d = <<d[1], d[2]>>

(* What is measured is a size; what is declared is not looked at.           *)
ASSUME SizeAssumption ==
  /\ InputSize \in [Jobs -> Nat] /\ OutBytes \in [Outs -> Nat] /\ DeclaredOut \in [Jobs -> Int]
  /\ RamBaseline \in Nat /\ ContextVram \in Nat /\ SampleSizes \subseteq Nat
  /\ SpillFloor \in Nat /\ SpillBudget \in Nat

VARIABLES
  phase,        \* where the loop is: top, reap, admit, spill, block, closing, done
  progressed,   \* whether this pass of the loop changed anything
  cursor,       \* how far admit has got through JobOrder
  outcome,      \* none, report, stalled, diverged, missing_result, wrong_shards
  running,      \* jobs with a process of their own
  warmRunning,  \* warmRunning[j]: the device of a job dispatched to a warm worker
  completed, cancelled,
  failures,     \* the jobs whose failure was reported
  inputs,       \* inputs[j]: "private", "disk" or "gone"
  outputs,      \* outputs[o]: the table entry of a held result
  ledger,
  diskUsed,
  rate,         \* seconds per operation on the device, NoRate until observed
  results,      \* the result queue
  samples,      \* the sample queue
  computing,    \* fresh worker processes that have not posted
  refs,         \* refs[j]: what job j was handed by reference: <<residence, result>>
  warmUp,       \* the devices whose warm worker was started
  warmQueue,    \* warmQueue[g]: the warm worker's job queue
  buffers,      \* buffers[g]: its registry of device-resident results
  segments      \* the shared memory segments that exist: <<result, domain>>

loopVars == <<phase, progressed, cursor, outcome>>
jobVars == <<running, warmRunning, completed, cancelled, failures, rate>>
tableVars == <<inputs, outputs, ledger, diskUsed, segments>>
workerVars == <<computing, refs, warmUp, buffers>>
vars == <<loopVars, jobVars, tableVars, workerVars, results, samples, warmQueue>>

-----------------------------------------------------------------------------
(* The table of resident blobs.                                            *)

ByReference == {"shared", "device"}

(* Mutant: a shard counts every reader of its producer.                     *)
FanoutOfProducer(o) == Cardinality(Dependents(o[1]))
(* Dependents still to be served by a result when it is stored.            *)
Fanout(o) ==
  IF o[2] = Whole THEN Cardinality(Dependents(o[1]))
  ELSE Cardinality({c \in Dependents(o[1]) : o \in Deps[c]})

(* A whole result is charged the worse of its declared and measured size.  *)
HeldSize(o) ==
  IF o[2] = Whole /\ DeclaredOut[o[1]] > OutBytes[o] THEN DeclaredOut[o[1]] ELSE OutBytes[o]

HostEntry(o) ==
  [res |-> "private", size |-> HeldSize(o), consumers |-> Fanout(o), domains |-> {}, gpu |-> NoIndex,
   shareable |-> Fanout(o) >= SharedMinConsumers /\ HeldSize(o) >= SharedFloor]
DeviceEntry(o, g) ==
  [res |-> "device", size |-> OutBytes[o], consumers |-> Fanout(o), domains |-> {}, gpu |-> g,
   shareable |-> FALSE]

(* The ledger keys a held result is charged under, and the segments it owns.*)
ChargeKeys(table, o) ==
  CASE table[o].res = "disk" -> {}
    [] table[o].res = "shared" -> {<<"replica", o, d>> : d \in table[o].domains}
    [] OTHER -> {<<"output", o>>}
(* Mutant: only a base segment is unlinked, the node replicas stay.         *)
BaseSegmentsOf(table, S) == {<<o, NoIndex>> : o \in S}
ChargeKeysOf(table, S) == UNION {ChargeKeys(table, o) : o \in S}
SegmentsOf(table, S) == UNION {{<<o, d>> : d \in table[o].domains} : o \in S}

Restricted(f, S) == [x \in DOMAIN f \cap S |-> f[x]]
Singleton(k, a) == [x \in {k} |-> a]

(* Mutant: a blob that never left memory is given back to the disk budget.  *)
OnDiskOrNot(table, S, K) ==
  Total([o \in S |-> table[o].size], S) + Total(InputSize, K)
(* Bytes of spill files among results S of a table and the inputs of K.    *)
OnDisk(table, S, K) ==
  Total([o \in S |-> table[o].size], {o \in S : table[o].res = "disk"})
    + Total(InputSize, {j \in K : inputs[j] = "disk"})

(* The parent tells a warm worker that device-resident results are done    *)
(* with; several signals in a row make one item.                           *)
FreeItem(S) == [tag |-> "free", keys |-> S]
JobItem(j, keep) == [tag |-> "job", key |-> j, keep |-> keep]
(* Mutant: the warm worker is never told.                                   *)
WithoutFrees(queues, table, S) == queues
WithFrees(queues, table, S) ==
  [g \in GpuIds |->
     LET freed == {o \in S : table[o].res = "device" /\ table[o].gpu = g}
     IN IF freed = {} THEN queues[g] ELSE Append(queues[g], FreeItem(freed))]

-----------------------------------------------------------------------------
(* Mutant: only jobs with a process of their own count as running.          *)
IsRunningFresh(j) == j \in running
IsRunning(j) == j \in running \/ j \in DOMAIN warmRunning
RunningJobs == running \cup DOMAIN warmRunning
(* Mutant: a failed job is counted beside the lineage it is cancelled with.*)
CountsFailures ==
  Cardinality(completed) + Cardinality(cancelled) + Cardinality(failures) >= Cardinality(Jobs)
AllAccounted == Cardinality(completed) + Cardinality(cancelled) >= Cardinality(Jobs)

(* Every input is charged, the infeasible lineages are abandoned.          *)
Init ==
  /\ phase = "top" /\ progressed = FALSE /\ cursor = 1 /\ outcome = "none"
  /\ running = {} /\ warmRunning = <<>> /\ completed = {} /\ failures = {} /\ rate = NoRate
  /\ cancelled = Abandoned
  /\ inputs = [j \in Jobs |-> "private"] /\ outputs = <<>> /\ diskUsed = 0 /\ segments = {}
  /\ ledger = [k \in {<<"input", j>> : j \in Jobs} |-> HostBytes(InputSize[k[2]], NoIndex)]
  /\ results = <<>> /\ samples = <<>>
  /\ computing = {} /\ refs = [j \in Jobs |-> {}]
  /\ warmUp = {} /\ warmQueue = [g \in GpuIds |-> <<>>] /\ buffers = [g \in GpuIds |-> {}]

Raise(why) == phase' = "closing" /\ outcome' = why /\ UNCHANGED <<progressed, cursor>>

-----------------------------------------------------------------------------
(* The loop, top: leave it when every job is accounted for, else drain the *)
(* samples.  A sample of a job that no longer runs is dropped.             *)

Finish ==
  /\ phase = "top" /\ AllAccounted
  /\ phase' = "closing" /\ outcome' = "report"
  /\ UNCHANGED <<progressed, cursor, jobVars, tableVars, workerVars, results, samples, warmQueue>>

LastSample(j) == samples[Max({i \in DOMAIN samples : samples[i].key = j})].bytes
Sampled == {samples[i].key : i \in DOMAIN samples} \cap running

Drain ==
  /\ phase = "top" /\ ~AllAccounted
  /\ phase' = "reap" /\ progressed' = (samples # <<>>)
  /\ samples' = <<>>
  /\ ledger' = [k \in DOMAIN ledger |->
                  IF k[1] = "job" /\ k[2] \in Sampled
                    THEN [ledger[k] EXCEPT !.actual = LastSample(k[2])] ELSE ledger[k]]
  /\ UNCHANGED <<cursor, outcome, jobVars, inputs, outputs, diskUsed, segments, workerVars,
                 results, warmQueue>>

-----------------------------------------------------------------------------
(* Reaping one result.  Next is a result of a job that no longer runs: it  *)
(* was cancelled after it posted, or its warm run could not be stopped.    *)

Reaping == phase \in {"reap", "block"} /\ results # <<>>
Received == Head(results)
MarkProgress == progressed' = TRUE /\ UNCHANGED <<phase, cursor, outcome>>

ReapStale ==
  /\ Reaping
  /\ ~IsRunning(Received.key)
  /\ results' = Tail(results)
  /\ MarkProgress
  /\ UNCHANGED <<jobVars, tableVars, workerVars, samples, warmQueue>>

(* The job leaves the running set and its allocation the ledger.           *)
Reaped(j) ==
  /\ running' = running \ {j}
  /\ warmRunning' = Restricted(warmRunning, DOMAIN warmRunning \ {j})

PlacementOf(j) == IF ledger[<<"job", j>>].gpu = NoIndex THEN "cpu" ELSE "gpu"

(* A result is stored, whole or one entry per shard; the job has then read *)
(* what it was handed by reference, and the last reader's results go.      *)
StoredEntry(m, o) == IF m.status = "handle" THEN DeviceEntry(o, warmRunning[m.key]) ELSE HostEntry(o)
StoredCharge(m, o) ==
  IF m.status = "handle" THEN Allocation({}, 0, NoIndex, warmRunning[m.key], OutBytes[o])
  ELSE HostBytes(HeldSize(o), NoIndex)

ReadByReference(j) == {o \in Deps[j] \cap DOMAIN outputs : outputs[o].res \in ByReference}
(* Mutant: a shared result goes when its first reader completes.           *)
LastReadAny(j) == ReadByReference(j)
LastRead(j) == {o \in ReadByReference(j) : outputs[o].consumers = 1}

ReapOk ==
  /\ Reaping
  /\ LET m == Received
         j == m.key
         last == LastRead(j)
     IN /\ IsRunning(j) /\ m.status \in {"ok", "handle"}
        /\ Reaped(j)
        /\ completed' = completed \cup {j}
        /\ rate' \in RatesAfter(j, PlacementOf(j), rate)
        /\ outputs' = [o \in (DOMAIN outputs \ last) \cup OutsOf(j) |->
                         IF o \in OutsOf(j) THEN StoredEntry(m, o)
                         ELSE IF o \in ReadByReference(j)
                           THEN [outputs[o] EXCEPT !.consumers = @ - 1] ELSE outputs[o]]
        /\ ledger' = Charge(Release(ledger, {<<"job", j>>} \cup ChargeKeysOf(outputs, last)),
                            [k \in {<<"output", o>> : o \in OutsOf(j)} |-> StoredCharge(m, k[2])])
        /\ segments' = segments \ SegmentsOf(outputs, last)
        /\ warmQueue' = WithFrees(warmQueue, outputs, last)
  /\ results' = Tail(results)
  /\ MarkProgress
  /\ UNCHANGED <<cancelled, failures, inputs, diskUsed, workerVars, samples>>

(* A partitioned job returned something else than its declared shards: the *)
(* run raises with the job already counted as completed.                   *)
ReapWrongShards ==
  /\ Reaping
  /\ LET j == Received.key
     IN /\ IsRunning(j) /\ Received.status = "wrong_shards"
        /\ Reaped(j)
        /\ completed' = completed \cup {j}
        /\ rate' \in RatesAfter(j, PlacementOf(j), rate)
        /\ ledger' = Release(ledger, {<<"job", j>>})
  /\ results' = Tail(results)
  /\ Raise("wrong_shards")
  /\ UNCHANGED <<cancelled, failures, inputs, outputs, diskUsed, segments, workerVars, samples,
                 warmQueue>>

(* The lineage C of a failed job is abandoned: running members stop (a     *)
(* warm worker stays up and finishes the job it was given), what they hold *)
(* is released and their completed members count as cancelled.             *)
(* Mutants: every lineage's results are released; a partitioned member's   *)
(* shards are not.                                                         *)
HeldByAnyone(C) == DOMAIN outputs
HeldWhole(C) == {o \in DOMAIN outputs : o[1] \in C /\ o[2] = Whole}
HeldBy(C) == {o \in DOMAIN outputs : o[1] \in C}
PoisonReleases(C) ==
  {<<"job", j>> : j \in C \cap RunningJobs} \cup ChargeKeysOf(outputs, HeldBy(C))
    \cup {<<"input", j>> : j \in {x \in C : inputs[x] = "private"}}

Poison(C) ==
  LET held == HeldBy(C)
  IN /\ running' = running \ C
     /\ computing' = computing \ C
     /\ warmRunning' = Restricted(warmRunning, Jobs \ C)
     /\ completed' = completed \ C
     /\ cancelled' = cancelled \cup C
     /\ inputs' = [j \in Jobs |-> IF j \in C THEN "gone" ELSE inputs[j]]
     /\ outputs' = Restricted(outputs, DOMAIN outputs \ held)
     /\ ledger' = Release(ledger, PoisonReleases(C))
     /\ diskUsed' = diskUsed - OnDisk(outputs, held, C)
     /\ segments' = segments \ SegmentsOf(outputs, held)
     /\ warmQueue' = WithFrees(warmQueue, outputs, held)

ReapError ==
  /\ Reaping
  /\ IsRunning(Received.key) /\ Received.status = "error"
  /\ Poison(Component(Received.key))
  /\ failures' = failures \cup {Received.key}
  /\ results' = Tail(results)
  /\ MarkProgress
  /\ UNCHANGED <<rate, refs, warmUp, buffers, samples>>

(* The queue is empty: on to admission, or back to the top after a blocking*)
(* get, which also times out.                                              *)
ReapEmpty ==
  /\ phase \in {"reap", "block"} /\ results = <<>>
  /\ phase' = IF phase = "reap" THEN "admit" ELSE "top"
  /\ cursor' = 1
  /\ UNCHANGED <<progressed, outcome, jobVars, tableVars, workerVars, results, samples, warmQueue>>

-----------------------------------------------------------------------------
(* Admission: one walk over the ready jobs in graph order.  A job that has *)
(* to wait changes nothing, so a step takes the next one that does not     *)
(* (Acting holds at most its position).                                    *)

PathsNow(j) == Augmented(j, rate)
Eligible(j) == j \in Ready(completed) /\ ~IsRunning(j) /\ j \notin cancelled
Placements(j) == Plan(ledger, PathsNow(j))
Waits(j) == Feasible(PathsNow(j)) /\ Placements(j) = {}
ActsNow(i) == Eligible(JobOrder[i]) /\ ~Waits(JobOrder[i])
Acting == {i \in cursor..Len(JobOrder) : ActsNow(i) /\ \A h \in cursor..(i - 1) : ~ActsNow(h)}

(* A capable path is gone since pre-flight; a result to hand over is absent.*)
Diverged(j) == ~Feasible(PathsNow(j))
ResultMissing(j) == ~(Deps[j] \subseteq DOMAIN outputs)

AdmitRaises ==
  /\ phase = "admit"
  /\ \E i \in Acting :
       \/ Diverged(JobOrder[i]) /\ Raise("diverged")
       \/ ~Diverged(JobOrder[i]) /\ ResultMissing(JobOrder[i]) /\ Raise("missing_result")
  /\ UNCHANGED <<jobVars, tableVars, workerVars, results, samples, warmQueue>>

(* How a job placed on path p runs.  A consumer of a device-resident result*)
(* runs warm whatever its routing; a result stays on the device only when  *)
(* its producer was routed warm and no consumer could fall to the CPU.     *)
RoutedWarm(j, p) == p.path.placement = "gpu" /\ ExecutesWarm(j, rate)
ReadsDevice(j) == \E o \in Deps[j] : outputs[o].res = "device"
(* Mutant: a device-resident result may be handed to a fresh process.       *)
RunsWarmAsRouted(j, p) == RoutedWarm(j, p)
RunsWarm(j, p) == RoutedWarm(j, p) \/ (p.path.placement = "gpu" /\ ReadsDevice(j))
ConsumersAllGpu(j) ==
  \A c \in Dependents(j) : \A i \in DOMAIN Paths[c] : Paths[c][i].placement = "gpu"
KeepsOnDevice(j, p) == j \in DeviceResident /\ RoutedWarm(j, p) /\ ConsumersAllGpu(j)

(* Handing over the results j depends on.  A shareable one moves into a    *)
(* segment; a pinned consumer gets a replica on its node.  What was copied *)
(* is served; what was passed by reference is served at completion.        *)
Domain(p) == IF p.path.placement = "cpu_pinned" THEN p.node ELSE NoIndex
ToShare(j) == {o \in Deps[j] : outputs[o].res = "private" /\ outputs[o].shareable}
Loaded(j, o, domain) ==
  CASE o \in ToShare(j) ->
         [outputs[o] EXCEPT !.res = "shared", !.size = OutBytes[o], !.domains = {domain}]
    [] outputs[o].res = "shared" /\ domain # NoIndex -> [outputs[o] EXCEPT !.domains = @ \cup {domain}]
    [] OTHER -> outputs[o]
(* Mutant: a segment counts as read when its reader is dispatched.          *)
CopiedShared(j) == Deps[j] \ ToShare(j)
Copied(j) == {o \in Deps[j] : outputs[o].res \notin ByReference /\ o \notin ToShare(j)}
LastCopied(j) == {o \in Copied(j) : outputs[o].consumers = 1}
NewReplicas(j, domain) ==
  {<<"replica", o, domain>> : o \in {x \in Deps[j] :
     \/ x \in ToShare(j)
     \/ outputs[x].res = "shared" /\ domain # NoIndex /\ domain \notin outputs[x].domains}}

(* The standing charge of a warm worker started for device g.              *)
WarmNode(g) == IF Gpu(g).node = NoIndex THEN NodeSeq[1].index ELSE Gpu(g).node
ContextCharged == ContextVram > 0 \/ RamBaseline > 0
ContextCharge(starts) ==
  [k \in {<<"context", g>> : g \in IF ContextCharged THEN starts ELSE {}} |->
     Allocation({}, RamBaseline, WarmNode(k[2]), k[2], ContextVram)]

JobCharge(j, p) ==
  Singleton(<<"job", j>>, Allocation(p.cores, p.path.ram, p.node, p.gpu, p.path.vram))

(* Mutant: the replicas are not charged.                                   *)
NoReplicaCharges(keys, domain) == <<>>
ReplicaCharges(keys, domain) == [k \in keys |-> HostBytes(OutBytes[k[2]], domain)]

LaunchLedger(j, p, starts) ==
  Charge(Charge(Charge(Release(ledger, {<<"output", o>> : o \in ToShare(j)}
                                         \cup ChargeKeysOf(outputs, LastCopied(j))
                                         \cup {<<"input", j>>}),
                       ReplicaCharges(NewReplicas(j, Domain(p)), Domain(p))),
                JobCharge(j, p)),
         ContextCharge(starts))

Dispatch(j, p) ==
  LET warm == RunsWarm(j, p)
      starts == IF warm THEN {p.gpu} \ warmUp ELSE {}
  IN /\ IF warm
          THEN /\ warmRunning' = [k \in DOMAIN warmRunning \cup {j} |->
                                    IF k = j THEN p.gpu ELSE warmRunning[k]]
               /\ warmQueue' = [warmQueue EXCEPT ![p.gpu] = Append(@, JobItem(j, KeepsOnDevice(j, p)))]
               /\ UNCHANGED <<running, computing>>
          ELSE /\ running' = running \cup {j} /\ computing' = computing \cup {j}
               /\ UNCHANGED <<warmRunning, warmQueue>>
     /\ warmUp' = warmUp \cup starts
     /\ ledger' = LaunchLedger(j, p, starts)

LaunchJob(j, p) ==
  /\ Dispatch(j, p)
  /\ refs' = [refs EXCEPT ![j] = {<<Loaded(j, o, Domain(p)).res, o>> : o \in Deps[j] \ Copied(j)}]
  /\ outputs' = [o \in DOMAIN outputs \ LastCopied(j) |->
                   IF o \in Copied(j) THEN [outputs[o] EXCEPT !.consumers = @ - 1]
                   ELSE IF o \in Deps[j] THEN Loaded(j, o, Domain(p)) ELSE outputs[o]]
  /\ segments' = segments \cup {<<k[2], k[3]>> : k \in NewReplicas(j, Domain(p))}
  /\ inputs' = [inputs EXCEPT ![j] = "gone"]
  /\ diskUsed' = diskUsed - OnDisk(outputs, LastCopied(j), {j})

Launch ==
  /\ phase = "admit"
  /\ \E i \in Acting :
       /\ ~Diverged(JobOrder[i]) /\ ~ResultMissing(JobOrder[i])
       /\ \E j \in {JobOrder[i]} : \E p \in Placements(j) : LaunchJob(j, p)
       /\ cursor' = i + 1
  /\ progressed' = TRUE
  /\ UNCHANGED <<phase, outcome, completed, cancelled, failures, rate, buffers, results, samples>>

(* Mutant: the disk is turned to although something runs.                   *)
EndAdmitSpillsFirst ==
  /\ phase = "admit" /\ Acting = {}
  /\ phase' = IF progressed THEN "top" ELSE "spill"
  /\ UNCHANGED <<progressed, cursor, outcome, jobVars, tableVars, workerVars, results, samples,
                 warmQueue>>
(* Nothing else can be admitted: look again if this pass did anything, wait*)
(* for a result if something runs, and only otherwise turn to the disk.    *)
EndAdmit ==
  /\ phase = "admit" /\ Acting = {}
  /\ phase' = IF progressed THEN "top" ELSE IF RunningJobs # {} THEN "block" ELSE "spill"
  /\ UNCHANGED <<progressed, cursor, outcome, jobVars, tableVars, workerVars, results, samples,
                 warmQueue>>

-----------------------------------------------------------------------------
(* Spilling: the largest blob in private memory at or above the floor that *)
(* fits the disk budget goes to disk.  Equal sizes go in table order, here *)
(* any.  A blob is named by the ledger key it is charged under.            *)

(* Mutant: inputs are never spilled.                                        *)
PrivateResults ==
  {<<"output", o>> : o \in {x \in DOMAIN outputs : outputs[x].res = "private"}}
PrivateBlobs ==
  {<<"input", j>> : j \in {x \in Jobs : inputs[x] = "private"}}
    \cup {<<"output", o>> : o \in {x \in DOMAIN outputs : outputs[x].res = "private"}}
BlobSize(b) == IF b[1] = "input" THEN InputSize[b[2]] ELSE outputs[b[2]].size
(* Mutant: the blob is measured against the whole budget.                  *)
SpillableIgnoringUsed ==
  {b \in PrivateBlobs : BlobSize(b) >= SpillFloor /\ BlobSize(b) <= SpillBudget}
Spillable ==
  {b \in PrivateBlobs : BlobSize(b) >= SpillFloor /\ diskUsed + BlobSize(b) <= SpillBudget}

Spill ==
  /\ phase = "spill"
  /\ \E b \in Spillable :
       /\ \A c \in Spillable : BlobSize(c) <= BlobSize(b)
       /\ ledger' = Release(ledger, {b})
       /\ diskUsed' = diskUsed + BlobSize(b)
       /\ IF b[1] = "input"
            THEN inputs' = [inputs EXCEPT ![b[2]] = "disk"] /\ UNCHANGED outputs
            ELSE outputs' = [outputs EXCEPT ![b[2]].res = "disk"] /\ UNCHANGED inputs
  /\ phase' = "top"
  /\ UNCHANGED <<progressed, cursor, outcome, jobVars, segments, workerVars, results, samples,
                 warmQueue>>

Stall ==
  /\ phase = "spill" /\ Spillable = {}
  /\ Raise("stalled")
  /\ UNCHANGED <<jobVars, tableVars, workerVars, results, samples, warmQueue>>

Stopped == running

(* The finally clause: fresh workers are terminated, warm ones finish or   *)
(* are killed, and the segments still in the table are unlinked.           *)
Close ==
  /\ phase = "closing" /\ phase' = "done"
  /\ running' = running \ Stopped /\ computing' = computing \ Stopped
  /\ warmUp' = {} /\ warmQueue' = [g \in GpuIds |-> <<>>] /\ buffers' = [g \in GpuIds |-> {}]
  /\ ledger' = Release(ledger, {<<"job", j>> : j \in Stopped} \cup DOMAIN ContextCharge(warmUp))
  /\ segments' = segments \ SegmentsOf(outputs, DOMAIN outputs)
  /\ UNCHANGED <<progressed, cursor, outcome, warmRunning, completed, cancelled, failures, rate,
                 inputs, outputs, diskUsed, refs, results, samples>>

-----------------------------------------------------------------------------
(* The workers.  A worker attaches what it was handed by reference, runs   *)
(* the job and posts one message.                                          *)

Resolvable(j, registry) ==
  \A r \in refs[j] : IF r[1] = "shared" THEN \E d \in NodeIds \cup {NoIndex} : <<r[2], d>> \in segments
                     ELSE r[2] \in registry
Verdicts(j, registry) ==
  IF ~Resolvable(j, registry) THEN {"error"}
  ELSE {"ok"} \cup (IF j \in MayFail THEN {"error"} ELSE {})
              \cup (IF j \in WrongShards THEN {"wrong_shards"} ELSE {})
Post(j, status) == results' = Append(results, [key |-> j, status |-> status])

FreshPosts(j) ==
  /\ j \in computing
  /\ computing' = computing \ {j}
  /\ \E s \in Verdicts(j, {}) : Post(j, s)
  /\ UNCHANGED <<loopVars, jobVars, tableVars, refs, warmUp, buffers, samples, warmQueue>>

(* Killed from outside, for instance by the kernel when memory runs out.   *)
FreshDies(j) ==
  /\ WorkersMayDie /\ j \in computing
  /\ computing' = computing \ {j}
  /\ UNCHANGED <<loopVars, jobVars, tableVars, refs, warmUp, buffers, results, samples, warmQueue>>

(* The warm worker of device g takes the items of its queue one at a time. *)
WarmTakes(g) ==
  /\ g \in warmUp /\ warmQueue[g] # <<>>
  /\ warmQueue' = [warmQueue EXCEPT ![g] = Tail(@)]
  /\ UNCHANGED <<loopVars, jobVars, tableVars, computing, refs, warmUp, samples>>

WarmFrees(g) ==
  /\ WarmTakes(g) /\ Head(warmQueue[g]).tag = "free"
  /\ buffers' = [buffers EXCEPT ![g] = @ \ Head(warmQueue[g]).keys]
  /\ UNCHANGED results

WarmRuns(g) ==
  /\ WarmTakes(g) /\ Head(warmQueue[g]).tag = "job"
  /\ LET item == Head(warmQueue[g])
         kept == <<item.key, Whole>>
     IN \E s \in Verdicts(item.key, buffers[g]) :
          IF item.keep /\ s = "ok"
            THEN Post(item.key, "handle") /\ buffers' = [buffers EXCEPT ![g] = @ \cup {kept}]
            ELSE Post(item.key, s) /\ UNCHANGED buffers

(* The sampler reads the memory of a process that has not been reaped.     *)
Sample(j) ==
  /\ phase \notin {"closing", "done"} /\ j \in running /\ Len(samples) < MaxSamples
  /\ \E b \in SampleSizes : samples' = Append(samples, [key |-> j, bytes |-> b])
  /\ UNCHANGED <<loopVars, jobVars, tableVars, workerVars, results, warmQueue>>

-----------------------------------------------------------------------------
Loop ==
  \/ Finish \/ Drain
  \/ ReapStale \/ ReapOk \/ ReapWrongShards \/ ReapError \/ ReapEmpty
  \/ AdmitRaises \/ Launch \/ EndAdmit
  \/ Spill \/ Stall \/ Close

Workers ==
  \/ \E j \in Jobs : FreshPosts(j) \/ FreshDies(j) \/ Sample(j)
  \/ \E g \in GpuIds : WarmFrees(g) \/ WarmRuns(g)

Next == Loop \/ Workers

(* The loop is one thread that never blocks for ever: a blocking get times *)
(* out.  A worker process is scheduled by the operating system and its     *)
(* callable returns or raises.  The sampler is owed nothing.               *)
Fairness ==
  /\ WF_vars(Loop)
  /\ \A j \in Jobs : WF_vars(FreshPosts(j))
  /\ \A g \in GpuIds : WF_vars(WarmFrees(g) \/ WarmRuns(g))

Spec == Init /\ [][Next]_vars /\ Fairness
=============================================================================
