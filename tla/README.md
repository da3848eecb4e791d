# Tetradrome in TLA+

TLA+ models of Tetradrome, a Python workbench that computes invariants of
knots and runs the computations on one machine through its own job scheduler.
The models are about four parts of the program: the scheduler, which admits
jobs against a resource ledger, runs them in worker processes, hands results
over by copy, shared segment or device buffer, spills to disk, and isolates
failures; the way from the markers of a knot to its knot Floer homology, the
computation the scheduler was written for; the invariants computed from
diagrams and braid words, Khovanov homology among them, and their comparison
with KnotInfo's tables; and the workstation's tools that build a container for
the benchmarks and publish what it measures. Paths below are relative to
`src/src/tetradrome/`, those of `scripts/` and `tools/` to `src/`;
`scheduler/executor.py` is meant where no file is named.

## The system

| Part | State it keeps | Operations | Modelled by |
|---|---|---|---|
| Job graph (`scheduler/graph.py`) | jobs, producers, dependents | construct and validate, `ready`, `component`, `detach_inputs` | `JobGraph`, `JobGraphObject` |
| Job (`scheduler/job.py`) | a frozen description | field checks | constants of `JobGraph`, `Routing`, `Executor` |
| Inventory (`scheduler/inventory.py`) | nodes, devices, ceiling | detection | constants of `Ledger` |
| Ledger (`scheduler/ledger.py`) | the allocations | add, remove, discard, set_actual; derived free amounts | `Ledger` |
| Placement (`scheduler/placement.py`) | none | capability, pre-flight, fit, choice of path | `Placement`, `Admission` |
| Routing (`scheduler/routing.py`) | rate per placement | warm or fresh, observe | `Routing` |
| Executor (`scheduler/executor.py`) | running, warm_running, resident table, ledger, queues, spill and share counters, warm workers | the loop, launch, reap, poison, spill, teardown; workers; sampler | `Executor`, `ExecutorProps` |
| Accelerator, host platform | devices, topology, memory readings | probes | not modelled |
| Floer adapter (`engines/floer/scheduling.py`, `generation.py`) | the DAG of a knot, its slices and merge | plan, slice, merge, reduce, assemble | `KnotFloer` |
| Floer engine (`engines/floer/grid.py`, `gradings.py`, `differential.py`, `*_jit.py`, `homology.py`, `tau.py`) | values | trace, grade, differential, rank, divide, tau | `Grid`, `GridTau`, `KnotFloer` |
| Algebra (`algebra/`) | values | elimination over F2, Q and prime fields in seven implementations, d squared, predicted memory | `Complexes`, `Reducers`; tiers and GPU not modelled |
| Diagrams (`diagrams/`) | values | checks, orientation, signs, Seifert circles, builders | `Diagrams`, `Invariants` |
| Cube and Khovanov engine (`engines/cube.py`, `engines/khovanov/`) | values | smoothings, signed edge maps, three complexes, homology, s | `Cube`, `Invariants` |
| Invariants (`invariants/`) | values | dispatch, Jones, Seifert form, determinant, signature, Alexander | `Invariants`, `LinkPolynomials`, `SeifertForm` |
| KnotInfo backend (`backends/knotinfo_backend.py`) | the table | lookup, mirror, F2 ranks, known answers | `KnotInfo` |
| Provisioning (`scripts/provision_runner.py`) | the container; key and credentials on file | create, install, log in, write | `Provisioning` |
| Benchmarks (`tools/generate_benchmarks.py`, `ct_exec.py`) | the repository; remote command lines | synchronise, measure, commit, push, resynchronise | `Benchmarks`, `Git` |
| Comparison and benchmark scripts | none | time and format | not modelled |

The parent process runs one loop. Worker processes post one message each on a
shared result queue; one warm worker per device takes items from its own queue
and keeps device buffers in a private registry; a thread samples the memory of
fresh workers. The tools of the workstation share with people a branch at
origin and with earlier runs a container; nothing locks either. The loop alone changes the ledger and the resident table. What
makes it hard: a message may be older than the decision it meets (a cancelled
job that had posted, a sample of a job since reaped), a result changes
residence between two readers and is counted down at different moments for
each residence, a failure must undo a lineage in any stage, and the loop must
neither stall nor wait for what cannot come. `PROJECT.json` lists these hazards
at their lines.

## The modules

**`JobGraph`** has the graph as constants: `Deps[j]` is the set of results `j`
reads, `<<p, Whole>>` for a plain dependency and `<<p, s>>` for `Shard(p, s)`.
`Component` is defined as the least closed set, not by a walk.
**`JobGraphObject`** is the class as it computes: the checks of the constructor
(`Reject`), Kahn's algorithm (`CountEdges`, `Pop`, `Judge`) and the walk of
`component` (`Skip`, `Visit`); the graph is a variable, so a run covers every
graph. Queue and stack are sets: their order follows Python's hash sets.

**`Ledger`** has the machine as constants and a ledger as a function from keys
to allocations. Keys are tuples: `<<"job", j>>`, `<<"input", j>>`,
`<<"output", o>>`, `<<"replica", o, node>>`, `<<"context", gpu>>` for the
code's `key`, `("__input__", key)`, `("__output__", dep)`,
`("__output__", (dep, domain))` and `("__warm_context__", gpu)`. Measured
device memory (`actual_vram`) is never set by the program and is left out.
Sums over the ledger are the fold of **`Totals`**, in a module of its own so that
the facts about it are proved once.
**`Placement`** is `placement.py` as operators; `PlaceNow` returns a set of at
most one placement. Margins are whole percents, rounded down as `int()` does.
**`Admission`** drives the ledger with admissions, holds and returns in every
order.

**`Routing`** is `route_execution` and `_augment_for_admission`. Calibration is
abstracted to the set `Rates` its moving average may settle on.

**`Executor`** is `Scheduler.run`. `phase` says where the loop is: `top`
(`Finish`, `Drain`), `reap` and `block` (`ReapStale`, `ReapOk`,
`ReapWrongShards`, `ReapError`, `ReapEmpty`), `admit` (`Launch`, `AdmitRaises`,
`EndAdmit`), `spill` (`Spill`, `Stall`), `closing` (`Close`). A reap, an
admission or a spill is one step, and workers move between any two of them; the
loop owns its state, so nothing else could be seen in between. `cursor` is the
position in the walk over the ready jobs, which is never taken back within a
pass. `outputs` and `inputs` are the resident table; `res` is the residence.
`consumers` is the reference count as the code keeps it. `refs[j]` is what a
worker was handed by reference and still has to find: a segment in `segments`
or a buffer in `buffers[g]`. Workers are `FreshPosts`, `FreshDies`,
`WarmFrees`, `WarmRuns`, and the sampler `Sample`. `Close` is the `finally`
clause. `Raise` stands for an exception leaving the loop.

Payloads are sizes. Time is not modelled: a blocking get returns when a result
is there or times out at any moment. Reads, logging, timings and the counters
of the report are left out. A missing result is found before anything of the
launch is done; in the code a part of the hand-over may precede the KeyError,
and the `finally` clause undoes it either way. Killing a worker is complete when
the step is over: the lock of the result queue, which a killed worker may hold,
is not modelled.

**`ExecutorProps`** states the properties. **`JobLifecycle`** is the abstract
specification: jobs start after their producers, a failure takes its lineage
and nothing else, a report covers every job; no machine, memory or process.

**`Grid`** is the combinatorics of one grid as constant-level operators: the
gradings, the differential of `differential.py` as a sum over rectangles, the
one of `differential_jit.py` as parities of pairs of rows in modular
arithmetic, the ranks of permutations, the boundaries of the slices. A
generator is a function from rows to columns where the code has a tuple or a
row of an array. **`Complexes`** is elimination over F2: a column is the set of
its nonzero rows, as a Python integer is the set of its bits in
`reduce_f2_packed.f2_rank_bitint`. `Table` writes a function out so that TLC evaluates it once;
it changes nothing. **`GridTau`** is `tau.py`, its generators named by rank.

**`KnotFloer`** is the computation of one knot. `stage` says how far it is:
`tracing` (`Trace`, `CloseCycle`, `Malformed` for `GridDiagram.from_markers`),
`built` (`PlanKnot` for the histogram and the declaration of the jobs),
`running` (`RunSlice`, `RunMerge`, `RunReduce`, `RunAssemble`, each when
`JobGraph` has the job ready; `Answer` for the division by the V factors),
`answered`, `rejected`, and `unvalidated`, the exceptions of a negative Betti
number and of a grid homology that does not factor. `held` is the results of
the completed jobs. The executor below it is the abstraction `Executor` was
checked against: any ready job may complete next. `RunMerge` takes the slices
in any order, as the executor hands over the results in the order of a hash
set. Markers are numbered from 1 and shards are named by strings, so that one
set holds them and `"whole"`. `SliceStates[n]` is the slice size 4096 of the
code, made small and chosen for each grid size.
The array layout is modelled where the merge depends on it (global ranks,
offsets into one flat array of targets); widths of integers are not: ranks fit
64 bits up to size 20 (`engines/floer/differential_jit.py:299`), where the generators no
longer fit any memory. Where the model says `rejected`, the
code raises a `TetradromeError`, except for a row number beyond the grid: that
is an IndexError (`engines/floer/grid.py:80`), while a column beyond it is
refused by the constructor.

**`KnotFloerProps`** states the properties: what the parallel path computes
against the serial definition, and facts of the theory that a wrong program
would break.

**`Diagrams`** is a planar diagram code: its checks, its orientation as
`seifert_structure` finds it (the over-strand is read off the labels' order,
circles follow successors), signs, writhe, genus. The position of a strand is
kept by label as in the code, so that a curl overwrites it. **`Cube`** is the
cube of resolutions: circles by union of arcs, generators, multiplication and
comultiplication with their fitting edges and signs, and the complexes over F2
and Q and Lee's. **`Reducers`** has the implementations of rank and homology
beside each other: the packed words of the compiled reducer (`WordBits` bits
instead of 64), dense elimination, Gaussian cancellation, fraction-free
elimination over Q, and sparse elimination modulo each of `Primes` (two small
ones instead of the code's large ones). **`LinkPolynomials`** is the bracket
and the Jones polynomial with its refusals, polynomials as functions from
exponents; **`SeifertForm`** the Seifert matrix of a braid word and what is read
off it. **`KnotInfo`** is the table as data, `Rows`, `Blank` for an empty cell.

**`Invariants`** is `from_name`, `from_pd` or `from_braid` followed by
`compute` for every invariant: `Build`, then for words `ComputeSeifert` and
`RefuseBraid`, for diagrams `ResolveCube` or `RefuseUnoriented`, `ComputeJones`,
`AssembleComplexes`, `ReduceComplexes`. `answers` maps a name to its value or
the exception it ends in, `UnvalidatedResult` for a disagreement with the table
included. **`InvariantsProps`** states the properties.

**`Provisioning`** is `provision_runner.main`. `step` is the function it is in,
`box` the container (what is `missing` of what was asked for, the apt policy,
the key and password that open it), `files` what lies beside the script. Each
remote command succeeds or fails, and a failure ends the program with whatever
the commands before it did; a key is named by the run that made it. `LogsIn` is
`ct_exec`. Connecting, the preflight, the template, the network wait, the smoke
test and the report change none of this and are part of their neighbours.
**`Git`** is what the tools rely on git for: a branch is a sequence of commits,
a commit the files it writes, a rebase a three-way merge of whole files.
**`Benchmarks`** is `generate_benchmarks.main`, one action per function and one
per contact with origin where a function has several. `remote` holds the command
lines alive in the container: a time-out kills the process that waits, not the
generator. The operator edits and commits, a collaborator pushes, and
provisioning goes on, between any two steps; `git`'s own commands, a rebase
included, are one step each. What the operator stages is
committed with the artifact, as `git commit` does. `ours` is a history variable.
**`BenchmarksProps`** states the properties.

## Runs

| Run | Instance | What it shows |
|---|---|---|
| `job_graph` | every graph on 3 jobs with at most 2 dependencies each: whole, shard, undeclared shard, shard of a whole job, unknown job | verdicts are right, the walk returns the component, both end |
| `admission` | 2 unequal nodes under a lower ceiling, 2 unequal devices, paths at and around each limit, 3 allocations at a time (symmetric keys) | grants are free with margins, pre-flight agrees with placement, returning helps |
| `exec_core` | 9 jobs in 3 lineages on nodes of 2 and 1 cores: a partitioned producer, a shared result with pinned and unpinned readers, a reader of a result never stored, an infeasible lineage; any job may raise, any worker die, shards may be wrong | accounting, reference counts, isolation, clean end, refinement |
| `exec_memory` | 4 jobs, memory for two, disk budget for some of the blobs, up to two samples on their way at once, below or above the declaration | disk budget, no stall, the disk only for want of memory, admission keeps the margin, types |
| `exec_gpu` | 6 jobs, one device: device-resident result with a warm and a fresh-routed reader, any job may raise, a job that diverges or stalls once the calibration moved or a context stands | buffers, readers served, termination |
| `knot_floer` | every grid of size 2, 3 and 4 with the O markers on the diagonal, knots and links; three of size 5 (both trefoils, a staircase of the unknot); 5 malformed marker lists; three to five slices | the trace accepts knots only, the graph is accepted and its shards delivered, kernels agree, complexes, prices and answer are right in every order of jobs and of slices |
| `invariants` | 222 requests: six rows of the table (unknot, both trefoils, figure-eight, one with empty cells, one without a code) in several spellings, the codes and words of every knot closure of at most 3 letters on at most 3 strands and of longer words of the tabulated knots, every orientation of two-crossing codes, planar or not, refused codes, a wrong identity | answers are KnotInfo's, d squared is zero, reducers agree, the Euler characteristic is the Jones polynomial, knight moves pair the rational homology around s, Seifert's and the form's surfaces agree, equivalent words answer alike |
| `benchmarks` | 2 provisionings, 2 regenerations, 2 changes by people, on a branch origin has or lacks | no work is lost, what is announced was measured, only finished containers let the tools in |
| `exec_two_gpus`, `exec_leak`, `exec_standing`, `exec_death` | small instances of the same model | the four disagreements below |

The bounds keep every case the properties distinguish: two readers for a
reference count, two nodes and an unpinned reader for replicas and base
segments, one node with a single core so that jobs wait, sizes on both sides of
the share threshold, the spill floor and the margins, two failures in different
lineages, and both rates on the two sides of the routing threshold. More jobs
repeat these cases. `MCMemory` also evaluates `Roomy`, the hypothesis of a
theorem below, on the same jobs with a memory that does not hold their inputs. `MaxSamples` bounds the samples in flight; the others are
finite because a job runs once. Deadlock is not checked in the executor runs
and in `job_graph` the end is stuttering too: these programs stop.

In `knot_floer`, renumbering the columns puts the O markers of any grid on the
diagonal; a torus has no first column, so most of what is lost is repetition.
Size 5 is there for two reasons: the smallest nontrivial knot needs it, and a
rectangle with a point inside and no marker, the case in which an off-by-one in
the interior tests shows, does not exist on smaller grids, and on size 5 only
when two neighbouring columns are left free for two rows (`Staircase`). Size 6
(720 generators) is beyond what TLC evaluates here. A grid
property is evaluated in the one state in which the grid is new. Deadlock is
checked: every step marks a marker, completes a job or advances `stage`, so
with no deadlock before `Done` every run ends in an answer or a refusal, and
the run needs no fairness.

In `invariants`, words of 2 bits make matrices span several words, which takes
more than 64 rows in the code; the primes 3 and 5 are small enough for a pivot
to vanish and large enough for these knots' ranks. Two-crossing codes include
virtual ones, which the checks of a code let through and later steps refuse.
Three letters give every kind of diagram that tells the properties apart: with
and without generators, links, curls, unknots with crossings. In `benchmarks`,
two changes by people and two runs are the least for a rebase that conflicts, one
that succeeds, a retry, a remote line that outlives its run and a key on file
older than the container; one address is enough, as reusing it is the worst
case. The run stops when its bounds are used up, so deadlock is not checked.

Each property of a passing run has a mutant of the modelled code that breaks
it; the mutants stand beside the definitions they replace.

### Fairness

Weak fairness of the loop: it is a single thread whose only blocking call times
out. Weak fairness of each fresh worker's post and of each warm worker: the
operating system schedules processes and the callable returns or raises. None
for the sampler, for death and for which verdict a job gets. `Terminates` is
checked where workers are not killed; `exec_death` shows that it needs that.

### Disagreements found

* `exec_two_gpus`: a reader of a device-resident result is sent to the warm
  worker of the device placement chose (line 740), which need not hold the
  buffer; the job description promises a fallback instead of a failure.
* `exec_leak`: a poisoned device-resident producer that still runs warm leaves
  its buffer in the worker for ever, charged to nobody (826-827, 770-774).
* `exec_standing`: the context of a warm worker is reserved for the rest of the
  run (569-576) but pre-flight judges the bare device: a fresh job that passed
  waits for ever and the run stalls.
* `exec_death`: a worker killed before it posts is never noticed; the run does
  not end.

Seen while modelling and not checked by a run of their own: the inputs of an
infeasible lineage stay charged (1015-1016); a warm routing at pre-flight may
become fresh and infeasible, and `plan_placement` then raises for the whole run
(reached in `exec_gpu`); a plain dependency on a partitioned job is accepted
and raises at launch (reached in `exec_core`); spilled and device-resident
terminals are missing from the report (1066-1068); replicas, outputs and
contexts are charged without asking for room; a job with two device paths gets
the warm/fresh decision of the last one; a warm worker pins itself to its whole
node.

Of the invariants: every one-crossing code fails or is shifted, because the
positions of a curl's label overwrite each other
(`diagrams/seifert_construction.py:76`; in longer codes enough is left for the
right sign, which `TabulatedConfirmed` checks); `determinant` of a word without a
repeated generator raises IndexError on an empty matrix (`invariants/seifert.py:112`)
while `alexander` and `signature` answer; both are the exceptions named in
`TabulatedConfirmed`, so that no property catches them, and `BraidMovesKept`
takes the determinant of the empty matrix for 1. Codes numbered from 0 pass the checks (`diagrams/pd.py`)
and always raise when they are oriented. `from_pd(pd, identity)` answers the
Seifert-form invariants from the table's braid and not from the given code
(`invariants/compute.py:95`).

Of the tools: a `--recreate` with a static address and no gateway destroys the
container and then refuses (`scripts/provision_runner.py:277-285`); a run that
fails after the destruction leaves a key and credentials for a container that
is gone; one that fails between the two files leaves the new key with the old
password. When an earlier run's commit could not be pushed and the next one
measures the same, it reports success with nothing pushed
(`tools/generate_benchmarks.py:271-273`). Two remote lines that overlap share a tree
and an output file: the second run can commit what the first measured, or the
file of the checkout, even report a push after its commit was dropped as
already there; `PushedOnTop` excepts such runs. "The final push fast-forwards"
(17) holds only while nobody else pushes; the resynchronisation handles the
rest.

## Proofs

Each theorem holds for every value of the constants that satisfies the named
assumptions below: every graph, machine, cost and size, every order of events.

| Module | Theorems | Argument |
|---|---|---|
| `JobGraphProofs` | `WalkIsRight`, `VerdictsAreRight` | `WalkInvariant`: seen and stacked keys lie in the component and the neighbours of every seen key are seen or stacked, so that an empty stack leaves a closed set that holds the root. For the verdict, `VInv`: the code keeps a count of the popped keys, not the keys; some set of that size is closed under producers, acyclic, and explains the queue and every in-degree. When the queue is empty the keys outside it all wait for one another, so there are none exactly when the graph is acyclic. |
| `ExecutorProofs` | `ExecutorImplementsLifecycle` | `BooksInvariant`: completed, cancelled and running are disjoint sets of jobs, and an outcome exists exactly when the loop is over. `StepHasEffect` classifies every step by what it does to the books; each class refines a step of `JobLifecycle` or none. That `AllAccounted`, a comparison of sizes, means every job uses the finiteness of the graph. |
| | `LedgerIsExact`, `RefcountIsExact`, `FailuresAreIsolated`, `ExitIsClean` | `HoldingInvariant`, one invariant in nine parts: the resident table's shape (`Tables`), results belong to completed jobs (`Stored`), jobs are sent after their producers (`Ordered`), the ledger is charged for exactly the holders (`Charged`), segments are those of the table (`Segmented`), what lies in the queues was launched (`Processes`), counts are the readers left (`Counted`), cancelled sets are closed lineages (`Isolated`), a run that reports has nothing in flight (`Accounted`). None is inductive alone: a late message of a poisoned job is harmless because of `Processes`; the count stays right under a poison because a lineage goes as a whole (`Isolated`) and a reader never precedes its producer (`Ordered`); the ledger follows the counts. `CountRight` says more than the count: a result in private memory that may be shared was handed to nobody yet, which is what moving it to a segment relies on. |
| | `CoresAreExclusive` | `LedgerIsSound`: every charge is an allocation and core sets are disjoint. A sample rewrites an allocation, and only its shape says the cores stay. |
| | `SpillBudgetIsKept` | `SInv`: the bytes counted are the bytes of the blobs in the table, and they fit. That freeing subtracts what spilling added needs the sums of `TotalsProofs`. |
| | `DeviceMemoryIsCharged`, `ReadersAreServedOnTheirDevice`, `ReadersAreServed` | `DInv`: which buffers live where, who was handed them, and that a reader's references outlive it. The last one has the hypothesis `OneDevice`: with two, `exec_two_gpus` shows a reader sent to the wrong worker. The one before it holds on any number of devices and names that as the only way. |
| | `OnlyTheGraphLosesResults` | `KInv`: a result of a completed job is in the table unless all its readers, and there are some, have been sent. A launch that misses one asks for the whole of a partitioned result, the disagreement in `exec_core`. |
| | `LightTerminalsAreReported` | With the hypothesis `TerminalsAreLight` (what nobody reads is neither device-resident nor large enough to spill): the terminals the report leaves out, as noted above, are the others. |
| | `TypeCorrect` | `Typed`, with all the invariants above: that a rewritten table entry keeps its type depends on what the entry was. |
| | `AdmissionKeepsTheMargin` | `PricesInvariant`: what each charge is worth. A running job is charged at least what it declared, on the node or device of its placement; a result, an input, a replica or a context exactly its bytes. It needs `Typed` for the shape of entries, `DInv` for the device of a result, and that the samples still on their way are byte counts. From it the ledger is a ledger of byte counts (`LedgerOfBytes`), the placer's facts of `PlacementProofs` hold of it, and the sum of the declarations after a launch is the sum before, the new job's, and what the launch charges unasked. |
| | `StallsAreOnlyForMemory` | `WalkedInvariant`: while the loop walks the ready jobs with nothing running, what the walk has passed still waits. When it turns to the disk with nothing running no core is taken (a charge with cores is a running job's), so that a job the placer refuses lacks bytes; and since the graph is acyclic and lineages are cancelled whole, a job that is left has an ancestor that is ready. |
| | `RoomyNeverStalls` | With the hypothesis `Roomy`: pre-flight asks whether a job fits beside nothing, `Roomy` whether it fits beside all that the loop cannot move out of its way, at once. When nothing is left to spill, each charge is one of those and no larger (`PricesInvariant`); the budget never is what prevents spilling unless `Roomy` already counted every blob as staying (`SInv`); the placer grants in a smaller ledger what it grants in a larger one (`PlacementProofs`), on the same device or one that comes first. `exec_standing` is a machine that is not roomy: it stalls. |
| `TotalsProofs` | `TotalGrows`, `TotalOfSizes` | `Total` (module `Totals`) is a fold over a finite set; a set for which the equation fails has a least counterexample, and taking one element off contradicts it. |
| `PlacementProofs` | `CapableFitsIdle` | The facts about the placer that hold of any ledger of byte counts: what it grants is free, what it refuses is missing, what fits beside more fits beside less. `AdmissionProofs` and `ExecutorProofs` both rest on them. |
| `AdmissionProofs` | `GrantsFit`, `ReturningNeverHurts`, `VerdictsAgree` | `LedgerStaysFinite` gives the sums a meaning. What is free only grows when an allocation is returned, a placement found stays possible, and on the idle machine what is free is what the machine has, so that the capability test and the placer compare the same numbers. |
| `BenchmarksProofs` | `WholeBoxesAnswer`, `OnlyWholeBoxesMeasure` | `KeysFollowTheBuild`: while a run builds, its key is newer than the one on file, the container has no key before the login is set up, and what is missing is among what the steps ahead install. Every step of the composition is a step of provisioning or stutters for it (`BenchmarksLeaveProvisioning`). |
| | `WorkIsKept`, `PushesAreOnTop` | `WInv`: besides the types, code is staged whole or not at all (`CodeStaged`, or a typed change that is only staged could be overwritten before it is committed); while the remote line of a run is alone in the container it measures a tip of that run's branch (`OnlyLine`); what comes back, is written, committed and replayed is of this run (`OwnArtifact`). A rebase replays every commit or puts the branch back, and drops only a commit whose files are there already. |
| `GridProofs` | `SlicesTileTheRanks` | The boundary `total * w \div count` grows with `w`; rank k lies in slice `((k + 1) * count - 1) \div total`, and two slices that hold it would have overlapping bounds. |
| | `KernelIsTheDifferential` | A point lies in a band of the torus exactly when its offset from the start, modulo the size, is in range (`BandIsOffset`), so both paths test the same rectangles. Transpositions of different pairs lead to different targets, so a target has at most two rectangles, and their parity is decided pair by pair. |
| | `RanksNameTheGenerators` | The generators that begin as x does up to column t number (n - t)!, those of them before x in lexicographic order number the tail of the rank sum (`EarlierCounted`), so that the rank counts the generators before x. Unranking then takes the digits off again one column at a time (`UnrankUndoesRank`). n! different ranks below n! leave none unused. |
| | `DifferentialsRespectGradings` | Swapping the columns of two rows changes the number of points south-west of one another by the points of the box between them, four corners at a time (`BoxByCorners`), and with the markers counted the same way, one per row, Maslov changes by exactly one less than twice the O markers the rectangle covers (`MaslovChange`). A rectangle that wraps round the torus is the complement of one that does not, in its rows, its columns or both: the box of the target, or whole bands, which hold one marker per line (`GradingChange`). A rectangle that avoids a set of markers covers none of them. |
| | `DifferentialsSquareToZero` | What is counted is pairs of rectangles, one after the other, between two generators. What such a pair covers can be cut in two in exactly one other way: in the other order when the rectangles share no row (`OrdersMix`), else along the other edge of the L they make at the corner they share (`CutsAlong`, `CutsAgainst`, `CutsApart`). Two on the same rows make a ring round the torus, which holds an O (`NoneGoesRound`). So `PartnerIs` pairs the pairs off, their number is even (`PairsAreEven`), and a sum modulo two of products is the parity of that number (`OddParts`, `OddProduct`). |
| `KnotFloerProofs` | `TracesAreRight` | `TracePath`: what is coloured is a path of arcs from the first marker, paired along rows except at its head and along columns except at both ends, alternating in colour, and inside every closed set that holds the first marker. The arc that meets a coloured marker can only meet the first one and closes the cycle. If all are then coloured, as many O markers as rows with at most one in each fill every row, and the two column maps are permutations exactly when no two markers share a cell. |
| | `KernelsAgree` | The grid of the stage "built" is valid (`TraceInv`), and the facts of `GridProofs` hold of it by instantiation. |
| | `JobsAreAccepted` | `RunInv`: the slices held are the slices of the grid, the histogram counts its generators, and the merge is `ComplexesByRank` (below), whose dimensions do the same (`PricedDimensions`). The slices tile the ranks, so that their lengths add up to n! and every rank is found in its slice in whatever order they are handed over (`GenerationIsWhole`); unranking is injective, so that counting ranks (the merge) and counting generators (the histogram) come to the same. The generator of a rank is read through `On`, the facts of a grid given as a value, because a step leaves the grid alone and not the state. The graph itself is acyclic and servable by its shape (`GraphOfAKnot`). |
| | `MergesAreSerial` | The part `MergeHeld` of `RunInv`: whatever the order in which the slices are handed over, what is merged is `ComplexesByRank(grid)`, the complexes whose basis is listed by rank and whose columns are found through ranks. Concatenating the slices in order of start puts the targets of a rank behind its cumulative offset (`Flattening`, once inside a slice and once across them; `SlicesAreSorted` since no slice is empty). Ranks are in lexicographic order (`RanksInOrder`), so that a position among the generators of a degree is the same by rank and by order (`BlocksAreFilled`). The differential keeps Alexander and lowers Maslov by one (`DifferentialsRespectGradings`), so that the merge, which looks up every target in the next lower degree of the same grading, drops none. Both the merge (`MergeBuilds`) and the serial definition (`DefinitionsSay`) come to that one value. |
| | `PricesCover` | What is reached by adding filed pivots to a column is defined whether or not the additions end: it is what every set closed under them holds (`FollowingSteps`). A pivot is filed under its leading row, takes that row away and adds only lower ones, so a column is reduced in the end (`ColumnsAreReduced`), a pivot more means a row and a column more that are used up, and the rank is at most the number of columns and of rows (`RankIsBounded`). The columns of a degree hold places in the block of the next (`ColumnsFit`), and the dimensions of what was merged are the histogram's (`PricedDimensions`), the number the price was read off. |
| | `GridsAreComplexes` | `DifferentialsRespectGradings` and `DifferentialsSquareToZero` on the grid of the stage "built", which is valid. |

The assumptions, each evaluated by the runs: `InventoryAssumption`,
`MachineAssumption` (the inventory: natural sizes, finite sets of cores,
indices that name one node or device, nodes that share no core), `MarginAssumption` (whole percents), `PathAssumption` and
`RouteAssumption` (what a job may declare, what a calibrated rate may be),
`GraphAssumption` (an acyclic graph with the dependencies that `JobGraph` accepts, finitely many shards,
device-resident jobs without shards), `JobOrderAssumption`
(the walk lists the jobs once each), `SizeAssumption` (results, inputs,
samples, contexts and the spill budget are byte counts), `JobsAssumption` (finitely many jobs; cycles and unknown
dependencies are not excluded), `OrdersAssumption` and `ProvisioningAssumption`
(command lines, a number of runs), `MarkersAssumption` (at least one marker, rows
and columns numbered from 1; anything else about the list is for the code to
find out), `SliceAssumption` (a slice holds at least one generator); `KnotInfoAssumption` is used by no proof. The theorems on one grid take theirs in their statements: O and X
are maps from rows to columns.

Only model-checked:

* everything temporal under fairness (`AlwaysAnswers`, `Terminates`) and the
  absence of deadlocks: liveness and ENABLED are beyond the prover;
* `NeverStalls` on machines that are not `Roomy` (`exec_memory` is one: its
  disk does not hold every blob); in general `exec_standing` refutes it;
* `TerminalsReported` and `ReadersServed` beyond their hypotheses, where they
  are false as the runs and notes above show;
* what rests on the homology an elimination yields (`HfkIsKnotFloer`,
  `TauIsBounded`, all of `InvariantsProps`): of elimination itself only that it
  ends and the bound on its rank are proved (`PricesCover`).

## Not modelled, and why

The probes of the accelerator and the host platform are I/O. Of the Floer
engine the fallback without numpy and the back-end chosen by size compute the
same values and are not told apart; `reduction_graph` alone is the DAG of
`KnotFloer` without its slices. Of `algebra` the machine caps, the gates and
the choice of a tier are left out, and the device kernels are out of reach. Of
diagrams and KnotInfo the parsing of text (codes, names' notation, polynomial
strings) is left out: values are data. Of the tools, switching branches during
a run and `git`'s own merging inside one file are not modelled: two different
changes of a file conflict. The comparison generator, its adapters to other
programs and the timing scripts measure and format; they keep no state.

## Plan

1. Rank and nullity over F2: that no Betti number of a reduction is negative,
   from `GridsAreComplexes` and `PricesCover`.
2. The warm worker and the result queue in detail: the queue lock a killed
   worker may hold, a setup that raises, results that cannot be pickled.
3. The memory tiers and gates of `algebra/memory.py`.
4. The host platform's cgroup and topology fallbacks.
