--------------------------- MODULE ExecutorProofs ---------------------------
(***************************************************************************)
(* The executor, for every graph, machine, cost and schedule.  First the   *)
(* books of its loop and that it implements JobLifecycle; then what it     *)
(* holds: the ledger charges exactly that, a result is kept until its last *)
(* reader and no longer, a failure takes its lineage and nothing else, and *)
(* nothing outlives the run.  Then cores, the spill budget, device memory  *)
(* and its readers, types, and what is left for the report.                *)
(***************************************************************************)
EXTENDS ExecutorProps, PlacementProofs

(* The jobs are finitely many: JobOrder lists them.                        *)
LEMMA JobsAreFinite == IsFiniteSet(Jobs)
<1> DEFINE at == [i \in 1..Len(JobOrder) |-> JobOrder[i]]
<1>1. JobOrder \in Seq(Jobs) /\ {JobOrder[i] : i \in DOMAIN JobOrder} = Jobs
  BY JobOrderAssumption
<1>2. Len(JobOrder) \in Nat /\ DOMAIN JobOrder = 1..Len(JobOrder)
  BY <1>1
<1>3. at \in Surjection(1..Len(JobOrder), Jobs)
  BY <1>1, <1>2 DEF Surjection
<1>4. IsFiniteSet(1..Len(JobOrder))
  BY <1>2, FS_Interval
<1> QED BY <1>3, <1>4, FS_Surjection

(* The books of the loop: a job is in at most one of them, and the loop    *)
(* has an outcome exactly when it is over.  A report is only given when the*)
(* books cover the graph, which AllAccounted tells from their sizes.       *)
Books ==
  /\ completed \subseteq Jobs /\ cancelled \subseteq Jobs /\ RunningJobs \subseteq Jobs
  /\ completed \cap cancelled = {}
  /\ RunningJobs \cap (completed \cup cancelled) = {}
Outcomes ==
  /\ outcome = "none" <=> phase \notin {"closing", "done"}
  /\ outcome = "report" => completed \cup cancelled = Jobs
IInv == Books /\ Outcomes

LEMMA AccountedIsCovered ==
  ASSUME Books, AllAccounted
  PROVE  completed \cup cancelled = Jobs
<1> DEFINE both == completed \cup cancelled
<1>1. IsFiniteSet(completed) /\ IsFiniteSet(cancelled)
  BY JobsAreFinite, FS_Subset DEF Books
<1>2. completed \cap cancelled = {} /\ both \subseteq Jobs
  BY DEF Books
<1>3. Cardinality(completed \cap cancelled) = 0
  BY <1>2, FS_EmptySet
<1>4. Cardinality(both) = Cardinality(completed) + Cardinality(cancelled) - 0
  BY <1>1, <1>3, FS_Union
<1>5. /\ Cardinality(completed) \in Nat /\ Cardinality(cancelled) \in Nat
      /\ Cardinality(both) \in Nat /\ Cardinality(Jobs) \in Nat
  <2>1. IsFiniteSet(both)
    BY <1>2, JobsAreFinite, FS_Subset
  <2> QED BY <1>1, <2>1, JobsAreFinite, FS_CardinalityType
<1>6. Cardinality(both) <= Cardinality(Jobs)
  BY <1>2, JobsAreFinite, FS_Subset
<1>7. Cardinality(both) = Cardinality(Jobs)
  BY <1>4, <1>5, <1>6 DEF AllAccounted
<1> QED BY <1>2, <1>7, JobsAreFinite, FS_Subset

-----------------------------------------------------------------------------
(* What each kind of step does to the books.                               *)
BooksKept == UNCHANGED <<completed, cancelled, RunningJobs>>
BooksComplete(j) ==
  /\ j \in RunningJobs /\ RunningJobs' = RunningJobs \ {j}
  /\ completed' = completed \cup {j} /\ cancelled' = cancelled
BooksFail(C) ==
  /\ RunningJobs' = RunningJobs \ C
  /\ completed' = completed \ C /\ cancelled' = cancelled \cup C
BooksStart(j) ==
  /\ j \in Ready(completed) \ (RunningJobs \cup cancelled)
  /\ RunningJobs' = RunningJobs \cup {j} /\ UNCHANGED <<completed, cancelled>>
BooksStop ==
  RunningJobs' \subseteq RunningJobs /\ UNCHANGED <<completed, cancelled>>

LEMMA ReapedBooks ==
  ASSUME NEW j, IsRunning(j), Reaped(j)
  PROVE  j \in RunningJobs /\ RunningJobs' = RunningJobs \ {j}
BY DEF IsRunning, Reaped, RunningJobs, Restricted

LEMMA PoisonBooks ==
  ASSUME Books, NEW k \in RunningJobs, Poison(Component(k))
  PROVE  BooksFail(Component(k))
BY DEF Books, Poison, BooksFail, RunningJobs, Restricted

LEMMA LaunchBooks ==
  ASSUME NEW j, Eligible(j), NEW p, LaunchJob(j, p), UNCHANGED <<completed, cancelled>>
  PROVE  BooksStart(j)
<1>1. j \in Ready(completed) \ (RunningJobs \cup cancelled)
  BY DEF Eligible, IsRunning, RunningJobs
<1>2. RunningJobs' = RunningJobs \cup {j}
  <2>1. CASE RunsWarm(j, p)
    BY <2>1 DEF LaunchJob, Dispatch, RunningJobs
  <2>2. CASE ~RunsWarm(j, p)
    BY <2>2 DEF LaunchJob, Dispatch, RunningJobs
  <2> QED BY <2>1, <2>2
<1> QED BY <1>1, <1>2 DEF BooksStart

(* Every step is one of these, together with what it does to the outcome.  *)
Running == outcome = "none" /\ phase \notin {"closing", "done"}
StaysRunning == Running /\ outcome' = outcome /\ phase' \notin {"closing", "done"}
Raises == Running /\ phase' = "closing" /\ outcome' \notin {"none", "report"}
IsOver == phase \in {"closing", "done"} /\ phase' = "done" /\ outcome' = outcome
Effect ==
  \/ BooksKept /\ UNCHANGED <<outcome, phase>>
  \/ BooksKept /\ StaysRunning
  \/ \E j \in Jobs : BooksStart(j) /\ StaysRunning
  \/ \E j \in Jobs : BooksComplete(j) /\ StaysRunning
  \/ \E j \in RunningJobs : BooksFail(Component(j)) /\ StaysRunning
  \/ AllAccounted /\ BooksKept /\ Running /\ phase' = "closing" /\ outcome' = "report"
  \/ BooksKept /\ Raises
  \/ \E j \in Jobs : BooksComplete(j) /\ Raises
  \/ BooksStop /\ IsOver

LEMMA StepHasEffect ==
  ASSUME IInv, [Next]_vars
  PROVE  Effect
<1> USE DEF Running, StaysRunning, Raises, IsOver
<1>1. ASSUME Finish \/ Drain \/ ReapStale \/ ReapEmpty \/ AdmitRaises \/ EndAdmit \/ Spill \/ Stall
      PROVE  Effect
  <2>1. UNCHANGED jobVars
    BY <1>1 DEF Finish, Drain, ReapStale, ReapEmpty, AdmitRaises, EndAdmit, Spill, Stall
  <2>2. BooksKept
    BY <2>1 DEF BooksKept, RunningJobs, jobVars
  <2>3. outcome = "none" <=> phase \notin {"closing", "done"}
    BY DEF IInv, Outcomes
  <2>4. CASE Finish
    BY <2>2, <2>3, <2>4 DEF Finish, Effect
  <2>5. CASE Drain
    BY <2>2, <2>3, <2>5 DEF Drain, Effect
  <2>6. CASE ReapStale
    BY <2>2, <2>3, <2>6 DEF ReapStale, Reaping, MarkProgress, Effect
  <2>7. CASE ReapEmpty
    BY <2>2, <2>3, <2>7 DEF ReapEmpty, Effect
  <2>8. CASE AdmitRaises
    BY <2>2, <2>3, <2>8 DEF AdmitRaises, Raise, Effect
  <2>9. CASE EndAdmit
    BY <2>2, <2>3, <2>9 DEF EndAdmit, Effect
  <2>10. CASE Spill
    BY <2>2, <2>3, <2>10 DEF Spill, Effect
  <2>11. CASE Stall
    BY <2>2, <2>3, <2>11 DEF Stall, Raise, Effect
  <2> QED BY <1>1, <2>4, <2>5, <2>6, <2>7, <2>8, <2>9, <2>10, <2>11
<1>2. CASE ReapOk
  <2> DEFINE j == Received.key
  <2>1. IsRunning(j) /\ Reaped(j) /\ completed' = completed \cup {j} /\ cancelled' = cancelled
    BY <1>2 DEF ReapOk
  <2>2. BooksComplete(j) /\ j \in Jobs
    BY <2>1, ReapedBooks DEF BooksComplete, IInv, Books
  <2>3. StaysRunning
    BY <1>2 DEF ReapOk, Reaping, MarkProgress, IInv, Outcomes
  <2> QED BY <2>2, <2>3 DEF Effect
<1>3. CASE ReapWrongShards
  <2> DEFINE j == Received.key
  <2>1. IsRunning(j) /\ Reaped(j) /\ completed' = completed \cup {j} /\ cancelled' = cancelled
    BY <1>3 DEF ReapWrongShards
  <2>2. BooksComplete(j) /\ j \in Jobs
    BY <2>1, ReapedBooks DEF BooksComplete, IInv, Books
  <2>3. Raises
    BY <1>3 DEF ReapWrongShards, Reaping, Raise, IInv, Outcomes
  <2> QED BY <2>2, <2>3 DEF Effect
<1>4. CASE ReapError
  <2>1. Received.key \in RunningJobs
    BY <1>4 DEF ReapError, IsRunning, RunningJobs
  <2>2. BooksFail(Component(Received.key))
    BY <1>4, <2>1, PoisonBooks DEF ReapError, IInv
  <2>3. StaysRunning
    BY <1>4 DEF ReapError, Reaping, MarkProgress, IInv, Outcomes
  <2> QED BY <2>1, <2>2, <2>3 DEF Effect
<1>5. CASE Launch
  <2>1. PICK i \in Acting : \E p : LaunchJob(JobOrder[i], p)
    BY <1>5 DEF Launch
  <2> DEFINE j == JobOrder[i]
  <2>2. Eligible(j)
    BY DEF Acting, ActsNow
  <2>3. BooksStart(j) /\ j \in Jobs
    BY <1>5, <2>1, <2>2, LaunchBooks DEF Launch, Eligible, Ready
  <2>4. StaysRunning
    BY <1>5 DEF Launch, IInv, Outcomes
  <2> QED BY <2>3, <2>4 DEF Effect
<1>6. CASE Close
  <2>1. BooksStop
    BY <1>6 DEF Close, BooksStop, RunningJobs
  <2> QED BY <1>6, <2>1 DEF Close, Effect
<1>7. CASE Workers \/ UNCHANGED vars
  <2>1. UNCHANGED loopVars /\ UNCHANGED jobVars
    BY <1>7 DEF Workers, FreshPosts, FreshDies, Sample, WarmFrees, WarmRuns, WarmTakes, vars
  <2> QED BY <2>1 DEF Effect, BooksKept, RunningJobs, loopVars, jobVars
<1> QED BY <1>1, <1>2, <1>3, <1>4, <1>5, <1>6, <1>7 DEF Next, Loop

LEMMA ComponentsAreJobs ==
  ASSUME NEW k \in Jobs
  PROVE  Component(k) \subseteq Jobs
BY DEF Component, Lineage

(* The inductive invariant of the books: a job is in one of them at most.  *)
THEOREM BooksInvariant == Spec => []IInv
<1>1. Init => IInv
  <2>1. Abandoned \subseteq Jobs
    BY ComponentsAreJobs DEF Abandoned, Infeasible
  <2> QED BY <2>1 DEF Init, IInv, Books, Outcomes, RunningJobs
<1>2. IInv /\ [Next]_vars => IInv'
  <2> SUFFICES ASSUME IInv, [Next]_vars
               PROVE  IInv'
    OBVIOUS
  <2>1. Effect
    BY StepHasEffect
  <2>2. Books'
    BY <2>1, ComponentsAreJobs DEF IInv, Books, Effect, BooksKept, BooksStart, BooksComplete,
         BooksFail, BooksStop, Ready
  <2>3. Outcomes'
    <3>1. AllAccounted => completed \cup cancelled = Jobs
      BY AccountedIsCovered DEF IInv
    <3> QED BY <2>1, <3>1 DEF IInv, Outcomes, Effect, BooksKept, BooksStop, Running, StaysRunning,
              Raises, IsOver
  <2> QED BY <2>2, <2>3 DEF IInv
<1> QED BY <1>1, <1>2, PTL DEF Spec

-----------------------------------------------------------------------------
(* The refinement.  Within the books the status of a job tells its book.   *)
StatusOf == [j \in Jobs |-> Status(j)]

LEMMA StatusTellsBook ==
  ASSUME Books, NEW j \in Jobs
  PROVE  /\ StatusOf[j] = "cancelled" <=> j \in cancelled
         /\ StatusOf[j] = "completed" <=> j \in completed
         /\ StatusOf[j] = "running" <=> j \in RunningJobs
         /\ StatusOf[j] = "waiting" <=> j \notin cancelled \cup completed \cup RunningJobs
BY DEF Books, StatusOf, Status

LEMMA StatusNext ==
  ASSUME Books', NEW j \in Jobs
  PROVE  /\ j \in cancelled' => StatusOf'[j] = "cancelled"
         /\ j \in completed' => StatusOf'[j] = "completed"
         /\ j \in RunningJobs' => StatusOf'[j] = "running"
         /\ j \notin (cancelled \cup completed \cup RunningJobs)' => StatusOf'[j] = "waiting"
BY DEF Books, StatusOf, Status

LEMMA SameBooksSameStatus ==
  ASSUME BooksKept
  PROVE  StatusOf' = StatusOf
BY DEF BooksKept, StatusOf, Status

(* The refinement of JobLifecycle, first half: every job starts pending.   *)
THEOREM ImplementsLifecycleInit == Init => Lifecycle!Init
BY DEF Init, Lifecycle!Init, Status, Over, RunningJobs

LEMMA StartRefines ==
  ASSUME Books, Books', NEW j \in Jobs, BooksStart(j), outcome = "none", outcome' = "none"
  PROVE  Lifecycle!Next
<1>1. StatusOf[j] = "waiting" /\ Producers(j) \subseteq {k \in Jobs : StatusOf[k] = "completed"}
  BY StatusTellsBook DEF BooksStart, Ready, Books
<1>2. StatusOf' = [StatusOf EXCEPT ![j] = "running"]
  <2>1. ASSUME NEW k \in Jobs
        PROVE  StatusOf'[k] = IF k = j THEN "running" ELSE StatusOf[k]
    BY <2>1, StatusTellsBook, StatusNext DEF BooksStart, StatusOf, Status
  <2> QED BY <2>1 DEF StatusOf
<1>3. Lifecycle!Start(j)
  BY <1>1, <1>2 DEF Lifecycle!Start, Lifecycle!With, Lifecycle!Producers, Producers, StatusOf, Over
<1> QED BY <1>3 DEF Lifecycle!Next, Over

LEMMA CompleteChangesStatus ==
  ASSUME Books, Books', NEW j \in Jobs, BooksComplete(j)
  PROVE  StatusOf[j] = "running" /\ StatusOf' = [StatusOf EXCEPT ![j] = "completed"]
<1>1. StatusOf[j] = "running"
  BY StatusTellsBook DEF BooksComplete
<1>2. ASSUME NEW k \in Jobs
      PROVE  StatusOf'[k] = IF k = j THEN "completed" ELSE StatusOf[k]
  BY <1>2, StatusTellsBook, StatusNext DEF BooksComplete, StatusOf, Status
<1> QED BY <1>1, <1>2 DEF StatusOf

LEMMA CompleteRefines ==
  ASSUME Books, Books', NEW j \in Jobs, BooksComplete(j), outcome = "none",
         outcome' # "report"
  PROVE  Lifecycle!Next
<1>1. StatusOf[j] = "running" /\ StatusOf' = [StatusOf EXCEPT ![j] = "completed"]
  BY CompleteChangesStatus
<1>2. CASE outcome' = "none"
  <2>1. Lifecycle!Complete(j)
    BY <1>1, <1>2 DEF Lifecycle!Complete, StatusOf, Over
  <2> QED BY <2>1 DEF Lifecycle!Next, Over
<1>3. CASE outcome' # "none"
  <2>1. Lifecycle!Abort
    BY <1>1, <1>3 DEF Lifecycle!Abort, Lifecycle!With, StatusOf, Over
  <2> QED BY <2>1 DEF Lifecycle!Next, Over
<1> QED BY <1>2, <1>3

LEMMA FailRefines ==
  ASSUME Books, Books', NEW f \in RunningJobs, BooksFail(Component(f)), outcome = "none",
         outcome' = "none"
  PROVE  Lifecycle!Next
<1>1. f \in Jobs /\ StatusOf[f] = "running"
  BY StatusTellsBook DEF Books
<1>2. ASSUME NEW k \in Jobs
      PROVE  StatusOf'[k] = IF k \in Component(f) THEN "cancelled" ELSE StatusOf[k]
  BY <1>2, StatusTellsBook, StatusNext DEF BooksFail, StatusOf, Status
<1>3. Lifecycle!Component(f) = Component(f)
  BY DEF Lifecycle!Component, Lifecycle!Lineage, Lifecycle!Closed, Lifecycle!Producers,
     Component, Lineage, Closed, Producers
<1>4. Lifecycle!Fail(f)
  BY <1>1, <1>2, <1>3 DEF Lifecycle!Fail, StatusOf, Over
<1> QED BY <1>1, <1>4 DEF Lifecycle!Next, Over

LEMMA StopRefines ==
  ASSUME IInv, IInv', BooksStop, IsOver
  PROVE  Lifecycle!Next \/ UNCHANGED Lifecycle!vars
<1> DEFINE S == RunningJobs \ RunningJobs'
<1>1. outcome # "none" /\ Over' = Over
  BY DEF IInv, Outcomes, IsOver, Over
<1>2. ASSUME NEW k \in Jobs
      PROVE  StatusOf'[k] = IF k \in S THEN "waiting" ELSE StatusOf[k]
  BY <1>2, StatusTellsBook, StatusNext DEF BooksStop, StatusOf, Status, IInv, Books
<1>3. CASE outcome = "report"
  <2>1. RunningJobs = {}
    BY <1>3 DEF IInv, Outcomes, Books
  <2>2. StatusOf' = StatusOf
    BY <1>2, <2>1 DEF StatusOf
  <2> QED BY <1>1, <2>2 DEF Lifecycle!vars, StatusOf
<1>4. CASE outcome # "report"
  <2>1. S \in SUBSET {k \in Jobs : StatusOf[k] = "running"}
    BY StatusTellsBook DEF IInv, Books
  <2>2. Lifecycle!Stop
    BY <1>1, <1>2, <1>4, <2>1 DEF Lifecycle!Stop, Lifecycle!With, StatusOf, Over
  <2> QED BY <2>2 DEF Lifecycle!Next
<1> QED BY <1>3, <1>4

(* Second half: a step of the executor is a step of the lifecycle of its   *)
(* jobs or leaves them where they are.                                     *)
THEOREM ImplementsLifecycleStep ==
  ASSUME IInv, IInv', [Next]_vars
  PROVE  Lifecycle!Next \/ UNCHANGED Lifecycle!vars
<1>1. Effect
  BY StepHasEffect
<1>2. Books /\ Books'
  BY DEF IInv
<1>3. CASE BooksKept /\ (UNCHANGED <<outcome, phase>> \/ StaysRunning)
  BY <1>3, SameBooksSameStatus DEF Lifecycle!vars, StatusOf, Over, StaysRunning
<1>4. CASE \E j \in Jobs : BooksStart(j) /\ StaysRunning
  BY <1>2, <1>4, StartRefines DEF StaysRunning, Running
<1>5. CASE \E j \in Jobs : BooksComplete(j) /\ (StaysRunning \/ Raises)
  BY <1>2, <1>5, CompleteRefines DEF StaysRunning, Raises, Running
<1>6. CASE \E j \in RunningJobs : BooksFail(Component(j)) /\ StaysRunning
  BY <1>2, <1>6, FailRefines DEF StaysRunning, Running
<1>7. CASE AllAccounted /\ BooksKept /\ Running /\ outcome' = "report"
  <2>1. completed \cup cancelled = Jobs
    BY <1>2, <1>7, AccountedIsCovered
  <2>2. StatusOf' = StatusOf
    BY <1>7, SameBooksSameStatus
  <2>3. {j \in Jobs : StatusOf[j] = "completed"} \cup {j \in Jobs : StatusOf[j] = "cancelled"} = Jobs
    BY <1>2, <2>1, StatusTellsBook
  <2>4. Lifecycle!Finish
    BY <1>7, <2>2, <2>3 DEF Lifecycle!Finish, Lifecycle!With, StatusOf, Over
  <2> QED BY <1>7, <2>4 DEF Lifecycle!Next, Running, Over
<1>8. CASE BooksKept /\ Raises
  <2>1. Lifecycle!Abort
    BY <1>8, SameBooksSameStatus DEF Lifecycle!Abort, StatusOf, Raises, Over
  <2> QED BY <1>8, <2>1 DEF Lifecycle!Next, Raises, Running, Over
<1>9. CASE BooksStop /\ IsOver
  BY <1>9, StopRefines
<1> QED BY <1>1, <1>3, <1>4, <1>5, <1>6, <1>7, <1>8, <1>9 DEF Effect

(* A job starts only after its producers completed, a failure abandons     *)
(* exactly its lineage, and a report is given only when every job is       *)
(* completed or abandoned: the executor does nothing JobLifecycle forbids. *)
THEOREM ExecutorImplementsLifecycle == Spec => ImplementsLifecycle
<1>1. IInv /\ IInv' /\ [Next]_vars => [Lifecycle!Next]_Lifecycle!vars
  BY ImplementsLifecycleStep
<1> QED BY <1>1, BooksInvariant, ImplementsLifecycleInit, PTL DEF Spec, Lifecycle!Spec, ImplementsLifecycle


-----------------------------------------------------------------------------
(* The inductive invariant, in parts.                                      *)

Readers(o) == {c \in Jobs : o \in Deps[c]}

(* Table entries have the shape of one, and only a shared result has a     *)
(* segment.                                                                *)
IsEntry(e) ==
  e = [res |-> e.res, size |-> e.size, consumers |-> e.consumers, domains |-> e.domains,
       gpu |-> e.gpu, shareable |-> e.shareable]
Tables ==
  /\ inputs = [j \in Jobs |-> inputs[j]]
  /\ \A o \in DOMAIN outputs :
       IsEntry(outputs[o]) /\ (outputs[o].res # "shared" => outputs[o].domains = {})

(* Only completed jobs have results, each its own; a job is dispatched     *)
(* after all its producers completed.                                      *)
Stored == \A o \in DOMAIN outputs : o[1] \in completed /\ o \in OutsOf(o[1])
Ordered == \A c \in Dispatched : Producers(c) \subseteq completed

Charged == DOMAIN ledger = Holders
Segmented == segments = IF phase = "done" THEN {} ELSE SegmentsOf(outputs, DOMAIN outputs)

(* A job is launched once, and has a process, a message or an item in a    *)
(* queue only after that; a process that posted is no longer computing.    *)
Message == [key : Jobs, status : {"ok", "handle", "error", "wrong_shards"}]
Item == [tag : {"free"}, keys : SUBSET Outs] \cup [tag : {"job"}, key : Jobs, keep : BOOLEAN]
Launched == RunningJobs \cup completed \cup cancelled
PostedIn(r) == {k \in Jobs : \E i \in DOMAIN r : r[i].key = k}
QueuedIn(q) == {k \in Jobs : \E g \in GpuIds : \E i \in DOMAIN q[g] : q[g][i].tag = "job" /\ q[g][i].key = k}
Under == PostedIn(results) \cup QueuedIn(warmQueue)
Processes ==
  /\ running \cap DOMAIN warmRunning = {} /\ computing \subseteq running
  /\ results \in Seq(Message) /\ warmQueue \in [GpuIds -> Seq(Item)]
  /\ Under \cap computing = {}
  /\ phase # "done" => Under \subseteq Launched
  /\ phase = "done" => running = {} /\ warmUp = {}

(* The count of a held result, with what makes it survive the next step: a *)
(* shareable result in private memory has been handed to nobody, and only  *)
(* a result with readers is ever shared.                                   *)
CountRight(o) ==
  /\ outputs[o].consumers = Cardinality(ReadersLeft(o))
  /\ ReadersLeft(o) = {} => Readers(o) = {}
  /\ outputs[o].res = "shared" => Readers(o) # {}
  /\ outputs[o].res = "private" /\ outputs[o].shareable => Readers(o) \cap Dispatched = {}
Counted == phase \notin {"closing", "done"} => \A o \in DOMAIN outputs : CountRight(o)

(* What is cancelled is cancelled by whole lineages.                       *)
Isolated ==
  /\ Closed(cancelled) /\ failures \subseteq cancelled
  /\ \A f \in failures : \A j \in Component(f) : inputs[j] = "gone"
  /\ \A j, k \in failures : j # k => k \notin Component(j)

Accounted ==
  outcome = "report" => RunningJobs = {} /\ \A o \in DOMAIN outputs : outputs[o].res # "shared"

HInv ==
  /\ Tables /\ Stored /\ Ordered /\ Charged /\ Segmented
  /\ Processes /\ Counted /\ Isolated /\ Accounted

-----------------------------------------------------------------------------
(* The graph: a component is the least closed set around its key, and a    *)
(* result counts one reader per job that depends on it.                    *)

LEMMA ComponentIsLeastClosed ==
  ASSUME NEW k \in Jobs
  PROVE  /\ k \in Component(k) /\ Component(k) \subseteq Jobs /\ Closed(Component(k))
         /\ \A S \in SUBSET Jobs : k \in S /\ Closed(S) => Component(k) \subseteq S
<1>1. Component(k) = {j \in Jobs : \A S \in SUBSET Jobs : k \in S /\ Closed(S) => j \in S}
  BY DEF Component, Lineage
<1>2. ASSUME NEW j \in Jobs, NEW p \in Producers(j)
      PROVE  j \in Component(k) <=> p \in Component(k)
  <2>1. p \in Jobs
    BY <1>2, GraphAssumption DEF AllValid, ValidDependency, Producers
  <2>2. \A S \in SUBSET Jobs : Closed(S) => (j \in S <=> p \in S)
    BY <1>2 DEF Closed
  <2> QED BY <1>1, <2>1, <2>2
<1>3. Closed(Component(k))
  BY <1>2 DEF Closed
<1> QED BY <1>1, <1>3

LEMMA ClosedSets ==
  /\ \A S \in SUBSET Jobs : Closed(S) => Closed(Jobs \ S)
  /\ \A S, T \in SUBSET Jobs : Closed(S) /\ Closed(T) => Closed(S \cup T)
<1>1. \A j \in Jobs : Producers(j) \subseteq Jobs
  BY GraphAssumption DEF AllValid, ValidDependency, Producers
<1> QED BY <1>1 DEF Closed

LEMMA AbandonedIsClosed == Abandoned \subseteq Jobs /\ Closed(Abandoned)
<1>1. Infeasible \subseteq Jobs
  BY DEF Infeasible
<1>2. \A k \in Infeasible : Component(k) \subseteq Jobs /\ Closed(Component(k))
  BY <1>1, ComponentIsLeastClosed
<1>3. Abandoned \subseteq Jobs
  BY <1>2 DEF Abandoned
<1>4. ASSUME NEW j \in Jobs, NEW p \in Producers(j)
      PROVE  j \in Abandoned <=> p \in Abandoned
  BY <1>2, <1>4 DEF Abandoned, Closed
<1> QED BY <1>3, <1>4 DEF Closed

LEMMA ReadersAreFinite ==
  ASSUME NEW S
  PROVE  \A o : IsFiniteSet(Readers(o) \ S) /\ Cardinality(Readers(o) \ S) \in Nat
BY JobsAreFinite, FS_Subset, FS_CardinalityType DEF Readers

LEMMA FanoutCountsReaders ==
  ASSUME NEW j \in Jobs, NEW o \in OutsOf(j)
  PROVE  Fanout(o) = Cardinality(Readers(o)) /\ o[1] = j
<1>1. o = <<j, o[2]>> /\ o[1] = j
  BY DEF OutsOf
<1>2. \A c \in Jobs : o \in Deps[c] => c \in Dependents(j)
  BY <1>1 DEF Dependents, Producers
<1>3. CASE o[2] = Whole
  <2>1. Shards[j] = {}
    BY <1>1, <1>3, GraphAssumption DEF OutsOf
  <2>2. ASSUME NEW c \in Dependents(j)
        PROVE  o \in Deps[c] /\ c \in Jobs
    <3>1. PICK d \in Deps[c] : d[1] = j
      BY DEF Dependents, Producers
    <3>2. c \in Jobs
      BY DEF Dependents
    <3>3. d = <<d[1], d[2]>> /\ (d[2] # Whole => d[2] \in Shards[j])
      BY <3>1, <3>2, GraphAssumption DEF AllValid, ValidDependency
    <3> QED BY <1>1, <1>3, <2>1, <3>1, <3>2, <3>3
  <2>3. Dependents(j) = Readers(o)
    BY <1>2, <2>2 DEF Readers
  <2> QED BY <1>1, <1>3, <2>3 DEF Fanout
<1>4. CASE o[2] # Whole
  <2>1. {c \in Dependents(j) : o \in Deps[c]} = Readers(o)
    BY <1>2 DEF Readers, Dependents
  <2> QED BY <1>1, <1>4, <2>1 DEF Fanout
<1> QED BY <1>1, <1>3, <1>4

-----------------------------------------------------------------------------
(* Ledger keys.  The first component says what is charged, the second for  *)
(* whom, so keys of different kinds or of different results differ.        *)

LEMMA ReleasedKeys ==
  ASSUME NEW L, NEW K
  PROVE  DOMAIN Release(L, K) = DOMAIN L \ K
BY DEF Release

LEMMA ChargedKeys ==
  ASSUME NEW L, NEW A
  PROVE  DOMAIN Charge(L, A) = DOMAIN L \cup DOMAIN A
BY DEF Charge

LEMMA ChargeKeysShape ==
  ASSUME NEW T, NEW o, NEW k \in ChargeKeys(T, o)
  PROVE  k[1] \in {"output", "replica"} /\ k[2] = o
BY DEF ChargeKeys

(* Holders by kind.                                                        *)
JobKeys(R) == {<<"job", j>> : j \in R}
InputKeys(I) == {<<"input", j>> : j \in I}
ContextKeys(W) == {<<"context", g>> : g \in IF ContextCharged THEN W ELSE {}}
PrivateInputs == {j \in Jobs : inputs[j] = "private"}
KindsHeld(R, I, K, W) == JobKeys(R) \cup InputKeys(I) \cup K \cup ContextKeys(W)
TableKeys == ChargeKeysOf(outputs, DOMAIN outputs)

LEMMA HoldersByKind ==
  Holders = KindsHeld(RunningJobs, PrivateInputs, TableKeys, warmUp)
<1>1. DOMAIN ContextCharge(warmUp) = ContextKeys(warmUp)
  BY DEF ContextCharge, ContextKeys
<1> QED BY <1>1 DEF Holders, KindsHeld, JobKeys, InputKeys, TableKeys, PrivateInputs

LEMMA HoldersByKindNext ==
  Holders' = KindsHeld(RunningJobs', PrivateInputs', TableKeys', warmUp')
<1>1. DOMAIN ContextCharge(warmUp)' = ContextKeys(warmUp')
  BY DEF ContextCharge, ContextKeys
<1> QED BY <1>1 DEF Holders, KindsHeld, JobKeys, InputKeys, TableKeys, PrivateInputs

OfResults(K) == \A k \in K : k[1] \in {"output", "replica"}
LEMMA TableKeysKind == \A T, S : OfResults(ChargeKeysOf(T, S))
BY ChargeKeysShape DEF OfResults, ChargeKeysOf

-----------------------------------------------------------------------------
(* The table, the ledger and the segments, one lemma per action that       *)
(* touches them.                                                           *)
TableInv == Tables /\ Stored /\ Charged /\ Segmented

LEMMA StoredEntryShape ==
  ASSUME NEW m, NEW o
  PROVE  /\ IsEntry(StoredEntry(m, o)) /\ StoredEntry(m, o).domains = {}
         /\ StoredEntry(m, o).res \in {"private", "device"}
         /\ StoredEntry(m, o).consumers = Fanout(o)
BY DEF StoredEntry, DeviceEntry, HostEntry, IsEntry

LEMMA ReceivedIsLaunched ==
  ASSUME Books, Processes, IsRunning(Received.key)
  PROVE  Received.key \in Jobs /\ Received.key \in RunningJobs
BY DEF IsRunning, RunningJobs, Books

(* Table T became U: the entries gone are dropped or replaced, those in new*)
(* are new or replace one, the others lie where they lay.  The keys and the*)
(* segments follow.                                                        *)
EntriesChange(T, U, gone, new) ==
  /\ DOMAIN U = (DOMAIN T \ gone) \cup new
  /\ \A o \in DOMAIN T \ gone : U[o].res = T[o].res /\ U[o].domains = T[o].domains
KeysChange(T, U, gone, new) ==
  /\ ChargeKeysOf(U, DOMAIN U)
       = (ChargeKeysOf(T, DOMAIN T) \ ChargeKeysOf(T, gone)) \cup ChargeKeysOf(U, new)
  /\ SegmentsOf(U, DOMAIN U)
       = (SegmentsOf(T, DOMAIN T) \ SegmentsOf(T, gone)) \cup SegmentsOf(U, new)
LEMMA TableStep ==
  ASSUME NEW T, NEW U, NEW gone, NEW new, EntriesChange(T, U, gone, new)
  PROVE  KeysChange(T, U, gone, new)
<1>1. ASSUME NEW o, NEW p, o # p
      PROVE  ChargeKeys(T, o) \cap ChargeKeys(T, p) = {}
  BY <1>1, ChargeKeysShape
<1>2. \A o \in DOMAIN T \ gone : ChargeKeys(U, o) = ChargeKeys(T, o)
  BY DEF ChargeKeys, EntriesChange
<1>3. ChargeKeysOf(U, DOMAIN U)
        = (ChargeKeysOf(T, DOMAIN T) \ ChargeKeysOf(T, gone)) \cup ChargeKeysOf(U, new)
  BY <1>1, <1>2 DEF ChargeKeysOf, EntriesChange
<1>4. SegmentsOf(U, DOMAIN U)
        = (SegmentsOf(T, DOMAIN T) \ SegmentsOf(T, gone)) \cup SegmentsOf(U, new)
  BY DEF SegmentsOf, EntriesChange
<1> QED BY <1>3, <1>4 DEF KeysChange

LEMMA LedgerStep ==
  ASSUME Charged, NEW R1, NEW I1, NEW K1, NEW W1, NEW R2, NEW I2, NEW K2, NEW W2, OfResults(K1),
         DOMAIN ledger' = (DOMAIN ledger \ KindsHeld(R1, I1, K1, W1)) \cup KindsHeld(R2, I2, K2, W2),
         RunningJobs' = (RunningJobs \ R1) \cup R2,
         PrivateInputs' = (PrivateInputs \ I1) \cup I2,
         TableKeys' = (TableKeys \ K1) \cup K2,
         warmUp' = (warmUp \ W1) \cup W2
  PROVE  Charged'
<1>1. DOMAIN ledger = KindsHeld(RunningJobs, PrivateInputs, TableKeys, warmUp)
  BY HoldersByKind DEF Charged
<1>2. OfResults(TableKeys)
  BY TableKeysKind DEF TableKeys
<1>3. DOMAIN ledger' = KindsHeld(RunningJobs', PrivateInputs', TableKeys', warmUp')
  BY <1>1, <1>2 DEF KindsHeld, JobKeys, InputKeys, ContextKeys, OfResults
<1> QED BY <1>3, HoldersByKindNext DEF Charged

(* The entries after a completion: j's results beside what stays.          *)
LEMMA ReapOkTable ==
  ASSUME Books, Tables, Stored, Processes, ReapOk,
         NEW j, j = Received.key
  PROVE  /\ j \in RunningJobs /\ j \in Jobs /\ j \notin completed /\ completed' = completed \cup {j}
         /\ OutsOf(j) \cap DOMAIN outputs = {}
         /\ DOMAIN outputs' = (DOMAIN outputs \ LastRead(j)) \cup OutsOf(j)
         /\ \A o \in OutsOf(j) : outputs'[o] = StoredEntry(Received, o)
         /\ \A o \in DOMAIN outputs \ LastRead(j) :
              IF o \in ReadByReference(j)
                THEN outputs'[o] = [outputs[o] EXCEPT !.consumers = @ - 1]
                ELSE outputs'[o] = outputs[o]
<1>1. j \in RunningJobs /\ j \in Jobs /\ j \notin completed /\ completed' = completed \cup {j}
  BY ReceivedIsLaunched DEF ReapOk, Books
<1>2. OutsOf(j) \cap DOMAIN outputs = {}
  BY <1>1, FanoutCountsReaders DEF Stored
<1>3. outputs' = [o \in (DOMAIN outputs \ LastRead(j)) \cup OutsOf(j) |->
                    IF o \in OutsOf(j) THEN StoredEntry(Received, o)
                    ELSE IF o \in ReadByReference(j)
                      THEN [outputs[o] EXCEPT !.consumers = @ - 1] ELSE outputs[o]]
  BY DEF ReapOk
<1> HIDE DEF ReadByReference, LastRead
<1> QED BY <1>1, <1>2, <1>3

LEMMA EntryWithFewer ==
  ASSUME NEW e, IsEntry(e)
  PROVE  LET f == [e EXCEPT !.consumers = @ - 1]
         IN IsEntry(f) /\ f.res = e.res /\ f.domains = e.domains /\ f.shareable = e.shareable
              /\ f.gpu = e.gpu /\ f.consumers = e.consumers - 1 /\ f.size = e.size
BY DEF IsEntry

LEMMA ReapOkKeepsTable ==
  ASSUME Books, TableInv, Processes, ReapOk
  PROVE  TableInv'
<1> DEFINE j == Received.key
           last == LastRead(j)
           stays == DOMAIN outputs \ last
           fresh == {<<"output", o>> : o \in OutsOf(j)}
<1>1. /\ j \in RunningJobs /\ j \in Jobs /\ j \notin completed /\ completed' = completed \cup {j}
      /\ OutsOf(j) \cap DOMAIN outputs = {}
      /\ DOMAIN outputs' = stays \cup OutsOf(j)
      /\ \A o \in OutsOf(j) : outputs'[o] = StoredEntry(Received, o)
      /\ \A o \in stays :
              IF o \in ReadByReference(j)
                THEN outputs'[o] = [outputs[o] EXCEPT !.consumers = @ - 1]
                ELSE outputs'[o] = outputs[o]
  BY ReapOkTable DEF TableInv
<1>2. RunningJobs' = RunningJobs \ {j} /\ inputs' = inputs /\ warmUp' = warmUp
      /\ phase' = phase /\ phase # "done"
  BY ReapedBooks DEF ReapOk, MarkProgress, workerVars, Reaping
<1>3. /\ ledger' = Charge(Release(ledger, {<<"job", j>>} \cup ChargeKeysOf(outputs, last)),
                            [k \in fresh |-> StoredCharge(Received, k[2])])
      /\ segments' = segments \ SegmentsOf(outputs, last)
  BY DEF ReapOk
<1> HIDE DEF j, last, stays, fresh
<1>4. ASSUME NEW o \in stays
      PROVE  IsEntry(outputs'[o]) /\ outputs'[o].res = outputs[o].res
               /\ outputs'[o].domains = outputs[o].domains
  <2>1. IsEntry(outputs[o])
    BY <1>4 DEF stays, TableInv, Tables
  <2>2. CASE outputs'[o] = [outputs[o] EXCEPT !.consumers = @ - 1]
    BY <2>1, <2>2, EntryWithFewer
  <2>3. CASE outputs'[o] = outputs[o]
    BY <2>1, <2>3
  <2> QED BY <1>1, <1>4, <2>2, <2>3
<1>5. \A o \in OutsOf(j) : IsEntry(outputs'[o]) /\ outputs'[o].domains = {}
                         /\ outputs'[o].res \in {"private", "device"}
  BY <1>1, StoredEntryShape
<1>6. Tables'
  BY <1>1, <1>2, <1>4, <1>5 DEF TableInv, Tables, stays
<1>7. Stored'
  BY <1>1, FanoutCountsReaders DEF TableInv, Stored, stays
<1>8. ChargeKeysOf(outputs', OutsOf(j)) = fresh /\ SegmentsOf(outputs', OutsOf(j)) = {}
  <2>1. \A o \in OutsOf(j) : ChargeKeys(outputs', o) = {<<"output", o>>}
    BY <1>5 DEF ChargeKeys
  <2> QED BY <1>5, <2>1 DEF ChargeKeysOf, SegmentsOf, fresh
<1>9. /\ TableKeys' = (TableKeys \ ChargeKeysOf(outputs, last)) \cup fresh
      /\ SegmentsOf(outputs, DOMAIN outputs)' = SegmentsOf(outputs, DOMAIN outputs) \ SegmentsOf(outputs, last)
  <2>1. EntriesChange(outputs, outputs', last, OutsOf(j))
    BY <1>1, <1>4 DEF EntriesChange, stays
  <2>2. KeysChange(outputs, outputs', last, OutsOf(j))
    BY <2>1, TableStep
  <2> QED BY <1>8, <2>2 DEF KeysChange, TableKeys
<1>10. Charged'
  <2> DEFINE freed == {<<"job", j>>} \cup ChargeKeysOf(outputs, last)
             A == [k \in fresh |-> StoredCharge(Received, k[2])]
  <2>1. DOMAIN A = fresh /\ ledger' = Charge(Release(ledger, freed), A)
    BY <1>3
  <2>2. KindsHeld({j}, {}, ChargeKeysOf(outputs, last), {}) = freed
    BY DEF KindsHeld, JobKeys, InputKeys, ContextKeys
  <2>3. KindsHeld({}, {}, fresh, {}) = fresh
    BY DEF KindsHeld, JobKeys, InputKeys, ContextKeys
  <2> HIDE DEF freed, A
  <2>4. DOMAIN ledger' = (DOMAIN ledger \ freed) \cup fresh
    <3>1. DOMAIN Release(ledger, freed) = DOMAIN ledger \ freed
      BY ReleasedKeys
    <3>2. DOMAIN Charge(Release(ledger, freed), A) = DOMAIN Release(ledger, freed) \cup DOMAIN A
      BY ChargedKeys
    <3> QED BY <2>1, <3>1, <3>2
  <2>5. PrivateInputs' = PrivateInputs
    BY <1>2 DEF PrivateInputs
  <2>6. OfResults(ChargeKeysOf(outputs, last))
    BY TableKeysKind
  <2> QED BY <1>2, <1>9, <2>2, <2>3, <2>4, <2>5, <2>6, LedgerStep DEF TableInv
<1>11. Segmented'
  BY <1>2, <1>3, <1>9 DEF TableInv, Segmented
<1> QED BY <1>6, <1>7, <1>10, <1>11 DEF TableInv

LEMMA ReapWrongShardsKeepsTable ==
  ASSUME Books, TableInv, Processes, ReapWrongShards
  PROVE  TableInv'
<1> DEFINE j == Received.key
<1>1. /\ completed' = completed \cup {j} /\ RunningJobs' = RunningJobs \ {j}
      /\ ledger' = Release(ledger, {<<"job", j>>})
      /\ UNCHANGED <<inputs, outputs, segments, warmUp>>
      /\ phase # "done" /\ phase' # "done"
  BY ReapedBooks DEF ReapWrongShards, workerVars, Reaping, Raise
<1> HIDE DEF j
<1>2. Tables' /\ Stored' /\ Segmented'
  BY <1>1 DEF TableInv, Tables, Stored, Segmented
<1>3. Charged'
  <2>1. KindsHeld({j}, {}, {}, {}) = {<<"job", j>>} /\ KindsHeld({}, {}, {}, {}) = {}
    BY DEF KindsHeld, JobKeys, InputKeys, ContextKeys
  <2>2. DOMAIN ledger' = (DOMAIN ledger \ {<<"job", j>>}) \cup {}
    BY <1>1, ReleasedKeys
  <2>3. PrivateInputs' = (PrivateInputs \ {}) \cup {} /\ TableKeys' = (TableKeys \ {}) \cup {}
    BY <1>1 DEF PrivateInputs, TableKeys
  <2>4. RunningJobs' = (RunningJobs \ {j}) \cup {} /\ warmUp' = (warmUp \ {}) \cup {}
    BY <1>1
  <2>5. OfResults({}) /\ Charged
    BY DEF OfResults, TableInv
  <2> QED BY <2>1, <2>2, <2>3, <2>4, <2>5, LedgerStep
<1> QED BY <1>2, <1>3 DEF TableInv

LEMMA PoisonKeepsTable ==
  ASSUME Books, TableInv, NEW k \in RunningJobs, Poison(Component(k)),
         phase # "done", phase' = phase, warmUp' = warmUp
  PROVE  TableInv'
<1> DEFINE C == Component(k)
           held == HeldBy(C)
           lost == {j \in C : inputs[j] = "private"}
<1>1. C \subseteq Jobs
  BY ComponentIsLeastClosed DEF Books
<1>2. /\ RunningJobs' = RunningJobs \ C /\ completed' = completed \ C
      /\ inputs' = [j \in Jobs |-> IF j \in C THEN "gone" ELSE inputs[j]]
      /\ outputs' = Restricted(outputs, DOMAIN outputs \ held)
      /\ ledger' = Release(ledger, PoisonReleases(C))
      /\ segments' = segments \ SegmentsOf(outputs, held)
  BY PoisonBooks DEF BooksFail, Poison
<1>3. \A o \in DOMAIN outputs : o \in held <=> o[1] \in C
  BY DEF HeldBy
<1> HIDE DEF C, held
<1>4. DOMAIN outputs' = DOMAIN outputs \ held /\ \A o \in DOMAIN outputs' : outputs'[o] = outputs[o]
  BY <1>2 DEF Restricted
<1>5. Tables' /\ Stored'
  BY <1>2, <1>3, <1>4 DEF TableInv, Tables, Stored
<1>6. EntriesChange(outputs, outputs', held, {})
  BY <1>4 DEF EntriesChange
<1>7. KeysChange(outputs, outputs', held, {})
  BY <1>6, TableStep
<1>8. ChargeKeysOf(outputs', {}) = {} /\ SegmentsOf(outputs', {}) = {}
  BY DEF ChargeKeysOf, SegmentsOf
<1>9. Charged'
  <2>1. KindsHeld(C \cap RunningJobs, lost, ChargeKeysOf(outputs, held), {}) = PoisonReleases(C)
        /\ KindsHeld({}, {}, {}, {}) = {}
    BY DEF KindsHeld, JobKeys, InputKeys, ContextKeys, PoisonReleases, held
  <2>2. DOMAIN ledger' = (DOMAIN ledger \ PoisonReleases(C)) \cup {}
    BY <1>2, ReleasedKeys
  <2>3. PrivateInputs' = (PrivateInputs \ lost) \cup {}
    BY <1>1, <1>2 DEF PrivateInputs
  <2>4. TableKeys' = (TableKeys \ ChargeKeysOf(outputs, held)) \cup {}
    BY <1>7, <1>8 DEF KeysChange, TableKeys
  <2>5. RunningJobs' = (RunningJobs \ (C \cap RunningJobs)) \cup {} /\ warmUp' = (warmUp \ {}) \cup {}
    BY <1>2
  <2>6. OfResults(ChargeKeysOf(outputs, held))
    BY TableKeysKind
  <2> HIDE DEF lost
  <2> QED BY <2>1, <2>2, <2>3, <2>4, <2>5, <2>6, LedgerStep DEF TableInv
<1>10. Segmented'
  BY <1>2, <1>7, <1>8 DEF KeysChange, TableInv, Segmented
<1> QED BY <1>5, <1>9, <1>10 DEF TableInv

LEMMA SpillKeepsTable ==
  ASSUME Books, TableInv, Spill
  PROVE  TableInv'
<1>1. PICK b \in PrivateBlobs :
        /\ ledger' = Release(ledger, {b})
        /\ IF b[1] = "input"
             THEN inputs' = [inputs EXCEPT ![b[2]] = "disk"] /\ UNCHANGED outputs
             ELSE outputs' = [outputs EXCEPT ![b[2]].res = "disk"] /\ UNCHANGED inputs
  BY DEF Spill, Spillable
<1>2. UNCHANGED <<running, warmRunning, completed, segments, warmUp>> /\ phase # "done" /\ phase' # "done"
  BY DEF Spill, jobVars, workerVars
<1>3. RunningJobs' = RunningJobs
  BY <1>2 DEF RunningJobs
<1>4. DOMAIN ledger' = DOMAIN ledger \ {b}
  BY <1>1, ReleasedKeys
<1>5. KindsHeld({}, {}, {}, {}) = {}
  BY DEF KindsHeld, JobKeys, InputKeys, ContextKeys
<1>6. CASE b[1] = "input"
  <2>1. PICK j \in Jobs : b = <<"input", j>> /\ inputs[j] = "private"
    BY <1>6 DEF PrivateBlobs
  <2>2. inputs' = [inputs EXCEPT ![j] = "disk"] /\ outputs' = outputs
    BY <1>1, <1>6, <2>1
  <2>3. PrivateInputs' = PrivateInputs \ {j} /\ TableKeys' = TableKeys
    BY <2>1, <2>2 DEF PrivateInputs, TableKeys, TableInv, Tables
  <2>4. KindsHeld({}, {j}, {}, {}) = {b}
    BY <2>1 DEF KindsHeld, JobKeys, InputKeys, ContextKeys
  <2>5. Charged'
    BY <1>2, <1>3, <1>4, <1>5, <2>3, <2>4, LedgerStep DEF TableInv, OfResults
  <2> QED BY <1>2, <2>2, <2>5 DEF TableInv, Tables, Stored, Segmented
<1>7. CASE b[1] # "input"
  <2>1. PICK o \in DOMAIN outputs : b = <<"output", o>> /\ outputs[o].res = "private"
    BY <1>7 DEF PrivateBlobs
  <2>2. outputs' = [outputs EXCEPT ![o].res = "disk"] /\ inputs' = inputs
    BY <1>1, <1>7, <2>1
  <2>3. /\ DOMAIN outputs' = DOMAIN outputs /\ outputs'[o] = [outputs[o] EXCEPT !.res = "disk"]
        /\ \A x \in DOMAIN outputs \ {o} : outputs'[x] = outputs[x]
    BY <2>2
  <2>4. IsEntry(outputs'[o]) /\ outputs'[o].domains = {} /\ outputs'[o].res = "disk"
    BY <2>1, <2>3 DEF TableInv, Tables, IsEntry
  <2>5. EntriesChange(outputs, outputs', {o}, {o})
    BY <2>3 DEF EntriesChange
  <2>6. KeysChange(outputs, outputs', {o}, {o})
    BY <2>5, TableStep
  <2>7. ChargeKeysOf(outputs, {o}) = {b} /\ SegmentsOf(outputs, {o}) = {}
    BY <2>1 DEF ChargeKeysOf, ChargeKeys, SegmentsOf, TableInv, Tables
  <2>8. ChargeKeysOf(outputs', {o}) = {} /\ SegmentsOf(outputs', {o}) = {}
    BY <2>4 DEF ChargeKeysOf, ChargeKeys, SegmentsOf
  <2>9. PrivateInputs' = PrivateInputs /\ TableKeys' = TableKeys \ {b}
    BY <2>2, <2>6, <2>7, <2>8 DEF PrivateInputs, TableKeys, KeysChange
  <2>10. KindsHeld({}, {}, {b}, {}) = {b} /\ OfResults({b})
    BY <2>1 DEF KindsHeld, JobKeys, InputKeys, ContextKeys, OfResults
  <2>11. Charged'
    BY <1>2, <1>3, <1>4, <1>5, <2>9, <2>10, LedgerStep DEF TableInv
  <2>12. Tables' /\ Stored'
    BY <1>2, <2>2, <2>3, <2>4 DEF TableInv, Tables, Stored
  <2>13. Segmented'
    BY <1>2, <2>6, <2>7, <2>8 DEF TableInv, Segmented, KeysChange
  <2> QED BY <2>11, <2>12, <2>13 DEF TableInv
<1> QED BY <1>6, <1>7

LEMMA CloseKeepsTable ==
  ASSUME Books, TableInv, Processes, Close
  PROVE  TableInv'
<1>1. /\ phase' = "done" /\ phase # "done" /\ running' = {} /\ warmRunning' = warmRunning /\ warmUp' = {}
      /\ UNCHANGED <<completed, inputs, outputs>>
      /\ segments' = segments \ SegmentsOf(outputs, DOMAIN outputs)
      /\ ledger' = Release(ledger, {<<"job", j>> : j \in running} \cup DOMAIN ContextCharge(warmUp))
  BY DEF Close, Stopped
<1>2. Tables' /\ Stored' /\ Segmented'
  BY <1>1 DEF TableInv, Tables, Stored, Segmented
<1>3. Charged'
  <2> DEFINE freed == {<<"job", j>> : j \in running} \cup DOMAIN ContextCharge(warmUp)
  <2>1. KindsHeld(running, {}, {}, warmUp) = freed /\ KindsHeld({}, {}, {}, {}) = {}
    BY DEF KindsHeld, JobKeys, InputKeys, ContextKeys, ContextCharge
  <2> HIDE DEF freed
  <2>2. DOMAIN ledger' = (DOMAIN ledger \ freed) \cup {}
    BY <1>1, ReleasedKeys DEF freed
  <2>3. PrivateInputs' = (PrivateInputs \ {}) \cup {} /\ TableKeys' = (TableKeys \ {}) \cup {}
    BY <1>1 DEF PrivateInputs, TableKeys
  <2>4. RunningJobs' = (RunningJobs \ running) \cup {} /\ warmUp' = (warmUp \ warmUp) \cup {}
    BY <1>1 DEF RunningJobs, Processes
  <2>5. OfResults({}) /\ Charged
    BY DEF OfResults, TableInv
  <2> QED BY <2>1, <2>2, <2>3, <2>4, <2>5, LedgerStep
<1> QED BY <1>2, <1>3 DEF TableInv

(* What a launch does to the results handed over: those passed by reference*)
(* are Loaded, copied ones lose a reader or go with their last one.        *)
ByRef(j) == Deps[j] \ Copied(j)

LEMMA LaunchTable ==
  ASSUME Tables, NEW j, NEW p, Deps[j] \subseteq DOMAIN outputs, LaunchJob(j, p)
  PROVE  /\ DOMAIN outputs' = DOMAIN outputs \ LastCopied(j)
         /\ LastCopied(j) \subseteq Copied(j) /\ Copied(j) \subseteq Deps[j]
         /\ \A o \in Copied(j) \ LastCopied(j) : outputs'[o] = [outputs[o] EXCEPT !.consumers = @ - 1]
         /\ \A o \in ByRef(j) : outputs'[o] = Loaded(j, o, Domain(p))
         /\ \A o \in DOMAIN outputs \ Deps[j] : outputs'[o] = outputs[o]
<1>1. LastCopied(j) \subseteq Copied(j) /\ Copied(j) \subseteq Deps[j]
  BY DEF LastCopied, Copied
<1>2. outputs' = [o \in DOMAIN outputs \ LastCopied(j) |->
                   IF o \in Copied(j) THEN [outputs[o] EXCEPT !.consumers = @ - 1]
                   ELSE IF o \in Deps[j] THEN Loaded(j, o, Domain(p)) ELSE outputs[o]]
  BY DEF LaunchJob
<1> QED BY <1>1, <1>2 DEF ByRef

LEMMA LoadedShape ==
  ASSUME Tables, NEW j, NEW d, NEW o \in ByRef(j), o \in DOMAIN outputs
  PROVE  LET e == Loaded(j, o, d)
         IN /\ IsEntry(e) /\ e.consumers = outputs[o].consumers /\ e.gpu = outputs[o].gpu
            /\ \/ o \in ToShare(j) /\ e.res = "shared" /\ e.domains = {d}
               \/ /\ o \notin ToShare(j) /\ outputs[o].res = "shared" /\ e.res = "shared"
                  /\ d # NoIndex /\ e.domains = outputs[o].domains \cup {d}
               \/ /\ o \notin ToShare(j) /\ outputs[o].res = "shared" /\ d = NoIndex /\ e = outputs[o]
               \/ o \notin ToShare(j) /\ outputs[o].res = "device" /\ e = outputs[o]
<1>1. IsEntry(outputs[o])
  BY DEF Tables
<1>2. CASE o \in ToShare(j)
  <2>1. Loaded(j, o, d) = [outputs[o] EXCEPT !.res = "shared", !.size = OutBytes[o], !.domains = {d}]
    <3>1. outputs[o].res # "shared"
      BY <1>2 DEF ToShare
    <3> QED BY <1>2, <3>1 DEF Loaded
  <2> DEFINE e == Loaded(j, o, d)
  <2>2. IsEntry(e) /\ e.consumers = outputs[o].consumers /\ e.gpu = outputs[o].gpu
        /\ e.res = "shared" /\ e.domains = {d}
    BY <1>1, <2>1 DEF IsEntry
  <2> QED BY <1>2, <2>2
<1>3. CASE o \notin ToShare(j)
  <2>1. outputs[o].res \in {"shared", "device"}
    BY <1>3 DEF ByRef, Copied, ByReference
  <2>2. CASE outputs[o].res = "shared" /\ d # NoIndex
    BY <1>1, <1>3, <2>2 DEF Loaded, IsEntry
  <2>3. CASE outputs[o].res = "shared" /\ d = NoIndex
    BY <1>1, <1>3, <2>3 DEF Loaded, IsEntry
  <2>4. CASE outputs[o].res = "device"
    BY <1>1, <1>3, <2>4 DEF Loaded, IsEntry
  <2> QED BY <2>1, <2>2, <2>3, <2>4
<1> QED BY <1>2, <1>3

(* The keys of the results handed by reference, before and after.          *)
LEMMA LoadedKeys ==
  ASSUME Tables, NEW j, NEW p, Deps[j] \subseteq DOMAIN outputs, LaunchJob(j, p)
  PROVE  /\ ChargeKeysOf(outputs', ByRef(j))
              = (ChargeKeysOf(outputs, ByRef(j)) \ {<<"output", o>> : o \in ToShare(j)})
                  \cup NewReplicas(j, Domain(p))
         /\ SegmentsOf(outputs', ByRef(j))
              = SegmentsOf(outputs, ByRef(j)) \cup {<<k[2], k[3]>> : k \in NewReplicas(j, Domain(p))}
<1> DEFINE d == Domain(p)
           S == ByRef(j)
           moved == ToShare(j)
           replicated == {x \in Deps[j] : \/ x \in moved
                                          \/ outputs[x].res = "shared" /\ d # NoIndex /\ d \notin outputs[x].domains}
<1> HIDE DEF d
<1>1. NewReplicas(j, Domain(p)) = {<<"replica", o, d>> : o \in replicated}
  BY DEF NewReplicas, d
<1>2. moved \subseteq S /\ replicated \subseteq S
  BY DEF ByRef, Copied, ToShare, ByReference
<1>3. \A o \in moved : outputs[o].res = "private" /\ outputs[o].domains = {}
  BY DEF ToShare, Tables
<1> HIDE DEF S, moved
<1>4. ASSUME NEW o \in S
      PROVE  /\ ChargeKeys(outputs', o)
                  = (ChargeKeys(outputs, o) \ {<<"output", x>> : x \in moved})
                      \cup {<<"replica", x, d>> : x \in replicated \cap {o}}
             /\ outputs'[o].domains = outputs[o].domains \cup {x \in {d} : o \in replicated}
  <2>1. outputs'[o] = Loaded(j, o, d) /\ o \in DOMAIN outputs /\ o \in Deps[j]
    BY <1>4, LaunchTable DEF S, ByRef, d
  <2>2. \/ o \in moved /\ outputs'[o].res = "shared" /\ outputs'[o].domains = {d}
        \/ /\ o \notin moved /\ outputs[o].res = "shared" /\ outputs'[o].res = "shared"
           /\ d # NoIndex /\ outputs'[o].domains = outputs[o].domains \cup {d}
        \/ o \notin moved /\ outputs[o].res = "shared" /\ d = NoIndex /\ outputs'[o] = outputs[o]
        \/ o \notin moved /\ outputs[o].res = "device" /\ outputs'[o] = outputs[o]
    BY <1>4, <2>1, LoadedShape DEF S, moved
  <2>3. CASE o \in moved
    <3>1. ChargeKeys(outputs', o) = {<<"replica", o, d>>} /\ ChargeKeys(outputs, o) = {<<"output", o>>}
      BY <1>3, <2>2, <2>3 DEF ChargeKeys
    <3> QED BY <1>3, <2>1, <2>2, <2>3, <3>1
  <2>4. CASE o \notin moved /\ outputs[o].res = "shared" /\ d # NoIndex
    <3>1. ChargeKeys(outputs', o) = {<<"replica", o, x>> : x \in outputs[o].domains \cup {d}}
          /\ ChargeKeys(outputs, o) = {<<"replica", o, x>> : x \in outputs[o].domains}
      BY <2>2, <2>4 DEF ChargeKeys
    <3>2. o \in replicated <=> d \notin outputs[o].domains
      BY <2>1, <2>4
    <3> HIDE DEF replicated
    <3> QED BY <2>2, <2>4, <3>1, <3>2
  <2>5. CASE o \notin moved /\ outputs'[o] = outputs[o] /\ o \notin replicated
    <3>1. ChargeKeys(outputs', o) = ChargeKeys(outputs, o)
      BY <2>5 DEF ChargeKeys
    <3>2. \A x \in moved : <<"output", x>> \notin ChargeKeys(outputs, o)
      BY <2>5, ChargeKeysShape
    <3> HIDE DEF replicated
    <3> QED BY <2>5, <3>1, <3>2
  <2> QED BY <2>2, <2>3, <2>4, <2>5
<1> HIDE DEF replicated
<1>5. ChargeKeysOf(outputs', S)
        = (ChargeKeysOf(outputs, S) \ {<<"output", o>> : o \in moved})
            \cup {<<"replica", o, d>> : o \in replicated}
  BY <1>2, <1>4 DEF ChargeKeysOf
<1>6. SegmentsOf(outputs', S) = SegmentsOf(outputs, S) \cup {<<o, d>> : o \in replicated}
  BY <1>2, <1>4 DEF SegmentsOf
<1>7. {<<k[2], k[3]>> : k \in NewReplicas(j, Domain(p))} = {<<o, d>> : o \in replicated}
  <2>1. ASSUME NEW k \in NewReplicas(j, Domain(p))
        PROVE  \E o \in replicated : <<k[2], k[3]>> = <<o, d>>
    <3>1. PICK o \in replicated : k = <<"replica", o, d>>
      BY <1>1
    <3>2. k[2] = o /\ k[3] = d
      BY <3>1
    <3> QED BY <3>2
  <2>2. ASSUME NEW o \in replicated
        PROVE  \E k \in NewReplicas(j, Domain(p)) : <<o, d>> = <<k[2], k[3]>>
    <3> DEFINE k == <<"replica", o, d>>
    <3>1. k \in NewReplicas(j, Domain(p)) /\ k[2] = o /\ k[3] = d
      BY <1>1
    <3> QED BY <3>1
  <2> QED BY <2>1, <2>2
<1> QED BY <1>1, <1>5, <1>6, <1>7 DEF S, moved

LEMMA CopiedKeepShape ==
  ASSUME Tables, NEW j, NEW p, Deps[j] \subseteq DOMAIN outputs, LaunchJob(j, p),
         NEW o \in Copied(j) \ LastCopied(j)
  PROVE  /\ o \in DOMAIN outputs /\ IsEntry(outputs'[o]) /\ outputs'[o].res = outputs[o].res
         /\ outputs'[o].domains = outputs[o].domains /\ outputs'[o].shareable = outputs[o].shareable
         /\ outputs'[o].gpu = outputs[o].gpu /\ outputs'[o].consumers = outputs[o].consumers - 1
         /\ outputs[o].res # "shared"
<1>1. o \in DOMAIN outputs /\ outputs'[o] = [outputs[o] EXCEPT !.consumers = @ - 1]
  BY LaunchTable
<1>2. IsEntry(outputs[o])
  BY <1>1 DEF Tables
<1>3. outputs[o].res # "shared"
  BY DEF Copied, ByReference
<1> QED BY <1>1, <1>2, <1>3, EntryWithFewer

LEMMA LaunchKeepsTable ==
  ASSUME Books, TableInv, NEW j, NEW p, Eligible(j), Deps[j] \subseteq DOMAIN outputs,
         LaunchJob(j, p), UNCHANGED <<completed, cancelled, phase>>, phase # "done"
  PROVE  TableInv'
<1> DEFINE last == LastCopied(j)
           S == ByRef(j)
           replicas == NewReplicas(j, Domain(p))
           segs == {<<k[2], k[3]>> : k \in replicas}
           moved == {<<"output", o>> : o \in ToShare(j)}
           starts == IF RunsWarm(j, p) THEN {p.gpu} \ warmUp ELSE {}
<1>1. j \in Jobs /\ RunningJobs' = RunningJobs \cup {j}
  BY LaunchBooks DEF BooksStart, Eligible, Ready
<1>2. /\ inputs' = [inputs EXCEPT ![j] = "gone"] /\ warmUp' = warmUp \cup starts
      /\ ledger' = LaunchLedger(j, p, starts) /\ segments' = segments \cup segs
  BY DEF LaunchJob, Dispatch
<1>3. /\ DOMAIN outputs' = DOMAIN outputs \ last
      /\ last \subseteq Copied(j) /\ Copied(j) \subseteq Deps[j]
      /\ \A o \in S : outputs'[o] = Loaded(j, o, Domain(p))
      /\ \A o \in DOMAIN outputs \ Deps[j] : outputs'[o] = outputs[o]
  BY LaunchTable DEF TableInv
<1>4. /\ ChargeKeysOf(outputs', S) = (ChargeKeysOf(outputs, S) \ moved) \cup replicas
      /\ SegmentsOf(outputs', S) = SegmentsOf(outputs, S) \cup segs
  BY LoadedKeys DEF TableInv
<1>5. \A o \in Copied(j) \ last : /\ IsEntry(outputs'[o]) /\ outputs'[o].res = outputs[o].res
                                   /\ outputs'[o].domains = outputs[o].domains
                                   /\ outputs[o].res # "shared"
  BY CopiedKeepShape DEF TableInv
<1>6. S = Deps[j] \ Copied(j) /\ S \subseteq DOMAIN outputs /\ S \cap last = {}
  BY <1>3 DEF S, ByRef
<1>7. \A o \in S : IsEntry(outputs'[o]) /\ (outputs'[o].res # "shared" => outputs'[o].domains = {})
  BY <1>3, <1>6, LoadedShape DEF TableInv, Tables, S
<1> HIDE DEF last, S, replicas, segs, moved, starts
<1>8. Tables' /\ Stored'
  BY <1>1, <1>2, <1>3, <1>5, <1>6, <1>7 DEF TableInv, Tables, Stored
<1>9. EntriesChange(outputs, outputs', last \cup S, S)
  BY <1>3, <1>5, <1>6 DEF EntriesChange
<1>10. KeysChange(outputs, outputs', last \cup S, S)
  BY <1>9, TableStep
<1>11. /\ ChargeKeysOf(outputs, last \cup S) = ChargeKeysOf(outputs, last) \cup ChargeKeysOf(outputs, S)
       /\ SegmentsOf(outputs, last \cup S) = SegmentsOf(outputs, last) \cup SegmentsOf(outputs, S)
  BY DEF ChargeKeysOf, SegmentsOf
<1>12. ChargeKeysOf(outputs, last) \cap ChargeKeysOf(outputs, S) = {}
  BY <1>6, ChargeKeysShape DEF ChargeKeysOf
<1>13. /\ ChargeKeysOf(outputs, S) \subseteq TableKeys
       /\ SegmentsOf(outputs, S) \subseteq SegmentsOf(outputs, DOMAIN outputs)
       /\ \A k \in moved : k \in ChargeKeysOf(outputs, S)
  <2>1. ASSUME NEW o \in ToShare(j)
        PROVE  o \in S /\ <<"output", o>> \in ChargeKeys(outputs, o)
    BY DEF S, ByRef, Copied, ToShare, ByReference, ChargeKeys
  <2> QED BY <1>6, <2>1 DEF ChargeKeysOf, TableKeys, SegmentsOf, moved
<1>14. SegmentsOf(outputs, last) = {}
  BY <1>3 DEF SegmentsOf, Copied, ByReference, TableInv, Tables
<1>15. TableKeys' = (TableKeys \ (moved \cup ChargeKeysOf(outputs, last))) \cup replicas
  BY <1>4, <1>10, <1>11, <1>12, <1>13 DEF KeysChange, TableKeys
<1>16. Segmented'
  BY <1>2, <1>4, <1>10, <1>11, <1>13, <1>14 DEF KeysChange, TableInv, Segmented
<1>17. Charged'
  <2> DEFINE freed == moved \cup ChargeKeysOf(outputs, last)
  <2>1. KindsHeld({}, {j}, freed, {}) = freed \cup {<<"input", j>>}
        /\ KindsHeld({j}, {}, replicas, starts) = replicas \cup {<<"job", j>>} \cup ContextKeys(starts)
    BY DEF KindsHeld, JobKeys, InputKeys, ContextKeys
  <2>2. DOMAIN ledger' = (DOMAIN ledger \ (freed \cup {<<"input", j>>}))
                           \cup (replicas \cup {<<"job", j>>} \cup ContextKeys(starts))
    <3>1. DOMAIN ReplicaCharges(replicas, Domain(p)) = replicas
      BY DEF ReplicaCharges
    <3>2. DOMAIN JobCharge(j, p) = {<<"job", j>>}
      BY DEF JobCharge, Singleton
    <3>3. DOMAIN ContextCharge(starts) = ContextKeys(starts)
      BY DEF ContextCharge, ContextKeys
    <3> DEFINE L1 == Release(ledger, freed \cup {<<"input", j>>})
               L2 == Charge(L1, ReplicaCharges(replicas, Domain(p)))
               L3 == Charge(L2, JobCharge(j, p))
               L4 == Charge(L3, ContextCharge(starts))
    <3>4. ledger' = L4
      BY <1>2 DEF LaunchLedger, moved, last, replicas
    <3>5. DOMAIN L1 = DOMAIN ledger \ (freed \cup {<<"input", j>>})
      BY ReleasedKeys
    <3> HIDE DEF L1
    <3>6. DOMAIN L2 = DOMAIN L1 \cup replicas
      BY <3>1, ChargedKeys
    <3> HIDE DEF L2
    <3>7. DOMAIN L3 = DOMAIN L2 \cup {<<"job", j>>}
      BY <3>2, ChargedKeys
    <3> HIDE DEF L3
    <3>8. DOMAIN L4 = DOMAIN L3 \cup ContextKeys(starts)
      BY <3>3, ChargedKeys
    <3> HIDE DEF L4, freed
    <3> QED BY <3>4, <3>5, <3>6, <3>7, <3>8
  <2>3. PrivateInputs' = (PrivateInputs \ {j}) \cup {}
    BY <1>1, <1>2 DEF PrivateInputs, TableInv, Tables
  <2>4. TableKeys' = (TableKeys \ freed) \cup replicas
    BY <1>15
  <2>5. RunningJobs' = (RunningJobs \ {}) \cup {j} /\ warmUp' = (warmUp \ {}) \cup starts
    BY <1>1, <1>2
  <2>6. OfResults(freed)
    BY ChargeKeysShape DEF OfResults, moved, ChargeKeysOf
  <2>7. Charged
    BY DEF TableInv
  <2> HIDE DEF freed
  <2> QED BY <2>1, <2>2, <2>3, <2>4, <2>5, <2>6, <2>7, LedgerStep
<1> QED BY <1>8, <1>16, <1>17 DEF TableInv

-----------------------------------------------------------------------------
(* The steps.  A quiet one touches none of the jobs, results and charges.  *)

Quiet ==
  /\ UNCHANGED <<running, warmRunning, completed, cancelled, failures, inputs, outputs, segments, warmUp>>
  /\ DOMAIN ledger' = DOMAIN ledger
  /\ phase' # phase => phase \notin {"closing", "done"} /\ phase' # "done"

LaunchStep(j, p) ==
  /\ Eligible(j) /\ ~Diverged(j) /\ Deps[j] \subseteq DOMAIN outputs /\ LaunchJob(j, p)
  /\ UNCHANGED <<phase, outcome, completed, cancelled, failures, buffers, results>> /\ phase = "admit"

LEMMA LaunchIsOneJob ==
  ASSUME Launch
  PROVE  \E j \in Jobs : \E p \in Placements(j) : LaunchStep(j, p)
<1>1. PICK i \in Acting : ~Diverged(JobOrder[i]) /\ ~ResultMissing(JobOrder[i])
                            /\ \E p \in Placements(JobOrder[i]) : LaunchJob(JobOrder[i], p)
  BY DEF Launch
<1>2. Eligible(JobOrder[i])
  BY DEF Acting, ActsNow
<1>3. JobOrder[i] \in Jobs
  BY <1>2 DEF Eligible, Ready
<1> QED BY <1>1, <1>2, <1>3 DEF Launch, LaunchStep, ResultMissing

LEMMA StepKinds ==
  ASSUME IInv, [Next]_vars
  PROVE  Quiet \/ ReapOk \/ ReapWrongShards \/ ReapError \/ Launch \/ Spill \/ Close
<1>1. CASE Finish \/ ReapStale \/ ReapEmpty \/ AdmitRaises \/ EndAdmit \/ Stall
  BY <1>1 DEF Finish, ReapStale, ReapEmpty, AdmitRaises, EndAdmit, Stall, Reaping, MarkProgress, Raise,
     jobVars, tableVars, workerVars, Quiet
<1>2. CASE Drain
  BY <1>2 DEF Drain, jobVars, workerVars, Quiet
<1>3. CASE Workers \/ UNCHANGED vars
  BY <1>3 DEF Workers, FreshPosts, FreshDies, Sample, WarmFrees, WarmRuns, WarmTakes, vars, loopVars,
     jobVars, tableVars, workerVars, Quiet
<1> QED BY <1>1, <1>2, <1>3 DEF Next, Loop

(* The table, the charges and the segments stay in step with each other.   *)
LEMMA TableStepKeeps ==
  ASSUME IInv, TableInv, Processes, [Next]_vars
  PROVE  TableInv'
<1>1. CASE Quiet
  <2>1. Holders' = Holders
    BY <1>1, HoldersByKind, HoldersByKindNext DEF Quiet, RunningJobs, PrivateInputs, TableKeys
  <2>2. Charged'
    BY <1>1, <2>1 DEF Quiet, TableInv, Charged
  <2>3. Tables' /\ Stored' /\ Segmented'
    BY <1>1 DEF Quiet, TableInv, Tables, Stored, Segmented
  <2> QED BY <2>2, <2>3 DEF TableInv
<1>2. CASE ReapOk
  BY <1>2, ReapOkKeepsTable DEF IInv
<1>3. CASE ReapWrongShards
  BY <1>3, ReapWrongShardsKeepsTable DEF IInv
<1>4. CASE ReapError
  <2>1. Received.key \in RunningJobs /\ Poison(Component(Received.key))
        /\ phase # "done" /\ phase' = phase /\ warmUp' = warmUp
    BY <1>4 DEF ReapError, IsRunning, RunningJobs, Reaping, MarkProgress
  <2> QED BY <2>1, PoisonKeepsTable DEF IInv
<1>5. CASE Launch
  BY <1>5, LaunchIsOneJob, LaunchKeepsTable DEF IInv, LaunchStep
<1>6. CASE Spill
  BY <1>6, SpillKeepsTable DEF IInv
<1>7. CASE Close
  BY <1>7, CloseKeepsTable DEF IInv
<1> QED BY <1>1, <1>2, <1>3, <1>4, <1>5, <1>6, <1>7, StepKinds

-----------------------------------------------------------------------------
(* Processes, messages and queue items.                                    *)

LEMMA Dequeued ==
  ASSUME NEW S, NEW q \in Seq(S), q # <<>>
  PROVE  /\ Head(q) \in S /\ Head(q) = q[1] /\ 1 \in DOMAIN q /\ Tail(q) \in Seq(S)
         /\ \A i \in DOMAIN Tail(q) : i + 1 \in DOMAIN q /\ Tail(q)[i] = q[i + 1]
         /\ \A i \in DOMAIN q : i = 1 \/ (i - 1 \in DOMAIN Tail(q) /\ Tail(q)[i - 1] = q[i])
OBVIOUS

LEMMA Enqueued ==
  ASSUME NEW S, NEW q \in Seq(S), NEW x \in S
  PROVE  /\ Append(q, x) \in Seq(S)
         /\ \A i \in DOMAIN Append(q, x) : (i \in DOMAIN q /\ Append(q, x)[i] = q[i]) \/ Append(q, x)[i] = x
         /\ \A i \in DOMAIN q : i \in DOMAIN Append(q, x) /\ Append(q, x)[i] = q[i]
         /\ Len(Append(q, x)) \in DOMAIN Append(q, x) /\ Append(q, x)[Len(Append(q, x))] = x
OBVIOUS

LEMMA ReceivedIsPosted ==
  ASSUME Processes, results # <<>>
  PROVE  /\ Received \in Message /\ Received.key \in PostedIn(results)
         /\ Tail(results) \in Seq(Message) /\ PostedIn(Tail(results)) \subseteq PostedIn(results)
<1>1. results \in Seq(Message)
  BY DEF Processes
<1>2. /\ Head(results) \in Message /\ Head(results) = results[1] /\ 1 \in DOMAIN results
      /\ Tail(results) \in Seq(Message)
      /\ \A i \in DOMAIN Tail(results) : i + 1 \in DOMAIN results /\ Tail(results)[i] = results[i + 1]
  BY <1>1, Dequeued
<1>3. Received.key \in Jobs
  BY <1>2 DEF Received, Message
<1> QED BY <1>2, <1>3 DEF PostedIn, Received

LEMMA FreesAreNoJobs ==
  ASSUME NEW q \in [GpuIds -> Seq(Item)], NEW T, NEW S, S \subseteq Outs
  PROVE  WithFrees(q, T, S) \in [GpuIds -> Seq(Item)] /\ QueuedIn(WithFrees(q, T, S)) = QueuedIn(q)
<1> DEFINE w == WithFrees(q, T, S)
           freed(g) == {o \in S : T[o].res = "device" /\ T[o].gpu = g}
<1>1. w = [g \in GpuIds |-> IF freed(g) = {} THEN q[g] ELSE Append(q[g], FreeItem(freed(g)))]
  BY DEF WithFrees
<1>2. ASSUME NEW g \in GpuIds
      PROVE  /\ w[g] \in Seq(Item)
             /\ \A i \in DOMAIN w[g] : w[g][i].tag = "job" => i \in DOMAIN q[g] /\ w[g][i] = q[g][i]
             /\ \A i \in DOMAIN q[g] : i \in DOMAIN w[g] /\ w[g][i] = q[g][i]
  <2>1. FreeItem(freed(g)) \in Item /\ FreeItem(freed(g)).tag = "free"
    BY DEF FreeItem, Item
  <2>2. w[g] = q[g] \/ w[g] = Append(q[g], FreeItem(freed(g)))
    BY <1>1
  <2> HIDE DEF w, freed
  <2>3. CASE w[g] = q[g]
    BY <2>3
  <2>4. CASE w[g] = Append(q[g], FreeItem(freed(g)))
    <3> DEFINE item == FreeItem(freed(g))
    <3> HIDE DEF item
    <3>1. item \in Item /\ item.tag = "free" /\ q[g] \in Seq(Item)
      BY <2>1 DEF item
    <3>2. /\ Append(q[g], item) \in Seq(Item)
          /\ \A i \in DOMAIN Append(q[g], item) :
               (i \in DOMAIN q[g] /\ Append(q[g], item)[i] = q[g][i]) \/ Append(q[g], item)[i] = item
          /\ \A i \in DOMAIN q[g] : i \in DOMAIN Append(q[g], item) /\ Append(q[g], item)[i] = q[g][i]
      BY <3>1, Enqueued
    <3>3. w[g] = Append(q[g], item)
      BY <2>4 DEF item
    <3> QED BY <3>1, <3>2, <3>3
  <2> QED BY <2>2, <2>3, <2>4
<1>3. w \in [GpuIds -> Seq(Item)]
  BY <1>1, <1>2
<1> HIDE DEF w
<1>4. QueuedIn(w) = QueuedIn(q)
  BY <1>2 DEF QueuedIn
<1> QED BY <1>3, <1>4 DEF w

LEMMA OutputsAreOuts ==
  ASSUME Books, Stored
  PROVE  DOMAIN outputs \subseteq Outs
BY DEF Books, Stored, Outs

LEMMA ReapKeepsProcesses ==
  ASSUME Books, Processes, Stored, ReapOk \/ ReapWrongShards
  PROVE  Processes'
<1> DEFINE j == Received.key
<1>1. /\ IsRunning(j) /\ Reaped(j) /\ completed' = completed \cup {j} /\ cancelled' = cancelled
      /\ results # <<>> /\ results' = Tail(results) /\ computing' = computing
      /\ phase # "done" /\ phase' # "done"
  BY DEF ReapOk, ReapWrongShards, workerVars, Reaping, MarkProgress, Raise
<1>2. RunningJobs' = RunningJobs \ {j} /\ j \in RunningJobs
  BY <1>1, ReapedBooks
<1>3. running' = running \ {j} /\ DOMAIN warmRunning' \subseteq DOMAIN warmRunning
  BY <1>1 DEF Reaped, Restricted
<1>4. /\ j \in PostedIn(results) /\ results' \in Seq(Message) /\ PostedIn(results') \subseteq PostedIn(results)
  BY <1>1, ReceivedIsPosted
<1>5. warmQueue' \in [GpuIds -> Seq(Item)] /\ QueuedIn(warmQueue') = QueuedIn(warmQueue)
  <2>1. warmQueue' = warmQueue \/ warmQueue' = WithFrees(warmQueue, outputs, LastRead(j))
    BY DEF ReapOk, ReapWrongShards
  <2>2. LastRead(j) \subseteq Outs
    BY OutputsAreOuts DEF LastRead, ReadByReference
  <2> QED BY <2>1, <2>2, FreesAreNoJobs DEF Processes
<1> HIDE DEF j
<1>6. Under' \subseteq Under /\ Launched' = Launched
  BY <1>1, <1>2, <1>4, <1>5 DEF Under, Launched
<1> QED BY <1>1, <1>3, <1>4, <1>5, <1>6 DEF Processes, Under

LEMMA PoisonKeepsProcesses ==
  ASSUME Books, Processes, Stored, ReapError
  PROVE  Processes'
<1> DEFINE k == Received.key
           C == Component(k)
<1>1. /\ k \in RunningJobs /\ Poison(C) /\ results # <<>> /\ results' = Tail(results)
      /\ phase # "done" /\ phase' = phase
  BY DEF ReapError, IsRunning, RunningJobs, Reaping, MarkProgress
<1>2. /\ RunningJobs' = RunningJobs \ C /\ completed' = completed \ C /\ cancelled' = cancelled \cup C
      /\ running' = running \ C /\ computing' = computing \ C
      /\ DOMAIN warmRunning' \subseteq DOMAIN warmRunning
      /\ warmQueue' = WithFrees(warmQueue, outputs, HeldBy(C))
  BY <1>1, PoisonBooks DEF BooksFail, Poison, Restricted
<1>3. results' \in Seq(Message) /\ PostedIn(results') \subseteq PostedIn(results)
  BY <1>1, ReceivedIsPosted
<1>4. warmQueue' \in [GpuIds -> Seq(Item)] /\ QueuedIn(warmQueue') = QueuedIn(warmQueue)
  <2>1. HeldBy(C) \subseteq Outs
    BY OutputsAreOuts DEF HeldBy
  <2> QED BY <1>2, <2>1, FreesAreNoJobs DEF Processes
<1> HIDE DEF k, C
<1>5. Under' \subseteq Under /\ Launched \subseteq Launched'
  BY <1>2, <1>3, <1>4 DEF Under, Launched
<1> QED BY <1>1, <1>2, <1>3, <1>4, <1>5 DEF Processes

LEMMA LaunchKeepsProcesses ==
  ASSUME Books, Processes, NEW j \in Jobs, NEW p, LaunchStep(j, p)
  PROVE  Processes'
<1>1. /\ j \notin RunningJobs \cup completed \cup cancelled
      /\ RunningJobs' = RunningJobs \cup {j} /\ UNCHANGED <<completed, cancelled, results>>
      /\ phase # "done" /\ phase' = phase
  BY LaunchBooks DEF LaunchStep, BooksStart, Ready
<1>2. j \notin Launched /\ Launched' = Launched \cup {j} /\ j \notin Under
  BY <1>1 DEF Launched, Processes
<1>3. /\ results \in Seq(Message) /\ warmQueue \in [GpuIds -> Seq(Item)] /\ computing \subseteq running
      /\ running \cap DOMAIN warmRunning = {} /\ Under \cap computing = {} /\ Under \subseteq Launched
  BY <1>1 DEF Processes
<1>4. j \notin running /\ j \notin DOMAIN warmRunning
  BY <1>1 DEF RunningJobs
<1>5. CASE RunsWarm(j, p)
  <2> DEFINE item == JobItem(j, KeepsOnDevice(j, p))
  <2>1. /\ warmQueue' = [warmQueue EXCEPT ![p.gpu] = Append(warmQueue[p.gpu], item)]
        /\ DOMAIN warmRunning' = DOMAIN warmRunning \cup {j} /\ UNCHANGED <<running, computing>>
    BY <1>5 DEF LaunchStep, LaunchJob, Dispatch
  <2>2. item \in Item /\ item.tag = "job" /\ item.key = j
    BY DEF JobItem, Item, KeepsOnDevice
  <2> HIDE DEF item
  <2>3. ASSUME NEW g \in GpuIds
        PROVE  /\ warmQueue'[g] \in Seq(Item)
               /\ \A i \in DOMAIN warmQueue'[g] :
                    (i \in DOMAIN warmQueue[g] /\ warmQueue'[g][i] = warmQueue[g][i]) \/ warmQueue'[g][i] = item
    <3>1. warmQueue'[g] = warmQueue[g] \/ warmQueue'[g] = Append(warmQueue[g], item)
      BY <1>3, <2>1
    <3>2. warmQueue[g] \in Seq(Item)
      BY <1>3
    <3>3. CASE warmQueue'[g] = warmQueue[g]
      BY <3>2, <3>3
    <3>4. CASE warmQueue'[g] = Append(warmQueue[g], item)
      <4>1. /\ Append(warmQueue[g], item) \in Seq(Item)
            /\ \A i \in DOMAIN Append(warmQueue[g], item) :
                 (i \in DOMAIN warmQueue[g] /\ Append(warmQueue[g], item)[i] = warmQueue[g][i])
                   \/ Append(warmQueue[g], item)[i] = item
        BY <2>2, <3>2, Enqueued
      <4> QED BY <3>4, <4>1
    <3> QED BY <3>1, <3>3, <3>4
  <2>4. warmQueue' \in [GpuIds -> Seq(Item)]
    BY <1>3, <2>1, <2>3
  <2>5. QueuedIn(warmQueue') \subseteq QueuedIn(warmQueue) \cup {j}
    BY <2>2, <2>3 DEF QueuedIn
  <2>6. Under' \subseteq Under \cup {j}
    BY <1>1, <2>5 DEF Under
  <2> QED BY <1>1, <1>2, <1>3, <1>4, <2>1, <2>4, <2>6 DEF Processes
<1>6. CASE ~RunsWarm(j, p)
  <2>1. UNCHANGED <<warmQueue, warmRunning>> /\ running' = running \cup {j} /\ computing' = computing \cup {j}
    BY <1>6 DEF LaunchStep, LaunchJob, Dispatch
  <2>2. Under' = Under
    BY <1>1, <2>1 DEF Under
  <2> QED BY <1>1, <1>2, <1>3, <1>4, <2>1, <2>2 DEF Processes
<1> QED BY <1>5, <1>6

LEMMA FreshKeepsProcesses ==
  ASSUME Books, Processes, NEW j \in Jobs, FreshPosts(j) \/ FreshDies(j)
  PROVE  Processes'
<1>1. j \in computing /\ computing' = computing \ {j} /\ j \in running /\ phase # "done"
      /\ UNCHANGED <<phase, running, warmRunning, completed, cancelled, warmQueue>>
  BY DEF FreshPosts, FreshDies, Processes, loopVars, jobVars
<1>2. results' = results \/ \E s : results' = Append(results, [key |-> j, status |-> s])
                                    /\ s \in {"ok", "error", "wrong_shards"}
  BY DEF FreshPosts, FreshDies, Verdicts, Post
<1>3. results' \in Seq(Message) /\ PostedIn(results') \subseteq PostedIn(results) \cup {j}
  <2>1. CASE results' = results
    BY <2>1 DEF Processes
  <2>2. ASSUME NEW s \in {"ok", "error", "wrong_shards"}, results' = Append(results, [key |-> j, status |-> s])
        PROVE  results' \in Seq(Message) /\ PostedIn(results') \subseteq PostedIn(results) \cup {j}
    <3> DEFINE m == [key |-> j, status |-> s]
    <3>1. m \in Message /\ m.key = j
      BY DEF Message
    <3> HIDE DEF m
    <3>2. results' \in Seq(Message)
          /\ \A i \in DOMAIN results' : (i \in DOMAIN results /\ results'[i] = results[i]) \/ results'[i] = m
      BY <2>2, <3>1, Enqueued DEF Processes, m
    <3> QED BY <3>1, <3>2 DEF PostedIn
  <2> QED BY <1>2, <2>1, <2>2
<1>4. Under' \subseteq Under \cup {j} /\ Launched' = Launched /\ j \in Launched
  BY <1>1, <1>3 DEF Under, Launched, RunningJobs
<1> QED BY <1>1, <1>3, <1>4 DEF Processes

LEMMA WarmKeepsProcesses ==
  ASSUME Books, Processes, NEW g \in GpuIds, WarmFrees(g) \/ WarmRuns(g)
  PROVE  Processes'
<1> DEFINE q == warmQueue[g]
           item == Head(q)
<1>1. /\ q # <<>> /\ warmQueue' = [warmQueue EXCEPT ![g] = Tail(q)]
      /\ UNCHANGED <<phase, running, warmRunning, completed, cancelled, computing, warmUp>>
  BY DEF WarmFrees, WarmRuns, WarmTakes, loopVars, jobVars
<1>2. q \in Seq(Item) /\ warmQueue \in [GpuIds -> Seq(Item)] /\ results \in Seq(Message)
  BY DEF Processes
<1>3. /\ item \in Item /\ item = q[1] /\ 1 \in DOMAIN q /\ Tail(q) \in Seq(Item)
      /\ \A i \in DOMAIN Tail(q) : i + 1 \in DOMAIN q /\ Tail(q)[i] = q[i + 1]
  BY <1>1, <1>2, Dequeued
<1>4. warmQueue' \in [GpuIds -> Seq(Item)]
  BY <1>1, <1>2, <1>3
<1>5. QueuedIn(warmQueue') \subseteq QueuedIn(warmQueue)
  <2>1. ASSUME NEW h \in GpuIds, NEW i \in DOMAIN warmQueue'[h]
        PROVE  \E x \in DOMAIN warmQueue[h] : warmQueue[h][x] = warmQueue'[h][i]
    <3>1. CASE h = g
      BY <1>1, <1>2, <1>3, <3>1
    <3>2. CASE h # g
      BY <1>1, <1>2, <3>2
    <3> QED BY <3>1, <3>2
  <2> QED BY <2>1 DEF QueuedIn
<1>6. item.tag = "job" => item.key \in QueuedIn(warmQueue) /\ item.key \in Jobs
  BY <1>3 DEF QueuedIn, Item
<1>7. results' \in Seq(Message) /\ PostedIn(results') \subseteq PostedIn(results) \cup QueuedIn(warmQueue)
  <2>1. CASE WarmFrees(g)
    BY <1>2, <2>1 DEF WarmFrees
  <2>2. CASE WarmRuns(g)
    <3>1. item.tag = "job" /\ \E s \in {"ok", "handle", "error", "wrong_shards"} :
            results' = Append(results, [key |-> item.key, status |-> s])
      BY <2>2 DEF WarmRuns, Verdicts, Post
    <3> HIDE DEF item
    <3>2. PICK s \in {"ok", "handle", "error", "wrong_shards"} :
            results' = Append(results, [key |-> item.key, status |-> s])
      BY <3>1
    <3> DEFINE m == [key |-> item.key, status |-> s]
    <3>3. m \in Message /\ m.key = item.key
      BY <1>6, <3>1 DEF Message
    <3> HIDE DEF m
    <3>4. results' \in Seq(Message)
          /\ \A i \in DOMAIN results' : (i \in DOMAIN results /\ results'[i] = results[i]) \/ results'[i] = m
      BY <1>2, <3>2, <3>3, Enqueued DEF m
    <3> QED BY <1>6, <3>1, <3>3, <3>4 DEF PostedIn
  <2> QED BY <2>1, <2>2
<1>8. Under' \subseteq Under /\ Launched' = Launched
  BY <1>1, <1>5, <1>7 DEF Under, Launched, RunningJobs
<1> QED BY <1>1, <1>4, <1>7, <1>8 DEF Processes

(* Every process lives for a job, and nothing is dispatched while closing. *)
LEMMA ProcessesStepKeeps ==
  ASSUME IInv, Processes, Stored, [Next]_vars
  PROVE  Processes'
<1>1. CASE Finish \/ Drain \/ ReapStale \/ ReapEmpty \/ AdmitRaises \/ EndAdmit \/ Spill \/ Stall
           \/ (\E j \in Jobs : Sample(j)) \/ UNCHANGED vars
  <2>1. UNCHANGED <<running, warmRunning, completed, cancelled, computing, warmUp, warmQueue>>
        /\ (phase' = phase \/ (phase \notin {"closing", "done"} /\ phase' # "done"))
    BY <1>1 DEF Finish, Drain, ReapStale, ReapEmpty, AdmitRaises, EndAdmit, Spill, Stall, Sample,
       Reaping, MarkProgress, Raise, vars, loopVars, jobVars, workerVars
  <2>2. results' = results \/ (results # <<>> /\ results' = Tail(results))
    BY <1>1 DEF Finish, Drain, ReapStale, ReapEmpty, AdmitRaises, EndAdmit, Spill, Stall, Sample,
       Reaping, vars
  <2>3. results' \in Seq(Message) /\ PostedIn(results') \subseteq PostedIn(results)
    BY <2>2, ReceivedIsPosted DEF Processes
  <2>4. Under' \subseteq Under /\ Launched' = Launched
    BY <2>1, <2>3 DEF Under, Launched, RunningJobs
  <2> QED BY <2>1, <2>3, <2>4 DEF Processes
<1>2. CASE ReapOk \/ ReapWrongShards
  BY <1>2, ReapKeepsProcesses DEF IInv
<1>3. CASE ReapError
  BY <1>3, PoisonKeepsProcesses DEF IInv
<1>4. CASE Launch
  BY <1>4, LaunchIsOneJob, LaunchKeepsProcesses DEF IInv
<1>5. CASE Close
  <2>1. /\ phase' = "done" /\ running' = {} /\ computing' = {} /\ warmUp' = {} /\ results' = results
        /\ warmQueue' = [g \in GpuIds |-> <<>>]
    BY <1>5 DEF Close, Stopped, Processes
  <2>2. warmQueue' \in [GpuIds -> Seq(Item)]
    BY <2>1
  <2> QED BY <2>1, <2>2 DEF Processes
<1>6. CASE \E j \in Jobs : FreshPosts(j) \/ FreshDies(j)
  BY <1>6, FreshKeepsProcesses DEF IInv
<1>7. CASE \E g \in GpuIds : WarmFrees(g) \/ WarmRuns(g)
  BY <1>7, WarmKeepsProcesses DEF IInv
<1> QED BY <1>1, <1>2, <1>3, <1>4, <1>5, <1>6, <1>7 DEF Next, Loop, Workers

-----------------------------------------------------------------------------
(* The order of dispatch, the isolation of failures and the end of the run *)
(* follow from the effect of the step on the books.                        *)

(* A job is dispatched once its producers have completed.                  *)
LEMMA OrderedStepKeeps ==
  ASSUME IInv, Ordered, [Next]_vars
  PROVE  Ordered'
<1>1. Effect
  BY StepHasEffect
<1>2. \A c \in completed \cup RunningJobs : Producers(c) \subseteq completed
  BY DEF Ordered, Dispatched
<1>3. SUFFICES \A c \in completed' \cup RunningJobs' : Producers(c) \subseteq completed'
  BY DEF Ordered, Dispatched
<1>4. CASE BooksKept \/ BooksStop
  BY <1>2, <1>4 DEF BooksKept, BooksStop
<1>5. CASE \E j \in Jobs : BooksStart(j)
  BY <1>2, <1>5 DEF BooksStart, Ready
<1>6. CASE \E j \in Jobs : BooksComplete(j)
  BY <1>2, <1>6 DEF BooksComplete
<1>7. ASSUME NEW k \in RunningJobs, BooksFail(Component(k))
      PROVE  \A c \in completed' \cup RunningJobs' : Producers(c) \subseteq completed'
  <2>1. Closed(Component(k)) /\ completed \cup RunningJobs \subseteq Jobs
    BY ComponentIsLeastClosed DEF IInv, Books
  <2> QED BY <1>2, <1>7, <2>1 DEF BooksFail, Closed
<1> QED BY <1>1, <1>4, <1>5, <1>6, <1>7 DEF Effect

LEMMA FailuresApart ==
  ASSUME NEW C, C \subseteq Jobs, Closed(C), NEW k \in Jobs, k \notin C
  PROVE  /\ Component(k) \cap C = {}
         /\ \A f \in C : k \notin Component(f)
<1>1. Component(k) \subseteq Jobs \ C
  BY ClosedSets, ComponentIsLeastClosed
<1>2. \A f \in C : Component(f) \subseteq C
  BY ComponentIsLeastClosed
<1> QED BY <1>1, <1>2

(* A failure cancels its whole lineage and no other.                       *)
LEMMA IsolatedStepKeeps ==
  ASSUME IInv, Tables, Isolated, [Next]_vars
  PROVE  Isolated'
<1>1. cancelled \subseteq Jobs /\ failures \subseteq cancelled
  BY DEF IInv, Books, Isolated
<1>2. CASE ReapError
  <2> DEFINE k == Received.key
             C == Component(k)
  <2>1. k \in Jobs /\ k \notin cancelled
    BY <1>2 DEF ReapError, IsRunning, RunningJobs, IInv, Books
  <2>2. cancelled' = cancelled \cup C /\ failures' = failures \cup {k}
        /\ inputs' = [j \in Jobs |-> IF j \in C THEN "gone" ELSE inputs[j]]
    BY <1>2 DEF ReapError, Poison
  <2>3. k \in C /\ C \subseteq Jobs /\ Closed(C)
    BY <2>1, ComponentIsLeastClosed
  <2>4. Closed(cancelled')
    BY <1>1, <2>2, <2>3, ClosedSets DEF Isolated
  <2>5. C \cap cancelled = {} /\ \A f \in cancelled : k \notin Component(f)
    BY <1>1, <2>1, FailuresApart DEF Isolated
  <2>6. \A f \in failures' : \A j \in Component(f) : inputs'[j] = "gone"
    <3>1. \A f \in failures : \A j \in Component(f) : inputs[j] = "gone" /\ j \in Jobs
      BY <1>1, ComponentIsLeastClosed DEF Isolated
    <3> QED BY <2>2, <2>3, <3>1
  <2>7. \A f, g \in failures' : f # g => g \notin Component(f)
    BY <1>1, <2>2, <2>5 DEF Isolated
  <2> HIDE DEF k, C
  <2> QED BY <1>1, <2>2, <2>3, <2>4, <2>6, <2>7 DEF Isolated
<1>3. CASE ~ReapError
  <2>1. UNCHANGED <<cancelled, failures>>
    BY <1>3 DEF Next, Loop, Workers, Finish, Drain, ReapStale, ReapOk, ReapWrongShards, ReapEmpty,
       AdmitRaises, Launch, EndAdmit, Spill, Stall, Close, FreshPosts, FreshDies, Sample, WarmFrees,
       WarmRuns, WarmTakes, vars, jobVars
  <2>2. \A j \in Jobs : inputs[j] = "gone" => inputs'[j] = "gone"
    <3>1. CASE Launch
      BY <3>1 DEF Launch, LaunchJob, Tables
    <3>2. CASE Spill
      <4>1. inputs' = inputs \/ \E x \in PrivateBlobs : x[1] = "input" /\ inputs' = [inputs EXCEPT ![x[2]] = "disk"]
        BY <3>2 DEF Spill, Spillable
      <4>2. \A x \in PrivateBlobs : x[1] = "input" => inputs[x[2]] = "private"
        BY DEF PrivateBlobs
      <4> QED BY <4>1, <4>2 DEF Tables
    <3>3. CASE inputs' = inputs
      BY <3>3
    <3> QED BY <1>3, <3>1, <3>2, <3>3 DEF Next, Loop, Workers, Finish, Drain, ReapStale, ReapOk,
       ReapWrongShards, ReapEmpty, AdmitRaises, EndAdmit, Stall, Close, FreshPosts, FreshDies, Sample,
       WarmFrees, WarmRuns, WarmTakes, vars, tableVars
  <2>3. \A f \in failures : Component(f) \subseteq Jobs
    BY <1>1, ComponentIsLeastClosed
  <2> QED BY <2>1, <2>2, <2>3 DEF Isolated
<1> QED BY <1>2, <1>3

-----------------------------------------------------------------------------
(* The counts.                                                             *)

LEMMA LeftNow ==
  ASSUME NEW o
  PROVE  /\ ReadersLeft(o) = Readers(o) \ (IF outputs[o].res \in ByReference THEN completed ELSE Dispatched)
         /\ IsFiniteSet(ReadersLeft(o)) /\ Cardinality(ReadersLeft(o)) \in Nat
<1>1. ReadersLeft(o) = Readers(o) \ (IF outputs[o].res \in ByReference THEN completed ELSE Dispatched)
  BY DEF ReadersLeft, Readers
<1> QED BY <1>1, ReadersAreFinite

LEMMA LeftNext ==
  ASSUME NEW o
  PROVE  ReadersLeft(o)' = Readers(o) \ (IF outputs'[o].res \in ByReference THEN completed' ELSE Dispatched')
BY DEF ReadersLeft, Readers

LEMMA OneLess ==
  ASSUME NEW S, IsFiniteSet(S), NEW c \in S
  PROVE  /\ Cardinality(S \ {c}) = Cardinality(S) - 1
         /\ Cardinality(S) # 1 => S \ {c} # {}
<1>1. Cardinality(S \ {c}) = Cardinality(S) - 1
  BY FS_RemoveElement
<1>2. Cardinality(S) \in Nat
  BY FS_CardinalityType
<1>3. S \ {c} = {} => Cardinality(S \ {c}) = 0
  BY FS_EmptySet
<1> QED BY <1>1, <1>2, <1>3

(* A result left alone keeps its count when its readers are left alone.    *)
LEMMA CountKept ==
  ASSUME NEW o, CountRight(o), o \in DOMAIN outputs, o \in DOMAIN outputs',
         outputs'[o].consumers = outputs[o].consumers, outputs'[o].res = outputs[o].res,
         outputs'[o].shareable = outputs[o].shareable,
         Readers(o) \cap completed' = Readers(o) \cap completed,
         Readers(o) \cap Dispatched' = Readers(o) \cap Dispatched
  PROVE  CountRight(o)'
<1>1. ReadersLeft(o)' = ReadersLeft(o)
  BY LeftNow, LeftNext
<1>2. Readers(o)' = Readers(o)
  BY DEF Readers
<1> QED BY <1>1, <1>2 DEF CountRight

(* One reader has been served and others are left.                         *)
LEMMA CountDown ==
  ASSUME NEW o, CountRight(o), NEW c \in ReadersLeft(o), ReadersLeft(o)' = ReadersLeft(o) \ {c},
         outputs'[o].consumers = outputs[o].consumers - 1, outputs[o].consumers # 1,
         outputs'[o].res = outputs[o].res, ~(outputs'[o].res = "private" /\ outputs'[o].shareable)
  PROVE  CountRight(o)'
<1>1. IsFiniteSet(ReadersLeft(o)) /\ Cardinality(ReadersLeft(o)) \in Nat
  BY LeftNow
<1>2. Cardinality(ReadersLeft(o) \ {c}) = Cardinality(ReadersLeft(o)) - 1
  BY <1>1, OneLess
<1>3. ReadersLeft(o) \ {c} # {}
  BY <1>1, OneLess DEF CountRight
<1>4. Readers(o)' = Readers(o)
  BY DEF Readers
<1> QED BY <1>2, <1>3, <1>4 DEF CountRight

LEMMA ReapOkKeepsCounts ==
  ASSUME IInv, Tables, Stored, Ordered, Processes, ReapOk, \A o \in DOMAIN outputs : CountRight(o)
  PROVE  \A o \in DOMAIN outputs' : CountRight(o)'
<1> DEFINE j == Received.key
<1>1. /\ j \in RunningJobs /\ j \in Jobs /\ j \notin completed /\ completed' = completed \cup {j}
      /\ OutsOf(j) \cap DOMAIN outputs = {}
      /\ DOMAIN outputs' = (DOMAIN outputs \ LastRead(j)) \cup OutsOf(j)
      /\ \A o \in OutsOf(j) : outputs'[o] = StoredEntry(Received, o)
      /\ \A o \in DOMAIN outputs \ LastRead(j) :
              IF o \in ReadByReference(j)
                THEN outputs'[o] = [outputs[o] EXCEPT !.consumers = @ - 1]
                ELSE outputs'[o] = outputs[o]
  BY ReapOkTable DEF IInv
<1>2. RunningJobs' = RunningJobs \ {j}
  BY ReapedBooks DEF ReapOk
<1>3. Dispatched' = Dispatched
  BY <1>1, <1>2 DEF Dispatched
<1>4. \A c \in Dispatched : j \notin Producers(c)
  BY <1>1 DEF Ordered
<1> HIDE DEF j
<1>5. ASSUME NEW o \in OutsOf(j)
      PROVE  CountRight(o)'
  <2>1. Fanout(o) = Cardinality(Readers(o)) /\ o[1] = j
    BY <1>1, FanoutCountsReaders
  <2>2. /\ outputs'[o].consumers = Fanout(o) /\ outputs'[o].res \in {"private", "device"}
    BY <1>1, StoredEntryShape
  <2>3. Readers(o) \cap Dispatched = {} /\ Readers(o) \cap completed' = {}
    <3>1. \A c \in Readers(o) : j \in Producers(c)
      BY <2>1 DEF Readers, Producers
    <3> QED BY <1>1, <1>4, <3>1 DEF Dispatched
  <2>4. ReadersLeft(o)' = Readers(o)
    BY <1>3, <2>3, LeftNext
  <2>5. Readers(o)' = Readers(o)
    BY DEF Readers
  <2> QED BY <1>3, <2>1, <2>2, <2>3, <2>4, <2>5 DEF CountRight
<1>6. ASSUME NEW o \in DOMAIN outputs \ LastRead(j), o \notin ReadByReference(j)
      PROVE  CountRight(o)'
  <2>1. outputs'[o] = outputs[o] /\ CountRight(o) /\ o \in DOMAIN outputs'
    BY <1>1, <1>6
  <2>2. CASE o \in Deps[j]
    <3>1. outputs[o].res \notin ByReference
      BY <1>6, <2>2 DEF ReadByReference
    <3>2. ReadersLeft(o)' = ReadersLeft(o)
      BY <1>3, <2>1, <3>1, LeftNow, LeftNext
    <3>3. Readers(o)' = Readers(o)
      BY DEF Readers
    <3> QED BY <1>3, <2>1, <3>2, <3>3 DEF CountRight
  <2>3. CASE o \notin Deps[j]
    <3>1. Readers(o) \cap completed' = Readers(o) \cap completed
      BY <1>1, <2>3 DEF Readers
    <3> QED BY <1>3, <2>1, <3>1, CountKept
  <2> QED BY <2>2, <2>3
<1>7. ASSUME NEW o \in DOMAIN outputs \ LastRead(j), o \in ReadByReference(j)
      PROVE  CountRight(o)'
  <2>1. CountRight(o) /\ outputs'[o] = [outputs[o] EXCEPT !.consumers = @ - 1] /\ IsEntry(outputs[o])
    BY <1>1, <1>7 DEF Tables
  <2>2. /\ outputs'[o].consumers = outputs[o].consumers - 1 /\ outputs'[o].res = outputs[o].res
        /\ outputs[o].res \in ByReference /\ o \in Deps[j] /\ outputs[o].consumers # 1
    BY <1>7, <2>1, EntryWithFewer DEF ReadByReference, LastRead
  <2>3. j \in ReadersLeft(o) /\ ReadersLeft(o)' = ReadersLeft(o) \ {j}
    BY <1>1, <2>2, LeftNow, LeftNext DEF Readers
  <2>4. outputs'[o].res # "private"
    BY <2>2 DEF ByReference
  <2> QED BY <2>1, <2>2, <2>3, <2>4, CountDown
<1> QED BY <1>1, <1>5, <1>6, <1>7

LEMMA PoisonKeepsCounts ==
  ASSUME IInv, Stored, NEW k \in RunningJobs, Poison(Component(k)), \A o \in DOMAIN outputs : CountRight(o)
  PROVE  \A o \in DOMAIN outputs' : CountRight(o)'
<1> DEFINE C == Component(k)
<1>1. C \subseteq Jobs /\ Closed(C)
  BY ComponentIsLeastClosed DEF IInv, Books
<1>2. RunningJobs' = RunningJobs \ C /\ completed' = completed \ C
  BY PoisonBooks DEF BooksFail, IInv
<1>3. DOMAIN outputs' = {o \in DOMAIN outputs : o[1] \notin C}
      /\ \A o \in DOMAIN outputs' : outputs'[o] = outputs[o]
  BY DEF Poison, Restricted, HeldBy
<1> HIDE DEF C
<1>4. ASSUME NEW o \in DOMAIN outputs'
      PROVE  CountRight(o)'
  <2>1. o \in DOMAIN outputs /\ outputs'[o] = outputs[o] /\ CountRight(o) /\ o[1] \notin C
    BY <1>3, <1>4
  <2>2. Readers(o) \cap C = {}
    BY <1>1, <2>1 DEF Readers, Producers, Closed
  <2>3. Readers(o) \cap completed' = Readers(o) \cap completed
        /\ Readers(o) \cap Dispatched' = Readers(o) \cap Dispatched
    BY <1>2, <2>2 DEF Dispatched
  <2> QED BY <1>4, <2>1, <2>3, CountKept
<1> QED BY <1>4

LEMMA SpillKeepsCounts ==
  ASSUME IInv, Tables, Spill, \A o \in DOMAIN outputs : CountRight(o)
  PROVE  \A o \in DOMAIN outputs' : CountRight(o)'
<1>1. UNCHANGED <<completed, running, warmRunning>>
  BY DEF Spill, jobVars
<1>2. Dispatched' = Dispatched /\ completed' = completed
  BY <1>1 DEF Dispatched, RunningJobs
<1>3. outputs' = outputs \/ \E o \in DOMAIN outputs :
                              outputs[o].res = "private" /\ outputs' = [outputs EXCEPT ![o].res = "disk"]
  <2>1. PICK b \in PrivateBlobs : IF b[1] = "input" THEN UNCHANGED outputs
                                    ELSE outputs' = [outputs EXCEPT ![b[2]].res = "disk"]
    BY DEF Spill, Spillable
  <2>2. CASE b[1] = "input"
    BY <2>1, <2>2
  <2>3. CASE b[1] # "input"
    BY <2>1, <2>3 DEF PrivateBlobs
  <2> QED BY <2>2, <2>3
<1>4. CASE outputs' = outputs
  BY <1>2, <1>4, CountKept
<1>5. ASSUME NEW s \in DOMAIN outputs, outputs[s].res = "private", outputs' = [outputs EXCEPT ![s].res = "disk"]
      PROVE  \A o \in DOMAIN outputs' : CountRight(o)'
  <2>1. DOMAIN outputs' = DOMAIN outputs /\ \A o \in DOMAIN outputs \ {s} : outputs'[o] = outputs[o]
    BY <1>5
  <2>2. \A o \in DOMAIN outputs \ {s} : CountRight(o)'
    BY <1>2, <2>1, CountKept
  <2>3. CountRight(s)'
    <3>1. outputs'[s].res = "disk" /\ outputs'[s].consumers = outputs[s].consumers
      BY <1>5 DEF Tables, IsEntry
    <3>2. ReadersLeft(s)' = ReadersLeft(s) /\ Readers(s)' = Readers(s)
      BY <1>2, <1>5, <3>1, LeftNow, LeftNext DEF ByReference, Readers
    <3> QED BY <1>5, <3>1, <3>2 DEF CountRight
  <2> QED BY <2>1, <2>2, <2>3
<1> QED BY <1>3, <1>4, <1>5

LEMMA LaunchKeepsCounts ==
  ASSUME IInv, Tables, NEW j \in Jobs, NEW p, LaunchStep(j, p), \A o \in DOMAIN outputs : CountRight(o)
  PROVE  \A o \in DOMAIN outputs' : CountRight(o)'
<1>1. /\ j \notin RunningJobs \cup completed
      /\ RunningJobs' = RunningJobs \cup {j} /\ completed' = completed
      /\ Deps[j] \subseteq DOMAIN outputs /\ LaunchJob(j, p)
  BY LaunchBooks DEF LaunchStep, BooksStart, Ready
<1>2. Dispatched' = Dispatched \cup {j} /\ j \notin Dispatched
  BY <1>1 DEF Dispatched
<1>3. /\ DOMAIN outputs' = DOMAIN outputs \ LastCopied(j)
      /\ \A o \in ByRef(j) : outputs'[o] = Loaded(j, o, Domain(p))
      /\ \A o \in DOMAIN outputs \ Deps[j] : outputs'[o] = outputs[o]
  BY <1>1, LaunchTable
<1>4. ASSUME NEW o \in DOMAIN outputs', o \notin Deps[j]
      PROVE  CountRight(o)'
  <2>1. o \in DOMAIN outputs /\ outputs'[o] = outputs[o] /\ CountRight(o)
    BY <1>3, <1>4
  <2>2. Readers(o) \cap Dispatched' = Readers(o) \cap Dispatched
    BY <1>2, <1>4 DEF Readers
  <2> QED BY <1>1, <1>4, <2>1, <2>2, CountKept
<1>5. ASSUME NEW o \in DOMAIN outputs', o \in Copied(j)
      PROVE  CountRight(o)'
  <2>1. o \in Copied(j) \ LastCopied(j)
    BY <1>3, <1>5
  <2>2. /\ o \in DOMAIN outputs /\ outputs'[o].res = outputs[o].res
        /\ outputs'[o].shareable = outputs[o].shareable /\ outputs'[o].consumers = outputs[o].consumers - 1
    BY <1>1, <2>1, CopiedKeepShape
  <2>3. /\ o \in Deps[j] /\ outputs[o].res \notin ByReference /\ outputs[o].consumers # 1
        /\ ~(outputs[o].res = "private" /\ outputs[o].shareable)
    BY <2>1 DEF Copied, LastCopied, ToShare
  <2>4. j \in ReadersLeft(o) /\ ReadersLeft(o)' = ReadersLeft(o) \ {j}
    BY <1>2, <2>2, <2>3, LeftNow, LeftNext DEF Readers
  <2> QED BY <2>2, <2>3, <2>4, CountDown
<1>6. ASSUME NEW o \in DOMAIN outputs', o \in ByRef(j)
      PROVE  CountRight(o)'
  <2>1. o \in DOMAIN outputs /\ outputs'[o] = Loaded(j, o, Domain(p)) /\ CountRight(o) /\ o \in Deps[j]
    BY <1>3, <1>6 DEF ByRef
  <2>2. /\ outputs'[o].consumers = outputs[o].consumers
        /\ \/ o \in ToShare(j) /\ outputs'[o].res = "shared"
           \/ outputs[o].res \in ByReference /\ outputs'[o].res = outputs[o].res
    BY <1>6, <2>1, LoadedShape DEF ByReference
  <2>3. j \in Readers(o) /\ Readers(o)' = Readers(o)
    BY <2>1 DEF Readers
  <2>4. ReadersLeft(o)' = ReadersLeft(o)
    <3>1. CASE o \in ToShare(j) /\ outputs'[o].res = "shared"
      <4>1. Readers(o) \cap Dispatched = {} /\ outputs[o].res = "private"
        BY <2>1, <3>1 DEF CountRight, ToShare
      <4> QED BY <1>1, <3>1, <4>1, LeftNow, LeftNext DEF ByReference, Dispatched
    <3>2. CASE outputs[o].res \in ByReference /\ outputs'[o].res = outputs[o].res
      BY <1>1, <3>2, LeftNow, LeftNext
    <3> QED BY <2>2, <3>1, <3>2
  <2>5. outputs'[o].res # "private"
    BY <2>2 DEF ByReference
  <2> QED BY <2>1, <2>2, <2>3, <2>4, <2>5 DEF CountRight
<1> QED BY <1>4, <1>5, <1>6 DEF ByRef

(* Every count is the number of readers that have not finished.            *)
LEMMA CountedStepKeeps ==
  ASSUME IInv, Tables, Stored, Ordered, Processes, Counted, [Next]_vars
  PROVE  Counted'
<1> SUFFICES ASSUME phase' \notin {"closing", "done"}
             PROVE  \A o \in DOMAIN outputs' : CountRight(o)'
  BY DEF Counted
<1>1. phase \notin {"closing", "done"}
  <2>1. phase \in {"closing", "done"} => phase' \in {"closing", "done"}
    BY StepKinds DEF Quiet, ReapOk, ReapWrongShards, ReapError, Reaping, Launch, Spill, Close
  <2> QED BY <2>1
<1>2. \A o \in DOMAIN outputs : CountRight(o)
  BY <1>1 DEF Counted
<1>3. CASE Quiet
  <2>1. UNCHANGED <<completed, outputs>> /\ Dispatched' = Dispatched
    BY <1>3 DEF Quiet, Dispatched, RunningJobs
  <2> QED BY <1>2, <2>1, CountKept
<1>4. CASE ReapOk
  BY <1>2, <1>4, ReapOkKeepsCounts
<1>5. CASE ReapError
  <2>1. Received.key \in RunningJobs /\ Poison(Component(Received.key))
    BY <1>5 DEF ReapError, IsRunning, RunningJobs
  <2> QED BY <1>2, <2>1, PoisonKeepsCounts
<1>6. CASE Launch
  BY <1>2, <1>6, LaunchIsOneJob, LaunchKeepsCounts
<1>7. CASE Spill
  BY <1>2, <1>7, SpillKeepsCounts
<1>8. ~ReapWrongShards /\ ~Close
  BY DEF ReapWrongShards, Raise, Close
<1> QED BY <1>3, <1>4, <1>5, <1>6, <1>7, <1>8, StepKinds

(* A run that reports has no job in a worker and no shared segment left.   *)
LEMMA AccountedStepKeeps ==
  ASSUME IInv, Stored, Counted, Isolated, Accounted, [Next]_vars
  PROVE  Accounted'
<1>1. CASE Finish
  <2>1. UNCHANGED <<outputs, running, warmRunning>> /\ phase = "top" /\ AllAccounted
    BY <1>1 DEF Finish, jobVars, tableVars
  <2>2. completed \cup cancelled = Jobs
    BY <2>1, AccountedIsCovered DEF IInv
  <2>3. RunningJobs = {}
    BY <2>2 DEF IInv, Books
  <2>4. ASSUME NEW o \in DOMAIN outputs, outputs[o].res = "shared"
        PROVE  FALSE
    <3>1. CountRight(o)
      BY <2>1 DEF Counted
    <3>2. ReadersLeft(o) # {} /\ ReadersLeft(o) = Readers(o) \ completed
      BY <2>4, <3>1, LeftNow DEF CountRight, ByReference
    <3>3. PICK c \in Jobs : o \in Deps[c] /\ c \in cancelled
      BY <2>2, <3>2 DEF Readers
    <3>4. o[1] \in cancelled /\ o[1] \in completed
      BY <3>3 DEF Isolated, Closed, Producers, Stored
    <3> QED BY <3>4 DEF IInv, Books
  <2> QED BY <2>1, <2>3, <2>4 DEF Accounted, RunningJobs
<1>2. CASE ~Finish
  <2> SUFFICES ASSUME outcome' = "report"
               PROVE  RunningJobs' = {} /\ \A o \in DOMAIN outputs' : outputs'[o].res # "shared"
    BY DEF Accounted
  <2>1. outcome = "report"
    BY <1>2 DEF Next, Loop, Workers, Drain, ReapStale, ReapOk, ReapWrongShards, ReapError, ReapEmpty,
       AdmitRaises, Launch, EndAdmit, Spill, Stall, Close, FreshPosts, FreshDies, Sample, WarmFrees,
       WarmRuns, WarmTakes, vars, loopVars, MarkProgress, Raise
  <2>2. phase \in {"closing", "done"}
    BY <2>1 DEF IInv, Outcomes
  <2>3. Quiet \/ Close
    BY <2>2, StepKinds DEF ReapOk, ReapWrongShards, ReapError, Reaping, Launch, Spill
  <2>4. outputs' = outputs /\ RunningJobs' \subseteq RunningJobs
    BY <2>3 DEF Quiet, Close, RunningJobs
  <2> QED BY <2>1, <2>4 DEF Accounted
<1> QED BY <1>1, <1>2

-----------------------------------------------------------------------------
(* The inductive invariant.                                                *)

LEMMA HInvInit == Init => HInv
<1> SUFFICES ASSUME Init
             PROVE  HInv
  OBVIOUS
<1>1. /\ RunningJobs = {} /\ completed = {} /\ Dispatched = {} /\ DOMAIN outputs = {} /\ failures = {}
      /\ phase = "top" /\ outcome = "none" /\ computing = {} /\ warmUp = {} /\ results = <<>>
      /\ segments = {} /\ inputs = [j \in Jobs |-> "private"] /\ running = {}
      /\ warmQueue = [g \in GpuIds |-> <<>>] /\ cancelled = Abandoned
  BY DEF Init, RunningJobs, Dispatched
<1>2. Tables /\ Stored /\ Ordered /\ Counted /\ Accounted
  BY <1>1 DEF Tables, Stored, Ordered, Counted, Accounted
<1>3. Charged
  <2>1. DOMAIN ledger = InputKeys(Jobs) /\ PrivateInputs = Jobs
    BY <1>1 DEF Init, InputKeys, PrivateInputs
  <2>2. TableKeys = {}
    BY <1>1 DEF TableKeys, ChargeKeysOf
  <2>3. Holders = KindsHeld({}, Jobs, {}, {})
    BY <1>1, <2>1, <2>2, HoldersByKind
  <2> QED BY <2>1, <2>3 DEF Charged, KindsHeld, JobKeys, ContextKeys
<1>4. Segmented
  BY <1>1 DEF Segmented, SegmentsOf
<1>5. Processes
  <2>1. \A g \in GpuIds : warmQueue[g] = <<>>
    BY <1>1
  <2>2. Under = {}
    BY <1>1, <2>1 DEF Under, PostedIn, QueuedIn
  <2>3. results \in Seq(Message) /\ warmQueue \in [GpuIds -> Seq(Item)]
    BY <1>1
  <2>4. DOMAIN warmRunning = {}
    BY DEF Init
  <2> QED BY <1>1, <2>2, <2>3, <2>4 DEF Processes
<1>6. Isolated
  BY <1>1, AbandonedIsClosed DEF Isolated
<1> QED BY <1>2, <1>3, <1>4, <1>5, <1>6 DEF HInv

(* The inductive invariant of what the run holds, for every graph and      *)
(* every machine.                                                          *)
THEOREM HoldingInvariant == Spec => [](IInv /\ HInv)
<1>1. IInv /\ IInv' /\ HInv /\ [Next]_vars => HInv'
  <2> SUFFICES ASSUME IInv, HInv, [Next]_vars
               PROVE  HInv'
    OBVIOUS
  <2>1. Tables' /\ Stored' /\ Charged' /\ Segmented'
    BY TableStepKeeps DEF HInv, TableInv
  <2>2. Processes' /\ Ordered' /\ Isolated'
    BY ProcessesStepKeeps, OrderedStepKeeps, IsolatedStepKeeps DEF HInv
  <2>3. Counted' /\ Accounted'
    BY CountedStepKeeps, AccountedStepKeeps DEF HInv
  <2> QED BY <2>1, <2>2, <2>3 DEF HInv
<1> QED BY <1>1, HInvInit, BooksInvariant, PTL DEF Spec

(* The ledger charges exactly what is held, whatever the schedule: nothing *)
(* leaks, and no key is removed twice or charged twice.                    *)
THEOREM LedgerIsExact == Spec => []LedgerExact
<1>1. HInv => LedgerExact
  BY DEF HInv, Charged, LedgerExact
<1> QED BY <1>1, HoldingInvariant, PTL

(* A result is kept until its last reader has read it and no longer.       *)
THEOREM RefcountIsExact == Spec => []RefcountExact
<1>1. IInv /\ HInv => RefcountExact
  <2> SUFFICES ASSUME IInv, HInv, phase \notin {"closing", "done"}, NEW o \in DOMAIN outputs
               PROVE  /\ outputs[o].consumers = Cardinality(ReadersLeft(o))
                      /\ ReadersLeft(o) = {} => Fanout(o) = 0
    BY DEF RefcountExact
  <2>1. CountRight(o)
    BY DEF HInv, Counted
  <2>2. Fanout(o) = Cardinality(Readers(o))
    BY FanoutCountsReaders DEF HInv, Stored, IInv, Books
  <2> QED BY <2>1, <2>2, FS_EmptySet DEF CountRight
<1> QED BY <1>1, HoldingInvariant, PTL

(* A failure takes its whole lineage and nothing of another: the abandoned *)
(* jobs keep no process, no result, no input and no charge.                *)
THEOREM FailuresAreIsolated == Spec => []FailureIsolated
<1>1. IInv /\ HInv => FailureIsolated
  <2> SUFFICES ASSUME IInv, HInv, NEW f \in failures, NEW j \in Component(f)
               PROVE  /\ ~IsRunning(j) /\ j \notin computing
                      /\ OutsOf(j) \cap DOMAIN outputs = {}
                      /\ KeysOfJob(j) \cap DOMAIN ledger = {}
    BY DEF FailureIsolated, HInv, Isolated
  <2>1. j \in cancelled /\ j \in Jobs /\ inputs[j] = "gone"
    BY ComponentIsLeastClosed DEF HInv, Isolated, IInv, Books
  <2>2. j \notin RunningJobs /\ j \notin completed
    BY <2>1 DEF IInv, Books
  <2>3. ~IsRunning(j) /\ j \notin computing
    BY <2>2 DEF IsRunning, RunningJobs, HInv, Processes
  <2>4. \A o \in OutsOf(j) : o \notin DOMAIN outputs
    BY <2>1, <2>2, FanoutCountsReaders DEF HInv, Stored
  <2>5. DOMAIN ledger = KindsHeld(RunningJobs, PrivateInputs, TableKeys, warmUp)
    BY HoldersByKind DEF HInv, Charged
  <2>6. \A k \in TableKeys : k[1] \in {"output", "replica"} /\ k[2] \in DOMAIN outputs
    BY ChargeKeysShape DEF TableKeys, ChargeKeysOf
  <2>7. j \notin PrivateInputs
    BY <2>1 DEF PrivateInputs
  <2>8. KeysOfJob(j) \cap DOMAIN ledger = {}
    BY <2>2, <2>4, <2>5, <2>6, <2>7 DEF KeysOfJob, KindsHeld, JobKeys, InputKeys, ContextKeys
  <2> QED BY <2>3, <2>4, <2>8
<1> QED BY <1>1, HoldingInvariant, PTL

(* Nothing outlives the run, and a run that reports has no job, replica or *)
(* context charged any more.                                               *)
THEOREM ExitIsClean == Spec => []CleanExit
<1>1. IInv /\ HInv => CleanExit
  <2> SUFFICES ASSUME IInv, HInv, phase = "done"
               PROVE  /\ running = {} /\ computing = {} /\ segments = {}
                      /\ outcome = "report" => \A k \in DOMAIN ledger : k[1] \in {"input", "output"}
    BY DEF CleanExit
  <2>1. running = {} /\ computing = {} /\ segments = {}
    BY DEF HInv, Processes, Segmented
  <2>2. ASSUME outcome = "report", NEW k \in DOMAIN ledger
        PROVE  k[1] \in {"input", "output"}
    <3>1. RunningJobs = {} /\ \A o \in DOMAIN outputs : outputs[o].res # "shared"
      BY <2>2 DEF HInv, Accounted
    <3>2. k \in KindsHeld({}, PrivateInputs, TableKeys, warmUp)
      BY <3>1, HoldersByKind DEF HInv, Charged
    <3>3. \A x \in TableKeys : x[1] = "output"
      BY <3>1 DEF TableKeys, ChargeKeysOf, ChargeKeys
    <3>4. warmUp = {}
      BY DEF HInv, Processes
    <3> QED BY <3>2, <3>3, <3>4 DEF KindsHeld, JobKeys, InputKeys, ContextKeys
  <2> QED BY <2>1, <2>2
<1> QED BY <1>1, HoldingInvariant, PTL

-----------------------------------------------------------------------------
(* Cores.  Exclusive is CoresExclusive of any ledger; the inductive        *)
(* invariant adds that every charge has the shape of an allocation, so that*)
(* a sample changes nothing but the measured bytes.                        *)

IsAllocation(a) ==
  a = [cores |-> a.cores, ram |-> a.ram, node |-> a.node, gpu |-> a.gpu, vram |-> a.vram,
       actual |-> a.actual]
WellFormed(L) == \A k \in DOMAIN L : IsAllocation(L[k])
Exclusive(L) == \A a, b \in DOMAIN L : a # b => L[a].cores \cap L[b].cores = {}
Sound(L) == WellFormed(L) /\ Exclusive(L)

LEMMA ReleaseIsSound ==
  ASSUME NEW L, NEW K, Sound(L)
  PROVE  Sound(Release(L, K)) /\ AllocatedCores(Release(L, K)) \subseteq AllocatedCores(L)
BY DEF Sound, WellFormed, Exclusive, Release, AllocatedCores

(* Held results, replicas and contexts hold no cores.                      *)
Coreless(A) == \A k \in DOMAIN A : IsAllocation(A[k]) /\ A[k].cores = {}

LEMMA ChargeCorelessIsSound ==
  ASSUME NEW L, NEW A, Sound(L), Coreless(A)
  PROVE  Sound(Charge(L, A)) /\ AllocatedCores(Charge(L, A)) \subseteq AllocatedCores(L)
BY DEF Sound, WellFormed, Exclusive, Coreless, Charge, AllocatedCores

LEMMA ChargeOneIsSound ==
  ASSUME NEW L, NEW k, NEW a, Sound(L), IsAllocation(a), a.cores \cap AllocatedCores(L) = {}
  PROVE  Sound(Charge(L, Singleton(k, a)))
BY DEF Sound, WellFormed, Exclusive, Singleton, Charge, AllocatedCores

LEMMA AllocationShape ==
  ASSUME NEW c, NEW r, NEW n, NEW g, NEW v
  PROVE  IsAllocation(Allocation(c, r, n, g, v)) /\ Allocation(c, r, n, g, v).cores = c
BY DEF IsAllocation, Allocation

(* _take takes from the set it is given, so a placement grants free cores. *)
LEMMA TakeIsSubset ==
  ASSUME NEW S, NEW n
  PROVE  Take(S, n) \subseteq S
BY DEF Take

LEMMA PlacedCores ==
  ASSUME NEW path, NEW c, NEW n, NEW g
  PROVE  Placed(path, c, n, g).cores = c
BY DEF Placed

LEMMA GrantedCoresAreFree ==
  ASSUME NEW L, NEW path, NEW p \in PlaceNow(L, path)
  PROVE  p.cores \cap AllocatedCores(L) = {}
<1> DEFINE n == NodeSeq[Min(FittingNodes(L, path))].index
           g == GpuSeq[Min(FittingGpus(L, path))].index
           pinned == Placed(path, Take(FreeCores(L, n), path.cores), n, NoIndex)
           unpinned == Placed(path, Take(FreeCoresAll(L), path.cores), NoIndex, NoIndex)
           fed == Placed(path, Take(FreeCoresAll(L), path.cores), NoIndex, g)
<1> HIDE DEF n, g, pinned, unpinned, fed
<1>1. p \in {pinned, unpinned, fed}
  <2>1. CASE path.placement = "cpu_pinned"
    BY <2>1 DEF PlaceNow, n, pinned
  <2>2. CASE path.placement # "cpu_pinned"
    BY <2>2 DEF PlaceNow, g, unpinned, fed
  <2> QED BY <2>1, <2>2
<1>2. pinned.cores \cap AllocatedCores(L) = {}
  <2>1. Take(FreeCores(L, n), path.cores) \subseteq FreeCores(L, n)
    BY TakeIsSubset
  <2>2. pinned.cores = Take(FreeCores(L, n), path.cores)
    BY PlacedCores DEF pinned
  <2> QED BY <2>1, <2>2 DEF FreeCores
<1>3. Take(FreeCoresAll(L), path.cores) \cap AllocatedCores(L) = {}
  <2>1. Take(FreeCoresAll(L), path.cores) \subseteq FreeCoresAll(L)
    BY TakeIsSubset
  <2> QED BY <2>1 DEF FreeCoresAll
<1>4. unpinned.cores = Take(FreeCoresAll(L), path.cores)
  BY PlacedCores DEF unpinned
<1>5. fed.cores = Take(FreeCoresAll(L), path.cores)
  BY PlacedCores DEF fed
<1> QED BY <1>1, <1>2, <1>3, <1>4, <1>5

(* What each step of the loop does to the ledger.                          *)
LEMMA DrainIsSound ==
  ASSUME Sound(ledger), Drain
  PROVE  Sound(ledger')
<1>1. DOMAIN ledger' = DOMAIN ledger
  BY DEF Drain
<1>2. ASSUME NEW k \in DOMAIN ledger
      PROVE  IsAllocation(ledger'[k]) /\ ledger'[k].cores = ledger[k].cores
  <2>1. \/ ledger'[k] = ledger[k]
        \/ \E b : ledger'[k] = [ledger[k] EXCEPT !.actual = b]
    BY <1>2 DEF Drain
  <2>2. IsAllocation(ledger[k])
    BY <1>2 DEF Sound, WellFormed
  <2> QED BY <2>1, <2>2 DEF IsAllocation
<1> QED BY <1>1, <1>2 DEF Sound, WellFormed, Exclusive

LEMMA StoredChargesAreCoreless ==
  ASSUME NEW m, NEW S
  PROVE  Coreless([k \in {<<"output", o>> : o \in S} |-> StoredCharge(m, k[2])])
<1>1. ASSUME NEW o
      PROVE  IsAllocation(StoredCharge(m, o)) /\ StoredCharge(m, o).cores = {}
  BY AllocationShape DEF StoredCharge, HostBytes
<1> QED BY <1>1 DEF Coreless

LEMMA LaunchIsSound ==
  ASSUME Sound(ledger), NEW j, NEW p, NEW starts, p.cores \cap AllocatedCores(ledger) = {}
  PROVE  Sound(LaunchLedger(j, p, starts))
<1> DEFINE freed == {<<"output", o>> : o \in ToShare(j)} \cup ChargeKeysOf(outputs, LastCopied(j))
                      \cup {<<"input", j>>}
           L1 == Release(ledger, freed)
           replicas == ReplicaCharges(NewReplicas(j, Domain(p)), Domain(p))
           L2 == Charge(L1, replicas)
           L3 == Charge(L2, JobCharge(j, p))
<1> HIDE DEF freed, L1, replicas, L2, L3
<1>1. Sound(L1) /\ AllocatedCores(L1) \subseteq AllocatedCores(ledger)
  BY ReleaseIsSound DEF L1
<1>2. Coreless(replicas)
  BY AllocationShape DEF Coreless, replicas, ReplicaCharges, HostBytes
<1>3. Sound(L2) /\ AllocatedCores(L2) \subseteq AllocatedCores(L1)
  BY <1>1, <1>2, ChargeCorelessIsSound DEF L2
<1>4. Sound(L3)
  <2> DEFINE a == Allocation(p.cores, p.path.ram, p.node, p.gpu, p.path.vram)
  <2>1. IsAllocation(a) /\ a.cores = p.cores
    BY AllocationShape
  <2>2. a.cores \cap AllocatedCores(L2) = {}
    BY <1>1, <1>3, <2>1
  <2> HIDE DEF a
  <2>3. Sound(Charge(L2, Singleton(<<"job", j>>, a)))
    BY <1>3, <2>1, <2>2, ChargeOneIsSound
  <2> QED BY <2>3 DEF L3, JobCharge, a
<1>5. Coreless(ContextCharge(starts))
  BY AllocationShape DEF Coreless, ContextCharge
<1>6. Sound(Charge(L3, ContextCharge(starts)))
  BY <1>4, <1>5, ChargeCorelessIsSound
<1> QED BY <1>6 DEF LaunchLedger, L1, L2, L3, replicas, freed

(* The inductive invariant, one step per action that touches the ledger.   *)
THEOREM LedgerIsSound == Spec => []Sound(ledger)
<1>1. Init => Sound(ledger)
  BY AllocationShape DEF Init, Sound, WellFormed, Exclusive, HostBytes
<1>2. Sound(ledger) /\ [Next]_vars => Sound(ledger)'
  <2> SUFFICES ASSUME Sound(ledger), [Next]_vars
               PROVE  Sound(ledger')
    BY DEF Sound, WellFormed, Exclusive, IsAllocation
  <2>1. CASE Drain
    BY <2>1, DrainIsSound
  <2>2. CASE ReapOk
    <3> DEFINE keys == {<<"job", Received.key>>} \cup ChargeKeysOf(outputs, LastRead(Received.key))
               A == [k \in {<<"output", o>> : o \in OutsOf(Received.key)} |-> StoredCharge(Received, k[2])]
    <3>1. ledger' = Charge(Release(ledger, keys), A)
      BY <2>2 DEF ReapOk
    <3>2. Coreless(A)
      BY StoredChargesAreCoreless
    <3> HIDE DEF keys, A
    <3>3. Sound(Release(ledger, keys))
      BY ReleaseIsSound
    <3> QED BY <3>1, <3>2, <3>3, ChargeCorelessIsSound
  <2>3. CASE ReapWrongShards
    <3>1. PICK K : ledger' = Release(ledger, K)
      BY <2>3 DEF ReapWrongShards
    <3> QED BY <3>1, ReleaseIsSound
  <2>4. CASE ReapError
    <3>1. PICK K : ledger' = Release(ledger, K)
      BY <2>4 DEF ReapError, Poison
    <3> QED BY <3>1, ReleaseIsSound
  <2>5. CASE Launch
    <3>1. PICK j, p : p \in Placements(j) /\ LaunchJob(j, p)
      BY <2>5 DEF Launch
    <3>2. p.cores \cap AllocatedCores(ledger) = {}
      BY <3>1, GrantedCoresAreFree DEF Placements, Plan
    <3>3. PICK starts : ledger' = LaunchLedger(j, p, starts)
      BY <3>1 DEF LaunchJob, Dispatch
    <3> QED BY <3>2, <3>3, LaunchIsSound
  <2>6. CASE Spill
    <3>1. PICK K : ledger' = Release(ledger, K)
      BY <2>6 DEF Spill
    <3> QED BY <3>1, ReleaseIsSound
  <2>7. CASE Close
    <3>1. PICK K : ledger' = Release(ledger, K)
      BY <2>7 DEF Close
    <3> QED BY <3>1, ReleaseIsSound
  <2>8. CASE UNCHANGED ledger
    BY <2>8
  <2>9. \/ Drain \/ ReapOk \/ ReapWrongShards \/ ReapError \/ Launch \/ Spill \/ Close
        \/ UNCHANGED ledger
    BY DEF Next, Loop, Workers, Finish, ReapStale, ReapEmpty, AdmitRaises, EndAdmit, Stall,
           FreshPosts, FreshDies, Sample, WarmFrees, WarmRuns, WarmTakes, vars, tableVars
  <2> QED BY <2>1, <2>2, <2>3, <2>4, <2>5, <2>6, <2>7, <2>8, <2>9
<1> QED BY <1>1, <1>2, PTL DEF Spec

(* No core is granted to two jobs, whatever the machine, the graph and the *)
(* order of admissions, completions, failures and samples.                 *)
THEOREM CoresAreExclusive == Spec => []CoresExclusive
<1>1. Sound(ledger) => CoresExclusive
  BY DEF Sound, Exclusive, CoresExclusive
<1> QED BY <1>1, LedgerIsSound, PTL

-----------------------------------------------------------------------------
(* Where a placement puts a job, and what a step does to the entries of the*)
(* table: it stores the results of a completed job, counts a reader, shares*)
(* or replicates a result that is handed over, or moves one to disk.       *)

LEMMA PlacedWhere ==
  ASSUME NEW L, NEW path, NEW p \in PlaceNow(L, path)
  PROVE  /\ p.path = path
         /\ path.placement = "cpu_pinned" => p.node \in NodeIds
         /\ path.placement = "gpu" => p.gpu \in GpuIds
<1>1. /\ DOMAIN NodeSeq \subseteq Nat /\ DOMAIN GpuSeq \subseteq Nat
      /\ \A i \in DOMAIN NodeSeq : NodeSeq[i].index \in NodeIds
      /\ \A i \in DOMAIN GpuSeq : GpuSeq[i].index \in GpuIds
  BY InventoryAssumption DEF NodeIds, GpuIds
<1> DEFINE n == NodeSeq[Min(FittingNodes(L, path))].index
           g == GpuSeq[Min(FittingGpus(L, path))].index
<1>2. FittingNodes(L, path) # {} => n \in NodeIds
  <2>1. FittingNodes(L, path) \subseteq DOMAIN NodeSeq
    BY DEF FittingNodes
  <2>2. FittingNodes(L, path) # {} => Min(FittingNodes(L, path)) \in FittingNodes(L, path)
    BY <1>1, <2>1, LeastOf
  <2> QED BY <1>1, <2>1, <2>2
<1>3. FittingGpus(L, path) # {} => g \in GpuIds
  <2>1. FittingGpus(L, path) \subseteq DOMAIN GpuSeq
    BY DEF FittingGpus
  <2>2. FittingGpus(L, path) # {} => Min(FittingGpus(L, path)) \in FittingGpus(L, path)
    BY <1>1, <2>1, LeastOf
  <2> QED BY <1>1, <2>1, <2>2
<1> HIDE DEF n, g
<1>4. CASE path.placement = "cpu_pinned"
  <2>1. FittingNodes(L, path) # {} /\ \E c : p = Placed(path, c, n, NoIndex)
    BY <1>4 DEF PlaceNow, n
  <2> QED BY <1>2, <1>4, <2>1 DEF Placed
<1>5. CASE path.placement = "gpu"
  <2>1. FittingGpus(L, path) # {} /\ \E c : p = Placed(path, c, NoIndex, g)
    BY <1>5 DEF PlaceNow, g
  <2> QED BY <1>3, <1>5, <2>1 DEF Placed
<1>6. CASE path.placement \notin {"cpu_pinned", "gpu"}
  <2>1. \E c, m, h : p = Placed(path, c, m, h)
    BY <1>6 DEF PlaceNow
  <2> QED BY <1>6, <2>1 DEF Placed
<1> QED BY <1>4, <1>5, <1>6

LEMMA LaunchedWhere ==
  ASSUME NEW j \in Jobs, NEW p \in Placements(j)
  PROVE  Domain(p) \in Domains /\ (p.path.placement = "gpu" => p.gpu \in GpuIds)
<1>1. p \in PlaceNow(ledger, PathsNow(j)[Min(CapablePaths(PathsNow(j)))])
  BY DEF Placements, Plan
<1> QED BY <1>1, PlacedWhere DEF Domain, Domains

EntryStep(o, e, f) ==
  /\ IsEntry(f) /\ f.gpu = e.gpu /\ f.shareable = e.shareable
  /\ \/ f.res = e.res /\ f.size = e.size /\ f.domains = e.domains
     \/ /\ e.res = "shared" /\ f.res = "shared" /\ f.size = e.size
        /\ \E d \in Domains : f.domains = e.domains \cup {d}
     \/ /\ e.res = "private" /\ e.shareable /\ f.res = "shared" /\ f.size = OutBytes[o]
        /\ \E d \in Domains : f.domains = {d}
     \/ /\ e.res = "private" /\ f.res = "disk" /\ f.size = e.size /\ f.domains = e.domains
        /\ e.size >= SpillFloor
EntryStored(o) ==
  ReapOk /\ o \in OutsOf(Received.key) /\ outputs'[o] = StoredEntry(Received, o)

LEMMA LoadedStep ==
  ASSUME Tables, NEW j, NEW d \in Domains, NEW o \in ByRef(j), o \in DOMAIN outputs
  PROVE  EntryStep(o, outputs[o], Loaded(j, o, d))
<1> DEFINE e == outputs[o]
           f == Loaded(j, o, d)
<1>1. IsEntry(e)
  BY DEF Tables
<1>2. CASE o \in ToShare(j)
  <2>1. e.res = "private" /\ e.shareable
    BY <1>2 DEF ToShare
  <2>2. f = [e EXCEPT !.res = "shared", !.size = OutBytes[o], !.domains = {d}]
    BY <1>2, <2>1 DEF Loaded
  <2> HIDE DEF f, e
  <2>3. IsEntry(f) /\ f.gpu = e.gpu /\ f.shareable = e.shareable
        /\ f.res = "shared" /\ f.size = OutBytes[o] /\ f.domains = {d}
    BY <1>1, <2>2 DEF IsEntry
  <2>4. EntryStep(o, e, f)
    BY <2>1, <2>3 DEF EntryStep
  <2> QED BY <2>4 DEF e, f
<1>3. CASE o \notin ToShare(j) /\ e.res = "shared" /\ d # NoIndex
  <2>1. f = [e EXCEPT !.domains = @ \cup {d}]
    BY <1>3 DEF Loaded
  <2> HIDE DEF f, e
  <2>2. IsEntry(f) /\ f.gpu = e.gpu /\ f.shareable = e.shareable
        /\ f.res = e.res /\ f.size = e.size /\ f.domains = e.domains \cup {d}
    BY <1>1, <2>1 DEF IsEntry
  <2>3. EntryStep(o, e, f)
    BY <1>3, <2>2 DEF EntryStep
  <2> QED BY <2>3 DEF e, f
<1>4. CASE o \notin ToShare(j) /\ ~(e.res = "shared" /\ d # NoIndex)
  <2>1. f = e
    BY <1>4 DEF Loaded
  <2> QED BY <1>1, <2>1 DEF EntryStep
<1> QED BY <1>2, <1>3, <1>4

LEMMA SameStep ==
  ASSUME NEW o, NEW e, IsEntry(e)
  PROVE  EntryStep(o, e, e) /\ EntryStep(o, e, [e EXCEPT !.consumers = @ - 1])
<1>1. EntryStep(o, e, e)
  BY DEF EntryStep
<1> DEFINE f == [e EXCEPT !.consumers = @ - 1]
<1>2. IsEntry(f) /\ f.res = e.res /\ f.domains = e.domains /\ f.shareable = e.shareable
        /\ f.gpu = e.gpu /\ f.size = e.size
  BY EntryWithFewer
<1> HIDE DEF f
<1>3. EntryStep(o, e, f)
  BY <1>2 DEF EntryStep
<1> QED BY <1>1, <1>3 DEF f

LEMMA EntriesStep ==
  ASSUME IInv, HInv, [Next]_vars, NEW o \in DOMAIN outputs'
  PROVE  EntryStored(o) \/ (o \in DOMAIN outputs /\ EntryStep(o, outputs[o], outputs'[o]))
<1>1. /\ Books /\ Tables /\ Stored /\ Processes
      /\ \A x \in DOMAIN outputs : IsEntry(outputs[x])
  BY DEF IInv, HInv, Tables
<1>2. CASE Quiet \/ Close \/ ReapWrongShards
  <2>1. outputs' = outputs
    BY <1>2 DEF Quiet, Close, ReapWrongShards
  <2> QED BY <1>1, <2>1, SameStep
<1>3. CASE ReapOk
  <2> DEFINE j == Received.key
  <2>1. /\ DOMAIN outputs' = (DOMAIN outputs \ LastRead(j)) \cup OutsOf(j)
        /\ \A x \in OutsOf(j) : outputs'[x] = StoredEntry(Received, x)
        /\ \A x \in DOMAIN outputs \ LastRead(j) :
              IF x \in ReadByReference(j)
                THEN outputs'[x] = [outputs[x] EXCEPT !.consumers = @ - 1]
                ELSE outputs'[x] = outputs[x]
    BY <1>1, <1>3, ReapOkTable
  <2>2. CASE o \in OutsOf(j)
    BY <1>3, <2>1, <2>2 DEF EntryStored
  <2>3. CASE o \notin OutsOf(j)
    <3>1. o \in DOMAIN outputs /\ IsEntry(outputs[o])
      BY <1>1, <2>1, <2>3
    <3>2. CASE outputs'[o] = outputs[o]
      BY <3>1, <3>2, SameStep
    <3>3. CASE outputs'[o] = [outputs[o] EXCEPT !.consumers = @ - 1]
      BY <3>1, <3>3, SameStep
    <3> QED BY <2>1, <2>3, <3>2, <3>3
  <2> QED BY <2>2, <2>3
<1>4. CASE ReapError
  <2>1. o \in DOMAIN outputs /\ outputs'[o] = outputs[o]
    BY <1>4 DEF ReapError, Poison, Restricted
  <2> QED BY <1>1, <2>1, SameStep
<1>5. CASE Launch
  <2>1. PICK j \in Jobs : \E p \in Placements(j) : LaunchStep(j, p)
    BY <1>5, LaunchIsOneJob
  <2>2. PICK p \in Placements(j) : LaunchStep(j, p)
    BY <2>1
  <2>3. /\ DOMAIN outputs' = DOMAIN outputs \ LastCopied(j)
        /\ \A x \in Copied(j) \ LastCopied(j) : outputs'[x] = [outputs[x] EXCEPT !.consumers = @ - 1]
        /\ \A x \in ByRef(j) : outputs'[x] = Loaded(j, x, Domain(p))
        /\ \A x \in DOMAIN outputs \ Deps[j] : outputs'[x] = outputs[x]
    BY <1>1, <2>2, LaunchTable DEF LaunchStep
  <2>4. o \in DOMAIN outputs /\ o \notin LastCopied(j) /\ Domain(p) \in Domains
    BY <2>2, <2>3, LaunchedWhere
  <2>5. CASE o \in ByRef(j)
    BY <1>1, <2>3, <2>4, <2>5, LoadedStep
  <2>6. CASE o \in Copied(j)
    <3>1. outputs'[o] = [outputs[o] EXCEPT !.consumers = @ - 1]
      BY <2>3, <2>4, <2>6
    <3> QED BY <1>1, <2>4, <3>1, SameStep
  <2>7. CASE o \notin Deps[j]
    <3>1. outputs'[o] = outputs[o]
      BY <2>3, <2>4, <2>7
    <3> QED BY <1>1, <2>4, <3>1, SameStep
  <2> QED BY <2>5, <2>6, <2>7 DEF ByRef
<1>6. CASE Spill
  <2>1. PICK b \in PrivateBlobs :
          /\ BlobSize(b) >= SpillFloor
          /\ IF b[1] = "input" THEN UNCHANGED outputs ELSE outputs' = [outputs EXCEPT ![b[2]].res = "disk"]
    BY <1>6 DEF Spill, Spillable
  <2>2. CASE outputs' = outputs
    BY <1>1, <2>2, SameStep
  <2>3. CASE outputs' # outputs
    <3>1. PICK x \in DOMAIN outputs : b = <<"output", x>> /\ outputs[x].res = "private"
      BY <2>1, <2>3 DEF PrivateBlobs
    <3>2. outputs' = [outputs EXCEPT ![x].res = "disk"] /\ outputs[x].size >= SpillFloor
      BY <2>1, <2>3, <3>1 DEF BlobSize
    <3>3. CASE o = x
      <4> DEFINE e == outputs[o]
                 f == outputs'[o]
      <4>1. f = [e EXCEPT !.res = "disk"] /\ IsEntry(e) /\ e.res = "private" /\ e.size >= SpillFloor
        BY <1>1, <3>1, <3>2, <3>3
      <4> HIDE DEF e, f
      <4>2. IsEntry(f) /\ f.gpu = e.gpu /\ f.shareable = e.shareable /\ f.res = "disk"
            /\ f.size = e.size /\ f.domains = e.domains
        BY <4>1 DEF IsEntry
      <4>3. EntryStep(o, e, f)
        BY <4>1, <4>2 DEF EntryStep
      <4> QED BY <3>1, <3>3, <4>3 DEF e, f
    <3>4. CASE o # x
      <4>1. o \in DOMAIN outputs /\ outputs'[o] = outputs[o]
        BY <3>2, <3>4
      <4> QED BY <1>1, <4>1, SameStep
    <3> QED BY <3>3, <3>4
  <2> QED BY <2>2, <2>3
<1> QED BY <1>2, <1>3, <1>4, <1>5, <1>6, StepKinds

-----------------------------------------------------------------------------
(* The disk budget.  diskUsed is kept by additions and subtractions; that  *)
(* it stays the sum over what lies on disk needs the sizes to be numbers   *)
(* and every blob that leaves the disk to be subtracted at its size.       *)

SizesOf(T) == [o \in DOMAIN T |-> T[o].size]
DiskResults(T) == {o \in DOMAIN T : T[o].res = "disk"}
DiskInputs == {j \in Jobs : inputs[j] = "disk"}
Sized == \A o \in DOMAIN outputs : outputs[o].size \in Nat
BytesIn(T, R, I) == Total(SizesOf(T), R) + Total(InputSize, I)
DiskCounted == diskUsed = BytesIn(outputs, DiskResults(outputs), DiskInputs)
SInv == Sized /\ DiskCounted /\ diskUsed <= SpillBudget

LEMMA ImageIsFinite ==
  ASSUME NEW S, IsFiniteSet(S), NEW f, f = [x \in S |-> f[x]]
  PROVE  IsFiniteSet({f[x] : x \in S})
<1>1. f \in Surjection(S, {f[x] : x \in S})
  BY DEF Surjection
<1> QED BY <1>1, FS_Surjection

LEMMA OutsAreFinite == IsFiniteSet(Outs)
<1>1. ASSUME NEW j \in Jobs
      PROVE  IsFiniteSet(OutsOf(j))
  <2>1. CASE Shards[j] = {}
    BY <2>1, FS_Singleton DEF OutsOf
  <2>2. CASE Shards[j] # {}
    <3>1. IsFiniteSet(Shards[j])
      BY GraphAssumption
    <3> DEFINE f == [s \in Shards[j] |-> <<j, s>>]
    <3>2. IsFiniteSet({f[s] : s \in Shards[j]})
      BY <3>1, ImageIsFinite
    <3>3. {f[s] : s \in Shards[j]} = {<<j, s>> : s \in Shards[j]}
      OBVIOUS
    <3> QED BY <2>2, <3>2, <3>3 DEF OutsOf
  <2> QED BY <2>1, <2>2
<1> DEFINE f == [j \in Jobs |-> OutsOf(j)]
           families == {f[j] : j \in Jobs}
<1>2. IsFiniteSet(families)
  BY JobsAreFinite, ImageIsFinite
<1>3. \A g \in families : IsFiniteSet(g)
  BY <1>1
<1>4. Outs = UNION families
  BY DEF Outs
<1> HIDE DEF families
<1>5. IsFiniteSet(UNION families)
  BY <1>2, <1>3, FS_UNION
<1> QED BY <1>4, <1>5

LEMMA SizesAreNumbers ==
  ASSUME Books, Stored
  PROVE  /\ IsFiniteSet(DOMAIN outputs) /\ IsFiniteSet(Jobs)
         /\ \A j \in Jobs : InputSize[j] \in Nat
         /\ \A o \in Outs : OutBytes[o] \in Nat /\ HeldSize(o) \in Nat
<1>1. IsFiniteSet(DOMAIN outputs)
  BY OutputsAreOuts, OutsAreFinite, FS_Subset
<1>2. ASSUME NEW o \in Outs
      PROVE  OutBytes[o] \in Nat /\ HeldSize(o) \in Nat
  <2>1. OutBytes[o] \in Nat
    BY SizeAssumption
  <2>2. o[1] \in Jobs
    BY FanoutCountsReaders DEF Outs
  <2>3. DeclaredOut[o[1]] \in Int
    BY <2>2, SizeAssumption
  <2> QED BY <2>1, <2>3 DEF HeldSize
<1> QED BY <1>1, <1>2, JobsAreFinite, SizeAssumption

(* The bytes on disk of some results and inputs, and what the rest have.   *)
LEMMA DiskSplits ==
  ASSUME Books, Stored, Sized, NEW S \in SUBSET DOMAIN outputs, NEW K \in SUBSET Jobs
  PROVE  /\ OnDisk(outputs, S, K) \in Nat
         /\ BytesIn(outputs, DiskResults(outputs) \ S, DiskInputs \ K)
              = BytesIn(outputs, DiskResults(outputs), DiskInputs) - OnDisk(outputs, S, K)
<1> DEFINE w == SizesOf(outputs)
           all == DiskResults(outputs)
           part == {o \in S : outputs[o].res = "disk"}
           in == {j \in K : inputs[j] = "disk"}
<1>1. /\ part \in SUBSET all /\ all \ S = all \ part /\ in \in SUBSET DiskInputs
      /\ DiskInputs \ K = DiskInputs \ in
  BY DEF DiskResults, DiskInputs
<1>2. /\ IsFiniteSet(all) /\ IsFiniteSet(part) /\ IsFiniteSet(DiskInputs) /\ IsFiniteSet(in)
      /\ \A o \in all : w[o] \in Nat
      /\ \A j \in DiskInputs : InputSize[j] \in Nat
  <2>1. all \subseteq DOMAIN outputs /\ part \subseteq DOMAIN outputs /\ DiskInputs \subseteq Jobs
        /\ in \subseteq Jobs
    BY DEF DiskResults, DiskInputs
  <2>2. IsFiniteSet(DOMAIN outputs) /\ IsFiniteSet(Jobs) /\ \A j \in Jobs : InputSize[j] \in Nat
    BY SizesAreNumbers
  <2>3. \A o \in all : w[o] \in Nat
    BY <2>1 DEF SizesOf, Sized
  <2> HIDE DEF all, part, in
  <2> QED BY <2>1, <2>2, <2>3, FS_Subset
<1>3. OnDisk(outputs, S, K) = Total(w, part) + Total(InputSize, in)
  <2>1. \A o \in part : [x \in S |-> outputs[x].size][o] = w[o]
    BY DEF SizesOf
  <2>2. Total([x \in S |-> outputs[x].size], part) = Total(w, part)
    BY <1>2, <2>1, TotalSame
  <2> QED BY <2>2 DEF OnDisk
<1> HIDE DEF w, all, part, in
<1>4. Total(w, all) = Total(w, part) + Total(w, all \ part)
  <2>1. \A o \in all : w[o] \in Int
    BY <1>2
  <2> QED BY <1>1, <1>2, <2>1, TotalSplit
<1>5. Total(InputSize, DiskInputs) = Total(InputSize, in) + Total(InputSize, DiskInputs \ in)
  <2>1. \A j \in DiskInputs : InputSize[j] \in Int
    BY <1>2
  <2> QED BY <1>1, <1>2, <2>1, TotalSplit
<1>6. Total(w, part) \in Nat /\ Total(w, all \ part) \in Nat
  <2>1. IsFiniteSet(all \ part) /\ \A o \in part : w[o] \in Nat
    BY <1>1, <1>2, FS_Difference
  <2> QED BY <1>2, <2>1, TotalIsNat
<1>7. Total(InputSize, in) \in Nat /\ Total(InputSize, DiskInputs \ in) \in Nat
  <2>1. IsFiniteSet(DiskInputs \ in) /\ \A j \in in : InputSize[j] \in Nat
    BY <1>1, <1>2, FS_Difference
  <2> QED BY <1>2, <2>1, TotalIsNat
<1>8. Total(w, all \ S) = Total(w, all \ part) /\ Total(InputSize, DiskInputs \ K) = Total(InputSize, DiskInputs \ in)
  BY <1>1
<1>9. Total(w, all \ S) + Total(InputSize, DiskInputs \ K)
        = Total(w, all) + Total(InputSize, DiskInputs) - OnDisk(outputs, S, K)
      /\ OnDisk(outputs, S, K) \in Nat
  BY <1>3, <1>4, <1>5, <1>6, <1>7, <1>8
<1>10. BytesIn(outputs, all \ S, DiskInputs \ K) = Total(w, all \ S) + Total(InputSize, DiskInputs \ K)
  BY DEF BytesIn, w
<1>11. BytesIn(outputs, all, DiskInputs) = Total(w, all) + Total(InputSize, DiskInputs)
  BY DEF BytesIn, w
<1>12. BytesIn(outputs, all \ S, DiskInputs \ K) = BytesIn(outputs, all, DiskInputs) - OnDisk(outputs, S, K)
  <2>1. Total(w, all) \in Int /\ Total(InputSize, DiskInputs) \in Int /\ OnDisk(outputs, S, K) \in Int
    BY <1>3, <1>4, <1>5, <1>6, <1>7
  <2> QED BY <1>9, <1>10, <1>11, <2>1
<1> QED BY <1>9, <1>12 DEF all

LEMMA DiskIsNumber ==
  ASSUME Books, Stored, SInv
  PROVE  diskUsed \in Int
<1>1. BytesIn(outputs, DiskResults(outputs), DiskInputs) \in Int
  <2>1. IsFiniteSet(DiskResults(outputs)) /\ IsFiniteSet(DiskInputs)
    BY SizesAreNumbers, FS_Subset DEF DiskResults, DiskInputs
  <2>2. \A o \in DiskResults(outputs) : SizesOf(outputs)[o] \in Int
    BY DEF DiskResults, SizesOf, SInv, Sized
  <2>3. \A j \in DiskInputs : InputSize[j] \in Int
    BY SizesAreNumbers DEF DiskInputs
  <2>4. Total(SizesOf(outputs), DiskResults(outputs)) \in Int
    BY <2>1, <2>2, TotalType
  <2>5. Total(InputSize, DiskInputs) \in Int
    BY <2>1, <2>3, TotalType
  <2> QED BY <2>4, <2>5 DEF BytesIn
<1> QED BY <1>1 DEF SInv, DiskCounted

(* A step that takes S and K off the disk, if they were there.             *)
LEMMA DiskStep ==
  ASSUME Books, Stored, Books', Stored', SInv, Sized',
         NEW S \in SUBSET DOMAIN outputs, NEW K \in SUBSET Jobs,
         DiskResults(outputs') = DiskResults(outputs) \ S,
         \A o \in DiskResults(outputs') : outputs'[o].size = outputs[o].size,
         DiskInputs' = DiskInputs \ K,
         diskUsed' = diskUsed - OnDisk(outputs, S, K)
  PROVE  SInv'
<1> DEFINE rest == DiskResults(outputs) \ S
<1>1. \A o \in rest : SizesOf(outputs')[o] = SizesOf(outputs)[o]
  <2>1. ASSUME NEW o \in rest
        PROVE  o \in DOMAIN outputs' /\ o \in DOMAIN outputs /\ outputs'[o].size = outputs[o].size
    BY <2>1 DEF DiskResults
  <2> QED BY <2>1 DEF SizesOf
<1>2. IsFiniteSet(rest)
  <2>1. IsFiniteSet(DOMAIN outputs)
    BY SizesAreNumbers
  <2>2. rest \subseteq DOMAIN outputs
    BY DEF DiskResults
  <2> QED BY <2>1, <2>2, FS_Subset
<1> HIDE DEF rest
<1>3. Total(SizesOf(outputs'), rest) = Total(SizesOf(outputs), rest)
  BY <1>1, <1>2, TotalSame
<1>4. /\ OnDisk(outputs, S, K) \in Nat
      /\ BytesIn(outputs, DiskResults(outputs) \ S, DiskInputs \ K) = diskUsed - OnDisk(outputs, S, K)
  <2>1. /\ OnDisk(outputs, S, K) \in Nat
        /\ BytesIn(outputs, DiskResults(outputs) \ S, DiskInputs \ K)
             = BytesIn(outputs, DiskResults(outputs), DiskInputs) - OnDisk(outputs, S, K)
    BY DiskSplits DEF SInv
  <2> QED BY <2>1 DEF SInv, DiskCounted
<1>5. DiskCounted'
  <2>1. BytesIn(outputs', rest, DiskInputs \ K) = BytesIn(outputs, rest, DiskInputs \ K)
    BY <1>3 DEF BytesIn
  <2>2. BytesIn(outputs, rest, DiskInputs \ K) = diskUsed'
    BY <1>4 DEF rest
  <2>3. BytesIn(outputs', DiskResults(outputs'), DiskInputs') = diskUsed'
    BY <2>1, <2>2 DEF rest
  <2> QED BY <2>3 DEF DiskCounted
<1>6. diskUsed \in Int
  BY DiskIsNumber
<1>7. diskUsed' <= SpillBudget
  BY <1>4, <1>6, SizeAssumption DEF SInv
<1> QED BY <1>5, <1>7 DEF SInv

LEMMA StoredEntrySize ==
  ASSUME NEW m, NEW o
  PROVE  StoredEntry(m, o).size \in {HeldSize(o), OutBytes[o]}
BY DEF StoredEntry, DeviceEntry, HostEntry

LEMMA SizedStepKeeps ==
  ASSUME IInv, HInv, Sized, [Next]_vars
  PROVE  Sized'
<1> SUFFICES ASSUME NEW o \in DOMAIN outputs'
             PROVE  outputs'[o].size \in Nat
  BY DEF Sized
<1>1. /\ Books /\ Stored /\ Processes
      /\ \A x \in Outs : OutBytes[x] \in Nat /\ HeldSize(x) \in Nat
  BY SizesAreNumbers DEF IInv, HInv
<1>2. CASE EntryStored(o)
  <2>1. Received.key \in Jobs
    BY <1>1, <1>2, ReceivedIsLaunched DEF EntryStored, ReapOk
  <2>2. o \in Outs
    BY <1>2, <2>1 DEF EntryStored, Outs
  <2> QED BY <1>1, <1>2, <2>2, StoredEntrySize DEF EntryStored
<1>3. CASE o \in DOMAIN outputs /\ EntryStep(o, outputs[o], outputs'[o])
  <2>1. outputs[o].size \in Nat /\ OutBytes[o] \in Nat
    BY <1>1, <1>3, OutputsAreOuts DEF Sized
  <2> QED BY <1>3, <2>1 DEF EntryStep
<1> QED BY <1>2, <1>3, EntriesStep

LEMMA NothingOnDisk == OnDisk(outputs, {}, {}) = 0
<1> DEFINE w == [o \in {} |-> outputs[o].size]
<1>1. Total(w, {}) = 0 /\ Total(InputSize, {}) = 0
  BY TotalEmpty
<1>2. {o \in {} : outputs[o].res = "disk"} = {} /\ {j \in {} : inputs[j] = "disk"} = {}
  OBVIOUS
<1>3. OnDisk(outputs, {}, {}) = Total(w, {}) + Total(InputSize, {})
  BY <1>2 DEF OnDisk
<1> QED BY <1>1, <1>3

(* One lemma per action that changes what lies on disk, and one for the    *)
(* others.                                                                 *)
LEMMA DiskUntouched ==
  ASSUME Books, Stored, Books', Stored', SInv, Sized', UNCHANGED <<inputs, diskUsed>>,
         DiskResults(outputs') = DiskResults(outputs),
         \A o \in DiskResults(outputs') : outputs'[o].size = outputs[o].size
  PROVE  SInv'
<1>1. DiskResults(outputs') = DiskResults(outputs) \ {} /\ DiskInputs' = DiskInputs \ {}
      /\ {} \in SUBSET DOMAIN outputs /\ {} \in SUBSET Jobs
  BY DEF DiskInputs
<1>2. diskUsed \in Int
  BY DiskIsNumber
<1>3. diskUsed' = diskUsed - OnDisk(outputs, {}, {})
  BY <1>2, NothingOnDisk
<1> QED BY <1>1, <1>3, DiskStep

LEMMA ReapOkKeepsDisk ==
  ASSUME IInv, HInv, IInv', HInv', SInv, Sized', ReapOk
  PROVE  SInv'
<1> DEFINE j == Received.key
<1>1. /\ DOMAIN outputs' = (DOMAIN outputs \ LastRead(j)) \cup OutsOf(j)
      /\ OutsOf(j) \cap DOMAIN outputs = {}
      /\ \A o \in OutsOf(j) : outputs'[o] = StoredEntry(Received, o)
      /\ \A o \in DOMAIN outputs \ LastRead(j) :
           IF o \in ReadByReference(j)
             THEN outputs'[o] = [outputs[o] EXCEPT !.consumers = @ - 1]
             ELSE outputs'[o] = outputs[o]
  BY ReapOkTable DEF IInv, HInv
<1>2. \A o \in OutsOf(j) : outputs'[o].res # "disk"
  BY <1>1, StoredEntryShape
<1>3. ASSUME NEW o \in DOMAIN outputs \ LastRead(j)
      PROVE  outputs'[o].res = outputs[o].res /\ outputs'[o].size = outputs[o].size
  <2>1. IsEntry(outputs[o])
    BY <1>3 DEF HInv, Tables
  <2> QED BY <1>1, <1>3, <2>1, EntryWithFewer
<1>4. \A o \in LastRead(j) : outputs[o].res # "disk"
  BY DEF LastRead, ReadByReference, ByReference
<1>5. /\ DiskResults(outputs') = DiskResults(outputs)
      /\ \A o \in DiskResults(outputs') : outputs'[o].size = outputs[o].size
  BY <1>1, <1>2, <1>3, <1>4 DEF DiskResults
<1>6. UNCHANGED <<inputs, diskUsed>>
  BY DEF ReapOk
<1> QED BY <1>5, <1>6, DiskUntouched DEF IInv, HInv

LEMMA PoisonKeepsDisk ==
  ASSUME IInv, HInv, IInv', HInv', SInv, Sized', NEW C \in SUBSET Jobs, Poison(C)
  PROVE  SInv'
<1> DEFINE held == HeldBy(C)
<1>1. /\ outputs' = Restricted(outputs, DOMAIN outputs \ held)
      /\ inputs' = [j \in Jobs |-> IF j \in C THEN "gone" ELSE inputs[j]]
      /\ diskUsed' = diskUsed - OnDisk(outputs, held, C)
  BY DEF Poison
<1>2. held \in SUBSET DOMAIN outputs
  BY DEF HeldBy
<1> HIDE DEF held
<1>3. DOMAIN outputs' = DOMAIN outputs \ held /\ \A o \in DOMAIN outputs' : outputs'[o] = outputs[o]
  BY <1>1 DEF Restricted
<1>4. /\ DiskResults(outputs') = DiskResults(outputs) \ held
      /\ \A o \in DiskResults(outputs') : outputs'[o].size = outputs[o].size
  BY <1>3 DEF DiskResults
<1>5. DiskInputs' = DiskInputs \ C
  BY <1>1 DEF DiskInputs
<1> QED BY <1>1, <1>2, <1>4, <1>5, DiskStep DEF IInv, HInv

LEMMA LaunchKeepsDisk ==
  ASSUME IInv, HInv, IInv', HInv', SInv, Sized', Launch
  PROVE  SInv'
<1>1. PICK j \in Jobs : \E p \in Placements(j) : LaunchStep(j, p)
  BY LaunchIsOneJob
<1>2. PICK p \in Placements(j) : LaunchStep(j, p)
  BY <1>1
<1> DEFINE last == LastCopied(j)
<1>3. /\ DOMAIN outputs' = DOMAIN outputs \ last
      /\ last \subseteq Copied(j) /\ Copied(j) \subseteq Deps[j]
      /\ \A o \in Copied(j) \ last : outputs'[o] = [outputs[o] EXCEPT !.consumers = @ - 1]
      /\ \A o \in ByRef(j) : outputs'[o] = Loaded(j, o, Domain(p))
      /\ \A o \in DOMAIN outputs \ Deps[j] : outputs'[o] = outputs[o]
  BY <1>2, LaunchTable DEF LaunchStep, HInv
<1>4. /\ Deps[j] \subseteq DOMAIN outputs
      /\ inputs' = [inputs EXCEPT ![j] = "gone"]
      /\ diskUsed' = diskUsed - OnDisk(outputs, last, {j})
  BY <1>2 DEF LaunchStep, LaunchJob
<1>5. last \in SUBSET DOMAIN outputs
  BY <1>3, <1>4
<1> HIDE DEF last
<1>6. ASSUME NEW o \in DOMAIN outputs'
      PROVE  /\ o \in DOMAIN outputs
             /\ outputs'[o].res = "disk" <=> outputs[o].res = "disk"
             /\ outputs'[o].res = "disk" => outputs'[o].size = outputs[o].size
  <2>1. o \in DOMAIN outputs /\ o \notin last /\ IsEntry(outputs[o])
    BY <1>3, <1>6 DEF HInv, Tables
  <2>2. CASE o \in ByRef(j)
    <3>1. outputs[o].res # "disk"
      BY <2>2 DEF ByRef, Copied, ToShare, ByReference
    <3>2. Loaded(j, o, Domain(p)).res # "disk"
      BY <2>1, <2>2, LoadedShape DEF HInv
    <3> QED BY <1>3, <2>1, <2>2, <3>1, <3>2
  <2>3. CASE o \in Copied(j)
    <3>1. outputs'[o] = [outputs[o] EXCEPT !.consumers = @ - 1]
      BY <1>3, <2>1, <2>3
    <3> QED BY <2>1, <3>1, EntryWithFewer
  <2>4. CASE o \notin Deps[j]
    BY <1>3, <2>1, <2>4
  <2> QED BY <2>2, <2>3, <2>4 DEF ByRef
<1>7. /\ DiskResults(outputs') = DiskResults(outputs) \ last
      /\ \A o \in DiskResults(outputs') : outputs'[o].size = outputs[o].size
  BY <1>3, <1>6 DEF DiskResults
<1>8. DiskInputs' = DiskInputs \ {j}
  <2>1. inputs = [x \in Jobs |-> inputs[x]]
    BY DEF HInv, Tables
  <2> QED BY <1>4, <2>1 DEF DiskInputs
<1> QED BY <1>4, <1>5, <1>7, <1>8, DiskStep DEF IInv, HInv

LEMMA SpillKeepsDisk ==
  ASSUME IInv, HInv, SInv, Sized', Spill
  PROVE  SInv'
<1>1. PICK b \in PrivateBlobs :
        /\ diskUsed + BlobSize(b) <= SpillBudget
        /\ diskUsed' = diskUsed + BlobSize(b)
        /\ IF b[1] = "input"
             THEN inputs' = [inputs EXCEPT ![b[2]] = "disk"] /\ UNCHANGED outputs
             ELSE outputs' = [outputs EXCEPT ![b[2]].res = "disk"] /\ UNCHANGED inputs
  BY DEF Spill, Spillable
<1> DEFINE R == DiskResults(outputs)
           w == SizesOf(outputs)
<1>2. /\ IsFiniteSet(R) /\ IsFiniteSet(DiskInputs) /\ R \subseteq DOMAIN outputs
      /\ \A o \in DOMAIN outputs : w[o] = outputs[o].size /\ w[o] \in Int
      /\ \A j \in Jobs : InputSize[j] \in Int
  <2>1. \A o \in DOMAIN outputs : w[o] = outputs[o].size /\ w[o] \in Int
    BY DEF SizesOf, SInv, Sized
  <2>2. R \subseteq DOMAIN outputs /\ DiskInputs \subseteq Jobs
    BY DEF DiskResults, DiskInputs
  <2>3. IsFiniteSet(DOMAIN outputs) /\ IsFiniteSet(Jobs) /\ \A j \in Jobs : InputSize[j] \in Int
    BY SizesAreNumbers DEF IInv, HInv
  <2> HIDE DEF R
  <2>4. IsFiniteSet(R) /\ IsFiniteSet(DiskInputs)
    BY <2>2, <2>3, FS_Subset
  <2> QED BY <2>1, <2>2, <2>3, <2>4
<1>3. /\ Total(w, R) \in Int /\ Total(InputSize, DiskInputs) \in Int
      /\ diskUsed = Total(w, R) + Total(InputSize, DiskInputs)
  <2>1. \A j \in DiskInputs : InputSize[j] \in Int
    BY <1>2 DEF DiskInputs
  <2>2. Total(InputSize, DiskInputs) \in Int
    BY <1>2, <2>1, TotalType
  <2>3. Total(w, R) \in Int
    BY <1>2, TotalType
  <2> QED BY <2>2, <2>3 DEF SInv, DiskCounted, BytesIn
<1>4. CASE b[1] = "input"
  <2>1. PICK j \in Jobs : b = <<"input", j>> /\ inputs[j] = "private"
    BY <1>4 DEF PrivateBlobs
  <2>2. inputs' = [inputs EXCEPT ![j] = "disk"] /\ outputs' = outputs /\ BlobSize(b) = InputSize[j]
    BY <1>1, <1>4, <2>1 DEF BlobSize
  <2>3. DiskInputs' = DiskInputs \cup {j} /\ j \notin DiskInputs
    BY <2>1, <2>2 DEF DiskInputs, HInv, Tables
  <2>4. Total(InputSize, DiskInputs \cup {j}) = InputSize[j] + Total(InputSize, DiskInputs)
    <3>1. \A k \in DiskInputs \cup {j} : InputSize[k] \in Int
      BY <1>2 DEF DiskInputs
    <3> QED BY <1>2, <2>3, <3>1, TotalAdd
  <2>5. InputSize[j] \in Int
    BY <1>2
  <2>6. diskUsed' = Total(w, R) + Total(InputSize, DiskInputs \cup {j})
    BY <1>1, <1>3, <2>2, <2>4, <2>5
  <2>7. DiskCounted'
    BY <2>2, <2>3, <2>6 DEF DiskCounted, BytesIn
  <2> QED BY <1>1, <2>7 DEF SInv
<1>5. CASE b[1] # "input"
  <2>1. PICK o \in DOMAIN outputs : b = <<"output", o>> /\ outputs[o].res = "private"
    BY <1>5 DEF PrivateBlobs
  <2>2. outputs' = [outputs EXCEPT ![o].res = "disk"] /\ inputs' = inputs /\ BlobSize(b) = outputs[o].size
    BY <1>1, <1>5, <2>1 DEF BlobSize
  <2>3. DiskResults(outputs') = R \cup {o} /\ o \notin R
    <3>1. IsEntry(outputs[o]) /\ outputs'[o] = [outputs[o] EXCEPT !.res = "disk"]
          /\ DOMAIN outputs' = DOMAIN outputs
      BY <2>1, <2>2 DEF HInv, Tables
    <3>2. outputs'[o].res = "disk"
      BY <3>1 DEF IsEntry
    <3> QED BY <2>1, <2>2, <3>1, <3>2 DEF DiskResults
  <2>4. \A x \in R \cup {o} : SizesOf(outputs')[x] = w[x]
    <3>1. \A x \in DOMAIN outputs : outputs'[x].size = outputs[x].size
      <4>1. \A x \in DOMAIN outputs : IsEntry(outputs[x])
        BY DEF HInv, Tables
      <4> QED BY <2>2, <4>1 DEF IsEntry
    <3>2. DOMAIN outputs' = DOMAIN outputs
      BY <2>2
    <3> QED BY <1>2, <2>1, <3>1, <3>2 DEF SizesOf
  <2>5. IsFiniteSet(R \cup {o}) /\ \A x \in R \cup {o} : w[x] \in Int
    BY <1>2, <2>1, FS_AddElement
  <2> HIDE DEF R, w
  <2>6. Total(SizesOf(outputs'), R \cup {o}) = Total(w, R \cup {o})
    BY <2>4, <2>5, TotalSame
  <2>7. Total(w, R \cup {o}) = w[o] + Total(w, R)
    BY <1>2, <2>3, <2>5, TotalAdd
  <2>8. w[o] \in Int /\ BlobSize(b) = w[o]
    BY <1>2, <2>1, <2>2
  <2>9. diskUsed' = Total(w, R \cup {o}) + Total(InputSize, DiskInputs)
    BY <1>1, <1>3, <2>7, <2>8
  <2>10. DiskInputs' = DiskInputs
    BY <2>2 DEF DiskInputs
  <2>11. DiskCounted'
    BY <2>3, <2>6, <2>9, <2>10 DEF DiskCounted, BytesIn
  <2> QED BY <1>1, <2>11 DEF SInv
<1> QED BY <1>4, <1>5

LEMMA SInvStep ==
  ASSUME IInv, HInv, IInv', HInv', SInv, [Next]_vars
  PROVE  SInv'
<1>1. Sized'
  BY SizedStepKeeps DEF SInv
<1>2. CASE ReapOk
  BY <1>1, <1>2, ReapOkKeepsDisk
<1>3. CASE ReapError
  <2>1. Received.key \in RunningJobs /\ Poison(Component(Received.key))
    BY <1>3 DEF ReapError, IsRunning, RunningJobs
  <2>2. Component(Received.key) \in SUBSET Jobs
    BY <2>1, ComponentsAreJobs DEF IInv, Books
  <2> QED BY <1>1, <2>1, <2>2, PoisonKeepsDisk
<1>4. CASE Launch
  BY <1>1, <1>4, LaunchKeepsDisk
<1>5. CASE Spill
  BY <1>1, <1>5, SpillKeepsDisk
<1>6. CASE ~(ReapOk \/ ReapError \/ Launch \/ Spill)
  <2>1. UNCHANGED <<inputs, outputs, diskUsed>>
    BY <1>6 DEF Next, Loop, Workers, Finish, Drain, ReapStale, ReapWrongShards, ReapEmpty, AdmitRaises,
       EndAdmit, Stall, Close, FreshPosts, FreshDies, Sample, WarmFrees, WarmRuns, WarmTakes, vars,
       tableVars
  <2> QED BY <1>1, <2>1, DiskUntouched DEF IInv, HInv
<1> QED BY <1>2, <1>3, <1>4, <1>5, <1>6

LEMMA SInvInit == Init => SInv
<1> SUFFICES ASSUME Init
             PROVE  SInv
  OBVIOUS
<1>1. DOMAIN outputs = {} /\ inputs = [j \in Jobs |-> "private"] /\ diskUsed = 0
  BY DEF Init
<1>2. DiskResults(outputs) = {} /\ DiskInputs = {}
  BY <1>1 DEF DiskResults, DiskInputs
<1>3. Total(SizesOf(outputs), {}) = 0 /\ Total(InputSize, {}) = 0
  BY TotalEmpty
<1>4. DiskCounted
  BY <1>1, <1>2, <1>3 DEF DiskCounted, BytesIn
<1> QED BY <1>1, <1>4, SizeAssumption DEF SInv, Sized

(* What is known of the sizes of results and of the bytes on disk.         *)
THEOREM SizesInvariant == Spec => [](IInv /\ HInv /\ SInv)
<1>1. IInv /\ HInv /\ IInv' /\ HInv' /\ SInv /\ [Next]_vars => SInv'
  BY SInvStep
<1> QED BY <1>1, SInvInit, HoldingInvariant, PTL DEF Spec

(* The disk budget counts the spill files that exist, and no sequence of   *)
(* spills, launches and abandoned lineages ever passes it.                 *)
THEOREM SpillBudgetIsKept == Spec => []SpillBudgetKept
<1>1. HInv /\ IInv /\ SInv => SpillBudgetKept
  <2> SUFFICES ASSUME HInv, IInv, SInv
               PROVE  SpillBudgetKept
    OBVIOUS
  <2> DEFINE all == DiskResults(outputs)
             w == SizesOf(outputs)
             all2 == {o \in DOMAIN outputs : outputs[o].res = "disk"}
             in == {j \in Jobs : inputs[j] = "disk"}
  <2>1. OnDisk(outputs, DOMAIN outputs, Jobs) = Total(w, all2) + Total(InputSize, in)
    BY DEF OnDisk, SizesOf
  <2>2. all2 = all /\ in = DiskInputs
    BY DEF DiskResults, DiskInputs
  <2>3. BytesIn(outputs, all, DiskInputs) = Total(w, all) + Total(InputSize, DiskInputs)
    BY DEF BytesIn
  <2> HIDE DEF all2, in
  <2>4. OnDisk(outputs, DOMAIN outputs, Jobs) = BytesIn(outputs, all, DiskInputs)
    BY <2>1, <2>2, <2>3
  <2> QED BY <2>4 DEF SpillBudgetKept, SInv, DiskCounted
<1> QED BY <1>1, SizesInvariant, PTL

-----------------------------------------------------------------------------
(* What travels between the loop and the workers.  In terms of what a queue*)
(* holds, taking the first entry loses that one and posting adds one.      *)

In(x, q) == \E i \in DOMAIN q : q[i] = x
DistinctKeys(r) == \A h, i \in DOMAIN r : r[h].key = r[i].key => h = i
JobsOnce(W) ==
  \A g, h \in GpuIds : \A i \in DOMAIN W[g], k \in DOMAIN W[h] :
    W[g][i].tag = "job" /\ W[h][k].tag = "job" /\ W[g][i].key = W[h][k].key => g = h /\ i = k
(* A job has at most one message or item of its own, and none once it      *)
(* completed.                                                              *)
Once ==
  /\ DistinctKeys(results) /\ JobsOnce(warmQueue)
  /\ PostedIn(results) \cap QueuedIn(warmQueue) = {} /\ Under \cap completed = {}

LEMMA TakeFirst ==
  ASSUME NEW S, NEW q \in Seq(S), q # <<>>
  PROVE  /\ Head(q) \in S /\ In(Head(q), q) /\ Tail(q) \in Seq(S)
         /\ \A x : In(x, Tail(q)) => In(x, q)
         /\ \A x : In(x, q) => x = Head(q) \/ In(x, Tail(q))
<1>1. /\ Head(q) \in S /\ Head(q) = q[1] /\ 1 \in DOMAIN q /\ Tail(q) \in Seq(S)
      /\ \A i \in DOMAIN Tail(q) : i + 1 \in DOMAIN q /\ Tail(q)[i] = q[i + 1]
      /\ \A i \in DOMAIN q : i = 1 \/ (i - 1 \in DOMAIN Tail(q) /\ Tail(q)[i - 1] = q[i])
  BY Dequeued
<1> QED BY <1>1 DEF In

LEMMA AddLast ==
  ASSUME NEW S, NEW q \in Seq(S), NEW y \in S
  PROVE  /\ Append(q, y) \in Seq(S)
         /\ \A x : In(x, Append(q, y)) <=> In(x, q) \/ x = y
<1>1. /\ Append(q, y) \in Seq(S)
      /\ \A i \in DOMAIN Append(q, y) : (i \in DOMAIN q /\ Append(q, y)[i] = q[i]) \/ Append(q, y)[i] = y
      /\ \A i \in DOMAIN q : i \in DOMAIN Append(q, y) /\ Append(q, y)[i] = q[i]
      /\ Len(Append(q, y)) \in DOMAIN Append(q, y) /\ Append(q, y)[Len(Append(q, y))] = y
  BY Enqueued
<1> DEFINE r == Append(q, y)
<1> HIDE DEF r
<1>2. \A x : In(x, r) <=> In(x, q) \/ x = y
  BY <1>1 DEF In, r
<1> QED BY <1>1, <1>2 DEF r

LEMMA PostedAreIn ==
  ASSUME NEW r, NEW k \in Jobs
  PROVE  k \in PostedIn(r) <=> \E m : In(m, r) /\ m.key = k
BY DEF PostedIn, In

LEMMA QueuedAreIn ==
  ASSUME NEW W, NEW k \in Jobs
  PROVE  k \in QueuedIn(W) <=> \E g \in GpuIds : \E x : In(x, W[g]) /\ x.tag = "job" /\ x.key = k
BY DEF QueuedIn, In

LEMMA TakeDistinct ==
  ASSUME NEW q \in Seq(Message), q # <<>>, DistinctKeys(q)
  PROVE  /\ DistinctKeys(Tail(q)) /\ Head(q) \in Message
         /\ \A m : In(m, Tail(q)) => m.key # Head(q).key
         /\ Head(q).key \in PostedIn(q) /\ PostedIn(Tail(q)) = PostedIn(q) \ {Head(q).key}
<1>1. /\ Head(q) \in Message /\ Head(q) = q[1] /\ 1 \in DOMAIN q /\ Tail(q) \in Seq(Message)
      /\ \A i \in DOMAIN Tail(q) : i + 1 \in DOMAIN q /\ Tail(q)[i] = q[i + 1]
      /\ \A i \in DOMAIN q : i = 1 \/ (i - 1 \in DOMAIN Tail(q) /\ Tail(q)[i - 1] = q[i])
  BY Dequeued
<1>2. DOMAIN Tail(q) \subseteq Nat \ {0}
  <2>1. DOMAIN Tail(q) = 1..Len(Tail(q)) /\ Len(Tail(q)) \in Nat
    BY <1>1
  <2> QED BY <2>1
<1> DEFINE t == Tail(q)
<1> HIDE DEF t
<1>3. ASSUME NEW h \in DOMAIN t, NEW i \in DOMAIN t, t[h].key = t[i].key
      PROVE  h = i
  <2>1. h + 1 \in DOMAIN q /\ i + 1 \in DOMAIN q /\ q[h + 1].key = q[i + 1].key
    BY <1>1, <1>3 DEF t
  <2>2. h + 1 = i + 1 /\ h \in Nat /\ i \in Nat
    BY <1>2, <2>1 DEF DistinctKeys, t
  <2> QED BY <2>2
<1>4. ASSUME NEW i \in DOMAIN t
      PROVE  t[i].key # Head(q).key
  <2>1. i + 1 \in DOMAIN q /\ t[i] = q[i + 1] /\ i + 1 # 1
    BY <1>1, <1>2 DEF t
  <2> QED BY <1>1, <2>1 DEF DistinctKeys
<1>5. Head(q).key \in Jobs
  BY <1>1 DEF Message
<1>6. PostedIn(t) = PostedIn(q) \ {Head(q).key} /\ Head(q).key \in PostedIn(q)
  <2>1. \A k \in Jobs : k \in PostedIn(t) => k \in PostedIn(q) /\ k # Head(q).key
    BY <1>1, <1>4 DEF PostedIn, t
  <2>2. \A k \in Jobs : k \in PostedIn(q) /\ k # Head(q).key => k \in PostedIn(t)
    BY <1>1 DEF PostedIn, t
  <2>3. Head(q).key \in PostedIn(q)
    BY <1>1, <1>5 DEF PostedIn
  <2> QED BY <2>1, <2>2, <2>3 DEF PostedIn
<1>7. DistinctKeys(t) /\ \A m : In(m, t) => m.key # Head(q).key
  BY <1>3, <1>4 DEF DistinctKeys, In
<1> QED BY <1>1, <1>6, <1>7 DEF t

LEMMA AddDistinct ==
  ASSUME NEW q \in Seq(Message), NEW m \in Message, DistinctKeys(q), m.key \notin PostedIn(q)
  PROVE  DistinctKeys(Append(q, m)) /\ PostedIn(Append(q, m)) = PostedIn(q) \cup {m.key}
<1> DEFINE r == Append(q, m)
<1>1. /\ r \in Seq(Message) /\ DOMAIN q = 1..Len(q) /\ DOMAIN r = 1..(Len(q) + 1) /\ Len(q) \in Nat
      /\ r[Len(q) + 1] = m /\ \A i \in DOMAIN q : r[i] = q[i]
  OBVIOUS
<1>2. m.key \in Jobs
  BY DEF Message
<1> HIDE DEF r
<1>3. ASSUME NEW h \in DOMAIN r, NEW i \in DOMAIN r, r[h].key = r[i].key
      PROVE  h = i
  <2>1. \A x \in DOMAIN q : q[x].key # m.key
    BY <1>2 DEF PostedIn
  <2>2. /\ h \in DOMAIN q \/ h = Len(q) + 1
        /\ i \in DOMAIN q \/ i = Len(q) + 1
    BY <1>1
  <2> QED BY <1>1, <1>3, <2>1, <2>2 DEF DistinctKeys
<1>4. PostedIn(r) = PostedIn(q) \cup {m.key}
  <2>1. /\ \A i \in DOMAIN r : (i \in DOMAIN q /\ r[i] = q[i]) \/ r[i] = m
        /\ \A i \in DOMAIN q : i \in DOMAIN r /\ r[i] = q[i]
        /\ Len(q) + 1 \in DOMAIN r /\ r[Len(q) + 1] = m
    BY <1>1
  <2> QED BY <1>2, <2>1 DEF PostedIn
<1> QED BY <1>3, <1>4 DEF DistinctKeys, r

(* The three things that happen to the queues of the warm workers.         *)
FreedOn(T, S, g) == {o \in S : T[o].res = "device" /\ T[o].gpu = g}
GainsFrees(q, r, freed) ==
  /\ \A x : In(x, q) => In(x, r)
  /\ \A x : In(x, r) => In(x, q) \/ (x = FreeItem(freed) /\ x \in Item)
  /\ freed # {} => In(FreeItem(freed), r)
  /\ \A i \in DOMAIN r : r[i].tag = "job" => i \in DOMAIN q /\ q[i] = r[i]
LEMMA FreesInQueues ==
  ASSUME NEW W \in [GpuIds -> Seq(Item)], NEW T, NEW S, S \subseteq Outs, NEW g \in GpuIds
  PROVE  GainsFrees(W[g], WithFrees(W, T, S)[g], FreedOn(T, S, g))
<1> DEFINE V == WithFrees(W, T, S)[g]
           freed == FreedOn(T, S, g)
           item == FreeItem(freed)
<1>1. V = IF freed = {} THEN W[g] ELSE Append(W[g], item)
  BY DEF WithFrees, FreedOn
<1>2. item \in Item /\ item.tag = "free" /\ W[g] \in Seq(Item)
  BY DEF FreeItem, Item, FreedOn
<1> HIDE DEF V, freed, item
<1>3. CASE V = W[g] /\ freed = {}
  BY <1>3 DEF freed, V, GainsFrees
<1>4. CASE V = Append(W[g], item) /\ freed # {}
  <2>1. /\ \A x : In(x, V) <=> In(x, W[g]) \/ x = item
    BY <1>2, <1>4, AddLast
  <2>2. \A i \in DOMAIN V : (i \in DOMAIN W[g] /\ V[i] = W[g][i]) \/ V[i] = item
    BY <1>2, <1>4, Enqueued
  <2> HIDE DEF freed
  <2>3. GainsFrees(W[g], V, freed)
    BY <1>2, <2>1, <2>2 DEF item, GainsFrees
  <2> QED BY <2>3 DEF V, freed
<1> QED BY <1>1, <1>3, <1>4 DEF V

LEMMA FreesKeepOnce ==
  ASSUME NEW W \in [GpuIds -> Seq(Item)], NEW T, NEW S, S \subseteq Outs, JobsOnce(W)
  PROVE  JobsOnce(WithFrees(W, T, S))
<1> DEFINE V == WithFrees(W, T, S)
<1>1. \A g \in GpuIds : \A i \in DOMAIN V[g] : V[g][i].tag = "job" => i \in DOMAIN W[g] /\ W[g][i] = V[g][i]
  BY FreesInQueues DEF GainsFrees
<1> HIDE DEF V
<1>2. JobsOnce(V)
  BY <1>1 DEF JobsOnce
<1> QED BY <1>2 DEF V

OneFewer(W, V, item) ==
  /\ JobsOnce(V)
  /\ item.tag = "job" => item.key \in QueuedIn(W) /\ QueuedIn(V) = QueuedIn(W) \ {item.key}
  /\ item.tag # "job" => QueuedIn(V) = QueuedIn(W)
LEMMA TakeItem ==
  ASSUME NEW W \in [GpuIds -> Seq(Item)], NEW g \in GpuIds, W[g] # <<>>, JobsOnce(W),
         NEW V, V = [W EXCEPT ![g] = Tail(@)]
  PROVE  /\ Head(W[g]) \in Item /\ In(Head(W[g]), W[g])
         /\ \A h \in GpuIds : \A x : In(x, V[h]) => In(x, W[h])
         /\ \A h \in GpuIds : \A x : In(x, W[h]) => In(x, V[h]) \/ (h = g /\ x = Head(W[g]))
         /\ OneFewer(W, V, Head(W[g]))
<1> DEFINE q == W[g]
           item == Head(q)
<1>1. q \in Seq(Item) /\ V[g] = Tail(q) /\ \A h \in GpuIds : h # g => V[h] = W[h]
  OBVIOUS
<1>2. /\ item \in Item /\ In(item, q) /\ Tail(q) \in Seq(Item)
      /\ \A x : In(x, Tail(q)) => In(x, q)
      /\ \A x : In(x, q) => x = item \/ In(x, Tail(q))
  BY <1>1, TakeFirst
<1>3. /\ item = q[1] /\ 1 \in DOMAIN q
      /\ \A i \in DOMAIN Tail(q) : i + 1 \in DOMAIN q /\ Tail(q)[i] = q[i + 1]
  BY <1>1, Dequeued
<1>4. DOMAIN Tail(q) \subseteq Nat \ {0}
  <2>1. DOMAIN Tail(q) = 1..Len(Tail(q)) /\ Len(Tail(q)) \in Nat
    BY <1>2
  <2> QED BY <2>1
<1> DEFINE at(h, i) == IF h = g THEN i + 1 ELSE i
<1>5. ASSUME NEW h \in GpuIds, NEW i \in DOMAIN V[h]
      PROVE  at(h, i) \in DOMAIN W[h] /\ V[h][i] = W[h][at(h, i)]
  <2>1. CASE h = g
    BY <1>1, <1>3, <2>1
  <2>2. CASE h # g
    BY <1>1, <2>2
  <2> QED BY <2>1, <2>2
<1>6. ASSUME NEW h \in GpuIds, NEW i \in DOMAIN V[h]
      PROVE  h = g => i \in Nat /\ at(h, i) # 1
  BY <1>1, <1>4, <1>6
<1>7. JobsOnce(V)
  <2> SUFFICES ASSUME NEW h \in GpuIds, NEW l \in GpuIds, NEW i \in DOMAIN V[h], NEW k \in DOMAIN V[l],
                      V[h][i].tag = "job", V[l][k].tag = "job", V[h][i].key = V[l][k].key
               PROVE  h = l /\ i = k
    BY DEF JobsOnce
  <2>1. /\ at(h, i) \in DOMAIN W[h] /\ V[h][i] = W[h][at(h, i)]
        /\ at(l, k) \in DOMAIN W[l] /\ V[l][k] = W[l][at(l, k)]
    BY <1>5
  <2> HIDE DEF at
  <2>2. h = l /\ at(h, i) = at(l, k)
    BY <2>1 DEF JobsOnce
  <2> QED BY <1>6, <2>2 DEF at
<1>8. ASSUME item.tag = "job"
      PROVE  item.key \in QueuedIn(W) /\ item.key \notin QueuedIn(V)
  <2>1. item.key \in Jobs
    BY <1>2, <1>8 DEF Item
  <2>2. item.key \in QueuedIn(W)
    BY <1>2, <1>8, <2>1, QueuedAreIn
  <2>3. ASSUME NEW h \in GpuIds, NEW i \in DOMAIN V[h], V[h][i].tag = "job", V[h][i].key = item.key
        PROVE  FALSE
    <3>1. at(h, i) \in DOMAIN W[h] /\ V[h][i] = W[h][at(h, i)]
      BY <1>5
    <3> HIDE DEF at
    <3>2. h = g /\ at(h, i) = 1
      BY <1>3, <1>8, <2>3, <3>1 DEF JobsOnce
    <3> QED BY <1>6, <3>2
  <2> QED BY <2>2, <2>3 DEF QueuedIn
<1> HIDE DEF at, item, q
<1>9. /\ \A h \in GpuIds : \A x : In(x, V[h]) => In(x, W[h])
      /\ \A h \in GpuIds : \A x : In(x, W[h]) => In(x, V[h]) \/ (h = g /\ x = item)
  BY <1>1, <1>2 DEF q
<1>10. ASSUME NEW k \in Jobs
       PROVE  /\ k \in QueuedIn(V) => k \in QueuedIn(W)
              /\ k \in QueuedIn(W) => k \in QueuedIn(V) \/ (item.tag = "job" /\ k = item.key)
  <2>1. k \in QueuedIn(W) <=> \E h \in GpuIds : \E x : In(x, W[h]) /\ x.tag = "job" /\ x.key = k
    BY QueuedAreIn
  <2>2. k \in QueuedIn(V) <=> \E h \in GpuIds : \E x : In(x, V[h]) /\ x.tag = "job" /\ x.key = k
    BY DEF QueuedIn, In
  <2> QED BY <1>9, <2>1, <2>2
<1>11. QueuedIn(V) \subseteq Jobs /\ QueuedIn(W) \subseteq Jobs
  BY DEF QueuedIn
<1>12. OneFewer(W, V, item)
  BY <1>7, <1>8, <1>10, <1>11 DEF OneFewer
<1> QED BY <1>2, <1>9, <1>12 DEF item, q

LEMMA GiveItem ==
  ASSUME NEW W \in [GpuIds -> Seq(Item)], NEW g \in GpuIds, JobsOnce(W), NEW item \in Item,
         item.tag = "job", item.key \notin QueuedIn(W), NEW V, V = [W EXCEPT ![g] = Append(@, item)]
  PROVE  /\ \A h \in GpuIds : \A x : In(x, V[h]) <=> In(x, W[h]) \/ (h = g /\ x = item)
         /\ JobsOnce(V) /\ QueuedIn(V) = QueuedIn(W) \cup {item.key}
<1> DEFINE q == W[g]
           r == Append(q, item)
<1>1. q \in Seq(Item) /\ V[g] = r /\ \A h \in GpuIds : h # g => V[h] = W[h]
  OBVIOUS
<1>2. \A x : In(x, r) <=> In(x, q) \/ x = item
  BY <1>1, AddLast
<1>3. item.key \in Jobs
  BY DEF Item
<1>4. /\ DOMAIN q = 1..Len(q) /\ DOMAIN r = 1..(Len(q) + 1) /\ Len(q) \in Nat
      /\ \A i \in DOMAIN q : r[i] = q[i]
  BY <1>1
<1> HIDE DEF q, r
<1>5. \A h \in GpuIds : \A x : In(x, V[h]) <=> In(x, W[h]) \/ (h = g /\ x = item)
  BY <1>1, <1>2 DEF q
<1>6. ASSUME NEW h \in GpuIds, NEW i \in DOMAIN V[h]
      PROVE  (i \in DOMAIN W[h] /\ V[h][i] = W[h][i]) \/ (h = g /\ i = Len(q) + 1)
  <2>1. CASE h = g
    BY <1>1, <1>4, <1>6, <2>1 DEF q
  <2>2. CASE h # g
    BY <1>1, <1>6, <2>2
  <2> QED BY <2>1, <2>2
<1>7. V[g][Len(q) + 1] = item
  BY <1>1, <1>4 DEF q, r
<1>8. \A h \in GpuIds : \A i \in DOMAIN W[h] : W[h][i].tag = "job" => W[h][i].key # item.key
  BY <1>3 DEF QueuedIn
<1>9. JobsOnce(V)
  <2> SUFFICES ASSUME NEW h \in GpuIds, NEW l \in GpuIds, NEW i \in DOMAIN V[h], NEW k \in DOMAIN V[l],
                      V[h][i].tag = "job", V[l][k].tag = "job", V[h][i].key = V[l][k].key
               PROVE  h = l /\ i = k
    BY DEF JobsOnce
  <2>1. /\ (i \in DOMAIN W[h] /\ V[h][i] = W[h][i]) \/ (h = g /\ i = Len(q) + 1)
        /\ (k \in DOMAIN W[l] /\ V[l][k] = W[l][k]) \/ (l = g /\ k = Len(q) + 1)
    BY <1>6
  <2> QED BY <1>7, <1>8, <2>1 DEF JobsOnce
<1>10. ASSUME NEW k \in Jobs
       PROVE  k \in QueuedIn(V) <=> k \in QueuedIn(W) \/ k = item.key
  <2>1. k \in QueuedIn(W) <=> \E h \in GpuIds : \E x : In(x, W[h]) /\ x.tag = "job" /\ x.key = k
    BY QueuedAreIn
  <2>2. k \in QueuedIn(V) <=> \E h \in GpuIds : \E x : In(x, V[h]) /\ x.tag = "job" /\ x.key = k
    BY DEF QueuedIn, In
  <2> QED BY <1>5, <2>1, <2>2
<1>11. QueuedIn(V) \subseteq Jobs /\ QueuedIn(W) \subseteq Jobs
  BY DEF QueuedIn
<1> QED BY <1>3, <1>5, <1>9, <1>10, <1>11

-----------------------------------------------------------------------------
(* What the loop, the queues and the registries of the warm workers agree  *)
(* on, in parts.  Only a job all of whose readers run on a device leaves   *)
(* its result there.                                                       *)

KeptWhole(k) == k \in DeviceResident /\ ConsumersAllGpu(k)
OnGpus == \A k \in DOMAIN warmRunning : warmRunning[k] \in GpuIds

(* A job waits in the queue of the device it was dispatched to, unless it  *)
(* was abandoned; a result is freed after it left the table.               *)
ItemRight(g, item) ==
  /\ item.tag = "job" =>
       /\ item.key \notin running
       /\ item.key \in DOMAIN warmRunning => warmRunning[item.key] = g
       /\ item.keep => KeptWhole(item.key)
  /\ item.tag = "free" =>
       \A o \in item.keys : o[1] \in completed \cup cancelled /\ o \notin DOMAIN outputs
Queued == \A g \in GpuIds : \A item : In(item, warmQueue[g]) => ItemRight(g, item)

(* A handle in the result queue stands for a buffer that is there.         *)
HandleRight(k) ==
  /\ k \notin running /\ KeptWhole(k)
  /\ k \in DOMAIN warmRunning => <<k, Whole>> \in buffers[warmRunning[k]]
Handles ==
  phase # "done" => \A m : In(m, results) /\ m.status = "handle" => HandleRight(m.key)

(* Every buffer has a holder: its handle is on its way, it is in the table,*)
(* or the signal to free it is on its way.  Every device-resident result in*)
(* the table has its buffer.                                               *)
Pending(g, o) ==
  /\ o[1] \in DOMAIN warmRunning /\ warmRunning[o[1]] = g
  /\ \E m : In(m, results) /\ m.key = o[1] /\ m.status = "handle"
OnDevice(g, o) == o \in DOMAIN outputs /\ outputs[o].res = "device" /\ outputs[o].gpu = g
Holder(g, o) == o[1] \in cancelled \/ Pending(g, o) \/ OnDevice(g, o) \/ FreeOnItsWay(g, o)
Buffered ==
  /\ buffers \in [GpuIds -> SUBSET Outs] /\ (phase = "done" => \A g \in GpuIds : buffers[g] = {})
  /\ \A g \in GpuIds : \A o \in buffers[g] : Holder(g, o)
OnDevices ==
  phase # "done" => \A o \in DOMAIN outputs : outputs[o].res = "device" =>
    outputs[o].gpu \in GpuIds /\ o \in buffers[outputs[o].gpu] /\ ConsumersAllGpu(o[1])

(* What a running job was handed by reference is still in the table, as it *)
(* was handed, and a result on the device was handed to a warm job.        *)
HandedRight(j, r) ==
  /\ r[2] \in Deps[j] \cap DOMAIN outputs /\ r[1] \in ByReference /\ outputs[r[2]].res = r[1]
  /\ r[1] = "device" => j \in DOMAIN warmRunning
Handed ==
  /\ refs \in [Jobs -> SUBSET (ByReference \X Outs)]
  /\ phase # "done" => \A j \in RunningJobs : \A r \in refs[j] : HandedRight(j, r)
Segments ==
  \A o \in DOMAIN outputs :
    outputs[o].domains \subseteq Domains /\ (outputs[o].res = "shared" => outputs[o].domains # {})

DInv ==
  Once /\ OnGpus /\ Queued /\ Handles /\ Buffered /\ OnDevices /\ Handed /\ Segments

-----------------------------------------------------------------------------
(* The steps, as far as this invariant can tell them apart.                *)

Silent ==
  /\ UNCHANGED <<running, warmRunning, completed, cancelled, outputs, results, warmQueue, buffers, refs>>
  /\ phase' # phase => phase # "done" /\ phase' # "done"
Reap == ReapStale \/ ReapOk \/ ReapWrongShards \/ ReapError

LEMMA TrafficKinds ==
  ASSUME IInv, [Next]_vars
  PROVE  \/ Silent \/ Reap \/ Launch \/ Spill \/ Close
         \/ \E j \in Jobs : FreshPosts(j)
         \/ \E g \in GpuIds : WarmFrees(g) \/ WarmRuns(g)
<1>1. CASE Finish \/ Drain \/ ReapEmpty \/ AdmitRaises \/ EndAdmit \/ Stall
  BY <1>1 DEF Finish, Drain, ReapEmpty, AdmitRaises, EndAdmit, Stall, Raise, jobVars, tableVars,
     workerVars, Silent
<1>2. CASE UNCHANGED vars \/ \E j \in Jobs : FreshDies(j) \/ Sample(j)
  BY <1>2 DEF FreshDies, Sample, vars, loopVars, jobVars, tableVars, workerVars, Silent
<1> QED BY <1>1, <1>2 DEF Next, Loop, Workers, Reap

(* Reaping takes one message and frees the results S that leave the table. *)
ReapEffect(S) ==
  /\ results # <<>> /\ results' = Tail(results) /\ Received \in Message
  /\ UNCHANGED <<buffers, refs>> /\ phase \notin {"closing", "done"} /\ phase' # "done"
  /\ running' \subseteq running /\ RunningJobs' \subseteq RunningJobs
  /\ \A k \in DOMAIN warmRunning' : k \in DOMAIN warmRunning /\ warmRunning'[k] = warmRunning[k]
  /\ \A k \in DOMAIN warmRunning : k \in DOMAIN warmRunning' \/ k = Received.key \/ k \in cancelled'
  /\ completed' \subseteq completed \cup {Received.key}
  /\ cancelled \subseteq cancelled' /\ completed \cup cancelled \subseteq completed' \cup cancelled'
  /\ S \in SUBSET DOMAIN outputs /\ S \cap DOMAIN outputs' = {}
  /\ warmQueue' = WithFrees(warmQueue, outputs, S)
  /\ \A o \in DOMAIN outputs \ S :
       o \in DOMAIN outputs' /\ outputs'[o].res = outputs[o].res /\ outputs'[o].gpu = outputs[o].gpu
  /\ \A o \in DOMAIN outputs' \ DOMAIN outputs : EntryStored(o)

LEMMA NothingFreed ==
  ASSUME warmQueue \in [GpuIds -> Seq(Item)]
  PROVE  warmQueue = WithFrees(warmQueue, outputs, {})
<1> DEFINE V == WithFrees(warmQueue, outputs, {})
<1>1. V = [g \in GpuIds |-> warmQueue[g]]
  BY DEF WithFrees
<1> QED BY <1>1

LEMMA ReapHasEffect ==
  ASSUME IInv, HInv, Reap
  PROVE  \E S : ReapEffect(S)
<1>1. /\ Books /\ Tables /\ Stored /\ Processes /\ warmQueue \in [GpuIds -> Seq(Item)]
      /\ \A o \in DOMAIN outputs : IsEntry(outputs[o])
  BY DEF IInv, HInv, Processes, Tables
<1>2. /\ results # <<>> /\ results' = Tail(results) /\ UNCHANGED <<buffers, refs>>
      /\ phase \notin {"closing", "done"} /\ phase' # "done" /\ Received \in Message
  <2>1. /\ results # <<>> /\ results' = Tail(results) /\ UNCHANGED <<buffers, refs>>
        /\ phase \notin {"closing", "done"} /\ phase' # "done"
    BY DEF Reap, ReapStale, ReapOk, ReapWrongShards, ReapError, Reaping, MarkProgress, Raise, workerVars
  <2> QED BY <1>1, <2>1, ReceivedIsPosted
<1>3. CASE ReapStale
  <2>1. UNCHANGED <<running, warmRunning, completed, cancelled, outputs, warmQueue>>
    BY <1>3 DEF ReapStale, jobVars, tableVars
  <2>2. warmQueue' = WithFrees(warmQueue, outputs, {})
    BY <1>1, <2>1, NothingFreed
  <2>3. ReapEffect({})
    BY <1>2, <2>1, <2>2 DEF ReapEffect, RunningJobs
  <2> QED BY <2>3
<1>4. CASE ReapWrongShards
  <2>1. /\ UNCHANGED <<cancelled, outputs, warmQueue>> /\ IsRunning(Received.key) /\ Reaped(Received.key)
        /\ completed' = completed \cup {Received.key}
    BY <1>4 DEF ReapWrongShards
  <2>2. warmQueue' = WithFrees(warmQueue, outputs, {})
    BY <1>1, <2>1, NothingFreed
  <2>3. /\ running' \subseteq running /\ RunningJobs' \subseteq RunningJobs
        /\ \A k \in DOMAIN warmRunning' : k \in DOMAIN warmRunning /\ warmRunning'[k] = warmRunning[k]
        /\ \A k \in DOMAIN warmRunning : k \in DOMAIN warmRunning' \/ k = Received.key
    BY <2>1, ReapedBooks DEF Reaped, Restricted
  <2>4. ReapEffect({})
    BY <1>2, <2>1, <2>2, <2>3 DEF ReapEffect
  <2> QED BY <2>4
<1>5. CASE ReapOk
  <2> DEFINE j == Received.key
             S == LastRead(j)
  <2>1. /\ UNCHANGED <<cancelled>> /\ IsRunning(j) /\ Reaped(j) /\ completed' = completed \cup {j}
        /\ warmQueue' = WithFrees(warmQueue, outputs, S)
    BY <1>5 DEF ReapOk
  <2>2. /\ running' \subseteq running /\ RunningJobs' \subseteq RunningJobs
        /\ \A k \in DOMAIN warmRunning' : k \in DOMAIN warmRunning /\ warmRunning'[k] = warmRunning[k]
        /\ \A k \in DOMAIN warmRunning : k \in DOMAIN warmRunning' \/ k = Received.key
    BY <2>1, ReapedBooks DEF Reaped, Restricted
  <2>3. /\ OutsOf(j) \cap DOMAIN outputs = {}
        /\ DOMAIN outputs' = (DOMAIN outputs \ S) \cup OutsOf(j)
        /\ \A o \in OutsOf(j) : outputs'[o] = StoredEntry(Received, o)
        /\ \A o \in DOMAIN outputs \ S :
             IF o \in ReadByReference(j)
               THEN outputs'[o] = [outputs[o] EXCEPT !.consumers = @ - 1]
               ELSE outputs'[o] = outputs[o]
    BY <1>1, <1>5, ReapOkTable
  <2>4. S \in SUBSET DOMAIN outputs
    BY DEF LastRead, ReadByReference
  <2> HIDE DEF S
  <2>5. ASSUME NEW o \in DOMAIN outputs \ S
        PROVE  o \in DOMAIN outputs' /\ outputs'[o].res = outputs[o].res /\ outputs'[o].gpu = outputs[o].gpu
    <3>1. CASE outputs'[o] = outputs[o]
      BY <2>3, <3>1
    <3>2. CASE outputs'[o] = [outputs[o] EXCEPT !.consumers = @ - 1]
      BY <1>1, <2>3, <3>2, EntryWithFewer
    <3> QED BY <2>3, <3>1, <3>2
  <2>6. \A o \in DOMAIN outputs' \ DOMAIN outputs : EntryStored(o)
    BY <1>5, <2>3 DEF EntryStored
  <2>7. S \cap DOMAIN outputs' = {}
    BY <2>3, <2>4
  <2>8. ReapEffect(S)
    BY <1>2, <2>1, <2>2, <2>4, <2>5, <2>6, <2>7 DEF ReapEffect
  <2> QED BY <2>8
<1>6. CASE ReapError
  <2> DEFINE C == Component(Received.key)
             S == HeldBy(C)
  <2>1. Received.key \in RunningJobs /\ Poison(C)
    BY <1>6 DEF ReapError, IsRunning, RunningJobs
  <2>2. /\ RunningJobs' = RunningJobs \ C /\ completed' = completed \ C /\ cancelled' = cancelled \cup C
    BY <1>1, <2>1, PoisonBooks DEF BooksFail
  <2>3. /\ running' \subseteq running /\ warmQueue' = WithFrees(warmQueue, outputs, S)
        /\ \A k \in DOMAIN warmRunning' : k \in DOMAIN warmRunning /\ warmRunning'[k] = warmRunning[k]
        /\ \A k \in DOMAIN warmRunning : k \in DOMAIN warmRunning' \/ k \in C
        /\ outputs' = Restricted(outputs, DOMAIN outputs \ S)
    BY <1>1, <2>1 DEF Poison, Restricted, Books, RunningJobs
  <2>4. S \in SUBSET DOMAIN outputs
    BY DEF HeldBy
  <2> HIDE DEF S, C
  <2>5. DOMAIN outputs' = DOMAIN outputs \ S /\ \A o \in DOMAIN outputs' : outputs'[o] = outputs[o]
    BY <2>3 DEF Restricted
  <2>6. ReapEffect(S)
    BY <1>2, <2>2, <2>3, <2>4, <2>5 DEF ReapEffect
  <2> QED BY <2>6
<1> QED BY <1>3, <1>4, <1>5, <1>6 DEF Reap

(* A launched job goes to the queue of its device or gets a process.       *)
GoesWarm(j, g) ==
  /\ running' = running /\ g \in GpuIds /\ DOMAIN warmRunning' = DOMAIN warmRunning \cup {j}
  /\ warmRunning'[j] = g /\ \A k \in DOMAIN warmRunning : warmRunning'[k] = warmRunning[k]
  /\ \E item \in Item : /\ item.tag = "job" /\ item.key = j /\ (item.keep => KeptWhole(j))
                        /\ warmQueue' = [warmQueue EXCEPT ![g] = Append(@, item)]
GoesFresh(j) == running' = running \cup {j} /\ UNCHANGED <<warmRunning, warmQueue>>
LaunchEffect(j) ==
  /\ UNCHANGED <<phase, completed, cancelled, results, buffers>> /\ phase = "admit"
  /\ j \notin RunningJobs \cup completed \cup cancelled \cup Under
  /\ RunningJobs' = RunningJobs \cup {j} /\ DOMAIN outputs' \subseteq DOMAIN outputs
  /\ GoesFresh(j) \/ \E g : GoesWarm(j, g)

LEMMA LaunchHasEffect ==
  ASSUME IInv, HInv, NEW j \in Jobs, NEW p \in Placements(j), LaunchStep(j, p)
  PROVE  LaunchEffect(j)
<1>1. /\ j \notin RunningJobs \cup completed \cup cancelled
      /\ RunningJobs' = RunningJobs \cup {j} /\ UNCHANGED <<phase, completed, cancelled, results, buffers>>
      /\ phase = "admit"
  BY LaunchBooks DEF LaunchStep, BooksStart, Ready, IInv
<1>2. j \notin Under
  BY <1>1 DEF HInv, Processes, Launched
<1>3. DOMAIN outputs' \subseteq DOMAIN outputs
  BY LaunchTable DEF LaunchStep, HInv
<1>4. CASE ~RunsWarm(j, p)
  <2>1. GoesFresh(j)
    BY <1>4 DEF LaunchStep, LaunchJob, Dispatch, GoesFresh
  <2> QED BY <1>1, <1>2, <1>3, <2>1 DEF LaunchEffect
<1>5. CASE RunsWarm(j, p)
  <2> DEFINE item == JobItem(j, KeepsOnDevice(j, p))
  <2>1. p.gpu \in GpuIds
    BY <1>5, LaunchedWhere DEF RunsWarm, RoutedWarm
  <2>2. /\ running' = running /\ warmQueue' = [warmQueue EXCEPT ![p.gpu] = Append(@, item)]
        /\ warmRunning' = [k \in DOMAIN warmRunning \cup {j} |-> IF k = j THEN p.gpu ELSE warmRunning[k]]
    BY <1>5 DEF LaunchStep, LaunchJob, Dispatch
  <2>3. item \in Item /\ item.tag = "job" /\ item.key = j /\ (item.keep => KeptWhole(j))
    BY DEF JobItem, Item, KeepsOnDevice, KeptWhole
  <2> HIDE DEF item
  <2>4. j \notin DOMAIN warmRunning
    BY <1>1 DEF RunningJobs
  <2>5. GoesWarm(j, p.gpu)
    BY <2>1, <2>2, <2>3, <2>4 DEF GoesWarm
  <2> QED BY <1>1, <1>2, <1>3, <2>5 DEF LaunchEffect
<1> QED BY <1>4, <1>5

(* A warm worker takes its next item; a result it keeps becomes a buffer   *)
(* and a handle.                                                           *)
WarmEffect(g, item) ==
  /\ phase # "done" /\ warmQueue[g] # <<>> /\ item = Head(warmQueue[g])
  /\ warmQueue' = [warmQueue EXCEPT ![g] = Tail(@)]
  /\ UNCHANGED <<phase, running, warmRunning, completed, cancelled, outputs, refs>>
  /\ \/ /\ item.tag = "free" /\ results' = results
        /\ buffers' = [buffers EXCEPT ![g] = @ \ item.keys]
     \/ /\ item.tag = "job"
        /\ \E m \in Message :
             /\ m.key = item.key /\ results' = Append(results, m)
             /\ \/ m.status # "handle" /\ buffers' = buffers
                \/ /\ m.status = "handle" /\ item.keep
                   /\ buffers' = [buffers EXCEPT ![g] = @ \cup {<<item.key, Whole>>}]

LEMMA WarmHasEffect ==
  ASSUME HInv, NEW g \in GpuIds, WarmFrees(g) \/ WarmRuns(g)
  PROVE  \E item : WarmEffect(g, item)
<1> DEFINE item == Head(warmQueue[g])
<1>1. /\ phase # "done" /\ warmQueue[g] # <<>> /\ warmQueue' = [warmQueue EXCEPT ![g] = Tail(@)]
      /\ UNCHANGED <<phase, running, warmRunning, completed, cancelled, outputs, refs>>
  BY DEF WarmFrees, WarmRuns, WarmTakes, loopVars, jobVars, tableVars, HInv, Processes
<1>2. CASE WarmFrees(g)
  <2>1. WarmEffect(g, item)
    BY <1>1, <1>2 DEF WarmFrees, WarmEffect
  <2> QED BY <2>1
<1>3. CASE WarmRuns(g)
  <2>1. item \in Item /\ item.tag = "job"
    <3>1. warmQueue[g] \in Seq(Item)
      BY DEF HInv, Processes
    <3> QED BY <1>1, <1>3, <3>1, TakeFirst DEF WarmRuns
  <2>2. item.key \in Jobs
    BY <2>1 DEF Item
  <2>3. PICK s \in Verdicts(item.key, buffers[g]) :
          IF item.keep /\ s = "ok"
            THEN Post(item.key, "handle") /\ buffers' = [buffers EXCEPT ![g] = @ \cup {<<item.key, Whole>>}]
            ELSE Post(item.key, s) /\ UNCHANGED buffers
    BY <1>3 DEF WarmRuns
  <2>4. s \in {"ok", "error", "wrong_shards"}
    BY DEF Verdicts
  <2> HIDE DEF item
  <2> DEFINE m(t) == [key |-> item.key, status |-> t]
  <2>5. /\ m("handle") \in Message /\ m(s) \in Message
        /\ m(s).key = item.key /\ m("handle").key = item.key
        /\ m(s).status # "handle" /\ m("handle").status = "handle"
    BY <2>2, <2>4 DEF Message
  <2>6. CASE item.keep /\ s = "ok"
    <3>1. results' = Append(results, m("handle"))
          /\ buffers' = [buffers EXCEPT ![g] = @ \cup {<<item.key, Whole>>}]
      BY <2>3, <2>6 DEF Post
    <3> HIDE DEF m
    <3>2. WarmEffect(g, item)
      BY <1>1, <2>1, <2>5, <2>6, <3>1 DEF WarmEffect, item
    <3> QED BY <3>2
  <2>7. CASE ~(item.keep /\ s = "ok")
    <3>1. results' = Append(results, m(s)) /\ buffers' = buffers
      BY <2>3, <2>7 DEF Post
    <3> HIDE DEF m
    <3>2. WarmEffect(g, item)
      BY <1>1, <2>1, <2>5, <3>1 DEF WarmEffect, item
    <3> QED BY <3>2
  <2> QED BY <2>6, <2>7
<1> QED BY <1>2, <1>3

(* A fresh process posts anything but a handle.                            *)
FreshEffect(m) ==
  /\ m \in Message /\ m.status # "handle" /\ m.key \in computing /\ results' = Append(results, m)
  /\ phase # "done"
  /\ UNCHANGED <<phase, running, warmRunning, completed, cancelled, outputs, warmQueue, buffers, refs>>

LEMMA FreshHasEffect ==
  ASSUME HInv, NEW j \in Jobs, FreshPosts(j)
  PROVE  \E m : FreshEffect(m)
<1>1. PICK s \in Verdicts(j, {}) : results' = Append(results, [key |-> j, status |-> s])
  BY DEF FreshPosts, Post
<1>2. s \in {"ok", "error", "wrong_shards"}
  BY DEF Verdicts
<1> DEFINE m == [key |-> j, status |-> s]
<1>3. m \in Message /\ m.status # "handle" /\ m.key = j /\ results' = Append(results, m)
  BY <1>1, <1>2 DEF Message
<1> HIDE DEF m
<1>4. /\ j \in computing /\ phase # "done"
      /\ UNCHANGED <<phase, running, warmRunning, completed, cancelled, outputs, warmQueue, buffers, refs>>
  BY DEF FreshPosts, loopVars, jobVars, tableVars, HInv, Processes
<1>5. FreshEffect(m)
  BY <1>3, <1>4 DEF FreshEffect
<1> QED BY <1>5

CloseEffect ==
  /\ phase' = "done" /\ warmQueue' = [g \in GpuIds |-> <<>>] /\ buffers' = [g \in GpuIds |-> {}]
  /\ running' \subseteq running
  /\ UNCHANGED <<warmRunning, completed, cancelled, outputs, results, refs>>

(* The shape in which the steps are taken below.                           *)
LEMMA TrafficStep ==
  ASSUME IInv, HInv, [Next]_vars
  PROVE  \/ Silent \/ CloseEffect
         \/ Reap /\ \E S : ReapEffect(S)
         \/ \E j \in Jobs : \E p \in Placements(j) : LaunchStep(j, p) /\ LaunchEffect(j)
         \/ Spill \/ \E m : FreshEffect(m)
         \/ \E g \in GpuIds : \E item : WarmEffect(g, item)
<1>1. CASE Close
  BY <1>1 DEF Close, CloseEffect
<1>2. CASE Launch
  BY <1>2, LaunchIsOneJob, LaunchHasEffect
<1> QED BY <1>1, <1>2, TrafficKinds, ReapHasEffect, FreshHasEffect, WarmHasEffect

-----------------------------------------------------------------------------
(* One lemma per part, one step per kind of step.                          *)

LEMMA QueueTypes ==
  ASSUME IInv, HInv
  PROVE  /\ results \in Seq(Message) /\ warmQueue \in [GpuIds -> Seq(Item)]
         /\ DOMAIN outputs \subseteq Outs /\ Books /\ Stored /\ Tables /\ Processes
         /\ phase # "done" => Under \subseteq Launched
         /\ Under \cap computing = {} /\ computing \subseteq running
BY OutputsAreOuts DEF IInv, HInv, Processes

LEMMA OnceKeeps ==
  ASSUME IInv, HInv, Once, [Next]_vars
  PROVE  Once'
<1>1. /\ results \in Seq(Message) /\ warmQueue \in [GpuIds -> Seq(Item)] /\ DOMAIN outputs \subseteq Outs
      /\ DistinctKeys(results) /\ JobsOnce(warmQueue)
      /\ PostedIn(results) \cap QueuedIn(warmQueue) = {} /\ Under \cap completed = {}
  BY QueueTypes DEF Once
<1>2. CASE Silent \/ Spill
  <2>1. UNCHANGED <<completed, results, warmQueue>>
    BY <1>2 DEF Silent, Spill, jobVars
  <2> QED BY <2>1 DEF Once, Under
<1>3. ASSUME NEW S, ReapEffect(S)
      PROVE  Once'
  <2> DEFINE k == Received.key
  <2>1. /\ DistinctKeys(results') /\ k \in PostedIn(results) /\ PostedIn(results') = PostedIn(results) \ {k}
    BY <1>1, <1>3, TakeDistinct DEF ReapEffect, Received
  <2>2. JobsOnce(warmQueue') /\ QueuedIn(warmQueue') = QueuedIn(warmQueue)
    <3>1. S \subseteq Outs /\ warmQueue' = WithFrees(warmQueue, outputs, S)
      BY <1>1, <1>3 DEF ReapEffect
    <3> QED BY <1>1, <3>1, FreesKeepOnce, FreesAreNoJobs
  <2>3. completed' \subseteq completed \cup {k}
    BY <1>3 DEF ReapEffect
  <2> HIDE DEF k
  <2> QED BY <1>1, <2>1, <2>2, <2>3 DEF Once, Under
<1>4. ASSUME NEW j \in Jobs, LaunchEffect(j)
      PROVE  Once'
  <2>1. j \notin completed /\ j \notin Under /\ UNCHANGED <<completed, results>>
    BY <1>4 DEF LaunchEffect
  <2>2. CASE GoesFresh(j)
    BY <1>1, <2>1, <2>2 DEF GoesFresh, Once, Under
  <2>3. ASSUME NEW g, GoesWarm(j, g)
        PROVE  Once'
    <3>1. PICK item \in Item : item.tag = "job" /\ item.key = j
                               /\ warmQueue' = [warmQueue EXCEPT ![g] = Append(@, item)]
      BY <2>3 DEF GoesWarm
    <3>2. g \in GpuIds /\ item.key \notin QueuedIn(warmQueue)
      BY <2>1, <2>3, <3>1 DEF GoesWarm, Under
    <3>3. JobsOnce(warmQueue') /\ QueuedIn(warmQueue') = QueuedIn(warmQueue) \cup {j}
      BY <1>1, <3>1, <3>2, GiveItem
    <3> QED BY <1>1, <2>1, <3>3 DEF Once, Under
  <2> QED BY <1>4, <2>2, <2>3 DEF LaunchEffect
<1>5. ASSUME NEW m, FreshEffect(m)
      PROVE  Once'
  <2>1. /\ m \in Message /\ m.key \in computing /\ results' = Append(results, m)
        /\ UNCHANGED <<completed, warmQueue>>
    BY <1>5 DEF FreshEffect
  <2>2. m.key \notin Under /\ m.key \notin completed
    BY <2>1 DEF HInv, Processes, IInv, Books, RunningJobs
  <2>3. DistinctKeys(results') /\ PostedIn(results') = PostedIn(results) \cup {m.key}
    BY <1>1, <2>1, <2>2, AddDistinct DEF Under
  <2> QED BY <1>1, <2>1, <2>2, <2>3 DEF Once, Under
<1>6. ASSUME NEW g \in GpuIds, NEW item, WarmEffect(g, item)
      PROVE  Once'
  <2>1. /\ warmQueue[g] # <<>> /\ item = Head(warmQueue[g]) /\ completed' = completed
        /\ warmQueue' = [warmQueue EXCEPT ![g] = Tail(@)]
    BY <1>6 DEF WarmEffect
  <2>2. /\ JobsOnce(warmQueue')
        /\ item.tag = "job" =>
             item.key \in QueuedIn(warmQueue) /\ QueuedIn(warmQueue') = QueuedIn(warmQueue) \ {item.key}
        /\ item.tag # "job" => QueuedIn(warmQueue') = QueuedIn(warmQueue)
    <3>1. OneFewer(warmQueue, warmQueue', Head(warmQueue[g]))
      BY <1>1, <2>1, TakeItem
    <3> QED BY <2>1, <3>1 DEF OneFewer
  <2>3. CASE results' = results
    BY <1>1, <2>1, <2>2, <2>3 DEF Once, Under
  <2>4. CASE results' # results
    <3>1. PICK m \in Message : item.tag = "job" /\ m.key = item.key /\ results' = Append(results, m)
      BY <1>6, <2>4 DEF WarmEffect
    <3>2. m.key \notin PostedIn(results)
      BY <1>1, <2>2, <3>1
    <3>3. DistinctKeys(results') /\ PostedIn(results') = PostedIn(results) \cup {m.key}
      BY <1>1, <3>1, <3>2, AddDistinct
    <3> QED BY <1>1, <2>1, <2>2, <3>1, <3>3 DEF Once, Under
  <2> QED BY <2>3, <2>4
<1>7. CASE CloseEffect
  <2>1. UNCHANGED <<completed, results>> /\ \A g \in GpuIds : warmQueue'[g] = <<>>
    BY <1>7 DEF CloseEffect
  <2>2. JobsOnce(warmQueue') /\ QueuedIn(warmQueue') = {}
    BY <2>1 DEF JobsOnce, QueuedIn
  <2> QED BY <1>1, <2>1, <2>2 DEF Once, Under
<1> QED BY <1>2, <1>3, <1>4, <1>5, <1>6, <1>7, TrafficStep

LEMMA OnGpusKeeps ==
  ASSUME IInv, HInv, OnGpus, [Next]_vars
  PROVE  OnGpus'
<1>1. CASE Silent \/ Spill \/ CloseEffect
  BY <1>1 DEF Silent, Spill, jobVars, CloseEffect, OnGpus
<1>2. ASSUME NEW S, ReapEffect(S)
      PROVE  OnGpus'
  BY <1>2 DEF ReapEffect, OnGpus
<1>3. ASSUME NEW j \in Jobs, LaunchEffect(j)
      PROVE  OnGpus'
  BY <1>3 DEF LaunchEffect, GoesFresh, GoesWarm, OnGpus
<1>4. ASSUME NEW m, FreshEffect(m)
      PROVE  OnGpus'
  BY <1>4 DEF FreshEffect, OnGpus
<1>5. ASSUME NEW g \in GpuIds, NEW item, WarmEffect(g, item)
      PROVE  OnGpus'
  BY <1>5 DEF WarmEffect, OnGpus
<1> QED BY <1>1, <1>2, <1>3, <1>4, <1>5, TrafficStep

LEMMA QueuedKeeps ==
  ASSUME IInv, HInv, Queued, [Next]_vars
  PROVE  Queued'
<1>1. /\ results \in Seq(Message) /\ warmQueue \in [GpuIds -> Seq(Item)] /\ DOMAIN outputs \subseteq Outs
      /\ \A o \in DOMAIN outputs : o[1] \in completed
  BY QueueTypes DEF Stored
<1>2. CASE Silent
  BY <1>2 DEF Silent, Queued, ItemRight
<1>3. CASE Spill
  <2>1. UNCHANGED <<running, warmRunning, completed, cancelled, warmQueue>> /\ DOMAIN outputs' = DOMAIN outputs
    BY <1>3 DEF Spill, jobVars
  <2> QED BY <2>1 DEF Queued, ItemRight
<1>4. ASSUME NEW S, ReapEffect(S)
      PROVE  Queued'
  <2>1. S \subseteq Outs /\ S \in SUBSET DOMAIN outputs /\ warmQueue' = WithFrees(warmQueue, outputs, S)
    BY <1>1, <1>4 DEF ReapEffect
  <2>2. ASSUME NEW g \in GpuIds, NEW item, In(item, warmQueue'[g])
        PROVE  ItemRight(g, item)'
    <3>1. In(item, warmQueue[g]) \/ item = FreeItem(FreedOn(outputs, S, g))
      <4>1. GainsFrees(warmQueue[g], WithFrees(warmQueue, outputs, S)[g], FreedOn(outputs, S, g))
        BY <1>1, <2>1, FreesInQueues
      <4> QED BY <2>1, <2>2, <4>1 DEF GainsFrees
    <3>2. CASE In(item, warmQueue[g])
      <4>1. ItemRight(g, item)
        BY <3>2 DEF Queued
      <4>2. ASSUME NEW o \in item.keys, item.tag = "free"
            PROVE  o[1] \in completed' \cup cancelled' /\ o \notin DOMAIN outputs'
        <5>1. o[1] \in completed \cup cancelled /\ o \notin DOMAIN outputs
          BY <4>1, <4>2 DEF ItemRight
        <5>2. CASE o \in DOMAIN outputs'
          <6>1. ReapOk /\ o \in OutsOf(Received.key)
            BY <1>4, <5>1, <5>2 DEF ReapEffect, EntryStored
          <6>2. o[1] = Received.key
            BY <6>1 DEF OutsOf
          <6>3. Received.key \in RunningJobs
            BY <6>1 DEF ReapOk, IsRunning, RunningJobs
          <6> QED BY <5>1, <6>2, <6>3 DEF IInv, Books
        <5> QED BY <1>4, <5>1, <5>2 DEF ReapEffect
      <4>3. item.tag = "job" =>
              /\ item.key \notin running'
              /\ item.key \in DOMAIN warmRunning' => warmRunning'[item.key] = g
              /\ item.keep => KeptWhole(item.key)
        BY <1>4, <4>1 DEF ReapEffect, ItemRight
      <4>4. item.tag = "free" =>
              \A o \in item.keys : o[1] \in completed' \cup cancelled' /\ o \notin DOMAIN outputs'
        BY <4>2
      <4> QED BY <4>3, <4>4 DEF ItemRight
    <3>3. CASE item = FreeItem(FreedOn(outputs, S, g))
      <4>1. item.tag = "free" /\ item.keys \subseteq S
        BY <3>3 DEF FreeItem, FreedOn
      <4>2. \A o \in S : o[1] \in completed' \cup cancelled' /\ o \notin DOMAIN outputs'
        BY <1>1, <1>4 DEF ReapEffect
      <4> QED BY <4>1, <4>2 DEF ItemRight
    <3> QED BY <3>1, <3>2, <3>3
  <2> QED BY <2>2 DEF Queued
<1>5. ASSUME NEW j \in Jobs, LaunchEffect(j)
      PROVE  Queued'
  <2>1. /\ j \notin Under /\ j \notin running /\ UNCHANGED <<completed, cancelled>>
        /\ DOMAIN outputs' \subseteq DOMAIN outputs
    BY <1>5 DEF LaunchEffect, RunningJobs
  <2>2. \A g \in GpuIds : \A item : In(item, warmQueue[g]) /\ item.tag = "job" => item.key # j
    <3>1. j \notin QueuedIn(warmQueue)
      BY <2>1 DEF Under
    <3> QED BY <3>1 DEF QueuedIn, In
  <2>3. CASE GoesFresh(j)
    <3>1. \A g \in GpuIds : \A item : In(item, warmQueue[g]) => ItemRight(g, item)'
      BY <2>1, <2>2, <2>3 DEF GoesFresh, Queued, ItemRight
    <3> QED BY <2>3, <3>1 DEF Queued, GoesFresh
  <2>4. ASSUME NEW g, GoesWarm(j, g)
        PROVE  Queued'
    <3>1. PICK new \in Item : /\ new.tag = "job" /\ new.key = j /\ (new.keep => KeptWhole(j))
                              /\ warmQueue' = [warmQueue EXCEPT ![g] = Append(@, new)]
      BY <2>4 DEF GoesWarm
    <3>2. /\ g \in GpuIds /\ running' = running /\ warmRunning'[j] = g
          /\ DOMAIN warmRunning' = DOMAIN warmRunning \cup {j}
          /\ \A k \in DOMAIN warmRunning : warmRunning'[k] = warmRunning[k]
      BY <2>4 DEF GoesWarm
    <3>3. ASSUME NEW h \in GpuIds, NEW item, In(item, warmQueue'[h])
          PROVE  ItemRight(h, item)'
      <4>1. In(item, warmQueue[h]) \/ (h = g /\ item = new)
        <5>1. warmQueue'[h] = IF h = g THEN Append(warmQueue[h], new) ELSE warmQueue[h]
          BY <1>1, <3>1, <3>2
        <5>2. warmQueue[h] \in Seq(Item)
          BY <1>1
        <5> QED BY <3>3, <5>1, <5>2, AddLast
      <4>2. CASE In(item, warmQueue[h])
        <5>1. ItemRight(h, item) /\ (item.tag = "job" => item.key # j)
          BY <2>2, <4>2 DEF Queued
        <5> QED BY <2>1, <3>2, <5>1 DEF ItemRight
      <4>3. CASE h = g /\ item = new
        BY <2>1, <3>1, <3>2, <4>3 DEF ItemRight
      <4> QED BY <4>1, <4>2, <4>3
    <3> QED BY <3>3 DEF Queued
  <2> QED BY <1>5, <2>3, <2>4 DEF LaunchEffect
<1>6. ASSUME NEW m, FreshEffect(m)
      PROVE  Queued'
  BY <1>6 DEF FreshEffect, Queued, ItemRight
<1>7. ASSUME NEW g \in GpuIds, NEW item, WarmEffect(g, item)
      PROVE  Queued'
  <2>1. /\ warmQueue[g] # <<>> /\ warmQueue' = [warmQueue EXCEPT ![g] = Tail(@)]
        /\ UNCHANGED <<running, warmRunning, completed, cancelled, outputs>>
    BY <1>7 DEF WarmEffect
  <2>2. ASSUME NEW h \in GpuIds, NEW x, In(x, warmQueue'[h])
        PROVE  In(x, warmQueue[h])
    <3>1. warmQueue'[h] = IF h = g THEN Tail(warmQueue[h]) ELSE warmQueue[h]
      BY <1>1, <2>1
    <3>2. warmQueue[g] \in Seq(Item)
      BY <1>1
    <3> QED BY <2>1, <2>2, <3>1, <3>2, TakeFirst
  <2> QED BY <2>1, <2>2 DEF Queued, ItemRight
<1>8. CASE CloseEffect
  <2>1. \A g \in GpuIds : \A x : ~In(x, warmQueue'[g])
    BY <1>8 DEF CloseEffect, In
  <2> QED BY <2>1 DEF Queued
<1> QED BY <1>2, <1>3, <1>4, <1>5, <1>6, <1>7, <1>8, TrafficStep

LEMMA HandlesKeep ==
  ASSUME IInv, HInv, OnGpus, Queued, Handles, Buffered, [Next]_vars
  PROVE  Handles'
<1>1. /\ results \in Seq(Message) /\ warmQueue \in [GpuIds -> Seq(Item)]
      /\ buffers \in [GpuIds -> SUBSET Outs]
  BY QueueTypes DEF Buffered
<1>2. CASE Silent
  BY <1>2 DEF Silent, Handles, HandleRight
<1>3. CASE Spill
  BY <1>3 DEF Spill, jobVars, workerVars, Handles, HandleRight
<1>4. ASSUME NEW S, ReapEffect(S)
      PROVE  Handles'
  <2>1. \A m : In(m, results') => In(m, results)
    BY <1>1, <1>4, TakeFirst DEF ReapEffect
  <2> QED BY <1>4, <2>1 DEF ReapEffect, Handles, HandleRight
<1>5. ASSUME NEW j \in Jobs, LaunchEffect(j)
      PROVE  Handles'
  <2>1. /\ j \notin Under /\ UNCHANGED <<results, buffers, phase>>
        /\ running' \subseteq running \cup {j}
        /\ \A k \in DOMAIN warmRunning' : k # j => k \in DOMAIN warmRunning /\ warmRunning'[k] = warmRunning[k]
    BY <1>5 DEF LaunchEffect, GoesFresh, GoesWarm
  <2>2. \A m : In(m, results) => m.key # j
    BY <2>1 DEF Under, PostedIn, In
  <2> QED BY <2>1, <2>2 DEF Handles, HandleRight
<1>6. ASSUME NEW m, FreshEffect(m)
      PROVE  Handles'
  <2>1. \A x : In(x, results') => In(x, results) \/ x = m
    BY <1>1, <1>6, AddLast DEF FreshEffect
  <2> QED BY <1>6, <2>1 DEF FreshEffect, Handles, HandleRight
<1>7. ASSUME NEW g \in GpuIds, NEW item, WarmEffect(g, item)
      PROVE  Handles'
  <2>1. /\ phase # "done" /\ UNCHANGED <<phase, running, warmRunning, completed, cancelled>>
        /\ In(item, warmQueue[g])
    <3>1. warmQueue[g] \in Seq(Item)
      BY <1>1
    <3> QED BY <1>7, <3>1, TakeFirst DEF WarmEffect
  <2>2. ItemRight(g, item)
    BY <2>1 DEF Queued
  <2>3. CASE item.tag = "free"
    <3>1. results' = results /\ buffers' = [buffers EXCEPT ![g] = @ \ item.keys]
      BY <1>7, <2>3 DEF WarmEffect
    <3>2. ASSUME NEW m, In(m, results), m.status = "handle"
          PROVE  HandleRight(m.key)'
      <4>1. HandleRight(m.key)
        BY <2>1, <3>2 DEF Handles
      <4>2. m.key \in DOMAIN warmRunning => <<m.key, Whole>> \notin item.keys
        BY <2>2, <2>3 DEF ItemRight, IInv, Books, RunningJobs
      <4> QED BY <1>1, <2>1, <3>1, <4>1, <4>2 DEF HandleRight
    <3> QED BY <2>1, <3>1, <3>2 DEF Handles
  <2>4. CASE item.tag = "job"
    <3>1. PICK m \in Message :
            /\ m.key = item.key /\ results' = Append(results, m)
            /\ \/ m.status # "handle" /\ buffers' = buffers
               \/ /\ m.status = "handle" /\ item.keep
                  /\ buffers' = [buffers EXCEPT ![g] = @ \cup {<<item.key, Whole>>}]
      BY <1>7, <2>4 DEF WarmEffect
    <3>2. \A x : In(x, results') => In(x, results) \/ x = m
      BY <1>1, <3>1, AddLast
    <3>3. \A h \in GpuIds : buffers[h] \subseteq buffers'[h]
      BY <1>1, <3>1
    <3>4. ASSUME NEW x, In(x, results), x.status = "handle"
          PROVE  HandleRight(x.key)'
      <4>1. HandleRight(x.key)
        BY <2>1, <3>4 DEF Handles
      <4>2. x.key \in DOMAIN warmRunning => <<x.key, Whole>> \in buffers'[warmRunning[x.key]]
        BY <3>3, <4>1 DEF HandleRight, OnGpus
      <4> QED BY <2>1, <4>1, <4>2 DEF HandleRight
    <3>5. ASSUME m.status = "handle"
          PROVE  HandleRight(m.key)'
      <4>1. /\ m.key \notin running /\ KeptWhole(m.key)
            /\ m.key \in DOMAIN warmRunning => warmRunning[m.key] = g
        BY <2>2, <2>4, <3>1, <3>5 DEF ItemRight
      <4>2. <<m.key, Whole>> \in buffers'[g]
        BY <1>1, <3>1, <3>5
      <4> QED BY <2>1, <4>1, <4>2 DEF HandleRight
    <3> QED BY <2>1, <3>2, <3>4, <3>5 DEF Handles
  <2> QED BY <1>7, <2>3, <2>4 DEF WarmEffect
<1>8. CASE CloseEffect
  BY <1>8 DEF CloseEffect, Handles
<1> QED BY <1>2, <1>3, <1>4, <1>5, <1>6, <1>7, <1>8, TrafficStep

LEMMA FreeIsIn ==
  ASSUME NEW g \in GpuIds, NEW o
  PROVE  /\ FreeOnItsWay(g, o) <=> \E x : In(x, warmQueue[g]) /\ x.tag = "free" /\ o \in x.keys
         /\ FreeOnItsWay(g, o)' <=> \E x : In(x, warmQueue'[g]) /\ x.tag = "free" /\ o \in x.keys
BY DEF FreeOnItsWay, In

(* A result that lies in a segment or on a device stays there.             *)
LEMMA ByReferenceKept ==
  ASSUME IInv, HInv, [Next]_vars, NEW o \in DOMAIN outputs, o \in DOMAIN outputs',
         outputs[o].res \in ByReference
  PROVE  outputs'[o].res = outputs[o].res /\ outputs'[o].gpu = outputs[o].gpu
<1>1. ~EntryStored(o)
  BY ReapOkTable DEF EntryStored, IInv, HInv
<1>2. EntryStep(o, outputs[o], outputs'[o])
  BY <1>1, EntriesStep
<1> QED BY <1>2 DEF EntryStep, ByReference

LEMMA LaunchKeepsByReference ==
  ASSUME IInv, HInv, NEW j, NEW p, LaunchStep(j, p), NEW o \in DOMAIN outputs,
         outputs[o].res \in ByReference
  PROVE  o \in DOMAIN outputs'
<1>1. DOMAIN outputs' = DOMAIN outputs \ LastCopied(j)
  BY LaunchTable DEF LaunchStep, HInv
<1>2. o \notin LastCopied(j)
  BY DEF LastCopied, Copied
<1> QED BY <1>1, <1>2

LEMMA OutHasProducer ==
  ASSUME NEW o \in Outs
  PROVE  o[1] \in Jobs /\ o \in OutsOf(o[1])
BY DEF Outs, OutsOf

LEMMA KeptIsWhole ==
  ASSUME NEW k, KeptWhole(k)
  PROVE  k \in Jobs /\ OutsOf(k) = {<<k, Whole>>} /\ <<k, Whole>> \in Outs
<1>1. k \in Jobs /\ Shards[k] = {}
  BY GraphAssumption DEF KeptWhole
<1> QED BY <1>1 DEF OutsOf, Outs

LEMMA BufferedKeeps ==
  ASSUME IInv, HInv, Once, Queued, Buffered, [Next]_vars
  PROVE  Buffered'
<1>1. /\ results \in Seq(Message) /\ warmQueue \in [GpuIds -> Seq(Item)] /\ DOMAIN outputs \subseteq Outs
      /\ buffers \in [GpuIds -> SUBSET Outs] /\ DistinctKeys(results)
      /\ \A g \in GpuIds : \A o \in buffers[g] : Holder(g, o) /\ o \in Outs
  BY QueueTypes DEF Buffered, Once
<1>2. CASE Silent
  <2>1. \A g \in GpuIds : \A o : Holder(g, o)' <=> Holder(g, o)
    BY <1>2 DEF Silent, Holder, Pending, OnDevice, FreeOnItsWay
  <2> QED BY <1>2, <2>1 DEF Silent, Buffered
<1>3. CASE Spill
  <2>1. /\ UNCHANGED <<warmRunning, cancelled, results, warmQueue, buffers>> /\ phase' # "done"
        /\ DOMAIN outputs' = DOMAIN outputs
    BY <1>3 DEF Spill, jobVars, workerVars
  <2>2. ASSUME NEW g \in GpuIds, NEW o \in buffers[g]
        PROVE  Holder(g, o)'
    <3>1. OnDevice(g, o) => OnDevice(g, o)'
      BY <2>1, ByReferenceKept DEF OnDevice, ByReference
    <3> QED BY <1>1, <2>1, <2>2, <3>1 DEF Holder, Pending, FreeOnItsWay
  <2> QED BY <1>1, <2>1, <2>2 DEF Buffered
<1>4. ASSUME Reap, NEW S, ReapEffect(S)
      PROVE  Buffered'
  <2>1. /\ S \in SUBSET DOMAIN outputs /\ warmQueue' = WithFrees(warmQueue, outputs, S) /\ S \subseteq Outs
        /\ UNCHANGED buffers /\ phase' # "done" /\ results # <<>> /\ results' = Tail(results)
        /\ cancelled \subseteq cancelled'
    BY <1>1, <1>4 DEF ReapEffect
  <2>2. ASSUME NEW g \in GpuIds, NEW o \in buffers[g]
        PROVE  Holder(g, o)'
    <3>1. GainsFrees(warmQueue[g], warmQueue'[g], FreedOn(outputs, S, g))
      BY <1>1, <2>1, FreesInQueues
    <3>2. CASE o[1] \in cancelled
      BY <2>1, <3>2 DEF Holder
    <3>3. CASE FreeOnItsWay(g, o)
      BY <3>1, <3>3, FreeIsIn DEF GainsFrees, Holder
    <3>4. CASE OnDevice(g, o)
      <4>1. CASE o \in S
        <5>1. o \in FreedOn(outputs, S, g)
          BY <3>4, <4>1 DEF OnDevice, FreedOn
        <5>2. In(FreeItem(FreedOn(outputs, S, g)), warmQueue'[g])
          BY <3>1, <5>1 DEF GainsFrees
        <5>3. FreeOnItsWay(g, o)'
          BY <5>1, <5>2, FreeIsIn DEF FreeItem
        <5> QED BY <5>3 DEF Holder
      <4>2. CASE o \notin S
        <5>1. OnDevice(g, o)'
          BY <1>4, <3>4, <4>2 DEF ReapEffect, OnDevice
        <5> QED BY <5>1 DEF Holder
      <4> QED BY <4>1, <4>2
    <3>5. CASE Pending(g, o)
      <4>1. PICK m : In(m, results) /\ m.key = o[1] /\ m.status = "handle"
        BY <3>5 DEF Pending
      <4>2. o[1] \in DOMAIN warmRunning /\ warmRunning[o[1]] = g
        BY <3>5 DEF Pending
      <4>3. CASE m = Received
        <5>1. IsRunning(Received.key) /\ Received.status = "handle" /\ Received.key = o[1]
          BY <4>1, <4>2, <4>3 DEF IsRunning
        <5>2. ReapOk
          BY <1>4, <5>1 DEF Reap, ReapStale, ReapWrongShards, ReapError
        <5>3. o \in OutsOf(Received.key)
          BY <1>1, <2>2, <5>1, OutHasProducer
        <5>4. o \in DOMAIN outputs' /\ outputs'[o] = StoredEntry(Received, o)
          BY <5>2, <5>3, ReapOkTable DEF IInv, HInv
        <5>5. StoredEntry(Received, o) = DeviceEntry(o, g)
          BY <4>2, <5>1 DEF StoredEntry
        <5>6. OnDevice(g, o)'
          BY <5>4, <5>5 DEF OnDevice, DeviceEntry
        <5> QED BY <5>6 DEF Holder
      <4>4. CASE m # Received
        <5>1. In(m, results')
          BY <1>1, <2>1, <4>1, <4>4, TakeFirst DEF Received
        <5>2. m.key # Received.key
          BY <1>1, <2>1, <5>1, TakeDistinct DEF Received
        <5>3. \/ o[1] \in DOMAIN warmRunning' /\ warmRunning'[o[1]] = g
              \/ o[1] \in cancelled'
          BY <1>4, <4>1, <4>2, <5>2 DEF ReapEffect
        <5> QED BY <4>1, <5>1, <5>3 DEF Holder, Pending
      <4> QED BY <4>3, <4>4
    <3> QED BY <1>1, <2>2, <3>2, <3>3, <3>4, <3>5 DEF Holder
  <2> QED BY <1>1, <2>1, <2>2 DEF Buffered
<1>5. ASSUME NEW j \in Jobs, NEW p, LaunchStep(j, p), LaunchEffect(j)
      PROVE  Buffered'
  <2>1. /\ UNCHANGED <<cancelled, results, buffers>> /\ phase' # "done"
        /\ \A k \in DOMAIN warmRunning : k \in DOMAIN warmRunning' /\ warmRunning'[k] = warmRunning[k]
    BY <1>5 DEF LaunchEffect, GoesFresh, GoesWarm
  <2>2. ASSUME NEW h \in GpuIds, NEW x, In(x, warmQueue[h])
        PROVE  In(x, warmQueue'[h])
    <3>1. CASE GoesFresh(j)
      BY <2>2, <3>1 DEF GoesFresh
    <3>2. ASSUME NEW g, GoesWarm(j, g)
          PROVE  In(x, warmQueue'[h])
      <4>1. PICK item \in Item : warmQueue' = [warmQueue EXCEPT ![g] = Append(@, item)]
        BY <3>2 DEF GoesWarm
      <4>2. warmQueue'[h] = IF h = g THEN Append(warmQueue[h], item) ELSE warmQueue[h]
        BY <1>1, <4>1
      <4>3. warmQueue[h] \in Seq(Item)
        BY <1>1
      <4> QED BY <2>2, <4>2, <4>3, AddLast
    <3> QED BY <1>5, <3>1, <3>2 DEF LaunchEffect
  <2>3. ASSUME NEW g \in GpuIds, NEW o \in buffers[g]
        PROVE  Holder(g, o)'
    <3>1. OnDevice(g, o) => OnDevice(g, o)'
      BY <1>5, ByReferenceKept, LaunchKeepsByReference DEF OnDevice, ByReference
    <3>2. FreeOnItsWay(g, o) => FreeOnItsWay(g, o)'
      BY <2>2, FreeIsIn
    <3>3. Pending(g, o) => Pending(g, o)'
      BY <2>1 DEF Pending
    <3> QED BY <1>1, <2>1, <2>3, <3>1, <3>2, <3>3 DEF Holder
  <2> QED BY <1>1, <2>1, <2>3 DEF Buffered
<1>6. ASSUME NEW m, FreshEffect(m)
      PROVE  Buffered'
  <2>1. /\ UNCHANGED <<phase, warmRunning, cancelled, outputs, warmQueue, buffers>> /\ phase # "done"
        /\ \A x : In(x, results) => In(x, results')
    BY <1>1, <1>6, AddLast DEF FreshEffect
  <2>2. ASSUME NEW g \in GpuIds, NEW o \in buffers[g]
        PROVE  Holder(g, o)'
    BY <1>1, <2>1 DEF Holder, Pending, OnDevice, FreeOnItsWay
  <2> QED BY <1>1, <2>1, <2>2 DEF Buffered
<1>7. ASSUME NEW d \in GpuIds, NEW item, WarmEffect(d, item)
      PROVE  Buffered'
  <2>1. /\ phase # "done" /\ UNCHANGED <<phase, running, warmRunning, completed, cancelled, outputs>>
        /\ warmQueue[d] # <<>> /\ item = Head(warmQueue[d])
        /\ warmQueue' = [warmQueue EXCEPT ![d] = Tail(@)]
    BY <1>7 DEF WarmEffect
  <2>2. In(item, warmQueue[d]) /\ item \in Item /\ ItemRight(d, item)
    <3>1. warmQueue[d] \in Seq(Item)
      BY <1>1
    <3> QED BY <2>1, <3>1, TakeFirst DEF Queued
  <2>3. ASSUME NEW h \in GpuIds, NEW x, In(x, warmQueue[h]), ~(h = d /\ x = item)
        PROVE  In(x, warmQueue'[h])
    <3>1. warmQueue'[h] = IF h = d THEN Tail(warmQueue[h]) ELSE warmQueue[h]
      BY <1>1, <2>1
    <3>2. warmQueue[d] \in Seq(Item)
      BY <1>1
    <3> QED BY <2>1, <2>3, <3>1, <3>2, TakeFirst
  <2>4. ASSUME NEW g \in GpuIds, NEW o \in buffers[g],
               ~(g = d /\ item.tag = "free" /\ o \in item.keys),
               \A x : In(x, results) => In(x, results')
        PROVE  Holder(g, o)'
    <3>1. FreeOnItsWay(g, o) => FreeOnItsWay(g, o)'
      BY <2>3, <2>4, FreeIsIn
    <3>2. (OnDevice(g, o) => OnDevice(g, o)') /\ (Pending(g, o) => Pending(g, o)')
      BY <2>1, <2>4 DEF OnDevice, Pending
    <3> QED BY <1>1, <2>1, <2>4, <3>1, <3>2 DEF Holder
  <2>5. CASE item.tag = "free"
    <3>1. results' = results /\ buffers' = [buffers EXCEPT ![d] = @ \ item.keys]
      BY <1>7, <2>5 DEF WarmEffect
    <3>2. buffers' \in [GpuIds -> SUBSET Outs]
      BY <1>1, <3>1
    <3>3. ASSUME NEW g \in GpuIds, NEW o \in buffers'[g]
          PROVE  o \in buffers[g] /\ ~(g = d /\ o \in item.keys)
      BY <1>1, <3>1
    <3>4. \A g \in GpuIds : \A o \in buffers'[g] : Holder(g, o)'
      BY <2>4, <3>1, <3>3
    <3> QED BY <2>1, <3>2, <3>4 DEF Buffered
  <2>6. CASE item.tag = "job"
    <3>1. PICK m \in Message :
            /\ m.key = item.key /\ results' = Append(results, m)
            /\ \/ m.status # "handle" /\ buffers' = buffers
               \/ /\ m.status = "handle" /\ item.keep
                  /\ buffers' = [buffers EXCEPT ![d] = @ \cup {<<item.key, Whole>>}]
      BY <1>7, <2>6 DEF WarmEffect
    <3>2. \A x : In(x, results') <=> In(x, results) \/ x = m
      BY <1>1, <3>1, AddLast
    <3>3. ASSUME NEW g \in GpuIds, NEW o \in buffers[g]
          PROVE  Holder(g, o)'
      BY <2>4, <2>6, <3>2
    <3>4. CASE m.status # "handle"
      BY <1>1, <2>1, <3>1, <3>3, <3>4 DEF Buffered
    <3>5. CASE m.status = "handle"
      <4> DEFINE new == <<item.key, Whole>>
      <4>1. item.keep /\ buffers' = [buffers EXCEPT ![d] = @ \cup {new}]
        BY <3>1, <3>5
      <4>2. /\ KeptWhole(item.key) /\ item.key \notin running
            /\ item.key \in DOMAIN warmRunning => warmRunning[item.key] = d
        BY <2>2, <2>6, <4>1 DEF ItemRight
      <4>3. new \in Outs
        BY <4>2, KeptIsWhole
      <4>4. item.key \in DOMAIN warmRunning \/ item.key \in cancelled
        <5>1. item.key \in Jobs
          BY <4>2, KeptIsWhole
        <5>2. item.key \in QueuedIn(warmQueue)
          BY <2>2, <2>6, <5>1 DEF QueuedIn, In
        <5>3. item.key \in Launched /\ item.key \notin completed
          BY <2>1, <5>2 DEF Once, Under, HInv, Processes
        <5> QED BY <4>2, <5>3 DEF Launched, RunningJobs
      <4>5. Holder(d, new)'
        <5>1. new[1] = item.key /\ In(m, results') /\ m.key = item.key /\ m.status = "handle"
          BY <3>1, <3>2, <3>5
        <5> HIDE DEF new
        <5> QED BY <2>1, <4>2, <4>4, <5>1 DEF Holder, Pending
      <4> HIDE DEF new
      <4>6. buffers' \in [GpuIds -> SUBSET Outs]
        BY <1>1, <4>1, <4>3
      <4>7. ASSUME NEW g \in GpuIds, NEW o \in buffers'[g]
            PROVE  Holder(g, o)'
        <5>1. o \in buffers[g] \/ (g = d /\ o = new)
          BY <1>1, <4>1, <4>7
        <5> QED BY <3>3, <4>5, <5>1
      <4> QED BY <2>1, <4>6, <4>7 DEF Buffered
    <3> QED BY <3>4, <3>5
  <2> QED BY <1>7, <2>5, <2>6 DEF WarmEffect
<1>8. CASE CloseEffect
  BY <1>8 DEF CloseEffect, Buffered
<1> QED BY <1>2, <1>3, <1>4, <1>5, <1>6, <1>7, <1>8, TrafficStep

LEMMA OverIsFinal ==
  ASSUME IInv, HInv, [Next]_vars, phase' # "done"
  PROVE  phase # "done"
BY TrafficStep DEF Silent, CloseEffect, Spill, ReapEffect, LaunchEffect, FreshEffect, WarmEffect

(* The handle of a running job becomes an entry of the device whose        *)
(* registry has the buffer.                                                *)
LEMMA StoredOnDevice ==
  ASSUME IInv, HInv, OnGpus, Handles, NEW o, EntryStored(o), outputs'[o].res = "device"
  PROVE  LET g == outputs'[o].gpu IN g \in GpuIds /\ o \in buffers[g] /\ ConsumersAllGpu(o[1])
<1> DEFINE k == Received.key
<1>1. /\ o \in OutsOf(k) /\ outputs'[o] = StoredEntry(Received, o) /\ IsRunning(k)
      /\ results # <<>> /\ phase # "done"
  BY DEF EntryStored, ReapOk, Reaping
<1>2. Received.status = "handle"
  BY <1>1 DEF StoredEntry, HostEntry
<1>3. outputs'[o].gpu = warmRunning[k]
  BY <1>1, <1>2 DEF StoredEntry, DeviceEntry
<1>4. In(Received, results)
  BY <1>1, QueueTypes, TakeFirst DEF Received
<1>5. HandleRight(k)
  BY <1>1, <1>2, <1>4 DEF Handles
<1> HIDE DEF k
<1>6. k \in DOMAIN warmRunning /\ <<k, Whole>> \in buffers[warmRunning[k]] /\ KeptWhole(k)
  BY <1>1, <1>5 DEF HandleRight, IsRunning
<1>7. o = <<k, Whole>>
  BY <1>1, <1>6, KeptIsWhole
<1> QED BY <1>3, <1>6, <1>7 DEF OnGpus, KeptWhole

LEMMA OnDevicesKeep ==
  ASSUME IInv, HInv, OnGpus, Queued, Handles, Buffered, OnDevices, [Next]_vars
  PROVE  OnDevices'
<1> SUFFICES ASSUME phase' # "done", NEW o \in DOMAIN outputs', outputs'[o].res = "device"
             PROVE  /\ outputs'[o].gpu \in GpuIds /\ o \in buffers'[outputs'[o].gpu]
                    /\ ConsumersAllGpu(o[1])
  BY DEF OnDevices
<1> DEFINE g == outputs'[o].gpu
<1>1. phase # "done"
  BY OverIsFinal
<1>2. g \in GpuIds /\ o \in buffers[g] /\ ConsumersAllGpu(o[1]) /\ (EntryStored(o) \/ o \in DOMAIN outputs)
  <2>1. CASE EntryStored(o)
    BY <2>1, StoredOnDevice
  <2>2. CASE o \in DOMAIN outputs /\ EntryStep(o, outputs[o], outputs'[o])
    <3>1. outputs[o].res = "device" /\ outputs[o].gpu = g
      BY <2>2 DEF EntryStep
    <3> QED BY <1>1, <2>2, <3>1 DEF OnDevices
  <2> QED BY <2>1, <2>2, EntriesStep
<1> HIDE DEF g
<1>3. ASSUME buffers' = buffers
      PROVE  o \in buffers'[g]
  BY <1>2, <1>3
<1>4. ASSUME NEW d \in GpuIds, NEW item, WarmEffect(d, item)
      PROVE  o \in buffers'[g]
  <2>1. outputs' = outputs /\ o \in DOMAIN outputs
    BY <1>4 DEF WarmEffect
  <2>2. warmQueue[d] # <<>> /\ item = Head(warmQueue[d]) /\ warmQueue[d] \in Seq(Item)
    BY <1>4, QueueTypes DEF WarmEffect
  <2>3. ItemRight(d, item)
    BY <2>2, TakeFirst DEF Queued
  <2>4. buffers \in [GpuIds -> SUBSET Outs]
    BY DEF Buffered
  <2>5. CASE item.tag = "free"
    <3>1. buffers' = [buffers EXCEPT ![d] = @ \ item.keys]
      BY <1>4, <2>5 DEF WarmEffect
    <3>2. o \notin item.keys
      BY <2>1, <2>3, <2>5 DEF ItemRight
    <3> QED BY <1>2, <2>4, <3>1, <3>2
  <2>6. CASE item.tag = "job"
    <3>1. buffers' = buffers \/ \E new : buffers' = [buffers EXCEPT ![d] = @ \cup {new}]
      BY <1>4, <2>6 DEF WarmEffect
    <3> QED BY <1>2, <2>4, <3>1
  <2> QED BY <1>4, <2>5, <2>6 DEF WarmEffect
<1>5. o \in buffers'[g]
  <2>1. CASE Silent \/ Spill \/ \E m : FreshEffect(m)
    BY <1>3, <2>1 DEF Silent, Spill, FreshEffect, workerVars
  <2>2. CASE \E S : ReapEffect(S)
    BY <1>3, <2>2 DEF ReapEffect
  <2>3. CASE \E j \in Jobs : LaunchEffect(j)
    BY <1>3, <2>3 DEF LaunchEffect
  <2>4. ~CloseEffect
    BY DEF CloseEffect
  <2> QED BY <1>4, <2>1, <2>2, <2>3, <2>4, TrafficStep
<1> QED BY <1>2, <1>5 DEF g

LEMMA SegmentsKeep ==
  ASSUME IInv, HInv, Segments, [Next]_vars
  PROVE  Segments'
<1> SUFFICES ASSUME NEW o \in DOMAIN outputs'
             PROVE  LET e == outputs'[o]
                    IN e.domains \subseteq Domains /\ (e.res = "shared" => e.domains # {})
  BY DEF Segments
<1>1. CASE EntryStored(o)
  BY <1>1, StoredEntryShape DEF EntryStored
<1>2. CASE o \in DOMAIN outputs /\ EntryStep(o, outputs[o], outputs'[o])
  BY <1>2 DEF Segments, EntryStep
<1> QED BY <1>1, <1>2, EntriesStep

(* A job is placed on one of its own paths.                                *)
LEMMA PlacedOnOwnPath ==
  ASSUME NEW j \in Jobs, Feasible(PathsNow(j)), NEW p \in Placements(j)
  PROVE  \E i \in DOMAIN Paths[j] : p.path.placement = Paths[j][i].placement
<1> DEFINE paths == PathsNow(j)
           i == Min(CapablePaths(paths))
<1>1. DOMAIN paths = DOMAIN Paths[j] /\ DOMAIN Paths[j] \subseteq Nat
      /\ \A n \in DOMAIN paths : paths[n] = AugmentedPath(j, Paths[j][n], rate)
  BY RouteAssumption DEF PathsNow, Augmented
<1>2. i \in DOMAIN Paths[j]
  <2>1. CapablePaths(paths) # {} /\ CapablePaths(paths) \in SUBSET Nat
        /\ CapablePaths(paths) \subseteq DOMAIN Paths[j]
    BY <1>1 DEF Feasible, CapablePaths
  <2> QED BY <2>1, LeastOf
<1>3. p.path = paths[i]
  BY PlacedWhere DEF Placements, Plan
<1> HIDE DEF i, paths
<1>4. paths[i].placement = Paths[j][i].placement
  <2>1. paths[i] = AugmentedPath(j, Paths[j][i], rate)
    BY <1>1, <1>2
  <2> DEFINE shape == [placement : {"cpu_pinned", "cpu_unpinned", "gpu"},
                       cores : Nat \ {0}, ram : Nat, vram : Nat]
  <2>2. Paths[j] \in Seq(shape)
    BY RouteAssumption
  <2> HIDE DEF shape
  <2>3. Paths[j][i] \in shape
    BY <1>2, <2>2
  <2> QED BY <2>1, <2>3 DEF AugmentedPath, shape
<1> QED BY <1>2, <1>3, <1>4

(* What a launched job is handed, and that it runs warm when some of it is *)
(* on a device.                                                            *)
LEMMA LaunchHands ==
  ASSUME IInv, HInv, OnDevices, Handed, NEW j \in Jobs, NEW p \in Placements(j), LaunchStep(j, p),
         NEW r \in refs'[j]
  PROVE  HandedRight(j, r)' /\ r \in ByReference \X Outs
<1>1. refs'[j] = {<<Loaded(j, o, Domain(p)).res, o>> : o \in ByRef(j)}
  BY DEF Handed, LaunchStep, LaunchJob, ByRef
<1>2. PICK o \in ByRef(j) : r = <<Loaded(j, o, Domain(p)).res, o>>
  BY <1>1
<1>3. o \in Deps[j] /\ o \in DOMAIN outputs /\ o \in Outs
  BY <1>2, QueueTypes DEF ByRef, LaunchStep
<1>4. /\ outputs'[o] = Loaded(j, o, Domain(p)) /\ o \in DOMAIN outputs'
      /\ r[1] = outputs'[o].res /\ r[2] = o
  <2>1. DOMAIN outputs' = DOMAIN outputs \ LastCopied(j) /\ LastCopied(j) \subseteq Copied(j)
        /\ \A x \in ByRef(j) : outputs'[x] = Loaded(j, x, Domain(p))
    BY LaunchTable DEF LaunchStep, HInv
  <2> QED BY <1>2, <1>3, <2>1 DEF ByRef
<1>5. /\ outputs'[o].res \in ByReference
      /\ outputs'[o].res = "device" => outputs[o].res = "device"
  BY <1>3, <1>4, LoadedShape DEF HInv, ByReference
<1>6. ASSUME outputs[o].res = "device"
      PROVE  j \in DOMAIN warmRunning'
  <2>1. ConsumersAllGpu(o[1]) /\ ReadsDevice(j)
    BY <1>3, <1>6 DEF OnDevices, ReadsDevice, LaunchStep
  <2>2. j \in Dependents(o[1])
    BY <1>3 DEF Dependents, Producers
  <2>3. p.path.placement = "gpu"
    BY <2>1, <2>2, PlacedOnOwnPath DEF ConsumersAllGpu, LaunchStep, Diverged
  <2>4. RunsWarm(j, p)
    BY <2>1, <2>3 DEF RunsWarm
  <2> QED BY <2>4 DEF LaunchStep, LaunchJob, Dispatch
<1>7. HandedRight(j, r)'
  BY <1>3, <1>4, <1>5, <1>6 DEF HandedRight
<1>8. r \in ByReference \X Outs
  BY <1>2, <1>3, <1>4, <1>5
<1> QED BY <1>7, <1>8

(* No completion takes a result from another reader, no failure one from a *)
(* job that goes on running.                                               *)
LEMMA CompletionLeavesHanded ==
  ASSUME IInv, HInv, ReapOk, NEW j \in RunningJobs, j \in RunningJobs', NEW o \in Deps[j],
         o \in DOMAIN outputs, outputs[o].res \in ByReference
  PROVE  o \in DOMAIN outputs'
<1> DEFINE k == Received.key
<1>1. /\ k \in RunningJobs /\ k \in Jobs /\ k \notin completed /\ j \in Jobs /\ j \notin completed
      /\ DOMAIN outputs' = (DOMAIN outputs \ LastRead(k)) \cup OutsOf(k)
      /\ phase \notin {"closing", "done"}
  BY ReapOkTable DEF IInv, HInv, Books, RunningJobs, ReapOk, Reaping
<1>2. j # k
  BY <1>1, ReapedBooks DEF ReapOk, IInv, Books
<1>3. outputs[o].consumers = Cardinality(ReadersLeft(o))
  BY <1>1 DEF HInv, Counted, CountRight
<1>4. ReadersLeft(o) = Readers(o) \ completed /\ IsFiniteSet(ReadersLeft(o))
  BY LeftNow
<1> HIDE DEF k
<1>5. ASSUME o \in LastRead(k)
      PROVE  FALSE
  <2>1. Cardinality(ReadersLeft(o)) = 1 /\ o \in Deps[k]
    BY <1>3, <1>5 DEF LastRead, ReadByReference
  <2>2. k \in ReadersLeft(o) /\ j \in ReadersLeft(o)
    BY <1>1, <1>4, <2>1 DEF Readers
  <2>3. Cardinality(ReadersLeft(o) \ {k}) = 0
    BY <1>4, <2>1, <2>2, OneLess
  <2>4. IsFiniteSet(ReadersLeft(o) \ {k})
    BY <1>4, FS_Subset
  <2> QED BY <1>2, <2>2, <2>3, <2>4, FS_EmptySet
<1> QED BY <1>1, <1>5

LEMMA FailureLeavesHanded ==
  ASSUME IInv, HInv, ReapError, NEW j \in RunningJobs, j \in RunningJobs', NEW o \in Deps[j],
         o \in DOMAIN outputs
  PROVE  o \in DOMAIN outputs'
<1> DEFINE C == Component(Received.key)
<1>1. Received.key \in RunningJobs /\ Received.key \in Jobs /\ j \in Jobs /\ Poison(C)
  BY DEF ReapError, IsRunning, RunningJobs, IInv, Books
<1>2. Closed(C)
  BY <1>1, ComponentIsLeastClosed
<1>3. outputs' = Restricted(outputs, DOMAIN outputs \ HeldBy(C)) /\ RunningJobs' = RunningJobs \ C
  BY <1>1, PoisonBooks DEF Poison, BooksFail, IInv
<1> HIDE DEF C
<1>4. o[1] \in Producers(j)
  BY DEF Producers
<1>5. o[1] \notin C
  BY <1>1, <1>2, <1>3, <1>4 DEF Closed
<1> QED BY <1>3, <1>5 DEF Restricted, HeldBy

LEMMA HandedKeep ==
  ASSUME IInv, HInv, OnDevices, Handed, [Next]_vars
  PROVE  Handed'
<1>1. running \cap DOMAIN warmRunning = {} /\ RunningJobs \subseteq Jobs
  BY DEF IInv, HInv, Processes, Books
<1>2. ASSUME phase' # "done", UNCHANGED refs, RunningJobs' \subseteq RunningJobs, running' \subseteq running,
             \A j \in RunningJobs' : \A o \in Deps[j] :
               o \in DOMAIN outputs /\ outputs[o].res \in ByReference => o \in DOMAIN outputs'
      PROVE  Handed'
  <2> SUFFICES ASSUME NEW j \in RunningJobs', NEW r \in refs'[j]
               PROVE  HandedRight(j, r)'
    BY <1>2 DEF Handed
  <2>1. j \in RunningJobs /\ HandedRight(j, r)
    BY <1>2, OverIsFinal DEF Handed
  <2>2. r[2] \in DOMAIN outputs'
    BY <1>2, <2>1 DEF HandedRight
  <2>3. outputs'[r[2]].res = outputs[r[2]].res
    BY <2>1, <2>2, ByReferenceKept DEF HandedRight
  <2>4. j \in DOMAIN warmRunning => j \in DOMAIN warmRunning'
    BY <1>1, <1>2 DEF RunningJobs
  <2> QED BY <2>1, <2>2, <2>3, <2>4 DEF HandedRight
<1>3. CASE Silent \/ Spill \/ (\E m : FreshEffect(m)) \/ \E g \in GpuIds : \E item : WarmEffect(g, item)
  <2>1. UNCHANGED <<refs, running, warmRunning>> /\ DOMAIN outputs' = DOMAIN outputs
    BY <1>3 DEF Silent, Spill, FreshEffect, WarmEffect, jobVars, workerVars
  <2> QED BY <1>2, <2>1 DEF RunningJobs, Handed
<1>4. CASE Reap /\ \E S : ReapEffect(S)
  <2>1. phase' # "done" /\ UNCHANGED refs /\ RunningJobs' \subseteq RunningJobs /\ running' \subseteq running
    BY <1>4 DEF ReapEffect
  <2>2. ASSUME NEW j \in RunningJobs', NEW o \in Deps[j], o \in DOMAIN outputs,
               outputs[o].res \in ByReference
        PROVE  o \in DOMAIN outputs'
    <3>1. CASE ReapStale \/ ReapWrongShards
      BY <2>2, <3>1 DEF ReapStale, ReapWrongShards, tableVars
    <3>2. CASE ReapOk
      BY <2>1, <2>2, <3>2, CompletionLeavesHanded
    <3>3. CASE ReapError
      BY <2>1, <2>2, <3>3, FailureLeavesHanded
    <3> QED BY <1>4, <3>1, <3>2, <3>3 DEF Reap
  <2> QED BY <1>2, <2>1, <2>2
<1>5. ASSUME NEW j \in Jobs, NEW p \in Placements(j), LaunchStep(j, p), LaunchEffect(j)
      PROVE  Handed'
  <2>1. refs' = [refs EXCEPT ![j] = {<<Loaded(j, o, Domain(p)).res, o>> : o \in Deps[j] \ Copied(j)}]
    BY <1>5 DEF LaunchStep, LaunchJob
  <2>2. refs \in [Jobs -> SUBSET (ByReference \X Outs)]
    BY DEF Handed
  <2>3. \A r \in refs'[j] : HandedRight(j, r)' /\ r \in ByReference \X Outs
    BY <1>5, LaunchHands
  <2> DEFINE handed == {<<Loaded(j, o, Domain(p)).res, o>> : o \in Deps[j] \ Copied(j)}
  <2>4. refs'[j] = handed /\ refs' = [refs EXCEPT ![j] = handed]
    BY <2>1, <2>2
  <2> HIDE DEF handed
  <2>5. refs' \in [Jobs -> SUBSET (ByReference \X Outs)]
    BY <2>2, <2>3, <2>4
  <2>6. ASSUME NEW k \in RunningJobs', k # j, NEW r \in refs'[k]
        PROVE  HandedRight(k, r)'
    <3>1. k \in RunningJobs /\ phase # "done" /\ k \in Jobs
      BY <1>1, <1>5, <2>6 DEF LaunchEffect
    <3>2. r \in refs[k]
      BY <2>2, <2>4, <2>6, <3>1
    <3>3. HandedRight(k, r)
      BY <3>1, <3>2 DEF Handed
    <3>4. r[2] \in DOMAIN outputs'
      BY <1>5, <3>3, LaunchKeepsByReference DEF HandedRight
    <3>5. outputs'[r[2]].res = outputs[r[2]].res
      BY <3>3, <3>4, ByReferenceKept DEF HandedRight
    <3>6. k \in DOMAIN warmRunning => k \in DOMAIN warmRunning'
      BY <1>5 DEF LaunchEffect, GoesFresh, GoesWarm
    <3> QED BY <3>3, <3>4, <3>5, <3>6 DEF HandedRight
  <2> QED BY <2>3, <2>5, <2>6 DEF Handed
<1>6. CASE CloseEffect
  BY <1>6 DEF CloseEffect, Handed
<1> QED BY <1>3, <1>4, <1>5, <1>6, TrafficStep

LEMMA DInvInit == Init => DInv
<1> SUFFICES ASSUME Init
             PROVE  DInv
  OBVIOUS
<1>1. /\ phase = "top" /\ running = {} /\ DOMAIN warmRunning = {} /\ completed = {}
      /\ DOMAIN outputs = {} /\ DOMAIN results = {} /\ \A g \in GpuIds : DOMAIN warmQueue[g] = {}
      /\ buffers = [g \in GpuIds |-> {}] /\ refs = [j \in Jobs |-> {}]
  BY DEF Init
<1>2. PostedIn(results) = {} /\ QueuedIn(warmQueue) = {}
  BY <1>1 DEF PostedIn, QueuedIn
<1>3. Once
  BY <1>1, <1>2 DEF Once, DistinctKeys, JobsOnce, Under
<1>4. OnGpus /\ Queued /\ Handles
  BY <1>1 DEF OnGpus, Queued, Handles, In
<1>5. Buffered /\ OnDevices /\ Segments
  BY <1>1 DEF Buffered, OnDevices, Segments
<1>6. Handed
  BY <1>1 DEF Handed, RunningJobs
<1> QED BY <1>3, <1>4, <1>5, <1>6 DEF DInv

(* What is known of the devices: whose buffers are alive, and where.       *)
THEOREM DevicesInvariant == Spec => [](IInv /\ HInv /\ SInv /\ DInv)
<1>1. IInv /\ HInv /\ DInv /\ [Next]_vars => DInv'
  <2> SUFFICES ASSUME IInv, HInv, DInv, [Next]_vars
               PROVE  DInv'
    OBVIOUS
  <2>1. Once' /\ OnGpus'
    BY OnceKeeps, OnGpusKeeps DEF DInv
  <2>2. Queued' /\ Handles' /\ Buffered'
    BY QueuedKeeps, HandlesKeep, BufferedKeeps DEF DInv
  <2>3. OnDevices' /\ Handed' /\ Segments'
    BY OnDevicesKeep, HandedKeep, SegmentsKeep DEF DInv
  <2> QED BY <2>1, <2>2, <2>3 DEF DInv
<1> QED BY <1>1, DInvInit, SizesInvariant, PTL DEF Spec

(* The device memory of a warm worker is charged: every buffer in its      *)
(* registry belongs to an abandoned lineage, is charged to its result or to*)
(* the running job whose handle is on its way, or is about to be freed.    *)
THEOREM DeviceMemoryIsCharged == Spec => []DeviceMemoryCharged
<1>1. HInv /\ DInv => DeviceMemoryCharged
  <2> SUFFICES ASSUME HInv, DInv, NEW g \in GpuIds, NEW o \in buffers[g], o[1] \notin cancelled
               PROVE  BufferCharged(g, o)
    BY DEF DeviceMemoryCharged
  <2>1. Holder(g, o)
    BY DEF DInv, Buffered
  <2>2. DOMAIN ledger = KindsHeld(RunningJobs, PrivateInputs, TableKeys, warmUp)
    BY HoldersByKind DEF HInv, Charged
  <2>3. CASE Pending(g, o)
    <3>1. <<"job", o[1]>> \in DOMAIN ledger
      BY <2>2, <2>3 DEF Pending, RunningJobs, KindsHeld, JobKeys
    <3> QED BY <3>1 DEF BufferCharged
  <2>4. CASE OnDevice(g, o)
    <3>1. o \in DOMAIN outputs /\ ChargeKeys(outputs, o) = {<<"output", o>>}
      BY <2>4 DEF OnDevice, ChargeKeys
    <3>2. <<"output", o>> \in DOMAIN ledger
      BY <2>2, <3>1 DEF KindsHeld, TableKeys, ChargeKeysOf
    <3> QED BY <3>2 DEF BufferCharged
  <2> QED BY <2>1, <2>3, <2>4 DEF Holder, BufferCharged
<1> QED BY <1>1, DevicesInvariant, PTL

(* Every device result a job was handed lies on the device it was sent to. *)
OnItsDevice(j) == \A r \in refs[j] : r[1] = "device" => outputs[r[2]].gpu = warmRunning[j]
ServedOnItsDevice ==
  phase # "done" => \A j \in RunningJobs : OnItsDevice(j) => Resolvable(j, RegistryOf(j))

(* What a running job was handed is there to be read: the segments of every*)
(* shared result, and the device buffers, in the worker of the device the  *)
(* result lies on.  A job cannot resolve a reference only if it was sent to*)
(* the worker of another device.                                           *)
THEOREM ReadersAreServedOnTheirDevice == Spec => []ServedOnItsDevice
<1>1. HInv /\ DInv => ServedOnItsDevice
  <2> SUFFICES ASSUME HInv, DInv, phase # "done", NEW j \in RunningJobs, OnItsDevice(j), NEW r \in refs[j]
               PROVE  IF r[1] = "shared" THEN \E d \in NodeIds \cup {NoIndex} : <<r[2], d>> \in segments
                      ELSE r[2] \in RegistryOf(j)
    BY DEF ServedOnItsDevice, Resolvable
  <2>1. HandedRight(j, r)
    BY DEF DInv, Handed
  <2>2. CASE r[1] = "shared"
    <3>1. r[2] \in DOMAIN outputs /\ outputs[r[2]].res = "shared"
      BY <2>1, <2>2 DEF HandedRight
    <3>2. PICK d \in outputs[r[2]].domains : d \in Domains
      BY <3>1 DEF DInv, Segments
    <3>3. <<r[2], d>> \in segments
      BY <3>1, <3>2 DEF HInv, Segmented, SegmentsOf
    <3> QED BY <2>2, <3>2, <3>3 DEF Domains
  <2>3. CASE r[1] # "shared"
    <3>1. r[1] = "device" /\ r[2] \in DOMAIN outputs /\ outputs[r[2]].res = "device" /\ j \in DOMAIN warmRunning
      BY <2>1, <2>3 DEF HandedRight, ByReference
    <3>2. r[2] \in buffers[outputs[r[2]].gpu]
      BY <3>1 DEF DInv, OnDevices
    <3>3. outputs[r[2]].gpu = warmRunning[j]
      BY <3>1 DEF OnItsDevice
    <3> QED BY <2>3, <3>1, <3>2, <3>3 DEF RegistryOf
  <2> QED BY <2>2, <2>3
<1> QED BY <1>1, DevicesInvariant, PTL

OneDevice == \A g, h \in GpuIds : g = h
(* On a machine with one device a running job can resolve everything it was*)
(* handed, so no job fails because the scheduler took a result away too    *)
(* early.  With several devices a run shows that it can.                   *)
THEOREM ReadersAreServed == ASSUME OneDevice PROVE Spec => []ReadersServed
<1>1. DInv /\ ServedOnItsDevice => ReadersServed
  <2> SUFFICES ASSUME DInv, phase # "done", NEW j \in RunningJobs
               PROVE  OnItsDevice(j)
    BY DEF ServedOnItsDevice, ReadersServed
  <2> SUFFICES ASSUME NEW r \in refs[j], r[1] = "device"
               PROVE  outputs[r[2]].gpu = warmRunning[j]
    BY DEF OnItsDevice
  <2>1. HandedRight(j, r)
    BY DEF DInv, Handed
  <2>2. outputs[r[2]].gpu \in GpuIds /\ warmRunning[j] \in GpuIds
    BY <2>1 DEF HandedRight, DInv, OnDevices, OnGpus
  <2> QED BY <2>2 DEF OneDevice
<1> QED BY <1>1, DevicesInvariant, ReadersAreServedOnTheirDevice, PTL

-----------------------------------------------------------------------------
(* Types.  What the invariants above leave open: the loop's own variables, *)
(* the fields of an entry that nothing else constrains, and that the count *)
(* of an entry stays a number when nobody keeps it exact any more, because *)
(* the table no longer changes once the loop is left.                      *)

Positions ==
  /\ phase \in {"top", "reap", "admit", "spill", "block", "closing", "done"}
  /\ outcome \in {"none", "report", "stalled", "diverged", "missing_result", "wrong_shards"}
  /\ progressed \in BOOLEAN /\ cursor \in 1..(Len(JobOrder) + 1)
EntryTyped(e) ==
  /\ e.res \in Residence /\ e.consumers \in Nat /\ e.shareable \in BOOLEAN
  /\ e.gpu \in GpuIds \cup {NoIndex}
Typed ==
  /\ Positions /\ inputs \in [Jobs -> Blob]
  /\ warmRunning = [k \in DOMAIN warmRunning |-> warmRunning[k]]
  /\ \A o \in DOMAIN outputs : EntryTyped(outputs[o])
  /\ warmUp \subseteq GpuIds /\ rate \in Rates \cup {NoRate}

LEMMA JobOrderIsCounted == Len(JobOrder) \in Nat
BY JobOrderAssumption

LEMMA PositionsKeep ==
  ASSUME Positions, [Next]_vars
  PROVE  Positions'
<1>1. CASE Launch
  <2>1. PICK i \in cursor..Len(JobOrder) : cursor' = i + 1
    BY <1>1 DEF Launch, Acting
  <2>2. cursor' \in 1..(Len(JobOrder) + 1)
    BY <2>1, JobOrderIsCounted DEF Positions
  <2>3. progressed' = TRUE /\ UNCHANGED <<phase, outcome>>
    BY <1>1 DEF Launch
  <2> QED BY <2>2, <2>3 DEF Positions
<1>2. CASE ReapEmpty
  BY <1>2, JobOrderIsCounted DEF ReapEmpty, Positions
<1>3. CASE Drain
  BY <1>3 DEF Drain, Positions
<1>4. CASE UNCHANGED <<phase, progressed, cursor, outcome>>
  BY <1>4 DEF Positions
<1>5. CASE Finish \/ ReapStale \/ ReapOk \/ ReapWrongShards \/ ReapError \/ AdmitRaises \/ EndAdmit
           \/ Spill \/ Stall \/ Close
  <2>1. cursor' = cursor /\ progressed' \in {TRUE, progressed}
        /\ (outcome' = outcome \/ outcome' \in {"report", "stalled", "diverged", "missing_result", "wrong_shards"})
        /\ (phase' = phase \/ phase' \in {"closing", "top", "block", "spill", "done"})
    BY <1>5 DEF Finish, ReapStale, ReapOk, ReapWrongShards, ReapError, AdmitRaises, EndAdmit, Spill,
       Stall, Close, Raise, MarkProgress
  <2> QED BY <2>1 DEF Positions
<1> QED
  BY <1>1, <1>2, <1>3, <1>4, <1>5 DEF Next, Loop, Workers, FreshPosts, FreshDies, Sample, WarmFrees,
     WarmRuns, WarmTakes, vars, loopVars

(* The table no longer changes once the loop is left.                      *)
LEMMA TableIsLeft ==
  ASSUME [Next]_vars, phase' \in {"closing", "done"}
  PROVE  outputs' = outputs
BY DEF Next, Loop, Workers, Finish, Drain, ReapStale, ReapOk, ReapWrongShards, ReapError, ReapEmpty,
   AdmitRaises, EndAdmit, Launch, Spill, Stall, Close, Reaping, MarkProgress, FreshPosts, FreshDies,
   Sample, WarmFrees, WarmRuns, WarmTakes, vars, tableVars

LEMMA StoredIsTyped ==
  ASSUME IInv, HInv, OnGpus, Handles, NEW o, EntryStored(o)
  PROVE  /\ outputs'[o].res \in Residence /\ outputs'[o].shareable \in BOOLEAN
         /\ outputs'[o].gpu \in GpuIds \cup {NoIndex}
<1>1. outputs'[o] = StoredEntry(Received, o)
  BY DEF EntryStored
<1>2. CASE Received.status = "handle"
  <2>1. outputs'[o].res = "device" /\ outputs'[o].shareable = FALSE
    BY <1>1, <1>2 DEF StoredEntry, DeviceEntry
  <2> QED BY <2>1, StoredOnDevice DEF Residence
<1>3. CASE Received.status # "handle"
  BY <1>1, <1>3 DEF StoredEntry, HostEntry, Residence
<1> QED BY <1>2, <1>3

LEMMA EntriesStayTyped ==
  ASSUME IInv, HInv, HInv', OnGpus, Handles, Typed, [Next]_vars, NEW o \in DOMAIN outputs'
  PROVE  EntryTyped(outputs'[o])
<1>1. /\ outputs'[o].res \in Residence /\ outputs'[o].shareable \in BOOLEAN
      /\ outputs'[o].gpu \in GpuIds \cup {NoIndex}
  <2>1. CASE EntryStored(o)
    BY <2>1, StoredIsTyped
  <2>2. CASE o \in DOMAIN outputs /\ EntryStep(o, outputs[o], outputs'[o])
    <3>1. EntryTyped(outputs[o])
      BY <2>2 DEF Typed
    <3> QED BY <2>2, <3>1 DEF EntryTyped, EntryStep, Residence
  <2> QED BY <2>1, <2>2, EntriesStep
<1>2. outputs'[o].consumers \in Nat
  <2>1. CASE phase' \in {"closing", "done"}
    BY <2>1, TableIsLeft DEF Typed, EntryTyped
  <2>2. CASE phase' \notin {"closing", "done"}
    <3>1. outputs'[o].consumers = Cardinality(ReadersLeft(o)')
      BY <2>2 DEF HInv, Counted, CountRight
    <3>2. ReadersLeft(o)' = Readers(o) \ (IF outputs'[o].res \in ByReference THEN completed' ELSE Dispatched')
      BY LeftNext
    <3> QED BY <3>1, <3>2, ReadersAreFinite
  <2> QED BY <2>1, <2>2
<1> QED BY <1>1, <1>2 DEF EntryTyped

LEMMA InputsStayTyped ==
  ASSUME Typed, [Next]_vars
  PROVE  inputs' \in [Jobs -> Blob]
<1>1. CASE ReapError
  BY <1>1 DEF ReapError, Poison, Typed, Blob
<1>2. CASE Launch
  BY <1>2 DEF Launch, LaunchJob, Typed, Blob
<1>3. CASE Spill
  <2>1. PICK b \in PrivateBlobs : inputs' = inputs \/ inputs' = [inputs EXCEPT ![b[2]] = "disk"]
    BY <1>3 DEF Spill, Spillable
  <2> QED BY <2>1 DEF Typed, Blob
<1>4. CASE inputs' = inputs
  BY <1>4 DEF Typed
<1> QED
  BY <1>1, <1>2, <1>3, <1>4 DEF Next, Loop, Workers, Finish, Drain, ReapStale, ReapOk, ReapWrongShards,
     ReapEmpty, AdmitRaises, EndAdmit, Stall, Close, FreshPosts, FreshDies, Sample, WarmFrees, WarmRuns,
     WarmTakes, vars, tableVars

LEMMA WarmStaysTyped ==
  ASSUME Typed, [Next]_vars
  PROVE  /\ warmRunning' = [k \in DOMAIN warmRunning' |-> warmRunning'[k]]
         /\ warmUp' \subseteq GpuIds /\ rate' \in Rates \cup {NoRate}
<1>1. CASE ReapOk \/ ReapWrongShards
  <2>1. \E S : warmRunning' = Restricted(warmRunning, S)
    BY <1>1 DEF ReapOk, ReapWrongShards, Reaped
  <2>2. warmUp' = warmUp
    BY <1>1 DEF ReapOk, ReapWrongShards, workerVars
  <2>3. rate' \in Rates \cup {rate}
    BY <1>1 DEF ReapOk, ReapWrongShards, RatesAfter
  <2> QED BY <2>1, <2>2, <2>3 DEF Restricted, Typed
<1>2. CASE ReapError
  <2>1. \E S : warmRunning' = Restricted(warmRunning, S)
    BY <1>2 DEF ReapError, Poison
  <2> QED BY <1>2, <2>1 DEF Restricted, Typed, ReapError
<1>3. CASE Launch
  <2>1. PICK j \in Jobs : \E p \in Placements(j) : LaunchStep(j, p)
    BY <1>3, LaunchIsOneJob
  <2>2. PICK p \in Placements(j) : LaunchStep(j, p)
    BY <2>1
  <2>3. rate' = rate
    BY <1>3 DEF Launch
  <2>4. CASE RunsWarm(j, p)
    <3>1. p.gpu \in GpuIds
      BY <2>4, LaunchedWhere DEF RunsWarm, RoutedWarm
    <3>2. /\ warmUp' = warmUp \cup ({p.gpu} \ warmUp)
          /\ warmRunning' = [k \in DOMAIN warmRunning \cup {j} |-> IF k = j THEN p.gpu ELSE warmRunning[k]]
      BY <2>2, <2>4 DEF LaunchStep, LaunchJob, Dispatch
    <3> QED BY <2>3, <3>1, <3>2 DEF Typed
  <2>5. CASE ~RunsWarm(j, p)
    <3>1. warmUp' = warmUp /\ warmRunning' = warmRunning
      BY <2>2, <2>5 DEF LaunchStep, LaunchJob, Dispatch
    <3> QED BY <2>3, <3>1 DEF Typed
  <2> QED BY <2>4, <2>5
<1>4. CASE Close
  BY <1>4 DEF Close, Typed
<1>5. CASE UNCHANGED <<warmRunning, warmUp, rate>>
  BY <1>5 DEF Typed
<1> QED
  BY <1>1, <1>2, <1>3, <1>4, <1>5 DEF Next, Loop, Workers, Finish, Drain, ReapStale, ReapEmpty,
     AdmitRaises, EndAdmit, Spill, Stall, FreshPosts, FreshDies, Sample, WarmFrees, WarmRuns, WarmTakes,
     vars, jobVars, workerVars

LEMMA TypedInit == Init => Typed
<1> SUFFICES ASSUME Init
             PROVE  Typed
  OBVIOUS
<1>1. Positions /\ inputs \in [Jobs -> Blob]
  <2>1. phase = "top" /\ outcome = "none" /\ progressed = FALSE /\ cursor = 1
    BY DEF Init
  <2>2. inputs = [j \in Jobs |-> "private"]
    BY DEF Init
  <2>3. 1 \in 1..(Len(JobOrder) + 1)
    BY JobOrderIsCounted
  <2> QED BY <2>1, <2>2, <2>3 DEF Positions, Blob
<1>2. warmRunning = <<>> /\ DOMAIN outputs = {} /\ warmUp = {} /\ rate = NoRate
  BY DEF Init
<1>3. warmRunning = [k \in DOMAIN warmRunning |-> warmRunning[k]]
  BY <1>2
<1> QED BY <1>1, <1>2, <1>3 DEF Typed

(* The types that the code's tables keep, with the invariants they need.   *)
THEOREM TypesInvariant == Spec => [](IInv /\ HInv /\ SInv /\ DInv /\ Typed)
<1>1. IInv /\ HInv /\ HInv' /\ DInv /\ Typed /\ [Next]_vars => Typed'
  <2> SUFFICES ASSUME IInv, HInv, HInv', DInv, Typed, [Next]_vars
               PROVE  Typed'
    OBVIOUS
  <2>1. Positions' /\ inputs' \in [Jobs -> Blob]
    BY PositionsKeep, InputsStayTyped DEF Typed
  <2>2. \A o \in DOMAIN outputs' : EntryTyped(outputs'[o])
    BY EntriesStayTyped DEF DInv
  <2> QED BY <2>1, <2>2, WarmStaysTyped DEF Typed
<1> QED BY <1>1, TypedInit, DevicesInvariant, PTL DEF Spec

(* Type correctness of the executor: every state the runs visit, and those *)
(* of every larger graph and machine, has the shape the model declares.    *)
THEOREM TypeCorrect == Spec => []TypeOK
<1>1. IInv /\ HInv /\ SInv /\ DInv /\ Typed /\ SpillBudgetKept => TypeOK
  <2> SUFFICES ASSUME IInv, HInv, SInv, DInv, Typed, SpillBudgetKept
               PROVE  TypeOK
    OBVIOUS
  <2>1. /\ running \subseteq Jobs /\ DOMAIN warmRunning \subseteq Jobs /\ computing \subseteq Jobs
        /\ completed \subseteq Jobs /\ cancelled \subseteq Jobs /\ failures \subseteq Jobs
    BY DEF IInv, Books, HInv, Processes, Isolated, RunningJobs
  <2>2. warmRunning \in [DOMAIN warmRunning -> GpuIds]
    BY DEF Typed, DInv, OnGpus
  <2>3. DOMAIN outputs \subseteq Outs
    BY QueueTypes
  <2>4. ASSUME NEW o \in DOMAIN outputs
        PROVE  outputs[o] \in [res : Residence, size : Nat, consumers : Nat, shareable : BOOLEAN,
                               domains : SUBSET Domains, gpu : GpuIds \cup {NoIndex}]
    <3> DEFINE e == outputs[o]
    <3>1. IsEntry(e) /\ EntryTyped(e) /\ e.size \in Nat /\ e.domains \subseteq Domains
      BY DEF HInv, Tables, Typed, SInv, Sized, DInv, Segments
    <3> HIDE DEF e
    <3>2. e \in [res : Residence, size : Nat, consumers : Nat, shareable : BOOLEAN,
                 domains : SUBSET Domains, gpu : GpuIds \cup {NoIndex}]
      BY <3>1 DEF IsEntry, EntryTyped
    <3> QED BY <3>2 DEF e
  <2>5. segments \subseteq Outs \X Domains
    BY <2>3 DEF HInv, Segmented, SegmentsOf, DInv, Segments
  <2>6. diskUsed \in Nat
    <3>1. DOMAIN outputs \in SUBSET DOMAIN outputs /\ Jobs \in SUBSET Jobs
      OBVIOUS
    <3>2. OnDisk(outputs, DOMAIN outputs, Jobs) \in Nat
      BY <3>1, DiskSplits DEF IInv, HInv, SInv
    <3> QED BY <3>2 DEF SpillBudgetKept
  <2>7. refs \in [Jobs -> SUBSET (ByReference \X Outs)] /\ buffers \in [GpuIds -> SUBSET Outs]
    BY DEF DInv, Handed, Buffered
  <2>8. Positions /\ inputs \in [Jobs -> Blob] /\ warmUp \subseteq GpuIds /\ rate \in Rates \cup {NoRate}
    BY DEF Typed
  <2> QED BY <2>1, <2>2, <2>3, <2>4, <2>5, <2>6, <2>7, <2>8 DEF TypeOK, Positions
<1> QED BY <1>1, TypesInvariant, SpillBudgetIsKept, PTL

-----------------------------------------------------------------------------
(* No result is lost: what a completed job returned is in the table until  *)
(* all its readers were dispatched, and a result nobody reads until the    *)
(* report.                                                                 *)

HeldOrRead(o) == o \in DOMAIN outputs \/ (Readers(o) # {} /\ Readers(o) \subseteq Dispatched)
Kept == outcome \in {"none", "report"} => \A j \in completed : \A o \in OutsOf(j) : HeldOrRead(o)

(* The one way to ask for a result that is not there: to read the whole    *)
(* result of a partitioned job, which the graph does not reject.           *)
ReadsWholeOfShards == \E j \in Jobs : \E d \in Deps[j] : d[2] = Whole /\ Shards[d[1]] # {}
KInv == Kept /\ (outcome = "missing_result" => ReadsWholeOfShards)

LEMMA OnlyReader ==
  ASSUME NEW o, CountRight(o), outputs[o].consumers = 1, NEW c \in ReadersLeft(o)
  PROVE  ReadersLeft(o) = {c}
<1>1. IsFiniteSet(ReadersLeft(o)) /\ Cardinality(ReadersLeft(o)) = 1
  BY LeftNow DEF CountRight
<1>2. Cardinality(ReadersLeft(o) \ {c}) = 0
  BY <1>1, OneLess
<1>3. IsFiniteSet(ReadersLeft(o) \ {c})
  BY <1>1, FS_Subset
<1>4. ReadersLeft(o) \ {c} = {}
  BY <1>2, <1>3, FS_EmptySet
<1> QED BY <1>4

LEMMA LastReadIsRead ==
  ASSUME IInv, HInv, phase \notin {"closing", "done"}, NEW k \in Jobs, k \notin completed,
         NEW o \in LastRead(k)
  PROVE  Readers(o) # {} /\ Readers(o) \subseteq completed \cup {k}
<1>1. /\ o \in DOMAIN outputs /\ outputs[o].res \in ByReference /\ outputs[o].consumers = 1
      /\ k \in Readers(o)
  BY DEF LastRead, ReadByReference, Readers
<1>2. CountRight(o)
  BY <1>1 DEF HInv, Counted
<1>3. ReadersLeft(o) = Readers(o) \ completed
  BY <1>1, LeftNow
<1>4. ReadersLeft(o) = {k}
  BY <1>1, <1>2, <1>3, OnlyReader
<1> QED BY <1>1, <1>3, <1>4

LEMMA LastCopiedIsRead ==
  ASSUME IInv, HInv, phase \notin {"closing", "done"}, NEW k \in Jobs, k \notin Dispatched,
         Deps[k] \subseteq DOMAIN outputs, NEW o \in LastCopied(k)
  PROVE  Readers(o) # {} /\ Readers(o) \subseteq Dispatched \cup {k}
<1>1. /\ o \in DOMAIN outputs /\ outputs[o].res \notin ByReference /\ outputs[o].consumers = 1
      /\ k \in Readers(o)
  BY DEF LastCopied, Copied, Readers
<1>2. CountRight(o)
  BY <1>1 DEF HInv, Counted
<1>3. ReadersLeft(o) = Readers(o) \ Dispatched
  BY <1>1, LeftNow
<1>4. ReadersLeft(o) = {k}
  BY <1>1, <1>2, <1>3, OnlyReader
<1> QED BY <1>1, <1>3, <1>4

LEMMA KeptKeeps ==
  ASSUME IInv, HInv, Kept, [Next]_vars
  PROVE  Kept'
<1> SUFFICES ASSUME outcome' \in {"none", "report"}, NEW j \in completed', NEW o \in OutsOf(j)
             PROVE  HeldOrRead(o)'
  BY DEF Kept
<1>1. outcome \in {"none", "report"}
  BY StepHasEffect DEF Effect, StaysRunning, Raises, IsOver, Running
<1>2. /\ \A i \in completed : \A x \in OutsOf(i) : HeldOrRead(x)
      /\ Books /\ Tables /\ Stored /\ Processes /\ Readers(o)' = Readers(o)
  BY <1>1 DEF Kept, IInv, HInv, Readers
<1>3. CASE Quiet \/ Spill
  <2>1. DOMAIN outputs' = DOMAIN outputs /\ completed' = completed /\ Dispatched' = Dispatched
    BY <1>3 DEF Quiet, Spill, jobVars, Dispatched, RunningJobs
  <2> QED BY <1>2, <2>1 DEF HeldOrRead
<1>4. CASE ReapOk
  <2> DEFINE k == Received.key
  <2>1. /\ k \in RunningJobs /\ k \in Jobs /\ k \notin completed /\ completed' = completed \cup {k}
        /\ DOMAIN outputs' = (DOMAIN outputs \ LastRead(k)) \cup OutsOf(k)
        /\ phase \notin {"closing", "done"} /\ RunningJobs' = RunningJobs \ {k}
    BY <1>2, <1>4, ReapOkTable, ReapedBooks DEF ReapOk, Reaping
  <2> HIDE DEF k
  <2>2. Dispatched' = Dispatched /\ completed \cup {k} \subseteq Dispatched
    BY <2>1 DEF Dispatched
  <2>3. CASE j = k
    BY <2>1, <2>3 DEF HeldOrRead
  <2>4. CASE j # k
    <3>1. HeldOrRead(o)
      BY <1>2, <2>1, <2>4
    <3>2. CASE o \in LastRead(k)
      <4>1. Readers(o) # {} /\ Readers(o) \subseteq completed \cup {k}
        BY <2>1, <3>2, LastReadIsRead
      <4> QED BY <1>2, <2>2, <4>1 DEF HeldOrRead
    <3>3. CASE o \notin LastRead(k)
      BY <1>2, <2>1, <2>2, <3>1, <3>3 DEF HeldOrRead
    <3> QED BY <3>2, <3>3
  <2> QED BY <2>3, <2>4
<1>5. CASE ReapError
  <2> DEFINE C == Component(Received.key)
  <2>1. Received.key \in RunningJobs /\ Received.key \in Jobs /\ Poison(C)
    BY <1>2, <1>5 DEF ReapError, IsRunning, RunningJobs, Books
  <2>2. /\ Closed(C) /\ completed' = completed \ C /\ RunningJobs' = RunningJobs \ C
        /\ outputs' = Restricted(outputs, DOMAIN outputs \ HeldBy(C))
    BY <1>2, <2>1, ComponentIsLeastClosed, PoisonBooks DEF Poison, BooksFail
  <2> HIDE DEF C
  <2>3. j \notin C /\ HeldOrRead(o) /\ j \in Jobs
    BY <1>2, <2>2 DEF Books
  <2>4. o[1] = j
    BY <2>3, FanoutCountsReaders
  <2>5. \A c \in Readers(o) : c \notin C
    BY <2>2, <2>3, <2>4 DEF Readers, Closed, Producers
  <2>6. o \in DOMAIN outputs => o \in DOMAIN outputs'
    BY <2>2, <2>3, <2>4 DEF Restricted, HeldBy
  <2> QED BY <1>2, <2>2, <2>3, <2>5, <2>6 DEF HeldOrRead, Dispatched
<1>6. CASE Launch
  <2>1. PICK k \in Jobs : \E p \in Placements(k) : LaunchStep(k, p)
    BY <1>6, LaunchIsOneJob
  <2>2. PICK p \in Placements(k) : LaunchStep(k, p)
    BY <2>1
  <2>3. /\ k \notin Dispatched /\ Dispatched' = Dispatched \cup {k} /\ completed' = completed
        /\ phase \notin {"closing", "done"} /\ Deps[k] \subseteq DOMAIN outputs
    BY <2>2, LaunchBooks DEF LaunchStep, BooksStart, Ready, Dispatched
  <2>4. DOMAIN outputs' = DOMAIN outputs \ LastCopied(k)
    BY <1>2, <2>2, LaunchTable DEF LaunchStep
  <2>5. HeldOrRead(o)
    BY <1>2, <2>3
  <2>6. CASE o \in LastCopied(k)
    <3>1. Readers(o) # {} /\ Readers(o) \subseteq Dispatched \cup {k}
      BY <2>3, <2>6, LastCopiedIsRead
    <3> QED BY <1>2, <2>3, <3>1 DEF HeldOrRead
  <2>7. CASE o \notin LastCopied(k)
    BY <1>2, <2>3, <2>4, <2>5, <2>7 DEF HeldOrRead
  <2> QED BY <2>6, <2>7
<1>7. CASE Close
  <2>1. /\ phase = "closing" /\ UNCHANGED <<outcome, completed, outputs>> /\ running' \subseteq running
        /\ warmRunning' = warmRunning
    BY <1>7 DEF Close
  <2>2. RunningJobs = {}
    BY <1>1, <2>1 DEF IInv, Outcomes, HInv, Accounted
  <2>3. Dispatched' = Dispatched
    BY <2>1, <2>2 DEF Dispatched, RunningJobs
  <2> QED BY <1>2, <2>1, <2>3 DEF HeldOrRead
<1>8. ~ReapWrongShards
  BY DEF ReapWrongShards, Raise
<1> QED BY <1>3, <1>4, <1>5, <1>6, <1>7, <1>8, StepKinds

(* A ready job's results are all there, or it reads shards as a whole.     *)
LEMMA ReadyHasResults ==
  ASSUME IInv, HInv, Kept, outcome = "none", NEW j, Eligible(j), ResultMissing(j)
  PROVE  ReadsWholeOfShards
<1>1. j \in Jobs /\ j \notin Dispatched /\ Producers(j) \subseteq completed
  BY DEF Eligible, Ready, IsRunning, Dispatched, RunningJobs
<1>2. PICK d \in Deps[j] : d \notin DOMAIN outputs
  BY DEF ResultMissing
<1>3. /\ d[1] \in completed /\ d[1] \in Jobs /\ d = <<d[1], d[2]>>
      /\ d[2] # Whole => d[2] \in Shards[d[1]]
  BY <1>1, <1>2, GraphAssumption DEF Producers, AllValid, ValidDependency
<1>4. j \in Readers(d)
  BY <1>1, <1>2 DEF Readers
<1>5. ~HeldOrRead(d)
  BY <1>1, <1>2, <1>4 DEF HeldOrRead
<1>6. d \notin OutsOf(d[1])
  BY <1>3, <1>5 DEF Kept
<1>7. d[2] = Whole /\ Shards[d[1]] # {}
  BY <1>3, <1>6 DEF OutsOf
<1> QED BY <1>1, <1>2, <1>7 DEF ReadsWholeOfShards

LEMMA KInvStep ==
  ASSUME IInv, HInv, KInv, [Next]_vars
  PROVE  KInv'
<1>1. Kept'
  BY KeptKeeps DEF KInv
<1>2. ASSUME outcome' = "missing_result"
      PROVE  ReadsWholeOfShards
  <2>1. CASE outcome' = outcome
    BY <1>2, <2>1 DEF KInv
  <2>2. CASE outcome' # outcome
    <3>1. AdmitRaises
      BY <1>2, <2>2 DEF Next, Loop, Workers, Finish, Drain, ReapStale, ReapOk, ReapWrongShards, ReapError,
         ReapEmpty, Launch, EndAdmit, Spill, Stall, Close, Raise, MarkProgress, FreshPosts, FreshDies,
         Sample, WarmFrees, WarmRuns, WarmTakes, vars, loopVars
    <3>2. PICK i \in Acting : ResultMissing(JobOrder[i])
      BY <1>2, <3>1 DEF AdmitRaises, Raise
    <3>3. Eligible(JobOrder[i]) /\ outcome = "none"
      BY <3>1, <3>2 DEF Acting, ActsNow, AdmitRaises, IInv, Outcomes
    <3> QED BY <3>2, <3>3, ReadyHasResults DEF KInv
  <2> QED BY <2>1, <2>2
<1> QED BY <1>1, <1>2 DEF KInv, ReadsWholeOfShards

(* A result stays in the table as long as a job that reads it may run.     *)
THEOREM KeptInvariant == Spec => []KInv
<1>1. Init => KInv
  BY DEF Init, KInv, Kept
<1>2. IInv /\ HInv /\ KInv /\ [Next]_vars => KInv'
  BY KInvStep
<1> QED BY <1>1, <1>2, HoldingInvariant, PTL DEF Spec

MissingIsAsked == outcome = "missing_result" => ReadsWholeOfShards
(* When the run raises because a result to hand over is not held, the graph*)
(* asked for the whole result of a partitioned job: the loop itself never  *)
(* drops a result before its readers have it.                              *)
THEOREM OnlyTheGraphLosesResults == Spec => []MissingIsAsked
<1>1. KInv => MissingIsAsked
  BY DEF KInv, MissingIsAsked
<1> QED BY <1>1, KeptInvariant, PTL

(* Terminal results: nothing is spilled below the floor, and what is not   *)
(* device-resident never stays on a device.                                *)
TerminalsAreLight ==
  \A j \in Jobs : Dependents(j) = {} => j \notin DeviceResident /\ \A o \in OutsOf(j) : HeldSize(o) < SpillFloor
Light(o) == outputs[o].res = "private" /\ outputs[o].size = HeldSize(o)
TerminalsStay == \A o \in DOMAIN outputs : Dependents(o[1]) = {} => Light(o)

LEMMA NobodyReads ==
  ASSUME NEW j \in Jobs, Dependents(j) = {}, NEW o \in OutsOf(j)
  PROVE  Readers(o) = {} /\ o[1] = j
<1>1. o[1] = j
  BY FanoutCountsReaders
<1>2. \A c \in Readers(o) : c \in Dependents(j)
  BY <1>1 DEF Readers, Dependents, Producers
<1> QED BY <1>1, <1>2

LEMMA TerminalsStayStep ==
  ASSUME TerminalsAreLight, IInv, HInv, HInv', SInv, Handles, TerminalsStay, [Next]_vars
  PROVE  TerminalsStay'
<1> SUFFICES ASSUME NEW o \in DOMAIN outputs', Dependents(o[1]) = {}
             PROVE  Light(o)'
  BY DEF TerminalsStay
<1>1. o[1] \in Jobs /\ o \in OutsOf(o[1]) /\ o \in Outs
  <2>1. o[1] \in completed' /\ o \in OutsOf(o[1])
    BY DEF HInv, Stored
  <2>2. Jobs \subseteq Jobs /\ completed' \subseteq Jobs
    BY StepHasEffect DEF Effect, BooksKept, BooksStart, BooksComplete, BooksFail, BooksStop, IInv, Books
  <2> QED BY <2>1, <2>2 DEF Outs
<1>2. Readers(o) = {} /\ o[1] \notin DeviceResident /\ HeldSize(o) < SpillFloor
  BY <1>1, NobodyReads DEF TerminalsAreLight
<1>3. HeldSize(o) \in Int
  BY <1>1, SizesAreNumbers DEF IInv, HInv
<1>4. CASE EntryStored(o)
  <2>1. /\ Received.key = o[1] /\ outputs'[o] = StoredEntry(Received, o) /\ results # <<>>
        /\ phase # "done"
    <3>1. o \in OutsOf(Received.key) /\ IsRunning(Received.key)
      BY <1>4 DEF EntryStored, ReapOk
    <3>2. Received.key \in Jobs
      BY <3>1, ReceivedIsLaunched DEF IInv, HInv
    <3> QED BY <1>4, <3>1, <3>2, FanoutCountsReaders DEF EntryStored, ReapOk, Reaping
  <2>2. Received.status # "handle"
    <3>1. In(Received, results)
      BY <2>1, QueueTypes, TakeFirst DEF Received
    <3> QED BY <1>2, <2>1, <3>1 DEF Handles, HandleRight, KeptWhole
  <2> QED BY <2>1, <2>2 DEF StoredEntry, HostEntry, Light
<1>5. CASE o \in DOMAIN outputs /\ EntryStep(o, outputs[o], outputs'[o])
  <2>1. outputs[o].res = "private" /\ outputs[o].size = HeldSize(o)
    BY <1>5 DEF TerminalsStay, Light
  <2>2. CASE phase' \in {"closing", "done"}
    BY <2>1, <2>2, TableIsLeft DEF Light
  <2>3. CASE phase' \notin {"closing", "done"}
    <3>1. outputs'[o].res # "shared"
      <4>1. Readers(o)' = Readers(o)
        BY DEF Readers
      <4> QED BY <1>2, <2>3, <4>1 DEF HInv, Counted, CountRight
    <3>2. ~(outputs[o].size >= SpillFloor)
      BY <1>2, <1>3, <2>1, SizeAssumption
    <3> QED BY <1>5, <2>1, <3>1, <3>2 DEF EntryStep, Light
  <2> QED BY <2>2, <2>3
<1> QED BY <1>4, <1>5, EntriesStep

(* The report has the result of every completed job that nobody reads,     *)
(* provided that such results stay below the spill floor and are not       *)
(* declared device-resident.                                               *)
THEOREM LightTerminalsAreReported == ASSUME TerminalsAreLight PROVE Spec => []TerminalsReported
<1>1. Init => TerminalsStay
  BY DEF Init, TerminalsStay
<1>2. IInv /\ HInv /\ HInv' /\ SInv /\ DInv /\ TerminalsStay /\ [Next]_vars => TerminalsStay'
  BY TerminalsStayStep DEF DInv
<1>3. IInv /\ KInv /\ TerminalsStay => TerminalsReported
  <2> SUFFICES ASSUME IInv, KInv, TerminalsStay, outcome = "report", NEW j \in completed,
                      Dependents(j) = {}, NEW o \in OutsOf(j)
               PROVE  o \in Reported
    BY DEF TerminalsReported
  <2>1. Readers(o) = {} /\ o[1] = j
    BY NobodyReads DEF IInv, Books
  <2>2. o \in DOMAIN outputs
    BY <2>1 DEF KInv, Kept, HeldOrRead
  <2> QED BY <2>1, <2>2 DEF TerminalsStay, Light, Reported
<1> QED BY <1>1, <1>2, <1>3, DevicesInvariant, KeptInvariant, PTL DEF Spec

-----------------------------------------------------------------------------
(* Stalls.  A walk of admit starts at the front whenever nothing happened  *)
(* before it in the same pass, and a pass in which nothing happened leaves *)
(* the jobs as the top of the loop saw them: so when the loop turns to the *)
(* disk, every ready job waits.                                            *)

Stuck ==
  /\ RunningJobs = {}
  /\ \A j \in Jobs : Eligible(j) => Waits(j)
Walked ==
  /\ phase \in {"reap", "admit", "spill"} /\ ~progressed => ~AllAccounted
  /\ phase = "admit" /\ ~progressed => cursor = 1
  /\ phase = "spill" => ~progressed /\ Stuck
  /\ Abandoned \subseteq cancelled

LEMMA EveryJobIsWalked ==
  ASSUME cursor = 1, Acting = {}, NEW j \in Jobs, Eligible(j)
  PROVE  Waits(j)
<1> DEFINE T == {h \in 1..Len(JobOrder) : ActsNow(h)}
<1>1. DOMAIN JobOrder = 1..Len(JobOrder) /\ Len(JobOrder) \in Nat
  BY JobOrderAssumption
<1>2. PICK i \in DOMAIN JobOrder : JobOrder[i] = j
  BY JobOrderAssumption
<1> SUFFICES ASSUME ~Waits(j) PROVE FALSE
  OBVIOUS
<1>3. i \in T
  BY <1>1, <1>2 DEF ActsNow
<1>4. T \in SUBSET Nat
  BY <1>1
<1> HIDE DEF T
<1>5. PICK m \in T : \A h \in T : m <= h
  BY <1>3, <1>4, LeastNat
<1>6. m \in 1..Len(JobOrder) /\ ActsNow(m)
  BY <1>5 DEF T
<1>7. ASSUME NEW h \in 1..(m - 1) PROVE ~ActsNow(h)
  <2>1. h \in 1..Len(JobOrder) /\ ~(m <= h)
    BY <1>1, <1>6
  <2> QED BY <1>5, <2>1 DEF T
<1>8. m \in Acting
  BY <1>6, <1>7 DEF Acting
<1> QED BY <1>8

LEMMA StuckKept ==
  ASSUME Stuck, UNCHANGED <<jobVars, ledger>>
  PROVE  Stuck'
BY DEF Stuck, jobVars, RunningJobs, Eligible, Ready, IsRunning, Waits, PathsNow, Placements

LEMMA WalkedStep ==
  ASSUME Walked, [Next]_vars
  PROVE  Walked'
<1>1. Abandoned \subseteq cancelled'
  <2>1. cancelled \subseteq cancelled'
    BY DEF Next, Loop, Workers, Finish, Drain, ReapStale, ReapOk, ReapWrongShards, ReapError, Poison,
       ReapEmpty, AdmitRaises, Launch, EndAdmit, Spill, Stall, Close, FreshPosts, FreshDies, Sample,
       WarmFrees, WarmRuns, WarmTakes, vars, jobVars
  <2> QED BY <2>1 DEF Walked
<1>2. CASE Drain
  <2>1. phase' = "reap" /\ ~AllAccounted /\ UNCHANGED jobVars
    BY <1>2 DEF Drain
  <2> QED BY <1>1, <2>1 DEF Walked, AllAccounted, jobVars
<1>3. CASE ReapEmpty
  <2>1. phase' \in {"admit", "top"} /\ (phase' = "admit" => phase = "reap") /\ cursor' = 1
        /\ progressed' = progressed /\ UNCHANGED jobVars
    BY <1>3 DEF ReapEmpty
  <2> QED BY <1>1, <2>1 DEF Walked, AllAccounted, jobVars
<1>4. CASE EndAdmit
  <2>1. /\ phase = "admit" /\ progressed' = progressed /\ UNCHANGED <<jobVars, ledger>> /\ Acting = {}
        /\ phase' \in {"top", "block", "spill"} /\ (phase' = "spill" => ~progressed /\ RunningJobs = {})
    BY <1>4 DEF EndAdmit, tableVars
  <2>2. ASSUME phase' = "spill" PROVE Stuck'
    <3>1. cursor = 1 /\ RunningJobs = {}
      BY <2>1, <2>2 DEF Walked
    <3>2. Stuck
      BY <2>1, <3>1, EveryJobIsWalked DEF Stuck
    <3> QED BY <2>1, <3>2, StuckKept
  <2> QED BY <1>1, <2>1, <2>2 DEF Walked, AllAccounted, jobVars
<1>5. CASE Finish \/ AdmitRaises \/ Spill \/ Stall \/ Close
  <2>1. phase' \in {"closing", "top", "done"}
    BY <1>5 DEF Finish, AdmitRaises, Spill, Stall, Close, Raise
  <2> QED BY <1>1, <2>1 DEF Walked
<1>6. CASE ReapStale \/ ReapOk \/ ReapWrongShards \/ ReapError \/ Launch
  <2>1. \/ phase' = phase /\ progressed' = TRUE /\ phase # "spill"
        \/ phase' = "closing"
    BY <1>6 DEF ReapStale, ReapOk, ReapWrongShards, ReapError, Launch, Reaping, MarkProgress, Raise
  <2> QED BY <1>1, <2>1 DEF Walked
<1>7. CASE Workers \/ UNCHANGED vars
  <2>1. UNCHANGED <<loopVars, jobVars, ledger>>
    BY <1>7 DEF Workers, FreshPosts, FreshDies, Sample, WarmFrees, WarmRuns, WarmTakes, vars, tableVars
  <2>2. phase = "spill" => Stuck'
    BY <2>1, StuckKept DEF Walked
  <2> QED BY <1>1, <2>1, <2>2 DEF Walked, AllAccounted, loopVars, jobVars
<1> QED BY <1>2, <1>3, <1>4, <1>5, <1>6, <1>7 DEF Next, Loop

THEOREM WalkedInvariant == Spec => []Walked
<1>1. Init => Walked
  BY DEF Init, Walked
<1> QED BY <1>1, WalkedStep, PTL DEF Spec

(* While jobs are left and none runs, one is ready: among those left some  *)
(* job depends on none of them, and none it depends on was cancelled.      *)
LEMMA SomeJobIsReady ==
  ASSUME IInv, Isolated, ~AllAccounted, RunningJobs = {}
  PROVE  \E j \in Jobs : Eligible(j)
<1> DEFINE left == Jobs \ (completed \cup cancelled)
<1>1. left # {}
  <2> SUFFICES ASSUME Jobs \subseteq completed \cup cancelled PROVE FALSE
    OBVIOUS
  <2>1. completed \cup cancelled = Jobs /\ completed \cap cancelled = {}
        /\ IsFiniteSet(completed) /\ IsFiniteSet(cancelled)
    BY JobsAreFinite, FS_Subset DEF IInv, Books
  <2>2. Cardinality(completed \cap cancelled) = 0
    BY <2>1, FS_EmptySet
  <2>3. Cardinality(Jobs) = Cardinality(completed) + Cardinality(cancelled) - 0
    BY <2>1, <2>2, FS_Union
  <2>4. Cardinality(completed) \in Nat /\ Cardinality(cancelled) \in Nat /\ Cardinality(Jobs) \in Nat
    BY <2>1, JobsAreFinite, FS_CardinalityType
  <2> QED BY <2>3, <2>4 DEF AllAccounted
<1>2. PICK j \in left : Producers(j) \cap left = {}
  <2>1. left \in SUBSET Jobs
    OBVIOUS
  <2> QED BY <1>1, <2>1, GraphAssumption DEF Acyclic
<1>3. Producers(j) \subseteq Jobs
  BY <1>2, GraphAssumption DEF AllValid, ValidDependency, Producers
<1>4. Producers(j) \cap cancelled = {}
  BY <1>2 DEF Isolated, Closed
<1>5. Producers(j) \subseteq completed
  BY <1>2, <1>3, <1>4
<1>6. Eligible(j)
  BY <1>2, <1>5 DEF Eligible, Ready, IsRunning, RunningJobs
<1> QED BY <1>2, <1>6

-----------------------------------------------------------------------------
(* What each charge is worth.  A path as the placer sees it asks for whole *)
(* bytes, so every allocation a launch makes is one of whole bytes; what   *)
(* is held is charged at its size.                                         *)

LEMMA AugmentedShape ==
  ASSUME NEW j \in Jobs, NEW r
  PROVE  /\ DOMAIN Augmented(j, r) \subseteq Nat
         /\ \A i \in DOMAIN Augmented(j, r) : PathShape(Augmented(j, r)[i])
<1> DEFINE shape == [placement : {"cpu_pinned", "cpu_unpinned", "gpu"},
                     cores : Nat \ {0}, ram : Nat, vram : Nat]
<1>1. Paths[j] \in Seq(shape)
  BY RouteAssumption
<1>2. DOMAIN Paths[j] \subseteq Nat /\ \A i \in DOMAIN Paths[j] : Paths[j][i] \in shape
  <2> HIDE DEF shape
  <2> QED BY <1>1
<1>3. ASSUME NEW path \in shape
      PROVE  AugmentedPath(j, path, r) \in shape
  <2>1. RamBaseline \in Nat /\ ContextVram \in Nat
    BY SizeAssumption
  <2>2. path.ram + RamBaseline \in Nat /\ path.vram + ContextVram \in Nat
    BY <2>1
  <2>3. [path EXCEPT !.ram = @ + RamBaseline] \in shape
    BY <2>2
  <2>4. [path EXCEPT !.ram = @ + RamBaseline, !.vram = @ + ContextVram] \in shape
    BY <2>2
  <2> HIDE DEF shape
  <2> QED BY <2>3, <2>4 DEF AugmentedPath
<1>4. ASSUME NEW i \in DOMAIN Paths[j]
      PROVE  PathShape(Augmented(j, r)[i])
  <2>1. Augmented(j, r)[i] \in shape
    BY <1>2, <1>3 DEF Augmented
  <2> QED BY <2>1 DEF PathShape
<1> QED BY <1>2, <1>4 DEF Augmented

LEMMA FeasibleChoice ==
  ASSUME NEW j \in Jobs, NEW r, Feasible(Augmented(j, r))
  PROVE  LET path == Augmented(j, r)[Min(CapablePaths(Augmented(j, r)))]
         IN PathShape(path) /\ Capable(path)
<1> DEFINE paths == Augmented(j, r)
<1>1. CapablePaths(paths) \in SUBSET Nat /\ CapablePaths(paths) # {} /\ CapablePaths(paths) \subseteq DOMAIN paths
  BY AugmentedShape DEF CapablePaths, Feasible
<1>2. Min(CapablePaths(paths)) \in CapablePaths(paths)
  BY <1>1, LeastOf
<1> QED BY <1>1, <1>2, AugmentedShape DEF CapablePaths

(* Samples read what a sample may read.                                    *)
Samples == samples \in Seq([key : Jobs, bytes : SampleSizes])

LEMMA SamplesKeep ==
  ASSUME Samples, Typed, IInv, [Next]_vars
  PROVE  Samples'
<1>1. CASE Drain
  BY <1>1 DEF Drain, Samples
<1>2. ASSUME NEW j \in Jobs, Sample(j)
      PROVE  Samples'
  <2>1. PICK b \in SampleSizes : samples' = Append(samples, [key |-> j, bytes |-> b])
    BY <1>2 DEF Sample
  <2>2. [key |-> j, bytes |-> b] \in [key : Jobs, bytes : SampleSizes]
    OBVIOUS
  <2> DEFINE T == [key : Jobs, bytes : SampleSizes]
  <2> HIDE DEF T
  <2>3. Append(samples, [key |-> j, bytes |-> b]) \in Seq(T)
    BY <2>2, Enqueued DEF Samples, T
  <2> QED BY <2>1, <2>3 DEF Samples, T
<1>3. CASE samples' = samples
  BY <1>3 DEF Samples
<1> QED BY <1>1, <1>2, <1>3 DEF Next, Loop, Workers, Finish, ReapStale, ReapOk, ReapWrongShards, ReapError,
       ReapEmpty, AdmitRaises, Launch, EndAdmit, Spill, Stall, Close, FreshPosts, FreshDies,
       WarmFrees, WarmRuns, WarmTakes, vars, jobVars

LEMMA LastSampleIsRead ==
  ASSUME Samples, NEW j \in Sampled
  PROVE  LastSample(j) \in SampleSizes
<1> DEFINE I == {i \in DOMAIN samples : samples[i].key = j}
<1>1. DOMAIN samples = 1..Len(samples) /\ Len(samples) \in Nat
  BY DEF Samples
<1>2. I # {} /\ I \in SUBSET (1..Len(samples))
  BY <1>1 DEF Sampled
<1>3. PICK m \in I : \A i \in I : m >= i
  <2> DEFINE J == {Len(samples) - i : i \in I}
  <2>1. J \in SUBSET Nat /\ J # {}
    BY <1>1, <1>2
  <2>2. PICK n \in J : \A k \in J : n <= k
    <3> HIDE DEF J
    <3> QED BY <2>1, LeastNat
  <2>3. PICK m \in I : n = Len(samples) - m
    BY <2>2
  <2>4. ASSUME NEW i \in I PROVE m >= i
    <3>1. n <= Len(samples) - i
      BY <2>2
    <3> QED BY <1>1, <1>2, <2>3, <3>1
  <2> QED BY <2>4
<1>4. Max(I) \in I
  BY <1>3 DEF Max
<1> HIDE DEF I
<1>5. Max(I) \in DOMAIN samples
  BY <1>1, <1>2, <1>4
<1>6. samples[Max(I)].bytes \in SampleSizes
  <2> DEFINE T == [key : Jobs, bytes : SampleSizes]
  <2>1. samples \in Seq(T)
    BY DEF Samples
  <2> HIDE DEF T
  <2>2. samples[Max(I)] \in T
    BY <1>5, <2>1
  <2> QED BY <2>2 DEF T
<1> QED BY <1>6 DEF LastSample, I

(* What an entry weighs while it can be spilled, and what may become of it:*)
(* only a shareable result is ever shared, and only a job that declares it *)
(* leaves its result on the device.                                        *)
EntryWeighed(o, e) ==
  /\ e.res \in {"private", "disk"} => e.size = HeldSize(o)
  /\ e.res = "shared" \/ e.shareable => IsShareable(o)
  /\ e.res = "device" => o[1] \in DeviceResident /\ ~e.shareable
Weighed == \A o \in DOMAIN outputs : EntryWeighed(o, outputs[o])

LEMMA StoredIsWeighed ==
  ASSUME IInv, HInv, OnGpus, Handles, NEW o, EntryStored(o)
  PROVE  EntryWeighed(o, outputs'[o])
<1> DEFINE k == Received.key
<1>1. /\ o \in OutsOf(k) /\ outputs'[o] = StoredEntry(Received, o) /\ IsRunning(k)
      /\ results # <<>> /\ phase # "done"
  BY DEF EntryStored, ReapOk, Reaping
<1>2. CASE Received.status = "handle"
  <2>1. In(Received, results)
    BY <1>1, QueueTypes, TakeFirst DEF Received
  <2>2. k \in DeviceResident
    BY <1>1, <1>2, <2>1 DEF Handles, HandleRight, KeptWhole
  <2>3. o[1] = k
    BY <1>1 DEF OutsOf
  <2> QED BY <1>1, <1>2, <2>2, <2>3 DEF EntryWeighed, StoredEntry, DeviceEntry
<1>3. CASE Received.status # "handle"
  <2>1. outputs'[o] = HostEntry(o)
    BY <1>1, <1>3 DEF StoredEntry
  <2>2. HostEntry(o).shareable <=> IsShareable(o)
    BY Zenon DEF HostEntry, IsShareable
  <2>3. HostEntry(o).res = "private" /\ HostEntry(o).size = HeldSize(o)
    BY DEF HostEntry
  <2> QED BY <2>1, <2>2, <2>3 DEF EntryWeighed
<1> QED BY <1>2, <1>3

LEMMA WeighedStep ==
  ASSUME IInv, HInv, OnGpus, Handles, Weighed, [Next]_vars
  PROVE  Weighed'
<1> SUFFICES ASSUME NEW o \in DOMAIN outputs'
             PROVE  EntryWeighed(o, outputs'[o])
  BY DEF Weighed, EntryWeighed, HeldSize, IsShareable, Fanout
<1>1. CASE EntryStored(o)
  BY <1>1, StoredIsWeighed
<1>2. CASE o \in DOMAIN outputs /\ EntryStep(o, outputs[o], outputs'[o])
  <2>1. EntryWeighed(o, outputs[o])
    BY <1>2 DEF Weighed
  <2> QED BY <1>2, <2>1 DEF EntryWeighed, EntryStep
<1> QED BY <1>1, <1>2, EntriesStep

(* What a charge is worth: a job's is what its path asked for and what was *)
(* measured, any other is the size of what is held.                        *)
Bytes(a) == a.ram \in Nat /\ a.vram \in Nat /\ a.actual \in Nat
OutputWorth(o, e) ==
  IF e.res = "device" THEN Allocation({}, 0, NoIndex, e.gpu, OutBytes[o])
  ELSE HostBytes(HeldSize(o), NoIndex)
Worth(k) ==
  CASE k[1] = "input" -> HostBytes(InputSize[k[2]], NoIndex)
    [] k[1] = "output" -> OutputWorth(k[2], outputs[k[2]])
    [] k[1] = "replica" -> HostBytes(OutBytes[k[2]], k[3])
    [] k[1] = "context" -> Allocation({}, RamBaseline, WarmNode(k[2]), k[2], ContextVram)
Priced == \A k \in DOMAIN ledger : IF k[1] = "job" THEN Bytes(ledger[k]) ELSE ledger[k] = Worth(k)

(* What a step does to one charge.                                         *)
Measured(k) ==
  k[1] = "job" /\ \E b \in SampleSizes : ledger'[k] = [ledger[k] EXCEPT !.actual = b]
ChargeStays(k) == k \in DOMAIN ledger /\ (ledger'[k] = ledger[k] \/ Measured(k))
ChargeOfLaunch(k, j, p) ==
  \/ k = <<"job", j>> /\ ledger'[k] = Allocation(p.cores, p.path.ram, p.node, p.gpu, p.path.vram)
  \/ k[1] = "replica" /\ ledger'[k] = HostBytes(OutBytes[k[2]], k[3])
  \/ /\ k[1] = "context"
     /\ ledger'[k] = Allocation({}, RamBaseline, WarmNode(k[2]), k[2], ContextVram)
ChargeOfResult(k) ==
  ReapOk /\ k[1] = "output" /\ k[2] \in OutsOf(Received.key) /\ ledger'[k] = StoredCharge(Received, k[2])

LEMMA LaunchCharges ==
  ASSUME NEW j, NEW p, LaunchJob(j, p), NEW k \in DOMAIN ledger'
  PROVE  (k \in DOMAIN ledger /\ ledger'[k] = ledger[k]) \/ ChargeOfLaunch(k, j, p)
<1> DEFINE freed == {<<"output", o>> : o \in ToShare(j)} \cup ChargeKeysOf(outputs, LastCopied(j))
                      \cup {<<"input", j>>}
           L1 == Release(ledger, freed)
           replicas == ReplicaCharges(NewReplicas(j, Domain(p)), Domain(p))
           L2 == Charge(L1, replicas)
           L3 == Charge(L2, JobCharge(j, p))
           starts == (IF RunsWarm(j, p) THEN {p.gpu} \ warmUp ELSE {})
<1>0. \A L, A : \A x \in DOMAIN Charge(L, A) :
        (x \in DOMAIN A /\ Charge(L, A)[x] = A[x]) \/ (x \in DOMAIN L /\ Charge(L, A)[x] = L[x])
  BY DEF Charge
<1>1. ledger' = Charge(L3, ContextCharge(starts))
  BY DEF LaunchJob, Dispatch, LaunchLedger
<1> HIDE DEF freed, L1, replicas, L2, L3, starts
<1>2. \/ k \in DOMAIN ContextCharge(starts) /\ ledger'[k] = ContextCharge(starts)[k]
      \/ k \in DOMAIN L3 /\ ledger'[k] = L3[k]
  BY <1>0, <1>1
<1>3. CASE k \in DOMAIN ContextCharge(starts) /\ ledger'[k] = ContextCharge(starts)[k]
  BY <1>3 DEF ContextCharge, ChargeOfLaunch
<1>4. CASE k \in DOMAIN L3 /\ ledger'[k] = L3[k]
  <2>1. \/ k \in DOMAIN JobCharge(j, p) /\ ledger'[k] = JobCharge(j, p)[k]
        \/ k \in DOMAIN L2 /\ ledger'[k] = L2[k]
    BY <1>0, <1>4 DEF L3
  <2>2. CASE k \in DOMAIN JobCharge(j, p) /\ ledger'[k] = JobCharge(j, p)[k]
    BY <2>2 DEF JobCharge, Singleton, ChargeOfLaunch
  <2>3. CASE k \in DOMAIN L2 /\ ledger'[k] = L2[k]
    <3>1. \/ k \in DOMAIN replicas /\ ledger'[k] = replicas[k]
          \/ k \in DOMAIN L1 /\ ledger'[k] = L1[k]
      BY <1>0, <2>3 DEF L2
    <3>2. CASE k \in DOMAIN replicas /\ ledger'[k] = replicas[k]
      BY <3>2 DEF replicas, ReplicaCharges, NewReplicas, ChargeOfLaunch
    <3>3. CASE k \in DOMAIN L1 /\ ledger'[k] = L1[k]
      BY <3>3 DEF L1, Release
    <3> QED BY <3>1, <3>2, <3>3
  <2> QED BY <2>1, <2>2, <2>3
<1> QED BY <1>2, <1>3, <1>4

LEMMA ChargesStep ==
  ASSUME IInv, Samples, [Next]_vars, NEW k \in DOMAIN ledger'
  PROVE  ChargeStays(k) \/ ChargeOfResult(k)
         \/ \E j \in Jobs : \E p \in Placements(j) : LaunchStep(j, p) /\ ChargeOfLaunch(k, j, p)
<1>1. CASE Drain
  <2>1. ledger' = [x \in DOMAIN ledger |->
                  IF x[1] = "job" /\ x[2] \in Sampled
                    THEN [ledger[x] EXCEPT !.actual = LastSample(x[2])] ELSE ledger[x]]
    BY <1>1 DEF Drain
  <2>2. k \in DOMAIN ledger
    BY <2>1
  <2>3. CASE k[1] = "job" /\ k[2] \in Sampled
    <3>1. ledger'[k] = [ledger[k] EXCEPT !.actual = LastSample(k[2])]
      BY <2>1, <2>2, <2>3
    <3>2. LastSample(k[2]) \in SampleSizes
      BY <2>3, LastSampleIsRead
    <3> QED BY <2>2, <2>3, <3>1, <3>2 DEF ChargeStays, Measured
  <2>4. CASE ~(k[1] = "job" /\ k[2] \in Sampled)
    <3>1. ledger'[k] = ledger[k]
      BY <2>1, <2>2, <2>4
    <3> QED BY <2>2, <3>1 DEF ChargeStays
  <2> QED BY <2>3, <2>4
<1>2. CASE ReapOk
  <2> DEFINE keys == {<<"job", Received.key>>} \cup ChargeKeysOf(outputs, LastRead(Received.key))
             A == [x \in {<<"output", o>> : o \in OutsOf(Received.key)} |-> StoredCharge(Received, x[2])]
  <2>1. ledger' = Charge(Release(ledger, keys), A)
    BY <1>2 DEF ReapOk
  <2>2. k \in DOMAIN A => ledger'[k] = StoredCharge(Received, k[2]) /\ k[1] = "output" /\ k[2] \in OutsOf(Received.key)
    BY <2>1 DEF Charge
  <2>3. k \notin DOMAIN A => k \in DOMAIN ledger /\ ledger'[k] = ledger[k]
    <3> HIDE DEF keys, A
    <3> QED BY <2>1 DEF Charge, Release
  <2> QED BY <1>2, <2>2, <2>3 DEF ChargeOfResult, ChargeStays
<1>3. CASE Launch
  <2>1. PICK j \in Jobs : \E p \in Placements(j) : LaunchStep(j, p)
    BY <1>3, LaunchIsOneJob
  <2>2. PICK p \in Placements(j) : LaunchStep(j, p)
    BY <2>1
  <2>3. LaunchJob(j, p)
    BY <2>2 DEF LaunchStep
  <2> QED BY <2>2, <2>3, LaunchCharges DEF ChargeStays
<1>4. CASE \E K : ledger' = Release(ledger, K)
  BY <1>4 DEF Release, ChargeStays
<1>5. CASE UNCHANGED ledger
  BY <1>5 DEF ChargeStays
<1>6. ReapWrongShards \/ ReapError \/ Spill \/ Close => \E K : ledger' = Release(ledger, K)
  <2>1. ReapWrongShards => ledger' = Release(ledger, {<<"job", Received.key>>})
    BY DEF ReapWrongShards
  <2>2. ReapError => ledger' = Release(ledger, PoisonReleases(Component(Received.key)))
    BY DEF ReapError, Poison
  <2>3. Spill => \E b : ledger' = Release(ledger, {b})
    BY DEF Spill
  <2>4. Close => ledger' = Release(ledger, {<<"job", j>> : j \in Stopped} \cup DOMAIN ContextCharge(warmUp))
    BY DEF Close
  <2> QED BY <2>1, <2>2, <2>3, <2>4
<1>7. \/ Drain \/ ReapOk \/ ReapWrongShards \/ ReapError \/ Launch \/ Spill \/ Close
      \/ UNCHANGED ledger
  BY DEF Next, Loop, Workers, Finish, ReapStale, ReapEmpty, AdmitRaises, EndAdmit, Stall,
         FreshPosts, FreshDies, Sample, WarmFrees, WarmRuns, WarmTakes, vars, tableVars
<1> QED BY <1>1, <1>2, <1>3, <1>4, <1>5, <1>6, <1>7

(* The keys of the ledger, by kind, and that there are finitely many.      *)
KeyHeld(k) ==
  \/ \E j \in RunningJobs : k = <<"job", j>>
  \/ \E j \in PrivateInputs : k = <<"input", j>>
  \/ \E o \in DOMAIN outputs : k = <<"output", o>> /\ outputs[o].res \in {"private", "device"}
  \/ \E o \in DOMAIN outputs : \E d \in outputs[o].domains :
       k = <<"replica", o, d>> /\ outputs[o].res = "shared"
  \/ \E g \in warmUp : k = <<"context", g>>
KeysHeld == \A k \in DOMAIN ledger : KeyHeld(k)

LEMMA ChargedMeansHeld ==
  ASSUME HInv, Typed
  PROVE  KeysHeld
<1> SUFFICES ASSUME NEW k \in DOMAIN ledger
             PROVE  KeyHeld(k)
  BY DEF KeysHeld
<1>1. k \in KindsHeld(RunningJobs, PrivateInputs, TableKeys, warmUp)
  BY HoldersByKind DEF HInv, Charged
<1>2. CASE k \in TableKeys
  <2>1. PICK o \in DOMAIN outputs : k \in ChargeKeys(outputs, o)
    BY <1>2 DEF TableKeys, ChargeKeysOf
  <2>2. outputs[o].res \in Residence
    BY DEF Typed, EntryTyped
  <2>3. CASE outputs[o].res = "shared"
    BY <2>1, <2>3 DEF ChargeKeys, KeyHeld
  <2>4. CASE outputs[o].res = "disk"
    BY <2>1, <2>4 DEF ChargeKeys
  <2>5. CASE outputs[o].res \in {"private", "device"}
    BY <2>1, <2>5 DEF ChargeKeys, KeyHeld
  <2> QED BY <2>2, <2>3, <2>4, <2>5 DEF Residence
<1> QED BY <1>1, <1>2 DEF KindsHeld, JobKeys, InputKeys, ContextKeys, KeyHeld

AllKeys ==
  JobKeys(Jobs) \cup InputKeys(Jobs) \cup {<<"output", o>> : o \in Outs}
    \cup {<<"replica", x[1], x[2]>> : x \in Outs \X Domains} \cup {<<"context", g>> : g \in GpuIds}

LEMMA KeysAreFinite == IsFiniteSet(AllKeys)
<1>1. IsFiniteSet(NodeIds) /\ IsFiniteSet(GpuIds)
  <2> DEFINE n == [i \in DOMAIN NodeSeq |-> NodeSeq[i].index]
             g == [i \in DOMAIN GpuSeq |-> GpuSeq[i].index]
  <2>1. IsFiniteSet({n[i] : i \in DOMAIN NodeSeq}) /\ IsFiniteSet({g[i] : i \in DOMAIN GpuSeq})
    BY InventoryShape, ImageIsFinite
  <2>2. NodeIds = {n[i] : i \in DOMAIN NodeSeq} /\ GpuIds = {g[i] : i \in DOMAIN GpuSeq}
    BY DEF NodeIds, GpuIds
  <2> QED BY <2>1, <2>2
<1>2. IsFiniteSet(Domains)
  BY <1>1, FS_AddElement DEF Domains
<1>3. IsFiniteSet(Outs \X Domains)
  BY <1>2, OutsAreFinite, FS_Product
<1>4. IsFiniteSet(JobKeys(Jobs)) /\ IsFiniteSet(InputKeys(Jobs))
  <2> DEFINE f == [j \in Jobs |-> <<"job", j>>]
             h == [j \in Jobs |-> <<"input", j>>]
  <2>1. IsFiniteSet({f[j] : j \in Jobs}) /\ IsFiniteSet({h[j] : j \in Jobs})
    BY JobsAreFinite, ImageIsFinite
  <2>2. JobKeys(Jobs) = {f[j] : j \in Jobs} /\ InputKeys(Jobs) = {h[j] : j \in Jobs}
    BY DEF JobKeys, InputKeys
  <2> QED BY <2>1, <2>2
<1>5. IsFiniteSet({<<"output", o>> : o \in Outs})
  <2> DEFINE f == [o \in Outs |-> <<"output", o>>]
  <2>1. IsFiniteSet({f[o] : o \in Outs})
    BY OutsAreFinite, ImageIsFinite
  <2>2. {<<"output", o>> : o \in Outs} = {f[o] : o \in Outs}
    OBVIOUS
  <2> QED BY <2>1, <2>2
<1>6. IsFiniteSet({<<"replica", x[1], x[2]>> : x \in Outs \X Domains})
  <2> DEFINE P == Outs \X Domains
             f == [x \in P |-> <<"replica", x[1], x[2]>>]
  <2>0. IsFiniteSet(P)
    BY <1>3
  <2>1. IsFiniteSet({f[x] : x \in P})
    <3> HIDE DEF P
    <3> QED BY <2>0, ImageIsFinite
  <2>2. {<<"replica", x[1], x[2]>> : x \in P} = {f[x] : x \in P}
    OBVIOUS
  <2> QED BY <2>1, <2>2
<1>7. IsFiniteSet({<<"context", g>> : g \in GpuIds})
  <2> DEFINE f == [g \in GpuIds |-> <<"context", g>>]
  <2>1. IsFiniteSet({f[g] : g \in GpuIds})
    BY <1>1, ImageIsFinite
  <2>2. {<<"context", g>> : g \in GpuIds} = {f[g] : g \in GpuIds}
    OBVIOUS
  <2> QED BY <2>1, <2>2
<1> QED BY <1>4, <1>5, <1>6, <1>7, FS_Union DEF AllKeys

LEMMA PricedStep ==
  ASSUME IInv, HInv, OnGpus, Handles, Sound(ledger), KeysHeld', Samples, Priced, [Next]_vars
  PROVE  Priced'
<1> SUFFICES ASSUME NEW k \in DOMAIN ledger'
             PROVE  IF k[1] = "job" THEN Bytes(ledger'[k]) ELSE ledger'[k] = Worth(k)'
  BY DEF Priced
<1>1. CASE ChargeStays(k) /\ k[1] = "job"
  <2>1. Bytes(ledger[k]) /\ IsAllocation(ledger[k])
    BY <1>1 DEF Priced, ChargeStays, Sound, WellFormed
  <2>2. ASSUME NEW b \in SampleSizes, ledger'[k] = [ledger[k] EXCEPT !.actual = b]
        PROVE  Bytes(ledger'[k])
    BY <2>1, <2>2, SizeAssumption DEF Bytes, IsAllocation
  <2> QED BY <1>1, <2>1, <2>2 DEF ChargeStays, Measured
<1>2. CASE ChargeStays(k) /\ k[1] # "job"
  <2>1. k \in DOMAIN ledger /\ ledger'[k] = ledger[k] /\ ledger[k] = Worth(k)
    BY <1>2 DEF ChargeStays, Measured, Priced
  <2>2. Worth(k)' = Worth(k)
    <3>1. CASE k[1] = "output"
      <4>1. PICK o \in DOMAIN outputs' : k = <<"output", o>> /\ outputs'[o].res \in {"private", "device"}
        BY <3>1 DEF KeysHeld, KeyHeld
      <4>2. o \in DOMAIN outputs
        <5>1. k \in KindsHeld(RunningJobs, PrivateInputs, TableKeys, warmUp)
          BY <2>1, HoldersByKind DEF HInv, Charged
        <5>2. k \in TableKeys
          BY <3>1, <5>1 DEF KindsHeld, JobKeys, InputKeys, ContextKeys
        <5> QED BY <4>1, <5>2, ChargeKeysShape DEF TableKeys, ChargeKeysOf
      <4>3. ~EntryStored(o)
        BY <4>2, ReapOkTable DEF EntryStored, IInv, HInv
      <4>4. EntryStep(o, outputs[o], outputs'[o])
        BY <4>3, EntriesStep
      <4>5. OutputWorth(o, outputs'[o]) = OutputWorth(o, outputs[o])
        BY <4>1, <4>4 DEF OutputWorth, EntryStep
      <4>6. OutputWorth(o, outputs[o])' = OutputWorth(o, outputs'[o])
        BY DEF OutputWorth, HeldSize
      <4> QED BY <3>1, <4>1, <4>5, <4>6 DEF Worth
    <3>2. CASE k[1] \in {"input", "replica", "context"}
      BY <3>2 DEF Worth
    <3> QED BY <1>2, <3>1, <3>2 DEF KeysHeld, KeyHeld
  <2> QED BY <1>2, <2>1, <2>2
<1>3. CASE ChargeOfResult(k)
  <2>1. outputs'[k[2]] = StoredEntry(Received, k[2])
    BY <1>3, ReapOkTable DEF ChargeOfResult, IInv, HInv
  <2>2. StoredCharge(Received, k[2]) = OutputWorth(k[2], outputs'[k[2]])
    BY <2>1 DEF StoredEntry, StoredCharge, OutputWorth, DeviceEntry, HostEntry
  <2>3. Worth(k)' = OutputWorth(k[2], outputs'[k[2]])
    BY <1>3 DEF ChargeOfResult, Worth, OutputWorth, HeldSize
  <2> QED BY <1>3, <2>2, <2>3 DEF ChargeOfResult
<1>4. ASSUME NEW j \in Jobs, NEW p \in Placements(j), LaunchStep(j, p), ChargeOfLaunch(k, j, p)
      PROVE  IF k[1] = "job" THEN Bytes(ledger'[k]) ELSE ledger'[k] = Worth(k)'
  <2>1. Feasible(Augmented(j, rate))
    BY <1>4 DEF LaunchStep, Diverged, PathsNow
  <2>2. p \in PlaceNow(ledger, Augmented(j, rate)[Min(CapablePaths(Augmented(j, rate)))])
    BY DEF Placements, Plan, PathsNow
  <2>3. p.path.ram \in Nat /\ p.path.vram \in Nat
    BY <2>1, <2>2, FeasibleChoice, PlacedWhere DEF PathShape
  <2> QED BY <1>4, <2>3 DEF ChargeOfLaunch, Bytes, Allocation, Worth
<1> QED BY <1>1, <1>2, <1>3, <1>4, ChargesStep

PInv == Weighed /\ Samples /\ Priced

LEMMA PInvInit == Init => PInv
<1> SUFFICES ASSUME Init
             PROVE  PInv
  OBVIOUS
<1>1. Weighed /\ Samples
  BY DEF Init, Weighed, Samples
<1>2. Priced
  <2>1. \A k \in DOMAIN ledger : k[1] = "input" /\ ledger[k] = HostBytes(InputSize[k[2]], NoIndex)
    BY DEF Init
  <2> QED BY <2>1 DEF Priced, Worth
<1> QED BY <1>1, <1>2 DEF PInv

(* What every charge is worth, for every graph and machine.                *)
THEOREM PricesInvariant == Spec => [](IInv /\ HInv /\ SInv /\ DInv /\ Typed /\ KeysHeld /\ PInv)
<1>1. IInv /\ HInv /\ DInv /\ Typed /\ Sound(ledger) /\ KeysHeld' /\ PInv /\ [Next]_vars => PInv'
  <2> SUFFICES ASSUME IInv, HInv, DInv, Typed, Sound(ledger), KeysHeld', PInv, [Next]_vars
               PROVE  PInv'
    OBVIOUS
  <2> QED BY WeighedStep, SamplesKeep, PricedStep DEF PInv, DInv
<1>2. HInv /\ Typed => KeysHeld
  BY ChargedMeansHeld
<1> QED BY <1>1, <1>2, PInvInit, TypesInvariant, LedgerIsSound, PTL DEF Spec

(* The ledger has the shape the lemmas on placement ask for.               *)
LEMMA LedgerIsOfBytes ==
  ASSUME IInv, HInv, DInv, Typed, KeysHeld, PInv
  PROVE  DOMAIN ledger \subseteq AllKeys /\ LedgerShape(ledger)
<1>1. RunningJobs \subseteq Jobs /\ PrivateInputs \subseteq Jobs /\ warmUp \subseteq GpuIds
      /\ DOMAIN outputs \subseteq Outs /\ \A o \in DOMAIN outputs : outputs[o].domains \subseteq Domains
  <2>1. DOMAIN outputs \subseteq Outs
    BY OutputsAreOuts DEF IInv, HInv
  <2>2. \A o \in DOMAIN outputs : outputs[o].domains \subseteq Domains
    BY DEF DInv, Segments
  <2> QED BY <2>1, <2>2 DEF IInv, Books, Typed, PrivateInputs
<1>2. ASSUME NEW k \in DOMAIN ledger
      PROVE  k \in AllKeys /\ Bytes(ledger[k])
  <2>1. KeyHeld(k) /\ (k[1] = "job" => Bytes(ledger[k])) /\ (k[1] # "job" => ledger[k] = Worth(k))
    BY DEF KeysHeld, PInv, Priced
  <2>2. CASE \E j \in RunningJobs : k = <<"job", j>>
    BY <1>1, <2>1, <2>2 DEF AllKeys, JobKeys
  <2>3. CASE \E j \in PrivateInputs : k = <<"input", j>>
    <3>1. PICK j \in PrivateInputs : k = <<"input", j>>
      BY <2>3
    <3>2. InputSize[j] \in Nat /\ ledger[k] = HostBytes(InputSize[j], NoIndex)
      BY <1>1, <2>1, <3>1, SizeAssumption DEF Worth
    <3> QED BY <1>1, <3>1, <3>2 DEF AllKeys, InputKeys, Bytes, HostBytes, Allocation
  <2>4. CASE \E o \in DOMAIN outputs : k = <<"output", o>>
    <3>1. PICK o \in DOMAIN outputs : k = <<"output", o>>
      BY <2>4
    <3>2. OutBytes[o] \in Nat /\ HeldSize(o) \in Nat
      BY <1>1, <3>1, SizesAreNumbers DEF IInv, HInv
    <3>3. ledger[k] = OutputWorth(o, outputs[o])
      BY <2>1, <3>1 DEF Worth
    <3> QED BY <1>1, <3>1, <3>2, <3>3 DEF AllKeys, Bytes, OutputWorth, HostBytes, Allocation
  <2>5. CASE \E o \in DOMAIN outputs : \E d \in outputs[o].domains : k = <<"replica", o, d>>
    <3>1. PICK o \in DOMAIN outputs : \E d \in outputs[o].domains : k = <<"replica", o, d>>
      BY <2>5
    <3>2. PICK d \in outputs[o].domains : k = <<"replica", o, d>>
      BY <3>1
    <3>3. OutBytes[o] \in Nat
      BY <1>1, <3>1, SizesAreNumbers DEF IInv, HInv
    <3>4. ledger[k] = HostBytes(OutBytes[o], d)
      BY <2>1, <3>2 DEF Worth
    <3>5. k \in AllKeys
      <4>1. <<o, d>> \in Outs \X Domains /\ k = <<"replica", <<o, d>>[1], <<o, d>>[2]>>
        BY <1>1, <3>1, <3>2
      <4> QED BY <4>1 DEF AllKeys
    <3> QED BY <3>3, <3>4, <3>5 DEF Bytes, HostBytes, Allocation
  <2>6. CASE \E g \in warmUp : k = <<"context", g>>
    BY <1>1, <2>1, <2>6, SizeAssumption DEF AllKeys, Worth, Bytes, Allocation
  <2> QED BY <2>1, <2>2, <2>3, <2>4, <2>5, <2>6 DEF KeyHeld
<1>3. IsFiniteSet(DOMAIN ledger)
  <2>1. DOMAIN ledger \in SUBSET AllKeys
    BY <1>2
  <2> QED BY <2>1, KeysAreFinite, FS_Subset
<1> QED BY <1>2, <1>3 DEF LedgerShape, Bytes

(* A path some machine could serve waits on an idle one only for memory.   *)
LEMMA CorelessWaitsForMemory ==
  ASSUME NEW L, LedgerShape(L), AllocatedCores(L) = {}, NEW path, PathShape(path), Capable(path),
         PlaceNow(L, path) = {}
  PROVE  LacksMemory(L, path)
<1> SUFFICES ASSUME ~LacksMemory(L, path)
             PROVE  FALSE
  OBVIOUS
<1>1. PICK p \in PlaceNow(<<>>, path) : TRUE
  BY CapableFitsIdle
<1>2. /\ Cardinality(p.cores) = path.cores /\ p.cores \subseteq FreeCoresAll(<<>>)
      /\ path.placement = "cpu_pinned" => \E i \in DOMAIN NodeSeq : p.cores \subseteq FreeCores(<<>>, NodeSeq[i].index)
  BY EmptyLedger, PlacedIsFree
<1>3. path.cores \in Nat /\ path.ram \in Nat /\ path.vram \in Nat /\ Margin(MemCap) \in Int
  BY MarginType, InventoryAssumption DEF PathShape
<1>4. ~(GlobalFreeRam(L) - Margin(MemCap) < path.ram)
  BY DEF LacksMemory
<1>5. ~(Cardinality(FreeCoresAll(L)) < path.cores)
  <2>1. FreeCoresAll(L) = FreeCoresAll(<<>>) /\ IsFiniteSet(FreeCoresAll(L))
    BY EmptyLedger, FreeAmounts DEF FreeCoresAll
  <2>2. p.cores \in SUBSET FreeCoresAll(L)
    BY <1>2, <2>1
  <2>3. Cardinality(p.cores) <= Cardinality(FreeCoresAll(L)) /\ Cardinality(FreeCoresAll(L)) \in Nat
    BY <2>1, <2>2, FS_Subset, FS_CardinalityType
  <2> QED BY <1>2, <1>3, <2>3
<1>6. CASE path.placement = "cpu_pinned"
  <2>1. PICK i \in DOMAIN NodeSeq : /\ Cardinality(NodeSeq[i].cores) >= path.cores
                                   /\ ~(FreeRamNode(L, NodeSeq[i].index) - Margin(NodeSeq[i].ram) < path.ram)
    BY <1>6 DEF LacksMemory
  <2> DEFINE n == NodeSeq[i].index
             m == Margin(NodeSeq[i].ram)
  <2>2. FreeCores(L, n) = NodeSeq[i].cores \ {} /\ FreeRamNode(L, n) \in Int /\ m \in Int
    BY FreeAmounts, MarginType, InventoryShape
  <2>3. FreeCores(L, n) = NodeSeq[i].cores
    BY <2>2
  <2>4. ~(FreeRamNode(L, n) - m < path.ram)
    BY <2>1
  <2>5. FreeRamNode(L, n) - m >= path.ram
    <3> HIDE DEF n, m
    <3> QED BY <1>3, <2>2, <2>4
  <2>6. i \in FittingNodes(L, path)
    BY <2>1, <2>3, <2>5 DEF FittingNodes
  <2> QED BY <1>4, <1>6, <2>6 DEF PlaceNow
<1>7. CASE path.placement = "cpu_unpinned"
  BY <1>4, <1>5, <1>7 DEF PlaceNow
<1>8. CASE path.placement = "gpu"
  <2>1. PICK i \in DOMAIN GpuSeq : ~(FreeVram(L, GpuSeq[i].index) < path.vram)
    BY <1>8 DEF LacksMemory
  <2>2. FreeVram(L, GpuSeq[i].index) \in Int
    BY FreeAmounts
  <2>3. FreeVram(L, GpuSeq[i].index) >= path.vram
    BY <1>3, <2>1, <2>2
  <2>4. i \in FittingGpus(L, path)
    BY <2>3 DEF FittingGpus
  <2> QED BY <1>4, <1>5, <1>8, <2>4 DEF PlaceNow
<1> QED BY <1>6, <1>7, <1>8 DEF PathShape

LEMMA NothingRunsNoCores ==
  ASSUME KeysHeld, Priced, RunningJobs = {}
  PROVE  AllocatedCores(ledger) = {} /\ \A k \in DOMAIN ledger : k[1] # "job"
<1>1. ASSUME NEW k \in DOMAIN ledger
      PROVE  k[1] # "job" /\ ledger[k].cores = {}
  <2>1. KeyHeld(k)
    BY DEF KeysHeld
  <2>2. k[1] \in {"input", "output", "replica", "context"}
    BY <2>1 DEF KeyHeld
  <2>3. ledger[k] = Worth(k)
    BY <2>2 DEF Priced
  <2> QED BY <2>2, <2>3 DEF Worth, OutputWorth, HostBytes, Allocation
<1> QED BY <1>1 DEF AllocatedCores

(* The loop turns to the disk only for want of memory, on every graph and  *)
(* machine: some job is ready then, each ready one could be served by the  *)
(* machine, and no core is taken.                                          *)
THEOREM StallsAreOnlyForMemory == Spec => []StallsAreForMemory
<1>1. /\ IInv /\ HInv /\ SInv /\ DInv /\ Typed /\ KeysHeld /\ PInv
      /\ Walked
      => StallsAreForMemory
  <2> SUFFICES ASSUME IInv, HInv, SInv, DInv, Typed, KeysHeld, PInv, Walked, phase = "spill"
               PROVE  /\ \E j \in Jobs : Eligible(j)
                      /\ \A j \in Jobs : Eligible(j) => Feasible(PathsNow(j)) /\ LacksMemory(ledger, Chosen(j))
    BY DEF StallsAreForMemory
  <2>1. Stuck /\ ~AllAccounted
    BY DEF Walked
  <2>2. \E j \in Jobs : Eligible(j)
    BY <2>1, SomeJobIsReady DEF Stuck, HInv
  <2>3. LedgerShape(ledger) /\ AllocatedCores(ledger) = {}
    BY <2>1, LedgerIsOfBytes, NothingRunsNoCores DEF Stuck, PInv
  <2>4. ASSUME NEW j \in Jobs, Eligible(j)
        PROVE  Feasible(PathsNow(j)) /\ LacksMemory(ledger, Chosen(j))
    <3>1. Feasible(PathsNow(j)) /\ PlaceNow(ledger, Chosen(j)) = {}
      BY <2>1, <2>4 DEF Stuck, Waits, Placements, Plan, Chosen
    <3>2. PathShape(Chosen(j)) /\ Capable(Chosen(j))
      BY <3>1, FeasibleChoice DEF Chosen, PathsNow
    <3> QED BY <2>3, <3>1, <3>2, CorelessWaitsForMemory
  <2> QED BY <2>2, <2>4
<1> QED BY <1>1, PricesInvariant, WalkedInvariant, PTL

-----------------------------------------------------------------------------
(* What a job is admitted into.                                            *)

RamsOf(L) == [k \in DOMAIN L |-> L[k].ram]

(* What is declared is no more than what is charged.                       *)
LEMMA DeclaredIsCharged ==
  ASSUME NEW L, LedgerShape(L)
  PROVE  /\ \A k \in DOMAIN L : RamsOf(L)[k] \in Nat
         /\ DeclaredOf(L, DOMAIN L) \in Nat
         /\ DeclaredOf(L, DOMAIN L) <= GlobalCommittedRam(L)
<1>1. IsFiniteSet(DOMAIN L) /\ \A k \in DOMAIN L : RamsOf(L)[k] \in Nat
  BY DEF LedgerShape, RamsOf
<1>2. \A k \in DOMAIN L : RamsOf(L)[k] \in Int /\ RamsOf(L)[k] <= ChargesOf(L)[k] /\ ChargesOf(L)[k] \in Nat
  <2> TAKE k \in DOMAIN L
  <2>1. ChargesOf(L)[k] \in Nat /\ RamsOf(L)[k] \in Nat
    BY <1>1, ChargesAreBytes
  <2>2. L[k].ram \in Nat /\ L[k].actual \in Nat
    BY DEF LedgerShape
  <2> QED BY <2>1, <2>2 DEF RamsOf, ChargesOf, ChargedRam
<1>3. Total(RamsOf(L), DOMAIN L) \in Nat /\ Total(RamsOf(L), DOMAIN L) <= Total(ChargesOf(L), DOMAIN L)
  BY <1>1, <1>2, TotalIsNat, TotalGrows
<1> QED BY <1>1, <1>3 DEF DeclaredOf, RamsOf, GlobalCommittedRam

THEOREM LedgerOfBytes == Spec => []LedgerShape(ledger)
<1>1. IInv /\ HInv /\ DInv /\ Typed /\ KeysHeld /\ PInv => LedgerShape(ledger)
  BY LedgerIsOfBytes
<1> QED BY <1>1, PricesInvariant, PTL

(* A launch charges its job, and whatever else is new it did not ask for.  *)
LEMMA LaunchDeclares ==
  ASSUME LedgerShape(ledger), LedgerShape(ledger'), KeysHeld, Priced,
         NEW j \in Jobs, NEW p \in Placements(j), LaunchStep(j, p)
  PROVE  DeclaredOf(ledger', DOMAIN ledger')
           <= SchedulableCap + DeclaredOf(ledger', Unasked(ledger, ledger'))
<1> DEFINE job == <<"job", j>>
           new == Unasked(ledger, ledger')
           w == RamsOf(ledger')
           D == DOMAIN ledger'
           rest == D \ new
<1>1. IsFiniteSet(D) /\ \A k \in D : w[k] \in Nat /\ w[k] = ledger'[k].ram
  BY DeclaredIsCharged DEF LedgerShape, RamsOf
<1>2. new \in SUBSET D /\ IsFiniteSet(new) /\ IsFiniteSet(rest) /\ rest \subseteq D
  <2>1. new \subseteq D
    BY DEF Unasked
  <2> HIDE DEF D, new
  <2> QED BY <1>1, <2>1, FS_Subset, FS_Difference
<1>3. LaunchJob(j, p) /\ job \notin DOMAIN ledger
  <2>1. \A k \in DOMAIN ledger : KeyHeld(k)
    BY DEF KeysHeld
  <2>2. ~IsRunning(j)
    BY DEF LaunchStep, Eligible
  <2>3. ~KeyHeld(job)
    BY <2>2 DEF KeyHeld, RunningJobs, IsRunning
  <2> QED BY <2>1, <2>3 DEF LaunchStep
<1>4. ASSUME NEW k \in rest \ {job}
      PROVE  k \in DOMAIN ledger /\ w[k] = RamsOf(ledger)[k]
  <2>1. (k \in DOMAIN ledger /\ ledger'[k] = ledger[k]) \/ ChargeOfLaunch(k, j, p)
    BY <1>3, LaunchCharges
  <2>2. CASE k \in DOMAIN ledger /\ ledger'[k] = ledger[k]
    BY <2>2, <1>1 DEF RamsOf
  <2>3. CASE ChargeOfLaunch(k, j, p)
    <3>1. k[1] \in {"replica", "context"} /\ ledger'[k] = Worth(k)
      BY <2>3 DEF ChargeOfLaunch, Worth
    <3>2. k \in DOMAIN ledger
      BY <3>1 DEF Unasked
    <3>3. ledger[k] = Worth(k)
      BY <3>1, <3>2 DEF Priced
    <3> QED BY <1>1, <3>1, <3>2, <3>3 DEF RamsOf
  <2> QED BY <2>1, <2>2, <2>3
<1>5. job \in D /\ w[job] = p.path.ram
  <2>1. job \in D
    BY <1>3 DEF LaunchJob, Dispatch, LaunchLedger, Charge, JobCharge, Singleton
  <2>2. ChargeOfLaunch(job, j, p)
    BY <1>3, <2>1, LaunchCharges
  <2> QED BY <1>1, <2>1, <2>2 DEF ChargeOfLaunch, Allocation
<1>6. p.path.ram \in Nat /\ GlobalFreeRam(ledger) - Margin(MemCap) >= p.path.ram
  <2>1. Feasible(Augmented(j, rate))
    BY DEF LaunchStep, Diverged, PathsNow
  <2> DEFINE path == Augmented(j, rate)[Min(CapablePaths(Augmented(j, rate)))]
  <2>2. p \in PlaceNow(ledger, path) /\ PathShape(path)
    BY <2>1, FeasibleChoice DEF Placements, Plan, PathsNow
  <2> HIDE DEF path
  <2> QED BY <2>2, PlacedIsFree, PlacedWhere DEF PathShape
<1>7. /\ IsFiniteSet(DOMAIN ledger) /\ \A k \in DOMAIN ledger : RamsOf(ledger)[k] \in Nat
      /\ Total(RamsOf(ledger), DOMAIN ledger) \in Nat
      /\ Total(RamsOf(ledger), DOMAIN ledger) <= GlobalCommittedRam(ledger)
  BY DeclaredIsCharged DEF LedgerShape, DeclaredOf, RamsOf
<1> HIDE DEF job, new, w, D, rest
<1>8. Total(w, D) = Total(w, new) + Total(w, rest)
  <2>1. \A k \in D : w[k] \in Int
    BY <1>1
  <2> QED BY <1>1, <1>2, <2>1, TotalSplit DEF rest
<1>9. Total(w, rest) <= p.path.ram + Total(RamsOf(ledger), DOMAIN ledger)
  <2>1. rest \ {job} \subseteq DOMAIN ledger /\ \A k \in rest \ {job} : w[k] = RamsOf(ledger)[k]
    BY <1>4
  <2> QED BY <1>5, <1>6, <1>7, <2>1, TotalOneMore
<1>10. Total(w, new) \in Nat /\ Total(w, rest) \in Nat
  <2>1. (\A k \in new : w[k] \in Nat) /\ (\A k \in rest : w[k] \in Nat)
    BY <1>1, <1>2
  <2> QED BY <1>2, <2>1, TotalIsNat
<1>11. p.path.ram + GlobalCommittedRam(ledger) <= SchedulableCap /\ SchedulableCap \in Int
  <2>1. GlobalFreeRam(ledger) = MemCap - GlobalCommittedRam(ledger) /\ GlobalCommittedRam(ledger) \in Nat
        /\ MemCap \in Nat /\ Margin(MemCap) \in Int
    BY FreeAmounts, ChargesAreBytes, MarginType, InventoryAssumption
  <2> QED BY <1>6, <2>1 DEF SchedulableCap
<1>12. Total(w, D) <= SchedulableCap + Total(w, new)
  <2>1. GlobalCommittedRam(ledger) \in Nat
    BY ChargesAreBytes
  <2> QED BY <1>6, <1>7, <1>8, <1>9, <1>10, <1>11, <2>1
<1> QED BY <1>12 DEF DeclaredOf, w, D, new, RamsOf

LEMMA OnlyLaunchStarts ==
  ASSUME IInv, [Next]_vars, RunningJobs' \ RunningJobs # {}
  PROVE  Launch
<1>1. ~(running' \subseteq running /\ DOMAIN warmRunning' \subseteq DOMAIN warmRunning)
  BY DEF RunningJobs
<1>2. ReapOk \/ ReapWrongShards => running' \subseteq running /\ DOMAIN warmRunning' \subseteq DOMAIN warmRunning
  BY DEF ReapOk, ReapWrongShards, Reaped, Restricted
<1>3. ReapError => running' \subseteq running /\ DOMAIN warmRunning' \subseteq DOMAIN warmRunning
  BY DEF ReapError, Poison, Restricted
<1>4. Quiet \/ Spill \/ Close => running' \subseteq running /\ warmRunning' = warmRunning
  BY DEF Quiet, Spill, Close, jobVars
<1> QED BY <1>1, <1>2, <1>3, <1>4, StepKinds

(* A job is admitted only into memory that is there, whatever the schedule *)
(* of completions, samples and failures before it.                         *)
THEOREM AdmissionKeepsTheMargin == Spec => AdmissionKeepsMargin
<1> DEFINE Fits == DeclaredOf(ledger', DOMAIN ledger')
                     <= SchedulableCap + DeclaredOf(ledger', Unasked(ledger, ledger'))
<1>1. IInv /\ LedgerShape(ledger) /\ LedgerShape(ledger)' /\ KeysHeld /\ PInv /\ [Next]_vars
      => [RunningJobs' \ RunningJobs # {} => Fits]_vars
  <2> SUFFICES ASSUME IInv, LedgerShape(ledger), LedgerShape(ledger'), KeysHeld, PInv, [Next]_vars,
                      RunningJobs' \ RunningJobs # {}
               PROVE  Fits
    BY DEF LedgerShape
  <2>1. Launch
    BY OnlyLaunchStarts
  <2>2. PICK j \in Jobs : \E p \in Placements(j) : LaunchStep(j, p)
    BY <2>1, LaunchIsOneJob
  <2>3. PICK p \in Placements(j) : LaunchStep(j, p)
    BY <2>2
  <2> QED BY <2>3, LaunchDeclares DEF PInv
<1> QED BY <1>1, PricesInvariant, LedgerOfBytes, PTL DEF Spec, AdmissionKeepsMargin

-----------------------------------------------------------------------------
(* On a roomy machine the run never stalls.  When nothing runs and nothing *)
(* is left to spill, all that is charged is what Roomy allows for, so what *)
(* it can place beside that has room beside the ledger.                    *)

WeightOf == [o \in Outs |-> HeldSize(o)]

LEMMA AllBytesCover ==
  ASSUME IInv, HInv, SInv, Weighed
  PROVE  /\ \A o \in DOMAIN outputs : outputs[o].res = "private" => diskUsed + HeldSize(o) <= AllBytes
         /\ \A j \in Jobs : inputs[j] = "private" => diskUsed + InputSize[j] <= AllBytes
         /\ diskUsed \in Int /\ AllBytes \in Int
<1> DEFINE R == DiskResults(outputs)
           I == DiskInputs
           w == WeightOf
<1>1. /\ IsFiniteSet(Outs) /\ IsFiniteSet(Jobs) /\ R \subseteq Outs /\ I \subseteq Jobs
      /\ DOMAIN outputs \subseteq Outs
      /\ \A o \in Outs : w[o] \in Nat /\ w[o] = HeldSize(o)
      /\ \A j \in Jobs : InputSize[j] \in Nat
  <2>1. DOMAIN outputs \subseteq Outs
    BY OutputsAreOuts DEF IInv, HInv
  <2>2. \A o \in Outs : HeldSize(o) \in Nat
    BY SizesAreNumbers DEF IInv, HInv
  <2> QED BY <2>1, <2>2, OutsAreFinite, JobsAreFinite, SizeAssumption DEF DiskResults, DiskInputs, WeightOf
<1>2. IsFiniteSet(R) /\ IsFiniteSet(I)
  BY <1>1, FS_Subset
<1>3. diskUsed = Total(w, R) + Total(InputSize, I)
  <2>1. \A o \in R : SizesOf(outputs)[o] = w[o]
    BY <1>1 DEF DiskResults, SizesOf, Weighed, EntryWeighed
  <2>2. Total(SizesOf(outputs), R) = Total(w, R)
    BY <1>2, <2>1, TotalSame
  <2> QED BY <2>2 DEF SInv, DiskCounted, BytesIn
<1>4. AllBytes = Total(InputSize, Jobs) + Total(w, Outs)
  BY DEF AllBytes, WeightOf
<1> HIDE DEF R, I, w
<1>5. ASSUME NEW S, S \subseteq Outs, IsFiniteSet(S)
      PROVE  Total(w, S) \in Nat /\ Total(w, S) <= Total(w, Outs) /\ Total(w, Outs) \in Nat
  <2>1. (\A o \in S : w[o] \in Int /\ w[o] <= w[o] /\ w[o] \in Nat) /\ (\A o \in Outs : w[o] \in Nat)
    BY <1>1, <1>5
  <2>2. Total(w, S) <= Total(w, Outs)
    BY <1>1, <1>5, <2>1, TotalGrows
  <2>3. Total(w, S) \in Nat /\ Total(w, Outs) \in Nat
    BY <1>1, <1>5, <2>1, TotalIsNat
  <2> QED BY <2>2, <2>3
<1>6. ASSUME NEW S, S \subseteq Jobs, IsFiniteSet(S)
      PROVE  Total(InputSize, S) \in Nat /\ Total(InputSize, S) <= Total(InputSize, Jobs)
             /\ Total(InputSize, Jobs) \in Nat
  <2>1. (\A j \in S : InputSize[j] \in Int /\ InputSize[j] <= InputSize[j] /\ InputSize[j] \in Nat)
        /\ (\A j \in Jobs : InputSize[j] \in Nat)
    BY <1>1, <1>6
  <2>2. Total(InputSize, S) <= Total(InputSize, Jobs)
    BY <1>1, <1>6, <2>1, TotalGrows
  <2>3. Total(InputSize, S) \in Nat /\ Total(InputSize, Jobs) \in Nat
    BY <1>1, <1>6, <2>1, TotalIsNat
  <2> QED BY <2>2, <2>3
<1>7. ASSUME NEW o \in DOMAIN outputs, outputs[o].res = "private"
      PROVE  diskUsed + HeldSize(o) <= AllBytes
  <2>1. o \notin R /\ o \in Outs /\ IsFiniteSet(R \cup {o}) /\ R \cup {o} \subseteq Outs
    BY <1>1, <1>2, <1>7, FS_AddElement DEF R, DiskResults
  <2>2. \A x \in R \cup {o} : w[x] \in Int
    BY <1>1, <2>1
  <2>3. Total(w, R \cup {o}) = w[o] + Total(w, R)
    BY <1>2, <2>1, <2>2, TotalAdd
  <2>4. Total(w, R \cup {o}) <= Total(w, Outs) /\ Total(w, Outs) \in Nat /\ Total(w, R) \in Nat
    BY <1>1, <1>2, <1>5, <2>1
  <2>5. Total(InputSize, I) \in Nat /\ Total(InputSize, I) <= Total(InputSize, Jobs)
        /\ Total(InputSize, Jobs) \in Nat
    BY <1>1, <1>2, <1>6
  <2>6. w[o] = HeldSize(o) /\ w[o] \in Nat
    BY <1>1, <2>1
  <2> QED BY <1>3, <1>4, <2>3, <2>4, <2>5, <2>6
<1>8. ASSUME NEW j \in Jobs, inputs[j] = "private"
      PROVE  diskUsed + InputSize[j] <= AllBytes
  <2>1. j \notin I /\ IsFiniteSet(I \cup {j}) /\ I \cup {j} \subseteq Jobs
    BY <1>1, <1>2, <1>8, FS_AddElement DEF I, DiskInputs
  <2>2. \A x \in I \cup {j} : InputSize[x] \in Int
    BY <1>1, <2>1
  <2>3. Total(InputSize, I \cup {j}) = InputSize[j] + Total(InputSize, I)
    BY <1>2, <2>1, <2>2, TotalAdd
  <2>4. Total(InputSize, I \cup {j}) <= Total(InputSize, Jobs) /\ Total(InputSize, Jobs) \in Nat
        /\ Total(InputSize, I) \in Nat
    BY <1>1, <1>2, <1>6, <2>1
  <2>5. Total(w, R) \in Nat /\ Total(w, R) <= Total(w, Outs) /\ Total(w, Outs) \in Nat
    BY <1>1, <1>2, <1>5
  <2>6. InputSize[j] \in Nat
    BY <1>1
  <2> QED BY <1>3, <1>4, <2>3, <2>4, <2>5, <2>6
<1>9. diskUsed \in Int /\ AllBytes \in Int
  <2>1. Total(w, R) \in Nat /\ Total(w, Outs) \in Nat
    BY <1>1, <1>2, <1>5
  <2>2. Total(InputSize, I) \in Nat /\ Total(InputSize, Jobs) \in Nat
    BY <1>1, <1>2, <1>6
  <2> QED BY <1>3, <1>4, <2>1, <2>2
<1> QED BY <1>7, <1>8, <1>9

(* What cannot be spilled stays.                                           *)
LEMMA UnspillableStays ==
  ASSUME IInv, HInv, SInv, Weighed, Spillable = {}
  PROVE  /\ \A o \in DOMAIN outputs : outputs[o].res = "private" => Stays(HeldSize(o))
         /\ \A j \in Jobs : inputs[j] = "private" => Stays(InputSize[j])
<1>1. diskUsed \in Int /\ AllBytes \in Int /\ SpillBudget \in Nat /\ SpillFloor \in Nat
  BY AllBytesCover, SizeAssumption
<1>2. ASSUME NEW n \in Nat, ~(n >= SpillFloor /\ diskUsed + n <= SpillBudget), diskUsed + n <= AllBytes
      PROVE  Stays(n)
  BY <1>1, <1>2 DEF Stays
<1>3. ASSUME NEW o \in DOMAIN outputs, outputs[o].res = "private" PROVE Stays(HeldSize(o))
  <2>1. <<"output", o>> \in PrivateBlobs
    BY <1>3 DEF PrivateBlobs
  <2>2. BlobSize(<<"output", o>>) = HeldSize(o) /\ HeldSize(o) \in Nat
    <3>1. HeldSize(o) \in Nat
      BY SizesAreNumbers, OutputsAreOuts DEF IInv, HInv
    <3> QED BY <1>3, <3>1 DEF BlobSize, Weighed, EntryWeighed
  <2>3. ~(HeldSize(o) >= SpillFloor /\ diskUsed + HeldSize(o) <= SpillBudget)
    BY <2>1, <2>2 DEF Spillable
  <2> QED BY <1>2, <1>3, <2>2, <2>3, AllBytesCover
<1>4. ASSUME NEW j \in Jobs, inputs[j] = "private" PROVE Stays(InputSize[j])
  <2>1. <<"input", j>> \in PrivateBlobs
    BY <1>4 DEF PrivateBlobs
  <2>2. BlobSize(<<"input", j>>) = InputSize[j] /\ InputSize[j] \in Nat
    BY SizeAssumption DEF BlobSize
  <2>3. ~(InputSize[j] >= SpillFloor /\ diskUsed + InputSize[j] <= SpillBudget)
    BY <2>1, <2>2 DEF Spillable
  <2> QED BY <1>2, <1>4, <2>2, <2>3, AllBytesCover
<1> QED BY <1>3, <1>4

StandingOf(k, g) ==
  CASE k[1] = "input" -> HostBytes(InputSize[k[2]], NoIndex)
    [] k[1] = "output" -> StandingOutput(k[2], g)
    [] k[1] = "replica" -> HostBytes(OutBytes[k[2]], k[3])
    [] k[1] = "context" -> Allocation({}, RamBaseline, WarmNode(k[2]), k[2], ContextVram)

LEMMA StandingShape ==
  ASSUME NEW g
  PROVE  /\ LedgerShape(Standing(g)) /\ DOMAIN Standing(g) = StandingKeys
         /\ \A k \in StandingKeys : Standing(g)[k] = StandingOf(k, g) /\ StandingOf(k, g).actual = 0
<1>1. DOMAIN Standing(g) = StandingKeys /\ \A k \in StandingKeys : Standing(g)[k] = StandingOf(k, g)
  BY DEF Standing, StandingOf
<1>2. ASSUME NEW k \in StandingKeys
      PROVE  k \in AllKeys /\ Bytes(StandingOf(k, g)) /\ StandingOf(k, g).actual = 0
  <2>1. CASE \E j \in Jobs : k = <<"input", j>>
    <3>1. PICK j \in Jobs : k = <<"input", j>>
      BY <2>1
    <3>2. InputSize[j] \in Nat /\ StandingOf(k, g) = HostBytes(InputSize[j], NoIndex)
      BY <3>1, SizeAssumption DEF StandingOf
    <3> QED BY <3>1, <3>2 DEF AllKeys, InputKeys, Bytes, HostBytes, Allocation
  <2>2. CASE \E o \in Outs : k = <<"output", o>>
    <3>1. PICK o \in Outs : k = <<"output", o>>
      BY <2>2
    <3>2. OutBytes[o] \in Nat /\ HeldSize(o) \in Nat
      <4>1. OutBytes[o] \in Nat
        BY SizeAssumption
      <4>2. o[1] \in Jobs
        BY FanoutCountsReaders DEF Outs
      <4>3. DeclaredOut[o[1]] \in Int
        BY <4>2, SizeAssumption
      <4> QED BY <4>1, <4>3 DEF HeldSize
    <3>3. StandingOf(k, g) = StandingOutput(o, g)
      BY <3>1 DEF StandingOf
    <3> QED BY <3>1, <3>2, <3>3 DEF AllKeys, Bytes, StandingOutput, Allocation
  <2>3. CASE \E o \in Outs : \E d \in Domains : k = <<"replica", o, d>>
    <3>1. PICK o \in Outs : \E d \in Domains : k = <<"replica", o, d>>
      BY <2>3
    <3>2. PICK d \in Domains : k = <<"replica", o, d>>
      BY <3>1
    <3>3. OutBytes[o] \in Nat /\ StandingOf(k, g) = HostBytes(OutBytes[o], d)
      BY <3>2, SizeAssumption DEF StandingOf
    <3>4. k \in AllKeys
      <4>1. <<o, d>> \in Outs \X Domains /\ k = <<"replica", <<o, d>>[1], <<o, d>>[2]>>
        BY <3>2
      <4> QED BY <4>1 DEF AllKeys
    <3> QED BY <3>3, <3>4 DEF Bytes, HostBytes, Allocation
  <2>4. CASE \E h \in GpuIds : k = <<"context", h>>
    BY <2>4, SizeAssumption DEF AllKeys, StandingOf, Bytes, Allocation
  <2> QED BY <2>1, <2>2, <2>3, <2>4 DEF StandingKeys
<1>3. IsFiniteSet(StandingKeys)
  <2>1. StandingKeys \in SUBSET AllKeys
    BY <1>2
  <2> QED BY <2>1, KeysAreFinite, FS_Subset
<1> QED BY <1>1, <1>2, <1>3 DEF LedgerShape, Bytes

(* One charge beside what Roomy allows for it.                             *)
Within(a, b, g) ==
  /\ a.node = b.node /\ a.actual = 0 /\ a.ram \in Nat /\ a.ram <= b.ram
  /\ a.gpu = g => b.gpu = g /\ a.vram <= b.vram

LEMMA LedgerIsWithin ==
  ASSUME IInv, HInv, SInv, DInv, Typed, KeysHeld, PInv, RunningJobs = {}, Spillable = {},
         NEW g, NEW k \in DOMAIN ledger
  PROVE  k \in StandingKeys /\ Within(ledger[k], StandingOf(k, g), g)
<1>1. KeyHeld(k) /\ k[1] # "job" /\ ledger[k] = Worth(k)
  BY NothingRunsNoCores DEF KeysHeld, PInv, Priced
<1>2. DOMAIN outputs \subseteq Outs
  BY OutputsAreOuts DEF IInv, HInv
<1>3. CASE \E j \in PrivateInputs : k = <<"input", j>>
  <2>1. PICK j \in PrivateInputs : k = <<"input", j>>
    BY <1>3
  <2>2. j \in Jobs /\ Stays(InputSize[j]) /\ InputSize[j] \in Nat
    BY <2>1, UnspillableStays, SizeAssumption DEF PrivateInputs, PInv
  <2>3. ledger[k] = HostBytes(InputSize[j], NoIndex) /\ StandingOf(k, g) = HostBytes(InputSize[j], NoIndex)
    BY <1>1, <2>1 DEF Worth, StandingOf
  <2>4. k \in StandingKeys
    BY <2>1, <2>2 DEF StandingKeys
  <2> QED BY <2>2, <2>3, <2>4 DEF Within, HostBytes, Allocation
<1>4. CASE \E o \in DOMAIN outputs : k = <<"output", o>> /\ outputs[o].res \in {"private", "device"}
  <2>1. PICK o \in DOMAIN outputs : k = <<"output", o>> /\ outputs[o].res \in {"private", "device"}
    BY <1>4
  <2>2. OutBytes[o] \in Nat /\ HeldSize(o) \in Nat
    BY <1>2, <2>1, SizesAreNumbers DEF IInv, HInv
  <2>3. ledger[k] = OutputWorth(o, outputs[o]) /\ StandingOf(k, g) = StandingOutput(o, g)
    BY <1>1, <2>1 DEF Worth, StandingOf
  <2>4. k \in StandingKeys
    BY <1>2, <2>1 DEF StandingKeys
  <2>5. CASE outputs[o].res = "private"
    <3>1. Stays(HeldSize(o))
      BY <2>1, <2>5, UnspillableStays DEF PInv
    <3>2. ledger[k] = HostBytes(HeldSize(o), NoIndex)
      BY <2>3, <2>5 DEF OutputWorth
    <3> QED BY <2>2, <2>3, <2>4, <3>1, <3>2 DEF Within, StandingOutput, HostBytes, Allocation
  <2>6. CASE outputs[o].res = "device"
    <3>1. o[1] \in DeviceResident
      BY <2>1, <2>6 DEF PInv, Weighed, EntryWeighed
    <3>2. ledger[k] = Allocation({}, 0, NoIndex, outputs[o].gpu, OutBytes[o])
      BY <2>3, <2>6 DEF OutputWorth
    <3> QED BY <2>2, <2>3, <2>4, <3>1, <3>2 DEF Within, StandingOutput, Allocation
  <2> QED BY <2>1, <2>5, <2>6
<1>5. CASE \E o \in DOMAIN outputs : \E d \in outputs[o].domains :
             k = <<"replica", o, d>> /\ outputs[o].res = "shared"
  <2>1. PICK o \in DOMAIN outputs : outputs[o].res = "shared" /\ \E d \in outputs[o].domains : k = <<"replica", o, d>>
    BY <1>5
  <2>2. PICK d \in outputs[o].domains : k = <<"replica", o, d>>
    BY <2>1
  <2>3. d \in Domains /\ o \in Outs /\ IsShareable(o) /\ OutBytes[o] \in Nat
    <3>1. d \in Domains
      BY <2>1, <2>2 DEF DInv, Segments
    <3>2. IsShareable(o)
      BY <2>1 DEF PInv, Weighed, EntryWeighed
    <3> QED BY <1>2, <2>1, <3>1, <3>2, SizeAssumption
  <2>4. ledger[k] = HostBytes(OutBytes[o], d) /\ StandingOf(k, g) = HostBytes(OutBytes[o], d)
    BY <1>1, <2>2 DEF Worth, StandingOf
  <2>5. k \in StandingKeys
    BY <2>2, <2>3 DEF StandingKeys
  <2> QED BY <2>3, <2>4, <2>5 DEF Within, HostBytes, Allocation
<1>6. CASE \E h \in warmUp : k = <<"context", h>>
  <2>1. PICK h \in warmUp : k = <<"context", h>>
    BY <1>6
  <2>2. h \in GpuIds /\ RamBaseline \in Nat /\ ContextVram \in Nat
    BY <2>1, SizeAssumption DEF Typed
  <2>3. ledger[k] = StandingOf(k, g) /\ StandingOf(k, g) = Allocation({}, RamBaseline, WarmNode(h), h, ContextVram)
    BY <1>1, <2>1 DEF Worth, StandingOf
  <2>4. k \in StandingKeys
    BY <2>1, <2>2 DEF StandingKeys
  <2> QED BY <2>2, <2>3, <2>4 DEF Within, Allocation
<1> QED BY <1>1, <1>3, <1>4, <1>5, <1>6 DEF KeyHeld

LEMMA StandingCovers ==
  ASSUME IInv, HInv, SInv, DInv, Typed, KeysHeld, PInv, RunningJobs = {}, Spillable = {}, NEW g
  PROVE  /\ GlobalCommittedRam(ledger) <= GlobalCommittedRam(Standing(g))
         /\ \A n : CommittedRamNode(ledger, n) <= CommittedRamNode(Standing(g), n)
         /\ CommittedVram(ledger, g) <= CommittedVram(Standing(g), g)
<1> DEFINE M == ledger
           L == Standing(g)
<1>1. LedgerShape(M) /\ LedgerShape(L)
  BY LedgerIsOfBytes, StandingShape
<1>2. \A k \in DOMAIN M : k \in DOMAIN L /\ Within(M[k], L[k], g) /\ L[k].actual = 0
  BY LedgerIsWithin, StandingShape
<1> HIDE DEF M, L
<1>3. ASSUME NEW k \in DOMAIN M
      PROVE  /\ k \in DOMAIN L /\ ChargesOf(M)[k] \in Int /\ ChargesOf(M)[k] <= ChargesOf(L)[k]
             /\ L[k].node = M[k].node
             /\ M[k].gpu = g => L[k].gpu = g /\ VramsOf(M)[k] \in Int /\ VramsOf(M)[k] <= VramsOf(L)[k]
  <2>1. k \in DOMAIN L /\ Within(M[k], L[k], g) /\ L[k].actual = 0
    BY <1>2
  <2>2. M[k].ram \in Nat /\ L[k].ram \in Nat /\ M[k].vram \in Nat /\ L[k].vram \in Nat
    BY <1>1, <2>1 DEF LedgerShape
  <2>3. ChargesOf(M)[k] = M[k].ram /\ ChargesOf(L)[k] = L[k].ram
    BY <2>1, <2>2 DEF ChargesOf, ChargedRam, Within
  <2>4. VramsOf(M)[k] = M[k].vram /\ VramsOf(L)[k] = L[k].vram
    BY <2>1 DEF VramsOf
  <2> QED BY <2>1, <2>2, <2>3, <2>4 DEF Within
<1>4. GlobalCommittedRam(M) <= GlobalCommittedRam(L)
  <2>1. IsFiniteSet(DOMAIN L) /\ \A k \in DOMAIN L : ChargesOf(L)[k] \in Nat
    BY <1>1, ChargesAreBytes DEF LedgerShape
  <2>2. DOMAIN M \subseteq DOMAIN L
    BY <1>3
  <2> QED BY <1>3, <2>1, <2>2, TotalGrows DEF GlobalCommittedRam
<1>5. ASSUME NEW n PROVE CommittedRamNode(M, n) <= CommittedRamNode(L, n)
  <2>1. OnNode(M, n) \subseteq OnNode(L, n) /\ OnNode(M, n) \subseteq DOMAIN M
    BY <1>3 DEF OnNode
  <2>2. IsFiniteSet(OnNode(L, n)) /\ \A k \in OnNode(L, n) : ChargesOf(L)[k] \in Nat
    BY <1>1, ChargesAreBytes
  <2>3. \A k \in OnNode(M, n) : ChargesOf(M)[k] \in Int /\ ChargesOf(M)[k] <= ChargesOf(L)[k]
    BY <2>1, <1>3
  <2>4. Total(ChargesOf(M), OnNode(M, n)) <= Total(ChargesOf(L), OnNode(L, n))
    BY <2>1, <2>2, <2>3, TotalGrows
  <2> QED BY <2>4 DEF CommittedRamNode, OnNode
<1>6. CommittedVram(M, g) <= CommittedVram(L, g)
  <2>1. OnGpu(M, g) \subseteq OnGpu(L, g) /\ OnGpu(M, g) \subseteq DOMAIN M
    BY <1>3 DEF OnGpu
  <2>2. IsFiniteSet(OnGpu(L, g)) /\ \A k \in OnGpu(L, g) : VramsOf(L)[k] \in Nat
    BY <1>1, ChargesAreBytes
  <2>3. \A k \in OnGpu(M, g) : VramsOf(M)[k] \in Int /\ VramsOf(M)[k] <= VramsOf(L)[k]
    <3>1. \A k \in OnGpu(M, g) : k \in DOMAIN M /\ M[k].gpu = g
      BY DEF OnGpu
    <3> QED BY <3>1, <1>3
  <2>4. Total(VramsOf(M), OnGpu(M, g)) <= Total(VramsOf(L), OnGpu(L, g))
    BY <2>1, <2>2, <2>3, TotalGrows
  <2> QED BY <2>4 DEF CommittedVram, OnGpu, VramsOf
<1> QED BY <1>4, <1>5, <1>6 DEF M, L

(* On a machine with room for what cannot be moved and for one job beside  *)
(* it, no schedule of workers, results and samples makes the loop give up. *)
THEOREM RoomyNeverStalls == ASSUME Roomy PROVE Spec => []NeverStalls
<1>1. /\ IInv /\ HInv /\ SInv /\ DInv /\ Typed /\ KeysHeld /\ PInv
      /\ Walked
      => ~Stall
  <2> SUFFICES ASSUME IInv, HInv, SInv, DInv, Typed, KeysHeld, PInv, Walked, Stall
               PROVE  FALSE
    OBVIOUS
  <2>1. Stuck /\ ~AllAccounted /\ RunningJobs = {} /\ Spillable = {}
    BY DEF Walked, Stall, Stuck
  <2>2. PICK j \in Jobs : Eligible(j)
    BY <2>1, SomeJobIsReady DEF HInv
  <2>3. Feasible(PathsNow(j)) /\ PlaceNow(ledger, Chosen(j)) = {} /\ j \in Jobs \ Abandoned
    BY <2>1, <2>2 DEF Stuck, Waits, Placements, Plan, Chosen, Eligible, Walked
  <2>4. PathShape(Chosen(j))
    BY <2>3, FeasibleChoice DEF Chosen, PathsNow
  <2>5. PICK g \in GpuIds \cup {NoIndex} : \E p \in PlaceNow(Standing(g), Chosen(j)) : p.gpu = g
    BY <2>3 DEF Roomy, PathsNow, Plan, Chosen, Typed
  <2>6. PICK p \in PlaceNow(Standing(g), Chosen(j)) : p.gpu = g
    BY <2>5
  <2>7. LedgerShape(ledger) /\ AllocatedCores(ledger) = {} /\ LedgerShape(Standing(g))
    BY <2>1, LedgerIsOfBytes, NothingRunsNoCores, StandingShape DEF PInv
  <2>8. /\ GlobalCommittedRam(ledger) <= GlobalCommittedRam(Standing(g))
        /\ CommittedRamNode(ledger, p.node) <= CommittedRamNode(Standing(g), p.node)
        /\ CommittedVram(ledger, p.gpu) <= CommittedVram(Standing(g), p.gpu)
    BY <2>1, <2>6, StandingCovers
  <2> QED BY <2>3, <2>4, <2>6, <2>7, <2>8, MoreRoomPlaces
<1>2. Init => NeverStalls
  BY DEF Init, NeverStalls
<1>3. NeverStalls /\ ~Stall /\ [Next]_vars => NeverStalls'
  <2> SUFFICES ASSUME NeverStalls, ~Stall, [Next]_vars
               PROVE  NeverStalls'
    OBVIOUS
  <2>1. outcome' = outcome \/ outcome' \in {"report", "diverged", "missing_result", "wrong_shards"}
    BY DEF Next, Loop, Workers, Finish, Drain, ReapStale, ReapOk, ReapWrongShards, ReapError,
           ReapEmpty, AdmitRaises, Launch, EndAdmit, Spill, Close, Raise, MarkProgress, FreshPosts, FreshDies,
           Sample, WarmFrees, WarmRuns, WarmTakes, vars, loopVars
  <2> QED BY <2>1 DEF NeverStalls
<1> QED BY <1>1, <1>2, <1>3, PricesInvariant, WalkedInvariant, PTL DEF Spec
=============================================================================
