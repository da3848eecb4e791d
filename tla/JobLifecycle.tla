---------------------------- MODULE JobLifecycle ----------------------------
(***************************************************************************)
(* What the scheduler promises about the jobs of a graph, with no machine, *)
(* no memory and no processes: a job runs only when its producers have     *)
(* completed, a failure abandons exactly its lineage, and a run finishes   *)
(* only when every job is completed or abandoned.                          *)
(***************************************************************************)
EXTENDS JobGraph

CONSTANT Abandoned   \* the lineages given up before the run starts

VARIABLES status,    \* status[j] of each job
          over       \* "running", "finished" (a report is returned) or "raised"
vars == <<status, over>>

With(s) == {j \in Jobs : status[j] = s}

Init ==
  /\ status = [j \in Jobs |-> IF j \in Abandoned THEN "cancelled" ELSE "waiting"]
  /\ over = "running"

Start(j) ==
  /\ status[j] = "waiting" /\ Producers(j) \subseteq With("completed")
  /\ status' = [status EXCEPT ![j] = "running"]
  /\ UNCHANGED over

Complete(j) ==
  /\ status[j] = "running"
  /\ status' = [status EXCEPT ![j] = "completed"]
  /\ UNCHANGED over

(* The whole lineage goes, completed members included.                     *)
Fail(j) ==
  /\ status[j] = "running"
  /\ status' = [k \in Jobs |-> IF k \in Component(j) THEN "cancelled" ELSE status[k]]
  /\ UNCHANGED over

Finish ==
  /\ With("completed") \cup With("cancelled") = Jobs
  /\ over' = "finished"
  /\ UNCHANGED status

(* The run gives up; a result may still have been taken in.                *)
Abort ==
  /\ over' = "raised"
  /\ \/ UNCHANGED status
     \/ \E j \in With("running") : status' = [status EXCEPT ![j] = "completed"]

(* A run that is over stops the workers it still has.                      *)
Stop ==
  /\ over = "raised"
  /\ \E S \in SUBSET With("running") :
        status' = [j \in Jobs |-> IF j \in S THEN "waiting" ELSE status[j]]
  /\ UNCHANGED over

Next ==
  \/ /\ over = "running"
     /\ \/ \E j \in Jobs : Start(j) \/ Complete(j) \/ Fail(j)
        \/ Finish
        \/ Abort
  \/ Stop

Spec == Init /\ [][Next]_vars
=============================================================================
