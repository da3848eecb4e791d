------------------------------ MODULE MCMemory ------------------------------
(* Memory for two jobs at most, so that results and inputs are spilled to a *)
(* disk budget that does not hold them all, while the sampler reads a job   *)
(* still ramping up, or one above its declaration, and its samples are late.*)
EXTENDS ExecutorProps

MCOrder == <<"p", "q", "join", "solo">>
MCJobs == {MCOrder[i] : i \in DOMAIN MCOrder}
MCDeps == [j \in MCJobs |-> IF j = "join" THEN {<<"p", Whole>>, <<"q", Whole>>} ELSE {}]
MCShards == [j \in MCJobs |-> {}]
MCNodes == <<[index |-> 0, cores |-> {0, 1, 2}, ram |-> 16]>>
MCGpus == <<>>
MCPaths == [j \in MCJobs |->
  <<[placement |-> "cpu_unpinned", cores |-> 1, ram |-> 5, vram |-> 0]>>]
MCZero == [j \in MCJobs |-> 0]
MCInput == [j \in MCJobs |-> IF j = "join" THEN 2 ELSE 3]
MCDeclared == MCZero
MCOut == [o \in Outs |-> IF o[1] = "join" THEN 1 ELSE 3]
MCSizes == {2, 9}

(* With disk for every blob, a memory that does not hold the inputs will do.*)
Spilling == INSTANCE ExecutorProps WITH MemCap <- 8, SpillBudget <- 30
ASSUME Spilling!Roomy /\ ~Roomy
=============================================================================
