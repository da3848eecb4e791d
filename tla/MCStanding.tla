----------------------------- MODULE MCStanding -----------------------------
(* One device: a job of half its memory, a small one that runs warm, and    *)
(* one that takes the whole device in a process of its own.                 *)
EXTENDS ExecutorProps

MCOrder == <<"half", "small", "fat">>
MCJobs == {MCOrder[i] : i \in DOMAIN MCOrder}
MCDeps == [j \in MCJobs |-> {}]
MCShards == [j \in MCJobs |-> {}]
MCNodes == <<[index |-> 0, cores |-> {0, 1, 2}, ram |-> 40]>>
MCGpus == <<[index |-> 0, vram |-> 12, node |-> 0]>>
MCVram == [half |-> 6, small |-> 4, fat |-> 10]
MCPaths == [j \in MCJobs |->
  <<[placement |-> "gpu", cores |-> 1, ram |-> 3, vram |-> MCVram[j]]>>]
MCZero == [j \in MCJobs |-> 0]
MCInput == MCZero
MCDeclared == MCZero
MCOut == [o \in Outs |-> 0]
=============================================================================
