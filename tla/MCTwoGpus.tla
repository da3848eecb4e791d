----------------------------- MODULE MCTwoGpus -----------------------------
(* Two devices: a device-resident result and, while it is held, a job that  *)
(* fills the device it lies on.                                             *)
EXTENDS ExecutorProps

MCOrder == <<"dev", "fill", "host", "use">>
MCJobs == {MCOrder[i] : i \in DOMAIN MCOrder}
MCDeps == [j \in MCJobs |-> IF j = "use" THEN {<<"dev", Whole>>, <<"host", Whole>>} ELSE {}]
MCShards == [j \in MCJobs |-> {}]
MCNodes == <<[index |-> 0, cores |-> {0, 1, 2}, ram |-> 40]>>
MCGpus == <<[index |-> 0, vram |-> 8, node |-> 0], [index |-> 1, vram |-> 8, node |-> 0]>>
MCPaths == [j \in MCJobs |->
  <<[placement |-> IF j = "host" THEN "cpu_pinned" ELSE "gpu", cores |-> 1, ram |-> 3,
     vram |-> CASE j = "host" -> 0 [] j = "fill" -> 5 [] OTHER -> 3]>>]
MCZero == [j \in MCJobs |-> 0]
MCInput == [j \in MCJobs |-> 0]
MCDeclared == MCZero
MCOut == [o \in Outs |-> 1]
=============================================================================
