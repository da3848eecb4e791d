-------------------------------- MODULE MCGpu --------------------------------
(* One device and the processes that use it: a device-resident result with  *)
(* a warm reader, one routed fresh for its size, and a host job feeding one *)
(* of them; and a lineage whose second job fits until a warm worker stands  *)
(* or until the first has taught the calibration to run it fresh.           *)
EXTENDS ExecutorProps

MCOrder == <<"dev", "host", "small", "big", "lone", "wide">>
MCJobs == {MCOrder[i] : i \in DOMAIN MCOrder}
MCDeps == [j \in MCJobs |->
  CASE j = "small" -> {<<"dev", Whole>>, <<"host", Whole>>}
    [] j = "big" -> {<<"dev", Whole>>}
    [] j = "wide" -> {<<"lone", Whole>>}
    [] OTHER -> {}]
MCShards == [j \in MCJobs |-> {}]
MCNodes == <<[index |-> 0, cores |-> {0, 1, 2}, ram |-> 40]>>
MCGpus == <<[index |-> 0, vram |-> 12, node |-> 0]>>
MCVram == [dev |-> 2, host |-> 0, small |-> 2, big |-> 6, lone |-> 6, wide |-> 2]
MCPaths == [j \in MCJobs |->
  <<[placement |-> IF j = "host" THEN "cpu_pinned" ELSE "gpu", cores |-> 1,
     ram |-> IF j = "wide" THEN 36 ELSE 3, vram |-> MCVram[j]]>>]
MCCost == [j \in MCJobs |-> IF j \in {"lone", "wide"} THEN 1 ELSE 0]
MCZero == [j \in MCJobs |-> 0]
MCInput == [j \in MCJobs |-> 1]
MCDeclared == MCZero
MCOut == [o \in Outs |-> 1]
MCRates == {0, 5}
=============================================================================
