------------------------------- MODULE MCCore -------------------------------
(* Three lineages on nodes of two cores and one: a partitioned producer with*)
(* a reader of one shard and of both, joined by a sum, and a reader of the  *)
(* whole result it does not have; a whole result large enough to share with *)
(* a pinned and an unpinned reader; and a pair of which the first needs more*)
(* cores than there are.  Segments are base copies, node replicas, or both. *)
(* Any job may raise, any worker be killed, the shards may be wrong.        *)
EXTENDS ExecutorProps

MCOrder == <<"gen", "x", "both", "sum", "plain", "base", "pinned", "any", "huge", "after">>
MCJobs == {MCOrder[i] : i \in DOMAIN MCOrder}
MCDeps == [j \in MCJobs |->
  CASE j = "x" -> {<<"gen", "1">>}
    [] j = "both" -> {<<"gen", "1">>, <<"gen", "2">>}
    [] j = "plain" -> {<<"sum", Whole>>, <<"gen", Whole>>}
    [] j \in {"pinned", "any"} -> {<<"base", Whole>>}
    [] j = "sum" -> {<<"x", Whole>>, <<"both", Whole>>}
    [] j = "after" -> {<<"huge", Whole>>}
    [] OTHER -> {}]
MCShards == [j \in MCJobs |-> IF j = "gen" THEN {"1", "2"} ELSE {}]
MCNodes == <<[index |-> 0, cores |-> {0, 2}, ram |-> 20], [index |-> 1, cores |-> {1}, ram |-> 20]>>
MCGpus == <<>>
MCPaths == [j \in MCJobs |->
  <<[placement |-> IF j = "any" THEN "cpu_unpinned" ELSE "cpu_pinned",
     cores |-> IF j = "huge" THEN 4 ELSE 1, ram |-> 3, vram |-> 0]>>]
MCZero == [j \in MCJobs |-> 0]
MCInput == [j \in MCJobs |-> 1]
MCDeclared == [j \in MCJobs |-> IF j = "base" THEN 4 ELSE 0]
MCOut == [o \in Outs |-> IF o = <<"base", Whole>> THEN 3 ELSE IF o = <<"gen", "1">> THEN 4 ELSE 1]
=============================================================================
