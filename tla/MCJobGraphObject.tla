-------------------------- MODULE MCJobGraphObject --------------------------
(* Every graph on three jobs in which a job reads at most two results: a    *)
(* whole result, a shard of the partitioned job "p", a shard of a job that  *)
(* has none, an undeclared shard, or a result of a job outside the graph.   *)
EXTENDS JobGraphObject, FiniteSetsExt

MCJobs == {"p", "q", "r"}
MCShards == [j \in MCJobs |-> IF j = "p" THEN {"1", "2"} ELSE {}]
MCReadable == {<<j, "whole">> : j \in MCJobs}
                \cup {<<"p", "1">>, <<"p", "2">>, <<"p", "3">>, <<"q", "1">>, <<"ghost", "whole">>}
MCGraphs == [MCJobs -> {{}} \cup kSubset(1, MCReadable) \cup kSubset(2, MCReadable)]
=============================================================================
