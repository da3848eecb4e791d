---------------------------- MODULE BenchmarksProps ----------------------------
(***************************************************************************)
(* What regenerating the benchmarks may never do to the work of the people *)
(* around it, and what it may claim.                                       *)
(***************************************************************************)
EXTENDS Benchmarks

(* Nothing the operator typed or the tool committed is lost, whatever the  *)
(* tool fast-forwards, rebases, aborts or fails at (sync_with_remote,      *)
(* _push_with_resync): it is in the working tree, staged, or in a commit   *)
(* of the branch.                                                          *)
NothingLost ==
  \A change \in ours :
    \/ work.code = change \/ index.code = change
    \/ \E k \in DOMAIN local : \E f \in DOMAIN local[k] : local[k][f] = change

(* An artifact this run measured, with source that is or was the tip of    *)
(* the branch it was told to measure.                                      *)
Measured(artifact) ==
  \E n \in 0..Len(Ref) : artifact = <<"measured", measures, TreeAt(Ref, n).code>>

(* origin only ever gains commits, and when the tool says it pushed, or    *)
(* committed (commit_and_push), what is at origin's tip, or the branch's,  *)
(* was measured in this very run: never a stale file of the container, a   *)
(* failed generator's or somebody else's.  Excepted is a run whose remote  *)
(* line met that of an earlier run, still alive after its time-out.        *)
PushedOnTop ==
  [][/\ IsPrefix(origin, origin')
     /\ tool.alone /\ tool'.outcome # tool.outcome =>
          /\ tool'.outcome = "pushed" => Measured(Tree(origin').artifact)
          /\ tool'.outcome = "local" => Measured(Tree(local').artifact)]_vars
================================================================================
