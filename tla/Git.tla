---------------------------------- MODULE Git ----------------------------------
(***************************************************************************)
(* What the workstation's tools rely on git for, from the way              *)
(* tools/generate_benchmarks.py calls it.  A branch is a sequence of       *)
(* commits; a commit is the function from the files it writes to what it   *)
(* leaves in them.  Two changes of one file that differ conflict.          *)
(***************************************************************************)
EXTENDS Naturals, Sequences, SequencesExt

(* The repository's source, and BENCHMARKS.md.                             *)
Files == {"code", "artifact"}
(* The commit every branch starts from.                                    *)
Root == [code |-> <<"main", 0>>, artifact |-> <<"main", 0>>]

(* The tree after the first k commits: every file as it was left last.     *)
TreeAt(branch, k) ==
  [f \in Files |->
     LET writing == {i \in 1..k : f \in DOMAIN branch[i]}
     IN IF writing = {} THEN Root[f] ELSE branch[Max(writing)][f]]
Tree(branch) == TreeAt(branch, Len(branch))

(* How many commits a and b begin with in common.                          *)
Shared(a, b) == CHOOSE n \in 0..Len(a) :
  /\ n <= Len(b) /\ \A i \in 1..n : a[i] = b[i]
  /\ n < Len(a) /\ n < Len(b) => a[n + 1] # b[n + 1]

(* How many commits a has and b lacks; none when b is not known.           *)
Beyond(a, b) == IF b = <<>> THEN 0 ELSE Len(a) - Shared(a, b)

(* git rebase: the commits of mine that theirs lacks are replayed on       *)
(* theirs, up to the first that conflicts; one that changes nothing any    *)
(* more is dropped.                                                        *)
Replay(state, mine, k) ==
  LET base == TreeAt(mine, k - 1)
      wanted == TreeAt(mine, k)
      there == Tree(state.branch)
      changes == {f \in Files : wanted[f] # base[f] /\ wanted[f] # there[f]}
  IN IF state.conflict \/ changes = {} THEN state
     ELSE IF \E f \in changes : there[f] # base[f] THEN [state EXCEPT !.conflict = TRUE]
     ELSE [state EXCEPT !.branch = Append(@, [f \in changes |-> wanted[f]])]
Replayed(mine, theirs) ==
  LET after[k \in Shared(mine, theirs)..Len(mine)] ==
        IF k = Shared(mine, theirs) THEN [branch |-> theirs, conflict |-> FALSE]
        ELSE Replay(after[k - 1], mine, k)
  IN after[Len(mine)]
================================================================================
