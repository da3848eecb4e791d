------------------------------- MODULE Totals -------------------------------
(***************************************************************************)
(* Adding up: sum(w[k] for k in S) for a finite set of keys, whatever the  *)
(* order Python's dict yields them in.                                     *)
(***************************************************************************)
EXTENDS Integers, FiniteSets, FiniteSetsExt

Total(w, S) == MapThenSumSet(LAMBDA k : w[k], S)
=============================================================================
