----------------------------- MODULE MCAdmission -----------------------------
(* Two unequal nodes under a ceiling below their sum, two unequal devices,  *)
(* paths at and around every limit, up to three allocations.                *)
EXTENDS Admission, TLC

MCNodes == <<[index |-> 0, cores |-> {0, 2}, ram |-> 10], [index |-> 1, cores |-> {1}, ram |-> 20]>>
MCGpus == <<[index |-> 0, vram |-> 4, node |-> 0], [index |-> 1, vram |-> 6, node |-> NoIndex]>>
MCPath(placement, cores, ram, vram) ==
  [placement |-> placement, cores |-> cores, ram |-> ram, vram |-> vram]
MCSymmetry == Permutations(Slots)
MCPathSet ==
  {MCPath("cpu_pinned", c, r, 0) : c \in 1..3, r \in {0, 8, 9, 17, 18, 19}}
    \cup {MCPath("cpu_unpinned", c, r, 0) : c \in {1, 3, 4}, r \in {8, 23, 24}}
    \cup {MCPath("gpu", c, r, v) : c \in {1, 3, 4}, r \in {8, 23}, v \in {3, 6, 7}}
==============================================================================
