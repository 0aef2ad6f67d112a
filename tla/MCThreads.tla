----------------------------- MODULE MCThreads -----------------------------
(***************************************************************************)
(* Any program on a few threads and thread objects.                        *)
(***************************************************************************)
EXTENDS Threads, TLC

\* Handles are alike, and so are the clones.
Symmetry == Permutations(Tids) \cup Permutations(Objs \ {Proto})
=============================================================================
