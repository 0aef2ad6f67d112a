-------------------------------- MODULE KVec --------------------------------
(***************************************************************************)
(* The vectors of kvec.h: n elements in a block of m cells.  A cell that   *)
(* was never written holds NULL: the allocator clears its blocks.          *)
(***************************************************************************)
EXTENDS Integers, Sequences

CONSTANT NULL

KvInit == [n |-> 0, m |-> 0, a |-> <<>>]

\* What a program sees of a vector.
Contents(v) == SubSeq(v.a, 1, v.n)

KvA(v, i) == v.a[i + 1]
KvTop(v) == KvA(v, v.n - 1)

\* sk_realloc: the cells of the old block, and cleared ones up to m.
KvResize(v, m) == [n |-> v.n, m |-> m, a |-> v.a \o [i \in 1..m - v.m |-> NULL]]

KvRoom(v) == IF v.n = v.m THEN KvResize(v, IF v.m = 0 THEN 2 ELSE 2 * v.m) ELSE v

\* A write to a cell of a block.
KvWrite(v, i, x) == [v EXCEPT !.a = [@ EXCEPT ![i + 1] = x]]

KvPush(v, x) ==
  LET w == KvRoom(v) IN [KvWrite(w, w.n, x) EXCEPT !.n = @ + 1]

\* kv_pop(v) = x: the element goes, its cell is overwritten.
KvPop(v, x) == KvWrite([v EXCEPT !.n = @ - 1], v.n - 1, x)

\* Mutant: the block is sized for the elements and the count is not set.
KvCopyNoCount(v) == [n |-> 0, m |-> v.m, a |-> v.a]

KvCopy(v) == [n |-> v.n, m |-> v.m, a |-> v.a]
=============================================================================
