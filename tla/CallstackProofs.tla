--------------------------- MODULE CallstackProofs ---------------------------
(***************************************************************************)
(* The callstack in memory implements the stack that is a value, for any   *)
(* objects and however deep calls, tries and loops are nested.             *)
(***************************************************************************)
EXTENDS Callstack, SequenceTheorems, TLAPS

-----------------------------------------------------------------------------
(***************************************************************************)
(* What the macros of kvec.h do to the elements of a vector.               *)
(***************************************************************************)
Vectors(S) == {v \in [n : Nat, m : Nat, a : Seq(S)] : v.n <= v.m /\ Len(v.a) = v.m}

(* A new vector has no element.                                            *)
LEMMA KvInitFacts ==
  ASSUME NEW S
  PROVE  KvInit \in Vectors(S) /\ Contents(KvInit) = <<>>
BY EmptySeq, SubSeqEmpty DEF KvInit, Vectors, Contents

(* The elements are the first n cells.                                     *)
LEMMA ContentsFacts ==
  ASSUME NEW S, NEW v \in Vectors(S)
  PROVE  /\ Contents(v) \in Seq(S)
         /\ Len(Contents(v)) = v.n
         /\ \A i \in 1..v.n : Contents(v)[i] = v.a[i]
<1>1. v.n \in Nat /\ v.a \in Seq(S) /\ v.n <= Len(v.a)
  BY DEF Vectors
<1>2. \A i \in 1..v.n : v.a[i] \in S
  BY <1>1, ElementOfSeq
<1> QED
  BY <1>1, <1>2, SubSeqProperties DEF Contents

(* Vectors whose first cells agree have the same elements.                 *)
LEMMA SameContents ==
  ASSUME NEW S, NEW v \in Vectors(S), NEW w \in Vectors(S),
         w.n = v.n, \A i \in 1..v.n : w.a[i] = v.a[i]
  PROVE  Contents(w) = Contents(v)
BY ContentsFacts, SeqEqual

(* A larger block has the same elements.                                   *)
LEMMA KvResizeFacts ==
  ASSUME NEW S, NULL \in S, NEW v \in Vectors(S), NEW m \in Nat, m >= v.m
  PROVE  LET w == KvResize(v, m) IN
         /\ w \in Vectors(S)
         /\ w.n = v.n
         /\ w.m = m
         /\ Contents(w) = Contents(v)
<1> DEFINE w == KvResize(v, m)
           more == [i \in 1..m - v.m |-> NULL]
<1>1. v.m \in Nat /\ v.n \in Nat /\ v.n <= v.m /\ v.a \in Seq(S) /\ Len(v.a) = v.m
  BY DEF Vectors
<1>2. more \in Seq(S) /\ Len(more) = m - v.m
  BY <1>1
<1>0. v \in [n : Nat, m : Nat, a : Seq(S)]
  BY DEF Vectors
<1>3. w.a = v.a \o more /\ w.n = v.n /\ w.m = m
  BY <1>0 DEF KvResize
<1>4. /\ w.a \in Seq(S)
      /\ Len(w.a) = m
      /\ \A i \in 1..v.m : w.a[i] = v.a[i]
  BY <1>1, <1>2, <1>3, ConcatProperties
<1>5. w = [n |-> v.n, m |-> m, a |-> w.a]
  BY <1>0, <1>3 DEF KvResize
<1>6. w \in Vectors(S)
  BY <1>1, <1>4, <1>5 DEF Vectors
<1> QED
  BY <1>1, <1>3, <1>4, <1>6, SameContents

(* A write to a cell of the block changes that cell, and no other.         *)
LEMMA KvWriteFacts ==
  ASSUME NEW S, NEW v \in Vectors(S), NEW i \in 0..v.m - 1, NEW x \in S
  PROVE  LET w == KvWrite(v, i, x) IN
         /\ w \in Vectors(S)
         /\ w.n = v.n
         /\ w.m = v.m
         /\ w.a[i + 1] = x
         /\ \A j \in 1..v.m : j # i + 1 => w.a[j] = v.a[j]
<1> DEFINE w == KvWrite(v, i, x)
<1>1. v.m \in Nat /\ v.n \in Nat /\ v.n <= v.m /\ v.a \in Seq(S) /\ Len(v.a) = v.m
  BY DEF Vectors
<1>0. v \in [n : Nat, m : Nat, a : Seq(S)]
  BY DEF Vectors
<1>2. w.a = [v.a EXCEPT ![i + 1] = x] /\ w.n = v.n /\ w.m = v.m
  BY <1>0 DEF KvWrite
<1>3. /\ w.a \in Seq(S)
      /\ Len(w.a) = v.m
      /\ \A j \in 1..v.m : w.a[j] = IF j = i + 1 THEN x ELSE v.a[j]
  BY <1>1, <1>2, ExceptSeq
<1>4. w = [n |-> v.n, m |-> v.m, a |-> w.a]
  BY <1>0, <1>2 DEF KvWrite
<1> QED
  BY <1>1, <1>2, <1>3, <1>4 DEF Vectors

(* A write past the elements does not show.                                *)
LEMMA KvWriteBeyond ==
  ASSUME NEW S, NEW v \in Vectors(S), NEW i \in v.n..v.m - 1, NEW x \in S
  PROVE  Contents(KvWrite(v, i, x)) = Contents(v)
<1>1. v.m \in Nat /\ v.n \in Nat /\ v.n <= v.m
  BY DEF Vectors
<1>2. i \in 0..v.m - 1 /\ \A j \in 1..v.n : j \in 1..v.m /\ j # i + 1
  BY <1>1
<1> QED
  BY <1>1, <1>2, KvWriteFacts, SameContents

(* Counting one cell more adds its item.                                   *)
LEMMA CountFacts ==
  ASSUME NEW S, NEW v \in Vectors(S), v.n < v.m
  PROVE  LET w == [v EXCEPT !.n = v.n + 1] IN
         /\ w \in Vectors(S)
         /\ w.n = v.n + 1
         /\ w.m = v.m
         /\ w.a = v.a
         /\ Contents(w) = Append(Contents(v), v.a[v.n + 1])
<1> DEFINE w == [v EXCEPT !.n = v.n + 1]
<1>1. v.m \in Nat /\ v.n \in Nat /\ v.n <= v.m /\ v.a \in Seq(S) /\ Len(v.a) = v.m
  BY DEF Vectors
<1>0. v \in [n : Nat, m : Nat, a : Seq(S)]
  BY DEF Vectors
<1>2. w \in Vectors(S) /\ w.n = v.n + 1 /\ w.m = v.m /\ w.a = v.a
  BY <1>0, <1>1 DEF Vectors
<1>3. v.a[v.n + 1] \in S
  BY <1>1, ElementOfSeq
<1>4. Contents(v) \in Seq(S) /\ Len(Contents(v)) = v.n /\ \A j \in 1..v.n : Contents(v)[j] = v.a[j]
  BY ContentsFacts
<1> DEFINE t == Append(Contents(v), v.a[v.n + 1])
<1>5. /\ t \in Seq(S)
      /\ Len(t) = v.n + 1
      /\ \A j \in 1..v.n + 1 : t[j] = v.a[j]
  BY <1>1, <1>3, <1>4, AppendProperties
<1> HIDE DEF w, t
<1>6. /\ Contents(w) \in Seq(S)
      /\ Len(Contents(w)) = v.n + 1
      /\ \A j \in 1..v.n + 1 : Contents(w)[j] = v.a[j]
  BY <1>2, ContentsFacts
<1>7. Contents(w) = t
  BY <1>5, <1>6, SeqEqual
<1> QED
  BY <1>2, <1>7 DEF w, t

(* kv_push adds its item and moves no element.                             *)
LEMMA KvPushFacts ==
  ASSUME NEW S, NULL \in S, NEW v \in Vectors(S), NEW x \in S
  PROVE  LET w == KvPush(v, x) IN
         /\ w \in Vectors(S)
         /\ w.n = v.n + 1
         /\ \A i \in 1..v.n : w.a[i] = v.a[i]
         /\ w.a[v.n + 1] = x
         /\ Contents(w) = Append(Contents(v), x)
<1> DEFINE r == KvRoom(v)
           y == KvWrite(r, v.n, x)
           w == [y EXCEPT !.n = y.n + 1]
<1>1. v.m \in Nat /\ v.n \in Nat /\ v.n <= v.m /\ v.a \in Seq(S) /\ Len(v.a) = v.m
  BY DEF Vectors
<1>2. /\ r \in Vectors(S) /\ r.n = v.n /\ r.m > v.n /\ Contents(r) = Contents(v)
  <2>1. CASE v.n = v.m
    <3> DEFINE m == IF v.m = 0 THEN 2 ELSE 2 * v.m
    <3>1. m \in Nat /\ m > v.m /\ m >= v.m /\ r = KvResize(v, m)
      BY <1>1, <2>1 DEF KvRoom
    <3> HIDE DEF m
    <3>2. /\ KvResize(v, m) \in Vectors(S) /\ KvResize(v, m).n = v.n
          /\ KvResize(v, m).m = m /\ Contents(KvResize(v, m)) = Contents(v)
      BY <3>1, KvResizeFacts
    <3>3. QED
      BY <1>1, <2>1, <3>1, <3>2
  <2>2. CASE v.n # v.m
    BY <1>1, <2>2 DEF KvRoom
  <2>3. QED
    BY <2>1, <2>2
<1>3. v.n \in 0..r.m - 1 /\ v.n \in r.n..r.m - 1 /\ r.m \in Nat
  BY <1>1, <1>2 DEF Vectors
<1> HIDE DEF r
<1>4. /\ y \in Vectors(S) /\ y.n = v.n /\ y.m = r.m /\ y.a[v.n + 1] = x
      /\ Contents(y) = Contents(v)
  BY <1>2, <1>3, KvWriteFacts, KvWriteBeyond
<1> HIDE DEF y
<1>5. /\ w \in Vectors(S) /\ w.n = v.n + 1 /\ w.a = y.a
      /\ Contents(w) = Append(Contents(v), x)
  BY <1>1, <1>2, <1>4, CountFacts
<1>6. \A i \in 1..v.n : y.a[i] = v.a[i]
  BY <1>4, ContentsFacts
<1>7. KvPush(v, x) = w
  BY <1>2 DEF KvPush, r, y
<1> HIDE DEF w
<1>8. QED
  BY <1>4, <1>5, <1>6, <1>7

(* kv_pop(v) = x drops the last element.                                   *)
LEMMA KvPopFacts ==
  ASSUME NEW S, NEW v \in Vectors(S), v.n > 0, NEW x \in S
  PROVE  LET w == KvPop(v, x) IN
         /\ w \in Vectors(S)
         /\ w.n = v.n - 1
         /\ \A i \in 1..v.n - 1 : w.a[i] = v.a[i]
         /\ Contents(w) = SubSeq(Contents(v), 1, v.n - 1)
<1> DEFINE u == [v EXCEPT !.n = v.n - 1]
           w == KvWrite(u, v.n - 1, x)
           t == SubSeq(Contents(v), 1, v.n - 1)
<1>0. v \in [n : Nat, m : Nat, a : Seq(S)]
  BY DEF Vectors
<1>1. v.m \in Nat /\ v.n \in Nat /\ v.n <= v.m /\ v.a \in Seq(S) /\ Len(v.a) = v.m
  BY DEF Vectors
<1>2. u \in Vectors(S) /\ u.n = v.n - 1 /\ u.m = v.m /\ u.a = v.a
  BY <1>0, <1>1 DEF Vectors
<1> HIDE DEF u
<1>3. v.n - 1 \in 0..u.m - 1
  BY <1>1, <1>2
<1>4. /\ w \in Vectors(S) /\ w.n = v.n - 1
      /\ \A i \in 1..v.n - 1 : w.a[i] = v.a[i]
  <2>1. /\ w \in Vectors(S) /\ w.n = u.n
        /\ \A j \in 1..u.m : j # (v.n - 1) + 1 => w.a[j] = u.a[j]
    BY <1>2, <1>3, KvWriteFacts
  <2>2. \A i \in 1..v.n - 1 : i \in 1..u.m /\ i # (v.n - 1) + 1
    BY <1>1, <1>2
  <2>3. QED
    BY <1>2, <2>1, <2>2
<1>5. /\ Contents(v) \in Seq(S) /\ Len(Contents(v)) = v.n
      /\ \A i \in 1..v.n : Contents(v)[i] = v.a[i]
  BY ContentsFacts
<1>6. \A i \in 1..v.n - 1 : Contents(v)[i] \in S
  BY <1>1, <1>5, ElementOfSeq
<1>7. /\ t \in Seq(S) /\ Len(t) = v.n - 1
      /\ \A i \in 1..v.n - 1 : t[i] = v.a[i]
  BY <1>1, <1>5, <1>6, SubSeqProperties
<1>8. KvPop(v, x) = w
  BY DEF KvPop, u
<1> HIDE DEF w, t
<1>9. /\ Contents(w) \in Seq(S) /\ Len(Contents(w)) = v.n - 1
      /\ \A i \in 1..v.n - 1 : Contents(w)[i] = v.a[i]
  BY <1>4, ContentsFacts
<1>10. Contents(w) = t
  BY <1>1, <1>7, <1>9, SeqEqual
<1>11. QED
  BY <1>4, <1>8, <1>10 DEF t

(* kv_copy gives equal vectors.                                            *)
LEMMA KvCopyFacts ==
  ASSUME NEW S, NEW v \in Vectors(S)
  PROVE  KvCopy(v) = v
BY DEF KvCopy, Vectors

Cells == Objects \cup {NULL}
Frames == [kind : {"run", "loop", "try"}, at : Addrs, i : Int]
Heaps == [Addrs -> Vectors(Cells)]
Depths == [Nat -> Nat]

(* No element of the vector is the NULL that a pop leaves behind.          *)
Full(v) == \A i \in 1..v.n : v.a[i] \in Objects

(* Of a heap h, the vector cur in use and the C calls fs.  d[k] is a depth *)
(* below which the calls after the k-th leave the vector alone that was in *)
(* use at the k-th: those that run above it own what they pushed, and a    *)
(* jump can only leave more of it.                                         *)
GoodFrame(h, cur, fs, d, k) ==
  /\ \A j \in 0..k - 1 : d[j] <= d[k]
  /\ fs[k].kind = "run" => \A j \in 0..k - 1 : d[j] < d[k]
  /\ fs[k].kind # "run" => Full(h[fs[k].at])
  /\ fs[k].kind = "loop" => /\ fs[k].i >= -1
                            /\ fs[k].i + 1 <= d[k]
                            /\ fs[k].i + 1 <= h[fs[k].at].n
  /\ fs[k].kind = "try" => /\ d[k] <= h[fs[k].at].n
                           /\ fs[k].at # cur
                           /\ \A j \in 1..Len(fs) : j # k /\ fs[j].kind # "run" => fs[j].at # fs[k].at

Good(h, cur, fs, d) ==
  /\ h \in Heaps /\ cur \in Addrs /\ fs \in Seq(Frames)
  /\ Full(h[cur])
  /\ d \in Depths /\ d[0] >= 1 /\ d[Len(fs)] <= h[cur].n
  /\ \A k \in 1..Len(fs) : GoodFrame(h, cur, fs, d, k)

CSInv == \E d : Good(heap, current, frames, d)

-----------------------------------------------------------------------------
(* Good is kept by the changes that the steps are made of.                 *)
LEMMA CutFacts ==
  ASSUME NEW S, NEW fs \in Seq(S), NEW m \in 0..Len(fs)
  PROVE  LET gs == SubSeq(fs, 1, m) IN
         /\ gs \in Seq(S) /\ Len(gs) = m
         /\ \A k \in 1..m : gs[k] = fs[k]
<1>1. Len(fs) \in Nat /\ \A i \in 1..m : fs[i] \in S
  BY LenProperties, ElementOfSeq
<1>2. QED
  BY <1>1, SubSeqProperties

LEMMA GoodFacts ==
  ASSUME NEW h, NEW cur, NEW fs, NEW d, Good(h, cur, fs, d)
  PROVE  /\ Len(fs) \in Nat
         /\ h[cur] \in Vectors(Cells) /\ h[cur].n \in Nat
         /\ d[Len(fs)] \in Nat
         /\ \A k \in 0..Len(fs) : d[k] \in Nat /\ d[k] <= d[Len(fs)] /\ d[k] >= 1
         /\ h[cur].n >= 1
         /\ \A k \in 1..Len(fs) : fs[k] \in Frames /\ h[fs[k].at] \in Vectors(Cells)
                                                   /\ h[fs[k].at].n \in Nat
<1>1. Len(fs) \in Nat /\ \A k \in 1..Len(fs) : fs[k] \in Frames
  BY LenProperties, ElementOfSeq DEF Good
<1>2. h[cur] \in Vectors(Cells) /\ h[cur].n \in Nat
  BY DEF Good, Heaps, Vectors
<1>3. \A k \in 0..Len(fs) : d[k] \in Nat
  BY <1>1 DEF Good, Depths
<1>4. \A k \in 0..Len(fs) : d[k] <= d[Len(fs)] /\ d[0] <= d[k]
  <2>1. \A k \in 1..Len(fs) : \A j \in 0..k - 1 : d[j] <= d[k]
    BY DEF Good, GoodFrame
  <2>2. QED
    BY <1>1, <1>3, <2>1
<1>5. \A k \in 1..Len(fs) : h[fs[k].at] \in Vectors(Cells) /\ h[fs[k].at].n \in Nat
  BY <1>1 DEF Good, Heaps, Frames, Vectors
<1>6. 0 \in 0..Len(fs) /\ Len(fs) \in 0..Len(fs)
  BY <1>1
<1>7. d[0] >= 1 /\ d[0] \in Nat /\ d[Len(fs)] \in Nat /\ d[Len(fs)] <= h[cur].n
  BY <1>3, <1>6 DEF Good
<1>8. h[cur].n >= 1 /\ \A k \in 0..Len(fs) : d[k] >= 1
  BY <1>2, <1>3, <1>4, <1>6, <1>7
<1>9. QED
  BY <1>1, <1>2, <1>3, <1>4, <1>5, <1>7, <1>8

(* The vector gets other contents above d.                                 *)
LEMMA WriteGood ==
  ASSUME NEW h, NEW cur, NEW fs, NEW d, Good(h, cur, fs, d),
         NEW v \in Vectors(Cells), Full(v), d[Len(fs)] <= v.n
  PROVE  Good([h EXCEPT ![cur] = v], cur, fs, d)
<1> DEFINE g == [h EXCEPT ![cur] = v]
<1>1. /\ g \in Heaps /\ g[cur] = v
      /\ \A p \in Addrs : p # cur => g[p] = h[p]
  BY DEF Good, Heaps
<1>2. v.n \in Nat
  BY DEF Vectors
<1>3. ASSUME NEW k \in 1..Len(fs) PROVE GoodFrame(g, cur, fs, d, k)
  <2>1. GoodFrame(h, cur, fs, d, k) /\ fs[k].at \in Addrs
    BY <1>3, GoodFacts DEF Good, Frames
  <2>2. d[k] \in Nat /\ d[k] <= v.n /\ fs[k].i \in Int
    BY <1>2, <1>3, GoodFacts DEF Frames
  <2>3. CASE fs[k].at = cur
    BY <1>1, <1>2, <2>1, <2>2, <2>3 DEF GoodFrame
  <2>4. CASE fs[k].at # cur
    BY <1>1, <2>1, <2>4 DEF GoodFrame
  <2>5. QED
    BY <2>3, <2>4
<1> HIDE DEF g
<1>4. QED
  BY <1>1, <1>3 DEF Good, g

(* A vector that nobody uses gets other contents.                          *)
LEMMA FreshGood ==
  ASSUME NEW h, NEW cur, NEW fs, NEW d, Good(h, cur, fs, d),
         NEW p \in Addrs, p \notin Used(cur, fs), NEW v \in Vectors(Cells)
  PROVE  /\ Good([h EXCEPT ![p] = v], cur, fs, d)
         /\ p # cur
         /\ \A k \in 1..Len(fs) : fs[k].kind # "run" => fs[k].at # p
<1> DEFINE g == [h EXCEPT ![p] = v]
<1>0. DOMAIN fs = 1..Len(fs)
  BY LenProperties DEF Good
<1>1. p # cur /\ \A k \in 1..Len(fs) : fs[k].kind # "run" => fs[k].at # p
  BY <1>0 DEF Used
<1>2. g \in Heaps /\ g[cur] = h[cur]
  BY <1>1 DEF Good, Heaps
<1>3. ASSUME NEW k \in 1..Len(fs) PROVE GoodFrame(g, cur, fs, d, k)
  <2>1. GoodFrame(h, cur, fs, d, k) /\ fs[k].at \in Addrs
    BY <1>3, GoodFacts DEF Good, Frames
  <2>2. fs[k].kind # "run" => g[fs[k].at] = h[fs[k].at]
    BY <1>1, <2>1 DEF Good, Heaps
  <2>3. QED
    BY <2>1, <2>2 DEF GoodFrame
<1> HIDE DEF g
<1>4. QED
  BY <1>1, <1>2, <1>3 DEF Good, g

(* Calls return.                                                           *)
LEMMA CutGood ==
  ASSUME NEW h, NEW cur, NEW fs, NEW d, Good(h, cur, fs, d), NEW m \in 0..Len(fs)
  PROVE  Good(h, cur, SubSeq(fs, 1, m), d)
<1> DEFINE gs == SubSeq(fs, 1, m)
<1>1. gs \in Seq(Frames) /\ Len(gs) = m /\ \A k \in 1..m : gs[k] = fs[k]
  BY CutFacts DEF Good
<1> HIDE DEF gs
<1>2. Len(fs) \in Nat /\ d[m] <= d[Len(fs)] /\ d[m] \in Nat /\ d[Len(fs)] \in Nat /\ h[cur].n \in Nat
  BY GoodFacts
<1>3. ASSUME NEW k \in 1..m PROVE GoodFrame(h, cur, gs, d, k)
  <2>1. GoodFrame(h, cur, fs, d, k)
    BY <1>2, <1>3 DEF Good
  <2>2. \A j \in 1..m : j \in 1..Len(fs)
    BY <1>2
  <2>3. QED
    BY <1>1, <2>1, <2>2 DEF GoodFrame
<1>4. d[m] <= h[cur].n
  BY <1>2 DEF Good
<1>5. QED
  BY <1>1, <1>3, <1>4 DEF Good, gs

(* A try gives its copy back: the calls before it go on with that vector.  *)
LEMMA SwapGood ==
  ASSUME NEW h, NEW cur, NEW fs, NEW d, Good(h, cur, fs, d),
         NEW m \in 0..Len(fs) - 1, NEW t \in m + 1..Len(fs), fs[t].kind = "try"
  PROVE  Good(h, fs[t].at, SubSeq(fs, 1, m), d)
<1> DEFINE gs == SubSeq(fs, 1, m)
<1>0. Len(fs) \in Nat /\ m \in 0..Len(fs) /\ t \in 1..Len(fs) /\ m \in 0..t - 1
  BY GoodFacts
<1>1. gs \in Seq(Frames) /\ Len(gs) = m /\ \A k \in 1..m : gs[k] = fs[k]
  BY <1>0, CutFacts DEF Good
<1> HIDE DEF gs
<1>2. /\ fs[t].at \in Addrs /\ Full(h[fs[t].at]) /\ d[t] <= h[fs[t].at].n
      /\ d[m] <= d[t] /\ d[m] \in Nat /\ d[t] \in Nat /\ h[fs[t].at].n \in Nat
      /\ \A j \in 1..Len(fs) : j # t /\ fs[j].kind # "run" => fs[j].at # fs[t].at
  <2>1. GoodFrame(h, cur, fs, d, t)
    BY <1>0 DEF Good
  <2>2. fs[t] \in Frames /\ h[fs[t].at].n \in Nat /\ d[m] \in Nat /\ d[t] \in Nat
    BY <1>0, GoodFacts
  <2>3. QED
    BY <1>0, <2>1, <2>2 DEF GoodFrame, Frames
<1>3. ASSUME NEW k \in 1..m PROVE GoodFrame(h, fs[t].at, gs, d, k)
  <2>0. k \in 1..Len(fs) /\ k # t
    BY <1>0, <1>3
  <2>1. GoodFrame(h, cur, fs, d, k) /\ k \in 1..Len(fs) /\ k # t
    BY <2>0 DEF Good
  <2>2. \A j \in 1..m : j \in 1..Len(fs)
    BY <1>0
  <2>3. fs[k].kind # "run" => fs[k].at # fs[t].at
    BY <1>2, <2>1
  <2>4. QED
    BY <1>1, <2>1, <2>2, <2>3 DEF GoodFrame
<1>4. d[m] <= h[fs[t].at].n
  BY <1>2
<1>5. Good(h, fs[t].at, gs, d)
  BY <1>1, <1>2, <1>3, <1>4 DEF Good
<1>6. QED
  BY <1>5 DEF gs

(* A call begins: f may follow the calls fs, with depth n.                 *)
MayFollow(h, cur, fs, d, f, n) ==
  /\ f \in Frames /\ n \in Nat
  /\ d[Len(fs)] <= n /\ n <= h[cur].n
  /\ f.kind = "run" => d[Len(fs)] < n
  /\ f.kind # "run" => Full(h[f.at])
  /\ f.kind = "loop" => /\ f.i >= -1 /\ f.i + 1 <= n /\ f.i + 1 <= h[f.at].n
                        /\ \A j \in 1..Len(fs) : fs[j].kind = "try" => fs[j].at # f.at
  /\ f.kind = "try" => /\ n <= h[f.at].n /\ f.at # cur
                       /\ \A j \in 1..Len(fs) : fs[j].kind # "run" => fs[j].at # f.at

Extends(gs, fs, f) ==
  /\ gs \in Seq(Frames) /\ Len(gs) = Len(fs) + 1
  /\ \A k \in 1..Len(fs) : gs[k] = fs[k]
  /\ gs[Len(fs) + 1] = f

LEMMA ExtendGood ==
  ASSUME NEW h, NEW cur, NEW fs, NEW d, Good(h, cur, fs, d),
         NEW f, NEW n, MayFollow(h, cur, fs, d, f, n),
         NEW l \in Nat, l = Len(fs),
         NEW gs, Extends(gs, fs, f)
  PROVE  \E e : Good(h, cur, gs, e)
<1>1. f \in Frames /\ n \in Nat
  BY DEF MayFollow
<1>2. PICK e : /\ e \in Depths
               /\ e[l + 1] = n
               /\ \A k \in 0..l : e[k] = d[k]
  <2>1. d \in Depths
    BY DEF Good
  <2>2. [d EXCEPT ![l + 1] = n] \in Depths
    BY <1>1, <2>1 DEF Depths
  <2>3. /\ [d EXCEPT ![l + 1] = n][l + 1] = n
        /\ \A k \in 0..l : [d EXCEPT ![l + 1] = n][k] = d[k]
    BY <1>1, <2>1 DEF Depths
  <2>4. QED
    BY <1>1, <2>2, <2>3
<1>3. \A k \in 0..l : d[k] \in Nat /\ d[k] <= d[l]
  BY GoodFacts
<1>4. d[l] <= n /\ (f.kind = "run" => d[l] < n) /\ d[l] \in Nat
  BY <1>3 DEF MayFollow
<1>5. ASSUME NEW k \in 1..l PROVE GoodFrame(h, cur, gs, e, k)
  <2>1. GoodFrame(h, cur, fs, d, k)
    BY <1>5 DEF Good
  <2>2. gs[k] = fs[k] /\ e[k] = d[k] /\ \A j \in 0..k - 1 : e[j] = d[j]
    BY <1>2, <1>5 DEF Extends
  <2>3. ASSUME fs[k].kind = "try", NEW j \in 1..l + 1, j # k, gs[j].kind # "run"
        PROVE  gs[j].at # fs[k].at
    <3>1. CASE j \in 1..l
      BY <2>1, <2>3, <3>1 DEF GoodFrame, Extends
    <3>2. CASE j = l + 1
      <4>1. f.kind \in {"loop", "try"}
        BY <1>1, <2>3, <3>2 DEF Frames, Extends
      <4>2. QED
        BY <1>5, <2>3, <3>2, <4>1 DEF MayFollow, Extends
    <3>3. QED
      BY <2>3, <3>1, <3>2
  <2>4. QED
    BY <2>1, <2>2, <2>3 DEF GoodFrame, Extends
<1>6. GoodFrame(h, cur, gs, e, l + 1)
  <2>1. \A j \in 0..l : e[j] <= n /\ (f.kind = "run" => e[j] < n)
    BY <1>1, <1>2, <1>3, <1>4
  <2>2. f.kind = "try" => \A j \in 1..l + 1 : j # l + 1 /\ gs[j].kind # "run" => gs[j].at # f.at
    BY DEF MayFollow, Extends
  <2>3. /\ (f.kind # "run" => Full(h[f.at]))
        /\ (f.kind = "loop" => f.i >= -1 /\ f.i + 1 <= n /\ f.i + 1 <= h[f.at].n)
        /\ (f.kind = "try" => n <= h[f.at].n /\ f.at # cur)
    BY DEF MayFollow
  <2>4. QED
    BY <1>2, <2>1, <2>2, <2>3 DEF GoodFrame, Extends
<1>7. \A k \in 1..l + 1 : GoodFrame(h, cur, gs, e, k)
  BY <1>5, <1>6
<1>8. e[0] >= 1
  BY <1>2 DEF Good
<1>9. Good(h, cur, gs, e)
  <2>1. /\ h \in Heaps /\ cur \in Addrs /\ Full(h[cur]) /\ n <= h[cur].n
    BY DEF Good, MayFollow
  <2>2. gs \in Seq(Frames) /\ Len(gs) = l + 1
    BY DEF Extends
  <2>3. QED
    BY <1>2, <1>7, <1>8, <2>1, <2>2 DEF Good
<1>10. QED
  BY <1>9

LEMMA AppendGood ==
  ASSUME NEW h, NEW cur, NEW fs, NEW d, Good(h, cur, fs, d),
         NEW f, NEW n, MayFollow(h, cur, fs, d, f, n)
  PROVE  \E e : Good(h, cur, Append(fs, f), e)
<1>1. fs \in Seq(Frames) /\ f \in Frames /\ Len(fs) \in Nat
  BY GoodFacts DEF Good, MayFollow
<1>2. /\ Append(fs, f) \in Seq(Frames) /\ Len(Append(fs, f)) = Len(fs) + 1
      /\ \A k \in 1..Len(fs) : Append(fs, f)[k] = fs[k]
      /\ Append(fs, f)[Len(fs) + 1] = f
  BY <1>1, AppendProperties
<1>3. QED
  BY <1>1, <1>2, ExtendGood DEF Extends

-----------------------------------------------------------------------------
(* The invariant.                                                          *)

(* The step keeps what somebody can still reach.                           *)
LEMMA StepGood ==
  ASSUME NEW h, NEW cur, NEW fs, NEW d, Good(h, cur, fs, d), Step(h, cur, fs)
  PROVE  /\ Good(heap', current', frames', d)
         /\ current' = cur /\ frames' = fs
         /\ heap'[cur] = h[cur]
         /\ \A k \in 1..Len(fs) : fs[k].kind # "run" => heap'[fs[k].at] = h[fs[k].at]
<1>1. current' = cur /\ frames' = fs /\ heap' = Collect(h, cur, fs)
  BY DEF Step
<1>2. /\ KvInit \in Vectors(Cells) /\ h \in Heaps /\ cur \in Addrs
      /\ DOMAIN fs = 1..Len(fs)
      /\ \A k \in 1..Len(fs) : fs[k].at \in Addrs
  BY KvInitFacts, GoodFacts, LenProperties DEF Good, Frames
<1>3. heap' \in Heaps /\ \A p \in Used(cur, fs) : p \in Addrs => heap'[p] = h[p]
  BY <1>1, <1>2 DEF Collect, Heaps
<1>4. cur \in Used(cur, fs) /\ \A k \in 1..Len(fs) : fs[k].kind # "run" => fs[k].at \in Used(cur, fs)
  BY <1>2 DEF Used
<1>5. /\ heap'[cur] = h[cur]
      /\ \A k \in 1..Len(fs) : fs[k].kind # "run" => heap'[fs[k].at] = h[fs[k].at]
  BY <1>2, <1>3, <1>4
<1>6. ASSUME NEW k \in 1..Len(fs) PROVE GoodFrame(heap', cur, fs, d, k)
  <2>1. GoodFrame(h, cur, fs, d, k)
    BY DEF Good
  <2>2. QED
    BY <1>5, <2>1 DEF GoodFrame
<1>7. Good(heap', cur, fs, d)
  BY <1>3, <1>5, <1>6 DEF Good
<1>8. QED
  BY <1>1, <1>5, <1>7

LEMMA InitCSInv == Init => CSInv
<1> SUFFICES ASSUME Init PROVE CSInv
  OBVIOUS
<1> DEFINE d == [k \in Nat |-> 1]
<1>1. PICK p \in Addrs : /\ current = p /\ frames = <<>>
                         /\ heap = [q \in Addrs |-> IF q = p THEN KvPush(KvInit, Lobby) ELSE KvInit]
  BY SomeAddr DEF Init
<1>2. NULL \in Cells /\ Lobby \in Cells /\ KvInit \in Vectors(Cells) /\ KvInit.n = 0
  BY NullIsNoObject, KvInitFacts DEF Cells, KvInit
<1> DEFINE v == KvPush(KvInit, Lobby)
<1>3. v \in Vectors(Cells) /\ v.n = 1 /\ v.a[1] = Lobby
  <2>1. /\ v \in Vectors(Cells) /\ v.n = KvInit.n + 1 /\ v.a[KvInit.n + 1] = Lobby
    BY <1>2, KvPushFacts
  <2>2. QED
    BY <1>2, <2>1
<1>4. Full(v)
  BY <1>3, NullIsNoObject DEF Full
<1> HIDE DEF v
<1>5. heap \in Heaps /\ heap[current] = v
  BY <1>1, <1>2, <1>3 DEF Heaps, v
<1>6. frames \in Seq(Frames) /\ Len(frames) = 0
  BY <1>1, EmptySeq
<1>7. d \in Depths /\ d[0] = 1
  BY DEF Depths
<1> HIDE DEF d
<1>8. Good(heap, current, frames, d)
  BY <1>1, <1>3, <1>4, <1>5, <1>6, <1>7 DEF Good
<1>9. QED
  BY <1>8 DEF CSInv

(* The top call.                                                           *)
LEMMA ActiveFacts ==
  ASSUME NEW h, NEW cur, NEW d, Good(h, cur, frames, d), NEW kind, Is(kind)
  PROVE  LET l == Len(frames) IN
         /\ l \in Nat /\ l \in 1..l /\ l - 1 \in 0..l
         /\ Active = frames[l] /\ Active \in Frames /\ Active.kind = kind
         /\ GoodFrame(h, cur, frames, d, l)
         /\ Caller \in Seq(Frames) /\ Len(Caller) = l - 1
         /\ \A k \in 1..l - 1 : Caller[k] = frames[k]
<1>1. frames \in Seq(Frames) /\ frames # <<>>
  BY DEF Good, Is
<1>2. Len(frames) \in Nat /\ Len(frames) >= 1
  BY <1>1, EmptySeq
<1>3. Len(frames) \in 1..Len(frames) /\ Len(frames) - 1 \in 0..Len(frames)
  BY <1>2
<1>4. /\ Caller \in Seq(Frames) /\ Len(Caller) = Len(frames) - 1
      /\ \A k \in 1..Len(frames) - 1 : Caller[k] = frames[k]
  BY <1>1, <1>3, CutFacts DEF Caller
<1>5. QED
  BY <1>2, <1>3, <1>4, GoodFacts DEF Good, Active, Is

-----------------------------------------------------------------------------
(* What the calls see.                                                     *)
Views == [kind : {"run", "loop", "try"}, seen : Seq(Cells)]

LEMMA PrefixSame ==
  ASSUME NEW S, NEW a \in Seq(S), NEW b \in Seq(S), NEW n \in Int,
         n <= Len(a), n <= Len(b), \A i \in 1..n : a[i] = b[i]
  PROVE  SubSeq(a, 1, n) = SubSeq(b, 1, n) /\ SubSeq(a, 1, n) \in Seq(S)
<1>1. Len(a) \in Nat /\ Len(b) \in Nat
  BY LenProperties
<1>2. (\A i \in 1..n : a[i] \in S) /\ (\A i \in 1..n : b[i] \in S)
  BY <1>1, ElementOfSeq
<1>3. /\ SubSeq(a, 1, n) \in Seq(S) /\ SubSeq(b, 1, n) \in Seq(S)
      /\ Len(SubSeq(a, 1, n)) = Len(SubSeq(b, 1, n))
      /\ Len(SubSeq(a, 1, n)) = IF 1 <= n THEN n - 1 + 1 ELSE 0
      /\ \A i \in 1..n - 1 + 1 : SubSeq(a, 1, n)[i] = a[1 + i - 1] /\ SubSeq(b, 1, n)[i] = b[1 + i - 1]
  BY <1>2, SubSeqProperties
<1>4. \A i \in 1..Len(SubSeq(a, 1, n)) : i \in 1..n /\ i \in 1..n - 1 + 1 /\ 1 + i - 1 = i
  BY <1>3
<1>5. \A i \in 1..Len(SubSeq(a, 1, n)) : SubSeq(a, 1, n)[i] = SubSeq(b, 1, n)[i]
  BY <1>3, <1>4
<1>6. QED
  BY <1>3, <1>5, SeqEqual

(* A call sees the same in vectors that agree on what it sees.             *)
LEMMA SeenSame ==
  ASSUME NEW h, NEW g, NEW f \in Frames,
         f.kind # "run" => h[f.at] \in Vectors(Cells) /\ g[f.at] \in Vectors(Cells),
         f.kind = "try" => g[f.at] = h[f.at],
         f.kind = "loop" => /\ f.i + 1 <= h[f.at].n /\ f.i + 1 <= g[f.at].n
                            /\ \A i \in 1..f.i + 1 : g[f.at].a[i] = h[f.at].a[i]
  PROVE  Seen(g, f) = Seen(h, f) /\ Seen(h, f) \in Seq(Cells)
<1>1. CASE f.kind = "run"
  BY <1>1, EmptySeq DEF Seen
<1>2. CASE f.kind = "try"
  BY <1>2, ContentsFacts DEF Seen
<1>3. CASE f.kind = "loop"
  <2>1. /\ h[f.at].a \in Seq(Cells) /\ g[f.at].a \in Seq(Cells) /\ f.i + 1 \in Int
        /\ f.i + 1 <= Len(h[f.at].a) /\ f.i + 1 <= Len(g[f.at].a)
    BY <1>3 DEF Vectors, Frames
  <2>2. /\ SubSeq(g[f.at].a, 1, f.i + 1) = SubSeq(h[f.at].a, 1, f.i + 1)
        /\ SubSeq(h[f.at].a, 1, f.i + 1) \in Seq(Cells)
    BY <1>3, <2>1, PrefixSame
  <2>3. QED
    BY <1>3, <2>2 DEF Seen
<1>4. QED
  BY <1>1, <1>2, <1>3 DEF Frames

LEMMA ViewFacts ==
  ASSUME NEW h, NEW cur, NEW fs, NEW d, Good(h, cur, fs, d)
  PROVE  /\ View(h, fs) \in Seq(Views)
         /\ Len(View(h, fs)) = Len(fs)
         /\ \A k \in 1..Len(fs) : /\ View(h, fs)[k] = [kind |-> fs[k].kind, seen |-> Seen(h, fs[k])]
                                  /\ View(h, fs)[k].kind = fs[k].kind
                                  /\ View(h, fs)[k].seen = Seen(h, fs[k])
<1>1. /\ Len(fs) \in Nat /\ DOMAIN fs = 1..Len(fs)
      /\ \A k \in 1..Len(fs) : fs[k] \in Frames /\ h[fs[k].at] \in Vectors(Cells)
  BY GoodFacts, LenProperties DEF Good
<1>2. ASSUME NEW k \in 1..Len(fs)
      PROVE  [kind |-> fs[k].kind, seen |-> Seen(h, fs[k])] \in Views
  <2>1. GoodFrame(h, cur, fs, d, k)
    BY DEF Good
  <2>2. Seen(h, fs[k]) \in Seq(Cells)
    BY <1>1, <1>2, <2>1, SeenSame DEF GoodFrame
  <2>3. QED
    BY <1>1, <1>2, <2>2 DEF Views, Frames
<1>3. View(h, fs) \in [1..Len(fs) -> Views]
  BY <1>1, <1>2 DEF View
<1>4. View(h, fs) \in Seq(Views) /\ Len(View(h, fs)) = Len(fs)
  BY <1>1, <1>3, SeqDef
<1>5. QED
  BY <1>1, <1>4 DEF View

LEMMA CutView ==
  ASSUME NEW h, NEW cur, NEW fs, NEW d, Good(h, cur, fs, d), NEW m \in 0..Len(fs),
         NEW gs, Good(h, cur, gs, d), Len(gs) = m, \A k \in 1..m : gs[k] = fs[k]
  PROVE  View(h, gs) = SubSeq(View(h, fs), 1, m)
<1>1. \A k \in 1..m : k \in 1..Len(fs)
  BY GoodFacts
<1>2. /\ View(h, gs) \in Seq(Views) /\ Len(View(h, gs)) = m
      /\ \A k \in 1..m : View(h, gs)[k] = [kind |-> gs[k].kind, seen |-> Seen(h, gs[k])]
  BY ViewFacts
<1>3. /\ View(h, fs) \in Seq(Views) /\ Len(View(h, fs)) = Len(fs)
      /\ \A k \in 1..Len(fs) : View(h, fs)[k] = [kind |-> fs[k].kind, seen |-> Seen(h, fs[k])]
  BY ViewFacts
<1>4. \A k \in 1..m : View(h, gs)[k] = View(h, fs)[k]
  BY <1>1, <1>2, <1>3
<1>5. PICK w : w = SubSeq(View(h, fs), 1, m)
  OBVIOUS
<1>6. w \in Seq(Views) /\ Len(w) = m /\ \A k \in 1..m : w[k] = View(h, fs)[k]
  BY <1>3, <1>5, CutFacts
<1>7. View(h, gs) = w
  BY <1>2, <1>4, <1>6, SeqEqual
<1>8. QED
  BY <1>5, <1>7

LEMMA ViewCut ==
  ASSUME NEW h, NEW cur, NEW fs, NEW d, Good(h, cur, fs, d), NEW m \in 0..Len(fs)
  PROVE  View(h, SubSeq(fs, 1, m)) = SubSeq(View(h, fs), 1, m)
<1>1. PICK gs : gs = SubSeq(fs, 1, m)
  OBVIOUS
<1>2. fs \in Seq(Frames)
  BY DEF Good
<1>3. Len(gs) = m /\ \A k \in 1..m : gs[k] = fs[k]
  BY <1>1, <1>2, CutFacts
<1>4. Good(h, cur, gs, d)
  BY <1>1, CutGood
<1>5. View(h, gs) = SubSeq(View(h, fs), 1, m)
  BY <1>3, <1>4, CutView
<1>6. QED
  BY <1>1, <1>5

LEMMA ExtendView ==
  ASSUME NEW h, NEW cur, NEW fs, NEW d, Good(h, cur, fs, d), NEW f,
         NEW gs, NEW e, Good(h, cur, gs, e), Extends(gs, fs, f)
  PROVE  View(h, gs) = Append(View(h, fs), [kind |-> f.kind, seen |-> Seen(h, f)])
<1>1. PICK x : x = [kind |-> f.kind, seen |-> Seen(h, f)]
  OBVIOUS
<1>2. PICK l \in Nat : l = Len(fs)
  BY GoodFacts
<1>3. /\ Len(gs) = l + 1 /\ gs[l + 1] = f /\ \A k \in 1..l : gs[k] = fs[k]
  BY <1>2 DEF Extends
<1>4. /\ View(h, gs) \in Seq(Views) /\ Len(View(h, gs)) = l + 1
      /\ \A k \in 1..l + 1 : View(h, gs)[k] = [kind |-> gs[k].kind, seen |-> Seen(h, gs[k])]
  BY <1>3, ViewFacts
<1>5. /\ View(h, fs) \in Seq(Views) /\ Len(View(h, fs)) = l
      /\ \A k \in 1..l : View(h, fs)[k] = [kind |-> fs[k].kind, seen |-> Seen(h, fs[k])]
  BY <1>2, ViewFacts
<1>6. l + 1 \in 1..l + 1 /\ \A k \in 1..l : k \in 1..l + 1
  BY <1>2
<1>7. /\ View(h, gs)[l + 1] = x
      /\ \A k \in 1..l : View(h, gs)[k] = View(h, fs)[k]
  BY <1>1, <1>3, <1>4, <1>5, <1>6
<1>8. x \in Views
  BY <1>4, <1>6, <1>7, ElementOfSeq
<1>9. PICK w : w = Append(View(h, fs), x)
  OBVIOUS
<1>10. /\ w \in Seq(Views) /\ Len(w) = l + 1
       /\ \A k \in 1..l : w[k] = View(h, fs)[k]
       /\ w[l + 1] = x
  BY <1>5, <1>8, <1>9, AppendProperties
<1>11. \A k \in 1..l + 1 : k \in 1..l \/ k = l + 1
  BY <1>2
<1>12. \A k \in 1..l + 1 : View(h, gs)[k] = w[k]
  BY <1>7, <1>10, <1>11
<1>13. View(h, gs) = w
  BY <1>4, <1>10, <1>12, SeqEqual
<1>14. QED
  BY <1>1, <1>9, <1>13

LEMMA ViewAppend ==
  ASSUME NEW h, NEW cur, NEW fs, NEW d, Good(h, cur, fs, d), NEW f \in Frames,
         NEW e, Good(h, cur, Append(fs, f), e)
  PROVE  View(h, Append(fs, f)) = Append(View(h, fs), [kind |-> f.kind, seen |-> Seen(h, f)])
<1>1. fs \in Seq(Frames)
  BY DEF Good
<1>2. Extends(Append(fs, f), fs, f)
  BY <1>1, AppendProperties DEF Extends
<1>3. QED
  BY <1>2, ExtendView

(* A vector in use that changes above d changes nothing that a call sees.  *)
LEMMA WriteSeen ==
  ASSUME NEW h, NEW cur, NEW fs, NEW d, Good(h, cur, fs, d),
         NEW v \in Vectors(Cells), Full(v), d[Len(fs)] <= v.n,
         \A i \in 1..d[Len(fs)] : v.a[i] = h[cur].a[i]
  PROVE  View([h EXCEPT ![cur] = v], fs) = View(h, fs)
<1> DEFINE g == [h EXCEPT ![cur] = v]
<1>1. /\ h \in Heaps /\ g[cur] = v
      /\ \A p \in Addrs : p # cur => g[p] = h[p]
      /\ DOMAIN fs = 1..Len(fs)
  BY LenProperties DEF Good, Heaps
<1>2. v.n \in Nat /\ d[Len(fs)] \in Nat
  BY GoodFacts DEF Vectors
<1> HIDE DEF g
<1>3. ASSUME NEW k \in 1..Len(fs) PROVE Seen(g, fs[k]) = Seen(h, fs[k])
  <2>1. /\ GoodFrame(h, cur, fs, d, k) /\ fs[k] \in Frames /\ fs[k].at \in Addrs /\ fs[k].i \in Int
        /\ h[fs[k].at] \in Vectors(Cells) /\ d[k] \in Nat /\ d[k] <= d[Len(fs)]
    <3>1. GoodFrame(h, cur, fs, d, k)
      BY DEF Good
    <3>2. fs[k] \in Frames /\ h[fs[k].at] \in Vectors(Cells)
      BY GoodFacts
    <3>3. k \in 0..Len(fs)
      BY GoodFacts
    <3>4. d[k] \in Nat /\ d[k] <= d[Len(fs)]
      BY <3>3, GoodFacts
    <3>5. QED
      BY <3>1, <3>2, <3>4 DEF Frames
  <2>2. CASE fs[k].at = cur
    <3>1. fs[k].kind # "try" /\ g[fs[k].at] = v
      BY <1>1, <2>1, <2>2 DEF GoodFrame
    <3>2. fs[k].kind = "loop" => /\ fs[k].i + 1 <= d[Len(fs)] /\ fs[k].i + 1 <= h[fs[k].at].n
                                 /\ fs[k].i + 1 <= v.n
      BY <1>2, <2>1 DEF GoodFrame
    <3>3. fs[k].kind = "loop" => \A i \in 1..fs[k].i + 1 : v.a[i] = h[fs[k].at].a[i]
      BY <1>2, <2>1, <2>2, <3>2
    <3>4. QED
      BY <2>1, <3>1, <3>2, <3>3, SeenSame
  <2>3. CASE fs[k].at # cur
    BY <1>1, <2>1, <2>3, SeenSame DEF GoodFrame
  <2>4. QED
    BY <2>2, <2>3
<1>4. QED
  BY <1>1, <1>3 DEF View, g

(* What the calls see does not depend on a vector that nobody uses, nor on *)
(* the collector.                                                          *)
LEMMA SeenUsed ==
  ASSUME NEW h, NEW cur, NEW fs, NEW d, Good(h, cur, fs, d), NEW g,
         \A k \in 1..Len(fs) : fs[k].kind # "run" => g[fs[k].at] = h[fs[k].at]
  PROVE  View(g, fs) = View(h, fs)
<1>1. DOMAIN fs = 1..Len(fs) /\ \A k \in 1..Len(fs) : fs[k] \in Frames
  BY GoodFacts, LenProperties DEF Good
<1>2. \A k \in 1..Len(fs) : Seen(g, fs[k]) = Seen(h, fs[k])
  BY <1>1 DEF Seen, Frames
<1>3. QED
  BY <1>1, <1>2 DEF View

(* The step from the vectors, the vector in use and the calls that an      *)
(* action leaves.                                                          *)
LEMMA Lands ==
  ASSUME NEW h, NEW cur, NEW fs, NEW d, Good(h, cur, fs, d), Step(h, cur, fs)
  PROVE  /\ CSInv'
         /\ View(heap', frames') = View(h, fs)
         /\ Contents(heap'[current']) = Contents(h[cur])
<1>1. /\ Good(heap', current', frames', d) /\ current' = cur /\ frames' = fs
      /\ heap'[cur] = h[cur]
      /\ \A k \in 1..Len(fs) : fs[k].kind # "run" => heap'[fs[k].at] = h[fs[k].at]
  BY StepGood
<1>2. View(heap', fs) = View(h, fs)
  BY <1>1, SeenUsed
<1>3. QED
  BY <1>1, <1>2 DEF CSInv

-----------------------------------------------------------------------------
(* Each action keeps the invariant and is that action of ContextStack.     *)
Stack == Contents(heap[current])
Calls == View(heap, frames)

LEMMA AbstractFacts ==
  ASSUME NEW d, Good(heap, current, frames, d)
  PROVE  /\ Calls \in Seq(Views) /\ Len(Calls) = Len(frames) /\ Len(frames) \in Nat
         /\ \A k \in 1..Len(frames) : /\ Calls[k] = [kind |-> frames[k].kind, seen |-> Seen(heap, frames[k])]
                                      /\ Calls[k].kind = frames[k].kind
                                      /\ Calls[k].seen = Seen(heap, frames[k])
         /\ DOMAIN frames = 1..Len(frames) /\ DOMAIN Calls = 1..Len(frames)
         /\ Stack \in Seq(Cells) /\ Len(Stack) = heap[current].n /\ heap[current].n \in Nat
         /\ heap[current].n >= 1
<1>1. frames \in Seq(Frames) /\ heap[current] \in Vectors(Cells)
  BY GoodFacts DEF Good
<1>2. QED
  BY <1>1, ViewFacts, GoodFacts, LenProperties, ContentsFacts DEF Calls, Stack

LEMMA AbstractActive ==
  ASSUME NEW d, Good(heap, current, frames, d), NEW kind, Is(kind)
  PROVE  /\ Calls # <<>>
         /\ Calls[Len(Calls)] = [kind |-> kind, seen |-> Seen(heap, Active)]
         /\ Calls[Len(Calls)].kind = kind
         /\ Calls[Len(Calls)].seen = Seen(heap, Active)
         /\ SubSeq(Calls, 1, Len(Calls) - 1) = View(heap, Caller)
         /\ Good(heap, current, Caller, d)
<1>1. /\ Len(frames) \in 1..Len(frames) /\ Len(frames) - 1 \in 0..Len(frames)
      /\ Active = frames[Len(frames)] /\ Active.kind = kind
  BY ActiveFacts
<1>2. View(heap, Caller) = SubSeq(Calls, 1, Len(frames) - 1) /\ Good(heap, current, Caller, d)
  BY <1>1, ViewCut, CutGood DEF Caller, Calls
<1>3. Len(Calls) = Len(frames) /\ Len(frames) \in Nat /\ Len(frames) >= 1
  BY <1>1, AbstractFacts
<1>4. Calls # <<>>
  BY <1>3, EmptySeq
<1>5. QED
  BY <1>1, <1>2, <1>3, <1>4, AbstractFacts

LEMMA PushElement ==
  ASSUME NEW u \in Vectors(Cells), NEW x \in Objects, NEW v, v = KvPush(u, x)
  PROVE  /\ v \in Vectors(Cells) /\ v.n = u.n + 1
         /\ \A i \in 1..u.n : v.a[i] = u.a[i]
         /\ v.a[u.n + 1] = x
         /\ Contents(v) = Append(Contents(u), x)
<1>1. NULL \in Cells /\ x \in Cells
  BY DEF Cells
<1>2. KvPush(u, x) \in Vectors(Cells) /\ KvPush(u, x).n = u.n + 1
  BY <1>1, KvPushFacts
<1>4. KvPush(u, x).a[u.n + 1] = x
  BY <1>1, KvPushFacts
<1>5. ASSUME NEW i \in 1..u.n PROVE KvPush(u, x).a[i] = u.a[i]
  BY <1>1, KvPushFacts
<1>3. Contents(KvPush(u, x)) = Append(Contents(u), x)
  BY <1>1, KvPushFacts, Zenon
<1>6. QED
  BY <1>2, <1>3, <1>4, <1>5

LEMMA PopElement ==
  ASSUME NEW u \in Vectors(Cells), u.n > 0, NEW v, v = KvPop(u, NULL)
  PROVE  /\ v \in Vectors(Cells) /\ v.n = u.n - 1
         /\ \A i \in 1..u.n - 1 : v.a[i] = u.a[i]
         /\ Contents(v) = SubSeq(Contents(u), 1, u.n - 1)
<1>1. NULL \in Cells
  BY DEF Cells
<1>2. KvPop(u, NULL) \in Vectors(Cells) /\ KvPop(u, NULL).n = u.n - 1
  BY <1>1, KvPopFacts
<1>3. Contents(KvPop(u, NULL)) = SubSeq(Contents(u), 1, u.n - 1)
  BY <1>1, KvPopFacts, Zenon
<1>4. ASSUME NEW i \in 1..u.n - 1 PROVE KvPop(u, NULL).a[i] = u.a[i]
  BY <1>1, KvPopFacts
<1>5. QED
  BY <1>2, <1>3, <1>4

(* The vector in use becomes v.                                            *)
LEMMA WriteFacts ==
  ASSUME NEW fs, NEW d, Good(heap, current, fs, d),
         NEW v \in Vectors(Cells), Full(v), d[Len(fs)] <= v.n,
         \A i \in 1..d[Len(fs)] : v.a[i] = heap[current].a[i],
         NEW g, g = With(v)
  PROVE  Good(g, current, fs, d) /\ View(g, fs) = View(heap, fs) /\ g[current] = v
<1>1. Good([heap EXCEPT ![current] = v], current, fs, d)
  BY WriteGood
<1>2. View([heap EXCEPT ![current] = v], fs) = View(heap, fs)
  BY WriteSeen
<1>3. g[current] = v
  BY DEF With, Good, Heaps
<1>4. QED
  BY <1>1, <1>2, <1>3 DEF With

(* Enter: the context is pushed above all that a call sees.                *)
LEMMA EnterStep == ASSUME CSInv, Enter PROVE CSInv' /\ Values!Enter
<1>1. PICK d : Good(heap, current, frames, d)
  BY DEF CSInv
<1>2. PICK x \in Objects :
        Step(With(KvPush(heap[current], x)), current, Append(frames, Frame("run", current, 0)))
  BY DEF Enter
<1>3. PICK v : v = KvPush(heap[current], x)
  OBVIOUS
<1>4. /\ heap[current] \in Vectors(Cells) /\ heap[current].n \in Nat
      /\ d[Len(frames)] \in Nat /\ d[Len(frames)] <= heap[current].n /\ Full(heap[current])
      /\ current \in Addrs /\ heap \in Heaps
  BY <1>1, GoodFacts DEF Good
<1>5. NULL \in Cells /\ x \in Cells
  BY <1>2 DEF Cells
<1>6. /\ v \in Vectors(Cells) /\ v.n = heap[current].n + 1
      /\ \A i \in 1..heap[current].n : v.a[i] = heap[current].a[i]
      /\ v.a[heap[current].n + 1] = x
      /\ Contents(v) = Append(Stack, x)
  BY <1>3, <1>4, PushElement DEF Stack
<1>7. Full(v) /\ d[Len(frames)] <= v.n /\ \A i \in 1..d[Len(frames)] : v.a[i] = heap[current].a[i]
  BY <1>2, <1>4, <1>6 DEF Full
<1>8. PICK g : g = With(v)
  OBVIOUS
<1>9. Good(g, current, frames, d) /\ View(g, frames) = Calls /\ g[current] = v
  BY <1>1, <1>6, <1>7, <1>8, WriteFacts DEF Calls
<1>10. PICK f : f = Frame("run", current, 0)
  OBVIOUS
<1>11. f \in Frames /\ f.kind = "run"
  BY <1>4, <1>10 DEF Frame, Frames
<1>12. MayFollow(g, current, frames, d, f, v.n)
  BY <1>4, <1>6, <1>9, <1>11 DEF MayFollow
<1>13. PICK e : Good(g, current, Append(frames, f), e)
  BY <1>9, <1>12, AppendGood
<1>14. View(g, Append(frames, f)) = Append(Calls, [kind |-> "run", seen |-> <<>>])
  <2>1. Seen(g, f) = <<>>
    BY <1>11 DEF Seen
  <2>2. QED
    BY <1>9, <1>11, <1>13, <2>1, ViewAppend
<1>15. Step(g, current, Append(frames, f))
  BY <1>2, <1>3, <1>8, <1>10
<1>16. /\ CSInv'
       /\ Calls' = Append(Calls, [kind |-> "run", seen |-> <<>>])
       /\ Stack' = Append(Stack, x)
  BY <1>6, <1>9, <1>13, <1>14, <1>15, Lands DEF Calls, Stack
<1>17. ~(Calls # <<>> /\ Calls[Len(Calls)].kind = "run")
  <2>1. SUFFICES ASSUME Calls # <<>>, Calls[Len(Calls)].kind = "run" PROVE FALSE
    OBVIOUS
  <2>2. Len(frames) \in 1..Len(frames) /\ frames # <<>>
    BY <1>1, <2>1, AbstractFacts, EmptySeq
  <2>3. Is("run")
    BY <1>1, <2>1, <2>2, AbstractFacts DEF Is, Active
  <2>4. QED
    BY <2>3 DEF Enter
<1>18. Values!Enter
  BY <1>2, <1>16, <1>17
  DEF Values!Enter, Values!Is, Values!Active, Values!Frame, Calls, Stack
<1>19. QED
  BY <1>16, <1>18

(* The top of the stack belongs to the call that runs.                     *)
LEMMA RunFacts ==
  ASSUME NEW d, Good(heap, current, frames, d), Is("run")
  PROVE  LET l == Len(frames) IN
         /\ heap[current] \in Vectors(Cells) /\ heap[current].n \in Nat /\ heap[current].n >= 2
         /\ Full(heap[current])
         /\ l - 1 \in 0..l /\ d[l - 1] \in Nat /\ d[l - 1] <= heap[current].n - 1
         /\ d[l] \in Nat /\ d[l] <= heap[current].n
<1>1. /\ Len(frames) \in Nat /\ Len(frames) \in 1..Len(frames)
      /\ GoodFrame(heap, current, frames, d, Len(frames))
      /\ frames[Len(frames)].kind = "run"
      /\ Len(frames) - 1 \in 0..Len(frames) - 1 /\ Len(frames) \in 0..Len(frames)
      /\ Len(frames) - 1 \in 0..Len(frames)
  BY ActiveFacts
<1>2. /\ d[Len(frames) - 1] < d[Len(frames)]
  BY <1>1 DEF GoodFrame
<1>3. /\ heap[current] \in Vectors(Cells) /\ heap[current].n \in Nat
      /\ d[Len(frames)] \in Nat /\ d[Len(frames) - 1] \in Nat /\ d[Len(frames) - 1] >= 1
      /\ d[Len(frames)] <= heap[current].n /\ Full(heap[current])
  BY <1>1, GoodFacts DEF Good
<1>4. QED
  BY <1>1, <1>2, <1>3

LEMMA LeaveStep == ASSUME CSInv, Leave PROVE CSInv' /\ Values!Leave
<1>1. PICK d : Good(heap, current, frames, d)
  BY DEF CSInv
<1>2. Is("run") /\ Step(With(KvPop(heap[current], NULL)), current, Caller)
  BY DEF Leave
<1>3. PICK v : v = KvPop(heap[current], NULL)
  OBVIOUS
<1>4. /\ heap[current] \in Vectors(Cells) /\ heap[current].n \in Nat /\ heap[current].n >= 2
      /\ Full(heap[current])
      /\ d[Len(frames) - 1] \in Nat /\ d[Len(frames) - 1] <= heap[current].n - 1
  BY <1>1, <1>2, RunFacts
<1>5. /\ v \in Vectors(Cells) /\ v.n = heap[current].n - 1
      /\ \A i \in 1..heap[current].n - 1 : v.a[i] = heap[current].a[i]
      /\ Contents(v) = SubSeq(Stack, 1, heap[current].n - 1)
  BY <1>3, <1>4, PopElement DEF Stack
<1>6. Good(heap, current, Caller, d) /\ Len(Caller) = Len(frames) - 1
  BY <1>1, <1>2, AbstractActive, ActiveFacts
<1>7. /\ Full(v) /\ d[Len(Caller)] <= v.n
      /\ \A i \in 1..d[Len(Caller)] : v.a[i] = heap[current].a[i]
  BY <1>4, <1>5, <1>6 DEF Full
<1>8. PICK g : g = With(v)
  OBVIOUS
<1>9. Good(g, current, Caller, d) /\ View(g, Caller) = View(heap, Caller) /\ g[current] = v
  BY <1>5, <1>6, <1>7, <1>8, WriteFacts
<1>10. Step(g, current, Caller)
  BY <1>2, <1>3, <1>8
<1>11. /\ CSInv'
       /\ Calls' = View(heap, Caller)
       /\ Stack' = Contents(v)
  BY <1>9, <1>10, Lands DEF Calls, Stack
<1>12. /\ Calls # <<>> /\ Calls[Len(Calls)].kind = "run"
       /\ SubSeq(Calls, 1, Len(Calls) - 1) = View(heap, Caller)
       /\ Len(Stack) = heap[current].n
  BY <1>1, <1>2, AbstractActive, AbstractFacts
<1>13. Calls' = SubSeq(Calls, 1, Len(Calls) - 1) /\ Stack' = SubSeq(Stack, 1, Len(Stack) - 1)
  BY <1>5, <1>11, <1>12
<1>14. Values!Leave
  BY <1>12, <1>13 DEF Values!Leave, Values!Is, Values!Active, Values!Caller, Calls, Stack
<1>15. QED
  BY <1>11, <1>14

(* The calls are those before the top one and the top one.                 *)
LEMMA CallerAndActive ==
  ASSUME NEW d, Good(heap, current, frames, d), NEW kind, Is(kind)
  PROVE  Append(Caller, Active) = frames /\ Extends(frames, Caller, Active)
<1>1. /\ Len(frames) \in Nat /\ Len(frames) \in 1..Len(frames)
      /\ Active = frames[Len(frames)] /\ Active \in Frames
      /\ Caller \in Seq(Frames) /\ Len(Caller) = Len(frames) - 1
      /\ \A k \in 1..Len(frames) - 1 : Caller[k] = frames[k]
  BY ActiveFacts
<1>2. frames \in Seq(Frames)
  BY DEF Good
<1>3. PICK w : w = Append(Caller, Active)
  OBVIOUS
<1>4. /\ w \in Seq(Frames) /\ Len(w) = Len(Caller) + 1
      /\ \A k \in 1..Len(Caller) : w[k] = Caller[k]
      /\ w[Len(Caller) + 1] = Active
  BY <1>1, <1>3, AppendProperties
<1>5. \A k \in 1..Len(frames) : w[k] = frames[k]
  BY <1>1, <1>4
<1>6. w = frames
  BY <1>1, <1>2, <1>4, <1>5, SeqEqual
<1>7. Extends(frames, Caller, Active)
  BY <1>1, <1>2 DEF Extends
<1>8. QED
  BY <1>3, <1>6, <1>7

LEMMA ExceptLast ==
  ASSUME NEW S, NEW s \in Seq(S), s # <<>>, NEW x \in S
  PROVE  Append(SubSeq(s, 1, Len(s) - 1), x) = [s EXCEPT ![Len(s)] = x]
<1>1. Len(s) \in Nat /\ Len(s) >= 1 /\ Len(s) \in 1..Len(s) /\ Len(s) - 1 \in 0..Len(s)
  BY EmptySeq
<1>2. PICK a : a = SubSeq(s, 1, Len(s) - 1)
  OBVIOUS
<1>3. a \in Seq(S) /\ Len(a) = Len(s) - 1 /\ \A k \in 1..Len(s) - 1 : a[k] = s[k]
  BY <1>1, <1>2, CutFacts
<1>4. PICK b : b = Append(a, x)
  OBVIOUS
<1>5. /\ b \in Seq(S) /\ Len(b) = Len(a) + 1 /\ b[Len(a) + 1] = x
      /\ \A k \in 1..Len(a) : b[k] = a[k]
  BY <1>3, <1>4, AppendProperties
<1>6. PICK c : c = [s EXCEPT ![Len(s)] = x]
  OBVIOUS
<1>7. /\ c \in Seq(S) /\ Len(c) = Len(s)
      /\ \A k \in 1..Len(s) : c[k] = IF k = Len(s) THEN x ELSE s[k]
  BY <1>1, <1>6, ExceptSeq
<1>8. \A k \in 1..Len(s) : k = Len(s) \/ k \in 1..Len(s) - 1
  BY <1>1
<1>9. \A k \in 1..Len(s) : b[k] = c[k]
  BY <1>1, <1>3, <1>5, <1>7, <1>8
<1>10. b = c
  BY <1>1, <1>3, <1>5, <1>7, <1>9, SeqEqual
<1>11. QED
  BY <1>2, <1>4, <1>6, <1>10

(* Replace: the top is exchanged.                                          *)
LEMMA ReplaceStep == ASSUME CSInv, Replace PROVE CSInv' /\ Values!Replace
<1>1. PICK d : Good(heap, current, frames, d)
  BY DEF CSInv
<1>2. PICK p : p = KvPop(heap[current], NULL)
  OBVIOUS
<1>3. Is("run")
  BY DEF Replace
<1>4. /\ heap[current] \in Vectors(Cells) /\ heap[current].n \in Nat /\ heap[current].n >= 2
      /\ Full(heap[current])
      /\ d[Len(frames) - 1] \in Nat /\ d[Len(frames) - 1] <= heap[current].n - 1
      /\ d[Len(frames)] \in Nat /\ d[Len(frames)] <= heap[current].n
  BY <1>1, <1>3, RunFacts
<1>5. /\ p \in Vectors(Cells) /\ p.n = heap[current].n - 1
      /\ \A i \in 1..heap[current].n - 1 : p.a[i] = heap[current].a[i]
      /\ Contents(p) = SubSeq(Stack, 1, heap[current].n - 1)
  <2>1. heap[current].n > 0
    BY <1>4
  <2>2. /\ p \in Vectors(Cells) /\ p.n = heap[current].n - 1
        /\ Contents(p) = SubSeq(Stack, 1, heap[current].n - 1)
    BY <1>2, <1>4, <2>1, PopElement, Zenon DEF Stack
  <2>3. ASSUME NEW i \in 1..heap[current].n - 1 PROVE p.a[i] = heap[current].a[i]
    BY <1>2, <1>4, <2>1, PopElement, Zenon
  <2>4. QED
    BY <2>2, <2>3
<1>6. PICK x \in Objects : Step(With(KvPush(p, x)), current, frames)
  <2>1. PICK x \in Objects \cup {KvTop(p)} : Step(With(KvPush(p, x)), current, frames)
    BY <1>2 DEF Replace
  <2>2. KvTop(p) = p.a[p.n]
    BY <1>4, <1>5 DEF KvTop, KvA
  <2>3. p.n \in 1..heap[current].n - 1 /\ p.n \in 1..heap[current].n
    BY <1>4, <1>5
  <2>4. KvTop(p) \in Objects
    BY <1>4, <1>5, <2>2, <2>3 DEF Full
  <2>5. QED
    BY <2>1, <2>4
<1>7. PICK v : v = KvPush(p, x)
  OBVIOUS
<1>8. /\ v \in Vectors(Cells) /\ v.n = heap[current].n
      /\ \A i \in 1..heap[current].n - 1 : v.a[i] = heap[current].a[i]
      /\ v.a[heap[current].n] = x
  <2>1. v \in Vectors(Cells) /\ v.n = p.n + 1 /\ v.a[p.n + 1] = x
    <3>1. p \in Vectors(Cells) /\ x \in Objects
      BY <1>5, <1>6
    <3>2. QED
      BY <1>7, <3>1, PushElement
  <2>2. ASSUME NEW i \in 1..p.n PROVE v.a[i] = p.a[i]
    BY <1>5, <1>6, <1>7, PushElement, Zenon
  <2>3. p.n + 1 = heap[current].n
    BY <1>4, <1>5
  <2>4. QED
    BY <1>5, <2>1, <2>2, <2>3
<1>9. Contents(v) = [Stack EXCEPT ![Len(Stack)] = x]
  <2>1. Stack \in Seq(Cells) /\ Len(Stack) = heap[current].n /\ Stack # <<>> /\ x \in Cells
    BY <1>1, <1>4, <1>6, AbstractFacts, EmptySeq DEF Cells
  <2>2. Contents(v) = Append(Contents(p), x)
    BY <1>5, <1>6, <1>7, PushElement
  <2>3. Contents(v) = Append(SubSeq(Stack, 1, Len(Stack) - 1), x)
    BY <1>5, <2>1, <2>2
  <2>4. QED
    BY <2>1, <2>3, ExceptLast
<1>10. Good(heap, current, Caller, d) /\ Len(Caller) = Len(frames) - 1
  BY <1>1, <1>3, AbstractActive, ActiveFacts
<1>11. /\ Full(v) /\ d[Len(Caller)] <= v.n /\ d[Len(Caller)] < v.n
       /\ \A i \in 1..d[Len(Caller)] : v.a[i] = heap[current].a[i]
  <2>1. \A i \in 1..v.n : i = heap[current].n \/ i \in 1..heap[current].n - 1
    BY <1>4, <1>8
  <2>2. \A i \in 1..heap[current].n - 1 : heap[current].a[i] \in Objects
    BY <1>4 DEF Full
  <2>3. Full(v)
    BY <1>6, <1>8, <2>1, <2>2 DEF Full
  <2>4. QED
    BY <1>4, <1>8, <1>10, <2>3
<1>12. PICK g : g = With(v)
  OBVIOUS
<1>13. Good(g, current, Caller, d) /\ View(g, Caller) = View(heap, Caller) /\ g[current] = v
  BY <1>8, <1>10, <1>11, <1>12, WriteFacts
<1>14. Active \in Frames /\ Active.kind = "run" /\ Extends(frames, Caller, Active)
       /\ Append(Caller, Active) = frames
  BY <1>1, <1>3, ActiveFacts, CallerAndActive
<1>15. MayFollow(g, current, Caller, d, Active, v.n)
  BY <1>4, <1>8, <1>11, <1>13, <1>14 DEF MayFollow
<1>16. PICK e : Good(g, current, frames, e)
  BY <1>13, <1>14, <1>15, AppendGood
<1>17. View(g, frames) = Calls
  <2>1. Seen(g, Active) = <<>> /\ Seen(heap, Active) = <<>>
    BY <1>14 DEF Seen
  <2>2. View(g, frames) = Append(View(g, Caller), [kind |-> "run", seen |-> <<>>])
    BY <1>13, <1>14, <1>16, <2>1, ExtendView
  <2>3. View(heap, frames) = Append(View(heap, Caller), [kind |-> "run", seen |-> <<>>])
    BY <1>1, <1>10, <1>14, <2>1, ExtendView
  <2>4. QED
    BY <1>13, <2>2, <2>3 DEF Calls
<1>18. Step(g, current, frames)
  BY <1>6, <1>7, <1>12
<1>19. CSInv' /\ Calls' = Calls /\ Stack' = [Stack EXCEPT ![Len(Stack)] = x]
  BY <1>9, <1>13, <1>16, <1>17, <1>18, Lands DEF Calls, Stack
<1>20. Calls # <<>> /\ Calls[Len(Calls)].kind = "run"
  BY <1>1, <1>3, AbstractActive
<1>21. Values!Replace
  BY <1>6, <1>19, <1>20 DEF Values!Replace, Values!Is, Values!Active, Calls, Stack
<1>22. QED
  BY <1>19, <1>21

(* Ask: a loop begins over the stack as it is.                             *)
LEMMA AskStep == ASSUME CSInv, Ask PROVE CSInv' /\ Values!Ask
<1>1. PICK d : Good(heap, current, frames, d)
  BY DEF CSInv
<1>2. PICK f : f = Frame("loop", current, heap[current].n - 1)
  OBVIOUS
<1>3. Is("run") /\ Step(heap, current, Append(frames, f))
  BY <1>2 DEF Ask
<1>4. /\ heap[current].n \in Nat /\ heap[current].n >= 2
      /\ d[Len(frames)] \in Nat /\ d[Len(frames)] <= heap[current].n
      /\ Full(heap[current]) /\ current \in Addrs
  BY <1>1, <1>3, RunFacts DEF Good
<1>5. /\ f \in Frames /\ f.kind = "loop" /\ f.at = current /\ f.i = heap[current].n - 1
  BY <1>2, <1>4 DEF Frame, Frames
<1>6. \A j \in 1..Len(frames) : frames[j].kind = "try" => frames[j].at # current
  BY <1>1 DEF Good, GoodFrame
<1>7. MayFollow(heap, current, frames, d, f, heap[current].n)
  BY <1>4, <1>5, <1>6 DEF MayFollow
<1>8. PICK e : Good(heap, current, Append(frames, f), e)
  BY <1>1, <1>7, AppendGood
<1>9. Seen(heap, f) = Stack
  <2>1. f.i + 1 = heap[current].n
    BY <1>4, <1>5
  <2>2. QED
    BY <1>5, <2>1 DEF Seen, Stack, Contents
<1>10. View(heap, Append(frames, f)) = Append(Calls, [kind |-> "loop", seen |-> Stack])
  BY <1>1, <1>5, <1>8, <1>9, ViewAppend DEF Calls
<1>11. /\ CSInv' /\ Stack' = Stack
       /\ Calls' = Append(Calls, [kind |-> "loop", seen |-> Stack])
  BY <1>3, <1>8, <1>10, Lands DEF Calls, Stack
<1>12. Calls # <<>> /\ Calls[Len(Calls)].kind = "run"
  BY <1>1, <1>3, AbstractActive
<1>13. Values!Ask
  BY <1>11, <1>12 DEF Values!Ask, Values!Is, Values!Active, Values!Frame, Calls, Stack
<1>14. QED
  BY <1>11, <1>13

(* A prefix of a prefix.                                                   *)
LEMMA ShorterPrefix ==
  ASSUME NEW S, NEW s \in Seq(S), NEW m \in Nat, m + 1 <= Len(s),
         NEW t, t = SubSeq(s, 1, m + 1)
  PROVE  Len(t) = m + 1 /\ SubSeq(t, 1, m) = SubSeq(s, 1, m)
<1>1. Len(s) \in Nat /\ m \in 0..Len(s) /\ m + 1 \in 0..Len(s)
  OBVIOUS
<1>2. t \in Seq(S) /\ Len(t) = m + 1 /\ \A k \in 1..m + 1 : t[k] = s[k]
  BY <1>1, CutFacts
<1>3. \A k \in 1..m : t[k] = s[k]
  BY <1>2
<1>4. m <= Len(t) /\ m <= Len(s) /\ m \in Int
  BY <1>1, <1>2
<1>5. QED
  BY <1>2, <1>3, <1>4, PrefixSame

(* NoAnswer: the loop goes on with the object below.                       *)
LEMMA NoAnswerStep == ASSUME CSInv, NoAnswer PROVE CSInv' /\ Values!NoAnswer
<1>1. PICK d : Good(heap, current, frames, d)
  BY DEF CSInv
<1>2. PICK f : f = [Active EXCEPT !.i = @ - 1]
  OBVIOUS
<1>3. Is("loop") /\ Active.i >= 0 /\ Step(heap, current, Append(Caller, f))
  BY <1>2 DEF NoAnswer
<1>4. /\ Len(frames) \in Nat /\ Len(frames) \in 1..Len(frames)
      /\ Active = frames[Len(frames)] /\ Active \in Frames /\ Active.kind = "loop"
      /\ GoodFrame(heap, current, frames, d, Len(frames))
      /\ Len(Caller) = Len(frames) - 1
      /\ \A k \in 1..Len(frames) - 1 : Caller[k] = frames[k]
  BY <1>1, <1>3, ActiveFacts
<1>5. f \in Frames /\ f.kind = "loop" /\ f.at = Active.at /\ f.i = Active.i - 1 /\ Active.i \in Int
  BY <1>2, <1>4 DEF Frames
<1>6. /\ Full(heap[f.at]) /\ Active.i + 1 <= d[Len(frames)] /\ Active.i + 1 <= heap[f.at].n
      /\ d[Len(frames) - 1] <= d[Len(frames)]
  <2>1. Len(frames) - 1 \in 0..Len(frames) - 1
    BY <1>4
  <2>2. QED
    BY <1>4, <1>5, <2>1 DEF GoodFrame
<1>7. /\ d[Len(frames)] \in Nat /\ d[Len(frames)] <= heap[current].n
      /\ heap[f.at] \in Vectors(Cells) /\ heap[f.at].n \in Nat
  <2>1. heap[Active.at] \in Vectors(Cells) /\ heap[Active.at].n \in Nat
    BY <1>1, <1>4, GoodFacts
  <2>2. d[Len(frames)] \in Nat /\ d[Len(frames)] <= heap[current].n
    BY <1>1, GoodFacts DEF Good
  <2>3. QED
    BY <1>5, <2>1, <2>2
<1>8. \A j \in 1..Len(Caller) : Caller[j].kind = "try" => Caller[j].at # f.at
  <2>1. SUFFICES ASSUME NEW j \in 1..Len(Caller), Caller[j].kind = "try"
                 PROVE  Caller[j].at # f.at
    OBVIOUS
  <2>2. j \in 1..Len(frames) /\ j # Len(frames) /\ Caller[j] = frames[j]
    BY <1>4
  <2>3. GoodFrame(heap, current, frames, d, j)
    BY <1>1, <2>2 DEF Good
  <2>4. QED
    BY <1>4, <1>5, <2>1, <2>2, <2>3 DEF GoodFrame
<1>9. MayFollow(heap, current, Caller, d, f, d[Len(frames)])
  BY <1>3, <1>4, <1>5, <1>6, <1>7, <1>8 DEF MayFollow
<1>10. Good(heap, current, Caller, d)
  BY <1>1, <1>3, AbstractActive
<1>11. PICK e : Good(heap, current, Append(Caller, f), e)
  BY <1>9, <1>10, AppendGood
<1>12. /\ Calls # <<>> /\ Calls[Len(Calls)].kind = "loop"
       /\ Calls[Len(Calls)].seen = Seen(heap, Active)
       /\ SubSeq(Calls, 1, Len(Calls) - 1) = View(heap, Caller)
  BY <1>1, <1>3, AbstractActive
<1>13. PICK s : s = Seen(heap, Active)
  OBVIOUS
<1>14. Len(s) = Active.i + 1 /\ SubSeq(s, 1, Active.i) = Seen(heap, f)
  <2>1. /\ heap[f.at].a \in Seq(Cells) /\ heap[f.at].n <= Len(heap[f.at].a)
        /\ Len(heap[f.at].a) \in Nat
    BY <1>7 DEF Vectors
  <2>2. Active.i \in Nat /\ Active.i + 1 <= Len(heap[f.at].a)
    BY <1>3, <1>5, <1>6, <1>7, <2>1
  <2>3. s = SubSeq(heap[f.at].a, 1, Active.i + 1)
    BY <1>4, <1>5, <1>13 DEF Seen
  <2>4. Seen(heap, f) = SubSeq(heap[f.at].a, 1, Active.i)
    <3>1. f.i + 1 = Active.i
      BY <1>5
    <3>2. QED
      BY <1>5, <3>1 DEF Seen
  <2>5. QED
    BY <2>1, <2>2, <2>3, <2>4, ShorterPrefix
<1>15. s # <<>> /\ SubSeq(s, 1, Len(s) - 1) = Seen(heap, f)
  <2>1. Len(s) - 1 = Active.i /\ Len(s) # 0
    BY <1>3, <1>5, <1>14
  <2>2. QED
    BY <1>14, <2>1, EmptySeq
<1>16. View(heap, Append(Caller, f)) = Append(View(heap, Caller), [kind |-> "loop", seen |-> Seen(heap, f)])
  BY <1>5, <1>10, <1>11, ViewAppend
<1>17. /\ CSInv' /\ Stack' = Stack
       /\ Calls' = Append(View(heap, Caller), [kind |-> "loop", seen |-> Seen(heap, f)])
  BY <1>3, <1>11, <1>16, Lands DEF Calls, Stack
<1>18. Values!NoAnswer
  BY <1>12, <1>13, <1>15, <1>17
  DEF Values!NoAnswer, Values!Is, Values!Active, Values!Caller, Values!Frame, Calls, Stack
<1>19. QED
  BY <1>17, <1>18

(* Answer: the loop returns.                                               *)
LEMMA AnswerStep == ASSUME CSInv, Answer PROVE CSInv' /\ Values!Answer
<1>1. PICK d : Good(heap, current, frames, d)
  BY DEF CSInv
<1>2. Is("loop") /\ Step(heap, current, Caller)
  BY DEF Answer
<1>3. /\ Calls # <<>> /\ Calls[Len(Calls)].kind = "loop"
      /\ SubSeq(Calls, 1, Len(Calls) - 1) = View(heap, Caller)
      /\ Good(heap, current, Caller, d)
  BY <1>1, <1>2, AbstractActive
<1>4. CSInv' /\ Stack' = Stack /\ Calls' = View(heap, Caller)
  BY <1>2, <1>3, Lands DEF Calls, Stack
<1>5. Values!Answer
  BY <1>3, <1>4 DEF Values!Answer, Values!Is, Values!Active, Values!Caller, Calls, Stack
<1>6. QED
  BY <1>4, <1>5

(* Try: the copy that the jump context holds is what the stack is now.     *)
LEMMA TryStep == ASSUME CSInv, Try PROVE CSInv' /\ Values!Try
<1>1. PICK d : Good(heap, current, frames, d)
  BY DEF CSInv
<1>2. PICK p : p = Fresh
  OBVIOUS
<1>3. p \in Addrs /\ p \notin Used(current, frames)
  BY <1>2 DEF Try, Free, Fresh
<1>4. PICK g : g = [heap EXCEPT ![p] = KvCopy(heap[current])]
  OBVIOUS
<1>5. PICK f : f = Frame("try", p, 0)
  OBVIOUS
<1>6. Is("loop") /\ Step(g, current, Append(frames, f))
  BY <1>2, <1>4, <1>5 DEF Try, PushJmpContext
<1>7. /\ heap[current] \in Vectors(Cells) /\ heap[current].n \in Nat /\ Full(heap[current])
      /\ d[Len(frames)] \in Nat /\ d[Len(frames)] <= heap[current].n /\ heap \in Heaps
  BY <1>1, GoodFacts DEF Good
<1>8. KvCopy(heap[current]) = heap[current]
  BY <1>7, KvCopyFacts
<1>9. g = [heap EXCEPT ![p] = heap[current]]
  BY <1>4, <1>8
<1>10. /\ Good(g, current, frames, d) /\ p # current
       /\ \A k \in 1..Len(frames) : frames[k].kind # "run" => frames[k].at # p
  BY <1>1, <1>3, <1>7, <1>9, FreshGood
<1>11. /\ g[p] = heap[current] /\ g[current] = heap[current]
       /\ \A q \in Addrs : q # p => g[q] = heap[q]
  <2>1. current \in Addrs
    BY <1>1 DEF Good
  <2>2. QED
    BY <1>3, <1>7, <1>9, <1>10, <2>1 DEF Heaps
<1>12. f \in Frames /\ f.kind = "try" /\ f.at = p
  BY <1>3, <1>5 DEF Frame, Frames
<1>13. MayFollow(g, current, frames, d, f, d[Len(frames)])
  BY <1>7, <1>10, <1>11, <1>12 DEF MayFollow
<1>14. PICK e : Good(g, current, Append(frames, f), e)
  BY <1>10, <1>13, AppendGood
<1>15. View(g, frames) = Calls
  <2>1. \A k \in 1..Len(frames) : frames[k].at \in Addrs
    BY <1>1, GoodFacts DEF Frames
  <2>2. \A k \in 1..Len(frames) : frames[k].kind # "run" => g[frames[k].at] = heap[frames[k].at]
    BY <1>10, <1>11, <2>1
  <2>3. QED
    BY <1>1, <2>2, SeenUsed DEF Calls
<1>16. View(g, Append(frames, f)) = Append(Calls, [kind |-> "try", seen |-> Stack])
  <2>1. Seen(g, f) = Stack
    BY <1>11, <1>12 DEF Seen, Stack
  <2>2. QED
    BY <1>10, <1>12, <1>14, <1>15, <2>1, ViewAppend
<1>17. /\ CSInv' /\ Stack' = Stack
       /\ Calls' = Append(Calls, [kind |-> "try", seen |-> Stack])
  BY <1>6, <1>11, <1>14, <1>16, Lands DEF Calls, Stack
<1>18. Calls # <<>> /\ Calls[Len(Calls)].kind = "loop"
  BY <1>1, <1>6, AbstractActive
<1>19. Values!Try
  BY <1>17, <1>18 DEF Values!Try, Values!Is, Values!Active, Values!Frame, Calls, Stack
<1>20. QED
  BY <1>17, <1>19

(* EndTry: the copy becomes the vector in use.                             *)
LEMMA EndTryStep == ASSUME CSInv, EndTry PROVE CSInv' /\ Values!EndTry
<1>1. PICK d : Good(heap, current, frames, d)
  BY DEF CSInv
<1>2. PICK p : p = Active.at
  OBVIOUS
<1>3. Is("try") /\ Step(heap, p, Caller)
  BY <1>2 DEF EndTry
<1>4. /\ Len(frames) \in Nat /\ Len(frames) \in 1..Len(frames)
      /\ Active = frames[Len(frames)] /\ Active.kind = "try"
  BY <1>1, <1>3, ActiveFacts
<1>5. Good(heap, p, Caller, d)
  <2>1. Len(frames) - 1 \in 0..Len(frames) - 1 /\ Len(frames) \in (Len(frames) - 1) + 1..Len(frames)
    BY <1>4
  <2>2. QED
    BY <1>1, <1>2, <1>4, <2>1, SwapGood DEF Caller
<1>6. /\ Calls # <<>> /\ Calls[Len(Calls)].kind = "try"
      /\ Calls[Len(Calls)].seen = Seen(heap, Active)
      /\ SubSeq(Calls, 1, Len(Calls) - 1) = View(heap, Caller)
  BY <1>1, <1>3, AbstractActive
<1>7. CSInv' /\ Stack' = Contents(heap[p]) /\ Calls' = View(heap, Caller)
  BY <1>3, <1>5, Lands DEF Calls, Stack
<1>8. Seen(heap, Active) = Contents(heap[p])
  BY <1>2, <1>4 DEF Seen
<1>9. Values!EndTry
  BY <1>6, <1>7, <1>8 DEF Values!EndTry, Values!Is, Values!Active, Values!Caller, Calls, Stack
<1>10. QED
  BY <1>7, <1>9

(* The frame that a jump goes to is the same for ContextStack.             *)
LEMMA HeadSeen ==
  ASSUME NEW d, Good(heap, current, frames, d), NEW fs, NEW l \in 0..Len(frames), Len(fs) = l,
         \A j \in 1..l : fs[j] = frames[j],
         NEW k \in 1..l, IsHead(fs, k)
  PROVE  /\ k \in 1..Len(frames)
         /\ Calls[k].kind = "try"
         /\ \A j \in k + 1..l : Calls[j].kind # "try"
<1>1. Len(frames) \in Nat /\ \A j \in 1..Len(frames) : Calls[j].kind = frames[j].kind
  BY AbstractFacts
<1>2. k \in 1..Len(frames) /\ \A j \in k + 1..l : j \in 1..l /\ j \in 1..Len(frames)
  BY <1>1
<1>3. fs[k].kind = "try" /\ \A j \in k + 1..l : fs[j].kind # "try"
  BY DEF IsHead
<1>4. QED
  BY <1>1, <1>2, <1>3

(* Jump: the calls above the innermost setjmp are gone, the stack is left. *)
LEMMA JumpStep == ASSUME CSInv, Jump PROVE CSInv' /\ Values!Jump
<1>1. PICK d : Good(heap, current, frames, d)
  BY DEF CSInv
<1>2. PICK k \in DOMAIN frames : IsHead(frames, k) /\ Step(heap, current, SubSeq(frames, 1, k))
  BY DEF Jump
<1>3. /\ Len(frames) \in Nat /\ k \in 1..Len(frames) /\ k \in 0..Len(frames)
      /\ DOMAIN Calls = 1..Len(frames) /\ Len(Calls) = Len(frames)
  BY <1>1, <1>2, AbstractFacts
<1>4. Calls[k].kind = "try" /\ \A j \in k + 1..Len(Calls) : Calls[j].kind # "try"
  <2>1. Len(frames) \in 0..Len(frames)
    BY <1>3
  <2>2. QED
    BY <1>1, <1>2, <1>3, <2>1, HeadSeen
<1>5. Good(heap, current, SubSeq(frames, 1, k), d)
  BY <1>1, <1>3, CutGood
<1>6. View(heap, SubSeq(frames, 1, k)) = SubSeq(Calls, 1, k)
  BY <1>1, <1>3, ViewCut DEF Calls
<1>7. CSInv' /\ Stack' = Stack /\ Calls' = SubSeq(Calls, 1, k)
  BY <1>2, <1>5, <1>6, Lands DEF Calls, Stack
<1>8. Values!Jump
  BY <1>3, <1>4, <1>7 DEF Values!Jump, Calls, Stack
<1>9. QED
  BY <1>7, <1>8

(* Pass: the try gives the stack back and jumps on to the next one.        *)
LEMMA PassStep == ASSUME CSInv, Pass PROVE CSInv' /\ Values!Pass
<1>1. PICK d : Good(heap, current, frames, d)
  BY DEF CSInv
<1>2. PICK p : p = Active.at
  OBVIOUS
<1>3. PICK k \in DOMAIN Caller : IsHead(Caller, k) /\ Step(heap, p, SubSeq(frames, 1, k))
  BY <1>2 DEF Pass
<1>4. Is("try")
  BY DEF Pass
<1>5. /\ Len(frames) \in Nat /\ Len(frames) \in 1..Len(frames)
      /\ Active = frames[Len(frames)] /\ Active.kind = "try"
      /\ Caller \in Seq(Frames) /\ Len(Caller) = Len(frames) - 1
      /\ \A j \in 1..Len(frames) - 1 : Caller[j] = frames[j]
  BY <1>1, <1>4, ActiveFacts
<1>6. DOMAIN Caller = 1..Len(frames) - 1
  BY <1>5, LenProperties
<1>7. /\ k \in 1..Len(frames) - 1 /\ k \in 0..Len(frames) /\ k \in 0..Len(frames) - 1
      /\ Len(frames) \in k + 1..Len(frames) /\ Len(frames) - 1 \in 0..Len(frames)
  BY <1>3, <1>5, <1>6
<1>8. Good(heap, p, SubSeq(frames, 1, k), d)
  BY <1>1, <1>2, <1>5, <1>7, SwapGood
<1>9. View(heap, SubSeq(frames, 1, k)) = SubSeq(Calls, 1, k)
  BY <1>1, <1>7, ViewCut DEF Calls
<1>10. CSInv' /\ Stack' = Contents(heap[p]) /\ Calls' = SubSeq(Calls, 1, k)
  BY <1>3, <1>8, <1>9, Lands DEF Calls, Stack
<1>11. /\ Calls # <<>> /\ Calls[Len(Calls)].kind = "try"
       /\ Calls[Len(Calls)].seen = Contents(heap[p])
       /\ Calls \in Seq(Views) /\ Len(Calls) = Len(frames)
  <2>1. Seen(heap, Active) = Contents(heap[p])
    BY <1>2, <1>5 DEF Seen
  <2>2. QED
    BY <1>1, <1>4, <2>1, AbstractActive, AbstractFacts
<1>12. Calls[k].kind = "try" /\ \A j \in k + 1..Len(frames) - 1 : Calls[j].kind # "try"
  BY <1>1, <1>3, <1>5, <1>7, HeadSeen
<1>13. PICK c : c = SubSeq(Calls, 1, Len(Calls) - 1)
  OBVIOUS
<1>14. Len(c) = Len(frames) - 1 /\ DOMAIN c = 1..Len(frames) - 1
  <2>1. c \in Seq(Views) /\ Len(c) = Len(Calls) - 1
    BY <1>7, <1>11, <1>13, CutFacts
  <2>2. QED
    BY <1>11, <2>1, LenProperties
<1>15. Values!Pass
  BY <1>7, <1>10, <1>11, <1>12, <1>13, <1>14
  DEF Values!Pass, Values!Is, Values!Active, Values!Caller, Calls, Stack
<1>16. QED
  BY <1>10, <1>15

-----------------------------------------------------------------------------
LEMMA NextStep == ASSUME CSInv, Next PROVE CSInv' /\ Values!Next
BY EnterStep, LeaveStep, ReplaceStep, AskStep, NoAnswerStep, AnswerStep,
   TryStep, EndTryStep, JumpStep, PassStep
DEF Next, Values!Next

LEMMA StutterStep == ASSUME CSInv, UNCHANGED vars PROVE CSInv' /\ UNCHANGED Values!vars
BY DEF CSInv, vars, Values!vars, Contents, View, Seen

LEMMA AlwaysCSInv == Spec => []CSInv
<1>1. CSInv /\ [Next]_vars => CSInv'
  BY NextStep, StutterStep
<1>2. QED
  BY InitCSInv, <1>1, PTL DEF Spec

(* No pointer to a vector leads to an element that a pop has taken away:   *)
(* see Callstack.                                                          *)
THEOREM NothingPoppedIsRead == Spec => []NoPoppedElementRead
<1>1. CSInv => NoPoppedElementRead
  <2>1. SUFFICES ASSUME CSInv PROVE NoPoppedElementRead
    OBVIOUS
  <2>2. PICK d : Good(heap, current, frames, d)
    BY <2>1 DEF CSInv
  <2>3. ASSUME NEW v, Full(v), NEW i \in 1..v.n PROVE v.a[i] # NULL
    <3>1. v.a[i] \in Objects
      BY <2>3, Zenon DEF Full
    <3>2. QED
      BY <3>1, NullIsNoObject, Zenon
  <2>4. heap[current].n > 0 /\ Full(heap[current])
    <3>1. Full(heap[current])
      BY <2>2 DEF Good
    <3>2. heap[current].n \in Nat /\ heap[current].n >= 1
      BY <2>2, GoodFacts
    <3>3. QED
      BY <3>1, <3>2
  <2>5. DOMAIN frames = 1..Len(frames)
    BY <2>2, AbstractFacts
  <2>6. \A k \in 1..Len(frames) : frames[k].kind = "try" => Full(heap[frames[k].at])
    BY <2>2 DEF Good, GoodFrame
  <2>7. ASSUME NEW k \in 1..Len(frames), frames[k].kind = "loop", NEW i \in 0..frames[k].i
        PROVE  KvA(heap[frames[k].at], i) # NULL
    <3>1. /\ Full(heap[frames[k].at]) /\ frames[k].i + 1 <= heap[frames[k].at].n
          /\ frames[k].i \in Int /\ heap[frames[k].at].n \in Nat
      BY <2>2, <2>7, GoodFacts DEF Good, GoodFrame, Frames
    <3>2. i + 1 \in 1..heap[frames[k].at].n
      BY <2>7, <3>1
    <3>3. QED
      BY <2>3, <3>1, <3>2 DEF KvA
  <2>8. QED
    BY <2>3, <2>4, <2>5, <2>6, <2>7 DEF NoPoppedElementRead
<1>2. QED
  BY AlwaysCSInv, <1>1, PTL

(* The callstack in memory is the stack that is a value: see Callstack.    *)
THEOREM CallstackIsAValue == Spec => ImplementsContextStack
<1>1. Init => Values!Init
  <2>1. SUFFICES ASSUME Init PROVE Values!Init
    OBVIOUS
  <2>2. PICK p \in Addrs : /\ current = p /\ frames = <<>>
                           /\ heap = [q \in Addrs |-> IF q = p THEN KvPush(KvInit, Lobby) ELSE KvInit]
    BY <2>1, SomeAddr DEF Init
  <2>3. heap[current] = KvPush(KvInit, Lobby)
    BY <2>2
  <2>4. Contents(KvPush(KvInit, Lobby)) = Append(Contents(KvInit), Lobby) /\ Contents(KvInit) = <<>>
    BY KvInitFacts, PushElement, NullIsNoObject
  <2>5. View(heap, frames) = <<>>
    BY <2>2, EmptySeq DEF View
  <2>6. QED
    BY <2>2, <2>3, <2>4, <2>5 DEF Values!Init
<1>2. CSInv /\ [Next]_vars => [Values!Next]_Values!vars
  BY NextStep, StutterStep
<1>3. QED
  BY AlwaysCSInv, <1>1, <1>2, PTL DEF Spec, ImplementsContextStack, Values!Spec
=============================================================================
