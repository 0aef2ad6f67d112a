----------------------------- MODULE ListsProofs -----------------------------
(***************************************************************************)
(* Lists under the mutex are sequences, for any threads, lists, items and  *)
(* indices and however many items a list may get.                          *)
(***************************************************************************)
EXTENDS Lists, SequenceTheorems, TLAPS

-----------------------------------------------------------------------------
(***************************************************************************)
(* What the macros of kvec.h do to the elements of a vector.               *)
(***************************************************************************)
Vectors(S) == {v \in [n : Nat, m : Nat, a : Seq(S)] : v.n <= v.m /\ Len(v.a) = v.m}

(* A new vector has no element.                                            *)
LEMMA KvInitFacts ==
  ASSUME NEW S
  PROVE  KvInit \in Vectors(S) /\ Contents(KvInit) = <<>>
BY EmptySeq, SubSeqEmpty DEF KvInit, Vectors, Contents

(* The elements are the first n cells.                                     *)
LEMMA ContentsFacts ==
  ASSUME NEW S, NEW v \in Vectors(S)
  PROVE  /\ Contents(v) \in Seq(S)
         /\ Len(Contents(v)) = v.n
         /\ \A i \in 1..v.n : Contents(v)[i] = v.a[i]
<1>1. v.n \in Nat /\ v.a \in Seq(S) /\ v.n <= Len(v.a)
  BY DEF Vectors
<1>2. \A i \in 1..v.n : v.a[i] \in S
  BY <1>1, ElementOfSeq
<1> QED
  BY <1>1, <1>2, SubSeqProperties DEF Contents

(* Vectors whose first cells agree have the same elements.                 *)
LEMMA SameContents ==
  ASSUME NEW S, NEW v \in Vectors(S), NEW w \in Vectors(S),
         w.n = v.n, \A i \in 1..v.n : w.a[i] = v.a[i]
  PROVE  Contents(w) = Contents(v)
BY ContentsFacts, SeqEqual

(* A larger block has the same elements.                                   *)
LEMMA KvResizeFacts ==
  ASSUME NEW S, NULL \in S, NEW v \in Vectors(S), NEW m \in Nat, m >= v.m
  PROVE  LET w == KvResize(v, m) IN
         /\ w \in Vectors(S)
         /\ w.n = v.n
         /\ w.m = m
         /\ Contents(w) = Contents(v)
<1> DEFINE w == KvResize(v, m)
           more == [i \in 1..m - v.m |-> NULL]
<1>1. v.m \in Nat /\ v.n \in Nat /\ v.n <= v.m /\ v.a \in Seq(S) /\ Len(v.a) = v.m
  BY DEF Vectors
<1>2. more \in Seq(S) /\ Len(more) = m - v.m
  BY <1>1
<1>0. v \in [n : Nat, m : Nat, a : Seq(S)]
  BY DEF Vectors
<1>3. w.a = v.a \o more /\ w.n = v.n /\ w.m = m
  BY <1>0 DEF KvResize
<1>4. /\ w.a \in Seq(S)
      /\ Len(w.a) = m
      /\ \A i \in 1..v.m : w.a[i] = v.a[i]
  BY <1>1, <1>2, <1>3, ConcatProperties
<1>5. w = [n |-> v.n, m |-> m, a |-> w.a]
  BY <1>0, <1>3 DEF KvResize
<1>6. w \in Vectors(S)
  BY <1>1, <1>4, <1>5 DEF Vectors
<1> QED
  BY <1>1, <1>3, <1>4, <1>6, SameContents

(* A write to a cell of the block changes that cell, and no other.         *)
LEMMA KvWriteFacts ==
  ASSUME NEW S, NEW v \in Vectors(S), NEW i \in 0..v.m - 1, NEW x \in S
  PROVE  LET w == KvWrite(v, i, x) IN
         /\ w \in Vectors(S)
         /\ w.n = v.n
         /\ w.m = v.m
         /\ w.a[i + 1] = x
         /\ \A j \in 1..v.m : j # i + 1 => w.a[j] = v.a[j]
<1> DEFINE w == KvWrite(v, i, x)
<1>1. v.m \in Nat /\ v.n \in Nat /\ v.n <= v.m /\ v.a \in Seq(S) /\ Len(v.a) = v.m
  BY DEF Vectors
<1>0. v \in [n : Nat, m : Nat, a : Seq(S)]
  BY DEF Vectors
<1>2. w.a = [v.a EXCEPT ![i + 1] = x] /\ w.n = v.n /\ w.m = v.m
  BY <1>0 DEF KvWrite
<1>3. /\ w.a \in Seq(S)
      /\ Len(w.a) = v.m
      /\ \A j \in 1..v.m : w.a[j] = IF j = i + 1 THEN x ELSE v.a[j]
  BY <1>1, <1>2, ExceptSeq
<1>4. w = [n |-> v.n, m |-> v.m, a |-> w.a]
  BY <1>0, <1>2 DEF KvWrite
<1> QED
  BY <1>1, <1>2, <1>3, <1>4 DEF Vectors

(* A write past the elements does not show.                                *)
LEMMA KvWriteBeyond ==
  ASSUME NEW S, NEW v \in Vectors(S), NEW i \in v.n..v.m - 1, NEW x \in S
  PROVE  Contents(KvWrite(v, i, x)) = Contents(v)
<1>1. v.m \in Nat /\ v.n \in Nat /\ v.n <= v.m
  BY DEF Vectors
<1>2. i \in 0..v.m - 1 /\ \A j \in 1..v.n : j \in 1..v.m /\ j # i + 1
  BY <1>1
<1> QED
  BY <1>1, <1>2, KvWriteFacts, SameContents

(* A write to an element replaces that element.                            *)
LEMMA KvWriteWithin ==
  ASSUME NEW S, NEW v \in Vectors(S), NEW i \in 0..v.n - 1, NEW x \in S
  PROVE  Contents(KvWrite(v, i, x)) = [Contents(v) EXCEPT ![i + 1] = x]
<1> DEFINE w == KvWrite(v, i, x)
<1>1. v.m \in Nat /\ v.n \in Nat /\ v.n <= v.m /\ i \in 0..v.m - 1
  BY DEF Vectors
<1>2. /\ w \in Vectors(S)
      /\ w.n = v.n
      /\ \A j \in 1..v.n : w.a[j] = IF j = i + 1 THEN x ELSE v.a[j]
  BY <1>1, KvWriteFacts
<1>3. Contents(v) \in Seq(S) /\ Len(Contents(v)) = v.n
  BY ContentsFacts
<1>4. /\ [Contents(v) EXCEPT ![i + 1] = x] \in Seq(S)
      /\ Len([Contents(v) EXCEPT ![i + 1] = x]) = v.n
      /\ \A j \in 1..v.n : [Contents(v) EXCEPT ![i + 1] = x][j]
                             = IF j = i + 1 THEN x ELSE Contents(v)[j]
  BY <1>1, <1>3, ExceptSeq
<1> HIDE DEF w
<1>5. \A j \in 1..v.n : Contents(w)[j] = [Contents(v) EXCEPT ![i + 1] = x][j]
  BY <1>2, <1>4, ContentsFacts
<1>6. Contents(w) \in Seq(S) /\ Len(Contents(w)) = v.n
  BY <1>2, ContentsFacts
<1> QED
  BY <1>4, <1>5, <1>6, SeqEqual DEF w

(* Counting one cell more adds its item.                                   *)
LEMMA CountFacts ==
  ASSUME NEW S, NEW v \in Vectors(S), v.n < v.m
  PROVE  LET w == [v EXCEPT !.n = v.n + 1] IN
         /\ w \in Vectors(S)
         /\ w.n = v.n + 1
         /\ w.m = v.m
         /\ w.a = v.a
         /\ Contents(w) = Append(Contents(v), v.a[v.n + 1])
<1> DEFINE w == [v EXCEPT !.n = v.n + 1]
<1>1. v.m \in Nat /\ v.n \in Nat /\ v.n <= v.m /\ v.a \in Seq(S) /\ Len(v.a) = v.m
  BY DEF Vectors
<1>0. v \in [n : Nat, m : Nat, a : Seq(S)]
  BY DEF Vectors
<1>2. w \in Vectors(S) /\ w.n = v.n + 1 /\ w.m = v.m /\ w.a = v.a
  BY <1>0, <1>1 DEF Vectors
<1>3. v.a[v.n + 1] \in S
  BY <1>1, ElementOfSeq
<1>4. Contents(v) \in Seq(S) /\ Len(Contents(v)) = v.n /\ \A j \in 1..v.n : Contents(v)[j] = v.a[j]
  BY ContentsFacts
<1> DEFINE t == Append(Contents(v), v.a[v.n + 1])
<1>5. /\ t \in Seq(S)
      /\ Len(t) = v.n + 1
      /\ \A j \in 1..v.n + 1 : t[j] = v.a[j]
  BY <1>1, <1>3, <1>4, AppendProperties
<1> HIDE DEF w, t
<1>6. /\ Contents(w) \in Seq(S)
      /\ Len(Contents(w)) = v.n + 1
      /\ \A j \in 1..v.n + 1 : Contents(w)[j] = v.a[j]
  BY <1>2, ContentsFacts
<1>7. Contents(w) = t
  BY <1>5, <1>6, SeqEqual
<1> QED
  BY <1>2, <1>7 DEF w, t

Cells == Items \cup {NULL}
Phases == {"idle", "lock", "method", "grow", "store", "count", "unlock"}

LTypeOK == /\ vec \in [ListObjs -> Vectors(Cells)]
           /\ holder \in Threads \cup {NULL}
           /\ pc \in [Threads -> Phases]
           /\ call \in [Threads -> Calls \cup {NoCall}]
           /\ crashed \in BOOLEAN
           /\ reg \in [Threads -> Nat]

Storing(t) == pc[t] \in {"store", "count"}

(* One thread at a time is in a method.                                    *)
Locked == \A t \in Threads : pc[t] \in {"method", "grow", "store", "count", "unlock"} => holder = t

(* What kv_push knows of the vector at each of its accesses.               *)
Pushing(t) ==
  /\ call[t].method = "append"
  /\ call[t].list # ListProto
  /\ Vec(t).n < MaxItems
  /\ pc[t] = "grow" => Vec(t).n = Vec(t).m
  /\ Storing(t) => Vec(t).n < Vec(t).m
  /\ pc[t] = "count" => reg[t] = Vec(t).n /\ Vec(t).a[Vec(t).n + 1] = call[t].item

Calling == \A t \in Threads :
  /\ pc[t] = "idle" <=> call[t] = NoCall
  /\ pc[t] = "method" /\ call[t].method = "append" => Vec(t).n < MaxItems
  /\ pc[t] \in {"grow", "store", "count"} => Pushing(t)

(* A list without items has no block, unless its first item is on the way: *)
(* get_at, which lets every index of an empty list pass, then reads no     *)
(* cell that was never written.                                            *)
EmptyHasNoBlock == \A l \in ListObjs :
  /\ vec[l].n <= MaxItems
  /\ vec[l].n = 0 /\ vec[l].m > 0 => \E t \in Threads : Storing(t) /\ call[t].list = l

LInv == LTypeOK /\ Locked /\ Calling /\ EmptyHasNoBlock

-----------------------------------------------------------------------------
LEMMA CallFacts ==
  ASSUME LTypeOK, NEW t \in Threads, call[t] # NoCall
  PROVE  /\ call[t].list \in ListObjs
         /\ Vec(t) \in Vectors(Cells)
         /\ call[t].method \in {"append", "get_at", "set_at"}
         /\ call[t].method # "get_at" => call[t].item \in Items
         /\ call[t].method # "append" => call[t].index \in Indices
BY DEF LTypeOK, Calls, Vec

LEMMA CallsAreNotNoCall == NoCall \notin Calls
BY DEF Calls, NoCall

LEMMA VectorFacts ==
  ASSUME NEW S, NEW v \in Vectors(S)
  PROVE  v.n \in Nat /\ v.m \in Nat /\ v.n <= v.m
BY DEF Vectors

(* A step of t that is inside finds every other thread outside.            *)
LEMMA Alone ==
  ASSUME LInv, NEW t \in Threads, holder = t \/ holder = NULL, NEW u \in Threads, u # t
  PROVE  pc[u] \in {"idle", "lock"}
BY NullIsNothing DEF LInv, Locked, LTypeOK, Phases

LEMMA InitLInv == Init => LInv
<1> SUFFICES ASSUME Init PROVE LInv
  OBVIOUS
<1>1. KvInit \in Vectors(Cells) /\ KvInit.n = 0 /\ KvInit.m = 0
  BY KvInitFacts DEF KvInit
<1>2. LTypeOK
  BY <1>1 DEF Init, LTypeOK, Phases
<1>3. EmptyHasNoBlock
  BY <1>1, SizeMaxIsLarge DEF Init, EmptyHasNoBlock
<1>4. QED
  BY <1>2, <1>3 DEF Init, LInv, Locked, Calling

-----------------------------------------------------------------------------
(* Each step keeps the invariant.                                          *)
LEMMA BeginKeeps == ASSUME LInv, NEW t \in Threads, Begin(t) PROVE LInv'
<1>1. PICK c \in Calls : call' = [call EXCEPT ![t] = c]
  BY DEF Begin
<1>2. /\ pc[t] = "idle" /\ pc' = [pc EXCEPT ![t] = "lock"]
      /\ UNCHANGED <<vec, holder, crashed, reg>>
  BY DEF Begin, At, GoTo
<1>3. LTypeOK'
  BY <1>1, <1>2 DEF LInv, LTypeOK, Phases
<1>4. Locked'
  BY <1>2 DEF LInv, LTypeOK, Locked
<1>5. Calling'
  BY <1>1, <1>2, CallsAreNotNoCall DEF LInv, LTypeOK, Calling, Pushing, Storing, Vec
<1>6. EmptyHasNoBlock'
  BY <1>1, <1>2 DEF LInv, LTypeOK, EmptyHasNoBlock, Storing
<1>7. QED
  BY <1>3, <1>4, <1>5, <1>6 DEF LInv

LEMMA LockKeeps == ASSUME LInv, NEW t \in Threads, Lock(t) PROVE LInv'
<1>1. /\ pc[t] = "lock" /\ pc' = [pc EXCEPT ![t] = "method"]
      /\ holder = NULL /\ holder' = t
      /\ call[t].method = "append" => Vec(t).n < MaxItems
      /\ UNCHANGED <<vec, call, crashed, reg>>
  BY DEF Lock, At, GoTo
<1>2. LTypeOK'
  BY <1>1 DEF LInv, LTypeOK, Phases
<1>3. Locked'
  BY <1>1, Alone DEF LInv, LTypeOK, Locked
<1>4. Calling'
  BY <1>1, Alone DEF LInv, LTypeOK, Calling, Pushing, Storing, Vec
<1>5. EmptyHasNoBlock'
  BY <1>1 DEF LInv, LTypeOK, EmptyHasNoBlock, Storing
<1>6. QED
  BY <1>2, <1>3, <1>4, <1>5 DEF LInv

LEMMA UnlockKeeps == ASSUME LInv, NEW t \in Threads, Unlock(t) PROVE LInv'
<1>1. /\ pc[t] = "unlock" /\ pc' = [pc EXCEPT ![t] = "idle"]
      /\ holder' = NULL
      /\ call' = [call EXCEPT ![t] = NoCall]
      /\ UNCHANGED <<vec, crashed, reg>>
  BY DEF Unlock, At, GoTo
<1>2. holder = t
  BY <1>1 DEF LInv, Locked
<1>3. LTypeOK'
  BY <1>1 DEF LInv, LTypeOK, Phases
<1>4. Locked'
  BY <1>1, <1>2, Alone DEF LInv, LTypeOK, Locked
<1>5. Calling'
  BY <1>1 DEF LInv, LTypeOK, Calling, Pushing, Storing, Vec
<1>6. EmptyHasNoBlock'
  BY <1>1 DEF LInv, LTypeOK, EmptyHasNoBlock, Storing
<1>7. QED
  BY <1>3, <1>4, <1>5, <1>6 DEF LInv

LEMMA CrashKeeps == ASSUME LInv, Crash PROVE LInv'
BY DEF LInv, Crash, LTypeOK, Locked, Calling, Pushing, EmptyHasNoBlock, Storing, Vec

(* A method that ends without a step of kv_push, its list unchanged or     *)
(* with another item in a cell of its block.                               *)
LEMMA EndsKeeps ==
  ASSUME LInv, NEW t \in Threads, At(t, "method"), NEW how, Ends(t, how), reg' = reg,
         \/ vec' = vec
         \/ \E v \in Vectors(Cells) : /\ Change(t, v)
                                      /\ v.n = Vec(t).n
                                      /\ v.m = Vec(t).m
  PROVE  LInv'
<1>1. /\ pc[t] = "method" /\ pc' = [pc EXCEPT ![t] = "unlock"]
      /\ UNCHANGED <<holder, call, crashed, reg>>
  BY DEF At, Ends, GoTo
<1>2. holder = t /\ call[t] # NoCall
  BY <1>1 DEF LInv, Locked, Calling
<1>3. /\ vec' \in [ListObjs -> Vectors(Cells)]
      /\ \A l \in ListObjs : vec'[l].n = vec[l].n /\ vec'[l].m = vec[l].m
  BY <1>2, CallFacts DEF LInv, LTypeOK, Change, Vec
<1>4. LTypeOK'
  BY <1>1, <1>3 DEF LInv, LTypeOK, Phases
<1>5. Locked'
  BY <1>1, <1>2 DEF LInv, LTypeOK, Locked
<1>6. Calling'
  BY <1>1, <1>2, <1>3, Alone DEF LInv, LTypeOK, Calling, Pushing, Storing, Vec
<1>7. EmptyHasNoBlock'
  <2>1. \A u \in Threads : Storing(u) => Storing(u)' /\ call'[u] = call[u]
    BY <1>1 DEF LInv, LTypeOK, Storing
  <2>2. QED
    BY <1>3, <2>1 DEF LInv, EmptyHasNoBlock
<1>8. QED
  BY <1>4, <1>5, <1>6, <1>7 DEF LInv

LEMMA PushTestKeeps == ASSUME LInv, NEW t \in Threads, PushTest(t) PROVE LInv'
<1>1. /\ pc[t] = "method"
      /\ pc' = [pc EXCEPT ![t] = IF Vec(t).n = Vec(t).m THEN "grow" ELSE "store"]
      /\ call[t].method = "append" /\ call[t].list # ListProto
      /\ UNCHANGED <<vec, holder, call, crashed, reg>>
  BY DEF PushTest, Called, At, GoTo
<1>2. holder = t /\ call[t] # NoCall /\ Vec(t).n < MaxItems
  BY <1>1 DEF LInv, Locked, Calling
<1>3. Vec(t).n \in Nat /\ Vec(t).m \in Nat /\ Vec(t).n <= Vec(t).m
  BY <1>2, CallFacts, VectorFacts DEF LInv
<1>4. LTypeOK'
  BY <1>1 DEF LInv, LTypeOK, Phases
<1>5. Locked'
  BY <1>1, <1>2 DEF LInv, LTypeOK, Locked
<1>6. Calling'
  BY <1>1, <1>2, <1>3, Alone DEF LInv, LTypeOK, Calling, Pushing, Storing, Vec
<1>7. EmptyHasNoBlock'
  <2>1. \A u \in Threads : Storing(u) => Storing(u)' /\ call'[u] = call[u]
    BY <1>1 DEF LInv, LTypeOK, Storing
  <2>2. QED
    BY <1>1, <2>1 DEF LInv, EmptyHasNoBlock
<1>8. QED
  BY <1>4, <1>5, <1>6, <1>7 DEF LInv

(* What the three other accesses of kv_push do to the vector of the call.  *)
LEMMA PushFacts ==
  ASSUME LInv, NEW t \in Threads, ~crashed, pc[t] \in {"grow", "store", "count"}
  PROVE  /\ holder = t /\ call[t] # NoCall
         /\ Pushing(t)
         /\ call[t].list \in ListObjs
         /\ call[t].item \in Items
         /\ Vec(t) \in Vectors(Cells)
         /\ Vec(t).n \in Nat /\ Vec(t).m \in Nat /\ Vec(t).n <= Vec(t).m
<1>1. holder = t /\ call[t] # NoCall /\ Pushing(t)
  BY DEF LInv, Locked, Calling
<1>2. call[t] \in Calls /\ call[t].method = "append"
  BY <1>1 DEF Pushing, LInv, LTypeOK
<1>3. call[t].item \in Items
  BY <1>2 DEF Calls
<1>4. QED
  BY <1>1, <1>3, CallFacts, VectorFacts DEF LInv

LEMMA GrowFacts ==
  ASSUME LInv, NEW t \in Threads, PushGrow(t)
  PROVE  \E v \in Vectors(Cells) : /\ Change(t, v)
                                   /\ v.n = Vec(t).n /\ v.m > Vec(t).m
                                   /\ Contents(v) = Contents(Vec(t))
<1> DEFINE m == IF Vec(t).m = 0 THEN 2 ELSE 2 * Vec(t).m
           v == KvResize(Vec(t), m)
<1>1. pc[t] = "grow" /\ ~crashed /\ Change(t, v)
  BY DEF PushGrow, At
<1>2. Vec(t) \in Vectors(Cells) /\ Vec(t).m \in Nat
  BY <1>1, PushFacts
<1>3. m \in Nat /\ m > Vec(t).m /\ m >= Vec(t).m /\ NULL \in Cells
  BY <1>2 DEF Cells
<1> HIDE DEF m
<1>4. /\ v \in Vectors(Cells) /\ v.n = Vec(t).n /\ v.m = m
      /\ Contents(v) = Contents(Vec(t))
  BY <1>2, <1>3, KvResizeFacts
<1>5. QED
  BY <1>1, <1>3, <1>4

LEMMA StoreFacts ==
  ASSUME LInv, NEW t \in Threads, PushStore(t)
  PROVE  /\ \E v \in Vectors(Cells) : /\ Change(t, v)
                                      /\ v.n = Vec(t).n /\ v.m = Vec(t).m
                                      /\ v.a[v.n + 1] = call[t].item
                                      /\ Contents(v) = Contents(Vec(t))
         /\ reg' = [reg EXCEPT ![t] = Vec(t).n]
         /\ GoTo(t, "count")
         /\ UNCHANGED <<holder, call, outcome, crashed>>
<1> DEFINE v == KvWrite(Vec(t), Vec(t).n, call[t].item)
<1>1. pc[t] = "store" /\ ~crashed
  BY DEF PushStore, At
<1>2. /\ Vec(t) \in Vectors(Cells) /\ call[t].item \in Cells
      /\ Vec(t).n \in Nat /\ Vec(t).m \in Nat /\ Vec(t).n < Vec(t).m
  BY <1>1, PushFacts DEF Pushing, Storing, Cells
<1>3. /\ Change(t, v)
      /\ reg' = [reg EXCEPT ![t] = Vec(t).n]
      /\ GoTo(t, "count")
      /\ UNCHANGED <<holder, call, outcome, crashed>>
  BY <1>2 DEF PushStore
<1>4. Vec(t).n \in 0..Vec(t).m - 1 /\ Vec(t).n \in Vec(t).n..Vec(t).m - 1
  BY <1>2
<1>5. /\ v \in Vectors(Cells) /\ v.n = Vec(t).n /\ v.m = Vec(t).m
      /\ v.a[Vec(t).n + 1] = call[t].item
      /\ Contents(v) = Contents(Vec(t))
  BY <1>2, <1>4, KvWriteFacts, KvWriteBeyond
<1>6. QED
  BY <1>3, <1>5

LEMMA CountStepFacts ==
  ASSUME LInv, NEW t \in Threads, PushCount(t)
  PROVE  /\ \E v \in Vectors(Cells) : /\ Change(t, v)
                                      /\ v.n = Vec(t).n + 1
                                      /\ Contents(v) = Append(Contents(Vec(t)), call[t].item)
         /\ reg' = [reg EXCEPT ![t] = 0]
         /\ Ends(t, call[t].list)
<1> DEFINE v == [Vec(t) EXCEPT !.n = Vec(t).n + 1]
<1>1. pc[t] = "count" /\ ~crashed
  BY DEF PushCount, At
<1>2. /\ Vec(t) \in Vectors(Cells) /\ Vec(t).n < Vec(t).m
      /\ reg[t] = Vec(t).n /\ Vec(t).a[Vec(t).n + 1] = call[t].item
  BY <1>1, PushFacts DEF Pushing, Storing
<1>3. Change(t, v) /\ reg' = [reg EXCEPT ![t] = 0] /\ Ends(t, call[t].list)
  BY <1>2 DEF PushCount
<1>4. /\ v \in Vectors(Cells) /\ v.n = Vec(t).n + 1
      /\ Contents(v) = Append(Contents(Vec(t)), call[t].item)
  BY <1>2, CountFacts
<1>5. QED
  BY <1>3, <1>4

LEMMA PushGrowKeeps == ASSUME LInv, NEW t \in Threads, PushGrow(t) PROVE LInv'
<1>1. /\ pc[t] = "grow" /\ ~crashed /\ pc' = [pc EXCEPT ![t] = "store"]
      /\ UNCHANGED <<holder, call, crashed, reg>>
  BY DEF PushGrow, At, GoTo
<1>2. /\ holder = t /\ call[t] # NoCall /\ Pushing(t) /\ call[t].list \in ListObjs
      /\ Vec(t).n \in Nat /\ Vec(t).m \in Nat /\ Vec(t).n = Vec(t).m
  BY <1>1, PushFacts DEF Pushing
<1>3. PICK v \in Vectors(Cells) : Change(t, v) /\ v.n = Vec(t).n /\ v.m > Vec(t).m
  BY GrowFacts
<1>4. v.m \in Nat /\ vec' = [vec EXCEPT ![call[t].list] = v]
  BY <1>3, VectorFacts DEF Change
<1>5. LTypeOK'
  BY <1>1, <1>4 DEF LInv, LTypeOK, Phases
<1>6. Locked'
  BY <1>1, <1>2 DEF LInv, LTypeOK, Locked
<1>7. Calling'
  BY <1>1, <1>2, <1>3, <1>4, Alone DEF LInv, LTypeOK, Calling, Pushing, Storing, Vec
<1>8. EmptyHasNoBlock'
  <2>1. Storing(t)' /\ call'[t] = call[t] /\ \A u \in Threads : ~Storing(u)
    BY <1>1, <1>2, Alone DEF LInv, LTypeOK, Storing
  <2>2. QED
    BY <1>2, <1>3, <1>4, <2>1 DEF LInv, LTypeOK, EmptyHasNoBlock, Vec
<1>9. QED
  BY <1>5, <1>6, <1>7, <1>8 DEF LInv

LEMMA PushStoreKeeps == ASSUME LInv, NEW t \in Threads, PushStore(t) PROVE LInv'
<1>1. /\ pc[t] = "store" /\ ~crashed /\ pc' = [pc EXCEPT ![t] = "count"]
      /\ reg' = [reg EXCEPT ![t] = Vec(t).n]
      /\ UNCHANGED <<holder, call, crashed>>
  BY StoreFacts DEF PushStore, At, GoTo
<1>2. /\ holder = t /\ call[t] # NoCall /\ Pushing(t) /\ call[t].list \in ListObjs
      /\ Vec(t).n \in Nat /\ Vec(t).m \in Nat /\ Vec(t).n < Vec(t).m
  BY <1>1, PushFacts DEF Pushing, Storing
<1>3. PICK v \in Vectors(Cells) : /\ Change(t, v) /\ v.n = Vec(t).n /\ v.m = Vec(t).m
                                  /\ v.a[v.n + 1] = call[t].item
  BY StoreFacts
<1>4. v.m \in Nat /\ vec' = [vec EXCEPT ![call[t].list] = v]
  BY <1>3, VectorFacts DEF Change
<1>5. LTypeOK'
  BY <1>1, <1>2, <1>4 DEF LInv, LTypeOK, Phases
<1>6. Locked'
  BY <1>1, <1>2 DEF LInv, LTypeOK, Locked
<1>7. Calling'
  BY <1>1, <1>2, <1>3, <1>4, Alone DEF LInv, LTypeOK, Calling, Pushing, Storing, Vec
<1>8. EmptyHasNoBlock'
  <2>1. \A u \in Threads : Storing(u) => Storing(u)' /\ call'[u] = call[u]
    BY <1>1 DEF LInv, LTypeOK, Storing
  <2>2. QED
    BY <1>2, <1>3, <1>4, <2>1 DEF LInv, LTypeOK, EmptyHasNoBlock, Vec
<1>9. QED
  BY <1>5, <1>6, <1>7, <1>8 DEF LInv

LEMMA PushCountKeeps == ASSUME LInv, NEW t \in Threads, PushCount(t) PROVE LInv'
<1>1. /\ pc[t] = "count" /\ ~crashed /\ pc' = [pc EXCEPT ![t] = "unlock"]
      /\ reg' = [reg EXCEPT ![t] = 0]
      /\ UNCHANGED <<holder, call, crashed>>
  BY CountStepFacts DEF PushCount, At, GoTo, Ends
<1>2. /\ holder = t /\ call[t] # NoCall /\ Pushing(t) /\ call[t].list \in ListObjs
      /\ Vec(t).n \in Nat /\ Vec(t).n < MaxItems
  BY <1>1, PushFacts DEF Pushing
<1>3. PICK v \in Vectors(Cells) : Change(t, v) /\ v.n = Vec(t).n + 1
  BY CountStepFacts
<1>4. vec' = [vec EXCEPT ![call[t].list] = v]
  BY <1>3 DEF Change
<1>5. LTypeOK'
  BY <1>1, <1>4 DEF LInv, LTypeOK, Phases
<1>6. Locked'
  BY <1>1, <1>2 DEF LInv, LTypeOK, Locked
<1>7. Calling'
  BY <1>1, <1>2, <1>4, Alone DEF LInv, LTypeOK, Calling, Pushing, Storing, Vec
<1>8. EmptyHasNoBlock'
  <2>1. \A u \in Threads : Storing(u) => u = t
    BY <1>2, Alone DEF Storing
  <2>2. \A l \in ListObjs : vec'[l] = IF l = call[t].list THEN v ELSE vec[l]
    BY <1>4 DEF LInv, LTypeOK
  <2>3. v.n > 0 /\ v.n <= MaxItems
    BY <1>2, <1>3, SizeMaxIsLarge
  <2>4. QED
    BY <2>1, <2>2, <2>3 DEF LInv, EmptyHasNoBlock
<1>9. QED
  BY <1>5, <1>6, <1>7, <1>8 DEF LInv


LEMMA GetAtKeeps == ASSUME LInv, NEW t \in Threads, GetAt(t) PROVE LInv'
<1>1. CASE Crash
  BY <1>1, CrashKeeps
<1>2. CASE Ends(t, KvA(Vec(t), call[t].index)) /\ UNCHANGED <<vec, reg>>
  <2>1. At(t, "method")
    BY DEF GetAt, Called
  <2>2. QED
    BY <1>2, <2>1, EndsKeeps
<1>3. QED
  BY <1>1, <1>2 DEF GetAt

(* set_at within the block writes a cell, and no more.                     *)
LEMMA SetFacts ==
  ASSUME LInv, NEW t \in Threads, SetAt(t), ~Outside(t)
  PROVE  LET v == KvWrite(Vec(t), call[t].index, call[t].item) IN
         /\ v \in Vectors(Cells) /\ v.n = Vec(t).n /\ v.m = Vec(t).m
         /\ Change(t, v)
         /\ Ends(t, call[t].list) /\ UNCHANGED reg
         /\ call[t].index \in 0..Vec(t).m - 1
         /\ Vec(t) \in Vectors(Cells) /\ call[t].item \in Cells
<1>1. pc[t] = "method" /\ call[t].method = "set_at"
  BY DEF SetAt, Called, At
<1>2. call[t] # NoCall /\ Vec(t) \in Vectors(Cells) /\ call[t] \in Calls
  BY <1>1, CallFacts DEF LInv, LTypeOK, NoCall
<1>3. call[t].index \in 0..Vec(t).m - 1 /\ call[t].item \in Cells
  BY <1>1, <1>2 DEF Calls, Outside, Cells
<1>4. QED
  BY <1>2, <1>3, KvWriteFacts DEF SetAt

LEMMA SetAtKeeps == ASSUME LInv, NEW t \in Threads, SetAt(t) PROVE LInv'
<1>1. CASE Outside(t)
  BY <1>1, CrashKeeps DEF SetAt
<1>2. CASE ~Outside(t)
  <2>1. At(t, "method")
    BY DEF SetAt, Called
  <2>2. QED
    BY <1>2, <2>1, SetFacts, EndsKeeps
<1>3. QED
  BY <1>1, <1>2

LEMMA IndexErrorKeeps == ASSUME LInv, NEW t \in Threads, IndexError(t) PROVE LInv'
BY EndsKeeps DEF IndexError, Called

LEMMA NextLInv == LInv /\ [Next]_vars => LInv'
<1> SUFFICES ASSUME LInv, [Next]_vars PROVE LInv'
  OBVIOUS
<1>1. ASSUME NEW t \in Threads, Step(t) PROVE LInv'
  BY <1>1, BeginKeeps, LockKeeps, UnlockKeeps, CrashKeeps, PushTestKeeps, PushGrowKeeps,
     PushStoreKeeps, PushCountKeeps, GetAtKeeps, SetAtKeeps, IndexErrorKeeps
  DEF Step, CrashProto
<1>2. CASE UNCHANGED vars
  BY <1>2 DEF vars, LInv, LTypeOK, Locked, Calling, Pushing, EmptyHasNoBlock, Storing, Vec
<1>3. QED
  BY <1>1, <1>2 DEF Next

THEOREM AlwaysLInv == Spec => []LInv
BY InitLInv, NextLInv, PTL DEF Spec

-----------------------------------------------------------------------------
(* Each step is a step of ListValues, or none.                             *)
AbsItems == [l \in ListObjs |-> Contents(vec[l])]
AbsCall == [u \in Threads |-> IF pc[u] = "unlock" THEN NoCall ELSE call[u]]

(* A step of control that ends no method.                                  *)
LEMMA SameCalls ==
  ASSUME LInv, NEW t \in Threads, NEW where,
         pc' = [pc EXCEPT ![t] = where], pc[t] # "unlock", where # "unlock", call' = call
  PROVE  AbsCall' = AbsCall
BY DEF LInv, LTypeOK, AbsCall

LEMMA EndedCall ==
  ASSUME LInv, NEW t \in Threads, NEW how, pc[t] # "unlock", Ends(t, how)
  PROVE  AbsCall' = [AbsCall EXCEPT ![t] = NoCall] /\ AbsCall[t] = call[t]
BY DEF LInv, LTypeOK, AbsCall, Ends, GoTo

(* A step that changes one list.                                           *)
LEMMA ChangedItems ==
  ASSUME LInv, NEW t \in Threads, call[t].list \in ListObjs, NEW v, Change(t, v)
  PROVE  /\ AbsItems' = [AbsItems EXCEPT ![call[t].list] = Contents(v)]
         /\ AbsItems[call[t].list] = Contents(Vec(t))
         /\ Contents(v) = Contents(Vec(t)) => AbsItems' = AbsItems
BY DEF LInv, LTypeOK, AbsItems, Change, Vec

(* What the checks of get_at and set_at let pass, the index compared as a  *)
(* size_t.                                                                 *)
LEMMA Refusals ==
  ASSUME LInv, NEW t \in Threads, call[t] # NoCall, call[t].method # "append",
         holder = t, pc[t] = "method"
  PROVE  LET n == Len(Contents(Vec(t)))
             i == call[t].index
         IN
         /\ n = Vec(t).n /\ n \in Nat
         /\ i \in Int
         /\ SetRefuses(t) <=> i \notin 0..n
         /\ n > 0 => (GetRefuses(t) <=> i \notin 0..n - 1)
         /\ n = 0 => ~GetRefuses(t) /\ Vec(t).m = 0
         /\ n > 0 => Contents(Vec(t)) # <<>>
         /\ n = 0 => Contents(Vec(t)) = <<>>
<1> DEFINE n == Vec(t).n
           i == call[t].index
<1>1. /\ Vec(t) \in Vectors(Cells) /\ call[t].list \in ListObjs
      /\ call[t].index \in Indices
  BY CallFacts DEF LInv
<1>2. /\ n \in Nat /\ Vec(t).m \in Nat /\ n <= Vec(t).m
      /\ Contents(Vec(t)) \in Seq(Cells) /\ Len(Contents(Vec(t))) = n
  BY <1>1, VectorFacts, ContentsFacts
<1>3. i \in Int /\ i < SizeMax /\ MaxItems - i < SizeMax /\ n <= MaxItems
  BY <1>1, IndicesAreInts, SizeMaxIsLarge DEF LInv, EmptyHasNoBlock, Vec
<1>4. SizeMax \in Nat /\ MaxItems \in Nat /\ MaxItems < SizeMax
  BY SizeMaxIsLarge
<1>5. SetRefuses(t) <=> i \notin 0..n
  BY <1>2, <1>3, <1>4 DEF SetRefuses, AsSize
<1>6. n > 0 => (GetRefuses(t) <=> i \notin 0..n - 1)
  BY <1>2, <1>3, <1>4 DEF GetRefuses, AsSize
<1>7. n = 0 => ~GetRefuses(t)
  BY <1>2, <1>3, <1>4 DEF GetRefuses, AsSize
<1>8. n = 0 => Vec(t).m = 0
  <2>1. \A u \in Threads : ~Storing(u)
    BY Alone DEF Storing
  <2>2. QED
    BY <1>1, <1>2, <2>1 DEF LInv, EmptyHasNoBlock, Vec
<1>9. (n > 0 => Contents(Vec(t)) # <<>>) /\ (n = 0 => Contents(Vec(t)) = <<>>)
  BY <1>2, EmptySeq, SeqEqual
<1>10. QED
  BY <1>2, <1>3, <1>5, <1>6, <1>7, <1>8, <1>9

LEMMA AbstractDefs ==
  /\ Values!vars = <<AbsItems, AbsCall, outcome, crashed>>
  /\ Values!NoCall = NoCall
  /\ Values!Calls = Calls
BY DEF Values!vars, AbsItems, AbsCall, Values!NoCall, NoCall, Values!Calls, Calls

LEMMA BeginRefines ==
  ASSUME LInv, NEW t \in Threads, Begin(t)
  PROVE  Values!Next
<1>1. PICK c \in Calls : call' = [call EXCEPT ![t] = c]
  BY DEF Begin
<1>2. /\ pc[t] = "idle" /\ pc' = [pc EXCEPT ![t] = "lock"] /\ ~crashed
      /\ outcome' = [outcome EXCEPT ![t] = NULL] /\ UNCHANGED <<vec, crashed>>
  BY DEF Begin, At, GoTo
<1>3. AbsCall[t] = NoCall /\ AbsCall' = [AbsCall EXCEPT ![t] = c] /\ AbsItems' = AbsItems
  BY <1>1, <1>2 DEF LInv, LTypeOK, Calling, AbsCall, AbsItems
<1>4. Values!Begin(t)
  BY <1>1, <1>2, <1>3, AbstractDefs DEF Values!Begin, AbsCall, AbsItems
<1>5. QED
  BY <1>2, <1>4 DEF Values!Next

LEMMA CrashRefines ==
  ASSUME LInv, NEW t \in Threads, pc[t] = "method", ~crashed, Crash,
         \/ call[t].list = ListProto
         \/ call[t].method = "set_at" /\ call[t].index = Len(Contents(Vec(t)))
         \/ call[t].method = "get_at" /\ Contents(Vec(t)) = <<>>
  PROVE  Values!Next
<1>1. AbsCall[t] = call[t] /\ call[t].list \in ListObjs
  BY CallFacts DEF AbsCall, LInv, Calling
<1>2. AbsItems[call[t].list] = Contents(Vec(t))
  BY <1>1 DEF AbsItems, Vec
<1>3. AbsItems' = AbsItems /\ AbsCall' = AbsCall /\ outcome' = outcome /\ crashed' = TRUE
  BY DEF Crash, AbsItems, AbsCall
<1>4. Values!OutOfBounds(t)
  BY <1>1, <1>2, <1>3
  DEF Values!OutOfBounds, Values!PastTheLast, Values!Crash, AbsItems, AbsCall
<1>5. QED
  BY <1>4 DEF Values!Next

LEMMA PushCountRefines ==
  ASSUME LInv, NEW t \in Threads, PushCount(t)
  PROVE  Values!Next
<1>1. pc[t] = "count" /\ ~crashed
  BY DEF PushCount, At
<1>2. call[t].list \in ListObjs /\ call[t].method = "append" /\ call[t].list # ListProto
  BY <1>1, PushFacts DEF Pushing
<1>3. PICK v \in Vectors(Cells) : /\ Change(t, v)
                                  /\ Contents(v) = Append(Contents(Vec(t)), call[t].item)
                                  /\ Ends(t, call[t].list)
  BY CountStepFacts
<1>4. /\ AbsItems' = [AbsItems EXCEPT ![call[t].list] = Contents(v)]
      /\ AbsItems[call[t].list] = Contents(Vec(t))
  BY <1>2, <1>3, ChangedItems
<1>5. AbsItems' = [AbsItems EXCEPT ![call[t].list] = Append(AbsItems[call[t].list], call[t].item)]
  BY <1>3, <1>4
<1>6. /\ AbsCall' = [AbsCall EXCEPT ![t] = NoCall] /\ AbsCall[t] = call[t]
      /\ outcome' = [outcome EXCEPT ![t] = call[t].list]
      /\ UNCHANGED crashed
  BY <1>1, <1>3, EndedCall DEF Ends
<1>7. Values!AppendItem(t)
  BY <1>2, <1>5, <1>6, AbstractDefs DEF Values!AppendItem, Values!Ends, AbsItems, AbsCall
<1>8. QED
  BY <1>1, <1>7 DEF Values!Next

LEMMA GetAtRefines ==
  ASSUME LInv, NEW t \in Threads, GetAt(t)
  PROVE  Values!Next
<1> DEFINE n == Len(Contents(Vec(t)))
           i == call[t].index
<1>1. /\ pc[t] = "method" /\ ~crashed /\ call[t].method = "get_at" /\ call[t].list # ListProto
      /\ ~GetRefuses(t) /\ holder = t /\ call[t] # NoCall
  BY DEF GetAt, Called, At, LInv, Locked, Calling
<1>2. call[t].list \in ListObjs /\ Vec(t) \in Vectors(Cells)
  BY <1>1, CallFacts DEF LInv
<1>3. CASE n = 0
  <2>1. Outside(t) /\ Contents(Vec(t)) = <<>>
    BY <1>1, <1>3, Refusals DEF Outside
  <2>2. QED
    BY <1>1, <2>1, CrashRefines DEF GetAt
<1>4. CASE n # 0
  <2>1. i \in 0..n - 1 /\ i \in Int /\ n = Vec(t).n /\ n \in Nat
    BY <1>1, <1>4, Refusals
  <2>2. ~Outside(t) /\ KvA(Vec(t), i) = Contents(Vec(t))[i + 1]
    BY <1>2, <2>1, VectorFacts, ContentsFacts DEF Outside, KvA
  <2>3. Ends(t, Contents(Vec(t))[i + 1]) /\ UNCHANGED vec
    BY <2>2 DEF GetAt
  <2>4. /\ AbsItems' = AbsItems /\ AbsItems[call[t].list] = Contents(Vec(t))
        /\ AbsCall' = [AbsCall EXCEPT ![t] = NoCall] /\ AbsCall[t] = call[t]
        /\ outcome' = [outcome EXCEPT ![t] = AbsItems[call[t].list][i + 1]]
        /\ UNCHANGED crashed
    BY <1>1, <1>2, <2>3, EndedCall DEF AbsItems, Vec, Ends
  <2>5. Values!GetAt(t)
    BY <1>1, <2>1, <2>4, AbstractDefs
    DEF Values!GetAt, Values!Within, Values!Ends, AbsItems, AbsCall
  <2>6. QED
    BY <1>1, <2>5 DEF Values!Next
<1>5. QED
  BY <1>3, <1>4

LEMMA SetAtRefines ==
  ASSUME LInv, NEW t \in Threads, SetAt(t)
  PROVE  Values!Next
<1> DEFINE n == Len(Contents(Vec(t)))
           i == call[t].index
<1>1. /\ pc[t] = "method" /\ ~crashed /\ call[t].method = "set_at" /\ call[t].list # ListProto
      /\ ~SetRefuses(t) /\ holder = t /\ call[t] # NoCall
  BY DEF SetAt, Called, At, LInv, Locked, Calling
<1>2. /\ call[t].list \in ListObjs /\ Vec(t) \in Vectors(Cells)
      /\ i \in 0..n /\ n = Vec(t).n /\ n \in Nat /\ Vec(t).m \in Nat /\ n <= Vec(t).m
  BY <1>1, CallFacts, Refusals, VectorFacts DEF LInv
<1>3. CASE Outside(t)
  <2>1. i = n
    BY <1>2, <1>3 DEF Outside
  <2>2. QED
    BY <1>1, <1>3, <2>1, CrashRefines DEF SetAt
<1>4. CASE ~Outside(t)
  <2> DEFINE v == KvWrite(Vec(t), i, call[t].item)
  <2>1. /\ Change(t, v) /\ Ends(t, call[t].list)
        /\ i \in 0..Vec(t).m - 1 /\ call[t].item \in Cells
    BY <1>4, SetFacts
  <2>2. /\ AbsItems[call[t].list] = Contents(Vec(t))
        /\ AbsItems' = [AbsItems EXCEPT ![call[t].list] = Contents(v)]
        /\ Contents(v) = Contents(Vec(t)) => AbsItems' = AbsItems
        /\ AbsCall' = [AbsCall EXCEPT ![t] = NoCall] /\ AbsCall[t] = call[t]
        /\ outcome' = [outcome EXCEPT ![t] = call[t].list]
        /\ UNCHANGED crashed
    BY <1>1, <1>2, <2>1, EndedCall, ChangedItems DEF Ends
  <2>3. CASE i = n
    <3>1. Contents(v) = Contents(Vec(t))
      BY <1>2, <2>1, <2>3, KvWriteBeyond
    <3>2. Values!SetNothing(t)
      BY <1>1, <2>2, <2>3, <3>1, AbstractDefs
      DEF Values!SetNothing, Values!PastTheLast, Values!Ends, AbsItems, AbsCall
    <3>3. QED
      BY <1>1, <3>2 DEF Values!Next
  <2>4. CASE i # n
    <3>1. i \in 0..n - 1
      BY <1>2, <2>4
    <3>2. Contents(v) = [Contents(Vec(t)) EXCEPT ![i + 1] = call[t].item]
      BY <1>2, <2>1, <3>1, KvWriteWithin
    <3>3. AbsItems' = [AbsItems EXCEPT ![call[t].list] =
                         [AbsItems[call[t].list] EXCEPT ![i + 1] = call[t].item]]
      BY <2>2, <3>2
    <3>4. Values!SetAt(t)
      BY <1>1, <1>2, <2>2, <3>1, <3>3, AbstractDefs
      DEF Values!SetAt, Values!Within, Values!Ends, AbsItems, AbsCall
    <3>5. QED
      BY <1>1, <3>4 DEF Values!Next
  <2>5. QED
    BY <2>3, <2>4
<1>5. QED
  BY <1>3, <1>4

LEMMA IndexErrorRefines ==
  ASSUME LInv, NEW t \in Threads, IndexError(t)
  PROVE  Values!Next
<1> DEFINE n == Len(Contents(Vec(t)))
           i == call[t].index
<1>1. /\ pc[t] = "method" /\ ~crashed /\ call[t].list # ListProto
      /\ call[t].method \in {"get_at", "set_at"}
      /\ call[t].method = "get_at" => GetRefuses(t)
      /\ call[t].method = "set_at" => SetRefuses(t)
      /\ holder = t /\ call[t] # NoCall
      /\ Ends(t, "IndexError") /\ UNCHANGED vec
  BY DEF IndexError, Called, At, LInv, Locked, Calling
<1>2. call[t].list \in ListObjs
  BY <1>1, CallFacts DEF LInv
<1>3. i \notin 0..n - 1
  BY <1>1, Refusals
<1>4. /\ AbsItems' = AbsItems /\ AbsItems[call[t].list] = Contents(Vec(t))
      /\ AbsCall' = [AbsCall EXCEPT ![t] = NoCall] /\ AbsCall[t] = call[t]
      /\ outcome' = [outcome EXCEPT ![t] = "IndexError"]
      /\ UNCHANGED crashed
  BY <1>1, <1>2, EndedCall DEF AbsItems, Vec, Ends
<1>5. Values!IndexError(t)
  BY <1>1, <1>3, <1>4, AbstractDefs
  DEF Values!IndexError, Values!Within, Values!Ends, AbsItems, AbsCall
<1>6. QED
  BY <1>1, <1>5 DEF Values!Next

LEMMA SameValues ==
  ASSUME AbsItems' = AbsItems, AbsCall' = AbsCall, UNCHANGED <<outcome, crashed>>
  PROVE  UNCHANGED Values!vars
BY DEF Values!vars, AbsItems, AbsCall

(* The steps that ListValues does not see.                                 *)
LEMMA HiddenSteps ==
  ASSUME LInv, NEW t \in Threads,
         Lock(t) \/ Unlock(t) \/ PushTest(t) \/ PushGrow(t) \/ PushStore(t)
  PROVE  UNCHANGED Values!vars
<1>1. CASE Lock(t)
  <2>1. /\ pc[t] = "lock" /\ pc' = [pc EXCEPT ![t] = "method"]
        /\ UNCHANGED <<vec, call, outcome, crashed>>
    BY <1>1 DEF Lock, At, GoTo
  <2>2. AbsItems' = AbsItems /\ AbsCall' = AbsCall
    BY <2>1, SameCalls DEF AbsItems
  <2>3. QED
    BY <2>1, <2>2, SameValues
<1>2. CASE Unlock(t)
  <2>1. /\ pc[t] = "unlock" /\ pc' = [pc EXCEPT ![t] = "idle"]
        /\ call' = [call EXCEPT ![t] = NoCall]
        /\ UNCHANGED <<vec, outcome, crashed>>
    BY <1>2 DEF Unlock, At, GoTo
  <2>2. AbsItems' = AbsItems /\ AbsCall' = AbsCall
    BY <2>1 DEF AbsItems, AbsCall, LInv, LTypeOK
  <2>3. QED
    BY <2>1, <2>2, SameValues
<1>3. CASE PushTest(t)
  <2>1. pc' = [pc EXCEPT ![t] = "grow"] \/ pc' = [pc EXCEPT ![t] = "store"]
    BY <1>3 DEF PushTest, GoTo
  <2>2. pc[t] = "method" /\ UNCHANGED <<vec, call, outcome, crashed>>
    BY <1>3 DEF PushTest, Called, At
  <2>3. AbsItems' = AbsItems /\ AbsCall' = AbsCall
    BY <2>1, <2>2, SameCalls DEF AbsItems
  <2>4. QED
    BY <2>2, <2>3, SameValues
<1>4. CASE PushGrow(t)
  <2>1. pc[t] = "grow" /\ pc' = [pc EXCEPT ![t] = "store"] /\ ~crashed
        /\ UNCHANGED <<call, outcome, crashed>>
    BY <1>4 DEF PushGrow, At, GoTo
  <2>2. call[t].list \in ListObjs
    BY <2>1, PushFacts
  <2>3. AbsItems' = AbsItems
    BY <1>4, <2>2, GrowFacts, ChangedItems
  <2>4. AbsCall' = AbsCall
    BY <2>1, SameCalls
  <2>5. QED
    BY <2>1, <2>3, <2>4, SameValues
<1>5. CASE PushStore(t)
  <2>1. pc[t] = "store" /\ pc' = [pc EXCEPT ![t] = "count"] /\ ~crashed
        /\ UNCHANGED <<call, outcome, crashed>>
    BY <1>5, StoreFacts DEF PushStore, At, GoTo
  <2>2. call[t].list \in ListObjs
    BY <2>1, PushFacts
  <2>3. AbsItems' = AbsItems
    BY <1>5, <2>2, StoreFacts, ChangedItems
  <2>4. AbsCall' = AbsCall
    BY <2>1, SameCalls
  <2>5. QED
    BY <2>1, <2>3, <2>4, SameValues
<1>6. QED
  BY <1>1, <1>2, <1>3, <1>4, <1>5

(* Under the mutex lists are sequences: no append is lost, and an index    *)
(* outside a list raises, except where ListValues says what else it does.  *)
THEOREM ListsHoldSequences == Spec => ListsAreSequences
<1>1. Init => Values!Init
  <2> SUFFICES ASSUME Init PROVE Values!Init
    OBVIOUS
  <2>1. AbsItems = [l \in ListObjs |-> <<>>] /\ AbsCall = [u \in Threads |-> NoCall]
    BY KvInitFacts DEF Init, AbsItems, AbsCall
  <2>2. QED
    BY <2>1, AbstractDefs DEF Init, Values!Init, AbsItems, AbsCall
<1>2. LInv /\ [Next]_vars => [Values!Next]_(Values!vars)
  <2> SUFFICES ASSUME LInv, [Next]_vars PROVE [Values!Next]_(Values!vars)
    OBVIOUS
  <2>1. ASSUME NEW t \in Threads, Step(t) PROVE [Values!Next]_(Values!vars)
    <3>1. CASE CrashProto(t)
      BY <3>1, CrashRefines DEF CrashProto, At
    <3>2. QED
      BY <2>1, <3>1, BeginRefines, PushCountRefines, GetAtRefines, SetAtRefines,
         IndexErrorRefines, HiddenSteps DEF Step
  <2>2. CASE UNCHANGED vars
    BY <2>2, SameValues DEF vars, AbsItems, AbsCall
  <2>3. QED
    BY <2>1, <2>2 DEF Next
<1>3. QED
  BY AlwaysLInv, <1>1, <1>2, PTL DEF Spec, ListsAreSequences, Values!Spec
=============================================================================
