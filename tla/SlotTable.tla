----------------------------- MODULE SlotTable -----------------------------
(***************************************************************************)
(* The slot table of one object: khash.h under sk_object_get_slot and      *)
(* sk_object_set_slot (object.c).  The object's slots_mutex admits one     *)
(* call at a time; a step is one turn of a loop of khash.h.                *)
(*                                                                         *)
(* Open addressing with double hashing in a prime number of buckets.  When *)
(* the table is full to its bound it is rehashed in place: each key is     *)
(* taken from its bucket and put where the new size wants it, and if the   *)
(* bucket there holds a key that was not moved yet, that one is taken next.*)
(*                                                                         *)
(* Slots are never removed (kh_del and kh_clear have no caller), so a      *)
(* bucket is deleted only while it is being rehashed, and n_occupied is    *)
(* always size.                                                            *)
(***************************************************************************)
EXTENDS Integers, FiniteSets

CONSTANTS Keys,      \* names of slots
          Values,    \* objects
          NULL,      \* nothing
          Hash,      \* the hash of each key
          Sizes      \* __ac_prime_list, as far as the tables here grow

\* The buckets that are probed for a key with hash h in n buckets.
Start(h, n) == h % n

\* Mutant: the step may be 0.
IncWithout1(h, n) == h % (n - 1)

Inc(h, n) == 1 + (h % (n - 1))
Forward(b, h, n) == IF b + Inc(h, n) >= n THEN b + Inc(h, n) - n ELSE b + Inc(h, n)

\* Mutant: all buckets may be used.
UpperBoundAll(n) == n

\* h->upper_bound: 0.77 of the buckets, rounded.
UpperBound(n) == (77 * n + 50) \div 100

Prime(n) == n > 1 /\ \A d \in 2..n - 1 : n % d # 0

ASSUME HashIsNat == Hash \in [Keys -> Nat]
ASSUME SizesArePrime == /\ Sizes \subseteq Nat
                        /\ 0 \in Sizes
                        /\ \A n \in Sizes \ {0} : n # 2 /\ Prime(n)
\* The list of primes is long enough: it ends at 4294967291.
ASSUME SizesSuffice == /\ IsFiniteSet(Keys)
                       /\ \E n \in Sizes : UpperBound(n) > Cardinality(Keys)
ASSUME NullIsNoKey == NULL \notin Keys \cup Values

VARIABLES
  pc,        \* where the call is; "idle" between calls
  key, val,  \* its arguments; val is NULL for get_slot
  i,         \* the bucket that is probed
  buckets, size, flags, keys, vals,   \* the table
  newBuckets, newFlags, j, hand,      \* kh_resize: new_n_buckets, new_flags, j,
                                      \* and the key and the value in hand
  got        \* history: the answer of the latest call, if it was get_slot

table == <<buckets, size, flags, keys, vals>>
rehash == <<newBuckets, newFlags, j, hand>>
vars == <<pc, key, val, i, table, rehash, got>>

Nobody == [key |-> NULL, val |-> NULL]

\* Arrays, from bucket 0.
Empty(n) == [b \in 0..n - 1 |-> "empty"]

\* Mutant: without the calls of realloc.
GrownNot(a, n) == a

\* keys or vals, after realloc.
Grown(a, n) == [b \in 0..n - 1 |-> IF b \in DOMAIN a THEN a[b] ELSE NULL]

-----------------------------------------------------------------------------
(***************************************************************************)
(* sk_object_get_slot and kh_get.                                          *)
(***************************************************************************)
GetSlot(k) == /\ pc = "idle"
              /\ pc' = "get"
              /\ key' = k
              /\ i' = IF buckets = 0 THEN 0 ELSE Start(Hash[k], buckets)
              /\ got' = NULL
              /\ UNCHANGED <<val, table, rehash>>

\* The probe comes to the next bucket, unless that is the first one again.
NextProbe == Forward(i, Hash[key], buckets)
Wraps == NextProbe = Start(Hash[key], buckets)

\* The call returns, and its locals are gone.
Return == /\ pc' = "idle"
          /\ key' = NULL
          /\ val' = NULL
          /\ i' = 0

Answer(v) == got' = v /\ Return

GetProbe ==
  /\ pc = "get"
  /\ IF buckets = 0 \/ flags[i] = "empty" THEN Answer(NULL)
     ELSE IF keys[i] = key THEN Answer(vals[i])
     ELSE IF Wraps THEN Answer(NULL)
     ELSE i' = NextProbe /\ UNCHANGED <<pc, key, val, got>>
  /\ UNCHANGED <<table, rehash>>

-----------------------------------------------------------------------------
(***************************************************************************)
(* sk_object_set_slot and kh_put.                                          *)
(***************************************************************************)
\* The smallest listed prime above n: new_n_buckets when n is asked for.
Above(n) == CHOOSE s \in Sizes : s > n /\ \A t \in Sizes : t > n => s <= t

SetSlot(k, v) ==
  /\ pc = "idle"
  /\ key' = k
  /\ val' = v
  /\ IF size >= UpperBound(buckets)
     THEN /\ pc' = "resize"
          /\ UNCHANGED i
     ELSE /\ pc' = "put"
          /\ i' = Start(Hash[k], buckets)
  /\ got' = NULL
  /\ UNCHANGED <<table, rehash>>

\* A new key is put into the first empty bucket; an old one keeps its bucket.
\* After a full round the bucket where it ended is taken for the key's.
PutProbe ==
  /\ pc = "put"
  /\ IF flags[i] = "empty"
     THEN /\ keys' = [keys EXCEPT ![i] = key]
          /\ flags' = [flags EXCEPT ![i] = "live"]
          /\ vals' = [vals EXCEPT ![i] = val]
          /\ size' = size + 1
          /\ Return
     ELSE IF keys[i] = key \/ Wraps
     THEN /\ vals' = [vals EXCEPT ![IF keys[i] = key THEN i ELSE NextProbe] = val]
          /\ Return
          /\ UNCHANGED <<keys, flags, size>>
     ELSE /\ i' = NextProbe
          /\ UNCHANGED <<pc, key, val, keys, vals, flags, size>>
  /\ UNCHANGED <<buckets, rehash, got>>

-----------------------------------------------------------------------------
(***************************************************************************)
(* kh_resize.                                                              *)
(***************************************************************************)
\* kh_put asks for one bucket more, or for one less when most are unused.
Wanted == IF buckets > 2 * size THEN buckets - 1 ELSE buckets + 1

Probe == /\ pc' = "put"
         /\ i' = Start(Hash[key], buckets')

Resize ==
  /\ pc = "resize"
  /\ LET n == Above(Wanted) IN
     IF size >= UpperBound(n)
     THEN Probe /\ UNCHANGED <<table, rehash>>
     ELSE /\ newBuckets' = n
          /\ newFlags' = Empty(n)
          /\ keys' = IF buckets < n THEN Grown(keys, n) ELSE keys
          /\ vals' = IF buckets < n THEN Grown(vals, n) ELSE vals
          /\ j' = 0
          /\ pc' = "take"
          /\ UNCHANGED <<i, buckets, size, flags, hand>>
  /\ UNCHANGED <<key, val, got>>

\* Mutant: the key goes where it was before.
HomeBefore(k) == Start(Hash[k], buckets)

\* The first bucket that is tried for k in the new table.
Home(k) == Start(Hash[k], newBuckets)

\* Mutant: the bucket is not marked.
NotRemoved(b) == flags

\* Bucket b is marked as deleted.
Removed(b) == [flags EXCEPT ![b] = "deleted"]

\* The key of bucket j, if it is still there, is taken in hand.
Take == /\ pc = "take"
        /\ j < buckets
        /\ IF flags[j] = "live"
           THEN /\ hand' = [key |-> keys[j], val |-> vals[j]]
                /\ flags' = Removed(j)
                /\ i' = Home(keys[j])
                /\ pc' = "place"
                /\ UNCHANGED j
           ELSE /\ j' = j + 1
                /\ UNCHANGED <<pc, i, flags, hand>>
        /\ UNCHANGED <<key, val, buckets, size, keys, vals, newBuckets, newFlags, got>>

\* Bucket b holds a key that was not moved yet.
Displaced(b) == b < buckets /\ flags[b] = "live"

\* Mutant: the values are not exchanged.
SwappedKeys(b) == [key |-> keys[b], val |-> hand.val]

\* What is in hand after hand was exchanged with bucket b.
Swapped(b) == [key |-> keys[b], val |-> vals[b]]

\* It goes to the first bucket that is empty in the new table; a key that
\* was not moved yet and is in that bucket is taken in its stead.
Place ==
  /\ pc = "place"
  /\ IF newFlags[i] # "empty"
     THEN /\ i' = Forward(i, Hash[hand.key], newBuckets)
          /\ UNCHANGED <<pc, flags, keys, vals, newFlags, j, hand>>
     ELSE /\ newFlags' = [newFlags EXCEPT ![i] = "live"]
          /\ keys' = [keys EXCEPT ![i] = hand.key]
          /\ vals' = [vals EXCEPT ![i] = hand.val]
          /\ IF Displaced(i)
             THEN /\ hand' = Swapped(i)
                  /\ flags' = Removed(i)
                  /\ i' = Home(keys[i])
                  /\ UNCHANGED <<pc, j>>
             ELSE /\ hand' = Nobody
                  /\ j' = j + 1
                  /\ i' = 0
                  /\ pc' = "take"
                  /\ UNCHANGED flags
  /\ UNCHANGED <<key, val, buckets, size, newBuckets, got>>

\* All are moved.
Resized == /\ pc = "take"
           /\ j = buckets
           /\ buckets' = newBuckets
           /\ flags' = newFlags
           /\ keys' = Grown(keys, newBuckets)
           /\ vals' = Grown(vals, newBuckets)
           /\ newBuckets' = 0
           /\ newFlags' = Empty(0)
           /\ j' = 0
           /\ Probe
           /\ UNCHANGED <<key, val, size, hand, got>>

-----------------------------------------------------------------------------
Init == /\ pc = "idle"
        /\ key = NULL
        /\ val = NULL
        /\ i = 0
        /\ buckets = 0
        /\ size = 0
        /\ flags = Empty(0)
        /\ keys = Empty(0)
        /\ vals = Empty(0)
        /\ newBuckets = 0
        /\ newFlags = Empty(0)
        /\ j = 0
        /\ hand = Nobody
        /\ got = NULL

Work == GetProbe \/ PutProbe \/ Resize \/ Take \/ Place \/ Resized

Next == (\E k \in Keys : GetSlot(k) \/ \E v \in Values : SetSlot(k, v)) \/ Work

Spec == Init /\ [][Next]_vars

\* The thread that is in the call is scheduled.
FairSpec == Spec /\ WF_vars(Work)

-----------------------------------------------------------------------------
(***************************************************************************)
(* Properties.                                                             *)
(***************************************************************************)
Flag == {"empty", "live", "deleted"}

\* Type invariant.
TypeOK ==
  /\ pc \in {"idle", "get", "put", "resize", "take", "place"}
  /\ key \in Keys \cup {NULL}
  /\ val \in Values \cup {NULL}
  /\ i \in Nat
  /\ j \in 0..buckets
  /\ buckets \in Sizes
  /\ newBuckets \in Sizes
  /\ size \in Nat
  /\ DOMAIN flags = 0..buckets - 1
  /\ DOMAIN newFlags = 0..newBuckets - 1
  /\ DOMAIN keys = DOMAIN flags \cup DOMAIN newFlags
  /\ DOMAIN vals = DOMAIN keys
  /\ \A b \in DOMAIN flags : flags[b] \in Flag
  /\ \A b \in DOMAIN newFlags : newFlags[b] \in {"empty", "live"}
  /\ \A b \in DOMAIN keys : /\ keys[b] \in Keys \cup {NULL}
                          /\ vals[b] \in Values \cup {NULL}
  /\ got \in Values \cup {NULL}
  /\ hand \in [key : Keys, val : Values] \cup {Nobody}

\* The buckets that hold a key, before and after it is moved.
Old == {b \in DOMAIN flags : flags[b] = "live"}
New == {b \in DOMAIN newFlags : newFlags[b] = "live"}

\* The buckets where k is.
Places(k) == {b \in Old \cup New : keys[b] = k}

\* No key is lost, doubled or overwritten while the table is rehashed in its
\* own array: a bucket is never part of the old and the new table at once, and
\* all keys, with the one in hand, are different and as many as size says.
NoKeyLost ==
  /\ Old \cap New = {}
  /\ \A b \in Old \cup New :
       /\ keys[b] # hand.key
       /\ keys[b] \in Keys
       /\ Places(keys[b]) = {b}
  /\ size = Cardinality(Old \cup New) + (IF hand = Nobody THEN 0 ELSE 1)

\* The buckets that are probed for a key with hash h in n buckets, the first
\* m of them.
Probed(h, n, m) == {(Start(h, n) + x * Inc(h, n)) % n : x \in 0..m - 1}

\* Every key is found by the probes for it before they meet an empty bucket:
\* in the table when it is not rehashed, in the new one all the time.
Findable ==
  /\ pc \notin {"take", "place"} =>
       \A b \in Old : \E m \in 1..buckets :
         /\ b \in Probed(Hash[keys[b]], buckets, m)
         /\ Probed(Hash[keys[b]], buckets, m) \subseteq Old
  /\ \A b \in New : \E m \in 1..newBuckets :
       /\ b \in Probed(Hash[keys[b]], newBuckets, m)
       /\ Probed(Hash[keys[b]], newBuckets, m) \subseteq New

\* The probes never go round a table without an empty bucket: a put or a get
\* meets its key or an empty bucket before it comes back to where it began, and
\* for a key in hand there is an empty bucket in the new table that the probes
\* for that key come to.
RoomLeft ==
  /\ pc \in {"get", "put"} /\ buckets > 0 => flags[i] = "empty" \/ keys[i] = key \/ ~ Wraps
  /\ pc = "place" => ~ (Probed(Hash[hand.key], newBuckets, newBuckets) \subseteq New)

\* The object that the table holds for k, wherever k is.
Held(k) == IF hand.key = k THEN hand.val
           ELSE IF Places(k) = {} THEN NULL
           ELSE vals[CHOOSE b \in Places(k) : TRUE]

\* The table implements a map: a set_slot changes the object of its name and of
\* no other, in one step, when it comes to its bucket; rehashing changes nothing;
\* and a get_slot answers with the latest object that was set.
Map == INSTANCE SlotMap WITH slots <- [k \in Keys |-> Held(k)],
                             call <- <<key, val>>
ImplementsMap == Map!Spec

\* Every get_slot and set_slot returns, rehashing or not.
CallsReturn == (pc # "idle") ~> (pc = "idle")
=============================================================================
