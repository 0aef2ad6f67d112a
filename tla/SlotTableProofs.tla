-------------------------- MODULE SlotTableProofs --------------------------
(***************************************************************************)
(* The slots of an object for any names, any hash function and any list of *)
(* prime sizes: the hash table of khash.h is a map, also while kh_resize   *)
(* moves the names about in the array that they are in.                    *)
(***************************************************************************)
EXTENDS SlotTable, FunctionTheorems, FiniteSetTheorems, WellFoundedInduction, TLAPS

-----------------------------------------------------------------------------
(***************************************************************************)
(* Remainders.                                                             *)
(***************************************************************************)
LEMMA DivMod ==
  ASSUME NEW a \in Nat, NEW n \in Nat, n > 0
  PROVE  /\ a \div n \in Nat
         /\ a % n \in 0..n - 1
         /\ a = n * (a \div n) + (a % n)
OBVIOUS

LEMMA ModUnique ==
  ASSUME NEW n \in Nat, n > 0, NEW q \in Nat, NEW r \in 0..n - 1
  PROVE  (n * q + r) % n = r
<1> DEFINE a == n * q + r
<1>1. n * q \in Nat
  OBVIOUS
<1>2. a \in Nat
  BY <1>1
<1> HIDE DEF a
<1>3. PICK p \in Nat : p = a \div n
  BY <1>2, DivMod
<1>4. PICK s \in 0..n - 1 : s = a % n
  BY <1>2, DivMod
<1>5. a = n * p + s
  BY <1>2, <1>3, <1>4, DivMod
<1>6. n * q + r = n * p + s
  BY <1>5 DEF a
<1>7. n * (q - p) = s - r
  BY <1>6
<1>8. CASE q = p
  BY <1>8, <1>6, <1>4 DEF a
<1>9. CASE q > p
  <2>1. n * (q - p) >= n
    <3>1. PICK d \in Nat : q - p = d + 1
      BY <1>9
    <3>2. n * (d + 1) = n * d + n /\ n * d \in Nat
      OBVIOUS
    <3> QED
      BY <3>1, <3>2
  <2> QED
    BY <2>1, <1>7
<1>10. CASE p > q
  <2>1. n * (p - q) >= n
    <3>1. PICK d \in Nat : p - q = d + 1
      BY <1>10
    <3>2. n * (d + 1) = n * d + n /\ n * d \in Nat
      OBVIOUS
    <3> QED
      BY <3>1, <3>2
  <2>2. n * (p - q) = r - s
    BY <1>6
  <2> QED
    BY <2>1, <2>2
<1> QED
  BY <1>8, <1>9, <1>10

LEMMA ModPlus ==
  ASSUME NEW a \in Nat, NEW n \in Nat, n > 0, NEW c \in 0..n - 1
  PROVE  (a + c) % n = IF (a % n) + c >= n THEN (a % n) + c - n ELSE (a % n) + c
<1>1. PICK q \in Nat, r \in 0..n - 1 : a = n * q + r /\ r = a % n
  BY DivMod
<1>2. CASE r + c < n
  <2>1. a + c = n * q + (r + c)
    BY <1>1
  <2> QED
    BY <1>1, <1>2, <2>1, ModUnique
<1>3. CASE r + c >= n
  <2>1. a + c = n * (q + 1) + (r + c - n)
    BY <1>1
  <2>2. q + 1 \in Nat /\ r + c - n \in 0..n - 1
    BY <1>3
  <2>3. (n * (q + 1) + (r + c - n)) % n = r + c - n
    BY <2>2, ModUnique
  <2> QED
    BY <1>1, <1>3, <2>1, <2>3
<1> QED
  BY <1>1, <1>2, <1>3

LEMMA LeastNat ==
  ASSUME NEW S \in SUBSET Nat, S # {}
  PROVE  \E m \in S : \A t \in S : m <= t
<1>1. PICK m \in S : \A t \in S : ~ (<<t, m>> \in OpToRel(<, Nat))
  BY WFMin, NatLessThanWellFounded
<1>2. ASSUME NEW t \in S PROVE m <= t
  <2>1. t \in Nat /\ m \in Nat
    OBVIOUS
  <2>2. ~ (t < m)
    BY <1>1, <2>1 DEF OpToRel
  <2> QED
    BY <2>1, <2>2
<1> QED
  BY <1>2

LEMMA DifferMod ==
  ASSUME NEW n \in Nat, n > 0, NEW a \in Nat, NEW b \in Nat, a % n = b % n, a <= b
  PROVE  (b - a) % n = 0
<1>1. PICK p \in Nat, r \in 0..n - 1 : a = n * p + r /\ r = a % n
  BY DivMod
<1>2. PICK q \in Nat, s \in 0..n - 1 : b = n * q + s /\ s = b % n
  BY DivMod
<1>3. b - a = n * (q - p) + 0
  BY <1>1, <1>2
<1>4. q >= p
  <2> SUFFICES ASSUME p > q PROVE FALSE
    OBVIOUS
  <2>1. PICK d \in Nat : p = q + (d + 1)
    <3>1. p - q - 1 \in Nat /\ p = q + (p - q - 1 + 1)
      OBVIOUS
    <3> QED
      BY <3>1
  <2>2. n * p = n * q + n * d + n /\ n * d \in Nat
    BY <2>1
  <2> QED
    BY <2>2, <1>1, <1>2
<1>5. q - p \in Nat
  BY <1>4
<1> QED
  BY <1>3, <1>5, ModUnique

LEMMA Multiple ==
  ASSUME NEW n \in Nat, n > 0, NEW a \in Nat, a % n = 0
  PROVE  \E q \in Nat : a = n * q
<1>1. PICK q \in Nat, r \in 0..n - 1 : a = n * q + r /\ r = a % n
  BY DivMod
<1> QED
  BY <1>1

LEMMA MultipleOfPrime ==
  ASSUME NEW n \in Nat, Prime(n), NEW c \in 1..n - 1, NEW t \in 1..n - 1
  PROVE  (t * c) % n # 0
<1> DEFINE T == {u \in Nat : u > 0 /\ (u * c) % n = 0}
<1>0. n > 1 /\ c \in Nat /\ \A d \in 2..n - 1 : n % d # 0
  BY DEF Prime
<1>1. n \in T
  <2>1. n * c = n * c + 0
    OBVIOUS
  <2>2. (n * c + 0) % n = 0
    BY <1>0, ModUnique
  <2> QED
    BY <1>0, <2>1, <2>2
<1>2. PICK m \in T : \A u \in T : m <= u
  BY <1>1, LeastNat
<1>3. m \in Nat /\ m > 0 /\ (m * c) % n = 0
  OBVIOUS
<1>4. ASSUME NEW u \in T
      PROVE  u % m = 0
  <2>1. PICK q \in Nat, r \in 0..m - 1 : u = m * q + r /\ r = u % m
    BY <1>3, DivMod
  <2>2. u * c = q * (m * c) + r * c
    BY <2>1, <1>0, <1>3
  <2>3. PICK e \in Nat : m * c = n * e
    <3>1. m * c \in Nat
      BY <1>3, <1>0
    <3> QED
      BY <3>1, <1>3, <1>0, Multiple
  <2>4. PICK f \in Nat : u * c = n * f
    <3>1. u * c \in Nat
      BY <1>0
    <3>2. (u * c) % n = 0
      OBVIOUS
    <3> QED
      BY <3>1, <3>2, <1>0, Multiple
  <2>5. q * e \in Nat /\ q * (n * e) = n * (q * e)
    BY <1>0
  <2>6. n * f = n * (q * e) + r * c
    BY <2>2, <2>3, <2>4, <2>5
  <2>7. (r * c) % n = 0
    <3>1. r * c \in Nat /\ n * (q * e) \in Nat /\ n * f \in Nat
      BY <1>0, <2>5, <2>1
    <3>2. n * (q * e) <= n * f
      BY <2>6, <3>1
    <3>3. (n * (q * e) + 0) % n = 0 /\ (n * f + 0) % n = 0
      BY <1>0, <2>5, ModUnique
    <3>4. r * c = n * f - n * (q * e)
      BY <2>6, <3>1
    <3>5. (n * (q * e)) % n = (n * f) % n
      BY <3>1, <3>3
    <3>6. (n * f - n * (q * e)) % n = 0
      BY <3>1, <3>2, <3>5, <1>0, DifferMod
    <3> QED
      BY <3>4, <3>6
  <2>8. r \notin T
    BY <1>2, <2>1
  <2> QED
    BY <2>7, <2>8, <2>1
<1>5. n % m = 0 /\ m <= n
  BY <1>1, <1>2, <1>4
<1>6. m # 1
  <2>1. SUFFICES ASSUME m = 1 PROVE FALSE
    OBVIOUS
  <2>2. c % n = 0
    BY <1>3, <2>1
  <2>3. (n * 0 + c) % n = c
    BY <1>0, ModUnique
  <2> QED
    BY <2>2, <2>3, <1>0
<1>7. m = n
  BY <1>0, <1>3, <1>5, <1>6
<1> QED
  BY <1>2, <1>7
-----------------------------------------------------------------------------
(***************************************************************************)
(* The inductive invariant.                                                *)
(***************************************************************************)
\* The bucket that is probed for a key with hash h after x others.
Bucket(h, n, x) == (Start(h, n) + x * Inc(h, n)) % n

\* The first x buckets that are probed for k are in S.
Leads(k, n, x, S) == \A y \in 0..x - 1 : Bucket(Hash[k], n, y) \in S

\* Each key that has its bucket in S is found by probes that stay in S.
Found(S, n) == \A b \in S : \E x \in 0..n - 1 : /\ b = Bucket(Hash[keys[b]], n, x)
                                                /\ Leads(keys[b], n, x, S)

Full == Old \cup New

Moving == pc \in {"take", "place"}

\* The arguments of the call, and between calls no trace of the last one.
Args == /\ pc = "idle" => key = NULL /\ val = NULL /\ i = 0
        /\ pc # "idle" => key \in Keys
        /\ pc = "get" => val = NULL
        /\ pc \notin {"idle", "get"} => val \in Values

\* Nothing of the last rehash is left.
AtRest == ~ Moving => /\ newBuckets = 0
                      /\ newFlags = Empty(0)
                      /\ j = 0
                      /\ hand = Nobody
                      /\ \A b \in 0..buckets - 1 : flags[b] # "deleted"

\* The buckets below j are done, and so is bucket j when its key is in hand.
UnderWay == Moving => /\ newBuckets > buckets
                      /\ hand = Nobody <=> pc = "take"
                      /\ \A b \in 0..j - 1 : flags[b] # "live"
                      /\ pc = "place" => j < buckets /\ flags[j] # "live"

\* A bucket belongs to one table, and a key to one bucket.
Entries == /\ Old \cap New = {}
           /\ \A b \in Full : /\ keys[b] \in Keys
                              /\ vals[b] \in Values
                              /\ keys[b] # hand.key
                              /\ \A c \in Full : keys[c] = keys[b] => c = b

Counted == size = Cardinality(Full) + (IF hand = Nobody THEN 0 ELSE 1)

\* A call is made for the size that the table has, or is getting.
Bounds == /\ size <= UpperBound(buckets)
          /\ pc = "put" => size < UpperBound(buckets)
          /\ pc = "resize" => size >= UpperBound(buckets)
          /\ Moving => size < UpperBound(newBuckets)

\* The search for the key of the call has met other keys only, and the search
\* for a place for the key in hand only buckets that are taken.
Sought ==
  /\ pc \in {"get", "put"} /\ buckets > 0 =>
       \E x \in 0..buckets - 1 :
         /\ i = Bucket(Hash[key], buckets, x)
         /\ Leads(key, buckets, x, {b \in Old : keys[b] # key})
  /\ pc = "place" =>
       \E x \in 0..newBuckets - 1 :
         /\ i = Bucket(Hash[hand.key], newBuckets, x)
         /\ Leads(hand.key, newBuckets, x, New)

IInv == /\ TypeOK
        /\ Args
        /\ AtRest
        /\ UnderWay
        /\ Entries
        /\ Counted
        /\ Bounds
        /\ ~ Moving => Found(Old, buckets)
        /\ Found(New, newBuckets)
        /\ Sought

-----------------------------------------------------------------------------
(***************************************************************************)
(* The probes.                                                             *)
(***************************************************************************)
(* The numbers of buckets are 0 and primes above 2.                        *)
LEMMA SizeFacts ==
  ASSUME NEW n \in Sizes
  PROVE  /\ n \in Nat
         /\ n > 0 => n > 2 /\ Prime(n)
<1>1. n \in Nat /\ (n # 0 => n # 2 /\ Prime(n))
  BY SizesArePrime
<1> QED
  BY <1>1 DEF Prime

(* The first probe is into the table, and a step is at least one bucket    *)
(* and less than a round.                                                  *)
LEMMA StepFacts ==
  ASSUME NEW h \in Nat, NEW n \in Nat, n > 2
  PROVE  /\ Start(h, n) \in 0..n - 1
         /\ Inc(h, n) \in 1..n - 1
<1>1. h % n \in 0..n - 1
  BY DivMod
<1>2. h % (n - 1) \in 0..n - 2
  <2>1. n - 1 \in Nat /\ n - 1 > 0 /\ n - 1 - 1 = n - 2
    OBVIOUS
  <2> QED
    BY <2>1, DivMod
<1> QED
  BY <1>1, <1>2 DEF Start, Inc

(* The buckets that are probed are those that the arithmetic says.         *)
LEMMA BucketFacts ==
  ASSUME NEW h \in Nat, NEW n \in Nat, n > 2, NEW x \in Nat
  PROVE  /\ Bucket(h, n, x) \in 0..n - 1
         /\ Bucket(h, n, 0) = Start(h, n)
         /\ Bucket(h, n, x + 1) = Forward(Bucket(h, n, x), h, n)
<1> DEFINE s == Start(h, n)
           c == Inc(h, n)
<1>1. s \in 0..n - 1 /\ c \in 1..n - 1
  BY StepFacts
<1> HIDE DEF s, c
<1>2. PICK a \in Nat : a = s + x * c
  <2>1. x * c \in Nat
    BY <1>1
  <2> QED
    BY <1>1, <2>1
<1>3. s + (x + 1) * c = a + c
  <2>1. (x + 1) * c = x * c + c
    BY <1>1
  <2> QED
    BY <1>1, <1>2, <2>1
<1>4. a % n \in 0..n - 1
  BY <1>2, DivMod
<1>5. (s + 0 * c) % n = s
  <2>1. s + 0 * c = n * 0 + s
    BY <1>1
  <2>2. (n * 0 + s) % n = s
    BY <1>1, ModUnique
  <2> QED
    BY <2>1, <2>2
<1>6. (a + c) % n = IF (a % n) + c >= n THEN (a % n) + c - n ELSE (a % n) + c
  BY <1>1, <1>2, ModPlus
<1>7. Bucket(h, n, x) = a % n
  BY <1>2 DEF Bucket, s, c
<1>8. Bucket(h, n, x + 1) = (a + c) % n
  BY <1>3 DEF Bucket, s, c
<1>9. Forward(a % n, h, n) = (a + c) % n
  BY <1>6 DEF Forward, c
<1> QED
  BY <1>4, <1>5, <1>7, <1>8, <1>9 DEF Bucket, s, c

(* In a prime number of buckets less than a round of probes never comes    *)
(* back to a bucket.                                                       *)
LEMMA DifferentBuckets ==
  ASSUME NEW h \in Nat, NEW n \in Nat, n > 2, Prime(n),
         NEW x \in Nat, NEW y \in Nat, x < y, y - x < n
  PROVE  Bucket(h, n, x) # Bucket(h, n, y)
<1> SUFFICES ASSUME Bucket(h, n, x) = Bucket(h, n, y)
             PROVE  FALSE
  OBVIOUS
<1> DEFINE s == Start(h, n)
           c == Inc(h, n)
<1>1. s \in 0..n - 1 /\ c \in 1..n - 1
  BY StepFacts
<1>2. (s + x * c) % n = (s + y * c) % n
  BY DEF Bucket
<1> HIDE DEF s, c
<1>3. PICK d \in 1..n - 1 : y = x + d
  <2>1. y - x \in 1..n - 1 /\ y = x + (y - x)
    OBVIOUS
  <2> QED
    BY <2>1
<1>4. y * c = x * c + d * c /\ x * c \in Nat /\ d * c \in Nat
  BY <1>1, <1>3
<1>5. PICK a \in Nat, b \in Nat : a = s + x * c /\ b = s + y * c
  <2>1. s + x * c \in Nat /\ s + y * c \in Nat
    BY <1>1, <1>4
  <2> QED
    BY <2>1
<1>6. b - a = d * c /\ a <= b
  BY <1>1, <1>4, <1>5
<1>7. (b - a) % n = 0
  <2>1. a % n = b % n
    BY <1>2, <1>5, Zenon
  <2>2. a <= b /\ n > 0
    BY <1>6
  <2> QED
    BY <2>1, <2>2, DifferMod
<1>8. (d * c) % n # 0
  BY <1>1, <1>3, MultipleOfPrime
<1> QED
  BY <1>6, <1>7, <1>8

(* A round of probes comes to n buckets.                                   *)
LEMMA Round ==
  ASSUME NEW h \in Nat, NEW n \in Nat, n > 2, Prime(n),
         NEW S, IsFiniteSet(S), \A y \in 0..n - 1 : Bucket(h, n, y) \in S
  PROVE  n <= Cardinality(S)
<1> DEFINE f == [y \in 0..n - 1 |-> Bucket(h, n, y)]
<1>1. f \in [0..n - 1 -> S]
  OBVIOUS
<1>2. ASSUME NEW x \in 0..n - 1, NEW y \in 0..n - 1, f[x] = f[y]
      PROVE  x = y
  <2>1. Bucket(h, n, x) = Bucket(h, n, y)
    BY <1>2
  <2>2. x \in Nat /\ y \in Nat /\ x - y < n /\ y - x < n
    OBVIOUS
  <2>3. ~ (x < y)
    BY <2>1, <2>2, DifferentBuckets
  <2>4. ~ (y < x)
    BY <2>1, <2>2, DifferentBuckets
  <2> QED
    BY <2>2, <2>3, <2>4
<1> HIDE DEF f
<1>3. f \in Injection(0..n - 1, S)
  BY <1>1, <1>2 DEF Injection, IsInjective
<1>4. Cardinality(0..n - 1) <= Cardinality(S)
  BY <1>3, FS_Injection
<1>5. Cardinality(0..n - 1) = n
  <2>1. 0 \in Int /\ n - 1 \in Int /\ ~ (0 > n - 1)
    OBVIOUS
  <2>2. Cardinality(0..n - 1) = n - 1 - 0 + 1
    BY <2>1, FS_Interval
  <2> QED
    BY <2>2
<1> QED
  BY <1>4, <1>5

-----------------------------------------------------------------------------
(***************************************************************************)
(* The bound of a table, and the next size.                                *)
(***************************************************************************)
(* The bound leaves a bucket empty, and is half of the buckets at least.   *)
LEMMA BoundFacts ==
  ASSUME NEW n \in Nat
  PROVE  /\ UpperBound(n) \in Nat
         /\ n > 2 => UpperBound(n) < n /\ n <= 2 * UpperBound(n)
         /\ UpperBound(0) = 0
BY DEF UpperBound

(* The bound grows with the table.                                         *)
LEMMA BoundGrows ==
  ASSUME NEW m \in Nat, NEW n \in Nat
  PROVE  /\ m <= n => UpperBound(m) <= UpperBound(n)
         /\ m + 2 <= n => UpperBound(m) < UpperBound(n)
BY DEF UpperBound

(* Two sizes of a table are not neighbours.                                *)
LEMMA TwoApart ==
  ASSUME NEW m \in Sizes, NEW n \in Sizes, m < n
  PROVE  m + 2 <= n
<1>1. m \in Nat /\ n \in Nat /\ n > 2 /\ (m > 0 => m > 2)
  BY SizeFacts
<1>2. CASE m = 0
  BY <1>1, <1>2
<1>3. CASE m > 2
  <2>1. Prime(m) /\ Prime(n)
    BY <1>1, <1>3, SizeFacts
  <2>2. 2 \in 2..m - 1 /\ 2 \in 2..n - 1
    BY <1>1, <1>3
  <2>3. m % 2 # 0 /\ n % 2 # 0
    BY <2>1, <2>2 DEF Prime
  <2> QED
    BY <1>1, <2>3
<1> QED
  BY <1>1, <1>2, <1>3

(* A full table has a next size, with a higher bound.                      *)
LEMMA AboveFacts ==
  ASSUME NEW b \in Sizes, UpperBound(b) <= Cardinality(Keys)
  PROVE  /\ Above(b + 1) \in Sizes
         /\ Above(b + 1) > b
         /\ UpperBound(b) < UpperBound(Above(b + 1))
<1>1. PICK n \in Sizes : UpperBound(n) > Cardinality(Keys)
  BY SizesSuffice
<1>2. b \in Nat /\ n \in Nat /\ Cardinality(Keys) \in Nat
  BY SizeFacts, SizesSuffice, FS_CardinalityType
<1>3. n > b
  <2>1. UpperBound(n) > UpperBound(b)
    BY <1>1, <1>2, BoundFacts
  <2>2. n <= b => UpperBound(n) <= UpperBound(b)
    BY <1>2, BoundGrows
  <2> QED
    BY <1>2, <2>1, <2>2, BoundFacts
<1> DEFINE T == {s \in Sizes : s > b + 1}
<1>4. n \in T
  BY <1>2, <1>3, TwoApart
<1>5. T \in SUBSET Nat /\ T # {}
  BY <1>4, SizeFacts
<1>6. PICK m \in T : \A t \in T : m <= t
  BY <1>5, LeastNat
<1>7. m > b + 1 /\ \A t \in Sizes : t > b + 1 => m <= t
  BY <1>6
<1>8. Above(b + 1) \in Sizes /\ Above(b + 1) > b + 1
  BY <1>7 DEF Above
<1>9. Above(b + 1) \in Nat /\ Above(b + 1) > b
  <2>1. Above(b + 1) \in Nat
    BY <1>8, SizeFacts
  <2> QED
    BY <1>2, <1>8, <2>1
<1>10. b + 2 <= Above(b + 1)
  BY <1>8, <1>9, TwoApart
<1>11. UpperBound(b) < UpperBound(Above(b + 1))
  BY <1>2, <1>9, <1>10, BoundGrows
<1> QED
  BY <1>8, <1>9, <1>11

-----------------------------------------------------------------------------
(***************************************************************************)
(* What the invariant says of a search.                                    *)
(***************************************************************************)
(* The buckets of both tables, and the keys in them.                       *)
LEMMA TableFacts ==
  ASSUME IInv
  PROVE  /\ buckets \in Nat /\ (buckets > 0 => buckets > 2 /\ Prime(buckets))
         /\ newBuckets \in Nat /\ (newBuckets > 0 => newBuckets > 2 /\ Prime(newBuckets))
         /\ \A b : b \in Old <=> b \in 0..buckets - 1 /\ flags[b] = "live"
         /\ \A b : b \in New <=> b \in 0..newBuckets - 1 /\ newFlags[b] = "live"
         /\ IsFiniteSet(Old) /\ IsFiniteSet(New) /\ IsFiniteSet(Full)
         /\ Old \subseteq DOMAIN keys /\ New \subseteq DOMAIN keys
         /\ DOMAIN vals = DOMAIN keys
<1>1. TypeOK
  BY DEF IInv
<1>2. buckets \in Nat /\ newBuckets \in Nat
  BY <1>1, SizeFacts DEF TypeOK
<1>3. Old \subseteq 0..buckets - 1 /\ New \subseteq 0..newBuckets - 1
  BY <1>1 DEF TypeOK, Old, New
<1>4. IsFiniteSet(0..buckets - 1) /\ IsFiniteSet(0..newBuckets - 1)
  BY <1>2, FS_Interval
<1>5. IsFiniteSet(Old) /\ IsFiniteSet(New)
  BY <1>3, <1>4, FS_Subset
<1>6. IsFiniteSet(Full)
  BY <1>5, FS_Union DEF Full
<1>7. /\ (buckets > 0 => buckets > 2 /\ Prime(buckets))
      /\ (newBuckets > 0 => newBuckets > 2 /\ Prime(newBuckets))
  BY <1>1, SizeFacts DEF TypeOK
<1>8. /\ \A b : b \in Old <=> b \in 0..buckets - 1 /\ flags[b] = "live"
      /\ \A b : b \in New <=> b \in 0..newBuckets - 1 /\ newFlags[b] = "live"
  BY <1>1 DEF TypeOK, Old, New
<1>9. Old \subseteq DOMAIN keys /\ New \subseteq DOMAIN keys /\ DOMAIN vals = DOMAIN keys
  BY <1>1 DEF TypeOK, Old, New
<1> QED
  BY <1>2, <1>5, <1>6, <1>7, <1>8, <1>9

(* A table at rest has a key for each that size counts, and an empty       *)
(* bucket when it has any.                                                 *)
LEMMA RestFacts ==
  ASSUME IInv, ~ Moving
  PROVE  /\ New = {} /\ Full = Old /\ hand = Nobody
         /\ newBuckets = 0 /\ DOMAIN keys = 0..buckets - 1
         /\ size = Cardinality(Old)
         /\ buckets > 0 => Cardinality(Old) < buckets
         /\ \A b \in 0..buckets - 1 : flags[b] # "empty" => b \in Old
<1>1. TypeOK /\ AtRest /\ Counted /\ Bounds
  BY DEF IInv
<1>2. newBuckets = 0 /\ hand = Nobody
  BY <1>1 DEF AtRest
<1>3. New = {} /\ Full = Old
  BY <1>2, TableFacts DEF Full
<1>4. Cardinality(Old) \in Nat
  BY TableFacts, FS_CardinalityType
<1>5. size = Cardinality(Old)
  BY <1>1, <1>2, <1>3, <1>4 DEF Counted
<1>6. buckets > 0 => Cardinality(Old) < buckets
  <2>1. SUFFICES ASSUME buckets > 0
                 PROVE  Cardinality(Old) < buckets
    OBVIOUS
  <2>2. UpperBound(buckets) \in Nat /\ UpperBound(buckets) < buckets
    BY <2>1, TableFacts, BoundFacts
  <2>3. size <= UpperBound(buckets)
    BY <1>1 DEF Bounds
  <2> QED
    BY <2>2, <2>3, <1>4, <1>5, TableFacts
<1>7. ASSUME NEW b \in 0..buckets - 1, flags[b] # "empty"
      PROVE  b \in Old
  <2>1. flags[b] \in Flag /\ flags[b] # "deleted"
    BY <1>1 DEF TypeOK, AtRest
  <2>2. flags[b] = "live"
    BY <1>7, <2>1 DEF Flag
  <2> QED
    BY <2>2, TableFacts
<1>8. DOMAIN keys = 0..buckets - 1
  BY <1>1, <1>2 DEF TypeOK
<1> QED
  BY <1>2, <1>3, <1>5, <1>6, <1>7, <1>8

(* A search is in the table.                                               *)
LEMMA InTable ==
  ASSUME IInv, pc \in {"get", "put"}, buckets > 0
  PROVE  /\ i \in 0..buckets - 1
         /\ i \in DOMAIN keys
         /\ flags[i] \in {"empty", "live"}
<1>1. ~ Moving /\ key \in Keys
  BY DEF IInv, Args, Moving
<1>2. Hash[key] \in Nat
  BY <1>1, HashIsNat
<1>3. PICK x \in 0..buckets - 1 : i = Bucket(Hash[key], buckets, x)
  BY DEF IInv, Sought
<1>4. buckets \in Nat /\ buckets > 2
  BY TableFacts
<1>5. i \in 0..buckets - 1
  <2>1. x \in Nat
    OBVIOUS
  <2>2. Bucket(Hash[key], buckets, x) \in 0..buckets - 1
    BY <1>2, <1>4, <2>1, BucketFacts
  <2> QED
    BY <1>3, <2>2
<1>6. i \in DOMAIN keys /\ (flags[i] # "empty" => i \in Old)
  BY <1>1, <1>5, RestFacts
<1> QED
  BY <1>5, <1>6, TableFacts

(* A probe that meets another key is not the last of a round: the next one *)
(* is into a bucket that was not probed yet.                               *)
LEMMA NextIsNew ==
  ASSUME IInv, pc \in {"get", "put"}, buckets > 0, flags[i] # "empty", keys[i] # key
  PROVE  /\ i \in Old
         /\ ~ Wraps
         /\ NextProbe \in 0..buckets - 1
         /\ \E x \in 0..buckets - 1 :
              /\ NextProbe = Bucket(Hash[key], buckets, x)
              /\ Leads(key, buckets, x, {b \in Old : keys[b] # key})
<1> DEFINE h == Hash[key]
           Others == {b \in Old : keys[b] # key}
<1>1. ~ Moving /\ key \in Keys
  BY DEF IInv, Args, Moving
<1>2. h \in Nat
  BY <1>1, HashIsNat
<1>3. buckets \in Nat /\ buckets > 2 /\ Prime(buckets)
  BY TableFacts
<1>4. PICK x \in 0..buckets - 1 : i = Bucket(h, buckets, x) /\ Leads(key, buckets, x, Others)
  BY DEF IInv, Sought
<1> HIDE DEF h
<1>5. i \in 0..buckets - 1
  BY <1>2, <1>3, <1>4, BucketFacts
<1>6. i \in Old
  BY <1>1, <1>5, RestFacts
<1>7. \A y \in 0..x : Bucket(h, buckets, y) \in Others
  BY <1>4, <1>6 DEF Leads, h
<1>8. x + 1 < buckets
  <2>1. SUFFICES ASSUME x + 1 >= buckets
                 PROVE  FALSE
    BY <1>3
  <2>2. \A y \in 0..buckets - 1 : Bucket(h, buckets, y) \in Old
    BY <2>1, <1>7, <1>3
  <2>3. buckets <= Cardinality(Old)
    BY <1>2, <1>3, <2>2, TableFacts, Round
  <2>4. Cardinality(Old) \in Nat /\ Cardinality(Old) < buckets
    BY <1>1, TableFacts, RestFacts, FS_CardinalityType
  <2> QED
    BY <2>3, <2>4, <1>3
<1>9. NextProbe = Bucket(h, buckets, x + 1) /\ NextProbe \in 0..buckets - 1
  <2>1. x \in Nat /\ x + 1 \in Nat
    OBVIOUS
  <2>2. NextProbe = Forward(Bucket(h, buckets, x), h, buckets)
    BY <1>4 DEF NextProbe, h
  <2>3. NextProbe = Bucket(h, buckets, x + 1)
    BY <1>2, <1>3, <2>1, <2>2, BucketFacts
  <2> QED
    BY <1>2, <1>3, <2>1, <2>3, BucketFacts
<1>10. ~ Wraps
  <2>1. 0 \in Nat /\ x + 1 \in Nat /\ 0 < x + 1 /\ x + 1 - 0 < buckets
    BY <1>8
  <2>2. Bucket(h, buckets, 0) # Bucket(h, buckets, x + 1)
    BY <1>2, <1>3, <2>1, DifferentBuckets
  <2>3. Bucket(h, buckets, 0) = Start(h, buckets)
    BY <1>2, <1>3, BucketFacts
  <2> QED
    BY <1>9, <2>2, <2>3 DEF Wraps, h
<1>11. x + 1 \in 0..buckets - 1 /\ Leads(key, buckets, x + 1, Others)
  <2>1. x + 1 \in 0..buckets - 1 /\ x + 1 - 1 = x
    BY <1>3, <1>8
  <2>2. Leads(key, buckets, x + 1, Others)
    BY <1>7, <2>1 DEF Leads, h
  <2> QED
    BY <2>1, <2>2
<1> QED
  BY <1>6, <1>9, <1>10, <1>11 DEF h

(* A probe that meets an empty bucket shows that no bucket has the key.    *)
LEMMA EmptyMeansAbsent ==
  ASSUME IInv, pc \in {"get", "put"}, buckets > 0 => flags[i] = "empty"
  PROVE  \A b \in Full : keys[b] # key
<1>1. ~ Moving /\ key \in Keys
  BY DEF IInv, Args, Moving
<1>2. SUFFICES ASSUME NEW b \in Old, keys[b] = key
               PROVE  FALSE
  BY <1>1, RestFacts
<1>3. buckets \in Nat /\ buckets > 0
  BY TableFacts
<1>4. PICK x \in 0..buckets - 1 :
        /\ i = Bucket(Hash[key], buckets, x)
        /\ Leads(key, buckets, x, {c \in Old : keys[c] # key})
  BY <1>3 DEF IInv, Sought
<1>5. PICK z \in 0..buckets - 1 :
        /\ b = Bucket(Hash[key], buckets, z)
        /\ Leads(key, buckets, z, Old)
  <2>1. Found(Old, buckets)
    BY <1>1 DEF IInv
  <2> QED
    BY <2>1, <1>2 DEF Found
<1>6. i \notin Old
  BY <1>3, TableFacts
<1>7. CASE z < x
  <2>1. b \in {c \in Old : keys[c] # key}
    BY <1>4, <1>5, <1>7 DEF Leads
  <2> QED
    BY <1>2, <2>1
<1>8. CASE x < z
  BY <1>4, <1>5, <1>6, <1>8 DEF Leads
<1>9. CASE x = z
  BY <1>4, <1>5, <1>6, <1>9
<1> QED
  BY <1>7, <1>8, <1>9

(* While a key is in hand the new table has an empty bucket.               *)
LEMMA RoomForHand ==
  ASSUME IInv, pc = "place"
  PROVE  /\ newBuckets > 2 /\ hand.key \in Keys /\ hand.val \in Values /\ hand # Nobody
         /\ Cardinality(New) < newBuckets
<1>1. TypeOK /\ UnderWay /\ Counted /\ Bounds /\ Moving
  BY DEF IInv, Moving
<1>2. newBuckets > 2 /\ newBuckets \in Nat
  BY <1>1, TableFacts DEF UnderWay, TypeOK
<1>3. hand # Nobody
  BY <1>1 DEF UnderWay
<1>4. hand.key \in Keys /\ hand.val \in Values
  BY <1>1, <1>3 DEF TypeOK
<1>5. Cardinality(New) <= Cardinality(Full)
  BY TableFacts, FS_Subset DEF Full
<1>6. Cardinality(New) \in Nat /\ Cardinality(Full) \in Nat
  BY TableFacts, FS_CardinalityType
<1>7. size = Cardinality(Full) + 1
  BY <1>1, <1>3 DEF Counted
<1>8. size < UpperBound(newBuckets) /\ UpperBound(newBuckets) < newBuckets
      /\ UpperBound(newBuckets) \in Nat
  BY <1>1, <1>2, BoundFacts DEF Bounds
<1>9. Cardinality(New) < newBuckets
  BY <1>2, <1>5, <1>6, <1>7, <1>8
<1> QED
  BY <1>2, <1>3, <1>4, <1>9

(* The search for a place for it, when it meets a bucket that is taken,    *)
(* goes on to one that was not probed yet.                                 *)
LEMMA NextPlaceIsNew ==
  ASSUME IInv, pc = "place", newFlags[i] # "empty"
  PROVE  \E x \in 0..newBuckets - 1 :
           /\ Forward(i, Hash[hand.key], newBuckets) = Bucket(Hash[hand.key], newBuckets, x)
           /\ Leads(hand.key, newBuckets, x, New)
<1> DEFINE h == Hash[hand.key]
           n == newBuckets
<1>1. h \in Nat
  BY RoomForHand, HashIsNat
<1>2. n \in Nat /\ n > 2 /\ Prime(n)
  BY RoomForHand, TableFacts
<1>3. PICK x \in 0..n - 1 : i = Bucket(h, n, x) /\ Leads(hand.key, n, x, New)
  BY DEF IInv, Sought
<1> HIDE DEF h
<1>4. i \in 0..n - 1
  BY <1>1, <1>2, <1>3, BucketFacts
<1>5. i \in New
  <2>1. newFlags[i] \in {"empty", "live"}
    BY <1>4 DEF IInv, TypeOK
  <2> QED
    BY <1>4, <2>1, TableFacts
<1>6. \A y \in 0..x : Bucket(h, n, y) \in New
  BY <1>3, <1>5 DEF Leads, h
<1>7. x + 1 < n
  <2>1. SUFFICES ASSUME x + 1 >= n
                 PROVE  FALSE
    BY <1>2
  <2>2. \A y \in 0..n - 1 : Bucket(h, n, y) \in New
    BY <2>1, <1>6, <1>2
  <2>3. n <= Cardinality(New)
    BY <1>1, <1>2, <2>2, TableFacts, Round
  <2>4. Cardinality(New) \in Nat /\ Cardinality(New) < n
    BY TableFacts, RoomForHand, FS_CardinalityType
  <2> QED
    BY <2>3, <2>4, <1>2
<1>8. Forward(i, h, n) = Bucket(h, n, x + 1)
  <2>1. x \in Nat
    OBVIOUS
  <2> QED
    BY <1>1, <1>2, <1>3, <2>1, BucketFacts
<1>9. x + 1 \in 0..n - 1 /\ Leads(hand.key, n, x + 1, New)
  <2>1. x + 1 \in 0..n - 1 /\ x + 1 - 1 = x
    BY <1>2, <1>7
  <2>2. Leads(hand.key, n, x + 1, New)
    BY <1>6, <2>1 DEF Leads, h
  <2> QED
    BY <2>1, <2>2
<1> QED
  BY <1>8, <1>9 DEF h

-----------------------------------------------------------------------------
(***************************************************************************)
(* The steps of calls that do not rehash.                                  *)
(***************************************************************************)
(* What the invariant says of the table stays true while the table does    *)
(* not change.                                                             *)
LEMMA SameTable ==
  ASSUME IInv, UNCHANGED <<table, rehash>>, ~ Moving, ~ Moving'
  PROVE  /\ AtRest' /\ UnderWay' /\ Entries' /\ Counted'
         /\ (~ Moving => Found(Old, buckets))'
         /\ Found(New, newBuckets)'
<1>1. Old' = Old /\ New' = New /\ Full' = Full
  BY DEF table, rehash, Old, New, Full
<1>2. /\ keys' = keys /\ vals' = vals /\ flags' = flags /\ size' = size
      /\ buckets' = buckets /\ newBuckets' = newBuckets /\ newFlags' = newFlags
      /\ j' = j /\ hand' = hand
  BY DEF table, rehash
<1>3. AtRest'
  BY <1>2 DEF IInv, AtRest
<1>4. UnderWay'
  BY DEF UnderWay
<1>5. Entries'
  BY <1>1, <1>2 DEF IInv, Entries
<1>6. Counted'
  BY <1>1, <1>2 DEF IInv, Counted
<1>7. Found(Old, buckets)' /\ Found(New, newBuckets)'
  BY <1>1, <1>2 DEF IInv, Found
<1> QED
  BY <1>3, <1>4, <1>5, <1>6, <1>7

(* A search that begins has met no bucket.                                 *)
LEMMA SearchBegins ==
  ASSUME NEW k \in Keys, NEW n \in Nat, n > 2, NEW S
  PROVE  /\ 0 \in 0..n - 1
         /\ Start(Hash[k], n) = Bucket(Hash[k], n, 0)
         /\ Start(Hash[k], n) \in Nat
         /\ Leads(k, n, 0, S)
<1>1. Hash[k] \in Nat
  BY HashIsNat
<1>2. Start(Hash[k], n) = Bucket(Hash[k], n, 0) /\ Start(Hash[k], n) \in Nat
  BY <1>1, BucketFacts, StepFacts
<1> QED
  BY <1>2 DEF Leads

(* sk_object_get_slot calls kh_get.                                        *)
LEMMA GetSlotStep ==
  ASSUME IInv, NEW k \in Keys, GetSlot(k)
  PROVE  IInv'
<1> USE DEF GetSlot
<1>0. /\ UNCHANGED <<table, rehash>> /\ ~ Moving /\ ~ Moving'
      /\ buckets' = buckets /\ flags' = flags /\ keys' = keys /\ size' = size
  BY DEF Moving, table, rehash
<1>1. TypeOK'
  <2>1. buckets > 0 => Start(Hash[k], buckets) \in Nat
    BY TableFacts, SearchBegins
  <2>2. i' \in Nat
    BY <2>1, TableFacts
  <2> QED
    BY <2>2 DEF IInv, TypeOK, table, rehash
<1>2. Args'
  BY DEF IInv, Args
<1>3. Bounds'
  BY <1>0 DEF IInv, Bounds, Moving
<1>4. Sought'
  <2>1. SUFFICES ASSUME buckets > 0
                 PROVE  \E x \in 0..buckets - 1 :
                          /\ i' = Bucket(Hash[k], buckets, x)
                          /\ Leads(k, buckets, x, {b \in Old' : keys'[b] # k})
    BY <1>0 DEF Sought
  <2> QED
    BY <2>1, TableFacts, SearchBegins
<1> QED
  BY <1>0, <1>1, <1>2, <1>3, <1>4, SameTable DEF IInv

(* sk_object_set_slot calls kh_put.                                        *)
LEMMA SetSlotStep ==
  ASSUME IInv, NEW k \in Keys, NEW v \in Values, SetSlot(k, v)
  PROVE  IInv'
<1> USE DEF SetSlot
<1>0. /\ UNCHANGED <<table, rehash>> /\ ~ Moving /\ ~ Moving'
      /\ buckets' = buckets /\ flags' = flags /\ keys' = keys /\ size' = size
  BY DEF Moving, table, rehash
<1>1. size < UpperBound(buckets) => buckets > 2
  <2>1. UpperBound(0) = 0 /\ size \in Nat
    BY BoundFacts DEF IInv, TypeOK
  <2> QED
    BY <2>1, TableFacts
<1>2. size \in Nat /\ UpperBound(buckets) \in Nat
  BY TableFacts, BoundFacts DEF IInv, TypeOK
<1>3. TypeOK'
  <2>1. i' \in Nat
    <3>1. i \in Nat
      BY DEF IInv, TypeOK
    <3>2. buckets > 2 => Start(Hash[k], buckets) \in Nat
      BY TableFacts, SearchBegins
    <3> QED
      BY <3>1, <3>2, <1>1, <1>2
  <2> QED
    BY <2>1 DEF IInv, TypeOK, table, rehash
<1>4. Args'
  BY DEF IInv, Args
<1>5. Bounds'
  BY <1>0, <1>2 DEF IInv, Bounds, Moving
<1>6. Sought'
  <2>1. SUFFICES ASSUME pc' = "put"
                 PROVE  \E x \in 0..buckets - 1 :
                          /\ i' = Bucket(Hash[k], buckets, x)
                          /\ Leads(k, buckets, x, {b \in Old' : keys'[b] # k})
    BY <1>0 DEF Sought
  <2>2. buckets > 2 /\ i' = Start(Hash[k], buckets)
    BY <2>1, <1>1, <1>2
  <2> QED
    BY <2>2, TableFacts, SearchBegins
<1> QED
  BY <1>0, <1>3, <1>4, <1>5, <1>6, SameTable DEF IInv

(* kh_get probes a bucket.                                                 *)
LEMMA GetProbeStep ==
  ASSUME IInv, GetProbe
  PROVE  IInv'
<1> USE DEF GetProbe
<1>0. /\ UNCHANGED <<table, rehash>> /\ ~ Moving /\ ~ Moving'
      /\ buckets' = buckets /\ flags' = flags /\ keys' = keys /\ size' = size
      /\ Old' = Old /\ key \in Keys
  BY DEF Moving, table, rehash, Answer, Return, Old, IInv, Args
<1>1. Bounds'
  BY <1>0 DEF IInv, Bounds, Moving, Answer, Return
<1>2. CASE pc' = "get"
  <2>1. /\ buckets > 0 /\ flags[i] # "empty" /\ keys[i] # key
        /\ i' = NextProbe /\ UNCHANGED <<pc, key, val, got>>
    BY <1>2, TableFacts DEF Answer, Return
  <2>2. NextProbe \in 0..buckets - 1
    BY <2>1, NextIsNew
  <2>3. TypeOK'
    BY <2>1, <2>2 DEF IInv, TypeOK, table, rehash
  <2>4. Args'
    BY <2>1 DEF IInv, Args
  <2>5. Sought'
    BY <2>1, <1>0, NextIsNew DEF Sought
  <2> QED
    BY <2>3, <2>4, <2>5, <1>0, <1>1, SameTable DEF IInv
<1>3. CASE pc' # "get"
  <2>1. Return
    BY <1>3 DEF Answer
  <2>2. got' \in Values \cup {NULL}
    <3>1. CASE buckets > 0 /\ flags[i] # "empty" /\ keys[i] = key
      <4>1. i \in DOMAIN keys
        BY <3>1, InTable
      <4>2. vals[i] \in Values \cup {NULL}
        BY <4>1 DEF IInv, TypeOK
      <4> QED
        BY <4>2, <3>1, TableFacts DEF Answer
    <3>2. CASE ~ (buckets > 0 /\ flags[i] # "empty" /\ keys[i] = key)
      BY <1>3, <3>2, TableFacts DEF Answer
    <3> QED
      BY <3>1, <3>2
  <2>3. TypeOK'
    BY <2>1, <2>2 DEF IInv, TypeOK, Return, table, rehash
  <2>4. Args' /\ Sought'
    BY <2>1 DEF Args, Sought, Return
  <2> QED
    BY <2>3, <2>4, <1>0, <1>1, SameTable DEF IInv
<1> QED
  BY <1>2, <1>3

(* A put is into a table with buckets.                                     *)
LEMMA PutFacts ==
  ASSUME IInv, pc = "put"
  PROVE  /\ buckets > 0 /\ size \in Nat /\ size < UpperBound(buckets)
         /\ UpperBound(buckets) \in Nat
         /\ key \in Keys /\ val \in Values
<1>1. size \in Nat /\ size < UpperBound(buckets) /\ UpperBound(buckets) \in Nat
  BY TableFacts, BoundFacts DEF IInv, TypeOK, Bounds
<1>2. buckets > 0
  BY <1>1, TableFacts, BoundFacts
<1> QED
  BY <1>1, <1>2 DEF IInv, Args

(* kh_put puts a new key into the first empty bucket.                      *)
LEMMA PutNewStep ==
  ASSUME IInv, PutProbe, flags[i] = "empty"
  PROVE  IInv'
<1> USE DEF PutProbe
<1>0. /\ pc = "put" /\ pc' = "idle" /\ key' = NULL /\ val' = NULL /\ i' = 0
      /\ keys' = [keys EXCEPT ![i] = key]
      /\ flags' = [flags EXCEPT ![i] = "live"]
      /\ vals' = [vals EXCEPT ![i] = val]
      /\ size' = size + 1
      /\ buckets' = buckets /\ newBuckets' = newBuckets /\ newFlags' = newFlags
      /\ j' = j /\ hand' = hand /\ got' = got
  BY DEF Return, rehash
<1>1. /\ buckets > 0 /\ size \in Nat /\ size < UpperBound(buckets)
      /\ UpperBound(buckets) \in Nat /\ key \in Keys /\ val \in Values
  BY <1>0, PutFacts
<1>2. /\ i \in 0..buckets - 1 /\ i \in DOMAIN keys /\ i \in DOMAIN vals /\ i \in DOMAIN flags
      /\ ~ Moving /\ ~ Moving'
  BY <1>0, <1>1, InTable, TableFacts DEF Moving, IInv, TypeOK
<1>3. /\ New = {} /\ Full = Old /\ hand = Nobody /\ newBuckets = 0
      /\ i \notin Old
  BY <1>0, <1>2, RestFacts, TableFacts
<1>4. TypeOK /\ AtRest /\ Entries /\ Counted /\ Bounds /\ Found(Old, buckets)
  BY <1>2 DEF IInv
<1>5. Old' = Old \cup {i} /\ New' = {} /\ Full' = Old \cup {i}
  <2>1. Old' = Old \cup {i}
    BY <1>0, <1>2 DEF Old
  <2>2. New' = New
    BY <1>0 DEF New
  <2> QED
    BY <2>1, <2>2, <1>3 DEF Full
<1>6. /\ keys'[i] = key /\ vals'[i] = val
      /\ \A b \in Old : keys'[b] = keys[b] /\ vals'[b] = vals[b] /\ keys[b] # key
  BY <1>0, <1>1, <1>2, <1>3, TableFacts, EmptyMeansAbsent
<1>7. TypeOK'
  <2>1. DOMAIN flags' = DOMAIN flags /\ DOMAIN keys' = DOMAIN keys /\ DOMAIN vals' = DOMAIN vals
    BY <1>0
  <2>2. \A b \in DOMAIN flags' : flags'[b] \in Flag
    BY <1>0, <1>4, <2>1 DEF TypeOK, Flag
  <2>3. \A b \in DOMAIN keys' : keys'[b] \in Keys \cup {NULL} /\ vals'[b] \in Values \cup {NULL}
    BY <1>0, <1>1, <1>4, <2>1 DEF TypeOK
  <2> QED
    BY <2>1, <2>2, <2>3, <1>0, <1>1, <1>4 DEF TypeOK
<1>8. Args' /\ UnderWay' /\ Sought'
  BY <1>0, <1>2 DEF Args, UnderWay, Sought
<1>9. AtRest'
  BY <1>0, <1>2, <1>4 DEF AtRest, TypeOK
<1>10. Entries'
  <2>1. \A b \in Old : keys[b] \in Keys /\ vals[b] \in Values /\ \A c \in Old : keys[c] = keys[b] => c = b
    BY <1>3, <1>4 DEF Entries
  <2>2. hand'.key = NULL /\ NULL \notin Keys
    BY <1>0, <1>3, NullIsNoKey DEF Nobody
  <2>3. \A b \in Full' : keys'[b] \in Keys /\ vals'[b] \in Values
    BY <2>1, <1>1, <1>5, <1>6
  <2>4. \A b \in Full' : \A c \in Full' : keys'[c] = keys'[b] => c = b
    BY <2>1, <1>5, <1>6
  <2>5. \A b \in Full' : keys'[b] # hand'.key
    BY <2>2, <2>3
  <2> QED
    BY <2>3, <2>4, <2>5, <1>5 DEF Entries
<1>11. Counted'
  <2>1. Cardinality(Old \cup {i}) = Cardinality(Old) + 1
    BY <1>3, TableFacts, FS_AddElement
  <2>2. size = Cardinality(Old)
    BY <1>2, RestFacts
  <2>3. Cardinality(Old) \in Nat
    BY TableFacts, FS_CardinalityType
  <2> QED
    BY <2>1, <2>2, <2>3, <1>0, <1>3, <1>5 DEF Counted
<1>12. Bounds'
  BY <1>0, <1>1, <1>2 DEF Bounds
<1>13. Found(Old, buckets)'
  <2>1. ASSUME NEW b \in Old
        PROVE  \E x \in 0..buckets - 1 : /\ b = Bucket(Hash[keys'[b]], buckets, x)
                                         /\ Leads(keys'[b], buckets, x, Old')
    <3>1. PICK x \in 0..buckets - 1 : /\ b = Bucket(Hash[keys[b]], buckets, x)
                                      /\ Leads(keys[b], buckets, x, Old)
      BY <1>4 DEF Found
    <3>2. Leads(keys[b], buckets, x, Old')
      BY <3>1, <1>5 DEF Leads
    <3> QED
      BY <3>1, <3>2, <1>6
  <2>2. \E x \in 0..buckets - 1 : /\ i = Bucket(Hash[keys'[i]], buckets, x)
                                  /\ Leads(keys'[i], buckets, x, Old')
    <3>1. PICK x \in 0..buckets - 1 : /\ i = Bucket(Hash[key], buckets, x)
                                      /\ Leads(key, buckets, x, {b \in Old : keys[b] # key})
      BY <1>0, <1>1 DEF IInv, Sought
    <3>2. Leads(key, buckets, x, Old')
      BY <3>1, <1>5 DEF Leads
    <3> QED
      BY <3>1, <3>2, <1>6
  <2> QED
    BY <2>1, <2>2, <1>0, <1>5 DEF Found
<1>14. Found(New, newBuckets)'
  BY <1>5 DEF Found
<1> QED
  BY <1>7, <1>8, <1>9, <1>10, <1>11, <1>12, <1>13, <1>14 DEF IInv

(* An old key keeps its bucket, and the search goes on otherwise.          *)
LEMMA PutOldStep ==
  ASSUME IInv, PutProbe, flags[i] # "empty"
  PROVE  IInv'
<1> USE DEF PutProbe
<1>0. /\ pc = "put" /\ keys' = keys /\ flags' = flags /\ size' = size
      /\ buckets' = buckets /\ newBuckets' = newBuckets /\ newFlags' = newFlags
      /\ j' = j /\ hand' = hand /\ got' = got
  BY DEF rehash
<1>1. /\ buckets > 0 /\ size \in Nat /\ size < UpperBound(buckets)
      /\ UpperBound(buckets) \in Nat /\ key \in Keys /\ val \in Values
  BY <1>0, PutFacts
<1>2. /\ i \in 0..buckets - 1 /\ i \in DOMAIN keys /\ i \in DOMAIN vals
      /\ ~ Moving
  BY <1>0, <1>1, InTable, TableFacts DEF Moving
<1>3. TypeOK /\ Args /\ AtRest /\ Entries /\ Counted /\ Bounds /\ Found(Old, buckets)
      /\ Found(New, newBuckets)
  BY <1>2 DEF IInv
<1>4. Old' = Old /\ New' = New /\ Full' = Full
  BY <1>0 DEF Old, New, Full
<1>5. CASE keys[i] # key
  <2>1. ~ Wraps /\ NextProbe \in 0..buckets - 1
    BY <1>0, <1>1, <1>5, NextIsNew
  <2>2. i' = NextProbe /\ UNCHANGED <<pc, key, val, vals>> /\ ~ Moving'
    BY <2>1, <1>5, <1>2 DEF Moving
  <2>3. UNCHANGED <<table, rehash>>
    BY <2>2, <1>0 DEF table, rehash
  <2>4. TypeOK'
    BY <2>1, <2>2, <1>0, <1>3 DEF TypeOK
  <2>5. Args' /\ Bounds'
    BY <2>2, <1>0, <1>3 DEF Args, Bounds, Moving
  <2>6. Sought'
    BY <2>2, <1>0, <1>1, <1>4, <1>5, NextIsNew DEF Sought
  <2> QED
    BY <2>2, <2>3, <2>4, <2>5, <2>6, <1>2, SameTable DEF IInv
<1>6. CASE keys[i] = key
  <2>1. /\ pc' = "idle" /\ key' = NULL /\ val' = NULL /\ i' = 0 /\ ~ Moving'
        /\ vals' = [vals EXCEPT ![i] = val]
    BY <1>6 DEF Return, Moving
  <2>2. \A b \in DOMAIN vals : vals'[b] = IF b = i THEN val ELSE vals[b]
    BY <2>1
  <2>3. TypeOK'
    <3>1. DOMAIN vals' = DOMAIN vals
      BY <2>1
    <3>2. \A b \in DOMAIN keys' : keys'[b] \in Keys \cup {NULL} /\ vals'[b] \in Values \cup {NULL}
      BY <2>2, <1>0, <1>1, <1>3 DEF TypeOK
    <3> QED
      BY <2>1, <3>1, <3>2, <1>0, <1>3 DEF TypeOK
  <2>4. Args' /\ UnderWay' /\ Sought'
    BY <2>1 DEF Args, UnderWay, Sought, Moving
  <2>5. AtRest'
    BY <2>1, <1>0, <1>2, <1>3 DEF AtRest
  <2>6. Entries'
    <3>1. \A b \in Full : vals'[b] \in Values
      BY <2>2, <1>1, <1>3, TableFacts DEF Entries, Full
    <3> QED
      BY <3>1, <1>0, <1>3, <1>4 DEF Entries
  <2>7. Counted'
    BY <1>0, <1>3, <1>4 DEF Counted
  <2>8. Bounds'
    BY <2>1, <1>0, <1>3 DEF Bounds
  <2>9. Found(Old, buckets)' /\ Found(New, newBuckets)'
    BY <1>0, <1>3, <1>4 DEF Found
  <2> QED
    BY <2>3, <2>4, <2>5, <2>6, <2>7, <2>8, <2>9 DEF IInv
<1> QED
  BY <1>5, <1>6

-----------------------------------------------------------------------------
(***************************************************************************)
(* The steps of kh_resize.                                                 *)
(***************************************************************************)
(* The keys of a table are no more than there are.                         *)
LEMMA NoMoreThanKeys ==
  ASSUME IInv
  PROVE  Cardinality(Full) <= Cardinality(Keys)
<1> DEFINE f == [b \in Full |-> keys[b]]
<1>1. f \in [Full -> Keys] /\ \A b \in Full : \A c \in Full : f[b] = f[c] => b = c
  BY DEF IInv, Entries
<1> HIDE DEF f
<1>2. f \in Injection(Full, Keys)
  BY <1>1 DEF Injection, IsInjective
<1> QED
  BY <1>2, SizesSuffice, FS_Injection

(* A table that is full to its bound gets the next size.                   *)
LEMMA ResizeFacts ==
  ASSUME IInv, Resize
  PROVE  \E n \in Sizes :
           /\ n = Above(Wanted) /\ n > buckets /\ n \in Nat
           /\ size < UpperBound(n)
           /\ newBuckets' = n
           /\ newFlags' = Empty(n)
           /\ keys' = Grown(keys, n)
           /\ vals' = Grown(vals, n)
           /\ j' = 0
           /\ pc' = "take"
<1>1. /\ ~ Moving /\ size \in Nat /\ buckets \in Nat /\ buckets \in Sizes
      /\ size >= UpperBound(buckets) /\ size <= UpperBound(buckets)
      /\ UpperBound(buckets) \in Nat
  BY TableFacts, BoundFacts DEF Resize, Moving, IInv, TypeOK, Bounds
<1>2. size = UpperBound(buckets)
  BY <1>1
<1>3. Wanted = buckets + 1
  <2>1. buckets <= 2 * UpperBound(buckets)
    BY <1>1, TableFacts, BoundFacts
  <2> QED
    BY <2>1, <1>1, <1>2 DEF Wanted
<1>4. UpperBound(buckets) <= Cardinality(Keys)
  BY <1>1, <1>2, RestFacts, NoMoreThanKeys
<1>5. PICK n \in Sizes : n = Above(Wanted) /\ n > buckets /\ UpperBound(buckets) < UpperBound(n)
  BY <1>1, <1>3, <1>4, AboveFacts
<1>6. n \in Nat /\ UpperBound(n) \in Nat
  BY SizeFacts, BoundFacts
<1>7. size < UpperBound(n) /\ ~ (size >= UpperBound(n))
  BY <1>1, <1>2, <1>5, <1>6
<1> QED
  BY <1>5, <1>6, <1>7 DEF Resize

(* kh_resize makes room for the new table in the arrays.                   *)
LEMMA ResizeStep ==
  ASSUME IInv, Resize
  PROVE  IInv'
<1> USE DEF Resize
<1>1. PICK n \in Sizes :
           /\ n > buckets /\ n \in Nat
           /\ size < UpperBound(n)
           /\ newBuckets' = n
           /\ newFlags' = Empty(n)
           /\ keys' = Grown(keys, n)
           /\ vals' = Grown(vals, n)
           /\ j' = 0
           /\ pc' = "take"
  BY ResizeFacts
<1>2. newBuckets' > buckets /\ size < UpperBound(newBuckets')
  BY <1>1
<1>3. /\ buckets' = buckets /\ size' = size /\ flags' = flags /\ hand' = hand
      /\ key' = key /\ val' = val /\ got' = got /\ i' = i
      /\ ~ Moving /\ Moving'
  <2>1. ~ (size >= UpperBound(Above(Wanted)))
    BY <1>1, ResizeFacts, BoundFacts DEF IInv, TypeOK
  <2> QED
    BY <2>1, <1>1 DEF Moving
<1>4. TypeOK /\ Args /\ AtRest /\ Entries /\ Counted /\ Bounds
  BY <1>3 DEF IInv
<1>5. /\ DOMAIN keys = 0..buckets - 1 /\ DOMAIN vals = 0..buckets - 1
      /\ buckets \in Nat /\ hand = Nobody /\ New = {} /\ Full = Old
  BY <1>3, TableFacts, RestFacts
<1>6. /\ \A b \in 0..n - 1 : /\ keys'[b] = IF b \in DOMAIN keys THEN keys[b] ELSE NULL
                             /\ vals'[b] = IF b \in DOMAIN vals THEN vals[b] ELSE NULL
      /\ DOMAIN keys' = 0..n - 1 /\ DOMAIN vals' = 0..n - 1
  BY <1>1 DEF Grown
<1>7. /\ DOMAIN newFlags' = 0..n - 1
      /\ \A b \in 0..n - 1 : newFlags'[b] = "empty"
  BY <1>1 DEF Empty
<1>8. Old' = Old /\ New' = {} /\ Full' = Old
  BY <1>3, <1>7 DEF Old, New, Full
<1>9. \A b \in Old : keys'[b] = keys[b] /\ vals'[b] = vals[b]
  BY <1>1, <1>5, <1>6, TableFacts
<1>10. TypeOK'
  <2>1. DOMAIN keys' = DOMAIN flags' \cup DOMAIN newFlags'
    BY <1>1, <1>3, <1>4, <1>5, <1>6, <1>7 DEF TypeOK
  <2>2. \A b \in DOMAIN keys' : keys'[b] \in Keys \cup {NULL} /\ vals'[b] \in Values \cup {NULL}
    BY <1>4, <1>6 DEF TypeOK
  <2>3. \A b \in DOMAIN newFlags' : newFlags'[b] \in {"empty", "live"}
    BY <1>7
  <2>4. j' \in 0..buckets
    BY <1>1, <1>5
  <2> QED
    BY <2>1, <2>2, <2>3, <2>4, <1>1, <1>3, <1>4, <1>6, <1>7 DEF TypeOK
<1>11. Args' /\ AtRest' /\ Sought'
  BY <1>1, <1>3, <1>4 DEF Args, AtRest, Sought
<1>12. UnderWay'
  BY <1>1, <1>3, <1>5 DEF UnderWay
<1>13. Entries'
  BY <1>3, <1>4, <1>5, <1>8, <1>9 DEF Entries
<1>14. Counted'
  BY <1>3, <1>4, <1>5, <1>8 DEF Counted
<1>15. Bounds'
  BY <1>1, <1>3, <1>4 DEF Bounds
<1>16. Found(New, newBuckets)'
  BY <1>8 DEF Found
<1> QED
  BY <1>3, <1>10, <1>11, <1>12, <1>13, <1>14, <1>15, <1>16 DEF IInv

(* The loop over the old buckets takes the next key, or goes on.           *)
LEMMA TakeStep ==
  ASSUME IInv, Take
  PROVE  IInv'
<1> USE DEF Take
<1>1. /\ Moving /\ pc = "take" /\ j < buckets /\ j \in Nat /\ hand = Nobody
      /\ buckets \in Nat /\ newBuckets \in Nat /\ newBuckets > buckets /\ newBuckets > 2
      /\ j \in 0..buckets - 1 /\ j \in DOMAIN flags
  BY TableFacts DEF Moving, IInv, TypeOK, UnderWay
<1>2. /\ key' = key /\ val' = val /\ buckets' = buckets /\ size' = size /\ keys' = keys
      /\ vals' = vals /\ newBuckets' = newBuckets /\ newFlags' = newFlags /\ got' = got
  OBVIOUS
<1>3. /\ TypeOK /\ Args /\ UnderWay /\ Entries /\ Counted /\ Bounds
      /\ Found(New, newBuckets)
  BY DEF IInv
<1>4. New' = New
  BY <1>2 DEF New
<1>5. Found(New, newBuckets)'
  BY <1>2, <1>3, <1>4 DEF Found
<1>6. CASE flags[j] = "live"
  <2>1. /\ hand' = [key |-> keys[j], val |-> vals[j]]
        /\ flags' = [flags EXCEPT ![j] = "deleted"]
        /\ i' = Start(Hash[keys[j]], newBuckets)
        /\ pc' = "place" /\ j' = j /\ Moving'
    BY <1>6 DEF Removed, Home, Moving
  <2>2. j \in Old /\ j \in Full /\ j \notin New
    BY <1>1, <1>3, <1>6, TableFacts DEF Full, Entries
  <2>3. keys[j] \in Keys /\ vals[j] \in Values
    BY <2>2, <1>3 DEF Entries
  <2>4. Old' = Old \ {j} /\ Full' = Full \ {j}
    <3>1. Old' = Old \ {j}
      BY <2>1, <1>1 DEF Old
    <3> QED
      BY <3>1, <2>2, <1>4 DEF Full
  <2>5. i' = Bucket(Hash[keys[j]], newBuckets, 0) /\ i' \in Nat /\ 0 \in 0..newBuckets - 1
        /\ Leads(keys[j], newBuckets, 0, New)
    BY <2>1, <2>3, <1>1, SearchBegins
  <2>6. TypeOK'
    <3>1. /\ DOMAIN flags' = DOMAIN flags
          /\ \A b \in DOMAIN flags' : flags'[b] \in Flag
      BY <2>1, <1>3 DEF TypeOK, Flag
    <3>2. hand' \in [key : Keys, val : Values]
      BY <2>1, <2>3
    <3> QED
      BY <3>1, <3>2, <2>1, <2>5, <1>2, <1>3 DEF TypeOK
  <2>7. hand' # Nobody /\ hand'.key = keys[j]
    BY <2>1, <2>3, NullIsNoKey DEF Nobody
  <2>8. Args' /\ AtRest'
    BY <2>1, <1>1, <1>2, <1>3 DEF Args, AtRest
  <2>9. UnderWay'
    BY <2>1, <2>7, <1>1, <1>2, <1>3 DEF UnderWay, TypeOK
  <2>10. Entries'
    <3>1. \A b \in Full : keys[b] = keys[j] => b = j
      BY <2>2, <1>3 DEF Entries
    <3> QED
      BY <3>1, <2>4, <2>7, <1>2, <1>3, <1>4 DEF Entries
  <2>11. Counted'
    <3>1. Cardinality(Full \ {j}) = Cardinality(Full) - 1
      BY <2>2, TableFacts, FS_RemoveElement
    <3>2. size = Cardinality(Full) /\ Cardinality(Full) \in Nat
      BY <1>1, <1>3, TableFacts, FS_CardinalityType DEF Counted
    <3> QED
      BY <3>1, <3>2, <2>4, <2>7, <1>2 DEF Counted
  <2>12. Bounds'
    BY <2>1, <1>1, <1>2, <1>3 DEF Bounds
  <2>13. Sought'
    BY <2>1, <2>5, <2>7, <1>2, <1>4 DEF Sought
  <2> QED
    BY <2>1, <2>6, <2>8, <2>9, <2>10, <2>11, <2>12, <2>13, <1>5 DEF IInv
<1>7. CASE flags[j] # "live"
  <2>1. j' = j + 1 /\ UNCHANGED <<pc, i, flags, hand>> /\ Moving'
    BY <1>7, <1>1 DEF Moving
  <2>2. Old' = Old /\ Full' = Full
    BY <2>1, <1>2, <1>4 DEF Old, Full
  <2>3. TypeOK'
    <3>1. j' \in 0..buckets'
      BY <2>1, <1>1, <1>2
    <3> QED
      BY <3>1, <2>1, <1>2, <1>3 DEF TypeOK
  <2>4. Args' /\ AtRest'
    BY <2>1, <1>1, <1>2, <1>3 DEF Args, AtRest
  <2>5. UnderWay'
    <3>1. \A b \in 0..j : flags[b] # "live"
      BY <1>1, <1>3, <1>7 DEF UnderWay
    <3>2. j' - 1 = j
      BY <2>1, <1>1
    <3> QED
      BY <3>1, <3>2, <2>1, <1>1, <1>2, <1>3 DEF UnderWay
  <2>6. Entries' /\ Counted'
    BY <2>1, <2>2, <1>2, <1>3, <1>4 DEF Entries, Counted
  <2>7. Bounds'
    BY <2>1, <1>1, <1>2, <1>3 DEF Bounds
  <2>8. Sought'
    BY <2>1, <1>1 DEF Sought
  <2> QED
    BY <2>1, <2>3, <2>4, <2>5, <2>6, <2>7, <2>8, <1>5 DEF IInv
<1> QED
  BY <1>6, <1>7

(* All keys are moved.                                                     *)
LEMMA ResizedStep ==
  ASSUME IInv, Resized
  PROVE  IInv'
<1> USE DEF Resized
<1>1. /\ Moving /\ pc = "take" /\ j = buckets /\ hand = Nobody
      /\ buckets \in Nat /\ newBuckets \in Nat /\ newBuckets > buckets /\ newBuckets > 2
  BY TableFacts DEF Moving, IInv, UnderWay
<1>2. /\ key' = key /\ val' = val /\ size' = size /\ got' = got /\ hand' = hand
      /\ buckets' = newBuckets /\ flags' = newFlags
      /\ keys' = Grown(keys, newBuckets) /\ vals' = Grown(vals, newBuckets)
      /\ newBuckets' = 0 /\ newFlags' = Empty(0) /\ j' = 0
      /\ pc' = "put" /\ i' = Start(Hash[key], newBuckets) /\ ~ Moving'
  BY DEF Probe, Moving
<1>3. /\ TypeOK /\ Args /\ UnderWay /\ Entries /\ Counted /\ Bounds
      /\ Found(New, newBuckets)
  BY DEF IInv
<1>4. Old = {} /\ Full = New
  <2>1. \A b \in 0..buckets - 1 : flags[b] # "live"
    BY <1>1, <1>3 DEF UnderWay
  <2> QED
    BY <2>1, TableFacts DEF Full
<1>5. DOMAIN keys = 0..newBuckets - 1 /\ DOMAIN vals = 0..newBuckets - 1
  BY <1>1, <1>3 DEF TypeOK
<1>6. /\ DOMAIN keys' = DOMAIN keys /\ DOMAIN vals' = DOMAIN vals
      /\ \A b \in DOMAIN keys : keys'[b] = keys[b] /\ vals'[b] = vals[b]
  BY <1>2, <1>5 DEF Grown
<1>7. Old' = New /\ New' = {} /\ Full' = New
  BY <1>2 DEF Old, New, Full, Empty
<1>8. \A b \in New : keys'[b] = keys[b] /\ vals'[b] = vals[b]
  BY <1>6, TableFacts
<1>9. key \in Keys /\ val \in Values
  BY <1>1, <1>3 DEF Args
<1>10. /\ 0 \in 0..newBuckets - 1 /\ i' = Bucket(Hash[key], newBuckets, 0) /\ i' \in Nat
       /\ Leads(key, newBuckets, 0, {b \in Old' : keys'[b] # key})
  BY <1>1, <1>2, <1>9, SearchBegins
<1>11. TypeOK'
  <2>1. /\ DOMAIN newFlags' = 0..newBuckets' - 1
        /\ \A b \in DOMAIN newFlags' : newFlags'[b] \in {"empty", "live"}
        /\ DOMAIN newFlags' = {}
    BY <1>2 DEF Empty
  <2>2. DOMAIN flags' = 0..buckets' - 1 /\ \A b \in DOMAIN flags' : flags'[b] \in Flag
    BY <1>2, <1>3 DEF TypeOK, Flag
  <2>3. /\ DOMAIN keys' = DOMAIN flags' \cup DOMAIN newFlags'
        /\ DOMAIN vals' = DOMAIN keys'
    BY <2>1, <2>2, <1>2, <1>5, <1>6
  <2>4. \A b \in DOMAIN keys' : keys'[b] \in Keys \cup {NULL} /\ vals'[b] \in Values \cup {NULL}
    BY <1>3, <1>6 DEF TypeOK
  <2>5. buckets' \in Sizes /\ newBuckets' \in Sizes /\ j' \in 0..buckets'
    BY <1>1, <1>2, <1>3, SizesArePrime DEF TypeOK
  <2> QED
    BY <2>1, <2>2, <2>3, <2>4, <2>5, <1>2, <1>3, <1>10 DEF TypeOK
<1>12. Args' /\ UnderWay'
  BY <1>2, <1>9 DEF Args, UnderWay
<1>13. AtRest'
  BY <1>1, <1>2, <1>3 DEF AtRest, TypeOK
<1>14. Entries'
  BY <1>2, <1>3, <1>4, <1>7, <1>8 DEF Entries
<1>15. Counted'
  BY <1>2, <1>3, <1>4, <1>7 DEF Counted
<1>16. Bounds'
  <2>1. size < UpperBound(newBuckets) /\ UpperBound(newBuckets) \in Nat /\ size \in Nat
    BY <1>1, <1>3, BoundFacts DEF Bounds, TypeOK
  <2> QED
    BY <2>1, <1>2 DEF Bounds
<1>17. Found(Old, buckets)' /\ Found(New, newBuckets)'
  BY <1>2, <1>3, <1>7, <1>8 DEF Found
<1>18. Sought'
  BY <1>2, <1>10 DEF Sought
<1> QED
  BY <1>2, <1>11, <1>12, <1>13, <1>14, <1>15, <1>16, <1>17, <1>18 DEF IInv

(* A bucket that is taken in the new table is passed.                      *)
LEMMA PassStep ==
  ASSUME IInv, Place, newFlags[i] # "empty"
  PROVE  IInv'
<1> USE DEF Place
<1>1. /\ pc = "place" /\ pc' = pc /\ Moving /\ Moving'
      /\ i' = Forward(i, Hash[hand.key], newBuckets)
      /\ flags' = flags /\ keys' = keys /\ vals' = vals /\ newFlags' = newFlags
      /\ j' = j /\ hand' = hand /\ key' = key /\ val' = val /\ got' = got
      /\ buckets' = buckets /\ size' = size /\ newBuckets' = newBuckets
  BY DEF Moving
<1>2. /\ TypeOK /\ Args /\ UnderWay /\ Entries /\ Counted /\ Bounds
      /\ Found(New, newBuckets)
  BY DEF IInv
<1>3. Old' = Old /\ New' = New /\ Full' = Full
  BY <1>1 DEF Old, New, Full
<1>4. PICK x \in 0..newBuckets - 1 :
        /\ i' = Bucket(Hash[hand.key], newBuckets, x)
        /\ Leads(hand.key, newBuckets, x, New)
  BY <1>1, NextPlaceIsNew
<1>5. i' \in Nat
  <2>1. Hash[hand.key] \in Nat
    BY <1>1, RoomForHand, HashIsNat
  <2>2. newBuckets \in Nat /\ newBuckets > 2 /\ x \in Nat
    BY <1>1, TableFacts, RoomForHand
  <2>3. Bucket(Hash[hand.key], newBuckets, x) \in 0..newBuckets - 1
    BY <2>1, <2>2, BucketFacts
  <2> QED
    BY <2>3, <1>4
<1>6. TypeOK'
  BY <1>1, <1>2, <1>5 DEF TypeOK
<1>7. Args' /\ AtRest' /\ UnderWay'
  BY <1>1, <1>2 DEF Args, AtRest, UnderWay
<1>8. Entries' /\ Counted' /\ Found(New, newBuckets)'
  BY <1>1, <1>2, <1>3 DEF Entries, Counted, Found
<1>9. Bounds'
  BY <1>1, <1>2 DEF Bounds
<1>10. Sought'
  BY <1>1, <1>3, <1>4 DEF Sought
<1> QED
  BY <1>1, <1>6, <1>7, <1>8, <1>9, <1>10 DEF IInv

(* What a step that puts the key in hand into a bucket starts from.        *)
LEMMA PlacingFacts ==
  ASSUME IInv, Place, newFlags[i] = "empty"
  PROVE  /\ pc = "place" /\ Moving /\ j \in Nat /\ j < buckets /\ flags[j] # "live"
         /\ buckets \in Nat /\ newBuckets \in Nat /\ newBuckets > buckets
         /\ i \in 0..newBuckets - 1 /\ i \in DOMAIN keys /\ i \in DOMAIN vals
         /\ i \in DOMAIN newFlags /\ i \notin New
         /\ i \in Old <=> Displaced(i)
         /\ i \in Old => i \in DOMAIN flags
         /\ hand.key \in Keys /\ hand.val \in Values
<1>1. pc = "place" /\ TypeOK /\ UnderWay /\ Moving
  BY DEF Place, Moving, IInv
<1>2. PICK x \in 0..newBuckets - 1 : i = Bucket(Hash[hand.key], newBuckets, x)
  BY <1>1 DEF IInv, Sought
<1>3. Hash[hand.key] \in Nat
  BY <1>1, RoomForHand, HashIsNat
<1>4. i \in 0..newBuckets - 1
  <2>1. newBuckets \in Nat /\ newBuckets > 2 /\ x \in Nat
    BY <1>1, TableFacts, RoomForHand
  <2>2. Bucket(Hash[hand.key], newBuckets, x) \in 0..newBuckets - 1
    BY <1>3, <2>1, BucketFacts
  <2> QED
    BY <2>2, <1>2
<1>5. i \in DOMAIN newFlags /\ i \in DOMAIN keys /\ i \in DOMAIN vals
  BY <1>1, <1>4 DEF TypeOK
<1>6. i \notin New
  BY TableFacts
<1>7. i \in Old <=> Displaced(i)
  BY <1>4, TableFacts DEF Displaced
<1>8. i \in Old => i \in DOMAIN flags
  BY DEF Old
<1>9. buckets \in Nat /\ newBuckets \in Nat /\ newBuckets > buckets
  BY <1>1, TableFacts DEF UnderWay
<1>10. j \in Nat /\ j < buckets /\ flags[j] # "live"
  BY <1>1, <1>9 DEF UnderWay, TypeOK
<1>11. hand.key \in Keys /\ hand.val \in Values
  BY <1>1, RoomForHand
<1> QED
  BY <1>1, <1>4, <1>5, <1>6, <1>7, <1>8, <1>9, <1>10, <1>11

(* The new table keeps its keys findable, and gets the one in hand.        *)
LEMMA PlacedIsFound ==
  ASSUME IInv, Place, newFlags[i] = "empty"
  PROVE  /\ New' = New \cup {i}
         /\ \A b \in DOMAIN keys : /\ keys'[b] = IF b = i THEN hand.key ELSE keys[b]
                                   /\ vals'[b] = IF b = i THEN hand.val ELSE vals[b]
         /\ DOMAIN keys' = DOMAIN keys /\ DOMAIN vals' = DOMAIN vals
         /\ DOMAIN newFlags' = DOMAIN newFlags
         /\ \A b \in DOMAIN newFlags : newFlags'[b] \in {"empty", "live"}
         /\ \A b \in DOMAIN keys : keys'[b] \in Keys \cup {NULL} /\ vals'[b] \in Values \cup {NULL}
         /\ Found(New, newBuckets)'
<1>1. /\ newFlags' = [newFlags EXCEPT ![i] = "live"]
      /\ keys' = [keys EXCEPT ![i] = hand.key]
      /\ vals' = [vals EXCEPT ![i] = hand.val]
      /\ newBuckets' = newBuckets
  BY DEF Place
<1>2. TypeOK /\ Found(New, newBuckets)
  BY DEF IInv
<1>3. /\ i \in DOMAIN newFlags /\ i \in DOMAIN keys /\ i \notin New
      /\ hand.key \in Keys /\ hand.val \in Values /\ pc = "place"
  BY PlacingFacts
<1>4. New' = New \cup {i}
  BY <1>1, <1>3 DEF New
<1>5. /\ \A b \in DOMAIN keys : /\ keys'[b] = IF b = i THEN hand.key ELSE keys[b]
                                /\ vals'[b] = IF b = i THEN hand.val ELSE vals[b]
      /\ DOMAIN keys' = DOMAIN keys /\ DOMAIN vals' = DOMAIN vals
      /\ DOMAIN newFlags' = DOMAIN newFlags
  BY <1>1, TableFacts
<1>6. \A b \in DOMAIN newFlags : newFlags'[b] \in {"empty", "live"}
  BY <1>1, <1>2 DEF TypeOK
<1>7. \A b \in DOMAIN keys : keys'[b] \in Keys \cup {NULL} /\ vals'[b] \in Values \cup {NULL}
  BY <1>2, <1>3, <1>5 DEF TypeOK
<1>8. ASSUME NEW b \in New
      PROVE  \E x \in 0..newBuckets - 1 : /\ b = Bucket(Hash[keys'[b]], newBuckets, x)
                                          /\ Leads(keys'[b], newBuckets, x, New')
  <2>1. PICK x \in 0..newBuckets - 1 : /\ b = Bucket(Hash[keys[b]], newBuckets, x)
                                       /\ Leads(keys[b], newBuckets, x, New)
    BY <1>2 DEF Found
  <2>2. Leads(keys[b], newBuckets, x, New')
    BY <2>1, <1>4 DEF Leads
  <2>3. keys'[b] = keys[b]
    BY <1>3, <1>5, TableFacts
  <2> QED
    BY <2>1, <2>2, <2>3
<1>9. \E x \in 0..newBuckets - 1 : /\ i = Bucket(Hash[keys'[i]], newBuckets, x)
                                   /\ Leads(keys'[i], newBuckets, x, New')
  <2>1. PICK x \in 0..newBuckets - 1 : /\ i = Bucket(Hash[hand.key], newBuckets, x)
                                       /\ Leads(hand.key, newBuckets, x, New)
    BY <1>3 DEF IInv, Sought
  <2>2. Leads(hand.key, newBuckets, x, New')
    BY <2>1, <1>4 DEF Leads
  <2>3. keys'[i] = hand.key
    BY <1>3, <1>5
  <2> QED
    BY <2>1, <2>2, <2>3
<1>10. Found(New, newBuckets)'
  BY <1>1, <1>4, <1>8, <1>9 DEF Found
<1> QED
  BY <1>4, <1>5, <1>6, <1>7, <1>10

(* The key in hand is put into a bucket that holds no other.               *)
LEMMA FillStep ==
  ASSUME IInv, Place, newFlags[i] = "empty", ~ Displaced(i)
  PROVE  IInv'
<1> USE DEF Place
<1>1. /\ pc' = "take" /\ Moving' /\ hand' = Nobody /\ j' = j + 1 /\ i' = 0 /\ flags' = flags
      /\ key' = key /\ val' = val /\ got' = got
      /\ buckets' = buckets /\ size' = size /\ newBuckets' = newBuckets
  BY DEF Moving
<1>2. /\ TypeOK /\ Args /\ UnderWay /\ Entries /\ Counted /\ Bounds
  BY DEF IInv
<1>3. /\ pc = "place" /\ Moving /\ j \in Nat /\ j < buckets /\ flags[j] # "live"
      /\ buckets \in Nat /\ newBuckets \in Nat /\ newBuckets > buckets
      /\ i \in DOMAIN keys /\ i \notin Old /\ i \notin New /\ i \notin Full
      /\ hand.key \in Keys /\ hand.val \in Values /\ hand # Nobody
  BY PlacingFacts, RoomForHand DEF Full
<1>4. Old' = Old /\ New' = New \cup {i} /\ Full' = Full \cup {i}
  <2>1. Old' = Old
    BY <1>1 DEF Old
  <2> QED
    BY <2>1, PlacedIsFound DEF Full
<1>5. /\ keys'[i] = hand.key /\ vals'[i] = hand.val
      /\ \A b \in Full : keys'[b] = keys[b] /\ vals'[b] = vals[b]
  BY <1>3, PlacedIsFound, TableFacts DEF Full
<1>6. TypeOK'
  <2>1. j' \in 0..buckets' /\ i' \in Nat
    BY <1>1, <1>3
  <2> QED
    BY <2>1, <1>1, <1>2, PlacedIsFound DEF TypeOK
<1>7. Args' /\ AtRest'
  BY <1>1, <1>2, <1>3 DEF Args, AtRest
<1>8. UnderWay'
  <2>1. \A b \in 0..j : flags[b] # "live"
    BY <1>3, <1>2 DEF UnderWay
  <2>2. j' - 1 = j
    BY <1>1, <1>3
  <2> QED
    BY <2>1, <2>2, <1>1, <1>3 DEF UnderWay
<1>9. Entries'
  <2>1. \A b \in Full : /\ keys[b] \in Keys /\ vals[b] \in Values /\ keys[b] # hand.key
                        /\ \A c \in Full : keys[c] = keys[b] => c = b
    BY <1>2 DEF Entries
  <2>2. hand'.key \notin Keys
    BY <1>1, NullIsNoKey DEF Nobody
  <2>3. \A b \in Full' : keys'[b] \in Keys /\ vals'[b] \in Values
    BY <2>1, <1>3, <1>4, <1>5
  <2>4. \A b \in Full' : \A c \in Full' : keys'[c] = keys'[b] => c = b
    BY <2>1, <1>4, <1>5
  <2>5. Old' \cap New' = {}
    BY <1>2, <1>3, <1>4 DEF Entries
  <2>6. \A b \in Full' : keys'[b] # hand'.key
    BY <2>2, <2>3
  <2> QED
    BY <2>3, <2>4, <2>5, <2>6 DEF Entries
<1>10. Counted'
  <2>1. Cardinality(Full \cup {i}) = Cardinality(Full) + 1
    BY <1>3, TableFacts, FS_AddElement
  <2>2. size = Cardinality(Full) + 1 /\ Cardinality(Full) \in Nat
    BY <1>2, <1>3, TableFacts, FS_CardinalityType DEF Counted
  <2> QED
    BY <2>1, <2>2, <1>1, <1>4 DEF Counted
<1>11. Bounds'
  BY <1>1, <1>2, <1>3 DEF Bounds
<1>12. Sought'
  BY <1>1 DEF Sought
<1> QED
  BY <1>1, <1>6, <1>7, <1>8, <1>9, <1>10, <1>11, <1>12, PlacedIsFound DEF IInv

(* The key in hand is put into the bucket of a key that was not moved yet, *)
(* which is in hand next.                                                  *)
LEMMA SwapStep ==
  ASSUME IInv, Place, newFlags[i] = "empty", Displaced(i)
  PROVE  IInv'
<1> USE DEF Place
<1>1. /\ pc' = "place" /\ Moving' /\ hand' = [key |-> keys[i], val |-> vals[i]] /\ j' = j
      /\ i' = Start(Hash[keys[i]], newBuckets) /\ flags' = [flags EXCEPT ![i] = "deleted"]
      /\ key' = key /\ val' = val /\ got' = got
      /\ buckets' = buckets /\ size' = size /\ newBuckets' = newBuckets
  BY DEF Moving, Swapped, Removed, Home
<1>2. /\ TypeOK /\ Args /\ UnderWay /\ Entries /\ Counted /\ Bounds
  BY DEF IInv
<1>3. /\ pc = "place" /\ Moving /\ j \in Nat /\ j < buckets /\ flags[j] # "live"
      /\ buckets \in Nat /\ newBuckets \in Nat /\ newBuckets > buckets /\ newBuckets > 2
      /\ i \in DOMAIN keys /\ i \in DOMAIN flags /\ i \in Old /\ i \notin New /\ i \in Full
      /\ hand.key \in Keys /\ hand.val \in Values /\ hand # Nobody
  BY PlacingFacts, RoomForHand DEF Full
<1>4. Old' = Old \ {i} /\ New' = New \cup {i} /\ Full' = Full
  <2>1. Old' = Old \ {i}
    BY <1>1, <1>3 DEF Old
  <2> QED
    BY <2>1, <1>3, PlacedIsFound DEF Full
<1>5. /\ keys'[i] = hand.key /\ vals'[i] = hand.val
      /\ \A b \in Full : b # i => keys'[b] = keys[b] /\ vals'[b] = vals[b]
  BY <1>3, PlacedIsFound, TableFacts DEF Full
<1>6. keys[i] \in Keys /\ vals[i] \in Values /\ keys[i] # hand.key
  BY <1>2, <1>3 DEF Entries
<1>7. hand' # Nobody /\ hand'.key = keys[i]
  BY <1>1, <1>6, NullIsNoKey DEF Nobody
<1>8. /\ i' = Bucket(Hash[keys[i]], newBuckets, 0) /\ i' \in Nat /\ 0 \in 0..newBuckets - 1
      /\ Leads(keys[i], newBuckets, 0, New')
  BY <1>1, <1>3, <1>6, SearchBegins
<1>9. TypeOK'
  <2>1. DOMAIN flags' = DOMAIN flags /\ \A b \in DOMAIN flags' : flags'[b] \in Flag
    BY <1>1, <1>2 DEF TypeOK, Flag
  <2>2. hand' \in [key : Keys, val : Values]
    BY <1>1, <1>6
  <2> QED
    BY <2>1, <2>2, <1>1, <1>2, <1>8, PlacedIsFound DEF TypeOK
<1>10. Args' /\ AtRest'
  BY <1>1, <1>2, <1>3 DEF Args, AtRest
<1>11. UnderWay'
  BY <1>1, <1>2, <1>3, <1>7 DEF UnderWay, TypeOK
<1>12. Entries'
  <2>1. \A b \in Full : /\ keys[b] \in Keys /\ vals[b] \in Values /\ keys[b] # hand.key
                        /\ \A c \in Full : keys[c] = keys[b] => c = b
    BY <1>2 DEF Entries
  <2>2. \A b \in Full' : keys'[b] \in Keys /\ vals'[b] \in Values
    BY <2>1, <1>3, <1>4, <1>5
  <2>3. \A b \in Full' : \A c \in Full' : keys'[c] = keys'[b] => c = b
    BY <2>1, <1>4, <1>5
  <2>4. \A b \in Full' : keys'[b] # hand'.key
    BY <2>1, <1>3, <1>4, <1>5, <1>7
  <2>5. Old' \cap New' = {}
    BY <1>2, <1>3, <1>4 DEF Entries
  <2> QED
    BY <2>2, <2>3, <2>4, <2>5 DEF Entries
<1>13. Counted'
  BY <1>1, <1>2, <1>3, <1>4, <1>7 DEF Counted
<1>14. Bounds'
  BY <1>1, <1>2, <1>3 DEF Bounds
<1>15. Sought'
  BY <1>1, <1>7, <1>8 DEF Sought
<1> QED
  BY <1>1, <1>9, <1>10, <1>11, <1>12, <1>13, <1>14, <1>15, PlacedIsFound DEF IInv

-----------------------------------------------------------------------------
(***************************************************************************)
(* The invariant, and what it implies.                                     *)
(***************************************************************************)
(* A new object has no slots, and no table yet.                            *)
LEMMA InitIInv == Init => IInv
<1> SUFFICES ASSUME Init PROVE IInv
  OBVIOUS
<1> USE DEF Init
<1>1. DOMAIN flags = {} /\ DOMAIN newFlags = {} /\ DOMAIN keys = {} /\ DOMAIN vals = {}
  BY DEF Empty
<1>2. Old = {} /\ New = {} /\ Full = {}
  BY <1>1 DEF Old, New, Full
<1>3. TypeOK
  BY <1>1, SizesArePrime DEF TypeOK, Empty, Flag
<1>4. Args /\ AtRest /\ UnderWay /\ Entries
  BY <1>2 DEF Args, AtRest, UnderWay, Entries, Moving
<1>5. Counted
  BY <1>2, FS_EmptySet DEF Counted
<1>6. Bounds
  BY BoundFacts DEF Bounds, Moving
<1>7. Found(Old, buckets) /\ Found(New, newBuckets) /\ Sought
  BY <1>2 DEF Found, Sought
<1> QED
  BY <1>3, <1>4, <1>5, <1>6, <1>7 DEF IInv

(* Every step keeps the invariant.                                         *)
LEMMA NextIInv == IInv /\ [Next]_vars => IInv'
<1> SUFFICES ASSUME IInv, [Next]_vars PROVE IInv'
  OBVIOUS
<1>1. CASE \E k \in Keys : GetSlot(k)
  BY <1>1, GetSlotStep
<1>2. CASE \E k \in Keys : \E v \in Values : SetSlot(k, v)
  BY <1>2, SetSlotStep
<1>3. CASE GetProbe
  BY <1>3, GetProbeStep
<1>4. CASE PutProbe
  BY <1>4, PutNewStep, PutOldStep
<1>5. CASE Resize
  BY <1>5, ResizeStep
<1>6. CASE Take
  BY <1>6, TakeStep
<1>7. CASE Place
  BY <1>7, PassStep, FillStep, SwapStep
<1>8. CASE Resized
  BY <1>8, ResizedStep
<1>9. CASE UNCHANGED vars
  <2>1. /\ pc' = pc /\ key' = key /\ val' = val /\ i' = i /\ got' = got
        /\ keys' = keys /\ vals' = vals /\ flags' = flags /\ size' = size
        /\ buckets' = buckets /\ newBuckets' = newBuckets /\ newFlags' = newFlags
        /\ j' = j /\ hand' = hand
    BY <1>9 DEF vars, table, rehash
  <2>2. Old' = Old /\ New' = New /\ Full' = Full
    BY <2>1 DEF Old, New, Full
  <2>3. TypeOK'
    BY <2>1 DEF IInv, TypeOK
  <2>4. Args' /\ AtRest' /\ UnderWay' /\ Entries' /\ Counted' /\ Bounds' /\ Sought'
    BY <2>1, <2>2 DEF IInv, Args, AtRest, UnderWay, Entries, Counted, Bounds, Sought, Moving
  <2>5. (~ Moving => Found(Old, buckets))' /\ Found(New, newBuckets)'
    BY <2>1, <2>2 DEF IInv, Found, Moving
  <2> QED
    BY <2>3, <2>4, <2>5 DEF IInv
<1> QED
  BY <1>1, <1>2, <1>3, <1>4, <1>5, <1>6, <1>7, <1>8, <1>9 DEF Next, Work

(* The invariant is one of the specification.                              *)
LEMMA AlwaysIInv == Spec => []IInv
BY InitIInv, NextIInv, PTL DEF Spec

(* TypeOK: the slot table of every object has the types of khash.h.        *)
THEOREM TypeOKTheorem == Spec => []TypeOK
<1>1. IInv => TypeOK
  BY DEF IInv
<1> QED
  BY <1>1, AlwaysIInv, PTL

(* NoKeyLost: kh_resize, which moves the keys within their own array,      *)
(* loses, doubles and overwrites none, for all hashes and sizes.           *)
THEOREM NoKeyLostTheorem == Spec => []NoKeyLost
<1>1. IInv => NoKeyLost
  <2> SUFFICES ASSUME IInv PROVE NoKeyLost
    OBVIOUS
  <2>1. Entries /\ Counted
    BY DEF IInv
  <2>2. \A b \in Full : Places(keys[b]) = {b}
    BY <2>1 DEF Entries, Places, Full
  <2> QED
    BY <2>1, <2>2 DEF NoKeyLost, Entries, Counted, Full
<1> QED
  BY <1>1, AlwaysIInv, PTL

(* The buckets that are probed first are a set of Probed.                  *)
LEMMA ProbedFacts ==
  ASSUME NEW k \in Keys, NEW n \in Nat, NEW m \in Nat
  PROVE  Probed(Hash[k], n, m) = {Bucket(Hash[k], n, x) : x \in 0..m - 1}
BY DEF Probed, Bucket

(* A key that is found is found in the sense of Findable.                  *)
LEMMA FoundIsFindable ==
  ASSUME NEW S, NEW n \in Nat, Found(S, n), \A b \in S : keys[b] \in Keys
  PROVE  \A b \in S : \E m \in 1..n : /\ b \in Probed(Hash[keys[b]], n, m)
                                      /\ Probed(Hash[keys[b]], n, m) \subseteq S
<1> SUFFICES ASSUME NEW b \in S
             PROVE  \E m \in 1..n : /\ b \in Probed(Hash[keys[b]], n, m)
                                    /\ Probed(Hash[keys[b]], n, m) \subseteq S
  OBVIOUS
<1>1. PICK x \in 0..n - 1 : b = Bucket(Hash[keys[b]], n, x) /\ Leads(keys[b], n, x, S)
  BY DEF Found
<1>2. PICK m \in 1..n : m = x + 1
  <2>1. x + 1 \in 1..n
    OBVIOUS
  <2> QED
    BY <2>1
<1>3. x \in 0..m - 1 /\ \A y \in 0..m - 1 : y = x \/ y \in 0..x - 1
  BY <1>2
<1>4. Probed(Hash[keys[b]], n, m) = {Bucket(Hash[keys[b]], n, y) : y \in 0..m - 1}
  <2>1. keys[b] \in Keys /\ m \in Nat
    OBVIOUS
  <2> QED
    BY <2>1, ProbedFacts
<1>5. \A y \in 0..m - 1 : Bucket(Hash[keys[b]], n, y) \in S
  BY <1>1, <1>3 DEF Leads
<1> QED
  BY <1>1, <1>3, <1>4, <1>5

(* Findable: a key is found before the probes for it meet an empty bucket, *)
(* for all hashes and sizes, in a table that has just grown too.           *)
THEOREM FindableTheorem == Spec => []Findable
<1>1. IInv => Findable
  <2> SUFFICES ASSUME IInv PROVE Findable
    OBVIOUS
  <2>1. buckets \in Nat /\ newBuckets \in Nat
    BY TableFacts
  <2>2. \A b \in Old \cup New : keys[b] \in Keys
    BY DEF IInv, Entries, Full
  <2>3. ~ Moving => Found(Old, buckets)
    BY DEF IInv
  <2>4. Found(New, newBuckets)
    BY DEF IInv
  <2> QED
    BY <2>1, <2>2, <2>3, <2>4, FoundIsFindable DEF Findable, Moving
<1> QED
  BY <1>1, AlwaysIInv, PTL

(* RoomLeft: no search goes round the table, because there is always an    *)
(* empty bucket and the probes come to every bucket of a prime number.     *)
THEOREM RoomLeftTheorem == Spec => []RoomLeft
<1>1. IInv => RoomLeft
  <2> SUFFICES ASSUME IInv PROVE RoomLeft
    OBVIOUS
  <2>1. pc \in {"get", "put"} /\ buckets > 0 => flags[i] = "empty" \/ keys[i] = key \/ ~ Wraps
    BY NextIsNew
  <2>2. ASSUME pc = "place", Probed(Hash[hand.key], newBuckets, newBuckets) \subseteq New
        PROVE  FALSE
    <3>1. /\ newBuckets \in Nat /\ newBuckets > 2 /\ Prime(newBuckets)
          /\ hand.key \in Keys /\ Hash[hand.key] \in Nat
      BY <2>2, TableFacts, RoomForHand, HashIsNat
    <3>2. Probed(Hash[hand.key], newBuckets, newBuckets)
            = {Bucket(Hash[hand.key], newBuckets, x) : x \in 0..newBuckets - 1}
      BY <3>1, ProbedFacts
    <3>3. \A y \in 0..newBuckets - 1 : Bucket(Hash[hand.key], newBuckets, y) \in New
      BY <2>2, <3>2
    <3>4. newBuckets <= Cardinality(New)
      BY <3>1, <3>3, TableFacts, Round
    <3>5. Cardinality(New) \in Nat /\ Cardinality(New) < newBuckets
      BY <2>2, TableFacts, RoomForHand, FS_CardinalityType
    <3> QED
      BY <3>1, <3>4, <3>5
  <2> QED
    BY <2>1, <2>2 DEF RoomLeft
<1> QED
  BY <1>1, AlwaysIInv, PTL

(* A rehash always makes the table larger: the branches of khash.h that    *)
(* ask for a smaller table and that find the new one too small are dead.   *)
Enlarges == [][Resize => pc' = "take" /\ newBuckets' > buckets]_vars

THEOREM EnlargesTheorem == Spec => Enlarges
<1>1. IInv => (Resize => pc' = "take" /\ newBuckets' > buckets)
  BY ResizeFacts
<1> QED
  BY <1>1, AlwaysIInv, PTL DEF Spec, Enlarges

-----------------------------------------------------------------------------
(***************************************************************************)
(* The table implements a map.                                             *)
(***************************************************************************)
\* The object that is held for each key, in a bucket, in hand, or nowhere.
HeldIs == /\ \A b \in Full : Held(keys[b]) = vals[b]
          /\ hand # Nobody => Held(hand.key) = hand.val
          /\ \A k \in Keys : hand.key # k /\ (\A b \in Full : keys[b] # k) => Held(k) = NULL

(* A key has one object.                                                   *)
LEMMA HeldFacts == IInv => HeldIs
<1> SUFFICES ASSUME IInv PROVE HeldIs
  OBVIOUS
<1>1. Entries
  BY DEF IInv
<1>2. ASSUME NEW b \in Full
      PROVE  Held(keys[b]) = vals[b]
  <2>1. Places(keys[b]) = {b} /\ hand.key # keys[b]
    BY <1>1 DEF Entries, Places, Full
  <2>2. (CHOOSE c \in {b} : TRUE) = b
    OBVIOUS
  <2> QED
    BY <2>1, <2>2 DEF Held
<1>3. Held(hand.key) = hand.val
  BY DEF Held
<1>4. ASSUME NEW k \in Keys, hand.key # k, \A b \in Full : keys[b] # k
      PROVE  Held(k) = NULL
  <2>1. Places(k) = {}
    BY <1>4 DEF Places, Full
  <2> QED
    BY <2>1, <1>4 DEF Held
<1> QED
  BY <1>2, <1>3, <1>4 DEF HeldIs

(* The same after a step.                                                  *)
LEMMA HeldFactsNext == IInv' => HeldIs'
BY HeldFacts, PTL

(* What the map sees of a state.                                           *)
LEMMA StutterOfMap ==
  ASSUME \A k \in Keys : Held(k)' = Held(k), key' = key, val' = val, got' = got
  PROVE  UNCHANGED Map!vars
BY DEF Map!vars

(* The map does not change with the table as it is.                        *)
LEMMA SameHeld ==
  ASSUME UNCHANGED <<table, rehash>>
  PROVE  \A k \in Keys : Held(k)' = Held(k)
<1>1. /\ keys' = keys /\ vals' = vals /\ flags' = flags /\ newFlags' = newFlags /\ hand' = hand
  BY DEF table, rehash
<1>2. Old' = Old /\ New' = New
  BY <1>1 DEF Old, New
<1> QED
  BY <1>1, <1>2 DEF Held, Places

(* The names between calls are none.                                       *)
LEMMA NoCallFacts ==
  ASSUME IInv
  PROVE  /\ pc = "idle" => key = NULL /\ val = NULL
         /\ pc = "get" => key \in Keys /\ key # NULL /\ val = NULL
         /\ pc = "put" => key \in Keys /\ val \in Values /\ val # NULL
BY NullIsNoKey DEF IInv, Args

(* A call begins.                                                          *)
LEMMA BeginMap ==
  ASSUME IInv, NEW k \in Keys, GetSlot(k) \/ \E v \in Values : SetSlot(k, v)
  PROVE  Map!Begin
<1>1. pc = "idle" /\ key' = k /\ val' \in Values \cup {NULL} /\ got' = NULL
      /\ UNCHANGED <<table, rehash>>
  BY NoCallFacts DEF GetSlot, SetSlot
<1>2. key = NULL /\ val = NULL
  BY <1>1, NoCallFacts
<1>3. \A c \in Keys : Held(c)' = Held(c)
  BY <1>1, SameHeld
<1> QED
  BY <1>1, <1>2, <1>3 DEF Map!Begin, Map!NoCall

(* kh_get answers with what the map has for the key, or goes on.           *)
LEMMA GetProbeMap ==
  ASSUME IInv, GetProbe
  PROVE  Map!GetSlot \/ UNCHANGED Map!vars
<1>1. pc = "get" /\ UNCHANGED <<table, rehash>>
  BY DEF GetProbe
<1>2. \A c \in Keys : Held(c)' = Held(c)
  BY <1>1, SameHeld
<1>3. key \in Keys /\ key # NULL /\ val = NULL
  BY <1>1, NoCallFacts
<1>4. HeldIs /\ ~ Moving
  BY <1>1, HeldFacts DEF Moving
<1>5. ASSUME NEW v, Answer(v), v = Held(key)
      PROVE  Map!GetSlot
  <2>1. key' = NULL /\ val' = NULL /\ got' = Held(key)
    BY <1>5 DEF Answer, Return
  <2> QED
    BY <2>1, <1>2, <1>3 DEF Map!GetSlot, Map!NoCall
<1>6. CASE buckets = 0 \/ flags[i] = "empty"
  <2>1. Answer(NULL)
    BY <1>6 DEF GetProbe
  <2>2. \A b \in Full : keys[b] # key
    BY <1>1, <1>6, TableFacts, EmptyMeansAbsent
  <2>3. hand.key # key
    BY <1>3, <1>4, RestFacts DEF Nobody
  <2>4. Held(key) = NULL
    BY <2>2, <2>3, <1>3, <1>4 DEF HeldIs
  <2> QED
    BY <2>1, <2>4, <1>5
<1>7. CASE buckets # 0 /\ flags[i] # "empty" /\ keys[i] = key
  <2>1. Answer(vals[i])
    BY <1>7 DEF GetProbe
  <2>2. i \in 0..buckets - 1
    BY <1>1, <1>7, TableFacts, InTable
  <2>3. i \in Full
    BY <2>2, <1>4, <1>7, RestFacts
  <2>4. Held(key) = vals[i]
    BY <2>3, <1>4, <1>7 DEF HeldIs
  <2> QED
    BY <2>1, <2>4, <1>5
<1>8. CASE buckets # 0 /\ flags[i] # "empty" /\ keys[i] # key
  <2>1. ~ Wraps
    BY <1>1, <1>8, TableFacts, NextIsNew
  <2>2. UNCHANGED <<key, val, got>>
    BY <2>1, <1>8 DEF GetProbe
  <2> QED
    BY <2>2, <1>2, StutterOfMap
<1> QED
  BY <1>6, <1>7, <1>8

(* kh_put changes what the map has for the key and nothing else, or goes   *)
(* on.                                                                     *)
LEMMA PutProbeMap ==
  ASSUME IInv, IInv', PutProbe
  PROVE  Map!SetSlot \/ UNCHANGED Map!vars
<1>1. /\ pc = "put" /\ ~ Moving /\ got' = got /\ hand' = hand
      /\ buckets > 0 /\ hand = Nobody /\ New = {} /\ Full = Old
      /\ newFlags' = newFlags
  BY PutFacts, RestFacts DEF PutProbe, Moving, rehash
<1>2. key \in Keys /\ val \in Values /\ val # NULL /\ key # NULL
  BY <1>1, NoCallFacts, NullIsNoKey
<1>3. HeldIs /\ HeldIs' /\ Entries
  BY HeldFacts, HeldFactsNext DEF IInv
<1>4. i \in 0..buckets - 1 /\ i \in DOMAIN keys /\ i \in DOMAIN vals /\ i \in DOMAIN flags
  BY <1>1, InTable, TableFacts DEF IInv, TypeOK
<1>5. ASSUME key' = NULL, val' = NULL,
             \A k \in Keys : Held(k)' = IF k = key THEN val ELSE Held(k)
      PROVE  Map!SetSlot
  BY <1>1, <1>2, <1>5 DEF Map!SetSlot, Map!NoCall
<1>6. hand.key \notin Keys
  BY <1>1, NullIsNoKey DEF Nobody
<1>7. ASSUME i \in Full', keys'[i] = key, vals'[i] = val,
             Full' = Full \cup {i},
             \A b \in Full : b # i => keys'[b] = keys[b] /\ vals'[b] = vals[b],
             i \in Full => keys[i] = key,
             NEW k \in Keys
      PROVE  Held(k)' = IF k = key THEN val ELSE Held(k)
  <2>1. CASE k = key
    BY <2>1, <1>3, <1>7 DEF HeldIs
  <2>2. CASE k # key /\ \E b \in Full : keys[b] = k
    <3>1. PICK b \in Full : keys[b] = k
      BY <2>2
    <3>2. b # i /\ b \in Full' /\ keys'[b] = k /\ vals'[b] = vals[b]
      BY <3>1, <2>2, <1>7
    <3>3. Held(k) = vals[b] /\ Held(k)' = vals'[b]
      BY <3>1, <3>2, <1>3 DEF HeldIs
    <3> QED
      BY <3>2, <3>3, <2>2
  <2>3. CASE k # key /\ \A b \in Full : keys[b] # k
    <3>1. \A b \in Full' : keys'[b] # k
      BY <2>3, <1>7
    <3>2. hand.key # k /\ hand'.key # k
      BY <1>1, <1>6
    <3> QED
      BY <2>3, <3>1, <3>2, <1>3 DEF HeldIs
  <2> QED
    BY <2>1, <2>2, <2>3
<1>8. CASE flags[i] = "empty"
  <2>1. /\ key' = NULL /\ val' = NULL
        /\ keys' = [keys EXCEPT ![i] = key]
        /\ vals' = [vals EXCEPT ![i] = val]
        /\ flags' = [flags EXCEPT ![i] = "live"]
    BY <1>8 DEF PutProbe, Return
  <2>2. i \notin Full
    BY <1>1, <1>8, TableFacts
  <2>3. Full' = Full \cup {i}
    BY <2>1, <1>1, <1>4 DEF Full, Old, New
  <2>4. /\ keys'[i] = key /\ vals'[i] = val
        /\ \A b \in Full : b # i => keys'[b] = keys[b] /\ vals'[b] = vals[b]
    BY <2>1, <1>1, <1>4, TableFacts
  <2> QED
    BY <2>1, <2>2, <2>3, <2>4, <1>5, <1>7
<1>9. CASE flags[i] # "empty" /\ keys[i] = key
  <2>1. /\ key' = NULL /\ val' = NULL
        /\ keys' = keys /\ flags' = flags
        /\ vals' = [vals EXCEPT ![i] = val]
    BY <1>9 DEF PutProbe, Return
  <2>2. i \in Full
    BY <1>1, <1>4, <1>9, RestFacts
  <2>3. Full' = Full \cup {i}
    BY <2>1, <2>2, <1>1 DEF Full, Old, New
  <2>4. /\ keys'[i] = key /\ vals'[i] = val
        /\ \A b \in Full : b # i => keys'[b] = keys[b] /\ vals'[b] = vals[b]
    BY <2>1, <1>1, <1>4, <1>9, TableFacts
  <2> QED
    BY <2>1, <2>2, <2>3, <2>4, <1>5, <1>7, <1>9
<1>10. CASE flags[i] # "empty" /\ keys[i] # key
  <2>1. ~ Wraps
    BY <1>1, <1>10, NextIsNew
  <2>2. UNCHANGED <<key, val, got>> /\ UNCHANGED <<table, rehash>>
    BY <2>1, <1>10 DEF PutProbe, table
  <2> QED
    BY <2>2, SameHeld, StutterOfMap
<1> QED
  BY <1>8, <1>9, <1>10

(* The steps of a rehash: whatever is in the buckets and in hand before is *)
(* in the buckets and in hand afterwards.                                  *)
LEMMA SameEntries ==
  ASSUME HeldIs, HeldIs', UNCHANGED <<key, val, got>>,
         \A b \in Full : \/ \E c \in Full' : keys'[c] = keys[b] /\ vals'[c] = vals[b]
                         \/ hand' # Nobody /\ hand'.key = keys[b] /\ hand'.val = vals[b],
         hand # Nobody => \/ \E c \in Full' : keys'[c] = hand.key /\ vals'[c] = hand.val
                          \/ hand' = hand,
         \A c \in Full' : \/ \E b \in Full : keys[b] = keys'[c]
                          \/ hand # Nobody /\ hand.key = keys'[c],
         hand' # Nobody => \/ \E b \in Full : keys[b] = hand'.key
                           \/ hand' = hand
  PROVE  UNCHANGED Map!vars
<1>1. ASSUME NEW k \in Keys
      PROVE  Held(k)' = Held(k)
  <2>1. CASE \E b \in Full : keys[b] = k
    <3>1. PICK b \in Full : keys[b] = k
      BY <2>1
    <3>2. Held(k) = vals[b]
      BY <3>1 DEF HeldIs
    <3>3. CASE \E c \in Full' : keys'[c] = keys[b] /\ vals'[c] = vals[b]
      BY <3>1, <3>2, <3>3 DEF HeldIs
    <3>4. CASE hand' # Nobody /\ hand'.key = keys[b] /\ hand'.val = vals[b]
      BY <3>1, <3>2, <3>4 DEF HeldIs
    <3> QED
      BY <3>3, <3>4
  <2>2. CASE hand # Nobody /\ hand.key = k
    <3>1. Held(k) = hand.val
      BY <2>2 DEF HeldIs
    <3>2. CASE \E c \in Full' : keys'[c] = hand.key /\ vals'[c] = hand.val
      BY <2>2, <3>1, <3>2 DEF HeldIs
    <3>3. CASE hand' = hand
      BY <2>2, <3>1, <3>3 DEF HeldIs
    <3> QED
      BY <2>2, <3>2, <3>3
  <2>3. CASE (\A b \in Full : keys[b] # k) /\ ~ (hand # Nobody /\ hand.key = k)
    <3>1. hand.key # k
      BY <2>3, NullIsNoKey DEF Nobody
    <3>2. \A c \in Full' : keys'[c] # k
      BY <2>3
    <3>3. hand'.key # k
      <4>1. CASE hand' = Nobody
        BY <4>1, NullIsNoKey DEF Nobody
      <4>2. CASE hand' # Nobody
        BY <4>2, <2>3, <3>1
      <4> QED
        BY <4>1, <4>2
    <3> QED
      BY <2>3, <3>1, <3>2, <3>3 DEF HeldIs
  <2> QED
    BY <2>1, <2>2, <2>3
<1> QED
  BY <1>1, StutterOfMap

(* kh_resize changes nothing of the map when it begins,                    *)
LEMMA ResizeMap ==
  ASSUME IInv, IInv', Resize
  PROVE  UNCHANGED Map!vars
<1>1. PICK n \in Sizes :
        /\ n > buckets /\ n \in Nat /\ pc' = "take"
        /\ newFlags' = Empty(n) /\ keys' = Grown(keys, n) /\ vals' = Grown(vals, n)
  BY ResizeFacts
<1>2. /\ UNCHANGED <<key, val, got>> /\ ~ Moving
      /\ hand' = hand /\ flags' = flags
  BY <1>1 DEF Resize, Moving, Probe, rehash, table
<1>3. New = {} /\ Full = Old /\ buckets \in Nat
  BY <1>2, RestFacts, TableFacts
<1>4. Full' = Full
  <2>1. \A b \in DOMAIN newFlags' : newFlags'[b] = "empty"
    BY <1>1 DEF Empty
  <2> QED
    BY <2>1, <1>2, <1>3 DEF Full, Old, New
<1>5. \A b \in Full : keys'[b] = keys[b] /\ vals'[b] = vals[b]
  BY <1>1, <1>3, TableFacts DEF Grown
<1>6. HeldIs /\ HeldIs'
  BY HeldFacts, HeldFactsNext
<1> QED
  BY <1>2, <1>4, <1>5, <1>6, SameEntries

(* when it takes a key from its bucket,                                    *)
LEMMA TakeMap ==
  ASSUME IInv, IInv', Take
  PROVE  UNCHANGED Map!vars
<1>1. /\ UNCHANGED <<key, val, got>> /\ keys' = keys /\ vals' = vals /\ newFlags' = newFlags
      /\ pc = "take" /\ j < buckets
  BY DEF Take
<1>2. hand = Nobody /\ j \in DOMAIN flags
  BY <1>1, TableFacts DEF IInv, UnderWay, Moving, TypeOK
<1>3. HeldIs /\ HeldIs'
  BY HeldFacts, HeldFactsNext
<1>4. New' = New
  BY <1>1 DEF New
<1>5. CASE flags[j] = "live"
  <2>1. /\ hand' = [key |-> keys[j], val |-> vals[j]]
        /\ flags' = [flags EXCEPT ![j] = "deleted"]
        /\ pc' = "place"
    BY <1>5 DEF Take, Removed
  <2>2. j \in Old /\ j \notin New /\ j \in Full
    BY <1>2, <1>5 DEF Old, IInv, Entries, Full
  <2>3. Full' = Full \ {j}
    <3>1. Old' = Old \ {j}
      BY <2>1, <1>2 DEF Old
    <3> QED
      BY <3>1, <2>2, <1>4 DEF Full
  <2>4. hand' # Nobody /\ hand'.key = keys[j] /\ hand'.val = vals[j]
    <3>1. hand' # Nobody
      BY <2>1 DEF IInv, UnderWay, Moving
    <3> QED
      BY <2>1, <3>1
  <2> QED
    BY <2>2, <2>3, <2>4, <1>1, <1>2, <1>3, SameEntries
<1>6. CASE flags[j] # "live"
  <2>1. hand' = hand /\ flags' = flags
    BY <1>6 DEF Take
  <2>2. Full' = Full
    BY <2>1, <1>4 DEF Full, Old
  <2> QED
    BY <2>1, <2>2, <1>1, <1>3, SameEntries
<1> QED
  BY <1>5, <1>6

(* when it puts one into its new bucket,                                   *)
LEMMA PlaceMap ==
  ASSUME IInv, IInv', Place
  PROVE  UNCHANGED Map!vars
<1>1. UNCHANGED <<key, val, got>> /\ pc = "place"
  BY DEF Place
<1>2. HeldIs /\ HeldIs'
  BY HeldFacts, HeldFactsNext
<1>3. CASE newFlags[i] # "empty"
  <2>1. /\ hand' = hand /\ flags' = flags /\ newFlags' = newFlags /\ keys' = keys /\ vals' = vals
    BY <1>3 DEF Place
  <2>2. Full' = Full
    BY <2>1 DEF Full, Old, New
  <2> QED
    BY <2>1, <2>2, <1>1, <1>2, SameEntries
<1>4. CASE newFlags[i] = "empty"
  <2>1. /\ i \in DOMAIN keys /\ i \notin New /\ (i \in Old <=> Displaced(i))
        /\ (i \in Old => i \in DOMAIN flags)
    BY <1>4, PlacingFacts
  <2>2. /\ New' = New \cup {i} /\ keys'[i] = hand.key /\ vals'[i] = hand.val
        /\ \A b \in Full : b # i => keys'[b] = keys[b] /\ vals'[b] = vals[b]
    BY <2>1, <1>4, PlacedIsFound, TableFacts DEF Full
  <2>3. hand # Nobody
    BY <1>1, RoomForHand
  <2>4. CASE Displaced(i)
    <3>1. /\ hand' = [key |-> keys[i], val |-> vals[i]]
          /\ flags' = [flags EXCEPT ![i] = "deleted"] /\ pc' = "place"
      BY <1>4, <2>4, <1>1 DEF Place, Swapped, Removed
    <3>2. Old' = Old \ {i}
      BY <3>1, <2>1, <2>4 DEF Old
    <3>3. Full' = Full /\ i \in Full
      BY <3>2, <2>1, <2>2, <2>4 DEF Full
    <3>4. hand' # Nobody /\ hand'.key = keys[i] /\ hand'.val = vals[i]
      <4>1. hand' # Nobody
        BY <3>1 DEF IInv, UnderWay, Moving
      <4> QED
        BY <3>1, <4>1
    <3> QED
      BY <3>3, <3>4, <2>2, <2>3, <1>1, <1>2, SameEntries
  <2>5. CASE ~ Displaced(i)
    <3>1. hand' = Nobody /\ flags' = flags
      BY <1>4, <2>5 DEF Place
    <3>2. Old' = Old
      BY <3>1 DEF Old
    <3>3. Full' = Full \cup {i} /\ i \notin Full
      BY <3>2, <2>1, <2>2, <2>5 DEF Full
    <3> QED
      BY <3>1, <3>3, <2>2, <2>3, <1>1, <1>2, SameEntries
  <2> QED
    BY <2>4, <2>5
<1> QED
  BY <1>3, <1>4

(* and when the new table takes the place of the old one.                  *)
LEMMA ResizedMap ==
  ASSUME IInv, IInv', Resized
  PROVE  UNCHANGED Map!vars
<1>1. /\ UNCHANGED <<key, val, got>> /\ hand' = hand /\ j = buckets /\ pc = "take"
      /\ flags' = newFlags /\ newFlags' = Empty(0)
      /\ keys' = Grown(keys, newBuckets) /\ vals' = Grown(vals, newBuckets)
  BY DEF Resized
<1>2. UnderWay /\ Moving /\ buckets \in Nat /\ newBuckets > buckets
  BY <1>1, TableFacts DEF IInv, Moving, UnderWay
<1>3. Old = {} /\ Full = New
  <2>1. \A b \in 0..buckets - 1 : flags[b] # "live"
    BY <1>1, <1>2 DEF UnderWay
  <2> QED
    BY <2>1, TableFacts DEF Full
<1>4. Full' = Full
  BY <1>1, <1>3 DEF Full, Old, New, Empty
<1>5. \A b \in Full : keys'[b] = keys[b] /\ vals'[b] = vals[b]
  BY <1>1, <1>3, TableFacts DEF Grown
<1>6. HeldIs /\ HeldIs'
  BY HeldFacts, HeldFactsNext
<1> QED
  BY <1>1, <1>4, <1>5, <1>6, SameEntries

(* An object without slots is an empty map.                                *)
LEMMA InitMap == Init => Map!Init
<1> SUFFICES ASSUME Init PROVE Map!Init
  OBVIOUS
<1>1. hand = Nobody /\ flags = Empty(0) /\ newFlags = Empty(0)
      /\ key = NULL /\ val = NULL /\ got = NULL
  BY DEF Init
<1>2. Full = {}
  BY <1>1 DEF Empty, Full, Old, New
<1>3. HeldIs
  BY InitIInv, HeldFacts
<1>4. hand.key \notin Keys
  BY <1>1, NullIsNoKey DEF Nobody
<1>5. \A k \in Keys : Held(k) = NULL
  BY <1>2, <1>3, <1>4 DEF HeldIs
<1> QED
  BY <1>1, <1>5 DEF Map!Init, Map!NoCall

(* Every step of the table is one of the map, or changes nothing of it.    *)
LEMMA NextMap == IInv /\ IInv' /\ [Next]_vars => [Map!Next]_(Map!vars)
<1> SUFFICES ASSUME IInv, IInv', [Next]_vars PROVE Map!Next \/ UNCHANGED Map!vars
  OBVIOUS
<1>1. CASE \E k \in Keys : GetSlot(k) \/ \E v \in Values : SetSlot(k, v)
  BY <1>1, BeginMap DEF Map!Next
<1>2. CASE GetProbe
  BY <1>2, GetProbeMap DEF Map!Next
<1>3. CASE PutProbe
  BY <1>3, PutProbeMap DEF Map!Next
<1>4. CASE Resize
  BY <1>4, ResizeMap
<1>5. CASE Take
  BY <1>5, TakeMap
<1>6. CASE Place
  BY <1>6, PlaceMap
<1>7. CASE Resized
  BY <1>7, ResizedMap
<1>8. CASE UNCHANGED vars
  <2>1. UNCHANGED <<key, val, got>> /\ UNCHANGED <<table, rehash>>
    BY <1>8 DEF vars
  <2> QED
    BY <2>1, SameHeld, StutterOfMap
<1> QED
  BY <1>1, <1>2, <1>3, <1>4, <1>5, <1>6, <1>7, <1>8 DEF Next, Work

(* ImplementsMap: with all its probing and rehashing, and for all hashes,  *)
(* keys and sizes, the table of khash.h is a map: set_slot changes the     *)
(* object of its name in one step, and get_slot answers with it.           *)
THEOREM ImplementsMapTheorem == Spec => ImplementsMap
<1>1. Init => Map!Init
  BY InitMap
<1>2. IInv /\ IInv' /\ [Next]_vars => [Map!Next]_(Map!vars)
  BY NextMap
<1> QED
  BY <1>1, <1>2, AlwaysIInv, PTL DEF Spec, ImplementsMap, Map!Spec

=============================================================================
