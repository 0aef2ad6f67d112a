---------------------------- MODULE BstringsProofs ----------------------------
(***************************************************************************)
(* The strings of bstrlib, for blocks, texts, positions and lengths up to  *)
(* INT_MAX, for any buffer sizes, and for every program of calls: each is  *)
(* ended by a `\0' inside of its block, no call does more harm than        *)
(* OnlyKnownFaults says, and searches and comparisons are right.           *)
(***************************************************************************)
EXTENDS Bstrings, WellFoundedInduction, SequenceTheorems, TLAPS

-----------------------------------------------------------------------------
(***************************************************************************)
(* Loops.                                                                  *)
(***************************************************************************)
(* A set of naturals has a least member.                                   *)
LEMMA LeastNumber ==
  ASSUME NEW S \in SUBSET Nat, S # {}
  PROVE  \E m \in S : \A k \in S : m <= k
<1>1. PICK m \in S : \A k \in S : ~ (<<k, m>> \in OpToRel(<, Nat))
  BY WFMin, NatLessThanWellFounded
<1>2. ASSUME NEW k \in S PROVE m <= k
  <2>1. k \in Nat /\ m \in Nat
    OBVIOUS
  <2>2. ~ (k < m)
    BY <1>1, <2>1 DEF OpToRel
  <2>3. QED
    BY <2>1, <2>2
<1>3. QED
  BY <1>2

(* The definition of While is well-founded, whether the loop ends or not:  *)
(* R is the least relation of a state to the one in which its loop ends.   *)
LEMMA WhileRuns ==
  ASSUME NEW S, NEW body \in [S -> S], NEW s \in S, \A x \in S : x.on \in BOOLEAN
  PROVE  \E run : /\ run = [x \in S |-> IF x.on THEN run[body[x]] ELSE x]
                  /\ While(body, s) = run[s]
<1> DEFINE Closed(Q) == \A x, e \in S : /\ ~ x.on /\ e = x => <<x, e>> \in Q
                                        /\ x.on /\ <<body[x], e>> \in Q => <<x, e>> \in Q
           R == {p \in S \X S : \A Q \in SUBSET (S \X S) : Closed(Q) => p \in Q}
           Ends(x) == {e \in S : <<x, e>> \in R}
           f == [x \in S |-> IF Ends(x) = {} THEN s ELSE CHOOSE e : e \in Ends(x)]
           Body(run) == [x \in S |-> IF x.on THEN run[body[x]] ELSE x]
<1>1. R \in SUBSET (S \X S) /\ Closed(R)
  <2>1. ASSUME NEW x \in S, NEW e \in S, ~ x.on /\ e = x PROVE <<x, e>> \in R
    BY <2>1
  <2>2. ASSUME NEW x \in S, NEW e \in S, x.on, <<body[x], e>> \in R PROVE <<x, e>> \in R
    BY <2>2
  <2>3. QED
    BY <2>1, <2>2
<1>2. ASSUME NEW Q \in SUBSET (S \X S), Closed(Q), NEW p \in R PROVE p \in Q
  BY <1>2
<1> HIDE DEF R
<1>3. ASSUME NEW x \in S, x.on PROVE Ends(x) = Ends(body[x])
  <2>1. ASSUME NEW e \in S, <<x, e>> \in R, <<body[x], e>> \notin R PROVE FALSE
    <3> DEFINE Q == R \ {<<x, e>>}
    <3>1. Closed(Q)
      BY <1>1, <1>3, <2>1
    <3>2. Q \in SUBSET (S \X S) /\ <<x, e>> \notin Q
      BY <1>1
    <3> HIDE DEF Q, Closed
    <3>3. QED
      BY <1>2, <2>1, <3>1, <3>2
  <2>2. body[x] \in S
    OBVIOUS
  <2>3. QED
    BY <1>1, <1>3, <2>1, <2>2
<1>4. ASSUME NEW x \in S, ~ x.on PROVE Ends(x) = {x}
  <2>1. ASSUME NEW e \in S, <<x, e>> \in R, e # x PROVE FALSE
    <3> DEFINE Q == R \ {<<x, e>>}
    <3>1. Closed(Q)
      BY <1>1, <1>4, <2>1
    <3>2. Q \in SUBSET (S \X S) /\ <<x, e>> \notin Q
      BY <1>1
    <3> HIDE DEF Q, Closed
    <3>3. QED
      BY <1>2, <2>1, <3>1, <3>2
  <2>2. QED
    BY <1>1, <1>4, <2>1, ZenonT(60)
<1> HIDE DEF Ends
<1>5. f = Body(f)
  <2>1. ASSUME NEW x \in S PROVE f[x] = Body(f)[x]
    <3>1. CASE x.on
      <4>1. body[x] \in S
        OBVIOUS
      <4>2. Ends(x) = Ends(body[x])
        BY <1>3, <3>1
      <4>3. f[x] = f[body[x]]
        BY <4>1, <4>2
      <4>4. Body(f)[x] = f[body[x]]
        BY <3>1
      <4>5. QED
        BY <4>3, <4>4
    <3>2. CASE ~ x.on
      <4>1. Ends(x) = {x}
        BY <1>4, <3>2
      <4>2. f[x] = x
        BY <4>1
      <4>3. QED
        BY <3>2, <4>2
    <3>3. QED
      BY <3>1, <3>2
  <2>2. QED
    BY <2>1
<1> DEFINE w == CHOOSE run : run = Body(run)
<1>6. w = Body(w)
  <2> HIDE DEF f, Body
  <2>1. QED
    BY <1>5
<1>7. While(body, s) = w[s]
  BY DEF While
<1> HIDE DEF w
<1>8. QED
  BY <1>6, <1>7

(* A loop whose body keeps I and counts down ends, in I.                   *)
LEMMA WhileEnds ==
  ASSUME NEW S, NEW body \in [S -> S], NEW I \in SUBSET S, NEW left \in [I -> Nat],
         \A x \in S : x.on \in BOOLEAN,
         \A x \in I : x.on => body[x] \in I /\ left[body[x]] < left[x],
         NEW s \in I
  PROVE  While(body, s) \in I /\ ~ While(body, s).on
<1>1. PICK run : /\ run = [x \in S |-> IF x.on THEN run[body[x]] ELSE x]
                 /\ While(body, s) = run[s]
  BY WhileRuns
<1>2. \A x \in S : run[x] = IF x.on THEN run[body[x]] ELSE x
  BY <1>1
<1> DEFINE Good(x) == run[x] \in I /\ ~ run[x].on
           Bad == {n \in Nat : \E x \in I : left[x] = n /\ ~ Good(x)}
<1>3. Bad = {}
  <2> SUFFICES ASSUME Bad # {} PROVE FALSE
    OBVIOUS
  <2>1. PICK n \in Bad : \A k \in Bad : n <= k
    <3>1. Bad \in SUBSET Nat
      OBVIOUS
    <3> HIDE DEF Bad
    <3>2. QED
      BY <3>1, LeastNumber
  <2>2. PICK x \in I : left[x] = n /\ ~ Good(x)
    OBVIOUS
  <2>3. x.on
    BY <1>2, <2>2
  <2>4. body[x] \in I /\ left[body[x]] < n /\ left[body[x]] \in Nat /\ n \in Nat
    BY <2>2, <2>3
  <2>5. ~ Good(body[x])
    BY <1>2, <2>2, <2>3
  <2>6. left[body[x]] \in Bad
    BY <2>4, <2>5
  <2> HIDE DEF Bad
  <2>7. n <= left[body[x]]
    BY <2>1, <2>6
  <2>8. QED
    BY <2>4, <2>7
<1>4. Good(s)
  <2>1. left[s] \in Nat /\ left[s] \notin Bad
    BY <1>3
  <2>2. QED
    BY <2>1
<1>5. QED
  BY <1>1, <1>4

-----------------------------------------------------------------------------
(***************************************************************************)
(* The searches.                                                           *)
(***************************************************************************)
\* u is what t has from i on.
Standing(t, u, i, caseless) ==
  /\ i \in 0..Len(t) - Len(u)
  /\ \A j \in 0..Len(u) - 1 : Same(t[i + j + 1], u[j + 1], caseless)

\* The first, or the last, place from pos on; ERR for none.
IsFirst(r, t, u, pos, caseless) ==
  \/ /\ r >= pos /\ Standing(t, u, r, caseless)
     /\ \A i \in Nat : i >= pos /\ Standing(t, u, i, caseless) => r <= i
  \/ /\ r = ERR
     /\ \A i \in Nat : i >= pos => ~ Standing(t, u, i, caseless)
IsLast(r, t, u, pos, caseless) ==
  \/ /\ r <= pos /\ Standing(t, u, r, caseless)
     /\ \A i \in Nat : i <= pos /\ Standing(t, u, i, caseless) => i <= r
  \/ /\ r = ERR
     /\ \A i \in Nat : i <= pos => ~ Standing(t, u, i, caseless)

(* The states of the searches have their types.                            *)
LEMMA StatesTyped ==
  \A i, j, ii \in Int :
         /\ On(i, j, ii) \in Comparing /\ Returned(ii) \in Comparing
         /\ On(i, j, ii).on /\ On(i, j, ii).i = i /\ On(i, j, ii).j = j /\ On(i, j, ii).ii = ii
         /\ ~ Returned(ii).on /\ Returned(ii).ii = ii
BY DEF On, Returned, Comparing

(* A step of the loop of binstr gives a state of it.                       *)
LEMMA ScanTyped ==
  ASSUME NEW t, NEW u, Len(t) \in Nat, NEW s \in Comparing
  PROVE  Scan(t, u, s) \in Comparing
<1> DEFINE lf == Len(t) - 1
           i == s.i
           j == s.j
           k == IF At(u, j) = At(t, i) THEN i ELSE i + 1
           start == IF j = 0 THEN k ELSE s.ii
<1>1. i \in Int /\ j \in Int /\ s.ii \in Int /\ lf \in Int /\ ERR \in Int
  BY DEF Comparing, ERR
<1>2. k \in Int /\ start \in Int
  BY <1>1
<1>3. \A a, b, c \in Int : On(a, b, c) \in Comparing /\ Returned(c) \in Comparing
  BY StatesTyped
<1>4. \A a, b, c \in Int : Found(a, b, c) \in Comparing
  BY <1>3 DEF Found
<1>5. i + 2 \in Int /\ k + 1 \in Int /\ j + 1 \in Int
  BY <1>1, <1>2
<1> HIDE DEF k, start
<1>6. Scan(t, u, s) \in {Found(i, j, s.ii), Returned(ERR), On(i + 2, j, s.ii),
                         On(k + 1, j + 1, start), Found(k + 1, j + 1, start)}
  BY DEF Scan, k, start
<1> HIDE DEF i, j
<1>7. QED
  BY <1>1, <1>2, <1>3, <1>4, <1>5, <1>6

(* N * a + b with b at most N is in the order of the pairs (a, b).         *)
LEMMA InOrder ==
  ASSUME NEW n \in Nat, NEW a \in Nat, NEW b \in Nat, NEW c \in Nat, NEW d \in Nat,
         d <= n, b >= 1, c < a \/ (c = a /\ d < b)
  PROVE  n * c + d < n * a + b
<1>1. CASE c = a
  <2>1. n * c = n * a /\ n * a \in Nat /\ n * c \in Nat
    BY <1>1
  <2>2. QED
    BY <1>1, <2>1
<1>2. CASE c < a
  <2> DEFINE e == a - 1 - c
  <2>1. e \in Nat /\ a = c + 1 + e
    BY <1>2
  <2> HIDE DEF e
  <2>2. n * a = n * c + n + n * e
    BY <2>1
  <2>3. n * c \in Nat /\ n * e \in Nat
    BY <2>1
  <2>4. QED
    BY <2>2, <2>3
<1>3. QED
  BY <1>1, <1>2

\* What the loop of binstr knows at (i, j, ii).
ScanHas(t, u, pos, i, j, ii) ==
  /\ i \in pos..Len(t) + 1
  /\ j > 0 => /\ ii >= pos /\ ii + j <= i
              /\ i = ii + j => \A q \in 0..j - 1 : t[ii + q + 1] = u[q + 1]
  /\ \A p \in Nat : p >= pos /\ Standing(t, u, p, FALSE) => p + j >= i

Scanned(t, u, pos) ==
  {s \in Comparing : IF s.on THEN s.j \in 0..Len(u) - 1 /\ ScanHas(t, u, pos, s.i, s.j, s.ii)
                     ELSE IsFirst(s.ii, t, u, pos, FALSE)}

\* What is left to do: ii goes on, or i does.
ToScan(t, i, j, ii) == LET n == Len(t) + 2 IN n * (n - (IF j = 0 THEN i ELSE ii)) + (n - i)

(* What N0 of binstr does with the match that it has come to.              *)
LEMMA FoundScan ==
  ASSUME NEW t, NEW u, Len(t) \in Nat, Len(u) \in Nat, NEW pos \in Nat,
         NEW i \in Int, NEW j \in Int, NEW ii \in Int, j > 0,
         \/ j = Len(u) /\ i <= Len(t)
         \/ j + 1 = Len(u) /\ i + 1 = Len(t) /\ t[i + 1] = u[j + 1],
         ScanHas(t, u, pos, i, j, ii)
  PROVE  /\ Found(i, j, ii) \in Scanned(t, u, pos)
         /\ Found(i, j, ii).on => /\ Found(i, j, ii).j = 0
                                  /\ Found(i, j, ii).i > ii
<1>1. CASE i = ii + j
  <2>1. Found(i, j, ii) = Returned(ii)
    BY <1>1 DEF Found, Matched
  <2>2. ii >= pos /\ ii \in 0..Len(t) - Len(u) /\ Standing(t, u, ii, FALSE)
    <3>1. ii >= pos /\ ii \in 0..Len(t) - Len(u)
      BY <1>1 DEF ScanHas
    <3>2. \A q \in 0..j - 1 : t[ii + q + 1] = u[q + 1]
      BY <1>1 DEF ScanHas
    <3>3. ASSUME NEW q \in 0..Len(u) - 1 PROVE t[ii + q + 1] = u[q + 1]
      <4>1. q \in 0..j - 1 \/ (q = j /\ t[i + 1] = u[j + 1] /\ ii + q + 1 = i + 1)
        BY <1>1
      <4>2. QED
        BY <3>2, <4>1
    <3>4. QED
      BY <3>1, <3>3 DEF Standing, Same
  <2>3. ASSUME NEW p \in Nat, p >= pos, Standing(t, u, p, FALSE) PROVE ii <= p
    <3>1. p + j >= i
      BY <2>3 DEF ScanHas
    <3>2. QED
      BY <1>1, <3>1
  <2>4. IsFirst(ii, t, u, pos, FALSE)
    BY <2>2, <2>3 DEF IsFirst
  <2>5. Returned(ii) \in Comparing /\ ~ Returned(ii).on /\ Returned(ii).ii = ii
    BY StatesTyped
  <2>6. QED
    BY <2>1, <2>4, <2>5 DEF Scanned
<1>2. CASE i # ii + j
  <2>1. Found(i, j, ii) = On(i - j, 0, ii)
    BY <1>2 DEF Found, Matched
  <2>2. i - j > ii /\ i - j \in Int /\ 0 \in Int
    BY <1>2 DEF ScanHas
  <2>3. ScanHas(t, u, pos, i - j, 0, ii)
    <3>1. i - j \in pos..Len(t) + 1 /\ ~ (0 > 0)
      BY <2>2 DEF ScanHas
    <3>2. ASSUME NEW p \in Nat, p >= pos, Standing(t, u, p, FALSE) PROVE p + 0 >= i - j
      <4>1. p + j >= i
        BY <3>2 DEF ScanHas
      <4>2. QED
        BY <4>1
    <3>3. QED
      BY <3>1, <3>2 DEF ScanHas
  <2>4. /\ On(i - j, 0, ii) \in Comparing /\ On(i - j, 0, ii).on
        /\ On(i - j, 0, ii).i = i - j /\ On(i - j, 0, ii).j = 0 /\ On(i - j, 0, ii).ii = ii
    BY <2>2 DEF On, Comparing
  <2>5. 0 \in 0..Len(u) - 1
    OBVIOUS
  <2>6. QED
    BY <2>1, <2>2, <2>3, <2>4, <2>5 DEF Scanned
<1>3. QED
  BY <1>1, <1>2

(* Every step of binstr's loop leaves less of the text to do.              *)
LEMMA ToScanFalls ==
  ASSUME NEW t, NEW u, Len(t) \in Nat, NEW pos \in Nat,
         NEW i \in Int, NEW j \in Nat, NEW ii \in Int, ScanHas(t, u, pos, i, j, ii),
         NEW k \in Int, NEW l \in Nat, NEW kk \in Int, ScanHas(t, u, pos, k, l, kk)
  PROVE  /\ ToScan(t, i, j, ii) \in Nat \ {0}
         /\ LET a == IF j = 0 THEN i ELSE ii
                b == IF l = 0 THEN k ELSE kk
            IN  b > a \/ (b = a /\ k > i) => ToScan(t, k, l, kk) < ToScan(t, i, j, ii)
<1> DEFINE n == Len(t) + 2
           a == IF j = 0 THEN i ELSE ii
           b == IF l = 0 THEN k ELSE kk
<1>1. /\ a \in 0..Len(t) + 1 /\ i \in 0..Len(t) + 1
      /\ b \in 0..Len(t) + 1 /\ k \in 0..Len(t) + 1
  BY DEF ScanHas
<1> HIDE DEF a, b
<1>2. /\ n \in Nat /\ n - a \in Nat /\ n - i \in Nat /\ n - b \in Nat /\ n - k \in Nat
      /\ n - i >= 1 /\ n - k <= n
  BY <1>1
<1>3. ToScan(t, i, j, ii) = n * (n - a) + (n - i) /\ ToScan(t, k, l, kk) = n * (n - b) + (n - k)
  BY DEF ToScan, a, b
<1> HIDE DEF n
<1>4. n * (n - a) + (n - i) \in Nat \ {0}
  <2> DEFINE d == n - a
             e == n - i
  <2>1. d \in Nat /\ e \in Nat
    BY <1>2
  <2>6. e >= 1
    BY <1>2
  <2> HIDE DEF d, e
  <2>2. n * d \in Nat
    BY <1>2, <2>1
  <2> DEFINE c == n * d
  <2> HIDE DEF c
  <2>4. c \in Nat
    BY <2>2 DEF c
  <2>5. c + e \in Nat \ {0}
    BY <2>1, <2>4, <2>6
  <2>3. QED
    BY <2>5 DEF c, d, e
<1>5. ASSUME b > a \/ (b = a /\ k > i) PROVE n * (n - b) + (n - k) < n * (n - a) + (n - i)
  <2> DEFINE d == n - a
             e == n - i
             f == n - b
             g == n - k
  <2>1. d \in Nat /\ e \in Nat /\ f \in Nat /\ g \in Nat /\ g <= n /\ e >= 1
    BY <1>2
  <2>2. f < d \/ (f = d /\ g < e)
    BY <1>1, <1>2, <1>5
  <2> HIDE DEF d, e, f, g
  <2>3. n * f + g < n * d + e
    BY <1>2, <2>1, <2>2, InOrder
  <2>4. QED
    BY <2>3 DEF d, e, f, g
<1>6. QED
  BY <1>3, <1>4, <1>5 DEF a, b

(* The loop of binstr goes on from where nothing was passed over.          *)
LEMMA OnScanned ==
  ASSUME NEW t, NEW u, NEW pos \in Nat, Len(u) \in Nat,
         NEW k \in Int, NEW l \in 0..Len(u) - 1, NEW kk \in Int, ScanHas(t, u, pos, k, l, kk)
  PROVE  On(k, l, kk) \in Scanned(t, u, pos)
<1>1. l \in Int
  OBVIOUS
<1>2. /\ On(k, l, kk) \in Comparing /\ On(k, l, kk).on
      /\ On(k, l, kk).i = k /\ On(k, l, kk).j = l /\ On(k, l, kk).ii = kk
  BY <1>1, StatesTyped
<1>3. QED
  BY <1>2 DEF Scanned

\* A turn of the loop of binstr.
LEMMA ScanTurn ==
  ASSUME NEW t, NEW u, Len(t) \in Nat, Len(u) \in Nat, Len(u) >= 2, NEW pos \in Nat,
         NEW s \in Scanned(t, u, pos), s.on
  PROVE  /\ Scan(t, u, s) \in Scanned(t, u, pos)
         /\ ToScan(t, s.i, s.j, s.ii) \in Nat \ {0}
         /\ Scan(t, u, s).on => ToScan(t, Scan(t, u, s).i, Scan(t, u, s).j, Scan(t, u, s).ii)
                                  < ToScan(t, s.i, s.j, s.ii)
<1> DEFINE lf == Len(t) - 1
           i == s.i
           j == s.j
           ii == s.ii
           k == IF At(u, j) = At(t, i) THEN i ELSE i + 1
           start == IF j = 0 THEN k ELSE ii
           n == Scan(t, u, s)
           Less(x) == x.on => ToScan(t, x.i, x.j, x.ii) < ToScan(t, i, j, ii)
<1>1. i \in Int /\ j \in 0..Len(u) - 1 /\ ii \in Int /\ ScanHas(t, u, pos, i, j, ii)
  BY DEF Scanned, Comparing
<1> HIDE DEF i, j, ii
<1>2. ToScan(t, i, j, ii) \in Nat \ {0}
  <2>1. j \in Nat
    BY <1>1
  <2>2. QED
    BY <1>1, <2>1, ToScanFalls
<1>3. ASSUME NEW x \in Scanned(t, u, pos), x.on,
             LET a == IF j = 0 THEN i ELSE ii
                 b == IF x.j = 0 THEN x.i ELSE x.ii
             IN  b > a \/ (b = a /\ x.i > i)
      PROVE  Less(x)
  <2>1. x.i \in Int /\ x.j \in Nat /\ x.ii \in Int /\ ScanHas(t, u, pos, x.i, x.j, x.ii)
    BY <1>3 DEF Scanned, Comparing
  <2>2. QED
    BY <1>1, <1>3, <2>1, ToScanFalls, SMTT(60)
<1>4. CASE i >= lf /\ i = lf /\ Len(u) = j + 1 /\ At(u, j) = At(t, i)
  <2>1. n = Found(i, j, ii)
    BY <1>1, <1>4 DEF Scan, i, j, ii
  <2>2. t[i + 1] = u[j + 1]
    BY <1>4 DEF At
  <2>3. n \in Scanned(t, u, pos) /\ (n.on => n.j = 0 /\ n.i > ii)
    <3> HIDE DEF n
    <3>1. QED
      BY <1>1, <1>4, <2>1, <2>2, FoundScan
  <2> HIDE DEF n
  <2>4. j # 0
    BY <1>1, <1>4
  <2>5. n.on => Less(n)
    BY <1>3, <2>3, <2>4
  <2>6. QED
    BY <1>2, <2>3, <2>5 DEF n, i, j, ii
<1>5. CASE i >= lf /\ ~ (i = lf /\ Len(u) = j + 1 /\ At(u, j) = At(t, i))
  <2>1. n = Returned(ERR)
    BY <1>1, <1>5 DEF Scan, i, j, ii
  <2>2. ASSUME NEW p \in Nat, p >= pos, Standing(t, u, p, FALSE) PROVE FALSE
    <3>1. p + j >= i
      BY <1>1, <2>2 DEF ScanHas
    <3>2. p + Len(u) <= Len(t)
      BY <2>2 DEF Standing
    <3>3. i = lf /\ Len(u) = j + 1 /\ p + j = i
      BY <1>1, <1>5, <3>1, <3>2
    <3>4. t[p + j + 1] = u[j + 1]
      BY <1>1, <2>2 DEF Standing, Same
    <3>5. QED
      BY <1>5, <3>3, <3>4 DEF At
  <2>3. IsFirst(ERR, t, u, pos, FALSE)
    BY <2>2 DEF IsFirst
  <2>4. Returned(ERR) \in Comparing /\ ~ Returned(ERR).on /\ Returned(ERR).ii = ERR
    BY StatesTyped DEF ERR
  <2>5. QED
    BY <1>2, <2>1, <2>3, <2>4 DEF Scanned, n, i, j, ii
<1>6. CASE i < lf /\ At(u, j) \notin {At(t, i), At(t, i + 1)}
  <2>1. n = On(i + 2, j, ii)
    BY <1>1, <1>6 DEF Scan, i, j, ii
  <2>2. ScanHas(t, u, pos, i + 2, j, ii)
    <3>1. i + 2 \in pos..Len(t) + 1
      BY <1>1, <1>6 DEF ScanHas
    <3>2. j > 0 => ii >= pos /\ ii + j <= i + 2 /\ i + 2 # ii + j
      BY <1>1 DEF ScanHas
    <3>3. ASSUME NEW p \in Nat, p >= pos, Standing(t, u, p, FALSE) PROVE p + j >= i + 2
      <4>1. p + j >= i
        BY <1>1, <3>3 DEF ScanHas
      <4>2. t[p + j + 1] = u[j + 1]
        BY <1>1, <3>3 DEF Standing, Same
      <4>3. p + j # i /\ p + j # i + 1
        BY <1>6, <4>2 DEF At
      <4>4. QED
        BY <1>1, <4>1, <4>3
    <3>4. QED
      BY <3>1, <3>2, <3>3 DEF ScanHas
  <2>3. i + 2 \in Int
    BY <1>1
  <2>4. n \in Scanned(t, u, pos)
    BY <1>1, <2>1, <2>2, <2>3, OnScanned
  <2>5. n.on /\ n.i = i + 2 /\ n.j = j /\ n.ii = ii
    BY <2>1 DEF On
  <2> HIDE DEF n
  <2>6. Less(n)
    BY <1>1, <1>3, <2>4, <2>5
  <2>7. QED
    BY <1>2, <2>4, <2>6 DEF n, i, j, ii
<1>7. CASE i < lf /\ At(u, j) \in {At(t, i), At(t, i + 1)}
  <2>1. /\ k \in i..i + 1 /\ t[k + 1] = u[j + 1]
        /\ k # i => t[i + 1] # u[j + 1]
    BY <1>1, <1>7 DEF At
  <2>2. /\ j = 0 => start = k
        /\ j > 0 => start = ii
    BY <1>1
  <2>3. n = IF j + 1 < Len(u) THEN On(k + 1, j + 1, start) ELSE Found(k + 1, j + 1, start)
    BY <1>1, <1>7 DEF Scan, i, j, ii
  <2> HIDE DEF k, start, n
  <2>4. k \in Int /\ k + 1 \in Int /\ start \in Int /\ j + 1 \in Int
    BY <1>1, <2>1, <2>2
  <2>5. ScanHas(t, u, pos, k + 1, j + 1, start)
    <3>1. k + 1 \in pos..Len(t) + 1 /\ k >= pos
      BY <1>1, <1>7, <2>1 DEF ScanHas
    <3>2. start >= pos /\ start + (j + 1) <= k + 1
      <4>1. CASE j = 0
        BY <2>2, <2>4, <3>1, <4>1
      <4>2. CASE j > 0
        BY <1>1, <2>1, <2>2, <4>2 DEF ScanHas
      <4>3. QED
        BY <1>1, <4>1, <4>2
    <3>3. ASSUME k + 1 = start + (j + 1), NEW q \in 0..j PROVE t[start + q + 1] = u[q + 1]
      <4>1. CASE q = j
        <5>1. start + q + 1 = k + 1
          BY <1>1, <2>4, <3>3, <4>1
        <5>2. QED
          BY <2>1, <4>1, <5>1
      <4>2. CASE q # j
        <5>1. j > 0 /\ q \in 0..j - 1
          BY <1>1, <4>2
        <5>2. i = ii + j
          <6>1. ii + j <= i
            BY <1>1, <5>1 DEF ScanHas
          <6>2. QED
            BY <1>1, <2>1, <2>2, <3>3, <5>1, <6>1
        <5>3. t[ii + q + 1] = u[q + 1]
          BY <1>1, <5>1, <5>2 DEF ScanHas
        <5>4. QED
          BY <2>2, <5>1, <5>3
      <4>3. QED
        BY <4>1, <4>2
    <3>4. ASSUME NEW p \in Nat, p >= pos, Standing(t, u, p, FALSE) PROVE p + (j + 1) >= k + 1
      <4>1. p + j >= i
        BY <1>1, <3>4 DEF ScanHas
      <4>2. t[p + j + 1] = u[j + 1]
        BY <1>1, <3>4 DEF Standing, Same
      <4>3. k # i => p + j # i
        BY <2>1, <4>2
      <4>4. QED
        BY <1>1, <2>1, <4>1, <4>3
    <3>5. (j + 1) - 1 = j
      BY <1>1
    <3>6. QED
      BY <3>1, <3>2, <3>3, <3>4, <3>5 DEF ScanHas
  <2>6. n \in Scanned(t, u, pos) /\ (n.on => Less(n))
    <3>1. CASE j + 1 < Len(u)
      <4>1. n = On(k + 1, j + 1, start) /\ j + 1 \in 0..Len(u) - 1
        BY <1>1, <2>3, <3>1
      <4>2. n \in Scanned(t, u, pos)
        BY <2>4, <2>5, <4>1, OnScanned
      <4>3. n.on /\ n.i = k + 1 /\ n.j = j + 1 /\ n.ii = start
        BY <4>1 DEF On
      <4>4. j + 1 # 0 /\ k + 1 > i /\ (j = 0 => start >= i) /\ (j # 0 => start = ii)
        BY <1>1, <2>1, <2>2, <2>4
      <4>5. Less(n)
        BY <1>1, <1>3, <2>4, <4>2, <4>3, <4>4
      <4>6. QED
        BY <4>2, <4>5
    <3>2. CASE ~ (j + 1 < Len(u))
      <4>1. n = Found(k + 1, j + 1, start) /\ j + 1 = Len(u) /\ j > 0
        BY <1>1, <2>3, <3>2
      <4>2. k + 1 <= Len(t) /\ j + 1 > 0
        BY <1>1, <1>7, <2>1
      <4>3. n \in Scanned(t, u, pos) /\ (n.on => n.j = 0 /\ n.i > start)
        BY <2>4, <2>5, <4>1, <4>2, FoundScan
      <4>4. n.on => Less(n)
        BY <1>1, <1>3, <2>2, <4>1, <4>3
      <4>5. QED
        BY <4>3, <4>4
    <3>3. QED
      BY <3>1, <3>2
  <2>7. QED
    BY <1>2, <2>6 DEF n, i, j, ii
<1>8. QED
  BY <1>1, <1>4, <1>5, <1>6, <1>7

(* The loop of binstr ends at the first place.                             *)
LEMMA ScanEnds ==
  ASSUME NEW t, NEW u, Len(t) \in Nat, Len(u) \in Nat, Len(u) >= 2, NEW pos \in Nat,
         pos <= Len(t)
  PROVE  IsFirst(While([s \in Comparing |-> Scan(t, u, s)], On(pos, 0, -1)).ii, t, u, pos, FALSE)
<1> DEFINE I == Scanned(t, u, pos)
           body == [s \in Comparing |-> Scan(t, u, s)]
           left == [s \in I |-> IF s.on THEN ToScan(t, s.i, s.j, s.ii) ELSE 0]
<1>1. body \in [Comparing -> Comparing]
  BY ScanTyped
<1>2. I \in SUBSET Comparing
  BY DEF Scanned
<1>3. left \in [I -> Nat]
  BY ScanTurn
<1>4. ASSUME NEW s \in I, s.on PROVE body[s] \in I /\ left[body[s]] < left[s]
  <2>1. body[s] = Scan(t, u, s)
    BY <1>2
  <2>2. Scan(t, u, s) \in I /\ left[s] \in Nat /\ left[s] = ToScan(t, s.i, s.j, s.ii)
    BY <1>4, ScanTurn
  <2>3. Scan(t, u, s).on => left[Scan(t, u, s)] < left[s]
    BY <1>4, <2>2, ScanTurn
  <2>4. ~ Scan(t, u, s).on => left[Scan(t, u, s)] < left[s]
    <3>1. ToScan(t, s.i, s.j, s.ii) > 0
      BY <1>4, ScanTurn, SMTT(60)
    <3>2. QED
      BY <2>2, <3>1
  <2>5. QED
    BY <2>1, <2>2, <2>3, <2>4
<1>5. On(pos, 0, -1) \in I
  <2>1. ScanHas(t, u, pos, pos, 0, -1)
    <3>1. pos \in pos..Len(t) + 1 /\ ~ (0 > 0) /\ \A p \in Nat : p >= pos => p + 0 >= pos
      OBVIOUS
    <3>2. QED
      BY <3>1 DEF ScanHas
  <2>2. 0 \in 0..Len(u) - 1 /\ -1 \in Int /\ pos \in Int
    OBVIOUS
  <2>3. QED
    BY <2>1, <2>2, OnScanned
<1>6. \A x \in Comparing : x.on \in BOOLEAN
  BY DEF Comparing
<1>7. While(body, On(pos, 0, -1)) \in I /\ ~ While(body, On(pos, 0, -1)).on
  <2> HIDE DEF I, body, left
  <2>1. QED
    BY <1>1, <1>2, <1>3, <1>4, <1>5, <1>6, WhileEnds
<1>8. QED
  BY <1>7 DEF Scanned

\* What the loops of the other searches know at (i, j).
Comes(by, a, b) == IF by = 1 THEN a <= b ELSE b <= a
SlideHas(t, u, caseless, by, from, i, j) ==
  /\ i \in 0..Len(t) - Len(u)
  /\ Comes(by, from, i)
  /\ \A q \in 0..j - 1 : Same(t[i + q + 1], u[q + 1], caseless)
  /\ \A p \in Nat : Comes(by, from, p) /\ Standing(t, u, p, caseless) => Comes(by, i, p)

IsNext(r, t, u, caseless, by, from) ==
  \/ /\ Comes(by, from, r) /\ Standing(t, u, r, caseless)
     /\ \A p \in Nat : Comes(by, from, p) /\ Standing(t, u, p, caseless) => Comes(by, r, p)
  \/ /\ r = ERR
     /\ \A p \in Nat : Comes(by, from, p) => ~ Standing(t, u, p, caseless)

Sliding(t, u, caseless, by, from) ==
  {s \in Comparing : IF s.on THEN s.j \in 0..Len(u) - 1 /\ SlideHas(t, u, caseless, by, from, s.i, s.j)
                     ELSE IsNext(s.ii, t, u, caseless, by, from)}

ToSlide(t, u, by, i, j) ==
  Len(u) * (IF by = 1 THEN Len(t) - Len(u) - i ELSE i) + (Len(u) - j)

(* A step of the other searches gives a state of theirs.                   *)
LEMMA SlideTyped ==
  ASSUME NEW t, NEW u, NEW caseless, NEW by \in {1, -1}, NEW s \in Comparing
  PROVE  Slide(t, u, caseless, by, s) \in Comparing
<1>1. s.i \in Int /\ s.j \in Int /\ s.ii \in Int /\ ERR \in Int
  BY DEF Comparing, ERR
<1>2. s.j + 1 \in Int /\ s.i + by \in Int /\ 0 \in Int
  BY <1>1
<1>3. /\ Returned(s.i) \in Comparing /\ On(s.i, s.j + 1, s.ii) \in Comparing
      /\ Returned(ERR) \in Comparing /\ On(s.i + by, 0, s.ii) \in Comparing
  BY <1>1, <1>2 DEF Returned, On, Comparing
<1>4. Slide(t, u, caseless, by, s) \in {Returned(s.i), On(s.i, s.j + 1, s.ii), Returned(ERR),
                                        On(s.i + by, 0, s.ii)}
  BY DEF Slide
<1>5. QED
  BY <1>3, <1>4

(* Every step of the other searches leaves less to do.                     *)
LEMMA ToSlideFalls ==
  ASSUME NEW t, NEW u, Len(t) \in Nat, Len(u) \in Nat, NEW by \in {1, -1},
         NEW i \in 0..Len(t) - Len(u), NEW j \in 0..Len(u) - 1,
         NEW k \in 0..Len(t) - Len(u), NEW l \in 0..Len(u) - 1
  PROVE  /\ ToSlide(t, u, by, i, j) \in Nat \ {0}
         /\ k = i + by \/ (k = i /\ l > j) => ToSlide(t, u, by, k, l) < ToSlide(t, u, by, i, j)
<1> DEFINE n == Len(u)
           a == IF by = 1 THEN Len(t) - Len(u) - i ELSE i
           b == n - j
           c == IF by = 1 THEN Len(t) - Len(u) - k ELSE k
           d == n - l
<1>1. n \in Nat /\ a \in Nat /\ b \in Nat /\ c \in Nat /\ d \in Nat /\ d <= n /\ b >= 1
  OBVIOUS
<1>2. k = i + by \/ (k = i /\ l > j) => c < a \/ (c = a /\ d < b)
  OBVIOUS
<1>3. ToSlide(t, u, by, i, j) = n * a + b /\ ToSlide(t, u, by, k, l) = n * c + d
  BY DEF ToSlide
<1> HIDE DEF n, a, b, c, d
<1>4. k = i + by \/ (k = i /\ l > j) => n * c + d < n * a + b
  BY <1>1, <1>2, InOrder
<1>5. n * a \in Nat
  BY <1>1
<1> DEFINE e == n * a
<1> HIDE DEF e
<1>6. e + b \in Nat \ {0}
  <2>1. e \in Nat
    BY <1>5 DEF e
  <2>2. QED
    BY <1>1, <2>1
<1>7. QED
  BY <1>3, <1>4, <1>6 DEF e

\* A turn of such a loop.
LEMMA SlideTurn ==
  ASSUME NEW t, NEW u, Len(t) \in Nat, Len(u) \in Nat, Len(u) >= 1, NEW caseless,
         NEW by \in {1, -1}, NEW from \in Nat,
         NEW s \in Sliding(t, u, caseless, by, from), s.on
  PROVE  LET n == Slide(t, u, caseless, by, s) IN
         /\ n \in Sliding(t, u, caseless, by, from)
         /\ ToSlide(t, u, by, s.i, s.j) \in Nat \ {0}
         /\ n.on => ToSlide(t, u, by, n.i, n.j) < ToSlide(t, u, by, s.i, s.j)
<1> DEFINE i == s.i
           j == s.j
           ii == s.ii
           n == Slide(t, u, caseless, by, s)
           I == Sliding(t, u, caseless, by, from)
<1>1. i \in Int /\ j \in 0..Len(u) - 1 /\ ii \in Int /\ SlideHas(t, u, caseless, by, from, i, j)
  BY DEF Sliding, Comparing
<1> HIDE DEF i, j, ii
<1>2. i \in 0..Len(t) - Len(u)
  BY <1>1 DEF SlideHas
<1>3. ToSlide(t, u, by, i, j) \in Nat \ {0}
  BY <1>1, <1>2, ToSlideFalls
<1>4. CASE Same(At(u, j), At(t, i + j), caseless) /\ j + 1 >= Len(u)
  <2>1. n = Returned(i)
    BY <1>1, <1>4 DEF Slide, i, j, ii
  <2>2. Standing(t, u, i, caseless)
    <3>1. ASSUME NEW q \in 0..Len(u) - 1 PROVE Same(t[i + q + 1], u[q + 1], caseless)
      <4>1. q \in 0..j - 1 \/ q = j
        BY <1>1, <1>4
      <4>2. CASE q = j
        BY <1>4, <4>2 DEF Same, At
      <4>3. QED
        BY <1>1, <4>1, <4>2 DEF SlideHas
    <3>2. QED
      BY <1>2, <3>1 DEF Standing
  <2>3. IsNext(i, t, u, caseless, by, from)
    BY <1>1, <2>2 DEF IsNext, SlideHas
  <2>4. Returned(i) \in Comparing /\ ~ Returned(i).on /\ Returned(i).ii = i
    BY <1>1, StatesTyped
  <2>5. QED
    BY <1>3, <2>1, <2>3, <2>4 DEF Sliding, i, j, ii
<1>5. CASE Same(At(u, j), At(t, i + j), caseless) /\ ~ (j + 1 >= Len(u))
  <2>1. n = On(i, j + 1, ii)
    BY <1>1, <1>5 DEF Slide, i, j, ii
  <2>2. j + 1 \in 0..Len(u) - 1
    BY <1>1, <1>5
  <2>3. SlideHas(t, u, caseless, by, from, i, j + 1)
    <3>1. ASSUME NEW q \in 0..(j + 1) - 1 PROVE Same(t[i + q + 1], u[q + 1], caseless)
      <4>1. q \in 0..j - 1 \/ q = j
        BY <1>1
      <4>2. CASE q = j
        BY <1>5, <4>2 DEF Same, At
      <4>3. QED
        BY <1>1, <4>1, <4>2 DEF SlideHas
    <3>2. QED
      BY <1>1, <3>1 DEF SlideHas
  <2>4. n \in Comparing /\ n.on /\ n.i = i /\ n.j = j + 1
    BY <1>1, <2>1 DEF On, Comparing
  <2>5. n \in I
    BY <2>2, <2>3, <2>4 DEF Sliding
  <2>6. ToSlide(t, u, by, i, j + 1) < ToSlide(t, u, by, i, j)
    <3>1. j + 1 > j
      BY <1>1
    <3>2. QED
      BY <1>1, <1>2, <2>2, <3>1, ToSlideFalls
  <2>7. QED
    BY <1>3, <2>4, <2>5, <2>6 DEF i, j, ii
<1>6. ASSUME ~ Same(At(u, j), At(t, i + j), caseless), NEW p \in Nat,
             Comes(by, from, p), Standing(t, u, p, caseless)
      PROVE  Comes(by, i, p) /\ p # i
  <2>1. Comes(by, i, p)
    BY <1>1, <1>6 DEF SlideHas
  <2>2. Same(t[p + j + 1], u[j + 1], caseless)
    BY <1>1, <1>6 DEF Standing
  <2>3. p # i
    BY <1>6, <2>2 DEF Same, At
  <2>4. QED
    BY <2>1, <2>3
<1>7. CASE ~ Same(At(u, j), At(t, i + j), caseless) /\ (i + by < 0 \/ i + by >= Len(t) - Len(u) + 1)
  <2>1. n = Returned(ERR)
    BY <1>1, <1>7 DEF Slide, i, j, ii
  <2>2. ASSUME NEW p \in Nat, Comes(by, from, p), Standing(t, u, p, caseless) PROVE FALSE
    <3>1. Comes(by, i, p) /\ p # i /\ p \in 0..Len(t) - Len(u)
      BY <1>6, <1>7, <2>2 DEF Standing
    <3>2. QED
      BY <1>2, <1>7, <3>1 DEF Comes
  <2>3. IsNext(ERR, t, u, caseless, by, from)
    BY <2>2 DEF IsNext
  <2>4. Returned(ERR) \in Comparing /\ ~ Returned(ERR).on /\ Returned(ERR).ii = ERR
    BY StatesTyped DEF ERR
  <2>5. QED
    BY <1>3, <2>1, <2>3, <2>4 DEF Sliding, i, j, ii
<1>8. CASE ~ Same(At(u, j), At(t, i + j), caseless) /\ ~ (i + by < 0 \/ i + by >= Len(t) - Len(u) + 1)
  <2>1. n = On(i + by, 0, ii)
    BY <1>1, <1>8 DEF Slide, i, j, ii
  <2>2. i + by \in 0..Len(t) - Len(u) /\ 0 \in 0..Len(u) - 1
    BY <1>2, <1>8
  <2>3. SlideHas(t, u, caseless, by, from, i + by, 0)
    <3>1. Comes(by, from, i + by)
      BY <1>1, <1>2 DEF SlideHas, Comes
    <3>2. ASSUME NEW p \in Nat, Comes(by, from, p), Standing(t, u, p, caseless)
          PROVE  Comes(by, i + by, p)
      <4>1. Comes(by, i, p) /\ p # i
        BY <1>6, <1>8, <3>2
      <4>2. QED
        BY <1>2, <4>1 DEF Comes
    <3>3. \A q \in 0..0 - 1 : FALSE
      OBVIOUS
    <3>4. QED
      BY <2>2, <3>1, <3>2, <3>3 DEF SlideHas
  <2>4. n \in Comparing /\ n.on /\ n.i = i + by /\ n.j = 0
    BY <1>1, <2>1 DEF On, Comparing
  <2>5. n \in I
    BY <2>2, <2>3, <2>4 DEF Sliding
  <2>6. ToSlide(t, u, by, i + by, 0) < ToSlide(t, u, by, i, j)
    BY <1>1, <1>2, <2>2, ToSlideFalls
  <2>7. QED
    BY <1>3, <2>4, <2>5, <2>6 DEF i, j, ii
<1>9. QED
  BY <1>4, <1>5, <1>7, <1>8

(* The other searches end at the next place in their direction.            *)
LEMMA SlideEnds ==
  ASSUME NEW t, NEW u, Len(t) \in Nat, Len(u) \in Nat, Len(u) >= 1, NEW caseless,
         NEW by \in {1, -1}, NEW from \in 0..Len(t) - Len(u)
  PROVE  IsNext(Slid(t, u, caseless, by, from), t, u, caseless, by, from)
<1> DEFINE I == Sliding(t, u, caseless, by, from)
           body == [s \in Comparing |-> Slide(t, u, caseless, by, s)]
           left == [s \in I |-> IF s.on THEN ToSlide(t, u, by, s.i, s.j) ELSE 0]
<1>1. body \in [Comparing -> Comparing]
  BY SlideTyped
<1>2. I \in SUBSET Comparing
  BY DEF Sliding
<1> from \in Nat
  OBVIOUS
<1>3. left \in [I -> Nat]
  <2>1. \A s \in I : s.on => ToSlide(t, u, by, s.i, s.j) \in Nat
    BY SlideTurn
  <2>2. QED
    BY <2>1
<1>4. ASSUME NEW s \in I, s.on PROVE body[s] \in I /\ left[body[s]] < left[s]
  <2>1. body[s] = Slide(t, u, caseless, by, s)
    BY <1>2
  <2> DEFINE n == Slide(t, u, caseless, by, s)
  <2>2. /\ n \in I /\ ToSlide(t, u, by, s.i, s.j) \in Nat \ {0}
        /\ n.on => ToSlide(t, u, by, n.i, n.j) < ToSlide(t, u, by, s.i, s.j)
    BY <1>4, SlideTurn
  <2> HIDE DEF n, I
  <2>3. left[n] < left[s]
    BY <1>4, <2>2
  <2>4. QED
    BY <2>1, <2>2, <2>3 DEF n
<1>5. On(from, 0, -1) \in I
  <2>1. SlideHas(t, u, caseless, by, from, from, 0)
    <3>1. \A q \in 0..0 - 1 : FALSE
      OBVIOUS
    <3>2. QED
      BY <3>1 DEF SlideHas, Comes
  <2>2. 0 \in 0..Len(u) - 1 /\ from \in Int
    OBVIOUS
  <2>3. On(from, 0, -1) \in Comparing /\ On(from, 0, -1).on
        /\ On(from, 0, -1).i = from /\ On(from, 0, -1).j = 0
    BY <2>2 DEF On, Comparing
  <2>4. QED
    BY <2>1, <2>2, <2>3 DEF Sliding
<1>6. \A x \in Comparing : x.on \in BOOLEAN
  BY DEF Comparing
<1>7. While(body, On(from, 0, -1)) \in I /\ ~ While(body, On(from, 0, -1)).on
  <2> HIDE DEF I, body, left
  <2>1. QED
    BY <1>1, <1>2, <1>3, <1>4, <1>5, <1>6, WhileEnds
<1>8. QED
  BY <1>7 DEF Sliding, Slid

(* Least gives the least member.                                           *)
LEMMA LeastOf ==
  ASSUME NEW S \in SUBSET Int, NEW m \in S, \A k \in S : m <= k
  PROVE  Least(S) = m
<1> DEFINE P(i) == i \in S /\ \A k \in S : i <= k
<1>1. S # {} /\ P(m)
  OBVIOUS
<1>2. P(CHOOSE i : P(i))
  BY <1>1
<1>3. ASSUME NEW i, P(i) PROVE i = m
  BY <1>1, <1>3
<1>4. Least(S) = CHOOSE i \in S : \A k \in S : i <= k
  BY <1>1 DEF Least
<1>5. QED
  BY <1>1, <1>3, <1>4

(* Greatest gives the greatest member.                                     *)
LEMMA GreatestOf ==
  ASSUME NEW S \in SUBSET Int, NEW m \in S, \A k \in S : k <= m
  PROVE  Greatest(S) = m
<1>1. S # {}
  OBVIOUS
<1>2. ASSUME NEW i \in S, \A k \in S : k <= i PROVE i = m
  BY <1>2
<1>3. Greatest(S) = CHOOSE i \in S : \A k \in S : k <= i
  BY <1>1 DEF Greatest
<1>4. QED
  BY <1>1, <1>2, <1>3

(* A set of naturals that is not empty has the member Least.               *)
LEMMA LeastMember ==
  ASSUME NEW S \in SUBSET Nat, S # {}
  PROVE  Least(S) \in S /\ \A k \in S : Least(S) <= k
<1>1. PICK m \in S : \A k \in S : m <= k
  BY LeastNumber
<1>2. Least(S) = m
  <2>1. S \in SUBSET Int
    OBVIOUS
  <2>2. QED
    BY <1>1, <2>1, LeastOf
<1>3. QED
  BY <1>1, <1>2

(* A bounded one has the member Greatest.                                  *)
LEMMA GreatestMember ==
  ASSUME NEW n \in Nat, NEW S \in SUBSET (0..n), S # {}
  PROVE  Greatest(S) \in S /\ \A k \in S : k <= Greatest(S)
<1> DEFINE T == {n - k : k \in S}
<1>1. T \in SUBSET Nat
  OBVIOUS
<1>7. T # {}
  OBVIOUS
<1>2. PICK l \in T : \A k \in T : l <= k
  <2> HIDE DEF T
  <2>1. QED
    BY <1>1, <1>7, LeastNumber
<1>3. PICK m \in S : l = n - m
  OBVIOUS
<1>4. ASSUME NEW k \in S PROVE k <= m
  <2>1. n - k \in T
    OBVIOUS
  <2> HIDE DEF T
  <2>2. l <= n - k
    BY <1>2, <2>1
  <2>3. QED
    BY <1>3, <2>2
<1>5. Greatest(S) = m
  <2>1. S \in SUBSET Int
    OBVIOUS
  <2>2. QED
    BY <1>4, <2>1, GreatestOf
<1>6. QED
  BY <1>4, <1>5

PlacesFrom(t, u, pos, caseless) == {i \in {k \in 0..Len(t) : Standing(t, u, k, caseless)} : i >= pos}
PlacesUpTo(t, u, pos, caseless) == {i \in {k \in 0..Len(t) : Standing(t, u, k, caseless)} : i <= pos}

(* The first place is the least one.                                       *)
LEMMA FirstIsLeast ==
  ASSUME NEW t, NEW u, Len(t) \in Nat, Len(u) \in Nat, NEW caseless, NEW pos \in Nat,
         NEW r, IsFirst(r, t, u, pos, caseless)
  PROVE  r = Least(PlacesFrom(t, u, pos, caseless))
<1> DEFINE S == PlacesFrom(t, u, pos, caseless)
<1>1. S \in SUBSET Int
  BY DEF PlacesFrom
<1>2. CASE r >= pos /\ Standing(t, u, r, caseless) /\ \A i \in Nat : i >= pos /\ Standing(t, u, i, caseless) => r <= i
  <2>1. r \in S
    BY <1>2 DEF PlacesFrom, Standing
  <2>2. \A k \in S : r <= k
    BY <1>2 DEF PlacesFrom
  <2> HIDE DEF S
  <2>3. Least(S) = r
    BY <1>1, <2>1, <2>2, LeastOf
  <2>4. QED
    BY <2>3 DEF S
<1>3. CASE r = ERR /\ \A i \in Nat : i >= pos => ~ Standing(t, u, i, caseless)
  <2>1. S = {}
    BY <1>3 DEF PlacesFrom
  <2>2. QED
    BY <1>3, <2>1 DEF Least
<1>4. QED
  BY <1>2, <1>3 DEF IsFirst

(* The last place is the greatest one.                                     *)
LEMMA LastIsGreatest ==
  ASSUME NEW t, NEW u, Len(t) \in Nat, Len(u) \in Nat, NEW caseless, NEW pos \in Nat,
         NEW r, IsLast(r, t, u, pos, caseless)
  PROVE  r = Greatest(PlacesUpTo(t, u, pos, caseless))
<1> DEFINE S == PlacesUpTo(t, u, pos, caseless)
<1>1. S \in SUBSET Int
  BY DEF PlacesUpTo
<1>2. CASE r <= pos /\ Standing(t, u, r, caseless) /\ \A i \in Nat : i <= pos /\ Standing(t, u, i, caseless) => i <= r
  <2>1. r \in S
    BY <1>2 DEF PlacesUpTo, Standing
  <2>2. \A k \in S : k <= r
    BY <1>2 DEF PlacesUpTo
  <2> HIDE DEF S
  <2>3. Greatest(S) = r
    BY <1>1, <2>1, <2>2, GreatestOf
  <2>4. QED
    BY <2>3 DEF S
<1>3. CASE r = ERR /\ \A i \in Nat : i <= pos => ~ Standing(t, u, i, caseless)
  <2>1. S = {}
    BY <1>3 DEF PlacesUpTo
  <2>2. QED
    BY <1>3, <2>1 DEF Greatest
<1>4. QED
  BY <1>2, <1>3 DEF IsLast

(* What the searches return without a loop.                                *)
LEMMA AtOnce ==
  ASSUME NEW t, NEW u, Len(t) \in Nat, Len(u) \in Nat, NEW caseless, NEW pos \in Nat
  PROVE  /\ Standing(t, u, pos, caseless) => /\ IsFirst(pos, t, u, pos, caseless)
                                             /\ IsLast(pos, t, u, pos, caseless)
         /\ Len(u) = 0 /\ pos <= Len(t) => Standing(t, u, pos, caseless)
         /\ Len(t) - Len(u) < pos => IsFirst(ERR, t, u, pos, caseless)
         /\ Len(t) - Len(u) < 0 => IsLast(ERR, t, u, pos, caseless)
<1>1. Standing(t, u, pos, caseless) => /\ IsFirst(pos, t, u, pos, caseless)
                                       /\ IsLast(pos, t, u, pos, caseless)
  BY DEF IsFirst, IsLast
<1>2. Len(u) = 0 /\ pos <= Len(t) => Standing(t, u, pos, caseless)
  BY DEF Standing
<1>3. Len(t) - Len(u) < pos => \A i \in Nat : i >= pos => ~ Standing(t, u, i, caseless)
  BY DEF Standing
<1>4. Len(t) - Len(u) < 0 => \A i \in Nat : ~ Standing(t, u, i, caseless)
  BY DEF Standing
<1>5. QED
  BY <1>1, <1>2, <1>3, <1>4 DEF IsFirst, IsLast

(* The search for one character, by memchr.                                *)
LEMMA OneCharacter ==
  ASSUME NEW t, NEW u, Len(t) \in Nat, Len(u) = 1, NEW pos \in Nat
  PROVE  IsFirst(Least({i \in Positions(t) : i >= pos /\ At(t, i) = At(u, 0)}), t, u, pos, FALSE)
<1> DEFINE S == {i \in Positions(t) : i >= pos /\ At(t, i) = At(u, 0)}
<1>1. S \in SUBSET Nat
  BY DEF Positions
<1>2. \A i \in Nat : i >= pos /\ Standing(t, u, i, FALSE) => i \in S
  BY DEF Standing, Same, At, Positions
<1>3. \A i \in S : i >= pos /\ Standing(t, u, i, FALSE) /\ i \in Nat
  BY DEF Standing, Same, At, Positions
<1> HIDE DEF S
<1>4. CASE S = {}
  <2>1. Least(S) = ERR
    BY <1>4 DEF Least
  <2>2. QED
    BY <1>2, <1>4, <2>1 DEF IsFirst, S
<1>5. CASE S # {}
  <2>1. Least(S) \in S /\ \A k \in S : Least(S) <= k
    BY <1>1, <1>5, LeastMember
  <2>2. QED
    BY <1>2, <1>3, <2>1 DEF IsFirst, S
<1>6. QED
  BY <1>4, <1>5

\* binstr and binstrcaseless return the first place.
LEMMA binstrFinds ==
  ASSUME NEW t, NEW u, Len(t) \in Nat, Len(u) \in Nat, u = <<>> <=> Len(u) = 0,
         NEW pos \in 0..Len(t), NEW alias, alias => Standing(t, u, 0, FALSE)
  PROVE  IsFirst(binstr(t, pos, u, alias), t, u, pos, FALSE)
<1> DEFINE r == binstr(t, pos, u, alias)
<1>1. PICK m \in Nat : m = Len(t)
  OBVIOUS
<1>2. PICK n \in Nat : n = Len(u)
  OBVIOUS
<1>3. pos \in Nat /\ ~ (Len(t) < pos) /\ ~ (pos < 0) /\ ~ (Len(t) < pos \/ pos < 0)
  OBVIOUS
<1>4. CASE n = 0
  <2>1. u = <<>>
    BY <1>2, <1>4
  <2>2. r = pos
    BY <1>3, <2>1 DEF binstr
  <2>3. Standing(t, u, pos, FALSE)
    <3>1. Len(u) = 0 /\ pos <= Len(t)
      BY <1>2, <1>3, <1>4
    <3>2. QED
      BY <1>3, <3>1, AtOnce
  <2>4. QED
    BY <1>3, <2>2, <2>3, AtOnce
<1>5. CASE n # 0 /\ m - n < pos
  <2>1. u # <<>> /\ Len(t) - Len(u) + 1 <= pos
    BY <1>1, <1>2, <1>3, <1>5
  <2>2. r = ERR
    BY <1>3, <2>1 DEF binstr
  <2>3. Len(t) - Len(u) < pos
    BY <1>1, <1>2, <1>5
  <2>4. QED
    BY <1>3, <2>2, <2>3, AtOnce
<1>6. CASE n # 0 /\ ~ (m - n < pos)
  <2>1. u # <<>> /\ Len(t) # pos /\ ~ (Len(t) - Len(u) + 1 <= pos)
    BY <1>1, <1>2, <1>3, <1>6
  <2>2. CASE alias /\ pos = 0
    <3>1. r = 0
      BY <1>3, <2>1, <2>2 DEF binstr
    <3>2. Standing(t, u, pos, FALSE)
      BY <2>2
    <3>3. QED
      BY <1>3, <2>2, <3>1, <3>2, AtOnce
  <2>3. CASE ~ (alias /\ pos = 0) /\ n = 1
    <3>1. Len(u) = 1
      BY <1>2, <2>3
    <3>2. r = Least({i \in Positions(t) : i >= pos /\ At(t, i) = At(u, 0)})
      BY <1>3, <2>1, <2>3, <3>1 DEF binstr
    <3>3. QED
      BY <1>3, <3>1, <3>2, OneCharacter
  <2>4. CASE ~ (alias /\ pos = 0) /\ n # 1
    <3>1. Len(u) # 1 /\ Len(u) >= 2 /\ pos <= Len(t)
      BY <1>1, <1>2, <1>3, <1>6, <2>4
    <3>2. r = While([s \in Comparing |-> Scan(t, u, s)], On(pos, 0, -1)).ii
      BY <1>3, <2>1, <2>4, <3>1 DEF binstr
    <3> HIDE DEF r
    <3>3. IsFirst(r, t, u, pos, FALSE)
      BY <1>3, <3>1, <3>2, ScanEnds
    <3>4. QED
      BY <3>3 DEF r
  <2>5. QED
    BY <2>2, <2>3, <2>4
<1>7. QED
  BY <1>1, <1>2, <1>4, <1>5, <1>6

(* binstrcaseless returns the first place.                                 *)
LEMMA binstrcaselessFinds ==
  ASSUME NEW t, NEW u, Len(t) \in Nat, Len(u) \in Nat, u = <<>> <=> Len(u) = 0,
         NEW pos \in 0..Len(t), NEW alias, alias => Standing(t, u, 0, TRUE)
  PROVE  IsFirst(binstrcaseless(t, pos, u, alias), t, u, pos, TRUE)
<1> DEFINE r == binstrcaseless(t, pos, u, alias)
<1>1. PICK m \in Nat : m = Len(t)
  OBVIOUS
<1>2. PICK n \in Nat : n = Len(u)
  OBVIOUS
<1>3. pos \in Nat /\ ~ (Len(t) < pos) /\ ~ (pos < 0) /\ ~ (Len(t) < pos \/ pos < 0)
  OBVIOUS
<1>4. CASE n = 0
  <2>1. u = <<>>
    BY <1>2, <1>4
  <2>2. r = pos
    BY <1>3, <2>1 DEF binstrcaseless
  <2>3. Standing(t, u, pos, TRUE)
    <3>1. Len(u) = 0 /\ pos <= Len(t)
      BY <1>2, <1>3, <1>4
    <3>2. QED
      BY <1>3, <3>1, AtOnce
  <2>4. QED
    BY <1>3, <2>2, <2>3, AtOnce
<1>5. CASE n # 0 /\ m - n < pos
  <2>1. u # <<>> /\ Len(t) - Len(u) + 1 <= pos
    BY <1>1, <1>2, <1>3, <1>5
  <2>2. r = ERR
    BY <1>3, <2>1 DEF binstrcaseless
  <2>3. Len(t) - Len(u) < pos
    BY <1>1, <1>2, <1>5
  <2>4. QED
    BY <1>3, <2>2, <2>3, AtOnce
<1>6. CASE n # 0 /\ ~ (m - n < pos)
  <2>1. u # <<>> /\ Len(t) # pos /\ ~ (Len(t) - Len(u) + 1 <= pos)
    BY <1>1, <1>2, <1>3, <1>6
  <2>2. CASE alias /\ pos = 0
    <3>1. r = 0
      BY <1>3, <2>1, <2>2 DEF binstrcaseless
    <3>2. Standing(t, u, pos, TRUE)
      BY <2>2
    <3>3. QED
      BY <1>3, <2>2, <3>1, <3>2, AtOnce
  <2>3. CASE ~ (alias /\ pos = 0)
    <3>1. r = Slid(t, u, TRUE, 1, pos)
      BY <1>3, <2>1, <2>3 DEF binstrcaseless
    <3>2. pos \in 0..Len(t) - Len(u) /\ Len(u) >= 1
      BY <1>1, <1>2, <1>3, <1>6
    <3>3. IsNext(r, t, u, TRUE, 1, pos)
      BY <3>1, <3>2, SlideEnds
    <3>4. QED
      BY <3>3 DEF IsNext, IsFirst, Comes
  <2>4. QED
    BY <2>2, <2>3
<1>7. QED
  BY <1>1, <1>2, <1>4, <1>5, <1>6

\* binstrr and binstrrcaseless return the last one.
LEMMA BackwardFinds ==
  ASSUME NEW t, NEW u, Len(t) \in Nat, Len(u) \in Nat, u = <<>> <=> Len(u) = 0,
         NEW pos \in 0..Len(t), NEW alias, NEW caseless, alias => Standing(t, u, 0, caseless)
  PROVE  IsLast(Backward(t, pos, u, alias, caseless), t, u, pos, caseless)
<1> DEFINE r == Backward(t, pos, u, alias, caseless)
           l == Len(t) - Len(u)
<1>1. CASE Len(u) = 0
  <2>1. r = pos
    BY <1>1 DEF Backward
  <2>2. QED
    BY <1>1, <2>1, AtOnce
<1>2. CASE Len(u) # 0 /\ alias /\ pos = 0 /\ l >= 0
  <2>1. r = 0
    BY <1>2 DEF Backward
  <2>2. Standing(t, u, pos, caseless) /\ pos \in Nat
    BY <1>2
  <2>3. QED
    BY <1>2, <2>1, <2>2, AtOnce
<1>3. CASE Len(u) # 0 /\ l < 0
  <2>1. r = ERR
    BY <1>3 DEF Backward
  <2>2. QED
    BY <1>3, <2>1, AtOnce
<1>4. CASE Len(u) # 0 /\ ~ (alias /\ pos = 0 /\ l >= 0) /\ l >= 0
  <2> DEFINE from == IF l + 1 <= pos THEN l ELSE pos
  <2>1. r = Slid(t, u, caseless, -1, from)
    BY <1>4 DEF Backward
  <2>2. from \in 0..Len(t) - Len(u) /\ Len(u) >= 1 /\ from <= pos /\ (from < pos => from = l)
    BY <1>4
  <2> HIDE DEF from
  <2>3. IsNext(r, t, u, caseless, -1, from)
    BY <2>1, <2>2, SlideEnds
  <2>4. \A i \in Nat : i <= pos /\ Standing(t, u, i, caseless) => i <= from
    BY <2>2 DEF Standing
  <2>5. \A a, b : Comes(-1, a, b) <=> b <= a
    BY DEF Comes
  <2>6. CASE r <= from /\ Standing(t, u, r, caseless)
              /\ \A p \in Nat : p <= from /\ Standing(t, u, p, caseless) => p <= r
    <3>1. r \in Nat
      BY <2>6 DEF Standing
    <3> HIDE DEF r
    <3>2. r <= pos
      BY <2>2, <2>6, <3>1
    <3>3. QED
      BY <2>4, <2>6, <3>2 DEF IsLast, r
  <2>7. CASE r = ERR /\ \A p \in Nat : p <= from => ~ Standing(t, u, p, caseless)
    BY <2>4, <2>7 DEF IsLast
  <2>8. QED
    BY <2>3, <2>5, <2>6, <2>7 DEF IsNext
<1>5. QED
  BY <1>1, <1>2, <1>3, <1>4

\* The places of characters that are in u, and of those that are not.
OneIn(t, u) == {i \in Positions(t) : u # <<>> /\ At(t, i) \in buildCharField(u)}
NoneIn(t, u) == {i \in Positions(t) : u # <<>> /\ At(t, i) \notin buildCharField(u)}
FirstIn(t, S, pos) == IF pos \in 0..Len(t) THEN Least({i \in S : i >= pos}) ELSE ERR
LastIn(t, S, pos) == IF pos \in 0..Len(t) THEN Greatest({i \in S : i <= pos}) ELSE ERR

(* A character field has the characters of its string.                     *)
LEMMA CharField ==
  ASSUME NEW t, Len(t) \in Nat, NEW u, Len(u) \in Nat
  PROVE  /\ Len(u) = 1 => buildCharField(u) = {At(u, 0)}
         /\ \A i \in Positions(t) : At(t, i) \in Inverted(buildCharField(u), t)
                                      <=> At(t, i) \notin buildCharField(u)
<1>1. ASSUME Len(u) = 1 PROVE buildCharField(u) = {At(u, 0)}
  <2>1. Positions(u) = {0}
    BY <1>1 DEF Positions
  <2>2. QED
    BY <2>1 DEF buildCharField
<1>2. QED
  BY <1>1 DEF buildCharField, Inverted

(* binchr, binchrr, bninchr and bninchrr return the nearest character.     *)
LEMMA CharactersFound ==
  ASSUME NEW t, NEW u, Len(t) \in Nat, Len(u) \in Nat, NEW pos \in Int
  PROVE  /\ binchr(t, pos, u) = FirstIn(t, OneIn(t, u), pos)
         /\ binchrr(t, pos, u) = LastIn(t, OneIn(t, u), pos)
         /\ bninchr(t, pos, u) = FirstIn(t, NoneIn(t, u), pos)
         /\ bninchrr(t, pos, u) = LastIn(t, NoneIn(t, u), pos)
<1>1. PICK m \in Nat : m = Len(t)
  OBVIOUS
<1> DEFINE F == buildCharField(u)
           G == Inverted(buildCharField(u), t)
<1>2. ASSUME pos < 0 \/ m < pos
      PROVE  /\ binchr(t, pos, u) = ERR /\ binchrr(t, pos, u) = ERR
             /\ bninchr(t, pos, u) = ERR /\ bninchrr(t, pos, u) = ERR
             /\ pos \notin 0..Len(t)
  <2>1. (pos < 0 \/ Len(t) < pos) /\ (pos < 0 \/ Len(t) <= pos) /\ pos \notin 0..Len(t)
    BY <1>1, <1>2
  <2>2. QED
    BY <2>1 DEF binchr, binchrr, bninchr, bninchrr
<1>3. ASSUME u = <<>>
      PROVE  /\ binchr(t, pos, u) = ERR /\ binchrr(t, pos, u) = ERR
             /\ bninchr(t, pos, u) = ERR /\ bninchrr(t, pos, u) = ERR
             /\ OneIn(t, u) = {} /\ NoneIn(t, u) = {}
  BY <1>3 DEF binchr, binchrr, bninchr, bninchrr, OneIn, NoneIn
<1>4. ASSUME NEW S, S = {} PROVE FirstIn(t, S, pos) = ERR /\ LastIn(t, S, pos) = ERR
  BY <1>4 DEF FirstIn, LastIn, Least, Greatest
<1>5. CASE u # <<>> /\ pos \in 0..m
  <2>1. /\ pos \in 0..Len(t) /\ ~ (pos < 0) /\ ~ (Len(t) < pos) /\ (Len(t) <= pos <=> pos = m)
        /\ \A i \in Positions(t) : i \in 0..m - 1
    BY <1>1, <1>5 DEF Positions
  <2> DEFINE A1 == {i \in Positions(t) : i >= pos /\ At(t, i) \in F}
             A2 == {i \in Positions(t) : i <= FromEnd(t, pos) /\ At(t, i) \in F}
             B1 == {i \in Positions(t) : i >= pos /\ At(t, i) \in G}
             B2 == {i \in Positions(t) : i <= FromEnd(t, pos) /\ At(t, i) \in G}
  <2>2. FromEnd(t, pos) = IF pos = m THEN pos - 1 ELSE pos
    BY <1>1 DEF FromEnd
  <2>3. \A i \in Positions(t) : i <= FromEnd(t, pos) <=> i <= pos
    BY <1>5, <2>1, <2>2
  <2>4. /\ {i \in OneIn(t, u) : i >= pos} = A1
        /\ {i \in OneIn(t, u) : i <= pos} = A2
    BY <1>5, <2>3 DEF OneIn
  <2>5. /\ {i \in NoneIn(t, u) : i >= pos} = B1
        /\ {i \in NoneIn(t, u) : i <= pos} = B2
    BY <1>5, <2>3, CharField DEF NoneIn
  <2>6. /\ FirstIn(t, OneIn(t, u), pos) = Least(A1)
        /\ LastIn(t, OneIn(t, u), pos) = Greatest(A2)
        /\ FirstIn(t, NoneIn(t, u), pos) = Least(B1)
        /\ LastIn(t, NoneIn(t, u), pos) = Greatest(B2)
    <3> HIDE DEF A1, A2, B1, B2
    <3>1. QED
      BY <2>1, <2>4, <2>5 DEF FirstIn, LastIn
  <2>7. pos = m => A1 = {} /\ B1 = {}
    BY <2>1
  <2>8. FromEnd(t, pos) < 0 => A2 = {} /\ B2 = {}
    BY <2>1, <2>2
  <2>9. bninchr(t, pos, u) = Least(B1) /\ bninchrr(t, pos, u) = Greatest(B2)
    <3>1. bninchrr(t, pos, u) = Greatest(B2)
      BY <1>5, <2>1 DEF bninchrr, binchrrCF
    <3>2. CASE pos = m
      <4>1. Least(B1) = ERR
        BY <2>7, <3>2 DEF Least
      <4>2. bninchr(t, pos, u) = ERR
        BY <2>1, <3>2 DEF bninchr
      <4>3. QED
        BY <3>1, <4>1, <4>2
    <3>3. CASE pos # m
      BY <1>5, <2>1, <3>1, <3>3 DEF bninchr, binchrCF
    <3>4. QED
      BY <3>2, <3>3
  <2>10. CASE Len(u) = 1
    <3>1. /\ A1 = {i \in Positions(t) : i >= pos /\ At(t, i) = At(u, 0)}
          /\ A2 = {i \in Positions(t) : i <= FromEnd(t, pos) /\ At(t, i) = At(u, 0)}
      BY <2>10, CharField
    <3>2. binchr(t, pos, u) = IF pos = m THEN ERR ELSE Least(A1)
      <4> HIDE DEF A1
      <4>1. CASE pos = m
        BY <2>1, <4>1 DEF binchr
      <4>2. CASE pos # m
        <5>1. binchr(t, pos, u) = bstrchrp(t, At(u, 0), pos)
          BY <1>5, <2>1, <2>10, <4>2 DEF binchr
        <5>2. bstrchrp(t, At(u, 0), pos) = Least(A1)
          BY <2>1, <3>1, <4>2 DEF bstrchrp
        <5>3. QED
          BY <4>2, <5>1, <5>2
      <4>3. QED
        BY <4>1, <4>2
    <3>3. binchrr(t, pos, u) = IF FromEnd(t, pos) < 0 THEN ERR ELSE Greatest(A2)
      <4> HIDE DEF A2
      <4>1. binchrr(t, pos, u) = bstrrchrp(t, At(u, 0), FromEnd(t, pos))
        BY <1>5, <2>1, <2>10 DEF binchrr
      <4>2. ~ (Len(t) <= FromEnd(t, pos))
        BY <1>1, <2>1, <2>2
      <4>3. QED
        BY <3>1, <4>1, <4>2 DEF bstrrchrp
    <3>4. (pos = m => Least(A1) = ERR) /\ (FromEnd(t, pos) < 0 => Greatest(A2) = ERR)
      <4> HIDE DEF A1, A2, B1, B2
      <4>1. QED
        BY <2>7, <2>8 DEF Least, Greatest
    <3> HIDE DEF A1, A2, B1, B2
    <3>5. QED
      BY <2>6, <2>9, <3>2, <3>3, <3>4
  <2>11. CASE Len(u) # 1
    <3>1. binchrr(t, pos, u) = Greatest(A2)
      BY <1>5, <2>1, <2>11 DEF binchrr, binchrrCF
    <3>2. CASE pos = m
      <4>1. Least(A1) = ERR
        BY <2>7, <3>2 DEF Least
      <4>2. binchr(t, pos, u) = ERR
        BY <2>1, <3>2 DEF binchr
      <4> HIDE DEF A1, A2, B1, B2
      <4>3. QED
        BY <2>6, <2>9, <3>1, <4>1, <4>2
    <3>3. CASE pos # m
      <4>1. binchr(t, pos, u) = Least(A1)
        BY <1>5, <2>1, <2>11, <3>3 DEF binchr, binchrCF
      <4> HIDE DEF A1, A2, B1, B2
      <4>2. QED
        BY <2>6, <2>9, <3>1, <4>1
    <3>4. QED
      BY <3>2, <3>3
  <2>12. QED
    BY <2>10, <2>11
<1>6. CASE pos \notin 0..m
  <2>1. pos < 0 \/ m < pos
    BY <1>6
  <2>2. QED
    BY <1>2, <2>1 DEF FirstIn, LastIn
<1>7. CASE u = <<>>
  BY <1>3, <1>4, <1>7
<1>8. QED
  BY <1>5, <1>6, <1>7

-----------------------------------------------------------------------------
(***************************************************************************)
(* Numbers and sequences.                                                  *)
(***************************************************************************)
(* Remainders.                                                             *)
LEMMA Modulo ==
  ASSUME NEW a \in Int, NEW n \in Nat, n > 0
  PROVE  /\ a % n \in 0..n - 1
         /\ a \in 0..n - 1 => a % n = a
         /\ a \in n..2 * n - 1 => a % n = a - n
         /\ a \in -n..-1 => a % n = a + n
<1>1. a % n \in 0..n - 1
  OBVIOUS
<1>2. ASSUME a \in 0..n - 1 PROVE a % n = a
  BY <1>2
<1>3. ASSUME a \in n..2 * n - 1 PROVE a % n = a - n
  BY <1>3
<1>4. ASSUME a \in -n..-1 PROVE a % n = a + n
  BY <1>4
<1>5. QED
  BY <1>1, <1>2, <1>3, <1>4

(* The sum of two ints wraps when it is no int.                            *)
LEMMA Wraps ==
  ASSUME NEW i \in Int
  PROVE  /\ Wrap(i) \in Ints
         /\ i \in Ints => Wrap(i) = i
         /\ i > MaxInt /\ i <= 2 * MaxInt + 1 => Wrap(i) < 0
         /\ i < -(MaxInt + 1) /\ i >= -2 * (MaxInt + 1) => Wrap(i) >= 0
<1> DEFINE n == 2 * (MaxInt + 1)
           a == i + MaxInt + 1
<1>1. MaxInt \in Nat /\ n \in Nat /\ n > 0 /\ a \in Int /\ n = 2 * MaxInt + 2
  BY SizesAreInts
<1>2. Wrap(i) = (a % n) - MaxInt - 1
  BY DEF Wrap
<1>3. a = i + MaxInt + 1
  OBVIOUS
<1> HIDE DEF n, a
<1>4. /\ a % n \in 0..n - 1
      /\ a \in 0..n - 1 => a % n = a
      /\ a \in n..2 * n - 1 => a % n = a - n
      /\ a \in -n..-1 => a % n = a + n
  BY <1>1, Modulo
<1> DEFINE w == a % n
<1> HIDE DEF w
<1>5. /\ w \in 0..n - 1
      /\ a \in 0..n - 1 => w = a
      /\ a \in n..2 * n - 1 => w = a - n
      /\ a \in -n..-1 => w = a + n
      /\ Wrap(i) = w - MaxInt - 1
  BY <1>2, <1>4 DEF w
<1>6. QED
  BY <1>1, <1>3, <1>5 DEF Ints

(* Characters are bytes, and Junk is none of them.                         *)
LEMMA CharsAreBytes == Chars \subseteq Byte /\ Junk \in Byte /\ Junk \notin Chars /\ Nul \in Chars
                       /\ Space \in Chars /\ Fill \in Chars
BY DEF Byte, Chars, Junk, Nul, Space, Fill

(* Texts are sequences of bytes.                                           *)
LEMMA TextsAreBytes == Seq(Chars) \subseteq Seq(Byte)
BY CharsAreBytes

(* The characters of a part.                                               *)
LEMMA Sub ==
  ASSUME NEW X, NEW s \in Seq(X), NEW a \in Int, NEW b \in Int, a >= 1, b <= Len(s)
  PROVE  /\ SubSeq(s, a, b) \in Seq(X)
         /\ Len(SubSeq(s, a, b)) = IF a <= b THEN b - a + 1 ELSE 0
         /\ \A i \in 1..b - a + 1 : SubSeq(s, a, b)[i] = s[a + i - 1]
BY SubSeqProperties

(* n times a byte.                                                         *)
LEMMA TimesMakes ==
  ASSUME NEW X, NEW c \in X, NEW n \in Int
  PROVE  /\ Times(c, n) \in Seq(X)
         /\ Len(Times(c, n)) = IF n < 0 THEN 0 ELSE n
         /\ \A i \in 1..n : Times(c, n)[i] = c
<1> DEFINE l == IF n < 0 THEN 0 ELSE n
<1>1. l \in Nat /\ 1..l = 1..n
  OBVIOUS
<1>2. Times(c, n) = [k \in 1..l |-> c]
  BY <1>1 DEF Times
<1> HIDE DEF l
<1>3. [k \in 1..l |-> c] \in Seq(X) /\ Len([k \in 1..l |-> c]) = l
  BY <1>1
<1>4. QED
  BY <1>1, <1>2, <1>3 DEF l

-----------------------------------------------------------------------------
(***************************************************************************)
(* Blocks.                                                                 *)
(***************************************************************************)
(* A new block has n bytes.                                                *)
LEMMA BlockSize ==
  ASSUME NEW m \in Blocks
  PROVE  m.at \in Seq(Byte) /\ Size(m) = Len(m.at) /\ Size(m) \in Nat /\ m.bad \in SUBSET {"outside"}
         /\ m = [at |-> m.at, bad |-> m.bad]
BY DEF Blocks, Size

(* The bytes that are read of a block.                                     *)
LEMMA BytesGive ==
  ASSUME NEW m \in Blocks, NEW from \in Int, NEW n \in Int
  PROVE  /\ Bytes(m, from, n) \in Seq(Byte)
         /\ Len(Bytes(m, from, n)) = IF n < 0 THEN 0 ELSE n
         /\ from >= 0 /\ from + n <= Size(m) => \A i \in 1..n : Bytes(m, from, n)[i] = m.at[from + i]
<1>1. CASE from >= 0 /\ n >= 0 /\ from + n <= Size(m)
  <2>1. Bytes(m, from, n) = SubSeq(m.at, from + 1, from + n)
    BY <1>1 DEF Bytes
  <2> DEFINE a == from + 1
             b == from + n
  <2>2. a \in Int /\ b \in Int /\ a >= 1 /\ b <= Len(m.at) /\ m.at \in Seq(Byte)
    BY <1>1, BlockSize
  <2>3. /\ SubSeq(m.at, a, b) \in Seq(Byte)
        /\ Len(SubSeq(m.at, a, b)) = IF a <= b THEN b - a + 1 ELSE 0
        /\ \A i \in 1..b - a + 1 : SubSeq(m.at, a, b)[i] = m.at[a + i - 1]
    <3> HIDE DEF a, b
    <3>1. QED
      BY <2>2, Sub
  <2>4. /\ b - a + 1 = n /\ (IF a <= b THEN b - a + 1 ELSE 0) = (IF n < 0 THEN 0 ELSE n)
        /\ \A i \in 1..n : a + i - 1 = from + i
    BY <1>1
  <2>5. QED
    BY <2>1, <2>3, <2>4
<1>2. CASE ~ (from >= 0 /\ n >= 0 /\ from + n <= Size(m))
  <2>1. Bytes(m, from, n) = Times(Junk, n)
    BY <1>2 DEF Bytes
  <2>2. from >= 0 /\ from + n <= Size(m) => 1..n = {}
    <3>1. Size(m) \in Nat
      BY BlockSize
    <3>2. QED
      BY <1>2, <3>1
  <2>3. /\ Times(Junk, n) \in Seq(Byte)
        /\ Len(Times(Junk, n)) = IF n < 0 THEN 0 ELSE n
    BY TimesMakes, CharsAreBytes
  <2>4. QED
    BY <2>1, <2>2, <2>3
<1>3. QED
  BY <1>1, <1>2

\* w is made of three parts.
IsJoined(w, p, x, q) ==
  /\ Len(w) = Len(p) + Len(x) + Len(q)
  /\ \A i \in 1..Len(p) : w[i] = p[i]
  /\ \A i \in 1..Len(x) : w[Len(p) + i] = x[i]
  /\ \A i \in 1..Len(q) : w[Len(p) + Len(x) + i] = q[i]

(* Three parts, one behind the other.                                      *)
LEMMA Joined ==
  ASSUME NEW X, NEW p \in Seq(X), NEW x \in Seq(X), NEW q \in Seq(X)
  PROVE  p \o x \o q \in Seq(X) /\ IsJoined(p \o x \o q, p, x, q)
<1>1. PICK y : y = p \o x
  OBVIOUS
<1>2. /\ y \in Seq(X) /\ Len(y) = Len(p) + Len(x)
      /\ \A i \in 1..Len(p) + Len(x) : y[i] = IF i <= Len(p) THEN p[i] ELSE x[i - Len(p)]
  BY <1>1, ConcatProperties
<1>3. PICK w : w = y \o q
  OBVIOUS
<1>10. y \in Seq(X)
  BY <1>2
<1>4. /\ w \in Seq(X) /\ Len(w) = Len(y) + Len(q)
      /\ \A i \in 1..Len(y) + Len(q) : w[i] = IF i <= Len(y) THEN y[i] ELSE q[i - Len(y)]
  BY <1>3, <1>10, ConcatProperties
<1>5. Len(p) \in Nat /\ Len(x) \in Nat /\ Len(q) \in Nat
  OBVIOUS
<1>6. \A i \in 1..Len(p) : w[i] = p[i]
  BY <1>2, <1>4, <1>5
<1>7. \A i \in 1..Len(x) : w[Len(p) + i] = x[i]
  BY <1>2, <1>4, <1>5
<1>8. \A i \in 1..Len(q) : w[Len(p) + Len(x) + i] = q[i]
  <2>1. \A i \in 1..Len(q) : Len(y) + i \in 1..Len(y) + Len(q) /\ ~ (Len(y) + i <= Len(y))
                             /\ Len(y) + i - Len(y) = i
    BY <1>2, <1>5
  <2>2. \A i \in 1..Len(q) : w[Len(y) + i] = q[i]
    BY <1>4, <2>1
  <2>3. QED
    BY <1>2, <2>2
<1>9. QED
  BY <1>1, <1>2, <1>3, <1>4, <1>6, <1>7, <1>8 DEF IsJoined

\* A write inside of the block.
LEMMA WriteInside ==
  ASSUME NEW m \in Blocks, NEW to \in Int, NEW x \in Seq(Byte),
         x = <<>> \/ (to >= 0 /\ to + Len(x) <= Size(m))
  PROVE  /\ Write(m, to, x) \in Blocks
         /\ Write(m, to, x).bad = m.bad
         /\ Size(Write(m, to, x)) = Size(m)
         /\ \A k \in 1..Size(m) :
              Write(m, to, x).at[k] = IF k > to /\ k <= to + Len(x) THEN x[k - to] ELSE m.at[k]
<1>0. m.at \in Seq(Byte) /\ Size(m) = Len(m.at) /\ Size(m) \in Nat /\ m.bad \in SUBSET {"outside"}
  BY BlockSize
<1>1. CASE x = <<>>
  <2>1. Write(m, to, x) = m /\ Len(x) = 0
    BY <1>1 DEF Write
  <2>2. \A k \in 1..Size(m) : ~ (k > to /\ k <= to + 0)
    BY <1>0
  <2>3. QED
    BY <1>0, <2>1, <2>2
<1>2. CASE x # <<>> /\ to >= 0 /\ to + Len(x) <= Size(m)
  <2> DEFINE p == SubSeq(m.at, 1, to)
             b == to + Len(x) + 1
             q == SubSeq(m.at, b, Len(m.at))
             n == Len(x)
  <2>1. n \in Nat /\ b \in Int /\ b >= 1 /\ b = to + n + 1 /\ to + n <= Len(m.at)
    BY <1>0, <1>2
  <2>2. p \in Seq(Byte) /\ Len(p) = to /\ \A i \in 1..to : p[i] = m.at[i]
    <3>1. /\ p \in Seq(Byte) /\ Len(p) = (IF 1 <= to THEN to - 1 + 1 ELSE 0)
          /\ \A i \in 1..to - 1 + 1 : p[i] = m.at[1 + i - 1]
      BY <1>0, <1>2, <2>1, Sub
    <3>2. to - 1 + 1 = to /\ \A i \in 1..to : 1 + i - 1 = i
      OBVIOUS
    <3> HIDE DEF p
    <3>3. QED
      BY <1>2, <3>1, <3>2
  <2>3. /\ q \in Seq(Byte) /\ Len(q) = Len(m.at) - to - n
        /\ \A i \in 1..Len(m.at) - to - n : q[i] = m.at[to + n + i]
    <3>1. Len(m.at) \in Int /\ Len(m.at) <= Len(m.at)
      BY <1>0
    <3>2. /\ q \in Seq(Byte) /\ Len(q) = (IF b <= Len(m.at) THEN Len(m.at) - b + 1 ELSE 0)
          /\ \A i \in 1..Len(m.at) - b + 1 : q[i] = m.at[b + i - 1]
      <4> HIDE DEF b
      <4>1. QED
        BY <1>0, <2>1, <3>1, Sub
    <3>3. /\ Len(m.at) - b + 1 = Len(m.at) - to - n
          /\ (IF b <= Len(m.at) THEN Len(m.at) - b + 1 ELSE 0) = Len(m.at) - to - n
          /\ \A i \in 1..Len(m.at) - to - n : b + i - 1 = to + n + i
      BY <1>0, <2>1
    <3> HIDE DEF q, b, n
    <3>4. QED
      BY <3>2, <3>3
  <2>4. Write(m, to, x) = [m EXCEPT !.at = p \o x \o q]
    <3>1. ~ (to < 0 \/ to + Len(x) > Size(m))
      BY <1>0, <1>2
    <3>2. QED
      BY <1>2, <3>1 DEF Write
  <2> HIDE DEF p, q, b
  <2>10. p \in Seq(Byte) /\ x \in Seq(Byte) /\ q \in Seq(Byte)
    BY <2>2, <2>3
  <2>11. p \o x \o q \in Seq(Byte) /\ IsJoined(p \o x \o q, p, x, q)
    BY <2>10, Joined
  <2> DEFINE w == p \o x \o q
  <2>5. /\ w \in Seq(Byte)
        /\ Len(w) = Len(p) + Len(x) + Len(q)
        /\ \A i \in 1..Len(p) : w[i] = p[i]
        /\ \A i \in 1..Len(x) : w[Len(p) + i] = x[i]
        /\ \A i \in 1..Len(q) : w[Len(p) + Len(x) + i] = q[i]
    BY <2>11 DEF IsJoined
  <2> HIDE DEF w
  <2>6. Len(w) = Len(m.at)
    <3>1. Len(w) = to + n + (Len(m.at) - to - n)
      BY <2>2, <2>3, <2>5
    <3>2. to \in Int /\ n \in Int /\ Len(m.at) \in Int
      BY <1>0, <2>1
    <3> HIDE DEF n
    <3>3. \A l \in Int : to + n + (l - to - n) = l
      BY <3>2
    <3>4. QED
      BY <3>1, <3>2, <3>3
  <2>7. \A i \in 1..Len(m.at) : w[i] = IF i > to /\ i <= to + n THEN x[i - to] ELSE m.at[i]
    <3> SUFFICES ASSUME NEW i \in 1..Len(m.at)
                 PROVE  w[i] = IF i > to /\ i <= to + n THEN x[i - to] ELSE m.at[i]
      OBVIOUS
    <3>1. CASE i <= to
      BY <1>2, <2>2, <2>5, <3>1
    <3>2. CASE i > to /\ i <= to + n
      <4>1. i - to \in 1..n /\ to + (i - to) = i
        BY <1>2, <2>1, <3>2
      <4>2. QED
        BY <2>2, <2>5, <3>2, <4>1
    <3>3. CASE i > to + n
      <4>1. i - (to + n) \in 1..Len(m.at) - to - n /\ to + n + (i - (to + n)) = i /\ ~ (i <= to + n)
        BY <1>0, <1>2, <2>1, <3>3
      <4>2. w[to + n + (i - (to + n))] = q[i - (to + n)]
        BY <2>2, <2>3, <2>5, <4>1
      <4>3. q[i - (to + n)] = m.at[to + n + (i - (to + n))]
        BY <2>3, <4>1
      <4>4. QED
        BY <4>1, <4>2, <4>3
    <3>4. QED
      BY <1>2, <2>1, <3>1, <3>2, <3>3
  <2>8. Write(m, to, x) = [at |-> w, bad |-> m.bad]
    BY <1>0, <2>4, BlockSize DEF w
  <2>9. QED
    BY <1>0, <2>5, <2>6, <2>7, <2>8 DEF Blocks, Size
<1>3. QED
  BY <1>1, <1>2

(* A write gives a block of the same size, wherever it goes.               *)
LEMMA WriteTyped ==
  ASSUME NEW m \in Blocks, NEW to \in Int, NEW x \in Seq(Byte)
  PROVE  Write(m, to, x) \in Blocks /\ Size(Write(m, to, x)) = Size(m)
<1>0. m.at \in Seq(Byte) /\ Size(m) = Len(m.at) /\ Size(m) \in Nat /\ m.bad \in SUBSET {"outside"}
      /\ Len(x) \in Nat
  BY BlockSize
<1>1. CASE x = <<>> \/ (to >= 0 /\ to + Len(x) <= Size(m))
  BY <1>1, WriteInside
<1>2. CASE ~ (x = <<>> \/ (to >= 0 /\ to + Len(x) <= Size(m)))
  <2>1. Write(m, to, x) = [m EXCEPT !.bad = @ \cup {"outside"}]
    BY <1>0, <1>2 DEF Write
  <2>2. QED
    BY <1>0, <2>1, BlockSize DEF Blocks, Size
<1>3. QED
  BY <1>1, <1>2

\* A block that is in order: nothing was written outside of it.
Fit(m) == m \in Blocks /\ m.bad = {} /\ Size(m) <= MaxInt
\* Its bytes from a on, up to b, are characters.
Clean(m, a, b) == \A k \in a + 1..b : m.at[k] \in Chars

\* A string that a function goes on with, and one that it may return.
Proper(s) == /\ s \in Strings /\ Fit(s.m) /\ s.slen \in 0..Size(s.m)
             /\ Clean(s.m, 0, s.slen)
Ended(s) == s.slen \in 0..Size(s.m) - 1 /\ s.m.at[s.slen + 1] = Nul
Sound(s) == Proper(s) /\ Ended(s)

\* What is said of a result: that of a call without a fault.
Refusal(r, s) == r.rc = ERR /\ r.s \in {s, None}
Sane(r) == r.rc \in {0, 1} /\ Sound(r.s)
\* That of a call which may have a fault.
Loose(r) == r.s \in Strings /\ Size(r.s.m) <= MaxInt /\ (r.s.m.bad = {} => Ended(r.s))

(* The fields of a string.                                                 *)
LEMMA StringFields ==
  ASSUME NEW s, Proper(s)
  PROVE  /\ s = [m |-> s.m, slen |-> s.slen] /\ s.m \in Blocks /\ s.m.bad = {}
         /\ Size(s.m) \in Nat /\ Size(s.m) <= MaxInt /\ s.slen \in Nat /\ s.slen <= Size(s.m)
         /\ MaxInt \in Nat
BY BlockSize, SizesAreInts DEF Proper, Strings, Fit

(* NULL is a string without a block.                                       *)
LEMMA NoneIsString == None \in Strings /\ None.m.bad = {} /\ None.slen = -1 /\ None.m.at = <<>>
                      /\ Size(None.m) = 0
<1>1. <<>> \in Seq(Byte) /\ Len(<<>>) = 0
  OBVIOUS
<1>2. QED
  BY <1>1 DEF None, Strings, Blocks, ERR, Size

(* A block and a length are a string.                                      *)
LEMMA MakeString ==
  ASSUME NEW m \in Blocks, NEW n \in Int
  PROVE  [m |-> m, slen |-> n] \in Strings
BY DEF Strings

\* A function that writes the `\0' behind n clean bytes.
LEMMA DoneSane ==
  ASSUME NEW m, Fit(m), NEW n \in Int, n >= 0, n < Size(m), Clean(m, 0, n)
  PROVE  Sane(Done(m, n)) /\ Done(m, n).rc = 0 /\ Done(m, n).s.slen = n
         /\ Size(Done(m, n).s.m) = Size(m)
         /\ \A k \in 1..Size(m) : k # n + 1 => Done(m, n).s.m.at[k] = m.at[k]
<1>1. m \in Blocks /\ m.bad = {} /\ Size(m) \in Nat /\ Size(m) <= MaxInt
  BY BlockSize DEF Fit
<1> DEFINE w == Write(m, n, <<Nul>>)
<1>2. <<Nul>> \in Seq(Byte) /\ Len(<<Nul>>) = 1 /\ <<Nul>>[1] = Nul
  BY CharsAreBytes
<1>3. /\ w \in Blocks /\ w.bad = m.bad /\ Size(w) = Size(m)
      /\ \A k \in 1..Size(m) : w.at[k] = IF k > n /\ k <= n + Len(<<Nul>>) THEN <<Nul>>[k - n] ELSE m.at[k]
  <2>1. n + Len(<<Nul>>) <= Size(m)
    BY <1>1, <1>2
  <2>2. QED
    BY <1>1, <1>2, <2>1, WriteInside
<1>4. w.at[n + 1] = Nul /\ \A k \in 1..Size(m) : k # n + 1 => w.at[k] = m.at[k]
  <2>1. n + 1 \in 1..Size(m) /\ n + 1 > n /\ n + 1 <= n + 1 /\ n + 1 - n = 1
    BY <1>1
  <2>2. \A k \in 1..Size(m) : k # n + 1 => ~ (k > n /\ k <= n + 1)
    BY <1>1
  <2>3. QED
    BY <1>2, <1>3, <2>1, <2>2
<1>5. Done(m, n) = [rc |-> 0, s |-> [m |-> w, slen |-> n]]
  BY DEF Done, End
<1> HIDE DEF w
<1>6. Clean(w, 0, n)
  BY <1>1, <1>4 DEF Clean
<1>7. [m |-> w, slen |-> n] \in Strings
  BY <1>3, MakeString
<1>8. Sound([m |-> w, slen |-> n])
  BY <1>1, <1>3, <1>4, <1>6, <1>7 DEF Sound, Proper, Ended, Fit
<1>9. QED
  BY <1>3, <1>4, <1>5, <1>8 DEF Sane

\* Whatever n is, the result is that of a function, with a `\0' or a fault.
LEMMA DoneTyped ==
  ASSUME NEW m \in Blocks, NEW n \in Int
  PROVE  /\ Done(m, n).s \in Strings /\ Done(m, n).rc = 0
         /\ Done(m, n).s.m.bad = {} => Ended(Done(m, n).s)
         /\ Done(m, n).s.slen = n /\ Size(Done(m, n).s.m) = Size(m)
<1> DEFINE w == Write(m, n, <<Nul>>)
<1>1. <<Nul>> \in Seq(Byte) /\ Len(<<Nul>>) = 1 /\ <<Nul>>[1] = Nul /\ <<Nul>> # <<>>
  BY CharsAreBytes
<1>2. w \in Blocks /\ Size(w) = Size(m) /\ Size(m) \in Nat
  BY <1>1, WriteTyped, BlockSize
<1>3. Done(m, n) = [rc |-> 0, s |-> [m |-> w, slen |-> n]]
  BY DEF Done, End
<1>4. ASSUME w.bad = {} PROVE Ended([m |-> w, slen |-> n])
  <2>1. n >= 0 /\ n + 1 <= Size(m)
    <3>1. ASSUME n < 0 \/ n + 1 > Size(m) PROVE FALSE
      <4>1. w = [m EXCEPT !.bad = @ \cup {"outside"}]
        BY <1>1, <3>1 DEF Write
      <4>2. "outside" \in w.bad
        BY <4>1, BlockSize
      <4>3. QED
        BY <1>4, <4>2
    <3>2. QED
      BY <1>2, <3>1
  <2>2. w.at[n + 1] = Nul
    <3>1. \A k \in 1..Size(m) : w.at[k] = IF k > n /\ k <= n + Len(<<Nul>>) THEN <<Nul>>[k - n] ELSE m.at[k]
      <4>1. n + Len(<<Nul>>) <= Size(m)
        BY <1>1, <2>1
      <4>2. QED
        BY <1>1, <2>1, <4>1, WriteInside
    <3>2. n + 1 \in 1..Size(m) /\ n + 1 > n /\ n + 1 <= n + 1 /\ n + 1 - n = 1
      BY <1>2, <2>1
    <3>3. QED
      BY <1>1, <3>1, <3>2
  <2>3. QED
    BY <1>2, <2>1, <2>2 DEF Ended
<1> HIDE DEF w
<1>5. QED
  BY <1>2, <1>3, <1>4, MakeString
-----------------------------------------------------------------------------
(***************************************************************************)
(* balloc.                                                                 *)
(***************************************************************************)
(* The loop of snapUpSize ends with a power of two above i, and not above  *)
(* 2 i.                                                                    *)
LEMMA PowerIsAbove ==
  ASSUME NEW i \in Nat
  PROVE  PowerAbove(i) \in Nat /\ PowerAbove(i) > i /\ (i > 0 => PowerAbove(i) <= 2 * i)
<1> DEFINE S == [on : BOOLEAN, p : Nat]
           body == [x \in S |-> [on |-> 2 * x.p <= i, p |-> 2 * x.p]]
           I == {x \in S : /\ x.p >= 1
                           /\ x.on => x.p <= i \/ x.p = 1
                           /\ ~ x.on => x.p > i /\ (i > 0 => x.p <= 2 * i)}
           left == [x \in I |-> IF x.on THEN i + 2 - x.p ELSE 0]
           start == [on |-> TRUE, p |-> 1]
<1>1. body \in [S -> S]
  OBVIOUS
<1>2. I \in SUBSET S
  OBVIOUS
<1>3. left \in [I -> Nat]
  <2>1. ASSUME NEW x \in I, x.on PROVE i + 2 - x.p \in Nat
    <3>1. x.p \in Nat /\ (x.p <= i \/ x.p = 1)
      BY <2>1
    <3>2. QED
      BY <3>1
  <2>2. QED
    BY <2>1
<1>4. ASSUME NEW x \in I, x.on PROVE body[x] \in I /\ left[body[x]] < left[x]
  <2>1. x.p \in Nat /\ x.p >= 1 /\ (x.p <= i \/ x.p = 1) /\ x \in S
    BY <1>4
  <2> DEFINE y == [on |-> 2 * x.p <= i, p |-> 2 * x.p]
  <2>8. (2 * x.p <= i) \in BOOLEAN /\ 2 * x.p \in Nat
    BY <2>1
  <2>9. y.p = 2 * x.p /\ (y.on <=> 2 * x.p <= i)
    OBVIOUS
  <2>10. y \in S
    BY <2>8
  <2>11. body[x] = y
    BY <2>1
  <2>2. body[x] = y /\ y.p = 2 * x.p /\ (y.on <=> 2 * x.p <= i) /\ y \in S
    BY <2>9, <2>10, <2>11
  <2> HIDE DEF y, body
  <2>3. /\ y.p >= 1 /\ (y.on => y.p <= i \/ y.p = 1)
        /\ ~ y.on => y.p > i /\ (i > 0 => y.p <= 2 * i)
    BY <2>1, <2>2
  <2>4. y \in I
    BY <2>2, <2>3
  <2>5. left[x] = i + 2 - x.p /\ left[y] = IF y.on THEN i + 2 - y.p ELSE 0
    BY <1>4, <2>4
  <2> HIDE DEF left, I
  <2>6. left[y] < left[x]
    BY <2>1, <2>2, <2>5
  <2>7. QED
    BY <2>2, <2>4, <2>6
<1>5. start \in I
  OBVIOUS
<1>6. \A x \in S : x.on \in BOOLEAN
  OBVIOUS
<1>7. While(body, start) \in I /\ ~ While(body, start).on
  <2> HIDE DEF S, I, body, left, start
  <2>1. QED
    BY <1>1, <1>2, <1>3, <1>4, <1>5, <1>6, WhileEnds
<1>8. PowerAbove(i) = While(body, start).p
  BY DEF PowerAbove
<1> DEFINE w == While(body, start)
<1> HIDE DEF w
<1>9. w \in I /\ ~ w.on /\ PowerAbove(i) = w.p
  BY <1>7, <1>8 DEF w
<1>10. QED
  BY <1>9

(* snapUpSize asks for more than i, except where that is no int.           *)
LEMMA snapUpSizeGives ==
  ASSUME NEW i \in Ints
  PROVE  /\ snapUpSize(i) \in Int /\ snapUpSize(i) >= i /\ snapUpSize(i) > 0
         /\ snapUpSize(i) <= MaxInt
         /\ snapUpSize(i) = i => 2 * i > MaxInt
<1>1. i \in Int /\ i <= MaxInt /\ MaxInt \in Nat /\ Smallest \in Int /\ Smallest > 0 /\ Smallest <= MaxInt
  BY SizesAreInts DEF Ints
<1>2. CASE i < Smallest
  <2>1. snapUpSize(i) = Smallest
    BY <1>2 DEF snapUpSize
  <2>2. QED
    BY <1>1, <1>2, <2>1
<1>3. CASE ~ (i < Smallest)
  <2>1. i \in Nat /\ i > 0
    BY <1>1, <1>3
  <2>2. PowerAbove(i) \in Nat /\ PowerAbove(i) > i /\ PowerAbove(i) <= 2 * i
    BY <2>1, PowerIsAbove
  <2>3. snapUpSize(i) = IF PowerAbove(i) <= MaxInt THEN PowerAbove(i) ELSE i
    BY <1>3 DEF snapUpSize
  <2>4. QED
    BY <1>1, <2>1, <2>2, <2>3
<1>4. QED
  BY <1>2, <1>3

\* A new block with the text in it.
LEMMA ReplacedGives ==
  ASSUME NEW s, Proper(s), NEW n \in Int, n > s.slen, n <= MaxInt
  PROVE  LET g == Replaced(s, n) IN
         /\ g.ok = TRUE /\ g.moved = TRUE /\ Fit(g.m) /\ Size(g.m) = n
         /\ \A k \in 1..s.slen : g.m.at[k] = s.m.at[k]
         /\ g.m.at[s.slen + 1] = Nul
<1>1. /\ s.m \in Blocks /\ s.m.bad = {} /\ s.slen \in Nat /\ s.slen <= Size(s.m) /\ Size(s.m) \in Nat
  BY StringFields
<1> DEFINE b == [Block(n) EXCEPT !.bad = s.m.bad]
           w == Write(b, 0, Text(s))
           e == Write(w, s.slen, <<Nul>>)
<1>2. b \in Blocks /\ b.bad = {} /\ Size(b) = n
  <2>1. Times(Junk, n) \in Seq(Byte) /\ Len(Times(Junk, n)) = n
    <3>1. Times(Junk, n) \in Seq(Byte) /\ Len(Times(Junk, n)) = IF n < 0 THEN 0 ELSE n
      BY TimesMakes, CharsAreBytes
    <3>2. ~ (n < 0)
      BY <1>1
    <3>3. QED
      BY <3>1, <3>2
  <2>2. b = [at |-> Times(Junk, n), bad |-> {}]
    BY <1>1 DEF Block
  <2>3. QED
    BY <2>1, <2>2 DEF Blocks, Size
<1>3. /\ Text(s) \in Seq(Byte) /\ Len(Text(s)) = s.slen
      /\ \A k \in 1..s.slen : Text(s)[k] = s.m.at[k]
  <2>1. /\ Bytes(s.m, 0, s.slen) \in Seq(Byte)
        /\ Len(Bytes(s.m, 0, s.slen)) = s.slen
        /\ \A i \in 1..s.slen : Bytes(s.m, 0, s.slen)[i] = s.m.at[0 + i]
    BY <1>1, BytesGive
  <2>2. QED
    BY <1>1, <2>1 DEF Text
<1> HIDE DEF b
<1>4. /\ w \in Blocks /\ w.bad = {} /\ Size(w) = n
      /\ \A k \in 1..n : w.at[k] = IF k > 0 /\ k <= 0 + s.slen THEN Text(s)[k - 0] ELSE b.at[k]
  <2>1. 0 + Len(Text(s)) <= Size(b)
    BY <1>1, <1>2, <1>3
  <2>2. QED
    BY <1>2, <1>3, <2>1, WriteInside
<1>5. \A k \in 1..s.slen : w.at[k] = s.m.at[k]
  BY <1>1, <1>3, <1>4
<1> HIDE DEF w
<1>6. Fit(w) /\ Clean(w, 0, s.slen) /\ s.slen < Size(w)
  BY <1>1, <1>4, <1>5 DEF Fit, Clean, Proper
<1>7. /\ Sane(Done(w, s.slen)) /\ Size(Done(w, s.slen).s.m) = n
      /\ Done(w, s.slen).s.slen = s.slen
      /\ \A k \in 1..n : k # s.slen + 1 => Done(w, s.slen).s.m.at[k] = w.at[k]
  BY <1>1, <1>4, <1>6, DoneSane
<1>11. Done(w, s.slen).s.m = e
  BY DEF Done, End
<1> HIDE DEF e
<1>8. /\ e.at[s.slen + 1] = Nul /\ \A k \in 1..s.slen : e.at[k] = s.m.at[k]
      /\ Fit(e) /\ Size(e) = n
  <2>1. \A k \in 1..s.slen : k \in 1..n /\ k # s.slen + 1
    BY <1>1
  <2>2. QED
    BY <1>5, <1>7, <1>11, <2>1 DEF Sane, Sound, Ended, Proper
<1>9. Replaced(s, n) = [ok |-> TRUE, moved |-> TRUE, m |-> e]
  BY DEF Replaced, End, w, b, e
<1>10. QED
  BY <1>8, <1>9

(* balloc gives room for olen bytes, with the text, or nothing.            *)
LEMMA ballocGives ==
  ASSUME NEW s, Proper(s), NEW olen \in Ints, NEW memory,
         s.slen < Size(s.m) \/ s.slen < olen
  PROVE  LET g == balloc(s, olen, memory) IN
         /\ g.ok \in BOOLEAN /\ g.moved \in BOOLEAN /\ Fit(g.m) /\ Size(g.m) >= Size(s.m)
         /\ ~ g.moved => g.m = s.m
         /\ ~ g.ok => ~ g.moved
         /\ \A k \in 1..s.slen : g.m.at[k] = s.m.at[k]
         /\ Ended(s) => g.m.at[s.slen + 1] = Nul
         /\ g.ok => olen > 0 /\ Size(g.m) >= olen
         /\ g.ok /\ Size(g.m) = olen => (memory # "plenty" /\ memory # "none") \/ 2 * olen > MaxInt
         /\ g.moved => olen >= Size(s.m)
<1> DEFINE g == balloc(s, olen, memory)
           n == snapUpSize(olen)
<1>1. /\ s.m \in Blocks /\ s.m.bad = {} /\ s.slen \in Nat /\ s.slen <= Size(s.m) /\ Size(s.m) \in Nat
      /\ Size(s.m) <= MaxInt /\ Fit(s.m)
  BY StringFields DEF Proper
<1>2. olen \in Int /\ olen <= MaxInt /\ MaxInt \in Nat
  BY SizesAreInts DEF Ints
<1>3. n \in Int /\ n >= olen /\ n > 0 /\ n <= MaxInt /\ (n = olen => 2 * olen > MaxInt)
  BY snapUpSizeGives
<1> HIDE DEF n
<1>4. CASE olen <= 0
  <2>1. g = [ok |-> FALSE, m |-> s.m, moved |-> FALSE]
    BY <1>4 DEF balloc, Unavailable
  <2>2. QED
    BY <1>1, <2>1 DEF Ended
<1>5. CASE ~ (olen <= 0) /\ (olen < Size(s.m) \/ n <= Size(s.m))
  <2>1. g = [ok |-> TRUE, m |-> s.m, moved |-> FALSE]
    BY <1>5 DEF balloc, Kept, n
  <2>2. Size(s.m) >= olen /\ olen > 0 /\ (Size(s.m) = olen => n = olen)
    BY <1>1, <1>2, <1>3, <1>5
  <2> HIDE DEF g
  <2>3. QED
    BY <1>1, <1>3, <2>1, <2>2 DEF Ended, g
<1>6. CASE ~ (olen <= 0) /\ ~ (olen < Size(s.m) \/ n <= Size(s.m)) /\ memory = "none"
  <2>1. g = [ok |-> FALSE, m |-> s.m, moved |-> FALSE]
    BY <1>6 DEF balloc, Unavailable, n
  <2>2. QED
    BY <1>1, <2>1 DEF Ended
<1>7. CASE ~ (olen <= 0) /\ ~ (olen < Size(s.m) \/ n <= Size(s.m)) /\ memory # "none"
  <2> DEFINE l == IF memory = "plenty" THEN n ELSE olen
  <2>1. g = Replaced(s, l)
    BY <1>7 DEF balloc, n
  <2>2. olen > 0 /\ l \in Int /\ l > s.slen /\ l <= MaxInt /\ l >= olen /\ l >= Size(s.m)
        /\ olen >= Size(s.m)
    BY <1>1, <1>2, <1>3, <1>7
  <2>3. l = olen => memory # "plenty" \/ 2 * olen > MaxInt
    BY <1>3
  <2> HIDE DEF l, g
  <2>4. /\ g.ok = TRUE /\ g.moved = TRUE /\ Fit(g.m) /\ Size(g.m) = l
        /\ \A k \in 1..s.slen : g.m.at[k] = s.m.at[k]
        /\ g.m.at[s.slen + 1] = Nul
    BY <2>1, <2>2, ReplacedGives
  <2>5. QED
    BY <1>7, <2>2, <2>3, <2>4 DEF g
<1>8. QED
  BY <1>4, <1>5, <1>6, <1>7
-----------------------------------------------------------------------------
(***************************************************************************)
(* Writes of texts, and sources.                                           *)
(***************************************************************************)
(* A write inside of the block faults nothing.                             *)
LEMMA Written ==
  ASSUME NEW m, Fit(m), NEW to \in Nat, NEW x \in Seq(Chars), to + Len(x) <= Size(m)
  PROVE  /\ Fit(Write(m, to, x)) /\ Size(Write(m, to, x)) = Size(m)
         /\ \A k \in 1..Size(m) : k <= to \/ k > to + Len(x) => Write(m, to, x).at[k] = m.at[k]
         /\ Clean(Write(m, to, x), to, to + Len(x))
<1>1. m \in Blocks /\ m.bad = {} /\ Size(m) \in Nat /\ Size(m) <= MaxInt /\ x \in Seq(Byte)
      /\ Len(x) \in Nat
  BY BlockSize, TextsAreBytes DEF Fit
<1> DEFINE w == Write(m, to, x)
<1>2. /\ w \in Blocks /\ w.bad = m.bad /\ Size(w) = Size(m)
      /\ \A k \in 1..Size(m) : w.at[k] = IF k > to /\ k <= to + Len(x) THEN x[k - to] ELSE m.at[k]
  BY <1>1, WriteInside
<1> HIDE DEF w
<1>3. \A k \in 1..Size(m) : k <= to \/ k > to + Len(x) => w.at[k] = m.at[k]
  BY <1>1, <1>2
<1>4. ASSUME NEW k \in to + 1..to + Len(x) PROVE w.at[k] \in Chars
  <2>1. k \in 1..Size(m) /\ k > to /\ k <= to + Len(x) /\ k - to \in 1..Len(x)
    BY <1>1
  <2>2. w.at[k] = x[k - to]
    BY <1>2, <2>1
  <2>3. QED
    BY <2>1, <2>2
<1>5. QED
  BY <1>1, <1>2, <1>3, <1>4 DEF Fit, Clean, w

(* Nor does a move inside of it.                                           *)
LEMMA Moved ==
  ASSUME NEW m, Fit(m), NEW to \in Nat, NEW from \in Nat, NEW n \in Nat,
         from + n <= Size(m), to + n <= Size(m)
  PROVE  /\ Fit(Move(m, to, from, n)) /\ Size(Move(m, to, from, n)) = Size(m)
         /\ \A k \in 1..Size(m) : k <= to \/ k > to + n => Move(m, to, from, n).at[k] = m.at[k]
         /\ \A k \in to + 1..to + n : Move(m, to, from, n).at[k] = m.at[k - to + from]
<1>1. m \in Blocks /\ m.bad = {} /\ Size(m) \in Nat /\ Size(m) <= MaxInt
  BY BlockSize DEF Fit
<1> DEFINE x == Bytes(m, from, n)
           w == Write(m, to, x)
<1>2. x \in Seq(Byte) /\ Len(x) = n /\ \A i \in 1..n : x[i] = m.at[from + i]
  BY <1>1, BytesGive
<1>3. Move(m, to, from, n) = w
  BY DEF Move
<1> HIDE DEF x
<1>4. /\ w \in Blocks /\ w.bad = m.bad /\ Size(w) = Size(m)
      /\ \A k \in 1..Size(m) : w.at[k] = IF k > to /\ k <= to + n THEN x[k - to] ELSE m.at[k]
  <2>1. to + Len(x) <= Size(m) /\ to >= 0
    BY <1>2
  <2>2. QED
    BY <1>1, <1>2, <2>1, WriteInside
<1> HIDE DEF w
<1>5. \A k \in 1..Size(m) : k <= to \/ k > to + n => w.at[k] = m.at[k]
  BY <1>1, <1>4
<1>6. ASSUME NEW k \in to + 1..to + n PROVE w.at[k] = m.at[k - to + from]
  <2>1. k \in 1..Size(m) /\ k > to /\ k <= to + n /\ k - to \in 1..n /\ from + (k - to) = k - to + from
    BY <1>1
  <2>2. w.at[k] = x[k - to]
    BY <1>4, <2>1
  <2>3. x[k - to] = m.at[from + (k - to)]
    BY <1>2, <2>1
  <2>4. QED
    BY <2>1, <2>2, <2>3
<1>7. QED
  BY <1>1, <1>3, <1>4, <1>5, <1>6 DEF Fit

(* A move gives a block of the same size, wherever it goes.                *)
LEMMA MoveTyped ==
  ASSUME NEW m \in Blocks, NEW to \in Int, NEW from \in Int, NEW n \in Int
  PROVE  Move(m, to, from, n) \in Blocks /\ Size(Move(m, to, from, n)) = Size(m)
<1>1. CASE n < 0
  <2>1. Move(m, to, from, n) = [m EXCEPT !.bad = @ \cup {"outside"}]
    BY <1>1 DEF Move
  <2>2. QED
    BY <2>1, BlockSize DEF Blocks, Size
<1>2. CASE ~ (n < 0)
  <2>1. Move(m, to, from, n) = Write(m, to, Bytes(m, from, n))
    BY <1>2 DEF Move
  <2>2. QED
    BY <2>1, BytesGive, WriteTyped
<1>3. QED
  BY <1>1, <1>2

\* The bytes of a clean range are a text.
LEMMA CleanBytes ==
  ASSUME NEW m \in Blocks, NEW a \in Nat, NEW n \in Nat, a + n <= Size(m), Clean(m, a, a + n)
  PROVE  /\ Bytes(m, a, n) \in Seq(Chars) /\ Len(Bytes(m, a, n)) = n
         /\ \A k \in 1..n : Bytes(m, a, n)[k] = m.at[a + k]
<1> DEFINE x == Bytes(m, a, n)
<1>1. x \in Seq(Byte) /\ Len(x) = n /\ \A i \in 1..n : x[i] = m.at[a + i]
  BY BytesGive
<1> HIDE DEF x
<1>2. \A i \in 1..n : x[i] \in Chars
  BY <1>1 DEF Clean
<1>3. x \in Seq(Chars)
  BY <1>1, <1>2
<1>4. QED
  BY <1>1, <1>3 DEF x

(* The text of a proper string is of characters.                           *)
LEMMA TextGives ==
  ASSUME NEW s, Proper(s)
  PROVE  /\ Text(s) \in Seq(Chars) /\ Len(Text(s)) = s.slen
         /\ \A k \in 1..s.slen : Text(s)[k] = s.m.at[k]
<1>1. Clean(s.m, 0, 0 + s.slen)
  BY StringFields DEF Proper
<1>2. QED
  BY <1>1, StringFields, CleanBytes DEF Text

(* A source has a text, and a part of the string lies in it.               *)
LEMMA SourceGives ==
  ASSUME NEW s, Proper(s), NEW src \in Sources(s)
  PROVE  /\ src.own \in BOOLEAN /\ src.text \in Seq(Chars) /\ Len(src.text) \in Nat
         /\ Len(src.text) <= MaxInt
         /\ src.at \in Nat
         /\ src.own => /\ src.at + Len(src.text) <= s.slen /\ Len(src.text) >= 1
                       /\ src.text = Bytes(s.m, src.at, Len(src.text))
<1>1. CASE src \in Others
  <2>1. PICK w \in Words : src = [own |-> FALSE, at |-> 0, text |-> w]
    BY <1>1 DEF Others
  <2>2. w \in Seq(Chars) /\ Len(w) <= MaxInt
    BY LengthsAreInts, SizesAreInts
  <2>3. QED
    BY <2>1, <2>2
<1>2. CASE src \in {p \in Parts(s) : p.at + Len(p.text) <= s.slen}
  <2>1. PICK i \in 0..s.slen, n \in 1..s.slen : src = [own |-> TRUE, at |-> i, text |-> Bytes(s.m, i, n)]
    BY <1>2 DEF Parts
  <2>2. i \in Nat /\ n \in Nat /\ n >= 1 /\ s.slen \in Nat /\ s.m \in Blocks /\ s.slen <= Size(s.m)
        /\ Size(s.m) <= MaxInt /\ MaxInt \in Nat /\ Size(s.m) \in Nat
    BY <2>1, StringFields
  <2>3. Len(Bytes(s.m, i, n)) = n
    BY <2>2, BytesGive
  <2>4. i + n <= s.slen
    BY <1>2, <2>1, <2>3
  <2>5. Clean(s.m, i, i + n)
    BY <2>2, <2>4 DEF Proper, Clean
  <2>6. Bytes(s.m, i, n) \in Seq(Chars)
    BY <2>2, <2>4, <2>5, CleanBytes
  <2>7. QED
    BY <2>1, <2>2, <2>3, <2>4, <2>6
<1>3. QED
  BY <1>1, <1>2 DEF Sources

(* What is left of a source when the block was or was not replaced.        *)
LEMMA SinceGives ==
  ASSUME NEW s, Proper(s), NEW src \in Sources(s), NEW g, g.moved \in BOOLEAN,
         ~ g.moved => g.m = s.m
  PROVE  /\ ~ (src.own /\ g.moved) => Since(src, g) = src.text
         /\ src.own /\ g.moved => Since(src, g) = Times(Junk, Len(src.text))
         /\ \A copied \in BOOLEAN :
              copied \/ ~ (src.own /\ g.moved) => Copied(src, copied, g) = src.text
<1>1. /\ src.own \in BOOLEAN
      /\ src.own => src.text = Bytes(s.m, src.at, Len(src.text))
  BY SourceGives
<1>2. ~ (src.own /\ g.moved) => Since(src, g) = src.text
  <2>1. CASE ~ src.own
    BY <2>1 DEF Since, Now
  <2>2. CASE src.own /\ ~ g.moved
    BY <1>1, <2>2 DEF Since, Now
  <2>3. QED
    BY <2>1, <2>2
<1>3. src.own /\ g.moved => Since(src, g) = Times(Junk, Len(src.text))
  BY DEF Since
<1>4. QED
  BY <1>2, <1>3 DEF Copied

(* A C string is no longer than its bytes.                                 *)
LEMMA CStringGives ==
  ASSUME NEW w \in Seq(Chars)
  PROVE  CString(w) \in Seq(Chars) /\ Len(CString(w)) \in Nat /\ Len(CString(w)) <= Len(w)
<1> DEFINE E == {i \in Positions(w) : At(w, i) = Nul}
           e == Least(E)
<1>1. CString(w) = IF e = ERR THEN w ELSE SubSeq(w, 1, e)
  BY DEF CString
<1>2. CASE E = {}
  <2>1. e = ERR
    BY <1>2 DEF Least
  <2>2. QED
    BY <1>1, <2>1
<1>3. CASE E # {}
  <2>1. E \in SUBSET Nat
    BY DEF Positions
  <2>2. e \in E
    <3> HIDE DEF E
    <3>1. QED
      BY <1>3, <2>1, LeastMember
  <2>3. e \in Int /\ e <= Len(w) /\ e >= 0
    BY <2>2 DEF Positions
  <2>4. SubSeq(w, 1, e) \in Seq(Chars) /\ Len(SubSeq(w, 1, e)) = IF 1 <= e THEN e - 1 + 1 ELSE 0
    <3> HIDE DEF e
    <3>1. QED
      BY <2>3, Sub
  <2>5. e # ERR
    BY <2>3 DEF ERR
  <2>6. (IF 1 <= e THEN e - 1 + 1 ELSE 0) = e
    BY <2>3
  <2>7. CString(w) = SubSeq(w, 1, e)
    BY <1>1, <2>5
  <2> HIDE DEF e
  <2>8. QED
    BY <2>3, <2>4, <2>6, <2>7
<1>4. QED
  BY <1>2, <1>3

(* It is the whole text when it is no shorter.                             *)
LEMMA CStringWhole ==
  ASSUME NEW w \in Seq(Chars), Len(CString(w)) >= Len(w)
  PROVE  CString(w) = w
<1> DEFINE E == {i \in Positions(w) : At(w, i) = Nul}
           e == Least(E)
<1>1. CString(w) = IF e = ERR THEN w ELSE SubSeq(w, 1, e)
  BY DEF CString
<1>2. E = {} \/ e \in Positions(w)
  <2>1. E \in SUBSET Nat
    BY DEF Positions
  <2>2. E # {} => e \in E
    <3> HIDE DEF E
    <3>1. QED
      BY <2>1, LeastMember
  <2>3. QED
    BY <2>2
<1>3. CASE E = {}
  BY <1>1, <1>3 DEF Least
<1>4. CASE e \in Positions(w)
  <2>1. e \in Nat /\ e < Len(w) /\ Len(w) \in Nat /\ e # ERR
    BY <1>4 DEF Positions, ERR
  <2>2. CString(w) = SubSeq(w, 1, e)
    BY <1>1, <2>1
  <2> HIDE DEF e
  <2>3. e \in Int /\ 1 \in Int /\ e <= Len(w)
    BY <2>1
  <2>4. Len(SubSeq(w, 1, e)) = IF 1 <= e THEN e - 1 + 1 ELSE 0
    BY <2>3, Sub
  <2>5. QED
    BY <2>1, <2>2, <2>4
<1>5. QED
  BY <1>2, <1>3, <1>4

\* A source that is a part of the text of s, or is of another block.
Lies(s, src) == /\ src.own \in BOOLEAN /\ src.text \in Seq(Chars) /\ Len(src.text) <= MaxInt
                /\ src.at \in Nat /\ (src.own => src.at + Len(src.text) <= s.slen)

(* A C string is such a source; that in s ends where the text does.        *)
LEMMA CStringsLie ==
  ASSUME NEW s, Proper(s), NEW src \in CStrings(s)
  PROVE  /\ Lies(s, src)
         /\ ~ src.own => Len(src.text) < MaxInt
         /\ src.own => src.at + Len(src.text) = s.slen
<1>1. CASE src \in Others
  <2>1. PICK w \in Words : src = [own |-> FALSE, at |-> 0, text |-> w]
    BY <1>1 DEF Others
  <2>2. w \in Seq(Chars) /\ Len(w) < MaxInt
    BY LengthsAreInts
  <2>3. Len(w) <= MaxInt
    BY <2>2, SizesAreInts
  <2>4. QED
    BY <2>1, <2>2, <2>3 DEF Lies
<1>2. CASE src \in {[own |-> TRUE, at |-> i, text |-> Bytes(s.m, i, s.slen - i)] : i \in 0..s.slen}
  <2>1. PICK i \in 0..s.slen : src = [own |-> TRUE, at |-> i, text |-> Bytes(s.m, i, s.slen - i)]
    BY <1>2
  <2> DEFINE n == s.slen - i
  <2>2. i \in Nat /\ n \in Nat /\ s.slen \in Nat /\ s.m \in Blocks /\ s.slen <= Size(s.m)
        /\ Size(s.m) <= MaxInt /\ MaxInt \in Nat /\ Size(s.m) \in Nat /\ i + n = s.slen
    BY <2>1, StringFields
  <2> HIDE DEF n
  <2>8. Len(Bytes(s.m, i, n)) = IF n < 0 THEN 0 ELSE n
    <3>1. i \in Int /\ n \in Int
      BY <2>2
    <3>2. QED
      BY <2>2, <3>1, BytesGive
  <2>3. Len(Bytes(s.m, i, n)) = n
    BY <2>2, <2>8
  <2>4. Clean(s.m, i, i + n)
    BY <2>2 DEF Proper, Clean
  <2>5. Bytes(s.m, i, n) \in Seq(Chars)
    BY <2>2, <2>4, CleanBytes
  <2>6. src = [own |-> TRUE, at |-> i, text |-> Bytes(s.m, i, n)]
    BY <2>1 DEF n
  <2>7. QED
    BY <2>2, <2>3, <2>5, <2>6 DEF Lies
<1>3. QED
  BY <1>1, <1>2 DEF CStrings

(* What is copied of it: bytes, and characters when the block was kept.    *)
LEMMA SinceLies ==
  ASSUME NEW s, Proper(s), NEW src, Lies(s, src), NEW g, g.moved \in BOOLEAN, ~ g.moved => g.m = s.m
  PROVE  /\ Since(src, g) \in Seq(Byte) /\ Len(Since(src, g)) = Len(src.text)
         /\ ~ (src.own /\ g.moved) => Since(src, g) \in Seq(Chars)
<1> DEFINE n == Len(src.text)
<1>1. src.own \in BOOLEAN /\ src.text \in Seq(Chars) /\ n \in Nat /\ src.at \in Nat
      /\ (src.own => src.at + n <= s.slen)
  BY DEF Lies
<1>2. CASE ~ src.own
  BY <1>1, <1>2, TextsAreBytes DEF Since, Now
<1> HIDE DEF n
<1>3. CASE src.own /\ g.moved
  <2>1. Since(src, g) = Times(Junk, n)
    BY <1>3 DEF Since, n
  <2>2. Times(Junk, n) \in Seq(Byte) /\ Len(Times(Junk, n)) = IF n < 0 THEN 0 ELSE n
    <3>1. n \in Int
      BY <1>1
    <3>2. QED
      BY <3>1, TimesMakes, CharsAreBytes
  <2>3. Len(Times(Junk, n)) = n
    BY <1>1, <2>2
  <2>4. QED
    BY <1>3, <2>1, <2>2, <2>3 DEF n
<1>4. CASE src.own /\ ~ g.moved
  <2>1. Since(src, g) = Bytes(s.m, src.at, n)
    BY <1>4 DEF Since, Now, n
  <2>2. s.m \in Blocks /\ s.slen \in Nat /\ s.slen <= Size(s.m) /\ Size(s.m) \in Nat
        /\ Clean(s.m, 0, s.slen)
    BY StringFields DEF Proper
  <2>3. src.at + n <= Size(s.m) /\ Clean(s.m, src.at, src.at + n)
    BY <1>1, <1>4, <2>2 DEF Clean
  <2>4. Bytes(s.m, src.at, n) \in Seq(Chars) /\ Len(Bytes(s.m, src.at, n)) = n
    BY <1>1, <2>2, <2>3, CleanBytes
  <2>5. QED
    BY <2>1, <2>4, TextsAreBytes DEF n
<1>5. QED
  BY <1>1, <1>2, <1>3, <1>4
-----------------------------------------------------------------------------
(***************************************************************************)
(* Making strings.                                                         *)
(***************************************************************************)
Good(r, s) == Refusal(r, s) \/ Sane(r)
\* A refusal in the middle of the text.
Half(r) == r.rc = ERR /\ Proper(r.s)
\* A result with bytes that are not the text's.
Stale(r) == /\ r.rc = 0 /\ r.s \in Strings /\ Size(r.s.m) <= MaxInt /\ r.s.m.bad = {} /\ Ended(r.s)

\* One of a call that looked for a `\0' behind the block.
RanOut(r) == /\ r.rc = 0 /\ r.s \in Strings /\ Size(r.s.m) <= MaxInt /\ r.s.m.bad = {"outside"}
             /\ r.s.slen = Size(r.s.m) /\ Clean(r.s.m, 0, r.s.slen)

(* A refusal leaves the string.                                            *)
LEMMA Refuses ==
  ASSUME NEW s
  PROVE  Good(Refuse(s), s) /\ (Proper(s) => Half(Refuse(s))) /\ Good(Refuse(None), s)
BY DEF Good, Refusal, Refuse, Half

(* What a sound string is.                                                 *)
LEMMA SoundFacts ==
  ASSUME NEW s, Sound(s)
  PROVE  /\ Proper(s) /\ Fit(s.m) /\ Clean(s.m, 0, s.slen) /\ s.m \in Blocks
         /\ s.slen \in Nat /\ Size(s.m) \in Nat /\ s.slen < Size(s.m) /\ Size(s.m) <= MaxInt
         /\ MaxInt \in Nat /\ s.m.at[s.slen + 1] = Nul
         /\ s = [m |-> s.m, slen |-> s.slen]
<1>1. Proper(s) /\ Ended(s)
  BY DEF Sound
<1>2. /\ s = [m |-> s.m, slen |-> s.slen] /\ s.m \in Blocks /\ s.m.bad = {}
      /\ Size(s.m) \in Nat /\ Size(s.m) <= MaxInt /\ s.slen \in Nat /\ s.slen <= Size(s.m)
      /\ MaxInt \in Nat
  BY <1>1, StringFields
<1>3. QED
  BY <1>1, <1>2 DEF Ended, Proper

(* A new block is fit.                                                     *)
LEMMA BlockGives ==
  ASSUME NEW n \in Nat, n <= MaxInt
  PROVE  Fit(Block(n)) /\ Size(Block(n)) = n
<1>1. Times(Junk, n) \in Seq(Byte) /\ Len(Times(Junk, n)) = n
  <2>1. Times(Junk, n) \in Seq(Byte) /\ Len(Times(Junk, n)) = IF n < 0 THEN 0 ELSE n
    BY TimesMakes, CharsAreBytes
  <2>2. ~ (n < 0)
    OBVIOUS
  <2>3. QED
    BY <2>1, <2>2
<1>2. QED
  BY <1>1 DEF Block, Fit, Size, Blocks

\* A text in a new block.
LEMMA NewString ==
  ASSUME NEW n \in Int, n <= MaxInt, NEW x \in Seq(Chars), Len(x) < n
  PROVE  Sane(Done(Write(Block(n), 0, x), Len(x)))
<1>1. n \in Nat /\ Len(x) \in Nat /\ 0 + Len(x) = Len(x)
  OBVIOUS
<1>2. Fit(Block(n)) /\ Size(Block(n)) = n
  BY <1>1, BlockGives
<1> DEFINE w == Write(Block(n), 0, x)
<1>3. Fit(w) /\ Size(w) = n /\ Clean(w, 0, Len(x))
  <2>1. 0 + Len(x) <= Size(Block(n)) /\ 0 \in Nat
    BY <1>1, <1>2
  <2>2. QED
    BY <1>1, <1>2, <2>1, Written
<1> HIDE DEF w
<1>4. Sane(Done(w, Len(x)))
  BY <1>1, <1>3, DoneSane
<1>5. QED
  BY <1>4 DEF w

(* The size for a text has room for it and its `\0', except at the end of  *)
(* int.                                                                    *)
LEMMA SizeForGives ==
  ASSUME NEW n \in Nat, n <= MaxInt
  PROVE  SizeFor(n) \in Int /\ SizeFor(n) <= MaxInt /\ SizeFor(n) > 0 /\ (n < MaxInt => SizeFor(n) > n)
<1> DEFINE l == n + (IF n = 0 THEN 2 ELSE 1)
<1>1. l \in Int /\ l > n /\ MaxInt \in Nat /\ MaxInt > 0 /\ (n < MaxInt /\ n # 0 => l <= MaxInt)
  BY SizesAreInts
<1>2. SizeFor(n) = snapUpSize(Wrap(l))
  BY DEF SizeFor
<1>3. Wrap(l) \in Ints /\ (l \in Ints => Wrap(l) = l)
  <2> HIDE DEF l
  <2>1. QED
    BY <1>1, Wraps
<1>4. /\ SizeFor(n) \in Int /\ SizeFor(n) <= MaxInt /\ SizeFor(n) > 0 /\ SizeFor(n) >= Wrap(l)
  BY <1>2, <1>3, snapUpSizeGives
<1>5. l <= MaxInt => l \in Ints
  BY <1>1 DEF Ints
<1> HIDE DEF l
<1>6. ASSUME n < MaxInt PROVE SizeFor(n) > n
  <2>1. CASE l <= MaxInt
    BY <1>1, <1>3, <1>4, <1>5, <2>1
  <2>2. CASE n = 0
    BY <1>4, <2>2
  <2>3. QED
    BY <1>1, <1>6, <2>1, <2>2
<1>7. QED
  BY <1>4, <1>6

(* A made string is sound.                                                 *)
LEMMA MadeSane ==
  ASSUME NEW x \in Seq(Chars), NEW n \in Int, n <= MaxInt, NEW memory, NEW s
  PROVE  Good(Made(x, n, memory), s)
<1>1. CASE n > Len(x) /\ memory = "plenty"
  <2>1. Made(x, n, memory) = Done(Write(Block(n), 0, x), Len(x))
    BY <1>1 DEF Made
  <2>2. QED
    BY <1>1, <2>1, NewString DEF Good
<1>2. CASE ~ (n > Len(x) /\ memory = "plenty")
  <2>1. Made(x, n, memory) = Refuse(None)
    BY <1>2 DEF Made
  <2>2. QED
    BY <2>1, Refuses
<1>3. QED
  BY <1>1, <1>2

(* bfromcstr makes a sound string or returns NULL.                         *)
LEMMA bfromcstrSane ==
  ASSUME NEW w \in Seq(Chars), Len(w) < MaxInt, NEW memory, NEW s
  PROVE  Good(bfromcstr(w, memory), s)
<1> DEFINE c == CString(w)
<1>1. c \in Seq(Chars) /\ Len(c) \in Nat /\ Len(c) <= Len(w)
  BY CStringGives
<1>2. Len(c) <= MaxInt
  BY <1>1, SizesAreInts
<1> HIDE DEF c
<1>3. SizeFor(Len(c)) \in Int /\ SizeFor(Len(c)) <= MaxInt
  BY <1>1, <1>2, SizeForGives
<1>4. Good(Made(c, SizeFor(Len(c)), memory), s)
  BY <1>1, <1>3, MadeSane
<1>5. QED
  BY <1>4 DEF bfromcstr, c

(* bfromcstralloc, for any length.                                         *)
LEMMA bfromcstrallocSane ==
  ASSUME NEW w \in Seq(Chars), Len(w) < MaxInt, NEW memory, NEW s, NEW mlen \in Ints
  PROVE  Good(bfromcstralloc(mlen, w, memory), s)
<1> DEFINE c == CString(w)
           n == IF SizeFor(Len(c)) > Len(c) THEN AtLeast(SizeFor(Len(c)), mlen) ELSE 0
<1>1. c \in Seq(Chars) /\ Len(c) \in Nat /\ Len(c) <= Len(w)
  BY CStringGives
<1>2. Len(c) <= MaxInt
  BY <1>1, SizesAreInts
<1>3. SizeFor(Len(c)) \in Int /\ SizeFor(Len(c)) <= MaxInt
  <2> HIDE DEF c
  <2>1. QED
    BY <1>1, <1>2, SizeForGives
<1>4. n \in Int /\ n <= MaxInt
  BY <1>3, SizesAreInts DEF AtLeast, Ints
<1>5. bfromcstralloc(mlen, w, memory) = Made(c, n, memory)
  BY DEF bfromcstralloc
<1> HIDE DEF c, n
<1>6. QED
  BY <1>1, <1>4, <1>5, MadeSane

(* blk2bstr, for a block shorter than INT_MAX.                             *)
LEMMA blk2bstrSane ==
  ASSUME NEW w \in Seq(Chars), Len(w) < MaxInt, NEW memory, NEW s
  PROVE  Good(blk2bstr(w, memory), s)
<1> DEFINE n == SizeFor(Len(w))
<1>1. Len(w) \in Nat /\ Len(w) <= MaxInt
  BY SizesAreInts
<1>2. n \in Int /\ n <= MaxInt /\ n > Len(w)
  BY <1>1, SizeForGives
<1> HIDE DEF n
<1>3. CASE memory = "plenty"
  <2>1. blk2bstr(w, memory) = Done(Write(Block(n), 0, w), Len(w))
    BY <1>3 DEF blk2bstr, n
  <2>2. QED
    BY <1>2, <2>1, NewString DEF Good
<1>4. CASE memory # "plenty"
  <2>1. blk2bstr(w, memory) = Refuse(None)
    BY <1>4 DEF blk2bstr
  <2>2. QED
    BY <2>1, Refuses
<1>5. QED
  BY <1>3, <1>4

(* The copy of a sound string is sound.                                    *)
LEMMA bstrcpySane ==
  ASSUME NEW s, Sound(s), NEW memory
  PROVE  Good(bstrcpy(s, memory), s)
<1> DEFINE n == IF memory = "plenty" THEN snapUpSize(s.slen + 1) ELSE s.slen + 1
<1>1. /\ Proper(s) /\ s.slen \in Nat /\ Size(s.m) \in Nat /\ s.slen < Size(s.m)
      /\ Size(s.m) <= MaxInt /\ MaxInt \in Nat
  BY SoundFacts
<1>2. s.slen + 1 \in Ints /\ s.slen + 1 \in Int /\ s.slen + 1 <= MaxInt
  BY <1>1 DEF Ints
<1>3. snapUpSize(s.slen + 1) \in Int /\ snapUpSize(s.slen + 1) >= s.slen + 1 /\ snapUpSize(s.slen + 1) <= MaxInt
  BY <1>2, snapUpSizeGives
<1>4. n \in Int /\ n <= MaxInt /\ n > s.slen
  BY <1>1, <1>2, <1>3
<1> HIDE DEF n
<1>5. Text(s) \in Seq(Chars) /\ Len(Text(s)) = s.slen
  BY <1>1, TextGives
<1>6. CASE memory = "none"
  <2>1. bstrcpy(s, memory) = Refuse(None)
    BY <1>6 DEF bstrcpy
  <2>2. QED
    BY <2>1, Refuses
<1>7. CASE memory # "none"
  <2>1. bstrcpy(s, memory) = Done(Write(Block(n), 0, Text(s)), s.slen)
    BY <1>7 DEF bstrcpy, n
  <2>2. QED
    BY <1>4, <1>5, <2>1, NewString DEF Good
<1>8. QED
  BY <1>6, <1>7

(* The section that bmidstr and bassignmidstr take lies in the text.       *)
LEMMA ClampedGives ==
  ASSUME NEW n \in Nat, NEW left \in Ints, NEW len \in Ints
  PROVE  LET c == Clamped(n, left, len) IN c.left \in Nat /\ c.len \in Int /\ c.left + c.len <= n
<1> DEFINE f == FromStart(left, len)
<1>1. left \in Int /\ len \in Int /\ Wrap(len + left) \in Int
  <2>1. left \in Int /\ len \in Int /\ len + left \in Int
    BY SizesAreInts DEF Ints
  <2>2. Wrap(len + left) \in Ints
    BY <2>1, Wraps
  <2>3. QED
    BY <2>1, <2>2, SizesAreInts DEF Ints
<1>2. f.left \in Nat /\ f.len \in Int /\ f = [left |-> f.left, len |-> f.len]
  BY <1>1 DEF FromStart
<1> HIDE DEF f
<1>3. Clamped(n, left, len) = IF f.len > n - f.left THEN [f EXCEPT !.len = n - f.left] ELSE f
  BY DEF Clamped, f
<1>4. CASE f.len > n - f.left
  <2>1. Clamped(n, left, len) = [left |-> f.left, len |-> n - f.left]
    BY <1>2, <1>3, <1>4
  <2>2. QED
    BY <1>2, <2>1
<1>5. CASE ~ (f.len > n - f.left)
  BY <1>2, <1>3, <1>5
<1>6. QED
  BY <1>4, <1>5

(* bmidstr, for any position and length.                                   *)
LEMMA bmidstrSane ==
  ASSUME NEW s, Sound(s), NEW memory, NEW left \in Ints, NEW len \in Ints
  PROVE  Good(bmidstr(s, left, len, memory), s)
<1> DEFINE c == Clamped(s.slen, left, len)
<1>1. /\ Proper(s) /\ s.slen \in Nat /\ Size(s.m) \in Nat /\ s.slen < Size(s.m) /\ s.m \in Blocks
      /\ Size(s.m) <= MaxInt /\ MaxInt \in Nat /\ Clean(s.m, 0, s.slen)
  BY SoundFacts
<1>2. c.left \in Nat /\ c.len \in Int /\ c.left + c.len <= s.slen
  BY <1>1, ClampedGives
<1>3. bmidstr(s, left, len, memory)
        = IF c.len <= 0 THEN bfromcstr(<<>>, memory) ELSE blk2bstr(Bytes(s.m, c.left, c.len), memory)
  BY DEF bmidstr
<1> HIDE DEF c
<1>4. CASE c.len <= 0
  <2>1. <<>> \in Seq(Chars) /\ Len(<<>>) = 0
    OBVIOUS
  <2>2. Len(<<>>) < MaxInt
    BY <2>1, SizesAreInts
  <2>3. QED
    BY <1>3, <1>4, <2>1, <2>2, bfromcstrSane
<1>5. CASE ~ (c.len <= 0)
  <2>1. c.len \in Nat /\ c.left + c.len <= Size(s.m) /\ Clean(s.m, c.left, c.left + c.len)
    BY <1>1, <1>2, <1>5 DEF Clean
  <2>2. Bytes(s.m, c.left, c.len) \in Seq(Chars) /\ Len(Bytes(s.m, c.left, c.len)) = c.len
    BY <1>1, <1>2, <2>1, CleanBytes
  <2>3. c.len < MaxInt
    BY <1>1, <1>2, <2>1
  <2>4. QED
    BY <1>3, <1>5, <2>2, <2>3, blk2bstrSane
<1>6. QED
  BY <1>4, <1>5

-----------------------------------------------------------------------------
(***************************************************************************)
(* Making room.                                                            *)
(***************************************************************************)
(* A string is sound after balloc.                                         *)
LEMMA ballocSane ==
  ASSUME NEW s, Sound(s), NEW memory, NEW n \in Ints
  PROVE  LET g == balloc(s, n, memory)
         IN  Good([rc |-> IF g.ok THEN 0 ELSE ERR, s |-> [s EXCEPT !.m = g.m]], s)
<1> DEFINE g == balloc(s, n, memory)
           t == [s EXCEPT !.m = g.m]
<1>1. /\ Proper(s) /\ s.slen \in Nat /\ Size(s.m) \in Nat /\ s.slen < Size(s.m) /\ s.m \in Blocks
      /\ Clean(s.m, 0, s.slen) /\ s = [m |-> s.m, slen |-> s.slen]
  BY SoundFacts
<1>2. /\ g.ok \in BOOLEAN /\ Fit(g.m) /\ Size(g.m) >= Size(s.m)
      /\ ~ g.moved => g.m = s.m
      /\ ~ g.ok => ~ g.moved
      /\ \A k \in 1..s.slen : g.m.at[k] = s.m.at[k]
      /\ g.m.at[s.slen + 1] = Nul
  BY <1>1, ballocGives DEF Sound
<1> HIDE DEF g
<1>3. t = [m |-> g.m, slen |-> s.slen]
  BY <1>1
<1>4. CASE g.ok
  <2>1. g.m \in Blocks /\ Size(g.m) \in Nat
    BY <1>2, BlockSize DEF Fit
  <2>2. Clean(g.m, 0, s.slen)
    BY <1>1, <1>2 DEF Clean
  <2>3. t \in Strings
    BY <1>1, <1>3, <2>1, MakeString
  <2>4. Sound(t)
    BY <1>1, <1>2, <1>3, <2>1, <2>2, <2>3 DEF Sound, Proper, Ended
  <2>5. QED
    BY <1>4, <2>4 DEF Good, Sane, g
<1>5. CASE ~ g.ok
  <2>1. t = s
    BY <1>1, <1>2, <1>3, <1>5
  <2>2. QED
    BY <1>5, <2>1 DEF Good, Refusal, g
<1>6. QED
  BY <1>2, <1>4, <1>5

(* A string is sound after ballocmin.                                      *)
LEMMA ballocminSane ==
  ASSUME NEW s, Sound(s), NEW memory, NEW len \in Ints
  PROVE  Good(ballocmin(s, len, memory), s)
<1> DEFINE n == AtLeast(len, s.slen + 1)
<1>1. /\ Proper(s) /\ s.slen \in Nat /\ Size(s.m) \in Nat /\ s.slen < Size(s.m) /\ Fit(s.m)
      /\ Clean(s.m, 0, s.slen) /\ Size(s.m) <= MaxInt /\ MaxInt \in Nat
  BY SoundFacts
<1>2. n \in Int /\ n > s.slen /\ n <= MaxInt
  BY <1>1 DEF AtLeast, Ints
<1> HIDE DEF n
<1>3. CASE ~ (len <= 0) /\ n = Size(s.m)
  <2>1. ballocmin(s, len, memory) = Done(s.m, s.slen)
    BY <1>3 DEF ballocmin, n
  <2>2. QED
    BY <1>1, <2>1, DoneSane DEF Good
<1>4. CASE len <= 0 \/ (n # Size(s.m) /\ memory = "none")
  <2>1. ballocmin(s, len, memory) = Refuse(s)
    BY <1>4 DEF ballocmin, n
  <2>2. QED
    BY <2>1, Refuses
<1>5. CASE ~ (len <= 0) /\ n # Size(s.m) /\ memory # "none"
  <2> DEFINE m == Replaced(s, n).m
  <2>1. ballocmin(s, len, memory) = Done(m, s.slen)
    BY <1>5 DEF ballocmin, n
  <2>2. Fit(m) /\ Size(m) = n /\ \A k \in 1..s.slen : m.at[k] = s.m.at[k]
    BY <1>1, <1>2, ReplacedGives
  <2> HIDE DEF m
  <2>3. Clean(m, 0, s.slen)
    BY <1>1, <2>2 DEF Clean
  <2>4. QED
    BY <1>1, <1>2, <2>1, <2>2, <2>3, DoneSane DEF Good
<1>6. QED
  BY <1>3, <1>4, <1>5
-----------------------------------------------------------------------------
(***************************************************************************)
(* Adding to the text, and setting it.                                     *)
(***************************************************************************)
(* A write of characters leaves no byte unwritten before its end.          *)
LEMMA WrittenClean ==
  ASSUME NEW m, Fit(m), NEW to \in Nat, NEW x \in Seq(Chars), to + Len(x) <= Size(m),
         NEW n \in Int, n <= Size(m),
         \A k \in 1..n : k <= to \/ k > to + Len(x) => m.at[k] \in Chars
  PROVE  /\ Fit(Write(m, to, x)) /\ Size(Write(m, to, x)) = Size(m)
         /\ Clean(Write(m, to, x), 0, n)
<1> DEFINE w == Write(m, to, x)
<1>1. /\ Fit(w) /\ Size(w) = Size(m)
      /\ \A k \in 1..Size(m) : k <= to \/ k > to + Len(x) => w.at[k] = m.at[k]
      /\ Clean(w, to, to + Len(x))
  BY Written
<1>2. Size(m) \in Nat /\ Len(x) \in Nat
  BY BlockSize DEF Fit
<1> HIDE DEF w
<1>3. ASSUME NEW k \in 0 + 1..n PROVE w.at[k] \in Chars
  <2>1. k \in 1..n /\ k \in 1..Size(m)
    BY <1>2
  <2>2. CASE k <= to \/ k > to + Len(x)
    BY <1>1, <2>1, <2>2
  <2>3. CASE ~ (k <= to \/ k > to + Len(x))
    <3>1. k \in to + 1..to + Len(x)
      BY <1>2, <2>3
    <3>2. QED
      BY <1>1, <3>1 DEF Clean
  <2>4. QED
    BY <2>2, <2>3
<1>4. Clean(w, 0, n)
  BY <1>3 DEF Clean
<1>5. QED
  BY <1>1, <1>4 DEF w

(* A string that is written and ended is sound.                            *)
LEMMA WrittenDone ==
  ASSUME NEW m, Fit(m), NEW to \in Nat, NEW x \in Seq(Chars), to + Len(x) <= Size(m),
         NEW n \in Int, n >= 0, n < Size(m),
         \A k \in 1..n : k <= to \/ k > to + Len(x) => m.at[k] \in Chars
  PROVE  Sane(Done(Write(m, to, x), n))
<1>1. Size(m) \in Nat
  BY BlockSize DEF Fit
<1>2. n <= Size(m)
  BY <1>1
<1>3. Fit(Write(m, to, x)) /\ Size(Write(m, to, x)) = Size(m) /\ Clean(Write(m, to, x), 0, n)
  BY <1>2, WrittenClean
<1>4. QED
  BY <1>3, DoneSane

\* There is a block of just n bytes to be had.
Short(memory, n) == (memory # "plenty" /\ memory # "none") \/ 2 * n > MaxInt

\* The `\0' is written behind a block that the text fills.
Over(r, memory) ==
  /\ r.rc = 0 /\ r.s \in Strings /\ r.s.m.bad = {"outside"} /\ r.s.slen = Size(r.s.m)
  /\ Clean(r.s.m, 0, r.s.slen) /\ Short(memory, Size(r.s.m))

\* balloc for n, and a number that is no int.
LEMMA Room ==
  ASSUME NEW s, Proper(s), NEW n \in Nat, n <= 2 * MaxInt + 1, NEW memory,
         s.slen < Size(s.m) \/ s.slen < n
  PROVE  LET g == balloc(s, Wrap(n), memory) IN
         /\ g.ok \in BOOLEAN /\ g.moved \in BOOLEAN /\ Fit(g.m) /\ Size(g.m) >= Size(s.m)
         /\ ~ g.moved => g.m = s.m
         /\ \A k \in 1..s.slen : g.m.at[k] = s.m.at[k]
         /\ Clean(g.m, 0, s.slen)
         /\ g.ok => n > 0 /\ n <= MaxInt /\ Size(g.m) >= n
         /\ g.ok /\ Size(g.m) = n => Short(memory, n)
         /\ g.moved => n >= Size(s.m)
         /\ Size(g.m) \in Nat /\ Size(g.m) <= MaxInt
<1> DEFINE g == balloc(s, Wrap(n), memory)
<1>0. /\ s.m \in Blocks /\ s.m.bad = {} /\ s.slen \in Nat /\ s.slen <= Size(s.m) /\ Size(s.m) \in Nat
      /\ Size(s.m) <= MaxInt /\ Fit(s.m) /\ Clean(s.m, 0, s.slen) /\ MaxInt \in Nat
  BY StringFields DEF Proper
<1>1. CASE n <= MaxInt
  <2>1. n \in Ints /\ n \in Int
    BY <1>0, <1>1 DEF Ints
  <2>2. Wrap(n) = n
    BY <2>1, Wraps
  <2>3. /\ g.ok \in BOOLEAN /\ g.moved \in BOOLEAN /\ Fit(g.m) /\ Size(g.m) >= Size(s.m)
        /\ ~ g.moved => g.m = s.m
        /\ \A k \in 1..s.slen : g.m.at[k] = s.m.at[k]
        /\ g.ok => n > 0 /\ Size(g.m) >= n
        /\ g.ok /\ Size(g.m) = n => Short(memory, n)
        /\ g.moved => n >= Size(s.m)
    BY <2>1, <2>2, ballocGives DEF Short
  <2> HIDE DEF g
  <2>4. Size(g.m) \in Nat /\ Size(g.m) <= MaxInt /\ Clean(g.m, 0, s.slen)
    BY <1>0, <2>3, BlockSize DEF Fit, Clean
  <2>5. QED
    BY <1>1, <2>3, <2>4 DEF g
<1>2. CASE n > MaxInt
  <2>1. n \in Int /\ Wrap(n) < 0 /\ Wrap(n) \in Ints
    BY <1>2, Wraps
  <2>2. Wrap(n) <= 0
    BY <2>1, SizesAreInts DEF Ints
  <2>3. g = [ok |-> FALSE, m |-> s.m, moved |-> FALSE]
    BY <2>2 DEF balloc, Unavailable
  <2>4. QED
    BY <1>0, <2>3
<1>3. QED
  BY <1>0, <1>1, <1>2

(* A block that is not replaced is as it was.                              *)
LEMMA KeptGives ==
  ASSUME NEW m
  PROVE  Kept(m).ok = TRUE /\ Kept(m).m = m /\ Kept(m).moved = FALSE
BY DEF Kept

(* bconcat, but for a text of INT_MAX characters.                          *)
LEMMA bconcatSane ==
  ASSUME NEW s, Sound(s), NEW src \in Sources(s), NEW memory
  PROVE  LET r == bconcat(s, src, memory) IN
         \/ Good(r, s)
         \/ /\ Loose(r) /\ r.rc = 0 /\ r.s.slen = MaxInt
<1> DEFINE n == Len(src.text)
           nl == Wrap(s.slen + n)
           full == Size(s.m) <= Wrap(nl + 1)
           copied == full /\ src.own
           g == IF full THEN balloc(s, Wrap(nl + 1), memory) ELSE Kept(s.m)
           r == bconcat(s, src, memory)
<1>1. /\ Proper(s) /\ Fit(s.m) /\ s.slen \in Nat /\ Size(s.m) \in Nat /\ s.slen < Size(s.m)
      /\ Size(s.m) <= MaxInt /\ MaxInt \in Nat /\ Clean(s.m, 0, s.slen) /\ s.m \in Blocks
  BY SoundFacts
<1>2. src.own \in BOOLEAN /\ src.text \in Seq(Chars) /\ n \in Nat /\ n <= MaxInt
  BY <1>1, SourceGives
<1> HIDE DEF n
<1>3. /\ s.slen + n \in Int
      /\ s.slen + n <= MaxInt => nl = s.slen + n
      /\ s.slen + n > MaxInt => nl < 0
  BY <1>1, <1>2, Wraps, SMTT(60) DEF Ints
<1>4. r = IF nl < 0 \/ (copied /\ memory = "none") \/ ~ g.ok THEN Refuse(s)
          ELSE Done(Write(g.m, s.slen, Copied(src, copied, g)), nl)
  BY DEF bconcat, n
<1>5. CASE nl < 0 \/ (copied /\ memory = "none") \/ ~ g.ok
  <2>1. r = Refuse(s)
    BY <1>4, <1>5
  <2>2. QED
    BY <2>1, Refuses
<1>6. CASE ~ (nl < 0 \/ (copied /\ memory = "none") \/ ~ g.ok)
  <2>1. r = Done(Write(g.m, s.slen, Copied(src, copied, g)), nl)
    BY <1>4, <1>6
  <2>2. nl = s.slen + n /\ nl <= MaxInt /\ nl \in Nat /\ nl \in Int
    BY <1>1, <1>2, <1>3, <1>6
  <2> HIDE DEF nl, r
  <2>3. nl + 1 \in Nat /\ nl + 1 <= 2 * MaxInt + 1 /\ s.slen < nl + 1
    BY <1>1, <1>2, <2>2
  <2>4. /\ g.ok \in BOOLEAN /\ g.moved \in BOOLEAN /\ Fit(g.m)
        /\ ~ g.moved => g.m = s.m
        /\ Clean(g.m, 0, s.slen)
        /\ full /\ g.ok => nl + 1 <= MaxInt /\ Size(g.m) >= nl + 1
        /\ ~ full => ~ g.moved /\ g.m = s.m
        /\ Size(g.m) \in Nat
    <3>1. CASE full
      <4>1. g = balloc(s, Wrap(nl + 1), memory)
        BY <3>1
      <4> HIDE DEF g
      <4>2. QED
        BY <1>1, <2>3, <3>1, <4>1, Room
    <3>2. CASE ~ full
      BY <1>1, <3>2, KeptGives
    <3>3. QED
      BY <3>1, <3>2
  <2>5. Wrap(nl + 1) \in Int /\ (nl + 1 <= MaxInt => Wrap(nl + 1) = nl + 1)
    BY <1>1, <2>2, <2>3, Wraps, SizesAreInts DEF Ints
  <2>6. copied \in BOOLEAN /\ (copied \/ ~ (src.own /\ g.moved))
    BY <1>2, <2>4
  <2>7. Copied(src, copied, g) = src.text
    <3> HIDE DEF copied, g
    <3>1. QED
      BY <1>1, <2>4, <2>6, SinceGives
  <2>8. CASE nl < MaxInt
    <3>1. nl < Size(g.m)
      <4>1. CASE full
        BY <1>6, <2>2, <2>4, <4>1
      <4>2. CASE ~ full
        BY <1>1, <2>2, <2>4, <2>5, <2>8, <4>2
      <4>3. QED
        BY <4>1, <4>2
    <3>2. s.slen + Len(src.text) <= Size(g.m)
      BY <1>1, <1>2, <2>2, <2>4, <3>1 DEF n
    <3>3. \A k \in 1..nl : k <= s.slen \/ k > s.slen + Len(src.text) => g.m.at[k] \in Chars
      BY <1>1, <1>2, <2>2, <2>4 DEF n, Clean
    <3>4. Sane(Done(Write(g.m, s.slen, src.text), nl))
      <4>1. Fit(g.m) /\ s.slen \in Nat /\ src.text \in Seq(Chars)
        BY <1>1, <1>2, <2>4
      <4>2. nl \in Int /\ nl >= 0
        BY <2>2
      <4> HIDE DEF g
      <4>3. QED
        BY <3>1, <3>2, <3>3, <4>1, <4>2, WrittenDone
    <3> HIDE DEF g, full, copied
    <3>5. QED
      BY <2>1, <2>7, <3>4 DEF Good, r
  <2>9. CASE nl = MaxInt
    <3>1. g.m \in Blocks /\ src.text \in Seq(Byte)
      BY <1>2, <2>4, TextsAreBytes DEF Fit
    <3>4. Size(g.m) <= MaxInt
      BY <2>4 DEF Fit
    <3> HIDE DEF g, full, copied
    <3> DEFINE w == Write(g.m, s.slen, src.text)
    <3>2. w \in Blocks /\ Size(w) <= MaxInt
      BY <1>1, <3>1, <3>4, WriteTyped
    <3>5. r = Done(w, nl)
      BY <2>1, <2>7
    <3> HIDE DEF w
    <3>6. Loose(Done(w, nl)) /\ Done(w, nl).rc = 0 /\ Done(w, nl).s.slen = nl
      BY <2>2, <3>2, DoneTyped DEF Loose
    <3>3. QED
      BY <2>9, <3>5, <3>6 DEF r
  <2>10. QED
    BY <1>1, <2>2, <2>8, <2>9
<1>7. QED
  BY <1>5, <1>6

(* bconchar.                                                               *)
LEMMA bconcharSane ==
  ASSUME NEW s, Sound(s), NEW c \in Chars, NEW memory
  PROVE  Good(bconchar(s, c, memory), s)
<1> DEFINE g == balloc(s, Wrap(s.slen + 2), memory)
<1>1. /\ Proper(s) /\ Fit(s.m) /\ s.slen \in Nat /\ Size(s.m) \in Nat /\ s.slen < Size(s.m)
      /\ Size(s.m) <= MaxInt /\ MaxInt \in Nat
  BY SoundFacts
<1>2. s.slen + 2 \in Nat /\ s.slen + 2 <= 2 * MaxInt + 1
  BY <1>1
<1>3. /\ g.ok \in BOOLEAN /\ Fit(g.m) /\ Clean(g.m, 0, s.slen)
      /\ g.ok => Size(g.m) >= s.slen + 2
      /\ Size(g.m) \in Nat
  BY <1>1, <1>2, Room
<1>4. bconchar(s, c, memory) = IF ~ g.ok THEN Refuse(s) ELSE Done(Write(g.m, s.slen, <<c>>), s.slen + 1)
  BY DEF bconchar
<1> HIDE DEF g
<1>5. CASE g.ok
  <2>1. <<c>> \in Seq(Chars) /\ Len(<<c>>) = 1
    OBVIOUS
  <2>2. /\ s.slen + Len(<<c>>) <= Size(g.m) /\ s.slen + 1 \in Int /\ s.slen + 1 >= 0 /\ s.slen + 1 < Size(g.m)
        /\ \A k \in 1..s.slen + 1 : k <= s.slen \/ k > s.slen + Len(<<c>>) => g.m.at[k] \in Chars
    BY <1>1, <1>3, <1>5, <2>1 DEF Clean
  <2>3. Sane(Done(Write(g.m, s.slen, <<c>>), s.slen + 1))
    BY <1>1, <1>3, <2>1, <2>2, WrittenDone
  <2>4. QED
    BY <1>4, <1>5, <2>3 DEF Good
<1>6. CASE ~ g.ok
  BY <1>4, <1>6, Refuses
<1>7. QED
  BY <1>5, <1>6

(* Bytes written inside of a block, and the `\0' behind them.               *)
LEMMA StaleDone ==
  ASSUME NEW m, Fit(m), NEW to \in Nat, NEW y \in Seq(Byte), to + Len(y) <= Size(m),
         NEW n \in Int, n >= 0, n < Size(m)
  PROVE  Stale(Done(Write(m, to, y), n))
<1> DEFINE w == Write(m, to, y)
           r == Done(w, n)
<1>1. m \in Blocks /\ m.bad = {} /\ Size(m) \in Nat /\ Size(m) <= MaxInt
  BY BlockSize DEF Fit
<1>2. w \in Blocks /\ w.bad = {} /\ Size(w) = Size(m)
  BY <1>1, WriteInside
<1> HIDE DEF w
<1>3. r.s \in Strings /\ r.rc = 0 /\ Size(r.s.m) = Size(w) /\ (r.s.m.bad = {} => Ended(r.s))
  BY <1>2, DoneTyped
<1>4. r.s.m.bad = {}
  <2>1. r.s.m = Write(w, n, <<Nul>>)
    BY DEF Done, End
  <2>2. <<Nul>> \in Seq(Byte) /\ Len(<<Nul>>) = 1
    BY CharsAreBytes
  <2>3. n >= 0 /\ n + Len(<<Nul>>) <= Size(w)
    BY <1>1, <1>2, <2>2
  <2>4. Write(w, n, <<Nul>>).bad = w.bad
    BY <1>2, <2>2, <2>3, WriteInside
  <2>5. QED
    BY <1>2, <2>1, <2>4
<1>5. QED
  BY <1>1, <1>2, <1>3, <1>4 DEF Stale, w

(* bcatblk, for a string that may be full: stale bytes only of a source in *)
(* it.                                                                     *)
LEMMA bcatblkGives ==
  ASSUME NEW s, Proper(s), NEW src, Lies(s, src), NEW memory
  PROVE  LET r == bcatblk(s, src, memory) IN r = Refuse(s) \/ Sane(r) \/ (src.own /\ Stale(r))
<1> DEFINE n == Len(src.text)
           nl == Wrap(s.slen + n)
           g == IF Size(s.m) <= nl THEN balloc(s, Wrap(nl + 1), memory) ELSE Kept(s.m)
           y == Since(src, g)
           r == bcatblk(s, src, memory)
<1>1. /\ Fit(s.m) /\ s.slen \in Nat /\ Size(s.m) \in Nat /\ s.slen <= Size(s.m)
      /\ Size(s.m) <= MaxInt /\ MaxInt \in Nat /\ Clean(s.m, 0, s.slen)
  BY StringFields DEF Proper
<1>2. n \in Nat /\ n <= MaxInt /\ src.own \in BOOLEAN
  BY DEF Lies
<1> HIDE DEF n
<1>3. /\ s.slen + n \in Int
      /\ s.slen + n <= MaxInt => nl = s.slen + n
      /\ s.slen + n > MaxInt => nl < 0
  BY <1>1, <1>2, Wraps, SMTT(60) DEF Ints
<1>4. r = IF nl < 0 \/ ~ g.ok THEN Refuse(s) ELSE Done(Write(g.m, s.slen, y), nl)
  BY DEF bcatblk, n
<1> SUFFICES r = Refuse(s) \/ Sane(r) \/ (src.own /\ Stale(r))
  OBVIOUS
<1> HIDE DEF r
<1>5. CASE nl < 0 \/ ~ g.ok
  BY <1>4, <1>5
<1>6. CASE ~ (nl < 0 \/ ~ g.ok)
  <2>2. nl = s.slen + n /\ nl <= MaxInt /\ nl \in Nat /\ nl \in Int
    BY <1>1, <1>2, <1>3, <1>6
  <2> HIDE DEF nl, y
  <2>3. nl + 1 \in Nat /\ nl + 1 <= 2 * MaxInt + 1 /\ s.slen < nl + 1
    BY <1>1, <1>2, <2>2
  <2>4. /\ Fit(g.m) /\ Clean(g.m, 0, s.slen) /\ Size(g.m) \in Nat /\ nl < Size(g.m)
        /\ g.moved \in BOOLEAN /\ (~ g.moved => g.m = s.m)
    <3>1. CASE Size(s.m) <= nl
      <4>1. g = balloc(s, Wrap(nl + 1), memory)
        BY <3>1
      <4> HIDE DEF g
      <4>2. /\ Fit(g.m) /\ Clean(g.m, 0, s.slen) /\ Size(g.m) \in Nat
            /\ Size(g.m) >= nl + 1 /\ g.moved \in BOOLEAN /\ (~ g.moved => g.m = s.m)
        BY <1>6, <2>3, <4>1, Room
      <4>3. QED
        BY <2>2, <4>2
    <3>2. CASE ~ (Size(s.m) <= nl)
      <4>1. g.m = s.m /\ g.moved = FALSE
        BY <3>2, KeptGives
      <4> HIDE DEF g
      <4>2. g.moved \in BOOLEAN /\ (~ g.moved => g.m = s.m)
        BY <4>1, Zenon
      <4>3. Fit(g.m) /\ Clean(g.m, 0, s.slen) /\ Size(g.m) \in Nat /\ nl < Size(g.m)
        BY <1>1, <2>2, <3>2, <4>1
      <4>4. QED
        BY <4>2, <4>3
    <3>3. QED
      BY <3>1, <3>2
  <2> HIDE DEF g
  <2>5. y \in Seq(Byte) /\ Len(y) = n /\ (~ (src.own /\ g.moved) => y \in Seq(Chars))
    BY <2>4, SinceLies DEF n, y
  <2>6. s.slen + Len(y) <= Size(g.m) /\ s.slen \in Nat /\ nl >= 0
    BY <1>1, <1>2, <2>2, <2>4, <2>5
  <2>7. CASE src.own /\ g.moved
    <3>1. Stale(Done(Write(g.m, s.slen, y), nl))
      BY <2>2, <2>4, <2>5, <2>6, StaleDone
    <3>2. QED
      BY <1>4, <1>6, <2>7, <3>1
  <2>8. CASE ~ (src.own /\ g.moved)
    <3>1. \A k \in 1..nl : k <= s.slen \/ k > s.slen + Len(y) => g.m.at[k] \in Chars
      BY <1>1, <1>2, <2>2, <2>4, <2>5 DEF Clean
    <3>2. y \in Seq(Chars)
      BY <2>5, <2>8
    <3>3. Sane(Done(Write(g.m, s.slen, y), nl))
      BY <2>2, <2>4, <2>6, <3>1, <3>2, WrittenDone
    <3>4. QED
      BY <1>4, <1>6, <3>3
  <2>9. QED
    BY <2>7, <2>8
<1>7. QED
  BY <1>5, <1>6

\* A string that fills its block.
LEMMA FullString ==
  ASSUME NEW m, Fit(m), Clean(m, 0, Size(m))
  PROVE  Proper([m |-> m, slen |-> Size(m)])
<1>1. m \in Blocks /\ Size(m) \in Nat /\ Size(m) \in Int
  BY BlockSize DEF Fit
<1>2. [m |-> m, slen |-> Size(m)] \in Strings
  BY <1>1, MakeString
<1>3. QED
  BY <1>1, <1>2 DEF Proper

(* A block that is filled, from the end of the text on.                    *)
LEMMA Filled ==
  ASSUME NEW s, Sound(s), NEW a \in Seq(Chars), s.slen + Len(a) = Size(s.m)
  PROVE  LET m == Write(s.m, s.slen, a) IN Fit(m) /\ Size(m) = Size(s.m) /\ Clean(m, 0, Size(m))
<1> DEFINE m == Write(s.m, s.slen, a)
<1>1. /\ Fit(s.m) /\ s.slen \in Nat /\ Size(s.m) \in Nat /\ Clean(s.m, 0, s.slen)
  BY SoundFacts
<1>2. /\ Fit(m) /\ Size(m) = Size(s.m)
      /\ \A k \in 1..Size(s.m) : k <= s.slen \/ k > s.slen + Len(a) => m.at[k] = s.m.at[k]
      /\ Clean(m, s.slen, s.slen + Len(a))
  <2>1. s.slen + Len(a) <= Size(s.m)
    BY <1>1
  <2>2. QED
    BY <1>1, <2>1, Written
<1> HIDE DEF m
<1>3. ASSUME NEW k \in 0 + 1..Size(m) PROVE m.at[k] \in Chars
  <2>1. CASE k <= s.slen
    BY <1>1, <1>2, <2>1 DEF Clean
  <2>2. CASE k > s.slen
    <3>1. k \in s.slen + 1..s.slen + Len(a)
      BY <1>1, <1>2, <2>2
    <3>2. QED
      BY <1>2, <3>1 DEF Clean
  <2>3. QED
    BY <1>1, <1>2, <2>1, <2>2
<1>4. QED
  BY <1>2, <1>3 DEF Clean, m

(* A C string that runs on fills the block with its characters.            *)
LEMMA OverrunGives ==
  ASSUME NEW s, Sound(s), NEW c \in Seq(Chars), c # <<>>
  PROVE  RanOut(Overrun(s, c))
<1> DEFINE room == Size(s.m) - s.slen
           a == [k \in 1..room |-> c[((k - 1) % Len(c)) + 1]]
           w == Write(s.m, s.slen, a)
           m == [w EXCEPT !.bad = @ \cup {"outside"}]
<1>1. /\ s.slen \in Nat /\ Size(s.m) \in Nat /\ s.slen < Size(s.m) /\ Size(s.m) <= MaxInt
  BY SoundFacts
<1>2. room \in Nat /\ s.slen + room = Size(s.m)
  BY <1>1
<1>3. Overrun(s, c) = [rc |-> 0, s |-> [m |-> m, slen |-> Size(s.m)]]
  BY DEF Overrun
<1> HIDE DEF room
<1>4. ASSUME NEW k \in 1..room PROVE c[((k - 1) % Len(c)) + 1] \in Chars
  <2>1. k - 1 \in Int /\ Len(c) \in Nat /\ Len(c) > 0
    BY <1>2
  <2> DEFINE l == Len(c)
             i == (k - 1) % l
  <2>2. l \in Nat /\ l > 0 /\ k - 1 \in Int
    BY <2>1
  <2> HIDE DEF l
  <2>3. i \in 0..l - 1
    BY <2>2, Modulo
  <2> HIDE DEF i
  <2>4. i + 1 \in 1..l
    BY <2>2, <2>3
  <2>5. QED
    BY <2>4 DEF i, l
<1>5. a \in Seq(Chars) /\ Len(a) = room
  BY <1>2, <1>4
<1> HIDE DEF a
<1>6. Fit(w) /\ Size(w) = Size(s.m) /\ Clean(w, 0, Size(w))
  BY <1>2, <1>5, Filled
<1> HIDE DEF w
<1>7. m \in Blocks /\ m.at = w.at /\ m.bad = {"outside"} /\ Size(m) = Size(s.m)
  BY <1>6, BlockSize DEF Fit, Blocks, Size
<1> HIDE DEF m
<1>8. Clean(m, 0, Size(s.m))
  BY <1>6, <1>7 DEF Clean
<1> DEFINE t == [m |-> m, slen |-> Size(s.m)]
<1>9. t \in Strings /\ t.m = m /\ t.slen = Size(s.m)
  BY <1>1, <1>7, MakeString
<1> HIDE DEF t
<1>10. Overrun(s, c).rc = 0 /\ Overrun(s, c).s = t
  BY <1>3 DEF t
<1>11. QED
  BY <1>1, <1>7, <1>8, <1>9, <1>10 DEF RanOut

(* bcatcstr gives a sound string or one that is half written, but for a C  *)
(* string in the string.                                                   *)
LEMMA bcatcstrSane ==
  ASSUME NEW s, Sound(s), NEW src \in CStrings(s), NEW memory
  PROVE  LET r == bcatcstr(s, src, memory) IN
         \/ Half(r) \/ Sane(r) \/ (src.own /\ Stale(r))
         \/ src.own /\ CString(src.text) = src.text /\ RanOut(r)
<1> DEFINE w == src.text
           c == CString(w)
           room == Size(s.m) - s.slen
           a == SubSeq(c, 1, room)
           b == SubSeq(c, room + 1, Len(c))
           m == Write(s.m, s.slen, a)
           full == [m |-> m, slen |-> Size(s.m)]
           rest == [own |-> src.own, at |-> src.at + room, text |-> b]
           ran == src.own /\ RunsOn(s, c, src.at)
           r == bcatcstr(s, src, memory)
<1>1. /\ Proper(s) /\ Fit(s.m) /\ s.slen \in Nat /\ Size(s.m) \in Nat /\ s.slen < Size(s.m)
      /\ Size(s.m) <= MaxInt /\ MaxInt \in Nat /\ Clean(s.m, 0, s.slen) /\ s.m \in Blocks
  BY SoundFacts
<1>7. Lies(s, src) /\ (src.own => src.at + Len(w) = s.slen)
  BY <1>1, CStringsLie
<1>8. /\ src.own \in BOOLEAN /\ w \in Seq(Chars) /\ Len(w) \in Nat /\ Len(w) <= MaxInt /\ src.at \in Nat
  BY <1>7 DEF Lies
<1> HIDE DEF w
<1>2. c \in Seq(Chars) /\ Len(c) \in Nat /\ Len(c) <= Len(w) /\ Len(w) \in Nat
      /\ (Len(c) >= Len(w) => c = w)
  BY <1>8, CStringGives, CStringWhole
<1>4. r = IF ran THEN Overrun(s, c)
          ELSE IF Len(c) < room THEN Done(Write(s.m, s.slen, c), s.slen + Len(c))
          ELSE bcatblk(full, rest, memory)
  BY DEF bcatcstr, w
<1>9. ran => Overrun(s, c) = r
  BY <1>4
<1> SUFFICES Half(r) \/ Sane(r) \/ (src.own /\ Stale(r)) \/ (src.own /\ c = w /\ RanOut(r))
  BY DEF w
<1> HIDE DEF c, r
<1>3. room \in Nat /\ room >= 1 /\ s.slen + room = Size(s.m)
  BY <1>1
<1>10. CASE ran
  <2>1. src.own /\ c # <<>> /\ src.at + Len(c) = s.slen
    BY <1>10 DEF RunsOn
  <2>2. RanOut(r)
    BY <1>2, <1>9, <1>10, <2>1, OverrunGives
  <2>3. c = w
    BY <1>1, <1>2, <1>7, <1>8, <2>1
  <2>4. QED
    BY <2>1, <2>2, <2>3
<1> HIDE DEF room, ran
<1>5. CASE ~ ran /\ Len(c) < room
  <2>1. /\ s.slen + Len(c) <= Size(s.m) /\ s.slen + Len(c) < Size(s.m) /\ s.slen + Len(c) \in Int
        /\ s.slen + Len(c) >= 0
        /\ \A k \in 1..s.slen + Len(c) : k <= s.slen \/ k > s.slen + Len(c) => s.m.at[k] \in Chars
    BY <1>1, <1>2, <1>3, <1>5 DEF Clean
  <2>2. Sane(Done(Write(s.m, s.slen, c), s.slen + Len(c)))
    BY <1>1, <1>2, <2>1, WrittenDone
  <2>3. QED
    BY <1>4, <1>5, <2>2
<1>6. CASE ~ ran /\ ~ (Len(c) < room)
  <2>1. room <= Len(c) /\ room \in Int /\ room + 1 \in Int /\ room + 1 >= 1 /\ Len(c) \in Int
    BY <1>2, <1>3, <1>6
  <2>2. a \in Seq(Chars) /\ Len(a) = room
    <3>1. a \in Seq(Chars) /\ Len(a) = IF 1 <= room THEN room - 1 + 1 ELSE 0
      BY <1>2, <2>1, Sub
    <3>2. (IF 1 <= room THEN room - 1 + 1 ELSE 0) = room
      BY <1>3
    <3>3. QED
      BY <3>1, <3>2
  <2>3. b \in Seq(Chars) /\ Len(b) = Len(c) - room
    <3>1. b \in Seq(Chars) /\ Len(b) = IF room + 1 <= Len(c) THEN Len(c) - (room + 1) + 1 ELSE 0
      BY <1>2, <2>1, Sub
    <3>2. (IF room + 1 <= Len(c) THEN Len(c) - (room + 1) + 1 ELSE 0) = Len(c) - room
      BY <1>2, <1>3, <2>1
    <3>3. QED
      BY <3>1, <3>2
  <2> HIDE DEF a, b
  <2>4. Fit(m) /\ Size(m) = Size(s.m) /\ Clean(m, 0, Size(m))
    BY <1>3, <2>2, Filled
  <2> HIDE DEF m
  <2>5. Proper([m |-> m, slen |-> Size(m)])
    BY <2>4, FullString
  <2>6. full = [m |-> m, slen |-> Size(m)]
    BY <2>4
  <2> HIDE DEF full
  <2>10. rest.own = src.own /\ rest.at = src.at + room /\ rest.text = b /\ full.slen = Size(s.m)
    BY <2>4, <2>6
  <2> HIDE DEF rest
  <2>11. Lies(full, rest)
    <3>1. rest.own \in BOOLEAN /\ rest.text \in Seq(Chars) /\ rest.at \in Nat /\ Len(rest.text) <= MaxInt
      BY <1>1, <1>2, <1>3, <1>8, <2>1, <2>3, <2>10
    <3>2. rest.own => rest.at + Len(rest.text) <= full.slen
      BY <1>1, <1>2, <1>3, <1>7, <1>8, <2>3, <2>10
    <3>3. QED
      BY <3>1, <3>2 DEF Lies
  <2> DEFINE e == bcatblk(full, rest, memory)
  <2>12. e = Refuse(full) \/ Sane(e) \/ (rest.own /\ Stale(e))
    BY <2>5, <2>6, <2>11, bcatblkGives
  <2>13. r = e
    BY <1>4, <1>6
  <2> HIDE DEF e
  <2>8. Half(Refuse(full))
    BY <2>5, <2>6, Refuses
  <2>9. QED
    BY <2>8, <2>10, <2>12, <2>13
<1>11. QED
  BY <1>5, <1>6, <1>10

-----------------------------------------------------------------------------
(* The `\0' goes behind the block only when that has no more than was      *)
(* asked for.                                                              *)
LEMMA DoneOr ==
  ASSUME NEW m, Fit(m), NEW n \in Int, n >= 0, n <= Size(m), Clean(m, 0, n), NEW memory,
         n = Size(m) => Short(memory, n)
  PROVE  Sane(Done(m, n)) \/ Over(Done(m, n), memory)
<1>1. m \in Blocks /\ m.bad = {} /\ Size(m) \in Nat /\ Size(m) <= MaxInt
  BY BlockSize DEF Fit
<1>2. CASE n < Size(m)
  BY <1>2, DoneSane
<1>3. CASE n = Size(m)
  <2>1. <<Nul>> # <<>> /\ Len(<<Nul>>) = 1
    OBVIOUS
  <2>2. n + Len(<<Nul>>) > Size(m)
    BY <1>1, <1>3, <2>1
  <2> DEFINE w == Write(m, n, <<Nul>>)
  <2>3. w = [m EXCEPT !.bad = @ \cup {"outside"}]
    BY <2>1, <2>2 DEF Write
  <2>4. w.at = m.at /\ w.bad = {"outside"}
    BY <1>1, <2>3, BlockSize
  <2>5. Done(m, n) = [rc |-> 0, s |-> [m |-> w, slen |-> n]]
    BY DEF Done, End
  <2>6. Done(m, n).s \in Strings /\ Done(m, n).rc = 0 /\ Done(m, n).s.slen = n
        /\ Size(Done(m, n).s.m) = Size(m)
    BY <1>1, DoneTyped
  <2>7. Clean(w, 0, n)
    BY <2>4 DEF Clean
  <2> HIDE DEF w
  <2>8. Done(m, n).s.m = w
    BY <2>5
  <2>9. QED
    BY <1>1, <1>3, <2>4, <2>6, <2>7, <2>8 DEF Over
<1>4. QED
  BY <1>1, <1>2, <1>3

(* bassign, or it writes the `\0' behind the smallest block.               *)
LEMMA bassignSane ==
  ASSUME NEW s, Sound(s), NEW src \in Sources(s), NEW memory
  PROVE  Good(bassign(s, src, memory), s) \/ Over(bassign(s, src, memory), memory)
<1> DEFINE n == Len(src.text)
           g == IF src.text = <<>> THEN Kept(s.m) ELSE balloc(s, n, memory)
<1>1. /\ Proper(s) /\ Fit(s.m) /\ s.slen \in Nat /\ Size(s.m) \in Nat /\ s.slen < Size(s.m)
      /\ Size(s.m) <= MaxInt /\ MaxInt \in Nat /\ Clean(s.m, 0, s.slen) /\ s.m \in Blocks
  BY SoundFacts
<1>2. src.own \in BOOLEAN /\ src.text \in Seq(Chars) /\ n \in Nat /\ n <= MaxInt /\ src.at \in Nat
      /\ (src.own => src.at + n <= s.slen)
  BY <1>1, SourceGives
<1>3. src.text = <<>> <=> n = 0
  BY <1>2
<1> HIDE DEF n
<1>4. bassign(s, src, memory) = IF ~ g.ok THEN Refuse(s) ELSE Done(Write(g.m, 0, Since(src, g)), n)
  BY DEF bassign, n
<1>5. /\ g.moved \in BOOLEAN /\ g.ok \in BOOLEAN /\ Fit(g.m) /\ (~ g.moved => g.m = s.m)
      /\ g.moved => n >= Size(s.m)
      /\ g.ok => Size(g.m) >= n
      /\ g.ok /\ Size(g.m) = n => Short(memory, n)
  <2>1. CASE n = 0
    <3>1. g = Kept(s.m)
      BY <1>3, <2>1
    <3>2. Size(s.m) # n
      BY <1>1, <2>1
    <3>4. g.ok = TRUE /\ g.m = s.m /\ g.moved = FALSE
      BY <3>1, KeptGives
    <3> HIDE DEF g
    <3>5. Size(g.m) >= n /\ Size(g.m) # n
      BY <1>1, <2>1, <3>2, <3>4
    <3>6. Fit(g.m)
      BY <1>1, <3>4
    <3>3. QED
      BY <3>4, <3>5, <3>6
  <2>2. CASE n # 0
    <3>1. g = balloc(s, n, memory)
      BY <1>3, <2>2
    <3>2. n \in Ints
      BY <1>1, <1>2 DEF Ints
    <3> HIDE DEF g
    <3>3. QED
      BY <1>1, <3>1, <3>2, ballocGives DEF Short
  <2>3. QED
    BY <2>1, <2>2
<1> HIDE DEF g
<1>6. ~ (src.own /\ g.moved)
  BY <1>1, <1>2, <1>5
<1>7. Since(src, g) = src.text
  BY <1>1, <1>5, <1>6, SinceGives
<1>8. CASE g.ok
  <2> DEFINE w == Write(g.m, 0, src.text)
  <2>1. 0 + Len(src.text) <= Size(g.m) /\ n \in Int /\ n <= Size(g.m)
        /\ \A k \in 1..n : k <= 0 \/ k > 0 + Len(src.text) => g.m.at[k] \in Chars
    BY <1>2, <1>5, <1>8 DEF n
  <2>2. Fit(w) /\ Size(w) = Size(g.m) /\ Clean(w, 0, n)
    BY <1>2, <1>5, <2>1, WrittenClean
  <2> HIDE DEF w
  <2>3. Sane(Done(w, n)) \/ Over(Done(w, n), memory)
    BY <1>2, <1>5, <1>8, <2>1, <2>2, DoneOr
  <2>4. QED
    BY <1>4, <1>7, <1>8, <2>3 DEF Good, w
<1>9. CASE ~ g.ok
  BY <1>4, <1>9, Refuses
<1>10. QED
  BY <1>8, <1>9

(* bassignmidstr, likewise.                                                *)
LEMMA bassignmidstrSane ==
  ASSUME NEW s, Sound(s), NEW src \in Sources(s), NEW memory, NEW left \in Ints, NEW len \in Ints
  PROVE  \/ Good(bassignmidstr(s, src, left, len, memory), s)
         \/ Over(bassignmidstr(s, src, left, len, memory), memory)
<1> DEFINE n == Len(src.text)
           c == Clamped(n, left, len)
           l == AtLeast(c.len, 0)
           g == IF c.len <= 0 THEN Kept(s.m) ELSE balloc(s, c.len, memory)
           x == SubSeq(src.text, c.left + 1, c.left + c.len)
<1>1. /\ Proper(s) /\ Fit(s.m) /\ s.slen \in Nat /\ Size(s.m) \in Nat /\ s.slen < Size(s.m)
      /\ Size(s.m) <= MaxInt /\ MaxInt \in Nat /\ Clean(s.m, 0, s.slen) /\ s.m \in Blocks
  BY SoundFacts
<1>2. src.own \in BOOLEAN /\ src.text \in Seq(Chars) /\ n \in Nat /\ n <= MaxInt /\ src.at \in Nat
      /\ (src.own => src.at + n <= s.slen)
  BY <1>1, SourceGives
<1>3. c.left \in Nat /\ c.len \in Int /\ c.left + c.len <= n
  BY <1>2, ClampedGives
<1>4. bassignmidstr(s, src, left, len, memory)
        = IF ~ g.ok THEN Refuse(s)
          ELSE Done(Write(g.m, 0, SubSeq(Since(src, g), c.left + 1, c.left + c.len)), l)
  BY DEF bassignmidstr
<1>11. l \in Nat /\ l <= n /\ (c.len <= 0 => l = 0) /\ (~ (c.len <= 0) => l = c.len)
  BY <1>2, <1>3 DEF AtLeast
<1> HIDE DEF c, l
<1>5. /\ g.moved \in BOOLEAN /\ g.ok \in BOOLEAN /\ Fit(g.m) /\ (~ g.moved => g.m = s.m)
      /\ g.moved => l >= Size(s.m)
      /\ g.ok => Size(g.m) >= l
      /\ g.ok /\ Size(g.m) = l => Short(memory, l)
  <2>1. CASE c.len <= 0
    <3>1. g = Kept(s.m)
      BY <2>1
    <3>2. Size(s.m) # l /\ Size(s.m) >= l
      BY <1>1, <1>11, <2>1
    <3>3. QED
      BY <1>1, <3>1, <3>2, KeptGives
  <2>2. CASE ~ (c.len <= 0)
    <3>1. g = balloc(s, l, memory)
      BY <1>11, <2>2
    <3>2. l \in Ints
      BY <1>1, <1>2, <1>11 DEF Ints
    <3> HIDE DEF g
    <3>3. QED
      BY <1>1, <3>1, <3>2, ballocGives DEF Short
  <2>3. QED
    BY <2>1, <2>2
<1> HIDE DEF g
<1>6. ~ (src.own /\ g.moved)
  BY <1>1, <1>2, <1>5, <1>11
<1>7. Since(src, g) = src.text
  BY <1>1, <1>5, <1>6, SinceGives
<1>12. x \in Seq(Chars) /\ Len(x) = l
  <2>1. c.left + 1 \in Int /\ c.left + 1 >= 1 /\ c.left + c.len \in Int /\ c.left + c.len <= Len(src.text)
    BY <1>3
  <2> DEFINE a == c.left + 1
             b == c.left + c.len
  <2>3. (IF a <= b THEN b - a + 1 ELSE 0) = l
    BY <1>3, <1>11
  <2>5. a \in Int /\ a >= 1 /\ b \in Int /\ b <= Len(src.text) /\ src.text \in Seq(Chars)
    BY <1>2, <2>1
  <2> HIDE DEF a, b
  <2>2. SubSeq(src.text, a, b) \in Seq(Chars) /\ Len(SubSeq(src.text, a, b)) = IF a <= b THEN b - a + 1 ELSE 0
    BY <2>5, Sub
  <2>4. QED
    BY <2>2, <2>3 DEF a, b
<1>13. bassignmidstr(s, src, left, len, memory) = IF ~ g.ok THEN Refuse(s) ELSE Done(Write(g.m, 0, x), l)
  BY <1>4, <1>7
<1> HIDE DEF x, n
<1>8. CASE g.ok
  <2> DEFINE w == Write(g.m, 0, x)
  <2>1. 0 + Len(x) <= Size(g.m) /\ l \in Int /\ l <= Size(g.m)
        /\ \A k \in 1..l : k <= 0 \/ k > 0 + Len(x) => g.m.at[k] \in Chars
    BY <1>5, <1>8, <1>11, <1>12
  <2>2. Fit(w) /\ Size(w) = Size(g.m) /\ Clean(w, 0, l)
    BY <1>5, <1>12, <2>1, WrittenClean
  <2> HIDE DEF w
  <2>3. Sane(Done(w, l)) \/ Over(Done(w, l), memory)
    BY <1>5, <1>8, <1>11, <2>1, <2>2, DoneOr
  <2>4. QED
    BY <1>8, <1>13, <2>3 DEF Good, w
<1>9. CASE ~ g.ok
  BY <1>13, <1>9, Refuses
<1>10. QED
  BY <1>8, <1>9

(* bassigncstr gives a sound string or one that is half written.           *)
LEMMA bassigncstrSane ==
  ASSUME NEW s, Sound(s), NEW src \in CStrings(s), NEW memory
  PROVE  LET r == bassigncstr(s, src, memory) IN Half(r) \/ Sane(r)
<1> DEFINE w == src.text
           c == CString(w)
           n == Size(s.m)
           a == SubSeq(c, 1, n)
           b == SubSeq(c, n + 1, Len(c))
           m == Write(s.m, 0, a)
           full == [m |-> m, slen |-> n]
           g == balloc(full, Wrap(Len(c) + 1), memory)
           rest == [own |-> src.own, at |-> src.at + n, text |-> b]
           r == bassigncstr(s, src, memory)
<1>1. /\ Fit(s.m) /\ n \in Nat /\ n >= 1 /\ n <= MaxInt /\ MaxInt \in Nat /\ s.m \in Blocks
      /\ Proper(s) /\ s.slen \in Nat /\ s.slen < n
  BY SoundFacts
<1>3. /\ w \in Seq(Chars) /\ Len(w) \in Nat
      /\ ~ src.own => Len(w) < MaxInt
      /\ src.own => Len(w) <= s.slen
  <2>1. /\ Lies(s, src)
        /\ ~ src.own => Len(src.text) < MaxInt
        /\ src.own => src.at + Len(src.text) = s.slen
    BY <1>1, CStringsLie
  <2>2. src.at \in Nat /\ w \in Seq(Chars) /\ Len(w) \in Nat
    BY <2>1 DEF Lies
  <2>3. QED
    BY <1>1, <2>1, <2>2
<1> HIDE DEF w
<1>2. c \in Seq(Chars) /\ Len(c) \in Nat /\ Len(c) <= Len(w) /\ Len(w) \in Nat /\ Len(c) < MaxInt
  <2>1. c \in Seq(Chars) /\ Len(c) \in Nat /\ Len(c) <= Len(w)
    BY <1>3, CStringGives
  <2> HIDE DEF c
  <2>2. QED
    BY <1>1, <1>3, <2>1
<1>4. r = IF Len(c) < n THEN Done(Write(s.m, 0, c), Len(c))
          ELSE IF ~ g.ok THEN Refuse(full)
          ELSE Done(Write(g.m, n, Since(rest, g)), Len(c))
  BY DEF bassigncstr, w
<1>8. ~ (Len(c) < n) => ~ src.own
  <2> HIDE DEF c
  <2>1. QED
    BY <1>1, <1>2, <1>3
<1> SUFFICES Half(r) \/ Sane(r)
  OBVIOUS
<1> HIDE DEF c, r
<1>5. CASE Len(c) < n
  <2>1. /\ 0 + Len(c) <= Size(s.m) /\ Len(c) < Size(s.m) /\ Len(c) \in Int /\ Len(c) >= 0
        /\ \A k \in 1..Len(c) : k <= 0 \/ k > 0 + Len(c) => s.m.at[k] \in Chars
    BY <1>1, <1>2, <1>5
  <2>2. Sane(Done(Write(s.m, 0, c), Len(c)))
    BY <1>1, <1>2, <2>1, WrittenDone
  <2>3. QED
    BY <1>4, <1>5, <2>2
<1>6. CASE ~ (Len(c) < n)
  <2>13. Since(rest, g) = b
    <3>1. ~ rest.own /\ rest.text = b
      BY <1>6, <1>8
    <3> HIDE DEF rest
    <3>2. QED
      BY <3>1 DEF Since, Now
  <2>1. n <= Len(c) /\ n \in Int /\ n + 1 \in Int /\ n + 1 >= 1 /\ Len(c) \in Int
    BY <1>1, <1>2, <1>6
  <2>2. a \in Seq(Chars) /\ Len(a) = n
    <3>1. a \in Seq(Chars) /\ Len(a) = IF 1 <= n THEN n - 1 + 1 ELSE 0
      BY <1>2, <2>1, Sub
    <3>2. (IF 1 <= n THEN n - 1 + 1 ELSE 0) = n
      BY <1>1
    <3>3. QED
      BY <3>1, <3>2
  <2>3. b \in Seq(Chars) /\ n + Len(b) = Len(c)
    <3>1. b \in Seq(Chars) /\ Len(b) = IF n + 1 <= Len(c) THEN Len(c) - (n + 1) + 1 ELSE 0
      BY <1>2, <2>1, Sub
    <3>2. n + (IF n + 1 <= Len(c) THEN Len(c) - (n + 1) + 1 ELSE 0) = Len(c)
      BY <1>1, <1>2, <2>1
    <3>3. QED
      BY <3>1, <3>2
  <2>4. Fit(m) /\ Size(m) = Size(s.m) /\ Clean(m, 0, n)
    <3>1. 0 + Len(a) <= Size(s.m) /\ n <= Size(s.m)
          /\ \A k \in 1..n : k <= 0 \/ k > 0 + Len(a) => s.m.at[k] \in Chars
      BY <1>1, <2>2
    <3> HIDE DEF a, n
    <3>2. QED
      BY <1>1, <2>1, <2>2, <3>1, WrittenClean
  <2>7. Size(m) = n
    BY <2>4
  <2> HIDE DEF a, b, n, m, rest
  <2>5. Proper(full)
    BY <2>4, <2>7, FullString
  <2>6. full.slen = n /\ full.m = m
    OBVIOUS
  <2> HIDE DEF full
  <2>8. Len(c) + 1 \in Nat /\ Len(c) + 1 <= 2 * MaxInt + 1 /\ full.slen < Len(c) + 1
    BY <1>1, <1>2, <2>1, <2>6
  <2>9. /\ g.ok \in BOOLEAN /\ Fit(g.m) /\ Clean(g.m, 0, full.slen) /\ Size(g.m) \in Nat
        /\ g.ok => Size(g.m) >= Len(c) + 1
    BY <2>5, <2>8, Room
  <2> HIDE DEF g
  <2>10. Half(Refuse(full))
    BY <2>5, Refuses
  <2>11. CASE g.ok
    <3>1. /\ n + Len(b) <= Size(g.m) /\ Len(c) >= 0 /\ Len(c) < Size(g.m) /\ n \in Nat
          /\ \A k \in 1..Len(c) : k <= n \/ k > n + Len(b) => g.m.at[k] \in Chars
      BY <1>1, <1>2, <2>1, <2>3, <2>6, <2>9, <2>11 DEF Clean
    <3>2. Sane(Done(Write(g.m, n, b), Len(c)))
      BY <2>1, <2>3, <2>9, <3>1, WrittenDone
    <3>3. QED
      BY <1>4, <1>6, <2>11, <2>13, <3>2
  <2>12. QED
    BY <1>4, <1>6, <2>9, <2>10, <2>11
<1>7. QED
  BY <1>5, <1>6

(* bassignblk.                                                             *)
LEMMA bassignblkSane ==
  ASSUME NEW s, Sound(s), NEW src \in Sources(s), NEW memory
  PROVE  Good(bassignblk(s, src, memory), s)
<1>1. /\ Proper(s) /\ Fit(s.m) /\ s.slen \in Nat /\ Size(s.m) \in Nat /\ s.slen < Size(s.m)
      /\ Size(s.m) <= MaxInt /\ MaxInt \in Nat
  BY SoundFacts
<1>9. src.own \in BOOLEAN /\ src.text \in Seq(Chars) /\ Len(src.text) \in Nat
      /\ (~ src.own => Len(src.text) < MaxInt) /\ (src.own => Len(src.text) < Size(s.m))
  <2>1. /\ src.own \in BOOLEAN /\ src.text \in Seq(Chars) /\ Len(src.text) \in Nat /\ src.at \in Nat
        /\ src.own => src.at + Len(src.text) <= s.slen
    BY <1>1, SourceGives
  <2>2. ASSUME ~ src.own PROVE Len(src.text) < MaxInt
    <3>1. src \in Others
      BY <2>2 DEF Sources, Parts
    <3>2. QED
      BY <3>1, LengthsAreInts DEF Others
  <2>3. QED
    BY <1>1, <2>1, <2>2
<1> DEFINE n == Len(src.text)
           g == IF n + 1 > Size(s.m) THEN balloc(s, n + 1, memory) ELSE Kept(s.m)
           x == Since(src, g)
<1>2. n \in Nat /\ n < MaxInt
  BY <1>1, <1>9
<1> HIDE DEF n
<1>3. n + 1 \in Ints /\ n + 1 \in Int
  BY <1>1, <1>2 DEF Ints
<1>4. bassignblk(s, src, memory) = IF Wrap(n + 1) < 1 \/ ~ g.ok THEN Refuse(s) ELSE Done(Write(g.m, 0, x), n)
  BY DEF bassignblk, n
<1> HIDE DEF x
<1>5. /\ g.ok \in BOOLEAN /\ Fit(g.m) /\ Size(g.m) \in Nat /\ (g.ok => Size(g.m) > n)
      /\ g.moved \in BOOLEAN /\ (~ g.moved => g.m = s.m) /\ ~ (src.own /\ g.moved)
  <2>1. CASE n + 1 > Size(s.m)
    <3>1. g = balloc(s, n + 1, memory)
      BY <2>1
    <3>5. ~ src.own
      BY <1>1, <1>2, <1>9, <2>1 DEF n
    <3> HIDE DEF g
    <3>2. /\ g.ok \in BOOLEAN /\ Fit(g.m) /\ (g.ok => Size(g.m) >= n + 1)
          /\ g.moved \in BOOLEAN /\ (~ g.moved => g.m = s.m)
      BY <1>1, <1>3, <3>1, ballocGives
    <3>3. Size(g.m) \in Nat
      BY <3>2, BlockSize DEF Fit
    <3>4. QED
      BY <1>2, <3>2, <3>3, <3>5
  <2>2. CASE ~ (n + 1 > Size(s.m))
    <3>1. g.ok = TRUE /\ g.m = s.m /\ g.moved = FALSE
      BY <2>2, KeptGives
    <3> HIDE DEF g
    <3>2. Size(g.m) \in Nat /\ Size(g.m) > n /\ Fit(g.m)
      BY <1>1, <1>2, <2>2, <3>1
    <3>3. QED
      BY <3>1, <3>2
  <2>3. QED
    BY <2>1, <2>2
<1> HIDE DEF g
<1>10. x \in Seq(Chars) /\ Len(x) = n
  <2>1. x = src.text
    BY <1>1, <1>5, SinceGives DEF x
  <2>2. QED
    BY <1>9, <2>1 DEF n
<1>6. CASE g.ok /\ ~ (Wrap(n + 1) < 1)
  <2>1. /\ 0 + Len(x) <= Size(g.m) /\ n < Size(g.m) /\ n \in Int /\ n >= 0
        /\ \A k \in 1..n : k <= 0 \/ k > 0 + Len(x) => g.m.at[k] \in Chars
    BY <1>2, <1>5, <1>6, <1>10
  <2>2. Sane(Done(Write(g.m, 0, x), n))
    BY <1>5, <1>10, <2>1, WrittenDone
  <2>3. QED
    BY <1>4, <1>6, <2>2 DEF Good
<1>7. CASE ~ (g.ok /\ ~ (Wrap(n + 1) < 1))
  BY <1>4, <1>7, Refuses
<1>8. QED
  BY <1>6, <1>7
-----------------------------------------------------------------------------
(* btrunc.                                                                 *)
LEMMA btruncSane ==
  ASSUME NEW s, Sound(s), NEW n \in Ints
  PROVE  Good(btrunc(s, n), s)
<1>1. /\ Fit(s.m) /\ s.slen \in Nat /\ Size(s.m) \in Nat /\ s.slen < Size(s.m) /\ Clean(s.m, 0, s.slen)
  BY SoundFacts
<1>2. n \in Int
  BY SizesAreInts DEF Ints
<1>3. CASE n < 0
  <2>1. btrunc(s, n) = Refuse(s)
    BY <1>3 DEF btrunc
  <2>2. QED
    BY <2>1, Refuses
<1>4. CASE ~ (n < 0) /\ s.slen > n
  <2>1. btrunc(s, n) = Done(s.m, n)
    BY <1>4 DEF btrunc
  <2>2. n >= 0 /\ n < Size(s.m) /\ Clean(s.m, 0, n)
    BY <1>1, <1>2, <1>4 DEF Clean
  <2>3. QED
    BY <1>1, <1>2, <2>1, <2>2, DoneSane DEF Good
<1>5. CASE ~ (n < 0) /\ ~ (s.slen > n)
  BY <1>5 DEF btrunc, Good, Sane
<1>6. QED
  BY <1>3, <1>4, <1>5

(* A text of the same length in the place of the text.                     *)
LEMMA OverwrittenSane ==
  ASSUME NEW s, Sound(s), NEW x \in Seq(Chars), Len(x) = s.slen
  PROVE  Good(Overwritten(s, x), s)
<1>1. /\ Fit(s.m) /\ s.slen \in Nat /\ Size(s.m) \in Nat /\ s.slen < Size(s.m) /\ Clean(s.m, 0, s.slen)
      /\ s.m.at[s.slen + 1] = Nul /\ s = [m |-> s.m, slen |-> s.slen]
  BY SoundFacts
<1> DEFINE w == Write(s.m, 0, x)
<1>2. 0 + Len(x) <= Size(s.m)
  BY <1>1
<1>3. /\ Fit(w) /\ Size(w) = Size(s.m)
      /\ \A k \in 1..Size(s.m) : k <= 0 \/ k > 0 + Len(x) => w.at[k] = s.m.at[k]
      /\ Clean(w, 0, 0 + Len(x))
  BY <1>1, <1>2, Written
<1>4. Overwritten(s, x) = [rc |-> 0, s |-> [m |-> w, slen |-> s.slen]]
  BY <1>1 DEF Overwritten
<1> HIDE DEF w
<1>5. Clean(w, 0, s.slen) /\ w.at[s.slen + 1] = Nul
  BY <1>1, <1>3
<1>6. [m |-> w, slen |-> s.slen] \in Strings
  BY <1>1, <1>3, MakeString DEF Fit
<1>7. Sound([m |-> w, slen |-> s.slen])
  BY <1>1, <1>3, <1>5, <1>6 DEF Sound, Proper, Ended
<1>8. QED
  BY <1>4, <1>7 DEF Good, Sane

(* btoupper and btolower.                                                  *)
LEMMA FoldSane ==
  ASSUME NEW s, Sound(s)
  PROVE  Good(btoupper(s), s) /\ Good(btolower(s), s)
<1>1. s.slen \in Nat /\ Text(s) \in Seq(Chars) /\ Len(Text(s)) = s.slen
  BY SoundFacts, TextGives
<1>2. \A c \in Chars : Upper(c) \in Chars /\ Lower(c) \in Chars
  BY DEF Chars, Upper, Lower
<1>3. /\ [k \in 1..s.slen |-> Upper(Text(s)[k])] \in Seq(Chars)
      /\ Len([k \in 1..s.slen |-> Upper(Text(s)[k])]) = s.slen
      /\ [k \in 1..s.slen |-> Lower(Text(s)[k])] \in Seq(Chars)
      /\ Len([k \in 1..s.slen |-> Lower(Text(s)[k])]) = s.slen
  BY <1>1, <1>2
<1>4. QED
  BY <1>3, OverwrittenSane DEF btoupper, btolower

(* The part of a section that lies before the text is cut off.             *)
LEMMA FromStartGives ==
  ASSUME NEW left \in Ints, NEW len \in Ints
  PROVE  LET f == FromStart(left, len) IN
         /\ f.left \in Nat /\ f.left <= MaxInt /\ f.len \in Ints
         /\ left + len <= MaxInt => f.len < 0 \/ f.left + f.len <= MaxInt
         /\ left >= 0 => f = [left |-> left, len |-> len]
<1>1. left \in Int /\ len \in Int /\ len + left \in Int /\ left <= MaxInt /\ len <= MaxInt /\ MaxInt \in Nat
  BY SizesAreInts DEF Ints
<1>2. Wrap(len + left) \in Ints
  BY <1>1, Wraps
<1>3. Wrap(len + left) \in Int /\ Wrap(len + left) <= MaxInt
  BY <1>1, <1>2 DEF Ints
<1>4. CASE left < 0
  <2>1. FromStart(left, len) = [left |-> 0, len |-> Wrap(len + left)]
    BY <1>4 DEF FromStart
  <2>2. QED
    BY <1>1, <1>2, <1>3, <1>4, <2>1
<1>5. CASE ~ (left < 0)
  <2>1. FromStart(left, len) = [left |-> left, len |-> len]
    BY <1>5 DEF FromStart
  <2>2. QED
    BY <1>1, <1>5, <2>1
<1>6. QED
  BY <1>4, <1>5

\* Positions and lengths that an int can add.
LEMMA bdeleteSane ==
  ASSUME NEW s, Sound(s), NEW pos \in Ints, NEW len \in Ints, pos + len <= MaxInt
  PROVE  /\ Good(bdelete(s, pos, len), s)
         /\ pos >= 0 /\ len >= 0 => Sane(bdelete(s, pos, len))
<1> DEFINE f == FromStart(pos, len)
           from == Wrap(f.left + f.len)
           n == Wrap(s.slen - from)
           r == bdelete(s, pos, len)
<1>1. /\ Fit(s.m) /\ s.slen \in Nat /\ Size(s.m) \in Nat /\ s.slen < Size(s.m) /\ Clean(s.m, 0, s.slen)
      /\ Size(s.m) <= MaxInt /\ MaxInt \in Nat
  BY SoundFacts
<1>2. /\ f.left \in Nat /\ f.left <= MaxInt /\ f.len \in Int /\ f.len <= MaxInt
      /\ f.len < 0 \/ f.left + f.len <= MaxInt
      /\ pos >= 0 /\ len >= 0 => ~ (f.len < 0)
  <2>1. /\ f.left \in Nat /\ f.left <= MaxInt /\ f.len \in Ints
        /\ f.len < 0 \/ f.left + f.len <= MaxInt
        /\ pos >= 0 => f = [left |-> pos, len |-> len]
    BY FromStartGives
  <2> HIDE DEF f
  <2>2. pos >= 0 => f.len = len
    BY <2>1
  <2>3. len \in Int
    BY <1>1 DEF Ints
  <2>4. QED
    BY <1>1, <2>1, <2>2, <2>3 DEF Ints
<1>3. r = IF f.len < 0 THEN Refuse(s)
          ELSE IF f.len = 0 \/ f.left >= s.slen THEN [rc |-> 0, s |-> s]
          ELSE IF from >= s.slen THEN Done(s.m, f.left)
          ELSE Done(Move(s.m, f.left, from, n), s.slen - f.len)
  BY DEF bdelete
<1> HIDE DEF r
<1>4. CASE f.len < 0
  BY <1>2, <1>3, <1>4, Refuses DEF r
<1>5. CASE ~ (f.len < 0) /\ (f.len = 0 \/ f.left >= s.slen)
  BY <1>3, <1>5 DEF Good, Sane, r
<1>6. CASE ~ (f.len < 0) /\ ~ (f.len = 0 \/ f.left >= s.slen)
  <2> DEFINE a == f.left
             l == f.len
  <2>1. a \in Nat /\ l \in Nat /\ l >= 1 /\ a + l <= MaxInt /\ a < s.slen
    BY <1>1, <1>2, <1>6
  <2>2. from = a + l
    <3> HIDE DEF f
    <3>1. a + l \in Ints /\ a + l \in Int
      BY <1>1, <2>1 DEF Ints
    <3>2. QED
      BY <3>1, Wraps
  <2>3. r = IF from >= s.slen THEN Done(s.m, a) ELSE Done(Move(s.m, a, from, n), s.slen - l)
    BY <1>3, <1>6
  <2> HIDE DEF a, l, f, from
  <2>4. CASE from >= s.slen
    <3>1. a \in Int /\ a >= 0 /\ a < Size(s.m) /\ Clean(s.m, 0, a)
      BY <1>1, <2>1 DEF Clean
    <3>2. QED
      BY <1>1, <2>3, <2>4, <3>1, DoneSane DEF Good, r
  <2>5. CASE ~ (from >= s.slen)
    <3>1. from \in Nat /\ s.slen - from \in Ints /\ s.slen - from \in Int /\ s.slen - from \in Nat
      BY <1>1, <2>1, <2>2, <2>5 DEF Ints
    <3>2. n = s.slen - from
      BY <3>1, Wraps
    <3> DEFINE w == Move(s.m, a, from, n)
    <3>3. n \in Nat /\ from + n <= Size(s.m) /\ a + n <= Size(s.m)
      BY <1>1, <2>1, <2>2, <3>1, <3>2
    <3> HIDE DEF n
    <3>4. /\ Fit(w) /\ Size(w) = Size(s.m)
          /\ \A k \in 1..Size(s.m) : k <= a \/ k > a + n => w.at[k] = s.m.at[k]
          /\ \A k \in a + 1..a + n : w.at[k] = s.m.at[k - a + from]
      <4>1. Fit(s.m) /\ a \in Nat /\ from \in Nat
        BY <1>1, <2>1, <3>1
      <4>2. QED
        BY <3>3, <4>1, Moved
    <3> HIDE DEF w
    <3>5. s.slen - l = a + n /\ s.slen - l \in Int /\ s.slen - l >= 0 /\ s.slen - l < Size(w)
      BY <1>1, <2>1, <2>2, <3>1, <3>2, <3>3, <3>4
    <3>6. ASSUME NEW k \in 0 + 1..s.slen - l PROVE w.at[k] \in Chars
      <4>1. CASE k <= a
        <5>1. k \in 1..Size(s.m) /\ k \in 0 + 1..s.slen
          BY <1>1, <2>1, <4>1
        <5>2. QED
          BY <1>1, <3>4, <4>1, <5>1 DEF Clean
      <4>2. CASE k > a
        <5>1. k \in a + 1..a + n /\ k - a + from \in 0 + 1..s.slen
          BY <1>1, <2>1, <2>2, <3>1, <3>2, <3>5, <4>2
        <5>2. QED
          BY <1>1, <3>4, <5>1 DEF Clean
      <4>3. QED
        BY <2>1, <4>1, <4>2
    <3>7. Clean(w, 0, s.slen - l)
      BY <3>6 DEF Clean
    <3>8. Sane(Done(w, s.slen - l))
      BY <3>4, <3>5, <3>7, DoneSane
    <3>9. QED
      BY <2>3, <2>5, <3>8 DEF Good, r, w
  <2>6. QED
    BY <2>4, <2>5
<1>7. QED
  BY <1>4, <1>5, <1>6

(* bdelete, where pos + len is no int.                                     *)
LEMMA bdeleteLoose ==
  ASSUME NEW s, Sound(s), NEW pos \in Ints, NEW len \in Ints, pos + len > MaxInt
  PROVE  Loose(bdelete(s, pos, len)) /\ bdelete(s, pos, len).rc = 0
<1>1. /\ Fit(s.m) /\ s.slen \in Nat /\ Size(s.m) \in Nat /\ s.slen < Size(s.m) /\ s.m \in Blocks
      /\ Size(s.m) <= MaxInt /\ MaxInt \in Nat /\ s.slen < MaxInt
  BY SoundFacts
<1>2. pos \in Nat /\ len \in Nat /\ pos + len \in Int
  BY <1>1 DEF Ints
<1>3. FromStart(pos, len) = [left |-> pos, len |-> len]
  BY <1>2 DEF FromStart
<1> DEFINE from == Wrap(pos + len)
           n == Wrap(s.slen - from)
           w == Move(s.m, pos, from, n)
<1>4. from \in Int /\ n \in Int
  <2>1. from \in Int
    BY <1>1, <1>2, Wraps DEF Ints
  <2> HIDE DEF from
  <2>2. s.slen - from \in Int
    BY <1>1, <2>1
  <2>3. QED
    BY <1>1, <2>1, <2>2, Wraps DEF Ints
<1>5. bdelete(s, pos, len)
        = IF len < 0 THEN Refuse(s)
          ELSE IF len = 0 \/ pos >= s.slen THEN [rc |-> 0, s |-> s]
          ELSE IF from >= s.slen THEN Done(s.m, pos)
          ELSE Done(w, s.slen - len)
  BY <1>3 DEF bdelete
<1>6. w \in Blocks /\ Size(w) = Size(s.m)
  <2> HIDE DEF from, n
  <2>1. QED
    BY <1>1, <1>2, <1>4, MoveTyped
<1> HIDE DEF w, from
<1>7. CASE len = 0 \/ pos >= s.slen
  <2>1. bdelete(s, pos, len) = [rc |-> 0, s |-> s]
    BY <1>2, <1>5, <1>7
  <2>2. QED
    BY <1>1, <2>1 DEF Loose, Sound, Proper
<1>8. CASE ~ (len = 0 \/ pos >= s.slen)
  <2>1. \/ bdelete(s, pos, len) = Done(s.m, pos)
        \/ bdelete(s, pos, len) = Done(w, s.slen - len)
    BY <1>2, <1>5, <1>8
  <2>2. pos \in Int /\ s.slen - len \in Int
    BY <1>1, <1>2
  <2>3. Loose(Done(s.m, pos)) /\ Done(s.m, pos).rc = 0
    BY <1>1, <2>2, DoneTyped DEF Loose
  <2>4. Loose(Done(w, s.slen - len)) /\ Done(w, s.slen - len).rc = 0
    BY <1>1, <1>6, <2>2, DoneTyped DEF Loose
  <2>5. QED
    BY <2>1, <2>3, <2>4
<1>9. QED
  BY <1>7, <1>8

(* The first and the last character that are no space.                     *)
LEMMA InkGives ==
  ASSUME NEW s, Sound(s)
  PROVE  /\ FirstInk(s) = ERR \/ FirstInk(s) \in 0..s.slen - 1
         /\ LastInk(s) = ERR \/ LastInk(s) \in 0..s.slen - 1
         /\ FirstInk(s) = ERR <=> LastInk(s) = ERR
         /\ FirstInk(s) <= LastInk(s)
<1> DEFINE I == {i \in 0..(s.slen - 1) : Text(s)[i + 1] # Space}
<1>1. s.slen \in Nat
  BY SoundFacts
<1>2. FirstInk(s) = Least(I) /\ LastInk(s) = Greatest(I)
  BY DEF FirstInk, LastInk
<1>3. I \in SUBSET (0..s.slen) /\ I \in SUBSET Nat /\ I \in SUBSET (0..s.slen - 1)
  BY <1>1
<1> HIDE DEF I
<1>4. CASE I = {}
  <2>1. FirstInk(s) = ERR /\ LastInk(s) = ERR
    BY <1>2, <1>4 DEF Least, Greatest
  <2>2. QED
    BY <2>1 DEF ERR
<1>5. CASE I # {}
  <2>1. Least(I) \in I /\ \A j \in I : Least(I) <= j
    BY <1>3, <1>5, LeastMember
  <2>2. Greatest(I) \in I
    BY <1>1, <1>3, <1>5, GreatestMember
  <2>4. FirstInk(s) \in 0..s.slen - 1 /\ LastInk(s) \in 0..s.slen - 1 /\ FirstInk(s) <= LastInk(s)
    BY <1>2, <1>3, <2>1, <2>2
  <2>3. QED
    BY <1>1, <2>4 DEF ERR
<1>6. QED
  BY <1>4, <1>5

(* bltrimws, brtrimws and btrimws.                                         *)
LEMMA TrimsSane ==
  ASSUME NEW s, Sound(s)
  PROVE  Good(bltrimws(s), s) /\ Good(brtrimws(s), s) /\ Good(btrimws(s), s)
<1>1. /\ Fit(s.m) /\ s.slen \in Nat /\ Size(s.m) \in Nat /\ s.slen < Size(s.m) /\ Clean(s.m, 0, s.slen)
      /\ Size(s.m) <= MaxInt /\ MaxInt \in Nat
  BY SoundFacts
<1> DEFINE f == FirstInk(s)
           n == LastInk(s) + 1
<1>2. (f = ERR \/ f \in 0..s.slen - 1) /\ n \in 0..s.slen
  BY <1>1, InkGives DEF ERR
<1>3. \A k \in 0..s.slen : Sane(Done(s.m, k)) /\ Done(s.m, k).s.slen = k
  <2> TAKE k \in 0..s.slen
  <2>1. k \in Int /\ k >= 0 /\ k < Size(s.m) /\ Clean(s.m, 0, k)
    BY <1>1 DEF Clean
  <2>2. QED
    BY <1>1, <2>1, DoneSane
<1>4. Sane(Done(s.m, 0)) /\ Sane(Done(s.m, n))
  BY <1>1, <1>2, <1>3
<1>5. Sound(Done(s.m, n).s)
  BY <1>4 DEF Sane
<1>6. ASSUME f # ERR, NEW t, Sound(t) PROVE Sane(bdelete(t, 0, f))
  <2>1. 0 \in Ints /\ f \in Ints /\ 0 + f <= MaxInt /\ f >= 0 /\ 0 >= 0
    BY <1>1, <1>2, <1>6 DEF Ints
  <2> HIDE DEF f
  <2>2. QED
    BY <1>6, <2>1, bdeleteSane
<1>7. Good(bltrimws(s), s)
  BY <1>1, <1>4, <1>6 DEF bltrimws, Good
<1>8. Good(brtrimws(s), s)
  BY <1>4 DEF brtrimws, Good
<1>9. Good(btrimws(s), s)
  <2>1. LastInk(s) = ERR <=> f = ERR
    BY InkGives
  <2>2. CASE f = ERR
    BY <1>4, <2>1, <2>2 DEF btrimws, Good
  <2>3. CASE f # ERR
    <3>1. btrimws(s) = bdelete(Done(s.m, n).s, 0, f)
      BY <2>1, <2>3 DEF btrimws
    <3>2. QED
      BY <1>5, <1>6, <2>3, <3>1 DEF Good
  <2>4. QED
    BY <2>2, <2>3
<1>10. QED
  BY <1>7, <1>8, <1>9
-----------------------------------------------------------------------------
(* The greater of two.                                                     *)
LEMMA AtLeastGives ==
  ASSUME NEW i \in Int, NEW n \in Int
  PROVE  AtLeast(i, n) \in Int /\ AtLeast(i, n) >= i /\ AtLeast(i, n) >= n /\ AtLeast(i, n) \in {i, n}
BY DEF AtLeast

(* A block with the fill up to a position.                                 *)
LEMMA PaddedGives ==
  ASSUME NEW m, Fit(m), NEW slen \in Nat, slen <= Size(m), Clean(m, 0, slen),
         NEW pos \in Nat, pos <= Size(m)
  PROVE  /\ Fit(Padded(m, slen, pos)) /\ Size(Padded(m, slen, pos)) = Size(m)
         /\ Clean(Padded(m, slen, pos), 0, slen) /\ Clean(Padded(m, slen, pos), 0, pos)
<1> DEFINE x == Times(Fill, pos - slen)
           l == IF pos - slen < 0 THEN 0 ELSE pos - slen
           w == Write(m, slen, x)
<1>1. Fill \in Chars /\ pos - slen \in Int /\ Size(m) \in Nat
  BY CharsAreBytes, BlockSize DEF Fit
<1>2. x \in Seq(Chars) /\ Len(x) = l
  BY <1>1, TimesMakes
<1>3. l \in Nat /\ slen + l <= Size(m) /\ slen + l = AtLeast(slen, pos)
  BY <1>1 DEF AtLeast
<1>4. AtLeast(slen, pos) \in Int /\ AtLeast(slen, pos) >= slen /\ AtLeast(slen, pos) >= pos
  BY AtLeastGives
<1> DEFINE n == AtLeast(slen, pos)
<1>5. Padded(m, slen, pos) = w
  BY DEF Padded
<1> HIDE DEF x, l, n
<1>6. /\ slen + Len(x) <= Size(m) /\ n \in Int /\ n <= Size(m)
      /\ \A k \in 1..n : k <= slen \/ k > slen + Len(x) => m.at[k] \in Chars
  BY <1>1, <1>2, <1>3, <1>4 DEF n, Clean
<1>7. Fit(w) /\ Size(w) = Size(m) /\ Clean(w, 0, n)
  BY <1>2, <1>6, WrittenClean
<1> HIDE DEF w
<1>8. Clean(w, 0, slen) /\ Clean(w, 0, pos)
  BY <1>1, <1>4, <1>6, <1>7 DEF n, Clean
<1>9. QED
  BY <1>5, <1>7, <1>8

\* A text written over the one from pos on, and behind it.
LEMMA Overlaid ==
  ASSUME NEW m, Fit(m), NEW slen \in Nat, slen < Size(m), Clean(m, 0, slen),
         NEW pos \in Nat, NEW x \in Seq(Chars), pos + Len(x) < Size(m)
  PROVE  /\ Sane(Done(Write(Padded(m, slen, pos), pos, x), AtLeast(pos + Len(x), slen)))
         /\ pos + Len(x) >= slen => Sane(Done(Write(Padded(m, slen, pos), pos, x), pos + Len(x)))
<1>1. PICK l \in Nat : l = Len(x)
  OBVIOUS
<1>2. Size(m) \in Nat
  BY BlockSize DEF Fit
<1> DEFINE p == Padded(m, slen, pos)
<1>3. Fit(p) /\ Size(p) = Size(m) /\ Clean(p, 0, slen) /\ Clean(p, 0, pos)
  <2>1. pos <= Size(m) /\ slen <= Size(m)
    BY <1>1, <1>2
  <2>2. QED
    BY <2>1, PaddedGives
<1> HIDE DEF p
<1> DEFINE n == AtLeast(pos + l, slen)
<1>4. n \in Int /\ n >= pos + l /\ n >= slen /\ n \in {pos + l, slen}
  BY <1>1, AtLeastGives
<1> HIDE DEF n
<1>8. n >= 0 /\ n < Size(p) /\ pos + l <= Size(p)
  BY <1>1, <1>2, <1>3, <1>4
<1>9. ASSUME NEW k \in 1..n, k <= pos \/ k > pos + l PROVE p.at[k] \in Chars
  <2>1. k \in 0 + 1..pos \/ k \in 0 + 1..slen
    BY <1>1, <1>4, <1>9
  <2>2. QED
    BY <1>3, <2>1 DEF Clean
<1>5. /\ pos + Len(x) <= Size(p) /\ n >= 0 /\ n < Size(p)
      /\ \A k \in 1..n : k <= pos \/ k > pos + Len(x) => p.at[k] \in Chars
  BY <1>1, <1>8, <1>9
<1>6. Sane(Done(Write(p, pos, x), n))
  BY <1>3, <1>4, <1>5, WrittenDone
<1>7. pos + l >= slen => n = pos + l
  BY <1>1, <1>4
<1>10. QED
  BY <1>1, <1>6, <1>7 DEF n, p

Movable(m, to, from, n) ==
  /\ Fit(m) /\ to \in Nat /\ from \in Nat /\ n \in Nat
  /\ from + n <= Size(m) /\ to + n <= Size(m)
\* t is m after the move.
IsMoved(m, t, to, from, n) ==
  /\ Fit(t) /\ Size(t) = Size(m)
  /\ \A k \in 1..Size(m) : k <= to \/ k > to + n => t.at[k] = m.at[k]
  /\ \A k, j \in Int : k > to /\ k <= to + n /\ j = k - to + from => t.at[k] = m.at[j]

(* What stands where after a move.                                         *)
LEMMA MovedTo ==
  ASSUME NEW m, NEW to, NEW from, NEW n, Movable(m, to, from, n)
  PROVE  IsMoved(m, Move(m, to, from, n), to, from, n)
<1>1. /\ Fit(m) /\ to \in Nat /\ from \in Nat /\ n \in Nat
      /\ from + n <= Size(m) /\ to + n <= Size(m)
  BY DEF Movable
<1> DEFINE t == Move(m, to, from, n)
<1>2. /\ Fit(t) /\ Size(t) = Size(m)
      /\ \A k \in 1..Size(m) : k <= to \/ k > to + n => t.at[k] = m.at[k]
      /\ \A k \in to + 1..to + n : t.at[k] = m.at[k - to + from]
  BY <1>1, Moved
<1> HIDE DEF t
<1>3. ASSUME NEW k \in Int, NEW j \in Int, k > to /\ k <= to + n /\ j = k - to + from
      PROVE  t.at[k] = m.at[j]
  <2>1. k \in to + 1..to + n
    BY <1>1, <1>3
  <2>2. QED
    BY <1>2, <1>3, <2>1
<1>4. QED
  BY <1>2, <1>3 DEF IsMoved, t

\* The bytes from pl on are moved to those from `to' on.
LEMMA Opening ==
  ASSUME NEW m, NEW slen \in Nat, slen <= Size(m),
         NEW pos \in Nat, NEW pl, NEW c, NEW to, Movable(m, to, pl, c),
         pos <= slen, pos <= to, pl + c <= slen, Clean(m, 0, slen),
         NEW t, IsMoved(m, t, to, pl, c), NEW k \in Int, (0 < k /\ k <= pos) \/ (to < k /\ k <= to + c)
  PROVE  t.at[k] \in Chars
<1>1. /\ Size(m) \in Nat /\ to \in Nat /\ pl \in Nat /\ c \in Nat
  BY BlockSize DEF Fit, Movable
<1>2. \A i \in 1..Size(m) : i <= to \/ i > to + c => t.at[i] = m.at[i]
  BY DEF IsMoved
<1>5. \A i, j \in Int : i > to /\ i <= to + c /\ j = i - to + pl => t.at[i] = m.at[j]
  BY DEF IsMoved
<1>3. CASE 0 < k /\ k <= pos
  <2>1. k \in 1..Size(m) /\ k \in 0 + 1..slen /\ k <= to
    BY <1>1, <1>3
  <2>2. QED
    BY <1>2, <2>1 DEF Clean
<1>4. CASE to < k /\ k <= to + c
  <2>1. PICK j \in 0 + 1..slen : j = k - to + pl
    BY <1>1, <1>4
  <2>2. t.at[k] = m.at[j]
    BY <1>5, <1>4, <2>1
  <2>3. QED
    BY <2>2 DEF Clean
<1>6. QED
  BY <1>3, <1>4

\* A text written between what is before pos and what is behind pl.
LEMMA Opened ==
  ASSUME NEW m, NEW slen \in Nat, slen <= Size(m), Clean(m, 0, slen),
         NEW pos \in Nat, NEW pl, NEW c, NEW to, Movable(m, to, pl, c),
         pos <= slen, pl + c <= slen,
         NEW x \in Seq(Chars), pos <= to, to <= pos + Len(x), pos + Len(x) <= to
  PROVE  LET w == Write(Move(m, to, pl, c), pos, x) IN
         Fit(w) /\ Size(w) = Size(m) /\ Clean(w, 0, to + c)
<1> DEFINE t == Move(m, to, pl, c)
           n == to + c
<1>1. Size(m) \in Nat /\ n \in Int /\ to \in Nat /\ c \in Nat /\ to + c <= Size(m) /\ n = to + c
  BY BlockSize DEF Fit, Movable
<1>7. IsMoved(m, t, to, pl, c)
  BY MovedTo
<1> HIDE DEF t, n
<1>2. Fit(t) /\ Size(t) = Size(m)
  BY <1>7 DEF IsMoved
<1>3. n <= Size(t) /\ pos + Len(x) <= Size(t)
  BY <1>1, <1>2
<1>6. ASSUME NEW k \in 1..n, k <= pos \/ k > pos + Len(x) PROVE t.at[k] \in Chars
  <2>1. k \in Int /\ ((0 < k /\ k <= pos) \/ (to < k /\ k <= to + c))
    BY <1>1, <1>6
  <2>2. QED
    BY <1>7, <2>1, Opening
<1>4. Fit(Write(t, pos, x)) /\ Size(Write(t, pos, x)) = Size(t) /\ Clean(Write(t, pos, x), 0, n)
  BY <1>1, <1>2, <1>3, <1>6, WrittenClean
<1>5. QED
  BY <1>2, <1>4 DEF t, n

\* The block that a function which inserts goes on with.
Roomy(s, g, n) == /\ Fit(g.m) /\ Size(g.m) \in Nat /\ Size(g.m) >= Size(s.m) /\ Clean(g.m, 0, s.slen)
                  /\ g.ok => Size(g.m) >= n

(* balloc gives a block with room.                                         *)
LEMMA RoomyGives ==
  ASSUME NEW s, Sound(s), NEW n \in Nat, n <= 2 * MaxInt + 1, NEW memory
  PROVE  LET g == balloc(s, Wrap(n), memory)
         IN  Roomy(s, g, n) /\ g.moved \in BOOLEAN /\ (~ g.moved => g.m = s.m) /\ g.ok \in BOOLEAN
<1>1. Proper(s) /\ s.slen < Size(s.m)
  BY SoundFacts
<1>2. QED
  BY <1>1, Room DEF Roomy

(* bsetstr, for any position and source.                                   *)
LEMMA bsetstrSane ==
  ASSUME NEW s, Sound(s), NEW src \in Sources(s), NEW memory, NEW pos \in Ints
  PROVE  Good(bsetstr(s, pos, src, memory), s)
<1> DEFINE n == Len(src.text)
           d == Wrap(pos + n)
           g == balloc(s, Wrap(d + 1), memory)
           r == bsetstr(s, pos, src, memory)
<1>1. /\ Proper(s) /\ s.slen \in Nat /\ Size(s.m) \in Nat /\ s.slen < Size(s.m)
      /\ Size(s.m) <= MaxInt /\ MaxInt \in Nat
  BY SoundFacts
<1>2. src.own \in BOOLEAN /\ src.text \in Seq(Chars) /\ n \in Nat /\ n <= MaxInt
  BY <1>1, SourceGives
<1>3. pos \in Int /\ pos <= MaxInt
  BY <1>1 DEF Ints
<1>4. r = IF pos < 0 \/ (src.own /\ memory = "none") \/ ~ g.ok THEN Refuse(s)
          ELSE Done(Write(Padded(g.m, s.slen, pos), pos, Copied(src, src.own, g)),
                    AtLeast(AtLeast(d, pos), s.slen))
  BY DEF bsetstr
<1> HIDE DEF n, r
<1>5. CASE pos < 0 \/ (src.own /\ memory = "none") \/ ~ g.ok
  BY <1>4, <1>5, Refuses DEF r
<1>6. CASE ~ (pos < 0 \/ (src.own /\ memory = "none") \/ ~ g.ok)
  <2>1. pos \in Nat /\ pos + n \in Nat /\ pos + n \in Int
    BY <1>2, <1>3, <1>6
  <2>2. pos + n <= MaxInt
    <3>1. ASSUME pos + n > MaxInt PROVE FALSE
      <4>1. pos + n <= 2 * MaxInt + 1
        BY <1>1, <1>2, <1>3
      <4>2. d < 0 /\ d \in Ints
        BY <2>1, <3>1, <4>1, Wraps
      <4> HIDE DEF d
      <4>3. d + 1 \in Ints /\ d + 1 \in Int /\ d + 1 <= 0
        BY <1>1, <4>2 DEF Ints
      <4>4. Wrap(d + 1) <= 0
        BY <4>3, Wraps
      <4>5. g.ok = FALSE
        BY <4>4 DEF balloc, Unavailable
      <4>6. QED
        BY <1>6, <4>5
    <3>2. QED
      BY <1>1, <2>1, <3>1
  <2>3. d = pos + n
    <3>1. pos + n \in Ints
      BY <1>1, <2>1, <2>2 DEF Ints
    <3>2. QED
      BY <2>1, <3>1, Wraps
  <2> HIDE DEF d
  <2>4. d + 1 \in Nat /\ d + 1 <= 2 * MaxInt + 1 /\ d \in Nat
    BY <1>1, <2>1, <2>2, <2>3
  <2>5. Roomy(s, g, d + 1) /\ g.moved \in BOOLEAN /\ (~ g.moved => g.m = s.m)
    BY <2>4, RoomyGives
  <2> HIDE DEF g
  <2>6. Copied(src, src.own, g) = src.text
    BY <1>1, <1>2, <2>5, SinceGives
  <2>7. AtLeast(AtLeast(d, pos), s.slen) = AtLeast(d, s.slen)
    BY <1>1, <1>2, <2>1, <2>3, <2>4 DEF AtLeast
  <2>8. /\ Fit(g.m) /\ s.slen < Size(g.m) /\ Clean(g.m, 0, s.slen) /\ pos + n < Size(g.m)
    BY <1>1, <1>6, <2>3, <2>4, <2>5 DEF Roomy
  <2>9. Sane(Done(Write(Padded(g.m, s.slen, pos), pos, src.text), AtLeast(pos + n, s.slen)))
    BY <1>1, <1>2, <2>1, <2>8, Overlaid DEF n
  <2>10. QED
    BY <1>4, <1>6, <2>3, <2>6, <2>7, <2>9 DEF Good, r
<1>7. QED
  BY <1>5, <1>6

\* The ends of the text behind the one that is inserted, and of that one.
Ending(s, pos, x, d, l) == d = s.slen + Len(x) /\ l = pos + Len(x)

(* A string with a text written into the gap is sound.                     *)
LEMMA InsertedSane ==
  ASSUME NEW s, Sound(s), NEW pos \in Nat, NEW x \in Seq(Chars), NEW d \in Nat, NEW l \in Nat,
         Ending(s, pos, x, d, l), NEW g, Roomy(s, g, AtLeast(l, d) + 1), g.ok
  PROVE  /\ l > d => Sane(Done(Write(Padded(g.m, s.slen, pos), pos, x), l))
         /\ ~ (l > d) => Sane(Done(Write(Move(g.m, l, pos, d - l), pos, x), d))
<1>1. /\ s.slen \in Nat /\ Size(s.m) \in Nat /\ s.slen < Size(s.m)
      /\ Fit(g.m) /\ Size(g.m) \in Nat /\ Clean(g.m, 0, s.slen) /\ s.slen < Size(g.m)
      /\ Size(g.m) >= AtLeast(l, d) + 1
  <2>1. s.slen \in Nat /\ Size(s.m) \in Nat /\ s.slen < Size(s.m)
    BY SoundFacts
  <2>2. QED
    BY <2>1 DEF Roomy
<1>2. AtLeast(l, d) \in Int /\ AtLeast(l, d) >= l /\ AtLeast(l, d) >= d
  BY AtLeastGives
<1>3. l < Size(g.m) /\ d < Size(g.m)
  BY <1>1, <1>2
<1>4. ASSUME l > d PROVE Sane(Done(Write(Padded(g.m, s.slen, pos), pos, x), l))
  <2>1. PICK n \in Nat : n = Len(x)
    OBVIOUS
  <2>2. d = s.slen + n /\ l = pos + n
    BY <2>1 DEF Ending
  <2>3. pos + n < Size(g.m) /\ pos + n >= s.slen
    BY <1>1, <1>3, <1>4, <2>2
  <2>4. Sane(Done(Write(Padded(g.m, s.slen, pos), pos, x), pos + Len(x)))
    BY <1>1, <2>1, <2>3, Overlaid
  <2>5. QED
    BY <2>1, <2>2, <2>4
<1>5. ASSUME ~ (l > d) PROVE Sane(Done(Write(Move(g.m, l, pos, d - l), pos, x), d))
  <2>1. PICK n \in Nat : n = Len(x)
    OBVIOUS
  <2>2. PICK c \in Nat : c = d - l
    BY <1>5
  <2>8. d = s.slen + n /\ l = pos + n
    BY <2>1 DEF Ending
  <2>9. l <= pos + Len(x) /\ pos + Len(x) <= l
    BY <2>1, <2>8
  <2>10. s.slen \in Nat /\ s.slen <= Size(g.m)
    BY <1>1
  <2>11. pos + c <= s.slen /\ pos <= s.slen /\ l + c = d /\ pos <= l
    BY <1>5, <2>2, <2>8, <2>10
  <2>3. pos + c <= s.slen /\ pos <= s.slen /\ l + c = d /\ s.slen <= Size(g.m) /\ pos <= l
        /\ l <= pos + Len(x) /\ pos + Len(x) <= l
    BY <2>9, <2>10, <2>11
  <2>4. Movable(g.m, l, pos, c)
    BY <1>1, <1>3, <2>3 DEF Movable
  <2> DEFINE w == Write(Move(g.m, l, pos, c), pos, x)
  <2>5. Fit(w) /\ Size(w) = Size(g.m) /\ Clean(w, 0, l + c)
    BY <1>1, <2>3, <2>4, Opened
  <2> HIDE DEF w
  <2>6. Sane(Done(w, d))
    BY <1>3, <2>3, <2>5, DoneSane
  <2>7. QED
    BY <2>2, <2>6 DEF w
<1>6. QED
  BY <1>4, <1>5

\* Sums that a function makes of a position or a length and a length.
LEMMA Sums ==
  ASSUME NEW i \in Int, NEW n \in Nat, i >= 0, i <= MaxInt, n <= MaxInt
  PROVE  /\ Wrap(i + n) \in Int
         /\ Wrap(i + n) < 0 <=> i + n > MaxInt
         /\ ~ (Wrap(i + n) < 0) => Wrap(i + n) = i + n
<1>1. MaxInt \in Nat /\ i + n \in Int /\ i + n >= 0 /\ i + n <= 2 * MaxInt
  BY SizesAreInts
<1>2. Wrap(i + n) \in Int
  BY <1>1, Wraps DEF Ints
<1>3. CASE i + n <= MaxInt
  <2>1. i + n \in Ints
    BY <1>1, <1>3 DEF Ints
  <2>2. QED
    BY <1>1, <1>2, <1>3, <2>1, Wraps
<1>4. CASE i + n > MaxInt
  <2>1. Wrap(i + n) < 0
    BY <1>1, <1>4, Wraps
  <2>2. QED
    BY <1>2, <1>4, <2>1
<1>5. QED
  BY <1>1, <1>3, <1>4

(* binsert, for any position and source.                                   *)
LEMMA binsertSane ==
  ASSUME NEW s, Sound(s), NEW src \in Sources(s), NEW memory, NEW pos \in Ints
  PROVE  Good(binsert(s, pos, src, memory), s)
<1> DEFINE n == Len(src.text)
           d == Wrap(s.slen + n)
           l == Wrap(pos + n)
           g == balloc(s, Wrap(AtLeast(l, d) + 1), memory)
           r == binsert(s, pos, src, memory)
           x == Copied(src, src.own, g)
<1>1. /\ Proper(s) /\ s.slen \in Nat /\ Size(s.m) \in Nat /\ s.slen < Size(s.m)
      /\ Size(s.m) <= MaxInt /\ MaxInt \in Nat
  BY SoundFacts
<1>2. src.own \in BOOLEAN /\ src.text \in Seq(Chars) /\ n \in Nat /\ n <= MaxInt
  BY <1>1, SourceGives
<1>3. pos \in Int /\ pos <= MaxInt
  BY <1>1 DEF Ints
<1>4. r = IF pos < 0 \/ d < 0 \/ l < 0 \/ (src.own /\ memory = "none") \/ ~ g.ok THEN Refuse(s)
          ELSE IF l > d THEN Done(Write(Padded(g.m, s.slen, pos), pos, x), l)
          ELSE Done(Write(Move(g.m, l, pos, d - l), pos, x), d)
  BY DEF binsert
<1> HIDE DEF n, r
<1>5. CASE pos < 0 \/ d < 0 \/ l < 0 \/ (src.own /\ memory = "none") \/ ~ g.ok
  BY <1>4, <1>5, Refuses DEF r
<1>6. CASE ~ (pos < 0 \/ d < 0 \/ l < 0 \/ (src.own /\ memory = "none") \/ ~ g.ok)
  <2>1. pos \in Nat
    BY <1>3, <1>6
  <2>2. d = s.slen + n /\ d <= MaxInt
    <3>1. s.slen \in Int /\ s.slen >= 0 /\ s.slen <= MaxInt /\ n \in Nat
      BY <1>1, <1>2
    <3>2. d = s.slen + n /\ ~ (s.slen + n > MaxInt)
      BY <1>2, <1>6, <3>1, Sums
    <3>3. QED
      BY <1>1, <3>1, <3>2
  <2>3. l = pos + n /\ l <= MaxInt
    <3>1. l = pos + n /\ ~ (pos + n > MaxInt)
      BY <1>2, <1>3, <1>6, <2>1, Sums
    <3>2. QED
      BY <1>1, <1>2, <2>1, <3>1
  <2> HIDE DEF d, l
  <2>4. d \in Nat /\ l \in Nat /\ Ending(s, pos, src.text, d, l)
    BY <1>1, <1>2, <2>1, <2>2, <2>3 DEF Ending, n
  <2>5. AtLeast(l, d) + 1 \in Nat /\ AtLeast(l, d) + 1 <= 2 * MaxInt + 1
    BY <1>1, <2>2, <2>3, <2>4 DEF AtLeast
  <2>6. Roomy(s, g, AtLeast(l, d) + 1) /\ g.moved \in BOOLEAN /\ (~ g.moved => g.m = s.m)
    BY <2>5, RoomyGives
  <2> HIDE DEF g
  <2>7. x = src.text
    BY <1>1, <1>2, <2>6, SinceGives
  <2> HIDE DEF x
  <2>8. /\ l > d => Sane(Done(Write(Padded(g.m, s.slen, pos), pos, x), l))
        /\ ~ (l > d) => Sane(Done(Write(Move(g.m, l, pos, d - l), pos, x), d))
    BY <1>2, <1>6, <2>1, <2>4, <2>6, <2>7, InsertedSane
  <2>9. QED
    BY <1>4, <1>6, <2>8 DEF Good, r
<1>7. QED
  BY <1>5, <1>6

(* binsertch, for any position and length.                                 *)
LEMMA binsertchSane ==
  ASSUME NEW s, Sound(s), NEW memory, NEW pos \in Ints, NEW len \in Ints
  PROVE  Good(binsertch(s, pos, len, memory), s)
<1> DEFINE d == Wrap(s.slen + len)
           l == Wrap(pos + len)
           g == balloc(s, Wrap(AtLeast(l, d) + 1), memory)
           r == binsertch(s, pos, len, memory)
           x == Times(Fill, len)
<1>1. /\ Proper(s) /\ s.slen \in Nat /\ Size(s.m) \in Nat /\ s.slen < Size(s.m)
      /\ Size(s.m) <= MaxInt /\ MaxInt \in Nat
  BY SoundFacts
<1>3. pos \in Int /\ pos <= MaxInt /\ len \in Int /\ len <= MaxInt
  BY <1>1 DEF Ints
<1>4. r = IF pos < 0 \/ len < 0 \/ d < 0 \/ l < 0 \/ ~ g.ok THEN Refuse(s)
          ELSE IF l > d THEN Done(Padded(g.m, s.slen, l), l)
          ELSE Done(Write(Move(g.m, l, pos, d - l), pos, x), d)
  BY DEF binsertch
<1> HIDE DEF r
<1>5. CASE pos < 0 \/ len < 0 \/ d < 0 \/ l < 0 \/ ~ g.ok
  BY <1>4, <1>5, Refuses DEF r
<1>6. CASE ~ (pos < 0 \/ len < 0 \/ d < 0 \/ l < 0 \/ ~ g.ok)
  <2>1. pos \in Nat /\ len \in Nat
    BY <1>3, <1>6
  <2>2. d = s.slen + len /\ d <= MaxInt
    <3>1. s.slen \in Int /\ s.slen >= 0 /\ s.slen <= MaxInt
      BY <1>1
    <3>2. d = s.slen + len /\ ~ (s.slen + len > MaxInt)
      BY <1>3, <1>6, <2>1, <3>1, Sums
    <3>3. QED
      BY <1>1, <2>1, <3>1, <3>2
  <2>3. l = pos + len /\ l <= MaxInt
    <3>1. l = pos + len /\ ~ (pos + len > MaxInt)
      BY <1>3, <1>6, <2>1, Sums
    <3>2. QED
      BY <1>1, <2>1, <3>1
  <2>10. x \in Seq(Chars) /\ Len(x) = len
    <3>1. x \in Seq(Chars) /\ Len(x) = IF len < 0 THEN 0 ELSE len
      BY <1>3, TimesMakes, CharsAreBytes
    <3>2. QED
      BY <2>1, <3>1
  <2> HIDE DEF d, l, x
  <2>4. d \in Nat /\ l \in Nat /\ Ending(s, pos, x, d, l)
    BY <1>1, <2>1, <2>2, <2>3, <2>10 DEF Ending
  <2>5. AtLeast(l, d) + 1 \in Nat /\ AtLeast(l, d) + 1 <= 2 * MaxInt + 1
    BY <1>1, <2>2, <2>3, <2>4 DEF AtLeast
  <2>6. Roomy(s, g, AtLeast(l, d) + 1)
    BY <2>5, RoomyGives
  <2> HIDE DEF g
  <2>8. ~ (l > d) => Sane(Done(Write(Move(g.m, l, pos, d - l), pos, x), d))
    BY <1>6, <2>1, <2>4, <2>6, <2>10, InsertedSane
  <2>11. l > d => Sane(Done(Padded(g.m, s.slen, l), l))
    <3>1. AtLeast(l, d) \in Int /\ AtLeast(l, d) >= l
      BY <2>4, AtLeastGives
    <3>2. Fit(g.m) /\ Clean(g.m, 0, s.slen) /\ Size(g.m) \in Nat /\ s.slen <= Size(g.m) /\ l < Size(g.m)
      BY <1>1, <1>6, <2>4, <2>6, <3>1 DEF Roomy
    <3> DEFINE p == Padded(g.m, s.slen, l)
    <3>3. Fit(p) /\ Size(p) = Size(g.m) /\ Clean(p, 0, l)
      <4>1. l <= Size(g.m)
        BY <2>4, <3>2
      <4>2. QED
        BY <1>1, <2>4, <3>2, <4>1, PaddedGives
    <3> HIDE DEF p
    <3>4. l \in Int /\ l >= 0 /\ l < Size(p)
      BY <2>4, <3>2, <3>3
    <3>5. Sane(Done(p, l))
      BY <3>3, <3>4, DoneSane
    <3>6. QED
      BY <3>5 DEF p
  <2>9. QED
    BY <1>4, <1>6, <2>8, <2>11 DEF Good, r
<1>7. QED
  BY <1>5, <1>6

\* breplace of a part of the text that ends before its end.
LEMMA breplaceInside ==
  ASSUME NEW s, Sound(s), NEW pos \in Nat, NEW pl \in Nat, NEW len \in Nat, NEW n \in Nat,
         pl - pos = len, pl < s.slen, n <= MaxInt,
         NEW x \in Seq(Chars), Len(x) = n, NEW memory,
         NEW g, Fit(g.m), Size(g.m) \in Nat, Clean(g.m, 0, s.slen), s.slen < Size(g.m),
         Size(g.m) >= s.slen + n - len, Size(g.m) = s.slen + n - len => Short(memory, s.slen + n - len)
  PROVE  LET tail == IF n = len THEN g.m ELSE Move(g.m, pos + n, pl, s.slen - pl)
             r == Done(Write(tail, pos, x), s.slen + n - len)
         IN  Sane(r) \/ Over(r, memory)
<1>1. s.slen \in Nat
  BY SoundFacts
<1>2. PICK to \in Nat : to = pos + n
  OBVIOUS
<1>3. PICK c \in Nat : c = s.slen - pl
  BY <1>1
<1>4. PICK q \in Int : q = s.slen + n - len
  BY <1>1
<1>5. q = to + c /\ q >= 0 /\ q <= Size(g.m) /\ (q = Size(g.m) => Short(memory, q))
  BY <1>1, <1>2, <1>3, <1>4
<1> DEFINE tail == IF n = len THEN g.m ELSE Move(g.m, to, pl, c)
           w == Write(tail, pos, x)
<1>6. Fit(w) /\ Size(w) = Size(g.m) /\ Clean(w, 0, q)
  <2>1. CASE n = len
    <3>1. q = s.slen /\ pos + n <= Size(g.m) /\ q <= Size(g.m)
      BY <1>1, <1>4, <1>5, <2>1
    <3>2. \A k \in 1..q : g.m.at[k] \in Chars
      BY <1>1, <3>1 DEF Clean
    <3>3. Fit(Write(g.m, pos, x)) /\ Size(Write(g.m, pos, x)) = Size(g.m) /\ Clean(Write(g.m, pos, x), 0, q)
      BY <3>1, <3>2, WrittenClean
    <3>4. QED
      BY <2>1, <3>3
  <2>2. CASE n # len
    <3>1. pos <= s.slen /\ pl + c <= s.slen /\ s.slen <= Size(g.m)
      BY <1>1, <1>3
    <3>2. pos <= to /\ to <= pos + Len(x) /\ pos + Len(x) <= to
      BY <1>2
    <3>3. Movable(g.m, to, pl, c)
      BY <1>1, <1>5, <3>1 DEF Movable
    <3> DEFINE v == Write(Move(g.m, to, pl, c), pos, x)
    <3>4. Fit(v) /\ Size(v) = Size(g.m) /\ Clean(v, 0, to + c)
      BY <1>1, <3>1, <3>2, <3>3, Opened
    <3>5. w = v
      BY <2>2
    <3> HIDE DEF v, w
    <3>6. QED
      BY <1>5, <3>4, <3>5
  <2>3. QED
    BY <2>1, <2>2
<1> HIDE DEF w
<1>7. Sane(Done(w, q)) \/ Over(Done(w, q), memory)
  BY <1>5, <1>6, DoneOr
<1>8. QED
  BY <1>2, <1>3, <1>4, <1>7 DEF w

(* breplace, or it writes the `\0' behind the smallest block.              *)
LEMMA breplaceSane ==
  ASSUME NEW s, Sound(s), NEW src \in Sources(s), NEW memory, NEW pos \in Ints, NEW len \in Ints
  PROVE  Good(breplace(s, pos, len, src, memory), s) \/ Over(breplace(s, pos, len, src, memory), memory)
<1> DEFINE n == Len(src.text)
           pl == Wrap(pos + len)
           set == bsetstr(s, pos, src, memory)
           g == IF n > len THEN balloc(s, Wrap(s.slen + n - len), memory) ELSE Kept(s.m)
           r == breplace(s, pos, len, src, memory)
           tail == IF n = len THEN g.m ELSE Move(g.m, pos + n, pl, s.slen - pl)
           x == Copied(src, src.own, g)
<1>1. /\ Proper(s) /\ s.slen \in Nat /\ Size(s.m) \in Nat /\ s.slen < Size(s.m) /\ Fit(s.m)
      /\ Size(s.m) <= MaxInt /\ MaxInt \in Nat /\ Clean(s.m, 0, s.slen)
  BY SoundFacts
<1>2. src.own \in BOOLEAN /\ src.text \in Seq(Chars) /\ n \in Nat /\ n <= MaxInt
  BY <1>1, SourceGives
<1>3. pos \in Int /\ pos <= MaxInt /\ len \in Int /\ len <= MaxInt
  BY <1>1 DEF Ints
<1>4. r = IF pos < 0 \/ len < 0 \/ pl < 0 THEN Refuse(s)
          ELSE IF pl >= s.slen
          THEN IF set.rc = 0 /\ pos + n < set.s.slen THEN Done(set.s.m, pos + n) ELSE set
          ELSE IF (src.own /\ memory = "none") \/ ~ g.ok THEN Refuse(s)
          ELSE Done(Write(tail, pos, x), s.slen + n - len)
  BY DEF breplace
<1> HIDE DEF n, r
<1>5. CASE pos < 0 \/ len < 0 \/ pl < 0
  BY <1>4, <1>5, Refuses DEF r
<1>6. CASE ~ (pos < 0 \/ len < 0 \/ pl < 0) /\ pl >= s.slen
  <2>1. Good(set, s)
    BY bsetstrSane
  <2>2. r = IF set.rc = 0 /\ pos + n < set.s.slen THEN Done(set.s.m, pos + n) ELSE set
    BY <1>4, <1>6
  <2> HIDE DEF set
  <2>3. CASE set.rc = 0 /\ pos + n < set.s.slen
    <3>1. Sound(set.s)
      BY <2>1, <2>3 DEF Good, Sane, Refusal, ERR
    <3>2. Fit(set.s.m) /\ set.s.slen \in Nat /\ Size(set.s.m) \in Nat /\ set.s.slen < Size(set.s.m)
          /\ Clean(set.s.m, 0, set.s.slen)
      BY <3>1, SoundFacts
    <3>3. pos + n \in Int /\ pos + n >= 0 /\ pos + n < Size(set.s.m) /\ Clean(set.s.m, 0, pos + n)
      BY <1>2, <1>3, <1>6, <2>3, <3>2 DEF Clean
    <3>4. Sane(Done(set.s.m, pos + n))
      BY <3>2, <3>3, DoneSane
    <3>5. QED
      BY <2>2, <2>3, <3>4 DEF Good, r
  <2>4. CASE ~ (set.rc = 0 /\ pos + n < set.s.slen)
    BY <2>1, <2>2, <2>4 DEF r
  <2>5. QED
    BY <2>3, <2>4
<1>7. CASE ~ (pos < 0 \/ len < 0 \/ pl < 0) /\ ~ (pl >= s.slen) /\ ((src.own /\ memory = "none") \/ ~ g.ok)
  BY <1>4, <1>7, Refuses DEF r
<1>8. CASE ~ (pos < 0 \/ len < 0 \/ pl < 0) /\ ~ (pl >= s.slen) /\ ~ ((src.own /\ memory = "none") \/ ~ g.ok)
  <2>1. pos \in Nat /\ len \in Nat
    BY <1>3, <1>8
  <2>2. pl = pos + len /\ pl \in Nat /\ pl - pos = len /\ pl < s.slen
    <3>1. pl = pos + len
      BY <1>3, <1>8, <2>1, Sums
    <3> HIDE DEF pl
    <3>2. QED
      BY <1>1, <1>8, <2>1, <3>1
  <2> HIDE DEF pl
  <2>3. PICK q \in Int : q = s.slen + n - len
    BY <1>1, <1>2, <2>1
  <2>4. /\ Fit(g.m) /\ Size(g.m) \in Nat /\ Clean(g.m, 0, s.slen) /\ s.slen < Size(g.m)
        /\ Size(g.m) >= q /\ (Size(g.m) = q => Short(memory, q))
        /\ g.moved \in BOOLEAN /\ (~ g.moved => g.m = s.m)
    <3>1. CASE n > len
      <4>1. g = balloc(s, Wrap(q), memory)
        BY <2>3, <3>1
      <4>2. q \in Nat /\ q <= 2 * MaxInt + 1
        BY <1>1, <1>2, <2>1, <2>3, <3>1
      <4> HIDE DEF g
      <4>3. /\ Fit(g.m) /\ Size(g.m) \in Nat /\ Clean(g.m, 0, s.slen) /\ Size(g.m) >= Size(s.m)
            /\ Size(g.m) >= q /\ (Size(g.m) = q => Short(memory, q))
            /\ g.moved \in BOOLEAN /\ (~ g.moved => g.m = s.m)
        BY <1>1, <1>8, <4>1, <4>2, Room
      <4>4. s.slen < Size(g.m)
        BY <1>1, <4>3
      <4>5. QED
        BY <4>3, <4>4
    <3>2. CASE ~ (n > len)
      <4>1. g.m = s.m /\ g.moved = FALSE
        BY <3>2, KeptGives
      <4>2. q < Size(s.m)
        BY <1>1, <1>2, <2>1, <2>3, <3>2
      <4> HIDE DEF g
      <4>3. Size(g.m) >= q /\ Size(g.m) # q
        BY <1>1, <4>1, <4>2
      <4>4. Fit(g.m) /\ Size(g.m) \in Nat /\ Clean(g.m, 0, s.slen) /\ s.slen < Size(g.m)
        BY <1>1, <4>1
      <4>5. QED
        BY <4>1, <4>3, <4>4
    <3>3. QED
      BY <3>1, <3>2
  <2>5. r = Done(Write(tail, pos, x), s.slen + n - len)
    BY <1>4, <1>8
  <2> HIDE DEF g
  <2>6. x = src.text
    BY <1>1, <1>2, <2>4, SinceGives
  <2>7. Sane(Done(Write(tail, pos, src.text), s.slen + n - len))
        \/ Over(Done(Write(tail, pos, src.text), s.slen + n - len), memory)
    <3>1. Size(g.m) >= s.slen + n - len /\ (Size(g.m) = s.slen + n - len => Short(memory, s.slen + n - len))
      BY <2>3, <2>4
    <3>2. Len(src.text) = n
      BY DEF n
    <3>3. QED
      BY <1>2, <2>1, <2>2, <2>4, <3>1, <3>2, breplaceInside
  <2>8. QED
    BY <2>5, <2>6, <2>7 DEF Good, r
<1>9. QED
  BY <1>5, <1>6, <1>7, <1>8

(* bpattern, for any length.                                               *)
LEMMA bpatternSane ==
  ASSUME NEW s, Sound(s), NEW memory, NEW len \in Ints
  PROVE  Good(bpattern(s, len, memory), s)
<1> DEFINE g == balloc(s, Wrap(len + 1), memory)
           x == [k \in 1..len |-> Bytes(g.m, (k - 1) % s.slen, 1)[1]]
           r == bpattern(s, len, memory)
<1>1. /\ Proper(s) /\ s.slen \in Nat /\ Size(s.m) \in Nat /\ s.slen < Size(s.m)
      /\ Size(s.m) <= MaxInt /\ MaxInt \in Nat
  BY SoundFacts
<1>2. r = IF s.slen <= 0 \/ len < 0 \/ ~ g.ok THEN Refuse(s) ELSE Done(Write(g.m, 0, x), len)
  BY DEF bpattern
<1>3. len \in Int /\ len <= MaxInt
  BY <1>1 DEF Ints
<1> HIDE DEF r
<1>4. CASE s.slen <= 0 \/ len < 0 \/ ~ g.ok
  BY <1>2, <1>4, Refuses DEF r
<1>5. CASE ~ (s.slen <= 0 \/ len < 0 \/ ~ g.ok)
  <2>1. len \in Nat /\ len + 1 \in Nat /\ len + 1 <= 2 * MaxInt + 1
    BY <1>1, <1>3, <1>5
  <2>2. Roomy(s, g, len + 1)
    BY <2>1, RoomyGives
  <2>3. /\ Fit(g.m) /\ Size(g.m) \in Nat /\ Clean(g.m, 0, s.slen) /\ s.slen < Size(g.m)
        /\ len < Size(g.m) /\ g.m \in Blocks
    <3> HIDE DEF g
    <3>1. QED
      BY <1>1, <1>5, <2>1, <2>2 DEF Roomy, Fit
  <2> HIDE DEF g
  <2>4. ASSUME NEW k \in 1..len PROVE Bytes(g.m, (k - 1) % s.slen, 1)[1] \in Chars
    <3> DEFINE i == (k - 1) % s.slen
    <3>1. i \in 0..s.slen - 1
      <4>1. k - 1 \in Int /\ s.slen > 0
        BY <1>1, <1>5
      <4>2. QED
        BY <1>1, <4>1, Modulo
    <3> HIDE DEF i
    <3>2. g.m \in Blocks /\ i \in Nat /\ 1 \in Nat /\ i + 1 <= Size(g.m) /\ Clean(g.m, i, i + 1)
      BY <1>1, <2>3, <3>1 DEF Clean
    <3>3. Bytes(g.m, i, 1) \in Seq(Chars) /\ Len(Bytes(g.m, i, 1)) = 1
      BY <3>2, CleanBytes
    <3>4. QED
      BY <3>3 DEF i
  <2>5. x \in Seq(Chars) /\ Len(x) = len
    BY <2>1, <2>4
  <2> HIDE DEF x
  <2>6. /\ 0 + Len(x) <= Size(g.m) /\ len >= 0
        /\ \A k \in 1..len : k <= 0 \/ k > 0 + Len(x) => g.m.at[k] \in Chars
    BY <2>1, <2>3, <2>5
  <2>7. Sane(Done(Write(g.m, 0, x), len))
    BY <1>3, <2>3, <2>5, <2>6, WrittenDone
  <2>8. QED
    BY <1>2, <1>5, <2>7 DEF Good, r
<1>6. QED
  BY <1>4, <1>5

-----------------------------------------------------------------------------
(***************************************************************************)
(* Reading.                                                                *)
(***************************************************************************)
(* The size and the length of a string.                                    *)
LEMMA StringTyped ==
  ASSUME NEW s \in Strings
  PROVE  s.m \in Blocks /\ s.slen \in Int /\ s = [m |-> s.m, slen |-> s.slen] /\ Size(s.m) \in Nat
BY BlockSize DEF Strings

(* balloc gives a block, of whatever string.                               *)
LEMMA ballocTyped ==
  ASSUME NEW s \in Strings, NEW n \in Int, NEW memory
  PROVE  balloc(s, n, memory).m \in Blocks
<1>0. s.m \in Blocks /\ s.slen \in Int
  BY StringTyped
<1>1. n > 0 => snapUpSize(n) \in Int
  <2>1. n > 0 => PowerAbove(n) \in Nat
    BY PowerIsAbove
  <2>2. QED
    BY <2>1, SizesAreInts DEF snapUpSize
<1>2. ASSUME NEW l \in Int PROVE Replaced(s, l).m \in Blocks
  <2> DEFINE b == [Block(l) EXCEPT !.bad = s.m.bad]
             w == Write(b, 0, Text(s))
  <2>1. b \in Blocks
    <3>1. Times(Junk, l) \in Seq(Byte)
      BY TimesMakes, CharsAreBytes
    <3>2. b = [at |-> Times(Junk, l), bad |-> s.m.bad]
      BY DEF Block
    <3>3. QED
      BY <1>0, <3>1, <3>2, BlockSize DEF Blocks
  <2>2. Text(s) \in Seq(Byte)
    BY <1>0, BytesGive DEF Text
  <2> HIDE DEF b
  <2>3. w \in Blocks
    BY <2>1, <2>2, WriteTyped
  <2>4. Replaced(s, l).m = Write(w, s.slen, <<Nul>>)
    BY DEF Replaced, End, b
  <2>5. <<Nul>> \in Seq(Byte)
    BY CharsAreBytes
  <2> HIDE DEF w
  <2>6. QED
    BY <1>0, <2>3, <2>4, <2>5, WriteTyped
<1>3. CASE n <= 0 \/ n < Size(s.m) \/ snapUpSize(n) <= Size(s.m) \/ memory = "none"
  <2>1. balloc(s, n, memory) = Unavailable(s.m) \/ balloc(s, n, memory) = Kept(s.m)
    BY <1>3 DEF balloc
  <2>2. QED
    BY <1>0, <2>1 DEF Unavailable, Kept
<1>4. CASE ~ (n <= 0 \/ n < Size(s.m) \/ snapUpSize(n) <= Size(s.m) \/ memory = "none")
  <2> DEFINE l == IF memory = "plenty" THEN snapUpSize(n) ELSE n
  <2>1. balloc(s, n, memory) = Replaced(s, l)
    BY <1>4 DEF balloc
  <2>2. l \in Int
    BY <1>1, <1>4
  <2> HIDE DEF l
  <2>3. QED
    BY <1>2, <2>1, <2>2
<1>5. QED
  BY <1>3, <1>4

(* A wrapped number is an int.                                             *)
LEMMA WrapTyped ==
  ASSUME NEW i \in Int
  PROVE  Wrap(i) \in Int
BY Wraps, SizesAreInts DEF Ints

GetStates == [on : BOOLEAN, rc : {0, ERR}, s : Strings, line : Seq(Chars)]
Reading == {x \in GetStates : /\ Proper(x.s) /\ x.s.slen < Size(x.s.m)
                              /\ x.on => x.rc = 0}

(* A step of the loop of bgetsa gives a state of it.                       *)
LEMMA GetByteTyped ==
  ASSUME NEW x \in GetStates, NEW memory
  PROVE  GetByte(memory, x) \in GetStates
<1> DEFINE n == x.s.slen
           g == IF n > Size(x.s.m) - 2 THEN balloc(x.s, Wrap(n + 2), memory) ELSE Kept(x.s.m)
<1>1. x.s \in Strings /\ n \in Int /\ x.s.m \in Blocks /\ x.line \in Seq(Chars) /\ x.rc \in {0, ERR}
  BY StringTyped DEF GetStates
<1>2. x = [on |-> x.on, rc |-> x.rc, s |-> x.s, line |-> x.line]
  BY DEF GetStates
<1>3. GetByte(memory, x)
        = IF x.line = <<>> THEN [x EXCEPT !.on = FALSE]
          ELSE IF ~ g.ok THEN [x EXCEPT !.on = FALSE, !.rc = ERR]
          ELSE [x EXCEPT !.s = [m |-> Write(g.m, n, <<Head(x.line)>>), slen |-> n + 1], !.line = Tail(@)]
  BY DEF GetByte
<1>4. g.m \in Blocks
  <2>1. CASE n > Size(x.s.m) - 2
    <3>1. g = balloc(x.s, Wrap(n + 2), memory)
      BY <2>1
    <3>2. Wrap(n + 2) \in Int
      BY <1>1, WrapTyped
    <3> HIDE DEF g, n
    <3>3. QED
      BY <1>1, <3>1, <3>2, ballocTyped
  <2>2. CASE ~ (n > Size(x.s.m) - 2)
    BY <1>1, <2>2, KeptGives
  <2>3. QED
    BY <2>1, <2>2
<1> HIDE DEF g, n
<1>5. CASE x.line = <<>>
  BY <1>3, <1>5 DEF GetStates
<1>6. CASE x.line # <<>> /\ ~ g.ok
  BY <1>3, <1>6 DEF GetStates
<1>7. CASE x.line # <<>> /\ g.ok
  <2>1. Head(x.line) \in Chars /\ Tail(x.line) \in Seq(Chars)
    BY <1>1, <1>7
  <2> DEFINE w == Write(g.m, n, <<Head(x.line)>>)
  <2>2. w \in Blocks
    <3>1. <<Head(x.line)>> \in Seq(Byte)
      BY <2>1, CharsAreBytes
    <3>2. QED
      BY <1>1, <1>4, <3>1, WriteTyped
  <2> HIDE DEF w
  <2>3. GetByte(memory, x) = [x EXCEPT !.s = [m |-> w, slen |-> n + 1], !.line = Tail(@)]
    BY <1>3, <1>7 DEF w
  <2>4. [m |-> w, slen |-> n + 1] \in Strings
    BY <1>1, <2>2, MakeString
  <2>5. GetByte(memory, x) = [on |-> x.on, rc |-> x.rc, s |-> [m |-> w, slen |-> n + 1], line |-> Tail(x.line)]
    BY <1>2, <2>3
  <2>6. QED
    BY <1>1, <2>1, <2>4, <2>5 DEF GetStates
<1>8. QED
  BY <1>5, <1>6, <1>7

(* It reads a byte and keeps room for the `\0'.                            *)
LEMMA GetByteReads ==
  ASSUME NEW x \in Reading, x.on, NEW memory
  PROVE  /\ GetByte(memory, x) \in Reading
         /\ GetByte(memory, x).on => Len(GetByte(memory, x).line) < Len(x.line)
<1> DEFINE n == x.s.slen
           g == IF n > Size(x.s.m) - 2 THEN balloc(x.s, Wrap(n + 2), memory) ELSE Kept(x.s.m)
           y == GetByte(memory, x)
<1>1. /\ x \in GetStates /\ Proper(x.s) /\ n < Size(x.s.m) /\ x.rc = 0
      /\ x.s \in Strings /\ x.line \in Seq(Chars)
      /\ x = [on |-> x.on, rc |-> x.rc, s |-> x.s, line |-> x.line]
  BY DEF Reading, GetStates
<1>2. n \in Nat /\ Size(x.s.m) \in Nat /\ Size(x.s.m) <= MaxInt /\ MaxInt \in Nat
      /\ Fit(x.s.m) /\ Clean(x.s.m, 0, n)
  BY <1>1, StringFields DEF Proper
<1>3. y = IF x.line = <<>> THEN [x EXCEPT !.on = FALSE]
          ELSE IF ~ g.ok THEN [x EXCEPT !.on = FALSE, !.rc = ERR]
          ELSE [x EXCEPT !.s = [m |-> Write(g.m, n, <<Head(x.line)>>), slen |-> n + 1], !.line = Tail(@)]
  BY DEF GetByte
<1>4. Fit(g.m) /\ Clean(g.m, 0, n) /\ Size(g.m) \in Nat /\ (g.ok => Size(g.m) >= n + 2)
  <2>1. CASE n > Size(x.s.m) - 2
    <3>1. g = balloc(x.s, Wrap(n + 2), memory)
      BY <2>1
    <3>2. n + 2 \in Nat /\ n + 2 <= 2 * MaxInt + 1
      BY <1>1, <1>2
    <3> HIDE DEF g
    <3>3. QED
      BY <1>1, <3>1, <3>2, Room
  <2>2. CASE ~ (n > Size(x.s.m) - 2)
    <3>1. g.m = x.s.m
      BY <2>2, KeptGives
    <3> HIDE DEF g
    <3>2. QED
      BY <1>2, <2>2, <3>1
  <2>3. QED
    BY <2>1, <2>2
<1>5. y \in GetStates
  BY <1>1, GetByteTyped
<1> HIDE DEF g, n, y
<1>6. CASE x.line = <<>>
  <2>1. y = [on |-> FALSE, rc |-> x.rc, s |-> x.s, line |-> x.line]
    BY <1>1, <1>3, <1>6
  <2>2. QED
    BY <1>1, <1>5, <2>1 DEF Reading, n, y
<1>7. CASE x.line # <<>> /\ ~ g.ok
  <2>1. y = [on |-> FALSE, rc |-> ERR, s |-> x.s, line |-> x.line]
    BY <1>1, <1>3, <1>7
  <2>2. QED
    BY <1>1, <1>5, <2>1 DEF Reading, n, y
<1>8. CASE x.line # <<>> /\ g.ok
  <2>1. Head(x.line) \in Chars /\ Len(Tail(x.line)) < Len(x.line)
    BY <1>1, <1>8
  <2> DEFINE u == <<Head(x.line)>>
             w == Write(g.m, n, u)
  <2>2. u \in Seq(Chars) /\ Len(u) = 1
    BY <2>1
  <2> HIDE DEF u
  <2>3. /\ n + Len(u) <= Size(g.m) /\ n + 1 \in Int /\ n + 1 <= Size(g.m) /\ n + 1 < Size(g.m)
        /\ \A k \in 1..n + 1 : k <= n \/ k > n + Len(u) => g.m.at[k] \in Chars
    BY <1>2, <1>4, <1>8, <2>2 DEF Clean
  <2>4. Fit(w) /\ Size(w) = Size(g.m) /\ Clean(w, 0, n + 1)
    BY <1>2, <1>4, <2>2, <2>3, WrittenClean
  <2>5. y = [x EXCEPT !.s = [m |-> w, slen |-> n + 1], !.line = Tail(@)]
    BY <1>3, <1>8 DEF u
  <2> HIDE DEF w
  <2>6. y = [on |-> x.on, rc |-> x.rc, s |-> [m |-> w, slen |-> n + 1], line |-> Tail(x.line)]
    BY <1>1, <2>5
  <2>7. [m |-> w, slen |-> n + 1] \in Strings
    BY <2>3, <2>4, MakeString DEF Fit
  <2>8. Proper([m |-> w, slen |-> n + 1]) /\ n + 1 < Size(w)
    BY <1>2, <1>4, <2>3, <2>4, <2>7 DEF Proper
  <2>9. QED
    BY <1>1, <1>5, <2>1, <2>6, <2>8 DEF Reading, y
<1>9. QED
  BY <1>6, <1>7, <1>8

(* The loop reads the whole line or stops for want of memory.              *)
LEMMA GetBytesSane ==
  ASSUME NEW s, Proper(s), s.slen < Size(s.m), NEW line \in Seq(Chars), NEW memory
  PROVE  LET r == GetBytes(s, line, memory) IN Half(r) \/ Sane(r)
<1> DEFINE body == [x \in GetStates |-> GetByte(memory, x)]
           left == [x \in Reading |-> IF x.on THEN Len(x.line) + 1 ELSE 0]
           start == [on |-> TRUE, rc |-> 0, s |-> s, line |-> line]
           e == While(body, start)
<1>1. body \in [GetStates -> GetStates]
  BY GetByteTyped
<1>2. Reading \in SUBSET GetStates
  BY DEF Reading
<1>3. left \in [Reading -> Nat]
  BY <1>2 DEF GetStates
<1>4. ASSUME NEW x \in Reading, x.on PROVE body[x] \in Reading /\ left[body[x]] < left[x]
  <2>1. x \in GetStates
    BY <1>2
  <2> DEFINE y == GetByte(memory, x)
  <2>2. body[x] = y
    BY <2>1
  <2>3. y \in Reading /\ (y.on => Len(y.line) < Len(x.line))
    BY <1>4, GetByteReads
  <2>4. x.line \in Seq(Chars) /\ y.line \in Seq(Chars)
    BY <1>2, <2>3 DEF GetStates
  <2> HIDE DEF y, body
  <2>5. left[x] = Len(x.line) + 1 /\ left[y] = IF y.on THEN Len(y.line) + 1 ELSE 0
    BY <1>4, <2>3
  <2>6. PICK a \in Nat, b \in Nat : a = Len(x.line) /\ b = Len(y.line)
    BY <2>4
  <2>7. left[y] < left[x]
    BY <2>3, <2>5, <2>6
  <2>8. QED
    BY <2>2, <2>3, <2>7
<1>5. start \in Reading
  <2>1. s \in Strings
    BY DEF Proper
  <2>2. QED
    BY <2>1 DEF Reading, GetStates
<1>6. \A x \in GetStates : x.on \in BOOLEAN
  BY DEF GetStates
<1> HIDE DEF left
<1>7. e \in Reading /\ ~ e.on
  <2> HIDE DEF body, start
  <2>1. QED
    BY <1>1, <1>2, <1>3, <1>4, <1>5, <1>6, WhileEnds
<1>8. GetBytes(s, line, memory) = IF e.rc < 0 THEN Refuse(e.s) ELSE Done(e.s.m, e.s.slen)
  BY DEF GetBytes, GetStates
<1> HIDE DEF e
<1>9. Proper(e.s) /\ e.s.slen < Size(e.s.m)
  BY <1>7 DEF Reading
<1>10. Half(Refuse(e.s))
  BY <1>9, Refuses
<1>11. Sane(Done(e.s.m, e.s.slen))
  <2>1. e.s.slen \in Nat /\ Fit(e.s.m) /\ Clean(e.s.m, 0, e.s.slen)
    BY <1>9, StringFields DEF Proper
  <2>2. QED
    BY <1>9, <2>1, DoneSane
<1>12. QED
  BY <1>8, <1>10, <1>11

(* A line is a part of what the stream has.                                *)
LEMMA LineGives ==
  ASSUME NEW d \in Seq(Chars), NEW c
  PROVE  Line(d, c) \in Seq(Chars)
<1> DEFINE E == {k \in Positions(d) : At(d, k) = c}
           i == Least(E)
<1>1. Line(d, c) = IF i = ERR THEN d ELSE SubSeq(d, 1, i + 1)
  BY DEF Line
<1>2. CASE E = {}
  BY <1>1, <1>2 DEF Least
<1>3. CASE E # {}
  <2>1. E \in SUBSET Nat
    BY DEF Positions
  <2>2. i \in E
    <3> HIDE DEF E
    <3>1. QED
      BY <1>3, <2>1, LeastMember
  <2>3. i + 1 \in Int /\ i + 1 <= Len(d)
    BY <2>2 DEF Positions
  <2> HIDE DEF i, E
  <2>4. SubSeq(d, 1, i + 1) \in Seq(Chars)
    BY <2>3, Sub
  <2>5. QED
    BY <1>1, <2>4
<1>4. QED
  BY <1>2, <1>3

(* Its result is sound or half written.                                    *)
LEMMA GetBytesGives ==
  ASSUME NEW s, NEW line, NEW memory
  PROVE  LET r == GetBytes(s, line, memory) IN r = [rc |-> r.rc, s |-> r.s]
<1>1. \E m, n, t : GetBytes(s, line, memory) = Refuse(t) \/ GetBytes(s, line, memory) = Done(m, n)
  BY DEF GetBytes
<1>2. QED
  BY <1>1 DEF Refuse, Done

(* So is that of its callers.                                              *)
LEMMA GotSane ==
  ASSUME NEW r, Half(r) \/ Sane(r), r = [rc |-> r.rc, s |-> r.s]
  PROVE  Half(Got(r)) \/ Sane(Got(r))
<1>1. CASE Half(r)
  BY <1>1 DEF Got, Half, ERR
<1>2. CASE Sane(r) /\ r.rc = 0 /\ r.s.slen = 0
  <2>1. Got(r) = [r EXCEPT !.rc = 1]
    BY <1>2 DEF Got
  <2>2. Got(r).rc = 1 /\ Got(r).s = r.s
    BY <2>1
  <2>3. QED
    BY <1>2, <2>2 DEF Sane
<1>3. CASE Sane(r) /\ ~ (r.rc = 0 /\ r.s.slen = 0)
  BY <1>3 DEF Got
<1>4. QED
  BY <1>1, <1>2, <1>3

(* bgetsa gives a sound string or one that is half written.                *)
LEMMA bgetsaSane ==
  ASSUME NEW s, Sound(s), NEW d \in Seq(Chars), NEW c, NEW memory
  PROVE  LET r == bgetsa(s, d, c, memory) IN Half(r) \/ Sane(r)
<1>1. Proper(s) /\ s.slen < Size(s.m) /\ Line(d, c) \in Seq(Chars)
  BY SoundFacts, LineGives
<1>2. Half(GetBytes(s, Line(d, c), memory)) \/ Sane(GetBytes(s, Line(d, c), memory))
  BY <1>1, GetBytesSane
<1>3. QED
  BY <1>2, GetBytesGives, GotSane DEF bgetsa

(* So does bassigngets.                                                    *)
LEMMA bassigngetsSane ==
  ASSUME NEW s, Sound(s), NEW d \in Seq(Chars), NEW c, NEW memory
  PROVE  LET r == bassigngets(s, d, c, memory) IN Half(r) \/ Sane(r)
<1> DEFINE t == [s EXCEPT !.slen = 0]
<1>1. /\ Fit(s.m) /\ s.m \in Blocks /\ s.slen \in Nat /\ Size(s.m) \in Nat /\ s.slen < Size(s.m)
      /\ s = [m |-> s.m, slen |-> s.slen] /\ Line(d, c) \in Seq(Chars)
  BY SoundFacts, LineGives
<1>2. t = [m |-> s.m, slen |-> 0]
  BY <1>1
<1>3. t \in Strings
  BY <1>1, <1>2, MakeString
<1> HIDE DEF t
<1>4. Proper(t) /\ t.slen < Size(t.m)
  BY <1>1, <1>2, <1>3 DEF Proper, Clean
<1>5. Half(GetBytes(t, Line(d, c), memory)) \/ Sane(GetBytes(t, Line(d, c), memory))
  BY <1>1, <1>4, GetBytesSane
<1>6. QED
  BY <1>5, GetBytesGives, GotSane DEF bassigngets, t

(* bfromcstr("") makes a sound string.                                     *)
LEMMA EmptyString ==
  ASSUME NEW memory, ~ (bfromcstr(<<>>, memory).rc < 0)
  PROVE  Sound(bfromcstr(<<>>, memory).s)
<1>1. <<>> \in Seq(Chars) /\ Len(<<>>) < MaxInt
  BY SizesAreInts
<1>2. Good(bfromcstr(<<>>, memory), None)
  BY <1>1, bfromcstrSane
<1>3. QED
  BY <1>2 DEF Good, Refusal, Sane, ERR

(* bgets makes a sound string or returns NULL.                             *)
LEMMA bgetsSane ==
  ASSUME NEW s, NEW d \in Seq(Chars), NEW c, NEW memory
  PROVE  Good(bgets(d, c, memory), s)
<1> DEFINE b == bfromcstr(<<>>, memory)
           r == bgetsa(b.s, d, c, memory)
<1>1. bgets(d, c, memory) = IF b.rc < 0 THEN Refuse(None)
                            ELSE IF r.rc < 0 \/ r.s.slen <= 0 THEN Refuse(None) ELSE r
  BY DEF bgets
<1>2. ~ (b.rc < 0) => Half(r) \/ Sane(r)
  BY EmptyString, bgetsaSane
<1> HIDE DEF r, b
<1>3. QED
  BY <1>1, <1>2, Refuses DEF Good, Half, ERR

BlockStates == [on : BOOLEAN, rc : {0, ERR}, s : Strings, n : Int, data : Seq(Chars)]
\* The loop of breada has read slen characters, and goes on to n, or n is too big.
Filling == {x \in BlockStates : /\ Proper(x.s) /\ x.n \in Ints
                                /\ x.on => x.rc = 0 /\ (x.n < 0 \/ x.n > x.s.slen)
                                /\ ~ x.on /\ x.rc = 0 => x.s.slen < Size(x.s.m)}

\* What a step of the loop of breada does.
Reads(x, memory) ==
  LET g == balloc(x.s, Wrap(x.n + 1), memory)
      room == AtLeast(x.n - x.s.slen, 0)
      l == IF Len(x.data) < room THEN Len(x.data) ELSE room
      more == IF x.n < BufferSize THEN x.n ELSE BufferSize
      y == ReadBlock(memory, x)
  IN  /\ g.m \in Blocks
      /\ l \in Nat /\ l <= room /\ room \in Nat /\ (room > 0 => room = x.n - x.s.slen)
      /\ SubSeq(x.data, 1, l) \in Seq(Chars) /\ Len(SubSeq(x.data, 1, l)) = l
      /\ more \in Int
      /\ ~ g.ok => y = [x EXCEPT !.on = FALSE, !.rc = ERR]
      /\ g.ok => y = [on |-> x.s.slen + l >= x.n, rc |-> 0,
                      s |-> [m |-> Write(g.m, x.s.slen, SubSeq(x.data, 1, l)), slen |-> x.s.slen + l],
                      n |-> Wrap(x.n + more), data |-> SubSeq(x.data, l + 1, Len(x.data))]
      /\ y \in BlockStates

(* It gives a state of the loop.                                           *)
LEMMA ReadBlockGives ==
  ASSUME NEW x \in BlockStates, NEW memory
  PROVE  Reads(x, memory)
<1> DEFINE g == balloc(x.s, Wrap(x.n + 1), memory)
           room == AtLeast(x.n - x.s.slen, 0)
           l == IF Len(x.data) < room THEN Len(x.data) ELSE room
           more == IF x.n < BufferSize THEN x.n ELSE BufferSize
           a == SubSeq(x.data, 1, l)
           b == SubSeq(x.data, l + 1, Len(x.data))
           w == Write(g.m, x.s.slen, a)
           y == ReadBlock(memory, x)
<1>1. /\ x.s \in Strings /\ x.s.slen \in Int /\ x.n \in Int /\ x.data \in Seq(Chars)
      /\ x.rc \in {0, ERR} /\ x.on \in BOOLEAN
      /\ x = [on |-> x.on, rc |-> x.rc, s |-> x.s, n |-> x.n, data |-> x.data]
  BY StringTyped DEF BlockStates
<1>2. room \in Nat /\ (room > 0 => room = x.n - x.s.slen)
  BY <1>1 DEF AtLeast
<1>3. PICK k \in Nat : k = Len(x.data)
  BY <1>1
<1> HIDE DEF room
<1>4. l \in Nat /\ l <= room /\ l <= k
  BY <1>2, <1>3
<1> HIDE DEF l
<1>5. a \in Seq(Chars) /\ Len(a) = l
  <2>1. l \in Int /\ l <= Len(x.data)
    BY <1>3, <1>4
  <2>2. a \in Seq(Chars) /\ Len(a) = IF 1 <= l THEN l - 1 + 1 ELSE 0
    BY <1>1, <2>1, Sub
  <2>3. (IF 1 <= l THEN l - 1 + 1 ELSE 0) = l
    BY <1>4
  <2>4. QED
    BY <2>2, <2>3
<1>6. b \in Seq(Chars)
  <2>1. l + 1 \in Int /\ l + 1 >= 1 /\ Len(x.data) \in Int /\ Len(x.data) <= Len(x.data)
    BY <1>3, <1>4
  <2>2. QED
    BY <1>1, <2>1, Sub
<1>7. more \in Int
  BY <1>1, SizesAreInts
<1>8. g.m \in Blocks
  <2>1. Wrap(x.n + 1) \in Int
    BY <1>1, WrapTyped
  <2>2. QED
    BY <1>1, <2>1, ballocTyped
<1>9. y = IF ~ g.ok THEN [x EXCEPT !.on = FALSE, !.rc = ERR]
          ELSE [on |-> x.s.slen + l >= x.n, rc |-> 0, s |-> [m |-> w, slen |-> x.s.slen + l],
                n |-> Wrap(x.n + more), data |-> b]
  BY DEF ReadBlock, l, room
<1> HIDE DEF g, a, b, more, y
<1>10. w \in Blocks
  <2>1. a \in Seq(Byte)
    BY <1>5, TextsAreBytes
  <2>2. QED
    BY <1>1, <1>8, <2>1, WriteTyped
<1> HIDE DEF w
<1>11. y \in BlockStates
  <2>1. CASE ~ g.ok
    BY <1>1, <1>9, <2>1 DEF BlockStates
  <2>2. CASE g.ok
    <3>1. [m |-> w, slen |-> x.s.slen + l] \in Strings
      BY <1>1, <1>4, <1>10, MakeString
    <3>2. Wrap(x.n + more) \in Int
      BY <1>1, <1>7, WrapTyped
    <3>3. QED
      BY <1>6, <1>9, <2>2, <3>1, <3>2 DEF BlockStates
  <2>3. QED
    BY <2>1, <2>2
<1>12. QED
  BY <1>2, <1>4, <1>5, <1>7, <1>8, <1>9, <1>11 DEF Reads, g, room, l, more, a, b, w, y

(* It fills its room or is the last one.                                   *)
LEMMA ReadBlockFills ==
  ASSUME NEW x \in Filling, x.on, NEW memory
  PROVE  LET y == ReadBlock(memory, x) IN y \in Filling /\ (y.on => y.s.slen > x.s.slen)
<1> DEFINE n == x.n
           k == x.s.slen
           g == balloc(x.s, Wrap(n + 1), memory)
           room == AtLeast(n - k, 0)
           l == IF Len(x.data) < room THEN Len(x.data) ELSE room
           more == IF n < BufferSize THEN n ELSE BufferSize
           u == SubSeq(x.data, 1, l)
           w == Write(g.m, k, u)
           y == ReadBlock(memory, x)
<1>1. /\ x \in BlockStates /\ x.s \in Strings /\ Proper(x.s) /\ n \in Ints /\ n \in Int /\ x.rc = 0
      /\ n < 0 \/ n > k
      /\ x = [on |-> x.on, rc |-> x.rc, s |-> x.s, n |-> x.n, data |-> x.data]
  BY SizesAreInts DEF Filling, BlockStates, Ints
<1>2. /\ k \in Nat /\ Size(x.s.m) \in Nat /\ k <= Size(x.s.m) /\ Size(x.s.m) <= MaxInt /\ MaxInt \in Nat
      /\ Clean(x.s.m, 0, k)
  BY <1>1, StringFields DEF Proper
<1>3. n <= MaxInt /\ n >= -(MaxInt + 1)
  BY <1>1, <1>2 DEF Ints
<1>4. /\ g.m \in Blocks
      /\ l \in Nat /\ l <= room /\ room \in Nat /\ (room > 0 => room = n - k)
      /\ u \in Seq(Chars) /\ Len(u) = l
      /\ ~ g.ok => y = [x EXCEPT !.on = FALSE, !.rc = ERR]
      /\ g.ok => y = [on |-> k + l >= n, rc |-> 0, s |-> [m |-> w, slen |-> k + l],
                      n |-> Wrap(n + more), data |-> SubSeq(x.data, l + 1, Len(x.data))]
      /\ y \in BlockStates
  <2>1. Reads(x, memory)
    BY <1>1, ReadBlockGives
  <2>2. QED
    BY <2>1 DEF Reads
<1> HIDE DEF n, l, y, u, room
<1>5. CASE ~ g.ok
  <2>1. y.on = FALSE /\ y.rc = ERR /\ y.s = x.s /\ y.n = n
    <3> HIDE DEF g
    <3>1. y = [on |-> FALSE, rc |-> ERR, s |-> x.s, n |-> x.n, data |-> x.data]
      BY <1>1, <1>4, <1>5
    <3>2. QED
      BY <3>1 DEF n
  <2>2. QED
    BY <1>1, <1>4, <2>1 DEF Filling, y, ERR
<1>6. CASE g.ok
  <2>1. Wrap(n + 1) > 0
    <3>1. Wrap(n + 1) \in Int
      BY <1>1, WrapTyped
    <3>2. ~ (Wrap(n + 1) <= 0)
      BY <1>6 DEF balloc, Unavailable
    <3>3. QED
      BY <3>1, <3>2
  <2>2. n >= 0 /\ n < MaxInt /\ Wrap(n + 1) = n + 1
    <3>1. n + 1 \in Int /\ n + 1 <= 2 * MaxInt + 1
      BY <1>1, <1>2, <1>3
    <3>2. n + 1 \in Ints => Wrap(n + 1) = n + 1
      BY <3>1, Wraps
    <3>3. n + 1 > MaxInt => Wrap(n + 1) < 0
      BY <3>1, Wraps
    <3>4. Wrap(n + 1) \in Int
      BY <3>1, WrapTyped
    <3>5. n + 1 <= MaxInt
      BY <2>1, <3>1, <3>3, <3>4, <1>2
    <3>6. n + 1 \in Ints
      BY <3>5, <1>1, <1>2, <1>3 DEF Ints
    <3>7. QED
      BY <2>1, <3>2, <3>5, <3>6, <1>1, <1>2
  <2>3. n > k
    BY <1>1, <2>2
  <2>4. n + 1 \in Ints /\ k < n + 1
    BY <1>1, <1>2, <2>2, <2>3 DEF Ints
  <2>5. g = balloc(x.s, n + 1, memory)
    BY <2>2
  <2> HIDE DEF g
  <2>6. Fit(g.m) /\ Size(g.m) >= n + 1 /\ \A i \in 1..k : g.m.at[i] = x.s.m.at[i]
    BY <1>1, <1>6, <2>4, <2>5, ballocGives
  <2>7. Size(g.m) \in Nat
    BY <2>6, BlockSize DEF Fit
  <2>8. l <= n - k /\ k + l <= n /\ k + l < Size(g.m)
    <3>1. l <= n - k
      BY <1>1, <1>2, <1>4, <2>3
    <3>2. QED
      BY <3>1, <1>1, <1>2, <1>4, <2>6, <2>7
  <2>9. /\ k + Len(u) <= Size(g.m) /\ k + l \in Int /\ k + l <= Size(g.m)
        /\ \A i \in 1..k + l : i <= k \/ i > k + Len(u) => g.m.at[i] \in Chars
    BY <1>2, <1>4, <2>6, <2>7, <2>8, SMTT(60) DEF Clean
  <2>10. Fit(w) /\ Size(w) = Size(g.m) /\ Clean(w, 0, k + l)
    BY <1>2, <1>4, <2>6, <2>9, WrittenClean
  <2>11. y.on = (k + l >= n) /\ y.rc = 0 /\ y.s = [m |-> w, slen |-> k + l] /\ y.n = Wrap(n + more)
    BY <1>4, <1>6
  <2> HIDE DEF w
  <2>12. [m |-> w, slen |-> k + l] \in Strings
    BY <2>9, <2>10, MakeString DEF Fit
  <2>13. Proper(y.s) /\ y.s.slen = k + l /\ Size(y.s.m) = Size(g.m)
    BY <1>2, <1>4, <2>7, <2>8, <2>10, <2>11, <2>12 DEF Proper
  <2>14. y.n \in Ints /\ (y.n < 0 \/ y.n > n)
    <3>1. more \in Nat /\ more >= 1 /\ more <= MaxInt
      BY <1>1, <1>2, <2>2, <2>3, SizesAreInts
    <3> HIDE DEF more
    <3>2. n + more \in Int /\ n + more <= 2 * MaxInt + 1
      BY <1>1, <1>2, <2>2, <3>1
    <3>3. Wrap(n + more) \in Ints
      BY <3>2, Wraps
    <3>4. n + more \in Ints => Wrap(n + more) = n + more
      BY <3>2, Wraps
    <3>5. n + more > MaxInt => Wrap(n + more) < 0
      BY <3>2, Wraps
    <3>6. n + more <= MaxInt => n + more \in Ints
      BY <1>1, <1>2, <2>2, <3>1 DEF Ints
    <3>7. n \in Int /\ MaxInt \in Nat /\ y.n = Wrap(n + more)
      BY <1>1, <1>2, <2>11
    <3>8. CASE n + more <= MaxInt
      <4>1. y.n = n + more
        BY <3>4, <3>6, <3>7, <3>8
      <4>2. QED
        BY <3>1, <3>3, <3>7, <4>1
    <3>9. CASE ~ (n + more <= MaxInt)
      <4>1. Wrap(n + more) < 0
        BY <3>2, <3>5, <3>7, <3>9
      <4>2. QED
        BY <3>3, <3>7, <4>1
    <3>10. QED
      BY <3>8, <3>9
  <2> HIDE DEF more
  <2>15. y.on => k + l = n
    <3>1. y.on => k + l >= n
      BY <2>11, Zenon
    <3>2. QED
      BY <1>1, <1>2, <1>4, <2>8, <3>1
  <2>16. y.on => (y.n < 0 \/ y.n > y.s.slen) /\ y.s.slen > k
    BY <2>3, <2>13, <2>14, <2>15
  <2>17. y \in Filling
    BY <1>4, <2>8, <2>11, <2>13, <2>14, <2>16 DEF Filling
  <2>18. QED
    BY <2>16, <2>17 DEF y
<1>7. QED
  BY <1>5, <1>6

(* breada gives a sound string or one that is half written.                *)
LEMMA breadaSane ==
  ASSUME NEW s, Sound(s), NEW data \in Seq(Chars), NEW memory
  PROVE  LET r == breada(s, data, memory) IN Half(r) \/ Sane(r)
<1> DEFINE body == [x \in BlockStates |-> ReadBlock(memory, x)]
           left == [x \in Filling |-> IF x.on THEN MaxInt + 1 - x.s.slen ELSE 0]
           n == Wrap(s.slen + Chunk)
           start == [on |-> TRUE, rc |-> 0, s |-> s, n |-> n, data |-> data]
           e == While(body, start)
<1>1. \A x \in BlockStates : ReadBlock(memory, x) \in BlockStates
  BY ReadBlockGives DEF Reads
<1>2. body \in [BlockStates -> BlockStates]
  BY <1>1
<1>3. Filling \in SUBSET BlockStates
  BY DEF Filling
<1>4. \A x \in Filling : x.s.slen \in Nat /\ x.s.slen <= MaxInt /\ MaxInt \in Nat
  BY StringFields DEF Filling
<1>5. left \in [Filling -> Nat]
  <2>1. \A x \in Filling : MaxInt + 1 - x.s.slen \in Nat
    BY <1>4
  <2>2. QED
    BY <2>1
<1>6. ASSUME NEW x \in Filling, x.on PROVE body[x] \in Filling /\ left[body[x]] < left[x]
  <2> DEFINE y == ReadBlock(memory, x)
  <2>1. body[x] = y
    BY <1>3
  <2>2. y \in Filling /\ (y.on => y.s.slen > x.s.slen)
    BY <1>6, ReadBlockFills
  <2> HIDE DEF y, body
  <2>3. left[x] = MaxInt + 1 - x.s.slen /\ left[y] = IF y.on THEN MaxInt + 1 - y.s.slen ELSE 0
    BY <1>6, <2>2
  <2>4. /\ x.s.slen \in Nat /\ x.s.slen <= MaxInt /\ MaxInt \in Nat /\ y.s.slen \in Nat
    BY <1>4, <2>2
  <2> HIDE DEF left
  <2>5. left[y] < left[x]
    BY <2>2, <2>3, <2>4
  <2>6. QED
    BY <2>1, <2>2, <2>5
<1>7. start \in Filling
  <2>1. s \in Strings /\ Proper(s) /\ s.slen \in Nat /\ s.slen < MaxInt /\ MaxInt \in Nat
    BY SoundFacts DEF Proper
  <2>2. Chunk \in Nat /\ Chunk >= 1 /\ Chunk <= MaxInt
    BY SizesAreInts
  <2> DEFINE i == s.slen + Chunk
  <2>3. i \in Int /\ i <= 2 * MaxInt + 1 /\ i > s.slen /\ i >= 0
    BY <2>1, <2>2
  <2>4. i <= MaxInt => i \in Ints
    BY <2>1, <2>3 DEF Ints
  <2>5. n = Wrap(i)
    OBVIOUS
  <2> HIDE DEF i, n
  <2>6. n \in Ints /\ n \in Int
    BY <2>3, <2>5, Wraps, WrapTyped
  <2>7. i \in Ints => n = i
    BY <2>3, <2>5, Wraps
  <2>8. i > MaxInt => n < 0
    BY <2>3, <2>5, Wraps
  <2>9. n < 0 \/ n > s.slen
    BY <2>1, <2>3, <2>4, <2>7, <2>8
  <2>10. QED
    BY <2>1, <2>6, <2>9 DEF Filling, BlockStates
<1>8. \A x \in BlockStates : x.on \in BOOLEAN
  BY DEF BlockStates
<1> HIDE DEF left
<1>9. e \in Filling /\ ~ e.on
  <2> HIDE DEF body, start
  <2>1. QED
    BY <1>2, <1>3, <1>5, <1>6, <1>7, <1>8, WhileEnds
<1>10. breada(s, data, memory) = IF e.rc < 0 THEN Refuse(e.s) ELSE Done(e.s.m, e.s.slen)
  BY DEF breada, BlockStates
<1> HIDE DEF e
<1>11. Proper(e.s) /\ e.rc \in {0, ERR} /\ (e.rc = 0 => e.s.slen < Size(e.s.m))
  BY <1>9 DEF Filling, BlockStates
<1>12. Half(Refuse(e.s))
  BY <1>11, Refuses
<1>13. ASSUME e.rc = 0 PROVE Sane(Done(e.s.m, e.s.slen))
  <2>1. e.s.slen \in Int /\ e.s.slen >= 0 /\ Fit(e.s.m) /\ Clean(e.s.m, 0, e.s.slen)
    BY <1>11, StringFields DEF Proper
  <2>2. QED
    BY <1>11, <1>13, <2>1, DoneSane
<1>14. e.rc < 0 \/ e.rc = 0
  BY <1>11 DEF ERR
<1>15. QED
  BY <1>10, <1>12, <1>13, <1>14

(* bread makes a sound string or returns NULL.                             *)
LEMMA breadSane ==
  ASSUME NEW data \in Seq(Chars), NEW memory, NEW s
  PROVE  Good(bread(data, memory), s)
<1> DEFINE b == bfromcstr(<<>>, memory)
           r == breada(b.s, data, memory)
<1>1. bread(data, memory) = IF b.rc < 0 THEN Refuse(None)
                            ELSE IF r.rc < 0 THEN Refuse(None) ELSE r
  BY DEF bread
<1>2. ~ (b.rc < 0) => Half(r) \/ Sane(r)
  BY EmptyString, breadaSane
<1> HIDE DEF r, b
<1>3. QED
  BY <1>1, <1>2, Refuses DEF Good, Half, ERR

-----------------------------------------------------------------------------
(***************************************************************************)
(* findreplaceengine.                                                      *)
(***************************************************************************)
(* A match of findreplaceengine lies in the text from pos on.              *)
LEMMA instrGives ==
  ASSUME NEW m \in Blocks, NEW slen \in Nat, NEW pos \in Int, NEW u \in Seq(Chars), Len(u) >= 1,
         NEW caseless
  PROVE  LET i == instr(m, slen, pos, u, caseless)
         IN  i \in Int /\ (i = ERR \/ (i >= 0 /\ i >= pos /\ i + Len(u) <= slen))
<1> DEFINE t == Bytes(m, 0, slen)
           i == instr(m, slen, pos, u, caseless)
<1>1. t \in Seq(Byte) /\ Len(t) = slen
  BY BytesGive
<1>2. Len(u) \in Nat /\ (u = <<>> <=> Len(u) = 0)
  OBVIOUS
<1>3. i = IF caseless THEN binstrcaseless(t, pos, u, FALSE) ELSE binstr(t, pos, u, FALSE)
  BY DEF instr
<1> SUFFICES i \in Int /\ (i = ERR \/ (i >= 0 /\ i >= pos /\ i + Len(u) <= slen))
  OBVIOUS
<1> HIDE DEF t, i
<1>4. CASE pos < 0 \/ slen < pos
  <2>0. Len(t) # pos /\ (Len(t) < pos \/ pos < 0)
    BY <1>1, <1>4
  <2>1. binstr(t, pos, u, FALSE) = ERR
    BY <2>0, Zenon DEF binstr
  <2>2. binstrcaseless(t, pos, u, FALSE) = ERR
    BY <2>0, Zenon DEF binstrcaseless
  <2>3. i = ERR
    BY <1>3, <2>1, <2>2, Zenon
  <2>4. QED
    BY <2>3 DEF ERR
<1>5. CASE pos \in 0..slen
  <2>1. IsFirst(binstr(t, pos, u, FALSE), t, u, pos, FALSE)
    BY <1>1, <1>2, <1>5, binstrFinds
  <2>2. IsFirst(binstrcaseless(t, pos, u, FALSE), t, u, pos, TRUE)
    BY <1>1, <1>2, <1>5, binstrcaselessFinds
  <2>3. PICK c : IsFirst(i, t, u, pos, c)
    BY <1>3, <2>1, <2>2
  <2>4. i = ERR \/ (i >= pos /\ i \in 0..Len(t) - Len(u))
    BY <2>3 DEF IsFirst, Standing
  <2>5. QED
    BY <1>1, <1>2, <2>4 DEF ERR
<1>6. QED
  BY <1>4, <1>5

\* D: positions from pos on that are n characters and more apart.
Placed(D, n, pos) == /\ D \in Seq(Int) /\ Len(D) >= 1
                     /\ \A k \in 1..Len(D) : D[k] >= pos
                     /\ \A k \in 1..Len(D) - 1 : D[k] + n <= D[k + 1]

(* With one match more they still lie one behind the other.                *)
LEMMA PlacedNext ==
  ASSUME NEW d \in Seq(Int), NEW a \in Int, NEW n \in Nat, NEW pos \in Int, Placed(Append(d, a), n, pos),
         NEW b \in Int, a <= b
  PROVE  /\ Placed(Append(d, b), n, pos)
         /\ \A c \in Int : b + n <= c => Placed(Append(Append(d, b), c), n, pos)
<1> DEFINE D == Append(d, a)
           E == Append(d, b)
<1>1. PICK l \in Nat : l = Len(d)
  OBVIOUS
<1>2. /\ Len(D) = l + 1 /\ D[l + 1] = a /\ \A k \in 1..l : D[k] = d[k]
      /\ \A k \in 1..l : d[k] \in Int
  BY <1>1
<1>3. E \in Seq(Int) /\ Len(E) = l + 1 /\ E[l + 1] = b /\ \A k \in 1..l : E[k] = d[k]
  BY <1>1
<1>4. (\A k \in 1..l + 1 : D[k] >= pos) /\ \A k \in 1..l : D[k] + n <= D[k + 1]
  BY <1>2 DEF Placed
<1> HIDE DEF D
<1>5. \A k \in 1..l + 1 : E[k] >= pos
  BY <1>2, <1>3, <1>4
<1>6. \A k \in 1..l : E[k] + n <= E[k + 1]
  <2> TAKE k \in 1..l
  <2>1. D[k] + n <= D[k + 1] /\ D[k] = d[k] /\ E[k] = d[k] /\ d[k] \in Int
    BY <1>2, <1>3, <1>4
  <2>2. CASE k = l
    <3> HIDE DEF E
    <3>1. QED
      BY <1>2, <1>3, <2>1, <2>2
  <2>3. CASE k # l
    <3>1. k + 1 \in 1..l
      BY <2>3
    <3> HIDE DEF E
    <3>2. D[k + 1] = d[k + 1] /\ E[k + 1] = d[k + 1]
      BY <1>2, <1>3, <3>1
    <3>3. QED
      BY <2>1, <3>2
  <2>4. QED
    BY <2>2, <2>3
<1> HIDE DEF E
<1>7. Placed(E, n, pos)
  BY <1>1, <1>3, <1>5, <1>6 DEF Placed
<1>8. ASSUME NEW c \in Int, b + n <= c PROVE Placed(Append(E, c), n, pos)
  <2> DEFINE F == Append(E, c)
  <2>1. F \in Seq(Int) /\ Len(F) = l + 2 /\ F[l + 2] = c /\ \A k \in 1..l + 1 : F[k] = E[k]
    BY <1>1, <1>3
  <2> HIDE DEF F
  <2>2. b >= pos
    BY <1>3, <1>5
  <2>3. \A k \in 1..l + 2 : F[k] >= pos
    <3> TAKE k \in 1..l + 2
    <3>1. CASE k = l + 2
      BY <1>8, <2>1, <2>2, <3>1
    <3>2. CASE k # l + 2
      <4>1. k \in 1..l + 1
        BY <3>2
      <4>2. QED
        BY <1>5, <2>1, <4>1
    <3>3. QED
      BY <3>1, <3>2
  <2>4. \A k \in 1..l + 1 : F[k] + n <= F[k + 1]
    <3> TAKE k \in 1..l + 1
    <3>1. CASE k = l + 1
      BY <1>3, <1>8, <2>1, <3>1
    <3>2. CASE k # l + 1
      <4>1. k \in 1..l /\ k + 1 \in 1..l + 1
        BY <3>2
      <4>2. QED
        BY <1>6, <2>1, <4>1
    <3>3. QED
      BY <3>1, <3>2
  <2>5. Len(F) >= 1 /\ Len(F) - 1 = l + 1
    BY <2>1
  <2>6. QED
    BY <2>1, <2>3, <2>4, <2>5 DEF Placed, F
<1>9. QED
  BY <1>7, <1>8 DEF E

MatchStates == [on : BOOLEAN, pos : Int, d : Seq(Int)]
\* The matches so far lie before pos.
Taking(slen, n, from) == {x \in MatchStates : /\ x.pos >= 0 /\ x.pos <= slen
                                              /\ Placed(Append(x.d, x.pos), n, from)}

(* So they do after a step of the loop.                                    *)
LEMMA TakeMatchGives ==
  ASSUME NEW m \in Blocks, NEW slen \in Nat, NEW u \in Seq(Chars), Len(u) >= 1, NEW caseless,
         NEW x \in MatchStates
  PROVE  LET y == TakeMatch(m, slen, u, caseless, x) IN
         /\ y \in MatchStates
         /\ ~ y.on => y.pos = x.pos /\ y.d = x.d
         /\ y.on => /\ \E i \in Int : /\ i >= 0 /\ i >= x.pos /\ i + Len(u) <= slen
                                      /\ y.d = Append(x.d, i) /\ y.pos = i + Len(u)
<1> DEFINE i == instr(m, slen, x.pos, u, caseless)
           y == TakeMatch(m, slen, u, caseless, x)
<1>1. /\ x = [on |-> x.on, pos |-> x.pos, d |-> x.d] /\ x.pos \in Int /\ x.d \in Seq(Int)
      /\ Len(u) \in Nat
  BY DEF MatchStates
<1>2. i \in Int /\ (i = ERR \/ (i >= 0 /\ i >= x.pos /\ i + Len(u) <= slen))
  BY <1>1, instrGives
<1>3. y = IF i < 0 THEN [x EXCEPT !.on = FALSE]
          ELSE [on |-> TRUE, pos |-> i + Len(u), d |-> Append(x.d, i)]
  BY DEF TakeMatch
<1> HIDE DEF i
<1> SUFFICES /\ y \in MatchStates
             /\ ~ y.on => y.pos = x.pos /\ y.d = x.d
             /\ y.on => /\ \E j \in Int : /\ j >= 0 /\ j >= x.pos /\ j + Len(u) <= slen
                                          /\ y.d = Append(x.d, j) /\ y.pos = j + Len(u)
  OBVIOUS
<1> HIDE DEF y
<1>4. CASE i < 0
  <2>1. y = [on |-> FALSE, pos |-> x.pos, d |-> x.d]
    BY <1>1, <1>3, <1>4
  <2>2. QED
    BY <1>1, <2>1 DEF MatchStates
<1>5. CASE ~ (i < 0)
  <2>1. y = [on |-> TRUE, pos |-> i + Len(u), d |-> Append(x.d, i)]
    BY <1>3, <1>5
  <2>2. i >= 0 /\ i >= x.pos /\ i + Len(u) <= slen
    BY <1>2, <1>5 DEF ERR
  <2>3. Append(x.d, i) \in Seq(Int) /\ i + Len(u) \in Int
    BY <1>1, <1>2
  <2>4. y \in MatchStates
    BY <2>1, <2>3 DEF MatchStates
  <2>5. y.on /\ y.d = Append(x.d, i) /\ y.pos = i + Len(u)
    BY <2>1
  <2>6. QED
    BY <1>2, <2>2, <2>4, <2>5
<1>6. QED
  BY <1>4, <1>5

(* And when it ends.                                                       *)
LEMMA MatchesPlaced ==
  ASSUME NEW s, Sound(s), NEW pos \in Nat, pos <= s.slen, NEW u \in Seq(Chars), Len(u) >= 1, NEW caseless
  PROVE  Matches(s, pos, u, caseless) \in Seq(Int)
         /\ Placed(Append(Matches(s, pos, u, caseless), s.slen), Len(u), pos)
<1> DEFINE slen == s.slen
           n == Len(u)
           I == Taking(slen, n, pos)
           body == [x \in MatchStates |-> TakeMatch(s.m, slen, u, caseless, x)]
           left == [x \in I |-> IF x.on THEN slen + 1 - x.pos ELSE 0]
           start == [on |-> TRUE, pos |-> pos, d |-> <<>>]
           e == While(body, start)
<1>1. s.m \in Blocks /\ slen \in Nat /\ n \in Nat /\ n >= 1
  BY SoundFacts
<1>2. body \in [MatchStates -> MatchStates]
  BY <1>1, TakeMatchGives
<1>3. I \in SUBSET MatchStates
  BY DEF Taking
<1>4. \A x \in I : x.pos \in Nat /\ x.pos <= slen
  BY DEF Taking, MatchStates
<1>5. left \in [I -> Nat]
  <2>1. \A x \in I : slen + 1 - x.pos \in Nat
    BY <1>1, <1>4
  <2> HIDE DEF I
  <2>2. QED
    BY <2>1
<1>6. ASSUME NEW x \in I, x.on PROVE body[x] \in I /\ left[body[x]] < left[x]
  <2> DEFINE y == TakeMatch(s.m, slen, u, caseless, x)
  <2>1. body[x] = y
    BY <1>3
  <2>2. x \in MatchStates /\ x.d \in Seq(Int) /\ x.pos \in Nat /\ x.pos <= slen /\ Placed(Append(x.d, x.pos), n, pos)
    BY DEF Taking, MatchStates
  <2>3. /\ y \in MatchStates
        /\ ~ y.on => y.pos = x.pos /\ y.d = x.d
        /\ y.on => /\ \E i \in Int : /\ i >= 0 /\ i >= x.pos /\ i + n <= slen
                                     /\ y.d = Append(x.d, i) /\ y.pos = i + n
    BY <1>1, <2>2, TakeMatchGives
  <2> HIDE DEF y, body, left, n, slen
  <2>4. y \in I /\ (y.on => y.pos > x.pos)
    <3>1. CASE ~ y.on
      BY <2>2, <2>3, <3>1 DEF Taking
    <3>2. CASE y.on
      <4>1. PICK i \in Int : /\ i >= 0 /\ i >= x.pos /\ i + n <= slen
                             /\ y.d = Append(x.d, i) /\ y.pos = i + n
        BY <2>3, <3>2
      <4>2. Placed(Append(Append(x.d, i), i + n), n, pos)
        <5>1. x.pos \in Int /\ pos \in Int /\ i + n \in Int /\ x.pos <= i /\ i + n <= i + n
          BY <1>1, <2>2, <4>1
        <5>2. QED
          BY <1>1, <2>2, <5>1, PlacedNext
      <4>3. y.pos >= 0 /\ y.pos <= slen /\ y.pos > x.pos
        BY <1>1, <2>2, <4>1
      <4>4. QED
        BY <2>3, <4>1, <4>2, <4>3 DEF Taking
    <3>3. QED
      BY <3>1, <3>2
  <2>5. left[x] = slen + 1 - x.pos /\ left[y] = IF y.on THEN slen + 1 - y.pos ELSE 0
    BY <1>6, <2>4 DEF left
  <2>6. y.pos \in Nat
    BY <1>4, <2>4
  <2>7. left[y] < left[x]
    BY <1>1, <2>2, <2>4, <2>5, <2>6
  <2>8. QED
    BY <2>1, <2>4, <2>7
<1>7. start \in I
  <2> DEFINE D == Append(<<>>, pos)
  <2>1. D \in Seq(Int) /\ Len(D) = 1 /\ D[1] = pos
    OBVIOUS
  <2> HIDE DEF D
  <2>2. Placed(D, n, pos)
    BY <2>1 DEF Placed
  <2>3. start \in MatchStates /\ start.pos = pos /\ start.d = <<>>
    BY DEF MatchStates
  <2> HIDE DEF start
  <2>4. Placed(Append(start.d, start.pos), n, pos)
    BY <2>2, <2>3 DEF D
  <2>5. start.pos >= 0 /\ start.pos <= slen
    BY <2>3
  <2> HIDE DEF n, slen
  <2>6. QED
    BY <2>3, <2>4, <2>5 DEF Taking
<1>8. \A x \in MatchStates : x.on \in BOOLEAN
  BY DEF MatchStates
<1> HIDE DEF left, I
<1>9. e \in I
  <2> HIDE DEF body, start
  <2>1. QED
    BY <1>2, <1>3, <1>5, <1>6, <1>7, <1>8, WhileEnds
<1>10. Matches(s, pos, u, caseless) = e.d
  BY DEF Matches, MatchStates
<1> HIDE DEF e
<1>11. e.d \in Seq(Int) /\ e.pos \in Int /\ e.pos <= slen /\ Placed(Append(e.d, e.pos), n, pos)
  BY <1>9 DEF I, Taking, MatchStates
<1> HIDE DEF n
<1>12. Placed(Append(e.d, slen), n, pos)
  BY <1>1, <1>11, PlacedNext
<1>13. QED
  BY <1>10, <1>11, <1>12 DEF n

(* A move inside of the text leaves characters.                            *)
LEMMA MovedClean ==
  ASSUME NEW m, NEW slen \in Nat, slen <= Size(m), Clean(m, 0, slen),
         NEW to, NEW from, NEW n, Movable(m, to, from, n), from + n <= slen, to + n <= slen
  PROVE  LET t == Move(m, to, from, n) IN Fit(t) /\ Size(t) = Size(m) /\ Clean(t, 0, slen)
<1> DEFINE t == Move(m, to, from, n)
<1>1. IsMoved(m, t, to, from, n)
  BY MovedTo
<1>2. Size(m) \in Nat /\ to \in Nat /\ from \in Nat /\ n \in Nat
  BY BlockSize DEF Fit, Movable
<1> HIDE DEF t
<1>3. ASSUME NEW k \in 1..slen PROVE t.at[k] \in Chars
  <2>1. CASE k <= to \/ k > to + n
    BY <1>1, <1>2, <1>3, <2>1 DEF IsMoved, Clean
  <2>2. CASE ~ (k <= to \/ k > to + n)
    <3>1. k - to + from \in Int /\ k - to + from >= 1 /\ k - to + from <= slen /\ k > to /\ k <= to + n
      BY <1>2, <2>2
    <3>2. PICK j \in Int : j = k - to + from
      BY <3>1
    <3>3. t.at[k] = m.at[j]
      BY <1>1, <1>2, <3>1, <3>2 DEF IsMoved
    <3>4. j \in 0 + 1..slen
      BY <1>2, <3>1, <3>2
    <3>5. QED
      BY <3>3, <3>4 DEF Clean
  <2>3. QED
    BY <2>1, <2>2
<1>4. QED
  BY <1>1, <1>3 DEF IsMoved, Clean, t

ShrinkStates == [on : BOOLEAN, m : Blocks, pos : Int, acc : Int]
Shrinking(slen) == {x \in ShrinkStates : /\ Fit(x.m) /\ slen < Size(x.m) /\ Clean(x.m, 0, slen)
                                         /\ x.acc >= 0 /\ x.acc <= x.pos /\ x.pos <= slen}

(* A step of the loop for shorter texts gives a state of it.               *)
LEMMA ShrinkTyped ==
  ASSUME NEW x \in ShrinkStates, NEW slen \in Nat, NEW u \in Seq(Chars), Len(u) >= 1,
         NEW v \in Seq(Chars), NEW caseless
  PROVE  Shrink(slen, u, v, caseless, x) \in ShrinkStates
<1> DEFINE i == instr(x.m, slen, x.pos, u, caseless)
           m == IF x.acc > 0 THEN Move(x.m, x.pos - x.acc, x.pos, i - x.pos) ELSE x.m
           y == Shrink(slen, u, v, caseless, x)
<1>1. /\ x = [on |-> x.on, m |-> x.m, pos |-> x.pos, acc |-> x.acc] /\ x.pos \in Int /\ x.m \in Blocks
      /\ x.acc \in Int /\ Len(u) \in Nat /\ Len(v) \in Nat /\ v \in Seq(Byte)
  BY TextsAreBytes DEF ShrinkStates
<1>2. i \in Int
  BY <1>1, instrGives
<1>3. y = IF i < 0 THEN [x EXCEPT !.on = FALSE]
          ELSE [on |-> TRUE, m |-> Write(m, i - x.acc, v), pos |-> i + Len(u),
                acc |-> x.acc + Len(u) - Len(v)]
  BY DEF Shrink
<1> HIDE DEF i, y
<1>4. m \in Blocks
  <2>1. i - x.pos \in Int /\ x.pos - x.acc \in Int
    BY <1>1, <1>2
  <2>2. QED
    BY <1>1, <2>1, MoveTyped
<1> HIDE DEF m
<1>5. CASE i < 0
  <2>1. y = [on |-> FALSE, m |-> x.m, pos |-> x.pos, acc |-> x.acc]
    BY <1>1, <1>3, <1>5
  <2>2. QED
    BY <1>1, <2>1 DEF ShrinkStates, y
<1>6. CASE ~ (i < 0)
  <2> DEFINE w == Write(m, i - x.acc, v)
  <2>1. w \in Blocks
    <3>1. i - x.acc \in Int
      BY <1>1, <1>2
    <3>2. QED
      BY <1>1, <1>4, <3>1, WriteTyped
  <2>2. y = [on |-> TRUE, m |-> w, pos |-> i + Len(u), acc |-> x.acc + Len(u) - Len(v)]
    BY <1>3, <1>6
  <2> HIDE DEF w
  <2>3. i + Len(u) \in Int /\ x.acc + Len(u) - Len(v) \in Int
    BY <1>1, <1>2
  <2>4. QED
    BY <2>1, <2>2, <2>3 DEF ShrinkStates, y
<1>7. QED
  BY <1>5, <1>6

(* It keeps to the text and has less to do.                                *)
LEMMA ShrinkShrinks ==
  ASSUME NEW slen \in Nat, NEW x \in Shrinking(slen), NEW u \in Seq(Chars), Len(u) >= 1,
         NEW v \in Seq(Chars), Len(v) <= Len(u), NEW caseless
  PROVE  LET y == Shrink(slen, u, v, caseless, x)
         IN  y \in Shrinking(slen) /\ (y.on => y.pos > x.pos)
<1> DEFINE i == instr(x.m, slen, x.pos, u, caseless)
           m == IF x.acc > 0 THEN Move(x.m, x.pos - x.acc, x.pos, i - x.pos) ELSE x.m
           y == Shrink(slen, u, v, caseless, x)
<1>1. /\ x = [on |-> x.on, m |-> x.m, pos |-> x.pos, acc |-> x.acc] /\ x.pos \in Int /\ x.m \in Blocks
      /\ x.acc \in Int /\ x \in ShrinkStates /\ Fit(x.m) /\ slen < Size(x.m) /\ Clean(x.m, 0, slen)
      /\ x.acc >= 0 /\ x.acc <= x.pos /\ x.pos <= slen
  BY DEF ShrinkStates, Shrinking
<1>2. PICK n \in Nat, r \in Nat : n = Len(u) /\ r = Len(v)
  OBVIOUS
<1>3. n >= 1 /\ r <= n
  BY <1>2
<1>4. i \in Int /\ (i = ERR \/ (i >= 0 /\ i >= x.pos /\ i + n <= slen))
  BY <1>1, <1>2, instrGives
<1>5. y = IF i < 0 THEN [x EXCEPT !.on = FALSE]
          ELSE [on |-> TRUE, m |-> Write(m, i - x.acc, v), pos |-> i + n, acc |-> x.acc + n - r]
  BY <1>2 DEF Shrink
<1>6. y \in ShrinkStates
  BY <1>1, ShrinkTyped
<1>7. Size(x.m) \in Nat
  BY <1>1, BlockSize
<1> SUFFICES y \in Shrinking(slen) /\ (y.on => y.pos > x.pos)
  OBVIOUS
<1> HIDE DEF i, y
<1>8. CASE i < 0
  <2>1. y = [on |-> FALSE, m |-> x.m, pos |-> x.pos, acc |-> x.acc]
    BY <1>1, <1>5, <1>8
  <2>2. y.on = FALSE /\ y.m = x.m /\ y.pos = x.pos /\ y.acc = x.acc
    BY <2>1
  <2>3. QED
    BY <1>1, <1>6, <2>2 DEF Shrinking
<1>9. CASE ~ (i < 0)
  <2>1. i >= 0 /\ i >= x.pos /\ i + n <= slen
    BY <1>4, <1>9 DEF ERR
  <2>2. Fit(m) /\ Size(m) = Size(x.m) /\ Clean(m, 0, slen)
    <3>1. CASE x.acc > 0
      <4> DEFINE to == x.pos - x.acc
                 c == i - x.pos
      <4>1. to \in Nat /\ x.pos \in Nat /\ c \in Nat
        BY <1>1, <1>4, <2>1
      <4>2. x.pos + c = i /\ to + c <= i
        BY <1>1, <1>4, <2>1
      <4>3. m = Move(x.m, to, x.pos, c)
        BY <3>1
      <4> HIDE DEF to, c, m
      <4>4. x.pos + c <= slen /\ to + c <= slen
        BY <1>2, <1>4, <2>1, <4>1, <4>2
      <4>5. Movable(x.m, to, x.pos, c)
        BY <1>1, <1>7, <4>1, <4>4 DEF Movable
      <4>6. slen <= Size(x.m)
        BY <1>1, <1>7
      <4>7. QED
        BY <1>1, <4>3, <4>4, <4>5, <4>6, MovedClean
    <3>2. CASE ~ (x.acc > 0)
      <4>1. m = x.m
        BY <3>2
      <4> HIDE DEF m
      <4>2. QED
        BY <1>1, <4>1
    <3>3. QED
      BY <3>1, <3>2
  <2> HIDE DEF m
  <2> DEFINE to == i - x.acc
             w == Write(m, to, v)
  <2>3. y.on /\ y.m = w /\ y.pos = i + n /\ y.acc = x.acc + n - r
    BY <1>5, <1>9
  <2>4. to \in Nat /\ to + r <= slen
    BY <1>1, <1>3, <1>4, <2>1
  <2> HIDE DEF to
  <2>5. /\ to + Len(v) <= Size(m) /\ slen \in Int /\ slen <= Size(m)
        /\ \A k \in 1..slen : k <= to \/ k > to + Len(v) => m.at[k] \in Chars
    BY <1>1, <1>2, <1>7, <2>2, <2>4 DEF Clean
  <2>6. Fit(w) /\ Size(w) = Size(m) /\ Clean(w, 0, slen)
    BY <2>2, <2>4, <2>5, WrittenClean
  <2> HIDE DEF w
  <2>7. y.acc >= 0 /\ y.acc <= y.pos /\ y.pos <= slen /\ y.pos > x.pos
    BY <1>1, <1>3, <1>4, <2>1, <2>3
  <2>8. QED
    BY <1>1, <1>6, <2>2, <2>3, <2>6, <2>7 DEF Shrinking
<1>10. QED
  BY <1>8, <1>9

(* Replacing by a text that is not longer gives a sound string.            *)
LEMMA ShrunkSane ==
  ASSUME NEW s, Sound(s), NEW pos \in Nat, pos <= s.slen, NEW u \in Seq(Chars), Len(u) >= 1,
         NEW v \in Seq(Chars), Len(v) <= Len(u), NEW caseless
  PROVE  Sane(Shrunk(s, pos, u, v, caseless))
<1> DEFINE slen == s.slen
           I == Shrinking(slen)
           body == [x \in ShrinkStates |-> Shrink(slen, u, v, caseless, x)]
           left == [x \in I |-> IF x.on THEN slen + 1 - x.pos ELSE 0]
           start == [on |-> TRUE, m |-> s.m, pos |-> pos, acc |-> 0]
           e == While(body, start)
<1>1. /\ s.m \in Blocks /\ slen \in Nat /\ Fit(s.m) /\ slen < Size(s.m) /\ Clean(s.m, 0, slen)
  BY SoundFacts
<1>2. body \in [ShrinkStates -> ShrinkStates]
  <2>1. \A x \in ShrinkStates : Shrink(slen, u, v, caseless, x) \in ShrinkStates
    BY <1>1, ShrinkTyped
  <2>2. QED
    BY <2>1
<1>3. I \in SUBSET ShrinkStates
  BY DEF Shrinking
<1>4. \A x \in I : x.pos \in Nat /\ x.pos <= slen
  BY <1>1 DEF Shrinking, ShrinkStates
<1>5. left \in [I -> Nat]
  <2>1. \A x \in I : slen + 1 - x.pos \in Nat
    BY <1>1, <1>4
  <2> HIDE DEF I
  <2>2. QED
    BY <2>1
<1>6. ASSUME NEW x \in I, x.on PROVE body[x] \in I /\ left[body[x]] < left[x]
  <2> DEFINE y == Shrink(slen, u, v, caseless, x)
  <2>1. body[x] = y
    BY <1>3
  <2>2. y \in I /\ (y.on => y.pos > x.pos)
    BY <1>1, ShrinkShrinks
  <2>3. x.pos \in Nat /\ y.pos \in Nat
    BY <1>4, <2>2
  <2> HIDE DEF y, body, slen, I
  <2>4. left[x] = slen + 1 - x.pos /\ left[y] = IF y.on THEN slen + 1 - y.pos ELSE 0
    BY <1>6, <2>2
  <2> HIDE DEF left
  <2>5. left[y] < left[x]
    BY <1>1, <1>4, <2>2, <2>3, <2>4
  <2>6. QED
    BY <2>1, <2>2, <2>5
<1>7. start \in I
  <2>1. start \in ShrinkStates
    BY <1>1 DEF ShrinkStates
  <2>2. start.m = s.m /\ start.pos = pos /\ start.acc = 0
    OBVIOUS
  <2> HIDE DEF start, slen
  <2>3. start.acc >= 0 /\ start.acc <= start.pos /\ start.pos <= slen
    BY <2>2 DEF slen
  <2>4. QED
    BY <1>1, <2>1, <2>2, <2>3 DEF Shrinking
<1>8. \A x \in ShrinkStates : x.on \in BOOLEAN
  BY DEF ShrinkStates
<1> HIDE DEF left, I
<1>9. e \in I
  <2> HIDE DEF body, start
  <2>1. QED
    BY <1>2, <1>3, <1>5, <1>6, <1>7, <1>8, WhileEnds
<1> DEFINE m == IF e.acc > 0 THEN Move(e.m, e.pos - e.acc, e.pos, slen - e.pos) ELSE e.m
<1>10. Shrunk(s, pos, u, v, caseless) = Done(m, slen - e.acc)
  BY DEF Shrunk, ShrinkStates
<1> HIDE DEF e
<1>11. /\ e.acc \in Int /\ e.pos \in Int /\ e.m \in Blocks /\ Fit(e.m) /\ slen < Size(e.m) /\ Clean(e.m, 0, slen)
       /\ e.acc >= 0 /\ e.acc <= e.pos /\ e.pos <= slen
  BY <1>9 DEF I, Shrinking, ShrinkStates
<1>12. Size(e.m) \in Nat
  BY <1>11, BlockSize
<1>13. Fit(m) /\ Size(m) = Size(e.m) /\ Clean(m, 0, slen)
  <2>1. CASE e.acc > 0
    <3> DEFINE to == e.pos - e.acc
               c == slen - e.pos
    <3>1. to \in Nat /\ e.pos \in Nat /\ c \in Nat /\ e.pos + c = slen /\ to + c <= slen
      BY <1>1, <1>11, SMTT(60)
    <3>2. m = Move(e.m, to, e.pos, c)
      BY <2>1
    <3> HIDE DEF to, c, m, slen
    <3>3. Movable(e.m, to, e.pos, c) /\ e.pos + c <= slen /\ slen <= Size(e.m)
      BY <1>1, <1>11, <1>12, <3>1 DEF Movable
    <3>4. QED
      BY <1>1, <1>11, <3>1, <3>2, <3>3, MovedClean
  <2>2. CASE ~ (e.acc > 0)
    <3>1. m = e.m
      BY <2>2
    <3> HIDE DEF m
    <3>2. QED
      BY <1>11, <3>1
  <2>3. QED
    BY <2>1, <2>2
<1> HIDE DEF m, slen
<1>14. /\ slen - e.acc \in Int /\ slen - e.acc >= 0 /\ slen - e.acc < Size(m) /\ Clean(m, 0, slen - e.acc)
  BY <1>1, <1>11, <1>12, <1>13 DEF Clean
<1>15. QED
  BY <1>10, <1>13, <1>14, DoneSane

\* The bytes of m from a on, up to b, are in X.
Among(m, a, b, X) == \A k \in a + 1..b : m.at[k] \in X

(* A product of naturals.                                                  *)
LEMMA Product ==
  ASSUME NEW k \in Nat, NEW c \in Nat
  PROVE  k * c \in Nat /\ (k - 1) * c = k * c - c /\ (k = 0 => k * c = 0)
OBVIOUS

ExpandStates(d) == [on : BOOLEAN, m : Blocks, k : 0..Len(d), acc : Int]
\* The matches from the last to that behind k were replaced by texts that are c
\* characters longer; size is that of the block, last the end of the new text.
Expanding(d, D, c, last, size, X) ==
  {x \in ExpandStates(d) : /\ Fit(x.m) /\ Size(x.m) = size
                           /\ x.acc = x.k * c /\ D[x.k + 1] + x.acc <= last
                           /\ Among(x.m, 0, D[x.k + 1], X)
                           /\ Among(x.m, D[x.k + 1] + x.acc, last, X)
                           /\ ~ x.on => x.k = 0}

(* A step of the loop for longer texts gives a state of it.                *)
LEMMA ExpandTyped ==
  ASSUME NEW d \in Seq(Int), NEW slen \in Int, NEW n \in Nat, NEW v \in Seq(Byte),
         NEW x \in ExpandStates(d)
  PROVE  Expand(Append(d, slen), n, v, x) \in ExpandStates(d)
<1> DEFINE D == Append(d, slen)
           b == D[x.k] + n
           m == Move(x.m, b + x.acc, b, D[x.k + 1] - b)
           w == Write(m, b + x.acc - Len(v), v)
           y == Expand(D, n, v, x)
<1>1. PICK l \in Nat : l = Len(d)
  OBVIOUS
<1>2. /\ x = [on |-> x.on, m |-> x.m, k |-> x.k, acc |-> x.acc]
      /\ x.m \in Blocks /\ x.k \in 0..l /\ x.acc \in Int
  BY <1>1 DEF ExpandStates
<1>3. D \in Seq(Int) /\ Len(D) = l + 1
  BY <1>1
<1>4. PICK r \in Nat : r = Len(v)
  OBVIOUS
<1>5. y = IF x.k = 0 THEN [x EXCEPT !.on = FALSE]
          ELSE [on |-> TRUE, m |-> w, k |-> x.k - 1, acc |-> x.acc + n - r]
  BY <1>4 DEF Expand
<1> HIDE DEF D, y
<1>6. CASE x.k = 0
  <2>1. y = [on |-> FALSE, m |-> x.m, k |-> x.k, acc |-> x.acc]
    BY <1>2, <1>5, <1>6
  <2>2. QED
    BY <1>1, <1>2, <2>1 DEF ExpandStates, y, D
<1>7. CASE x.k # 0
  <2>1. x.k \in 1..l + 1 /\ x.k + 1 \in 1..l + 1 /\ x.k - 1 \in 0..l
    BY <1>2, <1>7
  <2>2. D[x.k] \in Int /\ D[x.k + 1] \in Int
    BY <1>3, <2>1
  <2>3. b \in Int /\ b + x.acc \in Int /\ D[x.k + 1] - b \in Int /\ b + x.acc - r \in Int
    BY <1>2, <1>4, <2>2, SMTT(60)
  <2> HIDE DEF b
  <2>4. m \in Blocks
    BY <1>2, <2>3, MoveTyped
  <2> HIDE DEF m
  <2>5. w \in Blocks
    BY <1>4, <2>3, <2>4, WriteTyped
  <2> HIDE DEF w
  <2>6. y = [on |-> TRUE, m |-> w, k |-> x.k - 1, acc |-> x.acc + n - r]
    BY <1>5, <1>7
  <2>7. x.acc + n - r \in Int
    BY <1>2, <1>4
  <2>8. QED
    BY <1>1, <2>1, <2>5, <2>6, <2>7 DEF ExpandStates, y, D
<1>8. QED
  BY <1>6, <1>7

\* Bytes are moved up from b to `to', and v is written before them.
Grow(m, v, to, b, e) == Write(Move(m, to, b, e - b), to - Len(v), v)
Growable(m, X, a, b, e, to, last, v) ==
  /\ Fit(m) /\ a \in Nat /\ b \in Nat /\ e \in Nat /\ to \in Nat /\ last \in Nat
  /\ a <= b /\ b <= e /\ b <= to /\ to + (e - b) <= last /\ last <= Size(m)
  /\ a + Len(v) <= to /\ Among(m, 0, e, X) /\ Among(m, to + (e - b), last, X)

(* What a move and a write of that loop leave.                             *)
LEMMA Grown ==
  ASSUME NEW X \in SUBSET Byte, NEW m, Fit(m), NEW a \in Nat, NEW b \in Nat, NEW e \in Nat, NEW to \in Nat,
         NEW last \in Nat, a <= b, b <= e, b <= to, to + (e - b) <= last, last <= Size(m),
         NEW v \in Seq(X), a + Len(v) <= to, Among(m, 0, e, X), Among(m, to + (e - b), last, X)
  PROVE  LET w == Write(Move(m, to, b, e - b), to - Len(v), v) IN
         /\ Fit(w) /\ Size(w) = Size(m)
         /\ Among(w, 0, a, X) /\ Among(w, to - Len(v), last, X)
<1> DEFINE c == e - b
           t == Move(m, to, b, c)
           h == to - Len(v)
           w == Write(t, h, v)
<1>1. PICK r \in Nat : r = Len(v)
  OBVIOUS
<1>2. Size(m) \in Nat
  BY BlockSize DEF Fit
<1>3. c \in Nat /\ b + c = e /\ to + c <= last /\ h \in Nat /\ h + r = to /\ a <= h
  BY <1>1
<1> HIDE DEF c, h
<1>4. Movable(m, to, b, c)
  BY <1>2, <1>3 DEF Movable
<1>5. IsMoved(m, t, to, b, c)
  BY <1>4, MovedTo
<1> HIDE DEF t
<1>6. Fit(t) /\ Size(t) = Size(m) /\ t \in Blocks
  BY <1>5 DEF IsMoved, Fit
<1>7. v \in Seq(Byte) /\ h + Len(v) <= Size(t)
  <2>1. Seq(X) \subseteq Seq(Byte)
    OBVIOUS
  <2>2. QED
    BY <2>1, <1>1, <1>2, <1>3, <1>6
<1>8. /\ w \in Blocks /\ w.bad = t.bad /\ Size(w) = Size(t)
      /\ \A k \in 1..Size(t) : w.at[k] = IF k > h /\ k <= h + Len(v) THEN v[k - h] ELSE t.at[k]
  BY <1>3, <1>6, <1>7, WriteInside
<1> HIDE DEF w
<1>9. Fit(w) /\ Size(w) = Size(m)
  BY <1>6, <1>8 DEF Fit
<1>10. ASSUME NEW k \in 1..a PROVE w.at[k] \in X
  <2>1. k \in 1..Size(t) /\ k \in 1..Size(m) /\ ~ (k > h) /\ k <= to /\ k \in 0 + 1..e
    BY <1>1, <1>2, <1>3, <1>6
  <2>2. w.at[k] = t.at[k]
    BY <1>8, <2>1
  <2>3. t.at[k] = m.at[k]
    BY <1>5, <2>1 DEF IsMoved
  <2>4. QED
    BY <2>1, <2>2, <2>3 DEF Among
<1>11. ASSUME NEW k \in h + 1..last PROVE w.at[k] \in X
  <2>1. k \in Int /\ k >= h + 1 /\ k <= last /\ k \in 1..Size(t) /\ k \in 1..Size(m)
    BY <1>2, <1>3, <1>6
  <2>2. CASE k <= h + Len(v)
    <3>1. w.at[k] = v[k - h]
      BY <1>3, <1>8, <2>1, <2>2
    <3>2. k - h \in 1..Len(v)
      BY <1>3, <2>1, <2>2
    <3>3. QED
      BY <3>1, <3>2
  <2>3. CASE ~ (k <= h + Len(v)) /\ k <= to + c
    <3>1. w.at[k] = t.at[k]
      BY <1>8, <2>1, <2>3
    <3>2. k > to
      BY <1>1, <1>3, <2>1, <2>3
    <3>3. k - to + b \in Int /\ k - to + b >= 1 /\ k - to + b <= e
      BY <1>3, <2>1, <2>3, <3>2
    <3>4. PICK j \in Int : j = k - to + b
      BY <3>3
    <3>5. t.at[k] = m.at[j]
      BY <1>5, <2>1, <2>3, <3>2, <3>4 DEF IsMoved
    <3>6. j \in 0 + 1..e
      BY <3>3, <3>4
    <3>7. QED
      BY <3>1, <3>5, <3>6 DEF Among
  <2>4. CASE ~ (k <= h + Len(v)) /\ ~ (k <= to + c)
    <3>1. w.at[k] = t.at[k]
      BY <1>8, <2>1, <2>4
    <3>2. t.at[k] = m.at[k]
      BY <1>3, <1>5, <2>1, <2>4 DEF IsMoved
    <3>3. k \in to + (e - b) + 1..last
      BY <1>3, <2>1, <2>4 DEF c
    <3>4. QED
      BY <3>1, <3>2, <3>3 DEF Among
  <2>5. QED
    BY <2>2, <2>3, <2>4
<1>12. QED
  BY <1>9, <1>10, <1>11 DEF Among, w, t, c, h

(* They are moves and writes.                                              *)
LEMMA GrowIs ==
  ASSUME NEW m, NEW v, NEW to, NEW b, NEW e
  PROVE  Grow(m, v, to, b, e) = Write(Move(m, to, b, e - b), to - Len(v), v)
BY DEF Grow

(* A step of the loop moves a part and writes the replacement before it.   *)
LEMMA ExpandIs ==
  ASSUME NEW D, NEW n, NEW v, NEW x
  PROVE  Expand(D, n, v, x)
           = IF x.k = 0 THEN [x EXCEPT !.on = FALSE]
             ELSE [on |-> TRUE, k |-> x.k - 1, acc |-> x.acc + n - Len(v),
                   m |-> Write(Move(x.m, D[x.k] + n + x.acc, D[x.k] + n, D[x.k + 1] - (D[x.k] + n)),
                               D[x.k] + n + x.acc - Len(v), v)]
BY DEF Expand

(* The same, with its numbers.                                             *)
LEMMA ExpandForm ==
  ASSUME NEW D, NEW n \in Int, NEW v, Len(v) \in Int, NEW x, x.k # 0, D[x.k] \in Int, x.acc \in Int
  PROVE  Expand(D, n, v, x)
           = [on |-> TRUE, m |-> Grow(x.m, v, D[x.k] + n + x.acc, D[x.k] + n, D[x.k + 1]),
              k |-> x.k - 1, acc |-> x.acc + n - Len(v)]
<1> DEFINE b == D[x.k] + n
           to == b + x.acc
           e == D[x.k + 1]
           w == Write(Move(x.m, to, b, e - b), b + (x.acc - Len(v)), v)
<1>1. Expand(D, n, v, x) = [on |-> TRUE, k |-> x.k - 1, acc |-> x.acc + n - Len(v), m |-> w]
  <2> HIDE DEF w
  <2>1. Expand(D, n, v, x) = IF x.k = 0 THEN [x EXCEPT !.on = FALSE]
                             ELSE [on |-> TRUE, k |-> x.k - 1, acc |-> x.acc + n - Len(v), m |-> w]
    BY ExpandIs DEF w
  <2>2. QED
    BY <2>1
<1>2. b + (x.acc - Len(v)) = to - Len(v)
  OBVIOUS
<1> HIDE DEF b, to, e
<1>3. w = Grow(x.m, v, to, b, e)
  BY <1>2, GrowIs
<1> HIDE DEF w
<1>4. QED
  BY <1>1, <1>3 DEF b, to, e

(* A step keeps to the block and to its bytes.                             *)
LEMMA Grows ==
  ASSUME NEW X \in SUBSET Byte, NEW m, NEW a, NEW b, NEW e, NEW to, NEW last, NEW v \in Seq(X),
         Growable(m, X, a, b, e, to, last, v)
  PROVE  LET w == Grow(m, v, to, b, e) IN
         /\ Fit(w) /\ Size(w) = Size(m) /\ Among(w, 0, a, X)
         /\ \A h \in Nat : h + Len(v) = to => Among(w, h, last, X)
<1> DEFINE c == e - b
           h == to - Len(v)
           w == Grow(m, v, to, b, e)
<1>1. /\ Fit(m) /\ a \in Nat /\ b \in Nat /\ e \in Nat /\ to \in Nat /\ last \in Nat
      /\ a <= b /\ b <= e /\ b <= to /\ to + c <= last /\ last <= Size(m)
      /\ a + Len(v) <= to /\ Among(m, 0, e, X) /\ Among(m, to + c, last, X)
  BY DEF Growable
<1>2. Fit(w) /\ Size(w) = Size(m) /\ Among(w, 0, a, X) /\ Among(w, h, last, X)
  BY <1>1, Grown, SMTT(60) DEF Grow
<1>3. \A i \in Nat : i + Len(v) = to => i = h
  BY <1>1
<1> HIDE DEF w, h
<1>4. QED
  BY <1>2, <1>3 DEF w

(* So does the loop, and it has one match less to do.                      *)
LEMMA ExpandExpands ==
  ASSUME NEW d \in Seq(Int), NEW slen \in Nat, NEW n \in Nat, NEW pos \in Nat,
         Placed(Append(d, slen), n, pos), NEW X \in SUBSET Byte, NEW v \in Seq(X), NEW c \in Nat,
         n + c <= Len(v), Len(v) <= n + c, NEW last \in Nat, NEW size \in Nat, last <= size,
         NEW x \in Expanding(d, Append(d, slen), c, last, size, X), x.on
  PROVE  LET y == Expand(Append(d, slen), n, v, x)
         IN  y \in Expanding(d, Append(d, slen), c, last, size, X) /\ (y.on => y.k < x.k)
<1> DEFINE D == Append(d, slen)
           y == Expand(D, n, v, x)
<1>1. PICK l \in Nat : l = Len(d)
  OBVIOUS
<1>2. /\ x = [on |-> x.on, m |-> x.m, k |-> x.k, acc |-> x.acc]
      /\ x.m \in Blocks /\ x.k \in 0..l /\ x.acc \in Int /\ x \in ExpandStates(d)
      /\ Fit(x.m) /\ Size(x.m) = size /\ x.acc = x.k * c /\ D[x.k + 1] + x.acc <= last
      /\ Among(x.m, 0, D[x.k + 1], X) /\ Among(x.m, D[x.k + 1] + x.acc, last, X)
  BY <1>1 DEF Expanding, ExpandStates
<1>3. D \in Seq(Int) /\ Len(D) = l + 1
  BY <1>1
<1>4. PICK r \in Nat : r = Len(v)
  OBVIOUS
<1>5. r = n + c
  BY <1>4
<1>6. v \in Seq(Byte)
  <2>1. Seq(X) \subseteq Seq(Byte)
    OBVIOUS
  <2>2. QED
    BY <2>1
<1>7. y \in ExpandStates(d)
  BY <1>2, <1>6, ExpandTyped
<1>8. (\A k \in 1..l + 1 : D[k] >= pos) /\ \A k \in 1..l : D[k] + n <= D[k + 1]
  BY <1>3, SMTT(60) DEF Placed
<1> SUFFICES y \in Expanding(d, D, c, last, size, X) /\ (y.on => y.k < x.k)
  OBVIOUS
<1> HIDE DEF y
<1>9. CASE x.k = 0
  <2>1. y = [on |-> FALSE, m |-> x.m, k |-> x.k, acc |-> x.acc]
    BY <1>2, <1>9 DEF Expand, y
  <2>2. y.on = FALSE /\ y.m = x.m /\ y.k = x.k /\ y.acc = x.acc
    BY <2>1
  <2> HIDE DEF D
  <2>3. QED
    BY <1>2, <1>7, <1>9, <2>2 DEF Expanding
<1>10. CASE x.k # 0
  <2> HIDE DEF D
  <2>0. PICK k \in 0..l : k = x.k
    BY <1>2
  <2>1. /\ k \in 1..l /\ k \in 1..l + 1 /\ k + 1 \in 1..l + 1 /\ k - 1 \in 0..l /\ k \in Nat /\ k - 1 \in Nat
        /\ x.k = k
    BY <1>10, <2>0, SMTT(60)
  <2> DEFINE a == D[x.k]
             e == D[x.k + 1]
  <2>2. a \in Nat /\ e \in Nat
    <3>1. D[k] \in Int /\ D[k + 1] \in Int /\ D[k] >= pos /\ D[k + 1] >= pos
      BY <1>3, <1>8, <2>1
    <3>2. D[k] \in Nat /\ D[k + 1] \in Nat
      BY <3>1, SMTT(60)
    <3>3. QED
      BY <2>1, <3>2
  <2>3. a + n <= e
    BY <1>8, <2>1
  <2>4. x.acc \in Nat /\ (x.k - 1) * c = x.acc - c /\ x.acc - c \in Nat
    <3>1. k * c \in Nat /\ (k - 1) * c = k * c - c
      BY <2>1, Product
    <3>2. (k - 1) * c \in Nat
      BY <2>1, Product
    <3>3. x.acc = k * c
      BY <1>2, <2>1
    <3>4. QED
      BY <2>1, <3>1, <3>2, <3>3
  <2> DEFINE b == a + n
             to == b + x.acc
             w == Grow(x.m, v, to, b, e)
  <2>5. y = [on |-> TRUE, m |-> w, k |-> x.k - 1, acc |-> x.acc + n - Len(v)]
    <3>1. D[x.k] \in Int /\ x.acc \in Int /\ Len(v) \in Int
      BY <1>2, <1>4, <2>2, SMTT(60) DEF a
    <3>2. QED
      BY <1>10, <3>1, ExpandForm DEF y
  <2> HIDE DEF a, e
  <2>6. b \in Nat /\ to \in Nat /\ a <= b /\ b <= e /\ b <= to /\ to + (e - b) = e + x.acc /\ a + Len(v) <= to
    <3>1. c <= x.acc
      BY <2>4
    <3>2. QED
      BY <1>4, <1>5, <2>2, <2>3, <2>4, <3>1, SMTT(60)
  <2>7. a + (x.acc - c) \in Nat /\ a + (x.acc - c) + Len(v) = to
    BY <1>4, <1>5, <2>2, <2>4, SMTT(60)
  <2>8. e + x.acc <= last /\ Among(x.m, 0, e, X) /\ Among(x.m, to + (e - b), last, X)
    <3>1. D[x.k + 1] = e
      BY DEF e
    <3>2. e + x.acc <= last /\ Among(x.m, 0, e, X) /\ Among(x.m, e + x.acc, last, X)
      BY <1>2, <3>1
    <3> HIDE DEF to, b
    <3>3. QED
      BY <2>6, <3>2
  <2> HIDE DEF b, to
  <2>9. to + (e - b) <= last /\ last <= Size(x.m)
    BY <1>2, <2>6, <2>8
  <2>10. Growable(x.m, X, a, b, e, to, last, v)
    BY <1>2, <2>2, <2>6, <2>8, <2>9 DEF Growable
  <2>17. /\ Fit(w) /\ Size(w) = Size(x.m) /\ Among(w, 0, a, X)
         /\ \A h \in Nat : h + Len(v) = to => Among(w, h, last, X)
    BY <2>10, Grows
  <2> HIDE DEF w
  <2>11. y.on = TRUE /\ y.m = w /\ y.k = x.k - 1 /\ y.acc = x.acc - c
    <3>1. x.acc + n - Len(v) = x.acc - c
      BY <1>4, <1>5, <2>4
    <3>2. QED
      BY <2>5, <3>1
  <2>12. y.k + 1 = k /\ y.k = k - 1 /\ y.acc = y.k * c
    BY <2>1, <2>4, <2>11
  <2>13. D[y.k + 1] = a /\ a + y.acc <= last
    <3>1. D[y.k + 1] = a
      BY <2>12, <2>1 DEF a
    <3>2. a + (x.acc - c) <= e + x.acc
      BY <2>2, <2>3, <2>4, SMTT(60)
    <3>3. QED
      BY <2>2, <2>4, <2>8, <2>11, <3>1, <3>2, SMTT(60)
  <2>14. Among(w, a + y.acc, last, X)
    BY <2>7, <2>17, <2>11
  <2>15. y \in Expanding(d, D, c, last, size, X)
    BY <1>2, <1>7, <2>17, <2>11, <2>12, <2>13, <2>14 DEF Expanding
  <2>16. QED
    BY <2>1, <2>11, <2>15
<1>11. QED
  BY <1>9, <1>10

(* When it ends the new text is in the block.                              *)
LEMMA ExpandedGives ==
  ASSUME NEW d \in Seq(Int), NEW slen \in Nat, NEW n \in Nat, NEW pos \in Nat,
         Placed(Append(d, slen), n, pos), NEW X \in SUBSET Byte, NEW v \in Seq(X), NEW c \in Nat,
         n + c <= Len(v), Len(v) <= n + c,
         NEW m, Fit(m), slen + Len(d) * c <= Size(m), Among(m, 0, slen, X)
  PROVE  LET t == Expanded(m, d, slen, Len(d) * c, n, v)
         IN  Fit(t) /\ Size(t) = Size(m) /\ Among(t, 0, slen + Len(d) * c, X)
<1> DEFINE D == Append(d, slen)
           last == slen + Len(d) * c
           size == Size(m)
           I == Expanding(d, D, c, last, size, X)
           body == [x \in ExpandStates(d) |-> Expand(D, n, v, x)]
           left == [x \in I |-> IF x.on THEN x.k + 1 ELSE 0]
           start == [on |-> TRUE, m |-> m, k |-> Len(d), acc |-> Len(d) * c]
           e == While(body, start)
<1>1. PICK l \in Nat : l = Len(d)
  OBVIOUS
<1>2. Len(d) * c \in Nat /\ last \in Nat /\ size \in Nat /\ last <= size /\ m \in Blocks
  <2>1. Len(d) * c \in Nat
    BY <1>1, Product
  <2>2. QED
    BY <2>1, BlockSize DEF Fit
<1>3. D \in Seq(Int) /\ Len(D) = l + 1 /\ D[l + 1] = slen
  BY <1>1
<1>4. v \in Seq(Byte)
  <2>1. Seq(X) \subseteq Seq(Byte)
    OBVIOUS
  <2>2. QED
    BY <2>1
<1> HIDE DEF last, size
<1>5. body \in [ExpandStates(d) -> ExpandStates(d)]
  <2>1. \A x \in ExpandStates(d) : Expand(D, n, v, x) \in ExpandStates(d)
    BY <1>4, ExpandTyped
  <2> HIDE DEF D
  <2>2. QED
    BY <2>1
<1>6. I \in SUBSET ExpandStates(d)
  BY DEF Expanding
<1>7. \A x \in I : x.k \in Nat
  BY <1>1 DEF Expanding, ExpandStates
<1>8. left \in [I -> Nat]
  <2> HIDE DEF I
  <2>1. QED
    BY <1>7
<1>9. ASSUME NEW x \in I, x.on PROVE body[x] \in I /\ left[body[x]] < left[x]
  <2> DEFINE y == Expand(D, n, v, x)
  <2>1. body[x] = y
    BY <1>6
  <2>2. y \in I /\ (y.on => y.k < x.k)
    BY <1>2, <1>9, ExpandExpands
  <2> HIDE DEF y, body, I, D
  <2>3. left[x] = x.k + 1 /\ left[y] = IF y.on THEN y.k + 1 ELSE 0
    BY <1>9, <2>2
  <2>4. x.k \in Nat /\ y.k \in Nat
    BY <1>7, <2>2
  <2> HIDE DEF left
  <2>5. left[y] < left[x]
    BY <2>2, <2>3, <2>4
  <2>6. QED
    BY <2>1, <2>2, <2>5
<1>10. start \in I
  <2>1. start \in ExpandStates(d)
    BY <1>1, <1>2 DEF ExpandStates
  <2>2. start.on = TRUE /\ start.m = m /\ start.k = Len(d) /\ start.acc = Len(d) * c
    OBVIOUS
  <2>3. D[start.k + 1] = slen
    BY <1>1, <1>3, <2>2
  <2> HIDE DEF start, D
  <2>4. D[start.k + 1] + start.acc = last
    BY <2>2, <2>3 DEF last
  <2>5. Among(m, last, last, X)
    BY <1>2 DEF Among
  <2>6. start.acc = start.k * c /\ D[start.k + 1] + start.acc <= last
    BY <1>2, <2>2, <2>4
  <2>7. /\ Among(start.m, 0, D[start.k + 1], X) /\ Among(start.m, D[start.k + 1] + start.acc, last, X)
        /\ Fit(start.m) /\ Size(start.m) = size /\ start.on
    BY <2>2, <2>3, <2>4, <2>5 DEF size
  <2>8. QED
    BY <2>1, <2>6, <2>7 DEF Expanding
<1>11. \A x \in ExpandStates(d) : x.on \in BOOLEAN
  BY DEF ExpandStates
<1> HIDE DEF left, I
<1>12. e \in I /\ ~ e.on
  <2> HIDE DEF body, start
  <2>1. QED
    BY <1>5, <1>6, <1>8, <1>9, <1>10, <1>11, WhileEnds
<1>13. Expanded(m, d, slen, Len(d) * c, n, v) = e.m
  BY DEF Expanded, ExpandStates
<1> HIDE DEF e
<1>14. /\ Fit(e.m) /\ Size(e.m) = size /\ e.acc = e.k * c /\ e.k = 0
       /\ Among(e.m, 0, D[e.k + 1], X) /\ Among(e.m, D[e.k + 1] + e.acc, last, X)
  BY <1>12 DEF I, Expanding
<1> HIDE DEF D
<1>15. e.acc = 0
  BY <1>14, Product
<1>16. D[1] \in Int
  BY <1>1, <1>3
<1>17. Among(e.m, 0, D[1], X) /\ Among(e.m, D[1], last, X)
  BY <1>14, <1>15, <1>16
<1>18. Among(e.m, 0, last, X)
  BY <1>2, <1>16, <1>17 DEF Among
<1>19. QED
  BY <1>13, <1>14, <1>18 DEF last, size

(* Replacing by a longer text: sound when that was of characters.          *)
LEMMA GrownSane ==
  ASSUME NEW s, Sound(s), NEW d \in Seq(Int), NEW n \in Nat, NEW pos \in Nat,
         Placed(Append(d, s.slen), n, pos), NEW X \in SUBSET Byte, NEW v \in Seq(X), NEW c \in Nat,
         n + c <= Len(v), Len(v) <= n + c,
         NEW m, Fit(m), Size(m) \in Nat, s.slen + Len(d) * c < Size(m), Among(m, 0, s.slen, X)
  PROVE  LET r == Done(Expanded(m, d, s.slen, Len(d) * c, n, v), s.slen + Len(d) * c)
         IN  Stale(r) /\ (X = Chars => Sane(r))
<1> DEFINE acc == Len(d) * c
           t == Expanded(m, d, s.slen, acc, n, v)
           r == Done(t, s.slen + acc)
<1>1. acc \in Nat
  BY Product
<1>2. s.slen \in Nat
  BY SoundFacts
<1>3. s.slen + acc <= Size(m)
  BY <1>1, <1>2
<1>4. Fit(t) /\ Size(t) = Size(m) /\ Among(t, 0, s.slen + acc, X)
  <2> HIDE DEF t
  <2>1. QED
    BY <1>2, <1>3, ExpandedGives DEF t
<1> HIDE DEF t, acc
<1>5. s.slen + acc \in Int /\ s.slen + acc >= 0 /\ s.slen + acc < Size(t)
  BY <1>1, <1>2, <1>4, SMTT(60) DEF acc
<1>6. X = Chars => Sane(r)
  <2>1. X = Chars => Clean(t, 0, s.slen + acc)
    BY <1>4 DEF Among, Clean
  <2>2. QED
    BY <1>4, <1>5, <2>1, DoneSane
<1>7. r.s \in Strings /\ r.rc = 0 /\ Size(r.s.m) = Size(t) /\ (r.s.m.bad = {} => Ended(r.s))
  BY <1>4, <1>5, DoneTyped DEF Fit
<1>8. r.s.m.bad = {}
  <2>1. r.s.m = Write(t, s.slen + acc, <<Nul>>)
    BY DEF Done, End
  <2>2. <<Nul>> \in Seq(Chars) /\ Len(<<Nul>>) = 1
    BY CharsAreBytes
  <2>3. s.slen + acc \in Nat /\ s.slen + acc + 1 <= Size(t)
    BY <1>4, <1>5
  <2> HIDE DEF r
  <2>4. Fit(Write(t, s.slen + acc, <<Nul>>))
    BY <1>4, <2>2, <2>3, Written
  <2>5. QED
    BY <2>1, <2>4 DEF Fit
<1>9. QED
  BY <1>4, <1>6, <1>7, <1>8 DEF Stale, Fit, r, t, acc

(* findreplaceengine: stale bytes only for a position behind the start.    *)
LEMMA findreplaceengineSane ==
  ASSUME NEW s, Sound(s), NEW find \in Sources(s), NEW repl \in Sources(s), NEW pos \in Ints,
         NEW caseless, NEW memory
  PROVE  LET r == findreplaceengine(s, find, repl, pos, caseless, memory)
         IN  Good(r, s) \/ (Stale(r) /\ pos > 0)
<1> DEFINE n == Len(find.text)
           d == Matches(s, pos, find.text, caseless)
           c == Len(repl.text) - n
           acc == Len(d) * c
           g == balloc(s, Wrap(s.slen + acc + 1), memory)
           copied == CopiedFrom(repl, pos)
           x == Copied(repl, copied, g)
           r == findreplaceengine(s, find, repl, pos, caseless, memory)
<1>1. /\ Proper(s) /\ s.slen \in Nat /\ Size(s.m) \in Nat /\ s.slen < Size(s.m) /\ Size(s.m) <= MaxInt
      /\ MaxInt \in Nat
  BY SoundFacts
<1>2. /\ find.text \in Seq(Chars) /\ n \in Nat /\ repl.text \in Seq(Chars) /\ Len(repl.text) \in Nat
      /\ repl.own \in BOOLEAN /\ repl.at \in Nat
      /\ repl.own => repl.at + Len(repl.text) <= s.slen /\ Len(repl.text) >= 1
  BY <1>1, SourceGives
<1>3. pos \in Int
  BY <1>1 DEF Ints
<1>4. r = IF pos < 0 \/ n = 0 THEN Refuse(s)
          ELSE IF pos > s.slen - n THEN [rc |-> 0, s |-> s]
          ELSE IF (CopiedFrom(find, pos) \/ copied) /\ memory = "none" THEN Refuse(s)
          ELSE IF n >= Len(repl.text) THEN Shrunk(s, pos, find.text, repl.text, caseless)
          ELSE IF acc > MaxInt \/ (Len(d) > Static /\ memory = "none") \/ ~ g.ok THEN Refuse(s)
          ELSE Done(Expanded(g.m, d, s.slen, acc, n, x), s.slen + acc)
  BY DEF findreplaceengine
<1>5. Good(Refuse(s), s)
  BY Refuses
<1>6. Good([rc |-> 0, s |-> s], s)
  BY DEF Good, Sane
<1> SUFFICES Good(r, s) \/ (Stale(r) /\ pos > 0)
  OBVIOUS
<1>7. CASE ~ (pos < 0 \/ n = 0) /\ ~ (pos > s.slen - n)
  <2>1. pos \in Nat /\ n >= 1 /\ pos <= s.slen
    BY <1>1, <1>2, <1>3, <1>7
  <2>2. CASE n >= Len(repl.text)
    <3>1. Sane(Shrunk(s, pos, find.text, repl.text, caseless))
      BY <1>2, <2>1, <2>2, ShrunkSane
    <3> HIDE DEF r, n, acc, g, x, copied
    <3>2. r = Refuse(s) \/ r = Shrunk(s, pos, find.text, repl.text, caseless)
      BY <1>4, <1>7, <2>2
    <3>3. QED
      BY <1>5, <3>1, <3>2 DEF Good
  <2>3. CASE ~ (n >= Len(repl.text))
    <3>1. c \in Nat /\ n + c <= Len(repl.text) /\ Len(repl.text) <= n + c
      BY <1>2, <2>3
    <3>2. d \in Seq(Int) /\ Placed(Append(d, s.slen), n, pos)
      BY <1>2, <2>1, MatchesPlaced
    <3> HIDE DEF d, c
    <3>3. acc \in Nat
      BY <3>1, <3>2, Product
    <3> HIDE DEF r, n, acc, g, x, copied
    <3>4. CASE r = Refuse(s)
      BY <1>5, <3>4
    <3>5. CASE r # Refuse(s)
      <4>1. r = Done(Expanded(g.m, d, s.slen, acc, n, x), s.slen + acc) /\ acc <= MaxInt /\ g.ok
        <5>1. r = Done(Expanded(g.m, d, s.slen, acc, n, x), s.slen + acc) /\ ~ (acc > MaxInt) /\ g.ok
          BY <1>4, <1>7, <2>3, <3>5
        <5>2. QED
          BY <1>1, <3>3, <5>1
      <4>2. PICK k \in Nat : k = s.slen + acc + 1
        BY <1>1, <3>3
      <4>3. k <= 2 * MaxInt + 1
        BY <1>1, <3>3, <4>1, <4>2
      <4>4. g = balloc(s, Wrap(k), memory)
        BY <4>2 DEF g
      <4>5. Roomy(s, g, k) /\ g.moved \in BOOLEAN /\ (~ g.moved => g.m = s.m)
        BY <4>3, <4>4, RoomyGives
      <4>6. Fit(g.m) /\ Size(g.m) \in Nat /\ Clean(g.m, 0, s.slen) /\ s.slen + acc < Size(g.m)
        BY <1>1, <3>3, <4>1, <4>2, <4>5 DEF Roomy
      <4>7. s.slen + Len(d) * c < Size(g.m)
        BY <4>6 DEF acc
      <4>8. /\ ~ (repl.own /\ g.moved) => Since(repl, g) = repl.text
            /\ repl.own /\ g.moved => Since(repl, g) = Times(Junk, Len(repl.text))
            /\ copied => x = repl.text
            /\ ~ copied => x = Since(repl, g)
        <5>1. /\ ~ (repl.own /\ g.moved) => Since(repl, g) = repl.text
              /\ repl.own /\ g.moved => Since(repl, g) = Times(Junk, Len(repl.text))
          BY <1>1, <4>5, SinceGives
        <5>2. QED
          BY <5>1, Zenon DEF Copied, x
      <4>9. CASE x = repl.text
        <5>1. Among(g.m, 0, s.slen, Chars) /\ Chars \in SUBSET Byte
          BY <4>6, CharsAreBytes DEF Among, Clean
        <5>2. x \in Seq(Chars) /\ n + c <= Len(x) /\ Len(x) <= n + c
          BY <1>2, <3>1, <4>9
        <5>3. Sane(Done(Expanded(g.m, d, s.slen, Len(d) * c, n, x), s.slen + Len(d) * c))
          BY <1>2, <2>1, <3>1, <3>2, <4>6, <4>7, <5>1, <5>2, GrownSane DEF n
        <5>4. QED
          BY <4>1, <5>3 DEF Good, acc
      <4>10. CASE x # repl.text
        <5>1. repl.own /\ ~ copied /\ x = Times(Junk, Len(repl.text))
          BY <4>8, <4>10
        <5>2. x \in Seq(Byte) /\ Len(x) = Len(repl.text)
          BY <1>2, <5>1, TimesMakes, CharsAreBytes
        <5>3. Among(g.m, 0, s.slen, Byte) /\ Byte \in SUBSET Byte
          BY <4>6, CharsAreBytes DEF Among, Clean
        <5>4. n + c <= Len(x) /\ Len(x) <= n + c
          BY <3>1, <5>2
        <5>5. Stale(Done(Expanded(g.m, d, s.slen, Len(d) * c, n, x), s.slen + Len(d) * c))
          BY <1>2, <2>1, <3>1, <3>2, <4>6, <4>7, <5>2, <5>3, <5>4, GrownSane DEF n
        <5>6. pos > 0
          BY <1>2, <1>3, <5>1 DEF CopiedFrom, copied
        <5>7. QED
          BY <4>1, <5>5, <5>6 DEF acc
      <4>11. QED
        BY <4>9, <4>10
    <3>6. QED
      BY <3>4, <3>5
  <2>4. QED
    BY <2>2, <2>3
<1>8. CASE ~ (~ (pos < 0 \/ n = 0) /\ ~ (pos > s.slen - n))
  <2> HIDE DEF r, n, acc, g, x, copied
  <2>1. r = Refuse(s) \/ r = [rc |-> 0, s |-> s]
    BY <1>4, <1>8
  <2>2. QED
    BY <1>5, <1>6, <2>1
<1>9. QED
  BY <1>7, <1>8

-----------------------------------------------------------------------------
(***************************************************************************)
(* Between the calls.                                                      *)
(***************************************************************************)
(* What is forgotten lies behind the `\0'.                                 *)
LEMMA ForgetGives ==
  ASSUME NEW s \in Strings
  PROVE  LET f == Forget(s) IN
         /\ f \in Strings /\ f.m.bad = {} /\ Size(f.m) = Size(s.m) /\ f.slen = s.slen
         /\ f = [m |-> f.m, slen |-> f.slen]
         /\ s.slen + 1 \in 0..Size(s.m) => \A k \in 1..s.slen + 1 : f.m.at[k] = s.m.at[k]
<1> DEFINE z == Size(s.m)
           n == IF s.slen + 1 \in 0..z THEN s.slen + 1 ELSE z
           p == Bytes(s.m, 0, n)
           q == Times(Junk, z - n)
           f == Forget(s)
<1>1. s.m \in Blocks /\ s.slen \in Int /\ z \in Nat
  BY StringTyped
<1> HIDE DEF z
<1>2. n \in 0..z
  BY <1>1
<1>3. s.slen + 1 \in 0..z => n = s.slen + 1
  OBVIOUS
<1> HIDE DEF n
<1>4. p \in Seq(Byte) /\ Len(p) = n /\ \A k \in 1..n : p[k] = s.m.at[k]
  <2>1. n \in Int /\ 0 + n <= Size(s.m) /\ n >= 0
    BY <1>1, <1>2 DEF z
  <2>2. p \in Seq(Byte) /\ Len(p) = (IF n < 0 THEN 0 ELSE n) /\ \A k \in 1..n : p[k] = s.m.at[0 + k]
    BY <1>1, <2>1, BytesGive
  <2>3. \A k \in 1..n : 0 + k = k
    BY <2>1
  <2>4. QED
    BY <2>1, <2>2, <2>3
<1>5. q \in Seq(Byte) /\ Len(q) = z - n
  <2>1. z - n \in Int /\ z - n >= 0
    BY <1>1, <1>2
  <2>2. q \in Seq(Byte) /\ Len(q) = IF z - n < 0 THEN 0 ELSE z - n
    BY <2>1, TimesMakes, CharsAreBytes
  <2>3. QED
    BY <2>1, <2>2
<1>6. f = [slen |-> s.slen, m |-> [at |-> p \o q, bad |-> {}]]
  BY DEF Forget, n, z
<1> HIDE DEF p, q, f
<1>7. p \o q \in Seq(Byte) /\ Len(p \o q) = z /\ \A k \in 1..n : (p \o q)[k] = p[k]
  BY <1>1, <1>2, <1>4, <1>5
<1>8. f.m = [at |-> p \o q, bad |-> {}] /\ f.slen = s.slen /\ f = [m |-> f.m, slen |-> f.slen]
  BY <1>6
<1>9. f.m \in Blocks /\ f.m.bad = {} /\ Size(f.m) = z /\ f.m.at = p \o q
  BY <1>7, <1>8 DEF Blocks, Size
<1>10. f \in Strings
  BY <1>1, <1>8, <1>9, MakeString
<1>11. QED
  BY <1>3, <1>4, <1>7, <1>8, <1>9, <1>10 DEF f, z

(* A text of characters has no stale byte.                                 *)
LEMMA NoJunk ==
  ASSUME NEW s \in Strings, s.slen \in 0..Size(s.m)
  PROVE  Junk \notin Range(Text(s)) <=> Clean(s.m, 0, s.slen)
<1>1. s.m \in Blocks /\ s.slen \in Nat /\ Size(s.m) \in Nat /\ s.m.at \in Seq(Byte) /\ Size(s.m) = Len(s.m.at)
  BY StringTyped, BlockSize
<1> DEFINE t == Text(s)
<1>2. t \in Seq(Byte) /\ Len(t) = s.slen /\ \A k \in 1..s.slen : t[k] = s.m.at[k]
  <2>1. /\ t \in Seq(Byte) /\ Len(t) = (IF s.slen < 0 THEN 0 ELSE s.slen)
        /\ \A k \in 1..s.slen : t[k] = s.m.at[0 + k]
    BY <1>1, BytesGive DEF Text
  <2>2. \A k \in 1..s.slen : 0 + k = k
    BY <1>1
  <2>3. QED
    BY <1>1, <2>1, <2>2
<1> HIDE DEF t
<1>3. DOMAIN t = 1..s.slen
  BY <1>2
<1>4. \A k \in 1..s.slen : s.m.at[k] \in Byte
  BY <1>1
<1>5. Range(t) = {s.m.at[k] : k \in 1..s.slen}
  BY <1>2, <1>3 DEF Range
<1>6. QED
  BY <1>1, <1>4, <1>5, CharsAreBytes DEF Clean, Byte, t

(* A sound string is told with no stale byte.                              *)
LEMMA NothingForgotten ==
  /\ Forget(None) = None
  /\ None.m.bad = {} /\ Junk \notin Range(Text(None))
<1>1. None \in Strings /\ None.m.bad = {} /\ None.slen = -1 /\ None.m.at = <<>> /\ Size(None.m) = 0
  BY NoneIsString
<1> DEFINE f == Forget(None)
<1>2. f \in Strings /\ f.m.bad = {} /\ Size(f.m) = 0 /\ f.slen = -1 /\ f = [m |-> f.m, slen |-> f.slen]
  BY <1>1, ForgetGives
<1>3. f.m.at \in Seq(Byte) /\ Len(f.m.at) = 0 /\ f.m = [at |-> f.m.at, bad |-> f.m.bad]
  <2>1. f.m \in Blocks
    BY <1>2, StringTyped
  <2> HIDE DEF f
  <2>2. QED
    BY <1>2, <2>1, BlockSize
<1>4. f.m.at = <<>>
  BY <1>3
<1> HIDE DEF f
<1>5. f = None
  BY <1>2, <1>3, <1>4 DEF None, ERR
<1>6. Junk \notin Range(Text(None))
  <2>1. Text(None) = Times(Junk, -1)
    BY <1>1 DEF Text, Bytes
  <2>2. DOMAIN Times(Junk, -1) = {}
    BY DEF Times
  <2>3. QED
    BY <2>1, <2>2 DEF Range
<1>7. QED
  BY <1>1, <1>5, <1>6 DEF f

(* A string that ends with its `\0' and has no stale byte is sound.        *)
LEMMA SoundAgain ==
  ASSUME NEW s \in Strings, Size(s.m) <= MaxInt, Ended(s), Junk \notin Range(Text(s))
  PROVE  Sound(Forget(s)) /\ Forget(s) # None
<1> DEFINE f == Forget(s)
<1>1. s.slen \in 0..Size(s.m) - 1 /\ s.m.at[s.slen + 1] = Nul /\ Size(s.m) \in Nat
  BY StringTyped DEF Ended
<1>2. s.slen \in 0..Size(s.m) /\ s.slen + 1 \in 0..Size(s.m) /\ s.slen \in Nat
  BY <1>1
<1>3. Clean(s.m, 0, s.slen)
  BY <1>2, NoJunk
<1>4. /\ f \in Strings /\ f.m.bad = {} /\ Size(f.m) = Size(s.m) /\ f.slen = s.slen
      /\ \A k \in 1..s.slen + 1 : f.m.at[k] = s.m.at[k]
  BY <1>2, ForgetGives
<1> HIDE DEF f
<1>5. Clean(f.m, 0, f.slen)
  BY <1>2, <1>3, <1>4 DEF Clean
<1>6. f.m.at[f.slen + 1] = Nul
  BY <1>1, <1>2, <1>4
<1>7. Fit(f.m)
  BY <1>4, StringTyped DEF Fit
<1>8. Sound(f)
  BY <1>1, <1>2, <1>4, <1>5, <1>6, <1>7 DEF Sound, Proper, Ended
<1>9. f # None
  BY <1>2, <1>4, NoneIsString
<1>10. QED
  BY <1>8, <1>9 DEF f

(* A sound string is sound when the bytes behind it are forgotten.         *)
LEMMA SoundStays ==
  ASSUME NEW s, Sound(s)
  PROVE  s \in Strings /\ s.m.bad = {} /\ Junk \notin Range(Text(s)) /\ Sound(Forget(s))
<1>1. /\ s \in Strings /\ s.slen \in 0..Size(s.m) /\ Clean(s.m, 0, s.slen) /\ Ended(s) /\ s.m.bad = {}
      /\ Size(s.m) <= MaxInt
  BY DEF Sound, Proper, Fit
<1>2. Junk \notin Range(Text(s))
  BY <1>1, NoJunk
<1>3. QED
  BY <1>1, <1>2, SoundAgain

\* The inductive invariant: whatever the program can still call a function on is
\* sound, and no call did more harm than the named ones.
BInv == /\ call.bad = {} /\ ~ Broken => str = None \/ Sound(str)
        /\ OnlyKnownFaults

\* What the functions do to the string, by their names.
Known(what, memory, r) ==
  \/ Good(r, str)
  \/ Half(r) /\ what.op \in HalfWritten
  \/ Over(r, memory) /\ what.op \in {"bassign", "bassignmidstr", "breplace"}
  \/ /\ Loose(r) /\ r.rc = 0
     /\ \/ what.op = "bdelete" /\ what.pos + what.len > MaxInt
        \/ what.op = "bconcat" /\ r.s.slen = MaxInt
  \/ Stale(r) /\ \/ what.op \in {"bfindreplace", "bfindreplacecaseless"} /\ what.pos > 0
                 \/ what.op \in {"bcatblk", "bcatcstr"} /\ what.own
  \/ RanOut(r) /\ what.op = "bcatcstr" /\ what.own /\ CString(what.text) = what.text

(* A program that makes its next call goes on with a sound string.         *)
LEMMA NotBroken ==
  ASSUME Idle = call
  PROVE  call.bad = {} /\ ~ Broken
BY DEF Idle, Broken

(* Calls that do only what is known keep the invariant.                    *)
LEMMA CallKeeps ==
  ASSUME str = None \/ Sound(str), NEW what, NEW memory \in {"plenty", "tight", "none"}, NEW r,
         Known(what, memory, r), Call(what, memory, r)
  PROVE  BInv'
<1> DEFINE junk == Junk \in Range(Text(r.s))
           bad == r.s.m.bad \cup (IF junk THEN {"stale"} ELSE {})
<1>1. /\ str' = Forget(r.s) /\ call'.what = what /\ call'.rc = r.rc /\ call'.bad = bad
      /\ bad # {} => call'.memory = memory
  BY DEF Call
<1> HIDE DEF junk
<1>2. ASSUME bad = {}, str' = None \/ Sound(str') PROVE BInv'
  BY <1>1, <1>2 DEF BInv, OnlyKnownFaults
<1>3. CASE Good(r, str)
  <2>1. r.s = None \/ Sound(r.s)
    BY <1>3 DEF Good, Refusal, Sane
  <2>2. r.s.m.bad = {} /\ ~ junk /\ (Forget(r.s) = None \/ Sound(Forget(r.s)))
    BY <2>1, NothingForgotten, SoundStays DEF junk
  <2>3. QED
    BY <1>1, <1>2, <2>2
<1>4. CASE Half(r) /\ what.op \in HalfWritten
  <2>1. r.rc = ERR /\ r.s \in Strings /\ r.s.m.bad = {} /\ r.s.slen \in 0..Size(r.s.m) /\ Clean(r.s.m, 0, r.s.slen)
    BY <1>4 DEF Half, Proper, Fit
  <2>2. ~ junk
    BY <2>1, NoJunk DEF junk
  <2>3. bad = {} /\ Broken'
    BY <1>1, <1>4, <2>1, <2>2 DEF Broken, ERR
  <2>4. QED
    BY <1>1, <2>3 DEF BInv, OnlyKnownFaults
<1>5. ASSUME r.s \in Strings, Size(r.s.m) <= MaxInt, Ended(r.s), ~ junk, r.s.m.bad = {} PROVE BInv'
  <2>1. Sound(Forget(r.s))
    BY <1>5, SoundAgain DEF junk
  <2>2. QED
    BY <1>1, <1>2, <1>5, <2>1
<1>6. CASE Over(r, memory) /\ what.op \in {"bassign", "bassignmidstr", "breplace"}
  <2>1. /\ r.s \in Strings /\ r.s.m.bad = {"outside"} /\ r.s.slen = Size(r.s.m)
        /\ Clean(r.s.m, 0, r.s.slen) /\ Short(memory, Size(r.s.m))
    BY <1>6 DEF Over
  <2>2. Size(r.s.m) \in Nat
    BY <2>1, StringTyped
  <2>3. ~ junk
    BY <2>1, <2>2, NoJunk DEF junk
  <2>4. bad = {"outside"} /\ bad # {}
    BY <2>1, <2>3
  <2>5. Size(Forget(r.s).m) = Size(r.s.m)
    BY <2>1, ForgetGives
  <2>6. call'.memory = "tight" \/ 2 * Size(str'.m) > MaxInt
    BY <1>1, <2>1, <2>4, <2>5 DEF Short
  <2>7. QED
    BY <1>1, <1>6, <2>4, <2>6 DEF BInv, OnlyKnownFaults
<1>7. CASE /\ Loose(r) /\ r.rc = 0
           /\ \/ what.op = "bdelete" /\ what.pos + what.len > MaxInt
              \/ what.op = "bconcat" /\ r.s.slen = MaxInt
  <2>1. r.s \in Strings /\ Size(r.s.m) <= MaxInt /\ (r.s.m.bad = {} => Ended(r.s))
    BY <1>7 DEF Loose
  <2>2. Forget(r.s).slen = r.s.slen
    BY <2>1, ForgetGives
  <2>3. CASE ~ junk /\ r.s.m.bad = {}
    BY <1>5, <2>1, <2>3
  <2>4. CASE ~ (~ junk /\ r.s.m.bad = {})
    <3>1. bad # {}
      BY <2>4
    <3>2. OnlyKnownFaults'
      BY <1>1, <1>7, <2>2 DEF OnlyKnownFaults
    <3>3. QED
      BY <1>1, <3>1, <3>2 DEF BInv
  <2>5. QED
    BY <2>3, <2>4
<1>10. CASE RanOut(r) /\ what.op = "bcatcstr" /\ what.own /\ CString(what.text) = what.text
  <2>1. /\ r.s \in Strings /\ r.s.m.bad = {"outside"} /\ r.s.slen = Size(r.s.m)
        /\ Clean(r.s.m, 0, r.s.slen)
    BY <1>10 DEF RanOut
  <2>2. Size(r.s.m) \in Nat
    BY <2>1, StringTyped
  <2>3. ~ junk
    BY <2>1, <2>2, NoJunk DEF junk
  <2>4. bad = {"outside"} /\ bad # {}
    BY <2>1, <2>3
  <2>5. QED
    BY <1>1, <1>10, <2>4 DEF BInv, OnlyKnownFaults
<1>8. CASE Stale(r) /\ \/ what.op \in {"bfindreplace", "bfindreplacecaseless"} /\ what.pos > 0
                       \/ what.op \in {"bcatblk", "bcatcstr"} /\ what.own
  <2>1. r.s \in Strings /\ Size(r.s.m) <= MaxInt /\ Ended(r.s) /\ r.s.m.bad = {}
    BY <1>8 DEF Stale
  <2>2. CASE ~ junk
    BY <1>5, <2>1, <2>2
  <2>3. CASE junk
    <3>1. bad = {"stale"}
      BY <2>1, <2>3
    <3>2. QED
      BY <1>1, <1>8, <3>1 DEF BInv, OnlyKnownFaults
  <2>4. QED
    BY <2>2, <2>3
<1>9. QED
  BY <1>3, <1>4, <1>6, <1>7, <1>8, <1>10 DEF Known

(* The arguments of calls.                                                 *)
LEMMA Arguments ==
  /\ \A w \in Words : w \in Seq(Chars) /\ Len(w) < MaxInt /\ Len(w) <= MaxInt
  /\ \A p \in Places : p \in Ints
  /\ \A n \in Lengths : n \in Ints
  /\ \A memory \in Memory : memory \in {"plenty", "tight", "none"}
<1>1. \A w \in Words : w \in Seq(Chars) /\ Len(w) < MaxInt
  BY LengthsAreInts
<1>2. \A w \in Words : Len(w) <= MaxInt
  BY <1>1, SizesAreInts
<1>3. QED
  BY <1>1, <1>2, LengthsAreInts, MemoryIsShort

(* The calls that make strings.                                            *)
LEMMA MakeKeeps ==
  ASSUME str = None, NEW memory \in Memory, Make(memory)
  PROVE  BInv'
<1>1. memory \in {"plenty", "tight", "none"}
  BY Arguments
<1>2. ASSUME NEW what, NEW r, Good(r, str), Call(what, memory, r) PROVE BInv'
  BY <1>1, <1>2, CallKeeps DEF Known
<1>3. PICK w \in Words :
       \/ Call([op |-> "bfromcstr", text |-> w], memory, bfromcstr(w, memory))
       \/ \E n \in Lengths : Call([op |-> "bfromcstralloc", text |-> w], memory, bfromcstralloc(n, w, memory))
       \/ Call([op |-> "blk2bstr", text |-> w], memory, blk2bstr(w, memory))
       \/ Call([op |-> "bread", text |-> w], memory, bread(w, memory))
       \/ \E c \in Chars : Call([op |-> "bgets", text |-> w, char |-> c], memory, bgets(w, c, memory))
  BY DEF Make
<1>4. w \in Seq(Chars) /\ Len(w) < MaxInt
  BY Arguments
<1>5. Good(bfromcstr(w, memory), str)
  BY <1>4, bfromcstrSane
<1>6. \A n \in Lengths : Good(bfromcstralloc(n, w, memory), str)
  BY <1>4, bfromcstrallocSane, Arguments
<1>7. Good(blk2bstr(w, memory), str)
  BY <1>4, blk2bstrSane
<1>8. Good(bread(w, memory), str)
  BY <1>4, breadSane
<1>9. \A c \in Chars : Good(bgets(w, c, memory), str)
  BY <1>4, bgetsSane
<1>10. QED
  BY <1>2, <1>3, <1>5, <1>6, <1>7, <1>8, <1>9

(* The copies.                                                             *)
LEMMA CopyKeeps ==
  ASSUME Sound(str), NEW memory \in Memory, Copy(memory)
  PROVE  BInv'
<1>1. memory \in {"plenty", "tight", "none"}
  BY Arguments
<1>2. ASSUME NEW what, NEW r, Good(r, str), Call(what, memory, r) PROVE BInv'
  BY <1>1, <1>2, CallKeeps DEF Known
<1>3. Good(bstrcpy(str, memory), str)
  BY bstrcpySane
<1>4. \A p \in Places, n \in Lengths : Good(bmidstr(str, p, n, memory), str)
  BY bmidstrSane, Arguments
<1>5. QED
  BY <1>2, <1>3, <1>4 DEF Copy

(* balloc and ballocmin.                                                   *)
LEMMA ResizeKeeps ==
  ASSUME Sound(str), NEW memory \in Memory, Resize(memory)
  PROVE  BInv'
<1>1. memory \in {"plenty", "tight", "none"}
  BY Arguments
<1>2. ASSUME NEW what, NEW r, Good(r, str), Call(what, memory, r) PROVE BInv'
  BY <1>1, <1>2, CallKeeps DEF Known
<1>3. PICK n \in Lengths :
        \/ Call([op |-> "balloc", len |-> n], memory,
                [rc |-> IF balloc(str, n, memory).ok THEN 0 ELSE ERR,
                 s |-> [str EXCEPT !.m = balloc(str, n, memory).m]])
        \/ Call([op |-> "ballocmin", len |-> n], memory, ballocmin(str, n, memory))
  BY DEF Resize
<1>4. n \in Ints
  BY Arguments
<1> DEFINE r == [rc |-> IF balloc(str, n, memory).ok THEN 0 ELSE ERR,
                 s |-> [str EXCEPT !.m = balloc(str, n, memory).m]]
<1>5. Good(r, str)
  BY <1>4, ballocSane
<1>6. Good(ballocmin(str, n, memory), str)
  BY <1>4, ballocminSane
<1>7. Call([op |-> "balloc", len |-> n], memory, r)
      \/ Call([op |-> "ballocmin", len |-> n], memory, ballocmin(str, n, memory))
  BY <1>3
<1> HIDE DEF r
<1>8. QED
  BY <1>2, <1>5, <1>6, <1>7

(* The calls that catenate.                                                *)
LEMMA CatenateKeeps ==
  ASSUME Sound(str), NEW memory \in Memory, Catenate(memory)
  PROVE  BInv'
<1>1. memory \in {"plenty", "tight", "none"}
  BY Arguments
<1>2. ASSUME NEW what, NEW r, Known(what, memory, r), Call(what, memory, r) PROVE BInv'
  BY <1>1, <1>2, CallKeeps
<1>3. CASE \E src \in Sources(str) :
             Call([op |-> "bconcat", text |-> src.text], memory, bconcat(str, src, memory))
  <2>1. PICK src \in Sources(str) :
             Call([op |-> "bconcat", text |-> src.text], memory, bconcat(str, src, memory))
    BY <1>3
  <2> DEFINE r == bconcat(str, src, memory)
             what == [op |-> "bconcat", text |-> src.text]
  <2>2. Good(r, str) \/ (Loose(r) /\ r.rc = 0 /\ r.s.slen = MaxInt)
    BY bconcatSane
  <2>3. what.op = "bconcat"
    OBVIOUS
  <2> HIDE DEF r, what
  <2>4. Known(what, memory, r)
    BY <2>2, <2>3 DEF Known
  <2>5. Call(what, memory, r)
    BY <2>1 DEF r, what
  <2>6. QED
    BY <1>2, <2>4, <2>5
<1>4. CASE \E c \in Chars : Call([op |-> "bconchar", char |-> c], memory, bconchar(str, c, memory))
  <2>1. \A c \in Chars : Good(bconchar(str, c, memory), str)
    BY bconcharSane
  <2>2. \A what, r : Good(r, str) => Known(what, memory, r)
    BY DEF Known
  <2>3. QED
    BY <1>2, <1>4, <2>1, <2>2
<1>5. CASE \E src \in CStrings(str) :
             Call([op |-> "bcatcstr", text |-> src.text, own |-> src.own], memory, bcatcstr(str, src, memory))
  <2>1. PICK src \in CStrings(str) :
             Call([op |-> "bcatcstr", text |-> src.text, own |-> src.own], memory, bcatcstr(str, src, memory))
    BY <1>5
  <2> DEFINE r == bcatcstr(str, src, memory)
             what == [op |-> "bcatcstr", text |-> src.text, own |-> src.own]
  <2>2. \/ Half(r) \/ Sane(r) \/ (src.own /\ Stale(r))
        \/ src.own /\ CString(src.text) = src.text /\ RanOut(r)
    BY bcatcstrSane
  <2>3. what.op \in HalfWritten /\ what.op = "bcatcstr" /\ what.own = src.own /\ what.text = src.text
    BY DEF HalfWritten
  <2> HIDE DEF r, what
  <2>4. Known(what, memory, r)
    BY <2>2, <2>3 DEF Known, Good
  <2>5. Call(what, memory, r)
    BY <2>1 DEF r, what
  <2>6. QED
    BY <1>2, <2>4, <2>5
<1>6. CASE \E src \in Sources(str) :
             Call([op |-> "bcatblk", text |-> src.text, own |-> src.own], memory, bcatblk(str, src, memory))
  <2>1. PICK src \in Sources(str) :
             Call([op |-> "bcatblk", text |-> src.text, own |-> src.own], memory, bcatblk(str, src, memory))
    BY <1>6
  <2> DEFINE r == bcatblk(str, src, memory)
             what == [op |-> "bcatblk", text |-> src.text, own |-> src.own]
  <2>2. Good(r, str) \/ (src.own /\ Stale(r))
    <3>1. Proper(str) /\ Lies(str, src)
      BY SoundFacts, SourceGives DEF Lies
    <3>2. r = Refuse(str) \/ Sane(r) \/ (src.own /\ Stale(r))
      BY <3>1, bcatblkGives
    <3>3. QED
      BY <3>2, Refuses DEF Good
  <2>3. what.op = "bcatblk" /\ what.own = src.own
    OBVIOUS
  <2> HIDE DEF r, what
  <2>4. Known(what, memory, r)
    BY <2>2, <2>3 DEF Known
  <2>5. Call(what, memory, r)
    BY <2>1 DEF r, what
  <2>6. QED
    BY <1>2, <2>4, <2>5
<1>7. QED
  BY <1>3, <1>4, <1>5, <1>6 DEF Catenate

(* The calls that assign.                                                  *)
LEMMA AssignKeeps ==
  ASSUME Sound(str), NEW memory \in Memory, Assign(memory)
  PROVE  BInv'
<1>1. memory \in {"plenty", "tight", "none"}
  BY Arguments
<1>2. ASSUME NEW what, NEW r, Known(what, memory, r), Call(what, memory, r) PROVE BInv'
  BY <1>1, <1>2, CallKeeps
<1>3. CASE \E src \in Sources(str) :
             Call([op |-> "bassign", text |-> src.text], memory, bassign(str, src, memory))
  <2>1. PICK src \in Sources(str) :
             Call([op |-> "bassign", text |-> src.text], memory, bassign(str, src, memory))
    BY <1>3
  <2> DEFINE r == bassign(str, src, memory)
             what == [op |-> "bassign", text |-> src.text]
  <2>2. Good(r, str) \/ Over(r, memory)
    BY bassignSane
  <2>3. what.op = "bassign"
    OBVIOUS
  <2> HIDE DEF r, what
  <2>4. Known(what, memory, r)
    BY <2>2, <2>3 DEF Known
  <2>5. Call(what, memory, r)
    BY <2>1 DEF r, what
  <2>6. QED
    BY <1>2, <2>4, <2>5
<1>4. CASE \E src \in Sources(str), p \in Places, n \in Lengths :
             Call([op |-> "bassignmidstr", text |-> src.text, pos |-> p, len |-> n], memory,
                  bassignmidstr(str, src, p, n, memory))
  <2>1. PICK src \in Sources(str), p \in Places, n \in Lengths :
             Call([op |-> "bassignmidstr", text |-> src.text, pos |-> p, len |-> n], memory,
                  bassignmidstr(str, src, p, n, memory))
    BY <1>4
  <2> DEFINE r == bassignmidstr(str, src, p, n, memory)
             what == [op |-> "bassignmidstr", text |-> src.text, pos |-> p, len |-> n]
  <2>2. Good(r, str) \/ Over(r, memory)
    BY bassignmidstrSane, Arguments
  <2>3. what.op = "bassignmidstr"
    OBVIOUS
  <2> HIDE DEF r, what
  <2>4. Known(what, memory, r)
    BY <2>2, <2>3 DEF Known
  <2>5. Call(what, memory, r)
    BY <2>1 DEF r, what
  <2>6. QED
    BY <1>2, <2>4, <2>5
<1>5. CASE \E src \in CStrings(str) :
             Call([op |-> "bassigncstr", text |-> src.text], memory, bassigncstr(str, src, memory))
  <2>1. PICK src \in CStrings(str) :
             Call([op |-> "bassigncstr", text |-> src.text], memory, bassigncstr(str, src, memory))
    BY <1>5
  <2> DEFINE r == bassigncstr(str, src, memory)
             what == [op |-> "bassigncstr", text |-> src.text]
  <2>2. Half(r) \/ Sane(r)
    BY bassigncstrSane
  <2>3. what.op \in HalfWritten
    BY DEF HalfWritten
  <2> HIDE DEF r, what
  <2>4. Known(what, memory, r)
    BY <2>2, <2>3 DEF Known, Good
  <2>5. Call(what, memory, r)
    BY <2>1 DEF r, what
  <2>6. QED
    BY <1>2, <2>4, <2>5
<1>6. CASE \E src \in Sources(str) :
             Call([op |-> "bassignblk", text |-> src.text], memory, bassignblk(str, src, memory))
  <2>1. \A src \in Sources(str) : Good(bassignblk(str, src, memory), str)
    BY bassignblkSane
  <2>2. \A what, r : Good(r, str) => Known(what, memory, r)
    BY DEF Known
  <2>3. QED
    BY <1>2, <1>6, <2>1, <2>2
<1>7. QED
  BY <1>3, <1>4, <1>5, <1>6 DEF Assign

(* The calls that cut.                                                     *)
LEMMA CutKeeps ==
  ASSUME Sound(str), Cut
  PROVE  BInv'
<1>1. ASSUME NEW what, NEW r, Known(what, "plenty", r), Call(what, "plenty", r) PROVE BInv'
  BY <1>1, CallKeeps
<1>2. \A what, r : Good(r, str) => Known(what, "plenty", r)
  BY DEF Known
<1>3. ASSUME NEW n \in Lengths, Call([op |-> "btrunc", len |-> n], "plenty", btrunc(str, n)) PROVE BInv'
  <2>1. Good(btrunc(str, n), str)
    BY btruncSane, Arguments
  <2>2. QED
    BY <1>1, <1>2, <1>3, <2>1
<1>4. ASSUME NEW p \in Places, NEW n \in Lengths,
             Call([op |-> "bdelete", pos |-> p, len |-> n], "plenty", bdelete(str, p, n))
      PROVE  BInv'
  <2> DEFINE r == bdelete(str, p, n)
             what == [op |-> "bdelete", pos |-> p, len |-> n]
  <2>1. p \in Ints /\ n \in Ints /\ MaxInt \in Nat
    BY Arguments, SizesAreInts
  <2>2. p + n <= MaxInt => Good(r, str)
    BY <2>1, bdeleteSane
  <2>3. p + n > MaxInt => Loose(r) /\ r.rc = 0
    BY <2>1, bdeleteLoose
  <2>4. what.op = "bdelete" /\ what.pos = p /\ what.len = n
    OBVIOUS
  <2> HIDE DEF r, what
  <2>5. p + n <= MaxInt \/ p + n > MaxInt
    BY <2>1 DEF Ints
  <2>6. Known(what, "plenty", r)
    BY <2>2, <2>3, <2>4, <2>5 DEF Known
  <2>7. Call(what, "plenty", r)
    BY <1>4 DEF r, what
  <2>8. QED
    BY <1>1, <2>6, <2>7
<1>5. Good(bltrimws(str), str) /\ Good(brtrimws(str), str) /\ Good(btrimws(str), str)
  BY TrimsSane
<1>6. QED
  BY <1>1, <1>2, <1>3, <1>4, <1>5 DEF Cut

(* The calls that change letters.                                          *)
LEMMA FoldKeeps ==
  ASSUME Sound(str), Fold
  PROVE  BInv'
<1>1. ASSUME NEW what, NEW r, Good(r, str), Call(what, "plenty", r) PROVE BInv'
  BY <1>1, CallKeeps DEF Known
<1>2. Good(btoupper(str), str) /\ Good(btolower(str), str)
  BY FoldSane
<1>3. QED
  BY <1>1, <1>2 DEF Fold

(* bpattern.                                                               *)
LEMMA RepeatKeeps ==
  ASSUME Sound(str), NEW memory \in Memory, Repeat(memory)
  PROVE  BInv'
<1>1. memory \in {"plenty", "tight", "none"}
  BY Arguments
<1>2. ASSUME NEW what, NEW r, Good(r, str), Call(what, memory, r) PROVE BInv'
  BY <1>1, <1>2, CallKeeps DEF Known
<1>3. \A n \in Lengths : Good(bpattern(str, n, memory), str)
  BY bpatternSane, Arguments
<1>4. QED
  BY <1>2, <1>3 DEF Repeat

(* The calls that write into the text.                                     *)
LEMMA ChangeKeeps ==
  ASSUME Sound(str), NEW memory \in Memory, Change(memory)
  PROVE  BInv'
<1>1. memory \in {"plenty", "tight", "none"}
  BY Arguments
<1>2. ASSUME NEW what, NEW r, Known(what, memory, r), Call(what, memory, r) PROVE BInv'
  BY <1>1, <1>2, CallKeeps
<1>3. \A what, r : Good(r, str) => Known(what, memory, r)
  BY DEF Known
<1>4. ASSUME NEW p \in Places, NEW src \in Sources(str),
             Call([op |-> "bsetstr", pos |-> p, len |-> 0, text |-> src.text], memory, bsetstr(str, p, src, memory))
      PROVE  BInv'
  <2>1. Good(bsetstr(str, p, src, memory), str)
    BY bsetstrSane, Arguments
  <2>2. QED
    BY <1>2, <1>3, <1>4, <2>1
<1>5. ASSUME NEW p \in Places, NEW src \in Sources(str),
             Call([op |-> "binsert", pos |-> p, len |-> 0, text |-> src.text], memory, binsert(str, p, src, memory))
      PROVE  BInv'
  <2>1. Good(binsert(str, p, src, memory), str)
    BY binsertSane, Arguments
  <2>2. QED
    BY <1>2, <1>3, <1>5, <2>1
<1>6. ASSUME NEW p \in Places, NEW src \in Sources(str), NEW n \in Lengths,
             Call([op |-> "breplace", pos |-> p, len |-> n, text |-> src.text], memory,
                  breplace(str, p, n, src, memory))
      PROVE  BInv'
  <2> DEFINE r == breplace(str, p, n, src, memory)
             what == [op |-> "breplace", pos |-> p, len |-> n, text |-> src.text]
  <2>1. Good(r, str) \/ Over(r, memory)
    BY breplaceSane, Arguments
  <2>2. what.op = "breplace"
    OBVIOUS
  <2> HIDE DEF r, what
  <2>3. Known(what, memory, r)
    BY <2>1, <2>2 DEF Known
  <2>4. Call(what, memory, r)
    BY <1>6 DEF r, what
  <2>5. QED
    BY <1>2, <2>3, <2>4
<1>7. ASSUME NEW p \in Places, NEW n \in Lengths,
             Call([op |-> "binsertch", pos |-> p, len |-> n, text |-> <<>>], memory, binsertch(str, p, n, memory))
      PROVE  BInv'
  <2>1. Good(binsertch(str, p, n, memory), str)
    BY binsertchSane, Arguments
  <2>2. QED
    BY <1>2, <1>3, <1>7, <2>1
<1>8. QED
  BY <1>4, <1>5, <1>6, <1>7 DEF Change

(* bfindreplace and bfindreplacecaseless.                                  *)
LEMMA FindReplaceKeeps ==
  ASSUME Sound(str), NEW memory \in Memory, FindReplace(memory)
  PROVE  BInv'
<1>1. memory \in {"plenty", "tight", "none"}
  BY Arguments
<1>2. ASSUME NEW what, NEW r, Known(what, memory, r), Call(what, memory, r) PROVE BInv'
  BY <1>1, <1>2, CallKeeps
<1>3. ASSUME NEW p \in Places, NEW find \in Sources(str), NEW repl \in Sources(str),
             Call([op |-> "bfindreplace", pos |-> p, find |-> find.text, text |-> repl.text], memory,
                  bfindreplace(str, find, repl, p, memory))
      PROVE  BInv'
  <2> DEFINE r == bfindreplace(str, find, repl, p, memory)
             what == [op |-> "bfindreplace", pos |-> p, find |-> find.text, text |-> repl.text]
  <2>1. Good(r, str) \/ (Stale(r) /\ p > 0)
    BY findreplaceengineSane, Arguments DEF bfindreplace
  <2>2. what.op = "bfindreplace" /\ what.pos = p
    OBVIOUS
  <2> HIDE DEF r, what
  <2>3. Known(what, memory, r)
    BY <2>1, <2>2 DEF Known
  <2>4. Call(what, memory, r)
    BY <1>3 DEF r, what
  <2>5. QED
    BY <1>2, <2>3, <2>4
<1>4. ASSUME NEW p \in Places, NEW find \in Sources(str), NEW repl \in Sources(str),
             Call([op |-> "bfindreplacecaseless", pos |-> p, find |-> find.text, text |-> repl.text], memory,
                  bfindreplacecaseless(str, find, repl, p, memory))
      PROVE  BInv'
  <2> DEFINE r == bfindreplacecaseless(str, find, repl, p, memory)
             what == [op |-> "bfindreplacecaseless", pos |-> p, find |-> find.text, text |-> repl.text]
  <2>1. Good(r, str) \/ (Stale(r) /\ p > 0)
    BY findreplaceengineSane, Arguments DEF bfindreplacecaseless
  <2>2. what.op = "bfindreplacecaseless" /\ what.pos = p
    OBVIOUS
  <2> HIDE DEF r, what
  <2>3. Known(what, memory, r)
    BY <2>1, <2>2 DEF Known
  <2>4. Call(what, memory, r)
    BY <1>4 DEF r, what
  <2>5. QED
    BY <1>2, <2>3, <2>4
<1>5. QED
  BY <1>3, <1>4 DEF FindReplace

(* The calls that read a stream.                                           *)
LEMMA ReadKeeps ==
  ASSUME Sound(str), NEW memory \in Memory, Read(memory)
  PROVE  BInv'
<1>1. memory \in {"plenty", "tight", "none"}
  BY Arguments
<1>2. ASSUME NEW what, NEW r, what.op \in HalfWritten, Half(r) \/ Sane(r), Call(what, memory, r) PROVE BInv'
  <2>1. Known(what, memory, r)
    BY <1>2 DEF Known, Good
  <2>2. QED
    BY <1>1, <1>2, <2>1, CallKeeps
<1>3. {"breada", "bgetsa", "bassigngets"} \subseteq HalfWritten
  BY DEF HalfWritten
<1>4. ASSUME NEW w \in Words, Call([op |-> "breada", text |-> w], memory, breada(str, w, memory)) PROVE BInv'
  <2> DEFINE r == breada(str, w, memory)
             what == [op |-> "breada", text |-> w]
  <2>1. Half(r) \/ Sane(r)
    BY breadaSane, Arguments
  <2>2. what.op \in HalfWritten
    BY <1>3
  <2>3. Call(what, memory, r)
    BY <1>4
  <2> HIDE DEF r, what
  <2>4. QED
    BY <1>2, <2>1, <2>2, <2>3
<1>5. ASSUME NEW w \in Words, NEW c \in Chars,
             Call([op |-> "bgetsa", text |-> w, char |-> c], memory, bgetsa(str, w, c, memory))
      PROVE  BInv'
  <2> DEFINE r == bgetsa(str, w, c, memory)
             what == [op |-> "bgetsa", text |-> w, char |-> c]
  <2>1. Half(r) \/ Sane(r)
    BY bgetsaSane, Arguments
  <2>2. what.op \in HalfWritten
    BY <1>3
  <2>3. Call(what, memory, r)
    BY <1>5
  <2> HIDE DEF r, what
  <2>4. QED
    BY <1>2, <2>1, <2>2, <2>3
<1>6. ASSUME NEW w \in Words, NEW c \in Chars,
             Call([op |-> "bassigngets", text |-> w, char |-> c], memory, bassigngets(str, w, c, memory))
      PROVE  BInv'
  <2> DEFINE r == bassigngets(str, w, c, memory)
             what == [op |-> "bassigngets", text |-> w, char |-> c]
  <2>1. Half(r) \/ Sane(r)
    BY bassigngetsSane, Arguments
  <2>2. what.op \in HalfWritten
    BY <1>3
  <2>3. Call(what, memory, r)
    BY <1>6
  <2> HIDE DEF r, what
  <2>4. QED
    BY <1>2, <2>1, <2>2, <2>3
<1>7. QED
  BY <1>4, <1>5, <1>6 DEF Read

(* All calls on a string that there is.                                    *)
LEMMA UseKeeps ==
  ASSUME Sound(str), NEW memory \in Memory, Use(memory)
  PROVE  BInv'
BY CopyKeeps, ResizeKeeps, CatenateKeeps, AssignKeeps, ChangeKeeps, RepeatKeeps, FindReplaceKeeps, ReadKeeps
   DEF Use

(* Between calls the string is sound, whatever a program called before and *)
(* with whatever arguments: its block is no larger than an int can say, its*)
(* text is of characters that were written, and a `\0' stands behind it in *)
(* the block (bstrlib.c, every function that writes).                      *)
THEOREM AlwaysSound == Spec => []BInv
<1>1. Init => BInv
  BY DEF Init, BInv, OnlyKnownFaults, Idle
<1>2. BInv /\ [Next]_vars => BInv'
  <2> SUFFICES ASSUME BInv, [Next]_vars PROVE BInv'
    OBVIOUS
  <2>1. CASE Return
    <3>1. str = None \/ Sound(str)
      BY <2>1 DEF BInv, Return
    <3>2. str' = str /\ call'.bad = {}
      BY <2>1 DEF Return, Idle
    <3>3. str' = None \/ Sound(str')
      BY <3>1, <3>2
    <3>4. QED
      BY <3>2, <3>3 DEF BInv, OnlyKnownFaults
  <2>2. CASE bdestroy
    BY <2>2 DEF bdestroy, BInv, OnlyKnownFaults, Idle
  <2>3. CASE call = Idle /\ str = None /\ \E memory \in Memory : Make(memory)
    BY <2>3, MakeKeeps
  <2>4. CASE call = Idle /\ str # None /\ (Cut \/ Fold \/ \E memory \in Memory : Use(memory))
    <3>1. Sound(str)
      BY <2>4, NotBroken DEF BInv
    <3>2. QED
      BY <2>4, <3>1, CutKeeps, FoldKeeps, UseKeeps
  <2>5. CASE UNCHANGED vars
    <3>1. str' = str /\ call' = call
      BY <2>5 DEF vars
    <3>2. QED
      BY <3>1 DEF BInv, OnlyKnownFaults, Broken
  <2>6. QED
    BY <2>1, <2>2, <2>3, <2>4, <2>5 DEF Next
<1>3. QED
  BY <1>1, <1>2, PTL DEF Spec

(* A text ends with a `\0' inside of its block, for blocks, texts and      *)
(* programs of any length and whatever the allocator does.                 *)
THEOREM StringsAreTerminated == Spec => []Terminated
<1>1. BInv => Terminated
  BY DEF BInv, Terminated, Valid, Sound, Ended
<1>2. QED
  BY <1>1, AlwaysSound, PTL

(* No function goes outside of the block or takes bytes of a block that    *)
(* was replaced, whatever part of the text its source is, but in the cases *)
(* that OnlyKnownFaults names.                                             *)
THEOREM FaultsAreKnown == Spec => []OnlyKnownFaults
<1>1. BInv => OnlyKnownFaults
  BY DEF BInv
<1>2. QED
  BY <1>1, AlwaysSound, PTL

\* All the places where u stands in t.
PlacesOf(t, u, caseless) == {k \in 0..Len(t) : Standing(t, u, k, caseless)}

(* Searches from a position outside of the text find nothing.              *)
LEMMA Outside ==
  ASSUME NEW t, NEW u, Len(t) \in Nat, Len(u) \in Nat, u = <<>> <=> Len(u) = 0, NEW pos \in Int, pos \notin 0..Len(t),
         NEW alias, NEW caseless
  PROVE  /\ binstr(t, pos, u, alias) = ERR
         /\ binstrcaseless(t, pos, u, alias) = ERR
         /\ Backward(t, pos, u, alias, caseless) = ERR
<1>1. Len(t) # pos /\ (Len(t) < pos \/ pos < 0)
  OBVIOUS
<1>2. binstr(t, pos, u, alias) = ERR
  BY <1>1 DEF binstr
<1>3. binstrcaseless(t, pos, u, alias) = ERR
  BY <1>1 DEF binstrcaseless
<1>4. Backward(t, pos, u, alias, caseless) = ERR
  BY <1>1 DEF Backward
<1>5. QED
  BY <1>2, <1>3, <1>4

(* The searches for strings return the nearest place.                      *)
LEMMA StringsFound ==
  ASSUME NEW t, NEW u, Len(t) \in Nat, Len(u) \in Nat, u = <<>> <=> Len(u) = 0, NEW pos \in Int, NEW alias,
         alias => Standing(t, u, 0, FALSE) /\ Standing(t, u, 0, TRUE)
  PROVE  /\ binstr(t, pos, u, alias) = FirstIn(t, PlacesOf(t, u, FALSE), pos)
         /\ binstrr(t, pos, u, alias) = LastIn(t, PlacesOf(t, u, FALSE), pos)
         /\ binstrcaseless(t, pos, u, alias) = FirstIn(t, PlacesOf(t, u, TRUE), pos)
         /\ binstrrcaseless(t, pos, u, alias) = LastIn(t, PlacesOf(t, u, TRUE), pos)
<1>1. CASE pos \notin 0..Len(t)
  BY <1>1, Outside DEF FirstIn, LastIn, binstrr, binstrrcaseless
<1>2. CASE pos \in 0..Len(t)
  <2>1. pos \in Nat
    BY <1>2
  <2>2. binstr(t, pos, u, alias) = FirstIn(t, PlacesOf(t, u, FALSE), pos)
    <3>1. binstr(t, pos, u, alias) = Least(PlacesFrom(t, u, pos, FALSE))
      BY <1>2, <2>1, binstrFinds, FirstIsLeast
    <3>2. QED
      BY <1>2, <3>1 DEF FirstIn, PlacesOf, PlacesFrom
  <2>3. binstrcaseless(t, pos, u, alias) = FirstIn(t, PlacesOf(t, u, TRUE), pos)
    <3>1. binstrcaseless(t, pos, u, alias) = Least(PlacesFrom(t, u, pos, TRUE))
      BY <1>2, <2>1, binstrcaselessFinds, FirstIsLeast
    <3>2. QED
      BY <1>2, <3>1 DEF FirstIn, PlacesOf, PlacesFrom
  <2>4. ASSUME NEW caseless \in BOOLEAN
        PROVE  Backward(t, pos, u, alias, caseless) = LastIn(t, PlacesOf(t, u, caseless), pos)
    <3>1. alias => Standing(t, u, 0, caseless)
      OBVIOUS
    <3>2. IsLast(Backward(t, pos, u, alias, caseless), t, u, pos, caseless)
      BY <1>2, <3>1, BackwardFinds
    <3>3. Backward(t, pos, u, alias, caseless) = Greatest(PlacesUpTo(t, u, pos, caseless))
      BY <2>1, <3>2, LastIsGreatest
    <3>4. QED
      BY <1>2, <3>3 DEF LastIn, PlacesOf, PlacesUpTo
  <2>5. QED
    BY <2>2, <2>3, <2>4 DEF binstrr, binstrrcaseless
<1>3. QED
  BY <1>1, <1>2

(* A string stands at the start of those that it is the start of.          *)
LEMMA Prefixes ==
  ASSUME NEW t \in Seq(Chars), NEW n \in 0..Len(t), NEW caseless
  PROVE  Standing(t, SubSeq(t, 1, n), 0, caseless)
BY DEF Standing, Same

(* The places of the specification are those of the proof.                 *)
LEMMA StandsStanding ==
  ASSUME NEW t \in Seq(Chars), NEW u \in Seq(Chars), NEW caseless
  PROVE  {i \in 0..Len(t) : Promised!Stands(t, u, i, caseless)} = PlacesOf(t, u, caseless)
BY DEF Promised!Stands, Promised!Same, Promised!At, Promised!Positions, Promised!Lower, PlacesOf, Standing, Same, Lower

(* All searches of bstrlib.c:1023-1391 find what they promise in every     *)
(* text that a program can come to.                                        *)
THEOREM SearchesAreRight == Spec => []SearchesFind
<1>1. BInv => SearchesFind
  <2> SUFFICES ASSUME BInv, Valid, call = Idle PROVE SearchesFind
    BY DEF SearchesFind
  <2> DEFINE t == Text(str)
             Match(u, caseless) == {i \in 0..Len(t) : Promised!Stands(t, u, i, caseless)}
             Agree(u, pos, alias) ==
               /\ binstr(t, pos, u, alias) = FirstIn(t, Match(u, FALSE), pos)
               /\ binstrr(t, pos, u, alias) = LastIn(t, Match(u, FALSE), pos)
               /\ binstrcaseless(t, pos, u, alias) = FirstIn(t, Match(u, TRUE), pos)
               /\ binstrrcaseless(t, pos, u, alias) = LastIn(t, Match(u, TRUE), pos)
               /\ binchr(t, pos, u) = FirstIn(t, OneIn(t, u), pos)
               /\ binchrr(t, pos, u) = LastIn(t, OneIn(t, u), pos)
               /\ bninchr(t, pos, u) = FirstIn(t, NoneIn(t, u), pos)
               /\ bninchrr(t, pos, u) = LastIn(t, NoneIn(t, u), pos)
  <2>1. t \in Seq(Chars)
    BY TextGives DEF BInv, Valid, Sound
  <2>2. ASSUME NEW u \in Seq(Chars), NEW pos \in Int, NEW alias,
               alias => Standing(t, u, 0, FALSE) /\ Standing(t, u, 0, TRUE)
        PROVE  Agree(u, pos, alias)
    <3> HIDE DEF t
    <3>1. Match(u, FALSE) = PlacesOf(t, u, FALSE) /\ Match(u, TRUE) = PlacesOf(t, u, TRUE)
      BY <2>1, StandsStanding
    <3> HIDE DEF Match
    <3>2. Len(t) \in Nat /\ Len(u) \in Nat /\ (u = <<>> <=> Len(u) = 0)
      BY <2>1
    <3>3. /\ binstr(t, pos, u, alias) = FirstIn(t, Match(u, FALSE), pos)
          /\ binstrr(t, pos, u, alias) = LastIn(t, Match(u, FALSE), pos)
          /\ binstrcaseless(t, pos, u, alias) = FirstIn(t, Match(u, TRUE), pos)
          /\ binstrrcaseless(t, pos, u, alias) = LastIn(t, Match(u, TRUE), pos)
      <4>1. alias => Standing(t, u, 0, FALSE) /\ Standing(t, u, 0, TRUE)
        BY <2>2
      <4>2. /\ binstr(t, pos, u, alias) = FirstIn(t, PlacesOf(t, u, FALSE), pos)
            /\ binstrr(t, pos, u, alias) = LastIn(t, PlacesOf(t, u, FALSE), pos)
            /\ binstrcaseless(t, pos, u, alias) = FirstIn(t, PlacesOf(t, u, TRUE), pos)
            /\ binstrrcaseless(t, pos, u, alias) = LastIn(t, PlacesOf(t, u, TRUE), pos)
        BY <3>2, <4>1, StringsFound
      <4>3. QED
        BY <3>1, <4>2
    <3>4. /\ binchr(t, pos, u) = FirstIn(t, OneIn(t, u), pos)
          /\ binchrr(t, pos, u) = LastIn(t, OneIn(t, u), pos)
          /\ bninchr(t, pos, u) = FirstIn(t, NoneIn(t, u), pos)
          /\ bninchrr(t, pos, u) = LastIn(t, NoneIn(t, u), pos)
      BY <3>2, CharactersFound
    <3>5. QED
      BY <3>3, <3>4
  <2>3. \A pos \in -1..(Len(t) + 1) : \A u \in Words : Agree(u, pos, FALSE)
    <3> HIDE DEF Agree, t
    <3>1. \A u \in Words : u \in Seq(Chars)
      BY Arguments
    <3>2. \A u \in Seq(Chars), pos \in Int : Agree(u, pos, FALSE)
      BY <2>2
    <3>3. -1..(Len(t) + 1) \subseteq Int
      OBVIOUS
    <3>4. QED
      BY <3>1, <3>2, <3>3
  <2>4. \A pos \in -1..(Len(t) + 1) : \A n \in 0..Len(t) : Agree(SubSeq(t, 1, n), pos, TRUE)
    <3> HIDE DEF Agree, t
    <3>1. \A n \in 0..Len(t) : SubSeq(t, 1, n) \in Seq(Chars)
      BY <2>1
    <3>2. \A n \in 0..Len(t) : Standing(t, SubSeq(t, 1, n), 0, FALSE) /\ Standing(t, SubSeq(t, 1, n), 0, TRUE)
      BY <2>1, Prefixes
    <3>3. \A n \in 0..Len(t), pos \in Int : Agree(SubSeq(t, 1, n), pos, TRUE)
      BY <2>2, <3>1, <3>2
    <3>4. -1..(Len(t) + 1) \subseteq Int
      OBVIOUS
    <3>5. QED
      BY <3>3, <3>4
  <2>5. QED
    BY <2>3, <2>4 DEF SearchesFind, FirstIn, LastIn, OneIn, NoneIn
<1>2. QED
  BY <1>1, AlwaysSound, PTL

(* Characters differ in their codes.                                       *)
LEMMA Codes ==
  \A a, b \in Chars : /\ Code(a) \in Int /\ (Code(a) = Code(b) => a = b)
                      /\ Lower(a) \in Chars /\ Extra(a) \in Int /\ Extra(a) > 0
<1>1. \A a \in Chars : Code(a) \in {0, 32, 88, 120}
  BY DEF Chars, Code, Nul, Space
<1>2. \A a, b \in Chars : Code(a) = Code(b) => a = b
  <2>1. Code(Nul) = 0 /\ Code(Space) = 32 /\ Code("X") = 88 /\ Code("x") = 120
    BY DEF Code, Nul, Space
  <2>2. QED
    BY <2>1 DEF Chars
<1>3. \A a \in Chars : Lower(a) \in Chars
  BY DEF Chars, Lower
<1>4. \A a \in Chars : Extra(a) \in Int /\ Extra(a) > 0
  BY <1>1, <1>3 DEF Extra
<1>5. QED
  BY <1>1, <1>2, <1>3, <1>4

\* A loop that returned i stopped there, or found nothing to stop at.
Stopped(i, t, u, n, how) ==
  \/ i = ERR /\ \A k \in 0..n - 1 : ~ Stops(t[k + 1], u[k + 1], how)
  \/ /\ i \in 0..n - 1 /\ Stops(t[i + 1], u[i + 1], how)
     /\ \A k \in 0..i - 1 : ~ Stops(t[k + 1], u[k + 1], how)

(* FirstStop is where the loops stop.                                      *)
LEMMA Stopping ==
  ASSUME NEW t, NEW u, NEW n \in Nat, NEW how
  PROVE  Stopped(FirstStop(t, u, n, how), t, u, n, how)
<1> DEFINE S == {i \in 0..(n - 1) : Stops(At(t, i), At(u, i), how)}
<1>1. S \in SUBSET Nat
  OBVIOUS
<1>2. \A k \in Nat : k \in S <=> k \in 0..n - 1 /\ Stops(t[k + 1], u[k + 1], how)
  BY DEF At
<1>3. FirstStop(t, u, n, how) = Least(S)
  BY DEF FirstStop
<1>7. S \subseteq 0..n - 1
  OBVIOUS
<1> HIDE DEF S
<1>4. CASE S = {}
  <2>1. Least(S) = ERR
    BY <1>4 DEF Least
  <2>2. QED
    BY <1>2, <1>3, <1>4, <2>1 DEF Stopped
<1>5. CASE S # {}
  <2>1. Least(S) \in S /\ \A k \in S : Least(S) <= k
    BY <1>1, <1>5, LeastMember
  <2>2. PICK i \in 0..n - 1 : i = Least(S)
    BY <1>7, <2>1
  <2>3. Stops(t[i + 1], u[i + 1], how)
    BY <1>2, <2>1, <2>2
  <2>4. \A k \in 0..i - 1 : ~ Stops(t[k + 1], u[k + 1], how)
    BY <1>2, <2>1, <2>2
  <2>5. QED
    BY <1>3, <2>2, <2>3, <2>4 DEF Stopped
<1>6. QED
  BY <1>4, <1>5

\* What stops the loops does so whichever string is the first.
LEMMA StopsTwoWays ==
  ASSUME NEW t, NEW u, NEW n, NEW how \in {"exact", "caseless", "cstring"}
  PROVE  FirstStop(t, u, n, how) = FirstStop(u, t, n, how)
<1>1. \A a, b : Stops(a, b, how) <=> Stops(b, a, how)
  BY DEF Stops, DifferFolded
<1>2. QED
  BY <1>1 DEF FirstStop

(* Folded texts are equal when each letter is.                             *)
LEMMA FoldedSame ==
  ASSUME NEW t \in Seq(Chars), NEW u \in Seq(Chars)
  PROVE  Folded(t) = Folded(u) <=> Len(t) = Len(u) /\ \A k \in 1..Len(t) : Lower(t[k]) = Lower(u[k])
<1>1. Folded(t) = [k \in 1..Len(t) |-> Lower(t[k])] /\ Folded(u) = [k \in 1..Len(u) |-> Lower(u[k])]
  BY DEF Folded
<1>2. ASSUME Folded(t) = Folded(u)
      PROVE  Len(t) = Len(u) /\ \A k \in 1..Len(t) : Lower(t[k]) = Lower(u[k])
  <2>1. 1..Len(t) = 1..Len(u)
    BY <1>1, <1>2
  <2>2. Len(t) = Len(u)
    <3>1. PICK a \in Nat : a = Len(t)
      OBVIOUS
    <3>2. PICK b \in Nat : b = Len(u)
      OBVIOUS
    <3>3. \A k \in Int : k \in 1..a <=> k \in 1..b
      BY <2>1, <3>1, <3>2
    <3>4. a <= b
      BY <3>3
    <3>5. b <= a
      BY <3>3
    <3>6. QED
      BY <3>1, <3>2, <3>4, <3>5
  <2>3. \A k \in 1..Len(t) : Folded(t)[k] = Lower(t[k])
    BY <1>1
  <2>4. \A k \in 1..Len(u) : Folded(u)[k] = Lower(u[k])
    BY <1>1
  <2>5. QED
    BY <1>2, <2>2, <2>3, <2>4
<1>3. ASSUME Len(t) = Len(u), \A k \in 1..Len(t) : Lower(t[k]) = Lower(u[k])
      PROVE  Folded(t) = Folded(u)
  BY <1>1, <1>3
<1>4. QED
  BY <1>2, <1>3

(* What a text is that was cut.                                            *)
LEMMA Cut1Gives ==
  ASSUME NEW t \in Seq(Chars), NEW n \in Nat
  PROVE  /\ Cut1(t, n) \in Seq(Chars)
         /\ Len(Cut1(t, n)) = IF n < Len(t) THEN n ELSE Len(t)
         /\ \A k \in 1..Len(Cut1(t, n)) : Cut1(t, n)[k] = t[k]
BY DEF Cut1

\* No character of the text is a `\0'.
LEMMA WithoutNul ==
  ASSUME NEW w \in Seq(Chars)
  PROVE  CString(w) = w <=> \A k \in 1..Len(w) : w[k] # Nul
<1> DEFINE E == {i \in Positions(w) : At(w, i) = Nul}
<1>1. E \in SUBSET Nat
  BY DEF Positions
<1>2. CASE E = {}
  <2>1. Least(E) = ERR
    BY <1>2 DEF Least
  <2>2. CString(w) = w
    BY <2>1 DEF CString
  <2>3. \A k \in 1..Len(w) : w[k] # Nul
    <3> SUFFICES ASSUME NEW k \in 1..Len(w), w[k] = Nul PROVE FALSE
      OBVIOUS
    <3>1. k - 1 \in Positions(w) /\ At(w, k - 1) = Nul
      BY DEF Positions, At
    <3>2. QED
      BY <1>2, <3>1
  <2>4. QED
    BY <2>2, <2>3
<1>3. CASE E # {}
  <2> HIDE DEF E
  <2>1. PICK e \in Nat : e = Least(E) /\ e \in E
    BY <1>1, <1>3, LeastMember
  <2>2. e < Len(w) /\ w[e + 1] = Nul
    BY <2>1 DEF E, Positions, At
  <2>3. CString(w) = SubSeq(w, 1, e)
    <3>1. CString(w) = IF Least(E) = ERR THEN w ELSE SubSeq(w, 1, Least(E))
      BY DEF CString, E
    <3>2. Least(E) # ERR
      BY <2>1 DEF ERR
    <3>3. QED
      BY <2>1, <3>1, <3>2
  <2>4. Len(SubSeq(w, 1, e)) = e
    BY <2>2
  <2>5. CString(w) # w
    BY <2>2, <2>3, <2>4
  <2>6. QED
    BY <2>2, <2>5
<1>4. QED
  BY <1>2, <1>3

\* What the functions that tell equal from different say.
LEMMA EqualityFound ==
  ASSUME NEW t \in Seq(Chars), NEW u \in Seq(Chars), NEW same, same <=> t = u
  PROVE  /\ biseq(t, u, same) = 1 <=> t = u
         /\ biseqcaseless(t, u, same) = 1 <=> Folded(t) = Folded(u)
<1>1. biseq(t, u, same) = 1 <=> t = u
  BY DEF biseq
<1>2. biseqcaseless(t, u, same) = 1 <=> Folded(t) = Folded(u)
  <2>1. PICK n \in Nat : n = Len(t)
    OBVIOUS
  <2>2. PICK i : i = FirstStop(t, u, Len(t), "caseless")
    OBVIOUS
  <2>3. Stopped(i, t, u, n, "caseless")
    BY <2>1, <2>2, Stopping
  <2>4. \A a, b : Stops(a, b, "caseless") <=> Lower(a) # Lower(b)
    BY DEF Stops, DifferFolded
  <2>5. i = ERR <=> \A k \in 1..n : Lower(t[k]) = Lower(u[k])
    <3>1. CASE i = ERR
      <4>1. \A k \in 0..n - 1 : Lower(t[k + 1]) = Lower(u[k + 1])
        BY <2>3, <2>4, <3>1 DEF Stopped, ERR
      <4>2. \A k \in 1..n : k - 1 \in 0..n - 1 /\ k - 1 + 1 = k
        OBVIOUS
      <4>3. QED
        BY <3>1, <4>1, <4>2
    <3>2. CASE i # ERR
      <4>1. i \in 0..n - 1 /\ Lower(t[i + 1]) # Lower(u[i + 1])
        BY <2>3, <2>4, <3>2 DEF Stopped
      <4>2. i + 1 \in 1..n
        BY <4>1
      <4>3. QED
        BY <3>2, <4>1, <4>2
    <3>3. QED
      BY <3>1, <3>2
  <2>6. biseqcaseless(t, u, same) = IF Len(t) # Len(u) THEN 0 ELSE IF same \/ i = ERR THEN 1 ELSE 0
    BY <2>2 DEF biseqcaseless
  <2>7. Folded(t) = Folded(u) <=> Len(t) = Len(u) /\ \A k \in 1..Len(t) : Lower(t[k]) = Lower(u[k])
    BY FoldedSame
  <2>8. same => Folded(t) = Folded(u)
    OBVIOUS
  <2>9. biseqcaseless(t, u, same) = 1 <=> Len(t) = Len(u) /\ (same \/ i = ERR)
    BY <2>6
  <2>10. QED
    BY <2>1, <2>5, <2>7, <2>8, <2>9
<1>3. QED
  BY <1>1, <1>2

(* What biseqcstr and biseqcstrcaseless say.                               *)
LEMMA CStringsEqual ==
  ASSUME NEW t \in Seq(Chars), NEW u \in Seq(Chars)
  PROVE  /\ biseqcstr(t, u) = 1 <=> t = CString(u)
         /\ biseqcstrcaseless(t, u) = 1 <=> Folded(t) = Folded(CString(u))
<1>1. PICK c \in Seq(Chars) : c = CString(u)
  BY CStringGives
<1>2. Len(t) \in Nat /\ Len(c) \in Nat
  OBVIOUS
<1>3. biseqcstr(t, u) = 1 <=> t = c
  <2>1. biseqcstr(t, u) = IF \E i \in Positions(t) : i >= Len(c) \/ At(t, i) # At(c, i) THEN 0
                         ELSE IF Len(t) = Len(c) THEN 1 ELSE 0
    BY <1>1 DEF biseqcstr
  <2>2. ASSUME biseqcstr(t, u) = 1 PROVE t = c
    <3>1. Len(t) = Len(c) /\ \A i \in Positions(t) : At(t, i) = At(c, i)
      BY <2>1, <2>2
    <3>2. \A k \in 1..Len(t) : k - 1 \in Positions(t) /\ t[k] = At(t, k - 1) /\ c[k] = At(c, k - 1)
      BY DEF Positions, At
    <3>3. QED
      BY <3>1, <3>2
  <2>3. ASSUME t = c PROVE biseqcstr(t, u) = 1
    <3>1. ~ \E i \in Positions(t) : i >= Len(c) \/ At(t, i) # At(c, i)
      BY <2>3 DEF Positions, At
    <3>2. QED
      BY <2>1, <2>3, <3>1
  <2>4. QED
    BY <2>2, <2>3
<1>4. biseqcstrcaseless(t, u) = 1 <=> Folded(t) = Folded(c)
  <2> DEFINE differ == \E i \in Positions(t) : i >= Len(c) \/ DifferFolded(At(t, i), At(c, i))
  <2>1. biseqcstrcaseless(t, u) = IF differ THEN 0 ELSE IF Len(t) = Len(c) THEN 1 ELSE 0
    BY <1>1 DEF biseqcstrcaseless
  <2>2. Len(t) = Len(c) => (~ differ <=> \A k \in 1..Len(t) : Lower(t[k]) = Lower(c[k]))
    <3> SUFFICES ASSUME Len(t) = Len(c) PROVE ~ differ <=> \A k \in 1..Len(t) : Lower(t[k]) = Lower(c[k])
      OBVIOUS
    <3>1. ASSUME ~ differ, NEW k \in 1..Len(t) PROVE Lower(t[k]) = Lower(c[k])
      <4>1. k - 1 \in Positions(t) /\ t[k] = At(t, k - 1) /\ c[k] = At(c, k - 1)
        BY DEF Positions, At
      <4>2. QED
        BY <3>1, <4>1 DEF DifferFolded
    <3>2. ASSUME \A k \in 1..Len(t) : Lower(t[k]) = Lower(c[k]) PROVE ~ differ
      <4>1. \A i \in Positions(t) : i < Len(c) /\ i + 1 \in 1..Len(t)
        BY DEF Positions
      <4>2. \A i \in Positions(t) : Lower(At(t, i)) = Lower(At(c, i))
        BY <3>2, <4>1 DEF At
      <4>3. QED
        BY <4>1, <4>2 DEF DifferFolded, Positions
    <3>3. QED
      BY <3>1, <3>2
  <2>3. Folded(t) = Folded(c) <=> Len(t) = Len(c) /\ \A k \in 1..Len(t) : Lower(t[k]) = Lower(c[k])
    BY FoldedSame
  <2> HIDE DEF differ
  <2>4. QED
    BY <2>1, <2>2, <2>3
<1>5. QED
  BY <1>1, <1>3, <1>4

(* What bisstemeqblk and bisstemeqcaselessblk say.                         *)
LEMMA StemsEqual ==
  ASSUME NEW t \in Seq(Chars), NEW u \in Seq(Chars)
  PROVE  /\ bisstemeqblk(t, u, FALSE) = 1 <=> u = Cut1(t, Len(u))
         /\ bisstemeqcaselessblk(t, u, FALSE) = 1 <=> Folded(u) = Folded(Cut1(t, Len(u)))
<1>1. PICK n \in Nat : n = Len(u)
  OBVIOUS
<1>2. PICK a \in Seq(Chars) : a = Cut1(t, n)
  BY <1>1, Cut1Gives
<1>3. Len(a) = (IF n < Len(t) THEN n ELSE Len(t)) /\ \A k \in 1..Len(a) : a[k] = t[k]
  BY <1>2, Cut1Gives
<1>4. Len(t) < n => Len(a) # n
  BY <1>3
<1>5. Len(t) >= n => Len(a) = n
  BY <1>3
<1>6. ASSUME Len(t) >= n
      PROVE  /\ FirstStop(t, u, n, "exact") = ERR <=> \A k \in 1..n : u[k] = a[k]
             /\ FirstStop(t, u, n, "caseless") = ERR <=> \A k \in 1..n : Lower(u[k]) = Lower(a[k])
  <2>1. \A k \in 1..n : a[k] = t[k]
    BY <1>3, <1>5, <1>6
  <2>2. PICK i : i = FirstStop(t, u, n, "exact")
    OBVIOUS
  <2>3. PICK j : j = FirstStop(t, u, n, "caseless")
    OBVIOUS
  <2>4. Stopped(i, t, u, n, "exact") /\ Stopped(j, t, u, n, "caseless")
    BY <2>2, <2>3, Stopping
  <2>5. \A x, y : /\ Stops(x, y, "caseless") <=> Lower(x) # Lower(y)
                  /\ Stops(x, y, "exact") <=> x # y
    BY DEF Stops, DifferFolded
  <2>6. \A k \in 0..n - 1 : k + 1 \in 1..n
    OBVIOUS
  <2>7. \A k \in 1..n : k - 1 \in 0..n - 1 /\ k - 1 + 1 = k
    OBVIOUS
  <2>8. i = ERR <=> \A k \in 1..n : u[k] = t[k]
    <3>1. i = ERR => \A k \in 0..n - 1 : t[k + 1] = u[k + 1]
      BY <2>4, <2>5 DEF Stopped, ERR
    <3>2. i # ERR => i \in 0..n - 1 /\ t[i + 1] # u[i + 1]
      BY <2>4, <2>5 DEF Stopped
    <3>3. QED
      BY <2>6, <2>7, <3>1, <3>2
  <2>9. j = ERR <=> \A k \in 1..n : Lower(u[k]) = Lower(t[k])
    <3>1. j = ERR => \A k \in 0..n - 1 : Lower(t[k + 1]) = Lower(u[k + 1])
      BY <2>4, <2>5 DEF Stopped, ERR
    <3>2. j # ERR => j \in 0..n - 1 /\ Lower(t[j + 1]) # Lower(u[j + 1])
      BY <2>4, <2>5 DEF Stopped
    <3>3. QED
      BY <2>6, <2>7, <3>1, <3>2
  <2>10. QED
    BY <2>1, <2>2, <2>3, <2>8, <2>9
<1>7. bisstemeqblk(t, u, FALSE) = 1 <=> u = a
  <2> DEFINE short == Len(t) < n
             stop == FirstStop(t, u, n, "exact") = ERR
             agree == \A k \in 1..n : u[k] = a[k]
  <2>1. bisstemeqblk(t, u, FALSE) = 1 <=> ~ short /\ stop
    BY <1>1 DEF bisstemeqblk
  <2>2. u = a <=> Len(a) = n /\ agree
    BY <1>1
  <2>3. Len(a) = n <=> ~ short
    BY <1>4, <1>5
  <2>4. ~ short => (stop <=> agree)
    BY <1>6
  <2> HIDE DEF short, stop, agree
  <2>5. QED
    BY <2>1, <2>2, <2>3, <2>4
<1>8. bisstemeqcaselessblk(t, u, FALSE) = 1 <=> Folded(u) = Folded(a)
  <2> DEFINE short == Len(t) < n
             stop == FirstStop(t, u, n, "caseless") = ERR
             agree == \A k \in 1..n : Lower(u[k]) = Lower(a[k])
  <2>1. bisstemeqcaselessblk(t, u, FALSE) = 1 <=> ~ short /\ stop
    BY <1>1 DEF bisstemeqcaselessblk
  <2>2. Folded(u) = Folded(a) <=> Len(a) = n /\ agree
    BY <1>1, FoldedSame
  <2>3. Len(a) = n <=> ~ short
    BY <1>4, <1>5
  <2>4. ~ short => (stop <=> agree)
    BY <1>6
  <2> HIDE DEF short, stop, agree
  <2>5. QED
    BY <2>1, <2>2, <2>3, <2>4
<1>9. QED
  BY <1>1, <1>2, <1>7, <1>8

\* The shorter length, and where the comparisons stop.
LEMMA ShorterGives ==
  ASSUME NEW t \in Seq(Chars), NEW u \in Seq(Chars)
  PROVE  /\ Shorter(t, u) \in Nat /\ Shorter(t, u) <= Len(t) /\ Shorter(t, u) <= Len(u)
         /\ Shorter(t, u) = Len(t) \/ Shorter(t, u) = Len(u)
         /\ Shorter(u, t) = Shorter(t, u)
BY DEF Shorter

(* At a stop there are two characters.                                     *)
LEMMA StopCodes ==
  ASSUME NEW t \in Seq(Chars), NEW u \in Seq(Chars), NEW n \in Nat, n <= Len(t), n <= Len(u), NEW how
  PROVE  LET i == FirstStop(t, u, n, how)
         IN  i # ERR => /\ i \in 0..n - 1 /\ At(t, i) \in Chars /\ At(u, i) \in Chars
                        /\ Stops(At(t, i), At(u, i), how)
<1> DEFINE i == FirstStop(t, u, n, how)
<1>1. Stopped(i, t, u, n, how)
  BY Stopping
<1> HIDE DEF i
<1> SUFFICES ASSUME i # ERR
             PROVE  i \in 0..n - 1 /\ At(t, i) \in Chars /\ At(u, i) \in Chars /\ Stops(At(t, i), At(u, i), how)
  BY DEF i
<1>2. i \in 0..n - 1 /\ Stops(t[i + 1], u[i + 1], how)
  BY <1>1 DEF Stopped
<1>3. i + 1 \in 1..Len(t) /\ i + 1 \in 1..Len(u)
  BY <1>2
<1>4. QED
  BY <1>2, <1>3 DEF At

(* The order is antisymmetric.                                             *)
LEMMA Opposite ==
  ASSUME NEW t \in Seq(Chars), NEW u \in Seq(Chars), NEW no, ~ no
  PROVE  /\ Sign(bstrcmp(t, u, no)) = -Sign(bstrcmp(u, t, no))
         /\ Sign(bstricmp(t, u, no)) = -Sign(bstricmp(u, t, no))
<1>1. PICK n \in Nat : /\ n = Shorter(t, u) /\ n = Shorter(u, t) /\ n <= Len(t) /\ n <= Len(u)
                       /\ n = Len(t) \/ n = Len(u)
  BY ShorterGives
<1>2. Len(t) \in Nat /\ Len(u) \in Nat
  OBVIOUS
<1>3. (t = <<>> <=> Len(t) = 0) /\ (u = <<>> <=> Len(u) = 0)
  OBVIOUS
<1>0. Sign(0) = -Sign(0)
  <2>1. \A x \in Int : x <= 0 /\ x >= 0 => x = -x
    OBVIOUS
  <2>2. Sign(0) \in Int /\ Sign(0) <= 0 /\ Sign(0) >= 0
    BY DEF Sign
  <2>3. QED
    BY <2>1, <2>2
<1>4. Sign(bstrcmp(t, u, no)) = -Sign(bstrcmp(u, t, no))
  <2> DEFINE i == FirstStop(t, u, n, "cstring")
  <2>1. i = FirstStop(u, t, n, "cstring")
    BY StopsTwoWays
  <2>2. i # ERR => /\ i \in 0..n - 1 /\ Code(At(t, i)) \in Int /\ Code(At(u, i)) \in Int
    BY <1>1, StopCodes, Codes
  <2>3. bstrcmp(t, u, no) = IF Len(t) = Len(u) /\ Len(t) = 0 THEN 0
                               ELSE IF i # ERR THEN Code(At(t, i)) - Code(At(u, i))
                               ELSE IF Len(t) > n THEN 1 ELSE IF Len(u) > n THEN -1 ELSE 0
    BY <1>1, <1>3 DEF bstrcmp
  <2>4. bstrcmp(u, t, no) = IF Len(t) = Len(u) /\ Len(t) = 0 THEN 0
                               ELSE IF i # ERR THEN Code(At(u, i)) - Code(At(t, i))
                               ELSE IF Len(u) > n THEN 1 ELSE IF Len(t) > n THEN -1 ELSE 0
    BY <1>1, <1>3, <2>1 DEF bstrcmp
  <2> HIDE DEF i
  <2>5. CASE Len(t) = Len(u) /\ Len(t) = 0
    <3>1. bstrcmp(t, u, no) = 0 /\ bstrcmp(u, t, no) = 0
      BY <2>3, <2>4, <2>5
    <3>2. QED
      BY <1>0, <3>1
  <2>6. CASE ~ (Len(t) = Len(u) /\ Len(t) = 0) /\ i # ERR
    BY <2>2, <2>3, <2>4, <2>6 DEF Sign
  <2>7. CASE ~ (Len(t) = Len(u) /\ Len(t) = 0) /\ i = ERR
    BY <1>1, <1>2, <2>3, <2>4, <2>7 DEF Sign
  <2>8. QED
    BY <2>5, <2>6, <2>7
<1>5. Sign(bstricmp(t, u, no)) = -Sign(bstricmp(u, t, no))
  <2> DEFINE i == FirstStop(t, u, n, "caseless")
             x == Extra(At(t, n))
             y == Extra(At(u, n))
  <2>1. i = FirstStop(u, t, n, "caseless")
    BY StopsTwoWays
  <2>2. i # ERR => /\ i \in 0..n - 1 /\ Code(Lower(At(t, i))) \in Int /\ Code(Lower(At(u, i))) \in Int
    BY <1>1, StopCodes, Codes
  <2>3. bstricmp(t, u, no) = IF i # ERR THEN Code(Lower(At(t, i))) - Code(Lower(At(u, i)))
                                ELSE IF Len(t) > n THEN x ELSE IF Len(u) > n THEN -y ELSE 0
    BY <1>1 DEF bstricmp
  <2>4. bstricmp(u, t, no) = IF i # ERR THEN Code(Lower(At(u, i))) - Code(Lower(At(t, i)))
                                ELSE IF Len(u) > n THEN y ELSE IF Len(t) > n THEN -x ELSE 0
    BY <1>1, <2>1 DEF bstricmp
  <2>5. Len(t) > n => x \in Int /\ x > 0
    <3>1. Len(t) > n => At(t, n) \in Chars
      BY <1>1 DEF At
    <3>2. QED
      BY <3>1, Codes
  <2>6. Len(u) > n => y \in Int /\ y > 0
    <3>1. Len(u) > n => At(u, n) \in Chars
      BY <1>1 DEF At
    <3>2. QED
      BY <3>1, Codes
  <2> HIDE DEF i, x, y
  <2>7. CASE i # ERR
    BY <2>2, <2>3, <2>4, <2>7 DEF Sign
  <2>8. CASE i = ERR /\ Len(t) > n
    <3>1. ~ (Len(u) > n)
      BY <1>1, <1>2, <2>8
    <3>2. bstricmp(t, u, no) = x /\ bstricmp(u, t, no) = -x
      BY <2>3, <2>4, <2>8, <3>1
    <3>3. QED
      BY <2>5, <2>8, <3>2 DEF Sign
  <2>9. CASE i = ERR /\ ~ (Len(t) > n)
    <3>1. CASE Len(u) > n
      <4>1. bstricmp(t, u, no) = -y /\ bstricmp(u, t, no) = y
        BY <2>3, <2>4, <2>9, <3>1
      <4>2. QED
        BY <2>6, <3>1, <4>1 DEF Sign
    <3>2. CASE ~ (Len(u) > n)
      <4>1. bstricmp(t, u, no) = 0 /\ bstricmp(u, t, no) = 0
        BY <2>3, <2>4, <2>9, <3>2
      <4>2. QED
        BY <1>0, <4>1
    <3>3. QED
      BY <3>1, <3>2
  <2>10. QED
    BY <2>7, <2>8, <2>9
<1>6. QED
  BY <1>4, <1>5

\* Strings without `\0' compare as equal when they are.
LEMMA EqualIsZero ==
  ASSUME NEW t \in Seq(Chars), NEW u \in Seq(Chars), CString(t) = t, CString(u) = u, NEW no, ~ no
  PROVE  /\ bstrcmp(t, u, no) = 0 <=> t = u
         /\ bstricmp(t, u, no) = 0 <=> Folded(t) = Folded(u)
<1>1. PICK n \in Nat : n = Shorter(t, u) /\ n <= Len(t) /\ n <= Len(u) /\ (n = Len(t) \/ n = Len(u))
  BY ShorterGives
<1>2. Len(t) \in Nat /\ Len(u) \in Nat
  OBVIOUS
<1>3. \A k \in 1..n : t[k] # Nul /\ t[k] \in Chars /\ u[k] \in Chars
  BY <1>1, WithoutNul
<1>4. bstrcmp(t, u, no) = 0 <=> t = u
  <2> DEFINE i == FirstStop(t, u, n, "cstring")
  <2>1. Stopped(i, t, u, n, "cstring")
    BY Stopping
  <2>2. bstrcmp(t, u, no) = IF Len(t) = Len(u) /\ t = <<>> THEN 0
                               ELSE IF i # ERR THEN Code(At(t, i)) - Code(At(u, i))
                               ELSE IF Len(t) > n THEN 1 ELSE IF Len(u) > n THEN -1 ELSE 0
    BY <1>1 DEF bstrcmp
  <2> HIDE DEF i
  <2>3. CASE i # ERR
    <3>1. i \in 0..n - 1 /\ Stops(t[i + 1], u[i + 1], "cstring")
      BY <2>1, <2>3 DEF Stopped
    <3>2. i + 1 \in 1..n
      BY <3>1
    <3>3. t[i + 1] # u[i + 1]
      BY <1>3, <3>1, <3>2 DEF Stops
    <3>4. t # <<>> /\ t # u
      BY <1>1, <3>2, <3>3
    <3>5. Code(t[i + 1]) \in Int /\ Code(u[i + 1]) \in Int /\ Code(t[i + 1]) # Code(u[i + 1])
      BY <1>3, <3>2, <3>3, Codes
    <3>6. bstrcmp(t, u, no) = Code(t[i + 1]) - Code(u[i + 1])
      BY <2>2, <2>3, <3>4 DEF At
    <3>7. QED
      BY <3>4, <3>5, <3>6
  <2>4. CASE i = ERR
    <3>1. \A k \in 0..n - 1 : t[k + 1] = u[k + 1]
      BY <2>1, <2>4 DEF Stopped, Stops, ERR
    <3>2. \A k \in 1..n : k - 1 \in 0..n - 1 /\ k - 1 + 1 = k
      OBVIOUS
    <3>3. \A k \in 1..n : t[k] = u[k]
      BY <3>1, <3>2
    <3>4. Len(t) = Len(u) => t = u
      BY <1>1, <3>3
    <3>5. t = u => Len(t) = Len(u)
      OBVIOUS
    <3>6. bstrcmp(t, u, no) = 0 <=> Len(t) = Len(u)
      BY <1>1, <1>2, <2>2, <2>4
    <3>7. QED
      BY <3>4, <3>5, <3>6
  <2>5. QED
    BY <2>3, <2>4
<1>5. bstricmp(t, u, no) = 0 <=> Folded(t) = Folded(u)
  <2> DEFINE i == FirstStop(t, u, n, "caseless")
             x == Extra(At(t, n))
             y == Extra(At(u, n))
  <2>1. Stopped(i, t, u, n, "caseless")
    BY Stopping
  <2>2. bstricmp(t, u, no) = IF i # ERR THEN Code(Lower(At(t, i))) - Code(Lower(At(u, i)))
                                ELSE IF Len(t) > n THEN x ELSE IF Len(u) > n THEN -y ELSE 0
    BY <1>1 DEF bstricmp
  <2>3. Len(t) > n => x \in Int /\ x > 0
    <3>1. Len(t) > n => At(t, n) \in Chars
      BY <1>1 DEF At
    <3>2. QED
      BY <3>1, Codes
  <2>4. Len(u) > n => y \in Int /\ y > 0
    <3>1. Len(u) > n => At(u, n) \in Chars
      BY <1>1 DEF At
    <3>2. QED
      BY <3>1, Codes
  <2>5. Folded(t) = Folded(u) <=> Len(t) = Len(u) /\ \A k \in 1..Len(t) : Lower(t[k]) = Lower(u[k])
    BY FoldedSame
  <2> HIDE DEF i, x, y
  <2>6. CASE i # ERR
    <3>1. i \in 0..n - 1 /\ Lower(t[i + 1]) # Lower(u[i + 1])
      BY <2>1, <2>6 DEF Stopped, Stops, DifferFolded
    <3>2. i + 1 \in 1..n
      BY <3>1
    <3>3. Folded(t) # Folded(u)
      BY <1>1, <2>5, <3>1, <3>2
    <3>4. Lower(t[i + 1]) \in Chars /\ Lower(u[i + 1]) \in Chars
      BY <1>3, <3>2, Codes
    <3>5. /\ Code(Lower(t[i + 1])) \in Int /\ Code(Lower(u[i + 1])) \in Int
          /\ Code(Lower(t[i + 1])) # Code(Lower(u[i + 1]))
      BY <3>1, <3>4, Codes
    <3>6. bstricmp(t, u, no) = Code(Lower(t[i + 1])) - Code(Lower(u[i + 1]))
      BY <2>2, <2>6 DEF At
    <3>7. QED
      BY <3>3, <3>5, <3>6
  <2>7. CASE i = ERR
    <3>1. \A k \in 0..n - 1 : Lower(t[k + 1]) = Lower(u[k + 1])
      BY <2>1, <2>7 DEF Stopped, Stops, DifferFolded, ERR
    <3>2. \A k \in 1..n : k - 1 \in 0..n - 1 /\ k - 1 + 1 = k
      OBVIOUS
    <3>3. \A k \in 1..n : Lower(t[k]) = Lower(u[k])
      BY <3>1, <3>2
    <3>4. Folded(t) = Folded(u) <=> Len(t) = Len(u)
      BY <1>1, <2>5, <3>3
    <3>5. CASE Len(t) = Len(u)
      BY <1>1, <1>2, <2>2, <2>7, <3>4, <3>5
    <3>6. CASE Len(t) # Len(u) /\ Len(t) > n
      BY <2>2, <2>3, <2>7, <3>4, <3>6
    <3>7. CASE Len(t) # Len(u) /\ ~ (Len(t) > n)
      <4>1. Len(u) > n
        BY <1>1, <1>2, <3>7
      <4>2. bstricmp(t, u, no) = -y
        BY <2>2, <2>7, <3>7, <4>1
      <4>3. QED
        BY <2>4, <3>4, <3>7, <4>1, <4>2
    <3>8. QED
      BY <3>5, <3>6, <3>7
  <2>8. QED
    BY <2>6, <2>7
<1>6. QED
  BY <1>4, <1>5

\* A string is equal to itself for all comparisons.
LEMMA SameIsZero ==
  ASSUME NEW t \in Seq(Chars), NEW n \in Nat, NEW yes, yes
  PROVE  /\ bstrcmp(t, t, yes) = 0 /\ bstricmp(t, t, yes) = 0
         /\ bstrncmp(t, t, n, yes) = 0 /\ bstrnicmp(t, t, n, yes) = 0
<1>1. bstrcmp(t, t, yes) = 0 /\ bstricmp(t, t, yes) = 0
  BY DEF bstrcmp, bstricmp
<1>2. bstrncmp(t, t, n, yes) = 0
  BY DEF bstrncmp
<1>3. ~ (n < 0)
  OBVIOUS
<1>4. bstrnicmp(t, t, n, yes) = 0
  BY <1>3 DEF bstrnicmp
<1>5. QED
  BY <1>1, <1>2, <1>4

\* The copy without `\0' is the text when that has none.
LEMMA CopyIsText ==
  ASSUME NEW s, NEW t \in Seq(Chars), t = Text(s), Len(t) = s.slen, s.slen \in Nat
  PROVE  /\ bstr2cstr(s, Space) \in Seq(Chars)
         /\ biseqcstr(t, bstr2cstr(s, Space)) = 1 <=> CString(t) = t
<1>1. PICK n \in Nat : n = s.slen /\ n = Len(t)
  OBVIOUS
<1>2. PICK z : z = bstr2cstr(s, Space)
  OBVIOUS
<1>3. z = [k \in 1..n |-> IF t[k] = Nul THEN Space ELSE t[k]]
  BY <1>1, <1>2 DEF bstr2cstr
<1>4. Space \in Chars /\ Space # Nul
  BY DEF Chars, Space, Nul
<1>5. \A k \in 1..n : t[k] \in Chars
  BY <1>1
<1>6. z \in Seq(Chars) /\ Len(z) = n /\ \A k \in 1..n : z[k] = IF t[k] = Nul THEN Space ELSE t[k]
  BY <1>3, <1>4, <1>5
<1>7. \A k \in 1..Len(z) : z[k] # Nul
  BY <1>4, <1>6
<1>8. CString(z) = z
  BY <1>6, <1>7, WithoutNul
<1>9. t = z <=> \A k \in 1..Len(t) : t[k] # Nul
  <2>1. ASSUME t = z PROVE \A k \in 1..Len(t) : t[k] # Nul
    BY <1>7, <2>1
  <2>2. ASSUME \A k \in 1..Len(t) : t[k] # Nul PROVE t = z
    BY <1>1, <1>6, <2>2
  <2>3. QED
    BY <2>1, <2>2
<1>10. CString(t) = t <=> \A k \in 1..Len(t) : t[k] # Nul
  BY WithoutNul
<1>11. biseqcstr(t, z) = 1 <=> t = CString(z)
  BY <1>6, CStringsEqual
<1>12. QED
  BY <1>2, <1>6, <1>8, <1>9, <1>10, <1>11

\* The first n characters compare as the strings that are cut to n.
LEMMA CutsCompare ==
  ASSUME NEW t \in Seq(Chars), NEW u \in Seq(Chars), NEW n \in Nat, NEW no, ~ no
  PROVE  LET a == Cut1(t, n)
             b == Cut1(u, n)
         IN  /\ Sign(bstrncmp(t, u, n, no)) = Sign(bstrcmp(a, b, no))
             /\ bstrnicmp(t, u, n, no) = 0 <=> bstricmp(a, b, no) = 0
<1>1. PICK a \in Seq(Chars) : a = Cut1(t, n)
  BY Cut1Gives
<1>2. PICK b \in Seq(Chars) : b = Cut1(u, n)
  BY Cut1Gives
<1>3. /\ Len(a) = (IF n < Len(t) THEN n ELSE Len(t)) /\ \A k \in 1..Len(a) : a[k] = t[k]
      /\ Len(b) = (IF n < Len(u) THEN n ELSE Len(u)) /\ \A k \in 1..Len(b) : b[k] = u[k]
  BY <1>1, <1>2, Cut1Gives
<1>4. PICK m \in Nat : m = IF n < Shorter(t, u) THEN n ELSE Shorter(t, u)
  BY ShorterGives
<1>5. m <= n /\ m <= Len(t) /\ m <= Len(u) /\ m <= Len(a) /\ m <= Len(b) /\ m = Shorter(a, b)
  BY <1>3, <1>4 DEF Shorter
<1>6. \A k \in 1..m : a[k] = t[k] /\ b[k] = u[k]
  BY <1>3, <1>5
<1>7. \A k \in 0..m - 1 : At(a, k) = At(t, k) /\ At(b, k) = At(u, k)
  <2>1. \A k \in 0..m - 1 : k + 1 \in 1..m
    OBVIOUS
  <2>2. QED
    BY <1>6, <2>1 DEF At
<1>8. \A how : FirstStop(a, b, m, how) = FirstStop(t, u, m, how)
  BY <1>7 DEF FirstStop
<1>9. /\ Len(a) > m <=> n > m /\ Len(t) > m
      /\ Len(b) > m <=> n > m /\ Len(u) > m
      /\ n = m \/ Len(t) = m \/ Len(u) = m
      /\ Len(a) = Len(b) <=> n = m \/ Len(t) = Len(u)
  <2>1. \A x, y, k, p, q, l \in Nat :
          /\ p = IF k < x THEN k ELSE x
          /\ q = IF k < y THEN k ELSE y
          /\ l <= k /\ l <= x /\ l <= y /\ (l = k \/ l = x \/ l = y)
          => /\ p > l <=> k > l /\ x > l
             /\ q > l <=> k > l /\ y > l
             /\ p = q <=> k = l \/ x = y
    OBVIOUS
  <2>2. n = m \/ Len(t) = m \/ Len(u) = m
    BY <1>4 DEF Shorter
  <2>3. Len(t) \in Nat /\ Len(u) \in Nat /\ Len(a) \in Nat /\ Len(b) \in Nat
    OBVIOUS
  <2>4. m <= n /\ m <= Len(t) /\ m <= Len(u)
    BY <1>5
  <2>5. QED
    BY <1>3, <2>1, <2>2, <2>3, <2>4
<1>10. bstrncmp(t, u, n, no) = bstrcmp(a, b, no)
  <2> DEFINE i == FirstStop(t, u, m, "cstring")
             c == Code(At(t, i)) - Code(At(u, i))
  <2>1. bstrncmp(t, u, n, no) = IF i # ERR THEN c
                                ELSE IF n = m \/ Len(t) = Len(u) THEN 0
                                ELSE IF Len(t) > m THEN 1 ELSE -1
    BY <1>4 DEF bstrncmp
  <2>2. i # ERR => i \in 0..m - 1
    BY <1>5, StopCodes
  <2>3. bstrcmp(a, b, no) = IF Len(a) = Len(b) /\ a = <<>> THEN 0
                            ELSE IF i # ERR THEN Code(At(a, i)) - Code(At(b, i))
                            ELSE IF Len(a) > m THEN 1 ELSE IF Len(b) > m THEN -1 ELSE 0
    BY <1>5, <1>8 DEF bstrcmp
  <2> HIDE DEF i
  <2>4. CASE i # ERR
    <3>1. At(a, i) = At(t, i) /\ At(b, i) = At(u, i) /\ m > 0
      BY <1>7, <2>2, <2>4
    <3>2. a # <<>>
      BY <1>5, <3>1
    <3>3. bstrcmp(a, b, no) = c
      BY <2>3, <2>4, <3>1, <3>2
    <3>4. QED
      BY <2>1, <2>4, <3>3
  <2>5. CASE i = ERR /\ Len(a) = Len(b)
    <3>1. ~ (Len(a) > m) /\ ~ (Len(b) > m)
      BY <1>9, <2>5
    <3>2. QED
      BY <1>9, <2>1, <2>3, <2>5, <3>1
  <2>6. CASE i = ERR /\ Len(a) # Len(b)
    <3>1. n # m /\ Len(t) # Len(u)
      BY <1>9, <2>6
    <3>2. n > m
      BY <1>5, <3>1
    <3>3. Len(a) > m <=> Len(t) > m
      BY <1>9, <3>2
    <3>4. ~ (Len(t) > m) => Len(b) > m
      BY <1>5, <1>9, <3>1, <3>2
    <3>5. CASE Len(t) > m
      BY <2>1, <2>3, <2>6, <3>1, <3>3, <3>5
    <3>6. CASE ~ (Len(t) > m)
      BY <2>1, <2>3, <2>6, <3>1, <3>3, <3>4, <3>6
    <3>7. QED
      BY <3>5, <3>6
  <2>7. QED
    BY <2>4, <2>5, <2>6
<1>11. bstrnicmp(t, u, n, no) = 0 <=> bstricmp(a, b, no) = 0
  <2> DEFINE i == FirstStop(t, u, m, "caseless")
             x == Extra(At(t, m))
             y == Extra(At(u, m))
  <2>1. bstrnicmp(t, u, n, no) = IF i # ERR THEN Code(At(t, i)) - Code(At(u, i))
                                 ELSE IF n = m \/ Len(t) = Len(u) THEN 0
                                 ELSE IF Len(t) > m THEN x ELSE -y
    <3>1. ~ (n < 0)
      OBVIOUS
    <3>2. QED
      BY <1>4, <3>1 DEF bstrnicmp
  <2>2. i # ERR => /\ i \in 0..m - 1 /\ At(t, i) \in Chars /\ At(u, i) \in Chars
                   /\ Stops(At(t, i), At(u, i), "caseless")
    BY <1>5, StopCodes
  <2>3. bstricmp(a, b, no) = IF i # ERR THEN Code(Lower(At(a, i))) - Code(Lower(At(b, i)))
                             ELSE IF Len(a) > m THEN Extra(At(a, m))
                             ELSE IF Len(b) > m THEN -Extra(At(b, m)) ELSE 0
    BY <1>5, <1>8 DEF bstricmp
  <2>4. Len(t) > m => x \in Int /\ x > 0
    <3>1. Len(t) > m => At(t, m) \in Chars
      BY DEF At
    <3>2. QED
      BY <3>1, Codes
  <2>5. Len(u) > m => y \in Int /\ y > 0
    <3>1. Len(u) > m => At(u, m) \in Chars
      BY DEF At
    <3>2. QED
      BY <3>1, Codes
  <2>6. Len(a) > m => Extra(At(a, m)) \in Int /\ Extra(At(a, m)) > 0
    <3>1. Len(a) > m => At(a, m) \in Chars
      BY DEF At
    <3>2. QED
      BY <3>1, Codes
  <2>7. Len(b) > m => Extra(At(b, m)) \in Int /\ Extra(At(b, m)) > 0
    <3>1. Len(b) > m => At(b, m) \in Chars
      BY DEF At
    <3>2. QED
      BY <3>1, Codes
  <2> HIDE DEF i, x, y
  <2>8. CASE i # ERR
    <3>1. At(a, i) = At(t, i) /\ At(b, i) = At(u, i)
      BY <1>7, <2>2, <2>8
    <3>2. Lower(At(t, i)) # Lower(At(u, i))
      BY <2>2, <2>8 DEF Stops, DifferFolded
    <3>3. /\ Code(At(t, i)) \in Int /\ Code(At(u, i)) \in Int /\ Code(At(t, i)) # Code(At(u, i))
          /\ Code(Lower(At(t, i))) \in Int /\ Code(Lower(At(u, i))) \in Int
          /\ Code(Lower(At(t, i))) # Code(Lower(At(u, i)))
      BY <2>2, <2>8, <3>2, Codes
    <3>4. bstrnicmp(t, u, n, no) = Code(At(t, i)) - Code(At(u, i))
      BY <2>1, <2>8
    <3>5. bstricmp(a, b, no) = Code(Lower(At(t, i))) - Code(Lower(At(u, i)))
      BY <2>3, <2>8, <3>1
    <3>6. bstrnicmp(t, u, n, no) # 0
      BY <3>3, <3>4
    <3>7. bstricmp(a, b, no) # 0
      BY <3>3, <3>5
    <3>8. QED
      BY <3>6, <3>7
  <2>9. CASE i = ERR /\ Len(a) = Len(b)
    <3>1. ~ (Len(a) > m) /\ ~ (Len(b) > m)
      BY <1>9, <2>9
    <3>2. QED
      BY <1>9, <2>1, <2>3, <2>9, <3>1
  <2>10. CASE i = ERR /\ Len(a) # Len(b)
    <3>1. n # m /\ Len(t) # Len(u)
      BY <1>9, <2>10
    <3>2. n > m
      BY <1>5, <3>1
    <3>3. Len(a) > m <=> Len(t) > m
      BY <1>9, <3>2
    <3>4. ~ (Len(t) > m) => Len(b) > m /\ Len(u) > m
      BY <1>5, <1>9, <3>1, <3>2
    <3>5. CASE Len(t) > m
      <4>1. bstrnicmp(t, u, n, no) = x /\ bstricmp(a, b, no) = Extra(At(a, m))
        BY <2>1, <2>3, <2>10, <3>1, <3>3, <3>5
      <4>2. QED
        BY <2>4, <2>6, <3>3, <3>5, <4>1
    <3>6. CASE ~ (Len(t) > m)
      <4>1. bstrnicmp(t, u, n, no) = -y /\ bstricmp(a, b, no) = -Extra(At(b, m))
        BY <2>1, <2>3, <2>10, <3>1, <3>3, <3>4, <3>6
      <4>2. bstrnicmp(t, u, n, no) # 0
        BY <2>5, <3>4, <3>6, <4>1
      <4>3. bstricmp(a, b, no) # 0
        BY <2>7, <3>4, <3>6, <4>1
      <4>4. QED
        BY <4>2, <4>3
    <3>7. QED
      BY <3>5, <3>6
  <2>11. QED
    BY <2>8, <2>9, <2>10
<1>12. QED
  BY <1>1, <1>2, <1>10, <1>11

\* What the comparisons of t and u say of them.
Agreeing(t, u) ==
  LET same == t = u
      NoNul(v) == CString(v) = v
  IN  /\ (biseq(t, u, same) = 1) = same
      /\ (biseqcaseless(t, u, same) = 1) = (Folded(t) = Folded(u))
      /\ (biseqcstr(t, u) = 1) = (t = CString(u))
      /\ (biseqcstrcaseless(t, u) = 1) = (Folded(t) = Folded(CString(u)))
      /\ (bisstemeqblk(t, u, FALSE) = 1) = (u = Cut1(t, Len(u)))
      /\ (bisstemeqcaselessblk(t, u, FALSE) = 1) = (Folded(u) = Folded(Cut1(t, Len(u))))
      /\ Sign(bstrcmp(t, u, FALSE)) = -Sign(bstrcmp(u, t, FALSE))
      /\ Sign(bstricmp(t, u, FALSE)) = -Sign(bstricmp(u, t, FALSE))
      /\ same => bstrcmp(t, u, TRUE) = 0 /\ bstricmp(t, u, TRUE) = 0
      /\ NoNul(t) /\ NoNul(u) => /\ (bstrcmp(t, u, FALSE) = 0) = same
                                 /\ (bstricmp(t, u, FALSE) = 0) = (Folded(t) = Folded(u))

AgreeingUpTo(t, u, n) ==
  LET a == Cut1(t, n)
      b == Cut1(u, n)
  IN  /\ Sign(bstrncmp(t, u, n, FALSE)) = Sign(bstrcmp(a, b, FALSE))
      /\ (bstrnicmp(t, u, n, FALSE) = 0) = (bstricmp(a, b, FALSE) = 0)
      /\ t = u => bstrncmp(t, u, n, TRUE) = 0 /\ bstrnicmp(t, u, n, TRUE) = 0

(* All strings agree.                                                      *)
LEMMA AllAgree ==
  ASSUME NEW t \in Seq(Chars), NEW u \in Seq(Chars)
  PROVE  Agreeing(t, u)
<1>1. /\ biseq(t, u, t = u) = 1 <=> t = u
      /\ biseqcaseless(t, u, t = u) = 1 <=> Folded(t) = Folded(u)
  <2> DEFINE same == t = u
  <2>1. same <=> t = u
    OBVIOUS
  <2> HIDE DEF same
  <2>2. biseq(t, u, same) = 1 <=> t = u
    BY <2>1, EqualityFound
  <2>3. biseqcaseless(t, u, same) = 1 <=> Folded(t) = Folded(u)
    BY <2>1, EqualityFound
  <2>4. QED
    BY <2>2, <2>3 DEF same
<1>2. /\ biseqcstr(t, u) = 1 <=> t = CString(u)
      /\ biseqcstrcaseless(t, u) = 1 <=> Folded(t) = Folded(CString(u))
  BY CStringsEqual
<1>3. /\ bisstemeqblk(t, u, FALSE) = 1 <=> u = Cut1(t, Len(u))
      /\ bisstemeqcaselessblk(t, u, FALSE) = 1 <=> Folded(u) = Folded(Cut1(t, Len(u)))
  BY StemsEqual
<1>4. /\ Sign(bstrcmp(t, u, FALSE)) = -Sign(bstrcmp(u, t, FALSE))
      /\ Sign(bstricmp(t, u, FALSE)) = -Sign(bstricmp(u, t, FALSE))
  BY Opposite
<1>5. t = u => bstrcmp(t, u, TRUE) = 0 /\ bstricmp(t, u, TRUE) = 0
  BY SameIsZero
<1>6. CString(t) = t /\ CString(u) = u => /\ bstrcmp(t, u, FALSE) = 0 <=> t = u
                                          /\ bstricmp(t, u, FALSE) = 0 <=> Folded(t) = Folded(u)
  BY EqualIsZero
<1>7. QED
  BY <1>1, <1>2, <1>3, <1>4, <1>5, <1>6 DEF Agreeing

(* And so they do up to n characters.                                      *)
LEMMA AllAgreeUpTo ==
  ASSUME NEW t \in Seq(Chars), NEW u \in Seq(Chars), NEW n \in Nat
  PROVE  AgreeingUpTo(t, u, n)
<1>1. /\ Sign(bstrncmp(t, u, n, FALSE)) = Sign(bstrcmp(Cut1(t, n), Cut1(u, n), FALSE))
      /\ bstrnicmp(t, u, n, FALSE) = 0 <=> bstricmp(Cut1(t, n), Cut1(u, n), FALSE) = 0
  BY CutsCompare
<1>2. t = u => bstrncmp(t, u, n, TRUE) = 0 /\ bstrnicmp(t, u, n, TRUE) = 0
  BY SameIsZero
<1>3. QED
  BY <1>1, <1>2 DEF AgreeingUpTo

(* The comparisons of bstrlib.c:600-934 agree with each other for every    *)
(* text that a program can come to and every text of its own.              *)
THEOREM ComparisonsAreConsistent == Spec => []ComparisonsAgree
<1>1. BInv => ComparisonsAgree
  <2> SUFFICES ASSUME BInv, Valid PROVE ComparisonsAgree
    BY DEF ComparisonsAgree
  <2> DEFINE t == Text(str)
  <2>1. t \in Seq(Chars) /\ Len(t) = str.slen /\ str.slen \in Nat
    BY TextGives, SoundFacts DEF BInv, Valid
  <2>2. \A u \in Words \cup {t} : u \in Seq(Chars)
    BY <2>1, Arguments
  <2>3. \A u \in Words \cup {t} : Agreeing(t, u)
    <3> HIDE DEF t
    <3>1. QED
      BY <2>1, <2>2, AllAgree
  <2>4. \A n \in 0..(MaxLen + 1) : n \in Nat
    BY BoundsAreBounds
  <2>5. \A u \in Words \cup {t}, n \in 0..(MaxLen + 1) : AgreeingUpTo(t, u, n)
    <3> HIDE DEF t
    <3>1. QED
      BY <2>1, <2>2, <2>4, AllAgreeUpTo
  <2>6. (biseqcstr(t, bstr2cstr(str, Space)) = 1) = (CString(t) = t)
    <3>1. PICK w \in Seq(Chars) : w = t
      BY <2>1
    <3>2. biseqcstr(w, bstr2cstr(str, Space)) = 1 <=> CString(w) = w
      BY <2>1, <3>1, CopyIsText
    <3> HIDE DEF t
    <3>3. QED
      BY <3>1, <3>2
  <2>7. QED
    BY <2>3, <2>5, <2>6 DEF ComparisonsAgree, Agreeing, AgreeingUpTo
<1>2. QED
  BY <1>1, AlwaysSound, PTL
=============================================================================
