----------------------------- MODULE BstrSearch -----------------------------
(***************************************************************************)
(* What bstrlib finds in strings and how it compares them.                 *)
(*                                                                         *)
(* A string is the sequence of its `slen' characters; positions count from *)
(* 0.  BSTR_ERR is -1.  Strings here are valid: the tests for NULL that    *)
(* every function starts with are left out.                                *)
(***************************************************************************)
EXTENDS Integers, Sequences, FiniteSets, Loops

\* The characters: bound, four that differ in what the functions look at.
Nul == "nul"
Space == " "
Chars == {Nul, Space, "X", "x"}
Code(c) == CASE c = Nul -> 0 [] c = Space -> 32 [] c = "X" -> 88 [] c = "x" -> 120
Lower(c) == IF c = "X" THEN "x" ELSE c
Upper(c) == IF c = "x" THEN "X" ELSE c

ERR == -1

At(t, i) == t[i + 1]
Positions(t) == 0..(Len(t) - 1)

Least(S) == IF S = {} THEN ERR ELSE CHOOSE i \in S : \A j \in S : i <= j
Greatest(S) == IF S = {} THEN ERR ELSE CHOOSE i \in S : \A j \in S : j <= i

Same(a, b, caseless) == a = b \/ (caseless /\ Lower(a) = Lower(b))

-----------------------------------------------------------------------------
(***************************************************************************)
(* The searches.  `alias' says that both strings begin at the same byte.   *)
(***************************************************************************)

\* A loop compares character j of u at i; the match in progress began at ii.
\* At the end ii is what is returned.
Comparing == [on : BOOLEAN, i : Int, j : Int, ii : Int]
On(i, j, ii) == [on |-> TRUE, i |-> i, j |-> j, ii |-> ii]
Returned(ii) == [on |-> FALSE, i |-> 0, j |-> 0, ii |-> ii]

\* Mutant: a match is taken for one although characters were skipped in it.
MatchedScattered(i, j, ii) == TRUE

\* The j characters before i are those from ii on.
Matched(i, j, ii) == i = ii + j

\* N0: all characters of u were found.
Found(i, j, ii) == IF Matched(i, j, ii) THEN Returned(ii) ELSE On(i - j, 0, ii)

\* The loop of binstr for two characters and more.
Scan(t, u, s) ==
  LET lf == Len(t) - 1
      i == s.i
      j == s.j
      k == IF At(u, j) = At(t, i) THEN i ELSE i + 1
      start == IF j = 0 THEN k ELSE s.ii
  IN  IF i >= lf
      THEN IF i = lf /\ Len(u) = j + 1 /\ At(u, j) = At(t, i)
           THEN Found(i, j, s.ii) ELSE Returned(ERR)
      ELSE IF At(u, j) \notin {At(t, i), At(t, i + 1)} THEN On(i + 2, j, s.ii)
      ELSE IF j + 1 < Len(u) THEN On(k + 1, j + 1, start)
      ELSE Found(k + 1, j + 1, start)

binstr(t, pos, u, alias) ==
  IF Len(t) = pos THEN IF u = <<>> THEN pos ELSE ERR
  ELSE IF Len(t) < pos \/ pos < 0 THEN ERR
  ELSE IF u = <<>> THEN pos
  ELSE IF Len(t) - Len(u) + 1 <= pos THEN ERR
  ELSE IF alias /\ pos = 0 THEN 0
  ELSE IF Len(u) = 1 THEN Least({i \in Positions(t) : i >= pos /\ At(t, i) = At(u, 0)})
  ELSE While([s \in Comparing |-> Scan(t, u, s)], On(pos, 0, -1)).ii

\* The loops that compare u at i, and step i by `by' at a difference.
Slide(t, u, caseless, by, s) ==
  IF Same(At(u, s.j), At(t, s.i + s.j), caseless)
  THEN IF s.j + 1 >= Len(u) THEN Returned(s.i) ELSE On(s.i, s.j + 1, s.ii)
  ELSE IF s.i + by < 0 \/ s.i + by >= Len(t) - Len(u) + 1 THEN Returned(ERR)
  ELSE On(s.i + by, 0, s.ii)

Slid(t, u, caseless, by, from) ==
  While([s \in Comparing |-> Slide(t, u, caseless, by, s)], On(from, 0, -1)).ii

binstrcaseless(t, pos, u, alias) ==
  IF Len(t) = pos THEN IF u = <<>> THEN pos ELSE ERR
  ELSE IF Len(t) < pos \/ pos < 0 THEN ERR
  ELSE IF u = <<>> THEN pos
  ELSE IF Len(t) - Len(u) + 1 <= pos THEN ERR
  ELSE IF alias /\ pos = 0 THEN 0
  ELSE Slid(t, u, TRUE, 1, pos)

Backward(t, pos, u, alias, caseless) ==
  LET l == Len(t) - Len(u) IN
  IF Len(t) = pos /\ u = <<>> THEN pos
  ELSE IF Len(t) < pos \/ pos < 0 THEN ERR
  ELSE IF u = <<>> THEN pos
  ELSE IF alias /\ pos = 0 /\ l >= 0 THEN 0
  ELSE IF l < 0 THEN ERR
  ELSE Slid(t, u, caseless, -1, IF l + 1 <= pos THEN l ELSE pos)

binstrr(t, pos, u, alias) == Backward(t, pos, u, alias, FALSE)
binstrrcaseless(t, pos, u, alias) == Backward(t, pos, u, alias, TRUE)

bstrchrp(t, c, pos) ==
  IF Len(t) <= pos \/ pos < 0 THEN ERR
  ELSE Least({i \in Positions(t) : i >= pos /\ At(t, i) = c})
bstrrchrp(t, c, pos) ==
  IF Len(t) <= pos \/ pos < 0 THEN ERR
  ELSE Greatest({i \in Positions(t) : i <= pos /\ At(t, i) = c})

\* A charField is the set of its characters; that of no characters is refused.
buildCharField(u) == {At(u, i) : i \in Positions(u)}
Inverted(field, t) == buildCharField(t) \ field

binchrCF(t, pos, field) == Least({i \in Positions(t) : i >= pos /\ At(t, i) \in field})
binchrrCF(t, pos, field) == Greatest({i \in Positions(t) : i <= pos /\ At(t, i) \in field})

binchr(t, pos, u) == IF pos < 0 \/ Len(t) <= pos \/ u = <<>> THEN ERR
                     ELSE IF Len(u) = 1 THEN bstrchrp(t, At(u, 0), pos)
                     ELSE binchrCF(t, pos, buildCharField(u))
bninchr(t, pos, u) == IF pos < 0 \/ Len(t) <= pos \/ u = <<>> THEN ERR
                      ELSE binchrCF(t, pos, Inverted(buildCharField(u), t))

\* A position at the end of the text is taken for that of its last character.
FromEnd(t, pos) == IF pos = Len(t) THEN pos - 1 ELSE pos
binchrr(t, pos, u) == IF pos < 0 \/ Len(t) < pos \/ u = <<>> THEN ERR
                      ELSE IF Len(u) = 1 THEN bstrrchrp(t, At(u, 0), FromEnd(t, pos))
                      ELSE binchrrCF(t, FromEnd(t, pos), buildCharField(u))
bninchrr(t, pos, u) == IF pos < 0 \/ Len(t) < pos \/ u = <<>> THEN ERR
                       ELSE binchrrCF(t, FromEnd(t, pos), Inverted(buildCharField(u), t))

-----------------------------------------------------------------------------
(***************************************************************************)
(* The comparisons.  `alias' says that both strings begin at the same byte.*)
(***************************************************************************)
Shorter(t, u) == IF Len(t) < Len(u) THEN Len(t) ELSE Len(u)

DifferFolded(a, b) == Lower(a) # Lower(b)

Stops(a, b, how) == CASE how = "exact" -> a # b
                      [] how = "caseless" -> DifferFolded(a, b)
                      [] how = "cstring" -> a # b \/ a = Nul

\* The first of n characters that the loop stops at.
FirstStop(t, u, n, how) == Least({i \in 0..(n - 1) : Stops(At(t, i), At(u, i), how)})

biseq(t, u, alias) == IF Len(t) # Len(u) THEN 0
                      ELSE IF alias \/ t = u THEN 1 ELSE 0
biseqcaseless(t, u, alias) ==
  IF Len(t) # Len(u) THEN 0
  ELSE IF alias \/ FirstStop(t, u, Len(t), "caseless") = ERR THEN 1 ELSE 0

bisstemeqblk(t, u, alias) ==
  IF Len(t) < Len(u) THEN 0
  ELSE IF alias \/ FirstStop(t, u, Len(u), "exact") = ERR THEN 1 ELSE 0
bisstemeqcaselessblk(t, u, alias) ==
  IF Len(t) < Len(u) THEN 0
  ELSE IF alias \/ FirstStop(t, u, Len(u), "caseless") = ERR THEN 1 ELSE 0

\* The characters of s, a char * string: its first `\0' ends it.
CString(s) == LET e == Least({i \in Positions(s) : At(s, i) = Nul})
              IN  IF e = ERR THEN s ELSE SubSeq(s, 1, e)

\* Both return 0 at the end of s or at a difference before the end of t.
biseqcstr(t, s) ==
  LET c == CString(s) IN
  IF \E i \in Positions(t) : i >= Len(c) \/ At(t, i) # At(c, i) THEN 0
  ELSE IF Len(t) = Len(c) THEN 1 ELSE 0
biseqcstrcaseless(t, s) ==
  LET c == CString(s) IN
  IF \E i \in Positions(t) : i >= Len(c) \/ DifferFolded(At(t, i), At(c, i)) THEN 0
  ELSE IF Len(t) = Len(c) THEN 1 ELSE 0

\* Mutant: the lengths of strings are not compared when the characters agree.
bstrcmpPrefix(t, u, alias) ==
  LET n == Shorter(t, u)
      i == FirstStop(t, u, n, "cstring")
  IN  IF i # ERR THEN Code(At(t, i)) - Code(At(u, i)) ELSE 0

bstrcmp(t, u, alias) ==
  LET n == Shorter(t, u)
      i == FirstStop(t, u, n, "cstring")
  IN  IF Len(t) = Len(u) /\ (alias \/ t = <<>>) THEN 0
      ELSE IF i # ERR THEN Code(At(t, i)) - Code(At(u, i))
      ELSE IF Len(t) > n THEN 1
      ELSE IF Len(u) > n THEN -1 ELSE 0

bstrncmp(t, u, n, alias) ==
  LET m == IF n < Shorter(t, u) THEN n ELSE Shorter(t, u)
      i == IF alias THEN ERR ELSE FirstStop(t, u, m, "cstring")
  IN  IF i # ERR THEN Code(At(t, i)) - Code(At(u, i))
      ELSE IF n = m \/ Len(t) = Len(u) THEN 0
      ELSE IF Len(t) > m THEN 1 ELSE -1

\* A first extra character that is `\0' counts as UCHAR_MAX + 1.
Extra(c) == IF Code(Lower(c)) # 0 THEN Code(Lower(c)) ELSE 256

bstricmp(t, u, alias) ==
  LET n == Shorter(t, u)
      i == FirstStop(t, u, n, "caseless")
  IN  IF Len(t) = Len(u) /\ alias THEN 0
      ELSE IF i # ERR THEN Code(Lower(At(t, i))) - Code(Lower(At(u, i)))
      ELSE IF Len(t) > n THEN Extra(At(t, n))
      ELSE IF Len(u) > n THEN -Extra(At(u, n)) ELSE 0

\* The result at a difference is that of the characters as they are.
bstrnicmp(t, u, n, alias) ==
  LET m == IF n < Shorter(t, u) THEN n ELSE Shorter(t, u)
      i == IF alias THEN ERR ELSE FirstStop(t, u, m, "caseless")
  IN  IF n < 0 THEN -32768  \* SHRT_MIN
      ELSE IF i # ERR THEN Code(At(t, i)) - Code(At(u, i))
      ELSE IF n = m \/ Len(t) = Len(u) THEN 0
      ELSE IF Len(t) > m THEN Extra(At(t, m)) ELSE -Extra(At(u, m))
=============================================================================
