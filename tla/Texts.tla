------------------------------- MODULE Texts --------------------------------
(***************************************************************************)
(* What the functions of bstrlib promise: a string is a sequence of        *)
(* characters, a call gives the text that its comment describes (but one,  *)
(* see Given), and a call that is refused leaves the text as it was.       *)
(***************************************************************************)
EXTENDS BstrSearch

CONSTANTS MaxInt, Chunk, Idle, Fill, NoText

VARIABLES text, call

vars == <<text, call>>

Larger(i, j) == IF i > j THEN i ELSE j
Smaller(i, j) == IF i < j THEN i ELSE j

\* At most n characters, and those behind them.
Before(t, n) == SubSeq(t, 1, Smaller(n, Len(t)))
Behind(t, n) == SubSeq(t, n + 1, Len(t))

\* The section (left, len), clamped to the boundaries of t.
From(left) == Larger(left, 0)
To(t, left, len) == Larger(From(left), Smaller(left + len, Len(t)))
Section(t, left, len) == Behind(Before(t, To(t, left, len)), From(left))

\* t, made longer up to pos.
Gap(t, pos) == t \o [k \in 1..(pos - Len(t)) |-> Fill]

\* Whether u stands at i.
Stands(t, u, i, caseless) ==
  /\ i >= 0 /\ i + Len(u) <= Len(t)
  /\ \A j \in Positions(u) : Same(At(t, i + j), At(u, j), caseless)

\* The leftmost u from pos on is replaced.
Substitute(u, by, caseless, s) ==
  LET i == Least({k \in s.pos..Len(s.t) : Stands(s.t, u, k, caseless)}) IN
  IF i = ERR THEN [s EXCEPT !.on = FALSE]
  ELSE [s EXCEPT !.t = Before(s.t, i) \o by \o Behind(s.t, i + Len(u)), !.pos = i + Len(by)]

\* Every u from pos on is replaced.
Substituted(t, pos, u, by, caseless) ==
  While([s \in [on : BOOLEAN, t : Seq(Chars), pos : Int] |-> Substitute(u, by, caseless, s)],
        [on |-> TRUE, t |-> t, pos |-> pos]).t

Ink(t) == {i \in Positions(t) : At(t, i) # Space}
WithoutLeft(t) == IF Ink(t) = {} THEN <<>> ELSE Behind(t, Least(Ink(t)))
WithoutRight(t) == Before(t, Greatest(Ink(t)) + 1)

\* Up to the first c, and with it.
UpTo(d, c) == LET i == Least({k \in Positions(d) : At(d, k) = c})
              IN  IF i = ERR THEN d ELSE Before(d, i + 1)

Meaning(t, c) ==
  CASE c.op \in {"bfromcstr", "bfromcstralloc", "bassigncstr"} -> CString(c.text)
    [] c.op \in {"blk2bstr", "bassign", "bassignblk", "bread"} -> c.text
    [] c.op \in {"bstrcpy", "balloc", "ballocmin"} -> t
    [] c.op = "bmidstr" -> Section(t, c.pos, c.len)
    [] c.op = "bassignmidstr" -> Section(c.text, c.pos, c.len)
    [] c.op \in {"bconcat", "bcatblk", "breada"} -> t \o c.text
    [] c.op = "bcatcstr" -> t \o CString(c.text)
    [] c.op = "bconchar" -> Append(t, c.char)
    [] c.op = "btrunc" -> Before(t, c.len)
    [] c.op = "btoupper" -> [k \in DOMAIN t |-> Upper(t[k])]
    [] c.op = "btolower" -> [k \in DOMAIN t |-> Lower(t[k])]
    [] c.op = "bltrimws" -> WithoutLeft(t)
    [] c.op = "brtrimws" -> WithoutRight(t)
    [] c.op = "btrimws" -> WithoutLeft(WithoutRight(t))
    [] c.op = "bdelete" -> Before(t, From(c.pos)) \o Behind(t, To(t, c.pos, c.len))
    [] c.op = "bsetstr" -> Before(Gap(t, c.pos), c.pos) \o c.text \o Behind(t, c.pos + Len(c.text))
    [] c.op = "binsert" -> Before(Gap(t, c.pos), c.pos) \o c.text \o Behind(t, c.pos)
    [] c.op = "breplace" -> Before(Gap(t, c.pos), c.pos) \o c.text \o Behind(t, c.pos + c.len)
    [] c.op = "binsertch" -> Before(Gap(t, c.pos), c.pos) \o Gap(<<>>, c.len) \o Behind(t, c.pos)
    [] c.op = "bpattern" -> [k \in 1..c.len |-> t[((k - 1) % Len(t)) + 1]]
    [] c.op \in {"bfindreplace", "bfindreplacecaseless"} ->
         Substituted(t, c.pos, c.find, c.text, c.op = "bfindreplacecaseless")
    [] c.op \in {"bgetsa", "bassigngets"} -> t \o UpTo(c.text, c.char)
    [] c.op = "bgets" -> UpTo(c.text, c.char)

\* What is given.  bassigngets assigns the characters (bstrlib.c:1818) that its
\* comment says are concatenated to the end of the string (bstrlib.c:1802): the
\* one call that does not keep its promise.
Given(t, c) == IF c.op = "bassigngets" THEN Meaning(<<>>, c) ELSE Meaning(t, c)

\* A call is refused for want of memory, for a position or a length below 0, for
\* a text longer than an int can say, and for an empty pattern.
Refused(t, c, memory) ==
  \/ memory # "plenty"
  \/ /\ c.op = "bdelete"
     /\ c.len + Smaller(c.pos, 0) < 0
  \/ /\ c.op \in {"btrunc", "ballocmin", "balloc"}
     /\ c.len <= 0
  \/ /\ c.op \in {"bsetstr", "binsert", "breplace", "binsertch", "bpattern"}
     /\ \/ c.pos < 0 \/ c.len < 0
        \/ Larger(c.pos, Len(t)) + c.len + Len(c.text) >= MaxInt
  \/ c.op = "bpattern" /\ t = <<>>
  \/ /\ c.op \in {"bfindreplace", "bfindreplacecaseless"}
     /\ c.pos < 0 \/ c.find = <<>>
  \/ c.op = "bgets" /\ c.text = <<>>
  \/ Len(Given(t, c)) >= MaxInt
  \/ /\ c.op \in {"bread", "breada"}
     /\ Larger(Len(t) + Chunk, 2 * Len(Given(t, c))) >= MaxInt

\* These may stop in the middle of the text when there is no memory.
HalfWritten == {"bcatcstr", "bassigncstr", "bgetsa", "bassigngets", "breada"}
Makes == {"bfromcstr", "bfromcstralloc", "blk2bstr", "bstrcpy", "bmidstr", "bread", "bgets"}

Answered == /\ call'.rc >= 0
            /\ text' = Given(text, call'.what)

Declined == /\ call'.rc = ERR
            /\ Refused(text, call'.what, call'.memory)
            /\ \/ text' = IF call'.what.op \in Makes THEN NoText ELSE text
               \/ call'.what.op \in HalfWritten

Init == text = NoText /\ call = Idle

Next == \/ call = Idle /\ call' # Idle /\ call'.bad = {} /\ (Answered \/ Declined)
        \/ call'.bad # {}
        \/ call' = Idle /\ text' \in {text, NoText}

Spec == Init /\ [][Next]_vars
=============================================================================
