------------------------------ MODULE Bstrings ------------------------------
(***************************************************************************)
(* The strings of bstrlib in memory: a block of mlen bytes, of which the   *)
(* first slen are the text and the next one is '\0'.                       *)
(*                                                                         *)
(* A program calls one function after another on a string.  Every function *)
(* is the reads and writes it makes in the block, in their order; a byte   *)
(* that was not written is Junk.  An argument of a function may be a part  *)
(* of the text itself, as a bstring (bmid2tbstr), a block or a C string;   *)
(* it is stale when the block moves.                                       *)
(* The string is valid and not write protected: the tests for NULL and for *)
(* lengths below 0 that every function starts with are left out.           *)
(***************************************************************************)
EXTENDS BstrSearch, Functions

CONSTANTS Smallest,   \* the smallest block that snapUpSize asks for: 8
          Chunk,      \* the bytes that breada asks for at first: 16
          MaxInt,     \* the greatest int; its successor is the least
          Memory,     \* what the allocator may do: "plenty"; "tight": it has
                      \* no more than is needed; "none"
          BufferSize, \* the most that it adds to that at a time: 1024
          Static,     \* the matches that findreplaceengine notes without memory: 31
          Reduced,    \* bound: memory is short only when the block is full, at
                      \* most one source of a call is a part of the string, and
                      \* none is where a search folds letters
          Words,      \* bound: the texts of other blocks
          Places,     \* bound: the positions of calls
          Lengths,    \* bound: the lengths of calls
          MaxLen      \* bound: the length of a text that a program goes on with

VARIABLES str,    \* the string: its block m and its slen
          call    \* Idle, or the call that was made, its result, its faults

vars == <<str, call>>

Junk == "junk"
Byte == Chars \cup {Junk}

Ints == -(MaxInt + 1)..MaxInt

ASSUME SizesAreInts == /\ MaxInt \in Nat /\ Smallest \in 1..MaxInt
                       /\ Chunk \in 1..MaxInt /\ BufferSize \in 1..MaxInt
                       /\ Static \in Nat
ASSUME LengthsAreInts == /\ \A w \in Words : w \in Seq(Chars) /\ Len(w) < MaxInt
                         /\ Places \subseteq Ints /\ Lengths \subseteq Ints
ASSUME MemoryIsShort == Memory \subseteq {"plenty", "tight", "none"}
ASSUME BoundsAreBounds == Reduced \in BOOLEAN /\ MaxLen \in Int

None == [m |-> [at |-> <<>>, bad |-> {}], slen |-> ERR]
Idle == [what |-> [op |-> "idle"], memory |-> "plenty", rc |-> 0, bad |-> {}]
Fill == Space

Wrap(i) == ((i + MaxInt + 1) % (2 * (MaxInt + 1))) - MaxInt - 1
AtLeast(i, n) == IF i < n THEN n ELSE i

-----------------------------------------------------------------------------
(***************************************************************************)
(* Blocks: `at' has the bytes, `bad' what went wrong.                      *)
(***************************************************************************)
Blocks == [at : Seq(Byte), bad : SUBSET {"outside"}]
Strings == [m : Blocks, slen : Int]

Times(c, n) == [k \in 1..n |-> c]
Size(m) == Len(m.at)
Block(n) == [at |-> Times(Junk, n), bad |-> {}]

\* memmove and memcpy of bytes that were read before.
Write(m, to, s) ==
  IF s = <<>> THEN m
  ELSE IF to < 0 \/ to + Len(s) > Size(m) THEN [m EXCEPT !.bad = @ \cup {"outside"}]
  ELSE [m EXCEPT !.at = SubSeq(@, 1, to) \o s \o SubSeq(@, to + Len(s) + 1, Len(@))]

Bytes(m, from, n) == IF from >= 0 /\ n >= 0 /\ from + n <= Size(m)
                     THEN SubSeq(m.at, from + 1, from + n) ELSE Times(Junk, n)
Move(m, to, from, n) == IF n < 0 THEN [m EXCEPT !.bad = @ \cup {"outside"}]
                        ELSE Write(m, to, Bytes(m, from, n))
End(m, n) == Write(m, n, <<Nul>>)
Text(s) == Bytes(s.m, 0, s.slen)

Done(m, n) == [rc |-> 0, s |-> [m |-> End(m, n), slen |-> n]]
Refuse(s) == [rc |-> ERR, s |-> s]

\* The least power of two that is greater than i.
PowerAbove(i) ==
  While([x \in [on : BOOLEAN, p : Nat] |-> [on |-> 2 * x.p <= i, p |-> 2 * x.p]],
        [on |-> TRUE, p |-> 1]).p

snapUpSize(i) == IF i < Smallest THEN Smallest
                 ELSE IF PowerAbove(i) <= MaxInt THEN PowerAbove(i) ELSE i

\* The block after a call that may replace it; `moved' when it was replaced.
Kept(m) == [ok |-> TRUE, m |-> m, moved |-> FALSE]
Unavailable(m) == [ok |-> FALSE, m |-> m, moved |-> FALSE]
Replaced(s, n) == [ok |-> TRUE, moved |-> TRUE,
                   m |-> End(Write([Block(n) EXCEPT !.bad = s.m.bad], 0, Text(s)), s.slen)]

balloc(s, olen, memory) ==
  IF olen <= 0 THEN Unavailable(s.m)
  ELSE IF olen < Size(s.m) \/ snapUpSize(olen) <= Size(s.m) THEN Kept(s.m)
  ELSE IF memory = "none" THEN Unavailable(s.m)
  ELSE Replaced(s, IF memory = "plenty" THEN snapUpSize(olen) ELSE olen)

ballocmin(s, len, memory) ==
  LET n == AtLeast(len, s.slen + 1) IN
  IF len <= 0 THEN Refuse(s)
  ELSE IF n = Size(s.m) THEN Done(s.m, s.slen)
  ELSE IF memory = "none" THEN Refuse(s)
  ELSE Done(Replaced(s, n).m, s.slen)

-----------------------------------------------------------------------------
(***************************************************************************)
(* Making strings.  A call that fails returns NULL.                        *)
(***************************************************************************)
Made(text, n, memory) ==
  IF n > Len(text) /\ memory = "plenty" THEN Done(Write(Block(n), 0, text), Len(text))
  ELSE Refuse(None)

\* The size for n characters: that of no character has room for one.
SizeFor(n) == snapUpSize(Wrap(n + (IF n = 0 THEN 2 ELSE 1)))

bfromcstr(w, memory) == LET c == CString(w) IN Made(c, SizeFor(Len(c)), memory)

bfromcstralloc(mlen, w, memory) ==
  LET c == CString(w)
  IN  Made(c, IF SizeFor(Len(c)) > Len(c) THEN AtLeast(SizeFor(Len(c)), mlen) ELSE 0, memory)

blk2bstr(w, memory) ==
  IF memory = "plenty" THEN Done(Write(Block(SizeFor(Len(w))), 0, w), Len(w)) ELSE Refuse(None)

bstrcpy(s, memory) ==
  IF memory = "none" THEN Refuse(None)
  ELSE Done(Write(Block(IF memory = "plenty" THEN snapUpSize(s.slen + 1) ELSE s.slen + 1),
                  0, Text(s)), s.slen)

\* (left, len) without the part before the string, and without that behind it.
FromStart(left, len) == IF left < 0 THEN [left |-> 0, len |-> Wrap(len + left)]
                        ELSE [left |-> left, len |-> len]
Clamped(n, left, len) == LET f == FromStart(left, len)
                         IN  IF f.len > n - f.left THEN [f EXCEPT !.len = n - f.left] ELSE f

bmidstr(s, left, len, memory) ==
  LET c == Clamped(s.slen, left, len) IN
  IF c.len <= 0 THEN bfromcstr(<<>>, memory) ELSE blk2bstr(Bytes(s.m, c.left, c.len), memory)

\* What bstr2cstr returns: the text without '\0'.
bstr2cstr(s, z) == [k \in 1..s.slen |-> IF Text(s)[k] = Nul THEN z ELSE Text(s)[k]]

-----------------------------------------------------------------------------
(***************************************************************************)
(* Sources: bstrings, blocks and C strings that a function reads, of       *)
(* another block or of s.                                                  *)
(***************************************************************************)
Others == {[own |-> FALSE, at |-> 0, text |-> w] : w \in Words}
Parts(s) == {[own |-> TRUE, at |-> i, text |-> Bytes(s.m, i, n)] : i \in 0..s.slen, n \in 1..s.slen}
Sources(s) == Others \cup {p \in Parts(s) : p.at + Len(p.text) <= s.slen}

\* A C string in s ends with the `\0' of s, or with one in its text.
CStrings(s) == Others \cup {[own |-> TRUE, at |-> i, text |-> Bytes(s.m, i, s.slen - i)] : i \in 0..s.slen}

\* The text of a source when the block is m now, and what is left of a part of
\* a block that was replaced.
Now(src, m) == IF src.own THEN Bytes(m, src.at, Len(src.text)) ELSE src.text
Since(src, g) == IF src.own /\ g.moved THEN Times(Junk, Len(src.text)) ELSE Now(src, g.m)

\* What bBlockCopy writes, from the copy that was made of the source or from it.
Copied(src, copied, g) == IF copied THEN src.text ELSE Since(src, g)

bconcat(s, src, memory) ==
  LET nl == Wrap(s.slen + Len(src.text))
      full == Size(s.m) <= Wrap(nl + 1)
      copied == full /\ src.own
      g == IF full THEN balloc(s, Wrap(nl + 1), memory) ELSE Kept(s.m)
  IN  IF nl < 0 \/ (copied /\ memory = "none") \/ ~g.ok THEN Refuse(s)
      ELSE Done(Write(g.m, s.slen, Copied(src, copied, g)), nl)

\* Mutant: room for the character, and none for the `\0'.
bconcharTight(s, c, memory) ==
  LET g == balloc(s, Wrap(s.slen + 1), memory) IN
  IF ~g.ok THEN Refuse(s) ELSE Done(Write(g.m, s.slen, <<c>>), s.slen + 1)

bconchar(s, c, memory) ==
  LET g == balloc(s, Wrap(s.slen + 2), memory) IN
  IF ~g.ok THEN Refuse(s) ELSE Done(Write(g.m, s.slen, <<c>>), s.slen + 1)

bcatblk(s, src, memory) ==
  LET nl == Wrap(s.slen + Len(src.text))
      g == IF Size(s.m) <= nl THEN balloc(s, Wrap(nl + 1), memory) ELSE Kept(s.m)
  IN  IF nl < 0 \/ ~g.ok THEN Refuse(s) ELSE Done(Write(g.m, s.slen, Since(src, g)), nl)

\* A C string in s that ends with the `\0' of s loses it to its own first
\* character: what is copied comes round again until the block is full, and the
\* `\0' is looked for behind the block.
RunsOn(s, c, at) == c # <<>> /\ at + Len(c) = s.slen
Overrun(s, c) ==
  LET again == [k \in 1..(Size(s.m) - s.slen) |-> c[((k - 1) % Len(c)) + 1]]
  IN  [rc |-> 0, s |-> [m |-> [Write(s.m, s.slen, again) EXCEPT !.bad = @ \cup {"outside"}],
                        slen |-> Size(s.m)]]

\* As much of the C string as the block has room for, and then the rest.
bcatcstr(s, src, memory) ==
  LET c == CString(src.text)
      room == Size(s.m) - s.slen
      full == [m |-> Write(s.m, s.slen, SubSeq(c, 1, room)), slen |-> Size(s.m)]
      rest == [own |-> src.own, at |-> src.at + room, text |-> SubSeq(c, room + 1, Len(c))]
  IN  IF src.own /\ RunsOn(s, c, src.at) THEN Overrun(s, c)
      ELSE IF Len(c) < room THEN Done(Write(s.m, s.slen, c), s.slen + Len(c))
      ELSE bcatblk(full, rest, memory)

bassign(s, src, memory) ==
  LET g == IF src.text = <<>> THEN Kept(s.m) ELSE balloc(s, Len(src.text), memory) IN
  IF ~g.ok THEN Refuse(s) ELSE Done(Write(g.m, 0, Since(src, g)), Len(src.text))

bassignmidstr(s, src, left, len, memory) ==
  LET c == Clamped(Len(src.text), left, len)
      g == IF c.len <= 0 THEN Kept(s.m) ELSE balloc(s, c.len, memory)
  IN  IF ~g.ok THEN Refuse(s)
      ELSE Done(Write(g.m, 0, SubSeq(Since(src, g), c.left + 1, c.left + c.len)), AtLeast(c.len, 0))

\* A C string in s is read before it is overwritten, and fits.
bassigncstr(s, src, memory) ==
  LET c == CString(src.text)
      n == Size(s.m)
      full == [m |-> Write(s.m, 0, SubSeq(c, 1, n)), slen |-> n]
      rest == [own |-> src.own, at |-> src.at + n, text |-> SubSeq(c, n + 1, Len(c))]
      g == balloc(full, Wrap(Len(c) + 1), memory)
  IN  IF Len(c) < n THEN Done(Write(s.m, 0, c), Len(c))
      ELSE IF ~g.ok THEN Refuse(full)
      ELSE Done(Write(g.m, n, Since(rest, g)), Len(c))

bassignblk(s, src, memory) ==
  LET n == Len(src.text)
      g == IF n + 1 > Size(s.m) THEN balloc(s, n + 1, memory) ELSE Kept(s.m)
  IN  IF Wrap(n + 1) < 1 \/ ~g.ok THEN Refuse(s) ELSE Done(Write(g.m, 0, Since(src, g)), n)

-----------------------------------------------------------------------------
(***************************************************************************)
(* Changing the text.                                                      *)
(***************************************************************************)
\* Mutant: the `\0' stays behind the old end.
btruncOpen(s, n) ==
  IF n < 0 THEN Refuse(s)
  ELSE [rc |-> 0, s |-> [s EXCEPT !.slen = AtLeast(0, IF n < @ THEN n ELSE @)]]

btrunc(s, n) == IF n < 0 THEN Refuse(s) ELSE IF s.slen > n THEN Done(s.m, n) ELSE [rc |-> 0, s |-> s]

Overwritten(s, text) == [rc |-> 0, s |-> [s EXCEPT !.m = Write(@, 0, text)]]
btoupper(s) == Overwritten(s, [k \in 1..s.slen |-> Upper(Text(s)[k])])
btolower(s) == Overwritten(s, [k \in 1..s.slen |-> Lower(Text(s)[k])])

bdelete(s, pos, len) ==
  LET f == FromStart(pos, len)
      from == Wrap(f.left + f.len)
  IN  IF f.len < 0 THEN Refuse(s)
      ELSE IF f.len = 0 \/ f.left >= s.slen THEN [rc |-> 0, s |-> s]
      ELSE IF from >= s.slen THEN Done(s.m, f.left)
      ELSE Done(Move(s.m, f.left, from, Wrap(s.slen - from)), s.slen - f.len)

\* Where the first and the last character stand that are no space.
FirstInk(s) == Least({i \in 0..(s.slen - 1) : Text(s)[i + 1] # Space})
LastInk(s) == Greatest({i \in 0..(s.slen - 1) : Text(s)[i + 1] # Space})

bltrimws(s) == IF FirstInk(s) = ERR THEN Done(s.m, 0) ELSE bdelete(s, 0, FirstInk(s))
brtrimws(s) == Done(s.m, LastInk(s) + 1)
btrimws(s) == IF LastInk(s) = ERR THEN Done(s.m, 0)
              ELSE bdelete(Done(s.m, LastInk(s) + 1).s, 0, FirstInk(s))

\* The block with `fill' up to the position pos.
Padded(m, slen, pos) == Write(m, slen, Times(Fill, pos - slen))

\* No b1 is as an empty one.
bsetstr(s, pos, src, memory) ==
  LET d == Wrap(pos + Len(src.text))
      g == balloc(s, Wrap(d + 1), memory)
  IN  IF pos < 0 \/ (src.own /\ memory = "none") \/ ~g.ok THEN Refuse(s)
      ELSE Done(Write(Padded(g.m, s.slen, pos), pos, Copied(src, src.own, g)),
                AtLeast(AtLeast(d, pos), s.slen))

\* Mutant: a part of the block is taken for a string of its own.
binsertUncopied(s, pos, src, memory) ==
  LET n == Len(src.text)
      d == Wrap(s.slen + n)
      l == Wrap(pos + n)
      g == balloc(s, Wrap(AtLeast(l, d) + 1), memory)
  IN  IF pos < 0 \/ d < 0 \/ l < 0 \/ ~g.ok THEN Refuse(s)
      ELSE IF l > d THEN Done(Write(Padded(g.m, s.slen, pos), pos, Since(src, g)), l)
      ELSE LET m == Move(g.m, l, pos, d - l)
           IN  Done(Write(m, pos, Since(src, [g EXCEPT !.m = m])), d)

binsert(s, pos, src, memory) ==
  LET n == Len(src.text)
      d == Wrap(s.slen + n)
      l == Wrap(pos + n)
      g == balloc(s, Wrap(AtLeast(l, d) + 1), memory)
  IN  IF pos < 0 \/ d < 0 \/ l < 0 \/ (src.own /\ memory = "none") \/ ~g.ok THEN Refuse(s)
      ELSE IF l > d THEN Done(Write(Padded(g.m, s.slen, pos), pos, Copied(src, src.own, g)), l)
      ELSE Done(Write(Move(g.m, l, pos, d - l), pos, Copied(src, src.own, g)), d)

breplace(s, pos, len, src, memory) ==
  LET pl == Wrap(pos + len)
      n == Len(src.text)
      set == bsetstr(s, pos, src, memory)
      g == IF n > len THEN balloc(s, Wrap(s.slen + n - len), memory) ELSE Kept(s.m)
      tail == IF n = len THEN g.m ELSE Move(g.m, pos + n, pl, s.slen - pl)
  IN  IF pos < 0 \/ len < 0 \/ pl < 0 THEN Refuse(s)
      ELSE IF pl >= s.slen
      THEN IF set.rc = 0 /\ pos + n < set.s.slen THEN Done(set.s.m, pos + n) ELSE set
      ELSE IF (src.own /\ memory = "none") \/ ~g.ok THEN Refuse(s)
      ELSE Done(Write(tail, pos, Copied(src, src.own, g)), s.slen + n - len)

binsertch(s, pos, len, memory) ==
  LET d == Wrap(s.slen + len)
      l == Wrap(pos + len)
      g == balloc(s, Wrap(AtLeast(l, d) + 1), memory)
  IN  IF pos < 0 \/ len < 0 \/ d < 0 \/ l < 0 \/ ~g.ok THEN Refuse(s)
      ELSE IF l > d THEN Done(Padded(g.m, s.slen, l), l)
      ELSE Done(Write(Move(g.m, l, pos, d - l), pos, Times(Fill, len)), d)

\* A byte is copied from the one that slen bytes before it was copied to.
bpattern(s, len, memory) ==
  LET g == balloc(s, Wrap(len + 1), memory)
      text == [k \in 1..len |-> Bytes(g.m, (k - 1) % s.slen, 1)[1]]
  IN  IF s.slen <= 0 \/ len < 0 \/ ~g.ok THEN Refuse(s)
      ELSE Done(Write(g.m, 0, text), len)

-----------------------------------------------------------------------------
(***************************************************************************)
(* findreplaceengine.                                                      *)
(***************************************************************************)

\* A part of the block is copied when it ends behind pos.
CopiedFrom(src, pos) == src.own /\ src.at > pos - Len(src.text)

\* instr in the block as it is now.
instr(m, slen, pos, find, caseless) ==
  IF caseless THEN binstrcaseless(Bytes(m, 0, slen), pos, find, FALSE)
  ELSE binstr(Bytes(m, 0, slen), pos, find, FALSE)

\* The loop for a text that gets shorter, or keeps its length: acc bytes fewer
\* so far.
Shrink(slen, find, repl, caseless, s) ==
  LET i == instr(s.m, slen, s.pos, find, caseless)
      m == IF s.acc > 0 THEN Move(s.m, s.pos - s.acc, s.pos, i - s.pos) ELSE s.m
  IN  IF i < 0 THEN [s EXCEPT !.on = FALSE]
      ELSE [on |-> TRUE, m |-> Write(m, i - s.acc, repl), pos |-> i + Len(find),
            acc |-> s.acc + Len(find) - Len(repl)]

Shrunk(s, pos, find, repl, caseless) ==
  LET e == While([x \in [on : BOOLEAN, m : Blocks, pos : Int, acc : Int] |->
                    Shrink(s.slen, find, repl, caseless, x)],
                 [on |-> TRUE, m |-> s.m, pos |-> pos, acc |-> 0])
  IN  Done(IF e.acc > 0 THEN Move(e.m, e.pos - e.acc, e.pos, s.slen - e.pos) ELSE e.m,
           s.slen - e.acc)

\* The positions of the matches, in `d', which is made longer when there are more
\* than Static.
TakeMatch(m, slen, find, caseless, s) ==
  LET i == instr(m, slen, s.pos, find, caseless)
  IN  IF i < 0 THEN [s EXCEPT !.on = FALSE]
      ELSE [on |-> TRUE, pos |-> i + Len(find), d |-> Append(s.d, i)]

Matches(s, pos, find, caseless) ==
  While([x \in [on : BOOLEAN, pos : Int, d : Seq(Int)] |-> TakeMatch(s.m, s.slen, find, caseless, x)],
        [on |-> TRUE, pos |-> pos, d |-> <<>>]).d

\* The loop for a text that gets longer, from the last match to the first.
Expand(d, n, repl, x) ==
  LET s == d[x.k] + n
      m == Move(x.m, s + x.acc, s, d[x.k + 1] - s)
  IN  IF x.k = 0 THEN [x EXCEPT !.on = FALSE]
      ELSE [on |-> TRUE, m |-> Write(m, s + x.acc - Len(repl), repl), k |-> x.k - 1,
            acc |-> x.acc + n - Len(repl)]

Expanded(m, d, slen, acc, n, repl) ==
  While([x \in [on : BOOLEAN, m : Blocks, k : 0..Len(d), acc : Int] |->
           Expand(Append(d, slen), n, repl, x)],
        [on |-> TRUE, m |-> m, k |-> Len(d), acc |-> acc]).m

findreplaceengine(s, find, repl, pos, caseless, memory) ==
  LET copies == CopiedFrom(find, pos) \/ CopiedFrom(repl, pos)
      n == Len(find.text)
      d == Matches(s, pos, find.text, caseless)
      acc == Len(d) * (Len(repl.text) - n)
      g == balloc(s, Wrap(s.slen + acc + 1), memory)
  IN  IF pos < 0 \/ n = 0 THEN Refuse(s)
      ELSE IF pos > s.slen - n THEN [rc |-> 0, s |-> s]
      ELSE IF copies /\ memory = "none" THEN Refuse(s)
      ELSE IF n >= Len(repl.text) THEN Shrunk(s, pos, find.text, repl.text, caseless)
      ELSE IF acc > MaxInt \/ (Len(d) > Static /\ memory = "none") \/ ~g.ok THEN Refuse(s)
      ELSE Done(Expanded(g.m, d, s.slen, acc, n, Copied(repl, CopiedFrom(repl, pos), g)),
                s.slen + acc)
bfindreplace(s, find, repl, pos, memory) == findreplaceengine(s, find, repl, pos, FALSE, memory)
bfindreplacecaseless(s, find, repl, pos, memory) == findreplaceengine(s, find, repl, pos, TRUE, memory)

-----------------------------------------------------------------------------
(***************************************************************************)
(* Reading.  `data' is what the stream has left.                           *)
(***************************************************************************)
\* The loop of breada: room for n bytes, of which slen are there.
ReadBlock(memory, x) ==
  LET g == balloc(x.s, Wrap(x.n + 1), memory)
      room == AtLeast(x.n - x.s.slen, 0)
      l == IF Len(x.data) < room THEN Len(x.data) ELSE room
      read == [m |-> Write(g.m, x.s.slen, SubSeq(x.data, 1, l)), slen |-> x.s.slen + l]
      more == IF x.n < BufferSize THEN x.n ELSE BufferSize
  IN  IF ~g.ok THEN [x EXCEPT !.on = FALSE, !.rc = ERR]
      ELSE [on |-> read.slen >= x.n, rc |-> 0, s |-> read, n |-> Wrap(x.n + more),
            data |-> SubSeq(x.data, l + 1, Len(x.data))]

breada(s, data, memory) ==
  LET e == While([x \in [on : BOOLEAN, rc : {0, ERR}, s : Strings, n : Int, data : Seq(Chars)] |->
                    ReadBlock(memory, x)],
                 [on |-> TRUE, rc |-> 0, s |-> s, n |-> Wrap(s.slen + Chunk), data |-> data])
  IN  IF e.rc < 0 THEN Refuse(e.s) ELSE Done(e.s.m, e.s.slen)
bread(data, memory) == LET b == bfromcstr(<<>>, memory) IN
  IF b.rc < 0 THEN Refuse(None) ELSE
  IF breada(b.s, data, memory).rc < 0 THEN Refuse(None) ELSE breada(b.s, data, memory)

\* What is read of data: all of it, or up to the terminator.
Line(data, c) == LET i == Least({k \in Positions(data) : At(data, k) = c})
                 IN  IF i = ERR THEN data ELSE SubSeq(data, 1, i + 1)

\* The loop of bgetsa and bassigngets: one byte at a time is added.
GetByte(memory, x) ==
  LET n == x.s.slen
      g == IF n > Size(x.s.m) - 2 THEN balloc(x.s, Wrap(n + 2), memory) ELSE Kept(x.s.m)
  IN  IF x.line = <<>> THEN [x EXCEPT !.on = FALSE]
      ELSE IF ~g.ok THEN [x EXCEPT !.on = FALSE, !.rc = ERR]
      ELSE [x EXCEPT !.s = [m |-> Write(g.m, n, <<Head(x.line)>>), slen |-> n + 1],
                     !.line = Tail(@)]

GetBytes(s, line, memory) ==
  LET e == While([x \in [on : BOOLEAN, rc : {0, ERR}, s : Strings, line : Seq(Chars)] |->
                    GetByte(memory, x)],
                 [on |-> TRUE, rc |-> 0, s |-> s, line |-> line])
  IN  IF e.rc < 0 THEN Refuse(e.s) ELSE Done(e.s.m, e.s.slen)

\* 1 for an empty result at the end of the stream.
Got(r) == IF r.rc = 0 /\ r.s.slen = 0 THEN [r EXCEPT !.rc = 1] ELSE r
bgetsa(s, data, terminator, memory) == Got(GetBytes(s, Line(data, terminator), memory))
bassigngets(s, data, terminator, memory) ==
  Got(GetBytes([s EXCEPT !.slen = 0], Line(data, terminator), memory))

bgets(data, terminator, memory) ==
  LET b == bfromcstr(<<>>, memory)
      r == bgetsa(b.s, data, terminator, memory)
  IN  IF b.rc < 0 THEN Refuse(None) ELSE IF r.rc < 0 \/ r.s.slen <= 0 THEN Refuse(None) ELSE r

-----------------------------------------------------------------------------
(***************************************************************************)
(* A program.  `what' is the call with the text of its source; `memory' is *)
(* told of calls that failed.                                              *)
(***************************************************************************)
Forget(s) ==
  LET n == IF s.slen + 1 \in 0..Size(s.m) THEN s.slen + 1 ELSE Size(s.m)
  IN  [slen |-> s.slen, m |-> [at |-> Bytes(s.m, 0, n) \o Times(Junk, Size(s.m) - n), bad |-> {}]]

Call(what, memory, r) ==
  LET bad == r.s.m.bad \cup (IF Junk \in Range(Text(r.s)) THEN {"stale"} ELSE {}) IN
  /\ str' = Forget(r.s)
  /\ call' = [what |-> what, memory |-> IF r.rc < 0 \/ bad # {} THEN memory ELSE "plenty",
              rc |-> r.rc, bad |-> bad]

HalfWritten == {"bcatcstr", "bassigncstr", "bgetsa", "bassigngets", "breada"}
Broken == call.rc < 0 /\ call.what.op \in HalfWritten

\* A string that a call left half written is destroyed, as bgets and bread do.
Return == /\ call # Idle /\ call.bad = {} /\ ~Broken
          /\ str.slen <= MaxLen
          /\ call' = Idle /\ UNCHANGED str

bdestroy == /\ str # None /\ call.bad = {}
            /\ str' = None /\ call' = Idle

Make(memory) ==
  /\ \E w \in Words :
       \/ Call([op |-> "bfromcstr", text |-> w], memory, bfromcstr(w, memory))
       \/ \E n \in Lengths : Call([op |-> "bfromcstralloc", text |-> w], memory,
                                  bfromcstralloc(n, w, memory))
       \/ Call([op |-> "blk2bstr", text |-> w], memory, blk2bstr(w, memory))
       \/ Call([op |-> "bread", text |-> w], memory, bread(w, memory))
       \/ \E c \in Chars : Call([op |-> "bgets", text |-> w, char |-> c], memory, bgets(w, c, memory))

\* The program goes on with the copy.
Copy(memory) ==
  \/ Call([op |-> "bstrcpy"], memory, bstrcpy(str, memory))
  \/ \E p \in Places, n \in Lengths :
       Call([op |-> "bmidstr", pos |-> p, len |-> n], memory, bmidstr(str, p, n, memory))

Resize(memory) == \E n \in Lengths :
  \/ LET g == balloc(str, n, memory)
     IN  Call([op |-> "balloc", len |-> n], memory,
              [rc |-> IF g.ok THEN 0 ELSE ERR, s |-> [str EXCEPT !.m = g.m]])
  \/ Call([op |-> "ballocmin", len |-> n], memory, ballocmin(str, n, memory))

Catenate(memory) ==
  \/ \E src \in Sources(str) :
       \/ Call([op |-> "bconcat", text |-> src.text], memory, bconcat(str, src, memory))
       \/ Call([op |-> "bcatblk", text |-> src.text, own |-> src.own], memory, bcatblk(str, src, memory))
  \/ \E src \in CStrings(str) :
       Call([op |-> "bcatcstr", text |-> src.text, own |-> src.own], memory, bcatcstr(str, src, memory))
  \/ \E c \in Chars : Call([op |-> "bconchar", char |-> c], memory, bconchar(str, c, memory))

Assign(memory) ==
  \/ \E src \in Sources(str) :
       \/ Call([op |-> "bassign", text |-> src.text], memory, bassign(str, src, memory))
       \/ Call([op |-> "bassignblk", text |-> src.text], memory, bassignblk(str, src, memory))
       \/ \E p \in Places, n \in Lengths :
            Call([op |-> "bassignmidstr", text |-> src.text, pos |-> p, len |-> n], memory,
                 bassignmidstr(str, src, p, n, memory))
  \/ \E src \in CStrings(str) :
       Call([op |-> "bassigncstr", text |-> src.text], memory, bassigncstr(str, src, memory))

Cut == \/ \E n \in Lengths : Call([op |-> "btrunc", len |-> n], "plenty", btrunc(str, n))
       \/ \E p \in Places, n \in Lengths :
            Call([op |-> "bdelete", pos |-> p, len |-> n], "plenty", bdelete(str, p, n))
       \/ Call([op |-> "bltrimws"], "plenty", bltrimws(str))
       \/ Call([op |-> "brtrimws"], "plenty", brtrimws(str))
       \/ Call([op |-> "btrimws"], "plenty", btrimws(str))

Fold == \/ Call([op |-> "btoupper"], "plenty", btoupper(str))
        \/ Call([op |-> "btolower"], "plenty", btolower(str))

Change(memory) == \E p \in Places :
  \/ \E src \in Sources(str) :
       \/ Call([op |-> "bsetstr", pos |-> p, len |-> 0, text |-> src.text], memory,
               bsetstr(str, p, src, memory))
       \/ Call([op |-> "binsert", pos |-> p, len |-> 0, text |-> src.text], memory,
               binsert(str, p, src, memory))
       \/ \E n \in Lengths :
            Call([op |-> "breplace", pos |-> p, len |-> n, text |-> src.text], memory,
                 breplace(str, p, n, src, memory))
  \/ \E n \in Lengths :
       Call([op |-> "binsertch", pos |-> p, len |-> n, text |-> <<>>], memory, binsertch(str, p, n, memory))

Repeat(memory) == \E n \in Lengths :
  Call([op |-> "bpattern", pos |-> 0, len |-> n, text |-> <<>>], memory, bpattern(str, n, memory))

FindReplace(memory) == \E p \in Places, find, repl \in Sources(str) :
  \/ /\ Reduced => ~(find.own /\ repl.own)
     /\ Call([op |-> "bfindreplace", pos |-> p, find |-> find.text, text |-> repl.text], memory,
             bfindreplace(str, find, repl, p, memory))
  \/ /\ Reduced => ~(find.own \/ repl.own)
     /\ Call([op |-> "bfindreplacecaseless", pos |-> p, find |-> find.text, text |-> repl.text], memory,
             bfindreplacecaseless(str, find, repl, p, memory))

Read(memory) == \E w \in Words :
  \/ Call([op |-> "breada", text |-> w], memory, breada(str, w, memory))
  \/ \E c \in Chars :
       \/ Call([op |-> "bgetsa", text |-> w, char |-> c], memory, bgetsa(str, w, c, memory))
       \/ Call([op |-> "bassigngets", text |-> w, char |-> c], memory, bassigngets(str, w, c, memory))

Use(memory) == /\ Reduced /\ memory # "plenty" => Size(str.m) = str.slen + 1
               /\ \/ Copy(memory) \/ Resize(memory) \/ Catenate(memory) \/ Assign(memory)
                  \/ Change(memory) \/ Repeat(memory) \/ FindReplace(memory) \/ Read(memory)

Init == str = None /\ call = Idle

Next == \/ Return \/ bdestroy
        \/ /\ call = Idle /\ str = None
           /\ \E memory \in Memory : Make(memory)
        \/ /\ call = Idle /\ str # None
           /\ Cut \/ Fold \/ \E memory \in Memory : Use(memory)

Spec == Init /\ [][Next]_vars

-----------------------------------------------------------------------------
(***************************************************************************)
(* Properties.                                                             *)
(***************************************************************************)
Valid == str # None /\ call.bad = {} /\ ~Broken

\* Between calls the text lies in the block, with a '\0' behind it that C
\* functions can stop at (bstrlib.c:99-1895, every function that writes).  After a
\* call that went outside of the block, or took stale bytes, nothing is promised:
\* which calls do is OnlyKnownFaults.
Terminated == Valid => /\ str.slen \in 0..(Size(str.m) - 1)
                       /\ str.m.at[str.slen + 1] = Nul

\* Whatever the lengths, the positions and the memory that is left, and whatever
\* part of the text a source is (a bstring, a block or a C string in the string
\* itself), no function goes outside of the block or takes bytes from a block that
\* was replaced, but these: bassign, bassignmidstr and breplace ask balloc for no
\* room for the `\0', and there is none when only the smallest block was to be had
\* (bstrlib.c:125) or the next power of two is no int (bstrlib.c:90); bdelete adds
\* pos and len without a test (bstrlib.c:976); bconcat makes room for a text of
\* INT_MAX characters only if that and its `\0' are no more than an int can say
\* (bstrlib.c:328); bcatblk, and bcatcstr through it, copies a block in the string
\* after balloc replaced it (bstrlib.c:399-401); bcatcstr overwrites the `\0' of a
\* C string that ends where the string does, and runs on (bstrlib.c:374-385);
\* bfindreplace keeps a replacement that lies in the string before pos across
\* balloc (bstrlib.c:1574).
OnlyKnownFaults ==
  call.bad # {} =>
    LET c == call.what IN
    \/ /\ call.bad = {"outside"}
       /\ call.memory = "tight" \/ 2 * Size(str.m) > MaxInt
       /\ c.op \in {"bassign", "bassignmidstr", "breplace"}
    \/ c.op = "bdelete" /\ c.pos + c.len > MaxInt
    \/ c.op = "bconcat" /\ str.slen = MaxInt
    \/ call.bad = {"stale"} /\ c.op \in {"bcatblk", "bcatcstr"} /\ c.own
    \/ call.bad = {"outside"} /\ c.op = "bcatcstr" /\ c.own /\ CString(c.text) = c.text
    \/ call.bad = {"stale"} /\ c.op \in {"bfindreplace", "bfindreplacecaseless"} /\ c.pos > 0

NoText == <<Junk>>
Promised == INSTANCE Texts WITH text <- IF str = None \/ Broken THEN NoText ELSE Text(str)

\* Every call gives the text that its comment describes, for sources that are
\* parts of the string itself as well, but for bassigngets: its comment says that
\* the characters are concatenated to the end of the string (bstrlib.c:1802), the
\* code assigns them (bstrlib.c:1813-1836), and Texts!Given says so.  A call that is
\* refused leaves the text.  Of calls that OnlyKnownFaults names nothing is said.
ImplementsTexts == Promised!Spec

\* The searches return the first match from pos on, or the last one up to pos, of
\* the strings that the memory holds, for a pattern that lies in the string as
\* well; the loop of binstr, which skips characters in the middle of a match, too
\* (bstrlib.c:1023-1391).  bninchr and bninchrr find nothing for an empty set,
\* though every character is one that is not in it: the comment (bstrlib.c:1362)
\* does not say so, the code does (buildCharField, bstrlib.c:1298).
SearchesFind ==
  (Valid /\ call = Idle) =>
    LET t == Text(str)
        Match(u, caseless) == {i \in 0..Len(t) : Promised!Stands(t, u, i, caseless)}
        First(S, pos) == IF pos \in 0..Len(t) THEN Least({i \in S : i >= pos}) ELSE ERR
        Last(S, pos) == IF pos \in 0..Len(t) THEN Greatest({i \in S : i <= pos}) ELSE ERR
        OneOf(u) == {i \in Positions(t) : u # <<>> /\ At(t, i) \in buildCharField(u)}
        NoneOf(u) == {i \in Positions(t) : u # <<>> /\ At(t, i) \notin buildCharField(u)}
        Agree(u, pos, alias) ==
          /\ binstr(t, pos, u, alias) = First(Match(u, FALSE), pos)
          /\ binstrr(t, pos, u, alias) = Last(Match(u, FALSE), pos)
          /\ binstrcaseless(t, pos, u, alias) = First(Match(u, TRUE), pos)
          /\ binstrrcaseless(t, pos, u, alias) = Last(Match(u, TRUE), pos)
          /\ binchr(t, pos, u) = First(OneOf(u), pos)
          /\ binchrr(t, pos, u) = Last(OneOf(u), pos)
          /\ bninchr(t, pos, u) = First(NoneOf(u), pos)
          /\ bninchrr(t, pos, u) = Last(NoneOf(u), pos)
    IN  \A pos \in -1..(Len(t) + 1) :
          /\ \A u \in Words : Agree(u, pos, FALSE)
          /\ \A n \in 0..Len(t) : Agree(SubSeq(t, 1, n), pos, TRUE)

Sign(i) == IF i < 0 THEN -1 ELSE IF i > 0 THEN 1 ELSE 0
Folded(t) == [k \in DOMAIN t |-> Lower(t[k])]
Cut1(t, n) == SubSeq(t, 1, IF n < Len(t) THEN n ELSE Len(t))

\* The comparisons agree with each other: equal is equal for all of them, the
\* order is antisymmetric, a comparison of n characters is that of the strings cut
\* to n, and C strings compare as bstrings do where there is no `\0' in them
\* (bstrlib.c:600-715, 795-934).
ComparisonsAgree ==
  (Valid /\ call = Idle) =>
    LET t == Text(str) IN
    \A u \in Words \cup {t} :
      LET same == t = u
          NoNul(v) == CString(v) = v
      IN  /\ (biseq(t, u, same) = 1) = same
          /\ (biseqcaseless(t, u, same) = 1) = (Folded(t) = Folded(u))
          /\ (biseqcstr(t, u) = 1) = (t = CString(u))
          /\ (biseqcstrcaseless(t, u) = 1) = (Folded(t) = Folded(CString(u)))
          /\ (bisstemeqblk(t, u, FALSE) = 1) = (u = Cut1(t, Len(u)))
          /\ (bisstemeqcaselessblk(t, u, FALSE) = 1) = (Folded(u) = Folded(Cut1(t, Len(u))))
          /\ Sign(bstrcmp(t, u, FALSE)) = -Sign(bstrcmp(u, t, FALSE))
          /\ Sign(bstricmp(t, u, FALSE)) = -Sign(bstricmp(u, t, FALSE))
          /\ same => bstrcmp(t, u, TRUE) = 0 /\ bstricmp(t, u, TRUE) = 0
          /\ NoNul(t) /\ NoNul(u) => /\ (bstrcmp(t, u, FALSE) = 0) = same
                                     /\ (bstricmp(t, u, FALSE) = 0) = (Folded(t) = Folded(u))
          /\ (biseqcstr(t, bstr2cstr(str, Space)) = 1) = NoNul(t)
          /\ \A n \in 0..(MaxLen + 1) :
               LET a == Cut1(t, n)
                   b == Cut1(u, n)
               IN  /\ Sign(bstrncmp(t, u, n, FALSE)) = Sign(bstrcmp(a, b, FALSE))
                   /\ (bstrnicmp(t, u, n, FALSE) = 0) = (bstricmp(a, b, FALSE) = 0)
                   /\ same => bstrncmp(t, u, n, TRUE) = 0 /\ bstrnicmp(t, u, n, TRUE) = 0
=============================================================================
