---------------------------- MODULE MCToolchain ----------------------------
(***************************************************************************)
(* Toolchain for TLC: every text of up to MaxTokens tokens of one          *)
(* character; every short text with blanks, comments and strings; texts of *)
(* programs of two messages with up to two arguments of up to two          *)
(* messages, or one message with three arguments; syntax trees of three    *)
(* levels; and every file of up to MaxBytes bytes after the signature.     *)
(***************************************************************************)
EXTENDS Toolchain

CONSTANTS MaxTokens, MaxLength, MaxBytes

UpTo(S, lo, hi) == UNION {[1..n -> S] : n \in lo..hi}

-----------------------------------------------------------------------------
\* Texts.

Inner == AvalanchesOver({<<97>>}, {}, 2)

Programs == AvalanchesOver({<<97>>, <<59>>}, Inner, 2)
            \cup {<<m>> : m \in MessagesOver({<<97>>}, {<<[name |-> <<59>>, args |-> <<>>]>>}, 3)}

CharacterOf(t) == CASE t.kind = "IDENTIFIER" -> IF t.value = <<97>> THEN "a" ELSE ";"
                    [] t.kind = "LPAREN" -> "("
                    [] t.kind = "RPAREN" -> ")"
                    [] t.kind = "COMMA" -> ","

\* With a blank between words.
RECURSIVE TextOf(_)
TextOf(ts) == IF ts = <<>> THEN <<>>
              ELSE <<CharacterOf(Head(ts)), "space">> \o TextOf(Tail(ts))

MCTexts == {TextOf(Written(av)) : av \in Programs}
           \cup UpTo({"a", "(", ")", ",", ";"}, 0, MaxTokens)
           \cup UpTo(Characters \ {")", ",", ";"}, 0, MaxLength)
           \cup [1..MaxLength + 1 -> {"newline", "#", "quote", "a"}]

-----------------------------------------------------------------------------
\* Syntax trees: blocks of up to three expressions of two levels, and single
\* expressions of three.

Node(kind, left, nodes) ==
  [kind |-> kind, name |-> <<97>>, slot |-> <<115>>, left |-> left, nodes |-> nodes]

Leaf(c) == [Node("String", <<>>, <<>>) EXCEPT !.name = <<c>>]
Leaves == {Leaf(120), Leaf(121)}

Block(nodes) == Node("Block", <<>>, nodes)
Single(S) == {Block(<<e>>) : e \in S}

Lefts == UpTo({Leaf(120)}, 0, 1)

Small == Leaves
         \cup {Node("Message", l, a) : l \in Lefts, a \in UpTo(Single(Leaves), 0, 2)}
         \cup {Node("BinaryOp", <<l>>, <<r>>) : l, r \in Leaves}
         \cup {Node("SetSlot", l, <<v>>) : l \in Lefts, v \in Leaves}
         \cup {Node("Arrow", <<>>, a) : a \in UpTo(Single(Leaves), 1, 2)}
         \cup {Block(m) : m \in UpTo(Leaves, 1, 2)}

Arguments == Single(Small) \cup {Block(<<e, f>>) : e \in Small, f \in Leaves}

Large == {Node("Message", l, <<a>>) : l \in UpTo(Small, 0, 1), a \in Arguments}
         \cup {Node("BinaryOp", <<l>>, <<r>>) : l, r \in Small}
         \cup {Node("UpdateSlot", l, <<v>>) : l \in UpTo(Small, 0, 1), v \in Small}
         \cup {Node("Arrow", <<>>, <<a, Block(<<Leaf(120)>>)>>) : a \in Arguments}
         \cup {Node("Message", <<>>, <<a, b, Block(<<c>>)>>) :
                 a \in Single(Small), b \in Single(Leaves), c \in Leaves}

MCTrees == {Block(m) : m \in UpTo(Small, 1, 2)}
           \cup {Block(<<e>>) : e \in Large}
           \cup {Block(<<e, f, g>>) : e \in {Leaf(120)}, f, g \in Small}

-----------------------------------------------------------------------------
\* Files.  The bytes are the two opcodes, which are counts of arguments, too,
\* 0 and a letter; "sk", 0, 2 is the signature.

MCSignature == <<115, 107, 0, 2>>

MCFiles ==
  {MCSignature \o s : s \in UpTo({0, 1, 2, 97}, 0, MaxBytes)}
  \cup {SubSeq(MCSignature, 1, n) : n \in 0..3}
  \cup {<<115, 107, 0, 1, 1, 97, 0, 0, 2>>}
=============================================================================
