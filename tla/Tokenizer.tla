----------------------------- MODULE Tokenizer -----------------------------
(***************************************************************************)
(* The function tokenize of pyvalanche.py.  A text is a sequence of        *)
(* characters; a token is its kind and the first and the last position of  *)
(* its characters.  A step is one turn of one of the loops.                *)
(***************************************************************************)
EXTENDS Integers, Sequences

Blanks == {"space", "newline"}
Separators == {"(", ")", ",", ";"}
Characters == Blanks \cup Separators \cup {"#", "quote", "backslash", "a"}

VARIABLES string,   \* the text
          pos,      \* the characters before this position were read
          begin,    \* where the token that is read begins
          loop,     \* the loop that runs: "tokens", "comment", "string", "word";
                    \* "end", or the exception that ended it; "idle" without a text
          yielded   \* the tokens

tokenizer == <<string, pos, begin, loop, yielded>>

Here == string[pos]
PastEnd == pos > Len(string)

Yield(kind, last) == yielded' = Append(yielded, [kind |-> kind, first |-> begin, last |-> last])

BeginTokenize(text) == /\ string = text
                       /\ pos = 1
                       /\ begin = 1
                       /\ loop = "tokens"
                       /\ yielded = <<>>

NothingToTokenize == string = <<>> /\ pos = 1 /\ begin = 1 /\ loop = "idle" /\ yielded = <<>>

\* The loop goes on after n characters.
Read(n, inside) == /\ pos' = pos + n
                   /\ loop' = inside
                   /\ begin' = IF inside = "tokens" THEN pos + n ELSE begin
                   /\ UNCHANGED string

At(inside) == loop = inside /\ ~PastEnd

KindOf(c) == CASE c = "(" -> "LPAREN"
               [] c = ")" -> "RPAREN"
               [] c = "," -> "COMMA"
               [] c = ";" -> "IDENTIFIER"

Separator == /\ At("tokens")
             /\ Here \in Separators
             /\ Yield(KindOf(Here), pos)
             /\ Read(1, "tokens")

Blank == /\ At("tokens")
         /\ Here \in Blanks
         /\ Read(1, "tokens")
         /\ UNCHANGED yielded

\* Mutants: a comment does not end with its line; its end is not looked for
\* beyond the text.
CommentToTheEnd == /\ At("comment")
                   /\ Read(1, "comment")
                   /\ UNCHANGED yielded

CommentStays == /\ At("comment")
                /\ IF Here = "newline" THEN Read(0, "tokens") ELSE Read(0, "comment")
                /\ UNCHANGED yielded

Comment == /\ At("comment")
           /\ IF Here = "newline" THEN Read(0, "tokens") ELSE Read(1, "comment")
           /\ UNCHANGED yielded

BeginComment == /\ At("tokens")
                /\ Here = "#"
                /\ Read(0, "comment")
                /\ UNCHANGED yielded

BeginString == /\ At("tokens")
               /\ Here = "quote"
               /\ Read(1, "string")
               /\ UNCHANGED yielded

\* The decoder of escapes is given the backslash alone and raises; behind the
\* last character there is nothing to index.
TokenizeRaises(exception) == loop' = exception /\ UNCHANGED <<string, pos, begin, yielded>>

StringCharacter == /\ loop = "string"
                   /\ IF PastEnd THEN TokenizeRaises("IndexError")
                      ELSE IF Here = "backslash" THEN TokenizeRaises("ValueError")
                      ELSE IF Here = "quote"
                      THEN Yield("IDENTIFIER", pos) /\ Read(1, "tokens")
                      ELSE UNCHANGED yielded /\ Read(1, "string")

BeginWord == /\ At("tokens")
             /\ Here \notin Separators \cup Blanks \cup {"#", "quote"}
             /\ Read(0, "word")
             /\ UNCHANGED yielded

\* Mutant: a word ends at a blank only.
WordToBlank == /\ loop = "word"
               /\ IF PastEnd \/ Here \in Blanks
                  THEN Yield("IDENTIFIER", pos - 1) /\ Read(0, "tokens")
                  ELSE UNCHANGED yielded /\ Read(1, "word")

\* A comment or a string does not begin in the middle of a word.
Word == /\ loop = "word"
        /\ IF PastEnd \/ Here \in Separators \cup Blanks
           THEN Yield("IDENTIFIER", pos - 1) /\ Read(0, "tokens")
           ELSE UNCHANGED yielded /\ Read(1, "word")

End == /\ loop \in {"tokens", "comment"}
       /\ PastEnd
       /\ yielded' = Append(yielded, [kind |-> "END", first |-> pos, last |-> pos - 1])
       /\ loop' = "end"
       /\ UNCHANGED <<string, pos, begin>>

Tokenize == \/ Separator \/ Blank \/ BeginComment \/ Comment
            \/ BeginString \/ StringCharacter \/ BeginWord \/ Word \/ End

\* The tokenizer by itself, on any text.
TokenizerSpec == (\E text \in Seq(Characters) : BeginTokenize(text)) /\ [][Tokenize]_tokenizer

-----------------------------------------------------------------------------
(***************************************************************************)
(* Properties.                                                             *)
(***************************************************************************)

Spans(k) == {t \in DOMAIN yielded : yielded[t].first <= k /\ k <= yielded[t].last}

\* A comment began at j, before k, and was not over at k.
InComment(k) == \E j \in 1..k : /\ string[j] = "#"
                                /\ Spans(j) = {}
                                /\ \A i \in j..k : string[i] # "newline"

(* Every character of the text is in one token, but for blanks and         *)
(* comments: nothing that was written is dropped, or read twice, wherever  *)
(* comments, strings and words end.                                        *)
OnlyBlanksDropped ==
  loop = "end" =>
    \A k \in DOMAIN string :
      /\ Spans(k) = {} => string[k] \in Blanks \/ InComment(k)
      /\ \A t, u \in Spans(k) : t = u

(* A token is a separator, a word without separators, or a string that     *)
(* ends at its first quote, whatever separators, blanks or comment signs   *)
(* are in it.                                                              *)
TokensAreLexemes ==
  \A t \in DOMAIN yielded :
    LET f == yielded[t].first
        l == yielded[t].last
        inner == {string[k] : k \in f + 1..l - 1}
    IN  yielded[t].kind # "END" =>
          \/ f = l /\ string[f] \in Separators
          \/ string[f] \notin {"quote", "#"} /\ \A k \in f..l : string[k] \notin Separators \cup Blanks
          \/ f < l /\ string[f] = "quote" /\ string[l] = "quote" /\ "quote" \notin inner
=============================================================================
