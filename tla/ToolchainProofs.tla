-------------------------- MODULE ToolchainProofs ---------------------------
(***************************************************************************)
(* The two ends of the toolchain: what tokenize makes of any text, and     *)
(* what the decoder of the virtual machine makes of any bytes.             *)
(***************************************************************************)
EXTENDS Tokenizer, Bytecode, SequenceTheorems, TLAPS

-----------------------------------------------------------------------------
(***************************************************************************)
(* The tokenizer: the inductive invariant.                                 *)
(***************************************************************************)
Token == [kind : {"LPAREN", "RPAREN", "COMMA", "IDENTIFIER", "END"}, first : Nat, last : Nat]

Loops == {"tokens", "comment", "string", "word", "end", "IndexError", "ValueError"}

TokenizerTypes == /\ string \in Seq(Characters)
                  /\ pos \in 1..Len(string) + 1
                  /\ begin \in 1..pos
                  /\ loop \in Loops
                  /\ yielded \in Seq(Token)

\* What was read since begin is the beginning of what the loop reads.
Begun ==
  /\ loop = "tokens" => begin = pos
  /\ loop = "comment" => /\ begin <= Len(string) /\ string[begin] = "#"
                         /\ \A k \in begin..pos - 1 : string[k] # "newline"
  /\ loop = "string" => /\ begin < pos /\ string[begin] = "quote"
                        /\ \A k \in begin + 1..pos - 1 : string[k] # "quote"
  /\ loop = "word" => /\ begin <= Len(string)
                      /\ string[begin] \notin Separators \cup Blanks \cup {"quote", "#"}
                      /\ \A k \in begin..pos - 1 : string[k] \notin Separators \cup Blanks

\* The tokens are behind one another and before begin; END has no characters.
Behind == \A t \in DOMAIN yielded :
            IF yielded[t].kind = "END" THEN yielded[t].last < yielded[t].first
            ELSE yielded[t].last < begin

\* Up to position n nothing is lost, or in two tokens.
Accounted(n) == \A k \in 1..n : /\ Spans(k) = {} => string[k] \in Blanks \/ InComment(k)
                                /\ \A t, u \in Spans(k) : t = u

TokenizerInv == /\ TokenizerTypes
                /\ Begun
                /\ Behind
                /\ Accounted(IF loop = "end" THEN Len(string) ELSE begin - 1)
                /\ TokensAreLexemes

(* What Append does to a sequence.                                         *)
LEMMA Appended ==
  ASSUME NEW S, NEW s \in Seq(S), NEW x \in S
  PROVE  /\ Append(s, x) \in Seq(S)
         /\ Len(Append(s, x)) = Len(s) + 1
         /\ Append(s, x)[Len(s) + 1] = x
         /\ \A k \in 1..Len(s) : Append(s, x)[k] = s[k]
BY AppendProperties

(* The characters of a text.                                               *)
LEMMA HereFacts ==
  ASSUME TokenizerTypes
  PROVE  /\ Len(string) \in Nat /\ pos \in Nat /\ begin \in Nat
         /\ \A k \in 1..Len(string) : string[k] \in Characters
         /\ DOMAIN string = 1..Len(string) /\ DOMAIN yielded = 1..Len(yielded)
         /\ Len(yielded) \in Nat
         /\ \A t \in 1..Len(yielded) : yielded[t] \in Token
         /\ ~ PastEnd => pos <= Len(string)
         /\ PastEnd => pos = Len(string) + 1
<1>1. /\ string \in Seq(Characters) /\ yielded \in Seq(Token)
      /\ pos \in 1..Len(string) + 1 /\ begin \in 1..pos
  BY DEF TokenizerTypes
<1>2. Len(string) \in Nat /\ Len(yielded) \in Nat
  BY <1>1
<1>3. /\ \A k \in 1..Len(string) : string[k] \in Characters
      /\ \A t \in 1..Len(yielded) : yielded[t] \in Token
  BY <1>1, ElementOfSeq
<1> QED
  BY <1>1, <1>2, <1>3 DEF PastEnd

(* A token is added, from begin to last, and the loop goes on behind it.   *)
LEMMA YieldStep ==
  ASSUME TokenizerInv, loop # "end", string' = string,
         NEW kind \in {"LPAREN", "RPAREN", "COMMA", "IDENTIFIER"}, NEW last \in Nat,
         begin <= last, last <= Len(string), Yield(kind, last),
         pos' = last + 1, begin' = pos', loop' = "tokens",
         \/ begin = last /\ string[begin] \in Separators
         \/ /\ string[begin] \notin {"quote", "#"}
            /\ \A k \in begin..last : string[k] \notin Separators \cup Blanks
         \/ /\ begin < last /\ string[begin] = "quote" /\ string[last] = "quote"
            /\ \A k \in begin + 1..last - 1 : string[k] # "quote"
  PROVE  TokenizerInv'
<1> DEFINE tok == [kind |-> kind, first |-> begin, last |-> last]
           n == Len(yielded)
<1>1. TokenizerTypes /\ Behind /\ Accounted(begin - 1) /\ TokensAreLexemes
  BY DEF TokenizerInv
<1>2. /\ begin \in Nat /\ begin >= 1 /\ Len(string) \in Nat /\ n \in Nat
      /\ DOMAIN yielded = 1..n
  BY <1>1, HereFacts DEF TokenizerTypes
<1>3. tok \in Token
  BY <1>2 DEF Token
<1>4. /\ yielded' \in Seq(Token)
      /\ DOMAIN yielded' = 1..n + 1
      /\ yielded'[n + 1] = tok
      /\ \A t \in 1..n : yielded'[t] = yielded[t]
  <2>1. yielded' = Append(yielded, tok) /\ yielded \in Seq(Token)
    BY <1>1 DEF Yield, TokenizerTypes
  <2>2. yielded' \in Seq(Token) /\ Len(yielded') = n + 1
    BY <2>1, <1>3, Appended
  <2> QED
    BY <2>1, <2>2, <1>3, Appended
<1> HIDE DEF tok
<1>5. tok.kind = kind /\ tok.first = begin /\ tok.last = last
  BY DEF tok
<1>6. TokenizerTypes'
  BY <1>1, <1>2, <1>4 DEF TokenizerTypes, Loops
<1>7. Begun'
  BY DEF Begun
<1>8. Behind'
  <2>1. ASSUME NEW t \in 1..n
        PROVE  IF yielded[t].kind = "END" THEN yielded[t].last < yielded[t].first
               ELSE yielded[t].last < last + 1
    <3>1. yielded[t] \in Token
      BY <1>1, HereFacts
    <3> QED
      BY <3>1, <1>1, <1>2 DEF Behind, Token
  <2>2. begin' = last + 1
    OBVIOUS
  <2>3. tok.last < last + 1 /\ tok.kind # "END"
    BY <1>5
  <2>4. \A t \in 1..n + 1 : t \in 1..n \/ t = n + 1
    BY <1>2
  <2> QED
    BY <2>1, <2>2, <2>3, <2>4, <1>4 DEF Behind
<1>9. ASSUME NEW k \in 1..begin - 1
      PROVE  Spans(k)' = Spans(k)
  BY <1>2, <1>4, <1>5 DEF Spans
<1>10. ASSUME NEW k \in begin..last
       PROVE  Spans(k)' = {n + 1}
  <2>1. ASSUME NEW t \in 1..n
        PROVE  ~ (yielded[t].first <= k /\ k <= yielded[t].last)
    <3>1. yielded[t] \in Token
      BY <1>1, HereFacts
    <3> QED
      BY <3>1, <1>1, <1>2 DEF Behind, Token
  <2>2. tok.first <= k /\ k <= tok.last
    BY <1>5
  <2> QED
    BY <2>1, <2>2, <1>2, <1>4 DEF Spans
<1>11. Accounted(last)'
  <2> SUFFICES ASSUME NEW k \in 1..last
               PROVE  /\ Spans(k)' = {} => string[k] \in Blanks \/ InComment(k)'
                      /\ \A t, u \in Spans(k)' : t = u
    BY DEF Accounted
  <2>1. CASE k \in 1..begin - 1
    <3>1. Spans(k)' = Spans(k)
      BY <2>1, <1>9
    <3>2. InComment(k) => InComment(k)'
      <4>1. \A i \in 1..k : i \in 1..begin - 1
        BY <2>1, <1>2
      <4> QED
        BY <4>1, <1>9 DEF InComment
    <3> QED
      BY <2>1, <3>1, <3>2, <1>1 DEF Accounted
  <2>2. CASE k \in begin..last
    BY <2>2, <1>10
  <2> QED
    BY <2>1, <2>2, <1>2
<1>12. TokensAreLexemes'
  <2> SUFFICES ASSUME NEW t \in 1..n + 1, yielded'[t].kind # "END"
               PROVE  LET f == yielded'[t].first
                          l == yielded'[t].last
                          inner == {string[k] : k \in f + 1..l - 1}
                      IN  \/ f = l /\ string[f] \in Separators
                          \/ /\ string[f] \notin {"quote", "#"}
                             /\ \A k \in f..l : string[k] \notin Separators \cup Blanks
                          \/ f < l /\ string[f] = "quote" /\ string[l] = "quote" /\ "quote" \notin inner
    BY <1>4 DEF TokensAreLexemes
  <2>1. CASE t \in 1..n
    BY <2>1, <1>1, <1>2, <1>4 DEF TokensAreLexemes
  <2>2. CASE t = n + 1
    BY <2>2, <1>4, <1>5
  <2> QED
    BY <2>1, <2>2, <1>2
<1>13. Accounted(IF loop = "end" THEN Len(string) ELSE begin - 1)'
  <2>1. (begin - 1)' = last
    OBVIOUS
  <2> QED
    BY <2>1, <1>11
<1> QED
  BY <1>6, <1>7, <1>8, <1>12, <1>13 DEF TokenizerInv

\* The positions from begin up to n, without n, are blank, or in a comment.
Passed(n) == \A k \in begin..n - 1 :
               \/ string[k] \in Blanks
               \/ string[begin] = "#" /\ \A i \in begin..k : string[i] # "newline"

(* What was passed is accounted for.                                       *)
LEMMA PassedIsAccounted ==
  ASSUME TokenizerInv, loop # "end", NEW n \in Nat, begin <= n, Passed(n)
  PROVE  Accounted(n - 1)
<1>1. TokenizerTypes /\ Behind /\ Accounted(begin - 1)
  BY DEF TokenizerInv
<1>2. begin \in Nat /\ begin >= 1
  BY <1>1, HereFacts DEF TokenizerTypes
<1>3. \A t \in DOMAIN yielded : yielded[t] \in Token
  BY <1>1, HereFacts
<1>4. ASSUME NEW k \in begin..n - 1
      PROVE  Spans(k) = {}
  <2>1. ASSUME NEW t \in DOMAIN yielded
        PROVE  ~ (yielded[t].first <= k /\ k <= yielded[t].last)
    BY <1>1, <1>2, <1>3 DEF Behind, Token
  <2> QED
    BY <2>1 DEF Spans
<1> SUFFICES ASSUME NEW k \in 1..n - 1
             PROVE  /\ Spans(k) = {} => string[k] \in Blanks \/ InComment(k)
                    /\ \A t, u \in Spans(k) : t = u
  BY DEF Accounted
<1>5. CASE k \in 1..begin - 1
  BY <1>5, <1>1 DEF Accounted
<1>6. CASE k \in begin..n - 1
  <2>1. CASE string[k] \in Blanks
    BY <2>1, <1>4, <1>6
  <2>2. CASE string[begin] = "#" /\ \A i \in begin..k : string[i] # "newline"
    <3>1. begin \in 1..k /\ begin \in begin..n - 1
      BY <1>2, <1>6
    <3>2. Spans(begin) = {}
      BY <3>1, <1>4
    <3>3. InComment(k)
      BY <3>1, <3>2, <2>2 DEF InComment
    <3> QED
      BY <3>3, <1>4, <1>6
  <2> QED
    BY <2>1, <2>2, <1>6 DEF Passed
<1> QED
  BY <1>2, <1>5, <1>6

(* No token is added, and the loop goes on; what lies between begin and    *)
(* its new value is blank, or in a comment.                                *)
LEMMA ReadStep ==
  ASSUME TokenizerInv, loop # "end", loop' # "end", UNCHANGED <<string, yielded>>,
         pos' \in 1..Len(string) + 1, begin' \in begin..pos', loop' \in Loops, Begun',
         Passed(begin')
  PROVE  TokenizerInv'
<1>1. TokenizerTypes /\ Behind /\ TokensAreLexemes
  BY DEF TokenizerInv
<1>2. /\ begin \in Nat /\ begin >= 1 /\ begin' \in Nat /\ begin <= begin' /\ Len(string) \in Nat
  BY <1>1, HereFacts DEF TokenizerTypes
<1>3. TokenizerTypes'
  BY <1>1, <1>2 DEF TokenizerTypes
<1>4. \A t \in DOMAIN yielded : yielded[t] \in Token
  BY <1>1, HereFacts
<1>5. Behind'
  BY <1>1, <1>2, <1>4 DEF Behind, Token
<1>6. \A k : Spans(k)' = Spans(k) /\ InComment(k)' = InComment(k)
  BY DEF Spans, InComment
<1>7. PICK n \in Nat : n = begin'
  BY <1>2
<1>8. Accounted(n - 1)
  BY <1>2, <1>7, PassedIsAccounted
<1>9. Accounted(begin - 1)'
  BY <1>6, <1>7, <1>8 DEF Accounted
<1>10. TokensAreLexemes'
  BY <1>1 DEF TokensAreLexemes
<1> QED
  BY <1>3, <1>5, <1>9, <1>10 DEF TokenizerInv

(* The end of the text.                                                    *)
LEMMA EndStep ==
  ASSUME TokenizerInv, End
  PROVE  TokenizerInv'
<1> DEFINE tok == [kind |-> "END", first |-> pos, last |-> pos - 1]
           n == Len(yielded)
<1>1. TokenizerTypes /\ Behind /\ Begun /\ Accounted(begin - 1) /\ TokensAreLexemes
  BY DEF TokenizerInv, End
<1>2. /\ begin \in Nat /\ begin >= 1 /\ Len(string) \in Nat /\ n \in Nat
      /\ pos = Len(string) + 1 /\ pos \in Nat /\ begin <= pos
      /\ DOMAIN yielded = 1..n /\ UNCHANGED <<string, pos, begin>>
      /\ loop \in {"tokens", "comment"} /\ loop' = "end"
  BY <1>1, HereFacts DEF TokenizerTypes, End
<1>3. tok \in Token
  BY <1>2 DEF Token
<1>4. /\ yielded' \in Seq(Token)
      /\ DOMAIN yielded' = 1..n + 1
      /\ yielded'[n + 1] = tok
      /\ \A t \in 1..n : yielded'[t] = yielded[t]
  <2>1. yielded' = Append(yielded, tok) /\ yielded \in Seq(Token)
    BY <1>1 DEF End, TokenizerTypes
  <2>2. yielded' \in Seq(Token) /\ Len(yielded') = n + 1
    BY <2>1, <1>3, Appended
  <2> QED
    BY <2>1, <2>2, <1>3, Appended
<1>5. tok.kind = "END" /\ tok.first = pos /\ tok.last = pos - 1
  OBVIOUS
<1> HIDE DEF tok
<1>6. TokenizerTypes' /\ Begun'
  BY <1>1, <1>2, <1>4 DEF TokenizerTypes, Loops, Begun
<1>7. \A t \in 1..n + 1 : t \in 1..n \/ t = n + 1
  BY <1>2
<1>8. Behind'
  <2>1. tok.last < tok.first
    BY <1>2, <1>5
  <2> QED
    BY <2>1, <1>1, <1>2, <1>4, <1>5, <1>7 DEF Behind
<1>9. \A k \in 1..Len(string) : Spans(k)' = Spans(k)
  <2>1. \A k \in 1..Len(string) : ~ (tok.first <= k /\ k <= tok.last)
    BY <1>2, <1>5
  <2> QED
    BY <2>1, <1>2, <1>4, <1>7 DEF Spans
<1>10. Accounted(Len(string))
  <2>1. Passed(pos)
    BY <1>1, <1>2 DEF Passed, Begun
  <2>2. Accounted(pos - 1)
    BY <2>1, <1>2, PassedIsAccounted
  <2>3. pos - 1 = Len(string)
    BY <1>2
  <2> QED
    BY <2>2, <2>3
<1>11. \A k \in 1..Len(string) : InComment(k) => InComment(k)'
  <2>1. \A k \in 1..Len(string) : \A i \in 1..k : i \in 1..Len(string)
    BY <1>2
  <2> QED
    BY <2>1, <1>2, <1>9 DEF InComment
<1>12. Accounted(IF loop = "end" THEN Len(string) ELSE begin - 1)'
  BY <1>2, <1>9, <1>10, <1>11 DEF Accounted
<1>13. TokensAreLexemes'
  BY <1>1, <1>2, <1>4, <1>5, <1>7 DEF TokensAreLexemes
<1> QED
  BY <1>6, <1>8, <1>12, <1>13 DEF TokenizerInv

(* Every turn of a loop of tokenize keeps the invariant.                   *)
LEMMA TokenizeStep ==
  ASSUME TokenizerInv, Tokenize
  PROVE  TokenizerInv'
<1>1. TokenizerTypes /\ Begun
  BY DEF TokenizerInv
<1>2. /\ Len(string) \in Nat /\ pos \in Nat /\ begin \in Nat /\ begin \in 1..pos
      /\ pos \in 1..Len(string) + 1
      /\ \A inside : At(inside) => pos <= Len(string) /\ Here \in Characters
  BY <1>1, HereFacts DEF TokenizerTypes, At, Here
<1>3. CASE Separator
  <2>1. /\ loop = "tokens" /\ begin = pos /\ pos <= Len(string)
        /\ string[pos] \in Separators /\ Yield(KindOf(Here), pos)
        /\ string' = string /\ pos' = pos + 1 /\ begin' = pos' /\ loop' = "tokens"
    BY <1>1, <1>2, <1>3 DEF Separator, Read, At, Begun, Here
  <2>2. KindOf(Here) \in {"LPAREN", "RPAREN", "COMMA", "IDENTIFIER"}
    BY <2>1 DEF KindOf, Here, Separators
  <2> QED
    BY <2>1, <2>2, <1>2, YieldStep
<1>4. CASE Blank
  <2>1. /\ loop = "tokens" /\ begin = pos /\ pos <= Len(string)
        /\ string[pos] \in Blanks
        /\ UNCHANGED <<string, yielded>> /\ pos' = pos + 1 /\ begin' = pos + 1 /\ loop' = "tokens"
    BY <1>1, <1>2, <1>4 DEF Blank, Read, At, Begun, Here
  <2>2. Passed(pos + 1) /\ Begun'
    BY <2>1, <1>2 DEF Passed, Begun
  <2>3. pos' \in 1..Len(string) + 1 /\ begin' \in begin..pos'
    BY <2>1, <1>2
  <2> QED
    BY <2>1, <2>2, <2>3, ReadStep DEF Loops
<1>5. CASE BeginComment
  <2>1. /\ loop = "tokens" /\ begin = pos /\ pos <= Len(string)
        /\ string[pos] = "#"
        /\ UNCHANGED <<string, yielded>> /\ pos' = pos /\ begin' = begin /\ loop' = "comment"
    BY <1>1, <1>2, <1>5 DEF BeginComment, Read, At, Begun, Here
  <2>2. Passed(begin) /\ Begun'
    BY <2>1, <1>2 DEF Passed, Begun
  <2>3. pos' \in 1..Len(string) + 1 /\ begin' \in begin..pos'
    BY <2>1, <1>2
  <2> QED
    BY <2>1, <2>2, <2>3, ReadStep DEF Loops
<1>6. CASE Comment
  <2>1. /\ loop = "comment" /\ pos <= Len(string) /\ UNCHANGED <<string, yielded>>
        /\ begin <= Len(string) /\ string[begin] = "#"
        /\ \A k \in begin..pos - 1 : string[k] # "newline"
    BY <1>1, <1>2, <1>6 DEF Comment, Read, At, Begun
  <2>2. CASE string[pos] = "newline"
    <3>1. pos' = pos /\ begin' = pos /\ loop' = "tokens"
      BY <1>2, <1>6, <2>2 DEF Comment, Read, Here
    <3>2. Passed(pos) /\ Begun'
      BY <3>1, <2>1, <1>2 DEF Passed, Begun
    <3>3. pos' \in 1..Len(string) + 1 /\ begin' \in begin..pos'
      BY <3>1, <1>2
    <3> QED
      BY <2>1, <3>1, <3>2, <3>3, ReadStep DEF Loops
  <2>3. CASE string[pos] # "newline"
    <3>1. pos' = pos + 1 /\ begin' = begin /\ loop' = "comment"
      BY <1>2, <1>6, <2>3 DEF Comment, Read, Here
    <3>2. Passed(begin)
      BY <1>2 DEF Passed
    <3>3. \A k \in begin..pos : string[k] # "newline"
      BY <2>1, <2>3, <1>2
    <3>4. Begun'
      BY <3>1, <3>3, <2>1, <1>2 DEF Begun
    <3>5. pos' \in 1..Len(string) + 1 /\ begin' \in begin..pos'
      BY <3>1, <2>1, <1>2
    <3> QED
      BY <2>1, <3>1, <3>2, <3>4, <3>5, ReadStep DEF Loops
  <2> QED
    BY <2>2, <2>3
<1>7. CASE BeginString
  <2>1. /\ loop = "tokens" /\ begin = pos /\ pos <= Len(string)
        /\ string[pos] = "quote"
        /\ UNCHANGED <<string, yielded>> /\ pos' = pos + 1 /\ begin' = begin /\ loop' = "string"
    BY <1>1, <1>2, <1>7 DEF BeginString, Read, At, Begun, Here
  <2>2. Passed(begin) /\ Begun'
    BY <2>1, <1>2 DEF Passed, Begun
  <2>3. pos' \in 1..Len(string) + 1 /\ begin' \in begin..pos'
    BY <2>1, <1>2
  <2> QED
    BY <2>1, <2>2, <2>3, ReadStep DEF Loops
<1>8. CASE StringCharacter
  <2>1. /\ loop = "string" /\ begin < pos /\ string[begin] = "quote"
        /\ \A k \in begin + 1..pos - 1 : string[k] # "quote"
        /\ Passed(begin)
    BY <1>1, <1>2, <1>8 DEF StringCharacter, Begun, Passed
  <2>2. CASE PastEnd \/ Here = "backslash"
    <3>1. PICK e \in {"IndexError", "ValueError"} : TokenizeRaises(e)
      BY <1>8, <2>2 DEF StringCharacter
    <3>2. /\ UNCHANGED <<string, yielded>> /\ pos' = pos /\ begin' = begin
          /\ loop' \in {"IndexError", "ValueError"}
      BY <3>1 DEF TokenizeRaises
    <3>3. Begun'
      BY <3>2 DEF Begun
    <3>4. pos' \in 1..Len(string) + 1 /\ begin' \in begin..pos'
      BY <3>2, <1>2
    <3> QED
      BY <2>1, <3>2, <3>3, <3>4, ReadStep DEF Loops
  <2>3. CASE ~ PastEnd /\ Here = "quote"
    <3>1. /\ Yield("IDENTIFIER", pos) /\ string[pos] = "quote" /\ pos <= Len(string)
          /\ string' = string /\ pos' = pos + 1 /\ begin' = pos' /\ loop' = "tokens"
      BY <1>1, <1>8, <2>3, HereFacts DEF StringCharacter, Read, Here
    <3> QED
      BY <2>1, <3>1, <1>2, YieldStep
  <2>4. CASE ~ PastEnd /\ Here \notin {"quote", "backslash"}
    <3>1. /\ UNCHANGED <<string, yielded>> /\ pos <= Len(string) /\ string[pos] # "quote"
          /\ pos' = pos + 1 /\ begin' = begin /\ loop' = "string"
      BY <1>1, <1>8, <2>4, HereFacts DEF StringCharacter, Read, Here
    <3>2. \A k \in begin + 1..pos : string[k] # "quote"
      BY <2>1, <3>1, <1>2
    <3>3. Begun'
      BY <2>1, <3>1, <3>2, <1>2 DEF Begun
    <3>4. pos' \in 1..Len(string) + 1 /\ begin' \in begin..pos'
      BY <3>1, <1>2
    <3> QED
      BY <2>1, <3>1, <3>3, <3>4, ReadStep DEF Loops
  <2> QED
    BY <2>2, <2>3, <2>4
<1>9. CASE BeginWord
  <2>1. /\ loop = "tokens" /\ begin = pos /\ pos <= Len(string)
        /\ string[pos] \notin Separators \cup Blanks \cup {"#", "quote"}
        /\ UNCHANGED <<string, yielded>> /\ pos' = pos /\ begin' = begin /\ loop' = "word"
    BY <1>1, <1>2, <1>9 DEF BeginWord, Read, At, Begun, Here
  <2>2. Passed(begin) /\ Begun'
    BY <2>1, <1>2 DEF Passed, Begun
  <2>3. pos' \in 1..Len(string) + 1 /\ begin' \in begin..pos'
    BY <2>1, <1>2
  <2> QED
    BY <2>1, <2>2, <2>3, ReadStep DEF Loops
<1>10. CASE Word
  <2>1. /\ loop = "word" /\ begin <= Len(string)
        /\ string[begin] \notin Separators \cup Blanks \cup {"quote", "#"}
        /\ \A k \in begin..pos - 1 : string[k] \notin Separators \cup Blanks
        /\ Passed(begin)
    BY <1>1, <1>2, <1>10 DEF Word, Begun, Passed
  <2>2. CASE PastEnd \/ Here \in Separators \cup Blanks
    <3>1. /\ Yield("IDENTIFIER", pos - 1) /\ string' = string
          /\ pos' = pos /\ begin' = pos /\ loop' = "tokens"
      BY <1>2, <1>10, <2>2 DEF Word, Read
    <3>2. begin <= pos - 1 /\ pos - 1 <= Len(string) /\ pos - 1 \in Nat /\ pos = pos - 1 + 1
      <4>1. pos # begin
        BY <1>1, <2>1, <2>2, HereFacts DEF Here
      <4> QED
        BY <4>1, <1>2
    <3>3. PICK last \in Nat : last = pos - 1
      BY <3>2
    <3>4. pos' = last + 1 /\ begin' = pos' /\ begin <= last /\ last <= Len(string)
      BY <3>1, <3>2, <3>3
    <3>5. Yield("IDENTIFIER", last) /\ \A k \in begin..last : string[k] \notin Separators \cup Blanks
      BY <2>1, <3>1, <3>3
    <3> QED
      BY <2>1, <3>1, <3>4, <3>5, YieldStep
  <2>3. CASE ~ (PastEnd \/ Here \in Separators \cup Blanks)
    <3>1. /\ UNCHANGED <<string, yielded>> /\ pos <= Len(string)
          /\ string[pos] \notin Separators \cup Blanks
          /\ pos' = pos + 1 /\ begin' = begin /\ loop' = "word"
      BY <1>1, <1>10, <2>3, HereFacts DEF Word, Read, Here
    <3>2. \A k \in begin..pos : string[k] \notin Separators \cup Blanks
      BY <2>1, <3>1, <1>2
    <3>3. Begun'
      BY <2>1, <3>1, <3>2, <1>2 DEF Begun
    <3>4. pos' \in 1..Len(string) + 1 /\ begin' \in begin..pos'
      BY <3>1, <1>2
    <3> QED
      BY <2>1, <3>1, <3>3, <3>4, ReadStep DEF Loops
  <2> QED
    BY <2>2, <2>3
<1>11. CASE End
  BY <1>11, EndStep
<1> QED
  BY <1>3, <1>4, <1>5, <1>6, <1>7, <1>8, <1>9, <1>10, <1>11 DEF Tokenize

(* A text that nothing was read of.                                        *)
LEMMA BeginTokenizeStep ==
  ASSUME NEW text \in Seq(Characters), BeginTokenize(text)
  PROVE  TokenizerInv
<1>1. /\ string = text /\ pos = 1 /\ begin = 1 /\ loop = "tokens" /\ yielded = <<>>
      /\ Len(text) \in Nat
  BY DEF BeginTokenize
<1>2. TokenizerTypes
  BY <1>1, EmptySeq DEF TokenizerTypes, Loops
<1>3. Begun /\ Behind /\ TokensAreLexemes
  BY <1>1 DEF Begun, Behind, TokensAreLexemes
<1>4. Accounted(begin - 1)
  BY <1>1 DEF Accounted
<1> QED
  BY <1>1, <1>2, <1>3, <1>4 DEF TokenizerInv

(* The invariant is one of the tokenizer.                                  *)
LEMMA AlwaysTokenizerInv == TokenizerSpec => []TokenizerInv
<1>1. (\E text \in Seq(Characters) : BeginTokenize(text)) => TokenizerInv
  BY BeginTokenizeStep
<1>2. TokenizerInv /\ [Tokenize]_tokenizer => TokenizerInv'
  <2> SUFFICES ASSUME TokenizerInv, [Tokenize]_tokenizer PROVE TokenizerInv'
    OBVIOUS
  <2>1. CASE Tokenize
    BY <2>1, TokenizeStep
  <2>2. CASE UNCHANGED tokenizer
    <3>1. UNCHANGED <<string, pos, begin, loop, yielded>>
      BY <2>2 DEF tokenizer
    <3>2. \A k : Spans(k)' = Spans(k) /\ InComment(k)' = InComment(k)
      BY <3>1 DEF Spans, InComment
    <3>3. TokenizerTypes' /\ Begun' /\ Behind' /\ TokensAreLexemes'
      BY <3>1 DEF TokenizerInv, TokenizerTypes, Begun, Behind, TokensAreLexemes
    <3>4. Accounted(IF loop = "end" THEN Len(string) ELSE begin - 1)'
      BY <3>1, <3>2 DEF TokenizerInv, Accounted
    <3> QED
      BY <3>3, <3>4 DEF TokenizerInv
  <2> QED
    BY <2>1, <2>2
<1> QED
  BY <1>1, <1>2, PTL DEF TokenizerSpec

(* TokensAreLexemes: every token of any text is a separator, a word, or a  *)
(* string that ends at its first quote.                                    *)
THEOREM TokensAreLexemesTheorem == TokenizerSpec => []TokensAreLexemes
<1>1. TokenizerInv => TokensAreLexemes
  BY DEF TokenizerInv
<1> QED
  BY <1>1, AlwaysTokenizerInv, PTL

(* OnlyBlanksDropped: when any text was read to its end, each of its       *)
(* characters is in exactly one token, is blank, or is in a comment.       *)
THEOREM OnlyBlanksDroppedTheorem == TokenizerSpec => []OnlyBlanksDropped
<1>1. TokenizerInv => OnlyBlanksDropped
  BY HereFacts DEF TokenizerInv, OnlyBlanksDropped, Accounted
<1> QED
  BY <1>1, AlwaysTokenizerInv, PTL

-----------------------------------------------------------------------------
(***************************************************************************)
(* The decoder: the inductive invariant.                                   *)
(***************************************************************************)
Byte == 0..255

Frame == [fn : {"avalanche", "message"}, msg : Nat \cup {NULL}, left : Int]

MessageNode == [name : Seq(Byte), args : Seq(Nat \cup {NULL}), next : Nat, previous : Nat]

DecoderTypes == /\ stream \in Seq(Byte)
                /\ offset \in 0..Len(stream)
                /\ state = "idle" => offset = 0
                /\ calls \in Seq(Frame)
                /\ objs \in Seq(MessageNode)
                /\ \A m \in DOMAIN objs : /\ objs[m].next \in 0..Len(objs)
                                          /\ objs[m].previous \in 0..Len(objs)

\* sk_bytecode_parse_avalanche and sk_bytecode_parse_message call each other.
Alternate == \A c \in DOMAIN calls :
               calls[c].fn = IF c % 2 = 1 THEN "avalanche" ELSE "message"

\* The messages on the stack are the last of their avalanches, and younger
\* than those below them; one that is being parsed is not linked yet.
Stacked ==
  \A c \in DOMAIN calls :
    /\ calls[c].fn = "message" => /\ calls[c].msg # NULL
                                  /\ objs[calls[c].msg].previous = Nil
    /\ calls[c].msg # NULL =>
         /\ calls[c].msg \in DOMAIN objs
         /\ objs[calls[c].msg].next = Nil
         /\ \A d \in 1..c - 1 : calls[d].msg # NULL => calls[d].msg < calls[c].msg

DecoderInv == DecoderTypes /\ Alternate /\ Stacked /\ LinksMirror

(* The sequences of the decoder.                                           *)
LEMMA DecoderFacts ==
  ASSUME DecoderTypes
  PROVE  /\ Len(stream) \in Nat /\ offset \in Nat /\ offset <= Len(stream)
         /\ Len(calls) \in Nat /\ DOMAIN calls = 1..Len(calls)
         /\ \A c \in 1..Len(calls) : calls[c] \in Frame
         /\ Len(objs) \in Nat /\ DOMAIN objs = 1..Len(objs)
         /\ \A m \in 1..Len(objs) : objs[m] \in MessageNode
         /\ \A k \in 1..Len(stream) : stream[k] \in Byte
<1>1. stream \in Seq(Byte) /\ calls \in Seq(Frame) /\ objs \in Seq(MessageNode)
      /\ offset \in 0..Len(stream)
  BY DEF DecoderTypes
<1>2. /\ \A c \in 1..Len(calls) : calls[c] \in Frame
      /\ \A m \in 1..Len(objs) : objs[m] \in MessageNode
      /\ \A k \in 1..Len(stream) : stream[k] \in Byte
  BY <1>1, ElementOfSeq
<1> QED
  BY <1>1, <1>2

\* The stack without its top, with another frame at its new top.
Replaced(frame) == [Below EXCEPT ![Len(Below)] = frame]

(* What is on such a stack.                                                *)
LEMMA ReplacedFacts ==
  ASSUME DecoderTypes, Len(calls) > 1, NEW frame \in Frame
  PROVE  /\ Replaced(frame) \in Seq(Frame)
         /\ Len(Replaced(frame)) = Len(calls) - 1
         /\ DOMAIN Replaced(frame) = 1..Len(calls) - 1
         /\ Replaced(frame)[Len(calls) - 1] = frame
         /\ \A c \in 1..Len(calls) - 2 : Replaced(frame)[c] = calls[c]
         /\ Below[Len(Below)] = calls[Len(calls) - 1]
<1>1. calls \in Seq(Frame) /\ Len(calls) \in Nat
  BY DecoderFacts DEF DecoderTypes
<1>2. /\ Below \in Seq(Frame) /\ Len(Below) = Len(calls) - 1
      /\ \A c \in 1..Len(calls) - 1 : Below[c] = calls[c]
  BY <1>1, SubSeqProperties DEF Below
<1>3. /\ Replaced(frame) \in Seq(Frame) /\ Len(Replaced(frame)) = Len(Below)
      /\ Replaced(frame)[Len(Below)] = frame
      /\ \A c \in 1..Len(Below) : c # Len(Below) => Replaced(frame)[c] = Below[c]
  BY <1>1, <1>2, ExceptSeq DEF Replaced
<1> QED
  BY <1>1, <1>2, <1>3

(* The program stops, or the first bytes are read.                         *)
LEMMA StopStep ==
  ASSUME DecoderInv, NEW how \in {"abort", "crash", "exit"}, Stop(how)
  PROVE  DecoderInv'
BY DEF DecoderInv, DecoderTypes, Alternate, Stacked, LinksMirror, Stop

LEMMA ReadSignatureStep ==
  ASSUME DecoderInv, ReadSignature
  PROVE  DecoderInv'
<1>1. CASE \E how \in {"abort", "crash", "exit"} : Stop(how)
  BY <1>1, StopStep
<1>2. CASE /\ Len(stream) >= 4 /\ offset' = 4 /\ calls' = <<Avalanche(NULL)>>
           /\ UNCHANGED <<stream, stdin, objs, state, avalanche>>
  <2>1. DecoderTypes /\ state = "reading" /\ LinksMirror
    BY DEF DecoderInv, ReadSignature
  <2>2. Avalanche(NULL) \in Frame /\ Avalanche(NULL).msg = NULL
        /\ Avalanche(NULL).fn = "avalanche"
    BY DEF Frame, Avalanche
  <2>3. /\ calls' \in Seq(Frame) /\ DOMAIN calls' = 1..1
        /\ calls'[1] = Avalanche(NULL)
    BY <1>2, <2>2
  <2>4. DecoderTypes'
    BY <1>2, <2>1, <2>3 DEF DecoderTypes
  <2>5. Alternate'
    BY <2>2, <2>3 DEF Alternate
  <2>6. Stacked'
    BY <2>2, <2>3 DEF Stacked
  <2>7. LinksMirror'
    BY <1>2, <2>1 DEF LinksMirror
  <2> QED
    BY <2>4, <2>5, <2>6, <2>7 DEF DecoderInv
<1>3. Len(stream) \in Nat
  BY DecoderFacts DEF DecoderInv
<1> QED
  BY <1>1, <1>2, <1>3 DEF ReadSignature

(* A message is created, and sk_bytecode_parse_message goes on.            *)
LEMMA ParseMessageStep ==
  ASSUME DecoderInv, In("avalanche"), ParseMessage
  PROVE  DecoderInv'
<1>1. CASE \E how \in {"abort", "crash", "exit"} : Stop(how)
  BY <1>1, StopStep
<1>2. ASSUME NEW k \in offset + 2..Len(stream) - 1,
             objs' = Append(objs, NewMessage(SubSeq(stream, offset + 2, k - 1))),
             calls' = Append(calls, Message(Len(objs) + 1, stream[k + 1])),
             offset' = k + 1,
             UNCHANGED <<stream, stdin, state, avalanche>>
      PROVE  DecoderInv'
  <2> DEFINE n == Len(objs)
             c0 == Len(calls)
             name == SubSeq(stream, offset + 2, k - 1)
             new == NewMessage(name)
             frame == Message(n + 1, stream[k + 1])
  <2>1. DecoderTypes /\ Alternate /\ Stacked /\ LinksMirror
    BY DEF DecoderInv
  <2>2. /\ n \in Nat /\ c0 \in Nat /\ Len(stream) \in Nat /\ offset \in Nat
        /\ k \in Nat /\ k + 1 \in 1..Len(stream) /\ k + 1 <= Len(stream)
        /\ DOMAIN objs = 1..n /\ DOMAIN calls = 1..c0
        /\ \A m \in 1..n : objs[m] \in MessageNode
        /\ stream[k + 1] \in Byte
    BY <2>1, DecoderFacts
  <2>3. name \in Seq(Byte)
    <3>1. stream \in Seq(Byte) /\ offset + 2 \in 1..Len(stream) + 1
          /\ k - 1 \in (offset + 2) - 1..Len(stream)
      BY <2>1, <2>2 DEF DecoderTypes
    <3> QED
      BY <3>1, SubSeqProperties
  <2> HIDE DEF name
  <2>4. /\ new \in MessageNode /\ new.next = 0 /\ new.previous = 0 /\ new.args = <<>>
    BY <2>3 DEF MessageNode, NewMessage, Nil
  <2>5. frame \in Frame /\ frame.fn = "message" /\ frame.msg = n + 1
    <3>1. n + 1 \in Nat
      BY <2>2
    <3>2. stream[k + 1] \in Byte /\ Byte \subseteq Int
      BY <2>2 DEF Byte
    <3> HIDE DEF n
    <3> QED
      BY <3>1, <3>2 DEF Frame, Message
  <2> HIDE DEF new, frame
  <2>6. /\ objs' \in Seq(MessageNode) /\ Len(objs') = n + 1 /\ DOMAIN objs' = 1..n + 1
        /\ objs'[n + 1] = new /\ \A m \in 1..n : objs'[m] = objs[m]
    <3>1. objs' = Append(objs, new) /\ objs \in Seq(MessageNode)
      BY <1>2, <2>1 DEF new, name, DecoderTypes
    <3>2. objs' \in Seq(MessageNode) /\ Len(objs') = n + 1
      BY <3>1, <2>4, Appended
    <3> QED
      BY <3>1, <3>2, <2>4, Appended
  <2>7. /\ calls' \in Seq(Frame) /\ DOMAIN calls' = 1..c0 + 1
        /\ calls'[c0 + 1] = frame /\ \A c \in 1..c0 : calls'[c] = calls[c]
    <3>1. calls' = Append(calls, frame) /\ calls \in Seq(Frame)
      BY <1>2, <2>1 DEF frame, DecoderTypes
    <3>2. calls' \in Seq(Frame) /\ Len(calls') = c0 + 1
      BY <3>1, <2>5, Appended
    <3> QED
      BY <3>1, <3>2, <2>5, Appended
  <2> HIDE DEF n, c0
  <2>8. \A m \in 1..n : objs[m].next \in 0..n /\ objs[m].previous \in 0..n
    BY <2>1, <2>2 DEF DecoderTypes, n
  <2>9. DecoderTypes'
    <3>1. \A m \in 1..n + 1 : objs'[m].next \in 0..n + 1 /\ objs'[m].previous \in 0..n + 1
      <4>1. n \in Nat
        BY <2>2
      <4>2. \A m \in 1..n + 1 : m = n + 1 \/ m \in 1..n
        BY <4>1
      <4>3. 0 \in 0..n + 1 /\ \A j \in 0..n : j \in 0..n + 1
        BY <4>1
      <4> QED
        BY <2>4, <2>6, <2>8, <4>2, <4>3
    <3>2. state' = "idle" => offset' = 0
      BY <1>2 DEF In
    <3>3. stream' = stream /\ stream \in Seq(Byte) /\ offset' \in 0..Len(stream)
      BY <1>2, <2>1, <2>2 DEF DecoderTypes
    <3> QED
      BY <2>6, <2>7, <3>1, <3>2, <3>3 DEF DecoderTypes
  <2>10. Alternate'
    <3>1. c0 % 2 = 1 /\ (c0 + 1) % 2 = 0
      BY <2>1, <2>2 DEF In, Call, Alternate, c0
    <3> QED
      BY <2>1, <2>2, <2>5, <2>7, <3>1 DEF Alternate
  <2>11. Stacked'
    <3>1. ASSUME NEW c \in 1..c0
          PROVE  /\ calls'[c].fn = "message" => /\ calls'[c].msg # NULL
                                                /\ objs'[calls'[c].msg].previous = Nil
                 /\ calls'[c].msg # NULL =>
                      /\ calls'[c].msg \in 1..n
                      /\ objs'[calls'[c].msg].next = Nil
                      /\ \A d \in 1..c - 1 : calls'[d].msg # NULL
                                               => calls'[d].msg < calls'[c].msg
      <4>1. calls'[c] = calls[c] /\ \A d \in 1..c - 1 : calls'[d] = calls[d]
        BY <2>2, <2>7
      <4>2. calls[c].msg # NULL => calls[c].msg \in 1..n
        BY <2>1, <2>2 DEF Stacked
      <4>3. calls[c].msg # NULL => objs'[calls[c].msg] = objs[calls[c].msg]
        BY <2>6, <4>2
      <4> QED
        BY <2>1, <2>2, <4>1, <4>2, <4>3 DEF Stacked
    <3>2. \A d \in 1..c0 : calls'[d].msg # NULL => calls'[d].msg < n + 1
      BY <3>1, <2>2
    <3>3. n + 1 # NULL
      BY <2>2, NullIsNoMessage
    <3> QED
      BY <2>2, <2>4, <2>5, <2>6, <2>7, <3>1, <3>2, <3>3 DEF Stacked, Nil
  <2>12. LinksMirror'
    BY <2>1, <2>2, <2>4, <2>6, <2>8 DEF LinksMirror, Nil
  <2> QED
    BY <2>9, <2>10, <2>11, <2>12 DEF DecoderInv
<1> QED
  BY <1>1, <1>2 DEF ParseMessage

(* sk_bytecode_parse_avalanche returns its last message.                   *)
LEMMA ReturnStep ==
  ASSUME DecoderInv, In("avalanche"), ~ AtEnd, Return
  PROVE  DecoderInv'
<1> DEFINE n == Len(objs)
           c0 == Len(calls)
<1>1. DecoderTypes /\ Alternate /\ Stacked /\ LinksMirror
  BY DEF DecoderInv
<1>2. /\ n \in Nat /\ c0 \in Nat /\ Len(stream) \in Nat /\ offset \in Nat
      /\ offset + 1 \in 0..Len(stream)
      /\ DOMAIN objs = 1..n /\ DOMAIN calls = 1..c0
      /\ \A m \in 1..n : objs[m] \in MessageNode
      /\ \A c \in 1..c0 : calls[c] \in Frame
  BY <1>1, DecoderFacts DEF AtEnd
<1>3. /\ c0 \in 1..c0 /\ Call = calls[c0] /\ Call.fn = "avalanche" /\ c0 % 2 = 1
      /\ state = "reading"
  BY <1>1, <1>2 DEF In, Call, Alternate
<1>4. CASE c0 = 1
  <2>1. calls' = <<>> /\ state' = "done" /\ UNCHANGED <<stream, objs>> /\ offset' = offset + 1
    BY <1>4 DEF Return
  <2>2. DecoderTypes'
    BY <1>1, <1>2, <2>1 DEF DecoderTypes
  <2>3. Alternate' /\ Stacked'
    BY <2>1 DEF Alternate, Stacked
  <2>4. LinksMirror'
    BY <1>1, <2>1 DEF LinksMirror
  <2> QED
    BY <2>2, <2>3, <2>4 DEF DecoderInv
<1>5. CASE c0 # 1
  <2> DEFINE caller == calls[c0 - 1]
             m0 == caller.msg
             frame == [caller EXCEPT !.left = @ - 1]
             args0 == Append(objs[m0].args, Call.msg)
  <2>1. c0 > 1 /\ c0 - 1 \in 1..c0 /\ (c0 - 1) % 2 = 0
    BY <1>2, <1>3, <1>5
  <2>2. /\ objs' = [objs EXCEPT ![m0].args = args0]
        /\ calls' = [Below EXCEPT ![Len(Below)].left = @ - 1]
        /\ UNCHANGED <<stream, state>> /\ offset' = offset + 1
    BY <1>5 DEF Return
  <2>3. caller \in Frame /\ Call \in Frame
    BY <1>2, <1>3, <2>1
  <2>4. caller.fn = "message" /\ m0 # NULL /\ m0 \in 1..n
    <3>1. caller.fn = "message"
      BY <1>1, <1>2, <2>1 DEF Alternate
    <3> QED
      BY <1>1, <1>2, <2>1, <3>1 DEF Stacked
  <2>5. frame \in Frame /\ frame.fn = caller.fn /\ frame.msg = m0
    BY <2>3 DEF Frame
  <2>6. /\ calls' \in Seq(Frame) /\ DOMAIN calls' = 1..c0 - 1
        /\ calls'[c0 - 1] = frame /\ \A c \in 1..c0 - 2 : calls'[c] = calls[c]
    <3>1. Below[Len(Below)] = caller
      BY <1>1, <2>1, <2>5, ReplacedFacts
    <3>2. calls' = Replaced(frame)
      BY <2>2, <3>1 DEF Replaced
    <3> HIDE DEF frame
    <3> QED
      BY <1>1, <2>1, <2>5, <3>2, ReplacedFacts
  <2> HIDE DEF frame
  <2>7. \A c \in 1..c0 - 1 : /\ c \in 1..c0
                             /\ calls'[c].fn = calls[c].fn
                             /\ calls'[c].msg = calls[c].msg
    <3>1. \A c \in 1..c0 - 1 : c \in 1..c0 /\ (c = c0 - 1 \/ c \in 1..c0 - 2)
      <4>1. c0 \in Nat
        BY <1>2
      <4> QED
        BY <4>1
    <3> QED
      BY <2>5, <2>6, <3>1
  <2>8. Call.msg # NULL => Call.msg > m0
    <3>1. c0 - 1 \in 1..c0 - 1
      BY <1>2, <2>1
    <3> HIDE DEF m0
    <3>2. calls[c0 - 1].msg = m0
      BY DEF m0
    <3>3. calls[c0].msg # NULL => m0 < calls[c0].msg
      BY <1>1, <1>2, <1>3, <2>4, <3>1, <3>2 DEF Stacked
    <3>4. Call.msg # NULL => Call.msg \in Nat
      BY <2>3 DEF Frame
    <3> QED
      BY <1>2, <1>3, <2>4, <3>3, <3>4
  <2>9. /\ args0 \in Seq(Nat \cup {NULL})
        /\ \A k \in DOMAIN args0 : \/ k \in DOMAIN objs[m0].args /\ args0[k] = objs[m0].args[k]
                                   \/ args0[k] = Call.msg
    <3>1. objs[m0].args \in Seq(Nat \cup {NULL}) /\ Call.msg \in Nat \cup {NULL}
      BY <1>2, <2>3, <2>4 DEF MessageNode, Frame
    <3> HIDE DEF m0
    <3> QED
      BY <3>1, AppendProperties
  <2> HIDE DEF args0
  <2>10. /\ objs' \in Seq(MessageNode) /\ DOMAIN objs' = 1..n /\ Len(objs') = n
         /\ objs'[m0].args = args0
         /\ \A m \in 1..n : /\ objs'[m].next = objs[m].next
                            /\ objs'[m].previous = objs[m].previous
                            /\ m # m0 => objs'[m].args = objs[m].args
    <3> DEFINE node == [objs[m0] EXCEPT !.args = args0]
    <3>1. objs[m0] \in MessageNode
      BY <1>2, <2>4
    <3>2. /\ node \in MessageNode /\ node.args = args0
          /\ node.next = objs[m0].next /\ node.previous = objs[m0].previous
      BY <2>9, <3>1 DEF MessageNode
    <3>3. objs' = [objs EXCEPT ![m0] = node] /\ objs \in Seq(MessageNode)
      BY <1>1, <2>2 DEF DecoderTypes
    <3> HIDE DEF node
    <3>4. /\ objs' \in Seq(MessageNode) /\ Len(objs') = n
          /\ \A m \in 1..n : objs'[m] = IF m = m0 THEN node ELSE objs[m]
      <4>1. m0 \in 1..Len(objs) /\ node \in MessageNode
        BY <2>4, <3>2
      <4> HIDE DEF m0
      <4> QED
        BY <3>3, <4>1, ExceptSeq
    <3>5. n \in Nat /\ m0 \in 1..n
      BY <1>2, <2>4
    <3> HIDE DEF n, m0
    <3>6. DOMAIN objs' = 1..n
      BY <3>4, <3>5
    <3> QED
      BY <3>2, <3>4, <3>5, <3>6
  <2> HIDE DEF n, c0, m0
  <2>11. DecoderTypes'
    BY <1>1, <1>2, <1>3, <2>2, <2>6, <2>10 DEF DecoderTypes
  <2>12. Alternate'
    BY <1>1, <1>2, <2>6, <2>7 DEF Alternate
  <2>13. Stacked'
    <3>0. \A c \in 1..c0 - 1 : c \in 1..c0 /\ \A d \in 1..c - 1 : d \in 1..c0 - 1
      <4>1. c0 \in Nat
        BY <1>2
      <4> QED
        BY <4>1
    <3>1. ASSUME NEW c \in 1..c0 - 1
          PROVE  /\ calls[c].msg # NULL =>
                      /\ calls[c].msg \in 1..n
                      /\ objs'[calls[c].msg].next = Nil
                      /\ \A d \in 1..c - 1 : calls[d].msg # NULL
                                               => calls[d].msg < calls[c].msg
                 /\ calls[c].fn = "message" => /\ calls[c].msg # NULL
                                               /\ objs'[calls[c].msg].previous = Nil
      BY <1>1, <1>2, <2>10, <3>0 DEF Stacked
    <3>2. ASSUME NEW c \in 1..c0 - 1
          PROVE  /\ calls'[c].fn = "message" => /\ calls'[c].msg # NULL
                                                /\ objs'[calls'[c].msg].previous = Nil
                 /\ calls'[c].msg # NULL =>
                      /\ calls'[c].msg \in 1..n
                      /\ objs'[calls'[c].msg].next = Nil
                      /\ \A d \in 1..c - 1 : calls'[d].msg # NULL
                                               => calls'[d].msg < calls'[c].msg
      <4>1. /\ calls'[c].fn = calls[c].fn /\ calls'[c].msg = calls[c].msg
            /\ \A d \in 1..c0 - 1 : calls'[d].msg = calls[d].msg
        BY <2>7
      <4>2. \A d \in 1..c - 1 : calls'[d].msg = calls[d].msg
        BY <3>0, <4>1
      <4> QED
        BY <3>1, <4>1, <4>2
    <3>3. DOMAIN calls' = 1..c0 - 1 /\ DOMAIN objs' = 1..n
      BY <2>6, <2>10
    <3> QED
      BY <3>2, <3>3 DEF Stacked
  <2>14. LinksMirror'
    <3>1. ASSUME NEW m \in 1..n, NEW k \in DOMAIN objs'[m].args
          PROVE  objs'[m].args[k] # NULL => objs'[m].args[k] > m
      <4>1. CASE m = m0
        BY <1>1, <1>2, <2>4, <2>8, <2>9, <2>10, <4>1 DEF LinksMirror
      <4>2. CASE m # m0
        BY <1>1, <1>2, <2>10, <4>2 DEF LinksMirror
      <4> QED
        BY <4>1, <4>2
    <3>2. ASSUME NEW m \in 1..n
          PROVE  /\ objs[m].next # Nil => /\ objs[m].next \in 1..n
                                          /\ objs[objs[m].next].previous = m
                 /\ objs[m].previous # Nil => /\ objs[m].previous \in 1..n
                                              /\ objs[m].previous < m
                                              /\ objs[objs[m].previous].next = m
      <4>1. objs[m].next \in 0..n /\ objs[m].previous \in 0..n
        BY <1>1, <1>2 DEF DecoderTypes, n
      <4>2. \A j \in 0..n : j # Nil => j \in 1..n
        BY <1>2 DEF Nil
      <4> QED
        BY <1>1, <1>2, <4>1, <4>2 DEF LinksMirror
    <3>3. ASSUME NEW m \in 1..n
          PROVE  /\ objs'[m].next # Nil => objs'[objs'[m].next].previous = m
                 /\ objs'[m].previous # Nil => /\ objs'[m].previous < m
                                               /\ objs'[objs'[m].previous].next = m
      BY <2>10, <3>2
    <3> QED
      BY <2>10, <3>1, <3>3 DEF LinksMirror
  <2> QED
    BY <2>11, <2>12, <2>13, <2>14 DEF DecoderInv
<1> QED
  BY <1>4, <1>5

LEMMA ReadOpcodeStep ==
  ASSUME DecoderInv, ReadOpcode
  PROVE  DecoderInv'
<1>1. In("avalanche")
  BY DEF ReadOpcode
<1>2. CASE Stop("abort")
  BY <1>2, StopStep
<1>3. CASE ParseMessage
  BY <1>1, <1>3, ParseMessageStep
<1>4. CASE ~ AtEnd /\ Return
  BY <1>1, <1>4, ReturnStep
<1> QED
  BY <1>2, <1>3, <1>4 DEF ReadOpcode

(* An argument begins: an avalanche without messages.                      *)
LEMMA ParseArgumentStep ==
  ASSUME DecoderInv, ParseArgument
  PROVE  DecoderInv'
<1> DEFINE c0 == Len(calls)
           frame == Avalanche(NULL)
<1>1. DecoderTypes /\ Alternate /\ Stacked /\ LinksMirror
  BY DEF DecoderInv
<1>2. c0 \in Nat /\ DOMAIN calls = 1..c0 /\ calls \in Seq(Frame)
  BY <1>1, DecoderFacts DEF DecoderTypes
<1>3. /\ calls' = Append(calls, frame)
      /\ UNCHANGED <<stream, offset, objs, state>>
  BY DEF ParseArgument
<1>4. (c0 + 1) % 2 = 1
  BY <1>1, <1>2 DEF ParseArgument, In, Call, Alternate
<1>5. frame \in Frame /\ frame.fn = "avalanche" /\ frame.msg = NULL
  BY DEF Frame, Avalanche
<1> HIDE DEF frame
<1>6. /\ calls' \in Seq(Frame) /\ DOMAIN calls' = 1..c0 + 1
      /\ calls'[c0 + 1] = frame /\ \A c \in 1..c0 : calls'[c] = calls[c]
  <2>1. calls' \in Seq(Frame) /\ Len(calls') = c0 + 1
    BY <1>2, <1>3, <1>5, Appended
  <2> QED
    BY <1>2, <1>3, <1>5, <2>1, Appended
<1> HIDE DEF c0
<1>7. DecoderTypes'
  BY <1>1, <1>3, <1>6 DEF DecoderTypes
<1>8. Alternate'
  BY <1>1, <1>2, <1>4, <1>5, <1>6 DEF Alternate
<1>9. Stacked'
  BY <1>1, <1>2, <1>3, <1>5, <1>6 DEF Stacked
<1>10. LinksMirror'
  BY <1>1, <1>3 DEF LinksMirror
<1> QED
  BY <1>7, <1>8, <1>9, <1>10 DEF DecoderInv

(* A message was parsed: it is linked to the one before it in its avalanche, *)
(* which is older and was the last, so the two links of each are new.        *)
LEMMA EndMessageStep ==
  ASSUME DecoderInv, EndMessage
  PROVE  DecoderInv'
<1> DEFINE n == Len(objs)
           c0 == Len(calls)
           caller == calls[c0 - 1]
           p == caller.msg
           m0 == Call.msg
           frame == [caller EXCEPT !.msg = m0]
<1>1. DecoderTypes /\ Alternate /\ Stacked /\ LinksMirror
  BY DEF DecoderInv
<1>2. /\ n \in Nat /\ c0 \in Nat
      /\ DOMAIN objs = 1..n /\ DOMAIN calls = 1..c0
      /\ \A m \in 1..n : objs[m] \in MessageNode
      /\ \A c \in 1..c0 : calls[c] \in Frame
      /\ objs \in Seq(MessageNode)
  BY <1>1, DecoderFacts DEF DecoderTypes
<1>3. /\ c0 \in 1..c0 /\ Call = calls[c0] /\ Call.fn = "message" /\ c0 % 2 = 0
  BY <1>1, <1>2 DEF EndMessage, In, Call, Alternate
<1>4. c0 > 1 /\ c0 - 1 \in 1..c0 /\ (c0 - 1) % 2 = 1
  BY <1>2, <1>3
<1>5. /\ caller \in Frame /\ caller.fn = "avalanche"
  BY <1>1, <1>2, <1>4 DEF Alternate
<1>6. /\ m0 # NULL /\ m0 \in 1..n /\ objs[m0].next = Nil /\ objs[m0].previous = Nil
      /\ \A d \in 1..c0 - 1 : calls[d].msg # NULL => calls[d].msg < m0
  BY <1>1, <1>2, <1>3 DEF Stacked
<1>7. p # NULL => /\ p \in 1..n /\ objs[p].next = Nil /\ p < m0
                  /\ \A d \in 1..c0 - 2 : calls[d].msg # NULL => calls[d].msg < p
  BY <1>1, <1>2, <1>4, <1>6 DEF Stacked
<1>8. frame \in Frame /\ frame.fn = "avalanche" /\ frame.msg = m0
  BY <1>2, <1>3, <1>5, <1>6 DEF Frame
<1>9. /\ calls' \in Seq(Frame) /\ DOMAIN calls' = 1..c0 - 1
      /\ calls'[c0 - 1] = frame /\ \A c \in 1..c0 - 2 : calls'[c] = calls[c]
      /\ Below[Len(Below)] = caller
  <2>1. Below[Len(Below)] = caller
    BY <1>1, <1>4, <1>8, ReplacedFacts
  <2>2. calls' = Replaced(frame)
    BY <2>1 DEF EndMessage, Replaced
  <2> HIDE DEF frame
  <2> QED
    BY <1>1, <1>4, <1>8, <2>1, <2>2, ReplacedFacts
<1>10. objs' = Link(p, m0) /\ UNCHANGED <<stream, offset, state>>
  BY <1>9 DEF EndMessage
<1> HIDE DEF frame
<1>11. /\ objs' \in Seq(MessageNode) /\ Len(objs') = n /\ DOMAIN objs' = 1..n
       /\ \A m \in 1..n :
            /\ objs'[m].args = objs[m].args
            /\ objs'[m].next = IF p # NULL /\ m = p THEN m0 ELSE objs[m].next
            /\ objs'[m].previous = IF p # NULL /\ m = m0 THEN p ELSE objs[m].previous
  <2>1. CASE p = NULL
    BY <1>2, <1>10, <2>1 DEF Link
  <2>2. CASE p # NULL
    <3> DEFINE young == [objs[m0] EXCEPT !.previous = p]
               old == [objs[p] EXCEPT !.next = m0]
               half == [objs EXCEPT ![m0] = young]
    <3>1. /\ m0 \in Nat /\ m0 \in 1..n /\ p \in Nat /\ p \in 1..n /\ p # m0
          /\ objs[m0] \in MessageNode /\ objs[p] \in MessageNode
      BY <1>2, <1>6, <1>7, <2>2
    <3> HIDE DEF p, m0
    <3>2. /\ young \in MessageNode /\ young.previous = p
          /\ young.args = objs[m0].args /\ young.next = objs[m0].next
          /\ old \in MessageNode /\ old.next = m0
          /\ old.args = objs[p].args /\ old.previous = objs[p].previous
      BY <3>1 DEF MessageNode
    <3> HIDE DEF young
    <3>3. /\ half \in Seq(MessageNode) /\ Len(half) = n
          /\ \A m \in 1..n : half[m] = IF m = m0 THEN young ELSE objs[m]
      BY <1>2, <3>1, <3>2, ExceptSeq
    <3>4. objs' = [half EXCEPT ![p] = old]
      <4>1. half[p] = objs[p]
        BY <3>1, <3>3
      <4>2. objs' = [half EXCEPT ![p].next = m0]
        BY <1>10, <2>2 DEF Link, young
      <4> QED
        BY <4>1, <4>2
    <3> HIDE DEF old, half
    <3>5. /\ objs' \in Seq(MessageNode) /\ Len(objs') = n
          /\ \A m \in 1..n : objs'[m] = IF m = p THEN old ELSE half[m]
      BY <3>1, <3>2, <3>3, <3>4, ExceptSeq
    <3> QED
      BY <1>2, <2>2, <3>1, <3>2, <3>3, <3>5
  <2> QED
    BY <2>1, <2>2
<1> HIDE DEF p, m0, n, c0
<1>12. \A m \in 1..n : objs[m].next \in 0..n /\ objs[m].previous \in 0..n
  BY <1>1, <1>2 DEF DecoderTypes, n
<1>13. DecoderTypes'
  <2>1. \A m \in 1..n : objs'[m].next \in 0..n /\ objs'[m].previous \in 0..n
    <3>1. m0 \in 0..n /\ (p # NULL => p \in 0..n)
      BY <1>2, <1>6, <1>7
    <3> QED
      BY <1>11, <1>12, <3>1
  <2> QED
    BY <1>1, <1>9, <1>10, <1>11, <2>1 DEF DecoderTypes
<1>14. \A c \in 1..c0 - 1 : /\ c = c0 - 1 \/ c \in 1..c0 - 2
                            /\ c \in 1..c0 /\ \A d \in 1..c - 1 : d \in 1..c0 - 2
  <2>1. c0 \in Nat
    BY <1>2
  <2> QED
    BY <2>1
<1>15. Alternate'
  <2>1. ASSUME NEW c \in 1..c0 - 1
        PROVE  calls'[c].fn = IF c % 2 = 1 THEN "avalanche" ELSE "message"
    <3>1. CASE c = c0 - 1
      BY <1>4, <1>8, <1>9, <3>1
    <3>2. CASE c \in 1..c0 - 2
      <4>1. calls'[c] = calls[c] /\ c \in DOMAIN calls
        BY <1>2, <1>9, <1>14, <3>2
      <4> QED
        BY <1>1, <4>1 DEF Alternate
    <3> QED
      BY <1>14, <3>1, <3>2
  <2> QED
    BY <1>9, <2>1 DEF Alternate
<1>16. Stacked'
  <2>1. ASSUME NEW c \in 1..c0 - 2
        PROVE  /\ calls[c].msg # NULL =>
                    /\ calls[c].msg \in 1..n
                    /\ objs'[calls[c].msg].next = Nil
                    /\ calls[c].msg < m0
                    /\ \A d \in 1..c - 1 : calls[d].msg # NULL => calls[d].msg < calls[c].msg
               /\ calls[c].fn = "message" => /\ calls[c].msg # NULL
                                             /\ objs'[calls[c].msg].previous = Nil
    <3>1. c \in 1..c0 /\ c \in 1..c0 - 1
      <4>1. c0 \in Nat
        BY <1>2
      <4> QED
        BY <4>1
    <3>2. /\ calls[c].msg # NULL =>
               /\ calls[c].msg \in 1..n
               /\ objs[calls[c].msg].next = Nil
               /\ \A d \in 1..c - 1 : calls[d].msg # NULL => calls[d].msg < calls[c].msg
          /\ calls[c].fn = "message" => /\ calls[c].msg # NULL
                                        /\ objs[calls[c].msg].previous = Nil
      BY <1>1, <1>2, <3>1 DEF Stacked
    <3>3. /\ calls[c].msg # NULL => calls[c].msg < m0 /\ calls[c].msg # m0
          /\ p # NULL /\ calls[c].msg # NULL => calls[c].msg # p
      BY <1>2, <1>6, <1>7, <3>1, <3>2
    <3> QED
      BY <1>11, <3>2, <3>3
  <2>2. objs'[m0].next = Nil /\ m0 \in 1..n /\ m0 # NULL
    BY <1>6, <1>7, <1>11
  <2>3. ASSUME NEW c \in 1..c0 - 1
        PROVE  /\ calls'[c].fn = "message" => /\ calls'[c].msg # NULL
                                              /\ objs'[calls'[c].msg].previous = Nil
               /\ calls'[c].msg # NULL =>
                    /\ calls'[c].msg \in 1..n
                    /\ objs'[calls'[c].msg].next = Nil
                    /\ \A d \in 1..c - 1 : calls'[d].msg # NULL
                                             => calls'[d].msg < calls'[c].msg
    <3>1. \A d \in 1..c - 1 : d \in 1..c0 - 2 /\ calls'[d] = calls[d]
      BY <1>9, <1>14
    <3>2. CASE c = c0 - 1
      BY <1>8, <1>9, <2>1, <2>2, <3>1, <3>2
    <3>3. CASE c \in 1..c0 - 2
      <4>1. calls'[c] = calls[c]
        BY <1>9, <3>3
      <4> QED
        BY <2>1, <3>1, <3>3, <4>1
    <3> QED
      BY <1>14, <3>2, <3>3
  <2>4. DOMAIN calls' = 1..c0 - 1 /\ DOMAIN objs' = 1..n
    BY <1>9, <1>11
  <2> QED
    BY <2>3, <2>4 DEF Stacked
<1>17. LinksMirror'
  <2>1. ASSUME NEW m \in 1..n
        PROVE  /\ objs[m].next \in 0..n /\ objs[m].previous \in 0..n
               /\ objs[m].next # Nil => /\ objs[m].next \in 1..n
                                        /\ objs[objs[m].next].previous = m
               /\ objs[m].previous # Nil => /\ objs[m].previous \in 1..n
                                            /\ objs[m].previous < m
                                            /\ objs[objs[m].previous].next = m
    <3>1. \A j \in 0..n : j # Nil => j \in 1..n
      BY <1>2 DEF Nil
    <3> QED
      BY <1>1, <1>2, <1>12, <3>1 DEF LinksMirror
  <2>2. ASSUME NEW m \in 1..n, objs'[m].next # Nil
        PROVE  objs'[objs'[m].next].previous = m
    <3>1. CASE p # NULL /\ m = p
      BY <1>6, <1>7, <1>11, <3>1
    <3>2. CASE ~ (p # NULL /\ m = p)
      <4>1. objs'[m].next = objs[m].next /\ objs[m].next \in 1..n
            /\ objs[objs[m].next].previous = m
        BY <1>11, <2>1, <2>2, <3>2
      <4>2. objs[m].next # m0
        BY <1>2, <1>6, <4>1 DEF Nil
      <4> QED
        BY <1>11, <4>1, <4>2
    <3> QED
      BY <3>1, <3>2
  <2>3. ASSUME NEW m \in 1..n, objs'[m].previous # Nil
        PROVE  objs'[m].previous < m /\ objs'[objs'[m].previous].next = m
    <3>1. CASE p # NULL /\ m = m0
      BY <1>6, <1>7, <1>11, <3>1
    <3>2. CASE ~ (p # NULL /\ m = m0)
      <4>1. objs'[m].previous = objs[m].previous /\ objs[m].previous \in 1..n
            /\ objs[m].previous < m /\ objs[objs[m].previous].next = m
        BY <1>11, <2>1, <2>3, <3>2
      <4>2. p # NULL => objs[m].previous # p
        BY <1>2, <1>7, <4>1 DEF Nil
      <4> QED
        BY <1>11, <4>1, <4>2
    <3> QED
      BY <3>1, <3>2
  <2>4. \A m \in 1..n : \A k \in DOMAIN objs'[m].args :
          objs'[m].args[k] # NULL => objs'[m].args[k] > m
    BY <1>1, <1>2, <1>11 DEF LinksMirror
  <2>5. DOMAIN objs' = 1..n
    BY <1>11
  <2> QED
    BY <2>2, <2>3, <2>4, <2>5 DEF LinksMirror
<1> QED
  BY <1>13, <1>15, <1>16, <1>17 DEF DecoderInv

LEMMA LoadStep ==
  ASSUME DecoderInv, state = "idle", NEW bytes \in Seq(Byte), Load(bytes)
  PROVE  DecoderInv'
<1>1. DecoderTypes /\ Alternate /\ Stacked /\ LinksMirror
  BY DEF DecoderInv
<1>2. stream' = bytes /\ offset' = 0 /\ UNCHANGED <<calls, objs>>
  BY <1>1 DEF Load, DecoderTypes
<1>3. DecoderTypes'
  BY <1>1, <1>2 DEF DecoderTypes
<1> QED
  BY <1>1, <1>2, <1>3 DEF DecoderInv, Alternate, Stacked, LinksMirror

LEMMA AlwaysDecoderInv == DecoderSpec => []DecoderInv
<1>1. Idle /\ stream = <<>> => DecoderInv
  BY DEF Idle, DecoderInv, DecoderTypes, Alternate, Stacked, LinksMirror
<1> DEFINE Step == \/ state = "idle" /\ \E bytes \in Seq(0..255) : Load(bytes)
                   \/ Decode
<1>2. DecoderInv /\ [Step]_decoder => DecoderInv'
  <2> SUFFICES ASSUME DecoderInv, [Step]_decoder PROVE DecoderInv'
    OBVIOUS
  <2>1. CASE state = "idle" /\ \E bytes \in Seq(0..255) : Load(bytes)
    BY <2>1, LoadStep DEF Byte
  <2>2. CASE ReadSignature
    BY <2>2, ReadSignatureStep
  <2>3. CASE ReadOpcode
    BY <2>3, ReadOpcodeStep
  <2>4. CASE ParseArgument
    BY <2>4, ParseArgumentStep
  <2>5. CASE EndMessage
    BY <2>5, EndMessageStep
  <2>6. CASE UNCHANGED decoder
    BY <2>6 DEF decoder, DecoderInv, DecoderTypes, Alternate, Stacked, LinksMirror
  <2> QED
    BY <2>1, <2>2, <2>3, <2>4, <2>5, <2>6 DEF Decode
<1> QED
  BY <1>1, <1>2, PTL DEF DecoderSpec

(* LinksMirror: whatever the bytes are, `next' and `previous' of the       *)
(* messages are each other's inverse at every moment of the parsing.       *)
THEOREM LinksMirrorTheorem == DecoderSpec => []LinksMirror
<1>1. DecoderInv => LinksMirror
  BY DEF DecoderInv
<1> QED
  BY <1>1, AlwaysDecoderInv, PTL

=============================================================================
