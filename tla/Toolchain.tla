----------------------------- MODULE Toolchain -----------------------------
(***************************************************************************)
(* From a program to the messages that the virtual machine dispatches.  A  *)
(* program is a text, which Tokenizer and Pyvalanche make a file of, or a  *)
(* syntax tree, which Edleks makes a file of.  Bytecode reads the file, or *)
(* one that no compiler wrote.  The parser pulls its tokens one by one;    *)
(* as it ends at END only and leaves nothing when the tokenizer raises,    *)
(* the tokens are all made first here.                                     *)
(***************************************************************************)
EXTENDS Tokenizer, Pyvalanche, Edleks, Decoded, FiniteSets

CONSTANTS Texts,     \* sequences over Characters
          Trees,     \* syntax trees
          Files      \* sequences of bytes

ASSUME TextsAreTexts == \A t \in Texts : \A k \in DOMAIN t : t[k] \in Characters

vars == <<tokenizer, parser, edleks, decoder>>

Init == /\ \/ /\ \E t \in Texts : BeginTokenize(t)
              /\ node = None /\ file = <<>> /\ stdin = FALSE
           \/ /\ node \in Trees
              /\ NothingToTokenize /\ file = <<>> /\ stdin = FALSE
           \/ /\ file \in Files /\ stdin \in BOOLEAN
              /\ NothingToTokenize /\ node = None
        /\ tokens = <<>> /\ at = 1 /\ parses = <<>> /\ msgs = <<>>
        /\ compiler = "idle" /\ root = None /\ skipped = {}
        /\ compiled = NotCompiled
        /\ stream = <<>> /\ Idle

\* The bytes of a token, for the characters that are in one.
Byte(c) == CASE c = "a" -> 97 [] c = ";" -> 59 [] c = "(" -> 40 [] c = ")" -> 41 [] c = "," -> 44
             [] c = "quote" -> 34 [] c = "#" -> 35 [] c = "space" -> 32 [] c = "newline" -> 10
             [] c = "backslash" -> 92

Value(t) == IF t.kind # "IDENTIFIER" THEN <<>>
            ELSE [k \in 1..t.last - t.first + 1 |-> Byte(string[t.first + k - 1])]

\* Parser(tokenize(text))
NewParser == /\ compiler = "idle" /\ loop = "end"
             /\ tokens' = [k \in DOMAIN yielded |-> [kind |-> yielded[k].kind, value |-> Value(yielded[k])]]
             /\ parses' = <<NewParse(Outermost)>>
             /\ compiler' = "parsing"
             /\ UNCHANGED <<tokenizer, at, msgs, root, skipped, file, edleks, decoder>>

CompileText == \/ Tokenize /\ UNCHANGED <<parser, edleks, decoder>>
               \/ NewParser
               \/ (ParseTokens \/ GenerateFull(Signature)) /\ UNCHANGED <<tokenizer, edleks, decoder>>

WriteTree == /\ CompileTree
             /\ file' = (IF compiled'.bytes = NoBytes THEN <<>> ELSE Signature \o compiled'.bytes)
             /\ UNCHANGED <<tokenizer, decoder, tokens, at, parses, msgs, compiler, root, skipped>>

\* A file of less than four bytes is one, too.
IsFile == \/ compiler = "compiled"
          \/ compiled.bytes # NoBytes
          \/ loop = "idle" /\ node = None

Run == IsFile /\ state = "idle" /\ Load(file) /\ UNCHANGED <<tokenizer, parser, edleks>>

Decoding == Decode /\ UNCHANGED <<tokenizer, parser, edleks>>

Refused == \/ loop \in {"IndexError", "ValueError"}
           \/ compiler \in {"StopIteration", "ParseError", "AttributeError", "struct.error"}
           \/ compiled # NotCompiled /\ compiled.bytes = NoBytes

Finished == Refused \/ state \in {"done", "abort", "crash", "exit"}

Over == Finished /\ UNCHANGED vars

Next == CompileText \/ WriteTree \/ Run \/ Decoding \/ Over

\* The compilers and the virtual machine go on while there is something to do.
Spec == Init /\ [][Next]_vars /\ WF_vars(CompileText) /\ WF_vars(Run \/ Decoding)

-----------------------------------------------------------------------------
(***************************************************************************)
(* Properties.                                                             *)
(***************************************************************************)

Tok(kind) == <<[kind |-> kind, value |-> <<>>]>>

RECURSIVE Written(_), WrittenMessage(_), WrittenArguments(_)

\* The tokens of an avalanche.  A message without arguments has no parentheses.
Written(av) == IF av = <<>> THEN <<>> ELSE WrittenMessage(Head(av)) \o Written(Tail(av))

WrittenMessage(m) ==
  <<[kind |-> "IDENTIFIER", value |-> m.name]>> \o
  (IF m.args = <<>> THEN <<>> ELSE Tok("LPAREN") \o WrittenArguments(m.args) \o Tok("RPAREN"))

WrittenArguments(args) ==
  Written(Head(args)) \o
  (IF Len(args) = 1 THEN <<>> ELSE Tok("COMMA") \o WrittenArguments(Tail(args)))

\* What is left of the source without the tokens that were passed over.
RECURSIVE Kept(_)
Kept(k) == IF k = Len(tokens) THEN <<>>
           ELSE (IF k \in skipped THEN <<>> ELSE <<tokens[k]>>) \o Kept(k + 1)

(* The virtual machine dispatches the program that was written: names,     *)
(* nesting, order and arguments are those of the source, but for tokens    *)
(* that parse passed over, through the chains of Python objects, the bytes *)
(* and the links of the message objects.  No file that was written is      *)
(* refused.                                                                *)
RunsWhatWasWritten ==
  compiler = "compiled" => /\ state \in {"idle", "reading", "done"}
                           /\ state = "done" => Written(Program) = Kept(1)

(* What is dispatched is what the syntax tree of edleks stands for: no     *)
(* message of a block is lost or moved by the `;' that is put before       *)
(* chains that were already made, the arguments are in their places, and   *)
(* no file that was written is refused.                                    *)
CompilesToMeaning ==
  compiled.bytes # NoBytes => /\ state \in {"idle", "reading", "done"}
                              /\ state = "done" => Program = Meaning(node)

Depth(k) == Cardinality({j \in 1..k : Kind(j) = "LPAREN"})
            - Cardinality({j \in 1..k : Kind(j) = "RPAREN"})

\* Parentheses close, commas and parentheses are only around arguments, and
\* neither the program nor an argument is empty.
WellFormed ==
  /\ tokens # <<>>
  /\ \A k \in DOMAIN tokens :
       /\ Kind(k) # "IDENTIFIER" => k > 1
       /\ Kind(k) = "LPAREN" => Kind(k - 1) = "IDENTIFIER"
       /\ Kind(k) \in {"RPAREN", "COMMA", "END"} => Kind(k - 1) \in {"IDENTIFIER", "RPAREN"}
       /\ Kind(k) \in {"RPAREN", "COMMA"} => Depth(k - 1) > 0
  /\ Depth(Len(tokens)) = 0

(* A well-formed source is never refused, unless it has more arguments     *)
(* than a byte can count, and nothing of it is passed over: it is compiled *)
(* and read to its end.                                                    *)
WellFormedRuns ==
  WellFormed ~> \/ state = "done" /\ skipped = {}
                \/ compiler = "struct.error" /\ \E m \in DOMAIN msgs : Len(msgs[m].args) > MaxArgs

(* Every text and every file comes to an end: it is refused by the         *)
(* compiler or the decoder, or read; neither hangs at the end of its       *)
(* input, in a comment, a string, a name or an argument.  (The visit of a  *)
(* syntax tree is one step here; from there on, the same holds.)           *)
ToolchainEnds == node = None \/ compiled # NotCompiled ~> Finished
=============================================================================
