----------------------------- MODULE Pyvalanche -----------------------------
(***************************************************************************)
(* The compiler pyvalanche.py from the tokens on.  Parser.parse calls      *)
(* itself for every argument: `parses' is its stack.  A step is one turn   *)
(* of the loop of parse, or the return of one.                             *)
(***************************************************************************)
EXTENDS Skelde

VARIABLES
  tokens,    \* what tokenize yields: kinds and values, END last
  at,        \* self.token is tokens[at]
  parses,    \* active calls of parse: where it ends, and its locals
  msgs,      \* the Message objects
  compiler,  \* "parsing", "parsed", "compiled" or the name of an exception
  root,      \* the message that the outermost parse returned
  skipped,   \* history: the tokens that parse passed over
  file       \* the bytes of the output

parser == <<tokens, at, parses, msgs, compiler, root, skipped, file>>

Parse == parses[Len(parses)]
Parsing == compiler = "parsing" /\ parses # <<>>
Calling == SubSeq(parses, 1, Len(parses) - 1)

Outermost == {"END"}
Argument == {"COMMA", "RPAREN"}

\* `args' is None unless parse waits for an argument of the message `name'.
NewParse(end) == [end |-> end, tail |-> None, name |-> None, args |-> None]

Kind(k) == tokens[k].kind

Raises(exception) == /\ compiler' = exception
                     /\ UNCHANGED <<tokens, at, parses, msgs, root, skipped, file>>

\* tail = Message(name, args), or tail(name, args).
NewTail(p, name, args) ==
  /\ msgs' = Append(msgs, [name |-> name, args |-> args, previous |-> p.tail])
  /\ parses' = Append(Calling, [NewParse(p.end) EXCEPT !.tail = Len(msgs) + 1])

-----------------------------------------------------------------------------
Looping == Parsing /\ Parse.args = None /\ Kind(at) \notin Parse.end

\* An identifier that a parenthesis follows: parse the first argument.
IdentifierWithArguments ==
  /\ Looping
  /\ Kind(at) = "IDENTIFIER"
  /\ Kind(at + 1) = "LPAREN"
  /\ at' = at + 2
  /\ parses' = Append(Append(Calling, [Parse EXCEPT !.name = tokens[at].value, !.args = <<>>]),
                      NewParse(Argument))
  /\ UNCHANGED <<tokens, msgs, compiler, root, skipped, file>>

Identifier == /\ Looping
              /\ Kind(at) = "IDENTIFIER"
              /\ Kind(at + 1) # "LPAREN"
              /\ at' = at + 1
              /\ NewTail(Parse, tokens[at].value, <<>>)
              /\ UNCHANGED <<tokens, compiler, root, skipped, file>>

\* A token that is neither an identifier nor the end is passed over.  After
\* END the iterator has nothing more.
Shift == /\ Looping
         /\ Kind(at) # "IDENTIFIER"
         /\ IF Kind(at) = "END"
            THEN Raises("StopIteration")
            ELSE /\ at' = at + 1
                 /\ skipped' = skipped \cup {at}
                 /\ UNCHANGED <<tokens, parses, msgs, compiler, root, file>>

\* The parse of an argument returns to the parse of its message.
ReturnArgument ==
  /\ Parsing
  /\ Parse.args = None /\ Kind(at) \in Parse.end
  /\ Len(parses) > 1
  /\ LET p == parses[Len(parses) - 1]
         args == Append(p.args, Parse.tail)
         before == SubSeq(parses, 1, Len(parses) - 2)
     IN  \/ /\ Kind(at) = "COMMA"
            /\ parses' = Append(Append(before, [p EXCEPT !.args = args]), NewParse(Argument))
            /\ at' = at + 1
            /\ UNCHANGED <<msgs, compiler>>
         \/ /\ Kind(at) # "COMMA"
            /\ IF Kind(at) = "RPAREN"
               THEN /\ msgs' = Append(msgs, [name |-> p.name, args |-> args, previous |-> p.tail])
                    /\ parses' = Append(before, [NewParse(p.end) EXCEPT !.tail = Len(msgs) + 1])
                    /\ at' = at + 1
                    /\ UNCHANGED compiler
               ELSE /\ compiler' = "ParseError"
                    /\ UNCHANGED <<at, parses, msgs>>
  /\ UNCHANGED <<tokens, root, skipped, file>>

ReturnRoot == /\ Parsing
              /\ Kind(at) \in Parse.end
              /\ Len(parses) = 1
              /\ compiler' = "parsed"
              /\ root' = Parse.tail
              /\ parses' = <<>>
              /\ UNCHANGED <<tokens, at, msgs, skipped, file>>

-----------------------------------------------------------------------------
\* The file is opened when all bytes are there.
GenerateFull(signature) ==
  /\ compiler = "parsed"
  /\ IF HasNone(msgs, root) \/ PackFails(msgs)
     THEN /\ compiler' = (IF HasNone(msgs, root) THEN "AttributeError" ELSE "struct.error")
          /\ UNCHANGED file
     ELSE /\ compiler' = "compiled"
          /\ file' = signature \o GenerateAvalanche(msgs, root)
  /\ UNCHANGED <<tokens, at, parses, msgs, root, skipped>>

ParseTokens == \/ IdentifierWithArguments \/ Identifier \/ Shift
               \/ ReturnArgument \/ ReturnRoot
=============================================================================
