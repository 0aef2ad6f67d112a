------------------------------- MODULE Skelde -------------------------------
(***************************************************************************)
(* The messages of the compilers and their bytecode (skelde.py).  `msgs'   *)
(* is the heap of Message objects: a sequence of records with a name,      *)
(* arguments and the previous message.  Messages are named by their place  *)
(* in it.                                                                  *)
(***************************************************************************)
EXTENDS Avalanches

CONSTANTS MaxArgs,   \* the largest number that pack('B') takes, 255
          None

\* The chain of a message: itself, and before it the ones along `previous'.
RECURSIVE Chain(_, _)
Chain(msgs, m) == IF m = None THEN <<>> ELSE Append(Chain(msgs, msgs[m].previous), m)

\* An argument that is missing is None, which has no generate_avalanche.
HasNone(msgs, root) ==
  root = None \/ \E m \in DOMAIN msgs : \E k \in DOMAIN msgs[m].args : msgs[m].args[k] = None

\* Mutant: off by one.
PackFailsEarly(msgs) == \E m \in DOMAIN msgs : Len(msgs[m].args) >= MaxArgs

PackFails(msgs) == \E m \in DOMAIN msgs : Len(msgs[m].args) > MaxArgs

RECURSIVE GenerateAvalanche(_, _), GenerateBytecode(_, _), GenerateEach(_, _), GenerateArguments(_, _)

\* Mutant: of the chain only the last message is written.
GenerateAvalancheOfOne(msgs, m) == GenerateBytecode(msgs, m) \o <<OP_EOA>>

GenerateAvalanche(msgs, m) == GenerateEach(msgs, Chain(msgs, m)) \o <<OP_EOA>>

GenerateEach(msgs, chain) ==
  IF chain = <<>>
  THEN <<>>
  ELSE GenerateBytecode(msgs, Head(chain)) \o GenerateEach(msgs, Tail(chain))

GenerateBytecode(msgs, m) ==
  <<OP_MESSAGE>> \o msgs[m].name \o <<0, Len(msgs[m].args)>> \o GenerateArguments(msgs, msgs[m].args)

GenerateArguments(msgs, args) ==
  IF args = <<>>
  THEN <<>>
  ELSE GenerateAvalanche(msgs, Head(args)) \o GenerateArguments(msgs, Tail(args))
=============================================================================
