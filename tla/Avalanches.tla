----------------------------- MODULE Avalanches -----------------------------
(***************************************************************************)
(* Programs as values: an avalanche is a sequence of messages, a message   *)
(* has a name, which is a sequence of bytes, and a sequence of arguments,  *)
(* which are avalanches.  The bytecode of an avalanche, as both compilers  *)
(* write it and bytecode.c reads it.                                       *)
(***************************************************************************)
EXTENDS Opcodes, Sequences

RECURSIVE Encode(_), EncodeMessage(_), EncodeArguments(_)

\* The messages one after the other, and the end of the avalanche.
Encode(av) == IF av = <<>>
              THEN <<OP_EOA>>
              ELSE EncodeMessage(Head(av)) \o Encode(Tail(av))

EncodeMessage(m) ==
  <<OP_MESSAGE>> \o m.name \o <<0, Len(m.args)>> \o EncodeArguments(m.args)

EncodeArguments(args) == IF args = <<>>
                         THEN <<>>
                         ELSE Encode(Head(args)) \o EncodeArguments(Tail(args))

\* Avalanches of up to `width' messages, with names from `names', with up to
\* `width' arguments that are avalanches of `below', not empty.
MessagesOver(names, below, width) ==
  [name : names, args : UNION {[1..n -> below] : n \in 0..width}]

AvalanchesOver(names, below, width) ==
  UNION {[1..n -> MessagesOver(names, below, width)] : n \in 1..width}
=============================================================================
