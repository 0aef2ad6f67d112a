------------------------------ MODULE Decoded -------------------------------
(***************************************************************************)
(* What a program is when it is dispatched: from the first message of each *)
(* avalanche along `next' (sk_message_dispatch_avalanche and               *)
(* sk_message_start_dispatch).                                             *)
(***************************************************************************)
EXTENDS Bytecode, Avalanches

RECURSIVE First(_)
First(m) == IF objs[m].previous = Nil THEN m ELSE First(objs[m].previous)

RECURSIVE Dispatched(_)
Dispatched(m) ==
  LET arg(a) == IF a = NULL THEN <<>> ELSE Dispatched(First(a))
      this == [name |-> objs[m].name, args |-> [k \in DOMAIN objs[m].args |-> arg(objs[m].args[k])]]
  IN  <<this>> \o IF objs[m].next = Nil THEN <<>> ELSE Dispatched(objs[m].next)

Program == IF avalanche = NULL THEN <<>> ELSE Dispatched(First(avalanche))

-----------------------------------------------------------------------------
(***************************************************************************)
(* Properties.                                                             *)
(***************************************************************************)

(* A file is accepted only if it is the bytecode of the program that is    *)
(* then dispatched, whatever follows: no cut or foreign bytes are taken    *)
(* for a program.  An avalanche may be empty here; no compiler writes one. *)
AcceptsOnlyBytecode ==
  state = "done" => /\ SubSeq(stream, 1, 4) = Signature
                    /\ SubSeq(stream, 5, offset) = Encode(Program)
=============================================================================
