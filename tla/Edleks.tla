------------------------------- MODULE Edleks -------------------------------
(***************************************************************************)
(* The compiler of edleks (compiler.py): a visitor that makes messages of  *)
(* a syntax tree.  A node is a record: its kind, a name, the node to its   *)
(* left or None, and the nodes in it.  Visiting a node adds Message        *)
(* objects to the heap and returns one of them, or the list of results of  *)
(* an Arrow.  The result is Raised when Python raises an exception, at     *)
(* once or, for a list where a previous message should be, in              *)
(* generate_avalanche.                                                     *)
(***************************************************************************)
EXTENDS Skelde, SequencesExt

VARIABLES node,      \* the tree, or None
          compiled   \* the heap, the message that visit returned, and its
                     \* bytes or NoBytes

edleks == <<node, compiled>>

Raised == [kind |-> "raised"]
Result(m) == [kind |-> "message", id |-> m]
List(elems) == [kind |-> "list", elems |-> elems]

IsList(v) == v.kind = "list"

NewMsg(name, args, previous) == [name |-> name, args |-> args, previous |-> previous]

\* A visit that gave value v and left the heap h.
Gives(h, v) == [heap |-> h, value |-> v]

Adds(h, msg) == Gives(Append(h, msg), Result(Len(h) + 1))

\* Mutant: the lists stay.
FlattenlNothing(values) == values

\* flattenl: the elements of lists among the values, one level deep.
Flattenl(values) ==
  FoldLeft(LAMBDA all, v : all \o (IF IsList(v) THEN v.elems ELSE <<v>>), <<>>, values)

\* The values as arguments: a list among them has no generate_avalanche.
Ids(values) == [k \in DOMAIN values |-> IF IsList(values[k]) THEN None ELSE values[k].id]

\* The first message of a chain.
RECURSIVE Foremost(_, _)
Foremost(h, m) == IF h[m].previous = None THEN m ELSE Foremost(h, h[m].previous)

\* Mutant: `;' is put before the last message and not before the first.
ChainedAtLast(h, m, last) ==
  [Append(h, NewMsg(<<59>>, <<>>, last)) EXCEPT ![m].previous = Len(h) + 1]

\* A `;' whose previous message is `last' goes before the chain that ends in m.
Chained(h, m, last) ==
  [Append(h, NewMsg(<<59>>, <<>>, last)) EXCEPT ![Foremost(h, m)].previous = Len(h) + 1]

RECURSIVE Visit(_, _), VisitEach(_, _), VisitBlock(_, _, _)

\* map(self.visit, nodes)
VisitEach(h, nodes) ==
  IF nodes = <<>>
  THEN Gives(h, List(<<>>))
  ELSE LET front == VisitEach(h, Front(nodes)) IN
       IF front.value = Raised THEN front
       ELSE LET v == Visit(front.heap, Last(nodes)) IN
            IF v.value = Raised THEN v
            ELSE Gives(v.heap, List(Append(front.value.elems, v.value)))

\* visit_Block: the messages after the first, each chained to the last one.
VisitBlock(h, last, nodes) ==
  IF nodes = <<>>
  THEN Gives(h, last)
  ELSE LET v == Visit(h, Head(nodes)) IN
       IF v.value = Raised \/ IsList(v.value) \/ IsList(last)
       THEN Gives(v.heap, Raised)
       ELSE VisitBlock(Chained(v.heap, v.value.id, last.id), v.value, Tail(nodes))

\* visit_Message, visit_BinaryOp, visit_SetSlot, visit_UpdateSlot: the node to
\* the left, then the arguments.  What is to the left must be one message.
VisitSend(h, n, first) ==
  LET left == IF n.left = <<>> THEN Gives(h, Result(None)) ELSE Visit(h, n.left[1])
      named == IF first = <<>> THEN left.heap ELSE Append(left.heap, NewMsg(first[1], <<>>, None))
      args == VisitEach(named, n.nodes)
      slot == IF first = <<>> THEN <<>> ELSE <<Result(Len(named))>>
  IN  IF left.value = Raised \/ IsList(left.value) \/ args.value = Raised
      THEN Gives(args.heap, Raised)
      ELSE Adds(args.heap, NewMsg(n.name, Ids(Flattenl(slot \o args.value.elems)), left.value.id))

Visit(h, n) ==
  CASE n.kind \in {"String", "Int"} -> Adds(h, NewMsg(n.name, <<>>, None))
    [] n.kind \in {"Message", "BinaryOp"} -> VisitSend(h, n, <<>>)
    [] n.kind \in {"SetSlot", "UpdateSlot"} -> VisitSend(h, n, <<n.slot>>)
    [] n.kind = "Arrow" -> VisitEach(h, n.nodes)
    [] n.kind = "Block" -> LET first == Visit(h, Head(n.nodes)) IN
                           IF first.value = Raised THEN first
                           ELSE VisitBlock(first.heap, first.value, Tail(n.nodes))

NoBytes == <<>>

NotCompiled == [heap |-> <<>>, value |-> Raised, bytes |-> NoBytes]

\* compiled.generate_full() of the test program, without the signature.
CompileTree ==
  /\ node # None
  /\ compiled = NotCompiled
  /\ LET v == Visit(<<>>, node)
         fails == v.value = Raised \/ IsList(v.value)
     IN compiled' = [heap |-> v.heap, value |-> v.value,
                     bytes |-> IF fails THEN NoBytes
                               ELSE IF HasNone(v.heap, v.value.id) \/ PackFails(v.heap) THEN NoBytes
                               ELSE GenerateAvalanche(v.heap, v.value.id)]
  /\ UNCHANGED node

-----------------------------------------------------------------------------
(***************************************************************************)
(* Properties.                                                             *)
(***************************************************************************)

\* The program that a tree stands for: the messages of a block one after the
\* other with `;' between them, what is to the left before the message, and
\* the elements of an arrow as arguments of their own.
RECURSIVE Meaning(_), ArgumentsOf(_), Sole(_)

\* The node itself, or the only one in a block.
Sole(n) == IF n.kind = "Block" /\ Len(n.nodes) = 1 THEN Sole(n.nodes[1]) ELSE n

ArgumentsOf(nodes) ==
  IF nodes = <<>> THEN <<>>
  ELSE LET n == Sole(Head(nodes)) IN
       (IF n.kind = "Arrow" THEN ArgumentsOf(n.nodes) ELSE <<Meaning(n)>>) \o ArgumentsOf(Tail(nodes))

Send(name, args) == <<[name |-> name, args |-> args]>>

Meaning(n) ==
  LET before == IF n.left = <<>> THEN <<>> ELSE Meaning(n.left[1]) IN
  CASE n.kind \in {"String", "Int"} -> Send(n.name, <<>>)
    [] n.kind \in {"Message", "BinaryOp"} -> before \o Send(n.name, ArgumentsOf(n.nodes))
    [] n.kind \in {"SetSlot", "UpdateSlot"} ->
         before \o Send(n.name, <<Send(n.slot, <<>>)>> \o ArgumentsOf(n.nodes))
    [] n.kind = "Block" ->
         FoldLeft(LAMBDA all, m : all \o Send(<<59>>, <<>>) \o Meaning(m),
                  Meaning(Head(n.nodes)), Tail(n.nodes))
    [] n.kind = "Arrow" -> <<>>

RECURSIVE ArrowsInPlace(_, _)
ArrowsInPlace(n, argument) ==
  /\ n.kind = "Arrow" => argument
  /\ \A k \in DOMAIN n.left : ArrowsInPlace(n.left[k], FALSE)
  /\ \A k \in DOMAIN n.nodes :
       ArrowsInPlace(n.nodes[k],
                     IF n.kind = "Block" THEN argument /\ Len(n.nodes) = 1 ELSE n.kind # "Arrow")

(* A tree is refused only for an arrow that is not the whole of an         *)
(* argument, or is in another arrow, or for too many arguments.            *)
RefusesOnlyStrayArrows ==
  compiled # NotCompiled /\ ArrowsInPlace(node, FALSE) /\ ~PackFails(compiled.heap)
    => compiled.bytes # NoBytes
=============================================================================
