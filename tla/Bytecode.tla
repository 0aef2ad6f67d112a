------------------------------ MODULE Bytecode ------------------------------
(***************************************************************************)
(* The decoder of the virtual machine (bytecode.c): from a stream of bytes *)
(* to message objects that are linked by `next' and `previous'.  The C     *)
(* stack is explicit: sk_bytecode_parse_avalanche calls                    *)
(* sk_bytecode_parse_message for every message, which calls                *)
(* sk_bytecode_parse_avalanche for every argument.  A step is one call of  *)
(* fread, or the reading of a name.                                        *)
(***************************************************************************)
EXTENDS Opcodes, Sequences

CONSTANTS Signature,   \* "sk" and the version
          NULL         \* the C null pointer

ASSUME NullIsNoMessage == NULL \notin Nat

Nil == 0               \* vm->nil; message objects are numbered from 1

VARIABLES
  stream,    \* the bytes of the file
  stdin,     \* whether it is the standard input
  offset,       \* how many were read
  calls,     \* the C stack; `msg' is the message that was parsed last or is
             \* being parsed, `left' the arguments that it still lacks
  objs,      \* the message objects
  state,     \* "idle", "reading", "done", "abort", "crash", "exit"
  avalanche  \* what sk_bytecode_parse_stream returned

decoder == <<stream, stdin, offset, calls, objs, state, avalanche>>

Call == calls[Len(calls)]
Below == SubSeq(calls, 1, Len(calls) - 1)
In(fn) == state = "reading" /\ calls # <<>> /\ Call.fn = fn

Avalanche(msg) == [fn |-> "avalanche", msg |-> msg, left |-> 0]
Message(msg, left) == [fn |-> "message", msg |-> msg, left |-> left]

AtEnd == offset = Len(stream)
Next1 == stream[offset + 1]

Stop(how) == /\ state' = how
             /\ UNCHANGED <<stream, stdin, offset, calls, objs, avalanche>>

\* sk_bytecode_parse_stream
ReadSignature ==
  /\ state = "reading" /\ calls = <<>>
  /\ IF Len(stream) < 4
     THEN Stop(IF stdin THEN "exit" ELSE "abort")
     ELSE IF SubSeq(stream, 1, 4) # Signature
     THEN Stop("abort")
     ELSE /\ offset' = 4
          /\ calls' = <<Avalanche(NULL)>>
          /\ UNCHANGED <<stream, stdin, objs, state, avalanche>>

-----------------------------------------------------------------------------
\* The name from byte `from' on ends before byte k, the first '\0'.
NameEnds(from, k) == stream[k] = 0 /\ \A j \in from..k - 1 : stream[j] # 0

NewMessage(name) == [name |-> name, args |-> <<>>, next |-> Nil, previous |-> Nil]

\* sk_bytecode_parse_message, up to the number of arguments.  Without a byte
\* for the name bgets returns NULL; without its '\0', or when that is the last
\* byte, fread finds no number.
ParseMessage ==
  LET from == offset + 2 IN
  \/ from > Len(stream) /\ Stop("crash")
  \/ /\ from <= Len(stream)
     /\ \A k \in from..Len(stream) - 1 : stream[k] # 0
     /\ Stop("abort")
  \/ \E k \in from..Len(stream) - 1 :
       /\ NameEnds(from, k)
       /\ objs' = Append(objs, NewMessage(SubSeq(stream, from, k - 1)))
       /\ calls' = Append(calls, Message(Len(objs) + 1, stream[k + 1]))
       /\ offset' = k + 1
       /\ UNCHANGED <<stream, stdin, state, avalanche>>

\* case SK_OPCODE_EOA: return msg
Return == /\ offset' = offset + 1
          /\ IF Len(calls) = 1
             THEN /\ state' = "done"
                  /\ avalanche' = Call.msg
                  /\ calls' = <<>>
                  /\ UNCHANGED objs
             ELSE /\ LET caller == calls[Len(calls) - 1] IN
                     /\ objs' = [objs EXCEPT ![caller.msg].args = Append(@, Call.msg)]
                     /\ calls' = [Below EXCEPT ![Len(Below)].left = @ - 1]
                  /\ UNCHANGED <<state, avalanche>>
          /\ UNCHANGED <<stream, stdin>>

\* Mutant: an unknown opcode is passed over.
ReadOpcodeLenient == /\ In("avalanche")
                     /\ \/ AtEnd /\ Stop("abort")
                        \/ ~AtEnd /\ Next1 = OP_MESSAGE /\ ParseMessage
                        \/ ~AtEnd /\ Next1 = OP_EOA /\ Return
                        \/ /\ ~AtEnd /\ Next1 \notin {OP_MESSAGE, OP_EOA}
                           /\ offset' = offset + 1
                           /\ UNCHANGED <<stream, stdin, calls, objs, state, avalanche>>

ReadOpcode == /\ In("avalanche")
              /\ \/ /\ AtEnd
                    /\ Stop("abort")
                 \/ /\ ~AtEnd
                    /\ \/ Next1 = OP_MESSAGE /\ ParseMessage
                       \/ Next1 = OP_EOA /\ Return
                       \/ Next1 \notin {OP_MESSAGE, OP_EOA} /\ Stop("abort")

\* The next turn of the loop over the arguments.
ParseArgument == /\ In("message")
                 /\ Call.left > 0
                 /\ calls' = Append(calls, Avalanche(NULL))
                 /\ UNCHANGED <<stream, stdin, offset, objs, state, avalanche>>

\* Mutant: `previous' is not set.
LinkForward(previous, msg) ==
  IF previous = NULL THEN objs ELSE [objs EXCEPT ![previous].next = msg]

\* The previous message is NULL for the first one.
Link(previous, msg) ==
  IF previous = NULL
  THEN objs
  ELSE [objs EXCEPT ![msg].previous = previous, ![previous].next = msg]

\* sk_bytecode_parse_message returns to sk_bytecode_parse_avalanche.
EndMessage == /\ In("message")
              /\ Call.left = 0
              /\ objs' = Link(Below[Len(Below)].msg, Call.msg)
              /\ calls' = [Below EXCEPT ![Len(Below)].msg = Call.msg]
              /\ UNCHANGED <<stream, stdin, offset, state, avalanche>>

Decode == ReadSignature \/ ReadOpcode \/ ParseArgument \/ EndMessage

Idle == state = "idle" /\ offset = 0 /\ calls = <<>> /\ objs = <<>> /\ avalanche = NULL

\* sk_bytecode_parse_filename
Load(bytes) == /\ stream' = bytes
               /\ state' = "reading"
               /\ UNCHANGED <<stdin, offset, calls, objs, avalanche>>

\* The decoder by itself, on any bytes.
DecoderSpec == /\ Idle /\ stdin \in BOOLEAN /\ stream = <<>>
               /\ [][\/ state = "idle" /\ \E bytes \in Seq(0..255) : Load(bytes)
                     \/ Decode]_decoder

-----------------------------------------------------------------------------
(***************************************************************************)
(* Properties.                                                             *)
(***************************************************************************)

(* `next' and `previous' of the messages are each other's inverse at every *)
(* moment, and no message is before its argument's messages: the search    *)
(* for the first message of an avalanche ends, at a message without a      *)
(* previous one, as sk_message_start_dispatch asserts.                     *)
LinksMirror ==
  \A m \in DOMAIN objs :
    /\ objs[m].next # Nil => objs[objs[m].next].previous = m
    /\ objs[m].previous # Nil => objs[m].previous < m /\ objs[objs[m].previous].next = m
    /\ \A k \in DOMAIN objs[m].args : objs[m].args[k] # NULL => objs[m].args[k] > m
=============================================================================
