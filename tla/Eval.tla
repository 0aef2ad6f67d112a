-------------------------------- MODULE Eval --------------------------------
(***************************************************************************)
(* One thread of the skelde interpreter: message dispatch over the         *)
(* callstack of contexts (message.c), the chain of setjmp contexts behind  *)
(* `try', `times', `break' and `continue' (exc.h, vm.c, object.c,          *)
(* number.c), and method calls (method.c).                                 *)
(*                                                                         *)
(* The C stack is the sequence `frames': one record for each active call   *)
(* of main, sk_message_start_dispatch ("avalanche"),                       *)
(* sk_object_send_message_simple ("send"), sk_method_call ("method"),      *)
(* sk_object__try ("try"), sk_number__times ("times") or of any other      *)
(* built-in method ("native").  sk_message_dispatch_simple has no frame of *)
(* its own: it is its caller's frame at pc = "lookup".                     *)
(*                                                                         *)
(* Which slots an object has is left open: any object of the callstack may *)
(* answer a message with a built-in, a method or a stored object, or not   *)
(* answer it.                                                              *)
(***************************************************************************)
EXTENDS Integers, SequencesExt

CONSTANTS
  Lobby,       \* vm->lobby, the bottom of every callstack
  Nil,         \* vm->nil
  Values,      \* the other objects whose proto chain ends in `Object'
  Excs,        \* those of them that are exceptions
  Contexts,    \* child contexts: objects without a proto, with slots for
               \* `self', for `call' and the arguments of a method or for
               \* the exception a handler caught
  NULL,        \* the C null pointer
  Builtins,    \* the built-ins that programs use, a subset of Ways
  MaxFrames, MaxStack, MaxArgs, MaxTryArgs, MaxTimes, MaxFiles   \* bounds of the model

ASSUME ExcsAreValues == Excs \subseteq Values
ASSUME NullIsNoObject == NULL \notin {Lobby, Nil} \cup Values \cup Contexts
ASSUME BoundsAreNat == {MaxFrames, MaxStack, MaxArgs, MaxTryArgs, MaxTimes, MaxFiles} \subseteq Nat

Objects == {Lobby, Nil} \cup Values \cup Contexts

VARIABLES
  frames,     \* the C stack, innermost call last
  callstack,  \* the thread's callstack of contexts, top last
  jmpctx,     \* the chain of jump contexts, head last: the depths of the
              \* frames that called setjmp
  exc,        \* the thread's current exception
  held,       \* objects that are the value of some slot
  mode,       \* what the machine does next: run the innermost frame, deliver
              \* val to it, or continue there after a longjmp with code
  val,        \* the value a call returned
  code        \* the jump code, or the reason of an abort

vars == <<frames, callstack, jmpctx, exc, held, mode, val, code>>

(***************************************************************************)
(* Frames.  `entry' is history: the callstack when the call began.         *)
(***************************************************************************)
Frame == [fn    : {"main", "avalanche", "send", "method", "try", "times", "native"},
          pc    : {"first", "next", "lookup", "args", "body", "loop", "call",
                   "block", "match", "class", "handler"},
          entry : Seq(Objects),
          self  : Objects,          \* the object that answered the message
          argc  : Nat,              \* arguments of the call (times: repetitions)
          i     : Nat,              \* the C loop variable
          res   : Objects \cup {NULL},
          saved : Seq(Objects),     \* __jmp_ctx->callstack
          out   : {"self", "fresh", "slot", "arg", "NULL", "print", "if", "raise",
                   "BREAK", "CONTINUE", "CRASH"}]

NewFrame(fn, pc, entry, self, argc) ==
  [fn |-> fn, pc |-> pc, entry |-> entry, self |-> self, argc |-> argc, i |-> 0,
   res |-> Nil, saved |-> <<>>, out |-> "self"]

Active == Last(frames)

Runs(fn, pc) == mode = "run" /\ Active.fn = fn /\ Active.pc = pc
Returned(fn, pc) == mode = "return" /\ Active.fn = fn /\ Active.pc = pc
Jumped(fn) == mode = "jump" /\ Active.fn = fn

\* val and code keep nothing once they are delivered.
Control(m, v, c) == mode' = m /\ val' = v /\ code' = c

Continue(f) == /\ frames' = [frames EXCEPT ![Len(frames)] = f]
               /\ Control("run", NULL, "none")

Call(f, callee) == /\ frames' = Append([frames EXCEPT ![Len(frames)] = f], callee)
                   /\ Control("run", NULL, "none")

Return(v) == /\ frames' = Front(frames)
             /\ Control("return", v, "none")

\* The process ends: its threads, their stacks and jump contexts are gone.
Die(reason) == /\ frames' = <<>>
               /\ jmpctx' = <<>>
               /\ Control("abort", NULL, reason)

Room(n) == Len(frames) + n <= MaxFrames
MayRaise == Len(callstack) <= MaxStack

-----------------------------------------------------------------------------
(***************************************************************************)
(* Jump contexts.                                                          *)
(***************************************************************************)

\* Mutant: sk_exc_jump asks for the next context and not for the head.
JumpToUnlessLast(chain, c) ==
  IF Len(chain) <= 1
  THEN Die(c)
  ELSE /\ frames' = SubSeq(frames, 1, Last(chain))
       /\ jmpctx' = chain
       /\ Control("jump", NULL, c)

\* longjmp to the context at the head of `chain', or the root handler.
JumpTo(chain, c) ==
  IF chain = <<>>
  THEN Die(c)
  ELSE /\ frames' = SubSeq(frames, 1, Last(chain))
       /\ jmpctx' = chain
       /\ Control("jump", NULL, c)

Raise == \E e \in Excs :
           /\ exc' = e
           /\ JumpTo(jmpctx, "EXCEPTION")
           /\ UNCHANGED <<callstack, held>>

PushJmpContext == jmpctx' = Append(jmpctx, Len(frames))
PopJmpContext == jmpctx' = Front(jmpctx)

\* Mutant: sk_exc_end_try does not set the callstack back.
EndTryKeepsCallstack == /\ UNCHANGED callstack
                        /\ PopJmpContext

EndTry == /\ callstack' = Active.saved
          /\ PopJmpContext

Pass == /\ callstack' = Active.saved
        /\ JumpTo(Front(jmpctx), code)
        /\ UNCHANGED <<exc, held>>

-----------------------------------------------------------------------------
(***************************************************************************)
(* sk_message_start_dispatch: a chain of messages, each sent to the result *)
(* of the one before, which sits on top of the callstack.                  *)
(***************************************************************************)

\* Frame f starts the dispatch of a chain on `stack': its top is duplicated.
StartDispatch(f, stack) ==
  /\ Call(f, NewFrame("avalanche", "first", stack, Lobby, 0))
  /\ callstack' = Append(stack, Last(stack))

EvalArg(f) == StartDispatch(f, callstack) /\ UNCHANGED <<jmpctx, exc, held>>

AtMessage == Runs("avalanche", "first") \/ Runs("avalanche", "next")

\* The result of a message replaces the top of the callstack.
SetTop(v) == callstack' = [callstack EXCEPT ![Len(callstack)] = v]

Literal == /\ AtMessage
           /\ \E v \in Values :
                /\ SetTop(v)
                /\ Continue([Active EXCEPT !.pc = "next", !.res = v])
           /\ UNCHANGED <<jmpctx, exc, held>>

\* ";": the top becomes the chain's context again.
Terminator == /\ AtMessage
              /\ SetTop(Last(Front(callstack)))
              /\ Continue([Active EXCEPT !.pc = "next", !.res = NULL])
              /\ UNCHANGED <<jmpctx, exc, held>>

\* A name: ask the objects of the callstack, top first.
LookupMessage == /\ AtMessage
                 /\ Continue([Active EXCEPT !.pc = "lookup", !.i = Len(callstack), !.res = NULL])
                 /\ UNCHANGED <<callstack, jmpctx, exc, held>>

\* Mutant: after ";" there is no result.
ResultOfLastMessage == Active.res

\* The end of the chain; after ";" its result is the top of the callstack.
DispatchResult == IF Active.res = NULL THEN Last(callstack) ELSE Active.res

FinishDispatch == /\ Runs("avalanche", "next")
                  /\ Return(DispatchResult)
                  /\ callstack' = Front(callstack)
                  /\ UNCHANGED <<jmpctx, exc, held>>

(***************************************************************************)
(* sk_object_send_message_simple: one message, sent from C to obj.         *)
(***************************************************************************)
SendSimple(f, obj) ==
  /\ callstack' = Append(callstack, obj)
  /\ Call(f, [NewFrame("send", "lookup", callstack, obj, 0)
                EXCEPT !.i = Len(callstack) + 1])
  /\ UNCHANGED <<jmpctx, exc, held>>

-----------------------------------------------------------------------------
(***************************************************************************)
(* sk_message_dispatch_simple: the loop over the callstack.                *)
(***************************************************************************)
Asking == Active.pc = "lookup" /\ Active.i > 0

Asked == callstack[Active.i]

\* Any object can hold something to call, a child context among its arguments
\* or, when the call's receiver is a clone of Method or a built-in that was
\* read with get_slot, in its slot `self'.
Callee == mode = "run" /\ Asking

\* The message is answered: hand v to the caller of dispatch_simple.
Answered(v) ==
  \/ /\ Active.fn = "avalanche"
     /\ SetTop(v)
     /\ Continue([Active EXCEPT !.pc = "next", !.i = 0, !.res = v])
  \/ /\ Active.fn = "send"
     /\ callstack' = Front(callstack)
     /\ Return(v)

AskNext == /\ Continue([Active EXCEPT !.i = @ - 1])
           /\ UNCHANGED <<callstack, jmpctx, exc, held>>

NotAnswered == /\ mode = "run" /\ Asking
               /\ Active.i > 1 \/ MayRaise
               /\ AskNext

\* A slot whose value is not activatable is the answer.  A child context has
\* no proto and so no slot `activatable': asking for it aborts the process.
AnswerSlot == /\ mode = "run" /\ Asking
              /\ \E v \in held :
                   \/ /\ v \in Contexts
                      /\ Die("activatable")
                      /\ UNCHANGED callstack
                   \/ /\ v \notin Contexts
                      /\ Answered(v)
                      /\ UNCHANGED jmpctx
              /\ UNCHANGED <<exc, held>>

Nobody == /\ mode = "run"
          /\ Active.pc = "lookup"
          /\ Active.i = 0
          /\ Raise

\* Mutant: the result NULL of a built-in ends the search.
CallReturnedAnyway == /\ mode = "return" /\ Asking
                      /\ Answered(val)
                      /\ UNCHANGED <<jmpctx, exc, held>>

\* A built-in or a method came back to the dispatch loop.
CallReturned == /\ mode = "return" /\ Asking
                /\ \/ val # NULL /\ Answered(val) /\ UNCHANGED <<jmpctx, exc, held>>
                   \/ val = NULL /\ AskNext

-----------------------------------------------------------------------------
(***************************************************************************)
(* Built-ins that neither catch jumps nor push contexts.  A way a built-in *)
(* can go is the number of arguments it evaluates and what it does then:   *)
(* the built-ins are told apart only by these.                             *)
(***************************************************************************)
Ways ==
       \* set_slot, update_slot, append, set_at, load_shared_module; lock, start ...
  {<<k, "self">> : k \in 0..2}
       \* clone, message, to_string, ==, +; an `if' none of whose conditions is true
  \cup {<<k, "fresh">> : k \in 0..MaxArgs}
       \* Message dispatch; an `if' with a true condition
  \cup {<<k, "arg">> : k \in 1..MaxArgs}
       \* ArgumentError, SlotError, TypeError, IndexError
  \cup {<<k, "raise">> : k \in 0..2}
       \* get_slot and get_at; update_slot of a slot self does not have
  \cup {<<1, "slot">>, <<1, "NULL">>}
       \* print and println; an `if' with a single argument
  \cup {<<0, "print">>, <<1, "if">>}
       \* break; continue; a missing argument nobody checked for
  \cup {<<0, "BREAK">>, <<0, "CONTINUE">>, <<0, "CRASH">>}

ASSUME BuiltinsAreWays == Builtins \subseteq Ways

Frames(k, out) == IF k > 0 \/ out = "print" THEN 2 ELSE 1

CallNative == /\ Callee
              /\ \E w \in Builtins :
                   /\ Room(Frames(w[1], w[2]))
                   /\ w[2] = "raise" \/ (w[2] = "NULL" /\ Active.i = 1) => MayRaise
                   /\ Call(Active, [NewFrame("native", "args", callstack, Asked, w[1])
                                      EXCEPT !.out = w[2]])
              /\ UNCHANGED <<callstack, jmpctx, exc, held>>

NativeArg == /\ Runs("native", "args")
             /\ Active.i < Active.argc
             /\ EvalArg(Active)

NativeArgDone == /\ Returned("native", "args")
                 /\ Continue([Active EXCEPT !.i = @ + 1, !.res = val])
                 /\ UNCHANGED <<callstack, jmpctx, exc, held>>

Done(out) == Runs("native", "args") /\ Active.i = Active.argc /\ Active.out = out

NativeReturn ==
  /\ \/ /\ Done("self")                        \* what it was given is stored
        /\ Return(Active.self)
        /\ held' = IF Active.argc > 0 THEN held \cup {Active.res} ELSE held
     \/ /\ Done("fresh")
        /\ \E v \in Values : Return(v)
        /\ UNCHANGED held
     \/ /\ Done("slot")
        /\ \E v \in held : Return(v)
        /\ UNCHANGED held
     \/ /\ Done("arg")
        /\ Return(Active.res)
        /\ UNCHANGED held
     \/ /\ Done("NULL")
        /\ Return(NULL)
        /\ UNCHANGED held
  /\ UNCHANGED <<callstack, jmpctx, exc>>

\* print sends to_string to self, `if' sends to_bool to its argument.
NativeSend == \/ /\ Done("print")
                 /\ SendSimple([Active EXCEPT !.pc = "call"], Active.self)
              \/ /\ Done("if")
                 /\ SendSimple([Active EXCEPT !.pc = "call"], Active.res)

NativeSent == /\ Returned("native", "call")
              /\ \/ Active.out = "print" /\ Return(Active.self)
                 \/ Active.out = "if" /\ \E v \in Values : Return(v)
              /\ UNCHANGED <<callstack, jmpctx, exc, held>>

NativeRaise == Done("raise") /\ Raise

NativeJump == /\ \E c \in {"BREAK", "CONTINUE"} : Done(c) /\ JumpTo(jmpctx, c)
              /\ UNCHANGED <<callstack, exc, held>>

NativeCrash == Done("CRASH") /\ Die("CRASH") /\ UNCHANGED <<callstack, exc, held>>

-----------------------------------------------------------------------------
(***************************************************************************)
(* sk_method_call: evaluate the arguments in the caller's context, then    *)
(* the body in a child context.                                            *)
(***************************************************************************)
CallMethod == /\ Callee
              /\ Room(2)
              /\ \E n \in 0..MaxArgs :
                   Call(Active, NewFrame("method", "args", callstack, Asked, n))
              /\ held' = held \cup {Asked}     \* the context's slot `self'
              /\ UNCHANGED <<callstack, jmpctx, exc>>

MethodArg == /\ Runs("method", "args")
             /\ Active.i < Active.argc
             /\ EvalArg(Active)

MethodArgDone == /\ Returned("method", "args")
                 /\ Continue([Active EXCEPT !.i = @ + 1])
                 /\ held' = held \cup {val}
                 /\ UNCHANGED <<callstack, jmpctx, exc>>

MethodBody == /\ Runs("method", "args")
              /\ Active.i = Active.argc
              /\ \E ctx \in Contexts :
                   StartDispatch([Active EXCEPT !.pc = "body"], Append(callstack, ctx))
              /\ UNCHANGED <<jmpctx, exc, held>>

\* Mutant: the context of the call is left on the callstack.
MethodDoneKeepsContext == /\ Returned("method", "body")
                          /\ Return(val)
                          /\ UNCHANGED <<callstack, jmpctx, exc, held>>

MethodDone == /\ Returned("method", "body")
              /\ Return(val)
              /\ callstack' = Front(callstack)
              /\ UNCHANGED <<jmpctx, exc, held>>

-----------------------------------------------------------------------------
(***************************************************************************)
(* sk_object__try: argument 0 is the block, then come clauses of three     *)
(* arguments (class, name, handler) and, with what is left, a default      *)
(* handler.  The handler runs on the callstack of the raise and with the   *)
(* try's own jump context still at the head of the chain.                  *)
(***************************************************************************)
Clauses(argc) == (argc - 1) \div 3
HasDefault(argc) == argc > Clauses(argc) * 3 + 1

CallTry == /\ Callee
           /\ Room(2)
           /\ \E n \in 1..MaxTryArgs :
                Call(Active, NewFrame("try", "call", callstack, Asked, n))
           /\ UNCHANGED <<callstack, jmpctx, exc, held>>

TryBlock == /\ Runs("try", "call")
            /\ PushJmpContext
            /\ StartDispatch([Active EXCEPT !.pc = "block", !.saved = callstack], callstack)
            /\ UNCHANGED <<exc, held>>

\* An exception jumped here: from the block, or from a class expression or a
\* handler of this very try.
TryCatch == /\ Jumped("try")
            /\ code = "EXCEPTION"
            /\ Continue([Active EXCEPT !.pc = "match", !.i = 0, !.res = exc])
            /\ UNCHANGED <<callstack, jmpctx, exc, held>>

TryPass == Jumped("try") /\ code # "EXCEPTION" /\ Pass

TryClass == /\ Runs("try", "match")
            /\ Active.i < Clauses(Active.argc)
            /\ EvalArg([Active EXCEPT !.pc = "class"])

Handle == /\ \E ctx \in Contexts :
               StartDispatch([Active EXCEPT !.pc = "handler"], Append(callstack, ctx))
          /\ held' = held \cup {Active.self}
          /\ UNCHANGED <<jmpctx, exc>>

\* sk_object_is_derived_from: only an object with a proto chain is a class.
TryMatched == Returned("try", "class") /\ val \in Values /\ Handle

TryNotMatched == /\ Returned("try", "class")
                 /\ Continue([Active EXCEPT !.pc = "match", !.i = @ + 1])
                 /\ UNCHANGED <<callstack, jmpctx, exc, held>>

TryDefault == /\ Runs("try", "match")
              /\ Active.i = Clauses(Active.argc)
              /\ HasDefault(Active.argc)
              /\ Handle

\* The block or a handler is done, or no clause was there for the exception.
TryEnd == /\ \/ Returned("try", "block")
             \/ Returned("try", "handler")
             \/ /\ Runs("try", "match")
                /\ Active.i = Clauses(Active.argc)
                /\ ~HasDefault(Active.argc)
          /\ Return(Active.self)
          /\ EndTry
          /\ UNCHANGED <<exc, held>>

-----------------------------------------------------------------------------
(***************************************************************************)
(* sk_number__times: each repetition runs in a jump context of its own.    *)
(***************************************************************************)
CallTimes == /\ Callee
             /\ Room(2)
             /\ \E n \in 0..MaxTimes :
                  Call(Active, NewFrame("times", "loop", callstack, Asked, n))
             /\ UNCHANGED <<callstack, jmpctx, exc, held>>

TimesBody == /\ Runs("times", "loop")
             /\ Active.i < Active.argc
             /\ PushJmpContext
             /\ StartDispatch([Active EXCEPT !.pc = "body", !.saved = callstack], callstack)
             /\ UNCHANGED <<exc, held>>

TimesBodyDone == /\ Returned("times", "body")
                 /\ Continue([Active EXCEPT !.pc = "loop", !.i = @ + 1, !.res = val])
                 /\ EndTry
                 /\ UNCHANGED <<exc, held>>

\* Mutant: break leaves the loop's body before sk_exc_end_try.
TimesBreakOrphan == /\ Jumped("times")
                    /\ code = "BREAK"
                    /\ Return(Active.res)
                    /\ UNCHANGED <<callstack, jmpctx, exc, held>>

TimesContinue == /\ Jumped("times")
                 /\ code = "CONTINUE"
                 /\ Continue([Active EXCEPT !.pc = "loop", !.i = @ + 1])
                 /\ EndTry
                 /\ UNCHANGED <<exc, held>>

TimesBreak == /\ Jumped("times")
              /\ code = "BREAK"
              /\ Return(Active.res)
              /\ EndTry
              /\ UNCHANGED <<exc, held>>

TimesPass == Jumped("times") /\ code \notin {"BREAK", "CONTINUE"} /\ Pass

TimesEnd == /\ Runs("times", "loop")
            /\ Active.i = Active.argc
            /\ Return(Active.res)
            /\ UNCHANGED <<callstack, jmpctx, exc, held>>

-----------------------------------------------------------------------------
(***************************************************************************)
(* main: run the files of the command line one after the other, each on a  *)
(* callstack of its own (sk_vm_setup_thread).                              *)
(***************************************************************************)
RunFile == /\ Runs("main", "next")
           /\ Active.i > 0
           /\ StartDispatch([Active EXCEPT !.i = @ - 1], <<Lobby>>)
           /\ UNCHANGED <<jmpctx, exc, held>>

FileDone == /\ Returned("main", "next")
            /\ Continue(Active)
            /\ UNCHANGED <<callstack, jmpctx, exc, held>>

Exit == /\ Runs("main", "next")
        /\ Active.i = 0
        /\ mode' = "exit"
        /\ UNCHANGED <<frames, callstack, jmpctx, exc, held, val, code>>

-----------------------------------------------------------------------------
Init == /\ \E n \in 1..MaxFiles :
             frames = <<[NewFrame("main", "next", <<>>, Lobby, n) EXCEPT !.i = n]>>
        /\ callstack = <<>>
        /\ jmpctx = <<>>
        /\ exc = NULL
        /\ held = {Nil} \cup Values
        /\ mode = "run"
        /\ val = NULL
        /\ code = "none"

Main == RunFile \/ FileDone \/ Exit
Avalanche == Literal \/ Terminator \/ LookupMessage \/ FinishDispatch
Dispatch == NotAnswered \/ AnswerSlot \/ Nobody \/ CallReturned
            \/ CallNative \/ CallMethod \/ CallTry \/ CallTimes
Native == \/ NativeArg \/ NativeArgDone \/ NativeReturn \/ NativeSend \/ NativeSent
          \/ NativeRaise \/ NativeJump \/ NativeCrash
Method == MethodArg \/ MethodArgDone \/ MethodBody \/ MethodDone
Try == TryBlock \/ TryCatch \/ TryPass \/ TryClass \/ TryMatched \/ TryNotMatched
       \/ TryDefault \/ TryEnd
Times == TimesBody \/ TimesBodyDone \/ TimesContinue \/ TimesBreak \/ TimesPass \/ TimesEnd

\* The process is gone.
Stopped == mode \in {"exit", "abort"} /\ UNCHANGED vars

Next == Main \/ Avalanche \/ Dispatch \/ Native \/ Method \/ Try \/ Times \/ Stopped

Spec == Init /\ [][Next]_vars

-----------------------------------------------------------------------------
(***************************************************************************)
(* Properties.                                                             *)
(***************************************************************************)

(* Every variable, and every field of every frame, has its C type.         *)
TypeOK == /\ frames \in Seq(Frame)
          /\ callstack \in Seq(Objects)
          /\ jmpctx \in Seq(Nat)
          /\ exc \in Excs \cup {NULL}
          /\ held \in SUBSET Objects
          /\ mode \in {"run", "return", "jump", "exit", "abort"}
          /\ val \in Objects \cup {NULL}
          /\ code \in {"none", "EXCEPTION", "BREAK", "CONTINUE", "CRASH", "activatable"}
          /\ mode \in {"run", "return", "jump"} => frames # <<>>

\* A frame whose jump context is on the chain: setjmp was called and neither
\* sk_exc_end_try nor sk_exc_pass was reached.
Guarding(f) == \/ f.fn = "try" /\ f.pc \in {"block", "match", "class", "handler"}
               \/ f.fn = "times" /\ f.pc = "body"

(* The chain of jump contexts names exactly the live calls that are inside *)
(* a sk_exc_try, outermost first, each once: longjmp never targets a       *)
(* function that has returned (the "orphan jump context" of number.c:57),  *)
(* and no context is popped twice (exc.h:41).  A longjmp arrives in the    *)
(* call that pushed the head of the chain.                                 *)
JumpChain == /\ \A k \in DOMAIN jmpctx : /\ jmpctx[k] \in DOMAIN frames
                                         /\ Guarding(frames[jmpctx[k]])
             /\ \A d \in DOMAIN frames : Guarding(frames[d]) =>
                  \E k \in DOMAIN jmpctx : jmpctx[k] = d
             /\ \A k, m \in DOMAIN jmpctx : k < m => jmpctx[k] < jmpctx[m]
             /\ mode = "jump" => jmpctx # <<>> /\ Last(jmpctx) = Len(frames)

Extends(s, t) == Len(t) <= Len(s) /\ \A k \in 1..Len(t) : s[k] = t[k]

\* What frame f has put on the callstack s it began with f.entry.
Grows(f, s) ==
  CASE f.fn = "main" -> s \in {<<>>, <<Lobby>>}
    [] f.fn = "avalanche" -> Extends(s, f.entry) /\ Len(s) = Len(f.entry) + 1
    [] f.fn = "send" -> s = Append(f.entry, f.self)
    [] f.fn = "method" /\ f.pc = "body" ->
         Extends(s, f.entry) /\ Len(s) = Len(f.entry) + 1 /\ Last(s) \in Contexts
    [] f.fn = "try" /\ f.pc \in {"match", "class"} -> Extends(s, f.entry)
    [] f.fn = "try" /\ f.pc = "handler" ->
         Extends(s, f.entry) /\ Len(s) > Len(f.entry) /\ Last(s) \in Contexts
    [] OTHER -> s = f.entry

\* The callstack as frame d sees it: when it called the next frame, or now.
Above(d) == IF d < Len(frames) THEN frames[d + 1].entry ELSE callstack

(* Every call keeps the callstack it was called with and adds what its     *)
(* program point says, through jumps from any depth: an avalanche one top  *)
(* element, a method its context, try and times nothing.  So no kv_pop or  *)
(* kv_top of the C code meets an empty vector, and the indexes that        *)
(* dispatch_simple has still to ask are those of the list it began with.   *)
CallstackShape ==
  /\ \A d \in DOMAIN frames :
       IF d = Len(frames) /\ mode = "jump"
       THEN Extends(callstack, frames[d].entry)
       ELSE Grows(frames[d], Above(d))
  /\ \A d \in DOMAIN frames : /\ Guarding(frames[d]) => frames[d].saved = frames[d].entry
                              /\ d > 1 => Extends(frames[d].entry, <<Lobby>>)

(* A call returns with the callstack it was called with, whatever was      *)
(* raised, caught, broken off or continued inside it.                      *)
ReturnRestores == [][mode' = "return" => callstack' = Active.entry]_vars

Handles(f, c) == /\ Guarding(f)
                 /\ \/ f.fn = "try" /\ c = "EXCEPTION"
                    \/ f.fn = "times" /\ c \in {"BREAK", "CONTINUE"}

JumpCodes == {"EXCEPTION", "BREAK", "CONTINUE"}

(* An exception, a break or a continue abandons no call that handles it:   *)
(* exceptions pass through times and breaks through try, and the root      *)
(* handler kills the process only when nobody was there.                   *)
NoHandlerSkipped ==
  [][mode' = "jump" \/ (mode' = "abort" /\ code' \in JumpCodes) =>
       \A d \in Len(frames') + 1 .. Len(frames) : ~Handles(frames[d], code')]_vars

(* How the calls are nested: main is at the bottom and nowhere else, a     *)
(* built-in or method is above the dispatch loop that called it, entries   *)
(* grow upwards, a lookup asks indexes of the callstack it began with, and *)
(* only the dispatch loop is ever handed a null pointer.                   *)
StackDiscipline ==
  /\ \A d \in DOMAIN frames : LET f == frames[d] IN
       /\ f.fn = "main" <=> d = 1
       /\ f.fn = "main" => f.entry = <<>> /\ f.pc = "next"
       /\ f.pc = "lookup" => f.fn \in {"avalanche", "send"} /\ f.i <= Len(f.entry) + 1
       /\ f.fn = "native" => f.res # NULL
       /\ f.fn \in {"native", "method", "try", "times"} => frames[d - 1].pc = "lookup"
  /\ \A d, c \in DOMAIN frames : c < d => Extends(frames[d].entry, frames[c].entry)
  /\ mode = "return" /\ Active.pc # "lookup" => val # NULL

(* object.c:206: the search for `activatable' never fails.                 *)
ActivatableNeverFails == ~(mode = "abort" /\ code = "activatable")

(* vm.c:159: a jump code other than an exception never reaches the root    *)
(* handler.                                                                *)
NoStrangeJumpCode == ~(mode = "abort" /\ code \in {"BREAK", "CONTINUE"})
=============================================================================
