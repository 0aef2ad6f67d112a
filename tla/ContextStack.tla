---------------------------- MODULE ContextStack ----------------------------
(***************************************************************************)
(* What the callstack of contexts promises to message dispatch, as Eval    *)
(* has it: a stack of objects that is a value.  A loop over the stack sees *)
(* the stack as it was when the loop began, whatever is pushed, popped or  *)
(* jumped out of meanwhile, and a try gives it back as it was when the try *)
(* began.                                                                  *)
(***************************************************************************)
EXTENDS Integers, Sequences

CONSTANTS Objects, Lobby

VARIABLES stack,   \* the contexts, top last
          frames   \* the C calls: "run" owns the top of the stack, "loop" asks the
                   \* objects in `seen' from the last to the first, "try" has
                   \* called setjmp when the stack was `seen'

vars == <<stack, frames>>

Frame(kind, seen) == [kind |-> kind, seen |-> seen]

Active == frames[Len(frames)]
Is(kind) == frames # <<>> /\ Active.kind = kind
Caller == SubSeq(frames, 1, Len(frames) - 1)

Init == stack = <<Lobby>> /\ frames = <<>>

Enter == /\ ~Is("run")
         /\ \E x \in Objects : stack' = Append(stack, x)
         /\ frames' = Append(frames, Frame("run", <<>>))

Leave == /\ Is("run")
         /\ stack' = SubSeq(stack, 1, Len(stack) - 1)
         /\ frames' = Caller

Replace == /\ Is("run")
           /\ \E x \in Objects : stack' = [stack EXCEPT ![Len(stack)] = x]
           /\ UNCHANGED frames

Ask == /\ Is("run")
       /\ frames' = Append(frames, Frame("loop", stack))
       /\ UNCHANGED stack

NoAnswer == /\ Is("loop")
            /\ Active.seen # <<>>
            /\ frames' = Append(Caller, Frame("loop", SubSeq(Active.seen, 1, Len(Active.seen) - 1)))
            /\ UNCHANGED stack

Answer == /\ Is("loop")
          /\ frames' = Caller
          /\ UNCHANGED stack

Try == /\ Is("loop")
       /\ frames' = Append(frames, Frame("try", stack))
       /\ UNCHANGED stack

EndTry == /\ Is("try")
          /\ stack' = Active.seen
          /\ frames' = Caller

\* longjmp, to the innermost frame that called setjmp.
Jump == \E k \in DOMAIN frames :
          /\ frames[k].kind = "try"
          /\ \A j \in k + 1..Len(frames) : frames[j].kind # "try"
          /\ frames' = SubSeq(frames, 1, k)
          /\ UNCHANGED stack

\* sk_exc_pass: the try gives the stack back and jumps on.
Pass == /\ Is("try")
        /\ stack' = Active.seen
        /\ \E k \in DOMAIN Caller :
             /\ frames[k].kind = "try"
             /\ \A j \in k + 1..Len(Caller) : frames[j].kind # "try"
             /\ frames' = SubSeq(frames, 1, k)

Next == \/ Enter \/ Leave \/ Replace
        \/ Ask \/ NoAnswer \/ Answer
        \/ Try \/ EndTry \/ Jump \/ Pass

Spec == Init /\ [][Next]_vars
=============================================================================
