------------------------------ MODULE Objects ------------------------------
(***************************************************************************)
(* The prototypes of the virtual machine: how sk_vm_new makes them, and    *)
(* how objects are cloned from them and from their clones.                 *)
(*                                                                         *)
(* An object has slots, data of C, and the functions by which it is cloned *)
(* and by which a clone of it is initialised.  The functions that init and *)
(* clone point to are named by the prototype they belong to; "base" is     *)
(* sk_object_clone_base, and all others were made by                       *)
(* DEFINE_LAZY_CLONE_FUNC.  A method that is bound by C is a name in       *)
(* `methods': the callable object around the function does nothing else.   *)
(* No program here assigns `proto' or gives one kind's name to another.    *)
(* What a built-in reads of its arguments, which no built-in but + of      *)
(* String looks at first, is left out with their evaluation.               *)
(***************************************************************************)
EXTENDS Integers, Sequences, FiniteSets

CONSTANTS NULL,
          MaxObjects,   \* bound: the objects of the heap
          MaxHeld,      \* bound: the objects that the program keeps
          Used          \* bound: the slots of the lobby that the program reads

VARIABLES heap,    \* the objects; an object is named by its place
          step,    \* the statement of sk_vm_new that comes next
          held,    \* objects in slots of the program or on its callstack
          state    \* "running", "aborted" for want of a slot, "crashed" over data
                   \* that is NULL, with the object it happened to

vars == <<heap, step, held, state>>

Nil == 1
True == 2
False == 3
Lobby == 4

Prototypes == {"Object", "Number", "List", "Message", "String",
               "Exception", "Method", "Call", "Thread", "Mutex"}
Errors == {"TypeError", "ArgumentError", "MessageError", "SlotError", "IndexError"}

ConstantNames == {"true", "false", "nil"}

\* What a slot can be called, in the lobby and elsewhere.
SlotNames == Prototypes \cup Errors \cup ConstantNames \cup
             {"proto", "tag", "activatable", "name", "arguments", "next", "previous",
              "message", "argument_names", "self", "call"}

\* The prototypes whose clones have data; an object's data is named by its kind.
WithData == {"Number", "List", "String", "Thread", "Mutex"}

\* The functions `init', which are named by the prototype that has them.
Inits == Prototypes \cup {"Method2", "Message2"}

ASSUME NullIsNothing == NULL \notin Nat \cup SlotNames \cup Inits
ASSUME UsedAreNames == Used \subseteq Prototypes \cup Errors \cup ConstantNames

\* sk_object_new.  `hollow' is history, no field of the program: whether the
\* object is what + made of the prototype String, or of another such object.
NewObject == [slots |-> [name \in SlotNames |-> NULL], methods |-> {},
              data |-> NULL, init |-> NULL, clone |-> "base", hollow |-> FALSE]

Slot(h, o, name) == h[o].slots[name]
With(x, name, v) == [x EXCEPT !.slots = [@ EXCEPT ![name] = v]]
Put(h, o, name, v) == [h EXCEPT ![o] = With(h[o], name, v)]
Proto(h, name) == Slot(h, Lobby, name)
ProtoOf(h, o) == Slot(h, o, "proto")

\* What is k steps up along the slots `proto' of the object.
Up(h, o) == LET up[k \in 0..Len(h) + 1] ==
                  IF k = 0 THEN o ELSE IF up[k - 1] = NULL THEN NULL ELSE ProtoOf(h, up[k - 1])
            IN  up

\* The object and those along its slot `proto', the nearest first.
Ancestry(h, o) ==
  LET n == CHOOSE k \in 0..Len(h) + 1 :
             Up(h, o)[k] = NULL /\ \A j \in 0..k - 1 : Up(h, o)[j] # NULL
  IN  [k \in 1..n |-> Up(h, o)[k - 1]]

\* sk_object_is_derived_from
Above(h, o) == LET a == Ancestry(h, o) IN {a[k] : k \in DOMAIN a \ {1}}
DerivedFrom(h, o, p) == p \in Above(h, o)

\* Whose function answers a message that the object is sent.
Answering(h, o, name) ==
  LET a == Ancestry(h, o)
      ks == {k \in DOMAIN a : name \in h[a[k]].methods}
  IN  IF ks = {} THEN NULL ELSE a[CHOOSE k \in ks : \A j \in ks : k <= j]

-----------------------------------------------------------------------------
(***************************************************************************)
(* Cloning.  The operators on the heap give the heap after the call; the   *)
(* object that the call returns is the first one that was added.           *)
(***************************************************************************)
\* The functions `init' that make no object, on the new object x.
InitNumber(x) == [x EXCEPT !.data = "Number", !.clone = "Number"]
InitString(x) == [x EXCEPT !.data = "String", !.clone = "String"]
InitList(x) == [x EXCEPT !.data = "List"]
InitThread(x) == [x EXCEPT !.data = "Thread"]
InitMutex(x) == [x EXCEPT !.data = "Mutex"]
InitMethod(x) == [With(With(x, "message", Nil), "activatable", True) EXCEPT !.init = "Method2"]
InitMessage2(x) == [x EXCEPT !.clone = "Message", !.init = "Message2"]

Initialised(x, init) == CASE init = "Number" -> InitNumber(x)
                          [] init = "String" -> InitString(x)
                          [] init = "List" -> InitList(x)
                          [] init = "Thread" -> InitThread(x)
                          [] init = "Mutex" -> InitMutex(x)
                          [] init = "Method" -> InitMethod(x)
                          [] init = "Message2" -> InitMessage2(x)
                          [] OTHER -> x

\* sk_object_clone_base up to the call of `init'.
CloneBase(h, o) == With(NewObject, "proto", o)

\* Mutant: the clone is cloned by sk_object_clone_base.
CloneLazyOnce(h, o) == CloneBase(h, o)

\* DEFINE_LAZY_CLONE_FUNC: the clone has the functions of the original.
CloneLazy(h, o) == [With(NewObject, "proto", o) EXCEPT !.clone = h[o].clone, !.init = h[o].init]

Copy(h, o) == IF h[o].clone = "base" THEN CloneBase(h, o) ELSE CloneLazy(h, o)

\* The clone of an object whose `init' makes no object: of a string or a list too.
CloneAlone(h, o) == Append(h, Initialised(Copy(h, o), h[o].init))

\* sk_string_from_bstring: what `init' made is replaced by the text, if any.
StringFrom(h, text) == LET n == Len(h) + 1
                           new == CloneAlone(h, Proto(h, "String"))
                       IN  [new EXCEPT ![n] = [new[n] EXCEPT !.data = text]]

\* Mutant: the neighbour before is left to the loader.
InitMessageNextOnly(h, m) ==
  LET h1 == StringFrom([h EXCEPT ![m] = InitMessage2(h[m])], "String")
      h2 == CloneAlone(Put(h1, m, "name", Len(h) + 1), Proto(h, "List"))
  IN  Put(Put(h2, m, "arguments", Len(h1) + 1), m, "next", Nil)

\* sk_message_init: a name, a list, and no neighbours.
InitMessage(h, m) ==
  LET h1 == StringFrom([h EXCEPT ![m] = InitMessage2(h[m])], "String")
      h2 == CloneAlone(Put(h1, m, "name", Len(h) + 1), Proto(h, "List"))
  IN  Put(Put(Put(h2, m, "arguments", Len(h1) + 1), m, "next", Nil), m, "previous", Nil)

Clone(h, o) == IF h[o].init = "Message"
               THEN InitMessage(Append(h, Copy(h, o)), Len(h) + 1)
               ELSE CloneAlone(h, o)

-----------------------------------------------------------------------------
(***************************************************************************)
(* sk_vm_new.                                                              *)
(***************************************************************************)

\* The names that the create_proto functions bind.
ObjectMethods == {"to_bool", "to_string", "to_repr", "print", "println", "set_slot",
                  "get_slot", "break", "continue", "==", "if", "try", "clone",
                  "message", "update_slot", "load_shared_module"}
NumberMethods == {"to_string", "==", "+", "times"}
StringMethods == {"to_string", "+"}
ListMethods == {"get_at", "set_at", "append"}
MessageMethods == {"dispatch"}
MethodMethods == {"clone"}
ThreadMethods == {"start", "join"}
MutexMethods == {"lock", "unlock"}

Bound(name) == CASE name = "Object" -> ObjectMethods
                 [] name = "Number" -> NumberMethods
                 [] name = "String" -> StringMethods
                 [] name = "List" -> ListMethods
                 [] name = "Message" -> MessageMethods
                 [] name = "Method" -> MethodMethods
                 [] name = "Thread" -> ThreadMethods
                 [] name = "Mutex" -> MutexMethods
                 [] OTHER -> {}

\* Object, Number and String are made by sk_object_new, the others are clones.
NewProto(h, name) ==
  LET n == Len(h) + 1 IN
  CASE name = "Object" -> Append(h, NewObject)
    [] name \in {"Number", "String"} -> Put(Append(h, NewObject), n, "proto", Proto(h, "Object"))
    [] OTHER -> Clone(h, Proto(h, "Object"))

\* sk_exception_create_proto, sk_call_create_proto: a slot each.
ExceptionMessage(h, n) == Put(StringFrom(h, "String"), n, "message", Len(h) + 1)
CallMessage(h, n) == Put(h, n, "message", Nil)

CreateProto(h, name) ==
  LET n == Len(h) + 1
      new == NewProto(h, name)
      bound == [new EXCEPT ![n] = [new[n] EXCEPT !.methods = Bound(name)]]
      own == [bound EXCEPT ![n] = [bound[n] EXCEPT !.init = name, !.clone = name]]
  IN  CASE name = "Object" -> bound
        [] name = "Exception" -> ExceptionMessage(own, n)
        [] name = "Call" -> CallMessage(own, n)
        [] name = "Thread" -> [own EXCEPT ![n] = InitThread(own[n])]
        [] OTHER -> own

AddProto(h, name) ==
  LET new == CreateProto(h, name)
      lobby == Put(new, Lobby, name, Len(h) + 1)
  IN  IF name = "Object" THEN Put(lobby, Lobby, "proto", Len(h) + 1) ELSE lobby

\* sk_exception_load_protos
AddError(h, name) == Put(Clone(h, Proto(h, "Exception")), Lobby, name, Len(h) + 1)

\* _sk_vm_setup_true, _sk_vm_setup_false, _sk_vm_setup_nil
SetUp(h, name, o) ==
  LET x == With(With(h[o], "activatable", False), "proto", Proto(h, "Object"))
      methods == IF name = "true" THEN {} ELSE {"to_bool"}
  IN  Put([h EXCEPT ![o] = [x EXCEPT !.methods = methods]], Lobby, name, o)

\* sk_object_set_tag
SetTag(h, name) == Put(StringFrom(h, "String"), Proto(h, name), "tag", Len(h) + 1)

Constants == [true |-> True, false |-> False, nil |-> Nil]

\* A statement is its kind and the name of what it makes or marks.
Kind(s) == s[1]
Name(s) == s[2]

\* Mutant: the exceptions before the strings that are in them.
StatementsExceptionFirst ==
  << <<"proto", "Object">>, <<"proto", "Number">>, <<"proto", "List">>, <<"proto", "Message">>,
     <<"proto", "Exception">>, <<"proto", "String">>,
     <<"proto", "Method">>, <<"proto", "Call">>, <<"proto", "Thread">>, <<"proto", "Mutex">>,
     <<"error", "TypeError">>, <<"error", "ArgumentError">>, <<"error", "MessageError">>,
     <<"error", "SlotError">>, <<"error", "IndexError">>,
     <<"flag", "Object">>,
     <<"constant", "true">>, <<"constant", "false">>, <<"constant", "nil">>,
     <<"tag", "Object">>, <<"tag", "Number">>, <<"tag", "List">>, <<"tag", "Message">>,
     <<"tag", "String">>, <<"tag", "Exception">>, <<"tag", "Method">>, <<"tag", "Call">>,
     <<"tag", "Thread">>, <<"tag", "Mutex">>,
     <<"tag", "true">>, <<"tag", "false">>, <<"tag", "nil">> >>

Statements ==
  << <<"proto", "Object">>, <<"proto", "Number">>, <<"proto", "List">>, <<"proto", "Message">>,
     <<"proto", "String">>, <<"proto", "Exception">>,
     <<"proto", "Method">>, <<"proto", "Call">>, <<"proto", "Thread">>, <<"proto", "Mutex">>,
     <<"error", "TypeError">>, <<"error", "ArgumentError">>, <<"error", "MessageError">>,
     <<"error", "SlotError">>, <<"error", "IndexError">>,
     <<"flag", "Object">>,
     <<"constant", "true">>, <<"constant", "false">>, <<"constant", "nil">>,
     <<"tag", "Object">>, <<"tag", "Number">>, <<"tag", "List">>, <<"tag", "Message">>,
     <<"tag", "String">>, <<"tag", "Exception">>, <<"tag", "Method">>, <<"tag", "Call">>,
     <<"tag", "Thread">>, <<"tag", "Mutex">>,
     <<"tag", "true">>, <<"tag", "false">>, <<"tag", "nil">> >>

\* The slots of the lobby that a statement looks up.
NeedsOfProto(name) == CASE name = "Object" -> {}
                        [] name = "Exception" -> {"Object", "String"}
                        [] OTHER -> {"Object"}

Needs(s) ==
  CASE Kind(s) = "proto" -> NeedsOfProto(Name(s))
    [] Kind(s) = "error" -> {"Exception"}
    [] Kind(s) = "tag" -> {"String", Name(s)}
    [] OTHER -> {"Object"}

Effect(h, s) ==
  CASE Kind(s) = "proto" -> AddProto(h, Name(s))
    [] Kind(s) = "error" -> AddError(h, Name(s))
    [] Kind(s) = "flag" -> Put(h, Proto(h, "Object"), "activatable", False)
    [] Kind(s) = "constant" -> SetUp(h, Name(s), Constants[Name(s)])
    [] Kind(s) = "tag" -> SetTag(h, Name(s))

Booting == step <= Len(Statements)

Boot == /\ state.is = "running" /\ Booting
        /\ LET s == Statements[step] IN
           IF \A name \in Needs(s) : Proto(heap, name) # NULL
           THEN heap' = Effect(heap, s) /\ step' = step + 1 /\ UNCHANGED state
           ELSE state' = [is |-> "aborted", at |-> Lobby] /\ UNCHANGED <<heap, step>>
        /\ UNCHANGED held

-----------------------------------------------------------------------------
(***************************************************************************)
(* A program: what the built-ins and the decoder do with prototypes.       *)
(***************************************************************************)
Running == state.is = "running" /\ ~Booting

\* The objects that the program can name.
Named == {Proto(heap, name) : name \in Used} \cup held

\* The call returns object o and leaves the heap h.
Returns(h, o) == /\ Running
                 /\ Cardinality(held) < MaxHeld
                 /\ Len(h) <= MaxObjects
                 /\ heap' = h
                 /\ held' = held \cup {o}
                 /\ UNCHANGED <<step, state>>

Fails(how, o) == state' = [is |-> how, at |-> o] /\ UNCHANGED <<heap, step, held>>

New == Len(heap) + 1

\* sk_method__clone: with a list of names and a message of its own.
CloneMethod(h, o, message) ==
  LET h1 == Clone(h, o)
      h2 == Clone(h1, Proto(h, "List"))
  IN  Put(Put(h2, Len(h) + 1, "argument_names", Len(h1) + 1), Len(h) + 1, "message", message)

\* sk_object__clone, sk_method__clone
CloneMessage(o) ==
  LET answers == Answering(heap, o, "clone") IN
  /\ answers # NULL
  /\ \/ answers = Proto(heap, "Object") /\ Returns(Clone(heap, o), New)
     \/ /\ answers # Proto(heap, "Object")
        /\ \E m \in held : /\ DerivedFrom(heap, m, Proto(heap, "Message"))
                           /\ Returns(CloneMethod(heap, o, m), New)

\* sk_message_dispatch_simple on a name that is a string, or a number.
StringLiteral == Returns(StringFrom(heap, "String"), New)
NumberLiteral == Returns(Clone(heap, Proto(heap, "Number")), New)

\* A message of the program, that sk_object__message returns.
MessageLiteral == LET h1 == Clone(heap, Proto(heap, "Message"))
                      h2 == StringFrom(h1, "String")
                  IN  Returns(Put(h2, New, "name", Len(h1) + 1), New)

\* sk_exception_create_lazy
Raise(error) == LET h1 == Clone(heap, Proto(heap, error))
                    h2 == StringFrom(h1, "String")
                IN  Returns(Put(h2, New, "message", Len(h1) + 1), New)

\* What sk_string__concat makes for the object o: bstrcpy of no text is no text,
\* and bconcat to it an error that nobody reads.
Sum(o, answers) ==
  LET new == StringFrom(heap, heap[o].data)
  IN  [new EXCEPT ![New] = [new[New] EXCEPT !.hollow = (o = answers) \/ heap[o].hollow]]

\* sk_string__concat: the argument has to be cloned as strings are, text or not.
Concat(o, other) ==
  LET answers == Answering(heap, o, "+") IN
  /\ Running
  /\ answers # NULL
  /\ heap[answers].init = "String"
  /\ \/ heap[other].clone = "String" /\ Returns(Sum(o, answers), New)
     \/ heap[other].clone # "String" /\ Raise("TypeError")

\* sk_method_call: the context, and the object `call'.
CallMethod(o, call) ==
  /\ DerivedFrom(heap, o, Proto(heap, "Method"))
  /\ DerivedFrom(heap, call, Proto(heap, "Message"))
  /\ LET h1 == Put(Append(heap, NewObject), New, "self", Lobby)
         h2 == Put(Clone(h1, Proto(heap, "Call")), Len(h1) + 1, "message", call)
     IN  Returns(Put(h2, New, "call", Len(h1) + 1), New)

\* The program gives the name of a prototype to a clone of it; at most once.
Specialised(name) == ProtoOf(heap, Proto(heap, name)) # Proto(heap, "Object")

Specialise(name, o) == /\ Running
                       /\ \A other \in Prototypes \ {"Object"} : ~Specialised(other)
                       /\ DerivedFrom(heap, o, Proto(heap, name))
                       /\ heap' = Put(heap, Lobby, name, o)
                       /\ UNCHANGED <<step, held, state>>

\* sk_message__dispatch: the loop of sk_message_dispatch_avalanche looks up
\* `previous' in the object itself.
LacksNeighbour(o) == /\ Answering(heap, o, "dispatch") # NULL
                     /\ Slot(heap, o, "previous") = NULL

\* sk_object_to_repr_simple: the nearest tag, of the object or its prototypes.
LacksTag(o) == /\ Answering(heap, o, "to_repr") # NULL
               /\ \A k \in DOMAIN Ancestry(heap, o) : Slot(heap, Ancestry(heap, o)[k], "tag") = NULL

\* sk_object_get_slot_lazy calls abort for a slot that the object lacks.
LookUp(o) == /\ Running
             /\ LacksNeighbour(o) \/ LacksTag(o)
             /\ Fails("aborted", o)

\* The methods that read the data of the object that they are sent to.  A
\* prototype that has none answers them too.  Those of String return the object
\* or copy its text, and NULL is copied as NULL.
Readers(kind) == IF kind = "String" THEN {} ELSE Bound(kind)

UseData(o) == /\ Running
              /\ \E kind \in WithData : \E name \in Readers(kind) :
                   LET answers == Answering(heap, o, name) IN
                   /\ answers # NULL
                   /\ heap[answers].init = kind
              /\ heap[o].data = NULL
              /\ Fails("crashed", o)

Init == /\ heap = <<NewObject, NewObject, NewObject, NewObject>>
        /\ step = 1
        /\ held = {}
        /\ state = [is |-> "running", at |-> NULL]

Next == \/ Boot
        \/ StringLiteral \/ NumberLiteral \/ MessageLiteral
        \/ \E error \in Errors \cap Used : Raise(error)
        \/ \E o \in Named : CloneMessage(o) \/ LookUp(o) \/ UseData(o)
        \/ \E o, other \in Named : Concat(o, other)
        \/ \E o, call \in held : CallMethod(o, call)
        \/ \E name \in Prototypes \ {"Object"}, o \in held : Specialise(name, o)

Spec == Init /\ [][Next]_vars

-----------------------------------------------------------------------------
(***************************************************************************)
(* Properties.                                                             *)
(***************************************************************************)

\* sk_vm_new looks up no prototype before it is in the lobby, in itself or in
\* the functions it calls: it never aborts (vm.c:38-93, vm.c:99-101).
BootstrapCompletes == state.is = "aborted" => state.at # Lobby

\* A clone of a prototype whose methods read C data has data of that kind, how
\* many clones ago the prototype was and whoever made them: the clone of a clone
\* is still initialised (object.h:120-133, the init functions).  But a string that
\* + made of the prototype String, which has no text, or of another such string,
\* has none either (skstring.c:48-50).
ClonesHaveTheirData ==
  \A o \in DOMAIN heap :
    LET above == Above(heap, o) IN
    \A kind \in WithData : Proto(heap, kind) \in above =>
      \/ heap[o].data = kind
      \/ kind = "String" /\ heap[o].hollow /\ heap[o].data = NULL

\* A method that cannot read the data of the object it was sent to was sent to a
\* prototype, and never to a string, with a text or without; and only the prototype
\* Message and clones of its clones lack the slots that dispatch reads: a message
\* made by the virtual machine can be dispatched (message.c:15-29), and every object
\* has a tag, as object.c:143-144 says.
OnlyPrototypesFail ==
  /\ state.is = "crashed" => heap[state.at].methods # {} /\ heap[state.at].init # "String"
  /\ state.is = "aborted" /\ state.at # Lobby
       => /\ ~LacksTag(state.at)
          /\ "dispatch" \notin heap[ProtoOf(heap, state.at)].methods
=============================================================================
