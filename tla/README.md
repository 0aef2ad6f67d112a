# A TLA+ model of skelde

skelde is a small prototype-based virtual machine in C (`src/src`), with two
compilers in Python (`src/pyvalanche`, `src/edleks`). A program is a chain of
messages (an *avalanche*). Everything is an object with a table of slots; a
message is answered by the slot of its name in the first object of the thread's
*callstack* that has it, or in that object's `proto` chain. This directory holds
the specifications of the machine and of its compilers, their TLC configurations
and proofs.

## 1. Inventory

| Component | State | Operations | Talks to | Modules |
|---|---|---|---|---|
| Dispatch (`message.c`, `object.c` 194-276) | the callstack of contexts, one per thread (`callstack_key`) | `start_dispatch`, `dispatch_simple`, `send_message_simple`, `dispatch_message_simple` | calls built-ins and methods, which call it back for their arguments | `Eval`, `Callstack` |
| Exceptions (`exc.h`, `vm.c` 123-163, `try`, `times`, `break`, `continue`) | chain of jump contexts with a copy of the callstack each (`jmp_ctx_key`), current exception (`exc_key`) | raise, try, pass, end_try, root handler | every C function above them, by `longjmp` | `Eval`, `Callstack` |
| Methods (`method.c`, `call.c`) | message, argument names | `sk_method_call` | evaluates arguments and body by dispatch | `Eval`, `Objects` |
| Built-ins (`object.c`, `number.c`, `skstring.c`, `list.c`) | the object's data | about 30 | evaluate arguments, raise, jump | `Eval`, `Objects` |
| Object model (`object.c`, `object.h`) | slots, data, the functions `init` and `clone` | clone, lazy clone, look-up along `proto`, tags | everything | `Objects`, `Threads` |
| Bootstrap (`vm.c` 38-101) | the prototypes in the lobby | `sk_vm_new` | object model | `Objects` |
| Threads (`thread.c`) | handle, slot `running` | clone, start, task, join | slot table, pthreads | `Threads`, `SharedCounter` |
| Mutexes (`mutex.c`) | a pthread mutex | clone, lock, unlock | pthreads | `Threads`, `SharedCounter` |
| Slot table (`khash.h`, `object.c` 65-118) | open addressing, one lock per object | get, put, resize | everything | `SlotTable` |
| Vectors, lists (`kvec.h`, `list.c`) | length, capacity, array | push, pop, copy, get_at, set_at | callstack, arguments | `KVec`, `Lists`, `Callstack` |
| Decoder (`bytecode.c`) | a stream | parse stream, avalanche, message | builds messages | `Bytecode` |
| Encoder (`skelde.py`) | Message objects | generate avalanche, bytecode | both compilers | `Skelde` |
| pyvalanche (`pyvalanche.py`) | text, tokens | tokenize, parse, main | encoder | `Tokenizer`, `Pyvalanche` |
| edleks (`compiler.py`) | syntax tree | visit | encoder | `Edleks` |
| bstrlib (`bstrlib.c`) | block, length, capacity | make, grow, assign, cut, change, read, search, compare | names, texts, decoder | `Bstrings`, `BstrSearch` |
| Main (`main.c`) | - | run the files | all | `Eval` |
| Output, memory, `cvector`, `objlist`, shared modules | - | - | - | none (section 5) |

What is hard here:

* **Control.** C frames, callstack and jump contexts are three stacks that must
  stay in step while `longjmp` throws away any number of the first and
  `sk_exc_end_try`/`sk_exc_pass` set back the others. The callstack is a vector
  on the heap, of which copies are made and put in its place while loops further
  out still hold a pointer to it.
* **Concurrency.** Slots are locked one access at a time, lists not at all.
  `running` and the thread handle are written by different threads and read by
  any; a clone inherits the first.
* **Null results.** A NULL of a built-in means "ask the next object", a NULL of
  `;` means "no result"; neither may go further.
* **Order of creation.** `sk_vm_new` makes prototypes that need each other; a
  clone of a clone must still be initialised.
* **Memory.** A hash table is rehashed in its own array. A string function reads
  a source that may lie in the string it changes, in a block that `balloc` may
  move or give no spare byte.
* **Boundaries.** Unsigned index checks, an argument count of one byte, int
  lengths, input that ends in the middle of a token, a name or an argument.

What makes each right: the callstack is restored by every call and behaves as a
value; the chain of jump contexts names live frames; no handler is skipped;
`join` waits; an increment under a mutex is not lost and the test program prints
100; a slot table is a map; a list is a sequence; what is dispatched is what was
written; clones have their data; a string function gives its text and stays in
its block.

`PROJECT.json` lists every component with its status and every hazard at its line.

## 2. Modules

| Module | What it is |
|---|---|
| `Eval` | one thread of the interpreter: dispatch, callstack, exceptions, methods, built-ins, main |
| `EvalProofs` | its theorems |
| `MCEval`, `MCEvalResult` | `Eval` for TLC; the second adds a history of results |
| `KVec` | the vectors of `kvec.h`: block, capacity, length |
| `Callstack` | one thread's callstack as vectors on the heap and the pointers to them |
| `ContextStack` | the stack that is a value, which `Callstack` implements |
| `CallstackProofs` | its theorems |
| `Lists` | lists shared by threads, `kv_push` access by access |
| `ListValues` | the sequences that `Lists` implements |
| `ListsProofs` | its theorems |
| `MCCallstack`, `MCLists` | these for TLC |
| `Threads` | any program on threads and mutexes |
| `ThreadsProofs` | theorems about `Threads`, then about `SharedCounter` |
| `MCThreads` | `Threads` for TLC |
| `SharedCounter` | `thread-test.ava`, EXTENDS `Threads` |
| `AtomicCounter` | what `SharedCounter` implements |
| `MCSharedCounter` | `SharedCounter` for TLC, with the numbers of the program |
| `SlotTable` | the hash table of an object's slots |
| `SlotMap` | the map that `SlotTable` implements |
| `SlotTableProofs` | its theorems |
| `MCSlotTable` | `SlotTable` for TLC, with names that collide |
| `Objects` | `sk_vm_new` and cloning |
| `ObjectsProofs` | its theorems |
| `MCObjects` | `Objects` for TLC |
| `Opcodes` | the two opcodes, for those who write and those who read them |
| `Avalanches` | programs as values, and their bytecode |
| `Tokenizer`, `Pyvalanche` | the two halves of `pyvalanche.py` |
| `Edleks` | `compiler.py` |
| `Skelde` | the messages and the encoder that both compilers use |
| `Bytecode` | the decoder |
| `Decoded` | what was decoded, as the program that is dispatched |
| `ToolchainProofs` | theorems about `Tokenizer` and `Bytecode` |
| `Toolchain` | the composition of these |
| `MCToolchain` | `Toolchain` for TLC: texts, syntax trees and files |
| `Loops` | a loop of C as a function on states |
| `BstrSearch` | searches and comparisons of bstrlib |
| `Bstrings` | the functions of bstrlib on blocks of memory |
| `Texts` | what their comments promise, which `Bstrings` implements |
| `BstringsProofs` | theorems about `Bstrings` and `BstrSearch` |
| `MCBstrings` | `Bstrings` for TLC |

### Eval

`frames` is the C stack: a record per active call of `main`,
`sk_message_start_dispatch` ("avalanche"), `sk_object_send_message_simple`
("send"), `sk_method_call`, `sk_object__try`, `sk_number__times` or any other
built-in ("native"), with its program point `pc`, its loop variable `i`, its
result `res` and the callstack `saved` in its jump context. `callstack`,
`jmpctx` and `exc` are the values of the three pthread keys. A jump context is
written as the depth of the frame that called `setjmp`. `mode` says what the
machine does next: run the innermost frame, deliver the value `val` of the call
that has just returned, or arrive with `code` after a `longjmp`.

Each action is the code between two calls: from where a C function is entered,
or gets a value back, or is jumped to, up to its next call, return or jump.
`JumpTo` cuts `frames` to the target, as `longjmp` does.

What is left open, and why that is enough: which slots objects have (any object
of the callstack may answer with a built-in, a method or a stored object, or
not), what built-ins compute (they are told apart by the arguments they evaluate
and how they end: `Ways`), and which program is run. The model so has the
behaviours of every program within the bounds, and an invariant of it is one of
every program. Two things are kept because the control depends on them: `held`,
the objects that can be the value of a slot, and `Contexts`, the objects without
a proto. A child context is a fresh object in C; here it is any member of
`Contexts`, its identity is abstracted. A context, too, can answer a message with
something to call: one of its arguments, or its slot `self`, when the receiver of
the call is a method or a built-in that `get_slot` gave.

Details of the C that the model keeps: a handler of `try` runs on the callstack
of the raise and with the try's own jump context still at the head, so it, and
the class expressions, can come back to the same try; an exception that no
clause matches is swallowed; `saved` is set back by `end_try` and `pass` only;
every file of the command line gets a new callstack. `sk_message_dispatch_simple` keeps
a pointer to the callstack while the thread's key may be set to a copy: the
model reads the current callstack at the same index; that it may is what
`Callstack` shows.

### Callstack

The same thread seen from its memory. `heap` has the vectors by their address,
`current` is what `callstack_key` points to, and `frames` are the C calls that
hold something of it: "run" has pushed a context that it will pop; "loop" is
`sk_message_dispatch_simple`, with the pointer it took and its loop variable;
"try" has called `setjmp` and points to the copy of `sk_vm_push_jmp_context`.
What the calls compute is left out. A vector that nobody points to is cleared
(`Collect`), so that addresses can be used again; a popped cell holds the NULL
that `kv_pop(...) = NULL` leaves. `ContextStack` has no addresses: a loop carries
the objects it still asks, a try the stack it will give back. The refinement
reads both off the vectors.

### Lists

A call is made under the mutex, as in `thread-test.ava`; `list.c` locks nothing.
`kv_push` is four steps, one for each access to the shared vector (test, grow,
store, count); `reg` is the length it stored at. `get_at` and `set_at` read the
vector once more after their check and are one step. The index is an `int`
compared with a `size_t`: `AsSize`. A cell outside the block crashes.

### Objects

`step` counts the statements of `sk_vm_new`; each is a step, with the clones and
slot writes of the functions it calls. An object is a record of slots (one for
each name that occurs, NULL where it has none), bound methods, data, which is
named by its kind, and whose `init` and `clone` function it has (the macro
`DEFINE_LAZY_CLONE_FUNC` is `CloneLazy`). Of the functions `init` only that of a
message clones, and it clones a string and a list, whose own `init` does not: so
`Clone` needs no recursion, and `CloneAlone` is what it comes to for the rest.
The search along the slots `proto` is a function of the number of steps up
(`Up`, `Ancestry`). After that, `Next` is every program
that makes literals, raises, clones, calls methods and sends built-ins, with the
objects it keeps in `held`. A look-up that `sk_object_get_slot_lazy` cannot
answer aborts. A method that reads data that is NULL crashes (`UseData`), but for
those of String: `to_string` returns the object, and `+` copies NULL as NULL, gives
it to a `bconcat` that refuses it and does not look at the answer, and puts it in
place of the text of a new string (`skstring.c:42-51`). So `Sum` makes strings
without a text; `hollow` is history and says of an object that it came about that
way, from the prototype that has the method `+` or from another such string.

### Toolchain

A text goes through `Tokenizer` (a step is a turn of one of the loops of
`tokenize`) and `Pyvalanche` (a step is a turn of the loop of `parse` or the
return of one; `parses` is Python's stack), or a syntax tree through the visitor
of `Edleks`; `Skelde` writes the bytes; `Bytecode` reads them, a step for each
call of `fread` and for each name, with the C stack explicit, and links the
messages. `Bytecode` also reads files that no compiler wrote, cut off anywhere.
A text is a sequence of characters of ten classes; names are one byte for the
decoder's purposes; the tokens are all made before the parser runs, which is the
same as Python's generator because the parser leaves nothing behind when the
tokenizer raises. The grammar of edleks (`parser.py`) needs a parser generator
that is not in the repository: its trees are the input here.

### Bstrings

`str` is a block of bytes and a length; `call` is the call that was made, its
result and its faults. Each function is its reads and writes in their order; a
write outside the block is the fault "outside", bytes taken from a block that
was replaced are "stale". The allocator has plenty, only what is needed, or
nothing. A source is text of another block or a part of the string itself: any
part for the functions that take a bstring (`bmid2tbstr` makes one) or a block, one
that runs to the end of the string for those that take a C string. The copy that
some functions make first is a copy here, and what the others read, they read when
they read it. After a call with a fault nothing is promised: `Terminated` and
`ImplementsTexts` speak of the others, and `OnlyKnownFaults` says which calls have
one.
`Texts` says what the comments promise: the text that a successful call leaves,
when a call may refuse, and that it then leaves the text; `Given` is the one
exception. `BstrSearch` has the searches and comparisons as functions; two
properties compare them with their definitions by quantifiers. These take from the
code that `bninchr` and `bninchrr` find nothing for an empty set, of which the
comments (`bstrlib.c:1362`, `bstrlib.c:1378`) do not speak. A loop is a function on records of the variables it
changes, with a field `on` that says whether it goes on (`While` in `Loops`); a turn
of each loop has a name of its own (`Scan`, `Slide`, `Shrink`, `TakeMatch`,
`Expand`, `ReadBlock`, `GetByte`).

### Threads

`stage` is how far a pthread is: created, in its message, at the end of
`_sk_thread_task`, exited, joined. A handle that was joined can be given out
again. `join` is three steps after the call: `Look`, one locked read of `running`
for each object of the proto chain; `JoinHandle`, the read of the handle and the
decision of `pthread_join`; `JoinDone`. `pthread_join` is modelled from its
manual and its implementation in glibc, as far as the code relies on it: it gives
up for oneself, for a thread that is joining the caller, and for a thread that
another one waits for; a joined or null handle may crash. `started` is history.
A program that sets the slot `running` itself is not modelled, nor is a
`pthread_create` that fails.

### SharedCounter

`thread-test.ava` statement by statement. A worker's repetition is lock, read,
write, unlock, each a step of its own. `N`, `Reps` and the order are constants.

### SlotTable

One call of `sk_object_get_slot` or `sk_object_set_slot` at a time, as the lock of
the object has it, with the arrays `keys`, `vals` and `flags` of `khash.h`. A step
is one turn of a loop: a probe of `kh_get` or `kh_put`, the start of `kh_resize`,
a key taken out of its bucket (`Take`), a bucket of the new table tried for it
(`Place`, which may exchange it for one that was not moved yet), the end. A name
is its hash and an identity. `flags` has three values instead of two bits:
`kh_del` and `kh_clear` have no caller, so a bucket is deleted only during
`kh_resize`, the branches of `kh_get` and `kh_put` for deleted buckets are never
taken, and `n_occupied` is `size`. The refinement maps each name to its value
wherever it is at the moment: an old bucket, a new one, or in hand; a call takes
effect when it returns.

## 3. Runs

| Run | Bounds | Shows |
|---|---|---|
| `eval` | 5 frames, callstack of 5 for raising, 2 arguments, `try` with up to 5, 2 repetitions, 2 files; one value, which is also `nil` | every kind of built-in, call and `try`, with contexts as values: C stack, callstack and jump contexts stay in step |
| `threads` | 2 threads, 3 objects, a mutex, each object started at most twice | inheritance of `running`, restart, several joiners |
| `counter` | 3 threads, the repetitions given in `MCSharedCounter` | prints the sum; refinement of `AtomicCounter`; termination |
| `slots` | 8 names, 0 to 23 buckets | refinement of `SlotMap`, every call returns |
| `callstack` | 2 contexts, 7 vectors, depth 3, 6 calls | the vectors implement `ContextStack` |
| `lists` | 2 threads, `List` and a clone, 3 items, sizes of 4 bits | the vectors implement `ListValues` |
| `objects` | the whole of `sk_vm_new`, then 3 kept objects, 80 in all | the bootstrap; data of clones of clones and of sums of strings |
| `toolchain` | texts of up to 5 tokens, of up to 4 characters with strings and comments, all programs of 2 by 2 messages; trees of 3 levels; files of up to 6 bytes after the signature; 2 arguments | what is dispatched is what was written |
| `bstrlib` | texts of up to 4 of 4 characters, an argument of 13, blocks in steps 2, 4, 8, ints of 5 bits, 3 kinds of allocator, 1 match noted without memory | every string function against its comment, its sources parts of the string too |
| `eval_activatable`, `eval_strange`, `eval_last_result` | 5 frames | three comments that the code does not keep |

The bounds. A built-in that evaluates an argument needs two frames, so five
frames hold main, a chain, a call, its argument or body, and one call in that.
The clauses and the default of `try` are all there with 5 arguments (none, one,
one and a default). `MaxStack` only bounds where something may be raised, because
the handler then grows the callstack for the rest of the `try`. Two starts of an
object reach every early return of `join`. Six calls of `Callstack` hold a loop
over a stack of two, a try in it, a loop in that, and a try again; the block
grows from 2 to 4 cells. What the small instances of `Eval`, `Threads`,
`SharedCounter`, `Lists`, `Callstack`, `SlotTable`, `Objects` and `Bstrings` leave open is what
the theorems close: they have no bounds (the `Max...` constants are arbitrary there, and the guards
with them only restrict).

The names of `MCSlotTable` are chosen by their hashes, so that in both steps of
growth there are names that collide before, after, and that displace each other.
The sizes are the first of `__ac_prime_list`; what the larger ones have in common
with them is that they are prime, which is why the probes reach every bucket.
Three items make a list's block grow twice. The sizes 2, 4, 8 of `MCBstrings`
stand for 8, 16, 32 and so on, and 15 for INT_MAX: texts of a few characters then
fill a block, and every sum of a position and a length can overflow; with the
argument of 13 characters so can the sums of two lengths. `Reduced` keeps this
small: memory is short only for a string that fills its block, and of the two
sources of `bfindreplace` at most one is a part of the string (none where letters
are folded). `Static` is 1 in place of the 31 matches that `findreplaceengine`
notes in an array of its own: the second then needs memory, which may not be
there. `MaxArgs` is 2 in place of 255, so that a message with one argument too many exists.

The process may stop in `threads` (programs can deadlock: a mutex locked twice,
threads that join each other in a circle; the code does not promise otherwise),
in `lists` and `objects` (it crashes or aborts) and in `bstrlib` (after a fault
nothing is defined): they run without the deadlock check. In all other runs the
machine can stop only when the process is gone or the work is done.

Symmetry: thread handles and clones are interchangeable in `Threads`. It is not
used in runs with a liveness property.

**Fairness.** `FairSpec` of `SharedCounter` has weak fairness for main and for
each thread: the kernel runs every thread that can go on. That is enough for the
mutex here, because a worker that waits competes with at most two others, each of
which stops after its repetitions; no fairness of the mutex itself is assumed. In
`SlotTable` the thread that is in the call goes on; in `Toolchain` the compiler
and the decoder do, being loops that wait for nobody.

### Properties

* `JumpChain` - the chain of jump contexts names exactly the live frames inside
  a `sk_exc_try`, each once, in order; a `longjmp` arrives at its head.
* `CallstackShape` - the callstack at every program point, relative to the one
  the call began with. No `kv_pop` or `kv_top` meets an empty vector.
* `StackDiscipline` - the nesting of calls, the indexes a lookup still asks, and
  that only the dispatch loop is handed NULL.
* `ReturnRestores` - a call returns with the callstack it was called with.
* `NoHandlerSkipped` - a jump abandons no frame that handles its code.
* `NoPoppedElementRead`, `ImplementsContextStack` - no vector that is still in
  use or walked has an element that a pop took away; the vectors are a value.
* `ListsAreSequences` - lists under a mutex are sequences, and an index check
  fails only where `ListValues` admits it.
* `RunningSlot` - what `running` says of a thread started once.
* `JoinWaits` - when `join` returns, the message was evaluated, but for five
  named cases: started again, inherited `running`, itself, each other, and a
  second joiner. Each of these is reachable; dropping any case is refuted by TLC.
* `WaitsAreValid` - one joiner for each thread, and its handle stays valid.
* `NoLostUpdate`, `ShouldBe100`, `ImplementsAtomic`, `Terminates` - the test program.
* `NoKeyLost`, `Findable`, `RoomLeft` - the table while it is rehashed in place:
  each key is in one bucket or in hand; it is where its probes find it; a probe
  never goes round.
* `ImplementsMap`, `CallsReturn` - the table is a map, and its calls end.
* `BootstrapCompletes`, `ClonesHaveTheirData`, `OnlyPrototypesFail` - `sk_vm_new`
  never looks up what is not there yet; clones at any distance have the data of
  their prototype's kind, but for strings that `+` made of a string without one;
  what cannot bear a call that reads its data is a prototype and no string, and
  what cannot be dispatched is `Message` or a clone of its clones.
* `RunsWhatWasWritten`, `CompilesToMeaning`, `WellFormedRuns`,
  `AcceptsOnlyBytecode`, `LinksMirror`, `OnlyBlanksDropped`, `TokensAreLexemes`,
  `RefusesOnlyStrayArrows`, `ToolchainEnds` - from text, tree or file to messages:
  the program that is dispatched is the one that was written, nothing well-formed
  is refused, nothing else is accepted, and everything comes to an end.
* `Terminated`, `OnlyKnownFaults`, `ImplementsTexts`, `SearchesFind`,
  `ComparisonsAgree` - the string functions.

### What the code does not keep

Comments that a run refutes:

1. `message.c:131`: the value of a chain that ends in `;` is its context, not
   its last result.
2. `object.c:206`: the search for `activatable` does fail, for a child context
   in a slot.
3. `vm.c:159`: `break` outside of `times` does reach the root handler.

And what the specifications had to admit, named in them as exceptions:

* `list.c:35`, `list.c:45`: `get_at` of an empty list and `set_at` one past the
  end pass their checks; `ListValues` says what then can happen. Every method of
  the prototype `List` itself reads a null pointer.
* `message.c:9-29`: a clone of a clone of `Message` has no slots of its own and
  cannot be dispatched.
* `skstring.c:48-50`: `+` of `String` itself, which has no text, returns a clone
  without one: `bstrcpy` gives NULL, `bconcat` an error that nobody looks at, and
  `sk_string_from_bstring` puts the NULL in the place of "huhu".
* `pyvalanche.py:81-83`: the `ParseError` for an argument list that is not closed
  is never raised: `parse` ends an argument at a comma or a parenthesis only, and
  at END it is the tokenizer's generator that has nothing more to give.
* `bstrlib.c`: `bassign`, `bassignmidstr` and `breplace` ask `balloc` for no room
  for the zero byte and write it outside the block when `balloc` gives exactly what was
  asked for; `bdelete` adds position and length without a test for overflow;
  `bconcat` writes the zero byte of a text of INT_MAX characters behind its block;
  `bfindreplace` uses a replacement that lies in the string after `balloc` moved
  it; `bcatblk`, and `bcatcstr` through it, read a block that lies in the string
  after `balloc` moved it (`bstrlib.c:399-401`); `bcatcstr` overwrites the zero byte
  of a C string that ends where the string does, copies it round and round, and
  looks for the zero byte behind the block (`bstrlib.c:374-385`); `bassigngets`
  assigns the characters that its comment says are concatenated to the string
  (`bstrlib.c:1802`, `bstrlib.c:1813-1836`); `bcatcstr`, `bassigncstr`, `bgetsa`,
  `bassigngets` and `breada` leave a half written string when memory runs out, which
  their comments do not exclude. The virtual machine itself calls only `bconcat`
  (of a copy) and `bdelete` (of the last character) of these.

### Mutants

A definition that is marked as a mutant is a bug that could be made in the code
at that place. It is used nowhere; put in place of the definition after it, it
breaks the property `PROJECT.json` names. Every property of a passing run has one.

## 4. Proofs

**Assumptions.** Those named in the modules: the exceptions are values,
NULL is no object, no key and no item, the
bounds are naturals, `Builtins` is a subset of `Ways`; Main is no thread handle,
the prototype is an object; the workers of the counter are distinct objects; there
is an address; the indices and the number of items are small beside `SIZE_MAX`
(without that a cast makes the index check meaningless). For `SlotTable`: the
sizes in `__ac_prime_list` are prime and not 2, but for the 0 at its beginning
(`SizesArePrime`; the 31 numbers of the header are, and TLC tests it for the sizes
of its run); there are finitely many names, and a size that has room for all of
them (`SizesSuffice`: the list of the header ends at 4,294,967,291, behind which
`kh_resize` would read past it). For `Bytecode`: the null pointer is no number
(`NullIsNoMessage`). For `Objects`: NULL is no number, no name of a slot and no
`init` function (`NullIsNothing`), and a program reads only slots of the lobby that
`sk_vm_new` makes (`UsedAreNames`). For `Bstrings`: the sizes are ints, and so are the
positions and lengths of calls (`SizesAreInts`, `LengthsAreInts`); a text of another
block is shorter than INT_MAX, as it must be to have a zero byte behind it in a
block whose size is an int; `blk2bstr` adds one to the length of a longer one
without a test (`bstrlib.c:253`). Nothing else is assumed finite.

**Eval.** `IInv` is `TypeOK /\ JumpChain /\ CallstackShape /\ StackDiscipline`
with what these need of each other: the first three are not inductive alone. That
`end_try` pops the right context needs `JumpChain`; that `saved` is the callstack
of the call needs `CallstackShape` for guarding frames; that `Return` finds a
frame below needs the nesting; that the callstack is not empty at a pop needs that
every entry extends `<<Lobby>>`. The lemmas are about how a step changes the
stack of frames (`Call`, `Continue`, `Return`, `JumpTo`), so that an action's
proof only has to show what it does to the innermost frame. `NoHandlerSkipped`
and `ReturnRestores` follow from `IInv` step by step.

**Vectors.** `ListsProofs` and `CallstackProofs` begin with what the operations
on vectors that they use (`KvResize`, `KvWrite`; `KvPush`, `KvPop`, `KvCopy`) return,
keep and change of a vector and of its contents. The rest only cites that.

**Callstack.** `ImplementsContextStack` needs to know that nothing that is pushed
or popped lies where a loop or a saved copy looks. The contents of `Callstack`'s
state do not say this: which part of the vector in use belongs to which call is
not written down anywhere in memory. The invariant `CSInv` therefore says that
there are *depths*, one for each call, such that the calls above the k-th never
go below the k-th depth; they grow along the calls, strictly with each call that
pushes; the vector in use is as long as the last of them; a loop looks only below
its depth; and a try's copy is its own and as long as its depth. `Good` is then kept by
the six things that steps are made of: writing above the last depth, writing an
unused vector, dropping calls, putting a try's copy in the vector's place, adding
a call, and the collector. Each action's lemma shows at once that it keeps
`CSInv` and that it is the action of that name of `ContextStack`;
`NothingPoppedIsRead` and `CallstackIsAValue` follow.

**Lists.** `LInv` has the types, and that a thread inside a call holds the mutex
(`Locked`), what the vector is like between the accesses of its `kv_push`
(`Calling`, `Pushing`), and that a list without items has no block, unless its
first item is on the way (`EmptyHasNoBlock`): `get_at`, which lets every index of
an empty list pass, then reads no cell that was never written. With it every step maps to a step of
`ListValues` or to none: `ListsHoldSequences`.

**Threads.** `TInv` adds to `TypeOK`, `RunningSlot` and `WaitsAreValid`: the only
thread of an object started once is the one in its handle (`Tasks`), proto chains
are among the objects that exist (`Protos`), and a join looks only at what its
object inherits from and waits for the thread in its handle unless the object
was started again (`Lookups`). `JoinWaits` is then shown for each of the three
ways in which `join` returns.

**SharedCounter.** In the same module, after the theorems about `Threads`, which
cite none of its assumptions. `CInv` is `TInv` with what this one program adds: which workers
main has started and joined (`Started`), what it may be joining (`MainCall`), that
a thread that has left its message, by whatever sign main can see it, has no
repetition left (`Finished`), and that a worker between its read and its write
holds the mutex and has read what the slot still has (`Exclusion`). For any
number of workers and repetitions, no update is lost (`NoUpdateIsLost`) and the
program is the one with atomic increments (`CounterIsAtomic`). From the latter
follows what it prints: the slot and what is left to do add up to the same number
in every state of `AtomicCounter` (`Conserved`), and the program prints when
nothing is left (`PrintsTheSum`; `Prints100` with the numbers of
`thread-test.ava`). The sum is a recursive function along the workers. That it
adds up at all, and that a sum of zeros is zero, is shown by the least number for
which it would not (`LeastNat`, from the library's well-founded minimum), which
takes the place of induction.

**SlotTable.** Three layers. *Arithmetic*: a multiple of a step that a prime does
not divide is a multiple of the prime only if the factor is (`MultipleOfPrime`,
again by a least number), so `n` probes with a step between 1 and `n - 1` come to
`n` different buckets (`DifferentBuckets`), and one of them is empty when the
table is not full (`Round`). *Bounds*: `UpperBound` is less than the size and
grows with it (`BoundFacts`, `BoundGrows`), and of the next size that
`kh_resize` takes at least one bucket more is usable than names are there
(`AboveFacts`, which needs that primes other than 2 are two apart). *The machine*:
`IInv` says what each of the loops has behind it. Between calls the new table is empty
and nothing is in hand (`AtRest`); in a call the hash, the step and the bucket are
those of the probe that comes next, and all buckets before it are full
(`Sought`); while a table is rehashed, buckets below the counter of `kh_resize`
are done (`UnderWay`), old and new buckets and the one in hand share no name
(`Entries`), and are counted (`Counted`, `Bounds`). `Found` says of both
tables that each name is where its probes lead; a probe passes over full
buckets, which stay full when a name is exchanged for the one that was in its
bucket, so it holds of the new table in the middle of a rehash. One lemma for
each action keeps all of this. `ImplementsMap` then needs no more than where a
name's value is: `HeldIs` gives it for a bucket, for the name in hand and for
none, and every step but the two that return leaves it. `Enlarges` is a result
of the proof that no run asks for: the branch of `kh_resize` that shrinks and
the one for a size that is too small are never taken, as nothing deletes.

**Toolchain.** The theorems are about the two ends by themselves, because the
composition compares programs by recursive operators, which the prover cannot
read: `TokenizerSpec` is `tokenize` on any text, `DecoderSpec` the decoder on any
bytes. Every step of `Toolchain` is a step of each of these or leaves its
variables (`Tokenize` and `Decode` are its actions, `Run` is `Load`). `TokenizerInv`
says what is between `begin` and the position in each of the four loops (`Begun`),
that tokens lie one behind the other and before `begin` (`Behind`), and that
every character up to there is accounted for (`Accounted`); a token is
accounted for when it is yielded (`YieldStep`), a blank or a comment when it is
passed (`PassedIsAccounted`). `LinksMirror` is not inductive, since the links of a
message are written when the C function that parsed it returns: `DecoderInv` adds
that the two functions alternate on the C stack (`Alternate`), and that each
message on it is the last of its avalanche so far and younger than all messages below
it, so that it has no successor, and no predecessor while it is parsed
(`Stacked`). Then the two links that `EndMessage` sets were both nil.

**Objects.** None of the three properties is inductive: what data a clone has is
decided by the functions that its prototype had when it was cloned, and these by
how that one came about. `OInv` says it object by object (`Fits`): the prototype
of an object is older than it (or is Object, the fifth object, for the four that
exist before it); under a prototype that makes data, an object has the same
`init` function and data of its kind, unless it is a hollow string; under one that makes messages it
has a slot `previous`. What `+` makes is a string with a text or a hollow one
(`SumSound`). By itself (`Alone`), an object with an `init` function has a lazy
clone function, and the methods that read data are only on objects that have one.
`LobbyFits` says that the lobby names a prototype of each kind, also after a
program has put a clone in its place; `Progress` which names are there before each
statement of `sk_vm_new`; `Outcome` how the process ends. While a clone is
initialised it does not fit yet: `SoundBut` is the invariant for the rest of the
heap, and the lemmas about `StringFrom`, `CloneAlone`, `InitMessage` and `Clone`
lead from there back to `Sound`. `BootKeeps` goes through the kinds of
statements, `EffectSound` and those below it say what each leaves in the lobby; every
action of a program has one lemma. The search along the prototypes comes to its
end, because a prototype is older but for one step (`Rank` falls at each,
`ClimbEnds`), which also makes `ChainsEnd`, a result that no run asks for:
neither the bootstrap nor cloning makes a cycle, in which a look-up would go on
for ever. Facts about all ancestors are shown by the nearest place at which they
fail (`LeastPlace`), in place of induction: `InheritsKind`, from which `Clones`
follows, and `AnsweringFacts`, from which `Prototypical` does. `Bootstrap` is
`Progress` with the names each statement needs (`Needs`). The bounds on objects
and on what the program keeps play no part.

**Bstrings.** Four of its five properties, for blocks of any size up to INT_MAX.
*Loops*: `WhileRuns` shows that the recursive function in `While` is one, whether
the loop ends or not, and `WhileEnds` that an invariant of the body holds at the
end of a loop in which some natural number falls with each turn; each loop has
its invariant and its number. *Memory*: what `Write`, `Move` and `balloc` give
(`WriteTyped`, `ballocGives`, `PowerIsAbove`), then a lemma for each function of the
library, `...Sane`: from a sound string it gives a sound string, or refuses and
leaves it, or stops half written, or has a fault of `OnlyKnownFaults`. A source that
is a part of the string lies before its end (`CStringsLie`), so what is read from it
was written, unless the block was replaced (`SinceLies`, `StaleDone`) or its zero
byte is gone (`OverrunGives`). *Calls*: `BInv`
is `OnlyKnownFaults` and that the string is `Sound` after every call but those: it
is ended by a zero byte in its block, the bytes before that were written, and the
block is no larger than an int can say. `Terminated` alone is not inductive: a
copy and a source that is a part of the string need text that was written, and it
is the size of the block that keeps the sum of two lengths from being anything but
negative when it overflows. `AlwaysSound` has one lemma for each group of calls
(`MakeKeeps` to `ReadKeeps`). *Searches* (`SearchesAreRight`): in the loop of `binstr`
the characters from `ii` to `i` are those matched so far unless one was skipped,
which is when `i` is not `ii + j`, and no match begins more than `j` before `i`
(`ScanHas`); skipping never goes past a match. *Comparisons*
(`ComparisonsAreConsistent`): where the loops stop (`Stopping`), which characters are
there (`StopCodes`), and what a text is that was cut to `n` (`Cut1Gives`).

**Only model-checked.** Termination and everything else under fairness
(`Terminates`, `CallsReturn`, `WellFormedRuns`, `ToolchainEnds`): the prover has no
liveness. What compares recursive data, and so has recursive operators:
`RunsWhatWasWritten`, `CompilesToMeaning`, `AcceptsOnlyBytecode`,
`RefusesOnlyStrayArrows`. And `ImplementsTexts`, which needs the text that each
string function leaves, a proof about every function once more; that what it
leaves is sound is proved. The three counterexamples.

## 5. Not modelled

* Which slot answers a name in `Eval`, and the values of numbers and strings: left
  open there, so that the model has the behaviours of every program.
* The buffered streams, split and join, and the printf family of bstrlib: nothing
  calls them.
* `cvector`, `objlist`, `kh_del`, `kh_clear`, `kv_pushp`, the C destructors: no
  caller.
* The grammar of edleks: the input of a parser generator that is not here.
* Output (`vprintf` under one lock) and the collector (`mem.h`: allocation does
  not fail and nothing reachable goes away): they decide nothing.
* `-` on the command line, which reads standard input for ever; shared modules,
  whose code is external; a `pthread_create` that fails, whose result is ignored.

## 6. Plan

Done: all modules of section 2. What would be next:

1. `ImplementsTexts` for blocks of any size, from the lemmas of `BstringsProofs`.
2. `Eval` in several threads with `Threads`: an exception that leaves a
   critical section.
3. `Eval` with its slots filled in from `Objects`.
