---------------------------- MODULE ObjectsProofs ----------------------------
(***************************************************************************)
(* The prototypes for any number of objects and any program: the bootstrap *)
(* finds what it looks up, every chain of prototypes ends, the clones of a *)
(* prototype with data have data of its kind, but for the strings that +   *)
(* makes of String itself, and only the prototypes fail.                   *)
(***************************************************************************)
EXTENDS Objects, WellFoundedInduction, TLAPS

MethodNames == ObjectMethods \cup NumberMethods \cup StringMethods \cup ListMethods \cup
               MessageMethods \cup MethodMethods \cup ThreadMethods \cup MutexMethods

Obj == [slots : [SlotNames -> Nat \cup {NULL}],
        methods : SUBSET MethodNames,
        data : WithData \cup {NULL},
        init : Inits \cup {NULL},
        clone : Prototypes \cup {"base"},
        hollow : BOOLEAN]

(* What an object has by itself: a function `init' comes with a lazy       *)
(* clone, the methods that read data, and dispatch, are only on the        *)
(* prototypes, a string has a text or none, and to_repr is on Object       *)
(* alone, which is the fifth object.                                       *)
Alone(o, x) ==
  /\ x.init # NULL => x.clone # "base"
  /\ o = 5 => x.init = NULL
  /\ o # 5 => \A kind \in WithData : x.methods \cap Readers(kind) # {} => x.init \in WithData
  /\ x.init = "String" => x.data \in {"String", NULL}
  /\ "to_repr" \in x.methods => o = 5
  /\ "dispatch" \in x.methods => x.init = "Message" /\ x.slots["proto"] # NULL

(* The data of the clone of a kind that has data, or that it lacks because *)
(* + made it of a string without any.                                      *)
HasData(x) == \/ x.data = x.init
              \/ x.init = "String" /\ x.hollow /\ x.data = NULL

(* What x has from its prototype when it is the object o of heap h: the    *)
(* prototype was there before, or is Object; its kind, if it makes data;   *)
(* and the slots of a message.                                             *)
Fits(h, o, x) ==
  LET p == x.slots["proto"] IN
  /\ Alone(o, x)
  /\ o = 5 => p = NULL
  /\ p # NULL => /\ p \in 1..Len(h)
                 /\ IF o < 5 THEN p = 5 ELSE p < o
                 /\ h[p].init \in WithData => x.init = h[p].init /\ HasData(x)
                 /\ h[p].init = "Message" => x.slots["previous"] # NULL

(* The slots of the lobby name objects, never the lobby, and the           *)
(* prototypes with data by their kind.                                     *)
LobbyFits(h) ==
  /\ \A name \in SlotNames : Proto(h, name) # NULL => Proto(h, name) \in 1..Len(h) \ {Lobby}
  /\ \A kind \in WithData : Proto(h, kind) # NULL => h[Proto(h, kind)].init = kind
  /\ Proto(h, "Object") \in {NULL, 5}

(* All of a heap but the object e, which is being initialised.             *)
SoundBut(h, e) ==
  /\ h \in Seq(Obj) /\ Len(h) >= 4
  /\ \A o \in 1..Len(h) : o # e => Fits(h, o, h[o])
  /\ LobbyFits(h)

Sound(h) == SoundBut(h, 0)

(* What is in the lobby before statement k of sk_vm_new.                   *)
Progress(h, k) ==
  /\ k = 1 => Len(h) = 4
  /\ \A j \in 1..Len(Statements) :
       j < k /\ Kind(Statements[j]) \in {"proto", "error", "constant"}
         => Proto(h, Name(Statements[j])) # NULL
  /\ k > 1 => Len(h) >= 5
  /\ k > 20 => Slot(h, 5, "tag") # NULL

(* How the process ends.                                                   *)
Outcome ==
  /\ state.is = "crashed" => /\ state.at \in 1..Len(heap)
                             /\ heap[state.at].methods # {}
                             /\ heap[state.at].init # "String"
  /\ state.is = "aborted" => /\ state.at \in 1..Len(heap) \ {Lobby}
                             /\ ~ LacksTag(state.at)
                             /\ ProtoOf(heap, state.at) \in 1..Len(heap)
                             /\ "dispatch" \notin heap[ProtoOf(heap, state.at)].methods

TypeOK == /\ heap \in Seq(Obj)
          /\ step \in 1..Len(Statements) + 1
          /\ held \subseteq 1..Len(heap) \ {Lobby}
          /\ state \in [is : {"running", "aborted", "crashed"}, at : Nat \cup {NULL}]

OInv == TypeOK /\ Sound(heap) /\ Progress(heap, step) /\ Outcome

-----------------------------------------------------------------------------
(***************************************************************************)
(* Objects and heaps.                                                      *)
(***************************************************************************)
LEMMA Names ==
  /\ {"proto", "tag", "activatable", "name", "arguments", "next", "previous",
      "message", "argument_names", "self", "call"} \subseteq SlotNames
  /\ Prototypes \subseteq SlotNames /\ Errors \subseteq SlotNames
  /\ ConstantNames \subseteq SlotNames /\ WithData \subseteq Prototypes
  /\ \A name \in Prototypes \cup Errors \cup ConstantNames :
       name \notin {"proto", "previous", "tag"}
<1>1. WithData \subseteq Prototypes
  BY DEF Prototypes, WithData
<1>2. \A name \in Prototypes \cup Errors \cup ConstantNames :
        name \notin {"proto", "previous", "tag"}
  BY DEF Prototypes, Errors, ConstantNames
<1>3. QED
  BY <1>1, <1>2 DEF SlotNames

LEMMA NewObjectFacts ==
  /\ NewObject \in Obj
  /\ \A name \in SlotNames : NewObject.slots[name] = NULL
  /\ NewObject.methods = {} /\ NewObject.data = NULL /\ NewObject.init = NULL
  /\ NewObject.clone = "base"
<1>1. [name \in SlotNames |-> NULL] \in [SlotNames -> Nat \cup {NULL}]
  OBVIOUS
<1>2. NewObject \in Obj
  BY <1>1 DEF NewObject, Obj
<1>3. QED
  BY <1>2 DEF NewObject

LEMMA WithFacts ==
  ASSUME NEW x \in Obj, NEW name \in SlotNames, NEW v \in Nat
  PROVE  /\ With(x, name, v) \in Obj
         /\ \A other \in SlotNames :
              /\ other = name => With(x, name, v).slots[other] = v
              /\ other # name => With(x, name, v).slots[other] = x.slots[other]
         /\ With(x, name, v).methods = x.methods
         /\ With(x, name, v).data = x.data
         /\ With(x, name, v).init = x.init
         /\ With(x, name, v).clone = x.clone
         /\ With(x, name, v).hollow = x.hollow
BY DEF With, Obj

LEMMA ReplaceFacts ==
  ASSUME NEW h \in Seq(Obj), NEW o \in 1..Len(h), NEW x \in Obj
  PROVE  LET g == [h EXCEPT ![o] = x] IN
         /\ g \in Seq(Obj) /\ Len(g) = Len(h) /\ g[o] = x
         /\ \A p \in 1..Len(h) : p # o => g[p] = h[p]
OBVIOUS

LEMMA AppendFacts ==
  ASSUME NEW h \in Seq(Obj), NEW x \in Obj
  PROVE  LET g == Append(h, x) IN
         /\ g \in Seq(Obj) /\ Len(g) = Len(h) + 1 /\ g[Len(h) + 1] = x
         /\ \A p \in 1..Len(h) : g[p] = h[p]
OBVIOUS

LEMMA Elements ==
  ASSUME NEW h \in Seq(Obj)
  PROVE  /\ Len(h) \in Nat /\ DOMAIN h = 1..Len(h)
         /\ \A o \in 1..Len(h) : h[o] \in Obj
OBVIOUS

LEMMA PutFacts ==
  ASSUME NEW h \in Seq(Obj), NEW o \in 1..Len(h), NEW name \in SlotNames, NEW v \in Nat
  PROVE  /\ Put(h, o, name, v) \in Seq(Obj)
         /\ Len(Put(h, o, name, v)) = Len(h)
         /\ Put(h, o, name, v)[o] = With(h[o], name, v)
         /\ \A p \in 1..Len(h) : p # o => Put(h, o, name, v)[p] = h[p]
<1>1. With(h[o], name, v) \in Obj
  BY WithFacts
<1>2. QED
  BY <1>1, ReplaceFacts DEF Put

(* A slot that is not `proto' leaves the rest of the object alone.         *)
LEMMA PutObject ==
  ASSUME NEW h \in Seq(Obj), NEW o \in 1..Len(h), NEW name \in SlotNames \ {"proto"},
         NEW v \in Nat
  PROVE  LET y == Put(h, o, name, v)[o] IN
         /\ y \in Obj /\ y.slots[name] = v /\ y.slots["proto"] = h[o].slots["proto"]
         /\ y.methods = h[o].methods /\ y.data = h[o].data
         /\ y.init = h[o].init /\ y.clone = h[o].clone /\ y.hollow = h[o].hollow
<1> DEFINE x == h[o]
           y == With(x, name, v)
<1>1. x \in Obj /\ "proto" \in SlotNames /\ name \in SlotNames /\ name # "proto"
  BY Names
<1>2. Put(h, o, name, v)[o] = y
  BY <1>1, PutFacts
<1> HIDE DEF x
<1>3. /\ y \in Obj /\ y.methods = x.methods /\ y.data = x.data /\ y.init = x.init
      /\ y.clone = x.clone /\ y.hollow = x.hollow
  BY <1>1, WithFacts
<1>4. y.slots[name] = v /\ y.slots["proto"] = x.slots["proto"]
  <2>1. \A other \in SlotNames : /\ other = name => y.slots[other] = v
                                 /\ other # name => y.slots[other] = x.slots[other]
    BY <1>1, WithFacts
  <2> HIDE DEF y
  <2>2. QED
    BY <1>1, <2>1
<1>5. QED
  BY <1>2, <1>3, <1>4 DEF x

LEMMA AppendThenReplace ==
  ASSUME NEW h \in Seq(Obj), NEW c \in Obj, NEW x \in Obj
  PROVE  [Append(h, c) EXCEPT ![Len(h) + 1] = x] = Append(h, x)
<1> DEFINE n == Len(h) + 1
           a == Append(h, x)
           b == Append(h, c)
           r == [b EXCEPT ![n] = x]
<1>1. Len(h) \in Nat /\ n \in 1..n /\ \A p \in 1..n : p # n => p \in 1..Len(h)
  BY Elements
<1>2. a \in Seq(Obj) /\ Len(a) = n /\ a[n] = x /\ \A p \in 1..Len(h) : a[p] = h[p]
  BY AppendFacts
<1>3. b \in Seq(Obj) /\ Len(b) = n /\ \A p \in 1..Len(h) : b[p] = h[p]
  BY AppendFacts
<1> HIDE DEF a, b, n
<1>4. r \in Seq(Obj) /\ Len(r) = n /\ r[n] = x /\ \A p \in 1..n : p # n => r[p] = b[p]
  BY <1>1, <1>3, ReplaceFacts
<1> HIDE DEF r
<1>5. r = a
  BY <1>1, <1>2, <1>3, <1>4
<1>6. QED
  BY <1>5 DEF a, b, n, r

(* An object fits a heap that has more objects and the same functions.     *)
LEMMA FitsLonger ==
  ASSUME NEW h \in Seq(Obj), NEW g \in Seq(Obj), NEW o \in Nat, NEW x, Fits(h, o, x),
         Len(g) >= Len(h), \A p \in 1..Len(h) : g[p].init = h[p].init
  PROVE  Fits(g, o, x)
<1>1. \A p \in 1..Len(h) : p \in 1..Len(g)
  BY Elements
<1>2. QED
  BY <1>1 DEF Fits

LEMMA LobbySame ==
  ASSUME NEW h \in Seq(Obj), NEW g \in Seq(Obj), LobbyFits(h), Len(h) >= 4,
         Len(g) >= Len(h), \A p \in 1..Len(h) : g[p].init = h[p].init,
         g[Lobby] = h[Lobby]
  PROVE  LobbyFits(g)
<1>1. \A p \in 1..Len(h) : p \in 1..Len(g)
  BY Elements
<1>2. \A name : Proto(g, name) = Proto(h, name)
  BY DEF Proto, Slot
<1>3. WithData \subseteq SlotNames /\ "Object" \in SlotNames
  BY Names DEF Prototypes
<1>4. QED
  BY <1>1, <1>2, <1>3 DEF LobbyFits

LEMMA AppendSound ==
  ASSUME NEW h, NEW e \in Nat, SoundBut(h, e), NEW x \in Obj, Fits(h, Len(h) + 1, x)
  PROVE  SoundBut(Append(h, x), e)
<1> DEFINE g == Append(h, x)
<1>1. h \in Seq(Obj) /\ Len(h) >= 4 /\ Len(h) \in Nat
  BY Elements DEF SoundBut
<1>2. /\ g \in Seq(Obj) /\ Len(g) = Len(h) + 1 /\ g[Len(h) + 1] = x
      /\ \A p \in 1..Len(h) : g[p] = h[p]
  BY <1>1, AppendFacts
<1> HIDE DEF g
<1>3. ASSUME NEW o \in 1..Len(g), o # e PROVE Fits(g, o, g[o])
  <2>1. CASE o = Len(h) + 1
    BY <1>1, <1>2, <2>1, FitsLonger
  <2>2. CASE o # Len(h) + 1
    <3>1. o \in 1..Len(h) /\ o \in Nat
      BY <1>1, <1>2, <2>2
    <3>2. Fits(h, o, h[o])
      BY <1>3, <3>1 DEF SoundBut
    <3>3. QED
      BY <1>1, <1>2, <3>1, <3>2, FitsLonger
  <2>3. QED
    BY <2>1, <2>2
<1>4. LobbyFits(g)
  BY <1>1, <1>2, LobbySame DEF SoundBut, Lobby
<1>5. SoundBut(g, e)
  BY <1>1, <1>2, <1>3, <1>4 DEF SoundBut
<1>6. QED
  BY <1>5 DEF g

(* The new object is initialised afterwards.                               *)
LEMMA AppendSoundBut ==
  ASSUME NEW h, Sound(h), NEW x \in Obj
  PROVE  SoundBut(Append(h, x), Len(h) + 1)
<1> DEFINE g == Append(h, x)
<1>1. h \in Seq(Obj) /\ Len(h) >= 4 /\ Len(h) \in Nat
  BY Elements DEF Sound, SoundBut
<1>2. /\ g \in Seq(Obj) /\ Len(g) = Len(h) + 1
      /\ \A p \in 1..Len(h) : g[p] = h[p]
  BY <1>1, AppendFacts
<1> HIDE DEF g
<1>3. ASSUME NEW o \in 1..Len(g), o # Len(h) + 1 PROVE Fits(g, o, g[o])
  <2>1. o \in 1..Len(h) /\ o \in Nat /\ o # 0
    BY <1>1, <1>2, <1>3
  <2>2. Fits(h, o, h[o])
    BY <2>1 DEF Sound, SoundBut
  <2>3. QED
    BY <1>1, <1>2, <2>1, <2>2, FitsLonger
<1>4. LobbyFits(g)
  BY <1>1, <1>2, LobbySame DEF Sound, SoundBut, Lobby
<1>5. SoundBut(g, Len(h) + 1)
  BY <1>1, <1>2, <1>3, <1>4 DEF SoundBut
<1>6. QED
  BY <1>5 DEF g

(* An object that is not the lobby may change as long as it fits, the one  *)
(* that is being initialised as it likes.                                  *)
LEMMA ReplaceSound ==
  ASSUME NEW h, NEW e \in Nat, SoundBut(h, e), NEW o \in 1..Len(h), o # Lobby,
         NEW x \in Obj, x.init = h[o].init, o # e => Fits(h, o, x)
  PROVE  SoundBut([h EXCEPT ![o] = x], e)
<1> DEFINE g == [h EXCEPT ![o] = x]
<1>1. h \in Seq(Obj) /\ Len(h) >= 4 /\ Len(h) \in Nat
  BY Elements DEF SoundBut
<1>2. /\ g \in Seq(Obj) /\ Len(g) = Len(h) /\ g[o] = x
      /\ \A p \in 1..Len(h) : p # o => g[p] = h[p]
  BY <1>1, ReplaceFacts
<1> HIDE DEF g
<1>3. \A p \in 1..Len(h) : g[p].init = h[p].init
  BY <1>2
<1>4. ASSUME NEW q \in 1..Len(g), q # e PROVE Fits(g, q, g[q])
  <2>1. q \in 1..Len(h) /\ q \in Nat
    BY <1>1, <1>2
  <2>2. Fits(h, q, g[q])
    BY <1>2, <1>4, <2>1 DEF SoundBut
  <2>3. QED
    BY <1>1, <1>2, <1>3, <2>1, <2>2, FitsLonger
<1>5. LobbyFits(g)
  <2>1. g[Lobby] = h[Lobby]
    BY <1>1, <1>2 DEF Lobby
  <2>2. QED
    BY <1>1, <1>2, <1>3, <2>1, LobbySame DEF SoundBut
<1>6. SoundBut(g, e)
  BY <1>1, <1>2, <1>4, <1>5 DEF SoundBut
<1>7. QED
  BY <1>6 DEF g

LEMMA SoundAgain ==
  ASSUME NEW h, NEW e \in Nat, SoundBut(h, e), Fits(h, e, h[e])
  PROVE  Sound(h)
BY DEF Sound, SoundBut

(* A slot that is not `proto' leaves what fits as it is.                   *)
LEMMA PutSound ==
  ASSUME NEW h, NEW e \in Nat, SoundBut(h, e), NEW o \in 1..Len(h), o # Lobby,
         NEW name \in SlotNames \ {"proto"}, NEW v \in Nat
  PROVE  SoundBut(Put(h, o, name, v), e)
<1>1. h \in Seq(Obj) /\ h[o] \in Obj
  BY Elements DEF SoundBut
<1> DEFINE x == With(h[o], name, v)
<1>2. /\ x \in Obj /\ x.methods = h[o].methods /\ x.data = h[o].data /\ x.init = h[o].init
      /\ x.clone = h[o].clone /\ x.hollow = h[o].hollow
      /\ x.slots["proto"] = h[o].slots["proto"]
      /\ x.slots["previous"] = h[o].slots["previous"] \/ x.slots["previous"] # NULL
  <2>1. "proto" \in SlotNames /\ "previous" \in SlotNames /\ name \in SlotNames /\ name # "proto"
    BY Names
  <2>2. v # NULL
    BY NullIsNothing
  <2>3. /\ x \in Obj /\ x.methods = h[o].methods /\ x.data = h[o].data
        /\ x.init = h[o].init /\ x.clone = h[o].clone /\ x.hollow = h[o].hollow
    BY <1>1, <2>1, WithFacts
  <2>4. x.slots["proto"] = h[o].slots["proto"]
    BY <1>1, <2>1, WithFacts, ZenonT(40)
  <2>5. x.slots["previous"] = h[o].slots["previous"] \/ x.slots["previous"] = v
    BY <1>1, <2>1, WithFacts, ZenonT(40)
  <2>6. QED
    BY <2>2, <2>3, <2>4, <2>5
<1> HIDE DEF x
<1>3. o # e => Fits(h, o, x)
  <2>1. o # e => Fits(h, o, h[o])
    BY DEF SoundBut
  <2>2. QED
    BY <1>2, <2>1 DEF Fits, Alone, HasData
<1>4. SoundBut([h EXCEPT ![o] = x], e)
  BY <1>2, <1>3, ReplaceSound
<1>5. QED
  BY <1>4 DEF Put, x

-----------------------------------------------------------------------------
(***************************************************************************)
(* Clones.                                                                 *)
(***************************************************************************)
\* An object to which no method is bound.
Bare(x) == x.methods = {}

LEMMA CopyFacts ==
  ASSUME NEW h \in Seq(Obj), NEW o \in 1..Len(h)
  PROVE  LET x == Copy(h, o) IN
         /\ x \in Obj /\ x.slots["proto"] = o
         /\ Bare(x) /\ x.data = NULL
         /\ h[o].clone = "base" => x.init = NULL /\ x.clone = "base"
         /\ h[o].clone # "base" => x.init = h[o].init /\ x.clone = h[o].clone
<1>1. h[o] \in Obj /\ NewObject \in Obj /\ "proto" \in SlotNames /\ o \in Nat
  BY NewObjectFacts, Names
<1> DEFINE y == With(NewObject, "proto", o)
<1>2. /\ y \in Obj /\ y.slots["proto"] = o /\ Bare(y) /\ y.data = NULL
      /\ y.init = NULL /\ y.clone = "base"
  <2>1. y \in Obj /\ y.methods = NewObject.methods /\ y.data = NewObject.data
        /\ y.init = NewObject.init /\ y.clone = NewObject.clone
    BY <1>1, WithFacts
  <2>2. y.slots["proto"] = o
    BY <1>1, WithFacts
  <2> HIDE DEF y
  <2>3. QED
    BY <2>1, <2>2, NewObjectFacts DEF Bare
<1> HIDE DEF y
<1>3. CloneBase(h, o) = y /\ CloneLazy(h, o) = [y EXCEPT !.clone = h[o].clone, !.init = h[o].init]
  BY DEF CloneBase, CloneLazy, y
<1> DEFINE z == [y EXCEPT !.clone = h[o].clone, !.init = h[o].init]
<1>4. /\ z \in Obj /\ z.slots = y.slots /\ Bare(z) /\ z.data = NULL
      /\ z.init = h[o].init /\ z.clone = h[o].clone
  BY <1>1, <1>2 DEF Obj, Bare
<1> HIDE DEF z
<1>5. CASE h[o].clone = "base"
  <2>1. Copy(h, o) = y
    BY <1>3, <1>5 DEF Copy
  <2>2. QED
    BY <1>2, <1>5, <2>1
<1>6. CASE h[o].clone # "base"
  <2>1. Copy(h, o) = z
    BY <1>3, <1>6 DEF Copy, z
  <2>2. QED
    BY <1>2, <1>4, <1>6, <2>1
<1>7. QED
  BY <1>5, <1>6

(* The functions `init' leave the prototype alone, and those of a kind     *)
(* with data make data of that kind.                                       *)
LEMMA InitialisedFacts ==
  ASSUME NEW x \in Obj, NEW i
  PROVE  LET y == Initialised(x, i) IN
         /\ y \in Obj /\ y.slots["proto"] = x.slots["proto"] /\ y.methods = x.methods
         /\ i \in WithData => y.data = i /\ y.init = x.init
         /\ y.init # x.init => i # NULL /\ y.init \in {"Method2", "Message2"}
         /\ y.clone = x.clone \/ y.clone # "base"
<1>1. CASE i \in {"Number", "String", "List", "Thread", "Mutex"}
  <2>1. /\ "Number" \in Prototypes /\ "String" \in Prototypes
        /\ WithData = {"Number", "String", "List", "Thread", "Mutex"}
    BY DEF Prototypes, WithData
  <2>2. CASE i = "Number"
    <3>1. Initialised(x, i) = InitNumber(x)
      BY <2>2 DEF Initialised
    <3>2. QED
      BY <2>1, <2>2, <3>1 DEF InitNumber, Obj
  <2>3. CASE i = "String"
    <3>1. Initialised(x, i) = InitString(x)
      BY <2>3 DEF Initialised
    <3>2. QED
      BY <2>1, <2>3, <3>1 DEF InitString, Obj
  <2>4. CASE i = "List"
    <3>1. Initialised(x, i) = InitList(x)
      BY <2>4 DEF Initialised
    <3>2. QED
      BY <2>1, <2>4, <3>1 DEF InitList, Obj
  <2>5. CASE i = "Thread"
    <3>1. Initialised(x, i) = InitThread(x)
      BY <2>5 DEF Initialised
    <3>2. QED
      BY <2>1, <2>5, <3>1 DEF InitThread, Obj
  <2>6. CASE i = "Mutex"
    <3>1. Initialised(x, i) = InitMutex(x)
      BY <2>6 DEF Initialised
    <3>2. QED
      BY <2>1, <2>6, <3>1 DEF InitMutex, Obj
  <2>7. QED
    BY <1>1, <2>2, <2>3, <2>4, <2>5, <2>6
<1>2. CASE i \notin {"Number", "String", "List", "Thread", "Mutex"}
  <2>1. i \notin WithData
    BY <1>2 DEF WithData
  <2>2. CASE i = "Method"
    <3>1. Initialised(x, i) = InitMethod(x)
      BY <2>2 DEF Initialised
    <3>2. /\ "message" \in SlotNames /\ "activatable" \in SlotNames /\ "proto" \in SlotNames
          /\ Nil \in Nat /\ True \in Nat
      BY Names DEF Nil, True
    <3> DEFINE u == With(x, "message", Nil)
               v == With(u, "activatable", True)
    <3>3. /\ u \in Obj /\ u.slots["proto"] = x.slots["proto"] /\ u.methods = x.methods
          /\ u.init = x.init /\ u.clone = x.clone
      BY <3>2, WithFacts, SMTT(20)
    <3> HIDE DEF u
    <3>4. /\ v \in Obj /\ v.slots["proto"] = x.slots["proto"] /\ v.methods = x.methods
          /\ v.init = x.init /\ v.clone = x.clone
      BY <3>2, <3>3, WithFacts
    <3> HIDE DEF v
    <3>5. InitMethod(x) = [v EXCEPT !.init = "Method2"]
      BY DEF InitMethod, u, v
    <3>6. i # NULL /\ "Method2" \in Inits
      BY <2>2, NullIsNothing DEF Inits, Prototypes
    <3>7. QED
      BY <2>1, <3>1, <3>4, <3>5, <3>6 DEF Obj
  <2>3. CASE i = "Message2"
    <3>1. Initialised(x, i) = InitMessage2(x)
      BY <2>3 DEF Initialised
    <3>2. "Message" \in Prototypes /\ i # NULL /\ "Message2" \in Inits
      BY <2>3, NullIsNothing DEF Inits, Prototypes
    <3>3. QED
      BY <2>1, <2>3, <3>1, <3>2 DEF InitMessage2, Obj
  <2>4. CASE i \notin {"Method", "Message2"}
    <3>1. Initialised(x, i) = x
      BY <1>2, <2>4 DEF Initialised
    <3>2. QED
      BY <2>1, <3>1
  <2>5. QED
    BY <2>2, <2>3, <2>4
<1>3. QED
  BY <1>1, <1>2

LEMMA CloneFits ==
  ASSUME NEW h, NEW e \in Nat, SoundBut(h, e), NEW o \in 1..Len(h), o # e, Len(h) >= 5
  PROVE  LET x == Initialised(Copy(h, o), h[o].init) IN
         /\ x \in Obj /\ x.slots["proto"] = o /\ Bare(x)
         /\ h[o].init # "Message" => Fits(h, Len(h) + 1, x)
<1> DEFINE c == Copy(h, o)
           i == h[o].init
           x == Initialised(c, i)
           n == Len(h) + 1
<1>1. h \in Seq(Obj) /\ Len(h) \in Nat /\ h[o] \in Obj /\ Fits(h, o, h[o])
  BY Elements DEF SoundBut
<1>2. /\ c \in Obj /\ c.slots["proto"] = o /\ Bare(c) /\ c.data = NULL
      /\ h[o].clone = "base" => c.init = NULL /\ c.clone = "base"
      /\ h[o].clone # "base" => c.init = i /\ c.clone = h[o].clone
  BY <1>1, CopyFacts
<1> HIDE DEF c
<1>3. /\ x \in Obj /\ x.slots["proto"] = c.slots["proto"] /\ x.methods = c.methods
      /\ i \in WithData => x.data = i /\ x.init = c.init
      /\ x.init # c.init => i # NULL /\ x.init \in {"Method2", "Message2"}
      /\ x.clone = c.clone \/ x.clone # "base"
  BY <1>2, InitialisedFacts
<1>4. i # NULL => h[o].clone # "base"
  BY <1>1 DEF Fits, Alone
<1> HIDE DEF x
<1>5. ASSUME i # "Message" PROVE Fits(h, n, x)
  <2>1. n \in Nat /\ n # 5 /\ n >= 5 /\ o < n /\ o \in Nat
    BY <1>1
  <2>2. x.init # NULL => x.clone # "base"
    BY <1>2, <1>3, <1>4
  <2>3. Alone(n, x)
    <3>1. "String" \in WithData /\ "String" # NULL
      BY NullIsNothing, Names DEF WithData
    <3>2. x.init = "String" => x.data = "String"
      BY <1>2, <1>3, <3>1
    <3>3. QED
      BY <1>2, <1>3, <2>1, <2>2, <3>2 DEF Alone, Bare
  <2>4. i \in WithData => x.init = i /\ x.data = i
    <3>1. i \in WithData => i # NULL
      BY NullIsNothing, Names
    <3>2. QED
      BY <1>2, <1>3, <1>4, <3>1
  <2>5. x.slots["proto"] = o
    BY <1>2, <1>3
  <2> HIDE DEF n, i
  <2>6. QED
    BY <1>5, <2>1, <2>3, <2>4, <2>5 DEF Fits, HasData, i
<1>6. QED
  BY <1>2, <1>3, <1>5 DEF c, x, Bare

(* Heap g has the objects of h as they are, and perhaps new ones.          *)
Extends(h, g) == /\ g \in Seq(Obj) /\ Len(g) >= Len(h)
                 /\ \A o \in 1..Len(h) : g[o] = h[o]

LEMMA ExtendsFacts ==
  ASSUME NEW h \in Seq(Obj), NEW g, Extends(h, g)
  PROVE  /\ \A o \in 1..Len(h) : \A name : Slot(g, o, name) = Slot(h, o, name)
         /\ Len(h) >= 4 => \A name : Proto(g, name) = Proto(h, name)
<1>1. Lobby = 4 /\ Len(h) \in Nat
  BY DEF Lobby
<1>2. QED
  BY <1>1 DEF Extends, Slot, Proto

LEMMA ExtendsTransitive ==
  ASSUME NEW h \in Seq(Obj), NEW g, NEW k, Extends(h, g), Extends(g, k)
  PROVE  Extends(h, k)
<1>1. \A o \in 1..Len(h) : o \in 1..Len(g)
  BY Elements DEF Extends
<1>2. QED
  BY <1>1, Elements DEF Extends

LEMMA ExtendsPut ==
  ASSUME NEW h \in Seq(Obj), NEW g, Extends(h, g), NEW o \in 1..Len(g), o > Len(h),
         NEW name \in SlotNames, NEW v \in Nat
  PROVE  Extends(h, Put(g, o, name, v))
<1>1. g \in Seq(Obj) /\ Len(h) \in Nat /\ Len(g) >= Len(h)
  BY DEF Extends
<1>2. /\ Put(g, o, name, v) \in Seq(Obj) /\ Len(Put(g, o, name, v)) = Len(g)
      /\ \A p \in 1..Len(g) : p # o => Put(g, o, name, v)[p] = g[p]
  BY <1>1, PutFacts
<1>3. \A p \in 1..Len(h) : p \in 1..Len(g) /\ p # o
  BY <1>1
<1>4. QED
  BY <1>1, <1>2, <1>3 DEF Extends

LEMMA CloneAloneSound ==
  ASSUME NEW h, NEW e \in Nat, SoundBut(h, e), NEW o \in 1..Len(h), o # e, Len(h) >= 5,
         h[o].init # "Message"
  PROVE  LET g == CloneAlone(h, o)
             n == Len(h) + 1
         IN  /\ SoundBut(g, e) /\ Extends(h, g) /\ Len(g) = n
             /\ g[n] \in Obj /\ g[n].slots["proto"] = o /\ Bare(g[n])
<1> DEFINE x == Initialised(Copy(h, o), h[o].init)
<1>1. x \in Obj /\ x.slots["proto"] = o /\ Bare(x)
  BY CloneFits
<1>2. Fits(h, Len(h) + 1, x)
  BY CloneFits
<1>3. CloneAlone(h, o) = Append(h, x)
  BY DEF CloneAlone
<1> HIDE DEF x
<1>4. h \in Seq(Obj) /\ Len(h) \in Nat
  BY DEF SoundBut
<1>5. SoundBut(Append(h, x), e)
  BY <1>1, <1>2, AppendSound
<1>6. /\ Append(h, x) \in Seq(Obj) /\ Len(Append(h, x)) = Len(h) + 1
      /\ Append(h, x)[Len(h) + 1] = x
      /\ \A p \in 1..Len(h) : Append(h, x)[p] = h[p]
  BY <1>1, <1>4, AppendFacts
<1>7. Extends(h, Append(h, x))
  BY <1>4, <1>6 DEF Extends
<1>8. QED
  BY <1>1, <1>3, <1>5, <1>6, <1>7

(* What the prototype of a kind in the lobby is.                           *)
LEMMA ProtoFacts ==
  ASSUME NEW h, NEW e \in Nat, SoundBut(h, e), NEW name \in SlotNames, Proto(h, name) # NULL
  PROVE  /\ Proto(h, name) \in 1..Len(h) /\ Proto(h, name) # Lobby /\ Proto(h, name) \in Nat
         /\ name \in WithData => h[Proto(h, name)].init = name
<1>1. Proto(h, name) \in 1..Len(h) /\ Proto(h, name) # Lobby
  BY DEF SoundBut, LobbyFits
<1>2. QED
  BY <1>1 DEF SoundBut, LobbyFits

LEMMA StringFromSound ==
  ASSUME NEW h, NEW e \in Nat, SoundBut(h, e), Len(h) >= 5,
         Proto(h, "String") # NULL, Proto(h, "String") # e
  PROVE  LET g == StringFrom(h, "String")
             n == Len(h) + 1
         IN  /\ SoundBut(g, e) /\ Extends(h, g) /\ Len(g) = n
             /\ g[n] \in Obj /\ g[n].slots["proto"] = Proto(h, "String") /\ Bare(g[n])
<1> DEFINE o == Proto(h, "String")
           k == CloneAlone(h, o)
           n == Len(h) + 1
           x == [k[n] EXCEPT !.data = "String"]
           g == [k EXCEPT ![n] = x]
<1>1. "String" \in SlotNames /\ "String" \in WithData /\ "String" # "Message"
  BY Names DEF WithData
<1>2. o \in 1..Len(h) /\ h[o].init = "String"
  BY <1>1, ProtoFacts
<1>3. h \in Seq(Obj) /\ Len(h) \in Nat
  BY DEF SoundBut
<1>4. /\ SoundBut(k, e) /\ Extends(h, k) /\ Len(k) = n
      /\ k[n] \in Obj /\ k[n].slots["proto"] = o /\ Bare(k[n])
  BY <1>1, <1>2, CloneAloneSound
<1>5. k \in Seq(Obj) /\ n \in 1..Len(k) /\ n \in Nat /\ n # Lobby
  BY <1>3, <1>4 DEF SoundBut, Lobby
<1>6. /\ x \in Obj /\ x.slots = k[n].slots /\ Bare(x) /\ x.init = k[n].init
      /\ x.clone = k[n].clone /\ x.data = "String"
  BY <1>1, <1>4 DEF Obj, Bare
<1>7. n # e => Fits(k, n, x)
  <2>1. ASSUME n # e PROVE Fits(k, n, x)
    <3>1. Fits(k, n, k[n])
      BY <1>4, <1>5, <2>1 DEF SoundBut
    <3>2. k[o].init = "String"
      BY <1>2, <1>4 DEF Extends
    <3> HIDE DEF x, k, n, o
    <3>3. QED
      BY <1>1, <1>4, <1>6, <3>1, <3>2 DEF Fits, HasData, Alone, Bare
  <2>2. QED
    BY <2>1
<1>8. g = StringFrom(h, "String")
  BY DEF StringFrom
<1> HIDE DEF k, x, o
<1>9. SoundBut(g, e)
  BY <1>4, <1>5, <1>6, <1>7, ReplaceSound
<1>10. /\ g \in Seq(Obj) /\ Len(g) = n /\ g[n] = x
       /\ \A p \in 1..Len(k) : p # n => g[p] = k[p]
  BY <1>4, <1>5, <1>6, ReplaceFacts
<1>11. Extends(h, g)
  <2>1. \A p \in 1..Len(h) : p \in 1..Len(k) /\ p # n
    BY <1>3, <1>4
  <2>2. QED
    BY <1>3, <1>4, <1>10, <2>1 DEF Extends
<1>12. QED
  BY <1>4, <1>6, <1>8, <1>9, <1>10, <1>11 DEF o

(* sk_message_init on the last object of a heap, a clone of the prototype  *)
(* Message.                                                                *)
LEMMA InitMessageSound ==
  ASSUME NEW h, Sound(h), NEW o \in 1..Len(h), h[o].init = "Message", Len(h) >= 5,
         Proto(h, "String") # NULL, Proto(h, "List") # NULL,
         NEW c \in Obj, c.slots["proto"] = o, Bare(c)
  PROVE  LET n == Len(h) + 1
             g == InitMessage(Append(h, c), n)
         IN  /\ Sound(g) /\ Extends(h, g) /\ Len(g) > Len(h)
             /\ g[n] \in Obj /\ g[n].slots["proto"] = o /\ Bare(g[n])
<1> DEFINE n == Len(h) + 1
           x == InitMessage2(c)
           a == Append(h, x)
           b == StringFrom(a, "String")
           d == Put(b, n, "name", n + 1)
           l == Proto(h, "List")
           f == CloneAlone(d, l)
           g1 == Put(f, n, "arguments", Len(b) + 1)
           g2 == Put(g1, n, "next", Nil)
           g == Put(g2, n, "previous", Nil)
<1>1. h \in Seq(Obj) /\ Len(h) \in Nat /\ n \in Nat /\ n # Lobby /\ Lobby \in 1..Len(h)
  BY DEF Sound, SoundBut, Lobby
<1>2. x \in Obj /\ x.slots = c.slots /\ Bare(x) /\ x.init = "Message2" /\ x.clone = "Message"
  BY DEF InitMessage2, Obj, Inits, Prototypes, Bare
<1> HIDE DEF x
<1>3. InitMessage(Append(h, c), n) = g
  <2>1. Append(h, c) \in Seq(Obj) /\ Append(h, c)[n] = c /\ Len(Append(h, c)) = n
    BY <1>1, AppendFacts
  <2>2. [Append(h, c) EXCEPT ![n] = InitMessage2(Append(h, c)[n])] = a
    BY <1>1, <1>2, <2>1, AppendThenReplace DEF x
  <2>3. Proto(Append(h, c), "List") = l
    BY <1>1, AppendFacts DEF Proto, Slot
  <2> HIDE DEF a, l
  <2>4. QED
    BY <2>1, <2>2, <2>3 DEF InitMessage
<1>4. SoundBut(a, n) /\ Extends(h, a) /\ Len(a) = n /\ a[n] = x /\ a \in Seq(Obj)
  <2>1. SoundBut(a, n)
    BY <1>2, AppendSoundBut
  <2>2. /\ a \in Seq(Obj) /\ Len(a) = n /\ a[n] = x
        /\ \A p \in 1..Len(h) : a[p] = h[p]
    BY <1>1, <1>2, AppendFacts
  <2>3. QED
    BY <1>1, <2>1, <2>2 DEF Extends
<1> HIDE DEF a
<1>5. /\ Proto(a, "String") # NULL /\ Proto(a, "String") # n
      /\ l \in 1..Len(h) /\ h[l].init = "List" /\ l # n
  <2>1. /\ "String" \in SlotNames /\ "List" \in SlotNames
        /\ "List" \in WithData /\ "String" # "Message"
    BY Names DEF WithData
  <2>2. Proto(h, "String") \in 1..Len(h) /\ l \in 1..Len(h) /\ h[l].init = "List"
    BY <2>1, ProtoFacts DEF Sound
  <2>3. Proto(a, "String") = Proto(h, "String")
    BY <1>1, <1>4, ExtendsFacts DEF Lobby
  <2>4. QED
    BY <1>1, <2>2, <2>3
<1>6. /\ SoundBut(b, n) /\ Extends(a, b) /\ Len(b) = n + 1 /\ b \in Seq(Obj)
  <2>1. Len(a) >= 5
    BY <1>1, <1>4
  <2>2. QED
    BY <1>1, <1>4, <1>5, <2>1, StringFromSound DEF SoundBut
<1> HIDE DEF b
<1>7. Extends(h, b) /\ b[n] = x /\ n \in 1..Len(b) /\ n > Len(h)
  <2>1. n \in 1..Len(a) /\ n \in 1..Len(b) /\ n > Len(h)
    BY <1>1, <1>4, <1>6
  <2>2. b[n] = x
    BY <1>4, <1>6, <2>1 DEF Extends
  <2>3. QED
    BY <1>1, <1>4, <1>6, <2>1, <2>2, ExtendsTransitive
<1>8. /\ {"name", "arguments", "next", "previous", "proto"} \subseteq SlotNames
      /\ n + 1 \in Nat /\ Len(b) + 1 \in Nat /\ Nil \in Nat /\ Nil # NULL
  BY <1>1, <1>6, Names, NullIsNothing DEF Nil
<1> DEFINE Sane(k) == /\ k \in Seq(Obj) /\ SoundBut(k, n) /\ Extends(h, k) /\ n \in 1..Len(k)
                      /\ Len(k) >= 5
                      /\ k[n] \in Obj /\ k[n].slots["proto"] = o /\ Bare(k[n])
                      /\ k[n].init = "Message2" /\ k[n].clone = "Message"
<1>9. ASSUME NEW k, Sane(k), NEW name \in SlotNames \ {"proto"}, NEW v \in Nat
      PROVE  /\ Sane(Put(k, n, name, v))
             /\ Put(k, n, name, v)[n].slots[name] = v
  <2> DEFINE q == Put(k, n, name, v)
  <2>1. SoundBut(q, n)
    BY <1>1, <1>9, PutSound
  <2>2. Extends(h, q)
    BY <1>1, <1>7, <1>9, ExtendsPut
  <2>3. q \in Seq(Obj) /\ Len(q) = Len(k)
    BY <1>9, PutFacts
  <2>4. /\ q[n] \in Obj /\ q[n].slots[name] = v /\ q[n].slots["proto"] = k[n].slots["proto"]
        /\ q[n].methods = k[n].methods
        /\ q[n].init = k[n].init /\ q[n].clone = k[n].clone
    BY <1>9, PutObject
  <2> HIDE DEF q
  <2>5. QED
    BY <1>9, <2>1, <2>2, <2>3, <2>4 DEF Bare, q
<1>10. Sane(b)
  BY <1>1, <1>2, <1>6, <1>7
<1>11. Sane(d)
  <2> HIDE DEF Sane
  <2>1. QED
    BY <1>8, <1>9, <1>10
<1> HIDE DEF d
<1>12. Sane(f)
  <2>1. Extends(h, d) /\ l \in 1..Len(d) /\ d[l].init # "Message"
    BY <1>5, <1>11 DEF Extends
  <2>2. SoundBut(f, n) /\ Extends(d, f) /\ Len(f) = Len(d) + 1
    BY <1>1, <1>5, <1>11, <2>1, CloneAloneSound
  <2> HIDE DEF f
  <2>3. f \in Seq(Obj) /\ Extends(h, f) /\ f[n] = d[n]
    BY <1>1, <1>11, <2>2, ExtendsTransitive DEF Extends
  <2>4. QED
    BY <1>11, <2>2, <2>3
<1> HIDE DEF f
<1>13. Sane(g1)
  <2> HIDE DEF Sane
  <2>1. QED
    BY <1>8, <1>9, <1>12
<1> HIDE DEF g1
<1>14. Sane(g2)
  <2> HIDE DEF Sane
  <2>1. QED
    BY <1>8, <1>9, <1>13
<1> HIDE DEF g2
<1>15. Sane(g) /\ g[n].slots["previous"] = Nil
  <2> HIDE DEF Sane
  <2>1. QED
    BY <1>8, <1>9, <1>14, ZenonT(40)
<1> HIDE DEF g
<1>16. Fits(g, n, g[n])
  <2>1. g[o].init = "Message" /\ o \in 1..Len(g) /\ o < n /\ n > 5
    BY <1>1, <1>15 DEF Extends
  <2>2. Alone(n, g[n])
    BY <1>1, <1>15, <2>1 DEF Alone, Bare
  <2>3. "Message" \notin WithData
    BY DEF WithData
  <2> HIDE DEF n
  <2>4. QED
    BY <1>1, <1>8, <1>15, <2>1, <2>2, <2>3 DEF Fits
<1>17. Sound(g)
  BY <1>1, <1>15, <1>16, SoundAgain
<1>18. QED
  BY <1>1, <1>3, <1>15, <1>17

(* Every clone, whatever `init' makes.                                     *)
LEMMA CloneSound ==
  ASSUME NEW h, Sound(h), NEW o \in 1..Len(h), Len(h) >= 5,
         h[o].init = "Message" => Proto(h, "String") # NULL /\ Proto(h, "List") # NULL
  PROVE  LET n == Len(h) + 1
             g == Clone(h, o)
         IN  /\ Sound(g) /\ Extends(h, g) /\ Len(g) > Len(h)
             /\ g[n] \in Obj /\ g[n].slots["proto"] = o /\ Bare(g[n])
<1>1. h \in Seq(Obj) /\ Len(h) \in Nat /\ o # 0
  BY DEF Sound, SoundBut
<1>2. CASE h[o].init = "Message"
  <2>1. Copy(h, o) \in Obj /\ Copy(h, o).slots["proto"] = o /\ Bare(Copy(h, o))
    BY <1>1, CopyFacts
  <2>2. Clone(h, o) = InitMessage(Append(h, Copy(h, o)), Len(h) + 1)
    BY <1>2 DEF Clone
  <2>3. QED
    BY <1>2, <2>1, <2>2, InitMessageSound
<1>3. CASE h[o].init # "Message"
  <2>1. Clone(h, o) = CloneAlone(h, o)
    BY <1>3 DEF Clone
  <2>2. QED
    BY <1>1, <1>3, <2>1, CloneAloneSound DEF Sound
<1>4. QED
  BY <1>2, <1>3

-----------------------------------------------------------------------------
(***************************************************************************)
(* The chain of prototypes.  TLAPS has no induction: a proof takes the     *)
(* least counterexample.                                                   *)
(***************************************************************************)
LEMMA LeastPlace ==
  ASSUME NEW S \in SUBSET Nat, S # {}
  PROVE  \E m \in S : \A k \in S : m <= k
<1>1. PICK m \in S : \A k \in S : ~ (<<k, m>> \in OpToRel(<, Nat))
  BY WFMin, NatLessThanWellFounded
<1>2. ASSUME NEW k \in S PROVE m <= k
  <2>1. k \in Nat /\ m \in Nat
    OBVIOUS
  <2>2. ~ (k < m)
    BY <1>1, <2>1 DEF OpToRel
  <2>3. QED
    BY <2>1, <2>2
<1>3. QED
  BY <1>2

Higher(h, p) == IF p = NULL THEN NULL ELSE ProtoOf(h, p)

\* u climbs from o, j steps at least.
Climbs(u, h, o, j) == /\ u = [k \in 0..Len(h) + 1 |-> u[k]]
                      /\ u[0] = o
                      /\ \A k \in 1..j : u[k] = Higher(h, u[k - 1])

(* The definition of Up is well-founded.                                   *)
LEMMA UpClimbs ==
  ASSUME NEW h, Len(h) \in Nat, NEW o
  PROVE  Climbs(Up(h, o), h, o, Len(h) + 1)
<1> DEFINE N == Len(h) + 1
           Bad == {j \in 0..N : \A u : ~ Climbs(u, h, o, j)}
<1>1. N \in Nat
  OBVIOUS
<1>2. Bad = {}
  <2> SUFFICES ASSUME Bad # {} PROVE FALSE
    OBVIOUS
  <2>0. Bad \in SUBSET Nat /\ Bad # {}
    BY <1>1
  <2>1. PICK m \in Bad : \A j \in Bad : m <= j
    <3> HIDE DEF Bad
    <3>1. QED
      BY <2>0, LeastPlace
  <2>2. m \in 0..N /\ \A u : ~ Climbs(u, h, o, m)
    OBVIOUS
  <2>3. m # 0
    <3> DEFINE v == [k \in 0..N |-> o]
    <3>1. v[0] = o /\ v = [k \in 0..N |-> v[k]]
      BY <1>1
    <3> HIDE DEF v
    <3>2. Climbs(v, h, o, 0)
      BY <3>1 DEF Climbs
    <3>3. QED
      BY <2>2, <3>2
  <2>4. m - 1 \in 0..N /\ m - 1 \notin Bad /\ m \in Nat
    <3>1. m - 1 \in 0..N /\ m \in Nat /\ ~ (m <= m - 1)
      BY <1>1, <2>2, <2>3
    <3> HIDE DEF Bad
    <3>2. QED
      BY <2>1, <3>1
  <2>5. PICK u : Climbs(u, h, o, m - 1)
    BY <2>4
  <2> DEFINE v == [k \in 0..N |-> IF k = m THEN Higher(h, u[m - 1]) ELSE u[k]]
  <2>6. /\ v = [k \in 0..N |-> v[k]] /\ v[m] = Higher(h, u[m - 1])
        /\ \A k \in 0..N : k # m => v[k] = u[k]
    BY <2>2
  <2> HIDE DEF v, Bad
  <2>7. Climbs(v, h, o, m)
    <3>1. v[0] = o
      BY <1>1, <2>3, <2>5, <2>6 DEF Climbs
    <3>2. ASSUME NEW k \in 1..m PROVE v[k] = Higher(h, v[k - 1])
      <4>1. k - 1 \in 0..N /\ k - 1 # m /\ k \in 0..N
        BY <1>1, <2>2, <2>4
      <4>2. k # m => k \in 1..m - 1
        BY <2>4
      <4>3. QED
        BY <2>5, <2>6, <4>1, <4>2 DEF Climbs
    <3>3. QED
      BY <2>6, <3>1, <3>2 DEF Climbs
  <2>8. QED
    BY <2>2, <2>7
<1>3. PICK u : Climbs(u, h, o, N)
  <2>1. N \in 0..N /\ N \notin Bad
    BY <1>1, <1>2
  <2>2. QED
    BY <2>1
<1> DEFINE Body(f) == [k \in 0..N |-> IF k = 0 THEN o
                                      ELSE IF f[k - 1] = NULL THEN NULL ELSE ProtoOf(h, f[k - 1])]
<1>4. u = Body(u)
  <2>1. \A k \in 0..N : k # 0 => k \in 1..N
    BY <1>1
  <2>2. \A k \in 0..N : u[k] = Body(u)[k]
    BY <1>3, <2>1 DEF Climbs, Higher
  <2>3. u = [k \in 0..N |-> u[k]]
    BY <1>3 DEF Climbs
  <2>4. QED
    BY <2>2, <2>3
<1>5. Up(h, o) = Body(Up(h, o))
  <2>1. Up(h, o) = CHOOSE f : f = Body(f)
    BY DEF Up
  <2> HIDE DEF Body
  <2>2. QED
    BY <1>4, <2>1
<1> DEFINE w == Up(h, o)
<1>6. w = Body(w)
  BY <1>5
<1> HIDE DEF w
<1>7. w[0] = o /\ w = [k \in 0..N |-> w[k]]
  <2>1. 0 \in 0..N
    BY <1>1
  <2>2. QED
    BY <1>6, <2>1
<1>8. ASSUME NEW k \in 1..N PROVE w[k] = Higher(h, w[k - 1])
  <2>1. k \in 0..N /\ k # 0
    BY <1>1
  <2>2. w[k] = Body(w)[k]
    BY <1>6
  <2>3. QED
    BY <2>1, <2>2 DEF Higher
<1>9. Climbs(w, h, o, N)
  BY <1>7, <1>8 DEF Climbs
<1>10. QED
  BY <1>9 DEF w

\* Falls from each object to its prototype.
Rank(o) == IF o = 5 THEN 0 ELSE IF o < 5 THEN 1 ELSE o

LEMMA HigherFalls ==
  ASSUME NEW h, Sound(h), NEW o \in 1..Len(h), ProtoOf(h, o) # NULL
  PROVE  ProtoOf(h, o) \in 1..Len(h) /\ Rank(ProtoOf(h, o)) < Rank(o)
<1>1. Fits(h, o, h[o]) /\ Len(h) \in Nat
  <2>1. o # 0 /\ h \in Seq(Obj)
    BY DEF Sound, SoundBut
  <2>2. QED
    BY <2>1 DEF Sound, SoundBut
<1> DEFINE p == ProtoOf(h, o)
<1>2. p = h[o].slots["proto"]
  BY DEF ProtoOf, Slot
<1>3. p \in 1..Len(h) /\ o # 5 /\ IF o < 5 THEN p = 5 ELSE p < o
  BY <1>1, <1>2 DEF Fits
<1> HIDE DEF p
<1>4. Rank(p) < Rank(o)
  BY <1>1, <1>3 DEF Rank
<1>5. QED
  BY <1>3, <1>4 DEF p

LEMMA ClimbEnds ==
  ASSUME NEW h, Sound(h), NEW o \in 1..Len(h)
  PROVE  \E k \in 1..Len(h) + 1 : /\ Up(h, o)[k] = NULL
                                  /\ \A j \in 0..k - 1 : Up(h, o)[j] # NULL
<1> DEFINE N == Len(h) + 1
           u == Up(h, o)
<1>1. Len(h) \in Nat /\ N \in Nat /\ Len(h) >= 4
  BY DEF Sound, SoundBut
<1>2. u[0] = o /\ \A k \in 1..N : u[k] = Higher(h, u[k - 1])
  <2>1. Climbs(u, h, o, N)
    BY <1>1, UpClimbs
  <2> HIDE DEF u
  <2>2. QED
    BY <2>1 DEF Climbs
<1> HIDE DEF u
<1> DEFINE Falls(k) == u[k] # NULL => u[k] \in 1..Len(h) /\ Rank(u[k]) <= Rank(o) - k
           Bad == {k \in 0..N : ~ Falls(k)}
<1>3. Bad = {}
  <2> SUFFICES ASSUME Bad # {} PROVE FALSE
    OBVIOUS
  <2>0. Bad \in SUBSET Nat /\ Bad # {}
    BY <1>1
  <2>1. PICK m \in Bad : \A j \in Bad : m <= j
    <3> HIDE DEF Bad
    <3>1. QED
      BY <2>0, LeastPlace
  <2>2. m \in 0..N /\ ~ Falls(m)
    OBVIOUS
  <2>3. Rank(o) \in Nat
    BY <1>1 DEF Rank
  <2>4. m # 0
    BY <1>2, <2>2, <2>3
  <2>5. m \in 1..N /\ m - 1 \in 0..N /\ ~ (m <= m - 1)
    BY <1>1, <2>2, <2>4
  <2>6. Falls(m - 1)
    <3>1. m - 1 \notin Bad
      <4> HIDE DEF Bad
      <4>1. QED
        BY <2>1, <2>5
    <3>2. QED
      BY <2>5, <3>1
  <2>7. u[m] = Higher(h, u[m - 1]) /\ u[m] # NULL
    BY <1>2, <2>2, <2>5
  <2> DEFINE q == u[m - 1]
  <2>8. q # NULL /\ u[m] = ProtoOf(h, q)
    BY <2>7 DEF Higher
  <2>9. q \in 1..Len(h) /\ Rank(q) <= Rank(o) - (m - 1)
    BY <2>6, <2>8
  <2>10. u[m] \in 1..Len(h) /\ Rank(u[m]) < Rank(q)
    BY <2>7, <2>8, <2>9, HigherFalls
  <2>11. Rank(q) \in Nat /\ Rank(u[m]) \in Nat
    BY <1>1, <2>9, <2>10 DEF Rank
  <2> HIDE DEF q
  <2>12. Rank(u[m]) <= Rank(o) - m
    BY <2>3, <2>5, <2>9, <2>10, <2>11
  <2>13. QED
    BY <2>2, <2>10, <2>12
<1>4. u[N] = NULL
  <2>1. Falls(N)
    <3>1. N \in 0..N
      BY <1>1
    <3>2. QED
      BY <1>3, <3>1
  <2>2. Rank(o) <= Len(h) /\ Rank(o) \in Nat
    BY <1>1 DEF Rank
  <2>3. \A q \in 1..Len(h) : Rank(q) >= 0
    BY <1>1 DEF Rank
  <2>4. ~ (Rank(o) - N >= 0)
    BY <1>1, <2>2
  <2>5. \A q \in 1..Len(h) : Rank(q) \in Nat
    BY <1>1 DEF Rank
  <2>6. QED
    <3> HIDE DEF N
    <3>1. SUFFICES ASSUME u[N] # NULL PROVE FALSE
      OBVIOUS
    <3>2. u[N] \in 1..Len(h) /\ Rank(u[N]) <= Rank(o) - N
      BY <2>1, <3>1
    <3>3. QED
      BY <1>1, <2>2, <2>3, <2>4, <2>5, <3>2
<1> DEFINE S == {k \in 0..N : u[k] = NULL}
<1>5. S \in SUBSET Nat /\ S # {}
  <2>1. N \in 0..N
    BY <1>1
  <2>2. QED
    BY <1>1, <1>4, <2>1
<1>6. PICK m \in S : \A j \in S : m <= j
  <2> HIDE DEF S
  <2>1. QED
    BY <1>5, LeastPlace
<1>7. m \in 0..N /\ u[m] = NULL /\ m # 0
  <2>1. u[0] # NULL
    BY <1>1, <1>2, NullIsNothing
  <2>2. QED
    BY <2>1
<1>8. \A j \in 0..m - 1 : u[j] # NULL
  <2>1. ASSUME NEW j \in 0..m - 1 PROVE u[j] # NULL
    <3>1. j \in 0..N /\ ~ (m <= j)
      BY <1>1, <1>7
    <3>2. j \notin S
      <4> HIDE DEF S
      <4>1. QED
        BY <1>6, <3>1
    <3>3. QED
      BY <3>1, <3>2
  <2>2. QED
    BY <2>1
<1>9. m \in 1..N
  BY <1>1, <1>7
<1>10. QED
  BY <1>7, <1>8, <1>9 DEF u

(* The ancestry is the chain up to the object that has no prototype.       *)
LEMMA AncestryFacts ==
  ASSUME NEW h, Sound(h), NEW o \in 1..Len(h)
  PROVE  LET a == Ancestry(h, o) IN
         \E n \in Nat \ {0} :
           /\ DOMAIN a = 1..n /\ a[1] = o
           /\ \A k \in 1..n : a[k] \in 1..Len(h)
           /\ \A k \in 1..n : k # 1 => a[k] = ProtoOf(h, a[k - 1])
<1> DEFINE N == Len(h) + 1
           u == Up(h, o)
           Ends(k) == u[k] = NULL /\ \A j \in 0..k - 1 : u[j] # NULL
           n == CHOOSE k \in 0..N : Ends(k)
           a == [k \in 1..n |-> u[k - 1]]
<1>1. Len(h) \in Nat /\ N \in Nat
  BY DEF Sound, SoundBut
<1>2. u[0] = o /\ \A k \in 1..N : u[k] = Higher(h, u[k - 1])
  <2>1. Climbs(u, h, o, N)
    BY <1>1, UpClimbs
  <2> HIDE DEF u
  <2>2. QED
    BY <2>1 DEF Climbs
<1>3. n \in 1..N /\ Ends(n)
  <2>1. PICK k \in 1..N : Ends(k)
    BY ClimbEnds
  <2>2. k \in 0..N
    BY <1>1
  <2> HIDE DEF u
  <2>3. n \in 0..N /\ Ends(n)
    BY <2>1, <2>2
  <2>4. u[0] # NULL
    BY <1>1, <1>2, NullIsNothing
  <2>5. QED
    BY <1>1, <2>3, <2>4
<1>4. Ancestry(h, o) = a
  BY DEF Ancestry
<1> HIDE DEF n, u
<1>5. n \in Nat \ {0}
  BY <1>1, <1>3
<1>6. \A k \in 1..n : k - 1 \in 0..n - 1 /\ a[k] = u[k - 1] /\ a[k] # NULL
  BY <1>3, <1>5
<1>7. a[1] = o
  BY <1>2, <1>5
<1>8. ASSUME NEW k \in 1..n, k # 1 PROVE a[k] = ProtoOf(h, a[k - 1])
  <2>1. k - 1 \in 1..n /\ k - 1 \in 1..N
    BY <1>1, <1>3, <1>5, <1>8
  <2>2. u[k - 1] = Higher(h, u[k - 1 - 1])
    BY <1>2, <2>1
  <2>3. a[k] = u[k - 1] /\ a[k - 1] = u[k - 1 - 1] /\ a[k - 1] # NULL
    BY <1>6, <2>1
  <2> HIDE DEF a
  <2>4. QED
    BY <2>2, <2>3 DEF Higher
<1> DEFINE Bad == {k \in 1..n : a[k] \notin 1..Len(h)}
<1>9. Bad = {}
  <2> SUFFICES ASSUME Bad # {} PROVE FALSE
    OBVIOUS
  <2>0. Bad \in SUBSET Nat /\ Bad # {}
    BY <1>5
  <2>1. PICK m \in Bad : \A j \in Bad : m <= j
    <3> HIDE DEF Bad
    <3>1. QED
      BY <2>0, LeastPlace
  <2>2. m \in 1..n /\ a[m] \notin 1..Len(h)
    OBVIOUS
  <2>3. m # 1
    BY <1>7, <2>2
  <2>4. m - 1 \in 1..n /\ ~ (m <= m - 1)
    BY <1>5, <2>2, <2>3
  <2>5. a[m - 1] \in 1..Len(h)
    <3>1. m - 1 \notin Bad
      <4> HIDE DEF Bad
      <4>1. QED
        BY <2>1, <2>4
    <3> HIDE DEF a
    <3>2. QED
      BY <2>4, <3>1
  <2>6. a[m] = ProtoOf(h, a[m - 1]) /\ a[m] # NULL
    BY <1>6, <1>8, <2>2, <2>3
  <2> HIDE DEF a
  <2>7. QED
    BY <2>2, <2>5, <2>6, HigherFalls
<1>10. /\ DOMAIN a = 1..n
       /\ \A k \in 1..n : a[k] \in 1..Len(h)
  <2>1. DOMAIN a = 1..n
    OBVIOUS
  <2> HIDE DEF a
  <2>2. QED
    BY <1>9, <2>1
<1> HIDE DEF a
<1>11. QED
  BY <1>4, <1>5, <1>7, <1>8, <1>10

(* What descends from an object of a kind with data is of that kind.       *)
LEMMA InheritsKind ==
  ASSUME NEW h, Sound(h), NEW o \in 1..Len(h), NEW p \in Above(h, o), h[p].init \in WithData
  PROVE  h[o].init = h[p].init /\ HasData(h[o])
<1> DEFINE a == Ancestry(h, o)
           i == h[p].init
<1>1. PICK n \in Nat \ {0} : /\ DOMAIN a = 1..n /\ a[1] = o
                             /\ \A k \in 1..n : a[k] \in 1..Len(h)
                             /\ \A k \in 1..n : k # 1 => a[k] = ProtoOf(h, a[k - 1])
  BY AncestryFacts
<1>2. PICK q \in 1..n : q # 1 /\ p = a[q]
  BY <1>1 DEF Above
<1> HIDE DEF a
<1>3. ASSUME NEW k \in 1..n, k # 1, h[a[k]].init = i
      PROVE  h[a[k - 1]].init = i /\ HasData(h[a[k - 1]])
  <2>1. k - 1 \in 1..n
    BY <1>3
  <2> DEFINE x == a[k - 1]
  <2>2. x \in 1..Len(h) /\ a[k] = ProtoOf(h, x) /\ a[k] \in 1..Len(h)
    BY <1>1, <1>3, <2>1
  <2>3. Fits(h, x, h[x])
    <3>1. x # 0
      BY <2>2 DEF Sound, SoundBut
    <3> HIDE DEF x
    <3>2. QED
      BY <2>2, <3>1 DEF Sound, SoundBut
  <2>4. a[k] # NULL
    BY <2>2, NullIsNothing DEF Sound, SoundBut
  <2> HIDE DEF x
  <2>5. h[x].init = i /\ HasData(h[x])
    BY <1>3, <2>2, <2>3, <2>4 DEF Fits, ProtoOf, Slot
  <2>6. QED
    BY <2>5 DEF x
<1> DEFINE S == {j \in 1..n : j < q /\ h[a[j + 1]].init = i}
<1>4. S \in SUBSET Nat /\ q - 1 \in S
  <2>1. q - 1 \in 1..n /\ q - 1 < q /\ a[q - 1 + 1] = a[q]
    BY <1>2
  <2>2. QED
    BY <1>2, <2>1
<1>5. PICK m \in S : \A j \in S : m <= j
  <2> HIDE DEF S
  <2>1. QED
    BY <1>4, LeastPlace
<1>6. m \in 1..n /\ m + 1 \in 1..n /\ m + 1 # 1 /\ m < q /\ h[a[m + 1]].init = i
  BY <1>2
<1>7. h[a[m]].init = i /\ HasData(h[a[m]])
  <2>1. m + 1 - 1 = m
    BY <1>6
  <2>2. h[a[m + 1 - 1]].init = i /\ HasData(h[a[m + 1 - 1]])
    BY <1>3, <1>6
  <2>3. QED
    BY <2>1, <2>2
<1>8. m = 1
  <2> SUFFICES ASSUME m # 1 PROVE FALSE
    OBVIOUS
  <2>1. m - 1 \in 1..n /\ m - 1 < q /\ a[m - 1 + 1] = a[m] /\ ~ (m <= m - 1)
    BY <1>2, <1>6
  <2>2. m - 1 \in S
    BY <1>7, <2>1
  <2> HIDE DEF S
  <2>3. QED
    BY <1>5, <2>1, <2>2
<1>9. QED
  BY <1>1, <1>7, <1>8

(* Who answers is in the ancestry and has the method.                      *)
LEMMA AnsweringFacts ==
  ASSUME NEW h, Sound(h), NEW o \in 1..Len(h), NEW name
  PROVE  LET q == Answering(h, o, name) IN
         q # NULL => /\ q \in 1..Len(h) /\ name \in h[q].methods
                     /\ q = o \/ q \in Above(h, o)
                     /\ \E k \in DOMAIN Ancestry(h, o) : q = Ancestry(h, o)[k]
<1> DEFINE a == Ancestry(h, o)
           ks == {k \in DOMAIN a : name \in h[a[k]].methods}
           Nearest(k) == \A j \in ks : k <= j
<1>1. PICK n \in Nat \ {0} : /\ DOMAIN a = 1..n /\ a[1] = o
                             /\ \A k \in 1..n : a[k] \in 1..Len(h)
  BY AncestryFacts
<1>2. Answering(h, o, name) = IF ks = {} THEN NULL ELSE a[CHOOSE k \in ks : Nearest(k)]
  BY DEF Answering
<1>3. CASE ks = {}
  BY <1>2, <1>3
<1>4. CASE ks # {}
  <2> DEFINE m == CHOOSE k \in ks : Nearest(k)
  <2>1. ks \in SUBSET Nat
    BY <1>1
  <2>2. \E k \in ks : Nearest(k)
    <3> HIDE DEF ks
    <3>1. QED
      BY <1>4, <2>1, LeastPlace
  <2>3. m \in ks
    <3> HIDE DEF ks, Nearest
    <3>1. QED
      BY <2>2
  <2>4. Answering(h, o, name) = a[m]
    BY <1>2, <1>4
  <2> HIDE DEF m
  <2>5. m \in 1..n /\ name \in h[a[m]].methods
    BY <1>1, <2>3
  <2>6. a[m] = o \/ a[m] \in Above(h, o)
    BY <1>1, <2>5 DEF Above
  <2> HIDE DEF a
  <2>7. QED
    BY <1>1, <2>4, <2>5, <2>6 DEF a
<1>5. QED
  BY <1>3, <1>4

-----------------------------------------------------------------------------
(***************************************************************************)
(* The statements of sk_vm_new.                                            *)
(***************************************************************************)
AllNames == Prototypes \cup Errors \cup ConstantNames

LEMMA StatementFacts ==
  /\ Len(Statements) = 32
  /\ \A k \in 1..10 : /\ Kind(Statements[k]) = "proto" /\ Name(Statements[k]) \in Prototypes
                      /\ Name(Statements[k]) = "Object" <=> k = 1
                      /\ Name(Statements[k]) = "Exception" <=> k = 6
  /\ \A k \in 11..15 : Kind(Statements[k]) = "error" /\ Name(Statements[k]) \in Errors
  /\ Kind(Statements[16]) = "flag"
  /\ \A k \in 17..19 : Kind(Statements[k]) = "constant" /\ Name(Statements[k]) \in ConstantNames
  /\ \A k \in 20..32 : /\ Kind(Statements[k]) = "tag"
                       /\ Name(Statements[k]) \in Prototypes \cup ConstantNames
                       /\ Name(Statements[k]) = "Object" <=> k = 20
<1>1. Len(Statements) = 32
  BY DEF Statements
<1>2. \A k \in 1..10 : Kind(Statements[k]) = "proto" /\ Name(Statements[k]) \in Prototypes
  BY DEF Statements, Kind, Name, Prototypes
<1>3. \A k \in 1..10 : (Name(Statements[k]) = "Object") <=> (k = 1)
  BY DEF Statements, Kind, Name
<1>4. \A k \in 1..10 : (Name(Statements[k]) = "Exception") <=> (k = 6)
  BY DEF Statements, Kind, Name
<1>5. \A k \in 11..15 : Kind(Statements[k]) = "error" /\ Name(Statements[k]) \in Errors
  BY DEF Statements, Kind, Name, Errors
<1>6. Kind(Statements[16]) = "flag"
  BY DEF Statements, Kind
<1>7. \A k \in 17..19 : Kind(Statements[k]) = "constant" /\ Name(Statements[k]) \in ConstantNames
  BY DEF Statements, Kind, Name, ConstantNames
<1>8. \A k \in 20..32 : Kind(Statements[k]) = "tag"
  BY DEF Statements, Kind
<1>9. \A k \in 20..32 : Name(Statements[k]) \in Prototypes \cup ConstantNames
  BY DEF Statements, Name, Prototypes, ConstantNames
<1>10. \A k \in 20..32 : (Name(Statements[k]) = "Object") <=> (k = 20)
  BY DEF Statements, Name
<1>11. QED
  BY <1>1, <1>2, <1>3, <1>4, <1>5, <1>6, <1>7, <1>8, <1>9, <1>10

LEMMA EveryNameIsMade ==
  ASSUME NEW name \in AllNames
  PROVE  \E j \in 1..19 : Kind(Statements[j]) \in {"proto", "error", "constant"}
                          /\ Name(Statements[j]) = name
<1>1. CASE name \in Prototypes
  <2>1. \E j \in 1..10 : Name(Statements[j]) = name
    BY <1>1 DEF Statements, Name, Prototypes
  <2>2. QED
    BY <2>1, StatementFacts
<1>2. CASE name \in Errors
  <2>1. \E j \in 11..15 : Name(Statements[j]) = name
    BY <1>2 DEF Statements, Name, Errors
  <2>2. QED
    BY <2>1, StatementFacts
<1>3. CASE name \in ConstantNames
  <2>1. \E j \in 17..19 : Name(Statements[j]) = name
    BY <1>3 DEF Statements, Name, ConstantNames
  <2>2. QED
    BY <2>1, StatementFacts
<1>4. QED
  BY <1>1, <1>2, <1>3 DEF AllNames

-----------------------------------------------------------------------------
(***************************************************************************)
(* Programs.                                                               *)
(***************************************************************************)

(* What a program can rely on.                                             *)
LEMMA RunningFacts ==
  ASSUME OInv, Running
  PROVE  /\ heap \in Seq(Obj) /\ Sound(heap) /\ Len(heap) \in Nat /\ Len(heap) >= 5
         /\ step = 33
         /\ \A name \in AllNames : /\ Proto(heap, name) \in 1..Len(heap) \ {Lobby}
                                   /\ Proto(heap, name) # NULL
         /\ Proto(heap, "Object") = 5
         /\ Slot(heap, 5, "tag") # NULL
<1>1. heap \in Seq(Obj) /\ Sound(heap) /\ Progress(heap, step) /\ step \in 1..33
  BY StatementFacts DEF OInv, TypeOK
<1>2. step = 33
  BY <1>1, StatementFacts DEF Running, Booting
<1>3. Len(heap) \in Nat /\ Len(heap) >= 5 /\ Slot(heap, 5, "tag") # NULL
  BY <1>1, <1>2 DEF Progress
<1>4. ASSUME NEW name \in AllNames
      PROVE  Proto(heap, name) # NULL /\ Proto(heap, name) \in 1..Len(heap) \ {Lobby}
  <2>1. PICK j \in 1..19 : Kind(Statements[j]) \in {"proto", "error", "constant"}
                           /\ Name(Statements[j]) = name
    BY EveryNameIsMade
  <2>2. j \in 1..Len(Statements) /\ j < step
    BY <1>2, StatementFacts
  <2>3. Proto(heap, name) # NULL
    BY <1>1, <2>1, <2>2 DEF Progress
  <2>4. name \in SlotNames
    BY Names DEF AllNames
  <2>5. QED
    BY <1>1, <2>3, <2>4 DEF Sound, SoundBut, LobbyFits
<1>5. Proto(heap, "Object") = 5
  <2>1. "Object" \in AllNames
    BY DEF AllNames, Prototypes
  <2>2. QED
    BY <1>1, <1>4, <2>1 DEF Sound, SoundBut, LobbyFits
<1>6. QED
  BY <1>1, <1>2, <1>3, <1>4, <1>5

LEMMA NamedFacts ==
  ASSUME OInv, Running, NEW o \in Named
  PROVE  o \in 1..Len(heap) /\ o # Lobby
<1>1. CASE o \in held
  BY <1>1 DEF OInv, TypeOK
<1>2. CASE o \notin held
  <2>1. PICK name \in Used : o = Proto(heap, name)
    BY <1>2 DEF Named
  <2>2. name \in AllNames
    BY UsedAreNames DEF AllNames
  <2>3. QED
    BY <2>1, <2>2, RunningFacts
<1>3. QED
  BY <1>1, <1>2

(* A call that leaves all objects as they were.                            *)
LEMMA ReturnsKeeps ==
  ASSUME OInv, NEW g, NEW o, Returns(g, o), Sound(g), Extends(heap, g),
         o \in 1..Len(g), o # Lobby
  PROVE  OInv'
<1>1. Running /\ heap' = g /\ held' = held \cup {o} /\ step' = step /\ state' = state
  BY DEF Returns
<1>2. /\ heap \in Seq(Obj) /\ Len(heap) \in Nat /\ Len(heap) >= 5 /\ step = 33
  BY <1>1, RunningFacts
<1>3. g \in Seq(Obj) /\ Len(g) \in Nat /\ Len(g) >= Len(heap)
  BY DEF Extends
<1>4. TypeOK'
  <2>1. \A p \in 1..Len(heap) : p \in 1..Len(g)
    BY <1>2, <1>3
  <2>2. held' \subseteq 1..Len(g) \ {Lobby}
    BY <1>1, <2>1 DEF OInv, TypeOK
  <2>3. QED
    BY <1>1, <1>3, <2>2 DEF OInv, TypeOK
<1>5. Progress(g, step)
  <2>1. /\ \A name : Proto(g, name) = Proto(heap, name)
        /\ Slot(g, 5, "tag") = Slot(heap, 5, "tag")
    BY <1>2, ExtendsFacts
  <2>2. Progress(heap, step)
    BY DEF OInv
  <2>3. QED
    BY <1>2, <1>3, <2>1, <2>2 DEF Progress
<1>6. Outcome'
  <2>1. state'.is = "running"
    BY <1>1 DEF Running
  <2>2. QED
    BY <2>1 DEF Outcome
<1>7. QED
  BY <1>1, <1>4, <1>5, <1>6 DEF OInv

(* Putting a slot of an object that the call has made.                     *)
LEMMA PutNew ==
  ASSUME NEW h, Sound(h), NEW g, Sound(g), Extends(h, g), NEW o \in 1..Len(g), o > Len(h),
         NEW name \in SlotNames \ {"proto"}, NEW v \in Nat
  PROVE  /\ Sound(Put(g, o, name, v)) /\ Extends(h, Put(g, o, name, v))
         /\ Len(Put(g, o, name, v)) = Len(g)
<1>1. h \in Seq(Obj) /\ g \in Seq(Obj) /\ Len(h) \in Nat /\ Len(h) >= 4 /\ o # Lobby
  BY DEF Sound, SoundBut, Lobby
<1>2. Sound(Put(g, o, name, v))
  BY <1>1, PutSound DEF Sound
<1>3. Extends(h, Put(g, o, name, v))
  BY <1>1, ExtendsPut
<1>4. Len(Put(g, o, name, v)) = Len(g)
  BY <1>1, PutFacts
<1>5. QED
  BY <1>2, <1>3, <1>4

(* Cloning a prototype of the lobby, and making a string, while running.   *)
LEMMA RunningClone ==
  ASSUME OInv, Running, NEW h, Sound(h), Extends(heap, h), NEW o \in 1..Len(h)
  PROVE  LET g == Clone(h, o) IN
         /\ Sound(g) /\ Extends(h, g) /\ Extends(heap, g) /\ Len(g) > Len(h)
         /\ Len(h) + 1 \in 1..Len(g)
<1>1. heap \in Seq(Obj) /\ Len(heap) >= 5 /\ Len(heap) \in Nat
  BY RunningFacts
<1>2. /\ Len(h) >= 5 /\ h \in Seq(Obj) /\ Len(h) \in Nat
  BY <1>1 DEF Extends
<1>3. Proto(h, "String") # NULL /\ Proto(h, "List") # NULL
  <2>1. "String" \in AllNames /\ "List" \in AllNames
    BY DEF AllNames, Prototypes
  <2>2. QED
    BY <1>1, <2>1, RunningFacts, ExtendsFacts
<1> DEFINE g == Clone(h, o)
<1>4. Sound(g) /\ Extends(h, g) /\ Len(g) > Len(h)
  BY <1>2, <1>3, CloneSound
<1>5. Len(g) \in Nat
  BY <1>4 DEF Extends
<1>6. Extends(heap, g)
  BY <1>1, <1>4, ExtendsTransitive
<1> HIDE DEF g
<1>7. Len(h) + 1 \in 1..Len(g)
  BY <1>2, <1>4, <1>5
<1>8. QED
  BY <1>4, <1>6, <1>7 DEF g

LEMMA RunningString ==
  ASSUME OInv, Running, NEW h, Sound(h), Extends(heap, h)
  PROVE  LET g == StringFrom(h, "String") IN
         /\ Sound(g) /\ Extends(h, g) /\ Extends(heap, g) /\ Len(g) = Len(h) + 1
         /\ Len(h) + 1 \in 1..Len(g)
<1>1. heap \in Seq(Obj) /\ Len(heap) >= 5 /\ Len(heap) \in Nat
  BY RunningFacts
<1>2. /\ Len(h) >= 5 /\ h \in Seq(Obj) /\ Len(h) \in Nat
  BY <1>1 DEF Extends
<1>3. Proto(h, "String") # NULL /\ Proto(h, "String") # 0
  <2>1. "String" \in AllNames
    BY DEF AllNames, Prototypes
  <2>2. Proto(heap, "String") # NULL /\ Proto(heap, "String") # 0
    BY <1>1, <2>1, RunningFacts
  <2>3. QED
    BY <1>1, <2>2, ExtendsFacts
<1> DEFINE g == StringFrom(h, "String")
<1>4. Sound(g) /\ Extends(h, g) /\ Len(g) = Len(h) + 1
  BY <1>2, <1>3, StringFromSound DEF Sound
<1>5. Extends(heap, g)
  BY <1>1, <1>4, ExtendsTransitive
<1> HIDE DEF g
<1>6. Len(h) + 1 \in 1..Len(g)
  BY <1>2, <1>4
<1>7. QED
  BY <1>4, <1>5, <1>6 DEF g

LEMMA ExtendsItself ==
  ASSUME NEW h \in Seq(Obj)
  PROVE  Extends(h, h)
BY Elements DEF Extends

LEMMA StringLiteralKeeps ==
  ASSUME OInv, StringLiteral
  PROVE  OInv'
<1>1. Running /\ Returns(StringFrom(heap, "String"), New)
  BY DEF StringLiteral, Returns
<1>2. heap \in Seq(Obj) /\ Sound(heap) /\ Len(heap) \in Nat /\ Len(heap) >= 5
  BY <1>1, RunningFacts
<1>3. /\ Sound(StringFrom(heap, "String")) /\ Extends(heap, StringFrom(heap, "String"))
      /\ New \in 1..Len(StringFrom(heap, "String")) /\ New # Lobby
  BY <1>1, <1>2, ExtendsItself, RunningString DEF New, Lobby
<1>4. QED
  BY <1>1, <1>3, ReturnsKeeps

LEMMA NumberLiteralKeeps ==
  ASSUME OInv, NumberLiteral
  PROVE  OInv'
<1> DEFINE g == Clone(heap, Proto(heap, "Number"))
<1>1. Running /\ Returns(g, New)
  BY DEF NumberLiteral, Returns
<1>2. heap \in Seq(Obj) /\ Sound(heap) /\ Len(heap) \in Nat /\ Len(heap) >= 5
  BY <1>1, RunningFacts
<1>3. "Number" \in AllNames
  BY DEF AllNames, Prototypes
<1>4. Sound(g) /\ Extends(heap, g) /\ New \in 1..Len(g) /\ New # Lobby
  BY <1>1, <1>2, <1>3, RunningFacts, ExtendsItself, RunningClone DEF New, Lobby
<1> HIDE DEF g
<1>5. QED
  BY <1>1, <1>4, ReturnsKeeps

(* A clone of a prototype of the lobby that gets a string.                 *)
LEMMA CloneWithString ==
  ASSUME OInv, Running, NEW proto \in AllNames, NEW name \in SlotNames \ {"proto"}
  PROVE  LET h1 == Clone(heap, Proto(heap, proto))
             h2 == StringFrom(h1, "String")
             g == Put(h2, New, name, Len(h1) + 1)
         IN  Sound(g) /\ Extends(heap, g) /\ New \in 1..Len(g) /\ New # Lobby
<1> DEFINE h1 == Clone(heap, Proto(heap, proto))
           h2 == StringFrom(h1, "String")
           g == Put(h2, New, name, Len(h1) + 1)
<1>1. heap \in Seq(Obj) /\ Sound(heap) /\ Len(heap) \in Nat /\ Len(heap) >= 5
  BY RunningFacts
<1>2. Sound(h1) /\ Extends(heap, h1) /\ New \in 1..Len(h1) /\ Len(h1) > Len(heap)
  BY <1>1, RunningFacts, ExtendsItself, RunningClone DEF New
<1> HIDE DEF h1
<1>3. /\ Sound(h2) /\ Extends(heap, h2) /\ Len(h2) = Len(h1) + 1
  BY <1>2, RunningString
<1> HIDE DEF h2
<1>4. /\ New \in 1..Len(h2) /\ New > Len(heap) /\ New # Lobby /\ Len(h1) + 1 \in Nat
  BY <1>1, <1>2, <1>3 DEF New, Lobby, Extends
<1>5. Sound(g) /\ Extends(heap, g) /\ Len(g) = Len(h2)
  BY <1>1, <1>3, <1>4, PutNew
<1> HIDE DEF g
<1>6. QED
  BY <1>4, <1>5 DEF g, h1, h2

LEMMA MessageLiteralKeeps ==
  ASSUME OInv, MessageLiteral
  PROVE  OInv'
<1> DEFINE h1 == Clone(heap, Proto(heap, "Message"))
           h2 == StringFrom(h1, "String")
           g == Put(h2, New, "name", Len(h1) + 1)
<1>1. Running /\ Returns(g, New)
  BY DEF MessageLiteral, Returns
<1>2. "Message" \in AllNames /\ "name" \in SlotNames \ {"proto"}
  BY Names DEF AllNames, Prototypes
<1>3. Sound(g) /\ Extends(heap, g) /\ New \in 1..Len(g) /\ New # Lobby
  BY <1>1, <1>2, CloneWithString
<1> HIDE DEF g
<1>4. QED
  BY <1>1, <1>3, ReturnsKeeps

LEMMA RaiseKeeps ==
  ASSUME OInv, NEW error \in Errors, Raise(error)
  PROVE  OInv'
<1> DEFINE h1 == Clone(heap, Proto(heap, error))
           h2 == StringFrom(h1, "String")
           g == Put(h2, New, "message", Len(h1) + 1)
<1>1. Running /\ Returns(g, New)
  BY DEF Raise, Returns
<1>2. error \in AllNames /\ "message" \in SlotNames \ {"proto"}
  BY Names DEF AllNames
<1>3. Sound(g) /\ Extends(heap, g) /\ New \in 1..Len(g) /\ New # Lobby
  BY <1>1, <1>2, CloneWithString
<1> HIDE DEF g
<1>4. QED
  BY <1>1, <1>3, ReturnsKeeps

LEMMA SoundFits ==
  ASSUME NEW h, Sound(h), NEW o \in 1..Len(h)
  PROVE  Fits(h, o, h[o])
<1>1. o # 0
  BY DEF Sound, SoundBut
<1>2. QED
  BY <1>1 DEF Sound, SoundBut

(* What + makes lacks its text only when it is marked.                     *)
LEMMA SumSound ==
  ASSUME OInv, Running, NEW o \in 1..Len(heap), NEW answers,
         answers = Answering(heap, o, "+"), answers # NULL, heap[answers].init = "String"
  PROVE  LET g == Sum(o, answers) IN
         Sound(g) /\ Extends(heap, g) /\ New \in 1..Len(g) /\ New # Lobby
<1> DEFINE s == Proto(heap, "String")
           k == CloneAlone(heap, s)
           new == StringFrom(heap, heap[o].data)
           y == [k[New] EXCEPT !.data = heap[o].data]
           x == [new[New] EXCEPT !.hollow = (o = answers) \/ heap[o].hollow]
           g == [k EXCEPT ![New] = x]
<1>1. /\ heap \in Seq(Obj) /\ Sound(heap) /\ Len(heap) \in Nat /\ Len(heap) >= 5
      /\ New = Len(heap) + 1 /\ New \in Nat /\ New # Lobby
  BY RunningFacts DEF New, Lobby
<1>2. /\ "String" \in SlotNames /\ "String" \in WithData /\ "String" # "Message"
      /\ "String" \in AllNames /\ NULL \notin WithData
  BY Names, NullIsNothing DEF WithData, AllNames, Prototypes
<1>3. s \in 1..Len(heap) /\ s # 0 /\ heap[s].init = "String"
  BY <1>1, <1>2, RunningFacts, ProtoFacts DEF Sound
<1>4. /\ Sound(k) /\ Extends(heap, k) /\ Len(k) = New
      /\ k[New] \in Obj /\ k[New].slots["proto"] = s /\ Bare(k[New])
  BY <1>1, <1>2, <1>3, CloneAloneSound DEF Sound
<1>5. k \in Seq(Obj) /\ New \in 1..Len(k)
  BY <1>1, <1>4 DEF Sound, SoundBut
<1>6. heap[o] \in Obj /\ heap[o].data \in WithData \cup {NULL} /\ heap[o].hollow \in BOOLEAN
  BY <1>1, Elements DEF Obj
<1>7. \/ heap[o].data = "String"
      \/ heap[o].data = NULL /\ ((o = answers) \/ heap[o].hollow)
  <2>1. answers = o \/ answers \in Above(heap, o)
    BY <1>1, AnsweringFacts
  <2>2. CASE answers \in Above(heap, o)
    <3>1. heap[o].init = "String" /\ HasData(heap[o])
      BY <1>1, <1>2, <2>2, InheritsKind
    <3>2. QED
      BY <3>1 DEF HasData
  <2>3. CASE answers = o
    <3>1. heap[o].data \in {"String", NULL}
      BY <1>1, <2>3, SoundFits DEF Fits, Alone
    <3>2. QED
      BY <2>3, <3>1
  <2>4. QED
    BY <2>1, <2>2, <2>3
<1> HIDE DEF k
<1>8. new = [k EXCEPT ![New] = y] /\ new[New] = y
  BY <1>1, <1>5 DEF StringFrom, k
<1>9. Sum(o, answers) = g
  <2> HIDE DEF y
  <2>1. Sum(o, answers) = [new EXCEPT ![New] = x]
    BY DEF Sum
  <2> HIDE DEF x
  <2>2. [new EXCEPT ![New] = x] = [k EXCEPT ![New] = x]
    BY <1>5, <1>8
  <2>3. QED
    BY <2>1, <2>2
<1>10. /\ x \in Obj /\ x.slots = k[New].slots /\ Bare(x) /\ x.init = k[New].init
       /\ x.clone = k[New].clone /\ x.data = heap[o].data
       /\ x.hollow = ((o = answers) \/ heap[o].hollow)
  <2>1. /\ y \in Obj /\ y.slots = k[New].slots /\ Bare(y) /\ y.init = k[New].init
        /\ y.clone = k[New].clone /\ y.data = heap[o].data
    BY <1>4, <1>6 DEF Obj, Bare
  <2> DEFINE b == (o = answers) \/ heap[o].hollow
  <2>2. b \in BOOLEAN
    BY <1>6
  <2>3. x = [y EXCEPT !.hollow = b]
    BY <1>8
  <2> HIDE DEF y, b, x
  <2>4. /\ x \in Obj /\ x.slots = y.slots /\ x.methods = y.methods /\ x.init = y.init
        /\ x.clone = y.clone /\ x.data = y.data /\ x.hollow = b
    BY <2>1, <2>2, <2>3 DEF Obj
  <2>5. QED
    BY <2>1, <2>4 DEF Bare, b
<1>11. Fits(k, New, x)
  <2>1. Fits(k, New, k[New])
    BY <1>4, <1>5, SoundFits
  <2>2. k[s].init = "String" /\ s # NULL
    BY <1>1, <1>3, <1>4, NullIsNothing DEF Extends
  <2>3. k[New].init = "String"
    BY <1>2, <1>4, <2>1, <2>2 DEF Fits
  <2>4. HasData(x)
    BY <1>7, <1>10, <2>3 DEF HasData
  <2>5. x.data \in {"String", NULL}
    BY <1>7, <1>8, <1>10, <2>3
  <2> HIDE DEF x, s, y, new
  <2>6. Alone(New, x)
    BY <1>1, <1>10, <2>1, <2>5 DEF Fits, Alone, Bare
  <2>7. QED
    BY <1>2, <1>4, <1>10, <2>1, <2>2, <2>3, <2>4, <2>6 DEF Fits
<1> HIDE DEF x
<1>12. Sound(g)
  BY <1>1, <1>4, <1>5, <1>10, <1>11, ReplaceSound DEF Sound
<1>13. /\ g \in Seq(Obj) /\ Len(g) = New /\ \A p \in 1..Len(k) : p # New => g[p] = k[p]
  BY <1>4, <1>5, <1>10, ReplaceFacts
<1>14. Extends(heap, g)
  <2>1. \A p \in 1..Len(heap) : p \in 1..Len(k) /\ p # New
    BY <1>1, <1>4
  <2>2. QED
    BY <1>1, <1>4, <1>13, <2>1 DEF Extends
<1>15. QED
  <2> HIDE DEF g
  <2>1. New \in 1..Len(g)
    BY <1>1, <1>13
  <2>2. QED
    BY <1>1, <1>9, <1>12, <1>14, <2>1

LEMMA ConcatKeeps ==
  ASSUME OInv, NEW o \in Named, NEW other \in Named, Concat(o, other)
  PROVE  OInv'
<1> DEFINE answers == Answering(heap, o, "+")
           g == Sum(o, answers)
<1>1. /\ Running /\ answers # NULL /\ heap[answers].init = "String"
      /\ Returns(g, New) \/ Raise("TypeError")
  BY DEF Concat
<1>2. CASE Raise("TypeError")
  <2>1. "TypeError" \in Errors
    BY DEF Errors
  <2>2. QED
    BY <1>2, <2>1, RaiseKeeps
<1>3. CASE Returns(g, New)
  <2>1. o \in 1..Len(heap)
    BY <1>1, NamedFacts
  <2>2. Sound(g) /\ Extends(heap, g) /\ New \in 1..Len(g) /\ New # Lobby
    BY <1>1, <2>1, SumSound
  <2> HIDE DEF g
  <2>3. QED
    BY <1>3, <2>2, ReturnsKeeps
<1>4. QED
  BY <1>1, <1>2, <1>3

LEMMA CloneMessageKeeps ==
  ASSUME OInv, NEW o \in Named, CloneMessage(o)
  PROVE  OInv'
<1>1. Running
  BY DEF CloneMessage, Returns
<1>2. heap \in Seq(Obj) /\ Sound(heap) /\ Len(heap) \in Nat /\ Len(heap) >= 5
  BY <1>1, RunningFacts
<1>3. o \in 1..Len(heap) /\ New # Lobby /\ New \in Nat
  BY <1>1, <1>2, NamedFacts DEF New, Lobby
<1> DEFINE h1 == Clone(heap, o)
<1>4. Sound(h1) /\ Extends(heap, h1) /\ New \in 1..Len(h1) /\ Len(h1) > Len(heap)
  BY <1>1, <1>2, <1>3, ExtendsItself, RunningClone DEF New
<1>5. CASE Returns(h1, New)
  <2> HIDE DEF h1
  <2>1. QED
    BY <1>3, <1>4, <1>5, ReturnsKeeps
<1>6. ASSUME NEW m \in held, Returns(CloneMethod(heap, o, m), New)
      PROVE  OInv'
  <2> DEFINE l == Proto(heap, "List")
             h2 == Clone(h1, l)
             h3 == Put(h2, New, "argument_names", Len(h1) + 1)
             g == Put(h3, New, "message", m)
  <2>1. CloneMethod(heap, o, m) = g
    BY DEF CloneMethod, New
  <2> HIDE DEF h1
  <2>2. l \in 1..Len(h1)
    <3>1. "List" \in AllNames
      BY DEF AllNames, Prototypes
    <3>2. l \in 1..Len(heap)
      BY <1>1, <3>1, RunningFacts
    <3>3. QED
      BY <1>2, <1>4, <3>2 DEF Extends
  <2> HIDE DEF l
  <2>3. Sound(h2) /\ Extends(heap, h2) /\ Len(h2) > Len(h1)
    BY <1>1, <1>4, <2>2, RunningClone
  <2> HIDE DEF h2
  <2>4. New \in 1..Len(h2) /\ New > Len(heap) /\ Len(h1) + 1 \in Nat /\ m \in Nat
    <3>1. m \in Nat
      BY DEF OInv, TypeOK
    <3>2. QED
      BY <1>2, <1>4, <2>3, <3>1 DEF New, Extends
  <2>5. "argument_names" \in SlotNames \ {"proto"} /\ "message" \in SlotNames \ {"proto"}
    BY Names
  <2>6. Sound(h3) /\ Extends(heap, h3) /\ Len(h3) = Len(h2)
    BY <1>2, <2>3, <2>4, <2>5, PutNew
  <2> HIDE DEF h3
  <2>7. Sound(g) /\ Extends(heap, g) /\ Len(g) = Len(h3)
    BY <1>2, <2>4, <2>5, <2>6, PutNew
  <2> HIDE DEF g
  <2>8. QED
    BY <1>3, <1>6, <2>1, <2>4, <2>6, <2>7, ReturnsKeeps
<1>7. QED
  BY <1>5, <1>6 DEF CloneMessage

LEMMA CallMethodKeeps ==
  ASSUME OInv, NEW o, NEW call \in held, CallMethod(o, call)
  PROVE  OInv'
<1> DEFINE h0 == Append(heap, NewObject)
           h1 == Put(h0, New, "self", Lobby)
           c == Proto(heap, "Call")
           k == Clone(h1, c)
           h2 == Put(k, Len(h1) + 1, "message", call)
           g == Put(h2, New, "call", Len(h1) + 1)
<1>1. Running /\ Returns(g, New)
  BY DEF CallMethod, Returns
<1>2. heap \in Seq(Obj) /\ Sound(heap) /\ Len(heap) \in Nat /\ Len(heap) >= 5
  BY <1>1, RunningFacts
<1>3. New \in Nat /\ New # Lobby /\ New > Len(heap) /\ Lobby \in Nat /\ call \in Nat
  BY <1>2 DEF New, Lobby, OInv, TypeOK
<1>4. /\ "self" \in SlotNames \ {"proto"} /\ "message" \in SlotNames \ {"proto"}
      /\ "call" \in SlotNames \ {"proto"} /\ "proto" \in SlotNames
  BY Names
<1>5. Sound(h0) /\ Extends(heap, h0) /\ Len(h0) = New
  <2>1. Fits(heap, New, NewObject)
    <3>1. New # 5
      BY <1>2 DEF New
    <3>2. QED
      BY <1>4, <3>1, NewObjectFacts DEF Fits, Alone
  <2>2. Sound(h0)
    BY <2>1, <1>2, NewObjectFacts, AppendSound DEF Sound, New
  <2>3. QED
    BY <1>2, <2>2, NewObjectFacts, AppendFacts DEF Extends, New
<1> HIDE DEF h0
<1>6. Sound(h1) /\ Extends(heap, h1) /\ Len(h1) = New
  <2>1. New \in 1..Len(h0)
    BY <1>2, <1>3, <1>5
  <2>2. QED
    BY <1>2, <1>3, <1>4, <1>5, <2>1, PutNew
<1> HIDE DEF h1
<1>7. c \in 1..Len(h1)
  <2>1. "Call" \in AllNames
    BY DEF AllNames, Prototypes
  <2>2. c \in 1..Len(heap)
    BY <1>1, <2>1, RunningFacts
  <2>3. QED
    BY <1>2, <1>3, <1>6, <2>2
<1> HIDE DEF c
<1>8. Sound(k) /\ Extends(heap, k) /\ Len(k) > Len(h1) /\ Len(h1) + 1 \in 1..Len(k)
  BY <1>1, <1>6, <1>7, RunningClone
<1> HIDE DEF k
<1>9. /\ Len(h1) + 1 > Len(heap) /\ Len(h1) + 1 \in Nat /\ New \in 1..Len(k)
  BY <1>2, <1>3, <1>6, <1>8
<1>10. Sound(h2) /\ Extends(heap, h2) /\ Len(h2) = Len(k)
  BY <1>2, <1>3, <1>4, <1>8, <1>9, PutNew
<1> HIDE DEF h2
<1>11. Sound(g) /\ Extends(heap, g) /\ Len(g) = Len(h2)
  BY <1>2, <1>3, <1>4, <1>9, <1>10, PutNew
<1> HIDE DEF g
<1>12. QED
  BY <1>1, <1>3, <1>9, <1>10, <1>11, ReturnsKeeps

(* The process ends over the object o.                                     *)
LEMMA FailsKeeps ==
  ASSUME OInv, NEW how \in {"aborted", "crashed"}, NEW o \in 1..Len(heap) \ {Lobby},
         Fails(how, o),
         how = "crashed" => heap[o].methods # {} /\ heap[o].init # "String",
         how = "aborted" => /\ ~ LacksTag(o)
                            /\ ProtoOf(heap, o) \in 1..Len(heap)
                            /\ "dispatch" \notin heap[ProtoOf(heap, o)].methods
  PROVE  OInv'
<1>1. state' = [is |-> how, at |-> o] /\ heap' = heap /\ step' = step /\ held' = held
  BY DEF Fails
<1>2. o \in Nat
  BY DEF OInv, TypeOK
<1>3. TypeOK'
  BY <1>1, <1>2 DEF OInv, TypeOK
<1>4. Outcome'
  <2>1. how = "aborted" => ~ LacksTag(o)'
    BY <1>1 DEF LacksTag
  <2>2. state'.at = o /\ state'.is = how
    BY <1>1
  <2>3. how = "aborted" => ~ LacksTag(state.at)'
    BY <2>1, <2>2 DEF LacksTag
  <2>4. QED
    BY <1>1, <2>2, <2>3 DEF Outcome
<1>5. QED
  BY <1>1, <1>3, <1>4 DEF OInv

(* Who is asked for its representation has the tag of Object.              *)
LEMMA TagFound ==
  ASSUME OInv, Running, NEW o \in 1..Len(heap)
  PROVE  ~ LacksTag(o)
<1>1. Sound(heap) /\ Slot(heap, 5, "tag") # NULL
  BY RunningFacts
<1> DEFINE q == Answering(heap, o, "to_repr")
<1>2. SUFFICES ASSUME q # NULL PROVE \E k \in DOMAIN Ancestry(heap, o) :
                                        Slot(heap, Ancestry(heap, o)[k], "tag") # NULL
  BY DEF LacksTag
<1>3. /\ q \in 1..Len(heap) /\ "to_repr" \in heap[q].methods
      /\ \E k \in DOMAIN Ancestry(heap, o) : q = Ancestry(heap, o)[k]
  BY <1>1, <1>2, AnsweringFacts
<1> HIDE DEF q
<1>4. q = 5
  BY <1>1, <1>3, SoundFits DEF Fits, Alone
<1>5. QED
  BY <1>1, <1>3, <1>4

(* Who is sent dispatch has a prototype, and if that one was a prototype   *)
(* of messages, the slot `previous'.                                       *)
LEMMA NeighbourFound ==
  ASSUME OInv, Running, NEW o \in 1..Len(heap), LacksNeighbour(o)
  PROVE  /\ ProtoOf(heap, o) \in 1..Len(heap)
         /\ "dispatch" \notin heap[ProtoOf(heap, o)].methods
<1>1. Sound(heap) /\ heap \in Seq(Obj) /\ Len(heap) \in Nat
  BY RunningFacts
<1> DEFINE q == Answering(heap, o, "dispatch")
           p == ProtoOf(heap, o)
<1>2. q # NULL /\ Slot(heap, o, "previous") = NULL
  BY DEF LacksNeighbour
<1>3. /\ q \in 1..Len(heap) /\ "dispatch" \in heap[q].methods
      /\ q = o \/ q \in Above(heap, o)
  BY <1>1, <1>2, AnsweringFacts
<1> HIDE DEF q
<1>4. Fits(heap, o, heap[o]) /\ p = heap[o].slots["proto"]
  BY <1>1, SoundFits DEF ProtoOf, Slot
<1>5. p \in 1..Len(heap)
  <2>1. CASE q = o
    <3>1. p # NULL
      BY <1>3, <1>4, <2>1 DEF Fits, Alone
    <3>2. QED
      BY <1>4, <3>1 DEF Fits
  <2>2. CASE q \in Above(heap, o)
    <3> DEFINE a == Ancestry(heap, o)
    <3>1. PICK n \in Nat \ {0} :
                 /\ DOMAIN a = 1..n /\ a[1] = o
                 /\ \A k \in 1..n : a[k] \in 1..Len(heap)
                 /\ \A k \in 1..n : k # 1 => a[k] = ProtoOf(heap, a[k - 1])
      BY <1>1, AncestryFacts, SMTT(20)
    <3>2. PICK k \in 1..n : k # 1
      BY <2>2, <3>1 DEF Above
    <3> HIDE DEF a
    <3>3. 2 \in 1..n /\ 2 - 1 = 1
      BY <3>2
    <3>4. a[2] = ProtoOf(heap, a[2 - 1])
      BY <3>1, <3>3
    <3>5. a[2] = p /\ a[2] \in 1..Len(heap)
      BY <3>1, <3>3, <3>4
    <3>6. QED
      BY <3>5
  <2>3. QED
    BY <1>3, <2>1, <2>2
<1>6. p # NULL
  BY <1>1, <1>5, NullIsNothing
<1>7. ASSUME "dispatch" \in heap[p].methods PROVE FALSE
  <2>1. heap[p].init = "Message"
    BY <1>1, <1>5, <1>7, SoundFits DEF Fits, Alone
  <2>2. QED
    BY <1>2, <1>4, <1>6, <2>1 DEF Fits, Slot
<1>8. QED
  BY <1>5, <1>7

LEMMA LookUpKeeps ==
  ASSUME OInv, NEW o \in Named, LookUp(o)
  PROVE  OInv'
<1>1. Running /\ (LacksNeighbour(o) \/ LacksTag(o)) /\ Fails("aborted", o)
  BY DEF LookUp
<1>2. o \in 1..Len(heap) \ {Lobby}
  BY <1>1, NamedFacts
<1>3. ~ LacksTag(o)
  BY <1>1, <1>2, TagFound
<1>4. QED
  BY <1>1, <1>2, <1>3, NeighbourFound, FailsKeeps

LEMMA UseDataKeeps ==
  ASSUME OInv, NEW o \in Named, UseData(o)
  PROVE  OInv'
<1>1. Running /\ heap[o].data = NULL /\ Fails("crashed", o)
  BY DEF UseData
<1>2. PICK kind \in WithData : \E name \in Readers(kind) :
             /\ Answering(heap, o, name) # NULL
             /\ heap[Answering(heap, o, name)].init = kind
  BY DEF UseData
<1>3. PICK name \in Readers(kind) :
             /\ Answering(heap, o, name) # NULL
             /\ heap[Answering(heap, o, name)].init = kind
  BY <1>2
<1>4. o \in 1..Len(heap) \ {Lobby}
  BY <1>1, NamedFacts
<1>5. Sound(heap)
  BY <1>1, RunningFacts
<1> DEFINE q == Answering(heap, o, name)
<1>6. /\ q \in 1..Len(heap) /\ name \in heap[q].methods /\ heap[q].init = kind
      /\ q = o \/ q \in Above(heap, o)
  BY <1>3, <1>4, <1>5, AnsweringFacts
<1> HIDE DEF q
<1>7. kind # "String"
  BY <1>3 DEF Readers
<1>8. q = o
  <2> SUFFICES ASSUME q # o PROVE FALSE
    OBVIOUS
  <2>1. heap[o].init = kind /\ HasData(heap[o])
    BY <1>4, <1>5, <1>6, InheritsKind
  <2>2. NULL \notin WithData
    BY NullIsNothing, Names
  <2>3. QED
    BY <1>1, <1>7, <2>1, <2>2 DEF HasData
<1>9. heap[o].methods # {} /\ heap[o].init # "String"
  BY <1>6, <1>7, <1>8
<1>10. QED
  BY <1>1, <1>4, <1>9, FailsKeeps

-----------------------------------------------------------------------------
(***************************************************************************)
(* The slots of the lobby.                                                 *)
(***************************************************************************)

\* What was in the lobby, and the tag of Object, are still there.
Keeps(h, g) ==
  /\ Len(g) \in Nat /\ Len(g) >= Len(h)
  /\ \A name \in SlotNames : Proto(h, name) # NULL => Proto(g, name) # NULL
  /\ Len(h) >= 5 /\ Slot(h, 5, "tag") # NULL => Slot(g, 5, "tag") # NULL

LEMMA KeepsFacts ==
  ASSUME NEW h \in Seq(Obj), NEW g, Len(h) >= 4, Extends(h, g)
  PROVE  Keeps(h, g)
<1>1. Len(h) \in Nat /\ g \in Seq(Obj) /\ Len(g) >= Len(h) /\ Len(g) \in Nat
  BY DEF Extends
<1>2. \A name : Proto(g, name) = Proto(h, name)
  BY ExtendsFacts
<1>3. Len(h) >= 5 => Slot(g, 5, "tag") = Slot(h, 5, "tag")
  BY <1>1, ExtendsFacts
<1>4. QED
  BY <1>1, <1>2, <1>3 DEF Keeps

(* A name for an object that has what the name stands for.                 *)
LEMMA LobbyPut ==
  ASSUME NEW h, Sound(h), NEW name \in SlotNames, NEW v \in 1..Len(h) \ {Lobby},
         name \in WithData => h[v].init = name,
         name \in {"Object", "proto"} => v = 5
  PROVE  LET g == Put(h, Lobby, name, v) IN
         /\ Sound(g) /\ Keeps(h, g) /\ Len(g) = Len(h)
         /\ Proto(g, name) = v
<1> DEFINE g == Put(h, Lobby, name, v)
           x == With(h[Lobby], name, v)
<1>1. h \in Seq(Obj) /\ Len(h) >= 4 /\ Len(h) \in Nat /\ Lobby \in 1..Len(h) /\ Lobby # 0
  BY DEF Sound, SoundBut, Lobby
<1>2. v \in Nat /\ v # NULL /\ h[Lobby] \in Obj /\ "proto" \in SlotNames
  BY <1>1, NullIsNothing, Names
<1>3. /\ x \in Obj /\ x.methods = h[Lobby].methods /\ x.data = h[Lobby].data
      /\ x.init = h[Lobby].init /\ x.clone = h[Lobby].clone /\ x.hollow = h[Lobby].hollow
      /\ \A other \in SlotNames : /\ other = name => x.slots[other] = v
                                  /\ other # name => x.slots[other] = h[Lobby].slots[other]
  <2> DEFINE l == h[Lobby]
  <2>1. l \in Obj
    BY <1>2
  <2> HIDE DEF l
  <2>2. /\ With(l, name, v) \in Obj /\ With(l, name, v).methods = l.methods
        /\ With(l, name, v).data = l.data /\ With(l, name, v).init = l.init
        /\ With(l, name, v).clone = l.clone /\ With(l, name, v).hollow = l.hollow
    BY <1>2, <2>1, WithFacts
  <2>3. \A other \in SlotNames :
           /\ other = name => With(l, name, v).slots[other] = v
           /\ other # name => With(l, name, v).slots[other] = l.slots[other]
    BY <1>2, <2>1, WithFacts
  <2>4. QED
    BY <2>2, <2>3 DEF l
<1>4. /\ g \in Seq(Obj) /\ Len(g) = Len(h) /\ g[Lobby] = x
      /\ \A p \in 1..Len(h) : p # Lobby => g[p] = h[p]
  BY <1>1, <1>2, PutFacts
<1> HIDE DEF g, x
<1>5. \A p \in 1..Len(h) : g[p].init = h[p].init
  BY <1>3, <1>4
<1>6. \A other \in SlotNames : /\ other = name => Proto(g, other) = v
                               /\ other # name => Proto(g, other) = Proto(h, other)
  BY <1>3, <1>4 DEF Proto, Slot
<1>7. Fits(h, Lobby, x)
  <2>1. Fits(h, Lobby, h[Lobby])
    BY <1>1, SoundFits
  <2>2. x.slots["proto"] = h[Lobby].slots["proto"] \/ x.slots["proto"] = v
    BY <1>2, <1>3
  <2>3. "previous" \in SlotNames
    BY Names
  <2>4. x.slots["previous"] = h[Lobby].slots["previous"] \/ x.slots["previous"] # NULL
    BY <1>2, <1>3, <2>3
  <2>5. x.slots["proto"] = NULL => h[Lobby].slots["proto"] = NULL
    BY <1>2, <1>3
  <2>6. Alone(Lobby, x)
    BY <1>3, <2>1, <2>5 DEF Fits, Alone, Lobby
  <2>7. CASE x.slots["proto"] = h[Lobby].slots["proto"]
    BY <1>3, <2>1, <2>4, <2>6, <2>7 DEF Fits, HasData
  <2>8. CASE x.slots["proto"] # h[Lobby].slots["proto"]
    <3>1. name = "proto" /\ x.slots["proto"] = 5 /\ v = 5
      BY <1>2, <1>3, <2>8
    <3>2. h[5].init = NULL
      BY <3>1, SoundFits DEF Fits, Alone
    <3>3. NULL \notin WithData /\ NULL # "Message"
      BY NullIsNothing, Names DEF Prototypes
    <3>4. QED
      BY <1>1, <2>6, <3>1, <3>2, <3>3 DEF Fits, Lobby
  <2>9. QED
    BY <2>7, <2>8
<1>8. ASSUME NEW o \in 1..Len(g) PROVE Fits(g, o, g[o])
  <2>1. o \in 1..Len(h) /\ o \in Nat
    BY <1>1, <1>4
  <2>2. Fits(h, o, g[o])
    BY <1>4, <1>7, <2>1, SoundFits
  <2>3. QED
    BY <1>1, <1>4, <1>5, <2>1, <2>2, FitsLonger
<1>9. LobbyFits(g)
  <2>1. LobbyFits(h)
    BY DEF Sound, SoundBut
  <2>2. \A other \in SlotNames : Proto(g, other) # NULL => Proto(g, other) \in 1..Len(g) \ {Lobby}
    BY <1>4, <1>6, <2>1 DEF LobbyFits
  <2>3. \A kind \in WithData : Proto(g, kind) # NULL => g[Proto(g, kind)].init = kind
    <3>1. ASSUME NEW kind \in WithData, Proto(g, kind) # NULL
          PROVE  g[Proto(g, kind)].init = kind
      <4>1. kind \in SlotNames
        BY Names
      <4>2. CASE kind = name
        BY <1>5, <1>6, <4>1, <4>2
      <4>3. CASE kind # name
        <5>1. Proto(g, kind) = Proto(h, kind)
          BY <1>6, <4>1, <4>3
        <5>2. Proto(h, kind) \in 1..Len(h) /\ h[Proto(h, kind)].init = kind
          BY <2>1, <3>1, <4>1, <5>1 DEF LobbyFits
        <5>3. QED
          BY <1>5, <5>1, <5>2
      <4>4. QED
        BY <4>2, <4>3
    <3>2. QED
      BY <3>1
  <2>4. Proto(g, "Object") \in {NULL, 5}
    <3>1. "Object" \in SlotNames
      BY Names DEF Prototypes
    <3>2. CASE name = "Object"
      BY <1>6, <3>1, <3>2
    <3>3. CASE name # "Object"
      BY <1>6, <2>1, <3>1, <3>3 DEF LobbyFits
    <3>4. QED
      BY <3>2, <3>3
  <2>5. QED
    BY <2>2, <2>3, <2>4 DEF LobbyFits
<1>10. Sound(g)
  BY <1>1, <1>4, <1>8, <1>9 DEF Sound, SoundBut
<1>11. Keeps(h, g)
  <2>1. Len(h) >= 5 => Slot(g, 5, "tag") = Slot(h, 5, "tag")
    <3>1. Len(h) >= 5 => 5 \in 1..Len(h)
      BY <1>1
    <3>2. QED
      BY <1>4, <3>1 DEF Slot, Lobby
  <2>2. QED
    BY <1>1, <1>2, <1>4, <1>6, <2>1 DEF Keeps
<1>12. QED
  BY <1>4, <1>6, <1>10, <1>11 DEF g

LEMMA SpecialiseKeeps ==
  ASSUME OInv, NEW name \in Prototypes \ {"Object"}, NEW o \in held, Specialise(name, o)
  PROVE  OInv'
<1> DEFINE g == Put(heap, Lobby, name, o)
           p == Proto(heap, name)
<1>1. /\ Running /\ p \in Above(heap, o) /\ heap' = g
      /\ step' = step /\ held' = held /\ state' = state
  BY DEF Specialise, DerivedFrom
<1>2. /\ heap \in Seq(Obj) /\ Sound(heap) /\ Len(heap) \in Nat /\ Len(heap) >= 5 /\ step = 33
  BY <1>1, RunningFacts
<1>3. o \in 1..Len(heap) \ {Lobby}
  BY DEF OInv, TypeOK
<1>4. name \in SlotNames /\ name \notin {"Object", "proto"}
  BY Names
<1>5. name \in WithData => heap[o].init = name
  <2>1. SUFFICES ASSUME name \in WithData PROVE heap[o].init = name
    OBVIOUS
  <2>2. p # NULL
    <3>1. name \in AllNames
      BY DEF AllNames
    <3>2. QED
      BY <1>1, <3>1, RunningFacts
  <2>3. heap[p].init = name
    BY <1>2, <1>4, <2>1, <2>2, ProtoFacts DEF Sound
  <2> HIDE DEF p
  <2>4. QED
    BY <1>1, <1>2, <1>3, <2>1, <2>3, InheritsKind
<1>6. Sound(g) /\ Keeps(heap, g) /\ Len(g) = Len(heap)
  BY <1>2, <1>3, <1>4, <1>5, LobbyPut
<1> HIDE DEF g, p
<1>7. TypeOK'
  <2>1. g \in Seq(Obj)
    BY <1>6 DEF Sound, SoundBut
  <2>2. QED
    BY <1>1, <1>6, <2>1 DEF OInv, TypeOK
<1>8. Progress(g, step)
  <2>1. Progress(heap, step)
    BY DEF OInv
  <2>2. ASSUME NEW j \in 1..Len(Statements), j < step,
               Kind(Statements[j]) \in {"proto", "error", "constant"}
        PROVE  Proto(g, Name(Statements[j])) # NULL
    <3>1. Proto(heap, Name(Statements[j])) # NULL
      BY <2>1, <2>2 DEF Progress
    <3>2. Name(Statements[j]) \in SlotNames
      <4>1. j \in 1..10 \/ j \in 11..15 \/ j = 16 \/ j \in 17..19 \/ j \in 20..32
        BY StatementFacts
      <4>2. QED
        BY <2>2, <4>1, StatementFacts, Names
    <3>3. QED
      BY <1>6, <3>1, <3>2 DEF Keeps
  <2>3. QED
    BY <1>2, <1>6, <2>1, <2>2 DEF Progress, Keeps
<1>9. Outcome'
  <2>1. state'.is = "running"
    BY <1>1 DEF Running
  <2>2. QED
    BY <2>1 DEF Outcome
<1>10. QED
  BY <1>1, <1>6, <1>7, <1>8, <1>9 DEF OInv

-----------------------------------------------------------------------------
(***************************************************************************)
(* sk_vm_new.                                                              *)
(***************************************************************************)
LEMMA KeepsTransitive ==
  ASSUME NEW h, NEW g, NEW k, Len(h) \in Nat, Keeps(h, g), Keeps(g, k)
  PROVE  Keeps(h, k)
BY DEF Keeps

LEMMA NamesMade ==
  /\ AllNames \subseteq SlotNames
  /\ \A k \in 1..32 : k # 16 => Name(Statements[k]) \in AllNames
  /\ \A k \in 1..32 : Kind(Statements[k]) \in {"proto", "error", "constant"} => k # 16
<1>1. \A k \in 1..32 : k \in 1..10 \/ k \in 11..15 \/ k = 16 \/ k \in 17..19 \/ k \in 20..32
  OBVIOUS
<1>2. QED
  BY <1>1, StatementFacts, Names DEF AllNames

LEMMA ProgressOn ==
  ASSUME NEW h, NEW g, NEW k \in 1..32, Progress(h, k), Keeps(h, g), Len(g) >= 5,
         Kind(Statements[k]) \in {"proto", "error", "constant"}
           => Proto(g, Name(Statements[k])) # NULL,
         k = 20 => Slot(g, 5, "tag") # NULL
  PROVE  Progress(g, k + 1)
<1>1. ASSUME NEW j \in 1..Len(Statements), j < k + 1,
             Kind(Statements[j]) \in {"proto", "error", "constant"}
      PROVE  Proto(g, Name(Statements[j])) # NULL
  <2>1. CASE j = k
    BY <1>1, <2>1
  <2>2. CASE j # k
    <3>1. j < k
      BY <1>1, <2>2, StatementFacts
    <3>2. Proto(h, Name(Statements[j])) # NULL
      BY <1>1, <3>1 DEF Progress
    <3>3. Name(Statements[j]) \in SlotNames
      BY <1>1, NamesMade, StatementFacts
    <3>4. QED
      BY <3>2, <3>3 DEF Keeps
  <2>3. QED
    BY <2>1, <2>2
<1>2. k + 1 > 20 => Slot(g, 5, "tag") # NULL
  <2>1. k > 20 => Len(h) >= 5 /\ Slot(h, 5, "tag") # NULL
    BY DEF Progress
  <2>2. k + 1 > 20 => k > 20 \/ k = 20
    OBVIOUS
  <2>3. QED
    BY <2>1, <2>2 DEF Keeps
<1>3. QED
  BY <1>1, <1>2 DEF Progress

(* No statement looks up what the statements before it did not make.       *)
LEMMA BootFinds ==
  ASSUME OInv, Booting
  PROVE  \A name \in Needs(Statements[step]) : Proto(heap, name) # NULL
<1>1. step \in 1..32 /\ Len(Statements) = 32 /\ Progress(heap, step)
  BY StatementFacts DEF OInv, TypeOK, Booting
<1>2. ASSUME NEW j \in 1..32, j < step, Kind(Statements[j]) \in {"proto", "error", "constant"}
      PROVE  Proto(heap, Name(Statements[j])) # NULL
  BY <1>1, <1>2 DEF Progress
<1>3. step > 1 => Proto(heap, "Object") # NULL
  <2>1. Name(Statements[1]) = "Object" /\ Kind(Statements[1]) = "proto"
    BY StatementFacts
  <2>2. QED
    BY <1>1, <1>2, <2>1
<1>4. step > 5 => Proto(heap, "String") # NULL
  <2>1. Name(Statements[5]) = "String" /\ Kind(Statements[5]) = "proto"
    BY DEF Statements, Name, Kind
  <2>2. QED
    BY <1>1, <1>2, <2>1
<1>5. step > 6 => Proto(heap, "Exception") # NULL
  <2>1. Name(Statements[6]) = "Exception" /\ Kind(Statements[6]) = "proto"
    BY StatementFacts
  <2>2. QED
    BY <1>1, <1>2, <2>1
<1> DEFINE s == Statements[step]
<1>6. CASE step \in 1..10
  <2>1. /\ Kind(s) = "proto"
        /\ (Name(s) = "Object") <=> (step = 1)
        /\ (Name(s) = "Exception") <=> (step = 6)
    BY <1>6, StatementFacts
  <2> HIDE DEF s
  <2>2. Needs(s) = NeedsOfProto(Name(s))
    BY <2>1 DEF Needs
  <2>3. /\ Name(s) = "Object" => Needs(s) = {}
        /\ Name(s) = "Exception" => Needs(s) = {"Object", "String"}
        /\ Name(s) \notin {"Object", "Exception"} => Needs(s) = {"Object"}
    BY <2>2 DEF NeedsOfProto
  <2>4. QED
    BY <1>1, <1>3, <1>4, <2>1, <2>3 DEF s
<1>7. CASE step \in 11..15
  <2>1. Kind(s) = "error"
    BY <1>7, StatementFacts
  <2> HIDE DEF s
  <2>2. Needs(s) = {"Exception"}
    BY <2>1 DEF Needs
  <2>3. QED
    BY <1>5, <1>7, <2>2 DEF s
<1>8. CASE step \in 16..19
  <2>1. Kind(s) \in {"flag", "constant"}
    BY <1>8, StatementFacts
  <2> HIDE DEF s
  <2>2. Needs(s) = {"Object"}
    BY <2>1 DEF Needs
  <2>3. QED
    BY <1>3, <1>8, <2>2 DEF s
<1>9. CASE step \in 20..32
  <2>1. Kind(s) = "tag" /\ Name(s) \in AllNames
    BY <1>9, StatementFacts DEF AllNames
  <2>2. PICK j \in 1..19 : Kind(Statements[j]) \in {"proto", "error", "constant"}
                           /\ Name(Statements[j]) = Name(s)
    BY <2>1, EveryNameIsMade
  <2>3. Proto(heap, Name(s)) # NULL
    <3>1. j \in 1..32 /\ j < step
      BY <1>9
    <3> HIDE DEF s
    <3>2. QED
      BY <1>2, <2>2, <3>1
  <2> HIDE DEF s
  <2>4. Needs(s) = {"String", Name(s)}
    BY <2>1 DEF Needs
  <2>5. QED
    BY <1>4, <1>9, <2>3, <2>4 DEF s
<1>10. QED
  BY <1>1, <1>6, <1>7, <1>8, <1>9

(* The methods that read data are bound to prototypes with data, dispatch  *)
(* to Message, and to_repr to Object.                                      *)
LEMMA BoundFacts ==
  ASSUME NEW name \in Prototypes \ {"Object"}
  PROVE  /\ Bound(name) \subseteq MethodNames
         /\ name \notin WithData => \A kind \in WithData : Bound(name) \cap Readers(kind) = {}
         /\ "to_repr" \notin Bound(name)
         /\ "dispatch" \in Bound(name) => name = "Message"
<1>1. ASSUME NEW kind \in WithData
      PROVE  Readers(kind) \cap {"dispatch", "clone"} = {}
  <2>1. CASE kind = "String"
    BY <2>1 DEF Readers
  <2>2. CASE kind = "Number"
    BY <2>2 DEF Readers, Bound, NumberMethods
  <2>3. CASE kind = "List"
    BY <2>3 DEF Readers, Bound, ListMethods
  <2>4. CASE kind = "Thread"
    BY <2>4 DEF Readers, Bound, ThreadMethods
  <2>5. CASE kind = "Mutex"
    BY <2>5 DEF Readers, Bound, MutexMethods
  <2>6. QED
    BY <2>1, <2>2, <2>3, <2>4, <2>5 DEF WithData
<1>2. CASE name = "Number"
  <2>1. Bound(name) = NumberMethods
    BY <1>2 DEF Bound
  <2>2. QED
    BY <1>2, <2>1 DEF MethodNames, NumberMethods, WithData
<1>3. CASE name = "List"
  <2>1. Bound(name) = ListMethods
    BY <1>3 DEF Bound
  <2>2. QED
    BY <1>3, <2>1 DEF MethodNames, ListMethods, WithData
<1>4. CASE name = "Message"
  <2>1. Bound(name) = {"dispatch"}
    BY <1>4 DEF Bound, MessageMethods
  <2>2. QED
    BY <1>1, <1>4, <2>1 DEF MethodNames, MessageMethods
<1>5. CASE name = "String"
  <2>1. Bound(name) = StringMethods
    BY <1>5 DEF Bound
  <2>2. QED
    BY <1>5, <2>1 DEF MethodNames, StringMethods, WithData
<1>6. CASE name \in {"Exception", "Call"}
  <2>1. Bound(name) = {}
    BY <1>6 DEF Bound
  <2>2. QED
    BY <2>1
<1>7. CASE name = "Method"
  <2>1. Bound(name) = {"clone"}
    BY <1>7 DEF Bound, MethodMethods
  <2>2. QED
    BY <1>1, <1>7, <2>1 DEF MethodNames, MethodMethods
<1>8. CASE name = "Thread"
  <2>1. Bound(name) = ThreadMethods
    BY <1>8 DEF Bound
  <2>2. QED
    BY <1>8, <2>1 DEF MethodNames, ThreadMethods, WithData
<1>9. CASE name = "Mutex"
  <2>1. Bound(name) = MutexMethods
    BY <1>9 DEF Bound
  <2>2. QED
    BY <1>9, <2>1 DEF MethodNames, MutexMethods, WithData
<1>10. QED
  BY <1>2, <1>3, <1>4, <1>5, <1>6, <1>7, <1>8, <1>9 DEF Prototypes

(* What sk_vm_new has once Object is in the lobby.                         *)
HasObject(h) == Sound(h) /\ Len(h) >= 5 /\ Proto(h, "Object") # NULL

LEMMA HasObjectFacts ==
  ASSUME NEW h, HasObject(h)
  PROVE  /\ h \in Seq(Obj) /\ Len(h) \in Nat /\ Len(h) >= 5 /\ 5 \in 1..Len(h)
         /\ Proto(h, "Object") = 5 /\ h[5].init = NULL /\ h[5] \in Obj
<1>1. h \in Seq(Obj) /\ Len(h) \in Nat /\ Len(h) >= 5 /\ 5 \in 1..Len(h)
  BY DEF HasObject, Sound, SoundBut
<1>2. Proto(h, "Object") = 5
  BY DEF HasObject, Sound, SoundBut, LobbyFits
<1>3. h[5].init = NULL
  BY <1>1, SoundFits DEF HasObject, Fits, Alone
<1>4. QED
  BY <1>1, <1>2, <1>3

LEMMA NewProtoFacts ==
  ASSUME NEW h, HasObject(h), NEW name \in Prototypes \ {"Object"}
  PROVE  \E y \in Obj : /\ y.slots["proto"] = 5 /\ Bare(y)
                        /\ name = "String" => y.data = NULL
                        /\ NewProto(h, name) = Append(h, y)
<1> DEFINE n == Len(h) + 1
<1>1. /\ h \in Seq(Obj) /\ Len(h) \in Nat /\ Len(h) >= 5 /\ 5 \in 1..Len(h)
      /\ Proto(h, "Object") = 5 /\ h[5].init = NULL
  BY HasObjectFacts
<1>2. CASE name \in {"Number", "String"}
  <2> DEFINE y == With(NewObject, "proto", 5)
  <2>1. "proto" \in SlotNames /\ 5 \in Nat
    BY Names
  <2>2. y \in Obj /\ y.slots["proto"] = 5 /\ y.methods = NewObject.methods
        /\ y.data = NewObject.data
    BY <2>1, NewObjectFacts, WithFacts
  <2>3. NewProto(h, name) = Put(Append(h, NewObject), n, "proto", 5)
    BY <1>1, <1>2 DEF NewProto
  <2>4. Append(h, NewObject)[n] = NewObject
    BY <1>1, NewObjectFacts, AppendFacts
  <2>5. Put(Append(h, NewObject), n, "proto", 5) = [Append(h, NewObject) EXCEPT ![n] = y]
    BY <2>4 DEF Put
  <2> HIDE DEF y
  <2>6. [Append(h, NewObject) EXCEPT ![n] = y] = Append(h, y)
    BY <1>1, <2>2, NewObjectFacts, AppendThenReplace
  <2>7. QED
    BY <2>2, <2>3, <2>5, <2>6, NewObjectFacts DEF Bare
<1>3. CASE name \notin {"Number", "String"}
  <2> DEFINE y == Initialised(Copy(h, 5), h[5].init)
  <2>1. NewProto(h, name) = Clone(h, 5)
    BY <1>1, <1>3 DEF NewProto
  <2>2. Clone(h, 5) = CloneAlone(h, 5)
    <3>1. NULL # "Message"
      BY NullIsNothing DEF Inits, Prototypes
    <3>2. QED
      BY <1>1, <3>1 DEF Clone
  <2>3. y \in Obj /\ y.slots["proto"] = 5 /\ Bare(y)
    <3>1. SoundBut(h, 0) /\ 5 # 0
      BY DEF HasObject, Sound
    <3>2. QED
      BY <1>1, <3>1, CloneFits
  <2>4. CloneAlone(h, 5) = Append(h, y)
    BY DEF CloneAlone
  <2> HIDE DEF y
  <2>5. QED
    BY <1>3, <2>1, <2>2, <2>3, <2>4
<1>4. QED
  BY <1>2, <1>3

(* A prototype by itself, with its methods and its functions.              *)
LEMMA OwnFits ==
  ASSUME NEW h, HasObject(h), NEW name \in Prototypes \ {"Object"},
         NEW y \in Obj, y.slots["proto"] = 5, Bare(y), name = "String" => y.data = NULL
  PROVE  LET z == [[y EXCEPT !.methods = Bound(name)] EXCEPT !.init = name, !.clone = name] IN
         z \in Obj /\ z.init = name /\ Fits(h, Len(h) + 1, z)
<1> DEFINE z == [[y EXCEPT !.methods = Bound(name)] EXCEPT !.init = name, !.clone = name]
           n == Len(h) + 1
<1>1. /\ Len(h) \in Nat /\ Len(h) >= 5 /\ 5 \in 1..Len(h) /\ h[5].init = NULL
  BY HasObjectFacts
<1>2. name \in Inits /\ name # "base" /\ Bound(name) \subseteq MethodNames
  BY BoundFacts DEF Inits, Prototypes
<1>3. /\ z \in Obj /\ z.slots = y.slots /\ z.methods = Bound(name)
      /\ z.init = name /\ z.clone = name /\ z.data = y.data
  BY <1>2 DEF Obj
<1> HIDE DEF z
<1>4. NULL \notin WithData /\ NULL # "Message" /\ 5 # NULL
  <2>1. NULL \notin SlotNames /\ NULL \notin Nat
    BY NullIsNothing
  <2>2. "Message" \in SlotNames
    BY Names DEF Prototypes
  <2>3. QED
    BY <2>1, <2>2, Names
<1>5. Alone(n, z)
  <2>1. n # 5
    BY <1>1
  <2>2. \A kind \in WithData : z.methods \cap Readers(kind) # {} => z.init \in WithData
    BY <1>3, BoundFacts
  <2> HIDE DEF n
  <2>3. QED
    BY <1>2, <1>3, <1>4, <2>1, <2>2, BoundFacts DEF Alone
<1>6. Fits(h, n, z)
  <2>1. n \in Nat /\ n > 5
    BY <1>1
  <2> HIDE DEF n
  <2>2. QED
    BY <1>1, <1>3, <1>4, <1>5, <2>1 DEF Fits
<1>7. QED
  BY <1>3, <1>6 DEF z

(* The create_proto functions, but that of Object.                         *)
LEMMA CreateProtoSound ==
  ASSUME NEW h, HasObject(h), NEW name \in Prototypes \ {"Object"},
         name = "Exception" => Proto(h, "String") # NULL
  PROVE  LET g == CreateProto(h, name)
             n == Len(h) + 1
         IN  /\ Sound(g) /\ Extends(h, g) /\ n \in 1..Len(g) \ {Lobby}
             /\ g[n].init = name
<1> DEFINE n == Len(h) + 1
           new == NewProto(h, name)
           bound == [new EXCEPT ![n] = [new[n] EXCEPT !.methods = Bound(name)]]
           own == [bound EXCEPT ![n] = [bound[n] EXCEPT !.init = name, !.clone = name]]
<1>1. h \in Seq(Obj) /\ Len(h) \in Nat /\ Len(h) >= 5 /\ n \in Nat /\ n # Lobby /\ Sound(h)
  BY HasObjectFacts DEF Lobby, HasObject
<1>2. PICK y \in Obj : /\ y.slots["proto"] = 5 /\ Bare(y) /\ new = Append(h, y)
                       /\ name = "String" => y.data = NULL
  BY NewProtoFacts
<1> DEFINE y1 == [y EXCEPT !.methods = Bound(name)]
           z == [y1 EXCEPT !.init = name, !.clone = name]
<1>3. z \in Obj /\ z.init = name /\ Fits(h, n, z)
  BY <1>2, OwnFits
<1>4. own = Append(h, z)
  <2>1. y1 \in Obj
    BY <1>2, BoundFacts DEF Obj
  <2>2. new[n] = y
    BY <1>1, <1>2, AppendFacts
  <2> HIDE DEF new
  <2>3. bound = [Append(h, y) EXCEPT ![n] = y1]
    BY <1>2, <2>2
  <2> HIDE DEF y1
  <2>4. bound = Append(h, y1)
    BY <1>1, <2>1, <2>3, AppendThenReplace
  <2>5. bound[n] = y1
    BY <1>1, <2>1, <2>4, AppendFacts
  <2> HIDE DEF bound
  <2>6. own = [Append(h, y1) EXCEPT ![n] = z]
    BY <2>4, <2>5
  <2> HIDE DEF z
  <2>7. QED
    BY <1>1, <1>3, <2>1, <2>6, AppendThenReplace
<1>5. CreateProto(h, name) = CASE name = "Exception" -> ExceptionMessage(own, n)
                               [] name = "Call" -> CallMessage(own, n)
                               [] name = "Thread" -> [own EXCEPT ![n] = InitThread(own[n])]
                               [] OTHER -> own
  <2> DEFINE g == CreateProto(h, name)
  <2>1. /\ name = "Exception" => g = ExceptionMessage(own, n)
        /\ name = "Call" => g = CallMessage(own, n)
        /\ name = "Thread" => g = [own EXCEPT ![n] = InitThread(own[n])]
        /\ name \notin {"Exception", "Call", "Thread"} => g = own
    BY DEF CreateProto
  <2> HIDE DEF g, own
  <2>2. QED
    BY <2>1 DEF g
<1> HIDE DEF new, bound, own, z
<1>6. /\ Sound(own) /\ Extends(h, own) /\ Len(own) = n /\ own[n] = z
      /\ own \in Seq(Obj) /\ n \in 1..Len(own) /\ n > Len(h)
  <2>1. Sound(own)
    BY <1>1, <1>3, <1>4, AppendSound DEF Sound
  <2>2. QED
    BY <1>1, <1>3, <1>4, <2>1, AppendFacts DEF Extends
<1>7. CASE name = "Exception"
  <2> DEFINE s == StringFrom(own, "String")
             g == Put(s, n, "message", Len(own) + 1)
  <2>1. CreateProto(h, name) = g
    BY <1>5, <1>7 DEF ExceptionMessage
  <2>2. Proto(own, "String") # NULL /\ Proto(own, "String") # 0
    <3>1. "String" \in SlotNames
      BY Names DEF Prototypes
    <3>2. Proto(own, "String") = Proto(h, "String")
      BY <1>1, <1>6, ExtendsFacts
    <3>3. Proto(h, "String") # NULL /\ Proto(h, "String") \in 1..Len(h)
      BY <1>1, <1>7, <3>1, ProtoFacts DEF Sound
    <3>4. QED
      BY <1>1, <3>2, <3>3
  <2>3. Sound(s) /\ Extends(own, s) /\ Len(s) = n + 1
    BY <1>1, <1>6, <2>2, StringFromSound DEF Sound
  <2>4. Extends(h, s) /\ s \in Seq(Obj) /\ s[n] = z /\ n \in 1..Len(s)
    BY <1>1, <1>6, <2>3, ExtendsTransitive DEF Extends
  <2> HIDE DEF s
  <2>5. "message" \in SlotNames \ {"proto"} /\ Len(own) + 1 \in Nat
    BY <1>1, <1>6, Names
  <2>6. Sound(g) /\ Extends(h, g) /\ Len(g) = Len(s)
    BY <1>1, <1>6, <2>3, <2>4, <2>5, PutNew
  <2>7. g[n].init = z.init
    BY <2>4, <2>5, PutObject
  <2> HIDE DEF g
  <2>8. QED
    BY <1>1, <1>3, <2>1, <2>4, <2>6, <2>7
<1>8. CASE name = "Call"
  <2> DEFINE g == Put(own, n, "message", Nil)
  <2>1. CreateProto(h, name) = g
    BY <1>5, <1>8 DEF CallMessage
  <2>2. "message" \in SlotNames \ {"proto"} /\ Nil \in Nat
    BY Names DEF Nil
  <2>3. Sound(g) /\ Extends(h, g) /\ Len(g) = Len(own)
    BY <1>1, <1>6, <2>2, PutNew
  <2>4. g[n].init = z.init
    BY <1>6, <2>2, PutObject
  <2> HIDE DEF g
  <2>5. QED
    BY <1>1, <1>3, <1>6, <2>1, <2>3, <2>4
<1>9. CASE name = "Thread"
  <2> DEFINE t == InitThread(z)
             g == [own EXCEPT ![n] = t]
  <2>1. CreateProto(h, name) = g
    BY <1>5, <1>6, <1>9
  <2>2. t \in Obj /\ t.slots = z.slots /\ t.methods = z.methods /\ t.init = z.init
        /\ t.clone = z.clone
    BY <1>3 DEF InitThread, Obj, WithData
  <2>3. Fits(own, n, t)
    <3>1. Fits(h, n, t)
      <4>1. h[5].init = NULL /\ NULL \notin WithData
        BY HasObjectFacts, NullIsNothing, Names
      <4>2. z.slots["proto"] = 5
        BY <1>2 DEF z
      <4> HIDE DEF t, n
      <4>3. QED
        BY <1>3, <1>9, <2>2, <4>1, <4>2 DEF Fits, Alone
    <3>2. \A p \in 1..Len(h) : own[p].init = h[p].init
      BY <1>6 DEF Extends
    <3>3. QED
      BY <1>1, <1>6, <3>1, <3>2, FitsLonger
  <2> HIDE DEF t
  <2>4. Sound(g)
    BY <1>1, <1>6, <2>2, <2>3, ReplaceSound DEF Sound
  <2>5. g \in Seq(Obj) /\ Len(g) = n /\ g[n] = t /\ \A p \in 1..Len(own) : p # n => g[p] = own[p]
    BY <1>6, <2>2, ReplaceFacts
  <2> HIDE DEF g
  <2>6. Extends(h, g)
    <3>1. \A p \in 1..Len(h) : p \in 1..Len(own) /\ p # n
      BY <1>1, <1>6
    <3>2. QED
      BY <1>6, <2>5, <3>1 DEF Extends
  <2>7. QED
    BY <1>1, <1>3, <1>6, <2>1, <2>2, <2>4, <2>5, <2>6
<1>10. CASE name \notin {"Exception", "Call", "Thread"}
  <2>1. CreateProto(h, name) = own
    BY <1>5, <1>10
  <2>2. QED
    BY <1>1, <1>3, <1>6, <2>1
<1>11. QED
  BY <1>7, <1>8, <1>9, <1>10

(* Object, which is made first, is the fifth object.                       *)
LEMMA CreateObjectSound ==
  ASSUME NEW h, Sound(h), Len(h) = 4
  PROVE  LET g == CreateProto(h, "Object") IN
         Sound(g) /\ Extends(h, g) /\ Len(g) = 5
<1> DEFINE new == NewProto(h, "Object")
           x == [NewObject EXCEPT !.methods = ObjectMethods]
           bound == [new EXCEPT ![5] = [new[5] EXCEPT !.methods = Bound("Object")]]
<1>1. h \in Seq(Obj) /\ Len(h) + 1 = 5
  BY DEF Sound, SoundBut
<1>2. new = Append(h, NewObject)
  <2>1. ASSUME NEW name, name = "Object" PROVE NewProto(h, name) = Append(h, NewObject)
    BY <2>1 DEF NewProto
  <2>2. QED
    BY <2>1
<1>3. new[5] = NewObject
  <2>1. Append(h, NewObject)[Len(h) + 1] = NewObject
    BY <1>1, NewObjectFacts, AppendFacts
  <2> HIDE DEF new
  <2>2. QED
    BY <1>1, <1>2, <2>1
<1>4. Bound("Object") = ObjectMethods
  BY DEF Bound
<1>5. CreateProto(h, "Object") = bound
  BY <1>1 DEF CreateProto
<1> HIDE DEF new
<1>6. /\ x \in Obj /\ x.slots = NewObject.slots /\ x.methods = ObjectMethods
      /\ x.init = NULL /\ x.clone = "base"
  BY NewObjectFacts DEF Obj, MethodNames
<1>7. bound = Append(h, x)
  <2>1. bound = [Append(h, NewObject) EXCEPT ![5] = x]
    BY <1>2, <1>3, <1>4
  <2> HIDE DEF x
  <2>2. QED
    BY <1>1, <1>6, <2>1, NewObjectFacts, AppendThenReplace, ZenonT(40)
<1> HIDE DEF bound, x
<1>8. Fits(h, 5, x)
  <2>1. x.slots["proto"] = NULL
    BY <1>6, NewObjectFacts, Names
  <2>2. "dispatch" \notin x.methods
    BY <1>6 DEF ObjectMethods
  <2>3. x.init # "String"
    BY <1>6, NullIsNothing DEF Inits, Prototypes
  <2>4. QED
    BY <1>6, <2>1, <2>2, <2>3 DEF Fits, Alone
<1>9. Sound(Append(h, x))
  BY <1>1, <1>6, <1>8, AppendSound DEF Sound
<1>10. Extends(h, Append(h, x)) /\ Len(Append(h, x)) = 5
  <2> DEFINE g == Append(h, x)
  <2>1. g \in Seq(Obj) /\ Len(g) = Len(h) + 1 /\ \A p \in 1..Len(h) : g[p] = h[p]
    BY <1>1, <1>6, AppendFacts
  <2> HIDE DEF g
  <2>2. Extends(h, g) /\ Len(g) = 5
    BY <1>1, <2>1 DEF Extends
  <2>3. QED
    BY <2>2 DEF g
<1>11. QED
  BY <1>5, <1>7, <1>9, <1>10

\* What statement k leaves: a sound heap with what was in the lobby.
Leaves(h, g) == Sound(g) /\ Keeps(h, g) /\ Len(g) >= 5

LEMMA NewInLobby ==
  ASSUME NEW h, Sound(h), NEW g, Sound(g), Extends(h, g), Len(g) >= 5,
         NEW name \in AllNames \ {"Object"}, NEW o \in 1..Len(g) \ {Lobby},
         name \in WithData => g[o].init = name
  PROVE  /\ Leaves(h, Put(g, Lobby, name, o))
         /\ Proto(Put(g, Lobby, name, o), name) # NULL
<1> DEFINE k == Put(g, Lobby, name, o)
<1>1. name \in SlotNames /\ name \notin {"Object", "proto"}
  BY NamesMade, Names DEF AllNames
<1>2. /\ h \in Seq(Obj) /\ Len(h) \in Nat /\ Len(h) >= 4 /\ Len(g) \in Nat
      /\ o \in Nat /\ o # NULL
  BY NullIsNothing DEF Sound, SoundBut
<1>3. Sound(k) /\ Keeps(g, k) /\ Len(k) = Len(g) /\ Proto(k, name) = o
  BY <1>1, LobbyPut
<1> HIDE DEF k
<1>4. Keeps(h, g)
  BY <1>2, KeepsFacts
<1>5. Keeps(h, k)
  BY <1>2, <1>3, <1>4, KeepsTransitive
<1>6. QED
  BY <1>2, <1>3, <1>5 DEF Leaves, k

LEMMA AddProtoSound ==
  ASSUME NEW h, Sound(h), NEW name \in Prototypes,
         name = "Object" => Len(h) = 4,
         name # "Object" => HasObject(h),
         name = "Exception" => Proto(h, "String") # NULL
  PROVE  Leaves(h, AddProto(h, name)) /\ Proto(AddProto(h, name), name) # NULL
<1> DEFINE n == Len(h) + 1
           new == CreateProto(h, name)
           g == Put(new, Lobby, name, n)
<1>1. h \in Seq(Obj) /\ Len(h) \in Nat /\ Len(h) >= 4 /\ n \in Nat /\ n # NULL
  BY NullIsNothing DEF Sound, SoundBut
<1>2. CASE name # "Object"
  <2>1. AddProto(h, name) = g
    BY <1>2 DEF AddProto
  <2>2. Sound(new) /\ Extends(h, new) /\ n \in 1..Len(new) \ {Lobby} /\ new[n].init = name
    BY <1>2, CreateProtoSound
  <2> HIDE DEF new
  <2>3. Len(new) >= 5
    BY <1>1, <2>2 DEF Extends
  <2>4. name \in AllNames \ {"Object"}
    BY <1>2 DEF AllNames
  <2> HIDE DEF n
  <2>5. QED
    BY <2>1, <2>2, <2>3, <2>4, NewInLobby
<1>3. CASE name = "Object"
  <2> DEFINE a == CreateProto(h, "Object")
             b == Put(a, Lobby, "Object", 5)
             k == Put(b, Lobby, "proto", 5)
  <2>1. n = 5 /\ Len(h) = 4
    <3>1. Len(h) = 4
      BY <1>3, Zenon
    <3>2. QED
      BY <3>1
  <2>2. AddProto(h, name) = k
    <3>1. AddProto(h, name) = Put(g, Lobby, "proto", n)
      BY <1>3 DEF AddProto
    <3>2. g = b
      BY <1>3, <2>1
    <3> HIDE DEF g, n, b
    <3>3. QED
      BY <2>1, <3>1, <3>2
  <2>3. Sound(a) /\ Extends(h, a) /\ Len(a) = 5
    BY <2>1, CreateObjectSound
  <2> HIDE DEF a
  <2>4. 5 \in 1..5 \ {Lobby} /\ 5 # NULL
    BY NullIsNothing DEF Lobby
  <2>5. /\ "Object" \in SlotNames /\ "proto" \in SlotNames
        /\ "Object" \notin WithData /\ "proto" \notin WithData
    BY Names DEF Prototypes, WithData
  <2>6. Sound(b) /\ Keeps(a, b) /\ Len(b) = 5 /\ Proto(b, "Object") = 5
    BY <2>3, <2>4, <2>5, LobbyPut
  <2> HIDE DEF b
  <2>7. Sound(k) /\ Keeps(b, k) /\ Len(k) = 5
    BY <2>4, <2>5, <2>6, LobbyPut
  <2>8. Proto(k, "Object") # NULL
    BY <2>4, <2>5, <2>6, <2>7 DEF Keeps
  <2> HIDE DEF k
  <2>9. Keeps(h, a)
    BY <1>1, <2>3, KeepsFacts
  <2>10. Keeps(h, k)
    BY <1>1, <2>3, <2>6, <2>7, <2>9, KeepsTransitive
  <2>11. Leaves(h, k)
    BY <2>7, <2>10 DEF Leaves
  <2>12. QED
    BY <1>3, <2>2, <2>8, <2>11, Zenon
<1>4. QED
  BY <1>2, <1>3

LEMMA AddErrorSound ==
  ASSUME NEW h, HasObject(h), NEW name \in Errors, Proto(h, "Exception") # NULL,
         Proto(h, "String") # NULL, Proto(h, "List") # NULL
  PROVE  Leaves(h, AddError(h, name)) /\ Proto(AddError(h, name), name) # NULL
<1> DEFINE n == Len(h) + 1
           o == Proto(h, "Exception")
           new == Clone(h, o)
<1>1. Sound(h) /\ Len(h) \in Nat /\ Len(h) >= 5 /\ n \in Nat /\ n # Lobby
  BY HasObjectFacts DEF HasObject, Lobby
<1>2. o \in 1..Len(h)
  <2>1. "Exception" \in SlotNames
    BY Names DEF Prototypes
  <2>2. QED
    BY <1>1, <2>1, ProtoFacts DEF Sound
<1>3. Sound(new) /\ Extends(h, new) /\ Len(new) > Len(h)
  BY <1>1, <1>2, CloneSound
<1>4. AddError(h, name) = Put(new, Lobby, name, n)
  BY DEF AddError
<1> HIDE DEF new
<1>5. Len(new) >= 5 /\ n \in 1..Len(new) \ {Lobby}
  <2>1. Len(new) \in Nat
    BY <1>3 DEF Extends
  <2>2. QED
    BY <1>1, <1>3, <2>1
<1>6. name \in AllNames \ {"Object"} /\ name \notin WithData
  BY DEF AllNames, Errors, WithData
<1> HIDE DEF n
<1>7. QED
  BY <1>1, <1>3, <1>4, <1>5, <1>6, NewInLobby

(* A slot of an object other than the lobby.                               *)
LEMMA PutKeeps ==
  ASSUME NEW h, Sound(h), Len(h) >= 5, NEW o \in 1..Len(h), o # Lobby,
         NEW name \in SlotNames \ {"proto"}, NEW v \in Nat
  PROVE  LET g == Put(h, o, name, v) IN
         /\ Leaves(h, g)
         /\ o = 5 /\ name = "tag" => Slot(g, 5, "tag") # NULL
<1> DEFINE g == Put(h, o, name, v)
<1>1. h \in Seq(Obj) /\ Len(h) \in Nat /\ Lobby \in 1..Len(h) /\ 5 \in 1..Len(h)
  BY DEF Sound, SoundBut, Lobby
<1>2. Sound(g)
  BY PutSound DEF Sound
<1>3. /\ Len(g) = Len(h) /\ g[o] = With(h[o], name, v)
      /\ \A p \in 1..Len(h) : p # o => g[p] = h[p]
  BY <1>1, PutFacts
<1>4. \/ g[o].slots["tag"] # NULL
      \/ g[o].slots["tag"] = h[o].slots["tag"] /\ name # "tag"
  <2>1. "tag" \in SlotNames /\ v # NULL /\ h[o] \in Obj
    BY <1>1, Names, NullIsNothing, Elements
  <2> DEFINE x == With(h[o], name, v)
  <2>2. /\ "tag" = name => x.slots["tag"] = v
        /\ "tag" # name => x.slots["tag"] = h[o].slots["tag"]
    BY <2>1, WithFacts
  <2> HIDE DEF x
  <2>3. g[o] = x
    BY <1>3 DEF x
  <2>4. QED
    BY <2>1, <2>2, <2>3
<1> HIDE DEF g
<1>5. Keeps(h, g)
  <2>1. \A other : Proto(g, other) = Proto(h, other)
    BY <1>1, <1>3 DEF Proto, Slot
  <2>2. Slot(h, 5, "tag") # NULL => Slot(g, 5, "tag") # NULL
    <3>1. CASE o = 5
      BY <1>4, <3>1 DEF Slot
    <3>2. CASE o # 5
      BY <1>1, <1>3, <3>2 DEF Slot
    <3>3. QED
      BY <3>1, <3>2
  <2>3. QED
    BY <1>1, <1>3, <2>1, <2>2 DEF Keeps
<1>6. o = 5 /\ name = "tag" => Slot(g, 5, "tag") # NULL
  BY <1>4 DEF Slot
<1>7. QED
  BY <1>2, <1>3, <1>5, <1>6 DEF Leaves, g

LEMMA SetTagSound ==
  ASSUME NEW h, HasObject(h), NEW name \in AllNames,
         Proto(h, name) # NULL, Proto(h, "String") # NULL
  PROVE  /\ Leaves(h, SetTag(h, name))
         /\ name = "Object" => Slot(SetTag(h, name), 5, "tag") # NULL
<1> DEFINE s == StringFrom(h, "String")
           o == Proto(h, name)
           g == Put(s, o, "tag", Len(h) + 1)
<1>1. h \in Seq(Obj) /\ Sound(h) /\ Len(h) \in Nat /\ Len(h) >= 5 /\ Len(h) + 1 \in Nat
  BY HasObjectFacts DEF HasObject
<1>2. o \in 1..Len(h) /\ o # Lobby
  BY <1>1, NamesMade, ProtoFacts DEF Sound
<1>3. Proto(h, "String") # 0
  <2>1. "String" \in SlotNames
    BY Names DEF Prototypes
  <2>2. QED
    BY <1>1, <2>1, ProtoFacts DEF Sound
<1>4. Sound(s) /\ Extends(h, s) /\ Len(s) = Len(h) + 1
  BY <1>1, <1>3, StringFromSound DEF Sound
<1>5. name = "Object" => o = 5
  BY HasObjectFacts
<1>6. SetTag(h, name) = g
  BY DEF SetTag
<1> HIDE DEF s, o
<1>7. "tag" \in SlotNames \ {"proto"}
  BY Names
<1>8. Leaves(s, g) /\ (o = 5 => Slot(g, 5, "tag") # NULL)
  <2>1. o \in 1..Len(s) /\ Len(s) >= 5
    BY <1>1, <1>2, <1>4
  <2>2. QED
    BY <1>1, <1>2, <1>4, <1>7, <2>1, PutKeeps
<1> HIDE DEF g
<1>9. Keeps(h, s)
  BY <1>1, <1>4, KeepsFacts
<1>10. Keeps(h, g)
  BY <1>1, <1>4, <1>8, <1>9, KeepsTransitive DEF Leaves
<1>11. QED
  BY <1>5, <1>6, <1>8, <1>10 DEF Leaves

LEMMA SetUpSound ==
  ASSUME NEW h, HasObject(h), NEW name \in ConstantNames, NEW o \in {Nil, True, False}
  PROVE  Leaves(h, SetUp(h, name, o)) /\ Proto(SetUp(h, name, o), name) # NULL
<1> DEFINE y == With(h[o], "activatable", False)
           x == With(y, "proto", 5)
           methods == IF name = "true" THEN {} ELSE {"to_bool"}
           z == [x EXCEPT !.methods = methods]
           g == [h EXCEPT ![o] = z]
           k == Put(g, Lobby, name, o)
<1>1. /\ h \in Seq(Obj) /\ Sound(h) /\ Len(h) \in Nat /\ Len(h) >= 5
      /\ 5 \in 1..Len(h) /\ h[5].init = NULL /\ Proto(h, "Object") = 5
  BY HasObjectFacts DEF HasObject
<1>2. /\ o \in 1..Len(h) /\ o # Lobby /\ o < 5 /\ o # 5 /\ o \in Nat /\ o # NULL
      /\ Lobby \in 1..Len(h) /\ h[o] \in Obj /\ False \in Nat /\ 5 \in Nat
  BY <1>1, NullIsNothing, Elements DEF Nil, True, False, Lobby
<1>3. {"activatable", "proto"} \subseteq SlotNames
  BY Names
<1>4. SetUp(h, name, o) = k
  BY <1>1 DEF SetUp
<1>5. /\ y \in Obj /\ y.data = h[o].data /\ y.init = h[o].init /\ y.clone = h[o].clone
  <2>1. h[o] \in Obj /\ "activatable" \in SlotNames /\ False \in Nat
    BY <1>2, <1>3
  <2>2. QED
    BY <2>1, WithFacts
<1> HIDE DEF y
<1>6. /\ x \in Obj /\ x.data = h[o].data /\ x.init = h[o].init /\ x.clone = h[o].clone
      /\ x.slots["proto"] = 5
  <2>1. "proto" \in SlotNames /\ 5 \in Nat
    BY <1>3
  <2>2. x \in Obj /\ x.data = y.data /\ x.init = y.init /\ x.clone = y.clone
    BY <1>5, <2>1, WithFacts
  <2>3. x.slots["proto"] = 5
    BY <1>5, <2>1, WithFacts
  <2>4. QED
    BY <1>5, <2>2, <2>3
<1> HIDE DEF x
<1>7. methods \subseteq {"to_bool"}
  OBVIOUS
<1> HIDE DEF methods
<1>8. /\ z \in Obj /\ z.data = h[o].data /\ z.init = h[o].init /\ z.clone = h[o].clone
      /\ z.slots["proto"] = 5 /\ z.methods = methods
  <2>1. methods \subseteq MethodNames
    BY <1>7 DEF MethodNames, ObjectMethods
  <2>2. QED
    BY <1>6, <2>1 DEF Obj
<1> HIDE DEF z
<1>9. Fits(h, o, z)
  <2>1. Alone(o, h[o])
    BY <1>1, <1>2, SoundFits DEF Fits
  <2>2. \A kind \in WithData : z.methods \cap Readers(kind) = {}
    <3>1. ASSUME NEW kind \in WithData PROVE "to_bool" \notin Readers(kind)
      <4>1. CASE kind = "String"
        BY <4>1 DEF Readers
      <4>2. CASE kind = "Number"
        BY <4>2 DEF Readers, Bound, NumberMethods
      <4>3. CASE kind = "List"
        BY <4>3 DEF Readers, Bound, ListMethods
      <4>4. CASE kind = "Thread"
        BY <4>4 DEF Readers, Bound, ThreadMethods
      <4>5. CASE kind = "Mutex"
        BY <4>5 DEF Readers, Bound, MutexMethods
      <4>6. QED
        BY <4>1, <4>2, <4>3, <4>4, <4>5 DEF WithData
    <3>2. QED
      BY <1>7, <1>8, <3>1
  <2>3. "to_repr" \notin z.methods /\ "dispatch" \notin z.methods
    BY <1>7, <1>8
  <2>4. Alone(o, z)
    BY <1>2, <1>8, <2>1, <2>2, <2>3 DEF Alone
  <2>5. NULL \notin WithData /\ NULL # "Message"
    BY NullIsNothing, Names DEF Inits, Prototypes, WithData
  <2>6. QED
    BY <1>1, <1>2, <1>8, <2>4, <2>5 DEF Fits
<1>10. Sound(g)
  BY <1>1, <1>2, <1>8, <1>9, ReplaceSound DEF Sound
<1>11. Len(g) = Len(h) /\ \A p \in 1..Len(h) : p # o => g[p] = h[p]
  BY <1>1, <1>2, <1>8, ReplaceFacts
<1> HIDE DEF g
<1>12. Keeps(h, g)
  <2>1. \A other : Proto(g, other) = Proto(h, other)
    BY <1>2, <1>11 DEF Proto, Slot
  <2>2. Slot(g, 5, "tag") = Slot(h, 5, "tag")
    BY <1>1, <1>2, <1>11 DEF Slot
  <2>3. QED
    BY <1>1, <1>11, <2>1, <2>2 DEF Keeps
<1>13. name \in SlotNames /\ name \notin {"Object", "proto"} /\ name \notin WithData
  BY Names DEF ConstantNames, WithData
<1>14. Sound(k) /\ Keeps(g, k) /\ Len(k) = Len(g) /\ Proto(k, name) = o
  BY <1>2, <1>10, <1>11, <1>13, LobbyPut
<1> HIDE DEF k
<1>15. Keeps(h, k)
  BY <1>1, <1>12, <1>14, KeepsTransitive
<1>16. QED
  BY <1>1, <1>2, <1>4, <1>11, <1>14, <1>15 DEF Leaves

LEMMA EffectSound ==
  ASSUME NEW h, NEW k \in 1..32, Sound(h), Progress(h, k),
         \A name \in Needs(Statements[k]) : Proto(h, name) # NULL
  PROVE  LET g == Effect(h, Statements[k]) IN
         /\ Leaves(h, g)
         /\ Kind(Statements[k]) \in {"proto", "error", "constant"}
              => Proto(g, Name(Statements[k])) # NULL
         /\ k = 20 => Slot(g, 5, "tag") # NULL
<1> DEFINE s == Statements[k]
           name == Name(s)
<1>1. /\ h \in Seq(Obj) /\ Len(h) \in Nat /\ Len(h) >= 4 /\ Len(Statements) = 32
      /\ k = 1 => Len(h) = 4
      /\ k > 1 => Len(h) >= 5
  BY StatementFacts DEF Sound, SoundBut, Progress
<1>2. ASSUME NEW j \in 1..32, j < k, Kind(Statements[j]) \in {"proto", "error", "constant"}
      PROVE  Proto(h, Name(Statements[j])) # NULL
  BY <1>1, <1>2 DEF Progress
<1>3. k > 1 => HasObject(h)
  <2>1. Name(Statements[1]) = "Object" /\ Kind(Statements[1]) = "proto"
    BY StatementFacts
  <2>2. k > 1 => Proto(h, "Object") # NULL
    BY <1>2, <2>1
  <2>3. QED
    BY <1>1, <2>2 DEF HasObject
<1>4. k > 5 => Proto(h, "String") # NULL /\ Proto(h, "List") # NULL
  <2>1. /\ Name(Statements[5]) = "String" /\ Kind(Statements[5]) = "proto"
        /\ Name(Statements[3]) = "List" /\ Kind(Statements[3]) = "proto"
    BY DEF Statements, Name, Kind
  <2>2. QED
    BY <1>2, <2>1
<1>5. k > 6 => Proto(h, "Exception") # NULL
  <2>1. Name(Statements[6]) = "Exception" /\ Kind(Statements[6]) = "proto"
    BY StatementFacts
  <2>2. QED
    BY <1>2, <2>1
<1>6. CASE k \in 1..10
  <2>1. Kind(s) = "proto" /\ name \in Prototypes /\ k # 20
    BY <1>6, StatementFacts
  <2>2. (name = "Object") <=> (k = 1)
    BY <1>6, StatementFacts
  <2>3. (name = "Exception") <=> (k = 6)
    BY <1>6, StatementFacts
  <2> HIDE DEF s
  <2>4. Effect(h, s) = AddProto(h, name)
    BY <2>1 DEF Effect
  <2> HIDE DEF name
  <2>5. /\ name = "Object" => Len(h) = 4
        /\ name # "Object" => HasObject(h)
        /\ name = "Exception" => Proto(h, "String") # NULL
    BY <1>1, <1>3, <1>4, <2>2, <2>3
  <2>6. Leaves(h, AddProto(h, name)) /\ Proto(AddProto(h, name), name) # NULL
    BY <2>1, <2>5, AddProtoSound
  <2>7. QED
    BY <2>1, <2>4, <2>6 DEF s, name
<1>7. CASE k \in 11..15
  <2>1. Kind(s) = "error" /\ name \in Errors /\ k # 20
    BY <1>7, StatementFacts
  <2> HIDE DEF s
  <2>2. Effect(h, s) = AddError(h, name)
    BY <2>1 DEF Effect
  <2> HIDE DEF name
  <2>3. Leaves(h, AddError(h, name)) /\ Proto(AddError(h, name), name) # NULL
    BY <1>3, <1>4, <1>5, <1>7, <2>1, AddErrorSound
  <2>4. QED
    BY <2>1, <2>2, <2>3 DEF s, name
<1>8. CASE k = 16
  <2>1. Kind(s) = "flag" /\ k # 20
    BY <1>8, StatementFacts
  <2> HIDE DEF s
  <2>2. Effect(h, s) = Put(h, Proto(h, "Object"), "activatable", False)
    BY <2>1 DEF Effect
  <2>3. Proto(h, "Object") = 5 /\ 5 \in 1..Len(h) /\ Len(h) >= 5
    BY <1>3, <1>8, HasObjectFacts
  <2>4. "activatable" \in SlotNames \ {"proto"} /\ False \in Nat /\ 5 # Lobby
    BY Names DEF False, Lobby
  <2>5. Leaves(h, Put(h, 5, "activatable", False))
    BY <2>3, <2>4, PutKeeps
  <2>6. QED
    BY <2>1, <2>2, <2>3, <2>5 DEF s
<1>9. CASE k \in 17..19
  <2>1. Kind(s) = "constant" /\ name \in ConstantNames /\ k # 20
    BY <1>9, StatementFacts
  <2> HIDE DEF s
  <2>2. Effect(h, s) = SetUp(h, name, Constants[name])
    BY <2>1 DEF Effect
  <2> HIDE DEF name
  <2>3. Constants[name] \in {Nil, True, False}
    BY <2>1 DEF Constants, ConstantNames
  <2>4. /\ Leaves(h, SetUp(h, name, Constants[name]))
        /\ Proto(SetUp(h, name, Constants[name]), name) # NULL
    BY <1>3, <1>9, <2>1, <2>3, SetUpSound
  <2>5. QED
    BY <2>1, <2>2, <2>4 DEF s, name
<1>10. CASE k \in 20..32
  <2>1. Kind(s) = "tag" /\ name \in AllNames
    BY <1>10, StatementFacts DEF AllNames
  <2>2. k = 20 => name = "Object"
    BY <1>10, StatementFacts
  <2>3. Needs(s) = {"String", name}
    <3> HIDE DEF s
    <3>1. QED
      BY <2>1 DEF Needs
  <2>4. Proto(h, name) # NULL
    BY <2>3
  <2> HIDE DEF s
  <2>5. Effect(h, s) = SetTag(h, name)
    BY <2>1 DEF Effect
  <2> HIDE DEF name
  <2>6. /\ Leaves(h, SetTag(h, name))
        /\ name = "Object" => Slot(SetTag(h, name), 5, "tag") # NULL
    BY <1>3, <1>4, <1>10, <2>1, <2>4, SetTagSound
  <2>7. QED
    BY <2>1, <2>2, <2>5, <2>6 DEF s
<1>11. QED
  BY <1>6, <1>7, <1>8, <1>9, <1>10

LEMMA BootKeeps ==
  ASSUME OInv, Boot
  PROVE  OInv'
<1> DEFINE s == Statements[step]
           g == Effect(heap, s)
<1>1. state.is = "running" /\ Booting
  BY DEF Boot
<1>2. heap' = g /\ step' = step + 1 /\ state' = state /\ held' = held
  <2>1. \A name \in Needs(s) : Proto(heap, name) # NULL
    BY <1>1, BootFinds
  <2>2. QED
    BY <2>1 DEF Boot
<1>3. step \in 1..32 /\ Sound(heap) /\ Progress(heap, step)
  BY <1>1, StatementFacts DEF OInv, TypeOK, Booting
<1>4. /\ Leaves(heap, g)
      /\ Kind(s) \in {"proto", "error", "constant"} => Proto(g, Name(s)) # NULL
      /\ step = 20 => Slot(g, 5, "tag") # NULL
  BY <1>1, <1>3, BootFinds, EffectSound
<1> HIDE DEF g
<1>5. Progress(g, step + 1)
  BY <1>3, <1>4, ProgressOn DEF Leaves
<1>6. TypeOK'
  <2>1. g \in Seq(Obj) /\ Len(g) \in Nat /\ Len(g) >= Len(heap)
    BY <1>4 DEF Leaves, Keeps, Sound, SoundBut
  <2>2. Len(heap) \in Nat
    BY <1>3 DEF Sound, SoundBut
  <2>3. held' \subseteq 1..Len(g) \ {Lobby}
    BY <1>2, <2>1, <2>2 DEF OInv, TypeOK
  <2>4. step' \in 1..Len(Statements) + 1
    BY <1>2, <1>3, StatementFacts
  <2>5. state' \in [is : {"running", "aborted", "crashed"}, at : Nat \cup {NULL}]
    BY <1>2 DEF OInv, TypeOK
  <2>6. QED
    BY <1>2, <2>1, <2>3, <2>4, <2>5 DEF TypeOK
<1>7. Outcome'
  <2>1. state'.is = "running"
    BY <1>1, <1>2
  <2>2. QED
    BY <2>1 DEF Outcome
<1>8. QED
  BY <1>2, <1>4, <1>5, <1>6, <1>7 DEF OInv, Leaves

-----------------------------------------------------------------------------
(***************************************************************************)
(* The results.                                                            *)
(***************************************************************************)
LEMMA InitOInv == Init => OInv
<1> SUFFICES ASSUME Init PROVE OInv
  OBVIOUS
<1> DEFINE h == <<NewObject, NewObject, NewObject, NewObject>>
<1>1. /\ heap = h /\ step = 1 /\ held = {} /\ state = [is |-> "running", at |-> NULL]
  BY DEF Init
<1>2. h \in Seq(Obj) /\ Len(h) = 4 /\ \A o \in 1..4 : h[o] = NewObject
  BY NewObjectFacts
<1> HIDE DEF h
<1>3. TypeOK
  BY <1>1, <1>2, StatementFacts DEF TypeOK
<1>4. Fits(h, 1, NewObject) /\ Fits(h, 2, NewObject) /\ Fits(h, 3, NewObject)
      /\ Fits(h, 4, NewObject)
  <2>1. NewObject.slots["proto"] = NULL
    BY NewObjectFacts, Names
  <2>2. QED
    BY <2>1, NewObjectFacts DEF Fits, Alone
<1>5. LobbyFits(h)
  <2>1. \A name \in SlotNames : Proto(h, name) = NULL
    BY <1>2, NewObjectFacts DEF Proto, Slot, Lobby
  <2>2. "Object" \in SlotNames /\ WithData \subseteq SlotNames
    BY Names DEF Prototypes
  <2>3. QED
    BY <2>1, <2>2 DEF LobbyFits
<1>6. Sound(h)
  <2>1. \A o \in 1..Len(h) : Fits(h, o, h[o])
    <3>1. \A o \in 1..4 : o = 1 \/ o = 2 \/ o = 3 \/ o = 4
      OBVIOUS
    <3>2. QED
      BY <1>2, <1>4, <3>1
  <2>2. QED
    BY <1>2, <1>5, <2>1 DEF Sound, SoundBut
<1>7. Progress(h, 1)
  BY <1>2, StatementFacts DEF Progress
<1>8. Outcome
  BY <1>1 DEF Outcome
<1>9. QED
  BY <1>1, <1>3, <1>6, <1>7, <1>8 DEF OInv

LEMMA StutterKeeps ==
  ASSUME OInv, UNCHANGED vars
  PROVE  OInv'
<1>1. heap' = heap /\ step' = step /\ held' = held /\ state' = state
  BY DEF vars
<1>2. TypeOK'
  BY <1>1 DEF OInv, TypeOK
<1>3. Outcome'
  <2>1. LacksTag(state.at)' <=> LacksTag(state.at)
    BY <1>1 DEF LacksTag
  <2>2. QED
    BY <1>1, <2>1 DEF OInv, Outcome
<1>4. QED
  BY <1>1, <1>2, <1>3 DEF OInv

LEMMA NextKeeps == OInv /\ [Next]_vars => OInv'
<1> SUFFICES ASSUME OInv, [Next]_vars PROVE OInv'
  OBVIOUS
<1>1. CASE Boot
  BY <1>1, BootKeeps
<1>2. CASE StringLiteral
  BY <1>2, StringLiteralKeeps
<1>3. CASE NumberLiteral
  BY <1>3, NumberLiteralKeeps
<1>4. CASE MessageLiteral
  BY <1>4, MessageLiteralKeeps
<1>5. ASSUME NEW error \in Errors, Raise(error) PROVE OInv'
  BY <1>5, RaiseKeeps
<1>6. ASSUME NEW o \in Named, CloneMessage(o) PROVE OInv'
  BY <1>6, CloneMessageKeeps
<1>7. ASSUME NEW o \in Named, LookUp(o) PROVE OInv'
  BY <1>7, LookUpKeeps
<1>8. ASSUME NEW o \in Named, UseData(o) PROVE OInv'
  BY <1>8, UseDataKeeps
<1>9. ASSUME NEW o \in held, NEW call \in held, CallMethod(o, call) PROVE OInv'
  BY <1>9, CallMethodKeeps
<1>10. ASSUME NEW name \in Prototypes \ {"Object"}, NEW o \in held, Specialise(name, o)
       PROVE  OInv'
  BY <1>10, SpecialiseKeeps
<1>11. ASSUME NEW o \in Named, NEW other \in Named, Concat(o, other) PROVE OInv'
  BY <1>11, ConcatKeeps
<1>12. CASE UNCHANGED vars
  BY <1>12, StutterKeeps
<1>13. QED
  BY <1>1, <1>2, <1>3, <1>4, <1>5, <1>6, <1>7, <1>8, <1>9, <1>10, <1>11, <1>12 DEF Next

(* The invariant that the results rest on holds for any number of objects: *)
(* every object fits its prototype, the lobby names prototypes by their    *)
(* kind, and sk_vm_new has made what its earlier statements make           *)
(* (vm.c:38-101, object.c:28-37).                                          *)
THEOREM AlwaysOInv == Spec => []OInv
<1>1. Init => OInv
  BY InitOInv
<1>2. OInv /\ [Next]_vars => OInv'
  BY NextKeeps
<1>3. QED
  BY <1>1, <1>2, PTL DEF Spec

(* sk_vm_new finds every prototype that it, or a function it calls, looks  *)
(* up in the lobby (vm.c:38-101).                                          *)
THEOREM Bootstrap == Spec => []BootstrapCompletes
<1>1. OInv => BootstrapCompletes
  BY DEF OInv, Outcome, BootstrapCompletes
<1>2. QED
  BY <1>1, AlwaysOInv, PTL

(* A clone of a prototype with data, however many clones ago, has data of  *)
(* its kind (object.h:120-136, and the functions `init'); the one          *)
(* exception is what + makes of String itself, or of what + made of it,    *)
(* which has no data at all (skstring.c:42-51).                            *)
THEOREM Clones == Spec => []ClonesHaveTheirData
<1>1. OInv => ClonesHaveTheirData
  <2> SUFFICES ASSUME OInv, NEW o \in DOMAIN heap, NEW kind \in WithData,
                      Proto(heap, kind) \in Above(heap, o)
               PROVE  \/ heap[o].data = kind
                      \/ kind = "String" /\ heap[o].hollow /\ heap[o].data = NULL
    BY DEF ClonesHaveTheirData
  <2>1. Sound(heap) /\ o \in 1..Len(heap)
    BY DEF OInv, TypeOK
  <2>2. heap[Proto(heap, kind)].init = kind
    <3>1. kind \in SlotNames /\ Proto(heap, kind) # NULL
      <4>1. Proto(heap, kind) \in 1..Len(heap) /\ Len(heap) \in Nat
        <5> DEFINE a == Ancestry(heap, o)
        <5>1. PICK n \in Nat \ {0} : DOMAIN a = 1..n /\ \A k \in 1..n : a[k] \in 1..Len(heap)
          BY <2>1, AncestryFacts
        <5>2. QED
          BY <2>1, <5>1 DEF Above, Sound, SoundBut
      <4>2. QED
        BY <4>1, Names, NullIsNothing
    <3>2. QED
      BY <2>1, <3>1, ProtoFacts DEF Sound
  <2>3. QED
    BY <2>1, <2>2, InheritsKind DEF HasData
<1>2. QED
  BY <1>1, AlwaysOInv, PTL

(* A built-in that finds no data in the object it was sent to was sent to  *)
(* a prototype, and never to a string, with a text or not; one without a   *)
(* slot, to the prototype Message or a clone of one that cannot dispatch   *)
(* (message.c:15-29, object.c:140-146).                                    *)
THEOREM Prototypical == Spec => []OnlyPrototypesFail
<1>1. OInv => OnlyPrototypesFail
  BY DEF OInv, Outcome, OnlyPrototypesFail
<1>2. QED
  BY <1>1, AlwaysOInv, PTL

\* Some step up from the object is past the last prototype.
Ends(o) == \E k \in 1..Len(heap) + 1 : Up(heap, o)[k] = NULL

(* The search of a slot along the prototypes ends at every object: the     *)
(* bootstrap and cloning make no cycle of prototypes (object.c:108-118,    *)
(* object.c:246-254).                                                      *)
THEOREM ChainsEnd == Spec => [](\A o \in DOMAIN heap : Ends(o))
<1>1. OInv => \A o \in DOMAIN heap : Ends(o)
  <2> SUFFICES ASSUME OInv, NEW o \in DOMAIN heap PROVE Ends(o)
    OBVIOUS
  <2>1. Sound(heap) /\ o \in 1..Len(heap)
    BY DEF OInv, TypeOK
  <2>2. QED
    BY <2>1, ClimbEnds DEF Ends
<1>2. QED
  BY <1>1, AlwaysOInv, PTL
=============================================================================
