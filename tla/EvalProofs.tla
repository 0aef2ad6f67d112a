----------------------------- MODULE EvalProofs -----------------------------
(***************************************************************************)
(* Proofs about Eval for all values of its constants: the inductive        *)
(* invariant IInv, and from it the chain of jump contexts, the shape of    *)
(* the callstack, and the two action properties.                           *)
(*                                                                         *)
(* A step of Eval does one of five things to the frames: the innermost     *)
(* goes on (Continue), calls (Call), returns (Return), is left by a jump   *)
(* (JumpTo) or the process dies (Die).  One lemma for each says under      *)
(* which conditions it keeps IInv; the lemmas about the actions then only  *)
(* have to check these conditions.                                         *)
(***************************************************************************)
EXTENDS Eval, SequenceTheorems, TLAPS

IInv == TypeOK /\ JumpChain /\ CallstackShape /\ StackDiscipline

-----------------------------------------------------------------------------
(* Sequences.                                                              *)

(* All but the last element of a sequence, as exc.h and kvec.h pop them.   *)
LEMMA FrontFacts ==
  ASSUME NEW S, NEW s \in Seq(S), s # <<>>
  PROVE  /\ Front(s) \in Seq(S)
         /\ Len(Front(s)) = Len(s) - 1
         /\ \A k \in 1..Len(s) - 1 : Front(s)[k] = s[k]
         /\ Len(s) \in Nat \ {0}
<1>1. Len(s) \in Nat \ {0}
  OBVIOUS
<1> DEFINE n == Len(s) - 1
           t == SubSeq(s, 1, n)
<1>2. n \in Nat /\ 1 \in Int /\ \A k \in 1..n : s[k] \in S
  BY <1>1
<1>3. t \in Seq(S) /\ \A k \in 1..n : t[k] = s[k]
  BY <1>1
<1>4. Len(t) = IF 1 <= n THEN n - 1 + 1 ELSE 0
  <2> HIDE DEF n
  <2> QED BY ONLY <1>2, SubSeqProperties
<1>5. Len(t) = n
  <2> HIDE DEF n, t
  <2> QED BY <1>2, <1>4
<1>6. QED
  BY <1>1, <1>3, <1>5 DEF Front

(* The first n elements, as longjmp leaves them of the C stack.            *)
LEMMA PrefixFacts ==
  ASSUME NEW S, NEW s \in Seq(S), NEW n \in 0..Len(s)
  PROVE  /\ SubSeq(s, 1, n) \in Seq(S)
         /\ Len(SubSeq(s, 1, n)) = n
         /\ \A k \in 1..n : SubSeq(s, 1, n)[k] = s[k]
<1> DEFINE t == SubSeq(s, 1, n)
<1>2. n \in Int /\ 1 \in Int /\ \A k \in 1..n : s[k] \in S
  OBVIOUS
<1>3. t \in Seq(S) /\ \A k \in 1..n : t[k] = s[k]
  OBVIOUS
<1>4. Len(t) = IF 1 <= n THEN n - 1 + 1 ELSE 0
  BY ONLY <1>2, SubSeqProperties
<1>5. Len(t) = n
  <2> HIDE DEF t
  <2> QED BY <1>4
<1>6. QED
  BY <1>3, <1>5

(* Replacing the last element, and adding one.                             *)
LEMMA SetLastFacts ==
  ASSUME NEW S, NEW s \in Seq(S), s # <<>>, NEW x \in S, NEW t,
         t = [s EXCEPT ![Len(s)] = x]
  PROVE  /\ t \in Seq(S)
         /\ Len(t) = Len(s)
         /\ Len(s) \in Nat \ {0}
         /\ \A k \in 1..Len(s) - 1 : t[k] = s[k]
         /\ t[Len(s)] = x
         /\ t # <<>>
OBVIOUS

LEMMA AppendFacts ==
  ASSUME NEW S, NEW s \in Seq(S), NEW x \in S, NEW t, t = Append(s, x)
  PROVE  /\ t \in Seq(S)
         /\ Len(t) = Len(s) + 1
         /\ Len(s) \in Nat
         /\ \A k \in 1..Len(s) : t[k] = s[k]
         /\ t[Len(s) + 1] = x
         /\ t # <<>>
OBVIOUS

LEMMA ActiveIsFrame ==
  ASSUME frames \in Seq(Frame), frames # <<>>
  PROVE  /\ Active \in Frame
         /\ Len(frames) \in Nat \ {0}
         /\ DOMAIN frames = 1..Len(frames)
         /\ Active = frames[Len(frames)]
BY DEF Active, Last

-----------------------------------------------------------------------------
(* The chain of jump contexts.                                             *)

(* The innermost call's jump context, if it has one, is the head.          *)
LEMMA GuardingHead ==
  ASSUME TypeOK, JumpChain, frames # <<>>, Guarding(Active)
  PROVE  /\ jmpctx # <<>>
         /\ Last(jmpctx) = Len(frames)
         /\ \A k \in 1..Len(jmpctx) - 1 : jmpctx[k] \in 1..Len(frames) - 1
<1>1. /\ frames \in Seq(Frame) /\ jmpctx \in Seq(Nat)
      /\ Len(frames) \in DOMAIN frames
      /\ DOMAIN frames = 1..Len(frames) /\ DOMAIN jmpctx = 1..Len(jmpctx)
      /\ Len(frames) \in Nat /\ Len(jmpctx) \in Nat
  BY ActiveIsFrame DEF TypeOK
<1>2. PICK k \in DOMAIN jmpctx : jmpctx[k] = Len(frames)
  BY <1>1, ActiveIsFrame DEF JumpChain
<1>3. \A m \in DOMAIN jmpctx : jmpctx[m] \in 1..Len(frames)
  BY <1>1 DEF JumpChain
<1>4. \A m \in DOMAIN jmpctx : k < m => jmpctx[k] < jmpctx[m]
  BY <1>2 DEF JumpChain
<1>5. k = Len(jmpctx)
  BY <1>1, <1>2, <1>3, <1>4
<1>6. \A m \in DOMAIN jmpctx : m < k => jmpctx[m] < Len(frames)
  BY <1>2 DEF JumpChain
<1>7. QED
  BY <1>1, <1>2, <1>3, <1>5, <1>6 DEF Last

(* Otherwise all jump contexts belong to the calls below it.               *)
LEMMA NotGuardingBelow ==
  ASSUME TypeOK, JumpChain, frames # <<>>, ~Guarding(Active)
  PROVE  \A k \in DOMAIN jmpctx : jmpctx[k] \in 1..Len(frames) - 1
<1>1. frames \in Seq(Frame)
  BY DEF TypeOK
<1>2. \A k \in DOMAIN jmpctx : jmpctx[k] \in 1..Len(frames) /\ jmpctx[k] # Len(frames)
  BY <1>1, ActiveIsFrame DEF JumpChain
<1>3. QED
  BY <1>1, <1>2, ActiveIsFrame

\* How a step of the innermost frame, from f to g, changes the chain.
Keeps(f, g) == jmpctx' = jmpctx /\ (Guarding(f) <=> Guarding(g))
Pushes(f, g) == jmpctx' = Append(jmpctx, Len(frames)) /\ ~Guarding(f) /\ Guarding(g)
Pops(f, g) == jmpctx' = Front(jmpctx) /\ Guarding(f) /\ ~Guarding(g)

(* The innermost call goes on.                                             *)
LEMMA ContinueChain ==
  ASSUME TypeOK, JumpChain, frames # <<>>, NEW f \in Frame, Continue(f),
         Keeps(Active, f) \/ Pops(Active, f)
  PROVE  JumpChain'
<1>1. /\ frames' \in Seq(Frame) /\ Len(frames') = Len(frames) /\ Len(frames) \in Nat \ {0}
      /\ \A d \in 1..Len(frames) - 1 : frames'[d] = frames[d]
      /\ frames'[Len(frames)] = f
      /\ mode' = "run"
      /\ DOMAIN frames = 1..Len(frames) /\ DOMAIN frames' = 1..Len(frames)
  BY SetLastFacts DEF TypeOK, Continue, Control
<1>2. jmpctx \in Seq(Nat)
  BY DEF TypeOK
<1>3. CASE Keeps(Active, f)
  <2>1. \A d \in DOMAIN frames : Guarding(frames[d]) <=> Guarding(frames'[d])
    BY <1>1, <1>3 DEF Keeps, Active, Last
  <2>2. QED
    BY <1>1, <1>3, <2>1 DEF Keeps, JumpChain
<1>4. CASE Pops(Active, f)
  <2>1. /\ jmpctx # <<>>
        /\ Last(jmpctx) = Len(frames)
        /\ \A k \in 1..Len(jmpctx) - 1 : jmpctx[k] \in 1..Len(frames) - 1
    BY <1>4, GuardingHead DEF Pops
  <2>2. /\ jmpctx' \in Seq(Nat) /\ Len(jmpctx') = Len(jmpctx) - 1 /\ Len(jmpctx) \in Nat \ {0}
        /\ \A k \in 1..Len(jmpctx) - 1 : jmpctx'[k] = jmpctx[k]
    BY <1>2, <1>4, <2>1, FrontFacts DEF Pops
  <2>3. /\ DOMAIN jmpctx = 1..Len(jmpctx) /\ DOMAIN jmpctx' = 1..Len(jmpctx) - 1
    BY <1>2, <2>2
  <2>4. ASSUME NEW k \in DOMAIN jmpctx'
        PROVE  jmpctx'[k] \in DOMAIN frames' /\ Guarding(frames'[jmpctx'[k]])
    <3>1. /\ k \in DOMAIN jmpctx
          /\ jmpctx'[k] = jmpctx[k]
          /\ jmpctx[k] \in 1..Len(frames) - 1
      BY <2>1, <2>2, <2>3
    <3>2. Guarding(frames[jmpctx[k]])
      BY <3>1 DEF JumpChain
    <3>3. QED
      BY <1>1, <3>1, <3>2
  <2>5. ASSUME NEW d \in DOMAIN frames', Guarding(frames'[d])
        PROVE  \E k \in DOMAIN jmpctx' : jmpctx'[k] = d
    <3>1. d \in 1..Len(frames) - 1 /\ Guarding(frames[d])
      BY <1>1, <1>4, <2>5 DEF Pops
    <3>2. PICK k \in DOMAIN jmpctx : jmpctx[k] = d
      BY <3>1, <1>1 DEF JumpChain
    <3>3. k # Len(jmpctx)
      BY <3>1, <3>2, <2>1 DEF Last
    <3>4. QED
      BY <3>2, <3>3, <2>2, <2>3
  <2>6. \A k, m \in DOMAIN jmpctx' : k < m => jmpctx'[k] < jmpctx'[m]
    BY <2>2, <2>3 DEF JumpChain
  <2>7. QED
    BY <2>4, <2>5, <2>6, <1>1 DEF JumpChain
<1>5. QED
  BY <1>3, <1>4

(* The innermost call calls: the new call has no jump context yet.         *)
LEMMA CallChain ==
  ASSUME TypeOK, JumpChain, frames # <<>>, NEW f \in Frame, NEW g \in Frame,
         Call(f, g), ~Guarding(g),
         Keeps(Active, f) \/ Pushes(Active, f)
  PROVE  JumpChain'
<1> DEFINE n == Len(frames)
<1>1. /\ n \in Nat \ {0} /\ Len(frames') = n + 1
      /\ \A d \in 1..n - 1 : frames'[d] = frames[d]
      /\ frames'[n] = f /\ frames'[n + 1] = g
      /\ DOMAIN frames = 1..n /\ DOMAIN frames' = 1..n + 1
  <2> DEFINE t == [frames EXCEPT ![n] = f]
  <2>1. /\ t \in Seq(Frame) /\ Len(t) = n /\ n \in Nat \ {0}
        /\ \A d \in 1..n - 1 : t[d] = frames[d]
        /\ t[n] = f
    BY SetLastFacts DEF TypeOK
  <2>2. frames' = Append(t, g)
    BY DEF Call
  <2> HIDE DEF t
  <2>3. /\ frames' \in Seq(Frame) /\ Len(frames') = n + 1
        /\ \A d \in 1..n : frames'[d] = t[d]
        /\ frames'[n + 1] = g
    BY <2>1, <2>2, AppendFacts
  <2>4. QED
    BY <2>1, <2>3 DEF TypeOK
<1>2. mode' = "run"
  BY DEF Call, Control
<1>3. Active = frames[n]
  BY DEF Active, Last
<1> HIDE DEF n
<1>4. jmpctx \in Seq(Nat)
  BY DEF TypeOK
<1>5. CASE Keeps(Active, f)
  <2>1. \A d \in DOMAIN frames : Guarding(frames[d]) <=> Guarding(frames'[d])
    BY <1>1, <1>3, <1>5 DEF Keeps
  <2>2. QED
    BY <1>1, <1>2, <1>5, <2>1 DEF Keeps, JumpChain
<1>6. CASE Pushes(Active, f)
  <2>1. \A k \in DOMAIN jmpctx : jmpctx[k] \in 1..n - 1
    BY <1>6, NotGuardingBelow DEF Pushes, n
  <2>2. /\ jmpctx' \in Seq(Nat) /\ Len(jmpctx') = Len(jmpctx) + 1 /\ Len(jmpctx) \in Nat
        /\ \A k \in 1..Len(jmpctx) : jmpctx'[k] = jmpctx[k]
        /\ jmpctx'[Len(jmpctx) + 1] = n
    BY <1>1, <1>4, <1>6, AppendFacts DEF Pushes, n
  <2>3. DOMAIN jmpctx = 1..Len(jmpctx) /\ DOMAIN jmpctx' = 1..Len(jmpctx) + 1
    BY <1>4, <2>2
  <2>4. ASSUME NEW k \in DOMAIN jmpctx'
        PROVE  jmpctx'[k] \in DOMAIN frames' /\ Guarding(frames'[jmpctx'[k]])
    <3>1. CASE k = Len(jmpctx) + 1
      BY <1>1, <1>6, <2>2, <3>1 DEF Pushes
    <3>2. CASE k \in DOMAIN jmpctx
      <4>1. jmpctx[k] \in 1..n - 1 /\ Guarding(frames[jmpctx[k]])
        BY <2>1, <3>2 DEF JumpChain
      <4>2. QED
        BY <1>1, <2>2, <2>3, <3>2, <4>1
    <3>3. QED
      BY <2>2, <2>3, <3>1, <3>2
  <2>5. ASSUME NEW d \in DOMAIN frames', Guarding(frames'[d])
        PROVE  \E k \in DOMAIN jmpctx' : jmpctx'[k] = d
    <3>1. d # n + 1
      BY <1>1, <2>5
    <3>2. CASE d = n
      BY <2>2, <2>3, <3>2
    <3>3. CASE d \in 1..n - 1
      <4>1. PICK k \in DOMAIN jmpctx : jmpctx[k] = d
        BY <1>1, <2>5, <3>3 DEF JumpChain
      <4>2. QED
        BY <2>2, <2>3, <4>1
    <3>4. QED
      BY <1>1, <3>1, <3>2, <3>3
  <2>6. ASSUME NEW k \in DOMAIN jmpctx', NEW m \in DOMAIN jmpctx', k < m
        PROVE  jmpctx'[k] < jmpctx'[m]
    <3>1. k \in DOMAIN jmpctx
      BY <2>2, <2>3, <2>6
    <3>2. CASE m \in DOMAIN jmpctx
      BY <2>2, <2>3, <2>6, <3>1, <3>2 DEF JumpChain
    <3>3. CASE m = Len(jmpctx) + 1
      BY <1>1, <2>1, <2>2, <2>3, <3>1, <3>3
    <3>4. QED
      BY <2>2, <2>3, <3>2, <3>3
  <2>7. QED
    BY <1>2, <2>4, <2>5, <2>6 DEF JumpChain
<1>7. QED
  BY <1>5, <1>6

(* The innermost call returns, its jump context popped if it had one.      *)
LEMMA ReturnChain ==
  ASSUME TypeOK, JumpChain, frames # <<>>, NEW v, Return(v),
         \/ jmpctx' = jmpctx /\ ~Guarding(Active)
         \/ jmpctx' = Front(jmpctx) /\ Guarding(Active)
  PROVE  JumpChain'
<1> DEFINE n == Len(frames)
<1>1. /\ n \in Nat \ {0} /\ Len(frames') = n - 1
      /\ \A d \in 1..n - 1 : frames'[d] = frames[d]
      /\ DOMAIN frames = 1..n /\ DOMAIN frames' = 1..n - 1
      /\ mode' = "return"
  BY FrontFacts DEF TypeOK, Return, Control
<1>2. Active = frames[n]
  BY DEF Active, Last
<1>3. jmpctx \in Seq(Nat) /\ DOMAIN jmpctx = 1..Len(jmpctx) /\ Len(jmpctx) \in Nat
  BY DEF TypeOK
<1>4. /\ DOMAIN jmpctx' \subseteq DOMAIN jmpctx
      /\ \A k \in DOMAIN jmpctx' : jmpctx'[k] = jmpctx[k] /\ jmpctx[k] \in 1..n - 1
      /\ \A k \in DOMAIN jmpctx : jmpctx[k] \in 1..n - 1 => k \in DOMAIN jmpctx'
  <2>1. CASE jmpctx' = jmpctx /\ ~Guarding(Active)
    BY <2>1, NotGuardingBelow
  <2>2. CASE jmpctx' = Front(jmpctx) /\ Guarding(Active)
    <3>1. /\ jmpctx # <<>> /\ jmpctx[Len(jmpctx)] = n
          /\ \A k \in 1..Len(jmpctx) - 1 : jmpctx[k] \in 1..n - 1
      BY <2>2, GuardingHead DEF Last
    <3>2. /\ DOMAIN jmpctx' = 1..Len(jmpctx) - 1
          /\ \A k \in 1..Len(jmpctx) - 1 : jmpctx'[k] = jmpctx[k]
      BY <1>3, <2>2, <3>1, FrontFacts
    <3>3. QED
      BY <1>1, <1>3, <3>1, <3>2
  <2>3. QED
    BY <2>1, <2>2
<1> HIDE DEF n
<1>5. ASSUME NEW k \in DOMAIN jmpctx'
      PROVE  jmpctx'[k] \in DOMAIN frames' /\ Guarding(frames'[jmpctx'[k]])
  <2>1. k \in DOMAIN jmpctx /\ jmpctx'[k] = jmpctx[k] /\ jmpctx[k] \in 1..n - 1
    BY <1>4
  <2>2. Guarding(frames[jmpctx[k]])
    BY <2>1 DEF JumpChain
  <2>3. QED
    BY <1>1, <2>1, <2>2
<1>6. ASSUME NEW d \in DOMAIN frames', Guarding(frames'[d])
      PROVE  \E k \in DOMAIN jmpctx' : jmpctx'[k] = d
  <2>1. d \in 1..n - 1 /\ d \in DOMAIN frames /\ Guarding(frames[d])
    BY <1>1, <1>6
  <2>2. PICK k \in DOMAIN jmpctx : jmpctx[k] = d
    BY <2>1 DEF JumpChain
  <2>3. QED
    BY <1>4, <2>1, <2>2
<1>7. \A k, m \in DOMAIN jmpctx' : k < m => jmpctx'[k] < jmpctx'[m]
  BY <1>4 DEF JumpChain
<1>8. QED
  BY <1>1, <1>5, <1>6, <1>7 DEF JumpChain

(* A jump: to the head of the chain, or of what is left below it.          *)
LEMMA JumpChainKept ==
  ASSUME TypeOK, JumpChain, frames # <<>>, NEW c, NEW chain, JumpTo(chain, c),
         chain = jmpctx \/ (chain = Front(jmpctx) /\ Guarding(Active))
  PROVE  JumpChain' /\ frames' \in Seq(Frame)
<1>1. CASE chain = <<>>
  BY <1>1, EmptySeq DEF JumpTo, Die, Control, JumpChain
<1>2. CASE chain # <<>>
  <2> DEFINE h == Last(chain)
  <2>1. /\ jmpctx' = chain
        /\ frames' = SubSeq(frames, 1, h)
        /\ mode' = "jump"
    BY <1>2 DEF JumpTo, Control
  <2>2. /\ jmpctx \in Seq(Nat) /\ DOMAIN jmpctx = 1..Len(jmpctx) /\ Len(jmpctx) \in Nat
        /\ frames \in Seq(Frame) /\ DOMAIN frames = 1..Len(frames) /\ Len(frames) \in Nat
    BY DEF TypeOK
  <2>3. /\ Len(chain) \in 1..Len(jmpctx) /\ DOMAIN chain = 1..Len(chain)
        /\ \A k \in DOMAIN chain : chain[k] = jmpctx[k]
    <3>1. CASE chain = jmpctx
      BY <1>2, <2>2, <3>1
    <3>2. CASE chain = Front(jmpctx) /\ Guarding(Active)
      <4>1. /\ chain \in Seq(Nat) /\ Len(chain) = Len(jmpctx) - 1
            /\ \A k \in 1..Len(jmpctx) - 1 : chain[k] = jmpctx[k]
        BY <2>2, <3>2, GuardingHead, FrontFacts
      <4>2. Len(chain) \in Nat \ {0} /\ DOMAIN chain = 1..Len(chain)
        BY <1>2, <4>1
      <4>3. QED
        BY <2>2, <4>1, <4>2
    <3>3. QED
      BY <3>1, <3>2
  <2>4. h = chain[Len(chain)] /\ h = jmpctx[Len(chain)]
    BY <2>3 DEF Last
  <2> HIDE DEF h
  <2>5. h \in 1..Len(frames) /\ Guarding(frames[h])
    BY <2>2, <2>3, <2>4 DEF JumpChain
  <2>6. /\ frames' \in Seq(Frame) /\ DOMAIN frames' = 1..h /\ Len(frames') = h
        /\ \A d \in 1..h : frames'[d] = frames[d]
    BY <2>1, <2>2, <2>5, PrefixFacts
  <2>7. ASSUME NEW k \in DOMAIN chain
        PROVE  chain[k] \in 1..h /\ Guarding(frames'[chain[k]])
    <3>1. jmpctx[k] \in 1..Len(frames) /\ Guarding(frames[jmpctx[k]])
      BY <2>2, <2>3 DEF JumpChain
    <3>2. CASE k = Len(chain)
      <4>1. chain[k] = h /\ h \in 1..h
        BY <2>2, <2>3, <2>4, <2>5, <3>2
      <4>2. QED
        BY <2>5, <2>6, <4>1
    <3>3. CASE k < Len(chain)
      <4>1. jmpctx[k] < jmpctx[Len(chain)]
        BY <2>2, <2>3, <3>3 DEF JumpChain
      <4>2. jmpctx[k] \in 1..h
        BY <2>4, <2>5, <3>1, <4>1
      <4>3. QED
        BY <2>3, <2>6, <3>1, <4>2
    <3>4. QED
      BY <2>3, <3>2, <3>3
  <2>8. ASSUME NEW d \in 1..h, Guarding(frames'[d])
        PROVE  \E k \in DOMAIN chain : chain[k] = d
    <3>1. PICK m \in DOMAIN jmpctx : jmpctx[m] = d
      BY <2>2, <2>5, <2>6, <2>8 DEF JumpChain
    <3>2. ~(Len(chain) < m)
      <4>1. SUFFICES ASSUME Len(chain) < m PROVE FALSE
        OBVIOUS
      <4>2. jmpctx[Len(chain)] < jmpctx[m]
        BY <2>2, <2>3, <4>1 DEF JumpChain
      <4>3. QED
        BY <2>4, <2>5, <3>1, <4>2
    <3>3. m \in DOMAIN chain
      BY <2>2, <2>3, <3>2
    <3>4. QED
      BY <2>3, <3>1, <3>3
  <2>9. \A k, m \in DOMAIN chain : k < m => chain[k] < chain[m]
    BY <2>2, <2>3 DEF JumpChain
  <2>10. chain # <<>> /\ Last(chain) = Len(frames')
    BY <1>2, <2>6 DEF h
  <2>11. QED
    BY <2>1, <2>6, <2>7, <2>8, <2>9, <2>10 DEF JumpChain
<1>3. QED
  BY <1>1, <1>2

-----------------------------------------------------------------------------
(* The callstack and the nesting of the calls.                             *)

LEMMA ExtendsTransitive ==
  ASSUME NEW s \in Seq(Objects), NEW t \in Seq(Objects), NEW u \in Seq(Objects),
         Extends(s, t), Extends(t, u)
  PROVE  Extends(s, u)
<1>1. Len(s) \in Nat /\ Len(t) \in Nat /\ Len(u) \in Nat
  OBVIOUS
<1>2. QED
  BY <1>1 DEF Extends

LEMMA AppendExtends ==
  ASSUME NEW s \in Seq(Objects), NEW x \in Objects
  PROVE  Extends(Append(s, x), s) /\ Extends(s, s)
BY AppendFacts DEF Extends

(* A call leaves what it was called with on the callstack.                 *)
LEMMA GrowsExtends ==
  ASSUME NEW f \in Frame, NEW s \in Seq(Objects), Grows(f, s),
         f.fn = "main" => f.entry = <<>>
  PROVE  Extends(s, f.entry)
<1>1. f.entry \in Seq(Objects) /\ f.self \in Objects
  BY DEF Frame
<1>2. CASE f.fn = "main"
  BY <1>2, EmptySeq DEF Extends
<1>3. CASE f.fn = "send"
  BY <1>1, <1>3, AppendExtends DEF Grows
<1>4. CASE f.fn \notin {"main", "send"}
  BY <1>1, <1>4, AppendExtends DEF Grows
<1>5. QED
  BY <1>2, <1>3, <1>4

\* What the invariants say of a frame by itself.
Disciplined(f) == /\ f.fn = "main" => f.entry = <<>> /\ f.pc = "next"
                  /\ f.pc = "lookup" => f.fn \in {"avalanche", "send"}
                                        /\ f.i <= Len(f.entry) + 1
                  /\ f.fn = "native" => f.res # NULL
                  /\ Guarding(f) => f.saved = f.entry

(* The callstack extends every entry.                                      *)
LEMMA EntriesExtended ==
  ASSUME TypeOK, CallstackShape, StackDiscipline, frames # <<>>
  PROVE  \A d \in DOMAIN frames : Extends(callstack, frames[d].entry)
<1>1. /\ Active \in Frame /\ Len(frames) \in Nat \ {0}
      /\ DOMAIN frames = 1..Len(frames) /\ Active = frames[Len(frames)]
      /\ \A d \in DOMAIN frames : frames[d] \in Frame
      /\ callstack \in Seq(Objects)
  BY ActiveIsFrame DEF TypeOK
<1>2. \A d \in DOMAIN frames : frames[d].entry \in Seq(Objects)
  BY <1>1 DEF Frame
<1>3. Extends(callstack, Active.entry)
  <2>1. CASE mode = "jump"
    BY <1>1, <2>1 DEF CallstackShape
  <2>2. CASE mode # "jump"
    <3>1. Len(frames) \in DOMAIN frames /\ Above(Len(frames)) = callstack
      BY <1>1 DEF Above
    <3>2. Grows(Active, callstack)
      BY <1>1, <2>2, <3>1 DEF CallstackShape
    <3>3. QED
      BY <1>1, <3>1, <3>2, GrowsExtends DEF StackDiscipline
  <2>3. QED
    BY <2>1, <2>2
<1>4. ASSUME NEW d \in DOMAIN frames, d < Len(frames)
      PROVE  Extends(callstack, frames[d].entry)
  <2>1. Extends(Active.entry, frames[d].entry)
    BY <1>1, <1>4 DEF StackDiscipline
  <2>2. QED
    BY <1>1, <1>2, <1>3, <2>1, ExtendsTransitive
<1>5. QED
  BY <1>1, <1>3, <1>4

(* The innermost call goes on.                                             *)
LEMMA ContinueShape ==
  ASSUME TypeOK, CallstackShape, StackDiscipline, frames # <<>>,
         NEW f \in Frame, Continue(f), Disciplined(f),
         f.fn = Active.fn, f.entry = Active.entry, Grows(f, callstack')
  PROVE  CallstackShape' /\ StackDiscipline'
<1> DEFINE n == Len(frames)
<1>1. /\ frames' \in Seq(Frame) /\ Len(frames') = n /\ n \in Nat \ {0}
      /\ \A d \in 1..n - 1 : frames'[d] = frames[d]
      /\ frames'[n] = f
      /\ mode' = "run"
      /\ DOMAIN frames = 1..n /\ DOMAIN frames' = 1..n
  BY SetLastFacts DEF TypeOK, Continue, Control
<1>2. Active = frames[n]
  BY DEF Active, Last
<1> HIDE DEF n
<1>3. \A d \in 1..n : frames'[d].entry = frames[d].entry /\ frames'[d].fn = frames[d].fn
  BY <1>1, <1>2
<1>4. ASSUME NEW d \in 1..n
      PROVE  /\ Grows(frames'[d], Above(d)')
             /\ Guarding(frames'[d]) => frames'[d].saved = frames'[d].entry
             /\ d > 1 => Extends(frames'[d].entry, <<Lobby>>)
  <2>1. CASE d = n
    BY <1>1, <1>2, <2>1 DEF Above, Disciplined, CallstackShape
  <2>2. CASE d < n
    <3>1. Grows(frames[d], frames[d + 1].entry)
      BY <1>1, <2>2 DEF CallstackShape, Above, n
    <3>2. QED
      BY <1>1, <1>3, <2>2, <3>1 DEF Above, CallstackShape
  <2>3. QED
    BY <1>1, <2>1, <2>2
<1>5. CallstackShape'
  BY <1>1, <1>4 DEF CallstackShape
<1>6. ASSUME NEW d \in 1..n
      PROVE  LET g == frames'[d] IN
               /\ g.fn = "main" <=> d = 1
               /\ Disciplined(g)
               /\ g.fn \in {"native", "method", "try", "times"} =>
                    frames'[d - 1].pc = "lookup"
  <2>1. (frames[d].fn = "main" <=> d = 1)
        /\ (frames[d].fn \in {"native", "method", "try", "times"} =>
              frames[d - 1].pc = "lookup")
    BY <1>1 DEF StackDiscipline
  <2>2. frames[d].fn \in {"native", "method", "try", "times"} => d - 1 \in 1..n - 1
    BY <1>1, <2>1
  <2>3. Disciplined(frames'[d])
    <3>1. CASE d = n
      BY <1>1, <3>1
    <3>2. CASE d < n
      BY <1>1, <3>2 DEF StackDiscipline, CallstackShape, Disciplined
    <3>3. QED
      BY <1>1, <3>1, <3>2
  <2>4. QED
    BY <1>1, <1>3, <2>1, <2>2, <2>3
<1>7. \A d, c \in 1..n : c < d => Extends(frames'[d].entry, frames'[c].entry)
  BY <1>1, <1>3 DEF StackDiscipline
<1>8. StackDiscipline'
  BY <1>1, <1>6, <1>7 DEF StackDiscipline, Disciplined
<1>9. QED
  BY <1>5, <1>8

(* The innermost call, going on as f, calls g.                             *)
LEMMA CallShape ==
  ASSUME TypeOK, CallstackShape, StackDiscipline, frames # <<>>, mode # "jump",
         NEW f \in Frame, NEW g \in Frame, Call(f, g),
         Disciplined(f), Disciplined(g), ~Guarding(g),
         f.fn = Active.fn, f.entry = Active.entry,
         Grows(f, g.entry), Extends(g.entry, Active.entry), Extends(g.entry, <<Lobby>>),
         g.fn # "main", Grows(g, callstack'),
         g.fn \in {"native", "method", "try", "times"} => f.pc = "lookup"
  PROVE  CallstackShape' /\ StackDiscipline'
<1> DEFINE n == Len(frames)
<1>1. /\ n \in Nat \ {0} /\ Len(frames') = n + 1 /\ frames' \in Seq(Frame)
      /\ \A d \in 1..n - 1 : frames'[d] = frames[d]
      /\ frames'[n] = f /\ frames'[n + 1] = g
      /\ DOMAIN frames = 1..n /\ DOMAIN frames' = 1..n + 1
  <2> DEFINE t == [frames EXCEPT ![n] = f]
  <2>1. /\ t \in Seq(Frame) /\ Len(t) = n /\ n \in Nat \ {0}
        /\ \A d \in 1..n - 1 : t[d] = frames[d]
        /\ t[n] = f
    BY SetLastFacts DEF TypeOK
  <2>2. frames' = Append(t, g)
    BY DEF Call
  <2> HIDE DEF t
  <2>3. /\ frames' \in Seq(Frame) /\ Len(frames') = n + 1
        /\ \A d \in 1..n : frames'[d] = t[d]
        /\ frames'[n + 1] = g
    BY <2>1, <2>2, AppendFacts
  <2>4. QED
    BY <2>1, <2>3 DEF TypeOK
<1>2. mode' = "run"
  BY DEF Call, Control
<1>3. Active = frames[n]
  BY DEF Active, Last
<1>4. \A d \in 1..n : /\ frames[d].entry \in Seq(Objects)
                      /\ Extends(frames[n].entry, frames[d].entry) \/ d = n
  <2> HIDE DEF n
  <2>1. \A d \in 1..n : frames[d] \in Frame
    BY <1>1 DEF TypeOK
  <2>2. n \in DOMAIN frames /\ \A d \in 1..n : d = n \/ d < n
    BY <1>1
  <2>3. QED
    BY <1>1, <2>1, <2>2 DEF Frame, StackDiscipline
<1> HIDE DEF n
<1>5. g.entry \in Seq(Objects) /\ \A d \in 1..n : Extends(g.entry, frames[d].entry)
  BY <1>1, <1>3, <1>4, ExtendsTransitive DEF Frame
<1>6. \A d \in 1..n : frames'[d].entry = frames[d].entry /\ frames'[d].fn = frames[d].fn
  BY <1>1, <1>3
<1>7. ASSUME NEW d \in 1..n + 1
      PROVE  /\ Grows(frames'[d], Above(d)')
             /\ Guarding(frames'[d]) => frames'[d].saved = frames'[d].entry
             /\ d > 1 => Extends(frames'[d].entry, <<Lobby>>)
  <2>1. CASE d = n + 1
    BY <1>1, <2>1 DEF Above
  <2>2. CASE d = n
    BY <1>1, <1>3, <2>2 DEF Above, Disciplined, CallstackShape
  <2>3. CASE d < n
    <3>1. Grows(frames[d], frames[d + 1].entry)
      BY <1>1, <2>3 DEF CallstackShape, Above, n
    <3>2. QED
      BY <1>1, <1>6, <2>3, <3>1 DEF Above, CallstackShape
  <2>4. QED
    BY <1>1, <2>1, <2>2, <2>3
<1>8. CallstackShape'
  BY <1>1, <1>2, <1>7 DEF CallstackShape
<1>9. ASSUME NEW d \in 1..n + 1
      PROVE  LET h == frames'[d] IN
               /\ h.fn = "main" <=> d = 1
               /\ Disciplined(h)
               /\ h.fn \in {"native", "method", "try", "times"} =>
                    frames'[d - 1].pc = "lookup"
  <2>1. CASE d = n + 1
    BY <1>1, <2>1
  <2>2. CASE d \in 1..n
    <3>1. (frames[d].fn = "main" <=> d = 1)
          /\ (frames[d].fn \in {"native", "method", "try", "times"} =>
                frames[d - 1].pc = "lookup")
      BY <1>1, <2>2 DEF StackDiscipline
    <3>2. frames[d].fn \in {"native", "method", "try", "times"} => d - 1 \in 1..n - 1
      BY <1>1, <2>2, <3>1
    <3>3. Disciplined(frames'[d])
      <4>1. CASE d = n
        BY <1>1, <4>1
      <4>2. CASE d < n
        BY <1>1, <2>2, <4>2 DEF StackDiscipline, CallstackShape, Disciplined
      <4>3. QED
        BY <1>1, <2>2, <4>1, <4>2
    <3>4. QED
      BY <1>1, <1>6, <2>2, <3>1, <3>2, <3>3
  <2>3. QED
    BY <1>1, <2>1, <2>2
<1>10. ASSUME NEW d \in 1..n + 1, NEW c \in 1..n + 1, c < d
       PROVE  Extends(frames'[d].entry, frames'[c].entry)
  <2>1. CASE d = n + 1
    BY <1>1, <1>5, <1>6, <1>10, <2>1
  <2>2. CASE d \in 1..n
    BY <1>1, <1>6, <1>10, <2>2 DEF StackDiscipline
  <2>3. QED
    BY <1>1, <2>1, <2>2
<1>11. StackDiscipline'
  BY <1>1, <1>2, <1>9, <1>10 DEF StackDiscipline, Disciplined
<1>12. QED
  BY <1>8, <1>11

(* The innermost call returns v.                                           *)
LEMMA ReturnShape ==
  ASSUME TypeOK, CallstackShape, StackDiscipline, frames # <<>>,
         NEW v, Return(v), Active.fn # "main", callstack' = Active.entry,
         frames[Len(frames) - 1].pc = "lookup" \/ v # NULL
  PROVE  CallstackShape' /\ StackDiscipline' /\ frames' # <<>>
<1> DEFINE n == Len(frames)
<1>1. /\ n \in Nat \ {0} /\ Len(frames') = n - 1 /\ frames' \in Seq(Frame)
      /\ \A d \in 1..n - 1 : frames'[d] = frames[d]
      /\ DOMAIN frames = 1..n /\ DOMAIN frames' = 1..n - 1
      /\ mode' = "return" /\ val' = v
  <2>1. frames \in Seq(Frame) /\ frames' = Front(frames) /\ mode' = "return" /\ val' = v
    BY DEF TypeOK, Return, Control
  <2>2. /\ n \in Nat \ {0} /\ Len(frames') = n - 1 /\ frames' \in Seq(Frame)
        /\ \A d \in 1..n - 1 : frames'[d] = frames[d]
    BY <2>1, FrontFacts
  <2>3. QED
    BY <2>1, <2>2
<1>2. Active = frames[n]
  BY DEF Active, Last
<1> HIDE DEF n
<1>3. n > 1 /\ frames' # <<>>
  <2>1. n # 1
    BY <1>1, <1>2 DEF StackDiscipline
  <2>2. QED
    BY <1>1, <2>1
<1>4. Active' = frames[n - 1]
  BY <1>1, <1>3 DEF Active, Last
<1>5. ASSUME NEW d \in 1..n - 1
      PROVE  /\ Grows(frames'[d], Above(d)')
             /\ Guarding(frames'[d]) => frames'[d].saved = frames'[d].entry
             /\ d > 1 => Extends(frames'[d].entry, <<Lobby>>)
  <2>1. Grows(frames[d], frames[d + 1].entry)
    BY <1>1 DEF CallstackShape, Above, n
  <2>2. Above(d)' = frames[d + 1].entry
    BY <1>1, <1>2 DEF Above
  <2>3. QED
    BY <1>1, <2>1, <2>2 DEF CallstackShape
<1>6. CallstackShape'
  BY <1>1, <1>5 DEF CallstackShape
<1>7. \A d \in 1..n - 1 : d \in 1..n /\ (d > 1 => d - 1 \in 1..n - 1)
  BY <1>1
<1>8. ASSUME NEW d \in 1..n - 1
      PROVE  LET h == frames'[d] IN
               /\ h.fn = "main" <=> d = 1
               /\ Disciplined(h)
               /\ h.fn \in {"native", "method", "try", "times"} =>
                    frames'[d - 1].pc = "lookup"
  BY <1>1, <1>7 DEF StackDiscipline, CallstackShape, Disciplined
<1>9. \A d, c \in 1..n - 1 : c < d => Extends(frames'[d].entry, frames'[c].entry)
  BY <1>1, <1>7 DEF StackDiscipline
<1>10. mode' = "return" /\ Active'.pc # "lookup" => val' # NULL
  BY <1>1, <1>4 DEF n
<1>11. StackDiscipline'
  BY <1>1, <1>8, <1>9, <1>10 DEF StackDiscipline, Disciplined
<1>12. QED
  BY <1>3, <1>6, <1>11

(* A jump leaves all calls above the one it goes to.                       *)
LEMMA JumpShape ==
  ASSUME TypeOK, JumpChain, CallstackShape, StackDiscipline, frames # <<>>,
         NEW c, NEW chain, JumpTo(chain, c),
         chain = jmpctx \/ (chain = Front(jmpctx) /\ Guarding(Active)),
         callstack' \in {callstack, Active.entry}
  PROVE  CallstackShape' /\ StackDiscipline'
<1>1. CASE chain = <<>>
  BY <1>1 DEF JumpTo, Die, Control, CallstackShape, StackDiscipline
<1>2. CASE chain # <<>>
  <2> DEFINE h == Last(chain)
  <2>1. frames' = SubSeq(frames, 1, h) /\ mode' = "jump"
    BY <1>2 DEF JumpTo, Control
  <2>2. /\ jmpctx \in Seq(Nat) /\ DOMAIN jmpctx = 1..Len(jmpctx) /\ Len(jmpctx) \in Nat
        /\ frames \in Seq(Frame) /\ DOMAIN frames = 1..Len(frames)
        /\ Len(frames) \in Nat \ {0}
        /\ Active = frames[Len(frames)]
        /\ callstack \in Seq(Objects)
    BY ActiveIsFrame DEF TypeOK
  <2>3. h \in 1..Len(frames)
    <3>1. CASE chain = jmpctx
      BY <1>2, <2>2, <3>1 DEF JumpChain, Last
    <3>2. CASE chain = Front(jmpctx) /\ Guarding(Active)
      <4>1. /\ chain \in Seq(Nat) /\ Len(chain) = Len(jmpctx) - 1
            /\ \A k \in 1..Len(jmpctx) - 1 : chain[k] = jmpctx[k]
        BY <2>2, <3>2, GuardingHead, FrontFacts
      <4>2. Len(chain) \in 1..Len(jmpctx) - 1
        BY <1>2, <2>2, <4>1
      <4>3. h = jmpctx[Len(chain)]
        BY <4>1, <4>2 DEF Last
      <4>4. QED
        BY <2>2, <4>2, <4>3 DEF JumpChain
    <3>3. QED
      BY <3>1, <3>2
  <2> HIDE DEF h
  <2>4. /\ frames' \in Seq(Frame) /\ DOMAIN frames' = 1..h /\ Len(frames') = h
        /\ \A d \in 1..h : frames'[d] = frames[d]
    BY <2>1, <2>2, <2>3, PrefixFacts
  <2>5. 1..h \subseteq DOMAIN frames /\ \A d \in 1..h : d > 1 => d - 1 \in 1..h
    BY <2>2, <2>3
  <2>6. Extends(callstack', frames[h].entry)
    <3>1. CASE callstack' = callstack
      BY <2>2, <2>3, <3>1, EntriesExtended
    <3>2. CASE callstack' = Active.entry /\ h = Len(frames)
      <4>1. Active.entry \in Seq(Objects)
        BY <2>2, ActiveIsFrame DEF Frame
      <4>2. QED
        BY <2>2, <3>2, <4>1 DEF Extends
    <3>3. CASE callstack' = Active.entry /\ h < Len(frames)
      <4>1. h \in DOMAIN frames /\ Len(frames) \in DOMAIN frames
        BY <2>2, <2>3
      <4>2. Extends(frames[Len(frames)].entry, frames[h].entry)
        BY <3>3, <4>1 DEF StackDiscipline
      <4>3. QED
        BY <2>2, <3>3, <4>2
    <3>4. h = Len(frames) \/ h < Len(frames)
      <4>1. h \in Int /\ h <= Len(frames) /\ Len(frames) \in Int
        BY <2>2, <2>3
      <4>2. QED
        BY <4>1
    <3>5. QED
      BY <3>1, <3>2, <3>3, <3>4
  <2>7. ASSUME NEW d \in 1..h
        PROVE  /\ d < h => Grows(frames'[d], Above(d)')
               /\ d = h => Extends(callstack', frames'[d].entry)
               /\ Guarding(frames'[d]) => frames'[d].saved = frames'[d].entry
               /\ d > 1 => Extends(frames'[d].entry, <<Lobby>>)
    <3>1. CASE d = h
      BY <2>4, <2>5, <2>6, <3>1 DEF CallstackShape
    <3>2. CASE d < h
      <4> h \in Int /\ h <= Len(frames) /\ Len(frames) \in Int /\ d \in Int /\ d >= 1
        BY <2>2, <2>3
      <4>1. d + 1 \in 1..h /\ d < Len(frames) /\ d # Len(frames)
        BY <3>2
      <4>2. Grows(frames[d], frames[d + 1].entry)
        BY <2>5, <4>1 DEF CallstackShape, Above
      <4>3. Above(d)' = frames[d + 1].entry
        BY <2>4, <3>2, <4>1 DEF Above
      <4>4. QED
        BY <2>4, <2>5, <3>2, <4>2, <4>3 DEF CallstackShape
    <3>3. QED
      BY <2>3, <3>1, <3>2
  <2>8. CallstackShape'
    BY <2>1, <2>3, <2>4, <2>7 DEF CallstackShape
  <2>9. ASSUME NEW d \in 1..h
        PROVE  LET g == frames'[d] IN
                 /\ g.fn = "main" <=> d = 1
                 /\ Disciplined(g)
                 /\ g.fn \in {"native", "method", "try", "times"} =>
                      frames'[d - 1].pc = "lookup"
    BY <2>3, <2>4, <2>5 DEF StackDiscipline, CallstackShape, Disciplined
  <2>10. \A d, b \in 1..h : b < d => Extends(frames'[d].entry, frames'[b].entry)
    BY <2>4, <2>5 DEF StackDiscipline
  <2>11. StackDiscipline'
    BY <2>1, <2>4, <2>9, <2>10 DEF StackDiscipline, Disciplined
  <2>12. QED
    BY <2>8, <2>11
<1>3. QED
  BY <1>1, <1>2

-----------------------------------------------------------------------------
(* The five things that a step does, with types.                           *)

\* The variables that the steps treat alike.
OthersTyped == /\ callstack' \in Seq(Objects)
               /\ exc' \in Excs \cup {NULL}
               /\ held' \in SUBSET Objects

LEMMA ContinueKeeps ==
  ASSUME IInv, frames # <<>>, NEW f \in Frame, Continue(f), Disciplined(f),
         f.fn = Active.fn, f.entry = Active.entry, Grows(f, callstack'),
         Keeps(Active, f) \/ Pops(Active, f), OthersTyped
  PROVE  IInv'
<1>1. TypeOK /\ JumpChain /\ CallstackShape /\ StackDiscipline
  BY DEF IInv
<1>2. JumpChain'
  BY <1>1, ContinueChain
<1>3. CallstackShape' /\ StackDiscipline'
  BY <1>1, ContinueShape
<1>4. frames' \in Seq(Frame) /\ frames' # <<>>
  BY <1>1, SetLastFacts DEF TypeOK, Continue
<1>5. jmpctx' \in Seq(Nat)
  <2>1. CASE Keeps(Active, f)
    BY <1>1, <2>1 DEF Keeps, TypeOK
  <2>2. CASE Pops(Active, f)
    BY <1>1, <2>2, GuardingHead, FrontFacts DEF Pops, TypeOK
  <2>3. QED
    BY <2>1, <2>2
<1>6. TypeOK'
  BY <1>4, <1>5 DEF TypeOK, OthersTyped, Continue, Control
<1>7. QED
  BY <1>2, <1>3, <1>6 DEF IInv

LEMMA CallKeeps ==
  ASSUME IInv, frames # <<>>, mode # "jump",
         NEW f \in Frame, NEW g \in Frame, Call(f, g),
         Disciplined(f), Disciplined(g), ~Guarding(g),
         f.fn = Active.fn, f.entry = Active.entry,
         Grows(f, g.entry), Extends(g.entry, Active.entry), Extends(g.entry, <<Lobby>>),
         g.fn # "main", Grows(g, callstack'),
         g.fn \in {"native", "method", "try", "times"} => f.pc = "lookup",
         Keeps(Active, f) \/ Pushes(Active, f), OthersTyped
  PROVE  IInv'
<1>1. TypeOK /\ JumpChain /\ CallstackShape /\ StackDiscipline
  BY DEF IInv
<1>2. JumpChain'
  BY <1>1, CallChain
<1>3. CallstackShape' /\ StackDiscipline'
  BY <1>1, CallShape
<1>4. frames' \in Seq(Frame) /\ frames' # <<>>
  <2> DEFINE t == [frames EXCEPT ![Len(frames)] = f]
  <2>1. t \in Seq(Frame) /\ frames' = Append(t, g)
    BY <1>1, SetLastFacts DEF TypeOK, Call
  <2> HIDE DEF t
  <2>2. QED
    BY <2>1, AppendFacts
<1>5. jmpctx' \in Seq(Nat)
  <2>1. jmpctx \in Seq(Nat) /\ Len(frames) \in Nat
    BY <1>1 DEF TypeOK
  <2>2. CASE Keeps(Active, f)
    BY <2>1, <2>2 DEF Keeps
  <2>3. CASE Pushes(Active, f)
    BY <2>1, <2>3, AppendFacts DEF Pushes
  <2>4. QED
    BY <2>2, <2>3
<1>6. TypeOK'
  BY <1>4, <1>5 DEF TypeOK, OthersTyped, Call, Control
<1>7. QED
  BY <1>2, <1>3, <1>6 DEF IInv

LEMMA ReturnKeeps ==
  ASSUME IInv, frames # <<>>, NEW v \in Objects \cup {NULL}, Return(v),
         Active.fn # "main", callstack' = Active.entry,
         frames[Len(frames) - 1].pc = "lookup" \/ v # NULL,
         \/ jmpctx' = jmpctx /\ ~Guarding(Active)
         \/ jmpctx' = Front(jmpctx) /\ Guarding(Active),
         OthersTyped
  PROVE  IInv'
<1>1. TypeOK /\ JumpChain /\ CallstackShape /\ StackDiscipline
  BY DEF IInv
<1>2. JumpChain'
  BY <1>1, ReturnChain
<1>3. CallstackShape' /\ StackDiscipline' /\ frames' # <<>>
  BY <1>1, ReturnShape
<1>4. frames' \in Seq(Frame)
  BY <1>1, FrontFacts DEF TypeOK, Return
<1>5. jmpctx' \in Seq(Nat)
  <2>1. CASE jmpctx' = jmpctx
    BY <1>1, <2>1 DEF TypeOK
  <2>2. CASE jmpctx' = Front(jmpctx) /\ Guarding(Active)
    BY <1>1, <2>2, GuardingHead, FrontFacts DEF TypeOK
  <2>3. QED
    BY <2>1, <2>2
<1>6. TypeOK'
  BY <1>3, <1>4, <1>5 DEF TypeOK, OthersTyped, Return, Control
<1>7. QED
  BY <1>2, <1>3, <1>6 DEF IInv

\* What a jump or the end of the process can be about.
Codes == {"none", "EXCEPTION", "BREAK", "CONTINUE", "CRASH", "activatable"}

LEMMA DieKeeps ==
  ASSUME IInv, NEW reason \in Codes, Die(reason), OthersTyped
  PROVE  IInv'
BY EmptySeq DEF IInv, Die, Control, OthersTyped, TypeOK, JumpChain, CallstackShape,
                StackDiscipline, Codes

LEMMA JumpKeeps ==
  ASSUME IInv, frames # <<>>, NEW c \in Codes, NEW chain, JumpTo(chain, c),
         chain = jmpctx \/ (chain = Front(jmpctx) /\ Guarding(Active)),
         callstack' \in {callstack, Active.entry}, OthersTyped
  PROVE  IInv'
<1>1. TypeOK /\ JumpChain /\ CallstackShape /\ StackDiscipline
  BY DEF IInv
<1>2. CASE chain = <<>>
  BY <1>2, DieKeeps DEF JumpTo
<1>3. CASE chain # <<>>
  <2>1. JumpChain' /\ frames' \in Seq(Frame)
    BY <1>1, JumpChainKept
  <2>2. CallstackShape' /\ StackDiscipline'
    BY <1>1, JumpShape
  <2>3. jmpctx' = chain /\ frames' = SubSeq(frames, 1, Last(chain)) /\ mode' = "jump"
        /\ val' = NULL /\ code' = c
    BY <1>3 DEF JumpTo, Control
  <2>4. jmpctx' \in Seq(Nat)
    BY <1>1, <2>3, GuardingHead, FrontFacts DEF TypeOK
  <2>5. frames' # <<>>
    BY <2>1, <2>3, <2>4 DEF JumpChain, Last
  <2>6. QED
    BY <2>1, <2>2, <2>3, <2>4, <2>5 DEF IInv, TypeOK, OthersTyped, Codes
<1>4. QED
  BY <1>2, <1>3

-----------------------------------------------------------------------------
(* What the actions may assume.                                            *)

LEMMA ActiveFacts ==
  ASSUME IInv, mode \in {"run", "return", "jump"}
  PROVE  /\ frames # <<>>
         /\ Active \in Frame
         /\ Disciplined(Active)
         /\ callstack \in Seq(Objects)
         /\ Active.entry \in Seq(Objects) /\ Active.saved \in Seq(Objects)
         /\ mode # "jump" => Grows(Active, callstack)
         /\ mode = "jump" => Guarding(Active)
         /\ Active.fn # "main" => /\ Active.entry # <<>>
                                  /\ Extends(Active.entry, <<Lobby>>)
                                  /\ callstack # <<>>
         /\ Extends(callstack, Active.entry)
         /\ Len(frames) \in Nat \ {0}
         /\ Active = frames[Len(frames)]
<1>1. TypeOK /\ JumpChain /\ CallstackShape /\ StackDiscipline /\ frames # <<>>
  BY DEF IInv, TypeOK
<1>2. /\ Active \in Frame /\ Len(frames) \in Nat \ {0} /\ Active = frames[Len(frames)]
      /\ DOMAIN frames = 1..Len(frames) /\ Len(frames) \in DOMAIN frames
      /\ callstack \in Seq(Objects)
  BY <1>1, ActiveIsFrame DEF TypeOK
<1>3. Active.entry \in Seq(Objects) /\ Active.saved \in Seq(Objects)
  BY <1>2 DEF Frame
<1>4. Disciplined(Active)
  BY <1>1, <1>2 DEF CallstackShape, StackDiscipline, Disciplined
<1>5. mode # "jump" => Grows(Active, callstack)
  <2>1. Above(Len(frames)) = callstack
    BY <1>2 DEF Above
  <2>2. QED
    BY <1>1, <1>2, <2>1 DEF CallstackShape
<1>6. mode = "jump" => Guarding(Active)
  <2>1. SUFFICES ASSUME mode = "jump" PROVE Guarding(frames[Len(frames)])
    BY <1>2
  <2>2. jmpctx \in Seq(Nat) /\ jmpctx # <<>> /\ jmpctx[Len(jmpctx)] = Len(frames)
    BY <1>1, <2>1 DEF JumpChain, TypeOK, Last
  <2>3. Len(jmpctx) \in DOMAIN jmpctx
    BY <2>2
  <2>4. QED
    BY <1>1, <2>2, <2>3 DEF JumpChain
<1>7. Extends(callstack, Active.entry)
  BY <1>1, <1>2, EntriesExtended
<1>8. Active.fn # "main" => /\ Active.entry # <<>>
                            /\ Extends(Active.entry, <<Lobby>>)
                            /\ callstack # <<>>
  <2>1. SUFFICES ASSUME Active.fn # "main"
                 PROVE  /\ Active.entry # <<>>
                        /\ Extends(Active.entry, <<Lobby>>)
                        /\ callstack # <<>>
    OBVIOUS
  <2>2. Len(frames) # 1
    BY <1>1, <1>2, <2>1 DEF StackDiscipline
  <2>3. Extends(Active.entry, <<Lobby>>)
    BY <1>1, <1>2, <2>2 DEF CallstackShape
  <2>4. Len(Active.entry) >= 1
    BY <2>3, <1>3 DEF Extends
  <2>5. Len(callstack) >= 1
    BY <1>2, <1>3, <1>7, <2>4 DEF Extends
  <2>6. QED
    BY <2>3, <2>4, <2>5
<1>9. QED
  BY <1>1, <1>2, <1>3, <1>4, <1>5, <1>6, <1>7, <1>8

LEMMA ObjectFacts ==
  /\ Lobby \in Objects /\ Nil \in Objects
  /\ Values \subseteq Objects /\ Excs \subseteq Objects /\ Contexts \subseteq Objects
  /\ NULL \notin Objects
BY ExcsAreValues, NullIsNoObject DEF Objects

\* The frames that replace or join the innermost one.
Kinds == {"avalanche", "send", "method", "try", "times", "native"}

LEMMA NewFrameFacts ==
  ASSUME NEW fn \in Kinds,
         NEW pc \in {"first", "next", "lookup", "args", "body", "loop", "call",
                     "block", "match", "class", "handler"},
         NEW entry \in Seq(Objects), NEW self \in Objects, NEW argc \in Nat
  PROVE  LET g == NewFrame(fn, pc, entry, self, argc) IN
           /\ g \in Frame
           /\ g.fn = fn /\ g.pc = pc /\ g.entry = entry /\ g.self = self
           /\ g.i = 0 /\ g.res # NULL
<1>1. Nil \in Objects /\ Nil # NULL /\ <<>> \in Seq(Objects)
  BY ObjectFacts, EmptySeq
<1>2. QED
  BY <1>1 DEF NewFrame, Frame, Kinds

(* A call of sk_message_start_dispatch, by any frame on any callstack that *)
(* extends the frame's own.                                                *)
LEMMA StartDispatchKeeps ==
  ASSUME IInv, mode \in {"run", "return"},
         NEW f \in Frame, NEW s \in Seq(Objects), StartDispatch(f, s), Disciplined(f),
         f.fn = Active.fn, f.entry = Active.entry, Grows(f, s),
         Extends(s, Active.entry), Extends(s, <<Lobby>>),
         Keeps(Active, f) \/ Pushes(Active, f),
         exc' \in Excs \cup {NULL}, held' \in SUBSET Objects
  PROVE  IInv'
<1> DEFINE g == NewFrame("avalanche", "first", s, Lobby, 0)
<1>1. frames # <<>>
  BY ActiveFacts
<1>2. g \in Frame /\ g.fn = "avalanche" /\ g.pc = "first" /\ g.entry = s
  BY NewFrameFacts, ObjectFacts DEF Kinds
<1>3. Call(f, g) /\ callstack' = Append(s, Last(s))
  BY DEF StartDispatch
<1> HIDE DEF g
<1>4. Last(s) \in Objects
  <2>1. Len(s) \in Nat /\ Len(s) >= 1
    BY DEF Extends
  <2>2. QED
    BY <2>1, ElementOfSeq DEF Last
<1>5. /\ callstack' \in Seq(Objects)
      /\ Extends(callstack', s) /\ Len(callstack') = Len(s) + 1
  BY <1>3, <1>4, AppendFacts, AppendExtends
<1>6. Grows(g, callstack')
  BY <1>2, <1>5 DEF Grows
<1>7. Disciplined(g) /\ ~Guarding(g)
  BY <1>2 DEF Disciplined, Guarding
<1>8. OthersTyped
  BY <1>5 DEF OthersTyped
<1>9. QED
  BY <1>1, <1>2, <1>3, <1>6, <1>7, <1>8, CallKeeps

(* The evaluation of an argument on the callstack as it is.                *)
LEMMA EvalArgKeeps ==
  ASSUME IInv, mode \in {"run", "return"}, Active.fn # "main",
         NEW f \in Frame, StartDispatch(f, callstack), Disciplined(f),
         f.fn = Active.fn, f.entry = Active.entry, Grows(f, callstack),
         Keeps(Active, f) \/ Pushes(Active, f),
         UNCHANGED <<exc, held>>
  PROVE  IInv'
<1>1. /\ callstack \in Seq(Objects) /\ Active.entry \in Seq(Objects)
      /\ Extends(callstack, Active.entry) /\ Extends(Active.entry, <<Lobby>>)
  BY ActiveFacts
<1>2. <<Lobby>> \in Seq(Objects)
  BY ObjectFacts
<1>3. Extends(callstack, <<Lobby>>)
  BY <1>1, <1>2, ExtendsTransitive
<1>4. exc' \in Excs \cup {NULL} /\ held' \in SUBSET Objects
  BY DEF IInv, TypeOK
<1>5. QED
  BY <1>1, <1>3, <1>4, StartDispatchKeeps

(* Replacing and popping the top element of an avalanche.                  *)
LEMMA TopFacts ==
  ASSUME NEW s \in Seq(Objects), NEW b \in Seq(Objects), NEW x \in Objects,
         Extends(s, b), Len(s) = Len(b) + 1
  PROVE  LET t == [s EXCEPT ![Len(s)] = x] IN
           /\ t \in Seq(Objects) /\ Extends(t, b) /\ Len(t) = Len(b) + 1
           /\ Front(s) = b
           /\ Last(s) \in Objects
           /\ b # <<>> => Last(Front(s)) \in Objects
<1>1. Len(b) \in Nat /\ Len(s) \in Nat \ {0} /\ s # <<>>
  BY EmptySeq
<1>2. Front(s) \in Seq(Objects) /\ Len(Front(s)) = Len(b)
      /\ \A k \in 1..Len(b) : Front(s)[k] = b[k]
  BY <1>1, FrontFacts DEF Extends
<1>3. Front(s) = b
  BY <1>2, SeqEqual
<1>4. Last(s) \in Objects
  BY <1>1, ElementOfSeq DEF Last
<1>5. b # <<>> => Last(b) \in Objects
  BY EmptySeq, ElementOfSeq DEF Last
<1>6. QED
  BY <1>1, <1>3, <1>4, <1>5, SetLastFacts DEF Extends

LEMMA SetTopFacts ==
  ASSUME IInv, mode \in {"run", "return"}, Active.fn = "avalanche",
         NEW x \in Objects, SetTop(x)
  PROVE  /\ callstack' \in Seq(Objects)
         /\ Extends(callstack', Active.entry)
         /\ Len(callstack') = Len(Active.entry) + 1
<1>1. /\ callstack \in Seq(Objects) /\ Active.entry \in Seq(Objects)
      /\ Grows(Active, callstack)
  BY ActiveFacts
<1>2. Extends(callstack, Active.entry) /\ Len(callstack) = Len(Active.entry) + 1
  BY <1>1 DEF Grows
<1>3. QED
  BY <1>1, <1>2, TopFacts DEF SetTop

-----------------------------------------------------------------------------
(* The actions.                                                            *)

LEMMA LiteralKeeps == ASSUME IInv, Literal PROVE IInv'
<1>1. /\ mode = "run" /\ Active.fn = "avalanche" /\ Active.pc \in {"first", "next"}
      /\ UNCHANGED <<jmpctx, exc, held>>
  BY DEF Literal, AtMessage, Runs
<1>2. PICK v \in Values : SetTop(v) /\ Continue([Active EXCEPT !.pc = "next", !.res = v])
  BY DEF Literal
<1> DEFINE f == [Active EXCEPT !.pc = "next", !.res = v]
<1>3. v \in Objects
  BY ObjectFacts
<1>4. /\ f \in Frame /\ f.fn = "avalanche" /\ f.pc = "next" /\ f.entry = Active.entry
      /\ Continue(f)
  BY <1>1, <1>2, <1>3, ActiveFacts DEF Frame
<1> HIDE DEF f
<1>5. Grows(f, callstack') /\ callstack' \in Seq(Objects)
  BY <1>1, <1>2, <1>3, <1>4, SetTopFacts DEF Grows
<1>6. Disciplined(f) /\ Keeps(Active, f)
  BY <1>1, <1>4 DEF Disciplined, Keeps, Guarding
<1>7. OthersTyped
  BY <1>1, <1>5 DEF OthersTyped, IInv, TypeOK
<1>8. QED
  BY <1>1, <1>4, <1>5, <1>6, <1>7, ActiveFacts, ContinueKeeps

LEMMA TerminatorKeeps == ASSUME IInv, Terminator PROVE IInv'
<1> DEFINE f == [Active EXCEPT !.pc = "next", !.res = NULL]
           x == Last(Front(callstack))
<1>1. /\ mode = "run" /\ Active.fn = "avalanche" /\ Active.pc \in {"first", "next"}
      /\ SetTop(x) /\ Continue(f)
      /\ UNCHANGED <<jmpctx, exc, held>>
  BY DEF Terminator, AtMessage, Runs
<1>2. /\ f \in Frame /\ f.fn = "avalanche" /\ f.pc = "next" /\ f.entry = Active.entry
  BY <1>1, ActiveFacts DEF Frame
<1> HIDE DEF f
<1>3. Extends(callstack, Active.entry) /\ Len(callstack) = Len(Active.entry) + 1
  BY <1>1, ActiveFacts DEF Grows
<1>4. x \in Objects
  BY <1>1, <1>3, ActiveFacts, ObjectFacts, TopFacts
<1> HIDE DEF x
<1>5. Grows(f, callstack') /\ callstack' \in Seq(Objects)
  BY <1>1, <1>2, <1>4, SetTopFacts DEF Grows
<1>6. Disciplined(f) /\ Keeps(Active, f)
  BY <1>1, <1>2 DEF Disciplined, Keeps, Guarding
<1>7. OthersTyped
  BY <1>1, <1>5 DEF OthersTyped, IInv, TypeOK
<1>8. QED
  BY <1>1, <1>2, <1>5, <1>6, <1>7, ActiveFacts, ContinueKeeps

LEMMA LookupMessageKeeps == ASSUME IInv, LookupMessage PROVE IInv'
<1> DEFINE f == [Active EXCEPT !.pc = "lookup", !.i = Len(callstack), !.res = NULL]
<1>1. /\ mode = "run" /\ Active.fn = "avalanche" /\ Active.pc \in {"first", "next"}
      /\ Continue(f)
      /\ UNCHANGED <<callstack, jmpctx, exc, held>>
  BY DEF LookupMessage, AtMessage, Runs
<1>2. /\ f \in Frame /\ f.fn = "avalanche" /\ f.pc = "lookup" /\ f.entry = Active.entry
      /\ f.i = Len(callstack)
  <2>1. Active \in Frame /\ Len(callstack) \in Nat
    BY <1>1, ActiveFacts
  <2>2. QED
    BY <1>1, <2>1 DEF Frame
<1> HIDE DEF f
<1>3. Extends(callstack, Active.entry) /\ Len(callstack) = Len(Active.entry) + 1
  BY <1>1, ActiveFacts DEF Grows
<1>4. Grows(f, callstack') /\ callstack' \in Seq(Objects)
  BY <1>1, <1>2, <1>3, ActiveFacts DEF Grows
<1>5. Disciplined(f) /\ Keeps(Active, f)
  BY <1>1, <1>2, <1>3, ActiveFacts DEF Disciplined, Keeps, Guarding
<1>6. OthersTyped
  BY <1>1, <1>4 DEF OthersTyped, IInv, TypeOK
<1>7. QED
  BY <1>1, <1>2, <1>4, <1>5, <1>6, ActiveFacts, ContinueKeeps

LEMMA FinishDispatchKeeps == ASSUME IInv, FinishDispatch PROVE IInv'
<1>1. /\ mode = "run" /\ Active.fn = "avalanche"
      /\ Return(DispatchResult) /\ callstack' = Front(callstack)
      /\ UNCHANGED <<jmpctx, exc, held>>
  BY DEF FinishDispatch, Runs
<1>2. Extends(callstack, Active.entry) /\ Len(callstack) = Len(Active.entry) + 1
  BY <1>1, ActiveFacts DEF Grows
<1>3. Front(callstack) = Active.entry /\ Last(callstack) \in Objects
  BY <1>1, <1>2, ActiveFacts, ObjectFacts, TopFacts
<1>4. DispatchResult \in Objects /\ DispatchResult # NULL
  <2>1. Active.res \in Objects \cup {NULL}
    BY <1>1, ActiveFacts DEF Frame
  <2>2. QED
    BY <1>3, <2>1, ObjectFacts DEF DispatchResult
<1>5. ~Guarding(Active) /\ OthersTyped
  BY <1>1, <1>3, ActiveFacts DEF Guarding, OthersTyped, IInv, TypeOK
<1>6. QED
  BY <1>1, <1>3, <1>4, <1>5, ActiveFacts, ReturnKeeps

LEMMA AskNextKeeps ==
  ASSUME IInv, mode \in {"run", "return"}, Asking, AskNext
  PROVE  IInv'
<1> DEFINE f == [Active EXCEPT !.i = @ - 1]
<1>1. /\ Active \in Frame /\ Active.pc = "lookup" /\ Active.i \in Nat /\ Active.i > 0
      /\ Active.fn \in {"avalanche", "send"} /\ Active.i <= Len(Active.entry) + 1
      /\ Active.entry \in Seq(Objects)
      /\ Grows(Active, callstack)
      /\ frames # <<>>
  BY ActiveFacts DEF Asking, Disciplined, Frame
<1>2. /\ f \in Frame /\ f.fn = Active.fn /\ f.pc = "lookup" /\ f.entry = Active.entry
      /\ f.self = Active.self /\ f.i = Active.i - 1
  BY <1>1 DEF Frame
<1>3. Continue(f) /\ UNCHANGED <<callstack, jmpctx, exc, held>>
  BY DEF AskNext
<1> HIDE DEF f
<1>4. Grows(f, callstack')
  BY <1>1, <1>2, <1>3 DEF Grows
<1>5. Disciplined(f) /\ Keeps(Active, f)
  BY <1>1, <1>2, <1>3 DEF Disciplined, Keeps, Guarding
<1>6. OthersTyped
  BY <1>3 DEF OthersTyped, IInv, TypeOK
<1>7. QED
  BY <1>1, <1>2, <1>3, <1>4, <1>5, <1>6, ContinueKeeps

LEMMA AnsweredKeeps ==
  ASSUME IInv, mode \in {"run", "return"}, Asking, NEW v \in Objects, Answered(v),
         UNCHANGED <<jmpctx, exc, held>>
  PROVE  IInv'
<1>1. /\ Active \in Frame /\ Active.pc = "lookup"
      /\ Active.fn \in {"avalanche", "send"}
      /\ Active.entry \in Seq(Objects) /\ Active.entry # <<>> /\ callstack \in Seq(Objects)
      /\ Grows(Active, callstack)
      /\ frames # <<>>
      /\ ~Guarding(Active)
  BY ActiveFacts DEF Asking, Disciplined, Guarding
<1>2. CASE /\ Active.fn = "avalanche"
           /\ SetTop(v)
           /\ Continue([Active EXCEPT !.pc = "next", !.i = 0, !.res = v])
  <2> DEFINE f == [Active EXCEPT !.pc = "next", !.i = 0, !.res = v]
  <2>1. /\ f \in Frame /\ f.fn = "avalanche" /\ f.pc = "next" /\ f.entry = Active.entry
    BY <1>1, <1>2 DEF Frame
  <2>2. Continue(f)
    BY <1>2
  <2> HIDE DEF f
  <2>3. Grows(f, callstack') /\ callstack' \in Seq(Objects)
    BY <1>2, <2>1, SetTopFacts DEF Grows
  <2>4. Disciplined(f) /\ Keeps(Active, f)
    BY <1>1, <1>2, <2>1 DEF Disciplined, Keeps, Guarding
  <2>5. OthersTyped
    BY <2>3 DEF OthersTyped, IInv, TypeOK
  <2>6. QED
    BY <1>1, <1>2, <2>1, <2>2, <2>3, <2>4, <2>5, ContinueKeeps
<1>3. CASE /\ Active.fn = "send"
           /\ callstack' = Front(callstack)
           /\ Return(v)
  <2>1. callstack = Append(Active.entry, Active.self) /\ Active.self \in Objects
    BY <1>1, <1>3 DEF Grows, Frame
  <2>2. Extends(callstack, Active.entry) /\ Len(callstack) = Len(Active.entry) + 1
    BY <1>1, <2>1, AppendExtends
  <2>3. callstack' = Active.entry
    BY <1>1, <1>3, <2>2, TopFacts
  <2>4. OthersTyped
    BY <1>1, <2>3 DEF OthersTyped, IInv, TypeOK
  <2>5. QED
    BY <1>1, <1>3, <2>3, <2>4, ObjectFacts, ReturnKeeps
<1>4. QED
  BY <1>2, <1>3 DEF Answered

LEMMA AskedIsObject ==
  ASSUME IInv, mode = "run", Asking
  PROVE  Asked \in Objects
<1>1. /\ Active.fn \in {"avalanche", "send"} /\ Active.i <= Len(Active.entry) + 1
      /\ Active.i \in Nat /\ Active.i > 0 /\ Active.self \in Objects
      /\ Active.entry \in Seq(Objects) /\ callstack \in Seq(Objects)
      /\ Grows(Active, callstack)
  BY ActiveFacts DEF Asking, Disciplined, Frame
<1>2. Len(callstack) = Len(Active.entry) + 1
  BY <1>1 DEF Grows
<1>3. Active.i \in 1..Len(callstack)
  BY <1>1, <1>2
<1>4. QED
  BY <1>1, <1>3, ElementOfSeq DEF Asked

LEMMA RaiseKeeps ==
  ASSUME IInv, mode = "run", Raise
  PROVE  IInv'
<1>1. PICK e \in Excs : exc' = e /\ JumpTo(jmpctx, "EXCEPTION") /\ UNCHANGED <<callstack, held>>
  BY DEF Raise
<1>2. frames # <<>>
  BY ActiveFacts
<1>3. OthersTyped
  BY <1>1 DEF OthersTyped, IInv, TypeOK
<1>4. QED
  BY <1>1, <1>2, <1>3, JumpKeeps DEF Codes

LEMMA NotAnsweredKeeps == ASSUME IInv, NotAnswered PROVE IInv'
BY AskNextKeeps DEF NotAnswered

LEMMA NobodyKeeps == ASSUME IInv, Nobody PROVE IInv'
BY RaiseKeeps DEF Nobody

LEMMA AnswerSlotKeeps == ASSUME IInv, AnswerSlot PROVE IInv'
<1>1. mode = "run" /\ Asking /\ UNCHANGED <<exc, held>>
  BY DEF AnswerSlot
<1>2. PICK v \in held : \/ v \in Contexts /\ Die("activatable") /\ UNCHANGED callstack
                        \/ Answered(v) /\ UNCHANGED jmpctx
  BY DEF AnswerSlot
<1>3. v \in Objects
  BY DEF IInv, TypeOK
<1>4. CASE Die("activatable") /\ UNCHANGED callstack
  <2>1. OthersTyped
    BY <1>1, <1>4 DEF OthersTyped, IInv, TypeOK
  <2>2. QED
    BY <1>4, <2>1, DieKeeps DEF Codes
<1>5. CASE Answered(v) /\ UNCHANGED jmpctx
  BY <1>1, <1>3, <1>5, AnsweredKeeps
<1>6. QED
  BY <1>2, <1>4, <1>5

LEMMA CallReturnedKeeps == ASSUME IInv, CallReturned PROVE IInv'
<1>1. mode = "return" /\ Asking
  BY DEF CallReturned
<1>2. CASE val # NULL /\ Answered(val) /\ UNCHANGED <<jmpctx, exc, held>>
  <2>1. val \in Objects
    BY <1>2 DEF IInv, TypeOK
  <2>2. QED
    BY <1>1, <1>2, <2>1, AnsweredKeeps
<1>3. CASE AskNext
  BY <1>1, <1>3, AskNextKeeps
<1>4. QED
  BY <1>2, <1>3 DEF CallReturned

(* The dispatch loop calls a built-in or a method.                         *)
LEMMA CalleeKeeps ==
  ASSUME IInv, mode = "run", Asking, NEW g \in Frame, Call(Active, g),
         g.fn \in {"native", "method", "try", "times"}, g.pc \in {"args", "call", "loop"},
         g.entry = callstack, g.res # NULL,
         UNCHANGED <<callstack, jmpctx, exc>>, held' \in SUBSET Objects
  PROVE  IInv'
<1>1. /\ Active \in Frame /\ Active.pc = "lookup" /\ Active.fn \in {"avalanche", "send"}
      /\ frames # <<>> /\ Disciplined(Active) /\ Grows(Active, callstack)
      /\ Active.entry \in Seq(Objects) /\ callstack \in Seq(Objects)
      /\ Extends(callstack, Active.entry) /\ Extends(Active.entry, <<Lobby>>)
  BY ActiveFacts DEF Asking, Disciplined
<1>2. Extends(g.entry, <<Lobby>>)
  <2>1. <<Lobby>> \in Seq(Objects)
    BY ObjectFacts
  <2>2. QED
    BY <1>1, <2>1, ExtendsTransitive
<1>3. Disciplined(g) /\ ~Guarding(g) /\ Grows(g, callstack')
  BY DEF Disciplined, Guarding, Grows
<1>4. Keeps(Active, Active) /\ OthersTyped
  BY <1>1 DEF Keeps, OthersTyped, IInv, TypeOK
<1>5. Grows(Active, g.entry) /\ Extends(g.entry, Active.entry)
  BY <1>1
<1>6. g.fn # "main" /\ mode # "jump" /\ UNCHANGED callstack
  OBVIOUS
<1>7. QED
  BY <1>1, <1>2, <1>3, <1>4, <1>5, <1>6, CallKeeps

(* A callee returns to the dispatch loop, which may be handed NULL.        *)
LEMMA CalleeReturns ==
  ASSUME IInv, mode \in {"run", "return", "jump"},
         Active.fn \in {"native", "method", "try", "times"},
         NEW v \in Objects \cup {NULL}, Return(v), callstack' = Active.entry,
         \/ jmpctx' = jmpctx /\ ~Guarding(Active)
         \/ jmpctx' = Front(jmpctx) /\ Guarding(Active),
         exc' = exc, held' \in SUBSET Objects
  PROVE  IInv'
<1>1. /\ frames # <<>> /\ Active = frames[Len(frames)] /\ Active.entry \in Seq(Objects)
      /\ Len(frames) \in DOMAIN frames
  BY ActiveFacts, ActiveIsFrame DEF IInv, TypeOK
<1>2. frames[Len(frames) - 1].pc = "lookup"
  BY <1>1 DEF IInv, StackDiscipline
<1>3. OthersTyped
  BY <1>1 DEF OthersTyped, IInv, TypeOK
<1>4. QED
  BY <1>1, <1>2, <1>3, ReturnKeeps

(* A frame goes on and leaves the callstack and the jump contexts alone.   *)
LEMMA InPlaceKeeps ==
  ASSUME IInv, mode \in {"run", "return", "jump"}, NEW f \in Frame, Continue(f),
         f.fn = Active.fn, f.entry = Active.entry, Disciplined(f), Grows(f, callstack),
         Guarding(Active) <=> Guarding(f),
         UNCHANGED <<callstack, jmpctx, exc>>, held' \in SUBSET Objects
  PROVE  IInv'
<1>1. frames # <<>> /\ OthersTyped /\ Keeps(Active, f) /\ Grows(f, callstack')
  BY ActiveFacts DEF OthersTyped, Keeps, IInv, TypeOK
<1>2. QED
  BY <1>1, ContinueKeeps

LEMMA CallNativeKeeps == ASSUME IInv, CallNative PROVE IInv'
<1>1. /\ mode = "run" /\ Asking /\ UNCHANGED <<callstack, jmpctx, exc, held>>
  BY DEF CallNative, Callee
<1>2. PICK w \in Builtins :
        Call(Active, [NewFrame("native", "args", callstack, Asked, w[1]) EXCEPT !.out = w[2]])
  BY DEF CallNative
<1>3. /\ w[1] \in Nat
      /\ w[2] \in {"self", "fresh", "slot", "arg", "NULL", "print", "if", "raise",
                   "BREAK", "CONTINUE", "CRASH"}
  BY BuiltinsAreWays, BoundsAreNat DEF Ways
<1> DEFINE g0 == NewFrame("native", "args", callstack, Asked, w[1])
           g == [g0 EXCEPT !.out = w[2]]
<1>4. g0 \in Frame /\ g0.fn = "native" /\ g0.pc = "args" /\ g0.entry = callstack
      /\ g0.res # NULL
  <2>1. callstack \in Seq(Objects) /\ Asked \in Objects
    BY <1>1, ActiveFacts, AskedIsObject
  <2>2. QED
    BY <1>3, <2>1, NewFrameFacts DEF Kinds
<1> HIDE DEF g0
<1>5. g \in Frame /\ g.fn = "native" /\ g.pc = "args" /\ g.entry = callstack
      /\ g.res # NULL
  BY <1>3, <1>4 DEF Frame
<1>6. Call(Active, g)
  BY <1>2 DEF g0
<1> HIDE DEF g
<1>7. held' \in SUBSET Objects
  BY <1>1 DEF IInv, TypeOK
<1>8. QED
  BY <1>1, <1>5, <1>6, <1>7, CalleeKeeps

LEMMA CallMethodKeeps == ASSUME IInv, CallMethod PROVE IInv'
<1>1. /\ mode = "run" /\ Asking /\ UNCHANGED <<callstack, jmpctx, exc>>
      /\ held' = held \cup {Asked}
  BY DEF CallMethod, Callee
<1>2. PICK n \in 0..MaxArgs : Call(Active, NewFrame("method", "args", callstack, Asked, n))
  BY DEF CallMethod
<1> DEFINE g == NewFrame("method", "args", callstack, Asked, n)
<1>3. n \in Nat
  BY BoundsAreNat
<1>4. g \in Frame /\ g.fn = "method" /\ g.pc = "args" /\ g.entry = callstack
      /\ g.res # NULL
  <2>1. callstack \in Seq(Objects) /\ Asked \in Objects
    BY <1>1, ActiveFacts, AskedIsObject
  <2>2. QED
    BY <1>3, <2>1, NewFrameFacts DEF Kinds
<1> HIDE DEF g
<1>5. held' \in SUBSET Objects
  BY <1>1, AskedIsObject DEF IInv, TypeOK
<1>6. QED
  BY <1>1, <1>2, <1>4, <1>5, CalleeKeeps DEF g

LEMMA CallTryKeeps == ASSUME IInv, CallTry PROVE IInv'
<1>1. /\ mode = "run" /\ Asking /\ UNCHANGED <<callstack, jmpctx, exc, held>>
  BY DEF CallTry, Callee
<1>2. PICK n \in 1..MaxTryArgs : Call(Active, NewFrame("try", "call", callstack, Asked, n))
  BY DEF CallTry
<1> DEFINE g == NewFrame("try", "call", callstack, Asked, n)
<1>3. n \in Nat
  BY BoundsAreNat
<1>4. g \in Frame /\ g.fn = "try" /\ g.pc = "call" /\ g.entry = callstack
      /\ g.res # NULL
  <2>1. callstack \in Seq(Objects) /\ Asked \in Objects
    BY <1>1, ActiveFacts, AskedIsObject
  <2>2. QED
    BY <1>3, <2>1, NewFrameFacts DEF Kinds
<1> HIDE DEF g
<1>5. held' \in SUBSET Objects
  BY <1>1 DEF IInv, TypeOK
<1>6. QED
  BY <1>1, <1>2, <1>4, <1>5, CalleeKeeps DEF g

LEMMA CallTimesKeeps == ASSUME IInv, CallTimes PROVE IInv'
<1>1. /\ mode = "run" /\ Asking /\ UNCHANGED <<callstack, jmpctx, exc, held>>
  BY DEF CallTimes, Callee
<1>2. PICK n \in 0..MaxTimes : Call(Active, NewFrame("times", "loop", callstack, Asked, n))
  BY DEF CallTimes
<1> DEFINE g == NewFrame("times", "loop", callstack, Asked, n)
<1>3. n \in Nat
  BY BoundsAreNat
<1>4. g \in Frame /\ g.fn = "times" /\ g.pc = "loop" /\ g.entry = callstack
      /\ g.res # NULL
  <2>1. callstack \in Seq(Objects) /\ Asked \in Objects
    BY <1>1, ActiveFacts, AskedIsObject
  <2>2. QED
    BY <1>3, <2>1, NewFrameFacts DEF Kinds
<1> HIDE DEF g
<1>5. held' \in SUBSET Objects
  BY <1>1 DEF IInv, TypeOK
<1>6. QED
  BY <1>1, <1>2, <1>4, <1>5, CalleeKeeps DEF g

-----------------------------------------------------------------------------
(* Built-ins.                                                              *)

LEMMA NativeFacts ==
  ASSUME IInv, mode \in {"run", "return"}, Active.fn = "native"
  PROVE  /\ callstack = Active.entry /\ callstack \in Seq(Objects)
         /\ Active \in Frame /\ Active.res # NULL /\ Active.res \in Objects
         /\ Active.self \in Objects /\ Active.i \in Nat /\ Active.argc \in Nat
         /\ ~Guarding(Active)
         /\ mode = "return" /\ Active.pc # "lookup" => val \in Objects
<1>1. Active \in Frame /\ Disciplined(Active) /\ Grows(Active, callstack)
      /\ callstack \in Seq(Objects)
  BY ActiveFacts
<1>2. callstack = Active.entry
  BY <1>1 DEF Grows
<1>3. /\ Active.res # NULL /\ Active.res \in Objects
      /\ Active.self \in Objects /\ Active.i \in Nat /\ Active.argc \in Nat
  BY <1>1 DEF Disciplined, Frame
<1>4. mode = "return" /\ Active.pc # "lookup" => val \in Objects
  BY DEF IInv, TypeOK, StackDiscipline
<1>5. QED
  BY <1>1, <1>2, <1>3, <1>4 DEF Guarding

LEMMA NativeArgKeeps == ASSUME IInv, NativeArg PROVE IInv'
<1>1. mode = "run" /\ Active.fn = "native" /\ EvalArg(Active)
  BY DEF NativeArg, Runs
<1>2. StartDispatch(Active, callstack) /\ UNCHANGED <<jmpctx, exc, held>>
  BY <1>1 DEF EvalArg
<1>3. /\ Active \in Frame /\ Disciplined(Active) /\ Grows(Active, callstack)
      /\ Keeps(Active, Active)
  BY <1>1, <1>2, ActiveFacts DEF Keeps
<1>4. QED
  BY <1>1, <1>2, <1>3, EvalArgKeeps

LEMMA NativeArgDoneKeeps == ASSUME IInv, NativeArgDone PROVE IInv'
<1> DEFINE f == [Active EXCEPT !.i = @ + 1, !.res = val]
<1>1. /\ mode = "return" /\ Active.fn = "native" /\ Active.pc = "args" /\ Continue(f)
      /\ UNCHANGED <<callstack, jmpctx, exc, held>>
  BY DEF NativeArgDone, Returned
<1>2. Active \in Frame /\ val \in Objects /\ val # NULL /\ callstack = Active.entry
      /\ ~Guarding(Active) /\ Active.i \in Nat
  BY <1>1, NativeFacts, ObjectFacts
<1>3. f \in Frame /\ f.fn = "native" /\ f.pc = "args" /\ f.entry = Active.entry /\ f.res = val
  <2>1. Active.i + 1 \in Nat /\ val \in Objects \cup {NULL}
    BY <1>2
  <2>2. QED
    BY <1>1, <1>2, <2>1 DEF Frame
<1> HIDE DEF f
<1>4. Disciplined(f) /\ Grows(f, callstack) /\ ~Guarding(f)
  BY <1>2, <1>3 DEF Disciplined, Grows, Guarding
<1>5. held' \in SUBSET Objects
  BY <1>1 DEF IInv, TypeOK
<1>6. QED
  BY <1>1, <1>2, <1>3, <1>4, <1>5, InPlaceKeeps

LEMMA NativeReturnKeeps == ASSUME IInv, NativeReturn PROVE IInv'
<1>1. /\ mode = "run" /\ Active.fn = "native" /\ UNCHANGED <<callstack, jmpctx, exc>>
  BY DEF NativeReturn, Done, Runs
<1>2. /\ callstack = Active.entry /\ ~Guarding(Active) /\ Active.res \in Objects
      /\ Active.self \in Objects
  BY <1>1, NativeFacts
<1>3. held \in SUBSET Objects
  BY DEF IInv, TypeOK
<1>4. PICK v \in Objects \cup {NULL} : Return(v)
  BY <1>2, <1>3, ObjectFacts DEF NativeReturn
<1>5. held' \in SUBSET Objects
  BY <1>2, <1>3 DEF NativeReturn
<1>6. QED
  BY <1>1, <1>2, <1>4, <1>5, CalleeReturns

LEMMA SendSimpleKeeps ==
  ASSUME IInv, mode = "run", Active.fn = "native",
         NEW obj \in Objects, SendSimple([Active EXCEPT !.pc = "call"], obj)
  PROVE  IInv'
<1> DEFINE f == [Active EXCEPT !.pc = "call"]
           g0 == NewFrame("send", "lookup", callstack, obj, 0)
           g == [g0 EXCEPT !.i = Len(callstack) + 1]
<1>1. /\ callstack' = Append(callstack, obj) /\ Call(f, g) /\ UNCHANGED <<jmpctx, exc, held>>
  BY DEF SendSimple
<1>2. /\ callstack = Active.entry /\ callstack \in Seq(Objects) /\ ~Guarding(Active)
      /\ Active \in Frame /\ Active.res # NULL /\ Len(callstack) \in Nat
  BY NativeFacts
<1>3. f \in Frame /\ f.fn = "native" /\ f.pc = "call" /\ f.entry = Active.entry
      /\ f.res # NULL
  BY <1>2 DEF Frame
<1>4. g0 \in Frame /\ g0.fn = "send" /\ g0.pc = "lookup" /\ g0.entry = callstack
      /\ g0.self = obj
  BY <1>2, NewFrameFacts DEF Kinds
<1> HIDE DEF f, g0
<1>5. g \in Frame /\ g.fn = "send" /\ g.pc = "lookup" /\ g.entry = callstack
      /\ g.self = obj /\ g.i = Len(callstack) + 1
  <2>1. Len(callstack) + 1 \in Nat
    BY <1>2
  <2>2. QED
    BY <1>4, <2>1 DEF Frame
<1> HIDE DEF g
<1>6. Disciplined(f) /\ ~Guarding(f) /\ Grows(f, g.entry)
  BY <1>2, <1>3, <1>5 DEF Disciplined, Guarding, Grows
<1>7. Disciplined(g) /\ ~Guarding(g) /\ Grows(g, callstack')
  BY <1>1, <1>2, <1>5 DEF Disciplined, Guarding, Grows
<1>8. Extends(g.entry, Active.entry) /\ Extends(g.entry, <<Lobby>>)
  BY <1>2, <1>5, ActiveFacts
<1>9. OthersTyped
  BY <1>1, <1>2, AppendFacts DEF OthersTyped, IInv, TypeOK
<1>10. Keeps(Active, f)
  BY <1>1, <1>2, <1>6 DEF Keeps
<1>11. frames # <<>> /\ g.fn # "main" /\ g.fn \notin {"native", "method", "try", "times"}
       /\ f.fn = Active.fn /\ f.entry = Active.entry /\ mode # "jump"
  BY <1>3, <1>5, ActiveFacts
<1>12. QED
  BY <1>1, <1>3, <1>5, <1>6, <1>7, <1>8, <1>9, <1>10, <1>11, CallKeeps

LEMMA NativeSendKeeps == ASSUME IInv, NativeSend PROVE IInv'
<1>1. mode = "run" /\ Active.fn = "native"
  BY DEF NativeSend, Done, Runs
<1>2. QED
  BY <1>1, NativeFacts, SendSimpleKeeps DEF NativeSend

LEMMA NativeSentKeeps == ASSUME IInv, NativeSent PROVE IInv'
<1>1. /\ mode = "return" /\ Active.fn = "native" /\ UNCHANGED <<callstack, jmpctx, exc, held>>
  BY DEF NativeSent, Returned
<1>2. callstack = Active.entry /\ ~Guarding(Active) /\ Active.self \in Objects
  BY <1>1, NativeFacts
<1>3. PICK v \in Objects \cup {NULL} : Return(v)
  BY <1>2, ObjectFacts DEF NativeSent
<1>4. held' \in SUBSET Objects
  BY <1>1 DEF IInv, TypeOK
<1>5. QED
  BY <1>1, <1>2, <1>3, <1>4, CalleeReturns

LEMMA NativeRaiseKeeps == ASSUME IInv, NativeRaise PROVE IInv'
BY RaiseKeeps DEF NativeRaise, Done, Runs

LEMMA NativeJumpKeeps == ASSUME IInv, NativeJump PROVE IInv'
<1>1. mode = "run" /\ UNCHANGED <<callstack, exc, held>>
  BY DEF NativeJump, Done, Runs
<1>2. PICK c \in {"BREAK", "CONTINUE"} : JumpTo(jmpctx, c)
  BY DEF NativeJump
<1>3. frames # <<>> /\ OthersTyped
  BY <1>1, ActiveFacts DEF OthersTyped, IInv, TypeOK
<1>4. QED
  BY <1>1, <1>2, <1>3, JumpKeeps DEF Codes

LEMMA NativeCrashKeeps == ASSUME IInv, NativeCrash PROVE IInv'
<1>1. Die("CRASH") /\ UNCHANGED <<callstack, exc, held>>
  BY DEF NativeCrash
<1>2. OthersTyped
  BY <1>1 DEF OthersTyped, IInv, TypeOK
<1>3. QED
  BY <1>1, <1>2, DieKeeps DEF Codes

-----------------------------------------------------------------------------
(* Methods.                                                                *)

LEMMA MethodArgKeeps == ASSUME IInv, MethodArg PROVE IInv'
<1>1. mode = "run" /\ Active.fn = "method" /\ EvalArg(Active)
  BY DEF MethodArg, Runs
<1>2. StartDispatch(Active, callstack) /\ UNCHANGED <<jmpctx, exc, held>>
  BY <1>1 DEF EvalArg
<1>3. /\ Active \in Frame /\ Disciplined(Active) /\ Grows(Active, callstack)
      /\ Keeps(Active, Active)
  BY <1>1, <1>2, ActiveFacts DEF Keeps
<1>4. QED
  BY <1>1, <1>2, <1>3, EvalArgKeeps

LEMMA MethodArgDoneKeeps == ASSUME IInv, MethodArgDone PROVE IInv'
<1> DEFINE f == [Active EXCEPT !.i = @ + 1]
<1>1. /\ mode = "return" /\ Active.fn = "method" /\ Active.pc = "args" /\ Continue(f)
      /\ held' = held \cup {val}
      /\ UNCHANGED <<callstack, jmpctx, exc>>
  BY DEF MethodArgDone, Returned
<1>2. Active \in Frame /\ callstack = Active.entry /\ ~Guarding(Active)
  BY <1>1, ActiveFacts DEF Grows, Guarding
<1>3. f \in Frame /\ f.fn = "method" /\ f.pc = "args" /\ f.entry = Active.entry
  BY <1>1, <1>2 DEF Frame
<1> HIDE DEF f
<1>4. Disciplined(f) /\ Grows(f, callstack) /\ ~Guarding(f)
  BY <1>2, <1>3 DEF Disciplined, Grows, Guarding
<1>5. held' \in SUBSET Objects
  BY <1>1 DEF IInv, TypeOK, StackDiscipline
<1>6. QED
  BY <1>1, <1>2, <1>3, <1>4, <1>5, InPlaceKeeps

(* A child context on top of the callstack, for a body or a handler.       *)
LEMMA PushContextFacts ==
  ASSUME IInv, mode \in {"run", "return"}, Active.fn # "main",
         NEW ctx \in Contexts, NEW s, s = Append(callstack, ctx)
  PROVE  /\ s \in Seq(Objects) /\ s # <<>> /\ Last(s) \in Contexts
         /\ Extends(s, Active.entry) /\ Extends(s, <<Lobby>>)
         /\ Len(s) = Len(callstack) + 1 /\ Len(callstack) >= Len(Active.entry)
<1>1. ctx \in Contexts /\ ctx \in Objects
  BY ObjectFacts
<1>2. /\ callstack \in Seq(Objects) /\ Active.entry \in Seq(Objects)
      /\ Extends(callstack, Active.entry) /\ Extends(Active.entry, <<Lobby>>)
  BY ActiveFacts
<1>3. <<Lobby>> \in Seq(Objects)
  BY ObjectFacts
<1>4. s \in Seq(Objects) /\ Len(s) = Len(callstack) + 1 /\ s # <<>> /\ Last(s) = ctx
      /\ Extends(s, callstack)
  BY <1>1, <1>2, AppendFacts, AppendExtends DEF Last
<1>5. Extends(s, Active.entry)
  BY <1>2, <1>4, ExtendsTransitive
<1>6. Extends(s, <<Lobby>>)
  BY <1>2, <1>3, <1>4, <1>5, ExtendsTransitive
<1>7. Len(callstack) >= Len(Active.entry)
  BY <1>2 DEF Extends
<1>8. QED
  BY <1>1, <1>4, <1>5, <1>6, <1>7

LEMMA MethodBodyKeeps == ASSUME IInv, MethodBody PROVE IInv'
<1> DEFINE f == [Active EXCEPT !.pc = "body"]
<1>1. /\ mode = "run" /\ Active.fn = "method" /\ Active.pc = "args"
      /\ UNCHANGED <<jmpctx, exc, held>>
  BY DEF MethodBody, Runs
<1>2. PICK ctx \in Contexts : StartDispatch(f, Append(callstack, ctx))
  BY DEF MethodBody
<1> DEFINE s == Append(callstack, ctx)
<1>3. Active \in Frame /\ callstack = Active.entry
  BY <1>1, ActiveFacts DEF Grows
<1>4. f \in Frame /\ f.fn = "method" /\ f.pc = "body" /\ f.entry = Active.entry
  BY <1>1, <1>3 DEF Frame
<1>5. StartDispatch(f, s)
  BY <1>2
<1> HIDE DEF f
<1>6. /\ s \in Seq(Objects) /\ Last(s) \in Contexts
      /\ Extends(s, Active.entry) /\ Extends(s, <<Lobby>>)
      /\ Len(s) = Len(callstack) + 1
  BY <1>1, PushContextFacts
<1> HIDE DEF s
<1>7. Disciplined(f) /\ Grows(f, s) /\ Keeps(Active, f)
  BY <1>1, <1>3, <1>4, <1>6 DEF Disciplined, Grows, Keeps, Guarding
<1>8. exc' \in Excs \cup {NULL} /\ held' \in SUBSET Objects
  BY <1>1 DEF IInv, TypeOK
<1>9. QED
  BY <1>1, <1>4, <1>5, <1>6, <1>7, <1>8, StartDispatchKeeps

LEMMA MethodDoneKeeps == ASSUME IInv, MethodDone PROVE IInv'
<1>1. /\ mode = "return" /\ Active.fn = "method" /\ Active.pc = "body" /\ Return(val)
      /\ callstack' = Front(callstack) /\ UNCHANGED <<jmpctx, exc, held>>
  BY DEF MethodDone, Returned
<1>2. /\ Active.entry \in Seq(Objects) /\ callstack \in Seq(Objects)
      /\ Extends(callstack, Active.entry) /\ Len(callstack) = Len(Active.entry) + 1
  BY <1>1, ActiveFacts DEF Grows
<1>3. callstack' = Active.entry
  BY <1>1, <1>2, ObjectFacts, TopFacts
<1>4. val \in Objects \cup {NULL} /\ held' \in SUBSET Objects
  BY <1>1 DEF IInv, TypeOK
<1>5. ~Guarding(Active)
  BY <1>1 DEF Guarding
<1>6. QED
  BY <1>1, <1>3, <1>4, <1>5, CalleeReturns

-----------------------------------------------------------------------------
(* sk_object__try.                                                         *)

LEMMA TryBlockKeeps == ASSUME IInv, TryBlock PROVE IInv'
<1> DEFINE f == [Active EXCEPT !.pc = "block", !.saved = callstack]
<1>1. /\ mode = "run" /\ Active.fn = "try" /\ Active.pc = "call"
      /\ PushJmpContext /\ StartDispatch(f, callstack) /\ UNCHANGED <<exc, held>>
  BY DEF TryBlock, Runs
<1>2. Active \in Frame /\ callstack = Active.entry /\ callstack \in Seq(Objects)
  BY <1>1, ActiveFacts DEF Grows
<1>3. f \in Frame /\ f.fn = "try" /\ f.pc = "block" /\ f.entry = Active.entry
      /\ f.saved = callstack
  BY <1>1, <1>2 DEF Frame
<1> HIDE DEF f
<1>4. Disciplined(f) /\ Grows(f, callstack) /\ Pushes(Active, f)
  BY <1>1, <1>2, <1>3 DEF Disciplined, Grows, Guarding, Pushes, PushJmpContext
<1>5. QED
  BY <1>1, <1>3, <1>4, EvalArgKeeps

LEMMA TryCatchKeeps == ASSUME IInv, TryCatch PROVE IInv'
<1> DEFINE f == [Active EXCEPT !.pc = "match", !.i = 0, !.res = exc]
<1>1. /\ mode = "jump" /\ Active.fn = "try" /\ Continue(f)
      /\ UNCHANGED <<callstack, jmpctx, exc, held>>
  BY DEF TryCatch, Jumped
<1>2. /\ Active \in Frame /\ Guarding(Active) /\ Disciplined(Active)
      /\ Extends(callstack, Active.entry)
  BY <1>1, ActiveFacts
<1>3. exc \in Objects \cup {NULL}
  BY ObjectFacts DEF IInv, TypeOK
<1>4. f \in Frame /\ f.fn = "try" /\ f.pc = "match" /\ f.entry = Active.entry
      /\ f.saved = Active.saved
  BY <1>1, <1>2, <1>3 DEF Frame
<1> HIDE DEF f
<1>5. Disciplined(f) /\ Grows(f, callstack) /\ Guarding(f)
  BY <1>2, <1>4 DEF Disciplined, Grows, Guarding
<1>6. held' \in SUBSET Objects
  BY <1>1 DEF IInv, TypeOK
<1>7. QED
  BY <1>1, <1>2, <1>4, <1>5, <1>6, InPlaceKeeps

(* sk_exc_pass, in a try or a times.                                       *)
LEMMA PassKeeps ==
  ASSUME IInv, mode = "jump", Pass
  PROVE  IInv'
<1>1. /\ callstack' = Active.saved /\ JumpTo(Front(jmpctx), code)
      /\ UNCHANGED <<exc, held>>
  BY DEF Pass
<1>2. /\ frames # <<>> /\ Guarding(Active) /\ Active.saved = Active.entry
      /\ Active.entry \in Seq(Objects)
  BY ActiveFacts DEF Disciplined
<1>3. OthersTyped /\ code \in Codes
  BY <1>1, <1>2 DEF OthersTyped, IInv, TypeOK, Codes
<1>4. QED
  BY <1>1, <1>2, <1>3, JumpKeeps

LEMMA TryPassKeeps == ASSUME IInv, TryPass PROVE IInv'
BY PassKeeps DEF TryPass, Jumped

LEMMA TimesPassKeeps == ASSUME IInv, TimesPass PROVE IInv'
BY PassKeeps DEF TimesPass, Jumped

LEMMA TryClassKeeps == ASSUME IInv, TryClass PROVE IInv'
<1> DEFINE f == [Active EXCEPT !.pc = "class"]
<1>1. /\ mode = "run" /\ Active.fn = "try" /\ Active.pc = "match"
      /\ EvalArg(f)
  BY DEF TryClass, Runs
<1>2. Active \in Frame /\ Disciplined(Active) /\ Grows(Active, callstack)
  BY <1>1, ActiveFacts
<1>3. f \in Frame /\ f.fn = "try" /\ f.pc = "class" /\ f.entry = Active.entry
      /\ f.saved = Active.saved
  BY <1>1, <1>2 DEF Frame
<1>4. StartDispatch(f, callstack) /\ UNCHANGED <<jmpctx, exc, held>>
  BY <1>1 DEF EvalArg
<1> HIDE DEF f
<1>5. Disciplined(f) /\ Grows(f, callstack) /\ Keeps(Active, f)
  BY <1>1, <1>2, <1>3, <1>4 DEF Disciplined, Grows, Guarding, Keeps
<1>6. QED
  BY <1>1, <1>3, <1>4, <1>5, EvalArgKeeps

LEMMA HandleKeeps ==
  ASSUME IInv, mode \in {"run", "return"}, Active.fn = "try",
         Active.pc \in {"match", "class"}, Handle
  PROVE  IInv'
<1> DEFINE f == [Active EXCEPT !.pc = "handler"]
<1>1. PICK ctx \in Contexts : StartDispatch(f, Append(callstack, ctx))
  BY DEF Handle
<1>2. held' = held \cup {Active.self} /\ UNCHANGED <<jmpctx, exc>>
  BY DEF Handle
<1> DEFINE s == Append(callstack, ctx)
<1>3. Active \in Frame /\ Disciplined(Active) /\ Active.self \in Objects
  BY ActiveFacts DEF Frame
<1>4. f \in Frame /\ f.fn = "try" /\ f.pc = "handler" /\ f.entry = Active.entry
      /\ f.saved = Active.saved
  BY <1>3 DEF Frame
<1>5. StartDispatch(f, s)
  BY <1>1
<1> HIDE DEF f
<1>6. /\ s \in Seq(Objects) /\ Last(s) \in Contexts
      /\ Extends(s, Active.entry) /\ Extends(s, <<Lobby>>)
      /\ Len(s) = Len(callstack) + 1 /\ Len(callstack) >= Len(Active.entry)
  BY PushContextFacts
<1> HIDE DEF s
<1>7. Len(callstack) \in Nat /\ Len(Active.entry) \in Nat
  BY ActiveFacts
<1>8. Len(s) > Len(Active.entry)
  BY <1>6, <1>7
<1>9. Disciplined(f) /\ Grows(f, s) /\ Keeps(Active, f)
  BY <1>2, <1>3, <1>4, <1>6, <1>8 DEF Disciplined, Grows, Keeps, Guarding
<1>10. exc' \in Excs \cup {NULL} /\ held' \in SUBSET Objects
  BY <1>2, <1>3 DEF IInv, TypeOK
<1>11. QED
  BY <1>4, <1>5, <1>6, <1>9, <1>10, StartDispatchKeeps

LEMMA TryMatchedKeeps == ASSUME IInv, TryMatched PROVE IInv'
BY HandleKeeps DEF TryMatched, Returned

LEMMA TryDefaultKeeps == ASSUME IInv, TryDefault PROVE IInv'
BY HandleKeeps DEF TryDefault, Runs

LEMMA TryNotMatchedKeeps == ASSUME IInv, TryNotMatched PROVE IInv'
<1> DEFINE f == [Active EXCEPT !.pc = "match", !.i = @ + 1]
<1>1. /\ mode = "return" /\ Active.fn = "try" /\ Active.pc = "class" /\ Continue(f)
      /\ UNCHANGED <<callstack, jmpctx, exc, held>>
  BY DEF TryNotMatched, Returned
<1>2. Active \in Frame /\ Disciplined(Active) /\ Grows(Active, callstack)
  BY <1>1, ActiveFacts
<1>3. f \in Frame /\ f.fn = "try" /\ f.pc = "match" /\ f.entry = Active.entry
      /\ f.saved = Active.saved
  <2>1. Active.i \in Nat /\ Active.i + 1 \in Nat
    BY <1>2 DEF Frame
  <2>2. QED
    BY <1>1, <1>2, <2>1 DEF Frame
<1> HIDE DEF f
<1>4. Disciplined(f) /\ Grows(f, callstack) /\ (Guarding(Active) <=> Guarding(f))
  BY <1>1, <1>2, <1>3 DEF Disciplined, Grows, Guarding
<1>5. held' \in SUBSET Objects
  BY <1>1 DEF IInv, TypeOK
<1>6. QED
  BY <1>1, <1>3, <1>4, <1>5, InPlaceKeeps

LEMMA TryEndKeeps == ASSUME IInv, TryEnd PROVE IInv'
<1>1. /\ mode \in {"run", "return"} /\ Active.fn = "try"
      /\ Active.pc \in {"block", "handler", "match"}
      /\ Return(Active.self) /\ EndTry /\ UNCHANGED <<exc, held>>
  BY DEF TryEnd, Runs, Returned
<1>2. Active \in Frame /\ Disciplined(Active) /\ Guarding(Active) /\ Active.self \in Objects
  BY <1>1, ActiveFacts DEF Frame, Guarding
<1>3. callstack' = Active.entry /\ jmpctx' = Front(jmpctx)
  BY <1>1, <1>2 DEF EndTry, PopJmpContext, Disciplined
<1>4. held' \in SUBSET Objects
  BY <1>1 DEF IInv, TypeOK
<1>5. QED
  BY <1>1, <1>2, <1>3, <1>4, CalleeReturns

-----------------------------------------------------------------------------
(* sk_number__times.                                                       *)

LEMMA TimesBodyKeeps == ASSUME IInv, TimesBody PROVE IInv'
<1> DEFINE f == [Active EXCEPT !.pc = "body", !.saved = callstack]
<1>1. /\ mode = "run" /\ Active.fn = "times" /\ Active.pc = "loop"
      /\ PushJmpContext /\ StartDispatch(f, callstack) /\ UNCHANGED <<exc, held>>
  BY DEF TimesBody, Runs
<1>2. Active \in Frame /\ callstack = Active.entry /\ callstack \in Seq(Objects)
  BY <1>1, ActiveFacts DEF Grows
<1>3. f \in Frame /\ f.fn = "times" /\ f.pc = "body" /\ f.entry = Active.entry
      /\ f.saved = callstack
  BY <1>1, <1>2 DEF Frame
<1> HIDE DEF f
<1>4. Disciplined(f) /\ Grows(f, callstack) /\ Pushes(Active, f)
  BY <1>1, <1>2, <1>3 DEF Disciplined, Grows, Guarding, Pushes, PushJmpContext
<1>5. QED
  BY <1>1, <1>3, <1>4, EvalArgKeeps

(* A repetition ends: the jump context goes, the loop goes on.             *)
LEMMA RepetitionKeeps ==
  ASSUME IInv, mode \in {"return", "jump"}, Active.fn = "times", Guarding(Active),
         NEW f \in Frame, Continue(f), EndTry, UNCHANGED <<exc, held>>,
         f.fn = "times", f.pc = "loop", f.entry = Active.entry
  PROVE  IInv'
<1>1. frames # <<>> /\ Disciplined(Active) /\ Active.entry \in Seq(Objects)
  BY ActiveFacts
<1>2. callstack' = Active.entry /\ jmpctx' = Front(jmpctx)
  BY <1>1 DEF EndTry, PopJmpContext, Disciplined
<1>3. Disciplined(f) /\ Grows(f, callstack') /\ Pops(Active, f)
  BY <1>2 DEF Disciplined, Grows, Pops, Guarding
<1>4. OthersTyped
  BY <1>1, <1>2 DEF OthersTyped, IInv, TypeOK
<1>5. QED
  BY <1>1, <1>3, <1>4, ContinueKeeps

LEMMA TimesBodyDoneKeeps == ASSUME IInv, TimesBodyDone PROVE IInv'
<1> DEFINE f == [Active EXCEPT !.pc = "loop", !.i = @ + 1, !.res = val]
<1>1. /\ mode = "return" /\ Active.fn = "times" /\ Active.pc = "body" /\ Continue(f)
      /\ EndTry /\ UNCHANGED <<exc, held>>
  BY DEF TimesBodyDone, Returned
<1>2. Active \in Frame /\ Guarding(Active) /\ val \in Objects \cup {NULL}
  BY <1>1, ActiveFacts DEF Guarding, IInv, TypeOK
<1>3. f \in Frame /\ f.fn = "times" /\ f.pc = "loop" /\ f.entry = Active.entry
  <2>1. Active.i \in Nat /\ Active.i + 1 \in Nat
    BY <1>2 DEF Frame
  <2>2. QED
    BY <1>1, <1>2, <2>1 DEF Frame
<1> HIDE DEF f
<1>4. QED
  BY <1>1, <1>2, <1>3, RepetitionKeeps

LEMMA TimesContinueKeeps == ASSUME IInv, TimesContinue PROVE IInv'
<1> DEFINE f == [Active EXCEPT !.pc = "loop", !.i = @ + 1]
<1>1. /\ mode = "jump" /\ Active.fn = "times" /\ Continue(f)
      /\ EndTry /\ UNCHANGED <<exc, held>>
  BY DEF TimesContinue, Jumped
<1>2. Active \in Frame /\ Guarding(Active)
  BY <1>1, ActiveFacts
<1>3. f \in Frame /\ f.fn = "times" /\ f.pc = "loop" /\ f.entry = Active.entry
  <2>1. Active.i \in Nat /\ Active.i + 1 \in Nat
    BY <1>2 DEF Frame
  <2>2. QED
    BY <1>1, <1>2, <2>1 DEF Frame
<1> HIDE DEF f
<1>4. QED
  BY <1>1, <1>2, <1>3, RepetitionKeeps

LEMMA TimesBreakKeeps == ASSUME IInv, TimesBreak PROVE IInv'
<1>1. /\ mode = "jump" /\ Active.fn = "times"
      /\ Return(Active.res) /\ EndTry /\ UNCHANGED <<exc, held>>
  BY DEF TimesBreak, Jumped
<1>2. /\ Active \in Frame /\ Disciplined(Active) /\ Guarding(Active)
      /\ Active.res \in Objects \cup {NULL}
  BY <1>1, ActiveFacts DEF Frame
<1>3. callstack' = Active.entry /\ jmpctx' = Front(jmpctx)
  BY <1>1, <1>2 DEF EndTry, PopJmpContext, Disciplined
<1>4. held' \in SUBSET Objects
  BY <1>1 DEF IInv, TypeOK
<1>5. QED
  BY <1>1, <1>2, <1>3, <1>4, CalleeReturns

LEMMA TimesEndKeeps == ASSUME IInv, TimesEnd PROVE IInv'
<1>1. /\ mode = "run" /\ Active.fn = "times" /\ Active.pc = "loop"
      /\ Return(Active.res) /\ UNCHANGED <<callstack, jmpctx, exc, held>>
  BY DEF TimesEnd, Runs
<1>2. /\ callstack = Active.entry /\ ~Guarding(Active) /\ Active.res \in Objects \cup {NULL}
  BY <1>1, ActiveFacts DEF Frame, Grows, Guarding
<1>3. held' \in SUBSET Objects
  BY <1>1 DEF IInv, TypeOK
<1>4. QED
  BY <1>1, <1>2, <1>3, CalleeReturns

-----------------------------------------------------------------------------
(* main.                                                                   *)

LEMMA RunFileKeeps == ASSUME IInv, RunFile PROVE IInv'
<1> DEFINE f == [Active EXCEPT !.i = @ - 1]
<1>1. /\ mode = "run" /\ Active.fn = "main" /\ Active.pc = "next" /\ Active.i > 0
      /\ StartDispatch(f, <<Lobby>>) /\ UNCHANGED <<jmpctx, exc, held>>
  BY DEF RunFile, Runs
<1>2. Active \in Frame /\ Active.entry = <<>>
  BY <1>1, ActiveFacts DEF Disciplined
<1>3. f \in Frame /\ f.fn = "main" /\ f.pc = "next" /\ f.entry = Active.entry
  <2>1. Active.i - 1 \in Nat
    BY <1>1, <1>2 DEF Frame
  <2>2. QED
    BY <1>1, <1>2, <2>1 DEF Frame
<1> HIDE DEF f
<1>4. <<Lobby>> \in Seq(Objects) /\ Extends(<<Lobby>>, <<>>) /\ Extends(<<Lobby>>, <<Lobby>>)
  BY ObjectFacts DEF Extends
<1>5. Disciplined(f) /\ Grows(f, <<Lobby>>) /\ Keeps(Active, f)
  BY <1>1, <1>2, <1>3 DEF Disciplined, Grows, Guarding, Keeps
<1>6. exc' \in Excs \cup {NULL} /\ held' \in SUBSET Objects
  BY <1>1 DEF IInv, TypeOK
<1>7. QED
  BY <1>1, <1>2, <1>3, <1>4, <1>5, <1>6, StartDispatchKeeps

LEMMA FileDoneKeeps == ASSUME IInv, FileDone PROVE IInv'
<1>1. /\ mode = "return" /\ Continue(Active) /\ UNCHANGED <<callstack, jmpctx, exc, held>>
  BY DEF FileDone, Returned
<1>2. Active \in Frame /\ Disciplined(Active) /\ Grows(Active, callstack)
  BY <1>1, ActiveFacts
<1>3. held' \in SUBSET Objects
  BY <1>1 DEF IInv, TypeOK
<1>4. QED
  BY <1>1, <1>2, <1>3, InPlaceKeeps

LEMMA ExitKeeps == ASSUME IInv, Exit PROVE IInv'
<1>1. /\ mode = "run" /\ mode' = "exit"
      /\ UNCHANGED <<frames, callstack, jmpctx, exc, held, val, code>>
  BY DEF Exit, Runs
<1>2. TypeOK' /\ JumpChain'
  BY <1>1 DEF IInv, TypeOK, JumpChain
<1>3. CallstackShape'
  BY <1>1 DEF IInv, CallstackShape, Above
<1>4. StackDiscipline'
  BY <1>1 DEF IInv, StackDiscipline
<1>5. QED
  BY <1>2, <1>3, <1>4 DEF IInv

LEMMA StutterKeeps == ASSUME IInv, UNCHANGED vars PROVE IInv'
<1>1. UNCHANGED <<frames, callstack, jmpctx, exc, held, mode, val, code>>
  BY DEF vars
<1>2. TypeOK' /\ JumpChain'
  BY <1>1 DEF IInv, TypeOK, JumpChain
<1>3. CallstackShape'
  BY <1>1 DEF IInv, CallstackShape, Above
<1>4. StackDiscipline'
  BY <1>1 DEF IInv, StackDiscipline, Active
<1>5. QED
  BY <1>2, <1>3, <1>4 DEF IInv

-----------------------------------------------------------------------------
(* The inductive invariant.                                                *)

LEMMA InitIInv == Init => IInv
<1> SUFFICES ASSUME Init PROVE IInv
  OBVIOUS
<1>1. PICK n \in 1..MaxFiles :
        frames = <<[NewFrame("main", "next", <<>>, Lobby, n) EXCEPT !.i = n]>>
  BY DEF Init
<1> DEFINE f == [NewFrame("main", "next", <<>>, Lobby, n) EXCEPT !.i = n]
<1>2. n \in Nat
  BY BoundsAreNat
<1>3. f \in Frame /\ f.fn = "main" /\ f.pc = "next" /\ f.entry = <<>>
  BY <1>2, ObjectFacts, EmptySeq DEF NewFrame, Frame
<1>4. frames = <<f>>
  BY <1>1
<1> HIDE DEF f
<1>5. frames \in Seq(Frame) /\ Len(frames) = 1 /\ frames[1] = f /\ DOMAIN frames = {1}
      /\ frames # <<>>
  BY <1>3, <1>4
<1>6. /\ callstack = <<>> /\ jmpctx = <<>> /\ exc = NULL /\ held = {Nil} \cup Values
      /\ mode = "run" /\ val = NULL /\ code = "none"
  BY DEF Init
<1>7. ~Guarding(f)
  BY <1>3 DEF Guarding
<1>8. TypeOK
  BY <1>5, <1>6, ObjectFacts, EmptySeq DEF TypeOK
<1>9. JumpChain
  BY <1>5, <1>6, <1>7, EmptySeq DEF JumpChain
<1>10. Extends(<<>>, <<>>) /\ Above(1) = <<>> /\ Grows(f, <<>>)
  BY <1>3, <1>5, <1>6 DEF Extends, Above, Grows
<1>11. CallstackShape
  BY <1>5, <1>6, <1>7, <1>10 DEF CallstackShape
<1>12. StackDiscipline
  BY <1>3, <1>5, <1>6, <1>10 DEF StackDiscipline
<1>13. QED
  BY <1>8, <1>9, <1>11, <1>12 DEF IInv

LEMMA NextIInv == IInv /\ [Next]_vars => IInv'
<1> SUFFICES ASSUME IInv, [Next]_vars PROVE IInv'
  OBVIOUS
<1>1. CASE Main
  BY <1>1, RunFileKeeps, FileDoneKeeps, ExitKeeps DEF Main
<1>2. CASE Avalanche
  BY <1>2, LiteralKeeps, TerminatorKeeps, LookupMessageKeeps, FinishDispatchKeeps DEF Avalanche
<1>3. CASE Dispatch
  BY <1>3, NotAnsweredKeeps, AnswerSlotKeeps, NobodyKeeps, CallReturnedKeeps,
     CallNativeKeeps, CallMethodKeeps, CallTryKeeps, CallTimesKeeps DEF Dispatch
<1>4. CASE Native
  BY <1>4, NativeArgKeeps, NativeArgDoneKeeps, NativeReturnKeeps, NativeSendKeeps,
     NativeSentKeeps, NativeRaiseKeeps, NativeJumpKeeps, NativeCrashKeeps DEF Native
<1>5. CASE Method
  BY <1>5, MethodArgKeeps, MethodArgDoneKeeps, MethodBodyKeeps, MethodDoneKeeps DEF Method
<1>6. CASE Try
  BY <1>6, TryBlockKeeps, TryCatchKeeps, TryPassKeeps, TryClassKeeps, TryMatchedKeeps,
     TryNotMatchedKeeps, TryDefaultKeeps, TryEndKeeps DEF Try
<1>7. CASE Times
  BY <1>7, TimesBodyKeeps, TimesBodyDoneKeeps, TimesContinueKeeps, TimesBreakKeeps,
     TimesPassKeeps, TimesEndKeeps DEF Times
<1>8. CASE Stopped
  BY <1>8, StutterKeeps DEF Stopped
<1>9. CASE UNCHANGED vars
  BY <1>9, StutterKeeps
<1>10. QED
  BY <1>1, <1>2, <1>3, <1>4, <1>5, <1>6, <1>7, <1>8, <1>9 DEF Next

(* The invariants hold in every reachable state, whatever program runs.    *)
THEOREM AlwaysIInv == Spec => []IInv
BY InitIInv, NextIInv, PTL DEF Spec

(* Every variable and frame field keeps its type.                          *)
THEOREM TypeCorrect == Spec => []TypeOK
<1>1. IInv => TypeOK
  BY DEF IInv
<1>2. QED
  BY AlwaysIInv, <1>1, PTL

(* The chain of jump contexts is that of the live calls inside a           *)
(* sk_exc_try, outermost first: longjmp never enters a returned function.  *)
THEOREM JumpChainHolds == Spec => []JumpChain
<1>1. IInv => JumpChain
  BY DEF IInv
<1>2. QED
  BY AlwaysIInv, <1>1, PTL

(* The callstack of contexts is what each active call's program point says *)
(* it is.                                                                  *)
THEOREM CallstackHolds == Spec => []CallstackShape
<1>1. IInv => CallstackShape
  BY DEF IInv
<1>2. QED
  BY AlwaysIInv, <1>1, PTL

(* Calls are nested as the C functions call each other, and a null pointer *)
(* is returned to the dispatch loop only.                                  *)
THEOREM StackDisciplineHolds == Spec => []StackDiscipline
<1>1. IInv => StackDiscipline
  BY DEF IInv
<1>2. QED
  BY AlwaysIInv, <1>1, PTL

-----------------------------------------------------------------------------
(* No jump abandons a call that would have handled it.                     *)

(* A jump to the head of `chain' leaves only calls that do not handle it.  *)
LEMMA JumpSkipsNone ==
  ASSUME IInv, frames # <<>>, NEW c, NEW chain, JumpTo(chain, c),
         \/ chain = jmpctx
         \/ chain = Front(jmpctx) /\ Guarding(Active) /\ ~Handles(Active, c)
  PROVE  /\ \A d \in Len(frames') + 1 .. Len(frames) : ~Handles(frames[d], c)
         /\ code' = c
<1>1. /\ frames \in Seq(Frame) /\ jmpctx \in Seq(Nat) /\ JumpChain
      /\ DOMAIN frames = 1..Len(frames) /\ DOMAIN jmpctx = 1..Len(jmpctx)
      /\ Len(frames) \in Nat /\ Len(jmpctx) \in Nat
      /\ Active = frames[Len(frames)]
  BY ActiveIsFrame DEF IInv, TypeOK
<1>2. code' = c
  BY DEF JumpTo, Die, Control
<1>3. Len(frames') \in Nat /\ \A k \in DOMAIN chain : chain[k] <= Len(frames')
      /\ chain \in Seq(Nat)
  <2>1. CASE chain = <<>>
    BY <2>1, EmptySeq DEF JumpTo, Die
  <2>2. CASE chain # <<>>
    <3>1. JumpChain' /\ frames' \in Seq(Frame) /\ jmpctx' = chain
      BY <1>1, <2>2, JumpChainKept DEF IInv, JumpTo
    <3>2. chain \in Seq(Nat)
      <4>1. jmpctx # <<>>
        BY <1>1, <2>2, GuardingHead DEF IInv
      <4>2. QED
        BY <1>1, <4>1, FrontFacts
    <3>3. Len(frames') \in Nat /\ DOMAIN frames' = 1..Len(frames')
      BY <3>1
    <3>4. \A k \in DOMAIN chain : chain[k] \in DOMAIN frames'
      BY <3>1 DEF JumpChain
    <3>5. QED
      BY <3>2, <3>3, <3>4
  <2>3. QED
    BY <2>1, <2>2
<1>4. SUFFICES ASSUME NEW d \in Len(frames') + 1 .. Len(frames), Handles(frames[d], c)
               PROVE FALSE
  BY <1>2
<1>5. d \in DOMAIN frames /\ Guarding(frames[d]) /\ d > Len(frames')
  <2>1. Len(frames') \in Nat /\ Len(frames) \in Nat /\ d \in Int
        /\ d >= Len(frames') + 1 /\ d <= Len(frames)
    BY <1>1, <1>3
  <2>2. d \in 1..Len(frames) /\ d > Len(frames')
    BY <2>1
  <2>3. QED
    BY <1>1, <1>4, <2>2 DEF Handles
<1>6. PICK k \in DOMAIN jmpctx : jmpctx[k] = d
  BY <1>1, <1>5 DEF JumpChain
<1>7. CASE chain = jmpctx
  BY <1>3, <1>5, <1>6, <1>7
<1>8. CASE chain = Front(jmpctx) /\ Guarding(Active) /\ ~Handles(Active, c)
  <2>1. jmpctx # <<>> /\ Last(jmpctx) = Len(frames)
    BY <1>8, GuardingHead DEF IInv
  <2>2. /\ Len(chain) = Len(jmpctx) - 1 /\ \A m \in 1..Len(jmpctx) - 1 : chain[m] = jmpctx[m]
    BY <1>1, <1>8, <2>1, FrontFacts
  <2>3. k # Len(jmpctx)
    BY <1>1, <1>4, <1>6, <1>8, <2>1 DEF Last
  <2>4. k \in 1..Len(jmpctx) - 1
    BY <1>1, <1>6, <2>3
  <2>5. chain[k] = d /\ k \in DOMAIN chain
    <3>1. DOMAIN chain = 1..Len(chain)
      BY <1>3
    <3>2. QED
      BY <1>6, <2>2, <2>4, <3>1
  <2>6. QED
    BY <1>3, <1>5, <2>5
<1>9. QED
  BY <1>7, <1>8

NothingSkipped ==
  mode' = "jump" \/ (mode' = "abort" /\ code' \in JumpCodes) =>
    \A d \in Len(frames') + 1 .. Len(frames) : ~Handles(frames[d], code')

(* A step that neither jumps nor kills the process over a jump.            *)
LEMMA NoJump ==
  ASSUME mode' \in {"run", "return", "exit"}
         \/ (mode' = "abort" /\ code' \in {"CRASH", "activatable"})
  PROVE  NothingSkipped
BY DEF NothingSkipped, JumpCodes

LEMMA RaiseSkipsNone == ASSUME IInv, mode = "run", Raise PROVE NothingSkipped
<1>1. JumpTo(jmpctx, "EXCEPTION")
  BY DEF Raise
<1>2. frames # <<>>
  BY ActiveFacts
<1>3. QED
  BY <1>1, <1>2, JumpSkipsNone DEF NothingSkipped

LEMMA NativeJumpSkipsNone == ASSUME IInv, NativeJump PROVE NothingSkipped
<1>1. PICK c \in {"BREAK", "CONTINUE"} : JumpTo(jmpctx, c)
  BY DEF NativeJump
<1>2. frames # <<>>
  BY ActiveFacts DEF NativeJump, Done, Runs
<1>3. QED
  BY <1>1, <1>2, JumpSkipsNone DEF NothingSkipped

LEMMA PassSkipsNone ==
  ASSUME IInv, mode = "jump", Pass, ~Handles(Active, code)
  PROVE  NothingSkipped
<1>1. JumpTo(Front(jmpctx), code)
  BY DEF Pass
<1>2. frames # <<>> /\ Guarding(Active)
  BY ActiveFacts
<1>3. QED
  BY <1>1, <1>2, JumpSkipsNone DEF NothingSkipped

LEMMA NextSkipsNone == ASSUME IInv, [Next]_vars PROVE NothingSkipped
<1>1. CASE Main
  BY <1>1, NoJump DEF Main, RunFile, FileDone, Exit, StartDispatch, Call, Continue, Control
<1>2. CASE Avalanche
  BY <1>2, NoJump DEF Avalanche, Literal, Terminator, LookupMessage, FinishDispatch,
                      Continue, Return, Control
<1>3. CASE Dispatch
  <2>1. CASE NotAnswered \/ AnswerSlot \/ CallReturned
    BY <2>1, NoJump DEF NotAnswered, AnswerSlot, CallReturned, AskNext, Answered, Die,
                        Continue, Return, Control
  <2>2. CASE Nobody
    BY <2>2, RaiseSkipsNone DEF Nobody
  <2>3. CASE CallNative \/ CallMethod \/ CallTry \/ CallTimes
    BY <2>3, NoJump DEF CallNative, CallMethod, CallTry, CallTimes, Call, Control
  <2>4. QED
    BY <1>3, <2>1, <2>2, <2>3 DEF Dispatch
<1>4. CASE Native
  <2>1. CASE NativeArg \/ NativeArgDone \/ NativeReturn \/ NativeSend \/ NativeSent
    BY <2>1, NoJump DEF NativeArg, NativeArgDone, NativeReturn, NativeSend, NativeSent,
                        EvalArg, StartDispatch, SendSimple, Call, Continue, Return, Control
  <2>2. CASE NativeRaise
    BY <2>2, RaiseSkipsNone DEF NativeRaise, Done, Runs
  <2>3. CASE NativeJump
    BY <2>3, NativeJumpSkipsNone
  <2>4. CASE NativeCrash
    BY <2>4, NoJump DEF NativeCrash, Die, Control
  <2>5. QED
    BY <1>4, <2>1, <2>2, <2>3, <2>4 DEF Native
<1>5. CASE Method
  BY <1>5, NoJump DEF Method, MethodArg, MethodArgDone, MethodBody, MethodDone, EvalArg,
                      StartDispatch, Call, Continue, Return, Control
<1>6. CASE Try
  <2>1. CASE TryPass
    BY <2>1, PassSkipsNone DEF TryPass, Jumped, Handles
  <2>2. CASE TryBlock \/ TryCatch \/ TryClass \/ TryMatched \/ TryNotMatched
             \/ TryDefault \/ TryEnd
    BY <2>2, NoJump DEF TryBlock, TryCatch, TryClass, TryMatched, TryNotMatched, TryDefault,
                        TryEnd, Handle, EvalArg, StartDispatch, Call, Continue, Return, Control
  <2>3. QED
    BY <1>6, <2>1, <2>2 DEF Try
<1>7. CASE Times
  <2>1. CASE TimesPass
    BY <2>1, PassSkipsNone DEF TimesPass, Jumped, Handles
  <2>2. CASE TimesBody \/ TimesBodyDone \/ TimesContinue \/ TimesBreak \/ TimesEnd
    BY <2>2, NoJump DEF TimesBody, TimesBodyDone, TimesContinue, TimesBreak, TimesEnd,
                        StartDispatch, Call, Continue, Return, Control
  <2>3. QED
    BY <1>7, <2>1, <2>2 DEF Times
<1>8. CASE UNCHANGED vars
  <2>1. frames' = frames
    BY <1>8 DEF vars
  <2>2. Len(frames) \in Nat
    BY DEF IInv, TypeOK
  <2>3. Len(frames') + 1 .. Len(frames) = {}
    BY <2>1, <2>2
  <2>4. QED
    BY <2>3 DEF NothingSkipped
<1>9. QED
  BY <1>1, <1>2, <1>3, <1>4, <1>5, <1>6, <1>7, <1>8 DEF Next, Stopped

(* An exception, a break or a continue reaches the innermost call that     *)
(* handles it, and kills the process only when there is none.              *)
THEOREM HandlersReached == Spec => NoHandlerSkipped
<1>1. IInv /\ [Next]_vars => [NothingSkipped]_vars
  BY NextSkipsNone
<1>2. Spec => [][NothingSkipped]_vars
  BY AlwaysIInv, <1>1, PTL DEF Spec
<1>3. QED
  BY <1>2 DEF NoHandlerSkipped, NothingSkipped

-----------------------------------------------------------------------------
(* A call gives back the callstack it was called with.                     *)

Restores == mode' = "return" => callstack' = Active.entry

LEMMA FinishRestores == ASSUME IInv, FinishDispatch PROVE Restores
<1>1. /\ mode = "run" /\ Active.fn = "avalanche" /\ callstack' = Front(callstack)
  BY DEF FinishDispatch, Runs
<1>2. /\ Active.entry \in Seq(Objects) /\ callstack \in Seq(Objects)
      /\ Extends(callstack, Active.entry) /\ Len(callstack) = Len(Active.entry) + 1
  BY <1>1, ActiveFacts DEF Grows
<1>3. QED
  BY <1>1, <1>2, ObjectFacts, TopFacts DEF Restores

LEMMA AnsweredRestores ==
  ASSUME IInv, mode \in {"run", "return"}, NEW v, Answered(v)
  PROVE  Restores
<1>1. CASE Active.fn = "avalanche" /\ mode' = "run"
  BY <1>1 DEF Restores
<1>2. CASE Active.fn = "send" /\ callstack' = Front(callstack)
  <2>1. /\ Active.entry \in Seq(Objects) /\ Active.self \in Objects
        /\ callstack = Append(Active.entry, Active.self)
    BY <1>2, ActiveFacts DEF Grows, Frame
  <2>2. Extends(callstack, Active.entry) /\ Len(callstack) = Len(Active.entry) + 1
        /\ callstack \in Seq(Objects)
    BY <2>1, AppendFacts, AppendExtends
  <2>3. QED
    BY <1>2, <2>1, <2>2, TopFacts DEF Restores
<1>3. QED
  BY <1>1, <1>2 DEF Answered, Continue, Control

LEMMA NativeRestores ==
  ASSUME IInv, NativeReturn \/ NativeSent
  PROVE  Restores
<1>1. mode \in {"run", "return"} /\ Active.fn = "native" /\ UNCHANGED callstack
  BY DEF NativeReturn, NativeSent, Done, Runs, Returned
<1>2. QED
  BY <1>1, NativeFacts DEF Restores

LEMMA MethodRestores == ASSUME IInv, MethodDone PROVE Restores
<1>1. /\ mode = "return" /\ Active.fn = "method" /\ Active.pc = "body"
      /\ callstack' = Front(callstack)
  BY DEF MethodDone, Returned
<1>2. /\ Active.entry \in Seq(Objects) /\ callstack \in Seq(Objects)
      /\ Extends(callstack, Active.entry) /\ Len(callstack) = Len(Active.entry) + 1
  BY <1>1, ActiveFacts DEF Grows
<1>3. QED
  BY <1>1, <1>2, ObjectFacts, TopFacts DEF Restores

(* try, and a times that is broken off, restore what setjmp saved.         *)
LEMMA EndTryRestores ==
  ASSUME IInv, TryEnd \/ TimesBreak
  PROVE  Restores
<1>1. mode \in {"run", "return", "jump"} /\ EndTry /\ Guarding(Active)
  <2>1. CASE TryEnd
    BY <2>1 DEF TryEnd, Runs, Returned, Guarding
  <2>2. CASE TimesBreak
    BY <2>2, ActiveFacts DEF TimesBreak, Jumped
  <2>3. QED
    BY <2>1, <2>2
<1>2. Active.saved = Active.entry
  BY <1>1, ActiveFacts DEF Disciplined
<1>3. QED
  BY <1>1, <1>2 DEF EndTry, Restores

LEMMA TimesEndRestores == ASSUME IInv, TimesEnd PROVE Restores
<1>1. mode = "run" /\ Active.fn = "times" /\ Active.pc = "loop" /\ UNCHANGED callstack
  BY DEF TimesEnd, Runs
<1>2. QED
  BY <1>1, ActiveFacts DEF Grows, Restores

(* A longjmp is no return.                                                 *)
LEMMA JumpIsNoReturn ==
  ASSUME NEW c, NEW chain, JumpTo(chain, c)
  PROVE  Restores
BY DEF JumpTo, Die, Control, Restores

LEMMA NextRestores == ASSUME IInv, Next PROVE Restores
<1>1. CASE Main
  BY <1>1 DEF Main, RunFile, FileDone, Exit, StartDispatch, Call, Continue, Control, Restores
<1>2. CASE Avalanche
  <2>1. CASE Literal \/ Terminator \/ LookupMessage
    BY <2>1 DEF Literal, Terminator, LookupMessage, Continue, Control, Restores
  <2>2. QED
    BY <1>2, <2>1, FinishRestores DEF Avalanche
<1>3. CASE Dispatch
  <2>1. CASE NotAnswered
    BY <2>1 DEF NotAnswered, AskNext, Continue, Control, Restores
  <2>2. CASE AnswerSlot
    <3>1. CASE Die("activatable")
      BY <3>1 DEF Die, Control, Restores
    <3>2. QED
      BY <2>2, <3>1, AnsweredRestores DEF AnswerSlot
  <2>3. CASE Nobody
    BY <2>3, JumpIsNoReturn DEF Nobody, Raise
  <2>4. CASE CallReturned
    <3>1. CASE AskNext
      BY <3>1 DEF AskNext, Continue, Control, Restores
    <3>2. QED
      BY <2>4, <3>1, AnsweredRestores DEF CallReturned
  <2>5. CASE CallNative \/ CallMethod \/ CallTry \/ CallTimes
    BY <2>5 DEF CallNative, CallMethod, CallTry, CallTimes, Call, Control, Restores
  <2>6. QED
    BY <1>3, <2>1, <2>2, <2>3, <2>4, <2>5 DEF Dispatch
<1>4. CASE Native
  <2>1. CASE NativeArg \/ NativeArgDone \/ NativeSend
    BY <2>1 DEF NativeArg, NativeArgDone, NativeSend, EvalArg, StartDispatch, SendSimple,
                Call, Continue, Control, Restores
  <2>2. CASE NativeRaise \/ NativeJump
    BY <2>2, JumpIsNoReturn DEF NativeRaise, NativeJump, Raise
  <2>3. CASE NativeCrash
    BY <2>3 DEF NativeCrash, Die, Control, Restores
  <2>4. QED
    BY <1>4, <2>1, <2>2, <2>3, NativeRestores DEF Native
<1>5. CASE Method
  <2>1. CASE MethodArg \/ MethodArgDone \/ MethodBody
    BY <2>1 DEF MethodArg, MethodArgDone, MethodBody, EvalArg, StartDispatch, Call,
                Continue, Control, Restores
  <2>2. QED
    BY <1>5, <2>1, MethodRestores DEF Method
<1>6. CASE Try
  <2>1. CASE TryPass
    BY <2>1, JumpIsNoReturn DEF TryPass, Pass
  <2>2. CASE TryBlock \/ TryCatch \/ TryClass \/ TryMatched \/ TryNotMatched \/ TryDefault
    BY <2>2 DEF TryBlock, TryCatch, TryClass, TryMatched, TryNotMatched, TryDefault,
                Handle, EvalArg, StartDispatch, Call, Continue, Control, Restores
  <2>3. QED
    BY <1>6, <2>1, <2>2, EndTryRestores DEF Try
<1>7. CASE Times
  <2>1. CASE TimesPass
    BY <2>1, JumpIsNoReturn DEF TimesPass, Pass
  <2>2. CASE TimesBody \/ TimesBodyDone \/ TimesContinue
    BY <2>2 DEF TimesBody, TimesBodyDone, TimesContinue, StartDispatch, Call, Continue,
                Control, Restores
  <2>3. QED
    BY <1>7, <2>1, <2>2, EndTryRestores, TimesEndRestores DEF Times
<1>8. CASE Stopped
  BY <1>8 DEF Stopped, vars, Restores
<1>9. QED
  BY <1>1, <1>2, <1>3, <1>4, <1>5, <1>6, <1>7, <1>8 DEF Next

(* A call returns with the callstack it was called with, whatever was      *)
(* raised, caught, broken off or continued inside it.                      *)
THEOREM CallstackRestored == Spec => ReturnRestores
<1>1. IInv /\ [Next]_vars => [Restores]_vars
  BY NextRestores
<1>2. Spec => [][Restores]_vars
  BY AlwaysIInv, <1>1, PTL DEF Spec
<1>3. QED
  BY <1>2 DEF ReturnRestores, Restores
=============================================================================
