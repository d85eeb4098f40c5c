------------------------- MODULE InjaRendererProofs -------------------------
(***************************************************************************)
(* Proofs about the parser: types, and that every jump of a program has    *)
(* its destination or is waited for, for templates of any length.          *)
(* Proofs about the renderer, for templates of any length, loops over any  *)
(* number of elements and any number of levels: what the compiler lays out *)
(* is such that the interpreter finds the values it tests, and, when the   *)
(* statements of the template nest, such that the levels it keeps are      *)
(* those of the loops around it.                                           *)
(***************************************************************************)
EXTENDS InjaRenderer, SequenceTheorems, FunctionTheorems, FiniteSetTheorems, TLAPS

(***************************************************************************)
(* The parser                                                              *)
(***************************************************************************)

(* Facts about sequences *)

LEMMA FunctionIsSeq ==
  ASSUME NEW S, NEW n \in Nat, NEW f \in [1..n -> S]
  PROVE  f \in Seq(S) /\ Len(f) = n
OBVIOUS

LEMMA BelowLast == \A m \in Nat : \A j \in 1..m : j # m => j \in 1..(m - 1)
OBVIOUS

(* A stack without its last element. *)
LEMMA PoppedStack ==
  ASSUME NEW S, NEW stack \in Seq(S), stack # <<>>
  PROVE  /\ popped(stack) \in Seq(S)
         /\ Len(stack) \in Nat \ {0}
         /\ Len(popped(stack)) = Len(stack) - 1
         /\ \A j \in 1..(Len(stack) - 1) : popped(stack)[j] = stack[j]
         /\ back(stack) \in S
<1>1. Len(stack) \in Nat \ {0} /\ \A j \in 1..Len(stack) : stack[j] \in S
  BY LenProperties, ElementOfSeq, EmptySeq
<1>2. Len(stack) - 1 \in Nat /\ (Len(stack) - 1) - 1 + 1 = Len(stack) - 1
  BY <1>1
<1>3. \A j \in 1..(Len(stack) - 1) : stack[j] \in S
  BY <1>1
<1>4. /\ popped(stack) \in Seq(S)
      /\ Len(popped(stack)) = IF 1 <= Len(stack) - 1 THEN (Len(stack) - 1) - 1 + 1 ELSE 0
      /\ \A j \in 1..((Len(stack) - 1) - 1 + 1) : popped(stack)[j] = stack[1 + j - 1]
  BY <1>2, <1>3, SubSeqProperties DEF popped
<1>5. (Len(stack) - 1) - 1 + 1 = Len(stack) - 1 /\ \A j \in 1..(Len(stack) - 1) : 1 + j - 1 = j
  BY <1>1
<1>6. \A j \in 1..(Len(stack) - 1) : popped(stack)[j] = stack[j]
  BY <1>4, <1>5
<1>7. Len(popped(stack)) = Len(stack) - 1
  <2>1. Len(popped(stack)) = IF 1 <= Len(stack) - 1 THEN Len(stack) - 1 ELSE 0
    BY <1>4, <1>5
  <2>2. 1 <= Len(stack) - 1 \/ Len(stack) - 1 = 0
    <3>1. \A m \in Nat : m # 0 => 1 <= m - 1 \/ m - 1 = 0
      OBVIOUS
    <3>2. Len(stack) \in Nat /\ Len(stack) # 0
      BY <1>1
    <3> QED  BY <3>1, <3>2
  <2>3. ~(1 <= 0)
    OBVIOUS
  <2> QED  BY <2>1, <2>2, <2>3
<1>8. back(stack) \in S
  BY <1>1 DEF back
<1> QED  BY <1>1, <1>4, <1>6, <1>7, <1>8

(* A stack with one element more. *)
LEMMA PushedStack ==
  ASSUME NEW S, NEW stack \in Seq(S), NEW x \in S
  PROVE  /\ Append(stack, x) \in Seq(S)
         /\ DOMAIN Append(stack, x) = DOMAIN stack \cup {Len(stack) + 1}
         /\ Append(stack, x)[Len(stack) + 1] = x
         /\ \A j \in DOMAIN stack : Append(stack, x)[j] = stack[j]
<1>1. Len(stack) \in Nat /\ DOMAIN stack = 1..Len(stack)
  BY LenProperties
<1>2. /\ Append(stack, x) \in Seq(S) /\ Len(Append(stack, x)) = Len(stack) + 1
      /\ Append(stack, x)[Len(stack) + 1] = x
      /\ \A j \in 1..Len(stack) : Append(stack, x)[j] = stack[j]
  BY AppendProperties
<1>3. DOMAIN Append(stack, x) = 1..(Len(stack) + 1)
  BY <1>2, LenProperties
<1> QED  BY <1>1, <1>2, <1>3

(* A stack whose last element is replaced. *)
LEMMA ReplacedBack ==
  ASSUME NEW S, NEW stack \in Seq(S), stack # <<>>, NEW x \in S
  PROVE  /\ withBack(stack, x) \in Seq(S)
         /\ DOMAIN withBack(stack, x) = 1..Len(stack)
         /\ \A j \in 1..(Len(stack) - 1) : withBack(stack, x)[j] = stack[j]
         /\ withBack(stack, x)[Len(stack)] = x
BY LenProperties, ElementOfSeq, EmptySeq, ExceptSeq DEF withBack

(* The program c is b with the destination `to` filled in at S, and more    *)
(* behind it; a literal may have been taken over.                           *)
Grown(b, c, S, to) ==
  /\ Len(b) \in Nat /\ Len(c) \in Nat /\ Len(b) <= Len(c)
  /\ \A k \in PositionsOf(b) :
       /\ \/ opOf(c, k) = opOf(b, k)
          \/ opOf(b, k) = "Literal" /\ opOf(c, k) = "Callback"
       /\ k \in S => argsOf(c, k) = to
       /\ k \notin S => argsOf(c, k) = argsOf(b, k)

(* no jump and no loop is taken over *)
LEMMA GrownKeepsOps ==
  ASSUME NEW b, NEW c, NEW S, NEW to, Grown(b, c, S, to), NEW k \in PositionsOf(b),
         NEW o, o \notin {"Literal", "Callback"}
  PROVE  opOf(c, k) = o <=> opOf(b, k) = o
BY DEF Grown

LEMMA FilledIsGrown ==
  ASSUME bytecodes \in Seq(Bytecode), NEW S, NEW to \in Nat
  PROVE  /\ Filled(S, to) \in Seq(Bytecode)
         /\ Len(Filled(S, to)) = Len(bytecodes)
         /\ Grown(bytecodes, Filled(S, to), S, to)
<1> DEFINE f == Filled(S, to)
           n == Len(bytecodes)
<1>1. n \in Nat /\ DOMAIN bytecodes = 1..n
  BY LenProperties
<1>2. \A j \in 1..n : bytecodes[j] \in Bytecode
  BY <1>1, ElementOfSeq
<1>3. f = [j \in 1..n |->
             IF j - 1 \in S THEN [bytecodes[j] EXCEPT !.args = to] ELSE bytecodes[j]]
  BY <1>1 DEF Filled
<1>4. \A j \in 1..n : [bytecodes[j] EXCEPT !.args = to] \in Bytecode
  BY <1>2 DEF Bytecode
<1>5. f \in [1..n -> Bytecode]
  BY <1>2, <1>3, <1>4
<1>6. f \in Seq(Bytecode) /\ Len(f) = n
  BY <1>1, <1>5, FunctionIsSeq
<1>7. ASSUME NEW k \in PositionsOf(bytecodes)
      PROVE  /\ opOf(f, k) = opOf(bytecodes, k)
             /\ k \in S => argsOf(f, k) = to
             /\ k \notin S => argsOf(f, k) = argsOf(bytecodes, k)
  <2>1. k + 1 \in 1..n /\ (k + 1) - 1 = k
    BY <1>1 DEF PositionsOf
  <2>2. bytecodes[k + 1] \in Bytecode
    BY <2>1, <1>2
  <2>3. k \in S => f[k + 1] = [bytecodes[k + 1] EXCEPT !.args = to]
    BY <2>1, <1>3
  <2>4. k \notin S => f[k + 1] = bytecodes[k + 1]
    BY <2>1, <1>3
  <2> QED  BY <2>2, <2>3, <2>4 DEF opOf, argsOf, Bytecode
<1> HIDE DEF f
<1> QED  BY <1>1, <1>6, <1>7 DEF f, Grown

(* A program b with the bytecodes t behind it. *)
LEMMA ConcatIsGrown ==
  ASSUME NEW b \in Seq(Bytecode), NEW t \in Seq(Bytecode)
  PROVE  /\ b \o t \in Seq(Bytecode)
         /\ Len(b) \in Nat /\ Len(t) \in Nat
         /\ Len(b \o t) = Len(b) + Len(t)
         /\ \A k \in PositionsOf(b) :
              opOf(b \o t, k) = opOf(b, k) /\ argsOf(b \o t, k) = argsOf(b, k)
         /\ \A k \in 0..(Len(t) - 1) :
              /\ opOf(b \o t, Len(b) + k) = opOf(t, k)
              /\ argsOf(b \o t, Len(b) + k) = argsOf(t, k)
<1>1. /\ b \o t \in Seq(Bytecode)
      /\ Len(b \o t) = Len(b) + Len(t)
      /\ Len(b) \in Nat /\ Len(t) \in Nat
      /\ \A j \in 1..(Len(b) + Len(t)) :
           (b \o t)[j] = IF j <= Len(b) THEN b[j] ELSE t[j - Len(b)]
  BY ConcatProperties, LenProperties
<1>2. ASSUME NEW k \in PositionsOf(b) PROVE (b \o t)[k + 1] = b[k + 1]
  <2>1. k + 1 \in 1..(Len(b) + Len(t)) /\ k + 1 <= Len(b)
    BY <1>1 DEF PositionsOf
  <2> QED  BY <2>1, <1>1
<1>3. ASSUME NEW k \in 0..(Len(t) - 1) PROVE (b \o t)[Len(b) + k + 1] = t[k + 1]
  <2>1. /\ Len(b) + k + 1 \in 1..(Len(b) + Len(t)) /\ ~(Len(b) + k + 1 <= Len(b))
        /\ (Len(b) + k + 1) - Len(b) = k + 1
    BY <1>1
  <2> QED  BY <2>1, <1>1
<1> QED  BY <1>1, <1>2, <1>3 DEF opOf, argsOf

(* The program c is b with the destination `to` filled in at S, and t       *)
(* behind it: what a block does.                                            *)
Extended(b, c, S, to, t) ==
  /\ c \in Seq(Bytecode)
  /\ Len(b) \in Nat /\ Len(t) \in Nat /\ Len(c) = Len(b) + Len(t)
  /\ Grown(b, c, S, to)
  /\ \A k \in 0..(Len(t) - 1) :
       opOf(c, Len(b) + k) = opOf(t, k) /\ argsOf(c, Len(b) + k) = argsOf(t, k)

LEMMA Extension ==
  ASSUME bytecodes \in Seq(Bytecode), NEW S, NEW to \in Nat, NEW t \in Seq(Bytecode)
  PROVE  Extended(bytecodes, Filled(S, to) \o t, S, to, t)
<1> DEFINE f == Filled(S, to)
           c == f \o t
<1>1. f \in Seq(Bytecode) /\ Len(f) = Len(bytecodes) /\ Grown(bytecodes, f, S, to)
  BY FilledIsGrown
<1>2. PositionsOf(f) = PositionsOf(bytecodes)
  BY <1>1 DEF PositionsOf
<1> HIDE DEF f
<1>3. /\ c \in Seq(Bytecode)
      /\ Len(f) \in Nat /\ Len(t) \in Nat
      /\ Len(c) = Len(f) + Len(t)
      /\ \A k \in PositionsOf(f) :
           opOf(c, k) = opOf(f, k) /\ argsOf(c, k) = argsOf(f, k)
      /\ \A k \in 0..(Len(t) - 1) :
           opOf(c, Len(f) + k) = opOf(t, k) /\ argsOf(c, Len(f) + k) = argsOf(t, k)
  BY <1>1, ConcatIsGrown
<1> HIDE DEF c
<1>4. Grown(bytecodes, c, S, to)
  BY <1>1, <1>2, <1>3 DEF Grown
<1>5. Extended(bytecodes, c, S, to, t)
  BY <1>1, <1>3, <1>4 DEF Extended
<1> QED  BY <1>5 DEF c, f

LEMMA TakenOverIsGrown ==
  ASSUME bytecodes \in Seq(Bytecode), NEW b \in TakenOver
  PROVE  /\ b \in Seq(Bytecode) /\ Len(b) = Len(bytecodes) /\ Len(b) \in Nat \ {0}
         /\ opOf(b, Len(b) - 1) = "Callback"
         /\ Grown(bytecodes, b, {}, 0)
<1> DEFINE n == Len(bytecodes)
           x == [bytecodes[n] EXCEPT !.op = "Callback"]
<1>1. bytecodes # <<>> /\ bytecodes[n].op = "Literal" /\ b = [bytecodes EXCEPT ![n] = x]
  BY DEF TakenOver, size
<1>2. n \in Nat \ {0} /\ DOMAIN bytecodes = 1..n /\ n \in 1..n /\ bytecodes[n] \in Bytecode
  BY <1>1, EmptySeq, LenProperties, ElementOfSeq
<1>3. x \in Bytecode /\ x.op = "Callback" /\ x.args = bytecodes[n].args
  BY <1>2 DEF Bytecode, Ops
<1> HIDE DEF x
<1>4. b \in Seq(Bytecode) /\ Len(b) = n
  BY <1>1, <1>2, <1>3, ExceptSeq
<1>5. b[n] = x /\ \A j \in 1..n : j # n => b[j] = bytecodes[j]
  BY <1>1, <1>2
<1>6. \A k \in PositionsOf(bytecodes) : k + 1 \in 1..n
  BY <1>2 DEF PositionsOf
<1>7. ASSUME NEW k \in PositionsOf(bytecodes)
      PROVE  /\ \/ opOf(b, k) = opOf(bytecodes, k)
                \/ opOf(bytecodes, k) = "Literal" /\ opOf(b, k) = "Callback"
             /\ argsOf(b, k) = argsOf(bytecodes, k)
  <2>1. CASE k + 1 = n
    BY <1>1, <1>3, <1>5, <2>1 DEF opOf, argsOf
  <2>2. CASE k + 1 # n
    BY <1>5, <1>6, <2>2 DEF opOf, argsOf
  <2> QED  BY <2>1, <2>2
<1>8. opOf(b, n - 1) = "Callback"
  <2>1. (n - 1) + 1 = n
    BY <1>2
  <2> QED  BY <1>3, <1>5, <2>1 DEF opOf
<1> QED  BY <1>2, <1>4, <1>7, <1>8 DEF Grown

(* What an expression begins with: the program, or the one with the literal *)
(* that is last taken over.                                                 *)
Begun == {bytecodes} \cup TakenOver

LEMMA NothingFilled == bytecodes \in Seq(Bytecode) => Filled({}, 0) = bytecodes
BY LenProperties DEF Filled

LEMMA BegunExtension ==
  ASSUME bytecodes \in Seq(Bytecode), NEW b \in Begun, NEW t \in Seq(Bytecode)
  PROVE  Extended(bytecodes, b \o t, {}, 0, t)
<1>1. CASE b = bytecodes
  BY <1>1, NothingFilled, Extension
<1>2. CASE b \in TakenOver
  <2> DEFINE c == b \o t
  <2>1. b \in Seq(Bytecode) /\ Len(b) = Len(bytecodes) /\ Grown(bytecodes, b, {}, 0)
    BY <1>2, TakenOverIsGrown
  <2>2. PositionsOf(b) = PositionsOf(bytecodes)
    BY <2>1 DEF PositionsOf
  <2>3. /\ c \in Seq(Bytecode)
        /\ Len(b) \in Nat /\ Len(t) \in Nat /\ Len(c) = Len(b) + Len(t)
        /\ \A k \in PositionsOf(b) :
             opOf(c, k) = opOf(b, k) /\ argsOf(c, k) = argsOf(b, k)
        /\ \A k \in 0..(Len(t) - 1) :
             opOf(c, Len(b) + k) = opOf(t, k) /\ argsOf(c, Len(b) + k) = argsOf(t, k)
    BY <2>1, ConcatIsGrown
  <2> HIDE DEF c
  <2>4. Grown(bytecodes, c, {}, 0)
    BY <2>1, <2>2, <2>3 DEF Grown
  <2>5. Extended(bytecodes, c, {}, 0, t)
    BY <2>1, <2>3, <2>4 DEF Extended
  <2> QED  BY <2>5 DEF c
<1> QED  BY <1>1, <1>2 DEF Begun

-----------------------------------------------------------------------------
(* A program stays accounted for if what is filled in are jumps, with a     *)
(* destination behind them, and what is new and is a jump is waited for.    *)
FillsJumps(b, c, S, to) ==
  \A k \in S \cap PositionsOf(b) :
    opOf(b, k) \in {"Jump", "ConditionalJump"} /\ k + 1 <= to /\ to <= Len(c)
NewAreIn(b, c, Q) ==
  \A k \in Len(b)..(Len(c) - 1) :
    /\ opOf(c, k) # "EndLoop"
    /\ opOf(c, k) \in {"Jump", "ConditionalJump", "StartLoop"} => k \in Q

LEMMA GrownKeepsResolved ==
  ASSUME NEW b, NEW c, NEW S, NEW to \in Nat, NEW P, NEW Q,
         Grown(b, c, S, to), AllResolvedBut(b, P),
         FillsJumps(b, c, S, to), P \subseteq Q \cup S, NewAreIn(b, c, Q)
  PROVE  AllResolvedBut(c, Q)
<1>1. Len(b) \in Nat /\ Len(c) \in Nat /\ Len(b) <= Len(c)
  BY DEF Grown
<1>2. ASSUME NEW k \in PositionsOf(b)
      PROVE  /\ opOf(c, k) \in {"Jump", "ConditionalJump"} => k \in Q \/ JumpResolved(c, k)
             /\ opOf(c, k) = "StartLoop" => k \in Q \/ LoopResolved(c, k)
             /\ opOf(c, k) = "EndLoop" => EndPaired(c, k)
  <2>1. /\ opOf(b, k) \in {"Jump", "ConditionalJump"} => k \in P \/ JumpResolved(b, k)
        /\ opOf(b, k) = "StartLoop" => k \in P \/ LoopResolved(b, k)
        /\ opOf(b, k) = "EndLoop" => EndPaired(b, k)
    BY DEF AllResolvedBut
  <2>2. /\ \A o \in {"Jump", "ConditionalJump", "StartLoop", "EndLoop"} :
             opOf(c, k) = o <=> opOf(b, k) = o
        /\ k \in S => argsOf(c, k) = to
        /\ k \notin S => argsOf(c, k) = argsOf(b, k)
    BY DEF Grown
  <2>3. k \in Nat
    BY <1>1 DEF PositionsOf
  <2>4. opOf(c, k) \in {"Jump", "ConditionalJump"} => k \in Q \/ JumpResolved(c, k)
    <3>1. CASE k \in S
      BY <3>1, <2>2, <2>3, <1>1 DEF JumpResolved, FillsJumps
    <3>2. CASE k \notin S
      BY <3>2, <2>1, <2>2, <2>3, <1>1 DEF JumpResolved
    <3> QED  BY <3>1, <3>2
  <2>5. opOf(c, k) = "StartLoop" => k \in Q \/ LoopResolved(c, k)
    <3> SUFFICES ASSUME opOf(b, k) = "StartLoop", LoopResolved(b, k), k \notin S
                 PROVE  LoopResolved(c, k)
      BY <2>1, <2>2 DEF FillsJumps
    <3> DEFINE e == argsOf(b, k)
    <3>1. e \in PositionsOf(b) /\ opOf(b, e) = "EndLoop"
      BY <1>1, <2>3 DEF LoopResolved, PositionsOf
    <3>2. opOf(c, e) = "EndLoop" /\ argsOf(c, e) = argsOf(b, e)
      BY <3>1 DEF Grown, FillsJumps
    <3> QED  BY <3>2, <2>2, <2>3, <1>1 DEF LoopResolved
  <2>6. opOf(c, k) = "EndLoop" => EndPaired(c, k)
    <3> SUFFICES ASSUME opOf(b, k) = "EndLoop", EndPaired(b, k), k \notin S
                 PROVE  EndPaired(c, k)
      BY <2>1, <2>2 DEF FillsJumps
    <3> DEFINE s == argsOf(b, k) - 1
    <3>1. s \in PositionsOf(b) /\ opOf(b, s) = "StartLoop"
      BY <1>1, <2>3 DEF EndPaired, PositionsOf
    <3>2. opOf(c, s) = "StartLoop" /\ argsOf(c, s) = argsOf(b, s)
      BY <3>1 DEF Grown, FillsJumps
    <3> QED  BY <3>2, <2>2 DEF EndPaired
  <2> QED  BY <2>4, <2>5, <2>6
<1>3. \A k \in PositionsOf(c) : k \in PositionsOf(b) \/ k \in Len(b)..(Len(c) - 1)
  BY <1>1 DEF PositionsOf
<1> QED  BY <1>2, <1>3 DEF AllResolvedBut, NewAreIn

(* An entry of the stack of ifs that is left alone holds what it held. *)
LEMMA GrownKeepsEntry ==
  ASSUME NEW b, NEW c, NEW S, NEW to, Grown(b, c, S, to),
         NEW entry, IfHoldsJumps(b, entry)
  PROVE  IfHoldsJumps(c, entry)
BY DEF Grown, PositionsOf, IfHoldsJumps

LEMMA JumpsArePlaced ==
  ASSUME NEW b, NEW entry, IfHoldsJumps(b, entry)
  PROVE  Jumps(entry) \subseteq PositionsOf(b)
BY DEF IfHoldsJumps, Jumps

-----------------------------------------------------------------------------
(* The inductive invariant.  Beside the properties it says that the open    *)
(* loops still have no destination, so that no EndLoop is paired with them, *)
(* and that every open if has some jump in the program.                     *)

Waiting(b, loops) == \A j \in DOMAIN loops : argsOf(b, loops[j]) = 0
Anchored(ifs) == \A j \in DOMAIN ifs : Jumps(ifs[j]) # {}

IInv ==
  /\ TypeOK
  /\ JumpsAreAccountedFor
  /\ Waiting(bytecodes, m_loop_stack)
  /\ Anchored(m_if_stack)
  /\ AcceptedIsClosed

(* What a block needs of the program and the stacks before it, and what it  *)
(* has to show of those after it.                                           *)
Sound(b, ifs, loops) ==
  /\ b \in Seq(Bytecode) /\ Len(b) <= MaxBytecodes
  /\ ifs \in Seq(IfData) /\ loops \in Seq(Nat)
  /\ StacksHoldJumps(b, ifs, loops)
  /\ NoneTwice(ifs, loops)
  /\ AllResolvedBut(b, Pending(b, ifs, loops))
  /\ Waiting(b, loops)
  /\ Anchored(ifs)

LEMMA IInvIsSound ==
  IInv <=> /\ Sound(bytecodes, m_if_stack, m_loop_stack)
           /\ status \in {"parsing", "accepted", "rejected", "undefined"}
           /\ AcceptedIsClosed
BY DEF IInv, Sound, TypeOK, JumpsAreAccountedFor, size

(* A block during parsing need not think of acceptance. *)
LEMMA BlockKeepsIInv ==
  ASSUME status' = "parsing", Sound(bytecodes, m_if_stack, m_loop_stack)'
  PROVE  IInv'
BY DEF IInv, Sound, TypeOK, JumpsAreAccountedFor, AcceptedIsClosed, size

(* What the stacks say of the program c after a block, and of the new       *)
(* positions in it.                                                         *)
LEMMA BlockKeepsSound ==
  ASSUME Sound(bytecodes, m_if_stack, m_loop_stack),
         NEW S, NEW to \in Nat, NEW t \in Seq(Bytecode),
         NEW c, Extended(bytecodes, c, S, to, t), Len(c) <= MaxBytecodes,
         FillsJumps(bytecodes, c, S, to),
         NEW ifs \in Seq(IfData), NEW loops \in Seq(Nat),
         StacksHoldJumps(c, ifs, loops), NoneTwice(ifs, loops),
         Waiting(c, loops), Anchored(ifs),
         Pending(bytecodes, m_if_stack, m_loop_stack) \subseteq Pending(c, ifs, loops) \cup S,
         \A k \in 0..(Len(t) - 1) :
           /\ opOf(t, k) # "EndLoop"
           /\ opOf(t, k) \in {"Jump", "ConditionalJump", "StartLoop"} =>
                Len(bytecodes) + k \in Pending(c, ifs, loops)
  PROVE  Sound(c, ifs, loops)
<1> DEFINE n == Len(bytecodes)
           P == Pending(bytecodes, m_if_stack, m_loop_stack)
           Q == Pending(c, ifs, loops)
<1>1. /\ n \in Nat /\ Len(t) \in Nat /\ Len(c) = n + Len(t) /\ c \in Seq(Bytecode)
      /\ Grown(bytecodes, c, S, to)
  BY DEF Extended
<1>2. NewAreIn(bytecodes, c, Q)
  <2> SUFFICES ASSUME NEW k \in n..(Len(c) - 1)
               PROVE  /\ opOf(c, k) # "EndLoop"
                      /\ opOf(c, k) \in {"Jump", "ConditionalJump", "StartLoop"} => k \in Q
    BY DEF NewAreIn
  <2>1. k - n \in 0..(Len(t) - 1) /\ n + (k - n) = k
    BY <1>1
  <2>2. opOf(c, n + (k - n)) = opOf(t, k - n)
    BY <2>1 DEF Extended
  <2> QED  BY <2>1, <2>2
<1>3. AllResolvedBut(bytecodes, P) /\ P \subseteq Q \cup S
  BY DEF Sound
<1> HIDE DEF P, Q
<1>4. AllResolvedBut(c, Q)
  BY <1>1, <1>2, <1>3, GrownKeepsResolved
<1> QED  BY <1>1, <1>4 DEF Sound, Q

LEMMA GrownKeepsLoop ==
  ASSUME NEW b, NEW c, NEW S, NEW to, Grown(b, c, S, to), FillsJumps(b, c, S, to),
         NEW k \in PositionsOf(b), opOf(b, k) = "StartLoop"
  PROVE  k \in PositionsOf(c) /\ opOf(c, k) = "StartLoop" /\ argsOf(c, k) = argsOf(b, k)
BY DEF Grown, FillsJumps, PositionsOf

(* What is said of the stacks still holds of a program that has grown.      *)
LEMMA GrownKeepsStacks ==
  ASSUME Sound(bytecodes, m_if_stack, m_loop_stack), NEW c, NEW S, NEW to,
         Grown(bytecodes, c, S, to), FillsJumps(bytecodes, c, S, to)
  PROVE  /\ StacksHoldJumps(c, m_if_stack, m_loop_stack)
         /\ Waiting(c, m_loop_stack)
         /\ PositionsOf(bytecodes) \subseteq PositionsOf(c)
         /\ Pending(bytecodes, m_if_stack, m_loop_stack)
              \subseteq Pending(c, m_if_stack, m_loop_stack)
<1>1. \A j \in DOMAIN m_if_stack : IfHoldsJumps(c, m_if_stack[j])
  BY GrownKeepsEntry DEF Sound, StacksHoldJumps
<1>2. \A j \in DOMAIN m_loop_stack :
        /\ m_loop_stack[j] \in PositionsOf(c) /\ opOf(c, m_loop_stack[j]) = "StartLoop"
        /\ argsOf(c, m_loop_stack[j]) = argsOf(bytecodes, m_loop_stack[j])
  BY GrownKeepsLoop DEF Sound, StacksHoldJumps
<1>3. PositionsOf(bytecodes) \subseteq PositionsOf(c)
  BY DEF Grown, PositionsOf
<1>4. Waiting(c, m_loop_stack)
  BY <1>2 DEF Sound, Waiting
<1> QED  BY <1>1, <1>2, <1>3, <1>4 DEF StacksHoldJumps, Pending

-----------------------------------------------------------------------------
(* The blocks *)

LEMMA CodeType == ASSUME NEW o \in Ops PROVE Code(o) \in Bytecode /\ Code(o).op = o /\ Code(o).args = 0
BY DEF Code, Bytecode

(* Sequences of one and two bytecodes. *)
LEMMA OneCode ==
  ASSUME NEW x \in Bytecode
  PROVE  <<x>> \in Seq(Bytecode) /\ Len(<<x>>) = 1 /\ opOf(<<x>>, 0) = x.op /\ argsOf(<<x>>, 0) = x.args
BY DEF opOf, argsOf
LEMMA TwoCodes ==
  ASSUME NEW x \in Bytecode, NEW y \in Bytecode
  PROVE  /\ <<x, y>> \in Seq(Bytecode) /\ Len(<<x, y>>) = 2
         /\ opOf(<<x, y>>, 0) = x.op /\ opOf(<<x, y>>, 1) = y.op
         /\ argsOf(<<x, y>>, 0) = x.args /\ argsOf(<<x, y>>, 1) = y.args
BY DEF opOf, argsOf

(* Blocks that append no jump and leave the stacks alone. *)
PlainOps == {"PrintText", "PrintValue", "PrintPopped", "Push", "Literal"}

LEMMA PlainKeepsIInv ==
  ASSUME IInv, NEW t \in Seq(Bytecode), size + Len(t) <= MaxBytecodes,
         \A k \in 0..(Len(t) - 1) : opOf(t, k) \in PlainOps,
         NEW b \in Begun, bytecodes' = b \o t, UNCHANGED stacks, status' = "parsing"
  PROVE  IInv'
<1> DEFINE c == bytecodes'
<1>1. Sound(bytecodes, m_if_stack, m_loop_stack) /\ bytecodes \in Seq(Bytecode)
  BY IInvIsSound DEF Sound
<1>2. Extended(bytecodes, c, {}, 0, t)
  BY <1>1, BegunExtension
<1>3. Grown(bytecodes, c, {}, 0) /\ FillsJumps(bytecodes, c, {}, 0) /\ Len(c) <= MaxBytecodes
  BY <1>2 DEF Extended, FillsJumps, size
<1>4. m_if_stack' = m_if_stack /\ m_loop_stack' = m_loop_stack
  BY DEF stacks
<1> HIDE DEF c
<1>5. Sound(c, m_if_stack, m_loop_stack)
  <2>1. /\ m_if_stack \in Seq(IfData) /\ m_loop_stack \in Seq(Nat)
        /\ NoneTwice(m_if_stack, m_loop_stack) /\ Anchored(m_if_stack)
    BY <1>1 DEF Sound
  <2>2. \A k \in 0..(Len(t) - 1) :
          opOf(t, k) \notin {"Jump", "ConditionalJump", "StartLoop", "EndLoop"}
    BY DEF PlainOps
  <2> QED  BY <1>1, <1>2, <1>3, <2>1, <2>2, GrownKeepsStacks, BlockKeepsSound
<1> QED  BY <1>4, <1>5, BlockKeepsIInv DEF c

LEMMA AppendedOne ==
  ASSUME bytecodes \in Seq(Bytecode), NEW o \in Ops, NEW b \in Begun
  PROVE  /\ Append(b, Code(o)) = b \o <<Code(o)>>
         /\ <<Code(o)>> \in Seq(Bytecode) /\ Len(<<Code(o)>>) = 1
         /\ opOf(<<Code(o)>>, 0) = o /\ argsOf(<<Code(o)>>, 0) = 0
<1>1. Code(o) \in Bytecode /\ Code(o).op = o /\ Code(o).args = 0
  BY CodeType
<1>2. b \in Seq(Bytecode)
  BY TakenOverIsGrown DEF Begun
<1> QED  BY <1>1, <1>2, AppendIsConcat, OneCode

LEMMA AppendsOne ==
  ASSUME IInv, NEW o \in PlainOps, Parsing(1),
         NEW b \in Begun, bytecodes' = Append(b, Code(o)), UNCHANGED <<stacks, status>>
  PROVE  IInv'
<1>1. bytecodes \in Seq(Bytecode) /\ o \in Ops
  BY DEF IInv, TypeOK, PlainOps, Ops
<1>2. /\ bytecodes' = b \o <<Code(o)>>
      /\ <<Code(o)>> \in Seq(Bytecode) /\ Len(<<Code(o)>>) = 1
      /\ opOf(<<Code(o)>>, 0) = o
  BY <1>1, AppendedOne
<1>3. \A k \in 0..(1 - 1) : k = 0
  OBVIOUS
<1>4. size + 1 <= MaxBytecodes /\ UNCHANGED stacks /\ status' = "parsing"
  BY DEF Parsing
<1> QED  BY <1>2, <1>3, <1>4, PlainKeepsIInv

LEMMA LeftoversType ==
  ASSUME NEW left \in Leftovers
  PROVE  /\ left \in Seq(Bytecode) /\ Len(left) \in 0..1
         /\ \A k \in 0..(Len(left) - 1) :
              k = 0 /\ opOf(left, k) \in {"Push", "Literal"} /\ argsOf(left, k) = 0
<1>1. ASSUME NEW o \in {"Push", "Literal"}, left = <<Code(o)>>
      PROVE  /\ left \in Seq(Bytecode) /\ Len(left) = 1
             /\ opOf(left, 0) = o /\ argsOf(left, 0) = 0
  BY <1>1, CodeType, OneCode DEF Ops
<1>2. left # <<>> => \E o \in {"Push", "Literal"} : left = <<Code(o)>>
  BY DEF Leftovers
<1>3. \A k \in 0..(1 - 1) : k = 0
  OBVIOUS
<1>4. <<>> \in Seq(Bytecode) /\ Len(<<>>) = 0 /\ \A k : k \notin 0..(0 - 1)
  OBVIOUS
<1>5. 0 \in 0..1 /\ 1 \in 0..1
  OBVIOUS
<1>6. CASE left = <<>>
  BY <1>4, <1>5, <1>6
<1>7. CASE left # <<>>
  BY <1>1, <1>2, <1>3, <1>5, <1>7
<1> QED  BY <1>6, <1>7

LEMMA LineFailsKeepsIInv ==
  ASSUME IInv, NEW left \in Leftovers, LineFails(left)
  PROVE  IInv'
<1>1. /\ left \in Seq(Bytecode)
      /\ \A k \in 0..(Len(left) - 1) : opOf(left, k) \in PlainOps
  BY LeftoversType DEF PlainOps
<1>2. PICK b \in Begun : bytecodes' = b \o left
  BY DEF LineFails, Begun
<1>3. size + Len(left) <= MaxBytecodes /\ UNCHANGED stacks /\ status' = "parsing"
  BY DEF LineFails, Parsing
<1> QED  BY <1>1, <1>2, <1>3, PlainKeepsIInv

(* What an if or a for appends: its bytecode, behind the Push of its value  *)
(* or behind the call that took over the literal before it.                 *)
Opening(b, c, t, o) ==
  /\ Extended(b, c, {}, 0, t)
  /\ Len(t) \in 1..2
  /\ \A k \in 0..(Len(t) - 1) :
       /\ opOf(t, k) = IF k = Len(t) - 1 THEN o ELSE "Push"
       /\ argsOf(t, k) = 0
  /\ Len(t) = 1 => Len(b) > 0 /\ opOf(c, Len(b) - 1) = "Callback"

LEMMA EvaluatedShape ==
  ASSUME bytecodes \in Seq(Bytecode), NEW o \in Ops, NEW b \in Evaluated,
         NEW c, c = Append(b, Code(o))
  PROVE  \E t \in Seq(Bytecode) :
           /\ Opening(bytecodes, c, t, o) /\ Len(bytecodes) \in Nat
           /\ Len(c) = Len(bytecodes) + Len(t) /\ Len(b) = Len(bytecodes) + Len(t) - 1
<1>1. Len(bytecodes) \in Nat
  BY LenProperties
<1>2. CASE b = Append(bytecodes, Code("Push"))
  <2> DEFINE one == <<Code("Push")>>
             two == <<Code(o)>>
             t == one \o two
  <2>1. /\ one \in Seq(Bytecode) /\ Len(one) = 1
        /\ opOf(one, 0) = "Push" /\ argsOf(one, 0) = 0
        /\ b = bytecodes \o one
    BY <1>2, AppendedOne DEF Ops, Begun
  <2>2. b \in Seq(Bytecode) /\ Len(b) = Len(bytecodes) + 1
    BY <2>1, ConcatProperties
  <2>3. /\ two \in Seq(Bytecode) /\ Len(two) = 1
        /\ opOf(two, 0) = o /\ argsOf(two, 0) = 0
    BY CodeType, OneCode
  <2>4. c = b \o two
    <3>1. Code(o) \in Bytecode
      BY CodeType
    <3>2. Append(b, Code(o)) = b \o <<Code(o)>>
      BY <2>2, <3>1, AppendIsConcat
    <3> QED  BY ONLY <3>2, c = Append(b, Code(o)) DEF two
  <2> HIDE DEF one, two
  <2>5. PositionsOf(one) = 0..0 /\ 0 \in 0..0 /\ 0 \in 0..(1 - 1) /\ 1 + 0 = 1 /\ 1 + 1 = 2
    BY <2>1 DEF PositionsOf
  <2>6. /\ t \in Seq(Bytecode) /\ Len(t) = 2 /\ opOf(t, 0) = "Push" /\ argsOf(t, 0) = 0
        /\ opOf(t, 1) = o /\ argsOf(t, 1) = 0
    <3>1. /\ t \in Seq(Bytecode) /\ Len(t) = Len(one) + Len(two)
          /\ \A k \in PositionsOf(one) :
               opOf(t, k) = opOf(one, k) /\ argsOf(t, k) = argsOf(one, k)
          /\ \A k \in 0..(Len(two) - 1) :
               /\ opOf(t, Len(one) + k) = opOf(two, k)
               /\ argsOf(t, Len(one) + k) = argsOf(two, k)
      BY <2>1, <2>3, ConcatIsGrown
    <3>2. opOf(t, 0) = opOf(one, 0) /\ argsOf(t, 0) = argsOf(one, 0)
      BY ONLY <2>5, <3>1
    <3>3. opOf(t, 1 + 0) = opOf(two, 0) /\ argsOf(t, 1 + 0) = argsOf(two, 0)
      BY <2>1, <2>3, <2>5, <3>1
    <3> QED  BY <2>1, <2>3, <2>5, <3>1, <3>2, <3>3
  <2>7. c = bytecodes \o t
    BY <2>1, <2>3, <2>4, ConcatAssociative
  <2> HIDE DEF t
  <2>8. Extended(bytecodes, c, {}, 0, t)
    BY <2>6, <2>7, BegunExtension DEF Begun
  <2>9. Len(c) = Len(bytecodes) + Len(t)
    BY <2>8 DEF Extended
  <2>10. /\ \A k \in 0..(2 - 1) : k = 0 \/ k = 1
         /\ 0 # 2 - 1 /\ 1 = 2 - 1 /\ 2 # 1 /\ 2 \in 1..2
    OBVIOUS
  <2>11. Opening(bytecodes, c, t, o)
    BY <2>6, <2>8, <2>10 DEF Opening
  <2>12. Len(b) = Len(bytecodes) + Len(t) - 1
    <3>1. \A m \in Nat : m + 1 = m + 2 - 1
      OBVIOUS
    <3> QED  BY <1>1, <2>2, <2>6, <3>1
  <2> QED  BY <1>1, <2>6, <2>9, <2>11, <2>12
<1>3. CASE b \in TakenOver
  <2> DEFINE t == <<Code(o)>>
  <2>1. /\ c = b \o t /\ t \in Seq(Bytecode) /\ Len(t) = 1
        /\ opOf(t, 0) = o /\ argsOf(t, 0) = 0
    BY <1>3, AppendedOne DEF Begun
  <2> HIDE DEF t
  <2>2. Extended(bytecodes, c, {}, 0, t)
    BY <1>3, <2>1, BegunExtension DEF Begun
  <2>3. /\ b \in Seq(Bytecode) /\ Len(b) = Len(bytecodes) /\ Len(b) \in Nat \ {0}
        /\ opOf(b, Len(b) - 1) = "Callback"
    BY <1>3, TakenOverIsGrown
  <2>4. opOf(c, Len(b) - 1) = "Callback"
    <3>1. Len(b) - 1 \in PositionsOf(b)
      BY <2>3 DEF PositionsOf
    <3> QED  BY <2>1, <2>3, <3>1, ConcatIsGrown
  <2>5. Len(c) = Len(bytecodes) + Len(t)
    BY <2>2 DEF Extended
  <2>6. (\A k \in 0..(1 - 1) : k = 0) /\ 0 = 1 - 1 /\ 1 \in 1..2
    OBVIOUS
  <2>7. Opening(bytecodes, c, t, o)
    BY <2>1, <2>2, <2>3, <2>4, <2>6 DEF Opening
  <2> QED  BY <1>1, <2>1, <2>3, <2>5, <2>7
<1> QED  BY <1>2, <1>3 DEF Evaluated

(* The same, by the position p of the bytecode that is appended last.       *)
LEMMA OpeningFacts ==
  ASSUME NEW b, NEW c, NEW t, NEW o, Opening(b, c, t, o)
  PROVE  LET n == Len(b)
             p == Len(b) + Len(t) - 1
         IN  /\ n \in Nat /\ p \in Nat /\ n <= p /\ p <= n + 1 /\ Len(c) = p + 1
             /\ PositionsOf(b) = 0..(n - 1) /\ PositionsOf(c) = 0..p
             /\ p \in PositionsOf(c) /\ p \notin PositionsOf(b)
             /\ PositionsOf(b) \subseteq PositionsOf(c)
             /\ opOf(c, p) = o /\ argsOf(c, p) = 0
             /\ \A k \in 0..(Len(t) - 1) :
                  /\ n + k = p => opOf(t, k) = o
                  /\ n + k # p => opOf(t, k) = "Push"
             /\ \A k \in PositionsOf(c) \ PositionsOf(b) : k # p => opOf(c, k) = "Push"
             /\ Grown(b, c, {}, 0) /\ FillsJumps(b, c, {}, 0)
<1> DEFINE n == Len(b)
           m == Len(t)
           p == n + m - 1
<1>1. /\ n \in Nat /\ m \in 1..2 /\ Len(c) = n + m /\ Grown(b, c, {}, 0)
      /\ \A k \in 0..(m - 1) : opOf(c, n + k) = opOf(t, k) /\ argsOf(c, n + k) = argsOf(t, k)
  BY DEF Opening, Extended
<1>2. \A k \in 0..(m - 1) :
        /\ opOf(t, k) = IF k = m - 1 THEN o ELSE "Push"
        /\ argsOf(t, k) = 0
  BY DEF Opening
<1> HIDE DEF n, m
<1>3. /\ p \in Nat /\ n <= p /\ p <= n + 1 /\ Len(c) = p + 1
      /\ m - 1 \in 0..(m - 1) /\ n + (m - 1) = p
      /\ 0..(n + m - 1) = 0..p /\ p \in 0..p /\ p \notin 0..(n - 1) /\ 0..(n - 1) \subseteq 0..p
  BY <1>1
<1>4. \A k \in 0..(m - 1) : n + k = p <=> k = m - 1
  BY <1>1
<1>5. PositionsOf(b) = 0..(n - 1) /\ PositionsOf(c) = 0..p
  BY <1>1, <1>3 DEF PositionsOf, n
<1>6. opOf(c, p) = o /\ argsOf(c, p) = 0
  <2>1. opOf(c, n + (m - 1)) = opOf(t, m - 1) /\ argsOf(c, n + (m - 1)) = argsOf(t, m - 1)
    BY <1>1, <1>3
  <2>2. opOf(t, m - 1) = o /\ argsOf(t, m - 1) = 0
    BY <1>2, <1>3
  <2> QED  BY <1>3, <2>1, <2>2
<1>7. \A k \in 0..(m - 1) :
        /\ n + k = p => opOf(t, k) = o
        /\ n + k # p => opOf(t, k) = "Push"
  BY <1>2, <1>4
<1>8. ASSUME NEW k \in PositionsOf(c) \ PositionsOf(b), k # p PROVE opOf(c, k) = "Push"
  <2>1. k - n \in 0..(m - 1) /\ n + (k - n) = k
    BY <1>1, <1>3, <1>5
  <2>2. opOf(c, n + (k - n)) = opOf(t, k - n)
    BY <1>1, <2>1
  <2> QED  BY <1>7, <1>8, <2>1, <2>2
<1>9. FillsJumps(b, c, {}, 0)
  BY DEF FillsJumps
<1> QED  BY <1>1, <1>3, <1>5, <1>6, <1>7, <1>8, <1>9 DEF n, m

LEMMA IfKeepsIInv ==
  ASSUME IInv, If
  PROVE  IInv'
<1> DEFINE c == bytecodes'
           n == Len(bytecodes)
           ifs == m_if_stack'
<1>1. /\ Sound(bytecodes, m_if_stack, m_loop_stack) /\ bytecodes \in Seq(Bytecode)
      /\ m_if_stack \in Seq(IfData) /\ m_loop_stack \in Seq(Nat)
      /\ NoneTwice(m_if_stack, m_loop_stack) /\ Anchored(m_if_stack)
  BY IInvIsSound DEF Sound
<1>2. PICK b \in Evaluated :
        /\ c = Append(b, Code("ConditionalJump"))
        /\ ifs = Append(m_if_stack, [prev_cond_jump |-> Len(b), uncond_jumps |-> {}])
  BY DEF If
<1>21. bytecodes \in Seq(Bytecode) /\ c = Append(b, Code("ConditionalJump"))
  BY <1>1, <1>2
<1>22. "ConditionalJump" \in Ops
  BY DEF Ops
<1>3. PICK t \in Seq(Bytecode) :
        /\ Opening(bytecodes, c, t, "ConditionalJump")
        /\ Len(b) = n + Len(t) - 1
  BY <1>21, <1>22, EvaluatedShape
<1> DEFINE p == n + Len(t) - 1
           e == [prev_cond_jump |-> p, uncond_jumps |-> {}]
<1>4. Extended(bytecodes, c, {}, 0, t) /\ ifs = Append(m_if_stack, e)
  BY <1>2, <1>3 DEF Opening
<1> HIDE DEF c
<1>5. /\ Grown(bytecodes, c, {}, 0) /\ FillsJumps(bytecodes, c, {}, 0)
      /\ n \in Nat /\ p \in Nat /\ p <= n + 1 /\ Len(c) = p + 1
      /\ opOf(c, p) = "ConditionalJump"
      /\ p \in PositionsOf(c) /\ p \notin PositionsOf(bytecodes)
      /\ \A k \in 0..(Len(t) - 1) : /\ n + k = p => opOf(t, k) = "ConditionalJump"
                                    /\ n + k # p => opOf(t, k) = "Push"
  BY <1>3, OpeningFacts
<1>20. n + 2 <= MaxBytecodes
  BY DEF If, Parsing, size
<1> HIDE DEF p
<1>6. Len(c) <= MaxBytecodes /\ p # Max
  BY <1>5, <1>20, BoundsAssumption
<1>7. e \in IfData /\ Jumps(e) = {p} /\ IfHoldsJumps(c, e)
  BY <1>5, <1>6 DEF IfData, Jumps, IfHoldsJumps
<1>8. /\ ifs \in Seq(IfData) /\ DOMAIN ifs = DOMAIN m_if_stack \cup {Len(m_if_stack) + 1}
      /\ ifs[Len(m_if_stack) + 1] = e
      /\ \A j \in DOMAIN m_if_stack : ifs[j] = m_if_stack[j]
  <2> HIDE DEF e
  <2> QED  BY <1>1, <1>4, <1>7, PushedStack
<1> HIDE DEF ifs, e
<1>9. /\ StacksHoldJumps(c, m_if_stack, m_loop_stack) /\ Waiting(c, m_loop_stack)
      /\ Pending(bytecodes, m_if_stack, m_loop_stack) \subseteq Pending(c, m_if_stack, m_loop_stack)
  BY <1>1, <1>5, GrownKeepsStacks
<1>10. StacksHoldJumps(c, ifs, m_loop_stack) /\ Anchored(ifs)
  BY <1>1, <1>7, <1>8, <1>9 DEF StacksHoldJumps, Anchored
<1>11. NoneTwice(ifs, m_loop_stack)
  <2>1. \A j \in DOMAIN m_if_stack : p \notin Jumps(m_if_stack[j])
    BY <1>1, <1>5, JumpsArePlaced DEF Sound, StacksHoldJumps
  <2> QED  BY <2>1, <1>1, <1>7, <1>8 DEF NoneTwice
<1>12. /\ Pending(c, m_if_stack, m_loop_stack) \subseteq Pending(c, ifs, m_loop_stack)
       /\ p \in Pending(c, ifs, m_loop_stack)
  BY <1>5, <1>7, <1>8 DEF Pending
<1>13. \A k \in 0..(Len(t) - 1) :
         /\ opOf(t, k) # "EndLoop"
         /\ opOf(t, k) \in {"Jump", "ConditionalJump", "StartLoop"} =>
              n + k \in Pending(c, ifs, m_loop_stack)
  BY <1>5, <1>12
<1>14. Sound(c, ifs, m_loop_stack)
  <2>1. Pending(bytecodes, m_if_stack, m_loop_stack) \subseteq Pending(c, ifs, m_loop_stack) \cup {}
    BY <1>9, <1>12
  <2> QED  BY <2>1, <1>1, <1>4, <1>5, <1>6, <1>8, <1>9, <1>10, <1>11, <1>13, BlockKeepsSound
<1>15. m_loop_stack' = m_loop_stack /\ status' = "parsing"
  BY DEF If, Parsing
<1> QED  BY <1>14, <1>15, BlockKeepsIInv DEF c, ifs

LEMMA ForKeepsIInv ==
  ASSUME IInv, For
  PROVE  IInv'
<1> DEFINE c == bytecodes'
           n == Len(bytecodes)
           loops == m_loop_stack'
<1>1. /\ Sound(bytecodes, m_if_stack, m_loop_stack) /\ bytecodes \in Seq(Bytecode)
      /\ m_if_stack \in Seq(IfData) /\ m_loop_stack \in Seq(Nat)
      /\ NoneTwice(m_if_stack, m_loop_stack) /\ Anchored(m_if_stack)
  BY IInvIsSound DEF Sound
<1>2. PICK b \in Evaluated :
        c = Append(b, Code("StartLoop")) /\ loops = Append(m_loop_stack, Len(b))
  BY DEF For
<1>3. PICK t \in Seq(Bytecode) :
        Opening(bytecodes, c, t, "StartLoop") /\ Len(b) = n + Len(t) - 1
  BY <1>1, <1>2, EvaluatedShape DEF Ops
<1> DEFINE p == n + Len(t) - 1
<1>4. Extended(bytecodes, c, {}, 0, t) /\ loops = Append(m_loop_stack, p)
  BY <1>2, <1>3 DEF Opening
<1> HIDE DEF c
<1>5. /\ Grown(bytecodes, c, {}, 0) /\ FillsJumps(bytecodes, c, {}, 0)
      /\ n \in Nat /\ p \in Nat /\ p <= n + 1 /\ Len(c) = p + 1
      /\ opOf(c, p) = "StartLoop" /\ argsOf(c, p) = 0
      /\ p \in PositionsOf(c) /\ p \notin PositionsOf(bytecodes)
      /\ \A k \in 0..(Len(t) - 1) : /\ n + k = p => opOf(t, k) = "StartLoop"
                                    /\ n + k # p => opOf(t, k) = "Push"
  BY <1>3, OpeningFacts
<1>20. n + 2 <= MaxBytecodes
  BY DEF For, Parsing, size
<1> HIDE DEF p
<1>6. Len(c) <= MaxBytecodes
  BY <1>5, <1>20, BoundsAssumption
<1>7. /\ loops \in Seq(Nat) /\ DOMAIN loops = DOMAIN m_loop_stack \cup {Len(m_loop_stack) + 1}
      /\ loops[Len(m_loop_stack) + 1] = p
      /\ \A j \in DOMAIN m_loop_stack : loops[j] = m_loop_stack[j]
  BY <1>1, <1>4, <1>5, PushedStack
<1> HIDE DEF loops
<1>8. /\ StacksHoldJumps(c, m_if_stack, m_loop_stack) /\ Waiting(c, m_loop_stack)
      /\ Pending(bytecodes, m_if_stack, m_loop_stack) \subseteq Pending(c, m_if_stack, m_loop_stack)
  BY <1>1, <1>5, GrownKeepsStacks
<1>9. StacksHoldJumps(c, m_if_stack, loops) /\ Waiting(c, loops)
  BY <1>5, <1>7, <1>8 DEF StacksHoldJumps, Waiting
<1>10. NoneTwice(m_if_stack, loops)
  <2>1. \A j \in DOMAIN m_loop_stack : p # m_loop_stack[j]
    BY <1>1, <1>5 DEF Sound, StacksHoldJumps
  <2> QED  BY <2>1, <1>1, <1>7 DEF NoneTwice
<1>11. /\ Pending(c, m_if_stack, m_loop_stack) \subseteq Pending(c, m_if_stack, loops)
       /\ p \in Pending(c, m_if_stack, loops)
  BY <1>5, <1>7 DEF Pending
<1>12. \A k \in 0..(Len(t) - 1) :
         /\ opOf(t, k) # "EndLoop"
         /\ opOf(t, k) \in {"Jump", "ConditionalJump", "StartLoop"} =>
              n + k \in Pending(c, m_if_stack, loops)
  BY <1>5, <1>11
<1>13. Sound(c, m_if_stack, loops)
  <2>1. Pending(bytecodes, m_if_stack, m_loop_stack) \subseteq Pending(c, m_if_stack, loops) \cup {}
    BY <1>8, <1>11
  <2>2. /\ Sound(bytecodes, m_if_stack, m_loop_stack)
        /\ Extended(bytecodes, c, {}, 0, t) /\ FillsJumps(bytecodes, c, {}, 0)
        /\ m_if_stack \in Seq(IfData) /\ loops \in Seq(Nat) /\ Anchored(m_if_stack)
    BY <1>1, <1>4, <1>5, <1>7
  <2> QED  BY <2>1, <2>2, <1>6, <1>9, <1>10, <1>12, BlockKeepsSound
<1>14. m_if_stack' = m_if_stack /\ status' = "parsing"
  BY DEF For, Parsing
<1> QED  BY <1>13, <1>14, BlockKeepsIInv DEF c, loops

(* The jump that every else appends, and what an else if appends to it.     *)
LEMMA ElseProgram ==
  ASSUME bytecodes \in Seq(Bytecode), NEW rest \in Seq(Bytecode)
  PROVE  \E t \in Seq(Bytecode) :
           /\ AfterElse \o rest
                = Filled({back(m_if_stack).prev_cond_jump}, size + 1) \o t
           /\ Len(rest) \in Nat /\ Len(t) = Len(rest) + 1
           /\ opOf(t, 0) = "Jump" /\ argsOf(t, 0) = 0
           /\ \A k \in 0..(Len(rest) - 1) :
                opOf(t, k + 1) = opOf(rest, k) /\ argsOf(t, k + 1) = argsOf(rest, k)
<1> DEFINE f == Filled({back(m_if_stack).prev_cond_jump}, size + 1)
           jump == <<Code("Jump")>>
<1>1. Code("Jump") \in Bytecode /\ Code("Jump").op = "Jump" /\ Code("Jump").args = 0
  BY CodeType DEF Ops
<1>2. /\ jump \in Seq(Bytecode) /\ Len(jump) = 1
      /\ opOf(jump, 0) = "Jump" /\ argsOf(jump, 0) = 0
  BY <1>1, OneCode
<1>3. size + 1 \in Nat
  BY LenProperties DEF size
<1>4. f \in Seq(Bytecode)
  BY <1>3, FilledIsGrown
<1>5. AfterElse = f \o jump
  <2> HIDE DEF f
  <2>1. Append(f, Code("Jump")) = f \o jump
    BY <1>1, <1>4, AppendIsConcat
  <2> QED  BY <2>1 DEF AfterElse, f
<1> HIDE DEF f, jump
<1>6. AfterElse \o rest = f \o (jump \o rest)
  <2>1. (f \o jump) \o rest = f \o (jump \o rest)
    BY ONLY <1>2, <1>4, rest \in Seq(Bytecode), ConcatAssociative
  <2> QED  BY ONLY <1>5, <2>1
<1> DEFINE t == jump \o rest
<1>7. /\ t \in Seq(Bytecode)
      /\ Len(rest) \in Nat /\ Len(t) = Len(jump) + Len(rest)
      /\ \A k \in PositionsOf(jump) :
           opOf(t, k) = opOf(jump, k) /\ argsOf(t, k) = argsOf(jump, k)
      /\ \A k \in 0..(Len(rest) - 1) :
           /\ opOf(t, Len(jump) + k) = opOf(rest, k)
           /\ argsOf(t, Len(jump) + k) = argsOf(rest, k)
  BY <1>2, ConcatIsGrown
<1> HIDE DEF t
<1>8. Len(t) = Len(rest) + 1 /\ \A k \in 0..(Len(rest) - 1) : Len(jump) + k = k + 1
  BY <1>2, <1>7
<1>9. opOf(t, 0) = "Jump" /\ argsOf(t, 0) = 0
  <2>1. 0 \in PositionsOf(jump)
    BY <1>2 DEF PositionsOf
  <2> QED  BY <2>1, <1>2, <1>7
<1>10. \A k \in 0..(Len(rest) - 1) :
         opOf(t, k + 1) = opOf(rest, k) /\ argsOf(t, k + 1) = argsOf(rest, k)
  BY <1>7, <1>8
<1>11. AfterElse \o rest = f \o t
  BY <1>6 DEF t
<1> QED  BY <1>7, <1>8, <1>9, <1>10, <1>11 DEF f

(* The positions of an entry of the stack of ifs. *)
LEMMA LastEntry ==
  ASSUME Sound(bytecodes, m_if_stack, m_loop_stack), m_if_stack # <<>>
  PROVE  /\ Len(m_if_stack) \in Nat \ {0} /\ Len(m_if_stack) \in DOMAIN m_if_stack
         /\ DOMAIN m_if_stack = 1..Len(m_if_stack)
         /\ back(m_if_stack) = m_if_stack[Len(m_if_stack)]
         /\ back(m_if_stack) \in IfData
         /\ IfHoldsJumps(bytecodes, back(m_if_stack))
         /\ Jumps(back(m_if_stack)) \subseteq PositionsOf(bytecodes)
<1>1. m_if_stack \in Seq(IfData)
  BY DEF Sound
<1>2. /\ Len(m_if_stack) \in Nat \ {0} /\ DOMAIN m_if_stack = 1..Len(m_if_stack)
      /\ back(m_if_stack) \in IfData
  BY <1>1, PoppedStack, LenProperties
<1>3. Len(m_if_stack) \in DOMAIN m_if_stack
  BY <1>2
<1>4. back(m_if_stack) = m_if_stack[Len(m_if_stack)]
  BY DEF back
<1>5. IfHoldsJumps(bytecodes, back(m_if_stack))
  BY <1>3, <1>4 DEF Sound, StacksHoldJumps
<1> QED  BY <1>2, <1>3, <1>4, <1>5, JumpsArePlaced

LEMMA ElseKeepsIInv ==
  ASSUME IInv, m_if_stack # <<>>,
         NEW next \in Nat, NEW rest \in Seq(Bytecode),
         bytecodes' = AfterElse \o rest, Parsing(Len(rest) + 1), WithElse(next),
         \/ next = Max
         \/ /\ next - (size + 1) \in 0..(Len(rest) - 1)
            /\ opOf(rest, next - (size + 1)) = "ConditionalJump",
         \A k \in 0..(Len(rest) - 1) :
           /\ opOf(rest, k) \in {"Push", "Literal", "ConditionalJump"}
           /\ opOf(rest, k) = "ConditionalJump" => next = size + 1 + k,
         UNCHANGED <<m_loop_stack, status>>
  PROVE  IInv'
<1> DEFINE c == bytecodes'
           n == Len(bytecodes)
           last == back(m_if_stack)
           S == {last.prev_cond_jump}
           e == [prev_cond_jump |-> next, uncond_jumps |-> last.uncond_jumps \cup {n}]
           ifs == m_if_stack'
<1>1. /\ Sound(bytecodes, m_if_stack, m_loop_stack) /\ bytecodes \in Seq(Bytecode)
      /\ m_if_stack \in Seq(IfData) /\ m_loop_stack \in Seq(Nat)
      /\ NoneTwice(m_if_stack, m_loop_stack) /\ Anchored(m_if_stack)
  BY IInvIsSound DEF Sound
<1>2. PICK t \in Seq(Bytecode) :
        /\ c = Filled(S, n + 1) \o t
        /\ Len(rest) \in Nat /\ Len(t) = Len(rest) + 1 /\ opOf(t, 0) = "Jump"
        /\ \A k \in 0..(Len(rest) - 1) : opOf(t, k + 1) = opOf(rest, k)
  BY <1>1, ElseProgram DEF size
<1>3. Len(rest) \in Nat /\ Len(t) = Len(rest) + 1
  BY <1>2
<1>4. ifs = withBack(m_if_stack, e)
  BY DEF WithElse, size
<1>5. n \in Nat /\ n + 1 \in Nat
  BY <1>1, LenProperties
<1> HIDE DEF c
<1>6. Extended(bytecodes, c, S, n + 1, t)
  BY <1>1, <1>2, <1>5, Extension
<1>7. /\ Grown(bytecodes, c, S, n + 1)
      /\ Len(c) = n + 1 + Len(rest) /\ Len(c) <= MaxBytecodes
      /\ opOf(c, n) = "Jump"
      /\ \A k \in 0..(Len(rest) - 1) : opOf(c, n + (k + 1)) = opOf(rest, k)
  <2>1. \A k \in 0..(Len(t) - 1) : opOf(c, n + k) = opOf(t, k)
    BY <1>6 DEF Extended
  <2>2. 0 \in 0..(Len(t) - 1) /\ \A k \in 0..(Len(rest) - 1) : k + 1 \in 0..(Len(t) - 1)
    BY <1>3
  <2>3. opOf(c, n) = "Jump"
    <3>1. n + 0 = n
      BY <1>5
    <3>2. opOf(c, n + 0) = opOf(t, 0)
      BY <2>1, <2>2
    <3> QED  BY <3>1, <3>2, <1>2
  <2>4. Len(c) = n + 1 + Len(rest) /\ Len(c) <= MaxBytecodes
    <3>1. Len(c) = n + Len(t)
      BY <1>6 DEF Extended
    <3>2. n + (Len(rest) + 1) <= MaxBytecodes
      BY DEF Parsing, size
    <3>3. n + Len(t) = n + 1 + Len(rest) /\ n + (Len(rest) + 1) = n + Len(t)
      BY <1>3, <1>5
    <3> QED  BY <3>1, <3>2, <3>3
  <2>5. \A k \in 0..(Len(rest) - 1) : opOf(c, n + (k + 1)) = opOf(rest, k)
    BY <2>1, <2>2, <1>2
  <2>6. Grown(bytecodes, c, S, n + 1)
    BY <1>6 DEF Extended
  <2> QED  BY <2>3, <2>4, <2>5, <2>6
<1>8. /\ last \in IfData /\ IfHoldsJumps(bytecodes, last)
      /\ last = m_if_stack[Len(m_if_stack)] /\ Len(m_if_stack) \in DOMAIN m_if_stack
      /\ Jumps(last) \subseteq PositionsOf(bytecodes)
      /\ DOMAIN m_if_stack = 1..Len(m_if_stack) /\ Len(m_if_stack) \in Nat \ {0}
  BY <1>1, LastEntry
<1>9. /\ n \in Nat /\ n # Max /\ n \in PositionsOf(c) /\ n \notin PositionsOf(bytecodes)
      /\ Max \notin PositionsOf(bytecodes)
  <2>1. Len(c) \in Nat /\ n < Len(c) /\ n < Max /\ ~(Max <= n - 1)
    <3>1. Len(c) = n + 1 + Len(rest) /\ Len(c) <= MaxBytecodes
      BY <1>7
    <3> QED  BY <3>1, <1>3, <1>5, BoundsAssumption
  <2> QED  BY <2>1, <1>5, BoundsAssumption DEF PositionsOf
<1>10. FillsJumps(bytecodes, c, S, n + 1)
  <2> SUFFICES ASSUME last.prev_cond_jump \in PositionsOf(bytecodes)
               PROVE  /\ opOf(bytecodes, last.prev_cond_jump) = "ConditionalJump"
                      /\ last.prev_cond_jump + 1 <= n + 1 /\ n + 1 <= Len(c)
    BY DEF FillsJumps
  <2>1. opOf(bytecodes, last.prev_cond_jump) = "ConditionalJump"
    BY <1>8, <1>9 DEF IfHoldsJumps
  <2>2. last.prev_cond_jump + 1 <= n + 1
    BY <1>5 DEF PositionsOf
  <2>3. n + 1 <= Len(c)
    <3>1. Len(c) = n + 1 + Len(rest)
      BY <1>7
    <3> QED  BY <3>1, <1>3, <1>5
  <2> QED  BY <2>1, <2>2, <2>3
<1>11. next = Max \/ (/\ next \in PositionsOf(c) /\ next \notin PositionsOf(bytecodes)
                      /\ next # Max /\ opOf(c, next) = "ConditionalJump")
  <2> SUFFICES ASSUME next - (n + 1) \in 0..(Len(rest) - 1),
                      opOf(rest, next - (n + 1)) = "ConditionalJump"
               PROVE  /\ next \in PositionsOf(c) /\ next \notin PositionsOf(bytecodes)
                      /\ next # Max /\ opOf(c, next) = "ConditionalJump"
    BY DEF size
  <2> DEFINE k == next - (n + 1)
  <2>1. n + (k + 1) = next
    BY <1>5
  <2>2. opOf(c, n + (k + 1)) = "ConditionalJump"
    BY <1>7
  <2>3. next \in Nat /\ n <= next /\ next < Len(c) /\ Len(c) \in Nat /\ next < Max
    <3>1. k \in Nat /\ k < Len(rest) /\ Len(rest) \in Nat
      BY <1>2
    <3> HIDE DEF k
    <3> QED  BY <3>1, <2>1, <1>5, <1>7, BoundsAssumption
  <2>4. next \in PositionsOf(c) /\ next \notin PositionsOf(bytecodes) /\ next # Max
    BY <2>3, <1>5, BoundsAssumption DEF PositionsOf
  <2> QED  BY <2>1, <2>2, <2>4
<1>12. e \in IfData
  BY <1>5, <1>8 DEF IfData
<1>13. Jumps(e) = last.uncond_jumps \cup {n} \cup ({next} \ {Max})
  BY DEF Jumps
<1>14. last.uncond_jumps \subseteq Jumps(last) /\ Jumps(last) \subseteq last.uncond_jumps \cup S
  BY DEF Jumps
<1>15. IfHoldsJumps(c, e)
  <2>0. IfHoldsJumps(c, last)
    BY <1>7, <1>8, GrownKeepsEntry
  <2>1. \A k \in last.uncond_jumps : k \in PositionsOf(c) /\ opOf(c, k) = "Jump"
    BY <2>0 DEF IfHoldsJumps
  <2> QED  BY <2>1, <1>7, <1>9, <1>11 DEF IfHoldsJumps
<1> HIDE DEF e
<1>16. /\ ifs \in Seq(IfData) /\ DOMAIN ifs = DOMAIN m_if_stack
       /\ ifs[Len(m_if_stack)] = e
       /\ \A j \in DOMAIN m_if_stack : j # Len(m_if_stack) => ifs[j] = m_if_stack[j]
  <2>1. /\ ifs \in Seq(IfData) /\ DOMAIN ifs = 1..Len(m_if_stack)
        /\ \A j \in 1..(Len(m_if_stack) - 1) : ifs[j] = m_if_stack[j]
        /\ ifs[Len(m_if_stack)] = e
    <3>1. /\ withBack(m_if_stack, e) \in Seq(IfData)
          /\ DOMAIN withBack(m_if_stack, e) = 1..Len(m_if_stack)
          /\ \A j \in 1..(Len(m_if_stack) - 1) : withBack(m_if_stack, e)[j] = m_if_stack[j]
          /\ withBack(m_if_stack, e)[Len(m_if_stack)] = e
      BY <1>1, <1>12, ReplacedBack
    <3> QED  BY <3>1, <1>4
  <2>2. \A j \in 1..Len(m_if_stack) : j # Len(m_if_stack) => j \in 1..(Len(m_if_stack) - 1)
    BY <1>8, BelowLast
  <2> QED  BY <2>1, <2>2, <1>8
<1> HIDE DEF ifs
<1>17. /\ StacksHoldJumps(c, m_if_stack, m_loop_stack) /\ Waiting(c, m_loop_stack)
       /\ PositionsOf(bytecodes) \subseteq PositionsOf(c)
  BY <1>1, <1>7, <1>10, GrownKeepsStacks
<1>18. StacksHoldJumps(c, ifs, m_loop_stack)
  BY <1>15, <1>16, <1>17 DEF StacksHoldJumps
<1>19. Anchored(ifs)
  <2>1. Jumps(e) # {}
    BY <1>13
  <2> QED  BY <2>1, <1>1, <1>16 DEF Anchored
<1>20. NoneTwice(ifs, m_loop_stack)
  <2>1. \A j \in DOMAIN m_if_stack : Jumps(m_if_stack[j]) \subseteq PositionsOf(bytecodes)
    BY <1>1, JumpsArePlaced DEF Sound, StacksHoldJumps
  <2>2. \A j \in DOMAIN m_if_stack : j # Len(m_if_stack) => Jumps(m_if_stack[j]) \cap Jumps(last) = {}
    BY <1>1, <1>8 DEF NoneTwice
  <2>3. \A j \in DOMAIN m_if_stack : j # Len(m_if_stack) => Jumps(m_if_stack[j]) \cap Jumps(e) = {}
    BY <2>1, <2>2, <1>9, <1>11, <1>13, <1>14
  <2>4. \A j, l \in DOMAIN ifs : Jumps(ifs[j]) \cap Jumps(ifs[l]) # {} => j = l
    BY <2>3, <1>1, <1>16 DEF NoneTwice
  <2> QED  BY <2>4, <1>1 DEF NoneTwice
<1>21. Pending(bytecodes, m_if_stack, m_loop_stack) \subseteq Pending(c, ifs, m_loop_stack) \cup S
  <2> SUFFICES ASSUME NEW k \in Pending(bytecodes, m_if_stack, m_loop_stack), k \notin S
               PROVE  k \in Pending(c, ifs, m_loop_stack)
    OBVIOUS
  <2>1. k \in PositionsOf(c)
    BY <1>17 DEF Pending
  <2>2. CASE \E j \in DOMAIN m_loop_stack : m_loop_stack[j] = k
    BY <2>1, <2>2 DEF Pending
  <2>3. CASE \E j \in DOMAIN m_if_stack : k \in Jumps(m_if_stack[j])
    <3>1. PICK j \in DOMAIN m_if_stack : k \in Jumps(m_if_stack[j])
      BY <2>3
    <3>2. k \in Jumps(ifs[j])
      <4>1. CASE j = Len(m_if_stack)
        BY <4>1, <3>1, <1>8, <1>13, <1>14, <1>16
      <4>2. CASE j # Len(m_if_stack)
        BY <4>2, <3>1, <1>16
      <4> QED  BY <4>1, <4>2
    <3> QED  BY <3>1, <3>2, <2>1, <1>16 DEF Pending
  <2> QED  BY <2>2, <2>3 DEF Pending
<1>22. /\ n \in Pending(c, ifs, m_loop_stack)
       /\ next # Max => next \in Pending(c, ifs, m_loop_stack)
  BY <1>8, <1>9, <1>11, <1>13, <1>16 DEF Pending
<1>23. ASSUME NEW k \in 0..(Len(t) - 1)
       PROVE  /\ opOf(t, k) # "EndLoop"
              /\ opOf(t, k) \in {"Jump", "ConditionalJump", "StartLoop"} =>
                   n + k \in Pending(c, ifs, m_loop_stack)
  <2>1. CASE k = 0
    <3>1. opOf(t, k) = "Jump" /\ n + k = n
      BY <2>1, <1>2, <1>5
    <3> QED  BY <3>1, <1>22
  <2>2. CASE k # 0
    <3>1. k - 1 \in 0..(Len(rest) - 1) /\ (k - 1) + 1 = k /\ n + k = n + 1 + (k - 1)
      BY <2>2, <1>2, <1>5
    <3>2. opOf(t, k) = opOf(rest, k - 1)
      BY <3>1, <1>2
    <3>3. /\ opOf(rest, k - 1) \in {"Push", "Literal", "ConditionalJump"}
          /\ opOf(rest, k - 1) = "ConditionalJump" => next = n + 1 + (k - 1)
      BY <3>1 DEF size
    <3>4. n + k < Max
      BY <1>2, <1>5, <1>7, BoundsAssumption
    <3>5. n + k # Max
      BY <3>4, <1>5, BoundsAssumption
    <3> QED  BY <3>1, <3>2, <3>3, <3>5, <1>22
  <2> QED  BY <2>1, <2>2
<1> HIDE DEF last, S
<1>24. Sound(c, ifs, m_loop_stack)
  BY <1>1, <1>5, <1>6, <1>7, <1>10, <1>16, <1>17, <1>18, <1>19, <1>20, <1>21, <1>23, BlockKeepsSound
<1>25. m_loop_stack' = m_loop_stack /\ status' = "parsing"
  BY DEF Parsing
<1> QED  BY <1>24, <1>25, BlockKeepsIInv DEF c, ifs

LEMMA AfterElseType ==
  ASSUME bytecodes \in Seq(Bytecode)
  PROVE  AfterElse \in Seq(Bytecode)
<1> DEFINE f == Filled({back(m_if_stack).prev_cond_jump}, size + 1)
<1>1. size + 1 \in Nat
  BY LenProperties DEF size
<1>2. f \in Seq(Bytecode)
  BY <1>1, FilledIsGrown
<1>3. Code("Jump") \in Bytecode
  BY CodeType DEF Ops
<1> HIDE DEF f
<1>4. Append(f, Code("Jump")) \in Seq(Bytecode)
  BY <1>2, <1>3, AppendProperties
<1> QED  BY <1>4 DEF AfterElse, f

LEMMA EmptyProgram ==
  /\ <<>> \in Seq(Bytecode) /\ Len(<<>>) = 0
  /\ \A k : k \notin 0..(0 - 1)
OBVIOUS

LEMMA PlainElseKeepsIInv ==
  ASSUME IInv, Else
  PROVE  IInv'
<1>1. /\ m_if_stack # <<>> /\ Parsing(1) /\ WithElse(Max)
      /\ UNCHANGED <<m_loop_stack, status>> /\ bytecodes' = AfterElse
  BY DEF Else
<1>2. AfterElse \in Seq(Bytecode)
  BY AfterElseType DEF IInv, TypeOK
<1>3. bytecodes' = AfterElse \o <<>>
  BY <1>1, <1>2, ConcatEmptySeq
<1>4. Parsing(Len(<<>>) + 1)
  BY <1>1, EmptyProgram
<1>5. Max \in Nat
  BY BoundsAssumption
<1>6. \A k \in 0..(Len(<<>>) - 1) : FALSE
  BY EmptyProgram
<1> DEFINE rest == <<>>
<1>7. rest \in Seq(Bytecode)
  BY EmptyProgram
<1>8. /\ bytecodes' = AfterElse \o rest /\ Parsing(Len(rest) + 1)
      /\ \A k \in 0..(Len(rest) - 1) : FALSE
  BY <1>3, <1>4, <1>6
<1> HIDE DEF rest
<1> QED  BY <1>1, <1>5, <1>7, <1>8, ElseKeepsIInv

LEMMA ElseIfKeepsIInv ==
  ASSUME IInv, ElseIf
  PROVE  IInv'
<1> DEFINE rest == <<Code("Push"), Code("ConditionalJump")>>
<1>1. /\ m_if_stack # <<>> /\ Parsing(3) /\ WithElse(size + 2)
      /\ UNCHANGED <<m_loop_stack, status>> /\ bytecodes' = AfterElse \o rest
  BY DEF ElseIf
<1>2. /\ rest \in Seq(Bytecode) /\ Len(rest) = 2
      /\ opOf(rest, 0) = "Push" /\ opOf(rest, 1) = "ConditionalJump"
  BY CodeType, TwoCodes DEF Ops
<1> HIDE DEF rest
<1>3. size \in Nat
  BY LenProperties DEF size, IInv, TypeOK
<1>4. size + 2 \in Nat /\ (size + 2) - (size + 1) = 1 /\ size + 2 = size + 1 + 1
  BY <1>3
<1>5. \A k \in 0..(Len(rest) - 1) : k = 0 \/ k = 1
  BY <1>2
<1>6. 1 \in 0..(Len(rest) - 1) /\ Parsing(Len(rest) + 1)
  BY <1>1, <1>2
<1>7. \A k \in 0..(Len(rest) - 1) :
        /\ opOf(rest, k) \in {"Push", "Literal", "ConditionalJump"}
        /\ opOf(rest, k) = "ConditionalJump" => size + 2 = size + 1 + k
  BY <1>2, <1>4, <1>5
<1> QED  BY <1>1, <1>2, <1>4, <1>6, <1>7, ElseKeepsIInv

LEMMA LineElseIfFailsKeepsIInv ==
  ASSUME IInv, NEW left \in Leftovers, LineElseIfFails(left)
  PROVE  IInv'
<1>1. /\ m_if_stack # <<>> /\ Parsing(Len(left) + 1) /\ WithElse(Max)
      /\ UNCHANGED <<m_loop_stack, status>> /\ bytecodes' = AfterElse \o left
  BY DEF LineElseIfFails
<1>2. /\ left \in Seq(Bytecode)
      /\ \A k \in 0..(Len(left) - 1) : opOf(left, k) \in {"Push", "Literal"}
  BY LeftoversType
<1>3. Max \in Nat
  BY BoundsAssumption
<1> QED  BY <1>1, <1>2, <1>3, ElseKeepsIInv

LEMMA EndifKeepsIInv ==
  ASSUME IInv, Endif
  PROVE  IInv'
<1> DEFINE c == bytecodes'
           n == Len(bytecodes)
           last == back(m_if_stack)
           S == Jumps(last)
           ifs == m_if_stack'
           t == <<>>
<1>1. /\ Sound(bytecodes, m_if_stack, m_loop_stack) /\ bytecodes \in Seq(Bytecode)
      /\ m_if_stack \in Seq(IfData) /\ m_loop_stack \in Seq(Nat)
      /\ NoneTwice(m_if_stack, m_loop_stack) /\ Anchored(m_if_stack)
  BY IInvIsSound DEF Sound
<1>2. /\ m_if_stack # <<>> /\ ifs = popped(m_if_stack) /\ c = Filled(S, n)
      /\ m_loop_stack' = m_loop_stack /\ status' = "parsing" /\ n <= MaxBytecodes
  <2>1. \A m \in Nat : m + 0 = m
    OBVIOUS
  <2>2. n \in Nat
    BY <1>1, LenProperties
  <2> QED  BY <2>1, <2>2 DEF Endif, Parsing, size
<1>3. n \in Nat /\ t \in Seq(Bytecode) /\ Len(t) = 0
  BY <1>1, LenProperties
<1>4. c = Filled(S, n) \o t
  BY <1>1, <1>2, <1>3, FilledIsGrown, ConcatEmptySeq
<1> HIDE DEF t, c
<1>5. Extended(bytecodes, c, S, n, t)
  BY <1>1, <1>3, <1>4, Extension
<1>6. Grown(bytecodes, c, S, n) /\ Len(c) = n
  <2>1. Grown(bytecodes, c, S, n) /\ Len(c) = n + Len(t)
    BY <1>5 DEF Extended
  <2> QED  BY <2>1, <1>3
<1>7. /\ IfHoldsJumps(bytecodes, last)
      /\ last = m_if_stack[Len(m_if_stack)] /\ Len(m_if_stack) \in DOMAIN m_if_stack
      /\ DOMAIN m_if_stack = 1..Len(m_if_stack) /\ Len(m_if_stack) \in Nat \ {0}
  BY <1>1, <1>2, LastEntry
<1>8. FillsJumps(bytecodes, c, S, n)
  <2> SUFFICES ASSUME NEW k \in S, k \in PositionsOf(bytecodes)
               PROVE  /\ opOf(bytecodes, k) \in {"Jump", "ConditionalJump"}
                      /\ k + 1 <= n /\ n <= Len(c)
    BY DEF FillsJumps
  <2>1. opOf(bytecodes, k) \in {"Jump", "ConditionalJump"}
    BY <1>7 DEF IfHoldsJumps, Jumps
  <2>2. k + 1 <= n
    BY <1>3 DEF PositionsOf
  <2> QED  BY <2>1, <2>2, <1>3, <1>6
<1>9. /\ ifs \in Seq(IfData) /\ DOMAIN ifs = 1..(Len(m_if_stack) - 1)
      /\ \A j \in DOMAIN ifs : j \in DOMAIN m_if_stack /\ ifs[j] = m_if_stack[j]
  <2>1. /\ ifs \in Seq(IfData) /\ Len(ifs) = Len(m_if_stack) - 1
        /\ \A j \in 1..(Len(m_if_stack) - 1) : ifs[j] = m_if_stack[j]
    BY <1>1, <1>2, PoppedStack
  <2>2. \A j \in 1..(Len(m_if_stack) - 1) : j \in 1..Len(m_if_stack)
    BY <1>7
  <2>3. DOMAIN ifs = 1..Len(ifs)
    BY <2>1, LenProperties
  <2> QED  BY <2>1, <2>2, <2>3, <1>7
<1>10. \A j \in DOMAIN m_if_stack : j # Len(m_if_stack) => j \in DOMAIN ifs
  BY <1>7, <1>9, BelowLast
<1> HIDE DEF ifs
<1>11. /\ StacksHoldJumps(c, m_if_stack, m_loop_stack) /\ Waiting(c, m_loop_stack)
       /\ Pending(bytecodes, m_if_stack, m_loop_stack) \subseteq Pending(c, m_if_stack, m_loop_stack)
  BY <1>1, <1>6, <1>8, GrownKeepsStacks
<1>12. StacksHoldJumps(c, ifs, m_loop_stack) /\ NoneTwice(ifs, m_loop_stack) /\ Anchored(ifs)
  BY <1>1, <1>9, <1>11 DEF StacksHoldJumps, NoneTwice, Anchored
<1>13. Pending(c, m_if_stack, m_loop_stack) \subseteq Pending(c, ifs, m_loop_stack) \cup S
  BY <1>7, <1>9, <1>10 DEF Pending
<1>14. \A k \in 0..(Len(t) - 1) : FALSE
  BY <1>3
<1> HIDE DEF S
<1>15. Sound(c, ifs, m_loop_stack)
  <2>1. Pending(bytecodes, m_if_stack, m_loop_stack) \subseteq Pending(c, ifs, m_loop_stack) \cup S
    BY <1>11, <1>13
  <2>2. Len(c) <= MaxBytecodes
    BY <1>2, <1>6
  <2> QED  BY <2>1, <2>2, <1>1, <1>3, <1>5, <1>8, <1>9, <1>11, <1>12, <1>14, BlockKeepsSound
<1> QED  BY <1>2, <1>15, BlockKeepsIInv DEF c, ifs

LEMMA EndforKeepsIInv ==
  ASSUME IInv, Endfor
  PROVE  IInv'
<1> DEFINE c == bytecodes'
           n == Len(bytecodes)
           s == back(m_loop_stack)
           end == [op |-> "EndLoop", args |-> s + 1]
           t == <<end>>
           last == Len(m_loop_stack)
           loops == m_loop_stack'
           P == Pending(bytecodes, m_if_stack, m_loop_stack)
           Q == Pending(c, m_if_stack, loops)
<1>1. /\ Sound(bytecodes, m_if_stack, m_loop_stack) /\ bytecodes \in Seq(Bytecode)
      /\ m_if_stack \in Seq(IfData) /\ m_loop_stack \in Seq(Nat)
      /\ NoneTwice(m_if_stack, m_loop_stack) /\ Anchored(m_if_stack)
      /\ StacksHoldJumps(bytecodes, m_if_stack, m_loop_stack)
      /\ Waiting(bytecodes, m_loop_stack) /\ AllResolvedBut(bytecodes, P)
  BY IInvIsSound DEF Sound
<1>2. /\ m_loop_stack # <<>> /\ loops = popped(m_loop_stack)
      /\ c = Append(Filled({s}, n), end) /\ Parsing(1)
      /\ m_if_stack' = m_if_stack /\ status' = "parsing"
  BY DEF Endfor, Parsing, size
<1>3. n \in Nat /\ n + 1 <= MaxBytecodes
  BY <1>1, <1>2, LenProperties DEF Parsing, size
<1>4. /\ loops \in Seq(Nat) /\ last \in Nat \ {0} /\ Len(loops) = last - 1
      /\ \A j \in 1..(last - 1) : loops[j] = m_loop_stack[j]
      /\ s \in Nat /\ DOMAIN m_loop_stack = 1..last
  BY <1>1, <1>2, PoppedStack, LenProperties
<1>5. DOMAIN loops = 1..(last - 1) /\ last \in DOMAIN m_loop_stack /\ s = m_loop_stack[last]
  <2>1. DOMAIN loops = 1..Len(loops)
    BY <1>4, LenProperties
  <2>2. last \in 1..last
    BY <1>4
  <2> QED  BY <2>1, <2>2, <1>4 DEF back
<1>6. \A j \in DOMAIN loops : j \in DOMAIN m_loop_stack /\ j # last /\ loops[j] = m_loop_stack[j]
  <2>1. \A j \in 1..(last - 1) : j \in 1..last /\ j # last
    BY <1>4
  <2> QED  BY <2>1, <1>4, <1>5
<1>7. \A j \in DOMAIN m_loop_stack : j # last => j \in DOMAIN loops
  BY <1>4, <1>5, BelowLast
<1>8. /\ s \in PositionsOf(bytecodes) /\ opOf(bytecodes, s) = "StartLoop"
      /\ argsOf(bytecodes, s) = 0
  BY <1>1, <1>5 DEF StacksHoldJumps, Waiting
<1>9. end \in Bytecode /\ end.op = "EndLoop" /\ end.args = s + 1
  BY <1>4 DEF Bytecode, Ops
<1>10. /\ t \in Seq(Bytecode) /\ Len(t) = 1
       /\ opOf(t, 0) = "EndLoop" /\ argsOf(t, 0) = s + 1
  <2> HIDE DEF end
  <2> QED  BY <1>9, OneCode
<1>11. c = Filled({s}, n) \o t
  <2> HIDE DEF end
  <2> QED  BY <1>1, <1>2, <1>3, <1>9, FilledIsGrown, AppendIsConcat
<1> HIDE DEF t, c, loops, s, last
<1>12. Extended(bytecodes, c, {s}, n, t)
  BY <1>1, <1>3, <1>10, <1>11, Extension
<1>13. Grown(bytecodes, c, {s}, n) /\ c \in Seq(Bytecode) /\ Len(c) = n + 1
  <2>1. Grown(bytecodes, c, {s}, n) /\ c \in Seq(Bytecode) /\ Len(c) = n + Len(t)
    BY <1>12 DEF Extended
  <2> QED  BY <2>1, <1>10
<1>14. opOf(c, n) = "EndLoop" /\ argsOf(c, n) = s + 1
  <2>1. \A k \in 0..(Len(t) - 1) : opOf(c, n + k) = opOf(t, k) /\ argsOf(c, n + k) = argsOf(t, k)
    BY <1>12 DEF Extended
  <2>2. 0 \in 0..(Len(t) - 1) /\ n + 0 = n
    BY <1>3, <1>10
  <2>3. opOf(c, n + 0) = opOf(t, 0) /\ argsOf(c, n + 0) = argsOf(t, 0)
    BY <2>1, <2>2
  <2> QED  BY <2>2, <2>3, <1>10
<1>15. opOf(c, s) = "StartLoop" /\ argsOf(c, s) = n
  BY <1>8, <1>13 DEF Grown
<1>16. \A k \in PositionsOf(bytecodes) :
         /\ \A o \in {"Jump", "ConditionalJump", "StartLoop", "EndLoop"} :
              opOf(c, k) = o <=> opOf(bytecodes, k) = o
         /\ k # s => argsOf(c, k) = argsOf(bytecodes, k)
  BY <1>13 DEF Grown
<1>17. PositionsOf(bytecodes) \subseteq PositionsOf(c)
  BY <1>3, <1>13 DEF PositionsOf
<1>18. StacksHoldJumps(c, m_if_stack, loops)
  <2>1. \A j \in DOMAIN m_if_stack : IfHoldsJumps(c, m_if_stack[j])
    BY <1>1, <1>13, GrownKeepsEntry DEF StacksHoldJumps
  <2>2. \A j \in DOMAIN loops : loops[j] \in PositionsOf(c) /\ opOf(c, loops[j]) = "StartLoop"
    BY <1>1, <1>6, <1>16, <1>17 DEF StacksHoldJumps
  <2> QED  BY <2>1, <2>2 DEF StacksHoldJumps
<1>19. \A j \in DOMAIN loops : loops[j] # s
  BY <1>1, <1>5, <1>6 DEF NoneTwice
<1>20. Waiting(c, loops) /\ NoneTwice(m_if_stack, loops)
  <2>1. Waiting(c, loops)
    BY <1>1, <1>6, <1>16, <1>19 DEF Waiting, StacksHoldJumps
  <2>2. NoneTwice(m_if_stack, loops)
    BY <1>1, <1>6 DEF NoneTwice
  <2> QED  BY <2>1, <2>2
<1>21. P \subseteq Q \cup {s}
  BY <1>5, <1>6, <1>7, <1>17 DEF Pending
<1> HIDE DEF P, Q
<1>22. ASSUME NEW k \in PositionsOf(bytecodes)
       PROVE  /\ opOf(c, k) \in {"Jump", "ConditionalJump"} => k \in Q \/ JumpResolved(c, k)
              /\ opOf(c, k) = "StartLoop" => k \in Q \/ LoopResolved(c, k)
              /\ opOf(c, k) = "EndLoop" => EndPaired(c, k)
  <2>1. /\ opOf(bytecodes, k) \in {"Jump", "ConditionalJump"} => k \in P \/ JumpResolved(bytecodes, k)
        /\ opOf(bytecodes, k) = "StartLoop" => k \in P \/ LoopResolved(bytecodes, k)
        /\ opOf(bytecodes, k) = "EndLoop" => EndPaired(bytecodes, k)
    BY <1>1 DEF AllResolvedBut
  <2>2. k \in Nat /\ k < n
    BY <1>3 DEF PositionsOf
  <2>3. CASE k = s
    <3>1. LoopResolved(c, s)
      <4>1. n \in (s + 1)..(Len(c) - 1)
        BY <2>2, <2>3, <1>3, <1>13
      <4> QED  BY <4>1, <1>14, <1>15 DEF LoopResolved
    <3> QED  BY <3>1, <2>3, <1>15
  <2>4. CASE k # s
    <3>1. /\ \A o \in {"Jump", "ConditionalJump", "StartLoop", "EndLoop"} :
               opOf(c, k) = o <=> opOf(bytecodes, k) = o
          /\ argsOf(c, k) = argsOf(bytecodes, k)
      BY <2>4, <1>16
    <3>2. JumpResolved(bytecodes, k) => JumpResolved(c, k)
      BY <3>1, <2>2, <1>3, <1>13 DEF JumpResolved
    <3>3. ASSUME LoopResolved(bytecodes, k) PROVE LoopResolved(c, k)
      <4> DEFINE e == argsOf(bytecodes, k)
      <4>1. e \in (k + 1)..(n - 1) /\ opOf(bytecodes, e) = "EndLoop" /\ argsOf(bytecodes, e) = k + 1
        BY <3>3 DEF LoopResolved
      <4>2. e \in PositionsOf(bytecodes) /\ e # s
        BY <4>1, <2>2, <1>3, <1>8 DEF PositionsOf
      <4>3. opOf(c, e) = "EndLoop" /\ argsOf(c, e) = k + 1
        BY <4>1, <4>2, <1>16
      <4>4. e \in (k + 1)..(Len(c) - 1)
        BY <4>1, <2>2, <1>3, <1>13
      <4> QED  BY <4>3, <4>4, <3>1 DEF LoopResolved
    <3>4. ASSUME EndPaired(bytecodes, k) PROVE EndPaired(c, k)
      <4> DEFINE r == argsOf(bytecodes, k) - 1
      <4>1. r \in 0..(k - 1) /\ opOf(bytecodes, r) = "StartLoop" /\ argsOf(bytecodes, r) = k
        BY <3>4 DEF EndPaired
      <4>2. r \in PositionsOf(bytecodes) /\ k # 0
        BY <4>1, <2>2, <1>3 DEF PositionsOf
      <4>3. r # s
        BY <4>1, <4>2, <1>8
      <4>4. opOf(c, r) = "StartLoop" /\ argsOf(c, r) = k
        BY <4>1, <4>2, <4>3, <1>16
      <4> QED  BY <4>1, <4>4, <3>1 DEF EndPaired
    <3>5. k \in P => k \in Q
      BY <2>4, <1>21
    <3> QED  BY <3>1, <3>2, <3>3, <3>4, <3>5, <2>1
  <2> QED  BY <2>3, <2>4
<1>23. EndPaired(c, n)
  <2>1. (s + 1) - 1 = s /\ s \in 0..(n - 1)
    BY <1>3, <1>8 DEF PositionsOf
  <2> QED  BY <2>1, <1>14, <1>15 DEF EndPaired
<1>24. \A k \in PositionsOf(c) : k \in PositionsOf(bytecodes) \/ k = n
  BY <1>3, <1>13 DEF PositionsOf
<1>25. AllResolvedBut(c, Q)
  BY <1>14, <1>22, <1>23, <1>24 DEF AllResolvedBut
<1>26. Sound(c, m_if_stack, loops)
  BY <1>1, <1>3, <1>4, <1>13, <1>18, <1>20, <1>25 DEF Sound, Q
<1> QED  BY <1>2, <1>26, BlockKeepsIInv DEF c, loops

-----------------------------------------------------------------------------
(* The whole parser *)

LEMMA InitIInv == Init => IInv
<1> SUFFICES ASSUME Init PROVE IInv
  OBVIOUS
<1>1. /\ bytecodes = <<>> /\ m_if_stack = <<>> /\ m_loop_stack = <<>> /\ status = "parsing"
  BY DEF Init
<1>2. Len(<<>>) = 0 /\ DOMAIN <<>> = {} /\ 0 <= MaxBytecodes
  BY BoundsAssumption
<1>3. TypeOK
  BY <1>1, <1>2 DEF TypeOK, size
<1>4. PositionsOf(<<>>) = {}
  BY <1>2 DEF PositionsOf
<1>5. JumpsAreAccountedFor /\ Waiting(<<>>, <<>>) /\ Anchored(<<>>)
  BY <1>1, <1>2, <1>4
     DEF JumpsAreAccountedFor, StacksHoldJumps, NoneTwice, AllResolvedBut, Waiting, Anchored
<1> QED  BY <1>1, <1>3, <1>5 DEF IInv, AcceptedIsClosed

(* With nothing open nothing is pending. *)
LEMMA EofKeepsIInv ==
  ASSUME IInv, Eof
  PROVE  IInv'
<1>1. /\ m_if_stack = <<>> /\ m_loop_stack = <<>> /\ status' = "accepted"
      /\ bytecodes' = bytecodes /\ m_if_stack' = m_if_stack /\ m_loop_stack' = m_loop_stack
  BY DEF Eof, stacks
<1>2. /\ Sound(bytecodes, m_if_stack, m_loop_stack)
      /\ AllResolvedBut(bytecodes, Pending(bytecodes, m_if_stack, m_loop_stack))
  BY IInvIsSound DEF Sound
<1>3. Pending(bytecodes, m_if_stack, m_loop_stack) = {}
  BY <1>1 DEF Pending
<1>4. AcceptedIsClosed'
  BY <1>1, <1>2, <1>3 DEF AcceptedIsClosed
<1>5. Sound(bytecodes, m_if_stack, m_loop_stack)'
  BY <1>1, <1>2
<1> QED  BY <1>1, <1>4, <1>5 DEF IInv, Sound, TypeOK, JumpsAreAccountedFor, size

LEMMA NextTemplateKeepsIInv ==
  ASSUME IInv, NextTemplate
  PROVE  IInv'
<1>1. /\ bytecodes' = <<>> /\ status' = "parsing"
      /\ m_if_stack' = <<>> /\ m_loop_stack' = <<>>
  BY DEF NextTemplate, IInv, AcceptedIsClosed, stacks
<1>2. Len(<<>>) = 0 /\ DOMAIN <<>> = {} /\ 0 <= MaxBytecodes
  BY BoundsAssumption
<1>3. TypeOK'
  BY <1>1, <1>2 DEF TypeOK, size
<1>4. PositionsOf(<<>>) = {}
  BY <1>2 DEF PositionsOf
<1>5. JumpsAreAccountedFor' /\ Waiting(bytecodes, m_loop_stack)' /\ Anchored(m_if_stack)'
  BY <1>1, <1>2, <1>4
     DEF JumpsAreAccountedFor, StacksHoldJumps, NoneTwice, AllResolvedBut, Waiting, Anchored
<1> QED  BY <1>1, <1>3, <1>5 DEF IInv, AcceptedIsClosed

(* The program and the stacks are left alone, and nothing is accepted. *)
LEMMA StopKeepsIInv ==
  ASSUME IInv, UNCHANGED <<bytecodes, stacks>>, status' \in {"rejected", "undefined"}
  PROVE  IInv'
BY DEF IInv, TypeOK, JumpsAreAccountedFor, AcceptedIsClosed, size, stacks

LEMMA StutterKeepsIInv ==
  ASSUME IInv, UNCHANGED vars
  PROVE  IInv'
BY DEF IInv, TypeOK, JumpsAreAccountedFor, AcceptedIsClosed, size, vars

LEMMA NextKeepsIInv == IInv /\ [Next]_vars => IInv'
<1> SUFFICES ASSUME IInv, [Next]_vars PROVE IInv'
  OBVIOUS
<1>1. CASE Text
  BY <1>1, AppendsOne DEF Text, PlainOps, Begun
<1>2. CASE Expression
  BY <1>2, AppendsOne DEF Expression, PlainOps, Begun
<1>3. CASE If
  BY <1>3, IfKeepsIInv
<1>4. CASE Else
  BY <1>4, PlainElseKeepsIInv
<1>5. CASE ElseIf
  BY <1>5, ElseIfKeepsIInv
<1>6. CASE ElseTraps
  BY <1>6, StopKeepsIInv DEF ElseTraps
<1>7. CASE Endif
  BY <1>7, EndifKeepsIInv
<1>8. CASE For
  BY <1>8, ForKeepsIInv
<1>9. CASE Endfor
  BY <1>9, EndforKeepsIInv
<1>10. CASE \E left \in Leftovers : LineFails(left) \/ LineElseIfFails(left)
  BY <1>10, LineFailsKeepsIInv, LineElseIfFailsKeepsIInv
<1>11. CASE Reject
  BY <1>11, StopKeepsIInv DEF Reject
<1>12. CASE Eof
  BY <1>12, EofKeepsIInv
<1>13. CASE NextTemplate
  BY <1>13, NextTemplateKeepsIInv
<1>14. CASE UNCHANGED vars
  BY <1>14, StutterKeepsIInv
<1> QED
  BY <1>1, <1>2, <1>3, <1>4, <1>5, <1>6, <1>7, <1>8, <1>9, <1>10, <1>11, <1>12, <1>13, <1>14
  DEF Next, Block

(* Parser::parse: however long the template, every state satisfies the      *)
(* inductive invariant.                                                     *)
THEOREM InductiveInvariant == Spec => []IInv
BY InitIInv, NextKeepsIInv, PTL DEF Spec

(* Parser: the types of the program and of the stacks, at any length.       *)
THEOREM TypeCorrect == Spec => []TypeOK
<1>1. IInv => TypeOK
  BY DEF IInv
<1> QED  BY <1>1, InductiveInvariant, PTL

(* parse_statement: at any time every jump and every StartLoop either has   *)
(* its destination, or is waited for by exactly one open statement.         *)
THEOREM JumpsAccounted == Spec => []JumpsAreAccountedFor
<1>1. IInv => JumpsAreAccountedFor
  BY DEF IInv
<1> QED  BY <1>1, InductiveInvariant, PTL

(* parse_into: an accepted program has every destination filled in.         *)
THEOREM AcceptedClosed == Spec => []AcceptedIsClosed
<1>1. IInv => AcceptedIsClosed
  BY DEF IInv
<1> QED  BY <1>1, InductiveInvariant, PTL

(* The parser that is reused for the next template has nothing open: an     *)
(* open statement has a jump in the program, so that the stacks are empty   *)
(* when the program is.                                                     *)
THEOREM TemplatesStartClean == Spec => []StartsClean
<1>1. IInv => StartsClean
  <2> SUFFICES ASSUME IInv, bytecodes = <<>>
               PROVE  m_if_stack = <<>> /\ m_loop_stack = <<>>
    BY DEF StartsClean
  <2>1. PositionsOf(bytecodes) = {}
    BY DEF PositionsOf
  <2>2. /\ StacksHoldJumps(bytecodes, m_if_stack, m_loop_stack) /\ Anchored(m_if_stack)
        /\ m_if_stack \in Seq(IfData) /\ m_loop_stack \in Seq(Nat)
    BY DEF IInv, TypeOK, JumpsAreAccountedFor
  <2>3. DOMAIN m_if_stack = {}
    BY <2>1, <2>2, JumpsArePlaced DEF StacksHoldJumps, Anchored
  <2>4. DOMAIN m_loop_stack = {}
    BY <2>1, <2>2 DEF StacksHoldJumps
  <2>5. /\ m_if_stack # <<>> => 1 \in DOMAIN m_if_stack
        /\ m_loop_stack # <<>> => 1 \in DOMAIN m_loop_stack
    BY <2>2, EmptySeq, LenProperties
  <2> QED  BY <2>3, <2>4, <2>5
<1> QED  BY <1>1, InductiveInvariant, PTL

(***************************************************************************)
(* The renderer                                                            *)
(***************************************************************************)

JumpOps == {"Jump", "ConditionalJump"}

-----------------------------------------------------------------------------
(* Where a program can be entered: a bytecode that pops a value is behind   *)
(* the one that pushes it, and no jump lands between the two; or it is      *)
(* behind a call that took over a literal, and a jump may.                  *)

BehindCall(b, k) == k > 0 /\ opOf(b, k - 1) = "Callback"

(* no value is popped at k but that of such a call *)
PopsNotAt(b, k) ==
  k \in PositionsOf(b) /\ opOf(b, k) \in PoppingOps => BehindCall(b, k)

Landings(b) ==
  \A k \in PositionsOf(b) :
    /\ opOf(b, k) \in PoppingOps => k > 0 /\ opOf(b, k - 1) \in {"Push", "Callback"}
    /\ argsOf(b, k) <= Len(b)
    /\ opOf(b, k) \in JumpOps => PopsNotAt(b, argsOf(b, k))

(* what a block has to append to b for the program c: its pops behind its   *)
(* pushes, and jumps that have no destination yet                           *)
Landable(b, c, t) ==
  \A k \in 0..(Len(t) - 1) :
    /\ opOf(t, k) \in PoppingOps =>
         \/ k > 0 /\ opOf(t, k - 1) = "Push"
         \/ k = 0 /\ BehindCall(c, Len(b))
    /\ argsOf(t, k) <= Len(c)
    /\ opOf(t, k) \in JumpOps => argsOf(t, k) = 0

LEMMA LandingsExtend ==
  ASSUME NEW b \in Seq(Bytecode), NEW c, NEW S, NEW to \in Nat, NEW t \in Seq(Bytecode),
         Extended(b, c, S, to, t), Landings(b), Landable(b, c, t),
         S \cap PositionsOf(b) # {} => to <= Len(c) /\ PopsNotAt(c, to)
  PROVE  Landings(c)
<1> DEFINE n == Len(b)
<1>1. /\ n \in Nat /\ Len(t) \in Nat /\ Len(c) = n + Len(t) /\ c \in Seq(Bytecode)
      /\ Grown(b, c, S, to)
      /\ PositionsOf(b) = 0..(n - 1) /\ PositionsOf(c) = 0..(n + Len(t) - 1)
  BY DEF Extended, PositionsOf
<1>2. \A k \in PositionsOf(b) : argsOf(b, k) \in Nat
  <2> SUFFICES ASSUME NEW k \in PositionsOf(b) PROVE argsOf(b, k) \in Nat
    OBVIOUS
  <2>1. k + 1 \in 1..n
    BY <1>1
  <2>2. b[k + 1] \in Bytecode
    BY <2>1, ElementOfSeq
  <2> QED  BY <2>2 DEF argsOf, Bytecode
<1>3. \A k \in PositionsOf(b) :
        /\ \A o \in Ops \ {"Literal", "Callback"} : opOf(c, k) = o <=> opOf(b, k) = o
        /\ opOf(b, k) = "Callback" => opOf(c, k) = "Callback"
        /\ k \in S => argsOf(c, k) = to
        /\ k \notin S => argsOf(c, k) = argsOf(b, k)
  BY <1>1 DEF Grown
<1>8. PoppingOps \cup JumpOps \cup {"Push"} \subseteq Ops \ {"Literal", "Callback"}
  BY DEF PoppingOps, JumpOps, Ops
<1>4. \A k \in PositionsOf(c) \ PositionsOf(b) :
        /\ k - n \in 0..(Len(t) - 1)
        /\ opOf(c, k) = opOf(t, k - n) /\ argsOf(c, k) = argsOf(t, k - n)
  <2> SUFFICES ASSUME NEW k \in PositionsOf(c) \ PositionsOf(b)
               PROVE  /\ k - n \in 0..(Len(t) - 1)
                      /\ opOf(c, k) = opOf(t, k - n) /\ argsOf(c, k) = argsOf(t, k - n)
    OBVIOUS
  <2>1. k - n \in 0..(Len(t) - 1) /\ n + (k - n) = k
    BY <1>1
  <2> QED  BY <2>1 DEF Extended
<1>5. \A k \in PositionsOf(c) :
        opOf(c, k) \in PoppingOps => k > 0 /\ opOf(c, k - 1) \in {"Push", "Callback"}
  <2> SUFFICES ASSUME NEW k \in PositionsOf(c), opOf(c, k) \in PoppingOps
               PROVE  k > 0 /\ opOf(c, k - 1) \in {"Push", "Callback"}
    OBVIOUS
  <2>1. CASE k \in PositionsOf(b)
    <3>1. k > 0 /\ opOf(b, k - 1) \in {"Push", "Callback"}
      BY <1>3, <1>8, <2>1 DEF Landings
    <3>2. k - 1 \in PositionsOf(b)
      BY <1>1, <2>1, <3>1
    <3> QED  BY <1>3, <1>8, <3>1, <3>2
  <2>2. CASE k \notin PositionsOf(b)
    <3>1. \/ k - n > 0 /\ opOf(t, (k - n) - 1) = "Push"
          \/ k - n = 0 /\ BehindCall(c, n)
      BY <1>4, <2>2 DEF Landable
    <3>2. CASE k - n > 0 /\ opOf(t, (k - n) - 1) = "Push"
      <4>1. /\ k > 0 /\ k - 1 \in PositionsOf(c) \ PositionsOf(b)
            /\ (k - 1) - n = (k - n) - 1
        BY <1>1, <2>2, <3>2
      <4> QED  BY <1>4, <3>2, <4>1
    <3>3. CASE k - n = 0 /\ BehindCall(c, n)
      <4>1. k = n
        BY <1>1, <3>3
      <4> QED  BY <3>3, <4>1 DEF BehindCall
    <3> QED  BY <3>1, <3>2, <3>3
  <2> QED  BY <2>1, <2>2
<1>6. \A k \in PositionsOf(c) : argsOf(c, k) <= Len(c)
  <2>1. \A k \in PositionsOf(b) : argsOf(b, k) <= n
    BY DEF Landings
  <2>2. \A k \in PositionsOf(c) \ PositionsOf(b) : argsOf(c, k) <= Len(c)
    BY <1>4 DEF Landable
  <2>3. \A k \in PositionsOf(b) : argsOf(c, k) <= Len(c)
    BY <1>1, <1>2, <1>3, <2>1
  <2> QED  BY <2>2, <2>3
<1>7. ASSUME NEW k \in PositionsOf(c), opOf(c, k) \in JumpOps
      PROVE  PopsNotAt(c, argsOf(c, k))
  <2>1. PopsNotAt(c, 0)
    BY <1>5 DEF PopsNotAt
  <2>2. CASE k \notin PositionsOf(b)
    <3>1. argsOf(c, k) = 0
      BY <1>4, <1>7, <2>2 DEF Landable
    <3> QED  BY <2>1, <3>1
  <2>3. CASE k \in PositionsOf(b) /\ k \in S
    BY <1>3, <1>7, <2>3
  <2>4. CASE k \in PositionsOf(b) /\ k \notin S
    <3> DEFINE a == argsOf(b, k)
    <3>1. argsOf(c, k) = a /\ a \in Nat /\ a <= n /\ PopsNotAt(b, a)
      BY <1>2, <1>3, <1>8, <1>7, <2>4 DEF Landings
    <3> HIDE DEF a
    <3>2. CASE a \in PositionsOf(b)
      <4> SUFFICES ASSUME opOf(c, a) \in PoppingOps PROVE BehindCall(c, a)
        BY <3>1 DEF PopsNotAt
      <4>1. opOf(b, a) \in PoppingOps
        BY <1>3, <1>8, <3>2
      <4>2. a > 0 /\ opOf(b, a - 1) = "Callback"
        BY <3>1, <3>2, <4>1 DEF PopsNotAt, BehindCall
      <4>3. a - 1 \in PositionsOf(b)
        BY <1>1, <3>2, <4>2
      <4> QED  BY <1>3, <4>2, <4>3 DEF BehindCall
    <3>3. CASE a \notin PositionsOf(b)
      <4> SUFFICES ASSUME a \in PositionsOf(c), opOf(c, a) \in PoppingOps
                   PROVE  BehindCall(c, a)
        BY <3>1 DEF PopsNotAt
      <4>1. a = n /\ a - n = 0
        BY <1>1, <3>1, <3>3
      <4>2. opOf(c, a) = opOf(t, 0) /\ 0 \in 0..(Len(t) - 1)
        BY <1>4, <3>3, <4>1
      <4>3. BehindCall(c, n)
        BY <4>2 DEF Landable
      <4> QED  BY <4>1, <4>3
    <3> QED  BY <3>2, <3>3
  <2> QED  BY <2>2, <2>3, <2>4
<1> QED  BY <1>5, <1>6, <1>7 DEF Landings

-----------------------------------------------------------------------------
(* What each block appends to the program, and fills in *)

LEMMA SizeIsNat == bytecodes \in Seq(Bytecode) => size \in Nat /\ size = Len(bytecodes)
BY LenProperties DEF size

(* what a block without statements appends *)
PlainRest(b, c, t) ==
  \A k \in 0..(Len(t) - 1) :
    /\ opOf(t, k) \in PlainOps /\ argsOf(t, k) = 0
    /\ opOf(t, k) = "PrintPopped" => k = 0 /\ BehindCall(c, Len(b))

LEMMA PlainShape ==
  ASSUME bytecodes \in Seq(Bytecode),
         Text \/ Expression \/ \E left \in Leftovers : LineFails(left)
  PROVE  \E t \in Seq(Bytecode) :
           Extended(bytecodes, bytecodes', {}, 0, t) /\ PlainRest(bytecodes, bytecodes', t)
<1> DEFINE c == bytecodes'
<1>1. ASSUME NEW o \in PlainOps, NEW b \in Begun, c = Append(b, Code(o)),
             o = "PrintPopped" => b \in TakenOver
      PROVE  \E t \in Seq(Bytecode) :
               Extended(bytecodes, c, {}, 0, t) /\ PlainRest(bytecodes, c, t)
  <2> DEFINE t == <<Code(o)>>
  <2>1. o \in Ops
    BY DEF PlainOps, Ops
  <2>2. /\ c = b \o t /\ t \in Seq(Bytecode) /\ Len(t) = 1
        /\ opOf(t, 0) = o /\ argsOf(t, 0) = 0
    BY <1>1, <2>1, AppendedOne
  <2> HIDE DEF t
  <2>3. Extended(bytecodes, c, {}, 0, t)
    BY <2>2, BegunExtension
  <2>4. \A k \in 0..(1 - 1) : k = 0
    OBVIOUS
  <2>5. o = "PrintPopped" => BehindCall(c, Len(bytecodes))
    <3> SUFFICES ASSUME b \in TakenOver PROVE BehindCall(c, Len(bytecodes))
      BY <1>1
    <3>1. /\ b \in Seq(Bytecode) /\ Len(b) = Len(bytecodes) /\ Len(b) \in Nat \ {0}
          /\ opOf(b, Len(b) - 1) = "Callback"
      BY TakenOverIsGrown
    <3>2. Len(b) - 1 \in PositionsOf(b) /\ Len(b) > 0
      BY <3>1 DEF PositionsOf
    <3>3. opOf(c, Len(b) - 1) = "Callback"
      BY <2>2, <3>1, <3>2, ConcatIsGrown
    <3> QED  BY <3>1, <3>2, <3>3 DEF BehindCall
  <2>6. PlainRest(bytecodes, c, t)
    BY <1>1, <2>2, <2>4, <2>5 DEF PlainRest
  <2> QED  BY <2>2, <2>3, <2>6
<1>2. CASE Text
  BY <1>1, <1>2 DEF Text, PlainOps, Begun
<1>3. CASE Expression
  BY <1>1, <1>3 DEF Expression, PlainOps, Begun
<1>4. CASE \E left \in Leftovers : LineFails(left)
  <2>1. PICK left \in Leftovers : LineFails(left)
    BY <1>4
  <2>2. PICK b \in Begun : c = b \o left
    BY <2>1 DEF LineFails, Begun
  <2>3. /\ left \in Seq(Bytecode)
        /\ \A k \in 0..(Len(left) - 1) :
             opOf(left, k) \in {"Push", "Literal"} /\ argsOf(left, k) = 0
    BY LeftoversType
  <2>4. Extended(bytecodes, c, {}, 0, left)
    BY <2>2, <2>3, BegunExtension
  <2>5. PlainRest(bytecodes, c, left)
    BY <2>3 DEF PlainRest, PlainOps
  <2> QED  BY <2>3, <2>4, <2>5
<1> QED  BY <1>2, <1>3, <1>4

(* If and For *)
LEMMA OpensShape ==
  ASSUME bytecodes \in Seq(Bytecode), If \/ For
  PROVE  \E o \in {"ConditionalJump", "StartLoop"} : \E t \in Seq(Bytecode) :
           Opening(bytecodes, bytecodes', t, o)
<1>1. PICK o \in {"ConditionalJump", "StartLoop"}, b \in Evaluated :
        bytecodes' = Append(b, Code(o))
  BY DEF If, For
<1> QED  BY <1>1, EvaluatedShape DEF Ops

(* The three forms of an else append a jump, and a test, if any. *)
Elses == Else \/ ElseIf \/ \E left \in Leftovers : LineElseIfFails(left)

(* what an else appends behind its jump, and the conditional jump it leaves *)
ElseRest(rest, next) ==
  /\ rest \in Seq(Bytecode) /\ Len(rest) \in 0..2
  /\ \A k \in 0..(Len(rest) - 1) :
       /\ opOf(rest, k) \in IF k = 1 THEN {"ConditionalJump"} ELSE {"Push", "Literal"}
       /\ argsOf(rest, k) = 0
  /\ Len(rest) = 2 => opOf(rest, 0) = "Push"
  /\ next = IF Len(rest) = 2 THEN size + 2 ELSE Max

LEMMA ElseRestExists ==
  ASSUME bytecodes \in Seq(Bytecode), Elses
  PROVE  \E rest, next :
           bytecodes' = AfterElse \o rest /\ WithElse(next) /\ ElseRest(rest, next)
<1>1. CASE Else
  <2> DEFINE rest == <<>>
  <2>1. rest \in Seq(Bytecode) /\ Len(rest) = 0
    BY EmptyProgram
  <2>2. bytecodes' = AfterElse \o rest /\ WithElse(Max)
    BY <1>1, AfterElseType, ConcatEmptySeq DEF Else
  <2> HIDE DEF rest
  <2>3. ElseRest(rest, Max)
    BY <2>1 DEF ElseRest
  <2> QED  BY <2>2, <2>3
<1>2. CASE ElseIf
  <2> DEFINE rest == <<Code("Push"), Code("ConditionalJump")>>
  <2>1. /\ rest \in Seq(Bytecode) /\ Len(rest) = 2
        /\ opOf(rest, 0) = "Push" /\ opOf(rest, 1) = "ConditionalJump"
        /\ argsOf(rest, 0) = 0 /\ argsOf(rest, 1) = 0
    BY CodeType, TwoCodes DEF Ops
  <2>2. bytecodes' = AfterElse \o rest /\ WithElse(size + 2)
    BY <1>2 DEF ElseIf
  <2> HIDE DEF rest
  <2>3. \A k \in 0..(Len(rest) - 1) : k = 0 \/ k = 1
    BY <2>1
  <2>4. ElseRest(rest, size + 2)
    BY <2>1, <2>3 DEF ElseRest
  <2> QED  BY <2>2, <2>4
<1>3. ASSUME NEW left \in Leftovers, LineElseIfFails(left)
      PROVE  bytecodes' = AfterElse \o left /\ WithElse(Max) /\ ElseRest(left, Max)
  <2>1. /\ left \in Seq(Bytecode) /\ Len(left) \in 0..1
        /\ \A k \in 0..(Len(left) - 1) :
             k = 0 /\ opOf(left, k) \in {"Push", "Literal"} /\ argsOf(left, k) = 0
    BY LeftoversType
  <2>2. Len(left) # 2 /\ Len(left) \in 0..2
    <3>1. \A m \in 0..1 : m # 2 /\ m \in 0..2
      OBVIOUS
    <3> QED  BY <2>1, <3>1
  <2>3. \A k \in 0..(Len(left) - 1) :
          /\ opOf(left, k) \in IF k = 1 THEN {"ConditionalJump"} ELSE {"Push", "Literal"}
          /\ argsOf(left, k) = 0
    <3> SUFFICES ASSUME NEW k \in 0..(Len(left) - 1)
                 PROVE  /\ opOf(left, k) \in IF k = 1 THEN {"ConditionalJump"} ELSE {"Push", "Literal"}
                        /\ argsOf(left, k) = 0
      OBVIOUS
    <3>1. k = 0 /\ opOf(left, k) \in {"Push", "Literal"} /\ argsOf(left, k) = 0
      BY <2>1
    <3>2. k # 1
      BY <3>1
    <3> QED  BY <3>1, <3>2
  <2>4. ElseRest(left, Max)
    BY <2>1, <2>2, <2>3 DEF ElseRest
  <2>5. bytecodes' = AfterElse \o left /\ WithElse(Max)
    BY <1>3 DEF LineElseIfFails
  <2> QED  BY <2>4, <2>5
<1> QED  BY <1>1, <1>2, <1>3 DEF Elses

LEMMA ElseShape ==
  ASSUME bytecodes \in Seq(Bytecode), Elses
  PROVE  \E t \in Seq(Bytecode) :
           /\ Extended(bytecodes, bytecodes', {back(m_if_stack).prev_cond_jump}, size + 1, t)
           /\ Len(t) \in 1..3 /\ opOf(t, 0) = "Jump"
           /\ \A k \in 0..(Len(t) - 1) : argsOf(t, k) = 0
           /\ \A k \in 1..(Len(t) - 1) :
                opOf(t, k) \in IF k = 2 THEN {"ConditionalJump"} ELSE {"Push", "Literal"}
           /\ Len(t) = 3 => opOf(t, 1) = "Push"
           /\ \E next : WithElse(next) /\ next = IF Len(t) = 3 THEN size + 2 ELSE Max
<1>1. PICK rest, next :
        bytecodes' = AfterElse \o rest /\ WithElse(next) /\ ElseRest(rest, next)
  BY ElseRestExists
<1>2. /\ rest \in Seq(Bytecode) /\ Len(rest) \in 0..2
      /\ \A k \in 0..(Len(rest) - 1) :
           /\ opOf(rest, k) \in IF k = 1 THEN {"ConditionalJump"} ELSE {"Push", "Literal"}
           /\ argsOf(rest, k) = 0
      /\ Len(rest) = 2 => opOf(rest, 0) = "Push"
      /\ next = IF Len(rest) = 2 THEN size + 2 ELSE Max
  BY <1>1 DEF ElseRest
<1>3. PICK t \in Seq(Bytecode) :
        /\ AfterElse \o rest = Filled({back(m_if_stack).prev_cond_jump}, size + 1) \o t
        /\ Len(t) = Len(rest) + 1
        /\ opOf(t, 0) = "Jump" /\ argsOf(t, 0) = 0
        /\ \A k \in 0..(Len(rest) - 1) :
             opOf(t, k + 1) = opOf(rest, k) /\ argsOf(t, k + 1) = argsOf(rest, k)
  BY <1>2, ElseProgram
<1>4. Extended(bytecodes, bytecodes', {back(m_if_stack).prev_cond_jump}, size + 1, t)
  <2>1. size + 1 \in Nat
    BY SizeIsNat
  <2> QED  BY <1>1, <1>3, <2>1, Extension
<1>5. Len(t) \in 1..3 /\ (Len(t) = 3 <=> Len(rest) = 2)
  <2>1. \A m \in 0..2 : m + 1 \in 1..3 /\ (m + 1 = 3 <=> m = 2)
    OBVIOUS
  <2> QED  BY <1>2, <1>3, <2>1
<1>6. \A k \in 1..(Len(t) - 1) :
        /\ opOf(t, k) \in IF k = 2 THEN {"ConditionalJump"} ELSE {"Push", "Literal"}
        /\ argsOf(t, k) = 0
  <2> SUFFICES ASSUME NEW k \in 1..(Len(t) - 1)
               PROVE  /\ opOf(t, k) \in IF k = 2 THEN {"ConditionalJump"} ELSE {"Push", "Literal"}
                      /\ argsOf(t, k) = 0
    OBVIOUS
  <2>1. k - 1 \in 0..(Len(rest) - 1) /\ (k - 1) + 1 = k /\ (k - 1 = 1 <=> k = 2)
    BY <1>2, <1>3
  <2> QED  BY <1>2, <1>3, <2>1
<1>7. \A k \in 0..(Len(t) - 1) : k = 0 \/ k \in 1..(Len(t) - 1)
  OBVIOUS
<1>8. \E nxt : WithElse(nxt) /\ nxt = IF Len(t) = 3 THEN size + 2 ELSE Max
  <2>1. next = IF Len(t) = 3 THEN size + 2 ELSE Max
    BY <1>2, <1>5
  <2> QED  BY <1>1, <2>1
<1>9. \A k \in 0..(Len(t) - 1) : argsOf(t, k) = 0
  BY <1>3, <1>6, <1>7
<1>10. Len(t) = 3 => opOf(t, 1) = "Push"
  <2> SUFFICES ASSUME Len(rest) = 2 PROVE opOf(t, 1) = "Push"
    BY <1>5
  <2>1. 0 \in 0..(2 - 1) /\ 0 + 1 = 1
    OBVIOUS
  <2>2. 0 \in 0..(Len(rest) - 1) /\ opOf(t, 0 + 1) = opOf(rest, 0)
    BY <1>3, <2>1
  <2> QED  BY <1>2, <2>1, <2>2
<1> QED  BY <1>3, <1>4, <1>5, <1>6, <1>8, <1>9, <1>10

LEMMA EndifShape ==
  ASSUME bytecodes \in Seq(Bytecode), Endif
  PROVE  Extended(bytecodes, bytecodes', Jumps(back(m_if_stack)), size, <<>>)
<1> DEFINE S == Jumps(back(m_if_stack))
           t == <<>>
<1>1. t \in Seq(Bytecode) /\ size \in Nat
  BY SizeIsNat
<1>2. bytecodes' = Filled(S, size) \o t
  BY <1>1, FilledIsGrown, ConcatEmptySeq DEF Endif
<1> HIDE DEF t, S
<1>3. Extended(bytecodes, bytecodes', S, size, t)
  BY <1>1, <1>2, Extension
<1> QED  BY <1>3 DEF S, t

LEMMA EndforShape ==
  ASSUME bytecodes \in Seq(Bytecode), m_loop_stack \in Seq(Nat), Endfor
  PROVE  LET s == back(m_loop_stack)
         IN  \E t \in Seq(Bytecode) :
               /\ Extended(bytecodes, bytecodes', {s}, size, t)
               /\ Len(t) = 1 /\ opOf(t, 0) = "EndLoop" /\ argsOf(t, 0) = s + 1
<1> DEFINE s == back(m_loop_stack)
           end == [op |-> "EndLoop", args |-> s + 1]
           t == <<end>>
           f == Filled({s}, size)
<1>1. s \in Nat /\ size \in Nat
  BY SizeIsNat, PoppedStack DEF Endfor
<1> HIDE DEF s
<1>2. end \in Bytecode /\ end.op = "EndLoop" /\ end.args = s + 1
  BY <1>1 DEF Bytecode, Ops
<1>3. bytecodes' = Append(f, end)
  BY DEF Endfor, s
<1> HIDE DEF end
<1>4. /\ t \in Seq(Bytecode) /\ Len(t) = 1
      /\ opOf(t, 0) = "EndLoop" /\ argsOf(t, 0) = s + 1
  BY <1>2, OneCode
<1>5. f \in Seq(Bytecode)
  BY <1>1, FilledIsGrown
<1>6. bytecodes' = f \o t
  <2> HIDE DEF f
  <2> QED  BY <1>2, <1>3, <1>5, AppendIsConcat
<1> HIDE DEF t
<1>7. Extended(bytecodes, bytecodes', {s}, size, t)
  BY <1>1, <1>4, <1>6, Extension
<1> QED  BY <1>4, <1>7 DEF s

(* Every block of a template leaves the landings in order. *)
LEMMA BlockKeepsLandings ==
  ASSUME IInv, Landings(bytecodes), Block
  PROVE  Landings(bytecodes')
<1> DEFINE n == Len(bytecodes)
<1>1. /\ bytecodes \in Seq(Bytecode) /\ m_loop_stack \in Seq(Nat)
      /\ size = n /\ n \in Nat /\ PositionsOf(bytecodes) = 0..(n - 1)
  BY SizeIsNat DEF IInv, TypeOK, PositionsOf
<1>2. CASE Text \/ Expression \/ \E left \in Leftovers : LineFails(left)
  <2>1. PICK t \in Seq(Bytecode) :
          /\ Extended(bytecodes, bytecodes', {}, 0, t)
          /\ PlainRest(bytecodes, bytecodes', t)
    BY <1>1, <1>2, PlainShape
  <2>2. Len(bytecodes') \in Nat
    BY <2>1, LenProperties DEF Extended
  <2>3. \A o \in PlainOps : o \notin JumpOps /\ (o \in PoppingOps => o = "PrintPopped")
    BY DEF PlainOps, PoppingOps, JumpOps
  <2>4. Landable(bytecodes, bytecodes', t)
    BY <2>1, <2>2, <2>3 DEF Landable, PlainRest
  <2> QED  BY <1>1, <2>1, <2>4, LandingsExtend
<1>3. CASE If \/ For
  <2> DEFINE c == bytecodes'
  <2>1. PICK o \in {"ConditionalJump", "StartLoop"}, t \in Seq(Bytecode) :
          Opening(bytecodes, c, t, o)
    BY <1>1, <1>3, OpensShape
  <2> HIDE DEF c
  <2>2. /\ Extended(bytecodes, c, {}, 0, t)
        /\ Len(t) \in 1..2
        /\ \A k \in 0..(Len(t) - 1) :
             /\ opOf(t, k) = IF k = Len(t) - 1 THEN o ELSE "Push"
             /\ argsOf(t, k) = 0
        /\ Len(t) = 1 => n > 0 /\ opOf(c, n - 1) = "Callback"
    BY <2>1 DEF Opening
  <2>3. Len(c) \in Nat
    BY <2>2, LenProperties DEF Extended
  <2>4. ASSUME NEW k \in 0..(Len(t) - 1), k = Len(t) - 1
        PROVE  \/ k > 0 /\ opOf(t, k - 1) = "Push"
               \/ k = 0 /\ BehindCall(c, n)
    <3>1. CASE Len(t) = 1
      BY <2>2, <2>4, <3>1 DEF BehindCall
    <3>2. CASE Len(t) = 2
      <4>1. k = 1 /\ k - 1 = 0 /\ 0 \in 0..(Len(t) - 1) /\ 0 # Len(t) - 1 /\ k > 0
        BY <2>4, <3>2
      <4> QED  BY <2>2, <4>1
    <3>3. Len(t) = 1 \/ Len(t) = 2
      BY <2>2
    <3> QED  BY <3>1, <3>2, <3>3
  <2>5. "Push" \notin PoppingOps \cup JumpOps
    BY DEF PoppingOps, JumpOps
  <2>6. Landable(bytecodes, c, t)
    BY <2>2, <2>3, <2>4, <2>5 DEF Landable
  <2>7. Landings(c)
    BY <1>1, <2>2, <2>6, LandingsExtend
  <2> QED  BY <2>7 DEF c
<1>4. CASE Elses
  <2> DEFINE c == bytecodes'
             S == {back(m_if_stack).prev_cond_jump}
  <2>1. PICK t \in Seq(Bytecode) :
           /\ Extended(bytecodes, c, S, size + 1, t)
           /\ Len(t) \in 1..3 /\ opOf(t, 0) = "Jump"
           /\ \A k \in 0..(Len(t) - 1) : argsOf(t, k) = 0
           /\ \A k \in 1..(Len(t) - 1) :
                opOf(t, k) \in IF k = 2 THEN {"ConditionalJump"} ELSE {"Push", "Literal"}
           /\ Len(t) = 3 => opOf(t, 1) = "Push"
    BY <1>1, <1>4, ElseShape
  <2> HIDE DEF c, S
  <2>2. Len(c) \in Nat /\ Len(c) = n + Len(t)
    BY <2>1, LenProperties DEF Extended
  <2>3. Landable(bytecodes, c, t)
    <3>1. \A k \in 0..(Len(t) - 1) : \/ k = 0
                                     \/ k = 1 /\ k \in 1..(Len(t) - 1)
                                     \/ /\ k = 2 /\ k > 0 /\ k - 1 = 1 /\ Len(t) = 3
                                        /\ k \in 1..(Len(t) - 1)
      <4>1. \A m \in 1..3 : \A k \in 0..(m - 1) :
              \/ k = 0
              \/ k = 1 /\ k \in 1..(m - 1)
              \/ k = 2 /\ k > 0 /\ k - 1 = 1 /\ m = 3 /\ k \in 1..(m - 1)
        OBVIOUS
      <4>2. Len(t) \in 1..3
        BY <2>1
      <4> QED  BY <4>1, <4>2
    <3> QED  BY <2>1, <2>2, <3>1 DEF Landable, PoppingOps
  <2>4. n + 1 <= Len(c) /\ n + 1 \in Nat
    <3>1. Len(t) \in 1..3
      BY <2>1
    <3>2. \A m \in Nat : \A l \in 1..3 : m + 1 <= m + l /\ m + 1 \in Nat
      OBVIOUS
    <3>3. n + 1 <= n + Len(t) /\ n + 1 \in Nat
      BY <1>1, <3>1, <3>2
    <3> QED  BY <2>2, <3>3
  <2>5. PopsNotAt(c, n + 1)
    <3> SUFFICES ASSUME n + 1 \in PositionsOf(c) PROVE opOf(c, n + 1) \in {"Push", "Literal"}
      BY DEF PopsNotAt, PoppingOps
    <3>1. 1 \in 0..(Len(t) - 1) /\ 1 \in 1..(Len(t) - 1)
      BY <1>1, <2>1, <2>2 DEF PositionsOf
    <3>2. opOf(c, n + 1) = opOf(t, 1)
      BY <2>1, <3>1 DEF Extended
    <3> QED  BY <2>1, <3>1, <3>2
  <2>6. Landings(c)
    BY <1>1, <2>1, <2>3, <2>4, <2>5, LandingsExtend
  <2> QED  BY <2>6 DEF c
<1>5. CASE Endif
  <2> DEFINE c == bytecodes'
             S == Jumps(back(m_if_stack))
             t == <<>>
  <2>1. Extended(bytecodes, c, S, n, t) /\ t \in Seq(Bytecode) /\ Len(t) = 0
    BY <1>1, <1>5, EndifShape, EmptyProgram
  <2> HIDE DEF c, S, t
  <2>2. Len(c) = n
    <3>1. Len(c) = n + Len(t)
      BY <2>1 DEF Extended
    <3> QED  BY <1>1, <2>1, <3>1
  <2>3. n <= Len(c) /\ PopsNotAt(c, n)
    BY <1>1, <2>2 DEF PositionsOf, PopsNotAt
  <2>4. Landable(bytecodes, c, t)
    <3>1. \A k \in 0..(Len(t) - 1) : FALSE
      BY <2>1
    <3> QED  BY <3>1 DEF Landable
  <2>5. Landings(c)
    BY <1>1, <2>1, <2>3, <2>4, LandingsExtend
  <2> QED  BY <2>5 DEF c
<1>6. CASE Endfor
  <2> DEFINE c == bytecodes'
             s == back(m_loop_stack)
  <2>1. PICK t \in Seq(Bytecode) :
           /\ Extended(bytecodes, c, {s}, n, t)
           /\ Len(t) = 1 /\ opOf(t, 0) = "EndLoop" /\ argsOf(t, 0) = s + 1
    BY <1>1, <1>6, EndforShape
  <2>2. s \in 0..(n - 1)
    <3>1. Len(m_loop_stack) \in DOMAIN m_loop_stack
      BY <1>1, <1>6, LenProperties, EmptySeq DEF Endfor
    <3> QED  BY <1>1, <3>1 DEF IInv, JumpsAreAccountedFor, StacksHoldJumps, back
  <2> HIDE DEF c, s
  <2>3. Len(c) = n + 1
    <3>1. Len(c) = n + Len(t)
      BY <2>1 DEF Extended
    <3> QED  BY <2>1, <3>1
  <2>4. opOf(c, n) = "EndLoop"
    <3>1. 0 \in 0..(Len(t) - 1) /\ n + 0 = n
      BY <1>1, <2>1
    <3>2. opOf(c, n + 0) = opOf(t, 0)
      BY <2>1, <3>1 DEF Extended
    <3> QED  BY <2>1, <3>1, <3>2
  <2>5. n <= Len(c) /\ s + 1 <= Len(c)
    BY <1>1, <2>2, <2>3
  <2>6. Landable(bytecodes, c, t)
    <3>1. \A k \in 0..(Len(t) - 1) : k = 0
      BY <2>1
    <3> QED  BY <2>1, <2>5, <3>1 DEF Landable, PoppingOps, JumpOps
  <2>7. Landings(c)
    BY <1>1, <2>1, <2>4, <2>5, <2>6, LandingsExtend DEF PoppingOps, PopsNotAt
  <2> QED  BY <2>7 DEF c
<1>7. CASE ElseTraps
  BY <1>7 DEF ElseTraps
<1> QED  BY <1>2, <1>3, <1>4, <1>5, <1>6, <1>7 DEF Block, Elses

-----------------------------------------------------------------------------
(* Nesting.  O are the positions of the StartLoops that are still open, P   *)
(* those of the bytecodes that wait for their destination.                  *)

LoopsOf(b) == {s \in PositionsOf(b) : opOf(b, s) = "StartLoop"}

(* the loop at s is around the position k: an open one is around all that   *)
(* follows                                                                  *)
Around(b, O, s, k) == s < k /\ (s \in O \/ k <= argsOf(b, s))

(* what begins in a loop that is closed is closed, and ends before it *)
Laminar(b, O) ==
  \A s, t \in LoopsOf(b) :
    Around(b, O, s, t) => s \in O \/ (t \notin O /\ argsOf(b, t) < argsOf(b, s))

(* a jump leads neither into a loop nor out of one *)
JumpsStay(b, O, P) ==
  \A k \in PositionsOf(b) :
    opOf(b, k) \in JumpOps /\ k \notin P =>
      \A s \in LoopsOf(b) : Around(b, O, s, k) <=> Around(b, O, s, argsOf(b, k))

(* a jump that waits is in no loop that is closed *)
PendingOutside(b, O, P) ==
  \A k \in P : opOf(b, k) \in JumpOps => \A s \in LoopsOf(b) \ O : ~Around(b, O, s, k)

Nesting(b, O, P) == Laminar(b, O) /\ JumpsStay(b, O, P) /\ PendingOutside(b, O, P)

ClosedBelow(b, O) ==
  \A s \in LoopsOf(b) \ O : argsOf(b, s) \in (s + 1)..(Len(b) - 1)

(* A block that neither opens nor closes a loop, and fills in jumps that    *)
(* are in every open loop, keeps the nesting.                               *)
LEMMA NestingExtend ==
  ASSUME NEW b \in Seq(Bytecode), NEW c, NEW S, NEW to \in Nat, NEW t \in Seq(Bytecode),
         Extended(b, c, S, to, t), FillsJumps(b, c, S, to),
         NEW O, NEW P, NEW Q, Nesting(b, O, P), ClosedBelow(b, O),
         \A k \in 0..(Len(t) - 1) :
           /\ opOf(t, k) # "StartLoop"
           /\ opOf(t, k) \in JumpOps => Len(b) + k \in Q,
         \A k \in S \cap PositionsOf(b) :
           k \in P /\ Len(b) <= to /\ \A s \in LoopsOf(b) \cap O : s < k,
         P \subseteq Q \cup S, Q \cap PositionsOf(b) \subseteq P, Q \subseteq PositionsOf(c)
  PROVE  Nesting(c, O, Q)
<1> DEFINE n == Len(b)
<1>1. /\ n \in Nat /\ Len(t) \in Nat /\ Len(c) = n + Len(t) /\ c \in Seq(Bytecode)
      /\ Grown(b, c, S, to)
      /\ PositionsOf(b) = 0..(n - 1) /\ PositionsOf(c) = 0..(n + Len(t) - 1)
  BY DEF Extended, PositionsOf
<1>2. \A k \in PositionsOf(b) :
        /\ opOf(c, k) = "StartLoop" <=> opOf(b, k) = "StartLoop"
        /\ opOf(c, k) \in JumpOps <=> opOf(b, k) \in JumpOps
        /\ k \in S => argsOf(c, k) = to
        /\ k \notin S => argsOf(c, k) = argsOf(b, k)
  BY <1>1 DEF Grown, JumpOps
<1>3. \A k \in PositionsOf(c) \ PositionsOf(b) :
        opOf(c, k) # "StartLoop" /\ (opOf(c, k) \in JumpOps => k \in Q)
  <2> SUFFICES ASSUME NEW k \in PositionsOf(c) \ PositionsOf(b)
               PROVE  opOf(c, k) # "StartLoop" /\ (opOf(c, k) \in JumpOps => k \in Q)
    OBVIOUS
  <2>1. k - n \in 0..(Len(t) - 1) /\ n + (k - n) = k
    BY <1>1
  <2>2. opOf(c, k) = opOf(t, k - n)
    BY <2>1 DEF Extended
  <2> QED  BY <2>1, <2>2
<1>4. PositionsOf(b) \subseteq PositionsOf(c) /\ \A s \in LoopsOf(b) : s \in Nat /\ s < n
  BY <1>1 DEF LoopsOf
<1>5. LoopsOf(c) = LoopsOf(b)
  BY <1>2, <1>3, <1>4 DEF LoopsOf
<1>6. \A s \in LoopsOf(b) : s \notin S /\ argsOf(c, s) = argsOf(b, s)
  BY <1>2 DEF LoopsOf, FillsJumps
<1>7. \A s \in LoopsOf(b) : \A x : Around(c, O, s, x) <=> Around(b, O, s, x)
  BY <1>6 DEF Around
<1>8. \A s \in LoopsOf(b) \ O : argsOf(b, s) \in Nat /\ argsOf(b, s) < n
  BY <1>1, <1>4 DEF ClosedBelow
<1>9. \A s \in LoopsOf(b) \ O : \A x \in Nat : n <= x => ~Around(b, O, s, x)
  BY <1>1, <1>8 DEF Around
<1>10. Laminar(c, O)
  BY <1>5, <1>6, <1>7 DEF Nesting, Laminar
<1>11. JumpsStay(c, O, Q)
  <2> SUFFICES ASSUME NEW k \in PositionsOf(c), opOf(c, k) \in JumpOps, k \notin Q,
                      NEW s \in LoopsOf(b)
               PROVE  Around(b, O, s, k) <=> Around(b, O, s, argsOf(c, k))
    BY <1>5, <1>7 DEF JumpsStay
  <2>1. k \in PositionsOf(b) /\ opOf(b, k) \in JumpOps
    BY <1>2, <1>3
  <2>2. CASE k \in S
    <3>1. /\ k \in P /\ n <= to /\ argsOf(c, k) = to
          /\ s \in O => s < k
      BY <1>2, <2>1, <2>2
    <3>2. CASE s \in O
      BY <1>1, <1>4, <3>1, <3>2 DEF Around
    <3>3. CASE s \notin O
      <4>1. ~Around(b, O, s, k)
        BY <2>1, <3>1, <3>3 DEF Nesting, PendingOutside
      <4>2. ~Around(b, O, s, to)
        BY <1>9, <3>1, <3>3
      <4> QED  BY <3>1, <4>1, <4>2
    <3> QED  BY <3>2, <3>3
  <2>3. CASE k \notin S
    <3>1. k \notin P /\ argsOf(c, k) = argsOf(b, k)
      BY <1>2, <2>1, <2>3
    <3> QED  BY <2>1, <3>1 DEF Nesting, JumpsStay
  <2> QED  BY <2>2, <2>3
<1>12. PendingOutside(c, O, Q)
  <2> SUFFICES ASSUME NEW k \in Q, opOf(c, k) \in JumpOps, NEW s \in LoopsOf(b) \ O
               PROVE  ~Around(b, O, s, k)
    BY <1>5, <1>7 DEF PendingOutside
  <2>1. CASE k \in PositionsOf(b)
    BY <1>2, <2>1 DEF Nesting, PendingOutside
  <2>2. CASE k \notin PositionsOf(b)
    <3>1. k \in Nat /\ n <= k
      BY <1>1, <2>2
    <3> QED  BY <1>9, <3>1
  <2> QED  BY <2>1, <2>2
<1> QED  BY <1>10, <1>11, <1>12 DEF Nesting

(* The destinations in a program are in the program, or at its end. *)
LEMMA ArgsAreNat ==
  ASSUME NEW b \in Seq(Bytecode), NEW k \in PositionsOf(b)
  PROVE  argsOf(b, k) \in Nat /\ k \in Nat /\ opOf(b, k) \in Ops
<1>1. k + 1 \in 1..Len(b) /\ k \in Nat
  BY LenProperties DEF PositionsOf
<1>2. b[k + 1] \in Bytecode
  BY <1>1, ElementOfSeq
<1> QED  BY <1>1, <1>2 DEF argsOf, opOf, Bytecode

(* A for opens a loop, with all that is there before it. *)
LEMMA NestingOpens ==
  ASSUME NEW b \in Seq(Bytecode), NEW c, NEW t \in Seq(Bytecode),
         Opening(b, c, t, "StartLoop"), NEW p, p = Len(b) + Len(t) - 1,
         NEW O, NEW P, NEW Q, Nesting(b, O, P), ClosedBelow(b, O), Landings(b),
         O \subseteq PositionsOf(b),
         P \subseteq Q, Q \cap PositionsOf(b) \subseteq P, Q \subseteq PositionsOf(c)
  PROVE  Nesting(c, O \cup {p}, Q)
<1> DEFINE n == Len(b)
           new == O \cup {p}
<1>0. /\ n \in Nat /\ p \in Nat /\ n <= p
      /\ PositionsOf(b) = 0..(n - 1) /\ PositionsOf(c) = 0..p
      /\ p \in PositionsOf(c) /\ p \notin PositionsOf(b)
      /\ PositionsOf(b) \subseteq PositionsOf(c)
      /\ opOf(c, p) = "StartLoop"
      /\ \A k \in PositionsOf(c) \ PositionsOf(b) : k # p => opOf(c, k) = "Push"
      /\ Grown(b, c, {}, 0)
  BY OpeningFacts
<1>1. /\ n \in Nat /\ p \in Nat /\ n <= p
      /\ PositionsOf(b) = 0..(n - 1) /\ PositionsOf(c) = 0..p
      /\ \A k \in PositionsOf(b) :
           /\ opOf(c, k) = "StartLoop" <=> opOf(b, k) = "StartLoop"
           /\ opOf(c, k) \in JumpOps <=> opOf(b, k) \in JumpOps
           /\ argsOf(c, k) = argsOf(b, k)
  BY <1>0 DEF Grown, JumpOps
<1>2. opOf(c, p) = "StartLoop"
  BY <1>0
<1>3. \A k \in PositionsOf(c) : k \in PositionsOf(b) \/ opOf(c, k) = "Push" \/ k = p
  BY <1>0
<1>4. p \in PositionsOf(c) /\ p \notin PositionsOf(b) /\ PositionsOf(b) \subseteq PositionsOf(c)
  BY <1>0
<1>5. LoopsOf(c) = LoopsOf(b) \cup {p}
  BY <1>1, <1>2, <1>3, <1>4 DEF LoopsOf
<1>6. \A s \in LoopsOf(b) : /\ s \in Nat /\ s < n /\ s # p
                            /\ s \in new <=> s \in O
                            /\ argsOf(c, s) = argsOf(b, s)
  BY <1>1 DEF LoopsOf
<1>7. \A s \in LoopsOf(b) : \A x : Around(c, new, s, x) <=> Around(b, O, s, x)
  BY <1>6 DEF Around
<1>8. \A s \in LoopsOf(b) \ O : argsOf(b, s) \in Nat /\ argsOf(b, s) < n
  BY <1>1, <1>6 DEF ClosedBelow
<1>9. \A k \in Nat : k <= p => ~Around(c, new, p, k)
  BY <1>1 DEF Around
<1>10. Laminar(c, new)
  <2> SUFFICES ASSUME NEW s \in LoopsOf(c), NEW u \in LoopsOf(c), Around(c, new, s, u)
               PROVE  s \in new \/ (u \notin new /\ argsOf(c, u) < argsOf(c, s))
    BY DEF Laminar
  <2>1. CASE s = p
    BY <2>1
  <2>2. CASE s # p /\ u = p
    <3>1. s \in LoopsOf(b) /\ Around(b, O, s, p)
      BY <1>5, <1>7, <2>2
    <3>2. s \in O
      BY <1>1, <1>8, <3>1 DEF Around
    <3> QED  BY <3>2
  <2>3. CASE s # p /\ u # p
    <3>1. s \in LoopsOf(b) /\ u \in LoopsOf(b) /\ Around(b, O, s, u)
      BY <1>5, <1>7, <2>3
    <3>2. s \in O \/ (u \notin O /\ argsOf(b, u) < argsOf(b, s))
      BY <3>1 DEF Nesting, Laminar
    <3> QED  BY <1>6, <3>1, <3>2
  <2> QED  BY <2>1, <2>2, <2>3
<1>11. \A k \in PositionsOf(c) : opOf(c, k) \in JumpOps => k \in PositionsOf(b)
  BY <1>2, <1>3 DEF JumpOps
<1>12. JumpsStay(c, new, Q)
  <2> SUFFICES ASSUME NEW k \in PositionsOf(b), opOf(c, k) \in JumpOps, k \notin Q,
                      NEW s \in LoopsOf(c)
               PROVE  Around(c, new, s, k) <=> Around(c, new, s, argsOf(c, k))
    BY <1>11 DEF JumpsStay
  <2>1. /\ opOf(b, k) \in JumpOps /\ k \notin P /\ argsOf(c, k) = argsOf(b, k)
        /\ argsOf(b, k) \in Nat /\ argsOf(b, k) <= n /\ k \in Nat /\ k <= n
    BY <1>1, ArgsAreNat DEF Landings
  <2>2. CASE s = p
    <3>1. k <= p /\ argsOf(b, k) <= p
      BY <1>1, <2>1
    <3> QED  BY <1>9, <2>1, <2>2, <3>1
  <2>3. CASE s # p
    <3>1. s \in LoopsOf(b)
      BY <1>5, <2>3
    <3>2. Around(b, O, s, k) <=> Around(b, O, s, argsOf(b, k))
      BY <2>1, <3>1 DEF Nesting, JumpsStay
    <3> QED  BY <1>7, <2>1, <3>1, <3>2
  <2> QED  BY <2>2, <2>3
<1>13. PendingOutside(c, new, Q)
  <2> SUFFICES ASSUME NEW k \in Q, opOf(c, k) \in JumpOps, NEW s \in LoopsOf(c) \ new
               PROVE  ~Around(c, new, s, k)
    BY DEF PendingOutside
  <2>1. k \in P /\ opOf(b, k) \in JumpOps
    BY <1>1, <1>11
  <2>2. s \in LoopsOf(b) \ O
    BY <1>5
  <2>3. ~Around(b, O, s, k)
    BY <2>1, <2>2 DEF Nesting, PendingOutside
  <2> QED  BY <1>7, <2>2, <2>3
<1> QED  BY <1>10, <1>12, <1>13 DEF Nesting

(* An endfor closes the loop that was opened last, and no jump in it waits. *)
LEMMA NestingCloses ==
  ASSUME NEW b \in Seq(Bytecode), NEW c, NEW t \in Seq(Bytecode), NEW r \in LoopsOf(b),
         Extended(b, c, {r}, Len(b), t), Len(t) = 1, opOf(t, 0) = "EndLoop",
         NEW O, NEW P, NEW Q, Nesting(b, O, P), ClosedBelow(b, O), Landings(b),
         r \in O, \A s \in LoopsOf(b) \cap O : s <= r,
         \A k \in P : opOf(b, k) \in JumpOps => k < r,
         P \subseteq Q \cup {r}, Q \cap PositionsOf(b) \subseteq P, Q \subseteq PositionsOf(c)
  PROVE  Nesting(c, O \ {r}, Q)
<1> DEFINE n == Len(b)
           new == O \ {r}
<1>1. /\ n \in Nat /\ Len(c) = n + 1 /\ c \in Seq(Bytecode)
      /\ PositionsOf(b) = 0..(n - 1) /\ PositionsOf(c) = 0..n
      /\ r \in PositionsOf(b) /\ argsOf(c, r) = n
      /\ \A k \in PositionsOf(b) :
           /\ opOf(c, k) = "StartLoop" <=> opOf(b, k) = "StartLoop"
           /\ opOf(c, k) \in JumpOps <=> opOf(b, k) \in JumpOps
           /\ k # r => argsOf(c, k) = argsOf(b, k)
  <2>1. n \in Nat /\ Len(c) = n + 1 /\ c \in Seq(Bytecode) /\ Grown(b, c, {r}, n)
    BY DEF Extended
  <2> QED  BY <2>1 DEF Grown, PositionsOf, LoopsOf, JumpOps
<1>2. opOf(c, n) = "EndLoop"
  <2>1. 0 \in 0..(Len(t) - 1) /\ n + 0 = n
    BY <1>1
  <2>2. opOf(c, n + 0) = opOf(t, 0)
    BY <2>1 DEF Extended
  <2> QED  BY <2>1, <2>2
<1>3. \A k \in PositionsOf(c) : k \in PositionsOf(b) \/ k = n
  BY <1>1
<1>4. LoopsOf(c) = LoopsOf(b)
  BY <1>1, <1>2, <1>3 DEF LoopsOf
<1>5. \A s \in LoopsOf(b) : s \in Nat /\ s < n
  BY <1>1 DEF LoopsOf
<1>6. \A s \in LoopsOf(b) \ {r} :
        /\ argsOf(c, s) = argsOf(b, s)
        /\ \A x : Around(c, new, s, x) <=> Around(b, O, s, x)
  BY <1>1 DEF LoopsOf, Around
<1>7. \A x : x <= n => (Around(c, new, r, x) <=> Around(b, O, r, x))
  BY <1>1 DEF Around
<1>8. \A s \in LoopsOf(b) \ O : argsOf(b, s) \in Nat /\ argsOf(b, s) < n
  BY <1>1, <1>5 DEF ClosedBelow
<1>9. Laminar(c, new)
  <2> SUFFICES ASSUME NEW s \in LoopsOf(b), NEW u \in LoopsOf(b), Around(c, new, s, u)
               PROVE  s \in new \/ (u \notin new /\ argsOf(c, u) < argsOf(c, s))
    BY <1>4 DEF Laminar
  <2>1. CASE s = r
    <3>1. r < u
      BY <2>1 DEF Around
    <3>2. u \notin O /\ u # r
      BY <1>5, <3>1
    <3> QED  BY <1>1, <1>6, <1>8, <2>1, <3>2
  <2>2. CASE s # r
    <3>1. Around(b, O, s, u)
      BY <1>6, <2>2
    <3>2. s \in O \/ (u \notin O /\ argsOf(b, u) < argsOf(b, s))
      BY <3>1 DEF Nesting, Laminar
    <3> QED  BY <1>6, <2>2, <3>2
  <2> QED  BY <2>1, <2>2
<1>10. \A k \in PositionsOf(c) :
         opOf(c, k) \in JumpOps => k \in PositionsOf(b) /\ k # r /\ opOf(b, k) \in JumpOps
  BY <1>1, <1>2, <1>3 DEF JumpOps, LoopsOf
<1>11. JumpsStay(c, new, Q)
  <2> SUFFICES ASSUME NEW k \in PositionsOf(c), opOf(c, k) \in JumpOps, k \notin Q,
                      NEW s \in LoopsOf(b)
               PROVE  Around(c, new, s, k) <=> Around(c, new, s, argsOf(c, k))
    BY <1>4 DEF JumpsStay
  <2>1. /\ k \in PositionsOf(b) /\ k # r /\ opOf(b, k) \in JumpOps /\ k \notin P
        /\ argsOf(c, k) = argsOf(b, k)
    BY <1>1, <1>10
  <2>2. argsOf(b, k) <= n /\ k <= n
    BY <1>1, <2>1 DEF Landings
  <2>3. Around(b, O, s, k) <=> Around(b, O, s, argsOf(b, k))
    BY <2>1 DEF Nesting, JumpsStay
  <2>4. CASE s = r
    BY <1>7, <2>1, <2>2, <2>3, <2>4
  <2>5. CASE s # r
    BY <1>6, <2>1, <2>3, <2>5
  <2> QED  BY <2>4, <2>5
<1>12. PendingOutside(c, new, Q)
  <2> SUFFICES ASSUME NEW k \in Q, opOf(c, k) \in JumpOps, NEW s \in LoopsOf(b) \ new
               PROVE  ~Around(c, new, s, k)
    BY <1>4 DEF PendingOutside
  <2>1. k \in PositionsOf(b) /\ k \in P /\ opOf(b, k) \in JumpOps
    BY <1>10
  <2>2. CASE s = r
    <3>1. k < r /\ k \in Nat
      BY <1>1, <2>1
    <3>2. ~(r < k)
      BY <1>5, <3>1
    <3> QED  BY <2>2, <3>2 DEF Around
  <2>3. CASE s # r
    <3>1. ~Around(b, O, s, k)
      BY <2>1, <2>3 DEF Nesting, PendingOutside
    <3> QED  BY <1>6, <2>3, <3>1
  <2> QED  BY <2>2, <2>3
<1> QED  BY <1>9, <1>11, <1>12 DEF Nesting

-----------------------------------------------------------------------------
(* The statements of a template that are open, outermost first, are those   *)
(* of the two stacks of the parser, each stack in its order.                *)

Kinds == {"if", "for"}

(* by kind, the positions that each open statement waits for *)
WaitsFor(ifs, loops) ==
  [o \in Kinds |-> IF o = "if" THEN [j \in DOMAIN ifs |-> Jumps(ifs[j])]
                               ELSE [j \in DOMAIN loops |-> {loops[j]}]]

(* the p-th open statement is the nth[p]-th of its kind, and what it waits  *)
(* for is behind what those around it wait for                              *)
IsOrder(opened, W, nth) ==
  /\ nth \in [DOMAIN opened -> Nat]
  /\ \A p \in DOMAIN opened : nth[p] \in DOMAIN W[opened[p]]
  /\ \A o \in Kinds : \A n \in DOMAIN W[o] :
       \E p \in DOMAIN opened : opened[p] = o /\ nth[p] = n
  /\ \A p, q \in DOMAIN opened : p < q =>
       /\ opened[p] = opened[q] => nth[p] < nth[q]
       /\ \A j \in W[opened[p]][nth[p]] : \A k \in W[opened[q]][nth[q]] : j < k

Interleaved(opened, W) == \E nth : IsOrder(opened, W, nth)

(* What the statement opened last waits for is the last of its kind, behind *)
(* all else.                                                                *)
LEMMA LastOfOrder ==
  ASSUME NEW opened \in Seq(Kinds), opened # <<>>, NEW W, NEW nth,
         IsOrder(opened, W, nth), NEW m \in Nat, DOMAIN W[back(opened)] = 1..m
  PROVE  /\ Len(opened) \in DOMAIN opened /\ DOMAIN opened = 1..Len(opened)
         /\ Len(opened) \in Nat
         /\ nth[Len(opened)] = m /\ m # 0
         /\ \A p \in DOMAIN opened :
              opened[p] = back(opened) /\ nth[p] = m => p = Len(opened)
<1> DEFINE L == Len(opened)
           o == back(opened)
<1>1. L \in Nat \ {0} /\ DOMAIN opened = 1..L /\ o = opened[L]
  BY LenProperties, EmptySeq DEF back
<1>2. L \in DOMAIN opened /\ o \in Kinds
  BY <1>1, ElementOfSeq
<1>3. nth[L] \in 1..m
  BY <1>1, <1>2 DEF IsOrder
<1>4. m \in 1..m /\ m # 0
  BY <1>3
<1>5. ASSUME NEW p \in DOMAIN opened, opened[p] = o, nth[p] = m PROVE p = L
  <2> SUFFICES ASSUME p # L PROVE FALSE
    OBVIOUS
  <2>1. p < L
    BY <1>1
  <2>2. m < nth[L]
    BY <1>1, <1>2, <1>5, <2>1 DEF IsOrder
  <2> QED  BY <1>3, <2>2
<1>6. PICK p \in DOMAIN opened : opened[p] = o /\ nth[p] = m
  BY <1>2, <1>4 DEF IsOrder
<1>7. nth[L] = m
  BY <1>5, <1>6
<1> QED  BY <1>1, <1>2, <1>4, <1>5, <1>7

LEMMA LastIsBehind ==
  ASSUME NEW opened \in Seq(Kinds), opened # <<>>, NEW W, Interleaved(opened, W),
         NEW m \in Nat, DOMAIN W[back(opened)] = 1..m
  PROVE  /\ m # 0
         /\ \A o \in Kinds : \A n \in DOMAIN W[o] :
              o # back(opened) \/ n # m =>
                \A j \in W[o][n] : \A k \in W[back(opened)][m] : j < k
<1>1. PICK nth : IsOrder(opened, W, nth)
  BY DEF Interleaved
<1> DEFINE L == Len(opened)
<1>2. L \in DOMAIN opened /\ DOMAIN opened = 1..L /\ L \in Nat /\ nth[L] = m /\ m # 0
  BY <1>1, LastOfOrder
<1>3. ASSUME NEW o \in Kinds, NEW n \in DOMAIN W[o], o # back(opened) \/ n # m
      PROVE  \A j \in W[o][n] : \A k \in W[back(opened)][m] : j < k
  <2>1. PICK p \in DOMAIN opened : opened[p] = o /\ nth[p] = n
    BY <1>1 DEF IsOrder
  <2>2. p # L
    BY <1>2, <1>3, <2>1 DEF back
  <2>3. p < L
    BY <1>2, <2>2
  <2>4. \A j \in W[opened[p]][nth[p]] : \A k \in W[opened[L]][nth[L]] : j < k
    BY <1>1, <1>2, <2>3 DEF IsOrder
  <2> QED  BY <1>2, <2>1, <2>4 DEF back
<1> QED  BY <1>2, <1>3

(* V is W, but for the m-th of the kind o. *)
SameBut(V, W, o, m) ==
  /\ \A x \in Kinds \ {o} : V[x] = W[x]
  /\ \A n \in DOMAIN W[o] \cap DOMAIN V[o] : n # m => V[o][n] = W[o][n]

LEMMA InterleavedOpens ==
  ASSUME NEW opened \in Seq(Kinds), NEW W, Interleaved(opened, W),
         NEW o \in Kinds, NEW m \in Nat, DOMAIN W[o] = 1..m,
         NEW V, SameBut(V, W, o, m + 1), DOMAIN V[o] = 1..(m + 1),
         \A x \in Kinds : \A n \in DOMAIN W[x] :
           \A j \in W[x][n] : \A k \in V[o][m + 1] : j < k
  PROVE  Interleaved(Append(opened, o), V)
<1>1. PICK nth : IsOrder(opened, W, nth)
  BY DEF Interleaved
<1> DEFINE L == Len(opened)
           more == Append(opened, o)
           nth2 == [p \in DOMAIN more |-> IF p = L + 1 THEN m + 1 ELSE nth[p]]
<1>2. L \in Nat /\ DOMAIN opened = 1..L
  BY LenProperties
<1>3. /\ DOMAIN more = 1..(L + 1) /\ more[L + 1] = o
      /\ \A p \in 1..L : more[p] = opened[p]
  BY <1>2, AppendProperties, LenProperties
<1> HIDE DEF more
<1>4. \A p \in 1..(L + 1) : p \in 1..L \/ p = L + 1
  BY <1>2
<1>5. \A p \in 1..L : p \in 1..(L + 1) /\ p # L + 1
  BY <1>2
<1>6. \A n \in 1..(m + 1) : n \in 1..m \/ n = m + 1
  OBVIOUS
<1>7. \A n \in 1..m : n \in 1..(m + 1) /\ n # m + 1
  OBVIOUS
<1>8. L + 1 \in 1..(L + 1) /\ m + 1 \in 1..(m + 1) /\ m + 1 \in Nat
  BY <1>2
<1>9. nth \in [1..L -> Nat] /\ \A p \in 1..L : opened[p] \in Kinds
  BY <1>1, <1>2, ElementOfSeq DEF IsOrder
<1>10. nth2[L + 1] = m + 1 /\ \A p \in 1..L : nth2[p] = nth[p]
  BY <1>3, <1>5, <1>8
<1>11. nth2 \in [DOMAIN more -> Nat]
  BY <1>3, <1>4, <1>8, <1>9
<1> HIDE DEF nth2
<1>12. \A x \in Kinds : \A n \in DOMAIN W[x] : n \in DOMAIN V[x] /\ V[x][n] = W[x][n]
  BY <1>7 DEF SameBut
<1>13. \A x \in Kinds : \A n \in DOMAIN V[x] : n \in DOMAIN W[x] \/ (x = o /\ n = m + 1)
  BY <1>6 DEF SameBut
<1>14. \A p \in DOMAIN more : nth2[p] \in DOMAIN V[more[p]]
  <2>1. \A p \in 1..L : nth2[p] \in DOMAIN V[more[p]]
    BY <1>1, <1>2, <1>3, <1>9, <1>10, <1>12 DEF IsOrder
  <2> QED  BY <1>3, <1>4, <1>8, <1>10, <2>1
<1>15. \A x \in Kinds : \A n \in DOMAIN V[x] :
         \E p \in DOMAIN more : more[p] = x /\ nth2[p] = n
  <2> SUFFICES ASSUME NEW x \in Kinds, NEW n \in DOMAIN V[x]
               PROVE  \E p \in DOMAIN more : more[p] = x /\ nth2[p] = n
    OBVIOUS
  <2>1. CASE n \in DOMAIN W[x]
    <3>1. PICK p \in 1..L : opened[p] = x /\ nth[p] = n
      BY <1>1, <1>2, <2>1 DEF IsOrder
    <3> QED  BY <1>3, <1>5, <1>10, <3>1
  <2>2. CASE x = o /\ n = m + 1
    BY <1>3, <1>8, <1>10, <2>2
  <2> QED  BY <1>13, <2>1, <2>2
<1>16. ASSUME NEW p \in DOMAIN more, NEW q \in DOMAIN more, p < q
       PROVE  /\ more[p] = more[q] => nth2[p] < nth2[q]
              /\ \A j \in V[more[p]][nth2[p]] : \A k \in V[more[q]][nth2[q]] : j < k
  <2>1. p \in 1..L /\ (q \in 1..L \/ q = L + 1)
    BY <1>2, <1>3, <1>4, <1>16
  <2>2. /\ more[p] = opened[p] /\ nth2[p] = nth[p] /\ opened[p] \in Kinds
        /\ nth[p] \in DOMAIN W[opened[p]]
        /\ V[opened[p]][nth[p]] = W[opened[p]][nth[p]]
    BY <1>1, <1>2, <1>3, <1>9, <1>10, <1>12, <2>1 DEF IsOrder
  <2>3. CASE q \in 1..L
    <3>1. /\ more[q] = opened[q] /\ nth2[q] = nth[q] /\ opened[q] \in Kinds
          /\ nth[q] \in DOMAIN W[opened[q]]
          /\ V[opened[q]][nth[q]] = W[opened[q]][nth[q]]
      BY <1>1, <1>2, <1>3, <1>9, <1>10, <1>12, <2>3 DEF IsOrder
    <3>2. /\ opened[p] = opened[q] => nth[p] < nth[q]
          /\ \A j \in W[opened[p]][nth[p]] : \A k \in W[opened[q]][nth[q]] : j < k
      BY <1>1, <1>2, <1>16, <2>1, <2>3 DEF IsOrder
    <3> QED  BY <2>2, <3>1, <3>2
  <2>4. CASE q = L + 1
    <3>1. more[q] = o /\ nth2[q] = m + 1
      BY <1>3, <1>10, <2>4
    <3>2. opened[p] = o => nth[p] < m + 1
      BY <2>2
    <3>3. \A j \in W[opened[p]][nth[p]] : \A k \in V[o][m + 1] : j < k
      BY <2>2
    <3> QED  BY <2>2, <3>1, <3>2, <3>3
  <2> QED  BY <2>1, <2>3, <2>4
<1>17. IsOrder(more, V, nth2)
  BY <1>11, <1>14, <1>15, <1>16 DEF IsOrder
<1> QED  BY <1>17 DEF Interleaved, more

(* The last statement waits for other positions, all behind. *)
LEMMA InterleavedContinues ==
  ASSUME NEW opened \in Seq(Kinds), opened # <<>>, NEW W, Interleaved(opened, W),
         NEW m \in Nat, DOMAIN W[back(opened)] = 1..m,
         NEW V, SameBut(V, W, back(opened), m), DOMAIN V[back(opened)] = 1..m,
         \A k \in V[back(opened)][m] :
           \/ k \in W[back(opened)][m]
           \/ \A x \in Kinds : \A n \in DOMAIN W[x] : \A j \in W[x][n] : j < k
  PROVE  Interleaved(opened, V)
<1>1. PICK nth : IsOrder(opened, W, nth)
  BY DEF Interleaved
<1> DEFINE L == Len(opened)
           o == back(opened)
<1>2. /\ L \in DOMAIN opened /\ DOMAIN opened = 1..L /\ L \in Nat /\ nth[L] = m /\ m # 0
      /\ \A p \in DOMAIN opened : opened[p] = o /\ nth[p] = m => p = L
  BY <1>1, LastOfOrder
<1>3. opened[L] = o /\ \A p \in DOMAIN opened : opened[p] \in Kinds
  BY <1>2, ElementOfSeq DEF back
<1>4. \A x \in Kinds : DOMAIN V[x] = DOMAIN W[x]
  BY DEF SameBut
<1>5. ASSUME NEW p \in DOMAIN opened, p # L
      PROVE  V[opened[p]][nth[p]] = W[opened[p]][nth[p]]
  <2>1. opened[p] \in Kinds /\ nth[p] \in DOMAIN W[opened[p]] /\ (opened[p] # o \/ nth[p] # m)
    BY <1>1, <1>2, <1>3, <1>5 DEF IsOrder
  <2> QED  BY <2>1, <1>4 DEF SameBut
<1>6. ASSUME NEW p \in DOMAIN opened, NEW q \in DOMAIN opened, p < q
      PROVE  \A j \in V[opened[p]][nth[p]] : \A k \in V[opened[q]][nth[q]] : j < k
  <2>1. p # L
    BY <1>2, <1>6
  <2>2. \A j \in W[opened[p]][nth[p]] : \A k \in W[opened[q]][nth[q]] : j < k
    BY <1>1, <1>6 DEF IsOrder
  <2>3. CASE q # L
    BY <1>5, <2>1, <2>2, <2>3
  <2>4. CASE q = L
    <3>1. opened[p] \in Kinds /\ nth[p] \in DOMAIN W[opened[p]]
      BY <1>1, <1>3 DEF IsOrder
    <3> QED  BY <1>2, <1>3, <1>5, <2>1, <2>2, <2>4, <3>1
  <2> QED  BY <2>3, <2>4
<1>7. IsOrder(opened, V, nth)
  BY <1>1, <1>3, <1>4, <1>6 DEF IsOrder
<1> QED  BY <1>7 DEF Interleaved

(* The last statement is closed. *)
LEMMA InterleavedCloses ==
  ASSUME NEW opened \in Seq(Kinds), opened # <<>>, NEW W, Interleaved(opened, W),
         NEW m \in Nat, DOMAIN W[back(opened)] = 1..m,
         NEW V, SameBut(V, W, back(opened), m), DOMAIN V[back(opened)] = 1..(m - 1)
  PROVE  Interleaved(popped(opened), V)
<1>1. PICK nth : IsOrder(opened, W, nth)
  BY DEF Interleaved
<1> DEFINE L == Len(opened)
           o == back(opened)
           less == popped(opened)
           nth2 == [p \in DOMAIN less |-> nth[p]]
<1>2. /\ L \in DOMAIN opened /\ DOMAIN opened = 1..L /\ L \in Nat /\ nth[L] = m /\ m # 0
      /\ \A p \in DOMAIN opened : opened[p] = o /\ nth[p] = m => p = L
  BY <1>1, LastOfOrder
<1>3. opened[L] = o /\ \A p \in DOMAIN opened : opened[p] \in Kinds
  BY <1>2, ElementOfSeq DEF back
<1>4. DOMAIN less = 1..(L - 1) /\ \A p \in 1..(L - 1) : less[p] = opened[p]
  BY PoppedStack, LenProperties
<1> HIDE DEF less
<1>a. \A l \in Nat : \A p \in 1..(l - 1) : p \in 1..l /\ p # l
  OBVIOUS
<1>5. \A p \in 1..(L - 1) : p \in DOMAIN opened /\ p # L
  BY <1>2, <1>a
<1>6. \A p \in DOMAIN opened : p # L => p \in 1..(L - 1)
  BY <1>2, BelowLast
<1>7. /\ \A n \in 1..(m - 1) : n \in 1..m /\ n # m
      /\ \A n \in 1..m : n # m => n \in 1..(m - 1)
  OBVIOUS
<1>8. \A x \in Kinds : \A n \in DOMAIN V[x] :
        n \in DOMAIN W[x] /\ (x # o \/ n # m) /\ V[x][n] = W[x][n]
  BY <1>7 DEF SameBut
<1>9. \A x \in Kinds : \A n \in DOMAIN W[x] : x # o \/ n # m => n \in DOMAIN V[x]
  BY <1>7 DEF SameBut
<1>10. \A p \in 1..(L - 1) :
         /\ nth2[p] = nth[p] /\ nth2[p] \in Nat /\ less[p] = opened[p] /\ less[p] \in Kinds
         /\ nth2[p] \in DOMAIN V[less[p]]
         /\ V[less[p]][nth2[p]] = W[opened[p]][nth[p]]
  <2> SUFFICES ASSUME NEW p \in 1..(L - 1)
               PROVE  /\ nth2[p] = nth[p] /\ nth2[p] \in Nat
                      /\ less[p] = opened[p] /\ less[p] \in Kinds
                      /\ nth2[p] \in DOMAIN V[less[p]]
                      /\ V[less[p]][nth2[p]] = W[opened[p]][nth[p]]
    OBVIOUS
  <2>1. /\ nth2[p] = nth[p] /\ less[p] = opened[p] /\ less[p] \in Kinds
        /\ p \in DOMAIN opened /\ p # L
    BY <1>3, <1>4, <1>5
  <2>2. nth[p] \in Nat /\ nth[p] \in DOMAIN W[opened[p]] /\ (opened[p] # o \/ nth[p] # m)
    BY <1>1, <1>2, <2>1 DEF IsOrder
  <2>3. nth[p] \in DOMAIN V[opened[p]]
    BY <1>9, <2>1, <2>2
  <2> HIDE DEF nth2
  <2> QED  BY <1>8, <2>1, <2>2, <2>3
<1>11. nth2 \in [DOMAIN less -> Nat]
  <2>1. \A p \in DOMAIN less : nth[p] \in Nat
    BY <1>4, <1>10
  <2> QED  BY <2>1
<1> HIDE DEF nth2
<1>12. \A x \in Kinds : \A n \in DOMAIN V[x] :
         \E p \in DOMAIN less : less[p] = x /\ nth2[p] = n
  <2> SUFFICES ASSUME NEW x \in Kinds, NEW n \in DOMAIN V[x]
               PROVE  \E p \in DOMAIN less : less[p] = x /\ nth2[p] = n
    OBVIOUS
  <2>1. n \in DOMAIN W[x] /\ (x # o \/ n # m)
    BY <1>8
  <2>2. PICK p \in DOMAIN opened : opened[p] = x /\ nth[p] = n
    BY <1>1, <2>1 DEF IsOrder
  <2>3. p \in 1..(L - 1)
    BY <1>2, <1>3, <1>6, <2>1, <2>2
  <2> QED  BY <1>4, <1>10, <2>2, <2>3
<1>13. ASSUME NEW p \in DOMAIN less, NEW q \in DOMAIN less, p < q
       PROVE  /\ less[p] = less[q] => nth2[p] < nth2[q]
              /\ \A j \in V[less[p]][nth2[p]] : \A k \in V[less[q]][nth2[q]] : j < k
  <2>1. p \in 1..(L - 1) /\ q \in 1..(L - 1) /\ p \in DOMAIN opened /\ q \in DOMAIN opened
    BY <1>4, <1>5
  <2>2. /\ opened[p] = opened[q] => nth[p] < nth[q]
        /\ \A j \in W[opened[p]][nth[p]] : \A k \in W[opened[q]][nth[q]] : j < k
    BY <1>1, <1>13, <2>1 DEF IsOrder
  <2> QED  BY <1>10, <2>1, <2>2
<1>14. \A p \in DOMAIN less : nth2[p] \in DOMAIN V[less[p]]
  BY <1>4, <1>10
<1>15. IsOrder(less, V, nth2)
  BY <1>11, <1>12, <1>13, <1>14 DEF IsOrder
<1> QED  BY <1>15 DEF Interleaved, less

-----------------------------------------------------------------------------
(* What the compiler says of nesting: the statements that are open are      *)
(* interleaved, and what is compiled nests.                                 *)

Held(loops) == {loops[j] : j \in DOMAIN loops}

Nests(b, ifs, loops, opened) ==
  /\ Interleaved(opened, WaitsFor(ifs, loops))
  /\ Nesting(b, Held(loops), Pending(b, ifs, loops))

LEMMA WaitsForIs ==
  ASSUME NEW ifs \in Seq(IfData), NEW loops \in Seq(Nat)
  PROVE  LET W == WaitsFor(ifs, loops)
         IN  /\ DOMAIN W["if"] = 1..Len(ifs) /\ DOMAIN ifs = 1..Len(ifs) /\ Len(ifs) \in Nat
             /\ \A j \in DOMAIN ifs : W["if"][j] = Jumps(ifs[j])
             /\ DOMAIN W["for"] = 1..Len(loops) /\ DOMAIN loops = 1..Len(loops)
             /\ Len(loops) \in Nat
             /\ \A j \in DOMAIN loops : W["for"][j] = {loops[j]}
BY LenProperties DEF WaitsFor, Kinds

(* A block that only appends, and opens no loop. *)
LEMMA NestingAppends ==
  ASSUME NEW b \in Seq(Bytecode), NEW c, NEW t \in Seq(Bytecode), Extended(b, c, {}, 0, t),
         NEW O, NEW P, NEW Q, Nesting(b, O, P), ClosedBelow(b, O),
         \A k \in 0..(Len(t) - 1) :
           /\ opOf(t, k) # "StartLoop"
           /\ opOf(t, k) \in JumpOps => Len(b) + k \in Q,
         P \subseteq Q, Q \cap PositionsOf(b) \subseteq P, Q \subseteq PositionsOf(c)
  PROVE  Nesting(c, O, Q)
<1>1. FillsJumps(b, c, {}, 0)
  BY DEF FillsJumps
<1>2. \A k \in {} \cap PositionsOf(b) :
        k \in P /\ Len(b) <= 0 /\ \A s \in LoopsOf(b) \cap O : s < k
  OBVIOUS
<1>3. P \subseteq Q \cup {}
  OBVIOUS
<1> QED  BY <1>1, <1>2, <1>3, NestingExtend

(* All that is waited for is in the program. *)
LEMMA WaitedIsPlaced ==
  ASSUME NEW b, NEW ifs, NEW loops, Sound(b, ifs, loops)
  PROVE  /\ \A o \in Kinds : \A n \in DOMAIN WaitsFor(ifs, loops)[o] :
              WaitsFor(ifs, loops)[o][n] \subseteq PositionsOf(b)
         /\ Held(loops) \subseteq LoopsOf(b)
         /\ ClosedBelow(b, Held(loops))
         /\ Pending(b, ifs, loops) \subseteq PositionsOf(b)
         /\ \A k \in Pending(b, ifs, loops) :
              opOf(b, k) \in JumpOps => \E j \in DOMAIN ifs : k \in Jumps(ifs[j])
<1>1. /\ ifs \in Seq(IfData) /\ loops \in Seq(Nat)
      /\ \A j \in DOMAIN ifs : IfHoldsJumps(b, ifs[j])
      /\ \A j \in DOMAIN loops : loops[j] \in PositionsOf(b) /\ opOf(b, loops[j]) = "StartLoop"
      /\ AllResolvedBut(b, Pending(b, ifs, loops))
  BY DEF Sound, StacksHoldJumps
<1>2. ASSUME NEW o \in Kinds, NEW n \in DOMAIN WaitsFor(ifs, loops)[o]
      PROVE  WaitsFor(ifs, loops)[o][n] \subseteq PositionsOf(b)
  <2>1. CASE o = "if"
    <3>1. n \in DOMAIN ifs /\ WaitsFor(ifs, loops)[o][n] = Jumps(ifs[n])
      BY <1>1, <1>2, <2>1, WaitsForIs
    <3> QED  BY <1>1, <3>1, JumpsArePlaced
  <2>2. CASE o = "for"
    <3>1. n \in DOMAIN loops /\ WaitsFor(ifs, loops)[o][n] = {loops[n]}
      BY <1>1, <1>2, <2>2, WaitsForIs
    <3> QED  BY <1>1, <3>1
  <2> QED  BY <2>1, <2>2 DEF Kinds
<1>3. Held(loops) \subseteq LoopsOf(b)
  BY <1>1 DEF Held, LoopsOf
<1>4. ASSUME NEW j \in DOMAIN ifs, NEW k \in Jumps(ifs[j])
      PROVE  opOf(b, k) # "StartLoop"
  BY <1>1, <1>4 DEF IfHoldsJumps, Jumps
<1>5. ClosedBelow(b, Held(loops))
  <2> SUFFICES ASSUME NEW s \in LoopsOf(b) \ Held(loops)
               PROVE  argsOf(b, s) \in (s + 1)..(Len(b) - 1)
    BY DEF ClosedBelow
  <2>1. s \notin Pending(b, ifs, loops)
    BY <1>4 DEF Pending, Held, LoopsOf
  <2>2. LoopResolved(b, s)
    BY <1>1, <2>1 DEF AllResolvedBut, LoopsOf
  <2> QED  BY <2>2 DEF LoopResolved
<1>6. Pending(b, ifs, loops) \subseteq PositionsOf(b)
  BY DEF Pending
<1>7. \A k \in Pending(b, ifs, loops) :
        opOf(b, k) \in JumpOps => \E j \in DOMAIN ifs : k \in Jumps(ifs[j])
  BY <1>1 DEF Pending, JumpOps
<1> QED  BY <1>2, <1>3, <1>5, <1>6, <1>7

(* Blocks that leave the stacks alone. *)
LEMMA PlainKeepsNests ==
  ASSUME IInv, Nests(bytecodes, m_if_stack, m_loop_stack, open),
         Text \/ Expression \/ \E left \in Leftovers : LineFails(left)
  PROVE  Nests(bytecodes', m_if_stack, m_loop_stack, open)
<1> DEFINE b == bytecodes
           c == bytecodes'
           O == Held(m_loop_stack)
           P == Pending(b, m_if_stack, m_loop_stack)
           Q == Pending(c, m_if_stack, m_loop_stack)
<1>1. Sound(b, m_if_stack, m_loop_stack) /\ b \in Seq(Bytecode) /\ Nesting(b, O, P)
  BY IInvIsSound DEF Sound, Nests
<1>2. PICK t \in Seq(Bytecode) : Extended(b, c, {}, 0, t) /\ PlainRest(b, c, t)
  BY <1>1, PlainShape
<1>3. ClosedBelow(b, O)
  BY <1>1, WaitedIsPlaced
<1>4. FillsJumps(b, c, {}, 0)
  BY DEF FillsJumps
<1>5. PositionsOf(b) \subseteq PositionsOf(c)
  BY <1>2 DEF Extended, PositionsOf
<1>6. P \subseteq Q /\ Q \cap PositionsOf(b) \subseteq P /\ Q \subseteq PositionsOf(c)
  BY <1>5 DEF Pending
<1> HIDE DEF b, c, O, P, Q
<1>7. \A k \in 0..(Len(t) - 1) : opOf(t, k) # "StartLoop" /\ opOf(t, k) \notin JumpOps
  BY <1>2 DEF JumpOps, PlainRest, PlainOps
<1>8. Nesting(c, O, Q)
  BY <1>1, <1>2, <1>3, <1>4, <1>6, <1>7, NestingExtend
<1> QED  BY <1>8 DEF Nests, c, O, Q

LEMMA IfKeepsNests ==
  ASSUME IInv, open \in Seq(Kinds), Nests(bytecodes, m_if_stack, m_loop_stack, open), If
  PROVE  Nests(bytecodes', m_if_stack', m_loop_stack, Append(open, "if"))
<1> DEFINE b == bytecodes
           c == bytecodes'
           n == Len(b)
           O == Held(m_loop_stack)
           L == Len(m_if_stack)
           ifs == m_if_stack'
           P == Pending(b, m_if_stack, m_loop_stack)
           Q == Pending(c, ifs, m_loop_stack)
           W == WaitsFor(m_if_stack, m_loop_stack)
           V == WaitsFor(ifs, m_loop_stack)
<1>1. /\ Sound(b, m_if_stack, m_loop_stack) /\ b \in Seq(Bytecode)
      /\ m_if_stack \in Seq(IfData) /\ m_loop_stack \in Seq(Nat)
      /\ Nesting(b, O, P) /\ Interleaved(open, W) /\ ClosedBelow(b, O)
      /\ \A o \in Kinds : \A l \in DOMAIN W[o] : W[o][l] \subseteq PositionsOf(b)
  BY IInvIsSound, WaitedIsPlaced DEF Sound, Nests
<1>2. PICK d \in Evaluated :
        /\ c = Append(d, Code("ConditionalJump"))
        /\ ifs = Append(m_if_stack, [prev_cond_jump |-> Len(d), uncond_jumps |-> {}])
  BY DEF If
<1>21. c = Append(d, Code("ConditionalJump"))
  BY <1>2
<1>22. "ConditionalJump" \in Ops
  BY DEF Ops
<1>3. PICK t \in Seq(Bytecode) :
        Opening(b, c, t, "ConditionalJump") /\ Len(d) = n + Len(t) - 1
  BY <1>1, <1>21, <1>22, EvaluatedShape
<1> DEFINE p == n + Len(t) - 1
           e == [prev_cond_jump |-> p, uncond_jumps |-> {}]
<1>23. Extended(b, c, {}, 0, t) /\ ifs = Append(m_if_stack, e)
  BY <1>2, <1>3 DEF Opening
<1> HIDE DEF c
<1>8. /\ n \in Nat /\ p \in Nat /\ n <= p /\ p <= n + 1
      /\ PositionsOf(b) = 0..(n - 1) /\ PositionsOf(c) = 0..p
      /\ p \in PositionsOf(c) /\ p \notin PositionsOf(b)
      /\ PositionsOf(b) \subseteq PositionsOf(c)
      /\ \A k \in 0..(Len(t) - 1) :
           /\ n + k = p => opOf(t, k) = "ConditionalJump"
           /\ n + k # p => opOf(t, k) = "Push"
  BY <1>3, OpeningFacts
<1>4. n + 2 <= MaxBytecodes
  BY DEF If, Parsing, size
<1> HIDE DEF p
<1>5. p \in Nat /\ p # Max
  BY <1>4, <1>8, BoundsAssumption
<1>6. e \in IfData /\ Jumps(e) = {p}
  BY <1>5 DEF IfData, Jumps
<1>7. /\ ifs \in Seq(IfData) /\ DOMAIN ifs = DOMAIN m_if_stack \cup {L + 1} /\ ifs[L + 1] = e
      /\ \A j \in DOMAIN m_if_stack : ifs[j] = m_if_stack[j]
  <2> HIDE DEF e
  <2> QED  BY <1>1, <1>6, <1>23, PushedStack
<1>9. P \subseteq Q /\ Q \cap PositionsOf(b) \subseteq P /\ Q \subseteq PositionsOf(c) /\ p \in Q
  BY <1>6, <1>7, <1>8 DEF Pending
<1>11. /\ DOMAIN W["if"] = 1..L /\ L \in Nat /\ DOMAIN m_if_stack = 1..L
       /\ \A j \in 1..L : W["if"][j] = Jumps(m_if_stack[j])
  BY <1>1, WaitsForIs
<1>12. /\ DOMAIN V["if"] = DOMAIN ifs
       /\ \A j \in DOMAIN ifs : V["if"][j] = Jumps(ifs[j])
  BY <1>1, <1>7, WaitsForIs
<1>13. V["for"] = W["for"]
  BY DEF WaitsFor, Kinds
<1> HIDE DEF b, n, e, ifs, O, P, Q, V, W
<1>14. Nesting(c, O, Q)
  <2>1. \A k \in 0..(Len(t) - 1) :
          opOf(t, k) # "StartLoop" /\ (opOf(t, k) \in JumpOps => n + k \in Q)
    BY <1>8, <1>9 DEF JumpOps
  <2> QED  BY <1>1, <1>9, <1>23, <2>1, NestingAppends DEF n
<1>15. DOMAIN V["if"] = 1..(L + 1)
  BY <1>7, <1>11, <1>12
<1>16. SameBut(V, W, "if", L + 1)
  BY <1>7, <1>11, <1>12, <1>13 DEF SameBut, Kinds
<1>17. V["if"][L + 1] = {p}
  BY <1>6, <1>7, <1>12
<1>18. \A x \in Kinds : \A l \in DOMAIN W[x] : \A j \in W[x][l] : \A k \in V["if"][L + 1] : j < k
  BY <1>1, <1>8, <1>17
<1>19. Interleaved(Append(open, "if"), V)
  BY <1>1, <1>11, <1>15, <1>16, <1>18, InterleavedOpens DEF Kinds
<1>20. Nests(c, ifs, m_loop_stack, Append(open, "if"))
  BY <1>14, <1>19 DEF Nests, O, Q, V
<1> QED  BY <1>20 DEF c, ifs

(* What an else finds, and leaves: the positions its entry waits for. *)
LEMMA ElseChanges ==
  ASSUME IInv, Elses
  PROVE  LET n == Len(bytecodes)
             L == Len(m_if_stack)
             last == back(m_if_stack)
             ifs == m_if_stack'
         IN  /\ IInv' /\ m_loop_stack' = m_loop_stack
             /\ n \in Nat /\ L \in Nat \ {0} /\ L \in DOMAIN m_if_stack
             /\ last = m_if_stack[L] /\ IfHoldsJumps(bytecodes, last)
             /\ ifs \in Seq(IfData) /\ DOMAIN ifs = DOMAIN m_if_stack /\ Len(ifs) = L
             /\ \A j \in DOMAIN ifs : j # L => ifs[j] = m_if_stack[j]
             /\ \E t \in Seq(Bytecode), next \in Nat :
                  /\ Extended(bytecodes, bytecodes', {last.prev_cond_jump}, n + 1, t)
                  /\ Len(t) \in 1..3 /\ opOf(t, 0) = "Jump"
                  /\ \A k \in 1..(Len(t) - 1) :
                       opOf(t, k) \in IF k = 2 THEN {"ConditionalJump"} ELSE {"Push", "Literal"}
                  /\ next = IF Len(t) = 3 THEN n + 2 ELSE Max
                  /\ Jumps(ifs[L]) = last.uncond_jumps \cup {n} \cup ({next} \ {Max})
<1> DEFINE n == Len(bytecodes)
           L == Len(m_if_stack)
           last == back(m_if_stack)
           ifs == m_if_stack'
<1>1. /\ Sound(bytecodes, m_if_stack, m_loop_stack) /\ bytecodes \in Seq(Bytecode)
      /\ m_if_stack \in Seq(IfData) /\ n \in Nat
  BY IInvIsSound, LenProperties DEF Sound
<1>2. m_if_stack # <<>> /\ m_loop_stack' = m_loop_stack
  BY DEF Elses, Else, ElseIf, LineElseIfFails
<1>3. IInv'
  BY NextKeepsIInv DEF Elses, Next, Block
<1>4. /\ L \in Nat \ {0} /\ L \in DOMAIN m_if_stack /\ last = m_if_stack[L]
      /\ last \in IfData /\ IfHoldsJumps(bytecodes, last) /\ DOMAIN m_if_stack = 1..L
  BY <1>1, <1>2, LastEntry
<1>5. ifs \in Seq(IfData)
  BY <1>3 DEF IInv, TypeOK
<1>6. PICK t \in Seq(Bytecode) :
           /\ Extended(bytecodes, bytecodes', {last.prev_cond_jump}, size + 1, t)
           /\ Len(t) \in 1..3 /\ opOf(t, 0) = "Jump"
           /\ \A k \in 0..(Len(t) - 1) : argsOf(t, k) = 0
           /\ \A k \in 1..(Len(t) - 1) :
                opOf(t, k) \in IF k = 2 THEN {"ConditionalJump"} ELSE {"Push", "Literal"}
           /\ \E next : WithElse(next) /\ next = IF Len(t) = 3 THEN size + 2 ELSE Max
  BY <1>1, ElseShape
<1>7. PICK next : WithElse(next) /\ next = IF Len(t) = 3 THEN n + 2 ELSE Max
  BY <1>6 DEF size
<1> DEFINE e == [prev_cond_jump |-> next, uncond_jumps |-> last.uncond_jumps \cup {n}]
<1>8. ifs = withBack(m_if_stack, e)
  BY <1>7 DEF WithElse, size
<1>9. Jumps(e) = last.uncond_jumps \cup {n} \cup ({next} \ {Max})
  BY DEF Jumps
<1>10. e \in IfData
  <2>1. next \in Nat
    BY <1>1, <1>7, BoundsAssumption
  <2> QED  BY <1>1, <1>4, <2>1 DEF IfData
<1> HIDE DEF e
<1>11. /\ DOMAIN ifs = 1..L /\ ifs[L] = e
       /\ \A j \in 1..(L - 1) : ifs[j] = m_if_stack[j]
  <2>1. /\ DOMAIN withBack(m_if_stack, e) = 1..Len(m_if_stack)
        /\ \A j \in 1..(Len(m_if_stack) - 1) : withBack(m_if_stack, e)[j] = m_if_stack[j]
        /\ withBack(m_if_stack, e)[Len(m_if_stack)] = e
    BY <1>1, <1>2, <1>10, ReplacedBack
  <2> QED  BY <1>8, <2>1
<1>12. \A j \in DOMAIN ifs : j # L => ifs[j] = m_if_stack[j]
  BY <1>4, <1>11, BelowLast
<1>13. Len(ifs) = L
  BY <1>4, <1>5, <1>11, LenProperties
<1>14. Extended(bytecodes, bytecodes', {last.prev_cond_jump}, n + 1, t)
  BY <1>6 DEF size
<1>15. next \in Nat
  BY <1>1, <1>7, BoundsAssumption
<1> HIDE DEF n, L, last, ifs
<1>16. \E u \in Seq(Bytecode), nxt \in Nat :
         /\ Extended(bytecodes, bytecodes', {last.prev_cond_jump}, n + 1, u)
         /\ Len(u) \in 1..3 /\ opOf(u, 0) = "Jump"
         /\ \A k \in 1..(Len(u) - 1) :
              opOf(u, k) \in IF k = 2 THEN {"ConditionalJump"} ELSE {"Push", "Literal"}
         /\ nxt = IF Len(u) = 3 THEN n + 2 ELSE Max
         /\ Jumps(ifs[L]) = last.uncond_jumps \cup {n} \cup ({nxt} \ {Max})
  BY <1>6, <1>7, <1>9, <1>11, <1>14, <1>15
<1>17. DOMAIN ifs = DOMAIN m_if_stack
  BY <1>4, <1>11
<1> QED  BY <1>1, <1>2, <1>3, <1>4, <1>5, <1>12, <1>13, <1>16, <1>17 DEF n, L, last, ifs

LEMMA PositionsAfterElse ==
  ASSUME NEW n \in Nat, NEW l \in 1..3
  PROVE  /\ n \in 0..(n + l - 1) /\ n \notin 0..(n - 1)
         /\ 0..(n - 1) \subseteq 0..(n + l - 1)
         /\ n + 1 <= n + l
         /\ l = 3 => n + 2 \in 0..(n + l - 1) /\ n + 2 \notin 0..(n - 1)
         /\ \A k \in 0..(l - 1) : k = 0 \/ (k = 1 /\ 1 \in 1..(l - 1)) \/ (k = 2 /\ l = 3)
         /\ l = 3 => 2 \in 1..(l - 1)
OBVIOUS

LEMMA ElseKeepsNests ==
  ASSUME IInv, open \in Seq(Kinds), open # <<>>, back(open) = "if",
         Nests(bytecodes, m_if_stack, m_loop_stack, open), Elses
  PROVE  Nests(bytecodes', m_if_stack', m_loop_stack, open)
<1> DEFINE b == bytecodes
           c == bytecodes'
           n == Len(b)
           O == Held(m_loop_stack)
           L == Len(m_if_stack)
           last == back(m_if_stack)
           prev == last.prev_cond_jump
           ifs == m_if_stack'
           P == Pending(b, m_if_stack, m_loop_stack)
           Q == Pending(c, ifs, m_loop_stack)
           W == WaitsFor(m_if_stack, m_loop_stack)
           V == WaitsFor(ifs, m_loop_stack)
<1>1. /\ Sound(b, m_if_stack, m_loop_stack) /\ b \in Seq(Bytecode) /\ Len(b) <= MaxBytecodes
      /\ m_if_stack \in Seq(IfData) /\ m_loop_stack \in Seq(Nat)
      /\ Nesting(b, O, P) /\ Interleaved(open, W) /\ ClosedBelow(b, O)
      /\ \A o \in Kinds : \A l \in DOMAIN W[o] : W[o][l] \subseteq PositionsOf(b)
  BY IInvIsSound, WaitedIsPlaced DEF Sound, Nests
<1>2. /\ IInv' /\ n \in Nat /\ L \in Nat \ {0} /\ L \in DOMAIN m_if_stack
      /\ last = m_if_stack[L] /\ IfHoldsJumps(b, last)
      /\ ifs \in Seq(IfData) /\ DOMAIN ifs = DOMAIN m_if_stack /\ Len(ifs) = L
      /\ \A j \in DOMAIN ifs : j # L => ifs[j] = m_if_stack[j]
  BY ElseChanges
<1>3. PICK t \in Seq(Bytecode), next \in Nat :
        /\ Extended(b, c, {prev}, n + 1, t)
        /\ Len(t) \in 1..3 /\ opOf(t, 0) = "Jump"
        /\ \A k \in 1..(Len(t) - 1) :
             opOf(t, k) \in IF k = 2 THEN {"ConditionalJump"} ELSE {"Push", "Literal"}
        /\ next = IF Len(t) = 3 THEN n + 2 ELSE Max
        /\ Jumps(ifs[L]) = last.uncond_jumps \cup {n} \cup ({next} \ {Max})
  BY ElseChanges
<1>4. Len(t) \in 1..3 /\ next = IF Len(t) = 3 THEN n + 2 ELSE Max
  BY <1>3
<1>5. /\ PositionsOf(b) = 0..(n - 1) /\ PositionsOf(c) = 0..(n + Len(t) - 1)
      /\ Len(c) = n + Len(t)
  BY <1>3 DEF Extended, PositionsOf
<1>6. Max \notin PositionsOf(b) /\ Max \in Nat /\ n < Max
  BY <1>1, <1>2, <1>5, BoundsAssumption
<1>7. n + Len(t) < Max
  <2>1. Len(c) <= MaxBytecodes
    BY <1>2 DEF IInv, TypeOK, size
  <2> QED  BY <1>2, <1>3, <1>5, <2>1, BoundsAssumption
<1>8. /\ Jumps(last) = last.uncond_jumps \cup ({prev} \ {Max})
      /\ prev \in PositionsOf(b) => prev # Max /\ opOf(b, prev) = "ConditionalJump"
  BY <1>2, <1>6 DEF Jumps, IfHoldsJumps
<1>9. /\ DOMAIN W["if"] = 1..L /\ DOMAIN m_if_stack = 1..L
      /\ \A j \in DOMAIN m_if_stack : W["if"][j] = Jumps(m_if_stack[j])
      /\ DOMAIN W["for"] = DOMAIN m_loop_stack
      /\ \A j \in DOMAIN m_loop_stack : W["for"][j] = {m_loop_stack[j]}
  BY <1>1, WaitsForIs
<1>10. /\ DOMAIN V["if"] = DOMAIN ifs /\ V["for"] = W["for"]
       /\ \A j \in DOMAIN ifs : V["if"][j] = Jumps(ifs[j])
  <2>1. V["for"] = W["for"]
    BY DEF WaitsFor, Kinds
  <2> QED  BY <1>1, <1>2, <2>1, WaitsForIs
<1> HIDE DEF b, c, n, O, L, last, prev, ifs, P, Q, W, V
<1>11. \A j \in DOMAIN m_loop_stack : \A k \in Jumps(last) : m_loop_stack[j] < k
  <2>1. \A o \in Kinds : \A x \in DOMAIN W[o] :
          o # "if" \/ x # L => \A j \in W[o][x] : \A k \in W["if"][L] : j < k
    BY <1>1, <1>2, <1>9, LastIsBehind
  <2>2. "for" \in Kinds /\ "for" # "if"
    BY DEF Kinds
  <2>3. \A x \in DOMAIN W["for"] : \A j \in W["for"][x] : \A k \in W["if"][L] : j < k
    BY ONLY <2>1, <2>2
  <2>4. W["if"][L] = Jumps(last)
    BY ONLY <1>2, <1>9
  <2>5. ASSUME NEW j \in DOMAIN m_loop_stack
        PROVE  j \in DOMAIN W["for"] /\ m_loop_stack[j] \in W["for"][j]
    BY ONLY <1>9
  <2> QED  BY ONLY <2>3, <2>4, <2>5
<1>12. n \in PositionsOf(c) /\ n \notin PositionsOf(b) /\ PositionsOf(b) \subseteq PositionsOf(c)
  <2>1. n \in Nat
    BY <1>2
  <2> QED  BY <2>1, <1>4, <1>5, PositionsAfterElse
<1>13. /\ next \notin PositionsOf(b)
       /\ Len(t) = 3 => next \in PositionsOf(c) /\ next # Max /\ next = n + 2 /\ next > n
       /\ Len(t) # 3 => next = Max
  <2>1. n \in Nat
    BY <1>2
  <2>2. CASE Len(t) = 3
    <3>1. next = n + 2 /\ n + 3 < Max
      BY <1>4, <1>7, <2>2
    <3>2. n + 2 # Max /\ n + 2 > n
      BY <1>6, <2>1, <3>1
    <3>3. n + 2 \in PositionsOf(c) /\ n + 2 \notin PositionsOf(b)
      BY <1>4, <1>5, <2>1, <2>2, PositionsAfterElse
    <3> QED  BY <2>2, <3>1, <3>2, <3>3
  <2>3. CASE Len(t) # 3
    <3>1. next = Max
      BY <1>4, <2>3
    <3> QED  BY <1>6, <2>3, <3>1
  <2> QED  BY <2>2, <2>3
<1>14. n \in Jumps(ifs[L]) /\ (Len(t) = 3 => n + 2 \in Jumps(ifs[L]))
  BY <1>3, <1>13
<1>15. P \subseteq Q \cup {prev} /\ Q \cap PositionsOf(b) \subseteq P /\ Q \subseteq PositionsOf(c)
       /\ n \in Q /\ (Len(t) = 3 => n + 2 \in Q)
  <2>1. \A j \in DOMAIN m_if_stack :
          /\ Jumps(m_if_stack[j]) \subseteq Jumps(ifs[j]) \cup {prev}
          /\ Jumps(ifs[j]) \cap PositionsOf(b) \subseteq Jumps(m_if_stack[j])
    <3> SUFFICES ASSUME NEW j \in DOMAIN m_if_stack
                 PROVE  /\ Jumps(m_if_stack[j]) \subseteq Jumps(ifs[j]) \cup {prev}
                        /\ Jumps(ifs[j]) \cap PositionsOf(b) \subseteq Jumps(m_if_stack[j])
      OBVIOUS
    <3>1. CASE j # L
      BY <1>2, <3>1
    <3>2. CASE j = L
      BY <1>2, <1>3, <1>8, <1>12, <1>13, <3>2
    <3> QED  BY <3>1, <3>2
  <2>2. P \subseteq Q \cup {prev}
    BY <1>2, <1>12, <2>1 DEF P, Q, Pending
  <2>3. Q \cap PositionsOf(b) \subseteq P
    BY <1>2, <1>12, <2>1 DEF P, Q, Pending
  <2>4. Q \subseteq PositionsOf(c)
    BY DEF Q, Pending
  <2>5. n \in Q
    BY <1>2, <1>12, <1>14 DEF Q, Pending
  <2>6. Len(t) = 3 => n + 2 \in Q
    BY <1>2, <1>13, <1>14 DEF Q, Pending
  <2> QED  BY <2>2, <2>3, <2>4, <2>5, <2>6
<1>16. FillsJumps(b, c, {prev}, n + 1)
  <2>1. \A k \in PositionsOf(b) : k + 1 <= n + 1
    BY <1>2, <1>5
  <2>2. n + 1 <= Len(c)
    <3>1. n \in Nat
      BY <1>2
    <3> QED  BY <3>1, <1>4, <1>5, PositionsAfterElse
  <2> QED  BY <1>8, <2>1, <2>2 DEF FillsJumps
<1>17. \A k \in 0..(Len(t) - 1) :
         opOf(t, k) # "StartLoop" /\ (opOf(t, k) \in JumpOps => n + k \in Q)
  <2> SUFFICES ASSUME NEW k \in 0..(Len(t) - 1)
               PROVE  opOf(t, k) # "StartLoop" /\ (opOf(t, k) \in JumpOps => n + k \in Q)
    OBVIOUS
  <2>1. k = 0 \/ (k = 1 /\ 1 \in 1..(Len(t) - 1)) \/ (k = 2 /\ Len(t) = 3)
    BY <1>2, <1>4, PositionsAfterElse
  <2>2. CASE k = 0
    <3>1. n + 0 = n
      BY <1>2
    <3> QED  BY <1>3, <1>15, <2>2, <3>1
  <2>3. CASE k = 1 /\ 1 \in 1..(Len(t) - 1)
    <3>1. 1 # 2 /\ opOf(t, 1) \in {"Push", "Literal"}
      BY <1>3, <2>3
    <3> QED  BY <2>3, <3>1 DEF JumpOps
  <2>4. CASE k = 2 /\ Len(t) = 3
    <3>1. 2 \in 1..(Len(t) - 1)
      BY <1>2, <1>4, <2>4, PositionsAfterElse
    <3>2. opOf(t, 2) = "ConditionalJump"
      BY <1>3, <3>1
    <3> QED  BY <1>15, <2>4, <3>2 DEF JumpOps
  <2> QED  BY <2>1, <2>2, <2>3, <2>4
<1>18. \A k \in {prev} \cap PositionsOf(b) :
         k \in P /\ n <= n + 1 /\ \A s \in LoopsOf(b) \cap O : s < k
  <2> SUFFICES ASSUME prev \in PositionsOf(b)
               PROVE  prev \in P /\ \A s \in O : s < prev
    BY <1>2
  <2>1. prev \in Jumps(last)
    BY <1>8
  <2>2. prev \in P
    BY <1>2, <2>1 DEF P, Pending
  <2>3. \A s \in O : s < prev
    BY <1>11, <2>1 DEF O, Held
  <2> QED  BY <2>2, <2>3
<1>19. Nesting(c, O, Q)
  <2>1. n + 1 \in Nat /\ n = Len(b)
    BY <1>2 DEF n
  <2>2. b \in Seq(Bytecode) /\ Nesting(b, O, P) /\ ClosedBelow(b, O)
    BY <1>1
  <2>3. t \in Seq(Bytecode) /\ Extended(b, c, {prev}, n + 1, t)
    BY <1>3
  <2>4. \A k \in 0..(Len(t) - 1) :
          opOf(t, k) # "StartLoop" /\ (opOf(t, k) \in JumpOps => Len(b) + k \in Q)
    BY <1>17, <2>1
  <2>5. \A k \in {prev} \cap PositionsOf(b) :
          k \in P /\ Len(b) <= n + 1 /\ \A s \in LoopsOf(b) \cap O : s < k
    BY <1>18, <2>1
  <2>6. P \subseteq Q \cup {prev} /\ Q \cap PositionsOf(b) \subseteq P /\ Q \subseteq PositionsOf(c)
    BY <1>15
  <2> QED  BY <1>16, <2>1, <2>2, <2>3, <2>4, <2>5, <2>6, NestingExtend
<1>20. SameBut(V, W, "if", L)
  BY <1>2, <1>9, <1>10 DEF SameBut, Kinds
<1>21. \A k \in V["if"][L] :
         \/ k \in W["if"][L]
         \/ \A x \in Kinds : \A l \in DOMAIN W[x] : \A j \in W[x][l] : j < k
  <2> SUFFICES ASSUME NEW k \in Jumps(ifs[L]), k \notin Jumps(last)
               PROVE  \A j \in PositionsOf(b) : j < k
    BY <1>1, <1>2, <1>9, <1>10
  <2>1. k = n \/ k = n + 2
    BY <1>3, <1>8, <1>13
  <2> QED  BY <1>2, <1>5, <2>1
<1>22. Interleaved(open, V)
  <2>1. DOMAIN V["if"] = 1..L /\ L \in Nat
    BY <1>2, <1>9, <1>10
  <2> QED  BY <1>1, <1>9, <1>20, <1>21, <2>1, InterleavedContinues
<1>23. Nests(c, ifs, m_loop_stack, open)
  BY <1>19, <1>22 DEF Nests, O, Q, V
<1> QED  BY <1>23 DEF c, ifs

LEMMA EndifKeepsNests ==
  ASSUME IInv, open \in Seq(Kinds), open # <<>>, back(open) = "if",
         Nests(bytecodes, m_if_stack, m_loop_stack, open), Endif
  PROVE  Nests(bytecodes', m_if_stack', m_loop_stack, popped(open))
<1> DEFINE b == bytecodes
           c == bytecodes'
           n == Len(b)
           O == Held(m_loop_stack)
           L == Len(m_if_stack)
           last == back(m_if_stack)
           S == Jumps(last)
           ifs == m_if_stack'
           t == <<>>
           P == Pending(b, m_if_stack, m_loop_stack)
           Q == Pending(c, ifs, m_loop_stack)
           W == WaitsFor(m_if_stack, m_loop_stack)
           V == WaitsFor(ifs, m_loop_stack)
<1>1. /\ Sound(b, m_if_stack, m_loop_stack) /\ b \in Seq(Bytecode) /\ n \in Nat
      /\ m_if_stack \in Seq(IfData) /\ m_loop_stack \in Seq(Nat)
      /\ Nesting(b, O, P) /\ Interleaved(open, W) /\ ClosedBelow(b, O)
      /\ \A o \in Kinds : \A l \in DOMAIN W[o] : W[o][l] \subseteq PositionsOf(b)
  BY IInvIsSound, WaitedIsPlaced, LenProperties DEF Sound, Nests
<1>2. m_if_stack # <<>> /\ ifs = popped(m_if_stack)
  BY DEF Endif
<1>3. /\ L \in Nat \ {0} /\ L \in DOMAIN m_if_stack /\ DOMAIN m_if_stack = 1..L
      /\ last = m_if_stack[L] /\ IfHoldsJumps(b, last) /\ S \subseteq PositionsOf(b)
  BY <1>1, <1>2, LastEntry
<1>4. /\ ifs \in Seq(IfData) /\ DOMAIN ifs = 1..(L - 1)
      /\ \A j \in 1..(L - 1) : ifs[j] = m_if_stack[j]
  <2>1. /\ ifs \in Seq(IfData) /\ Len(ifs) = L - 1
        /\ \A j \in 1..(L - 1) : ifs[j] = m_if_stack[j]
    BY <1>1, <1>2, PoppedStack
  <2> QED  BY <2>1, LenProperties
<1>5. \A l \in Nat : \A j \in 1..(l - 1) : j \in 1..l /\ j # l
  OBVIOUS
<1>6. /\ \A j \in DOMAIN ifs : j \in DOMAIN m_if_stack /\ j # L /\ ifs[j] = m_if_stack[j]
      /\ \A j \in DOMAIN m_if_stack : j # L => j \in DOMAIN ifs
  BY <1>3, <1>4, <1>5, BelowLast
<1>7. Extended(b, c, S, n, t) /\ t \in Seq(Bytecode) /\ Len(t) = 0
  <2>1. Extended(b, c, S, size, <<>>)
    BY <1>1, EndifShape
  <2> QED  BY <2>1, EmptyProgram DEF size
<1>8. PositionsOf(b) = 0..(n - 1) /\ Len(c) = n /\ PositionsOf(c) = PositionsOf(b)
  <2>1. Len(c) = n
    <3>1. Len(c) = n + Len(t)
      BY <1>7 DEF Extended
    <3> QED  BY <1>1, <1>7, <3>1
  <2> QED  BY <2>1 DEF PositionsOf
<1>9. /\ DOMAIN W["if"] = 1..L
      /\ \A j \in DOMAIN m_if_stack : W["if"][j] = Jumps(m_if_stack[j])
      /\ DOMAIN W["for"] = DOMAIN m_loop_stack
      /\ \A j \in DOMAIN m_loop_stack : W["for"][j] = {m_loop_stack[j]}
  BY <1>1, WaitsForIs
<1>10. /\ DOMAIN V["if"] = DOMAIN ifs /\ V["for"] = W["for"]
       /\ \A j \in DOMAIN ifs : V["if"][j] = Jumps(ifs[j])
  <2>1. V["for"] = W["for"]
    BY DEF WaitsFor, Kinds
  <2> QED  BY <1>1, <1>4, <2>1, WaitsForIs
<1> HIDE DEF b, c, n, O, L, last, ifs, P, Q, W, V, t
<1>11. \A j \in DOMAIN m_loop_stack : \A k \in S : m_loop_stack[j] < k
  <2>1. \A o \in Kinds : \A x \in DOMAIN W[o] :
          o # "if" \/ x # L => \A j \in W[o][x] : \A k \in W["if"][L] : j < k
    BY <1>1, <1>3, <1>9, LastIsBehind
  <2>2. "for" \in Kinds /\ "for" # "if"
    BY DEF Kinds
  <2>3. \A x \in DOMAIN W["for"] : \A j \in W["for"][x] : \A k \in W["if"][L] : j < k
    BY ONLY <2>1, <2>2
  <2> QED  BY ONLY <1>3, <1>9, <2>3
<1>12. P \subseteq Q \cup S /\ Q \subseteq P /\ Q \subseteq PositionsOf(c) /\ S \subseteq P
  <2>1. P \subseteq Q \cup S
    BY <1>3, <1>6, <1>8 DEF P, Q, Pending
  <2>2. Q \subseteq P
    BY <1>6, <1>8 DEF P, Q, Pending
  <2>3. S \subseteq P
    BY <1>3 DEF P, Pending
  <2> QED  BY <2>1, <2>2, <2>3 DEF Q, Pending
<1>13. \A k \in S : opOf(b, k) \in {"Jump", "ConditionalJump"}
  BY <1>3 DEF IfHoldsJumps, Jumps
<1> HIDE DEF S
<1>14. FillsJumps(b, c, S, n)
  <2>1. \A k \in PositionsOf(b) : k + 1 <= n
    BY <1>1, <1>8
  <2>2. n <= Len(c)
    BY <1>1, <1>8
  <2> QED  BY <1>13, <2>1, <2>2 DEF FillsJumps
<1>15. \A k \in 0..(Len(t) - 1) :
         opOf(t, k) # "StartLoop" /\ (opOf(t, k) \in JumpOps => n + k \in Q)
  BY <1>7
<1>16. \A k \in S \cap PositionsOf(b) :
         k \in P /\ n <= n /\ \A s \in LoopsOf(b) \cap O : s < k
  <2>1. \A s \in O : \A k \in S : s < k
    BY <1>11 DEF O, Held
  <2> QED  BY <1>1, <1>12, <2>1
<1>17. Nesting(c, O, Q)
  <2>1. n = Len(b)
    BY DEF n
  <2>2. Q \cap PositionsOf(b) \subseteq P
    BY <1>12
  <2>3. Extended(b, c, S, Len(b), t) /\ FillsJumps(b, c, S, Len(b)) /\ Len(b) \in Nat
    BY <1>1, <1>7, <1>14, <2>1
  <2>4. \A k \in 0..(Len(t) - 1) :
          opOf(t, k) # "StartLoop" /\ (opOf(t, k) \in JumpOps => Len(b) + k \in Q)
    BY <1>15, <2>1
  <2>5. \A k \in S \cap PositionsOf(b) :
          k \in P /\ Len(b) <= Len(b) /\ \A s \in LoopsOf(b) \cap O : s < k
    BY <1>16, <2>1
  <2> QED  BY <1>1, <1>7, <1>12, <2>2, <2>3, <2>4, <2>5, NestingExtend
<1>18. SameBut(V, W, "if", L)
  BY <1>6, <1>9, <1>10 DEF SameBut, Kinds
<1>19. Interleaved(popped(open), V)
  <2>1. DOMAIN V["if"] = 1..(L - 1) /\ L \in Nat
    BY <1>3, <1>4, <1>10
  <2> QED  BY <1>1, <1>9, <1>18, <2>1, InterleavedCloses
<1>20. Nests(c, ifs, m_loop_stack, popped(open))
  BY <1>17, <1>19 DEF Nests, O, Q, V
<1> QED  BY <1>20 DEF c, ifs

LEMMA ForKeepsNests ==
  ASSUME IInv, Landings(bytecodes), open \in Seq(Kinds),
         Nests(bytecodes, m_if_stack, m_loop_stack, open), For
  PROVE  Nests(bytecodes', m_if_stack, m_loop_stack', Append(open, "for"))
<1> DEFINE b == bytecodes
           c == bytecodes'
           n == Len(b)
           O == Held(m_loop_stack)
           L == Len(m_loop_stack)
           loops == m_loop_stack'
           P == Pending(b, m_if_stack, m_loop_stack)
           Q == Pending(c, m_if_stack, loops)
           W == WaitsFor(m_if_stack, m_loop_stack)
           V == WaitsFor(m_if_stack, loops)
<1>1. /\ Sound(b, m_if_stack, m_loop_stack) /\ b \in Seq(Bytecode) /\ n \in Nat
      /\ m_if_stack \in Seq(IfData) /\ m_loop_stack \in Seq(Nat)
      /\ Nesting(b, O, P) /\ Interleaved(open, W) /\ ClosedBelow(b, O)
      /\ \A o \in Kinds : \A l \in DOMAIN W[o] : W[o][l] \subseteq PositionsOf(b)
      /\ O \subseteq PositionsOf(b)
  BY IInvIsSound, WaitedIsPlaced, LenProperties DEF Sound, Nests, LoopsOf
<1>2. PICK d \in Evaluated :
        c = Append(d, Code("StartLoop")) /\ loops = Append(m_loop_stack, Len(d))
  BY DEF For
<1>20. "StartLoop" \in Ops
  BY DEF Ops
<1>3. PICK t \in Seq(Bytecode) :
        Opening(b, c, t, "StartLoop") /\ Len(d) = n + Len(t) - 1
  BY <1>1, <1>2, <1>20, EvaluatedShape
<1> DEFINE p == n + Len(t) - 1
<1>21. loops = Append(m_loop_stack, p)
  BY <1>2, <1>3
<1> HIDE DEF c
<1>6. /\ n \in Nat /\ p \in Nat /\ n <= p
      /\ PositionsOf(b) = 0..(n - 1) /\ PositionsOf(c) = 0..p
      /\ p \in PositionsOf(c) /\ p \notin PositionsOf(b)
      /\ PositionsOf(b) \subseteq PositionsOf(c)
  BY <1>3, OpeningFacts
<1>22. p = Len(b) + Len(t) - 1
  OBVIOUS
<1> HIDE DEF p
<1>5. /\ loops \in Seq(Nat) /\ DOMAIN loops = DOMAIN m_loop_stack \cup {L + 1}
      /\ loops[L + 1] = p
      /\ \A j \in DOMAIN m_loop_stack : loops[j] = m_loop_stack[j]
  BY <1>1, <1>6, <1>21, PushedStack
<1>7. P \subseteq Q /\ Q \cap PositionsOf(b) \subseteq P /\ Q \subseteq PositionsOf(c)
  BY <1>5, <1>6 DEF Pending
<1>8. /\ DOMAIN W["for"] = 1..L /\ L \in Nat /\ DOMAIN m_loop_stack = 1..L
      /\ \A j \in DOMAIN m_loop_stack : W["for"][j] = {m_loop_stack[j]}
  BY <1>1, WaitsForIs
<1>9. DOMAIN V["for"] = DOMAIN loops /\ \A j \in DOMAIN loops : V["for"][j] = {loops[j]}
  BY <1>1, <1>5, WaitsForIs
<1>10. V["if"] = W["if"]
  BY DEF WaitsFor, Kinds
<1>11. Held(loops) = O \cup {p}
  BY <1>5 DEF Held
<1> HIDE DEF b, loops, O, P, Q, V, W
<1>12. Nesting(c, O \cup {p}, Q)
  <2>1. Landings(b)
    BY DEF b
  <2> QED  BY <1>1, <1>3, <1>7, <1>22, <2>1, NestingOpens
<1> HIDE DEF n
<1>13. DOMAIN V["for"] = 1..(L + 1)
  BY <1>5, <1>8, <1>9
<1>14. SameBut(V, W, "for", L + 1)
  BY <1>5, <1>8, <1>9, <1>10 DEF SameBut, Kinds
<1>15. V["for"][L + 1] = {p}
  BY <1>5, <1>9
<1>16. \A x \in Kinds : \A l \in DOMAIN W[x] : \A j \in W[x][l] : \A k \in V["for"][L + 1] : j < k
  BY <1>1, <1>6, <1>15
<1>17. Interleaved(Append(open, "for"), V)
  BY <1>1, <1>8, <1>13, <1>14, <1>16, InterleavedOpens DEF Kinds
<1>18. Nests(c, m_if_stack, loops, Append(open, "for"))
  BY <1>11, <1>12, <1>17 DEF Nests, Q, V
<1> QED  BY <1>18 DEF c, loops

LEMMA EndforKeepsNests ==
  ASSUME IInv, Landings(bytecodes), open \in Seq(Kinds), open # <<>>, back(open) = "for",
         Nests(bytecodes, m_if_stack, m_loop_stack, open), Endfor
  PROVE  Nests(bytecodes', m_if_stack, m_loop_stack', popped(open))
<1> DEFINE b == bytecodes
           c == bytecodes'
           n == Len(b)
           O == Held(m_loop_stack)
           L == Len(m_loop_stack)
           r == back(m_loop_stack)
           loops == m_loop_stack'
           P == Pending(b, m_if_stack, m_loop_stack)
           Q == Pending(c, m_if_stack, loops)
           W == WaitsFor(m_if_stack, m_loop_stack)
           V == WaitsFor(m_if_stack, loops)
<1>1. /\ Sound(b, m_if_stack, m_loop_stack) /\ b \in Seq(Bytecode) /\ n \in Nat
      /\ m_if_stack \in Seq(IfData) /\ m_loop_stack \in Seq(Nat)
      /\ Nesting(b, O, P) /\ Interleaved(open, W) /\ ClosedBelow(b, O)
      /\ O \subseteq LoopsOf(b)
      /\ \A k \in P : opOf(b, k) \in JumpOps => \E j \in DOMAIN m_if_stack : k \in Jumps(m_if_stack[j])
      /\ NoneTwice(m_if_stack, m_loop_stack)
  BY IInvIsSound, WaitedIsPlaced, LenProperties DEF Sound, Nests
<1>2. m_loop_stack # <<>> /\ loops = popped(m_loop_stack)
  BY DEF Endfor
<1>3. /\ loops \in Seq(Nat) /\ L \in Nat \ {0} /\ Len(loops) = L - 1
      /\ \A j \in 1..(L - 1) : loops[j] = m_loop_stack[j]
      /\ DOMAIN m_loop_stack = 1..L /\ r = m_loop_stack[L]
  BY <1>1, <1>2, PoppedStack, LenProperties DEF back
<1>4. \A j \in DOMAIN m_loop_stack : m_loop_stack[j] \in Nat
  BY <1>1, LenProperties, ElementOfSeq
<1>5. DOMAIN loops = 1..(L - 1) /\ L \in DOMAIN m_loop_stack
  <2>1. DOMAIN loops = 1..Len(loops)
    BY <1>3, LenProperties
  <2>2. L \in 1..L
    BY <1>3
  <2> QED  BY <2>1, <2>2, <1>3
<1>6. \A l \in Nat : \A j \in 1..(l - 1) : j \in 1..l /\ j # l
  OBVIOUS
<1>7. /\ \A j \in DOMAIN loops : j \in DOMAIN m_loop_stack /\ j # L /\ loops[j] = m_loop_stack[j]
      /\ \A j \in DOMAIN m_loop_stack : j # L => j \in DOMAIN loops
  BY <1>3, <1>5, <1>6, BelowLast
<1>8. PICK t \in Seq(Bytecode) :
        /\ Extended(b, c, {r}, n, t)
        /\ Len(t) = 1 /\ opOf(t, 0) = "EndLoop" /\ argsOf(t, 0) = r + 1
  BY <1>1, EndforShape DEF size
<1>9. PositionsOf(b) \subseteq PositionsOf(c)
  BY <1>8 DEF Extended, PositionsOf
<1>10. /\ DOMAIN W["for"] = 1..L
       /\ \A j \in DOMAIN m_loop_stack : W["for"][j] = {m_loop_stack[j]}
       /\ DOMAIN W["if"] = DOMAIN m_if_stack
       /\ \A j \in DOMAIN m_if_stack : W["if"][j] = Jumps(m_if_stack[j])
  BY <1>1, WaitsForIs
<1>11. DOMAIN V["for"] = DOMAIN loops /\ \A j \in DOMAIN loops : V["for"][j] = {loops[j]}
  BY <1>1, <1>3, WaitsForIs
<1>12. V["if"] = W["if"]
  BY DEF WaitsFor, Kinds
<1>13. Held(loops) = O \ {r}
  <2>1. \A j \in DOMAIN m_loop_stack : m_loop_stack[j] = r => j = L
    BY <1>1, <1>3, <1>5 DEF NoneTwice
  <2> QED  BY <1>3, <1>7, <2>1 DEF Held
<1> HIDE DEF b, c, n, r, loops, O, P, Q, V, W, L
<1>14. r \in O /\ r \in LoopsOf(b)
  BY <1>1, <1>3, <1>5 DEF O, Held
<1>15. \A o \in Kinds : \A x \in DOMAIN W[o] :
         o # "for" \/ x # L => \A j \in W[o][x] : \A k \in W["for"][L] : j < k
  BY <1>1, <1>3, <1>10, LastIsBehind
<1>16. W["for"][L] = {r}
  BY <1>3, <1>5, <1>10
<1>17. \A s \in O : s <= r
  <2> SUFFICES ASSUME NEW j \in DOMAIN m_loop_stack PROVE m_loop_stack[j] <= r
    BY DEF O, Held
  <2>1. m_loop_stack[j] \in Nat /\ r \in Nat
    BY <1>3, <1>5, <1>4
  <2>2. ASSUME j # L PROVE m_loop_stack[j] < r
    <3>1. j \in DOMAIN W["for"] /\ "for" \in Kinds
      BY <1>3, <1>10 DEF Kinds
    <3>2. \A x \in W["for"][j] : \A k \in W["for"][L] : x < k
      BY <1>15, <2>2, <3>1
    <3> QED  BY <1>10, <1>16, <3>2
  <2> QED  BY <1>3, <2>1, <2>2
<1>18. \A k \in P : opOf(b, k) \in JumpOps => k < r
  <2> SUFFICES ASSUME NEW k \in P, opOf(b, k) \in JumpOps PROVE k < r
    OBVIOUS
  <2>1. PICK j \in DOMAIN m_if_stack : k \in Jumps(m_if_stack[j])
    BY <1>1
  <2>2. "if" \in Kinds /\ j \in DOMAIN W["if"] /\ k \in W["if"][j]
    BY <1>10, <2>1 DEF Kinds
  <2>3. \A x \in W["if"][j] : \A y \in W["for"][L] : x < y
    <3>1. "if" # "for"
      OBVIOUS
    <3> QED  BY ONLY <1>15, <2>2, <3>1
  <2> QED  BY ONLY <1>16, <2>2, <2>3
<1>19. P \subseteq Q \cup {r} /\ Q \cap PositionsOf(b) \subseteq P /\ Q \subseteq PositionsOf(c)
  BY <1>3, <1>7, <1>9 DEF P, Q, Pending
<1>20. Nesting(c, O \ {r}, Q)
  <2>1. n = Len(b) /\ Landings(b)
    BY DEF n, b
  <2> QED  BY <1>1, <1>8, <1>14, <1>17, <1>18, <1>19, <2>1, NestingCloses
<1>21. SameBut(V, W, "for", L)
  BY <1>7, <1>10, <1>11, <1>12 DEF SameBut, Kinds
<1>22. Interleaved(popped(open), V)
  <2>1. DOMAIN V["for"] = 1..(L - 1) /\ L \in Nat
    BY <1>3, <1>5, <1>11
  <2> QED  BY <1>1, <1>10, <1>21, <2>1, InterleavedCloses
<1>23. Nests(c, m_if_stack, loops, popped(open))
  BY <1>13, <1>20, <1>22 DEF Nests, Q, V
<1> QED  BY <1>23 DEF c, loops

-----------------------------------------------------------------------------
(* The parser within the renderer's specification *)

LEMMA ParserSteps == NextAll => [Next]_vars
<1> SUFFICES ASSUME NextAll PROVE [Next]_vars
  OBVIOUS
<1>1. CASE Parse
  BY <1>1 DEF Parse, Next, Block
<1>2. CASE ParseNext
  BY <1>2 DEF ParseNext, Next
<1>3. CASE Start
  BY <1>3 DEF Start
<1>4. CASE Step
  BY <1>4 DEF Step, Unparsed, PrintText, PrintValue, Push, Jump, Callback, PrintPopped,
              ConditionalJump, PopsNothing, StartLoopEmpty, StartLoop, EndLoopAgain, EndLoopDone, EndLoopThrows,
              Throws, Finish
<1> QED  BY <1>1, <1>2, <1>3, <1>4 DEF NextAll

(* The renderer interprets what the parser compiles: the specification of   *)
(* the two is one of the parser.                                            *)
THEOREM RendererRunsTheParser == SpecAll => Spec
<1>1. InitAll => Init
  BY DEF InitAll
<1>2. NextAll \/ UNCHANGED allvars => Next \/ UNCHANGED vars
  BY ParserSteps DEF allvars
<1> QED  BY <1>1, <1>2, PTL DEF SpecAll, Spec

LEMMA IInvUnderNextAll == IInv /\ [NextAll]_allvars => IInv'
BY ParserSteps, NextKeepsIInv DEF allvars

-----------------------------------------------------------------------------
(* Where the interpreter can be, in any program that is accepted *)

(* no value is popped at k, but that of a call that took over a literal,    *)
(* and k is in the program or at its end                                    *)
Plain(b, k) == k \in Nat /\ k <= Len(b) /\ PopsNotAt(b, k)

LEMMA PlainSuccessor ==
  ASSUME NEW b \in Seq(Bytecode), Landings(b), NEW k \in PositionsOf(b), opOf(b, k) # "Push"
  PROVE  Plain(b, k + 1)
<1>1. Len(b) \in Nat /\ k \in Nat /\ k < Len(b)
  BY LenProperties DEF PositionsOf
<1>2. (k + 1) - 1 = k
  BY <1>1
<1>3. PopsNotAt(b, k + 1)
  <2> SUFFICES ASSUME k + 1 \in PositionsOf(b), opOf(b, k + 1) \in PoppingOps
               PROVE  BehindCall(b, k + 1)
    BY DEF PopsNotAt
  <2>1. k + 1 > 0 /\ opOf(b, (k + 1) - 1) \in {"Push", "Callback"}
    BY DEF Landings
  <2> QED  BY <1>2, <2>1 DEF BehindCall
<1> QED  BY <1>1, <1>3 DEF Plain

LEMMA PlainDestination ==
  ASSUME NEW b \in Seq(Bytecode), Landings(b), AllResolvedBut(b, {}), NEW k \in PositionsOf(b)
  PROVE  /\ opOf(b, k) \in JumpOps => Plain(b, argsOf(b, k))
         /\ opOf(b, k) = "StartLoop" => Plain(b, argsOf(b, k) + 1)
         /\ opOf(b, k) = "EndLoop" => Plain(b, argsOf(b, k))
<1>1. Len(b) \in Nat /\ k \in Nat /\ k < Len(b) /\ argsOf(b, k) \in Nat
  BY LenProperties, ArgsAreNat DEF PositionsOf
<1>2. opOf(b, k) \in JumpOps => Plain(b, argsOf(b, k))
  BY <1>1 DEF Landings, Plain
<1>3. ASSUME opOf(b, k) = "StartLoop" PROVE Plain(b, argsOf(b, k) + 1)
  <2> DEFINE e == argsOf(b, k)
  <2>1. e \in PositionsOf(b) /\ opOf(b, e) = "EndLoop"
    BY <1>1, <1>3 DEF AllResolvedBut, LoopResolved, PositionsOf
  <2> QED  BY <2>1, PlainSuccessor
<1>4. ASSUME opOf(b, k) = "EndLoop" PROVE Plain(b, argsOf(b, k))
  <2> DEFINE s == argsOf(b, k) - 1
  <2>1. s \in PositionsOf(b) /\ opOf(b, s) = "StartLoop" /\ s + 1 = argsOf(b, k)
    BY <1>1, <1>4 DEF AllResolvedBut, EndPaired, PositionsOf
  <2> QED  BY <2>1, PlainSuccessor
<1> QED  BY <1>2, <1>3, <1>4

(* The inductive invariant of the two, for templates that need not nest. *)
RunInv ==
  /\ IInv
  /\ RendererTypeOK
  /\ Landings(bytecodes)
  /\ run # "ready" => status = "accepted"
  /\ run = "ready" => i = 0 /\ m_stack = 0 /\ levels = <<>>
  /\ i <= size
  /\ i \in Positions /\ op(i) \in PoppingOps /\ m_stack = 0 => BehindCall(bytecodes, i)
  /\ \A j \in DOMAIN levels : levels[j].index < levels[j].size
  /\ Reserved <= capacity
  /\ run = "undefined" => Reserved < Len(levels)

LEMMA RunInvInit == InitAll => RunInv
<1> SUFFICES ASSUME InitAll PROVE RunInv
  OBVIOUS
<1>1. IInv /\ bytecodes = <<>> /\ PositionsOf(bytecodes) = {} /\ size = 0
  BY InitIInv DEF InitAll, Init, PositionsOf, size
<1>2. Landings(bytecodes)
  BY <1>1 DEF Landings
<1>3. RendererTypeOK
  BY RendererAssumption DEF InitAll, RendererTypeOK
<1>4. Reserved <= capacity
  BY RendererAssumption DEF InitAll
<1> QED  BY <1>1, <1>2, <1>3, <1>4 DEF InitAll, RunInv, Positions

(* While a template is parsed the renderer waits at the first bytecode.     *)
LEMMA ParsingKeepsRunInv ==
  ASSUME RunInv, IInv', Landings(bytecodes'), UNCHANGED renderer, run = "ready",
         open' \in Seq(Kinds), nested' \in BOOLEAN
  PROVE  RunInv'
<1>1. /\ i' = 0 /\ m_stack' = 0 /\ levels' = <<>> /\ run' = "ready" /\ capacity' = capacity
      /\ capacity \in Nat /\ Reserved <= capacity
  BY DEF RunInv, renderer, RendererTypeOK
<1>2. RendererTypeOK'
  BY <1>1 DEF RendererTypeOK, Kinds
<1>3. 0 <= size'
  BY LenProperties DEF IInv, TypeOK, size
<1>4. ~(i' \in Positions' /\ op(i)' \in PoppingOps)
  <2>1. ~(0 > 0)
    OBVIOUS
  <2>2. 0 \in PositionsOf(bytecodes') => opOf(bytecodes', 0) \notin PoppingOps
    BY <2>1 DEF Landings
  <2> QED  BY <1>1, <2>2 DEF Positions, op
<1>5. \A j \in DOMAIN levels' : FALSE
  BY <1>1
<1> QED  BY <1>1, <1>2, <1>3, <1>4, <1>5 DEF RunInv

LEMMA PoppedIsSeq ==
  ASSUME NEW S, NEW stack \in Seq(S)
  PROVE  popped(stack) \in Seq(S)
<1>1. CASE stack # <<>>
  BY <1>1, PoppedStack
<1>2. CASE stack = <<>>
  <2>1. Len(stack) = 0
    BY <1>2
  <2>2. Len(stack) - 1 \in Int /\ Len(stack) - 1 < 1
    BY <2>1
  <2>3. popped(stack) = <<>>
    BY <2>2, SubSeqEmpty DEF popped
  <2> QED  BY <2>3
<1> QED  BY <1>1, <1>2

LEMMA OpenType ==
  ASSUME open \in Seq(Kinds), nested \in BOOLEAN,
         \/ UNCHANGED template
         \/ \E o \in Kinds : Opens(o) \/ Continues(o) \/ Closes(o)
  PROVE  open' \in Seq(Kinds) /\ nested' \in BOOLEAN
<1>1. CASE UNCHANGED template
  BY <1>1 DEF template
<1>2. ASSUME NEW o \in Kinds, Opens(o) PROVE open' \in Seq(Kinds) /\ nested' \in BOOLEAN
  BY <1>2, AppendProperties DEF Opens
<1>3. ASSUME NEW o \in Kinds, Continues(o) PROVE open' \in Seq(Kinds) /\ nested' \in BOOLEAN
  BY <1>3 DEF Continues
<1>4. ASSUME NEW o \in Kinds, Closes(o)
      PROVE  open' \in Seq(Kinds) /\ nested' \in BOOLEAN
  <2>1. open' = popped(open) /\ nested' = (nested /\ InLast(o))
    BY <1>4 DEF Closes
  <2>2. InLast(o) \in BOOLEAN
    BY DEF InLast
  <2> QED  BY <1>4, <2>1, <2>2, PoppedIsSeq
<1> QED  BY <1>1, <1>2, <1>3, <1>4

(* What a step of parsing does, apart from the kind of block. *)
LEMMA ParseFacts ==
  ASSUME Parse
  PROVE  /\ status = "parsing" /\ UNCHANGED renderer
         /\ Block \/ (bytecodes' = bytecodes /\ m_if_stack' = m_if_stack /\ m_loop_stack' = m_loop_stack)
         /\ \/ UNCHANGED template
            \/ \E o \in Kinds : Opens(o) \/ Continues(o) \/ Closes(o)
<1>1. UNCHANGED renderer
  BY DEF Parse
<1>2. status = "parsing"
  BY DEF Parse, Parsing, Text, Expression, Eof, LineFails, If, Else, ElseIf,
         LineElseIfFails, Endif, For, Endfor, Reject, ElseTraps
<1>3. Block \/ (bytecodes' = bytecodes /\ m_if_stack' = m_if_stack /\ m_loop_stack' = m_loop_stack)
  <2>1. CASE Eof \/ Reject
    BY <2>1 DEF Eof, Reject, stacks
  <2>2. CASE ~(Eof \/ Reject)
    BY <2>2 DEF Parse, Block
  <2> QED  BY <2>1, <2>2
<1>4. \/ UNCHANGED template
      \/ \E o \in Kinds : Opens(o) \/ Continues(o) \/ Closes(o)
  BY DEF Parse, Kinds
<1> QED  BY <1>1, <1>2, <1>3, <1>4

LEMMA ParseKeepsRunInv ==
  ASSUME RunInv, Parse \/ ParseNext
  PROVE  RunInv'
<1>1. IInv'
  BY IInvUnderNextAll DEF RunInv, NextAll
<1>2. open \in Seq(Kinds) /\ nested \in BOOLEAN
  BY DEF RunInv, RendererTypeOK, Kinds
<1>3. CASE Parse
  <2>1. run = "ready" /\ UNCHANGED renderer
    BY <1>3, ParseFacts DEF RunInv
  <2>2. Landings(bytecodes')
    BY <1>3, ParseFacts, BlockKeepsLandings DEF RunInv
  <2>3. open' \in Seq(Kinds) /\ nested' \in BOOLEAN
    BY <1>2, <1>3, ParseFacts, OpenType
  <2> QED  BY <1>1, <2>1, <2>2, <2>3, ParsingKeepsRunInv
<1>4. CASE ParseNext
  <2>1. /\ bytecodes' = <<>> /\ run = "ready" /\ UNCHANGED renderer
        /\ open' = <<>> /\ nested' = TRUE
    BY <1>4 DEF ParseNext, NextTemplate
  <2>2. PositionsOf(<<>>) = {}
    BY DEF PositionsOf
  <2>3. Landings(bytecodes')
    BY <2>1, <2>2 DEF Landings
  <2> QED  BY <1>1, <2>1, <2>3, ParsingKeepsRunInv
<1> QED  BY <1>3, <1>4

(* While it runs the program stays. *)
LEMMA RunningKeepsRunInv ==
  ASSUME RunInv, Unparsed, run # "ready",
         i' \in Nat, i' <= Len(bytecodes),
         m_stack' = 0 => PopsNotAt(bytecodes, i'),
         m_stack' \in Nat, levels' \in Seq(LoopLevel),
         \A j \in DOMAIN levels' : levels'[j].index < levels'[j].size,
         capacity' \in Nat, Reserved <= capacity',
         run' \in {"running", "done", "thrown", "undefined", "underflow"},
         run' = "undefined" => Reserved < Len(levels')
  PROVE  RunInv'
<1>1. /\ bytecodes' = bytecodes /\ status' = status /\ open' = open /\ nested' = nested
      /\ UNCHANGED vars
  BY DEF Unparsed, vars, template
<1>2. IInv' /\ Landings(bytecodes')
  BY <1>1, StutterKeepsIInv DEF RunInv
<1>3. RendererTypeOK'
  BY <1>1 DEF RunInv, RendererTypeOK
<1>4. status' = "accepted" /\ run' # "ready"
  BY <1>1 DEF RunInv
<1>5. i' <= size'
  BY <1>1 DEF size
<1>6. i' \in Positions' /\ op(i)' \in PoppingOps /\ m_stack' = 0 => BehindCall(bytecodes', i')
  BY <1>1 DEF Positions, op, PopsNotAt
<1> QED  BY <1>2, <1>3, <1>4, <1>5, <1>6 DEF RunInv

LEMMA RunFacts ==
  ASSUME RunInv
  PROVE  /\ bytecodes \in Seq(Bytecode) /\ Landings(bytecodes) /\ size = Len(bytecodes)
         /\ run # "ready" => /\ status = "accepted" /\ m_if_stack = <<>> /\ m_loop_stack = <<>>
                             /\ AllResolvedBut(bytecodes, {})
         /\ i \in Nat /\ i <= Len(bytecodes) /\ m_stack \in Nat /\ capacity \in Nat
         /\ m_stack = 0 => PopsNotAt(bytecodes, i)
         /\ levels \in Seq(LoopLevel)
         /\ \A j \in DOMAIN levels : levels[j].index < levels[j].size
         /\ Reserved <= capacity /\ Reserved \in Nat \ {0}
         /\ run = "undefined" => Reserved < Len(levels)
         /\ run \in {"ready", "running", "done", "thrown", "undefined", "underflow"}
         /\ open \in Seq(Kinds)
BY RendererAssumption
   DEF RunInv, IInv, TypeOK, AcceptedIsClosed, RendererTypeOK, Kinds, size, Positions, op,
       PopsNotAt

(* A step that leaves the levels and goes to where no value is popped.      *)
LEMMA PlainStepKeepsRunInv ==
  ASSUME RunInv, Unparsed, run = "running", Plain(bytecodes, i'), m_stack' \in Nat,
         levels' = levels, capacity' = capacity, run' = "running"
  PROVE  RunInv'
BY RunFacts, RunningKeepsRunInv DEF Plain

LEMMA OneMore ==
  ASSUME NEW x \in LoopLevel, x.index < x.size
  PROVE  LET y == [x EXCEPT !.index = @ + 1]
         IN  /\ y \in LoopLevel /\ y.start = x.start /\ y.size = x.size
             /\ y.index <= y.size
BY DEF LoopLevel

LEMMA AdvancedLevel ==
  ASSUME levels \in Seq(LoopLevel), levels # <<>>,
         \A j \in DOMAIN levels : levels[j].index < levels[j].size
  PROVE  /\ Advanced \in LoopLevel /\ Advanced.start = back(levels).start
         /\ Advanced.size = back(levels).size
         /\ Advanced.index <= Advanced.size
<1>1. Len(levels) \in DOMAIN levels /\ back(levels) \in LoopLevel
  BY PoppedStack, LenProperties
<1>2. back(levels).index < back(levels).size
  BY <1>1 DEF back
<1> QED  BY <1>1, <1>2, OneMore DEF Advanced

LEMMA StepKeepsRunInv ==
  ASSUME RunInv, Start \/ Step
  PROVE  RunInv'
<1> DEFINE b == bytecodes
<1>1. /\ b \in Seq(Bytecode) /\ Landings(b)
      /\ run # "ready" => AllResolvedBut(b, {})
      /\ i \in Nat /\ i <= Len(b) /\ m_stack \in Nat
      /\ m_stack = 0 => PopsNotAt(b, i)
      /\ levels \in Seq(LoopLevel)
      /\ \A j \in DOMAIN levels : levels[j].index < levels[j].size
      /\ capacity \in Nat /\ Reserved <= capacity /\ Reserved \in Nat \ {0}
  BY RunFacts
<1>2. ASSUME NEW o, At(o) PROVE run = "running" /\ i \in PositionsOf(b) /\ opOf(b, i) = o
  BY <1>2 DEF At, Positions, op
<1>3. ASSUME NEW o, At(o), o # "Push" PROVE Plain(b, i + 1)
  BY <1>1, <1>2, <1>3, PlainSuccessor
<1>4. ASSUME NEW o, Pops(o) PROVE At(o) /\ m_stack' = m_stack - 1 /\ m_stack' \in Nat
  BY <1>1, <1>4 DEF Pops
<1> HIDE DEF b
<1>5. CASE Start
  <2>1. /\ status = "accepted" /\ run' = "running" /\ UNCHANGED <<vars, template>>
        /\ i' = i /\ m_stack' = m_stack /\ levels' = levels /\ capacity' = capacity
    BY <1>5 DEF Start
  <2>2. IInv' /\ bytecodes' = bytecodes /\ status' = status
    BY <2>1, StutterKeepsIInv DEF RunInv, vars
  <2>3. size' = size /\ Positions' = Positions /\ op(i)' = op(i)
    BY <2>1, <2>2 DEF size, Positions, op
  <2>4. RendererTypeOK'
    BY <2>1 DEF RunInv, RendererTypeOK, template
  <2> QED  BY <2>1, <2>2, <2>3, <2>4 DEF RunInv
<1>6. CASE PrintText \/ PrintValue
  <2>1. /\ \E o \in {"PrintText", "PrintValue"} : At(o)
        /\ i' = i + 1 /\ Unparsed /\ UNCHANGED <<m_stack, levels, capacity, run>>
    BY <1>6 DEF PrintText, PrintValue
  <2> QED  BY <1>1, <1>2, <1>3, <2>1, PlainStepKeepsRunInv DEF b
<1>7. CASE Push
  <2>1. /\ At("Push") \/ At("Literal")
        /\ i' = i + 1 /\ m_stack' = m_stack + 1
        /\ Unparsed /\ levels' = levels /\ capacity' = capacity /\ run' = run
    BY <1>7 DEF Push
  <2>2. i' <= Len(b) /\ i' \in Nat /\ m_stack' \in Nat /\ m_stack' # 0
    BY <1>1, <1>2, <2>1, LenProperties DEF PositionsOf
  <2>3. run = "running"
    BY <1>2, <2>1
  <2> QED  BY <1>1, <2>1, <2>2, <2>3, RunningKeepsRunInv DEF b
<1>8. CASE Jump
  <2>1. /\ At("Jump") /\ i' = argsOf(b, i)
        /\ Unparsed /\ UNCHANGED <<m_stack, levels, capacity, run>>
    BY <1>8 DEF Jump, args, b
  <2>2. Plain(b, i')
    BY <1>1, <1>2, <2>1, PlainDestination DEF JumpOps
  <2> QED  BY <1>1, <1>2, <2>1, <2>2, PlainStepKeepsRunInv DEF b
<1>9. CASE ConditionalJump
  <2>1. /\ At("ConditionalJump") /\ (i' = i + 1 \/ i' = argsOf(b, i)) /\ m_stack' \in Nat
        /\ Unparsed /\ UNCHANGED <<levels, capacity, run>>
    BY <1>4, <1>9 DEF ConditionalJump, args, b
  <2>2. Plain(b, argsOf(b, i))
    BY <1>1, <1>2, <2>1, PlainDestination DEF JumpOps
  <2>3. Plain(b, i')
    BY <1>3, <2>1, <2>2
  <2> QED  BY <1>2, <2>1, <2>3, PlainStepKeepsRunInv DEF b
<1>15. CASE PrintPopped
  <2>1. /\ At("PrintPopped") /\ i' = i + 1 /\ m_stack' \in Nat
        /\ Unparsed /\ UNCHANGED <<levels, capacity, run>>
    BY <1>4, <1>15 DEF PrintPopped
  <2>2. Plain(b, i')
    BY <1>3, <2>1
  <2> QED  BY <1>2, <2>1, <2>2, PlainStepKeepsRunInv DEF b
<1>10. CASE StartLoopEmpty
  <2>1. /\ At("StartLoop") /\ i' = argsOf(b, i) + 1 /\ m_stack' \in Nat
        /\ Unparsed /\ UNCHANGED <<levels, capacity, run>>
    BY <1>4, <1>10 DEF StartLoopEmpty, args, b
  <2>2. Plain(b, i')
    BY <1>1, <1>2, <2>1, PlainDestination
  <2> QED  BY <1>2, <2>1, <2>2, PlainStepKeepsRunInv DEF b
<1>11. CASE StartLoop
  <2>1. PICK n \in 1..MaxElements :
          levels' = Append(levels, [start |-> i, index |-> 0, size |-> n])
    BY <1>11 DEF StartLoop
  <2>2. /\ At("StartLoop") /\ i' = i + 1 /\ m_stack' \in Nat /\ Unparsed
        /\ capacity' = IF Moves THEN 2 * capacity ELSE capacity
        /\ run' \in {"running"} \cup (IF Moves THEN {"undefined"} ELSE {})
    BY <1>4, <1>11 DEF StartLoop
  <2> DEFINE level == [start |-> i, index |-> 0, size |-> n]
  <2>3. level \in LoopLevel /\ level.index < level.size
    BY <1>1, RendererAssumption DEF LoopLevel
  <2> HIDE DEF level
  <2>4. /\ levels' \in Seq(LoopLevel)
        /\ DOMAIN levels' = DOMAIN levels \cup {Len(levels) + 1}
        /\ levels'[Len(levels) + 1] = level
        /\ \A j \in DOMAIN levels : levels'[j] = levels[j]
    BY <1>1, <2>1, <2>3, PushedStack DEF level
  <2>5. \A j \in DOMAIN levels' : levels'[j].index < levels'[j].size
    BY <1>1, <2>3, <2>4
  <2>6. Len(levels) \in Nat /\ Len(levels') = Len(levels) + 1
    BY <1>1, <2>1, <2>3, AppendProperties, LenProperties DEF level
  <2>7. capacity' \in Nat /\ Reserved <= capacity'
    BY <1>1, <2>2
  <2>8. run' = "undefined" => Reserved < Len(levels')
    <3>1. Moves => Len(levels) = capacity
      BY DEF Moves
    <3> QED  BY <1>1, <2>2, <2>6, <3>1
  <2>9. Plain(b, i') /\ m_stack' \in Nat
    BY <1>3, <2>2
  <2>10. run' \in {"running", "undefined"} /\ run = "running"
    BY <1>2, <2>2
  <2> QED
    BY <2>2, <2>4, <2>5, <2>7, <2>8, <2>9, <2>10, RunningKeepsRunInv DEF Plain, b
<1>12. CASE EndLoopAgain
  <2>1. /\ At("EndLoop") /\ i' = argsOf(b, i) /\ levels' = withBack(levels, Advanced)
        /\ levels # <<>> /\ Advanced.index # Advanced.size
        /\ Unparsed /\ m_stack' = m_stack /\ capacity' = capacity /\ run' = run
    BY <1>12 DEF EndLoopAgain, args, b
  <2>2. Plain(b, i')
    BY <1>1, <1>2, <2>1, PlainDestination
  <2>3. Advanced \in LoopLevel /\ Advanced.index < Advanced.size
    <3>1. Advanced \in LoopLevel /\ Advanced.index <= Advanced.size
      BY <1>1, <2>1, AdvancedLevel
    <3> QED  BY <2>1, <3>1 DEF LoopLevel
  <2>4. /\ levels' \in Seq(LoopLevel) /\ DOMAIN levels' = 1..Len(levels)
        /\ \A j \in 1..(Len(levels) - 1) : levels'[j] = levels[j]
        /\ levels'[Len(levels)] = Advanced
    <3>1. /\ withBack(levels, Advanced) \in Seq(LoopLevel)
          /\ DOMAIN withBack(levels, Advanced) = 1..Len(levels)
          /\ \A j \in 1..(Len(levels) - 1) : withBack(levels, Advanced)[j] = levels[j]
          /\ withBack(levels, Advanced)[Len(levels)] = Advanced
      <4>1. levels \in Seq(LoopLevel) /\ levels # <<>> /\ Advanced \in LoopLevel
        BY <1>1, <2>1, <2>3
      <4> QED  BY <4>1, ReplacedBack
    <3> QED  BY <2>1, <3>1
  <2>5. \A j \in DOMAIN levels' : levels'[j].index < levels'[j].size
    <3>1. Len(levels) \in Nat /\ DOMAIN levels = 1..Len(levels)
      BY <1>1, LenProperties
    <3>2. \A j \in 1..Len(levels) : j # Len(levels) => j \in 1..(Len(levels) - 1)
      BY <3>1, BelowLast
    <3> QED  BY <1>1, <2>3, <2>4, <3>1, <3>2
  <2> QED  BY <1>1, <1>2, <2>1, <2>2, <2>4, <2>5, RunningKeepsRunInv DEF Plain, b
<1>13. CASE EndLoopDone
  <2>1. /\ At("EndLoop") /\ i' = i + 1 /\ levels' = popped(levels) /\ levels # <<>>
        /\ Unparsed /\ m_stack' = m_stack /\ capacity' = capacity /\ run' = run
    BY <1>13 DEF EndLoopDone
  <2>2. Plain(b, i')
    BY <1>3, <2>1
  <2>3. /\ levels' \in Seq(LoopLevel) /\ Len(levels') = Len(levels) - 1
        /\ Len(levels) \in Nat \ {0}
        /\ \A j \in 1..(Len(levels) - 1) : levels'[j] = levels[j]
    BY <1>1, <2>1, PoppedStack
  <2>4. DOMAIN levels' = 1..(Len(levels) - 1) /\ DOMAIN levels = 1..Len(levels)
    <3>1. DOMAIN levels' = 1..Len(levels')
      BY <2>3, LenProperties
    <3> QED  BY <1>1, <2>3, <3>1, LenProperties
  <2>5. \A j \in DOMAIN levels' : levels'[j].index < levels'[j].size
    <3>1. \A m \in Nat : \A j \in 1..(m - 1) : j \in 1..m
      OBVIOUS
    <3> QED  BY <1>1, <2>3, <2>4, <3>1
  <2> QED  BY <1>1, <1>2, <2>1, <2>2, <2>3, <2>5, RunningKeepsRunInv DEF Plain, b
<1>14. CASE EndLoopThrows \/ Throws \/ Callback \/ PopsNothing \/ Finish
  <2>1. /\ run = "running" /\ run' \in {"done", "thrown", "underflow"} /\ Unparsed
        /\ i' = i /\ m_stack' = m_stack /\ levels' = levels /\ capacity' = capacity
    BY <1>2, <1>14 DEF EndLoopThrows, Throws, Callback, PopsNothing, Finish
  <2> QED  BY <1>1, <2>1, RunningKeepsRunInv DEF b
<1> QED
  BY <1>5, <1>6, <1>7, <1>8, <1>9, <1>10, <1>11, <1>12, <1>13, <1>14, <1>15 DEF Step

LEMMA StutterKeepsRunInv ==
  ASSUME RunInv, UNCHANGED allvars
  PROVE  RunInv'
<1>1. IInv'
  BY IInvUnderNextAll DEF RunInv
<1>2. /\ bytecodes' = bytecodes /\ status' = status
      /\ open' = open /\ nested' = nested
      /\ i' = i /\ m_stack' = m_stack /\ levels' = levels /\ capacity' = capacity /\ run' = run
  BY DEF allvars, vars, template, renderer
<1>3. RendererTypeOK'
  BY <1>2 DEF RunInv, RendererTypeOK
<1>4. size' = size /\ Positions' = Positions /\ op(i)' = op(i)
  BY <1>2 DEF size, Positions, op
<1> QED  BY <1>1, <1>2, <1>3, <1>4 DEF RunInv

LEMMA NextKeepsRunInv == RunInv /\ [NextAll]_allvars => RunInv'
BY ParseKeepsRunInv, StepKeepsRunInv, StutterKeepsRunInv DEF NextAll

(* Renderer on what Parser compiles: the inductive invariant, for templates *)
(* whose statements need not nest.                                          *)
THEOREM RunningInductiveInvariant == SpecAll => []RunInv
BY RunInvInit, NextKeepsRunInv, PTL DEF SpecAll

(* Renderer: the types, for any number of elements and of levels.           *)
THEOREM RendererTypeCorrect == SpecAll => []RendererTypeOK
<1>1. RunInv => RendererTypeOK
  BY DEF RunInv
<1> QED  BY <1>1, RunningInductiveInvariant, PTL

(* inja.hpp:3386-3399: however the statements of an accepted template nest, *)
(* a condition, a loop or a print that pops a value finds one, unless the   *)
(* value is that of a call which took over a literal and was jumped over;   *)
(* and a level is gone before its elements are.                             *)
THEOREM PopsFindValues == SpecAll => []ValuesAreThere
<1>1. RunInv => ValuesAreThere
  BY DEF RunInv, ValuesAreThere, At, BehindCall, op
<1> QED  BY <1>1, RunningInductiveInvariant, PTL

-----------------------------------------------------------------------------
(* The loops around a position, in a program that is closed and nests *)

In(b, k) == {s \in LoopsOf(b) : Around(b, {}, s, k)}

Closed(b) == b \in Seq(Bytecode) /\ AllResolvedBut(b, {}) /\ Nesting(b, {}, {})

LEMMA LoopsAreClosed ==
  ASSUME NEW b, Closed(b), NEW s \in LoopsOf(b)
  PROVE  /\ s \in Nat /\ argsOf(b, s) \in Nat /\ s < argsOf(b, s)
         /\ argsOf(b, s) \in PositionsOf(b) /\ opOf(b, argsOf(b, s)) = "EndLoop"
         /\ argsOf(b, argsOf(b, s)) = s + 1
<1>1. s \in PositionsOf(b) /\ opOf(b, s) = "StartLoop" /\ b \in Seq(Bytecode)
  BY DEF LoopsOf, Closed
<1>2. LoopResolved(b, s)
  BY <1>1 DEF Closed, AllResolvedBut
<1>3. s \in Nat /\ argsOf(b, s) \in Nat /\ Len(b) \in Nat
  BY <1>1, ArgsAreNat, LenProperties
<1> QED  BY <1>2, <1>3 DEF LoopResolved, PositionsOf

(* no loop begins or ends at k *)
LEMMA AroundNext ==
  ASSUME NEW b, Closed(b), NEW k \in PositionsOf(b), opOf(b, k) \notin {"StartLoop", "EndLoop"}
  PROVE  In(b, k + 1) = In(b, k)
<1>1. k \in Nat
  BY ArgsAreNat DEF Closed
<1>2. ASSUME NEW s \in LoopsOf(b)
      PROVE  Around(b, {}, s, k + 1) <=> Around(b, {}, s, k)
  <2>1. /\ s \in Nat /\ argsOf(b, s) \in Nat /\ opOf(b, argsOf(b, s)) = "EndLoop"
        /\ opOf(b, s) = "StartLoop"
    BY LoopsAreClosed DEF LoopsOf
  <2>2. s # k /\ argsOf(b, s) # k
    BY <2>1
  <2> QED  BY <1>1, <2>1, <2>2 DEF Around
<1> QED  BY <1>2 DEF In

LEMMA AroundJump ==
  ASSUME NEW b, Closed(b), NEW k \in PositionsOf(b), opOf(b, k) \in JumpOps
  PROVE  In(b, argsOf(b, k)) = In(b, k)
BY DEF Closed, Nesting, JumpsStay, In

LEMMA AroundStart ==
  ASSUME NEW b, Closed(b), NEW k \in LoopsOf(b)
  PROVE  /\ In(b, k + 1) = In(b, k) \cup {k}
         /\ In(b, argsOf(b, k) + 1) = In(b, k)
         /\ \A s \in In(b, k) : s < k
<1> DEFINE e == argsOf(b, k)
<1>1. k \in Nat /\ e \in Nat /\ k < e /\ opOf(b, e) = "EndLoop" /\ opOf(b, k) = "StartLoop"
  BY LoopsAreClosed DEF LoopsOf
<1>2. ASSUME NEW s \in LoopsOf(b)
      PROVE  /\ s \in Nat /\ argsOf(b, s) \in Nat /\ s < argsOf(b, s)
             /\ opOf(b, s) = "StartLoop" /\ argsOf(b, argsOf(b, s)) = s + 1
             /\ opOf(b, argsOf(b, s)) = "EndLoop" /\ argsOf(b, s) # k
  <2>1. /\ s \in Nat /\ argsOf(b, s) \in Nat /\ s < argsOf(b, s)
        /\ opOf(b, s) = "StartLoop" /\ argsOf(b, argsOf(b, s)) = s + 1
        /\ opOf(b, argsOf(b, s)) = "EndLoop"
    BY LoopsAreClosed DEF LoopsOf
  <2> QED  BY <1>1, <2>1
<1>3. ASSUME NEW s \in LoopsOf(b)
      PROVE  Around(b, {}, s, k + 1) <=> Around(b, {}, s, k) \/ s = k
  BY <1>1, <1>2 DEF Around
<1>4. ASSUME NEW s \in LoopsOf(b)
      PROVE  Around(b, {}, s, e + 1) <=> Around(b, {}, s, k)
  <2>1. Around(b, {}, s, k) => argsOf(b, k) < argsOf(b, s)
    BY DEF Closed, Nesting, Laminar
  <2>2. Around(b, {}, k, s) => argsOf(b, s) < argsOf(b, k)
    BY DEF Closed, Nesting, Laminar
  <2>3. s # e
    BY <1>1, <1>2
  <2>4. ASSUME Around(b, {}, s, k) PROVE Around(b, {}, s, e + 1)
    BY <1>1, <1>2, <2>1, <2>4 DEF Around
  <2>5. ASSUME Around(b, {}, s, e + 1) PROVE Around(b, {}, s, k)
    <3>1. s < e /\ e < argsOf(b, s)
      BY <1>1, <1>2, <2>3, <2>5 DEF Around
    <3>2. ~(k < s)
      BY <1>1, <1>2, <2>2, <3>1 DEF Around
    <3>3. s # k
      BY <1>1, <3>1
    <3> QED  BY <1>1, <1>2, <3>1, <3>2, <3>3 DEF Around
  <2> QED  BY <2>4, <2>5
<1> QED  BY <1>3, <1>4 DEF In, Around

LEMMA AroundEnd ==
  ASSUME NEW b, Closed(b), NEW k \in PositionsOf(b), opOf(b, k) = "EndLoop"
  PROVE  LET t == argsOf(b, k) - 1
         IN  /\ t \in In(b, k) /\ \A s \in In(b, k) : s <= t
             /\ In(b, argsOf(b, k)) = In(b, k)
             /\ In(b, k + 1) = In(b, k) \ {t}
<1> DEFINE t == argsOf(b, k) - 1
<1>1. k \in Nat /\ argsOf(b, k) \in Nat /\ k < Len(b) /\ Len(b) \in Nat
  BY ArgsAreNat, LenProperties DEF Closed, PositionsOf
<1>2. EndPaired(b, k)
  BY DEF Closed, AllResolvedBut
<1>3. t \in LoopsOf(b) /\ argsOf(b, t) = k /\ t < k /\ t \in Nat /\ t + 1 = argsOf(b, k)
  BY <1>1, <1>2 DEF EndPaired, LoopsOf, PositionsOf
<1>4. In(b, t + 1) = In(b, t) \cup {t} /\ In(b, k + 1) = In(b, t) /\ \A s \in In(b, t) : s < t
  BY <1>3, AroundStart
<1> HIDE DEF t
<1>5. ASSUME NEW s \in LoopsOf(b)
      PROVE  Around(b, {}, s, k) <=> Around(b, {}, s, t) \/ s = t
  <2>1. s \in Nat /\ argsOf(b, s) \in Nat /\ s < argsOf(b, s)
    BY LoopsAreClosed
  <2>2. Around(b, {}, s, t) => k < argsOf(b, s)
    BY <1>3 DEF Closed, Nesting, Laminar
  <2>3. Around(b, {}, t, s) => argsOf(b, s) < k
    BY <1>3 DEF Closed, Nesting, Laminar
  <2>4. ASSUME Around(b, {}, s, k) PROVE Around(b, {}, s, t) \/ s = t
    <3>1. s < k /\ k <= argsOf(b, s)
      BY <2>4 DEF Around
    <3>2. ~(t < s)
      BY <1>1, <1>3, <2>1, <2>3, <3>1 DEF Around
    <3> QED  BY <1>1, <1>3, <2>1, <3>1, <3>2 DEF Around
  <2>5. ASSUME Around(b, {}, s, t) PROVE Around(b, {}, s, k)
    BY <1>1, <1>3, <2>1, <2>2, <2>5 DEF Around
  <2>6. s = t => Around(b, {}, s, k)
    BY <1>1, <1>3 DEF Around
  <2> QED  BY <2>4, <2>5, <2>6
<1>6. In(b, k) = In(b, t) \cup {t}
  BY <1>3, <1>5 DEF In
<1>7. t \in In(b, k) /\ \A s \in In(b, k) : s <= t
  <2>1. \A s \in In(b, t) : s \in Nat
    BY LoopsAreClosed DEF In
  <2> QED  BY <1>3, <1>4, <1>6, <2>1
<1>8. In(b, k + 1) = In(b, k) \ {t}
  BY <1>3, <1>4, <1>6
<1> QED  BY <1>3, <1>4, <1>6, <1>7, <1>8 DEF t

-----------------------------------------------------------------------------
(* The levels of a template whose statements nest *)

Starts(l) == {l[j].start : j \in DOMAIN l}
Outward(l) == \A j, k \in DOMAIN l : j < k => l[j].start < l[k].start

LevelsAround == Starts(levels) = In(bytecodes, i) /\ Outward(levels)

NestedInv ==
  nested => /\ Nests(bytecodes, m_if_stack, m_loop_stack, open)
            /\ run # "ready" => LevelsAround

LEMMA EmptyNests == Nests(<<>>, <<>>, <<>>, <<>>)
<1> DEFINE W == WaitsFor(<<>>, <<>>)
<1>1. DOMAIN W["if"] = {} /\ DOMAIN W["for"] = {}
  BY DEF WaitsFor, Kinds
<1> HIDE DEF W
<1>2. IsOrder(<<>>, W, <<>>)
  BY <1>1 DEF IsOrder, Kinds
<1>3. PositionsOf(<<>>) = {}
  BY DEF PositionsOf
<1>4. Nesting(<<>>, Held(<<>>), Pending(<<>>, <<>>, <<>>))
  BY <1>3 DEF Nesting, Laminar, JumpsStay, PendingOutside, LoopsOf, Pending
<1> QED  BY <1>2, <1>4 DEF Nests, Interleaved, W

LEMMA NestedInvInit == InitAll => NestedInv
<1> SUFFICES ASSUME InitAll PROVE NestedInv
  OBVIOUS
<1>1. /\ bytecodes = <<>> /\ m_if_stack = <<>> /\ m_loop_stack = <<>> /\ open = <<>>
      /\ run = "ready" /\ PositionsOf(bytecodes) = {}
  BY DEF InitAll, Init, PositionsOf
<1> QED  BY <1>1, EmptyNests DEF NestedInv

LEMMA ParseKeepsNestedInv ==
  ASSUME RunInv, NestedInv, Parse
  PROVE  NestedInv'
<1> SUFFICES ASSUME nested'
             PROVE  Nests(bytecodes', m_if_stack', m_loop_stack', open')
  <2>1. run' = "ready"
    BY ParseFacts DEF RunInv, renderer
  <2> QED  BY <2>1 DEF NestedInv
<1>1. /\ IInv /\ Landings(bytecodes) /\ open \in Seq(Kinds)
      /\ nested => Nests(bytecodes, m_if_stack, m_loop_stack, open)
  BY RunFacts DEF RunInv, NestedInv
<1>2. CASE (Text \/ Expression \/ \E left \in Leftovers : LineFails(left)) /\ UNCHANGED template
  <2>1. nested /\ open' = open /\ m_if_stack' = m_if_stack /\ m_loop_stack' = m_loop_stack
    BY <1>2 DEF template, Text, Expression, LineFails, stacks
  <2>2. Nests(bytecodes', m_if_stack, m_loop_stack, open)
    BY <1>1, <1>2, <2>1, PlainKeepsNests
  <2> QED  BY <2>1, <2>2
<1>3. CASE (Eof \/ Reject \/ ElseTraps) /\ UNCHANGED template
  <2>1. /\ nested /\ open' = open /\ m_if_stack' = m_if_stack /\ m_loop_stack' = m_loop_stack
        /\ bytecodes' = bytecodes
    BY <1>3 DEF template, Eof, Reject, ElseTraps, stacks
  <2> QED  BY <1>1, <2>1
<1>4. CASE If /\ Opens("if")
  <2>1. nested /\ open' = Append(open, "if") /\ m_loop_stack' = m_loop_stack
    BY <1>4 DEF Opens, If
  <2>2. Nests(bytecodes', m_if_stack', m_loop_stack, Append(open, "if"))
    BY <1>1, <1>4, <2>1, IfKeepsNests
  <2> QED  BY <2>1, <2>2
<1>5. CASE Elses /\ Continues("if")
  <2>1. nested /\ open # <<>> /\ back(open) = "if" /\ open' = open
    BY <1>5 DEF Continues, InLast
  <2>2. m_loop_stack' = m_loop_stack
    BY <1>5 DEF Elses, Else, ElseIf, LineElseIfFails
  <2>3. Nests(bytecodes', m_if_stack', m_loop_stack, open)
    BY <1>1, <1>5, <2>1, ElseKeepsNests
  <2> QED  BY <2>1, <2>2, <2>3
<1>6. CASE Endif /\ Closes("if")
  <2>1. /\ nested /\ open # <<>> /\ back(open) = "if" /\ open' = popped(open)
        /\ m_loop_stack' = m_loop_stack
    BY <1>6 DEF Closes, InLast, Endif
  <2>2. Nests(bytecodes', m_if_stack', m_loop_stack, popped(open))
    BY <1>1, <1>6, <2>1, EndifKeepsNests
  <2> QED  BY <2>1, <2>2
<1>7. CASE For /\ Opens("for")
  <2>1. nested /\ open' = Append(open, "for") /\ m_if_stack' = m_if_stack
    BY <1>7 DEF Opens, For
  <2>2. Nests(bytecodes', m_if_stack, m_loop_stack', Append(open, "for"))
    BY <1>1, <1>7, <2>1, ForKeepsNests
  <2> QED  BY <2>1, <2>2
<1>8. CASE Endfor /\ Closes("for")
  <2>1. /\ nested /\ open # <<>> /\ back(open) = "for" /\ open' = popped(open)
        /\ m_if_stack' = m_if_stack
    BY <1>8 DEF Closes, InLast, Endfor
  <2>2. Nests(bytecodes', m_if_stack, m_loop_stack', popped(open))
    BY <1>1, <1>8, <2>1, EndforKeepsNests
  <2> QED  BY <2>1, <2>2
<1> QED  BY <1>2, <1>3, <1>4, <1>5, <1>6, <1>7, <1>8 DEF Parse, Elses

LEMMA ParseNextKeepsNestedInv ==
  ASSUME RunInv, NestedInv, ParseNext
  PROVE  NestedInv'
<1>1. /\ bytecodes' = <<>> /\ m_if_stack' = <<>> /\ m_loop_stack' = <<>> /\ open' = <<>>
      /\ run' = "ready"
  BY DEF ParseNext, NextTemplate, stacks, renderer, RunInv, IInv, AcceptedIsClosed
<1> QED  BY <1>1, EmptyNests DEF NestedInv

(* An accepted program is closed, and nests if its statements did. *)
LEMMA AcceptedNests ==
  ASSUME RunInv, NestedInv, nested, status = "accepted"
  PROVE  Closed(bytecodes)
<1>1. /\ bytecodes \in Seq(Bytecode) /\ AllResolvedBut(bytecodes, {})
      /\ m_if_stack = <<>> /\ m_loop_stack = <<>>
  BY DEF RunInv, IInv, TypeOK, AcceptedIsClosed
<1>2. Held(<<>>) = {} /\ Pending(bytecodes, <<>>, <<>>) = {}
  BY DEF Held, Pending
<1>3. Nesting(bytecodes, {}, {})
  BY <1>1, <1>2 DEF NestedInv, Nests
<1> QED  BY <1>1, <1>3 DEF Closed

LEMMA StartKeepsNestedInv ==
  ASSUME RunInv, NestedInv, Start
  PROVE  NestedInv'
<1>1. /\ bytecodes' = bytecodes /\ m_if_stack' = m_if_stack /\ m_loop_stack' = m_loop_stack
      /\ open' = open /\ nested' = nested /\ i' = 0 /\ levels' = <<>> /\ status = "accepted"
  BY DEF Start, RunInv, vars, template
<1> SUFFICES ASSUME nested PROVE LevelsAround'
  BY <1>1 DEF NestedInv
<1>2. Closed(bytecodes)
  BY <1>1, AcceptedNests
<1>3. In(bytecodes, 0) = {}
  <2>1. \A s \in LoopsOf(bytecodes) : s \in Nat
    BY <1>2, LoopsAreClosed
  <2> QED  BY <2>1 DEF In, Around
<1>4. Starts(<<>>) = {} /\ Outward(<<>>)
  BY DEF Starts, Outward
<1> QED  BY <1>1, <1>3, <1>4 DEF LevelsAround

(* A step that leaves the levels, and the loops around. *)
LEMMA SameLevels ==
  ASSUME NestedInv, Unparsed, run # "ready", levels' = levels,
         nested => In(bytecodes, i') = In(bytecodes, i)
  PROVE  NestedInv'
<1>1. /\ bytecodes' = bytecodes /\ m_if_stack' = m_if_stack /\ m_loop_stack' = m_loop_stack
      /\ open' = open /\ nested' = nested
  BY DEF Unparsed, vars, template
<1> QED  BY <1>1 DEF NestedInv, LevelsAround

LEMMA StepKeepsNestedInv ==
  ASSUME RunInv, NestedInv, Step
  PROVE  NestedInv'
<1> DEFINE b == bytecodes
           L == Len(levels)
<1>1. levels \in Seq(LoopLevel) /\ L \in Nat /\ DOMAIN levels = 1..L /\ i \in Nat
  BY RunFacts, LenProperties
<1>2. ASSUME NEW o, At(o) PROVE run = "running" /\ i \in PositionsOf(b) /\ opOf(b, i) = o
  BY <1>2 DEF At, Positions, op
<1>3. nested /\ run # "ready" => Closed(b) /\ LevelsAround
  BY AcceptedNests DEF NestedInv, RunInv
<1>4. Unparsed
  BY DEF Step, PrintText, PrintValue, Push, Callback, PrintPopped, Jump, ConditionalJump,
         PopsNothing, StartLoopEmpty, StartLoop, EndLoopAgain, EndLoopDone, EndLoopThrows,
         Throws, Finish
<1>5. /\ bytecodes' = b /\ m_if_stack' = m_if_stack /\ m_loop_stack' = m_loop_stack
      /\ open' = open /\ nested' = nested
  BY <1>4 DEF Unparsed, vars, template
<1>6. nested => Nests(bytecodes', m_if_stack', m_loop_stack', open')
  BY <1>5 DEF NestedInv
<1> HIDE DEF b, L
<1>7. CASE PrintText \/ PrintValue \/ PrintPopped \/ Push
  <2>1. /\ \E o \in {"PrintText", "PrintValue", "PrintPopped", "Push", "Literal"} : At(o)
        /\ i' = i + 1 /\ levels' = levels
    BY <1>7 DEF PrintText, PrintValue, PrintPopped, Pops, Push
  <2>2. /\ run = "running" /\ i \in PositionsOf(b)
        /\ opOf(b, i) \notin {"StartLoop", "EndLoop"}
    BY <1>2, <2>1
  <2>3. nested => In(b, i') = In(b, i)
    BY <1>3, <2>1, <2>2, AroundNext
  <2> QED  BY <1>4, <2>1, <2>2, <2>3, SameLevels DEF b
<1>8. CASE Jump \/ ConditionalJump
  <2>1. /\ \E o \in JumpOps : At(o)
        /\ i' = i + 1 \/ i' = argsOf(b, i)
        /\ levels' = levels
    BY <1>8 DEF Jump, ConditionalJump, Pops, JumpOps, args, b
  <2>2. /\ run = "running" /\ i \in PositionsOf(b) /\ opOf(b, i) \in JumpOps
        /\ opOf(b, i) \notin {"StartLoop", "EndLoop"}
    BY <1>2, <2>1 DEF JumpOps
  <2>3. nested => In(b, i') = In(b, i)
    BY <1>3, <2>1, <2>2, AroundNext, AroundJump
  <2> QED  BY <1>4, <2>1, <2>2, <2>3, SameLevels DEF b
<1>9. CASE StartLoopEmpty
  <2>1. At("StartLoop") /\ i' = argsOf(b, i) + 1 /\ levels' = levels
    BY <1>9 DEF StartLoopEmpty, Pops, args, b
  <2>2. run = "running" /\ i \in LoopsOf(b)
    BY <1>2, <2>1 DEF LoopsOf
  <2>3. nested => In(b, i') = In(b, i)
    BY <1>3, <2>1, <2>2, AroundStart
  <2> QED  BY <1>4, <2>1, <2>2, <2>3, SameLevels DEF b
<1>10. CASE StartLoop
  <2>1. PICK n \in 1..MaxElements :
          levels' = Append(levels, [start |-> i, index |-> 0, size |-> n])
    BY <1>10 DEF StartLoop
  <2> DEFINE level == [start |-> i, index |-> 0, size |-> n]
  <2>2. At("StartLoop") /\ i' = i + 1
    BY <1>10 DEF StartLoop, Pops
  <2>3. run = "running" /\ i \in LoopsOf(b)
    BY <1>2, <2>2 DEF LoopsOf
  <2>4. level \in LoopLevel /\ level.start = i
    BY <1>1 DEF LoopLevel
  <2> HIDE DEF level
  <2>5. /\ DOMAIN levels' = DOMAIN levels \cup {L + 1} /\ levels'[L + 1] = level
        /\ \A j \in DOMAIN levels : levels'[j] = levels[j]
    BY <1>1, <2>1, <2>4, PushedStack DEF level, L
  <2> SUFFICES ASSUME nested PROVE LevelsAround'
    BY <1>5, <1>6 DEF NestedInv
  <2>6. /\ Starts(levels) = In(b, i) /\ Outward(levels)
        /\ In(b, i') = In(b, i) \cup {i} /\ \A s \in In(b, i) : s < i
    BY <1>3, <2>2, <2>3, AroundStart DEF LevelsAround, b
  <2>7. Starts(levels') = Starts(levels) \cup {i}
    BY <2>4, <2>5 DEF Starts
  <2>8. Outward(levels')
    <3> SUFFICES ASSUME NEW j \in DOMAIN levels', NEW k \in DOMAIN levels', j < k
                 PROVE  levels'[j].start < levels'[k].start
      BY DEF Outward
    <3>1. j \in DOMAIN levels
      BY <1>1, <2>5
    <3>2. CASE k \in DOMAIN levels
      BY <2>5, <2>6, <3>1, <3>2 DEF Outward
    <3>3. CASE k = L + 1
      <4>1. levels[j].start \in In(b, i)
        BY <2>6, <3>1 DEF Starts
      <4> QED  BY <2>4, <2>5, <2>6, <3>1, <3>3, <4>1
    <3> QED  BY <2>5, <3>2, <3>3
  <2> QED  BY <1>5, <2>6, <2>7, <2>8 DEF LevelsAround
<1>11. CASE EndLoopAgain
  <2>1. /\ At("EndLoop") /\ i' = argsOf(b, i) /\ levels' = withBack(levels, Advanced)
        /\ levels # <<>>
    BY <1>11 DEF EndLoopAgain, args, b
  <2>2. Advanced \in LoopLevel /\ Advanced.start = levels[L].start
    BY <2>1, RunFacts, AdvancedLevel DEF back, L
  <2>3. /\ DOMAIN levels' = 1..L /\ levels'[L] = Advanced
        /\ \A j \in 1..(L - 1) : levels'[j] = levels[j]
    <3>1. /\ DOMAIN withBack(levels, Advanced) = 1..Len(levels)
          /\ \A j \in 1..(Len(levels) - 1) : withBack(levels, Advanced)[j] = levels[j]
          /\ withBack(levels, Advanced)[Len(levels)] = Advanced
      <4>1. levels \in Seq(LoopLevel) /\ levels # <<>> /\ Advanced \in LoopLevel
        BY <1>1, <2>1, <2>2
      <4> QED  BY <4>1, ReplacedBack
    <3> QED  BY <2>1, <3>1 DEF L
  <2>4. DOMAIN levels' = DOMAIN levels /\ \A j \in DOMAIN levels : levels'[j].start = levels[j].start
    <3>1. \A j \in 1..L : j # L => j \in 1..(L - 1)
      BY <1>1, BelowLast
    <3> QED  BY <1>1, <2>2, <2>3, <3>1
  <2> SUFFICES ASSUME nested PROVE LevelsAround'
    BY <1>5, <1>6 DEF NestedInv
  <2>5. In(b, i') = In(b, i) /\ Starts(levels) = In(b, i) /\ Outward(levels)
    BY <1>2, <1>3, <2>1, AroundEnd DEF LevelsAround, b
  <2>6. Starts(levels') = Starts(levels)
    BY <2>4 DEF Starts
  <2>7. Outward(levels')
    BY <2>4, <2>5 DEF Outward
  <2> QED  BY <1>5, <2>5, <2>6, <2>7 DEF LevelsAround
<1>12. CASE EndLoopDone
  <2>1. At("EndLoop") /\ i' = i + 1 /\ levels' = popped(levels) /\ levels # <<>>
    BY <1>12 DEF EndLoopDone
  <2>2. L # 0 /\ L \in DOMAIN levels
    BY <1>1, <2>1, EmptySeq DEF L
  <2>3. DOMAIN levels' = 1..(L - 1) /\ \A j \in 1..(L - 1) : levels'[j] = levels[j]
    BY <1>1, <2>1, PoppedStack, LenProperties DEF L
  <2>4. \A j \in 1..(L - 1) : j \in DOMAIN levels /\ j < L
    BY <1>1
  <2>5. \A j \in DOMAIN levels : j # L => j \in 1..(L - 1)
    BY <1>1, BelowLast
  <2> SUFFICES ASSUME nested PROVE LevelsAround'
    BY <1>5, <1>6 DEF NestedInv
  <2> DEFINE t == argsOf(b, i) - 1
  <2>6. /\ t \in In(b, i) /\ \A s \in In(b, i) : s <= t
        /\ In(b, i') = In(b, i) \ {t}
        /\ Starts(levels) = In(b, i) /\ Outward(levels) /\ Closed(b)
    BY <1>2, <1>3, <2>1, AroundEnd DEF LevelsAround, b
  <2> HIDE DEF t
  <2>7. \A j \in DOMAIN levels : levels[j].start \in Nat
    <3>1. levels \in Seq(LoopLevel)
      BY <1>1
    <3>2. \A j \in 1..Len(levels) : levels[j] \in LoopLevel
      BY <3>1, ElementOfSeq
    <3>3. DOMAIN levels = 1..Len(levels)
      BY <3>1, LenProperties
    <3> QED  BY <3>2, <3>3 DEF LoopLevel
  <2>8. \A j \in DOMAIN levels : j # L => levels[j].start < levels[L].start
    BY <2>2, <2>4, <2>5, <2>6 DEF Outward
  <2>9. levels[L].start = t
    <3>1. PICK j \in DOMAIN levels : levels[j].start = t
      BY <2>6 DEF Starts
    <3>2. levels[L].start <= t
      BY <2>2, <2>6 DEF Starts
    <3>3. j = L
      BY <2>2, <2>7, <2>8, <3>1, <3>2
    <3> QED  BY <3>1, <3>3
  <2>10. Starts(levels') = Starts(levels) \ {t}
    <3>1. \A j \in DOMAIN levels : j # L => levels[j].start # t
      BY <2>2, <2>7, <2>8, <2>9
    <3> QED  BY <2>3, <2>4, <2>5, <2>9, <3>1 DEF Starts
  <2>11. Outward(levels')
    BY <2>3, <2>4, <2>6 DEF Outward
  <2> QED  BY <1>5, <2>6, <2>10, <2>11 DEF LevelsAround
<1>13. CASE EndLoopThrows \/ Throws \/ Callback \/ PopsNothing \/ Finish
  <2>1. run = "running" /\ i' = i /\ levels' = levels
    BY <1>2, <1>13 DEF EndLoopThrows, Throws, Callback, PopsNothing, Finish
  <2> QED  BY <1>4, <2>1, SameLevels
<1> QED  BY <1>7, <1>8, <1>9, <1>10, <1>11, <1>12, <1>13 DEF Step

LEMMA NextKeepsNestedInv == RunInv /\ NestedInv /\ [NextAll]_allvars => NestedInv'
<1>1. ASSUME NestedInv, UNCHANGED allvars PROVE NestedInv'
  BY <1>1 DEF NestedInv, LevelsAround, allvars, vars, template, renderer
<1> QED
  BY <1>1, ParseKeepsNestedInv, ParseNextKeepsNestedInv, StartKeepsNestedInv,
     StepKeepsNestedInv DEF NextAll

(* Renderer on a template whose statements nest: its invariant, for         *)
(* templates of any length, and loops over any number of elements.          *)
THEOREM NestedInductiveInvariant == SpecAll => [](RunInv /\ NestedInv)
<1>1. InitAll => RunInv /\ NestedInv
  BY RunInvInit, NestedInvInit
<1>2. RunInv /\ NestedInv /\ [NextAll]_allvars => (RunInv /\ NestedInv)'
  BY NextKeepsRunInv, NextKeepsNestedInv
<1> QED  BY <1>1, <1>2, PTL DEF SpecAll

LEMMA InIsInBody == {s \in Loops : InBody(s, i)} = In(bytecodes, i)
BY DEF Loops, InBody, In, LoopsOf, Around, Positions, op, args

(* inja.hpp:3393-3479: in a template whose statements nest the levels that  *)
(* run are those of the loops around the next bytecode, from the outermost  *)
(* in, and none is left at the end.                                         *)
THEOREM LevelsFollowTheLoops == SpecAll => []LevelsAreTheLoopsAround
<1>1. RunInv /\ NestedInv => LevelsAreTheLoopsAround
  BY InIsInBody DEF RunInv, NestedInv, LevelsAround, Starts, Outward, LevelsAreTheLoopsAround
<1> QED  BY <1>1, NestedInductiveInvariant, PTL

(* inja.hpp:3080, 3401-3405: rendering a template whose statements nest     *)
(* reads data that were moved only in a place with more loops around it     *)
(* than levels were reserved for, however many were.                        *)
THEOREM DataMovesBeyondReserve == SpecAll => []DataIsLiveWithinReserve
<1>1. RunInv /\ NestedInv => DataIsLiveWithinReserve
  <2> SUFFICES ASSUME RunInv, NestedInv, nested, run = "undefined"
               PROVE  Cardinality(In(bytecodes, i)) > Reserved
    BY InIsInBody DEF DataIsLiveWithinReserve
  <2> DEFINE L == Len(levels)
             f == [j \in 1..L |-> levels[j].start]
  <2>1. /\ levels \in Seq(LoopLevel) /\ L \in Nat /\ DOMAIN levels = 1..L
        /\ Reserved < L /\ Reserved \in Nat
    BY RunFacts, LenProperties
  <2>2. Starts(levels) = In(bytecodes, i) /\ Outward(levels)
    BY DEF NestedInv, LevelsAround
  <2>3. \A j \in 1..L : levels[j].start \in Nat
    <3>1. \A j \in 1..L : levels[j] \in LoopLevel
      BY <2>1, ElementOfSeq
    <3> QED  BY <3>1 DEF LoopLevel
  <2>4. \A j, k \in 1..L : levels[j].start = levels[k].start => j = k
    <3> SUFFICES ASSUME NEW j \in 1..L, NEW k \in 1..L, levels[j].start = levels[k].start
                 PROVE  j = k
      OBVIOUS
    <3>1. ~(j < k) /\ ~(k < j)
      BY <2>1, <2>2, <2>3 DEF Outward
    <3> QED  BY <3>1
  <2>5. f \in Bijection(1..L, In(bytecodes, i))
    <3>1. f \in [1..L -> In(bytecodes, i)] /\ \A s \in In(bytecodes, i) : \E j \in 1..L : f[j] = s
      BY <2>1, <2>2 DEF Starts
    <3>2. \A j, k \in 1..L : f[j] = f[k] => j = k
      BY <2>4
    <3> HIDE DEF f
    <3>3. f \in Injection(1..L, In(bytecodes, i))
      BY <3>1, <3>2, Fun_IsInj
    <3>4. f \in Surjection(1..L, In(bytecodes, i))
      BY <3>1, Fun_IsSurj
    <3> QED  BY <3>3, <3>4 DEF Bijection
  <2>6. IsFiniteSet(1..L) /\ Cardinality(1..L) = L
    <3>1. L \in Int /\ 1 \in Int
      BY ONLY <2>1
    <3>2. IsFiniteSet(1..L) /\ Cardinality(1..L) = IF 1 > L THEN 0 ELSE L - 1 + 1
      BY ONLY <3>1, FS_Interval, Zenon
    <3> QED  BY ONLY <2>1, <3>2
  <2>7. Cardinality(In(bytecodes, i)) = L
    <3>1. ExistsBijection(1..L, In(bytecodes, i))
      <4> HIDE DEF f
      <4> QED  BY <2>5 DEF ExistsBijection
    <3> QED  BY <2>6, <3>1, FS_Bijection
  <2> QED  BY <2>1, <2>7
<1> QED  BY <1>1, NestedInductiveInvariant, PTL
=============================================================================
