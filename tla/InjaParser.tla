----------------------------- MODULE InjaParser -----------------------------
(***************************************************************************)
(* The template compiler of inja.hpp (class Parser, lines 2352-2844), at   *)
(* the grain of one block of a template: a text, an expression, or a       *)
(* statement.  The template is any sequence of blocks.  The module is      *)
(* about the control flow the compiler lays out: which bytecodes jump      *)
(* where, and what the stacks of open statements have to do with it.       *)
(*                                                                         *)
(* The bytecodes of one expression are abstracted to the one that leaves   *)
(* its value (Push), or prints it (PrintValue).  There is one exception.   *)
(* A line statement whose expression ends too early leaves bytecodes       *)
(* behind, and when the last of them pushes a literal (Literal), an        *)
(* expression that begins with a call without arguments takes it over:     *)
(* append_callback turns it into its Callback and appends nothing.  The    *)
(* value is then printed by a bytecode of its own (PrintPopped).           *)
(* Positions are those of the code, from 0.  One Parser compiles all the   *)
(* templates of a transformer in turn (transformation.cc:144-156), and its *)
(* stacks are never cleared.                                               *)
(***************************************************************************)
EXTENDS Integers, Sequences

CONSTANTS
  Max,           \* numeric_limits<unsigned int>::max(): no conditional jump
  MaxBytecodes   \* bound on the length of a program

ASSUME BoundsAssumption == Max \in Nat /\ MaxBytecodes \in Nat /\ MaxBytecodes < Max

VARIABLES
  bytecodes,     \* the program so far
  m_if_stack,    \* open if statements: [prev_cond_jump, uncond_jumps]
  m_loop_stack,  \* positions of the StartLoops of open for statements
  status         \* "parsing", "accepted", "rejected" or "undefined"

vars == <<bytecodes, m_if_stack, m_loop_stack, status>>
stacks == <<m_if_stack, m_loop_stack>>

Ops == {"PrintText", "PrintValue", "PrintPopped", "Push", "Literal", "Callback",
        "ConditionalJump", "Jump", "StartLoop", "EndLoop"}
Bytecode == [op : Ops, args : Nat]
IfData == [prev_cond_jump : Nat, uncond_jumps : SUBSET Nat]

(* a new bytecode; its args are 0 until they are filled in *)
Code(op) == [op |-> op, args |-> 0]
size == Len(bytecodes)

(* what an expression that ends too early may leave: nothing, a value, or a *)
(* literal; two such statements leave what a longer one would               *)
Leftovers == {<<>>, <<Code("Push")>>, <<Code("Literal")>>}

(* append_callback, without arguments: "we can merge with back-to-back push *)
(* value (not lookup)".  Only a literal that was left behind can be last    *)
(* where an expression begins.                                              *)
TakenOver ==
  IF bytecodes # <<>> /\ bytecodes[size].op = "Literal"
  THEN {[bytecodes EXCEPT ![size].op = "Callback"]}
  ELSE {}

(* the programs parse_expression may leave, the value of the expression     *)
(* computed last                                                            *)
Evaluated == {Append(bytecodes, Code("Push"))} \cup TakenOver

(* the jumps of an open if that have no destination yet *)
Jumps(entry) == entry.uncond_jumps \cup ({entry.prev_cond_jump} \ {Max})

(* bytecodes with the destination `to` filled in at the positions S *)
Filled(S, to) ==
  [j \in DOMAIN bytecodes |->
     IF j - 1 \in S THEN [bytecodes[j] EXCEPT !.args = to] ELSE bytecodes[j]]

back(stack) == stack[Len(stack)]
popped(stack) == SubSeq(stack, 1, Len(stack) - 1)
withBack(stack, x) == [stack EXCEPT ![Len(stack)] = x]

Init ==
  /\ bytecodes = <<>>
  /\ m_if_stack = <<>>
  /\ m_loop_stack = <<>>
  /\ status = "parsing"

Parsing(n) == status = "parsing" /\ size + n <= MaxBytecodes

-----------------------------------------------------------------------------
(* Faulty variants, to show that the properties can fail. *)

(* a for that was not closed is accepted *)
Eof_IgnoresLoops ==
  /\ status = "parsing"
  /\ m_if_stack = <<>>
  /\ status' = "accepted"
  /\ UNCHANGED <<bytecodes, stacks>>

(* endif fills in the conditional jump, but not the jumps of the elses *)
Endif_Forgets ==
  /\ Parsing(0)
  /\ m_if_stack # <<>>
  /\ bytecodes' = Filled({back(m_if_stack).prev_cond_jump}, size)
  /\ m_if_stack' = popped(m_if_stack)
  /\ UNCHANGED <<m_loop_stack, status>>

(* the position of the conditional jump is taken after it is appended *)
If_Late ==
  /\ Parsing(2)
  /\ \E b \in Evaluated :
       /\ bytecodes' = Append(b, Code("ConditionalJump"))
       /\ m_if_stack' = Append(m_if_stack, [prev_cond_jump |-> Len(b) + 1, uncond_jumps |-> {}])
  /\ UNCHANGED <<m_loop_stack, status>>

(* the position before the one where the expression begins *)
If_Early ==
  /\ Parsing(2)
  /\ \E b \in Evaluated :
       /\ bytecodes' = Append(b, Code("ConditionalJump"))
       /\ m_if_stack' = Append(m_if_stack, [prev_cond_jump |-> Len(b) - 2, uncond_jumps |-> {}])
  /\ UNCHANGED <<m_loop_stack, status>>

-----------------------------------------------------------------------------
(* Blocks *)

Text ==
  /\ Parsing(1)
  /\ bytecodes' = Append(bytecodes, Code("PrintText"))
  /\ UNCHANGED <<stacks, status>>

Expression ==
  /\ Parsing(1)
  /\ \/ bytecodes' = Append(bytecodes, Code("PrintValue"))
     \/ \E b \in TakenOver : bytecodes' = Append(b, Code("PrintPopped"))
  /\ UNCHANGED <<stacks, status>>

If ==
  /\ Parsing(2)
  /\ \E b \in Evaluated :
       /\ bytecodes' = Append(b, Code("ConditionalJump"))
       /\ m_if_stack' = Append(m_if_stack, [prev_cond_jump |-> Len(b), uncond_jumps |-> {}])
  /\ UNCHANGED <<m_loop_stack, status>>

Endif ==
  /\ Parsing(0)
  /\ m_if_stack # <<>>
  /\ bytecodes' = Filled(Jumps(back(m_if_stack)), size)
  /\ m_if_stack' = popped(m_if_stack)
  /\ UNCHANGED <<m_loop_stack, status>>

(* Every else appends a jump to the endif and sends the previous            *)
(* conditional jump behind it, without asking whether there is one: after   *)
(* an else, bytecodes[Max] is written.  The write hits other memory, and    *)
(* the parser goes on; or it traps.                                         *)
NoConditionalJump == back(m_if_stack).prev_cond_jump = Max

WithElse(next_cond_jump) ==
  m_if_stack' = withBack(m_if_stack,
    [prev_cond_jump |-> next_cond_jump,
     uncond_jumps   |-> back(m_if_stack).uncond_jumps \cup {size}])

(* prev_cond_jump is Max after a first else: then Filled has no effect *)
AfterElse == Append(Filled({back(m_if_stack).prev_cond_jump}, size + 1), Code("Jump"))

Else ==
  /\ Parsing(1)
  /\ m_if_stack # <<>>
  /\ bytecodes' = AfterElse
  /\ WithElse(Max)
  /\ UNCHANGED <<m_loop_stack, status>>

(* the condition is behind the jump just appended: nothing to take over *)
ElseIf ==
  /\ Parsing(3)
  /\ m_if_stack # <<>>
  /\ bytecodes' = AfterElse \o <<Code("Push"), Code("ConditionalJump")>>
  /\ WithElse(size + 2)
  /\ UNCHANGED <<m_loop_stack, status>>

ElseTraps ==
  /\ Parsing(1)
  /\ m_if_stack # <<>>
  /\ NoConditionalJump
  /\ status' = "undefined"
  /\ UNCHANGED <<bytecodes, stacks>>

For ==
  /\ Parsing(2)
  /\ \E b \in Evaluated :
       /\ bytecodes' = Append(b, Code("StartLoop"))
       /\ m_loop_stack' = Append(m_loop_stack, Len(b))
  /\ UNCHANGED <<m_if_stack, status>>

(* endfor looks at m_loop_stack only: it closes the last for, also when an  *)
(* if was opened since                                                      *)
Endfor ==
  /\ Parsing(1)
  /\ m_loop_stack # <<>>
  /\ bytecodes' = Append(Filled({back(m_loop_stack)}, size),
                         [op |-> "EndLoop", args |-> back(m_loop_stack) + 1])
  /\ m_loop_stack' = popped(m_loop_stack)
  /\ UNCHANGED <<m_if_stack, status>>

(* A line statement whose expression ends too early: parse_statement        *)
(* returns false, parse_into does not look at it, and what was appended     *)
(* stays.  An if or a for then opens nothing, an else if is an else.        *)
LineFails(left) ==
  /\ Parsing(Len(left))
  /\ \E b \in {bytecodes} \cup TakenOver : bytecodes' = b \o left
  /\ UNCHANGED <<stacks, status>>

LineElseIfFails(left) ==
  /\ Parsing(Len(left) + 1)
  /\ m_if_stack # <<>>
  /\ bytecodes' = AfterElse \o left
  /\ WithElse(Max)
  /\ UNCHANGED <<m_loop_stack, status>>

(* any inja_throw of the parser or the lexer; include always ends here, for *)
(* opening a file does                                                      *)
Reject ==
  /\ status = "parsing"
  /\ status' = "rejected"
  /\ UNCHANGED <<bytecodes, stacks>>

Eof ==
  /\ status = "parsing"
  /\ m_if_stack = <<>>
  /\ m_loop_stack = <<>>
  /\ status' = "accepted"
  /\ UNCHANGED <<bytecodes, stacks>>

(* parse() for the next header: a new Template, the same Parser *)
NextTemplate ==
  /\ status = "accepted"
  /\ status' = "parsing"
  /\ bytecodes' = <<>>
  /\ UNCHANGED stacks

Block ==
  \/ Text \/ Expression
  \/ If \/ Else \/ ElseIf \/ ElseTraps \/ Endif
  \/ For \/ Endfor
  \/ \E left \in Leftovers : LineFails(left) \/ LineElseIfFails(left)

Next == Block \/ Reject \/ Eof \/ NextTemplate

Spec == Init /\ [][Next]_vars

-----------------------------------------------------------------------------
(* Invariants *)

(* Every variable stays in its type. *)
TypeOK ==
  /\ bytecodes \in Seq(Bytecode)
  /\ size <= MaxBytecodes
  /\ m_if_stack \in Seq(IfData)
  /\ m_loop_stack \in Seq(Nat)
  /\ status \in {"parsing", "accepted", "rejected", "undefined"}

(* In a program b, by positions from 0: the bytecodes and their args. *)
opOf(b, k) == b[k + 1].op
argsOf(b, k) == b[k + 1].args
PositionsOf(b) == 0..(Len(b) - 1)

op(k) == opOf(bytecodes, k)
args(k) == argsOf(bytecodes, k)
Positions == PositionsOf(bytecodes)

(* the positions that wait for their destination *)
Pending(b, ifs, loops) ==
  {k \in PositionsOf(b) :
     \/ \E j \in DOMAIN ifs : k \in Jumps(ifs[j])
     \/ \E j \in DOMAIN loops : loops[j] = k}

(* What the stacks hold: positions of bytecodes of the right kind, none of  *)
(* them twice.                                                              *)
IfHoldsJumps(b, entry) ==
  /\ \A k \in entry.uncond_jumps : k \in PositionsOf(b) /\ opOf(b, k) = "Jump"
  /\ LET k == entry.prev_cond_jump
     IN  k = Max \/ (k \in PositionsOf(b) /\ opOf(b, k) = "ConditionalJump")
StacksHoldJumps(b, ifs, loops) ==
  /\ \A j \in DOMAIN ifs : IfHoldsJumps(b, ifs[j])
  /\ \A j \in DOMAIN loops :
       loops[j] \in PositionsOf(b) /\ opOf(b, loops[j]) = "StartLoop"
NoneTwice(ifs, loops) ==
  /\ \A j, l \in DOMAIN ifs : Jumps(ifs[j]) \cap Jumps(ifs[l]) # {} => j = l
  /\ \A j, l \in DOMAIN loops : loops[j] = loops[l] => j = l

(* a jump goes forward, at most to the end of the program *)
JumpResolved(b, k) == argsOf(b, k) \in (k + 1)..Len(b)
(* a StartLoop and its EndLoop point at each other *)
LoopResolved(b, k) ==
  LET e == argsOf(b, k)
  IN  e \in (k + 1)..(Len(b) - 1) /\ opOf(b, e) = "EndLoop" /\ argsOf(b, e) = k + 1
EndPaired(b, k) ==
  LET s == argsOf(b, k) - 1
  IN  s \in 0..(k - 1) /\ opOf(b, s) = "StartLoop" /\ argsOf(b, s) = k

AllResolvedBut(b, S) ==
  \A k \in PositionsOf(b) :
    /\ opOf(b, k) \in {"Jump", "ConditionalJump"} => k \in S \/ JumpResolved(b, k)
    /\ opOf(b, k) = "StartLoop" => k \in S \/ LoopResolved(b, k)
    /\ opOf(b, k) = "EndLoop" => EndPaired(b, k)

(* parse_statement, inja.hpp:2556-2691: at any time every jump and every    *)
(* StartLoop either has its destination, or is waited for by exactly one    *)
(* open statement.                                                          *)
JumpsAreAccountedFor ==
  /\ StacksHoldJumps(bytecodes, m_if_stack, m_loop_stack)
  /\ NoneTwice(m_if_stack, m_loop_stack)
  /\ AllResolvedBut(bytecodes, Pending(bytecodes, m_if_stack, m_loop_stack))

(* parse_into, inja.hpp:2732-2735: a program that is accepted has every     *)
(* destination filled in, inside the program or at its end, and leaves      *)
(* nothing open that the next template would inherit.                       *)
AcceptedIsClosed ==
  status = "accepted" =>
    AllResolvedBut(bytecodes, {}) /\ m_if_stack = <<>> /\ m_loop_stack = <<>>

(* transformation.cc:144-156: the parser that is reused begins every        *)
(* template as a new one would.                                             *)
StartsClean ==
  status = "parsing" /\ bytecodes = <<>> => m_if_stack = <<>> /\ m_loop_stack = <<>>

(* inja.hpp:2600, "previous conditional jump jumps here": whenever an else  *)
(* is compiled there is a previous conditional jump.  (Refuted: a second    *)
(* else writes out of bounds.)                                              *)
ElseHasConditionalJump == status # "undefined"
=============================================================================
