---------------------------- MODULE InjaRenderer ----------------------------
(***************************************************************************)
(* The interpreter of inja.hpp (class Renderer, lines 2944-3486) on the    *)
(* programs that InjaParser compiles.  A template is compiled, block by    *)
(* block, and once it is accepted its program is run by a Renderer of its  *)
(* own, as transformation.cc does for every header.                        *)
(*                                                                         *)
(* Values are abstracted to what control asks of them: a condition is      *)
(* true or false, what a loop runs over has a number of elements, and any  *)
(* evaluation may throw.  The value stack is its height.  An expression    *)
(* leaves its value where its bytecodes are its own; one whose call took   *)
(* over a literal is modelled apart.                                       *)
(***************************************************************************)
EXTENDS InjaParser, FiniteSets

CONSTANTS
  MaxElements,   \* bound on the elements a loop runs over
  MaxLevels,     \* bound on the loops that run at a time
  Reserved       \* m_loop_stack.reserve: 16

ASSUME RendererAssumption ==
  MaxElements \in Nat \ {0} /\ MaxLevels \in Nat /\ Reserved \in Nat \ {0}

VARIABLES
  open,          \* the statements the template has open: "if" and "for"
  nested,        \* every statement so far closed the one opened last
  i,             \* next bytecode
  m_stack,       \* height of the value stack
  levels,        \* the renderer's m_loop_stack
  capacity,      \* of m_loop_stack
  run            \* "ready", "running", "done", "thrown", "undefined" (moved
                 \* data were read) or "underflow" (below the value stack)

template == <<open, nested>>
renderer == <<i, m_stack, levels, capacity, run>>
allvars == <<vars, template, renderer>>

(* start: position of its StartLoop; index counts from 0 *)
LoopLevel == [start : Nat, index : Nat, size : Nat]

InitAll ==
  /\ Init
  /\ open = <<>>
  /\ nested = TRUE
  /\ i = 0
  /\ m_stack = 0
  /\ levels = <<>>
  /\ capacity = Reserved
  /\ run = "ready"

-----------------------------------------------------------------------------
(* Parsing, and whether the statements of the template nest *)

Opens(statement) == open' = Append(open, statement) /\ UNCHANGED nested
InLast(statement) == open # <<>> /\ back(open) = statement
Continues(statement) ==
  nested' = (nested /\ InLast(statement)) /\ UNCHANGED open
Closes(statement) ==
  nested' = (nested /\ InLast(statement)) /\ open' = popped(open)

Parse ==
  /\ \/ (Text \/ Expression \/ Eof) /\ UNCHANGED template
     \/ (\E left \in Leftovers : LineFails(left)) /\ UNCHANGED template
     \/ If /\ Opens("if")
     \/ (Else \/ ElseIf) /\ Continues("if")
     \/ (\E left \in Leftovers : LineElseIfFails(left)) /\ Continues("if")
     \/ Endif /\ Closes("if")
     \/ For /\ Opens("for")
     \/ Endfor /\ Closes("for")
     \/ (Reject \/ ElseTraps) /\ UNCHANGED template
  /\ UNCHANGED renderer

(* the template of the next header is compiled by the same parser *)
ParseNext ==
  /\ NextTemplate
  /\ run = "ready"
  /\ open' = <<>>
  /\ nested' = TRUE
  /\ UNCHANGED renderer

-----------------------------------------------------------------------------
(* render_to *)

Start ==
  /\ status = "accepted"
  /\ run = "ready"
  /\ run' = "running"
  /\ UNCHANGED <<vars, template, i, m_stack, levels, capacity>>

At(o) == run = "running" /\ i \in Positions /\ op(i) = o
Unparsed == UNCHANGED <<vars, template>>

PrintText ==
  /\ At("PrintText")
  /\ i' = i + 1
  /\ Unparsed
  /\ UNCHANGED <<m_stack, levels, capacity, run>>

(* the value is in the bytecode *)
PrintValue ==
  /\ At("PrintValue")
  /\ i' = i + 1
  /\ Unparsed
  /\ UNCHANGED <<m_stack, levels, capacity, run>>

Push ==
  /\ At("Push") \/ At("Literal")
  /\ i' = i + 1
  /\ m_stack' = m_stack + 1
  /\ Unparsed
  /\ UNCHANGED <<levels, capacity, run>>

(* A call without arguments that took over a literal still has the flag of  *)
(* an immediate: get_args asks for 0 - 1 values, as an unsigned number,     *)
(* unless there is no such function.                                        *)
Callback ==
  /\ At("Callback")
  /\ run' \in {"thrown", "underflow"}
  /\ Unparsed
  /\ UNCHANGED <<i, m_stack, levels, capacity>>

PoppingOps == {"PrintPopped", "ConditionalJump", "StartLoop"}
Pops(o) == At(o) /\ m_stack > 0 /\ m_stack' = m_stack - 1

(* back() and pop_back() of a value stack that is empty *)
PopsNothing ==
  /\ \E o \in PoppingOps : At(o)
  /\ m_stack = 0
  /\ run' = "underflow"
  /\ Unparsed
  /\ UNCHANGED <<i, m_stack, levels, capacity>>

PrintPopped ==
  /\ Pops("PrintPopped")
  /\ i' = i + 1
  /\ Unparsed
  /\ UNCHANGED <<levels, capacity, run>>

Jump ==
  /\ At("Jump")
  /\ i' = args(i)
  /\ Unparsed
  /\ UNCHANGED <<m_stack, levels, capacity, run>>

(* Faulty variant: the condition is popped once more when it is false. *)
ConditionalJump_PopsTwice ==
  /\ At("ConditionalJump")
  /\ m_stack > 0
  /\ \/ i' = i + 1 /\ m_stack' = m_stack - 1
     \/ i' = args(i) /\ m_stack' = m_stack - 2
  /\ Unparsed
  /\ UNCHANGED <<levels, capacity, run>>

ConditionalJump ==
  /\ Pops("ConditionalJump")
  /\ \E truthy \in BOOLEAN : i' = IF truthy THEN i + 1 ELSE args(i)
  /\ Unparsed
  /\ UNCHANGED <<levels, capacity, run>>

(* Faulty variant: to the EndLoop. *)
StartLoopEmpty_ToEnd ==
  /\ Pops("StartLoop")
  /\ i' = args(i)
  /\ Unparsed
  /\ UNCHANGED <<levels, capacity, run>>

(* nothing to run over: past the EndLoop *)
StartLoopEmpty ==
  /\ Pops("StartLoop")
  /\ i' = args(i) + 1
  /\ Unparsed
  /\ UNCHANGED <<levels, capacity, run>>

(* Faulty variant: the level that is added counts as one that is there. *)
Moves_Early == Len(levels) + 1 = capacity

(* emplace_back of a full vector moves the levels, and frees the storage    *)
(* m_data points into, before m_data is read (3401, 3405).                  *)
Moves == levels # <<>> /\ Len(levels) = capacity

StartLoop ==
  /\ Pops("StartLoop")
  /\ Len(levels) < MaxLevels
  /\ \E n \in 1..MaxElements :
       levels' = Append(levels, [start |-> i, index |-> 0, size |-> n])
  /\ i' = i + 1
  /\ capacity' = IF Moves THEN 2 * capacity ELSE capacity
  /\ run' \in {"running"} \cup (IF Moves THEN {"undefined"} ELSE {})
  /\ Unparsed

(* Every iteration counts for the level on top, whichever loop it is of.    *)
Advanced == [back(levels) EXCEPT !.index = @ + 1]

(* Faulty variants: back to the StartLoop; without counting. *)
EndLoopAgain_ToStart ==
  /\ At("EndLoop")
  /\ levels # <<>>
  /\ Advanced.index # Advanced.size
  /\ levels' = withBack(levels, Advanced)
  /\ i' = args(i) - 1
  /\ Unparsed
  /\ UNCHANGED <<m_stack, capacity, run>>

EndLoopAgain_NotCounted ==
  /\ At("EndLoop")
  /\ levels # <<>>
  /\ Advanced.index # Advanced.size
  /\ i' = args(i)
  /\ Unparsed
  /\ UNCHANGED <<m_stack, levels, capacity, run>>

EndLoopAgain ==
  /\ At("EndLoop")
  /\ levels # <<>>
  /\ Advanced.index # Advanced.size
  /\ levels' = withBack(levels, Advanced)
  /\ i' = args(i)
  /\ Unparsed
  /\ UNCHANGED <<m_stack, capacity, run>>

EndLoopDone ==
  /\ At("EndLoop")
  /\ levels # <<>>
  /\ Advanced.index = Advanced.size
  /\ levels' = popped(levels)
  /\ i' = i + 1
  /\ Unparsed
  /\ UNCHANGED <<m_stack, capacity, run>>

(* "unexpected state in renderer" *)
EndLoopThrows ==
  /\ At("EndLoop")
  /\ levels = <<>>
  /\ run' = "thrown"
  /\ Unparsed
  /\ UNCHANGED <<i, m_stack, levels, capacity>>

(* A variable that is not found, a value that cannot be printed, is neither *)
(* true nor false, or cannot be run over.                                   *)
Throws ==
  /\ \/ At("PrintValue") \/ At("Push")
     \/ m_stack > 0 /\ \E o \in PoppingOps : At(o)
  /\ run' = "thrown"
  /\ Unparsed
  /\ UNCHANGED <<i, m_stack, levels, capacity>>

Finish ==
  /\ run = "running"
  /\ i >= size
  /\ run' = "done"
  /\ Unparsed
  /\ UNCHANGED <<i, m_stack, levels, capacity>>

Step ==
  \/ PrintText \/ PrintValue \/ Push \/ Jump \/ Callback
  \/ PrintPopped \/ ConditionalJump \/ PopsNothing
  \/ StartLoopEmpty \/ StartLoop
  \/ EndLoopAgain \/ EndLoopDone \/ EndLoopThrows
  \/ Throws \/ Finish

NextAll == Parse \/ ParseNext \/ Start \/ Step

(* rendering goes on until it ends: nothing interrupts the loop of render_to *)
SpecAll == InitAll /\ [][NextAll]_allvars /\ WF_allvars(Step)

-----------------------------------------------------------------------------
(* Properties *)

(* Every variable of the renderer stays in its type. *)
RendererTypeOK ==
  /\ open \in Seq({"if", "for"}) /\ nested \in BOOLEAN
  /\ i \in Nat /\ m_stack \in Nat /\ capacity \in Nat
  /\ levels \in Seq(LoopLevel)
  /\ run \in {"ready", "running", "done", "thrown", "undefined", "underflow"}

(* inja.hpp:3386-3399: no accepted program, however its statements nest,    *)
(* tests, runs over or prints a value that is not there, but for one case:  *)
(* the value is that of a call which took over a literal (2709-2718) and    *)
(* was jumped over.  No level outlives its elements.                        *)
ValuesAreThere ==
  /\ \A o \in PoppingOps :
       At(o) /\ m_stack = 0 => i > 0 /\ op(i - 1) = "Callback"
  /\ \A j \in DOMAIN levels : levels[j].index < levels[j].size

(* k is in the body of the loop that starts at s *)
InBody(s, k) == s < k /\ k <= args(s)
Loops == {s \in Positions : op(s) = "StartLoop"}

(* inja.hpp:3393-3479: in a template whose statements nest, the levels that *)
(* run are at any time those of the loops around the next bytecode, from    *)
(* the outermost in; none is left at the end.                               *)
LevelsAreTheLoopsAround ==
  nested /\ run \in {"running", "done"} =>
    /\ {levels[j].start : j \in DOMAIN levels} = {s \in Loops : InBody(s, i)}
    /\ \A j, k \in DOMAIN levels : j < k => levels[j].start < levels[k].start
    /\ i <= size

(* Rendering a template whose statements nest ends.                         *)
NestedEnds == nested /\ run = "running" ~> run \in {"done", "thrown", "undefined", "underflow"}

(* inja.hpp:3080, 3401-3405: rendering a template whose statements nest     *)
(* reads data that were moved only in a place with more loops around it     *)
(* than levels were reserved for.                                           *)
DataIsLiveWithinReserve ==
  nested /\ run = "undefined" =>
    Cardinality({s \in Loops : InBody(s, i)}) > Reserved
=============================================================================
