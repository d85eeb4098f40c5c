--------------------------- MODULE InjaExpression ---------------------------
(***************************************************************************)
(* Expressions of inja.hpp: the recursive descent that compiles one        *)
(* "{{ expression }}" (class Parser, lines 2356-2554 and 2693-2724), the   *)
(* functions it finds (FunctionStorage, 1761-1814), and the interpreter    *)
(* that runs what was compiled (class Renderer, 2944-3381).                *)
(*                                                                         *)
(* The lexer may return any token next.  Beside the program, the actions   *)
(* record the terms that were written and what they mean, which is what    *)
(* the program is compared with: terms guard no action.  A value is the    *)
(* leaf or the node of values it comes from.                               *)
(***************************************************************************)
EXTENDS Integers, SequencesExt

CONSTANTS
  Tokens,        \* tokens the lexer may return
  Found,         \* variables the data has
  MaxTokens      \* bound on the tokens of an expression

Keywords == {"and", "or", "not", "in"}
Comparisons == {"in", "==", "!=", "<", "<=", ">", ">="}
(* "literal": a number, a string, true, false or null; braces are like      *)
(* brackets                                                                 *)
Punctuation == {"literal", "(", ")", ",", "[", "]", "}}"}
Ids == Tokens \ (Punctuation \cup (Comparisons \ {"in"}))

ASSUME TokensAssumption == Found \subseteq Ids /\ MaxTokens \in Nat \ {0, 1}

VARIABLES
  tok,           \* m_tok
  read,          \* tokens read so far
  at,            \* where the descent is, or how it ended
  calls,         \* the parse functions it is in
  json,          \* the brackets parse_expression_datum has read
  before,        \* what the template compiled to before the expression
  bytecodes,     \* the program so far
  terms,         \* the terms written so far
  i,             \* next bytecode, from 1
  m_stack,       \* the value stack
  printed,       \* what the expression has printed
  run            \* of the interpreter

parser == <<tok, read, at, calls, json, before, bytecodes, terms>>
renderer == <<i, m_stack, printed, run>>
vars == <<parser, renderer>>

-----------------------------------------------------------------------------
(* Values, bytecodes and functions *)

Leaf(fn, name, position) == [fn |-> fn, name |-> name, position |-> position, args |-> <<>>]
Node(fn, name, args) == [fn |-> fn, name |-> name, position |-> 0, args |-> args]
None == Leaf("none", "", 0)
Thrown == Leaf("thrown", "", 0)

(* imm is the value the bytecode has itself (ValueImmediate: a literal;     *)
(* ValueLookup: a variable), or None (ValuePop); name is that of a callback *)
Code(op, name, args, imm) == [op |-> op, name |-> name, args |-> args, imm |-> imm]
Push(leaf) == Code("Push", "", 0, leaf)

(* FunctionStorage keys its entries by name and number of arguments.        *)
Builtins ==
  ({"even", "first", "float", "int", "last", "length", "lower", "max", "min", "odd",
    "range", "sort", "upper", "exists", "isBoolean", "isNumber", "isInteger", "isFloat",
    "isObject", "isArray", "isString"} \X {1})
  \cup ({"at", "default", "divisibleBy", "round", "existsIn"} \X {2})
find_builtin(name, n) == IF <<name, n>> \in Builtins THEN name ELSE "Nop"

Callbacks == {<<"header", 1>>, <<"extraction", 1>>, <<"context", 0>>}
find_callback(name, n) == <<name, n>> \in Callbacks

Merged(b, op, name, n) ==
  ReplaceAt(b, Len(b), Code(op, name, n, Last(b).imm))

append_function(b, op, n) ==
  IF b # <<>> /\ Last(b).op = "Push" THEN Merged(b, op, "", n)
  ELSE Append(b, Code(op, "", n, None))

(* Faulty variant: a variable is merged like a literal.                     *)
append_callback_Lookup(b, name, n) ==
  IF b # <<>> /\ Last(b).op = "Push" THEN Merged(b, "Callback", name, n)
  ELSE Append(b, Code("Callback", name, n, None))

(* A lookup is not merged.  The push that is, is the one that precedes the  *)
(* call in the program, which without arguments is not one of its own.      *)
append_callback(b, name, n) ==
  IF b # <<>> /\ Last(b).op = "Push" /\ Last(b).imm.fn = "literal"
  THEN Merged(b, "Callback", name, n)
  ELSE Append(b, Code("Callback", name, n, None))

(* Faulty variant: the arguments of default() stay in the order written.    *)
swapped_AsWritten(b) == b

swapped(b) ==
  SubSeq(b, 1, Len(b) - 2) \o <<b[Len(b)], b[Len(b) - 1]>>

IsFound(leaf) ==
  leaf.fn = "literal" \/ leaf.name \in Found \/ find_callback(leaf.name, 0)
(* a variable the data does not have may be a callback without arguments    *)
ValueOf(leaf) ==
  IF leaf.fn = "literal" \/ leaf.name \in Found THEN leaf
  ELSE Node("Callback", leaf.name, <<>>)

-----------------------------------------------------------------------------
(* What an expression means.  A term has its value, or Thrown, and what the *)
(* bytecodes need to express it; leaf is the name or literal it is, if any. *)

(* operations on values they do not look at: the elements of an empty       *)
(* value, INT_MIN % -1                                                      *)
Unchecked == {"first", "last", "max", "min", "divisibleBy"}

LeafTerm(leaf) ==
  [leaf |-> leaf, value |-> IF IsFound(leaf) THEN ValueOf(leaf) ELSE Thrown,
   startsEmptyCall |-> FALSE, single |-> TRUE, regular |-> TRUE]

(* default() is for variables without value *)
Meaning(fn, name, values) ==
  IF fn = "default"
  THEN IF values[1] = Thrown \/ values[2] = Thrown THEN values[2] ELSE values[1]
  ELSE IF \/ fn = "Callback" /\ ~find_callback(name, Len(values))
          \/ \E k \in DOMAIN values : values[k] = Thrown
       THEN Thrown ELSE Node(fn, name, values)

IsLeaf(t) == t.leaf # None
IsLiteral(t) == t.leaf.fn = "literal"

(* startsEmptyCall: the first bytecode of the term is a callback without    *)
(* arguments; single: it is the only one; regular: the bytecodes can        *)
(* express the term: no call without arguments follows the push of a        *)
(* literal; the arguments of default() are a name or a literal and one      *)
(* bytecode; every operation looks at its arguments.                        *)
CallTerm(fn, name, args) ==
  [leaf |-> None,
   value |-> Meaning(fn, name, [k \in DOMAIN args |-> args[k].value]),
   startsEmptyCall |-> args = <<>> \/ args[1].startsEmptyCall,
   single |-> \/ args = <<>>
              \/ /\ Len(args) = 1 /\ IsLeaf(args[1])
                 /\ fn = "Callback" => IsLiteral(args[1]),
   regular |-> /\ \A k \in DOMAIN args : args[k].regular
               /\ \A k \in 2..Len(args) :
                    IsLiteral(args[k - 1]) => ~args[k].startsEmptyCall
               /\ fn = "default" => IsLeaf(args[1]) /\ args[2].single
               /\ fn \notin Unchecked]

-----------------------------------------------------------------------------
(* Parsing.  at: "not" - parse_expression_not begins; "datum" - the loop    *)
(* of parse_expression_datum; "return" - the last call returns true.        *)

Call(function) == [function |-> function, op |-> "", n |-> 0]
Expression == <<Call("or"), Call("and")>>
NoJson == [level |-> 0, prev |-> "", well |-> TRUE, position |-> 0]

(* a failed line statement before may have left the push of a literal,      *)
(* which is counted with the tokens                                         *)
Init ==
  /\ before \in {<<>>, <<Push(Leaf("literal", "", 0))>>}
  /\ tok \in Tokens /\ read = Len(before) + 1
  /\ at = "not" /\ calls = Expression
  /\ json = NoJson
  /\ bytecodes = before /\ terms = <<>>
  /\ i = 1 /\ m_stack = <<>> /\ printed = None /\ run = "ready"

Reads(n) == read' = read + n /\ tok' \in Tokens
Written(fn, name, n) ==
  LET k == Len(terms) - n
  IN  terms' = Append(SubSeq(terms, 1, k), CallTerm(fn, name, SubSeq(terms, k + 1, Len(terms))))
Pushes(leaf) == bytecodes' = Append(bytecodes, Push(leaf)) /\ terms' = Append(terms, LeafTerm(leaf))

Not ==
  /\ at = "not" /\ tok = "not"
  /\ Reads(1)
  /\ calls' = Append(calls, Call("not"))
  /\ UNCHANGED <<at, json, before, bytecodes, terms, renderer>>

Comparison ==
  /\ at = "not" /\ tok # "not"
  /\ calls' = Append(calls, Call("comparison"))
  /\ at' = "datum"
  /\ UNCHANGED <<tok, read, json, before, bytecodes, terms, renderer>>

(* The cases of parse_expression_datum.  A parenthesis or a name ends the   *)
(* datum also within brackets, whose levels are then forgotten.             *)
LeftParen ==
  /\ at = "datum" /\ tok = "("
  /\ Reads(1)
  /\ calls' = Append(calls, Call("paren")) \o Expression
  /\ at' = "not" /\ json' = NoJson
  /\ UNCHANGED <<before, bytecodes, terms, renderer>>

(* the token behind the name is looked at, and is no parenthesis *)
Variable ==
  /\ at = "datum" /\ tok \in Ids
  /\ Reads(1) /\ tok' # "("
  /\ Pushes(Leaf("lookup", tok, read))
  /\ at' = "return" /\ json' = NoJson
  /\ UNCHANGED <<calls, before, renderer>>

(* a default() of the first two bytecodes the template has, where there is  *)
(* only one, swaps with what lies before them                               *)
Called(name, n) ==
  /\ at' = IF find_builtin(name, n) = "default" /\ Len(bytecodes) < 2
           THEN "undefined" ELSE "return"
  /\ \/ /\ find_builtin(name, n) \notin {"Nop", "default"}
        /\ bytecodes' = append_function(bytecodes, name, n)
        /\ Written(name, "", n)
     \/ /\ find_builtin(name, n) = "default"
        /\ bytecodes' = IF Len(bytecodes) < 2 THEN bytecodes
                        ELSE append_function(swapped(bytecodes), name, n)
        /\ Written(name, "", n)
     \/ /\ find_builtin(name, n) = "Nop"
        /\ bytecodes' = append_callback(bytecodes, name, n)
        /\ Written("Callback", name, n)

CallWithoutArguments ==
  /\ at = "datum" /\ tok \in Ids
  /\ Reads(3)
  /\ Called(tok, 0)
  /\ json' = NoJson
  /\ UNCHANGED <<calls, before, renderer>>

CallWithArguments ==
  /\ at = "datum" /\ tok \in Ids
  /\ Reads(2) /\ tok' # ")"
  /\ calls' = Append(calls, [Call("call") EXCEPT !.op = tok]) \o Expression
  /\ at' = "not" /\ json' = NoJson
  /\ UNCHANGED <<before, bytecodes, terms, renderer>>

Literal ==
  /\ at = "datum" /\ tok = "literal" /\ json.level = 0
  /\ Reads(1)
  /\ Pushes(Leaf("literal", "", read))
  /\ at' = "return"
  /\ UNCHANGED <<calls, json, before, renderer>>

(* "json passthrough": what may follow what in an array *)
Follows == ({"["} \X {"literal", "[", "]"}) \cup ({"literal", "]"} \X {",", "]"})
             \cup ({","} \X {"literal", "["})
Bridged(level) ==
  [level |-> level, prev |-> tok,
   well |-> json.level = 0 \/ (json.well /\ <<json.prev, tok>> \in Follows),
   position |-> IF json.level = 0 THEN read ELSE json.position]

Passthrough ==
  /\ at = "datum"
  /\ \/ tok = "[" /\ json' = Bridged(json.level + 1)
     \/ tok \in {"literal", ","} /\ json.level > 0 /\ json' = Bridged(json.level)
     \/ tok = "]" /\ json.level > 1 /\ json' = Bridged(json.level - 1)
  /\ Reads(1)
  /\ UNCHANGED <<at, calls, before, bytecodes, terms, renderer>>

LastBracket ==
  /\ at = "datum" /\ tok = "]" /\ json.level = 1
  /\ Bridged(0).well
  /\ Reads(1)
  /\ Pushes(Leaf("literal", "", json.position))
  /\ at' = "return" /\ json' = NoJson
  /\ UNCHANGED <<calls, before, renderer>>

(* The rest of the calls, when what they called has returned true *)
returned == calls # <<>> /\ at = "return"
caller == Last(calls)
Returns == calls' = Front(calls) /\ at' = "return"
operators(function) == IF function = "comparison" THEN Comparisons ELSE {function}
IsBinary(function) == function \in {"or", "and", "comparison"}

Operator ==
  /\ returned
  /\ IsBinary(caller.function) /\ caller.op = "" /\ tok \in operators(caller.function)
  /\ Reads(1)
  /\ calls' = ReplaceAt(calls, Len(calls), [caller EXCEPT !.op = tok])
                \o (IF caller.function = "or" THEN <<Call("and")>> ELSE <<>>)
  /\ at' = IF caller.function = "comparison" THEN "datum" ELSE "not"
  /\ UNCHANGED <<json, before, bytecodes, terms, renderer>>

NoOperator ==
  /\ returned
  /\ IsBinary(caller.function) /\ caller.op = "" /\ tok \notin operators(caller.function)
  /\ Returns
  /\ UNCHANGED <<tok, read, json, before, bytecodes, terms, renderer>>

SecondOperand ==
  /\ returned
  /\ IsBinary(caller.function) /\ caller.op # ""
  /\ bytecodes' = append_function(bytecodes, caller.op, 2)
  /\ Written(caller.op, "", 2)
  /\ Returns
  /\ UNCHANGED <<tok, read, json, before, renderer>>

Negation ==
  /\ returned
  /\ caller.function = "not"
  /\ bytecodes' = append_function(bytecodes, "not", 1)
  /\ Written("not", "", 1)
  /\ Returns
  /\ UNCHANGED <<tok, read, json, before, renderer>>

RightParen ==
  /\ returned
  /\ caller.function = "paren" /\ tok = ")"
  /\ Reads(1)
  /\ Returns
  /\ UNCHANGED <<json, before, bytecodes, terms, renderer>>

(* Faulty variant: the argument is not counted. *)
NextArgument_NotCounted ==
  /\ returned
  /\ caller.function = "call" /\ tok = ","
  /\ Reads(1)
  /\ calls' = calls \o Expression
  /\ at' = "not"
  /\ UNCHANGED <<json, before, bytecodes, terms, renderer>>

NextArgument ==
  /\ returned
  /\ caller.function = "call" /\ tok = ","
  /\ Reads(1)
  /\ calls' = ReplaceAt(calls, Len(calls), [caller EXCEPT !.n = @ + 1]) \o Expression
  /\ at' = "not"
  /\ UNCHANGED <<json, before, bytecodes, terms, renderer>>

LastArgument ==
  /\ returned
  /\ caller.function = "call" /\ tok = ")"
  /\ Reads(1)
  /\ Called(caller.op, caller.n + 1)
  /\ calls' = Front(calls)
  /\ UNCHANGED <<json, before, renderer>>

(* Each inja_throw, each return of false, which ends in one, and            *)
(* json::parse.  The parser is destroyed with its program.                  *)
Unexpected ==
  \/ /\ at = "datum"
     /\ \/ tok \notin Ids \cup {"literal", "(", ",", "[", "]"}
        \/ tok \in {",", "]"} /\ json.level = 0
        \/ tok = "]" /\ json.level = 1 /\ ~Bridged(0).well
  \/ returned /\ caller.function = "paren" /\ tok # ")"
  \/ returned /\ caller.function = "call" /\ tok \notin {",", ")"}
  \/ at = "return" /\ calls = <<>> /\ tok # "}}"

Reject ==
  /\ Unexpected
  /\ at' = "rejected"
  /\ calls' = <<>> /\ bytecodes' = <<>> /\ terms' = <<>> /\ json' = NoJson
  /\ UNCHANGED <<tok, read, before, renderer>>

ExpressionClose ==
  /\ at = "return" /\ calls = <<>> /\ tok = "}}"
  /\ bytecodes' = append_function(bytecodes, "PrintValue", 1)
  /\ at' = "accepted"
  /\ UNCHANGED <<tok, read, calls, json, before, terms, renderer>>

(* at most MaxTokens, with those that close what is open *)
Open == Cardinality({k \in DOMAIN calls : calls[k].function \in {"paren", "call"}})
Bounded == read + Open <= MaxTokens

ParseStep ==
  \/ Not \/ Comparison
  \/ LeftParen \/ Variable \/ CallWithoutArguments \/ CallWithArguments
  \/ Literal \/ Passthrough \/ LastBracket
  \/ Operator \/ NoOperator \/ SecondOperand \/ Negation
  \/ RightParen \/ NextArgument \/ LastArgument
  \/ Reject \/ ExpressionClose
Parse == ParseStep /\ Bounded'

-----------------------------------------------------------------------------
(* Rendering.  run: "ready", "running", "done", "missing" - a variable or a *)
(* function was not found, "refused" - json or a callback threw,            *)
(* "undefined" - behaviour the language does not define.                    *)

bc == bytecodes[i]
HasImm == bc.imm # None
popped == bc.args - (IF HasImm THEN 1 ELSE 0)
Underflow == popped < 0 \/ popped > Len(m_stack)
StackAfterPop == SubSeq(m_stack, 1, Len(m_stack) - popped)
arguments ==
  SubSeq(m_stack, Len(m_stack) - popped + 1, Len(m_stack))
    \o (IF HasImm THEN <<ValueOf(bc.imm)>> ELSE <<>>)

(* the operations whose arguments json or the callback may refuse *)
Partial ==
  {"even", "odd", "first", "last", "float", "int", "lower", "upper", "max", "min", "range",
   "sort", "exists", "at", "divisibleBy", "round", "existsIn", "and", "or", "not",
   "Callback", "PrintValue"}

Start ==
  /\ at = "accepted" /\ run = "ready"
  /\ run' = "running"
  /\ UNCHANGED <<parser, i, m_stack, printed>>

Stepping(op) == run = "running" /\ i <= Len(bytecodes) /\ bc.op = op
ImmIsFound == HasImm => IsFound(bc.imm)
Ends(how) == run' = how /\ UNCHANGED <<parser, i, m_stack, printed>>

RunPush ==
  /\ Stepping("Push") /\ ImmIsFound
  /\ m_stack' = Append(m_stack, ValueOf(bc.imm))
  /\ i' = i + 1
  /\ UNCHANGED <<parser, printed, run>>

(* get_args, then the operation, then pop_args; arguments below the stack   *)
(* are undefined                                                            *)
RunFunction ==
  /\ Stepping(bc.op) /\ bc.op \notin {"Push", "default", "Callback", "PrintValue"}
  /\ ImmIsFound /\ ~Underflow
  /\ m_stack' = Append(StackAfterPop, Node(bc.op, "", arguments))
  /\ i' = i + 1
  /\ UNCHANGED <<parser, printed, run>>

RunCallback ==
  /\ Stepping("Callback") /\ find_callback(bc.name, bc.args)
  /\ ImmIsFound /\ ~Underflow
  /\ m_stack' = Append(StackAfterPop, Node("Callback", bc.name, arguments))
  /\ i' = i + 1
  /\ UNCHANGED <<parser, printed, run>>

RunDefault ==
  /\ Stepping("default") /\ HasImm /\ m_stack # <<>>
  /\ m_stack' = IF IsFound(bc.imm) THEN Append(Front(m_stack), ValueOf(bc.imm)) ELSE m_stack
  /\ i' = i + 1
  /\ UNCHANGED <<parser, printed, run>>

RunPrint ==
  /\ Stepping("PrintValue") /\ ImmIsFound /\ ~Underflow
  /\ printed' = arguments[1]
  /\ m_stack' = StackAfterPop
  /\ i' = i + 1
  /\ UNCHANGED <<parser, run>>

Missing ==
  /\ Stepping(bc.op)
  /\ \/ bc.op = "Callback" /\ ~find_callback(bc.name, bc.args)
     \/ bc.op # "default" /\ ~ImmIsFound
  /\ Ends("missing")

Refused ==
  /\ Stepping(bc.op) /\ bc.op \in Partial
  /\ bc.op = "Callback" => find_callback(bc.name, bc.args)
  /\ ImmIsFound /\ ~Underflow
  /\ Ends("refused")

(* default() dereferences what get_imm returns *)
Undefined ==
  /\ Stepping(bc.op)
  /\ \/ bc.op = "default" /\ (~HasImm \/ m_stack = <<>>)
     \/ /\ bc.op \notin {"Push", "default"} /\ ImmIsFound
        /\ Underflow \/ bc.op \in Unchecked
        /\ bc.op = "Callback" => find_callback(bc.name, bc.args)
  /\ Ends("undefined")

Finish == run = "running" /\ i > Len(bytecodes) /\ Ends("done")

Render ==
  \/ Start \/ RunPush \/ RunFunction \/ RunCallback \/ RunDefault \/ RunPrint
  \/ Missing \/ Refused \/ Undefined \/ Finish

Next == Parse \/ Render
Spec == Init /\ [][Next]_vars

-----------------------------------------------------------------------------
(* Properties *)

(* the bytecodes can express the term, also behind what lies before it *)
WrittenIsRegular == terms[1].regular /\ (before # <<>> => ~terms[1].startsEmptyCall)

TypeOK ==
  /\ tok \in Tokens /\ read \in 1..MaxTokens
  /\ at \in {"not", "datum", "return", "accepted", "rejected", "undefined"}
  /\ \A k \in DOMAIN calls :
       /\ calls[k].function \in {"or", "and", "not", "comparison", "paren", "call"}
       /\ calls[k].op \in Tokens \cup {""} /\ calls[k].n \in 0..MaxTokens
  /\ json.level \in 0..MaxTokens /\ json.prev \in Tokens \cup {""}
  /\ \A k \in DOMAIN bytecodes : bytecodes[k].args \in 0..MaxTokens
  /\ at = "accepted" => Len(terms) = 1
  /\ i \in 1..Len(bytecodes) + 1
  /\ run \in {"ready", "running", "done", "missing", "refused", "undefined"}

(* What is printed is the value of the expression that was written, and the *)
(* stack is left as the expression found it; rendering fails for a missing  *)
(* name only where the expression has no value.  This is of the merges, the *)
(* swap of default() and the immediates, which only together get each       *)
(* argument to its function.                                                *)
PrintsTheWritten ==
  at = "accepted" /\ WrittenIsRegular =>
    /\ run = "done" => printed = terms[1].value /\ Len(m_stack) = Len(before)
    /\ run = "missing" => terms[1].value = Thrown

(* Nothing below the value stack is read, no null immediate is dereferenced *)
(* and no bytecode before the first is swapped, for any expression whose    *)
(* calls without arguments follow no literal, whose default() has a name or *)
(* a literal and a second argument of one bytecode, and which does not take *)
(* an element of what may be empty.                                         *)
DefinedForTheRegular ==
  /\ at = "accepted" /\ WrittenIsRegular => run # "undefined"
  /\ at = "undefined" => ~Last(terms).regular

(* "the second argument is pushed on the stack and the first argument is in *)
(* the immediate" of default() (inja.hpp:3358-3359).                        *)
FirstArgumentIsImmediate ==
  \A k \in DOMAIN bytecodes : bytecodes[k].op = "default" => bytecodes[k].imm # None
=============================================================================
