-------------------------------- MODULE Calc --------------------------------
(***************************************************************************)
(* asm/calc.c: calc_expr2n takes the tokens of an expression one by one    *)
(* and keeps a stack of the operators that wait for their right operand.   *)
(* An assertion that fails ends the program; so does CALC_ABORT, which     *)
(* every caller answers with one.                                          *)
(***************************************************************************)
EXTENDS Expression

CONSTANTS
  Tokens,     \* the tokens an expression is made of
  Malformed,  \* those that _parse_token refuses: 07
  MaxTokens,  \* a bound on the length of an expression
  StackLen    \* entries of PUSHABLE.stack: 8 in the code

VARIABLES
  stack,     \* stack[0 .. depth]: stack[1] is the bottom
  state,     \* what the next token may be
  unclosed,  \* unclosed_bracket
  replaced,  \* is_any_replaced_zero
  expr,      \* the tokens taken so far
  ret, val   \* what calc_expr2n returned; "running" until it does

vars == <<stack, state, unclosed, replaced, expr, ret, val>>

Signs == BinaryOps \cup {"(", ")"}
Top   == stack[Len(stack)]
Entry(op) == [bin_op |-> op, una_op |-> "none", val |-> Num(0)]

WithTop(s, e) == [s EXCEPT ![Len(s)] = e]

Running == ret = "running"
Take(t) == /\ Running /\ t \in Tokens /\ Len(expr) < MaxTokens
           /\ expr' = Append(expr, t)

Init ==
  /\ stack = <<Entry("none")>> /\ state = "UNARY_OR_VALUE" /\ unclosed = 0
  /\ replaced = FALSE /\ expr = <<>> /\ ret = "running" /\ val = Num(0)

\* Another call, after one that returned a value.
Begin ==
  /\ ret \in {"NUM", "ANY_REPLACED_ZERO"}
  /\ stack' = <<Entry("none")>> /\ state' = "UNARY_OR_VALUE"
  /\ replaced' = FALSE /\ expr' = <<>> /\ ret' = "running" /\ val' = Num(0)
  /\ UNCHANGED unclosed

------------------------------------------------------------------------------
\* _push_stack
CanPush(s) == Len(s) < StackLen
Push(s, op) == /\ stack' = Append(s, Entry(op))
               /\ state' = "UNARY_OR_VALUE"

\* The value of entry k after the entries above it are reduced into it.
Reduced(k) ==
  LET r[i \in k .. Len(stack)] ==
        IF i = Len(stack) THEN {stack[i].val}
        ELSE UNION {BinaryOp(stack[i].val, stack[i + 1].bin_op, v) : v \in r[i + 1]}
  IN  r[k]

Opens == {k \in DOMAIN stack : stack[k].bin_op = "("}

\* _on_unary_op_or_value
OnUnaryOp(t) ==
  /\ state = "UNARY_OR_VALUE" /\ t \in UnaryOps
  /\ Take(t)
  /\ stack' = WithTop(stack, [Top EXCEPT !.una_op = t])
  /\ state' = "VALUE"
  /\ UNCHANGED <<unclosed, replaced, ret, val>>

IsOperand(t) == /\ state # "BINARY" /\ t \notin Signs
                /\ state = "UNARY_OR_VALUE" => t \notin UnaryOps
Operands(t) == UnaryOp(Top.una_op, ValueOf(t))

OnValueForgets(t) ==
  /\ IsOperand(t) /\ t \notin Malformed
  /\ Take(t)
  /\ \E v \in Operands(t) : stack' = WithTop(stack, [Top EXCEPT !.val = v, !.una_op = "none"])
  /\ replaced' = IsUnvalued(t)
  /\ state' = "BINARY"
  /\ UNCHANGED <<unclosed, ret, val>>

\* _on_value
OnValue(t) ==
  /\ IsOperand(t) /\ t \notin Malformed
  /\ Take(t)
  /\ \E v \in Operands(t) : stack' = WithTop(stack, [Top EXCEPT !.val = v, !.una_op = "none"])
  /\ replaced' = (replaced \/ IsUnvalued(t))
  /\ state' = "BINARY"
  /\ UNCHANGED <<unclosed, ret, val>>

OnOpenAnywhere ==
  /\ CanPush(stack)
  /\ Take("(")
  /\ Push(stack, "(")
  /\ unclosed' = unclosed + 1
  /\ UNCHANGED <<replaced, ret, val>>

OnOpen ==
  /\ state # "BINARY" /\ CanPush(stack)
  /\ Take("(")
  /\ Push(stack, "(")
  /\ unclosed' = unclosed + 1
  /\ UNCHANGED <<replaced, ret, val>>

\* The values of a bracket that is closed, with the sign before it.
Closed == LET k == Max(Opens)
          IN  UNION {UnaryOp(stack[k - 1].una_op, v) : v \in Reduced(k)}

\* _on_binary_op, for a closing bracket
OnClose ==
  /\ state = "BINARY" /\ Opens # {}
  /\ Take(")")
  /\ \E v \in Closed :
       LET below == SubSeq(stack, 1, Max(Opens) - 1)
       IN  stack' = WithTop(below, [below[Len(below)] EXCEPT !.val = v, !.una_op = "none"])
  /\ unclosed' = unclosed - 1
  /\ UNCHANGED <<state, replaced, ret, val>>

BeforeEqual(op) ==
  IF Prior(Top.bin_op) <= Prior(op) THEN {stack}
  ELSE LET n == Len(stack) - 1
       IN  {WithTop(SubSeq(stack, 1, n), [stack[n] EXCEPT !.val = v]) : v \in Reduced(n)}

\* The stacks an operator may be pushed on: reduced once, unless the last
\* operator binds less tightly.
Before(op) ==
  IF Prior(Top.bin_op) < Prior(op) THEN {stack}
  ELSE LET n == Len(stack) - 1
       IN  {WithTop(SubSeq(stack, 1, n), [stack[n] EXCEPT !.val = v]) : v \in Reduced(n)}

\* _on_binary_op
OnBinaryOp(op) ==
  /\ state = "BINARY" /\ op \in BinaryOps
  /\ Take(op)
  /\ \E s \in Before(op) : CanPush(s) /\ Push(s, op)
  /\ UNCHANGED <<unclosed, replaced, ret, val>>

\* The end of _expr2n; an offset is not returned yet (PENDING *2).
CanReturn == state = "BINARY" /\ Opens = {}
Return ==
  /\ Running /\ CanReturn
  /\ \E v \in Reduced(1) :
       /\ v.type = "NUM"
       /\ val' = v
       /\ stack' = WithTop(SubSeq(stack, 1, 1), [stack[1] EXCEPT !.val = v])
  /\ ret' = IF replaced THEN "ANY_REPLACED_ZERO" ELSE "NUM"
  /\ UNCHANGED <<state, unclosed, replaced, expr>>

------------------------------------------------------------------------------
Stop(why) == ret' = why /\ UNCHANGED <<stack, state, unclosed, replaced, val>>

\* INVALID_CHAR, SEGMENT_CANNOT_UNARY_OP
ReturnError(t) ==
  /\ IsOperand(t) /\ (t \in Malformed \/ Operands(t) = {})
  /\ Take(t)
  /\ Stop("ABORT")

\* A sign where an operand has to be, or an operand in the place of a sign.
Misplaced(t) ==
  /\ IF state = "BINARY" THEN t \notin BinaryOps \cup {")"}
     ELSE t \in Signs \ {"("} /\ ~(state = "UNARY_OR_VALUE" /\ t \in UnaryOps)
  /\ Take(t)
  /\ Stop("assert")

StackFull(t) ==
  /\ \/ t = "(" /\ state # "BINARY" /\ ~CanPush(stack)
     \/ t \in BinaryOps /\ state = "BINARY" /\ \E s \in Before(t) : ~CanPush(s)
  /\ Take(t)
  /\ Stop("assert")

\* A bracket that was not opened; operands that do not fit their operator.
CannotReduce(t) ==
  /\ state = "BINARY"
  /\ \/ t = ")" /\ (Opens # {} => Closed = {})
     \/ t \in BinaryOps /\ Before(t) = {}
  /\ Take(t)
  /\ Stop("assert")

CannotReturn ==
  /\ Running
  /\ CanReturn => \A v \in Reduced(1) : v.type = "SEGMENT"
  /\ Stop("assert")
  /\ UNCHANGED expr

Next ==
  \/ Begin \/ OnOpen \/ OnClose \/ Return \/ CannotReturn
  \/ \E t \in Tokens : \/ OnUnaryOp(t) \/ OnValue(t) \/ OnBinaryOp(t)
                       \/ ReturnError(t) \/ Misplaced(t) \/ StackFull(t) \/ CannotReduce(t)

Spec == Init /\ [][Next]_vars

------------------------------------------------------------------------------
Returned == ret \in {"NUM", "ANY_REPLACED_ZERO"}

\* The operator stack gives an expression its conventional value, as long as
\* no operator waits for a second reduction (calc.c:384-395 reduce once).
ConventionalValue == Returned /\ ~Stranded(expr) => val \in Meaning(expr)

\* The assembler is "compatible with GCC": sums, differences and products have
\* the value that they have for GCC's assembler (README.md:1).
ArithmeticValue ==
  Returned /\ (\A i \in DOMAIN expr : expr[i] \notin {"<<", ">>", "|", "/", "not"})
    => val \in Meaning(expr)

\* A zero that stands for a name without a value is reported, and nothing
\* else is: pass 1 emits a plain number only for TYPE_NUM.
ZeroReported ==
  Returned => (ret = "ANY_REPLACED_ZERO" <=>
                 \E i \in DOMAIN expr : /\ expr[i] \notin Signs /\ Role(expr)[i] = "other"
                                        /\ IsUnvalued(expr[i]))

\* The entry below a bracket is fresh, so closing the bracket overwrites
\* nothing: flow_bug(0 == top()->val.number).
PlaceOfBracketFree == Running => \A k \in Opens : stack[k - 1].val = Num(0)

\* Between brackets the pending operators bind more and more tightly, so that
\* the eight entries last for any expression of one bracket, unless an operator
\* waits for a second reduction: each term of a*b + c*d + ... takes an entry.
StackClimbs ==
  Running /\ Waits(expr) = {} =>
    \A k \in 2 .. Len(stack) :
      stack[k].bin_op # "(" => Prior(stack[k - 1].bin_op) < Prior(stack[k].bin_op)
==============================================================================
