----------------------------- MODULE CalcProofs -----------------------------
(***************************************************************************)
(* The operator stack of an expression, for every width, stack size and    *)
(* length: the place of a bracket is free, a zero that stands for a name   *)
(* without a value is reported, and the value that is returned is the      *)
(* conventional one of the expression.                                     *)
(***************************************************************************)
EXTENDS Calc, FiniteSums

Entries(V) ==
  [bin_op : BinaryOps \cup {"(", "none"}, una_op : UnaryOps \cup {"none"}, val : V]

\* The bottom, and only the bottom, has no operator; under a bracket is an
\* entry without a value.
GoodStack(s) ==
  /\ \E V : s \in Seq(Entries(V))
  /\ Len(s) > 0
  /\ \A k \in 1 .. Len(s) : s[k].bin_op = "none" <=> k = 1
  /\ \A k \in 2 .. Len(s) : s[k].bin_op = "(" => s[k - 1].val = Num(0)

\* Before its operand is read the last entry is fresh.
Fresh == state # "BINARY" => Top.val = Num(0)

\* The inductive invariant of PlaceOfBracketFree.
InvPlace == Running => GoodStack(stack) /\ Fresh
------------------------------------------------------------------------------
LEMMA EntryTyped ==
  ASSUME NEW op \in BinaryOps \cup {"("}
  PROVE  /\ Entry(op) \in Entries({Num(0)})
         /\ Entry(op).bin_op = op /\ Entry(op).val = Num(0) /\ op # "none"
BY DEF Entry, Entries, BinaryOps

LEMMA EntriesGrow ==
  ASSUME NEW V, NEW W, V \subseteq W
  PROVE  Entries(V) \subseteq Entries(W)
BY DEF Entries

\* Another entry with the same operator in the place of the last one.
LEMMA WithTopSound ==
  ASSUME NEW s, GoodStack(s), NEW W, NEW e \in Entries(W), e.bin_op = s[Len(s)].bin_op
  PROVE  GoodStack(WithTop(s, e)) /\ Len(WithTop(s, e)) = Len(s) /\ WithTop(s, e)[Len(s)] = e
<1>1. PICK V : s \in Seq(Entries(V))
  BY DEF GoodStack
<1>2. e \in Entries(V \cup W) /\ s \in Seq(Entries(V \cup W))
  BY <1>1, EntriesGrow
<1> DEFINE t == [s EXCEPT ![Len(s)] = e]
<1>3. t \in Seq(Entries(V \cup W)) /\ Len(t) = Len(s) /\ Len(s) \in Nat \ {0}
  BY <1>2 DEF GoodStack
<1>4. \A k \in 1 .. Len(s) : t[k] = IF k = Len(s) THEN e ELSE s[k]
  BY <1>2
<1>5. \A k \in 1 .. Len(s) : t[k].bin_op = s[k].bin_op
  BY <1>4
<1>6. \A k \in 2 .. Len(s) : t[k - 1] = s[k - 1]
  BY <1>3, <1>4
<1> HIDE DEF t
<1>7. GoodStack(t)
  BY <1>3, <1>5, <1>6 DEF GoodStack
<1> QED
  BY <1>3, <1>4, <1>7 DEF WithTop, t

\* What is left of a stack when entries are taken off.
LEMMA CutSound ==
  ASSUME NEW s, GoodStack(s), NEW n \in 1 .. Len(s)
  PROVE  /\ GoodStack(SubSeq(s, 1, n)) /\ Len(SubSeq(s, 1, n)) = n
         /\ SubSeq(s, 1, n)[n] = s[n]
<1>1. PICK V : s \in Seq(Entries(V))
  BY DEF GoodStack
<1> DEFINE t == SubSeq(s, 1, n)
<1>2. t \in Seq(Entries(V)) /\ Len(t) = n
  BY <1>1
<1>3. \A k \in 1 .. n : t[k] = s[k]
  BY <1>1
<1>4. Len(s) \in Nat
  BY <1>1
<1>5. \A k \in 2 .. n : t[k] = s[k] /\ t[k - 1] = s[k - 1] /\ k \in 2 .. Len(s)
  BY <1>3, <1>4
<1> HIDE DEF t
<1>6. GoodStack(t)
  BY <1>2, <1>3, <1>4, <1>5, SMTT(30) DEF GoodStack
<1> QED
  BY <1>2, <1>3, <1>6 DEF t

\* An operator is pushed; a bracket, on an entry without a value.
LEMMA PushSound ==
  ASSUME NEW s, GoodStack(s), NEW op \in BinaryOps \cup {"("},
         op = "(" => s[Len(s)].val = Num(0)
  PROVE  /\ GoodStack(Append(s, Entry(op)))
         /\ Append(s, Entry(op))[Len(Append(s, Entry(op)))].val = Num(0)
<1>1. PICK V : s \in Seq(Entries(V))
  BY DEF GoodStack
<1> DEFINE e == Entry(op)
           t == Append(s, e)
<1>2. /\ e.bin_op = op /\ e.val = Num(0) /\ op # "none"
      /\ e \in Entries(V \cup {Num(0)}) /\ s \in Seq(Entries(V \cup {Num(0)}))
  BY <1>1, EntryTyped, EntriesGrow
<1> HIDE DEF e
<1>3. t \in Seq(Entries(V \cup {Num(0)})) /\ Len(t) = Len(s) + 1 /\ Len(s) \in Nat \ {0}
  BY <1>2 DEF GoodStack
<1>4. \A k \in 1 .. Len(s) + 1 : t[k] = IF k = Len(s) + 1 THEN e ELSE s[k]
  BY <1>2
<1> HIDE DEF t
<1>5. \A k \in 1 .. Len(t) : t[k].bin_op = "none" <=> k = 1
  BY <1>2, <1>3, <1>4 DEF GoodStack
<1>6. ASSUME NEW k \in 2 .. Len(t), t[k].bin_op = "("
      PROVE  t[k - 1].val = Num(0)
  <2>1. CASE k = Len(s) + 1
    BY <1>2, <1>3, <1>4, <1>6, <2>1
  <2>2. CASE k \in 2 .. Len(s)
    BY <1>3, <1>4, <1>6, <2>2 DEF GoodStack
  <2> QED
    BY <1>3, <2>1, <2>2
<1>7. GoodStack(t)
  BY <1>3, <1>5, <1>6 DEF GoodStack
<1> QED
  BY <1>2, <1>3, <1>4, <1>7 DEF t, e

LEMMA TopTyped ==
  ASSUME NEW s, GoodStack(s), NEW v
  PROVE  /\ \E W : [s[Len(s)] EXCEPT !.val = v, !.una_op = "none"] \in Entries(W)
         /\ \E W : [s[Len(s)] EXCEPT !.val = v] \in Entries(W)
         /\ \E W : \A u \in UnaryOps : [s[Len(s)] EXCEPT !.una_op = u] \in Entries(W)
         /\ [s[Len(s)] EXCEPT !.val = v, !.una_op = "none"].bin_op = s[Len(s)].bin_op
         /\ [s[Len(s)] EXCEPT !.val = v].bin_op = s[Len(s)].bin_op
         /\ \A u : /\ [s[Len(s)] EXCEPT !.una_op = u].bin_op = s[Len(s)].bin_op
                  /\ [s[Len(s)] EXCEPT !.una_op = u].val = s[Len(s)].val
<1>1. PICK V : s \in Seq(Entries(V))
  BY DEF GoodStack
<1>2. s[Len(s)] \in Entries(V)
  BY <1>1 DEF GoodStack
<1> DEFINE t == s[Len(s)]
<1> HIDE DEF t
<1>3. t \in Entries(V)
  BY <1>2 DEF t
<1>4. [t EXCEPT !.val = v, !.una_op = "none"] \in Entries({v})
  BY <1>3 DEF Entries
<1>5. [t EXCEPT !.val = v] \in Entries({v})
  BY <1>3 DEF Entries
<1>6. \A u \in UnaryOps : [t EXCEPT !.una_op = u] \in Entries(V)
  BY <1>3 DEF Entries
<1>7. /\ [t EXCEPT !.val = v, !.una_op = "none"].bin_op = t.bin_op
      /\ [t EXCEPT !.val = v].bin_op = t.bin_op
      /\ \A u : [t EXCEPT !.una_op = u].bin_op = t.bin_op /\ [t EXCEPT !.una_op = u].val = t.val
  BY <1>3 DEF Entries
<1> QED
  BY <1>4, <1>5, <1>6, <1>7 DEF t

LEMMA OneLess == ASSUME NEW n \in Nat \ {0}, n # 1 PROVE n - 1 \in 1 .. n
OBVIOUS

\* The stacks a sign is pushed on.
LEMMA BeforeSound ==
  ASSUME GoodStack(stack), NEW op \in BinaryOps, NEW s \in Before(op)
  PROVE  GoodStack(s)
<1>1. CASE Prior(Top.bin_op) < Prior(op)
  BY <1>1 DEF Before
<1>2. CASE ~(Prior(Top.bin_op) < Prior(op))
  <2> DEFINE n == Len(stack) - 1
             b == SubSeq(stack, 1, n)
  <2>1. PICK v \in Reduced(n) : s = WithTop(b, [stack[n] EXCEPT !.val = v])
    BY <1>2 DEF Before
  <2>2. Len(stack) \in Nat \ {0}
    BY DEF GoodStack
  <2>3. Len(stack) # 1
    <3>1. SUFFICES ASSUME Len(stack) = 1 PROVE FALSE
      OBVIOUS
    <3>2. Top.bin_op = "none"
      BY <3>1 DEF GoodStack, Top
    <3>3. Prior(Top.bin_op) = 0
      BY <3>2 DEF Prior
    <3>4. Prior(op) \in {2, 3, 4, 5}
      BY DEF Prior, BinaryOps
    <3> QED
      BY <1>2, <3>3, <3>4
  <2>4. Len(stack) - 1 \in 1 .. Len(stack)
    BY <2>2, <2>3, OneLess
  <2>5. GoodStack(b) /\ Len(b) = n /\ b[Len(b)] = stack[n]
    BY <2>4, CutSound
  <2> HIDE DEF n
  <2> HIDE DEF b
  <2>6. PICK W : [b[Len(b)] EXCEPT !.val = v] \in Entries(W)
    BY <2>5, TopTyped
  <2>7. [b[Len(b)] EXCEPT !.val = v].bin_op = b[Len(b)].bin_op
    BY <2>5, TopTyped
  <2>8. GoodStack(WithTop(b, [b[Len(b)] EXCEPT !.val = v]))
    BY <2>5, <2>6, <2>7, WithTopSound
  <2> QED
    BY <2>1, <2>5, <2>8
<1> QED
  BY <1>1, <1>2
------------------------------------------------------------------------------
\* A value takes the place of the last one, which has no sign left to apply.
LEMMA ValuePlaced ==
  ASSUME NEW s, GoodStack(s), NEW v
  PROVE  GoodStack(WithTop(s, [s[Len(s)] EXCEPT !.val = v, !.una_op = "none"]))
<1> DEFINE e == [s[Len(s)] EXCEPT !.val = v, !.una_op = "none"]
<1>1. PICK W : e \in Entries(W)
  BY TopTyped
<1>2. e.bin_op = s[Len(s)].bin_op
  BY TopTyped
<1> HIDE DEF e
<1>3. GoodStack(WithTop(s, e))
  BY <1>1, <1>2, WithTopSound
<1> QED
  BY <1>3 DEF e

\* Where a bracket is closed an entry is left.
LEMMA OpensBound ==
  ASSUME GoodStack(stack), Opens # {}
  PROVE  Max(Opens) \in 2 .. Len(stack)
<1>1. Opens \subseteq 2 .. Len(stack) /\ Len(stack) \in Nat
  <2>1. PICK V : stack \in Seq(Entries(V))
    BY DEF GoodStack
  <2>2. Len(stack) \in Nat /\ DOMAIN stack = 1 .. Len(stack)
    BY <2>1
  <2>3. \A k \in Opens : k \in 1 .. Len(stack) /\ stack[k].bin_op # "none"
    BY <2>2 DEF Opens
  <2>4. \A k \in Opens : k # 1
    BY <2>2, <2>3 DEF GoodStack
  <2> QED
    BY <2>2, <2>3, <2>4
<1>2. Opens \subseteq Int /\ Len(stack) \in Int /\ \A x \in Opens : x <= Len(stack)
  BY <1>1
<1>3. Max(Opens) \in Opens
  BY <1>2, IntMax
<1> QED
  BY <1>1, <1>3

LEMMA InvPlaceInit == Init => InvPlace
<1> SUFFICES ASSUME Init PROVE GoodStack(stack) /\ Fresh
  BY DEF InvPlace
<1>1. stack = <<Entry("none")>> /\ Len(stack) = 1 /\ stack[1] = Entry("none")
  BY DEF Init
<1>2. Entry("none") \in Entries({Num(0)}) /\ Entry("none").bin_op = "none" /\ Entry("none").val = Num(0)
  BY DEF Entry, Entries
<1>3. stack \in Seq(Entries({Num(0)}))
  BY <1>1, <1>2
<1>4. GoodStack(stack)
  BY <1>1, <1>2, <1>3 DEF GoodStack
<1>5. Fresh
  BY <1>1, <1>2 DEF Fresh, Top
<1> QED
  BY <1>4, <1>5

LEMMA InvPlaceStep == InvPlace /\ [Next]_vars => InvPlace'
<1> SUFFICES ASSUME InvPlace, [Next]_vars, Running' PROVE GoodStack(stack') /\ Fresh'
  BY DEF InvPlace
<1>0. Running \/ Begin
  BY DEF Next, vars, Begin, Running, OnOpen, OnClose, Return, CannotReturn, OnUnaryOp, OnValue, OnBinaryOp, ReturnError,
         Misplaced, StackFull, CannotReduce, Take, Stop
<1>1. CASE Begin
  <2>1. stack' = <<Entry("none")>> /\ Len(stack') = 1 /\ stack'[1] = Entry("none")
    BY <1>1 DEF Begin
  <2>2. Entry("none") \in Entries({Num(0)}) /\ Entry("none").bin_op = "none" /\ Entry("none").val = Num(0)
    BY DEF Entry, Entries
  <2>3. stack' \in Seq(Entries({Num(0)}))
    BY <2>1, <2>2
  <2>4. GoodStack(stack')
    BY <2>1, <2>2, <2>3 DEF GoodStack
  <2> QED
    BY <2>1, <2>2, <2>4 DEF Fresh, Top
<1> SUFFICES ASSUME Running PROVE GoodStack(stack') /\ Fresh'
  BY <1>0, <1>1
<1>2. GoodStack(stack) /\ Fresh
  BY DEF InvPlace
<1>3. CASE UNCHANGED vars
  BY <1>2, <1>3 DEF vars, Fresh, Top
<1>4. CASE OnOpen
  <2>1. stack[Len(stack)].val = Num(0) /\ stack' = Append(stack, Entry("("))
    BY <1>2, <1>4 DEF OnOpen, Push, Fresh, Top
  <2> QED
    BY <1>2, <2>1, PushSound DEF Fresh, Top
<1>5. CASE OnClose
  <2> DEFINE b == SubSeq(stack, 1, Max(Opens) - 1)
  <2>1. PICK v \in Closed : stack' = WithTop(b, [b[Len(b)] EXCEPT !.val = v, !.una_op = "none"])
    BY <1>5 DEF OnClose
  <2>2. Max(Opens) - 1 \in 1 .. Len(stack)
    <3>1. Max(Opens) \in 2 .. Len(stack)
      BY <1>2, <1>5, OpensBound DEF OnClose
    <3>2. Len(stack) \in Nat
      BY <1>2 DEF GoodStack
    <3> QED
      BY <3>1, <3>2
  <2>3. GoodStack(b)
    BY <1>2, <2>2, CutSound
  <2> HIDE DEF b
  <2>4. GoodStack(stack')
    BY <2>1, <2>3, ValuePlaced
  <2>5. state' = "BINARY"
    BY <1>5 DEF OnClose
  <2> QED
    BY <2>4, <2>5 DEF Fresh
<1>6. CASE \E t \in Tokens : OnUnaryOp(t)
  <2>1. PICK t \in Tokens : OnUnaryOp(t)
    BY <1>6
  <2> DEFINE e == [stack[Len(stack)] EXCEPT !.una_op = t]
  <2>2. stack' = WithTop(stack, e) /\ t \in UnaryOps /\ state # "BINARY"
    BY <2>1 DEF OnUnaryOp, Top
  <2>3. PICK W : e \in Entries(W)
    BY <1>2, <2>2, TopTyped
  <2>4. e.bin_op = stack[Len(stack)].bin_op /\ e.val = stack[Len(stack)].val
    BY <1>2, TopTyped
  <2>5. e.val = Num(0)
    BY <1>2, <2>2, <2>4 DEF Fresh, Top
  <2> HIDE DEF e
  <2>6. GoodStack(stack') /\ Len(stack') = Len(stack) /\ stack'[Len(stack)] = e
    BY <1>2, <2>2, <2>3, <2>4, WithTopSound
  <2> QED
    BY <2>5, <2>6 DEF Fresh, Top
<1>7. CASE \E t \in Tokens : OnValue(t)
  <2>1. PICK t \in Tokens : OnValue(t)
    BY <1>7
  <2>2. PICK v \in Operands(t) : stack' = WithTop(stack, [Top EXCEPT !.val = v, !.una_op = "none"])
    BY <2>1 DEF OnValue
  <2>3. GoodStack(stack') /\ state' = "BINARY"
    BY <1>2, <2>1, <2>2, ValuePlaced DEF Top, OnValue
  <2> QED
    BY <2>3 DEF Fresh
<1>8. CASE \E t \in Tokens : OnBinaryOp(t)
  <2>1. PICK t \in Tokens : OnBinaryOp(t)
    BY <1>8
  <2>2. PICK s \in Before(t) : stack' = Append(s, Entry(t))
    BY <2>1 DEF OnBinaryOp, Push
  <2>3. t \in BinaryOps /\ t # "("
    BY <2>1 DEF OnBinaryOp, BinaryOps
  <2>4. GoodStack(s)
    BY <1>2, <2>3, BeforeSound
  <2> QED
    BY <2>2, <2>3, <2>4, PushSound DEF Fresh, Top
<1>9. CASE Return \/ CannotReturn \/ \E t \in Tokens : ReturnError(t) \/ Misplaced(t) \/ StackFull(t) \/ CannotReduce(t)
  BY <1>9 DEF Return, CannotReturn, ReturnError, Misplaced, StackFull, CannotReduce, Stop, Running
<1> QED
  BY <1>1, <1>3, <1>4, <1>5, <1>6, <1>7, <1>8, <1>9 DEF Next

\* calc.c:436: flow_bug(0 == top()->val.number), the entry that a bracket is
\* put on has no value yet, and when the bracket is closed none is lost.
THEOREM PlaceOfBracketHolds == Spec => []PlaceOfBracketFree
<1>1. InvPlace => PlaceOfBracketFree
  <2> SUFFICES ASSUME GoodStack(stack), NEW k \in Opens PROVE stack[k - 1].val = Num(0)
    BY DEF InvPlace, PlaceOfBracketFree
  <2>1. PICK V : stack \in Seq(Entries(V))
    BY DEF GoodStack
  <2>2. k \in 1 .. Len(stack) /\ Len(stack) \in Nat /\ stack[k].bin_op = "("
    BY <2>1 DEF Opens
  <2>3. k # 1
    BY <2>2 DEF GoodStack
  <2>4. k \in 2 .. Len(stack)
    BY <2>2, <2>3
  <2> QED
    BY <2>2, <2>4 DEF GoodStack
<1> QED
  BY <1>1, InvPlaceInit, InvPlaceStep, PTL DEF Spec
------------------------------------------------------------------------------
(* ZeroReported: what a token is depends on the tokens before it only, and  *)
(* state is what the place behind the last one is.                          *)

First(e, r, k) == k = 1 \/ e[k - 1] = "(" \/ r[k - 1] = "binary"
RoleAt(e, r, k) ==
  CASE First(e, r, k) /\ e[k] \in UnaryOps -> "unary"
    [] ~First(e, r, k) /\ r[k - 1] # "unary" /\ e[k] \in BinaryOps -> "binary"
    [] OTHER -> "other"
IsRole(e, r) == r = [k \in DOMAIN e |-> RoleAt(e, r, k)]

ZeroIn(r) ==
  \E i \in DOMAIN expr : expr[i] \notin Signs /\ r[i] = "other" /\ IsUnvalued(expr[i])

StateFits(r) ==
  /\ state \in {"UNARY_OR_VALUE", "VALUE", "BINARY"}
  /\ state = "UNARY_OR_VALUE" <=> First(expr, r, Len(expr) + 1)
  /\ state = "VALUE" <=> ~First(expr, r, Len(expr) + 1) /\ r[Len(expr)] = "unary"

ReadSoFar ==
  /\ expr \in Seq(Tokens) /\ replaced \in BOOLEAN
  /\ \E r : IsRole(expr, r) /\ StateFits(r) /\ (replaced <=> ZeroIn(r))

\* The inductive invariant of ZeroReported.
InvZero == (Running => ReadSoFar) /\ ZeroReported

LEMMA RoleChosen == \A e : Role(e) = CHOOSE r : IsRole(e, r)
BY DEF Role, IsRole, RoleAt, First

\* There is only one such function.
LEMMA RoleUnique ==
  ASSUME NEW T, NEW e \in Seq(T), NEW r, IsRole(e, r), NEW q, IsRole(e, q)
  PROVE  r = q
<1> DEFINE D == {k \in 1 .. Len(e) : r[k] # q[k]}
<1>1. Len(e) \in Nat /\ DOMAIN e = 1 .. Len(e)
  OBVIOUS
<1>2. \A k \in 1 .. Len(e) : r[k] = RoleAt(e, r, k) /\ q[k] = RoleAt(e, q, k)
  BY <1>1 DEF IsRole
<1>3. D = {}
  <2> SUFFICES ASSUME D # {} PROVE FALSE
    OBVIOUS
  <2>1. D \subseteq Nat
    BY <1>1
  <2>2. PICK k \in D : \A y \in D : k <= y
    BY <2>1, NatMin
  <2>3. k \in 1 .. Len(e) /\ r[k] # q[k]
    OBVIOUS
  <2>4. CASE k = 1
    BY <1>2, <2>3, <2>4 DEF RoleAt, First
  <2>5. CASE k # 1
    <3>1. k - 1 \in 1 .. Len(e) /\ ~(k <= k - 1)
      BY <1>1, <2>3, <2>5
    <3>2. r[k - 1] = q[k - 1]
      BY <2>2, <3>1
    <3> QED
      BY <1>2, <2>3, <3>2 DEF RoleAt, First
  <2> QED
    BY <2>4, <2>5
<1> QED
  BY <1>1, <1>3 DEF IsRole

LEMMA RoleIs ==
  ASSUME NEW T, NEW e \in Seq(T), NEW r, IsRole(e, r)
  PROVE  Role(e) = r
<1>1. IsRole(e, CHOOSE q : IsRole(e, q))
  OBVIOUS
<1> QED
  BY <1>1, RoleUnique, RoleChosen

\* The roles of the tokens before a new one stay.
RoleOfNext(e, r, t) ==
  [k \in 1 .. Len(e) + 1 |-> IF k = Len(e) + 1 THEN RoleAt(Append(e, t), r, k) ELSE r[k]]

LEMMA RoleNext ==
  ASSUME NEW T, NEW e \in Seq(T), NEW t \in T, NEW r, IsRole(e, r)
  PROVE  IsRole(Append(e, t), RoleOfNext(e, r, t))
<1> DEFINE a == Append(e, t)
           q == RoleOfNext(e, r, t)
<1>1. Len(e) \in Nat /\ DOMAIN e = 1 .. Len(e) /\ DOMAIN a = 1 .. Len(e) + 1
  OBVIOUS
<1>2. \A k \in 1 .. Len(e) : a[k] = e[k]
  OBVIOUS
<1>3. \A k \in 1 .. Len(e) : q[k] = r[k]
  BY <1>1 DEF RoleOfNext
<1>4. \A k \in 1 .. Len(e) + 1 : k = 1 \/ k - 1 \in 1 .. Len(e)
  BY <1>1
<1>5. \A k \in 1 .. Len(e) : r[k] = RoleAt(e, r, k)
  BY <1>1 DEF IsRole
<1> HIDE DEF a
<1>6. \A k \in 1 .. Len(e) : RoleAt(e, r, k) = RoleAt(a, q, k)
  <2> SUFFICES ASSUME NEW k \in 1 .. Len(e) PROVE RoleAt(e, r, k) = RoleAt(a, q, k)
    OBVIOUS
  <2>1. k = 1 \/ k - 1 \in 1 .. Len(e)
    BY <1>1
  <2>2. a[k] = e[k] /\ (k # 1 => a[k - 1] = e[k - 1] /\ q[k - 1] = r[k - 1])
    BY <1>2, <1>3, <2>1
  <2> HIDE DEF q
  <2> QED
    BY <2>2 DEF RoleAt, First
<1>7. RoleAt(a, r, Len(e) + 1) = RoleAt(a, q, Len(e) + 1)
  <2>1. Len(e) + 1 = 1 \/ q[Len(e) + 1 - 1] = r[Len(e) + 1 - 1]
    BY <1>1, <1>3, <1>4
  <2> HIDE DEF q
  <2> QED
    BY <2>1 DEF RoleAt, First
<1>8. q[Len(e) + 1] = RoleAt(a, r, Len(e) + 1)
  BY <1>1 DEF RoleOfNext, a
<1>9. \A k \in 1 .. Len(e) + 1 : q[k] = RoleAt(a, q, k)
  <2> HIDE DEF q
  <2>1. \A k \in 1 .. Len(e) + 1 : k \in 1 .. Len(e) \/ k = Len(e) + 1
    BY <1>1
  <2> QED
    BY <1>3, <1>5, <1>6, <1>7, <1>8, <2>1
<1>10. q = [k \in 1 .. Len(e) + 1 |-> q[k]]
  BY DEF RoleOfNext
<1> HIDE DEF q
<1>11. q = [k \in DOMAIN a |-> RoleAt(a, q, k)]
  BY <1>1, <1>9, <1>10 DEF a
<1> QED
  BY <1>11 DEF IsRole, a, q

\* The role of the next token, by the state; whether it is a zero to report.
RoleFor(t) ==
  CASE state = "UNARY_OR_VALUE" /\ t \in UnaryOps -> "unary"
    [] state = "BINARY" /\ t \in BinaryOps -> "binary"
    [] OTHER -> "other"
IsZero(t) == t \notin Signs /\ RoleFor(t) = "other" /\ IsUnvalued(t)

LEMMA RoleOfToken ==
  ASSUME ReadSoFar, NEW t \in Tokens, NEW r, IsRole(expr, r), StateFits(r)
  PROVE  RoleOfNext(expr, r, t)[Len(expr) + 1] = RoleFor(t)
<1> DEFINE n == Len(expr)
           f == Append(expr, t)
<1>1. /\ n \in Nat /\ f[n + 1] = t
      /\ \A k \in 1 .. n : f[k] = expr[k]
  BY DEF ReadSoFar
<1>2. RoleOfNext(expr, r, t)[n + 1] = RoleAt(f, r, n + 1)
  BY <1>1 DEF RoleOfNext
<1> HIDE DEF n, f
<1>3. First(f, r, n + 1) <=> First(expr, r, n + 1)
  <2>1. n = 0 \/ n \in 1 .. n
    BY <1>1
  <2> QED
    BY <1>1, <2>1 DEF First
<1>4. /\ state = "UNARY_OR_VALUE" <=> First(expr, r, n + 1)
      /\ state = "VALUE" <=> ~First(expr, r, n + 1) /\ r[n] = "unary"
      /\ state \in {"UNARY_OR_VALUE", "VALUE", "BINARY"}
  BY DEF StateFits, n
<1>5. r[n + 1 - 1] = r[n]
  BY <1>1
<1>6. RoleAt(f, r, n + 1) = RoleFor(t)
  BY <1>1, <1>3, <1>4, <1>5 DEF RoleAt, RoleFor
<1> QED
  BY <1>2, <1>6 DEF n

\* An action takes a token as ReadSoFar wants it.
LEMMA TokenTaken ==
  ASSUME ReadSoFar, NEW t \in Tokens, expr' = Append(expr, t),
         state' \in {"UNARY_OR_VALUE", "VALUE", "BINARY"}, replaced' \in BOOLEAN,
         state' = "UNARY_OR_VALUE" <=> t = "(" \/ RoleFor(t) = "binary",
         state' = "VALUE" <=> t # "(" /\ RoleFor(t) = "unary",
         replaced' <=> replaced \/ IsZero(t)
  PROVE  ReadSoFar'
<1>1. PICK r : IsRole(expr, r) /\ StateFits(r) /\ (replaced <=> ZeroIn(r))
  BY DEF ReadSoFar
<1>2. PICK q : q = RoleOfNext(expr, r, t)
  OBVIOUS
<1>3. expr \in Seq(Tokens)
  BY DEF ReadSoFar
<1>4. IsRole(Append(expr, t), q)
  BY <1>1, <1>2, <1>3, RoleNext
<1> DEFINE n == Len(expr)
<1>5. /\ n \in Nat /\ DOMAIN expr = 1 .. n /\ DOMAIN expr' = 1 .. n + 1 /\ Len(expr') = n + 1
      /\ expr' \in Seq(Tokens) /\ expr'[n + 1] = t
      /\ \A k \in 1 .. n : expr'[k] = expr[k]
  BY <1>3
<1>6. q[n + 1] = RoleAt(expr', r, n + 1) /\ \A k \in 1 .. n : q[k] = r[k]
  BY <1>2, <1>5 DEF RoleOfNext
<1> HIDE DEF n
<1>7. q[n + 1] = RoleFor(t)
  BY <1>1, <1>2, RoleOfToken DEF n
<1>8. First(expr', q, n + 1 + 1) <=> t = "(" \/ RoleFor(t) = "binary"
  <2>1. n + 1 + 1 # 1 /\ n + 1 + 1 - 1 = n + 1
    BY <1>5
  <2> QED
    BY <1>5, <1>7, <2>1 DEF First
<1>9. t = "(" => RoleFor(t) = "other"
  BY DEF RoleFor, UnaryOps, BinaryOps
<1>10. StateFits(q)'
  <2>1. Len(expr') = n + 1
    BY <1>5
  <2>2. state' = "UNARY_OR_VALUE" <=> First(expr', q, Len(expr') + 1)
    BY <1>8, <2>1
  <2>3. state' = "VALUE" <=> ~First(expr', q, Len(expr') + 1) /\ q[Len(expr')] = "unary"
    BY <1>7, <1>8, <1>9, <2>1
  <2> QED
    BY <2>2, <2>3 DEF StateFits
<1>11. ZeroIn(q)' <=> ZeroIn(r) \/ IsZero(t)
  <2>1. ZeroIn(q)' <=> \E i \in 1 .. n + 1 : expr'[i] \notin Signs /\ q[i] = "other" /\ IsUnvalued(expr'[i])
    BY <1>5 DEF ZeroIn, IsUnvalued
  <2>2. ZeroIn(r) <=> \E i \in 1 .. n : expr[i] \notin Signs /\ r[i] = "other" /\ IsUnvalued(expr[i])
    BY <1>5 DEF ZeroIn
  <2>3. \A i : i \in 1 .. n + 1 <=> i \in 1 .. n \/ i = n + 1
    BY <1>5
  <2>4. IsZero(t) <=> expr'[n + 1] \notin Signs /\ q[n + 1] = "other" /\ IsUnvalued(expr'[n + 1])
    BY <1>5, <1>7 DEF IsZero
  <2> QED
    BY <1>5, <1>6, <2>1, <2>2, <2>3, <2>4
<1>12. replaced' <=> ZeroIn(q)'
  BY <1>1, <1>11
<1> QED
  BY <1>4, <1>5, <1>10, <1>12 DEF ReadSoFar

LEMMA NothingRead ==
  \E r : IsRole(<<>>, r) /\ First(<<>>, r, Len(<<>>) + 1)
<1> DEFINE r == [k \in DOMAIN <<>> |-> "other"]
<1>1. DOMAIN <<>> = {} /\ Len(<<>>) = 0
  OBVIOUS
<1>2. IsRole(<<>>, r)
  BY <1>1 DEF IsRole
<1>3. First(<<>>, r, Len(<<>>) + 1)
  BY <1>1 DEF First
<1> QED
  BY <1>2, <1>3

LEMMA InvZeroStep == InvZero /\ [Next]_vars => InvZero'
<1> SUFFICES ASSUME InvZero, [Next]_vars PROVE InvZero'
  OBVIOUS
<1>1. CASE UNCHANGED vars
  <2>1. /\ expr' = expr /\ state' = state /\ replaced' = replaced /\ ret' = ret
    BY <1>1 DEF vars
  <2>2. ReadSoFar => ReadSoFar'
    BY <2>1 DEF ReadSoFar, StateFits, ZeroIn
  <2>3. ZeroReported => ZeroReported'
    BY <2>1 DEF ZeroReported, Returned
  <2> QED
    BY <2>1, <2>2, <2>3 DEF InvZero, Running
<1>2. CASE Begin
  <2>1. expr' = <<>> /\ state' = "UNARY_OR_VALUE" /\ replaced' = FALSE /\ ret' = "running"
    BY <1>2 DEF Begin
  <2>2. PICK r : IsRole(<<>>, r) /\ First(<<>>, r, Len(<<>>) + 1)
    BY NothingRead
  <2>3. expr' \in Seq(Tokens) /\ DOMAIN expr' = {}
    BY <2>1
  <2>4. ReadSoFar'
    BY <2>1, <2>2, <2>3 DEF ReadSoFar, StateFits, ZeroIn
  <2> QED
    BY <2>1, <2>4 DEF InvZero, ZeroReported, Returned
<1>3. ASSUME NEW t \in Tokens, Running, expr' = Append(expr, t), ret' = ret,
             state' \in {"UNARY_OR_VALUE", "VALUE", "BINARY"}, replaced' \in BOOLEAN,
             state' = "UNARY_OR_VALUE" <=> t = "(" \/ RoleFor(t) = "binary",
             state' = "VALUE" <=> t # "(" /\ RoleFor(t) = "unary",
             replaced' <=> replaced \/ IsZero(t)
      PROVE  InvZero'
  <2>1. ReadSoFar
    BY <1>3 DEF InvZero
  <2>2. ReadSoFar'
    BY <1>3, <2>1, TokenTaken
  <2> QED
    BY <1>3, <2>2 DEF InvZero, Running, ZeroReported, Returned
<1>4. ASSUME Running
      PROVE  replaced \in BOOLEAN /\ state \in {"UNARY_OR_VALUE", "VALUE", "BINARY"}
  BY <1>4 DEF InvZero, ReadSoFar, StateFits
<1>5. CASE OnOpen
  <2>1. /\ Running /\ "(" \in Tokens /\ expr' = Append(expr, "(") /\ state # "BINARY"
        /\ state' = "UNARY_OR_VALUE" /\ replaced' = replaced /\ ret' = ret
    BY <1>5 DEF OnOpen, Take, Push
  <2>2. ~IsZero("(")
    BY DEF IsZero, Signs
  <2> QED
    BY <1>3, <1>4, <2>1, <2>2
<1>6. CASE OnClose
  <2>1. /\ Running /\ ")" \in Tokens /\ expr' = Append(expr, ")") /\ state = "BINARY"
        /\ state' = state /\ replaced' = replaced /\ ret' = ret
    BY <1>6 DEF OnClose, Take
  <2>2. ~IsZero(")") /\ RoleFor(")") = "other"
    BY DEF IsZero, Signs, RoleFor, UnaryOps, BinaryOps
  <2> QED
    BY <1>3, <1>4, <2>1, <2>2
<1>7. CASE \E t \in Tokens : OnUnaryOp(t)
  <2>1. PICK t \in Tokens : OnUnaryOp(t)
    BY <1>7
  <2>2. /\ Running /\ expr' = Append(expr, t) /\ state = "UNARY_OR_VALUE" /\ t \in UnaryOps
        /\ state' = "VALUE" /\ replaced' = replaced /\ ret' = ret
    BY <2>1 DEF OnUnaryOp, Take
  <2>3. t # "(" /\ RoleFor(t) = "unary" /\ ~IsZero(t)
    BY <2>2 DEF IsZero, RoleFor, UnaryOps
  <2> QED
    BY <1>3, <1>4, <2>2, <2>3
<1>8. CASE \E t \in Tokens : OnValue(t)
  <2>1. PICK t \in Tokens : OnValue(t)
    BY <1>8
  <2>2. /\ Running /\ expr' = Append(expr, t) /\ state' = "BINARY" /\ ret' = ret
        /\ replaced' = (replaced \/ IsUnvalued(t))
    BY <2>1 DEF OnValue, Take
  <2>3. t \notin Signs /\ state # "BINARY" /\ (state = "UNARY_OR_VALUE" => t \notin UnaryOps)
    BY <2>1 DEF OnValue, IsOperand
  <2>4. t # "(" /\ RoleFor(t) = "other"
    BY <2>3 DEF Signs, RoleFor
  <2>5. IsZero(t) <=> IsUnvalued(t)
    BY <2>3, <2>4 DEF IsZero
  <2>6. replaced' \in BOOLEAN
    BY <2>2
  <2>7. replaced' <=> replaced \/ IsZero(t)
    BY <2>2, <2>5, Zenon
  <2> QED
    BY <1>3, <2>2, <2>4, <2>6, <2>7
<1>9. CASE \E t \in Tokens : OnBinaryOp(t)
  <2>1. PICK t \in Tokens : OnBinaryOp(t)
    BY <1>9
  <2>2. /\ Running /\ expr' = Append(expr, t) /\ state = "BINARY" /\ t \in BinaryOps
        /\ state' = "UNARY_OR_VALUE" /\ replaced' = replaced /\ ret' = ret
    BY <2>1 DEF OnBinaryOp, Take, Push
  <2>3. t # "(" /\ RoleFor(t) = "binary" /\ ~IsZero(t)
    BY <2>2 DEF IsZero, RoleFor, BinaryOps
  <2> QED
    BY <1>3, <1>4, <2>2, <2>3
<1>10. CASE Return
  <2>1. ReadSoFar /\ expr' = expr /\ ret' = IF replaced THEN "ANY_REPLACED_ZERO" ELSE "NUM"
    BY <1>10 DEF Return, InvZero
  <2>2. PICK r : IsRole(expr, r) /\ (replaced <=> ZeroIn(r))
    BY <2>1 DEF ReadSoFar
  <2>3. expr \in Seq(Tokens)
    BY <2>1 DEF ReadSoFar
  <2>4. Role(expr) = r
    BY <2>2, <2>3, RoleIs
  <2>5. ret' = "ANY_REPLACED_ZERO" <=> ZeroIn(Role(expr))
    BY <2>1, <2>2, <2>4
  <2>6. ZeroReported'
    BY <2>1, <2>5 DEF ZeroReported, ZeroIn, IsUnvalued
  <2>7. ~Running'
    BY <2>1 DEF Running
  <2> QED
    BY <2>6, <2>7 DEF InvZero
<1>11. CASE CannotReturn \/ \E t \in Tokens : ReturnError(t) \/ Misplaced(t) \/ StackFull(t) \/ CannotReduce(t)
  <2>1. ret' \in {"ABORT", "assert"}
    BY <1>11 DEF CannotReturn, ReturnError, Misplaced, StackFull, CannotReduce, Stop
  <2> QED
    BY <2>1 DEF InvZero, Running, ZeroReported, Returned
<1> QED
  BY <1>1, <1>2, <1>5, <1>6, <1>7, <1>8, <1>9, <1>10, <1>11 DEF Next

LEMMA InvZeroInit == Init => InvZero
<1> SUFFICES ASSUME Init PROVE InvZero
  OBVIOUS
<1>1. expr = <<>> /\ state = "UNARY_OR_VALUE" /\ replaced = FALSE /\ ret = "running"
  BY DEF Init
<1>2. PICK r : IsRole(<<>>, r) /\ First(<<>>, r, Len(<<>>) + 1)
  BY NothingRead
<1>3. expr \in Seq(Tokens) /\ DOMAIN expr = {}
  BY <1>1
<1>4. ReadSoFar
  BY <1>1, <1>2, <1>3 DEF ReadSoFar, StateFits, ZeroIn
<1> QED
  BY <1>1, <1>4 DEF InvZero, ZeroReported, Returned

\* asm/calc.h: TYPE_NUM_ANY_REPLACED_ZERO is returned exactly for an expression
\* in which a name without a value counts as zero.
THEOREM ZeroReportedHolds == Spec => []ZeroReported
<1>1. InvZero => ZeroReported
  BY DEF InvZero
<1> QED
  BY <1>1, InvZeroInit, InvZeroStep, PTL DEF Spec
------------------------------------------------------------------------------
(* StackClimbs: each entry of the stack stands for a place of the expression, *)
(* and Waits says that no operator of a lower or equal priority comes behind. *)

LEMMA DepthType ==
  ASSUME NEW e, NEW k \in Nat
  PROVE  Depth(e, k) \in Int
<1> DEFINE A(b) == {i \in 1 .. k - 1 : e[i] = b}
<1>1. IsFiniteSet(1 .. k - 1)
  BY FS_Interval
<1>2. \A b : A(b) \in SUBSET (1 .. k - 1)
  OBVIOUS
<1> HIDE DEF A
<1>3. \A b : Cardinality(A(b)) \in Nat
  BY <1>1, <1>2, FS_Subset, FS_CardinalityType
<1>4. Depth(e, k) = Cardinality(A("(")) - Cardinality(A(")"))
  BY DEF Depth, A
<1> QED
  BY <1>3, <1>4

LEMMA DepthFirst == ASSUME NEW e PROVE Depth(e, 1) = 0
<1>1. \A b : {i \in 1 .. 1 - 1 : e[i] = b} = {}
  OBVIOUS
<1> QED
  BY <1>1, FS_EmptySet DEF Depth

\* The depth behind a token.
LEMMA DepthStep ==
  ASSUME NEW e, NEW k \in Nat \ {0}
  PROVE  /\ e[k] = "(" => Depth(e, k + 1) = Depth(e, k) + 1
         /\ e[k] = ")" => Depth(e, k + 1) = Depth(e, k) - 1
         /\ e[k] \notin {"(", ")"} => Depth(e, k + 1) = Depth(e, k)
<1> DEFINE A(b, n) == {i \in 1 .. n - 1 : e[i] = b}
<1>1. IsFiniteSet(1 .. k - 1)
  BY FS_Interval
<1>2. \A b : A(b, k) \in SUBSET (1 .. k - 1)
  OBVIOUS
<1>3. \A b : e[k] = b => A(b, k + 1) = A(b, k) \cup {k} /\ k \notin A(b, k)
  OBVIOUS
<1>4. \A b : e[k] # b => A(b, k + 1) = A(b, k)
  OBVIOUS
<1>5. Depth(e, k) = Cardinality(A("(", k)) - Cardinality(A(")", k))
  BY DEF Depth
<1>6. Depth(e, k + 1) = Cardinality(A("(", k + 1)) - Cardinality(A(")", k + 1))
  BY DEF Depth
<1> HIDE DEF A
<1>7. \A b : IsFiniteSet(A(b, k)) /\ Cardinality(A(b, k)) \in Nat
  BY <1>1, <1>2, FS_Subset, FS_CardinalityType
<1>8. \A b : e[k] = b => Cardinality(A(b, k + 1)) = Cardinality(A(b, k)) + 1
  BY <1>3, <1>7, FS_AddElement
<1> QED
  BY <1>4, <1>5, <1>6, <1>7, <1>8

LEMMA DepthKept ==
  ASSUME NEW T, NEW e \in Seq(T), NEW t \in T, NEW k \in 1 .. Len(e) + 1
  PROVE  Depth(Append(e, t), k) = Depth(e, k)
<1>1. \A i \in 1 .. k - 1 : Append(e, t)[i] = e[i]
  OBVIOUS
<1>2. \A b : {i \in 1 .. k - 1 : Append(e, t)[i] = b} = {i \in 1 .. k - 1 : e[i] = b}
  BY <1>1
<1> QED
  BY <1>2 DEF Depth

\* What Waits says of two operators, by their places.
Waiting(e, r, a, c) ==
  /\ r[a] = "binary" /\ r[c] = "binary"
  /\ \A i \in a .. c : Depth(e, i) >= Depth(e, a)
  /\ Depth(e, c) = Depth(e, a) /\ Prior(e[c]) <= Prior(e[a])
  /\ \A b \in a + 1 .. c - 1 :
       r[b] = "binary" /\ Depth(e, b) = Depth(e, a) => Prior(e[b]) >= Prior(e[a])
  /\ \E b \in a + 1 .. c - 1 :
       r[b] = "binary" /\ Depth(e, b) = Depth(e, a) /\ Prior(e[b]) > Prior(e[a])

LEMMA WaitsAre ==
  ASSUME NEW e
  PROVE  \A w : w \in Waits(e) <=> \E a, c \in 1 .. Len(e) : w = <<a, c>> /\ Waiting(e, Role(e), a, c)
<1> DEFINE r == Role(e)
           B(i, j) == {k \in i .. j : r[k] = "binary"}
           W(a, c) == LET between == {b \in B(a + 1, c - 1) : Depth(e, b) = Depth(e, a)}
                      IN  /\ \A i \in a .. c : Depth(e, i) >= Depth(e, a)
                          /\ Depth(e, c) = Depth(e, a) /\ Prior(e[c]) <= Prior(e[a])
                          /\ \A b \in between : Prior(e[b]) >= Prior(e[a])
                          /\ \E b \in between : Prior(e[b]) > Prior(e[a])
<1>1. Waits(e) = {p \in B(1, Len(e)) \X B(1, Len(e)) : W(p[1], p[2])}
  BY DEF Waits
<1>2. \A a, c : Waiting(e, r, a, c) <=> r[a] = "binary" /\ r[c] = "binary" /\ W(a, c)
  BY DEF Waiting
<1> HIDE DEF W, r
<1>3. ASSUME NEW w \in Waits(e)
      PROVE  \E a, c \in 1 .. Len(e) : w = <<a, c>> /\ Waiting(e, r, a, c)
  <2>1. w \in B(1, Len(e)) \X B(1, Len(e)) /\ W(w[1], w[2])
    BY <1>1
  <2>2. w = <<w[1], w[2]>> /\ w[1] \in B(1, Len(e)) /\ w[2] \in B(1, Len(e))
    BY <2>1
  <2> QED
    BY <1>2, <2>1, <2>2
<1>4. ASSUME NEW a \in 1 .. Len(e), NEW c \in 1 .. Len(e), Waiting(e, r, a, c)
      PROVE  <<a, c>> \in Waits(e)
  <2>1. W(<<a, c>>[1], <<a, c>>[2]) /\ <<a, c>> \in B(1, Len(e)) \X B(1, Len(e))
    BY <1>2, <1>4
  <2> QED
    BY <1>1, <2>1
<1> QED
  BY <1>3, <1>4 DEF r

\* Roles and depths of the places of an expression that another token follows.
Extends(f, q, e, r, t) ==
  /\ Len(f) = Len(e) + 1 /\ f[Len(e) + 1] = t
  /\ \A k \in 1 .. Len(e) : f[k] = e[k] /\ q[k] = r[k]
  /\ \A k \in 1 .. Len(e) + 1 : Depth(f, k) = Depth(e, k)

LEMMA WaitingKept ==
  ASSUME NEW e, Len(e) \in Nat, NEW r, NEW f, NEW q, NEW t, Extends(f, q, e, r, t),
         NEW a \in 1 .. Len(e), NEW c \in 1 .. Len(e), Waiting(e, r, a, c)
  PROVE  Waiting(f, q, a, c)
<1> DEFINE n == Len(e)
<1>1. \A i \in a .. c : i \in 1 .. n
  OBVIOUS
<1>2. \A b \in a + 1 .. c - 1 : b \in 1 .. n
  OBVIOUS
<1>3. \A i \in 1 .. n : f[i] = e[i] /\ q[i] = r[i] /\ Depth(f, i) = Depth(e, i)
  BY DEF Extends
<1>4. a \in 1 .. n /\ c \in 1 .. n
  OBVIOUS
<1> HIDE DEF n
<1> QED
  BY <1>1, <1>2, <1>3, <1>4 DEF Waiting

\* What Stranded says of two operators that wait.
LEMMA StrandedIs ==
  ASSUME NEW e
  PROVE  ~Stranded(e) <=>
           \A a, c \in 1 .. Len(e) : Waiting(e, Role(e), a, c) =>
             Associative(e[a]) /\ Prior(e[a]) = Prior(e[c]) /\ ~HasOffset(e)
<1> DEFINE Fine(a, c) == Associative(e[a]) /\ Prior(e[a]) = Prior(e[c]) /\ ~HasOffset(e)
<1>1. ~Stranded(e) <=> \A w \in Waits(e) : Fine(w[1], w[2])
  BY DEF Stranded
<1>2. \A w : w \in Waits(e) <=> \E a, c \in 1 .. Len(e) : w = <<a, c>> /\ Waiting(e, Role(e), a, c)
  BY WaitsAre
<1>3. ASSUME \A w \in Waits(e) : Fine(w[1], w[2]),
             NEW a \in 1 .. Len(e), NEW c \in 1 .. Len(e), Waiting(e, Role(e), a, c)
      PROVE  Fine(a, c)
  <2>1. <<a, c>> \in Waits(e)
    BY <1>2, <1>3
  <2>2. Fine(<<a, c>>[1], <<a, c>>[2])
    <3> HIDE DEF Fine
    <3> QED
      BY <1>3, <2>1
  <2> QED
    BY <2>2
<1>4. ASSUME \A a, c \in 1 .. Len(e) : Waiting(e, Role(e), a, c) => Fine(a, c), NEW w \in Waits(e)
      PROVE  Fine(w[1], w[2])
  <2>1. PICK a \in 1 .. Len(e), c \in 1 .. Len(e) : w = <<a, c>> /\ Waiting(e, Role(e), a, c)
    BY <1>2
  <2>2. w[1] = a /\ w[2] = c
    BY <2>1
  <2> QED
    BY <1>4, <2>1, <2>2
<1> QED
  BY <1>1, <1>3, <1>4

LEMMA StrandedKept ==
  ASSUME NEW e, Len(e) \in Nat, NEW f, NEW t, Extends(f, Role(f), e, Role(e), t), ~Stranded(f)
  PROVE  ~Stranded(e)
<1> DEFINE n == Len(e)
<1>1. n \in Nat /\ Len(f) = n + 1 /\ \A i \in 1 .. n : f[i] = e[i] /\ i \in 1 .. n + 1
  BY DEF Extends
<1>2. HasOffset(e) => HasOffset(f)
  BY <1>1 DEF HasOffset
<1>3. ASSUME NEW a \in 1 .. n, NEW c \in 1 .. n, Waiting(e, Role(e), a, c)
      PROVE  Associative(e[a]) /\ Prior(e[a]) = Prior(e[c]) /\ ~HasOffset(e)
  <2>1. Waiting(f, Role(f), a, c)
    BY <1>3, WaitingKept
  <2>2. a \in 1 .. Len(f) /\ c \in 1 .. Len(f)
    BY <1>1
  <2>3. Associative(f[a]) /\ Prior(f[a]) = Prior(f[c]) /\ ~HasOffset(f)
    BY <2>1, <2>2, StrandedIs
  <2> QED
    BY <1>1, <1>2, <2>3
<1> QED
  BY <1>3, StrandedIs

LEMMA NoneWaits == ASSUME NEW e, Waits(e) = {} PROVE ~Stranded(e)
BY DEF Stranded

LEMMA PriorOf ==
  /\ Prior("none") = 0 /\ Prior("(") = 1 /\ \A op \in BinaryOps : Prior(op) \in 2 .. 5
  /\ "(" \notin BinaryOps /\ ")" \notin BinaryOps /\ "none" \notin BinaryOps /\ "none" # "(" /\ "(" # ")"
BY DEF Prior, BinaryOps
------------------------------------------------------------------------------
(* The meaning of the tokens i .. j of an expression, without a recursion.  *)

Spans(e) == (1 .. Len(e) + 1) \X (0 .. Len(e))
Ops(e, r, i, j) == {k \in i + 1 .. j - 1 : r[k] = "binary" /\ Depth(e, k) = Depth(e, i)}
Last(e, ops) == Max({k \in ops : \A l \in ops : Prior(e[k]) <= Prior(e[l])})
Joined(op, X, Y) == UNION {BinaryOp(x, op, y) : x \in X, y \in Y}
Negated(op, X) == UNION {UnaryOp(op, x) : x \in X}

\* What Meaning takes the tokens i .. j for, m being the meaning of fewer tokens.
MeaningAt(e, r, m, i, j) ==
  LET ops == Ops(e, r, i, j)
      last == Last(e, ops)
  IN  IF i > j THEN {}
      ELSE CASE ops # {} -> Joined(e[last], m[<<i, last - 1>>], m[<<last + 1, j>>])
             [] ops = {} /\ r[i] = "unary" -> Negated(e[i], m[<<i + 1, j>>])
             [] ops = {} /\ e[i] = "(" -> m[<<i + 1, j - 1>>]
             [] OTHER -> {ValueOf(e[i])}
IsMeaning(e, r, m) == m = [s \in Spans(e) |-> MeaningAt(e, r, m, s[1], s[2])]
Mean(e) == CHOOSE m : IsMeaning(e, Role(e), m)

LEMMA MeaningChosen == \A e : Meaning(e) = Mean(e)[<<1, Len(e)>>]
BY DEF Meaning, Mean, IsMeaning, MeaningAt, Spans, Ops, Last, Joined, Negated

\* The operator that is reduced last stands between the operands.
LEMMA LastIn ==
  ASSUME NEW e, NEW r, NEW i \in Nat, NEW j \in Nat, Ops(e, r, i, j) # {},
         \A k \in i + 1 .. j - 1 : r[k] = "binary" => e[k] \in BinaryOps
  PROVE  LET ops == Ops(e, r, i, j)
             k   == Last(e, ops)
         IN  /\ k \in ops /\ k \in i + 1 .. j - 1
             /\ \A l \in ops : Prior(e[k]) <= Prior(e[l])
             /\ \A l \in ops : l > k => Prior(e[k]) < Prior(e[l])
<1> DEFINE ops == Ops(e, r, i, j)
           P == {Prior(e[k]) : k \in ops}
           low == {k \in ops : \A l \in ops : Prior(e[k]) <= Prior(e[l])}
<1>1. ops \subseteq i + 1 .. j - 1 /\ \A k \in ops : r[k] = "binary"
  BY DEF Ops
<1>2. \A k \in ops : Prior(e[k]) \in 2 .. 5
  BY <1>1, PriorOf
<1>3. P \subseteq Nat /\ P # {}
  BY <1>2
<1> HIDE DEF ops
<1>4. Min(P) \in P /\ \A y \in P : Min(P) <= y
  <2> HIDE DEF P
  <2> QED
    BY <1>3, NatMin
<1>5. low # {}
  <2>1. PICK k \in ops : Min(P) = Prior(e[k])
    BY <1>4
  <2>2. \A l \in ops : Prior(e[l]) \in P
    OBVIOUS
  <2> HIDE DEF P
  <2> QED
    BY <1>4, <2>1, <2>2
<1>6. low \subseteq ops
  OBVIOUS
<1>7. low \subseteq Int /\ \A x \in low : x <= j
  <2>1. low \subseteq i + 1 .. j - 1
    BY <1>1, <1>6
  <2> HIDE DEF low
  <2> QED
    BY <2>1
<1> DEFINE k == Max(low)
<1>8. k \in low /\ \A l \in low : l <= k
  <2>1. j \in Int
    OBVIOUS
  <2> HIDE DEF low
  <2> QED
    BY <1>5, <1>7, <2>1, IntMax
<1>9. k = Last(e, ops)
  BY DEF Last
<1> HIDE DEF k
<1>10. k \in ops /\ \A l \in ops : Prior(e[k]) <= Prior(e[l])
  BY <1>8
<1>11. ASSUME NEW l \in ops, l > k PROVE Prior(e[k]) < Prior(e[l])
  <2>1. l \notin low
    BY <1>1, <1>7, <1>8, <1>11
  <2>2. PICK y \in ops : ~(Prior(e[l]) <= Prior(e[y]))
    BY <2>1
  <2> QED
    BY <1>2, <1>10, <2>2
<1> QED
  BY <1>1, <1>9, <1>10, <1>11 DEF ops

\* The operators of an expression stand where an operator is expected.
Operators(e, r) == \A k \in 1 .. Len(e) : r[k] = "binary" => e[k] \in BinaryOps

\* Two expressions, alike up to n, and what is said of them up to n.
Alike(e, r, f, q, n) ==
  \A k \in 1 .. n : f[k] = e[k] /\ q[k] = r[k] /\ Depth(f, k) = Depth(e, k)

SameBelow(m, h, n, d) == \A a \in 1 .. n + 1, b \in 0 .. n : b - a < d => m[<<a, b>>] = h[<<a, b>>]

\* The meaning of tokens depends on that of fewer tokens.
LEMMA MeaningShorter ==
  ASSUME NEW e, NEW r, NEW f, NEW q, NEW n \in Nat, Alike(e, r, f, q, n),
         Len(e) \in Nat, n <= Len(e), Operators(e, r),
         NEW i \in 1 .. n + 1, NEW j \in 0 .. n, NEW m, NEW h, SameBelow(m, h, n, j - i)
  PROVE  MeaningAt(e, r, m, i, j) = MeaningAt(f, q, h, i, j)
<1> USE DEF SameBelow
<1>0. \A k \in 1 .. n : r[k] = "binary" => e[k] \in BinaryOps
  BY DEF Operators
<1>1. CASE i > j
  BY <1>1 DEF MeaningAt
<1>2. CASE i <= j
  <2> DEFINE ops == Ops(e, r, i, j)
             k == Last(e, ops)
  <2>1. i \in 1 .. n /\ j \in 1 .. n /\ i \in Nat /\ j \in Nat /\ ~(i > j)
    BY <1>2
  <2>2. \A l \in i + 1 .. j - 1 : l \in 1 .. n
    BY <2>1
  <2>3. f[i] = e[i] /\ q[i] = r[i] /\ Depth(f, i) = Depth(e, i)
    BY <2>1 DEF Alike
  <2>4. \A l \in i + 1 .. j - 1 : f[l] = e[l] /\ q[l] = r[l] /\ Depth(f, l) = Depth(e, l)
    BY <2>2 DEF Alike
  <2>5. Ops(f, q, i, j) = ops
    BY <2>3, <2>4 DEF Ops
  <2>6. ops \subseteq i + 1 .. j - 1
    BY DEF Ops
  <2>7. Last(f, ops) = k
    <3>1. \A l \in ops : f[l] = e[l]
      BY <2>4, <2>6
    <3> HIDE DEF ops
    <3> QED
      BY <3>1 DEF Last
  <2>8. CASE ops # {}
    <3>1. k \in i + 1 .. j - 1
      <4>1. \A l \in i + 1 .. j - 1 : r[l] = "binary" => e[l] \in BinaryOps
        BY <1>0, <2>2
      <4> QED
        BY <2>1, <2>8, <4>1, LastIn
    <3> HIDE DEF k, ops
    <3>2. m[<<i, k - 1>>] = h[<<i, k - 1>>]
      <4>1. k - 1 \in 0 .. n /\ k - 1 - i < j - i
        BY <2>1, <3>1
      <4> QED
        BY <4>1
    <3>3. m[<<k + 1, j>>] = h[<<k + 1, j>>]
      <4>1. k + 1 \in 1 .. n + 1 /\ j - (k + 1) < j - i
        BY <2>1, <3>1
      <4> QED
        BY <4>1
    <3>4. f[k] = e[k]
      BY <2>4, <3>1
    <3>5. MeaningAt(e, r, m, i, j) = Joined(e[k], m[<<i, k - 1>>], m[<<k + 1, j>>])
      BY <2>1, <2>8 DEF MeaningAt, ops, k
    <3>6. MeaningAt(f, q, h, i, j) = Joined(f[k], h[<<i, k - 1>>], h[<<k + 1, j>>])
      BY <2>1, <2>5, <2>7, <2>8 DEF MeaningAt
    <3> QED
      BY <3>2, <3>3, <3>4, <3>5, <3>6
  <2>9. CASE ops = {}
    <3> HIDE DEF k
    <3>1. i + 1 \in 1 .. n + 1 /\ j \in 0 .. n /\ j - 1 \in 0 .. n /\ j - (i + 1) < j - i /\ j - 1 - (i + 1) < j - i
      BY <2>1
    <3>2. m[<<i + 1, j>>] = h[<<i + 1, j>>] /\ m[<<i + 1, j - 1>>] = h[<<i + 1, j - 1>>]
      BY <3>1
    <3>3. Ops(e, r, i, j) = {} /\ Ops(f, q, i, j) = {}
      BY <2>5, <2>9
    <3> QED
      BY <2>1, <2>3, <3>2, <3>3 DEF MeaningAt
  <2> QED
    BY <2>8, <2>9
<1> QED
  BY <1>1, <1>2

\* m is the meaning of less than n tokens.
Partial(e, r, m, n) ==
  \A i \in 1 .. Len(e) + 1, j \in 0 .. Len(e) : j - i < n => m[<<i, j>>] = MeaningAt(e, r, m, i, j)

LEMMA MeaningIsPartial ==
  ASSUME NEW e, NEW r, NEW m, NEW n
  PROVE  IsMeaning(e, r, m) => Partial(e, r, m, n)
<1> SUFFICES ASSUME IsMeaning(e, r, m), NEW i \in 1 .. Len(e) + 1, NEW j \in 0 .. Len(e)
             PROVE  m[<<i, j>>] = MeaningAt(e, r, m, i, j)
  BY DEF Partial
<1>1. <<i, j>> \in Spans(e) /\ <<i, j>>[1] = i /\ <<i, j>>[2] = j
  BY DEF Spans
<1> DEFINE s == <<i, j>>
<1>2. m[s] = MeaningAt(e, r, m, s[1], s[2])
  BY <1>1, Zenon DEF IsMeaning
<1> QED
  BY <1>1, <1>2

LEMMA PartialGrows ==
  ASSUME NEW e, NEW r, Len(e) \in Nat, Operators(e, r), NEW n \in Nat, NEW m, Partial(e, r, m, n)
  PROVE  \E h : Partial(e, r, h, n + 1) /\ h = [s \in Spans(e) |-> h[s]]
<1> DEFINE L == Len(e)
           V(s) == IF s[2] - s[1] < n THEN m[s] ELSE MeaningAt(e, r, m, s[1], s[2])
           h == [s \in Spans(e) |-> V(s)]
<1>1. ASSUME NEW i \in 1 .. L + 1, NEW j \in 0 .. L
      PROVE  h[<<i, j>>] = IF j - i < n THEN m[<<i, j>>] ELSE MeaningAt(e, r, m, i, j)
  <2> DEFINE s == <<i, j>>
  <2>1. s \in Spans(e) /\ s[1] = i /\ s[2] = j
    BY DEF Spans
  <2> HIDE DEF s
  <2>2. h[s] = V(s)
    BY <2>1, Zenon
  <2> QED
    BY <2>1, <2>2 DEF s
<1>2. h = [s \in Spans(e) |-> h[s]]
  OBVIOUS
<1> HIDE DEF h, V
<1>3. ASSUME NEW i \in 1 .. L + 1, NEW j \in 0 .. L, j - i < n + 1
      PROVE  h[<<i, j>>] = MeaningAt(e, r, h, i, j)
  <2>1. \A a \in 1 .. L + 1, b \in 0 .. L : b - a < j - i => m[<<a, b>>] = h[<<a, b>>]
    <3> SUFFICES ASSUME NEW a \in 1 .. L + 1, NEW b \in 0 .. L, b - a < j - i PROVE m[<<a, b>>] = h[<<a, b>>]
      OBVIOUS
    <3>1. b - a < n
      BY <1>3
    <3> QED
      BY <1>1, <3>1
  <2>2. Alike(e, r, e, r, L) /\ SameBelow(m, h, L, j - i)
    BY <2>1 DEF Alike, SameBelow
  <2>3. MeaningAt(e, r, m, i, j) = MeaningAt(e, r, h, i, j)
    BY <2>2, MeaningShorter
  <2>4. j - i < n => m[<<i, j>>] = MeaningAt(e, r, m, i, j)
    BY DEF Partial, L
  <2> QED
    BY <1>1, <2>3, <2>4
<1>4. Partial(e, r, h, n + 1)
  BY <1>3 DEF Partial
<1> QED
  BY <1>2, <1>4

LEMMA MeaningExists ==
  ASSUME NEW e, NEW r, Len(e) \in Nat, Operators(e, r)
  PROVE  \E m : IsMeaning(e, r, m)
<1> DEFINE Good(n) == \E m : Partial(e, r, m, n) /\ m = [s \in Spans(e) |-> m[s]]
           D == {n \in Nat : ~Good(n)}
<1>1. Good(0)
  <2> DEFINE m == [s \in Spans(e) |-> {}]
  <2>1. ASSUME NEW i \in 1 .. Len(e) + 1, NEW j \in 0 .. Len(e), j - i < 0
        PROVE  m[<<i, j>>] = MeaningAt(e, r, m, i, j)
    <3>1. i > j
      BY <2>1
    <3>2. <<i, j>> \in Spans(e)
      BY DEF Spans
    <3>3. MeaningAt(e, r, m, i, j) = {}
      BY <3>1 DEF MeaningAt
    <3> QED
      BY <3>2, <3>3, Zenon
  <2>2. m = [s \in Spans(e) |-> m[s]]
    OBVIOUS
  <2> HIDE DEF m
  <2>3. Partial(e, r, m, 0)
    BY <2>1 DEF Partial
  <2> QED
    BY <2>2, <2>3
<1>2. D = {}
  <2> SUFFICES ASSUME D # {} PROVE FALSE
    OBVIOUS
  <2>1. Min(D) \in D /\ \A y \in D : Min(D) <= y
    <3>1. D \subseteq Nat
      OBVIOUS
    <3> HIDE DEF D
    <3> QED
      BY <3>1, NatMin
  <2> DEFINE n == Min(D)
  <2>2. n \in Nat /\ n # 0 /\ ~Good(n)
    <3>1. n \in D
      BY <2>1
    <3> HIDE DEF n, Good
    <3> QED
      BY <1>1, <3>1
  <2>3. n - 1 \in Nat /\ (n - 1) + 1 = n /\ ~(n <= n - 1)
    BY <2>2
  <2>4. Good(n - 1)
    <3>1. n - 1 \notin D
      BY <2>1, <2>3
    <3> HIDE DEF n, Good
    <3> QED
      BY <2>3, <3>1
  <2>5. PICK m : Partial(e, r, m, n - 1)
    BY <2>4
  <2> HIDE DEF n, Good
  <2>6. Good((n - 1) + 1)
    BY <2>3, <2>5, PartialGrows DEF Good
  <2> QED
    BY <2>2, <2>3, <2>6
<1>3. PICK m : Partial(e, r, m, Len(e) + 1) /\ m = [s \in Spans(e) |-> m[s]]
  <2>1. Len(e) + 1 \in Nat
    OBVIOUS
  <2>2. Good(Len(e) + 1)
    <3> HIDE DEF Good
    <3> QED
      BY <1>2, <2>1
  <2> QED
    BY <2>2
<1>4. \A s \in Spans(e) : m[s] = MeaningAt(e, r, m, s[1], s[2])
  <2> SUFFICES ASSUME NEW i \in 1 .. Len(e) + 1, NEW j \in 0 .. Len(e)
               PROVE  m[<<i, j>>] = MeaningAt(e, r, m, i, j)
    BY DEF Spans
  <2>1. j - i < Len(e) + 1
    OBVIOUS
  <2> QED
    BY <1>3, <2>1 DEF Partial
<1> DEFINE h == [s \in Spans(e) |-> MeaningAt(e, r, m, s[1], s[2])]
<1>5. m = h
  <2>1. h = [s \in Spans(e) |-> m[s]]
    BY <1>4
  <2> HIDE DEF h
  <2> QED
    BY <1>3, <2>1
<1> QED
  BY <1>5 DEF IsMeaning

\* Tokens mean the same in two expressions that are alike that far.
LEMMA MeaningAlike ==
  ASSUME NEW e, NEW r, NEW m, NEW f, NEW q, NEW h, NEW n \in Nat,
         Len(e) \in Nat, Len(f) \in Nat, n <= Len(e), n <= Len(f), Alike(e, r, f, q, n),
         Operators(e, r), IsMeaning(e, r, m), IsMeaning(f, q, h),
         NEW i \in 1 .. n + 1, NEW j \in 0 .. n
  PROVE  m[<<i, j>>] = h[<<i, j>>]
<1> DEFINE D == {d \in 0 .. n : \E a \in 1 .. n + 1, b \in 0 .. n : b - a = d /\ m[<<a, b>>] # h[<<a, b>>]}
<1>1. ASSUME NEW a \in 1 .. n + 1, NEW b \in 0 .. n
      PROVE  /\ m[<<a, b>>] = MeaningAt(e, r, m, a, b)
             /\ h[<<a, b>>] = MeaningAt(f, q, h, a, b)
  <2>1. a \in 1 .. Len(e) + 1 /\ b \in 0 .. Len(e) /\ a \in 1 .. Len(f) + 1 /\ b \in 0 .. Len(f)
    OBVIOUS
  <2>2. Partial(e, r, m, n + 1) /\ Partial(f, q, h, n + 1)
    BY MeaningIsPartial
  <2>3. b - a < n + 1
    OBVIOUS
  <2> QED
    BY <2>1, <2>2, <2>3 DEF Partial
<1>2. ASSUME NEW a \in 1 .. n + 1, NEW b \in 0 .. n, b - a < 0
      PROVE  m[<<a, b>>] = h[<<a, b>>]
  <2>1. a > b
    BY <1>2
  <2> QED
    BY <1>1, <2>1 DEF MeaningAt
<1>3. D = {}
  <2> SUFFICES ASSUME D # {} PROVE FALSE
    OBVIOUS
  <2>0. D \subseteq Nat
    OBVIOUS
  <2>1. Min(D) \in D /\ \A y \in D : Min(D) <= y
    <3> HIDE DEF D
    <3> QED
      BY <2>0, NatMin
  <2> DEFINE d == Min(D)
  <2>2. PICK a \in 1 .. n + 1, b \in 0 .. n : b - a = d /\ m[<<a, b>>] # h[<<a, b>>]
    BY <2>1
  <2>3. ASSUME NEW x \in 1 .. n + 1, NEW y \in 0 .. n, y - x < b - a
        PROVE  m[<<x, y>>] = h[<<x, y>>]
    <3>1. CASE y - x < 0
      BY <1>2, <3>1
    <3>2. CASE ~(y - x < 0)
      <4>1. y - x \in 0 .. n
        BY <3>2
      <4>2. y - x \notin D
        <5> HIDE DEF D
        <5> QED
          BY <2>0, <2>1, <2>2, <2>3, <4>1
      <4> QED
        BY <4>1, <4>2
    <3> QED
      BY <3>1, <3>2
  <2>4. SameBelow(m, h, n, b - a)
    BY <2>3 DEF SameBelow
  <2> HIDE DEF d, D
  <2>5. MeaningAt(e, r, m, a, b) = MeaningAt(f, q, h, a, b)
    BY <2>4, MeaningShorter
  <2> QED
    BY <1>1, <2>2, <2>5
<1>4. CASE j - i < 0
  BY <1>2, <1>4
<1>5. CASE ~(j - i < 0)
  <2>1. j - i \in 0 .. n
    BY <1>5
  <2>2. j - i \notin D
    <3> HIDE DEF D
    <3> QED
      BY <1>3
  <2> QED
    BY <2>1, <2>2
<1> QED
  BY <1>4, <1>5
------------------------------------------------------------------------------
(* Numbers of Width bits and their digits.                                  *)

LEMMA PowerType == \A i \in 0 .. Width : 2 ^ i \in Nat \ {0}
<1> DEFINE D == {i \in 0 .. Width : 2 ^ i \notin Nat \ {0}}
<1>1. SUFFICES ASSUME D # {} PROVE FALSE
  OBVIOUS
<1>2. D \subseteq Nat
  OBVIOUS
<1>3. Min(D) \in D /\ \A y \in D : Min(D) <= y
  <2> HIDE DEF D
  <2> QED
    BY <1>1, <1>2, NatMin
<1> DEFINE i == Min(D)
<1>4. i \in 0 .. Width /\ 2 ^ i \notin Nat \ {0}
  BY <1>3
<1>5. i # 0
  <2>1. 2 ^ 0 = 1
    OBVIOUS
  <2>2. 2 ^ 0 \in Nat \ {0}
    BY <2>1
  <2> HIDE DEF i
  <2> QED
    BY <1>4, <2>2, Zenon
<1>6. i - 1 \in 0 .. Width - 1 /\ i - 1 \in 0 .. Width /\ (i - 1) + 1 = i /\ ~(i <= i - 1)
  BY <1>4, <1>5, WidthAssumption
<1>7. 2 ^ (i - 1) \in Nat \ {0}
  <2>1. i - 1 \notin D
    BY <1>3, <1>6
  <2> HIDE DEF i
  <2> QED
    BY <1>6, <2>1
<1> HIDE DEF i, D
<1>8. 2 ^ i = 2 * 2 ^ (i - 1)
  <2>1. 2 ^ ((i - 1) + 1) = 2 * 2 ^ (i - 1)
    BY <1>6, PowersAssumption, Zenon
  <2> QED
    BY <1>6, <2>1
<1> QED
  BY <1>4, <1>7, <1>8

LEMMA DivMod ==
  ASSUME NEW x \in Int, NEW m \in Nat \ {0}
  PROVE  x % m \in 0 .. m - 1 /\ x \div m \in Int /\ x = m * (x \div m) + (x % m)
<1>1. m \in Nat /\ m > 0
  OBVIOUS
<1>2. x % m \in Int /\ x % m >= 0 /\ x % m < m /\ x \div m \in Int
  BY <1>1
<1>3. x = m * (x \div m) + (x % m)
  BY <1>1
<1> QED
  BY <1>2, <1>3

\* A remainder and a quotient that fit are the remainder and the quotient.
LEMMA DivUnique ==
  ASSUME NEW m \in Nat \ {0}, NEW q \in Int, NEW s \in 0 .. m - 1
  PROVE  (m * q + s) % m = s /\ (m * q + s) \div m = q
<1> DEFINE x == m * q + s
           p == x \div m
           t == x % m
<1>1. x \in Int /\ t \in 0 .. m - 1 /\ p \in Int /\ x = m * p + t
  <2>1. x \in Int
    OBVIOUS
  <2> HIDE DEF x
  <2> QED
    BY <2>1, DivMod
<1> HIDE DEF p, t
<1>2. m * (q - p) = t - s
  <2>1. m * (q - p) = m * q - m * p
    BY <1>1
  <2> QED
    BY <1>1, <2>1
<1>3. q = p
  <2>1. CASE q - p >= 1
    <3>1. m * (q - p) >= m
      BY <1>1, <2>1
    <3> QED
      BY <1>1, <1>2, <3>1
  <2>2. CASE q - p <= -1
    <3>1. m * (q - p) <= -m
      BY <1>1, <2>2
    <3> QED
      BY <1>1, <1>2, <3>1
  <2> QED
    BY <1>1, <2>1, <2>2
<1>4. t = s
  BY <1>1, <1>2, <1>3
<1> QED
  BY <1>3, <1>4 DEF p, t

LEMMA ModAdd ==
  ASSUME NEW a \in Int, NEW b \in Int, NEW m \in Nat \ {0}
  PROVE  /\ (a + (b % m)) % m = (a + b) % m
         /\ ((b % m) + a) % m = (b + a) % m
         /\ (a - (b % m)) % m = (a - b) % m
         /\ ((b % m) - a) % m = (b - a) % m
<1> DEFINE p == b \div m
           t == b % m
<1>1. p \in Int /\ t \in Int /\ b = m * p + t
  BY DivMod
<1> HIDE DEF p, t
<1>2. ASSUME NEW x \in Int, NEW k \in Int PROVE (x + m * k) % m = x % m
  <2> DEFINE q == x \div m
             s == x % m
  <2>1. q \in Int /\ s \in 0 .. m - 1 /\ x = m * q + s
    BY DivMod
  <2> HIDE DEF q, s
  <2>2. q + k \in Int /\ x + m * k = m * (q + k) + s
    <3>1. m * (q + k) = m * q + m * k
      BY <2>1
    <3> QED
      BY <2>1, <3>1
  <2>3. (m * (q + k) + s) % m = s
    BY <2>1, <2>2, DivUnique
  <2> QED
    BY <2>2, <2>3 DEF s
<1>3. m * p \in Int /\ -p \in Int /\ m * (-p) = -(m * p)
  BY <1>1
<1>9. a + t \in Int /\ t + a \in Int /\ a - t \in Int /\ t - a \in Int
  BY <1>1
<1>4. (a + t + m * p) % m = (a + t) % m /\ (t + a + m * p) % m = (t + a) % m
  BY <1>1, <1>2, <1>9
<1>5. (a - t + m * (-p)) % m = (a - t) % m
  BY <1>2, <1>3, <1>9
<1>6. (t - a + m * p) % m = (t - a) % m
  BY <1>1, <1>2, <1>9
<1>7. /\ a + t + m * p = a + b /\ t + a + m * p = b + a
      /\ a - t + m * (-p) = a - b /\ t - a + m * p = b - a
  BY <1>1, <1>3
<1> QED
  BY <1>4, <1>5, <1>6, <1>7 DEF t
------------------------------------------------------------------------------
(* The digits of a number: d[i] is that of 2^i.                             *)

Weights(d) == [i \in 0 .. Width - 1 |-> d[i] * 2 ^ i]
Digits(d)  == d \in [0 .. Width - 1 -> {0, 1}]
Upto(d, n) == SumFunctionOnSet(Weights(d), 0 .. n - 1)

LEMMA UptoStep ==
  ASSUME NEW d, Digits(d)
  PROVE  /\ Upto(d, 0) = 0
         /\ \A n \in 0 .. Width - 1 : Upto(d, n + 1) = d[n] * 2 ^ n + Upto(d, n)
<1>1. Upto(d, 0) = 0
  <2>1. 0 .. 0 - 1 = {}
    OBVIOUS
  <2> QED
    BY <2>1, SumEmpty DEF Upto
<1>2. ASSUME NEW n \in 0 .. Width - 1
      PROVE  Upto(d, n + 1) = d[n] * 2 ^ n + Upto(d, n)
  <2> DEFINE w == Weights(d)
  <2>0. Width \in Nat
    BY WidthAssumption
  <2>1. \A i \in 0 .. Width - 1 : w[i] = d[i] * 2 ^ i
    BY DEF Weights
  <2>2. \A i \in 0 .. Width - 1 : d[i] \in Int /\ 2 ^ i \in Int
    BY <2>0, PowerType DEF Digits
  <2>3. \A i \in 0 .. Width - 1 : w[i] \in Int
    BY <2>1, <2>2
  <2>4. 0 .. (n + 1) - 1 = (0 .. n - 1) \cup {n} /\ n \notin 0 .. n - 1
    BY <2>0
  <2>5. IsFiniteSet(0 .. n - 1)
    BY <2>0, FS_Interval
  <2>6. \A i \in (0 .. n - 1) \cup {n} : i \in 0 .. Width - 1
    BY <2>0
  <2> HIDE DEF w
  <2>7. SumFunctionOnSet(w, (0 .. n - 1) \cup {n}) = w[n] + SumFunctionOnSet(w, 0 .. n - 1)
    BY <2>3, <2>4, <2>5, <2>6, SumAdd
  <2> QED
    BY <2>1, <2>4, <2>7 DEF Upto, w
<1> QED
  BY <1>1, <1>2

LEMMA UptoBound ==
  ASSUME NEW d, Digits(d), NEW n \in 0 .. Width
  PROVE  Upto(d, n) \in 0 .. 2 ^ n - 1
<1> DEFINE Good(k) == Upto(d, k) \in 0 .. 2 ^ k - 1
           D == {k \in 0 .. Width : ~Good(k)}
<1>0. Width \in Nat
  BY WidthAssumption
<1>1. Good(0)
  <2>1. 2 ^ 0 = 1
    OBVIOUS
  <2> QED
    BY <2>1, UptoStep
<1>2. ASSUME NEW k \in 0 .. Width - 1, Good(k) PROVE Good(k + 1)
  <2>1. Upto(d, k + 1) = d[k] * 2 ^ k + Upto(d, k)
    BY UptoStep
  <2>2. d[k] \in {0, 1} /\ 2 ^ k \in Nat \ {0} /\ 2 ^ (k + 1) = 2 * 2 ^ k
    BY <1>0, PowerType, PowersAssumption DEF Digits
  <2> DEFINE p == 2 ^ k
             y == 2 ^ (k + 1)
             u == Upto(d, k)
             z == Upto(d, k + 1)
  <2>3. u \in 0 .. p - 1 /\ p \in Nat \ {0} /\ y = 2 * p /\ z = d[k] * p + u
    BY <1>2, <2>1, <2>2
  <2> HIDE DEF p, y, u, z
  <2>4. d[k] * p = 0 \/ d[k] * p = p
    BY <2>2, <2>3
  <2>5. z \in 0 .. y - 1
    BY <2>3, <2>4
  <2> QED
    BY <2>5 DEF y, z
<1> HIDE DEF Good
<1>3. D = {}
  <2> SUFFICES ASSUME D # {} PROVE FALSE
    OBVIOUS
  <2>0. D \subseteq Nat
    OBVIOUS
  <2> DEFINE k == Min(D)
  <2>1. k \in D /\ \A y \in D : k <= y
    <3> HIDE DEF D
    <3> QED
      BY <2>0, NatMin
  <2> HIDE DEF k
  <2>2. k \in 0 .. Width /\ ~Good(k) /\ k # 0
    BY <1>1, <2>1
  <2>3. k - 1 \in 0 .. Width - 1 /\ k - 1 \in 0 .. Width /\ (k - 1) + 1 = k /\ ~(k <= k - 1)
    BY <1>0, <2>2
  <2>4. Good(k - 1)
    BY <2>1, <2>3
  <2>5. Good((k - 1) + 1)
    BY <1>2, <2>3, <2>4
  <2> QED
    BY <2>2, <2>3, <2>5
<1> QED
  BY <1>3 DEF Good

\* The digits of the number that digits make are these digits.
LEMMA DigitOf ==
  ASSUME NEW d, Digits(d), NEW i \in 0 .. Width - 1
  PROVE  (Upto(d, Width) \div 2 ^ i) % 2 = d[i]
<1> DEFINE p == 2 ^ i
           v == Upto(d, i)
           High(k, h, g) == /\ h \in Int /\ g \in Int /\ 2 ^ k = p * (2 * g)
                            /\ Upto(d, k) = p * (2 * h + d[i]) + v
           Good(k) == \E h, g : High(k, h, g)
           D == {k \in i + 1 .. Width : ~Good(k)}
<1>0. /\ Width \in Nat /\ p \in Nat \ {0} /\ i \in Nat /\ d[i] \in {0, 1} /\ v \in 0 .. p - 1
      /\ i \in 0 .. Width
  BY WidthAssumption, PowerType, UptoBound DEF Digits
<1>1. Good(i + 1)
  <2>1. Upto(d, i + 1) = d[i] * p + v /\ 2 ^ (i + 1) = 2 * p
    BY UptoStep, PowersAssumption
  <2> DEFINE u == Upto(d, i + 1)
             y == 2 ^ (i + 1)
  <2>2. u = d[i] * p + v /\ y = 2 * p
    BY <2>1
  <2> HIDE DEF p, u, v, y
  <2>3. u = p * (2 * 0 + d[i]) + v /\ y = p * (2 * 1)
    BY <1>0, <2>2
  <2>4. High(i + 1, 0, 1)
    BY <2>3 DEF u, y
  <2> HIDE DEF High
  <2> QED
    BY <2>4
<1>2. ASSUME NEW k \in i + 1 .. Width - 1, Good(k)
      PROVE  Good(k + 1)
  <2>1. PICK h, g : High(k, h, g)
    BY <1>2
  <2>2. k \in 0 .. Width - 1
    BY <1>0
  <2>3. Upto(d, k + 1) = d[k] * 2 ^ k + Upto(d, k) /\ 2 ^ (k + 1) = 2 * 2 ^ k /\ d[k] \in {0, 1}
    BY <2>2, UptoStep, PowersAssumption DEF Digits
  <2> DEFINE u == Upto(d, k)
             z == Upto(d, k + 1)
             x == 2 ^ k
             y == 2 ^ (k + 1)
             hh == IF d[k] = 1 THEN h + g ELSE h
  <2>4. /\ h \in Int /\ g \in Int /\ x = p * (2 * g) /\ u = p * (2 * h + d[i]) + v
        /\ z = d[k] * x + u /\ y = 2 * x
    BY <2>1, <2>3
  <2> HIDE DEF p, u, v, x, y, z
  <2>5. y = p * (2 * (2 * g)) /\ 2 * g \in Int
    BY <1>0, <2>4
  <2>6. z = p * (2 * hh + d[i]) + v /\ hh \in Int
    <3>0. d[i] \in Int
      BY <1>0
    <3>1. CASE d[k] = 1
      <4>1. p * (2 * (h + g) + d[i]) = p * (2 * g) + p * (2 * h + d[i])
        BY <1>0, <2>4, <3>0
      <4>2. p * (2 * g) \in Int /\ p * (2 * h + d[i]) \in Int
        BY <1>0, <2>4, <3>0
      <4> QED
        BY <1>0, <2>4, <3>1, <4>1, <4>2
    <3>2. CASE d[k] = 0
      <4>1. x \in Int /\ u \in Int
        BY <1>0, <2>4, <3>0
      <4> QED
        BY <2>4, <3>2, <4>1
    <3> QED
      BY <2>3, <3>1, <3>2
  <2> HIDE DEF hh
  <2>7. High(k + 1, hh, 2 * g)
    BY <2>5, <2>6 DEF y, z
  <2> HIDE DEF High
  <2> QED
    BY <2>7
<1> HIDE DEF Good
<1>3. D = {}
  <2> SUFFICES ASSUME D # {} PROVE FALSE
    OBVIOUS
  <2>0. D \subseteq Nat
    BY <1>0
  <2> DEFINE k == Min(D)
  <2>1. k \in D /\ \A y \in D : k <= y
    <3> HIDE DEF D
    <3> QED
      BY <2>0, NatMin
  <2> HIDE DEF k, p, v
  <2>2. k \in i + 1 .. Width /\ ~Good(k) /\ k # i + 1
    BY <1>1, <2>1
  <2>3. k - 1 \in i + 1 .. Width - 1 /\ k - 1 \in i + 1 .. Width /\ (k - 1) + 1 = k /\ ~(k <= k - 1)
    BY <1>0, <2>2
  <2>4. Good(k - 1)
    BY <2>1, <2>3
  <2>5. Good((k - 1) + 1)
    BY <1>2, <2>3, <2>4
  <2> QED
    BY <2>2, <2>3, <2>5
<1>4. Width \in i + 1 .. Width
  BY <1>0
<1>5. Good(Width)
  BY <1>3, <1>4
<1>6. PICK h : h \in Int /\ Upto(d, Width) = p * (2 * h + d[i]) + v
  BY <1>5 DEF Good
<1> HIDE DEF p, v
<1>7. 2 * h + d[i] \in Int
  BY <1>0, <1>6
<1>8. Upto(d, Width) \div p = 2 * h + d[i]
  BY <1>0, <1>6, <1>7, DivUnique
<1>9. (2 * h + d[i]) % 2 = d[i]
  <2>1. d[i] \in 0 .. 2 - 1 /\ 2 \in Nat \ {0}
    BY <1>0
  <2> QED
    BY <1>6, <2>1, DivUnique
<1> QED
  BY <1>8, <1>9 DEF p
------------------------------------------------------------------------------
(* The results of the operators are numbers; the bitwise or.                *)

Bit(n, i) == (n \div 2 ^ i) % 2
OrDigits(a, b) == [i \in 0 .. Width - 1 |-> Bit(a, i) + Bit(b, i) - Bit(a, i) * Bit(b, i)]

LEMMA BitType == \A n \in Int, i \in 0 .. Width : Bit(n, i) \in {0, 1}
<1> SUFFICES ASSUME NEW n \in Int, NEW i \in 0 .. Width PROVE Bit(n, i) \in {0, 1}
  OBVIOUS
<1> DEFINE p == 2 ^ i
<1>1. p \in Nat \ {0}
  BY PowerType
<1> HIDE DEF p
<1>2. n \div p \in Int
  BY <1>1, DivMod
<1>3. (n \div p) % 2 \in 0 .. 2 - 1 /\ 2 \in Nat \ {0}
  BY <1>2, DivMod
<1> QED
  BY <1>3 DEF Bit, p

LEMMA OrType ==
  ASSUME NEW a \in Int, NEW b \in Int
  PROVE  Digits(OrDigits(a, b))
<1>1. ASSUME NEW i \in 0 .. Width - 1 PROVE Bit(a, i) + Bit(b, i) - Bit(a, i) * Bit(b, i) \in {0, 1}
  <2>1. Bit(a, i) \in {0, 1} /\ Bit(b, i) \in {0, 1}
    BY BitType, WidthAssumption
  <2> QED
    BY <2>1
<1> QED
  BY <1>1 DEF Digits, OrDigits

LEMMA BitOrIs ==
  ASSUME NEW a \in Int, NEW b \in Int
  PROVE  BitOr(a, b) = Upto(OrDigits(a, b), Width)
<1> DEFINE d == OrDigits(a, b)
           w == [i \in 0 .. Width - 1 |-> (Bit(a, i) + Bit(b, i) - Bit(a, i) * Bit(b, i)) * 2 ^ i]
<1>1. \A i \in 0 .. Width - 1 : d[i] = Bit(a, i) + Bit(b, i) - Bit(a, i) * Bit(b, i)
  BY DEF OrDigits
<1>2. w = Weights(d)
  <2> HIDE DEF d
  <2> QED
    BY <1>1 DEF Weights
<1>3. BitOr(a, b) = SumFunctionOnSet(w, 0 .. Width - 1)
  BY DEF BitOr, Bit
<1> QED
  BY <1>2, <1>3 DEF Upto

LEMMA BitOrBound ==
  ASSUME NEW a \in Int, NEW b \in Int
  PROVE  /\ BitOr(a, b) \in Numbers /\ BitOr(a, b) \in Int
         /\ \A i \in 0 .. Width - 1 : Bit(BitOr(a, b), i) = OrDigits(a, b)[i]
<1>1. Digits(OrDigits(a, b)) /\ Width \in 0 .. Width
  BY OrType, WidthAssumption
<1>2. Upto(OrDigits(a, b), Width) \in 0 .. 2 ^ Width - 1
  BY <1>1, UptoBound
<1>3. \A i \in 0 .. Width - 1 : Bit(Upto(OrDigits(a, b), Width), i) = OrDigits(a, b)[i]
  BY <1>1, DigitOf DEF Bit
<1> QED
  BY <1>2, <1>3, BitOrIs DEF Numbers

LEMMA BitOrAssociative ==
  ASSUME NEW a \in Int, NEW b \in Int, NEW c \in Int
  PROVE  BitOr(a, BitOr(b, c)) = BitOr(BitOr(a, b), c)
<1> DEFINE x == BitOr(a, b)
           y == BitOr(b, c)
<1>1. x \in Int /\ y \in Int
  BY BitOrBound
<1>2. ASSUME NEW i \in 0 .. Width - 1
      PROVE  Bit(a, i) + Bit(y, i) - Bit(a, i) * Bit(y, i) = Bit(x, i) + Bit(c, i) - Bit(x, i) * Bit(c, i)
  <2>1. /\ Bit(x, i) = Bit(a, i) + Bit(b, i) - Bit(a, i) * Bit(b, i)
        /\ Bit(y, i) = Bit(b, i) + Bit(c, i) - Bit(b, i) * Bit(c, i)
    BY BitOrBound DEF OrDigits
  <2>2. Bit(a, i) \in {0, 1} /\ Bit(b, i) \in {0, 1} /\ Bit(c, i) \in {0, 1}
    BY BitType, WidthAssumption
  <2> QED
    BY <2>1, <2>2
<1>3. OrDigits(a, y) = OrDigits(x, c)
  <2> HIDE DEF x, y
  <2> QED
    BY <1>2 DEF OrDigits
<1>4. BitOr(a, y) = Upto(OrDigits(a, y), Width) /\ BitOr(x, c) = Upto(OrDigits(x, c), Width)
  <2> HIDE DEF x, y
  <2> QED
    BY <1>1, BitOrIs
<1> QED
  BY <1>3, <1>4

LEMMA NumbersType == 2 ^ Width \in Nat \ {0} /\ Numbers \subseteq Nat /\ \A n \in Int : Wrap(n) \in Numbers
<1>1. 2 ^ Width \in Nat \ {0}
  BY PowerType, WidthAssumption
<1> DEFINE m == 2 ^ Width
<1> HIDE DEF m
<1>2. \A n \in Int : n % m \in 0 .. m - 1
  BY <1>1, DivMod DEF m
<1> QED
  BY <1>1, <1>2 DEF Numbers, Wrap, m

\* What the operators make of numbers are numbers.
LEMMA NumberOpType ==
  ASSUME NEW a \in Numbers, NEW b \in Numbers, NEW op \in BinaryOps
  PROVE  NumberOp(a, op, b) \subseteq Numbers
<1>1. a \in Nat /\ b \in Nat /\ a \in Int /\ b \in Int
  BY NumbersType
<1>2. ASSUME NEW n \in Nat \ {0} PROVE a \div n \in Numbers
  <2> DEFINE q == a \div n
             s == a % n
  <2>1. s \in 0 .. n - 1 /\ q \in Int /\ a = n * q + s
    BY <1>1, DivMod
  <2> HIDE DEF q, s
  <2>2. q >= 0
    <3>1. CASE q <= -1
      <4>1. n * q <= -n
        BY <2>1, <3>1
      <4> QED
        BY <1>1, <2>1, <4>1
    <3> QED
      BY <2>1, <3>1
  <2>3. q <= a
    <3>1. n * q >= q
      BY <2>1, <2>2
    <3> QED
      BY <1>1, <2>1, <3>1
  <2>4. q \in Numbers
    BY <1>1, <2>1, <2>2, <2>3, NumbersType DEF Numbers
  <2> QED
    BY <2>4 DEF q
<1>3. CASE op \in {"+", "-", "*"}
  <2>1. a + b \in Int /\ a - b \in Int /\ a * b \in Int
    BY <1>1
  <2> QED
    BY <1>3, <2>1, NumbersType DEF NumberOp
<1>4. CASE op = "/"
  <2>1. b # 0 => a \div b \in Numbers
    BY <1>1, <1>2
  <2> QED
    BY <1>4, <2>1 DEF NumberOp
<1>5. CASE op = "|"
  <2>1. BitOr(a, b) \in Numbers
    BY <1>1, BitOrBound
  <2> QED
    BY <1>5, <2>1 DEF NumberOp
<1>6. CASE op \in {"<<", ">>"}
  <2>1. b < Width => 2 ^ b \in Nat \ {0}
    BY <1>1, PowerType, WidthAssumption
  <2> DEFINE p == 2 ^ b
  <2>2. b < Width => p \in Nat \ {0}
    BY <2>1
  <2> HIDE DEF p
  <2>3. b < Width => a \div p \in Numbers
    BY <1>2, <2>2
  <2>4. b < Width => Wrap(a * p) \in Numbers
    <3>1. b < Width => a * p \in Int
      BY <1>1, <2>2
    <3> QED
      BY <3>1, NumbersType
  <2> QED
    BY <1>6, <2>3, <2>4 DEF NumberOp, p
<1> QED
  BY <1>3, <1>4, <1>5, <1>6 DEF BinaryOps
------------------------------------------------------------------------------
(* Operations on numbers that may be regrouped: a + (b - c).                *)

NumSet == {Num(n) : n \in Numbers}

LEMMA NumIs == \A n : Num(n).type = "NUM" /\ Num(n).number = n
BY DEF Num

LEMMA NumbersJoin ==
  ASSUME NEW a, NEW b, NEW op
  PROVE  BinaryOp(Num(a), op, Num(b)) = {Num(n) : n \in NumberOp(a, op, b)}
<1>1. Num(a).type = "NUM" /\ Num(b).type = "NUM" /\ Num(a).number = a /\ Num(b).number = b
  BY NumIs
<1> QED
  BY <1>1 DEF BinaryOp

LEMMA JoinedNumbers ==
  ASSUME NEW x \in NumSet, NEW y \in NumSet, NEW op \in BinaryOps
  PROVE  BinaryOp(x, op, y) \subseteq NumSet
<1>1. PICK a \in Numbers, b \in Numbers : x = Num(a) /\ y = Num(b)
  BY DEF NumSet
<1>2. NumberOp(a, op, b) \subseteq Numbers
  BY NumberOpType
<1>3. BinaryOp(x, op, y) = {Num(n) : n \in NumberOp(a, op, b)}
  BY <1>1, NumbersJoin
<1> QED
  BY <1>2, <1>3 DEF NumSet

LEMMA NegatedNumbers ==
  ASSUME NEW x \in NumSet, NEW op \in UnaryOps
  PROVE  UnaryOp(op, x) \subseteq NumSet
<1>1. PICK a \in Numbers : x = Num(a)
  BY DEF NumSet
<1>2. a \in Nat /\ -a \in Int /\ 2 ^ Width \in Nat /\ a <= 2 ^ Width - 1
  BY NumbersType DEF Numbers
<1>3. Wrap(-a) \in Numbers
  BY <1>2, NumbersType
<1>4. 2 ^ Width - 1 - a \in Numbers
  BY <1>2 DEF Numbers
<1>5. x.type = "NUM" /\ x.number = a
  BY <1>1, NumIs
<1>6. UnaryOp(op, x) = {Num(IF op = "+" THEN a ELSE IF op = "-" THEN Wrap(-a) ELSE 2 ^ Width - 1 - a)}
  BY <1>5 DEF UnaryOp, UnaryOps
<1> QED
  BY <1>3, <1>4, <1>6 DEF NumSet

\* x + (y - z) is (x + y) - z, and so on.
LEMMA Regroup ==
  ASSUME NEW x \in NumSet, NEW y \in NumSet, NEW z \in NumSet, NEW a \in BinaryOps, NEW b \in BinaryOps,
         Associative(a), Prior(a) = Prior(b), NEW w \in BinaryOp(y, b, z)
  PROVE  BinaryOp(x, a, w) \subseteq UNION {BinaryOp(u, b, z) : u \in BinaryOp(x, a, y)}
<1>1. PICK k \in Numbers, m \in Numbers, n \in Numbers : x = Num(k) /\ y = Num(m) /\ z = Num(n)
  BY DEF NumSet
<1>2. k \in Int /\ m \in Int /\ n \in Int
  BY NumbersType
<1>3. (a = "+" /\ b = "+") \/ (a = "+" /\ b = "-") \/ (a = "|" /\ b = "|")
  BY DEF Associative, Prior, BinaryOps
<1>4. PICK v \in NumberOp(m, b, n) : w = Num(v)
  BY <1>1, NumbersJoin
<1>5. \E u \in NumberOp(k, a, m) : NumberOp(k, a, v) = NumberOp(u, b, n)
  <2>0. 2 ^ Width \in Nat \ {0}
    BY NumbersType
  <2> DEFINE M == 2 ^ Width
  <2>1. CASE a = "+" /\ b = "+"
    <3>1. v = Wrap(m + n) /\ NumberOp(k, a, v) = {Wrap(k + v)} /\ NumberOp(k, a, m) = {Wrap(k + m)}
          /\ NumberOp(Wrap(k + m), b, n) = {Wrap(Wrap(k + m) + n)}
      BY <1>4, <2>1 DEF NumberOp
    <3>2. Wrap(k + Wrap(m + n)) = Wrap(Wrap(k + m) + n)
      <4>1. k + m \in Int /\ m + n \in Int /\ k + (m + n) = (k + m) + n /\ M \in Nat \ {0}
        BY <1>2, <2>0
      <4> HIDE DEF M
      <4>2. (k + ((m + n) % M)) % M = (k + (m + n)) % M /\ (((k + m) % M) + n) % M = ((k + m) + n) % M
        BY <1>2, <4>1, ModAdd
      <4> QED
        BY <4>1, <4>2 DEF Wrap, M
    <3> QED
      BY <3>1, <3>2
  <2>2. CASE a = "+" /\ b = "-"
    <3>1. v = Wrap(m - n) /\ NumberOp(k, a, v) = {Wrap(k + v)} /\ NumberOp(k, a, m) = {Wrap(k + m)}
          /\ NumberOp(Wrap(k + m), b, n) = {Wrap(Wrap(k + m) - n)}
      BY <1>4, <2>2 DEF NumberOp
    <3>2. Wrap(k + Wrap(m - n)) = Wrap(Wrap(k + m) - n)
      <4>1. k + m \in Int /\ m - n \in Int /\ k + (m - n) = (k + m) - n /\ M \in Nat \ {0}
        BY <1>2, <2>0
      <4> HIDE DEF M
      <4>2. (k + ((m - n) % M)) % M = (k + (m - n)) % M /\ (((k + m) % M) - n) % M = ((k + m) - n) % M
        BY <1>2, <4>1, ModAdd
      <4> QED
        BY <4>1, <4>2 DEF Wrap, M
    <3> QED
      BY <3>1, <3>2
  <2>3. CASE a = "|" /\ b = "|"
    <3>1. v = BitOr(m, n) /\ NumberOp(k, a, v) = {BitOr(k, v)} /\ NumberOp(k, a, m) = {BitOr(k, m)}
          /\ NumberOp(BitOr(k, m), b, n) = {BitOr(BitOr(k, m), n)}
      BY <1>4, <2>3 DEF NumberOp
    <3>2. BitOr(k, BitOr(m, n)) = BitOr(BitOr(k, m), n)
      BY <1>2, BitOrAssociative
    <3> QED
      BY <3>1, <3>2
  <2> QED
    BY <1>3, <2>1, <2>2, <2>3
<1>6. PICK u \in NumberOp(k, a, m) : NumberOp(k, a, v) = NumberOp(u, b, n)
  BY <1>5
<1>7. BinaryOp(x, a, w) = {Num(i) : i \in NumberOp(k, a, v)}
  BY <1>1, <1>4, NumbersJoin
<1>8. BinaryOp(Num(u), b, z) = {Num(i) : i \in NumberOp(u, b, n)}
  BY <1>1, NumbersJoin
<1>9. BinaryOp(x, a, y) = {Num(i) : i \in NumberOp(k, a, m)}
  BY <1>1, NumbersJoin
<1>10. Num(u) \in BinaryOp(x, a, y)
  BY <1>9
<1> QED
  BY <1>6, <1>7, <1>8, <1>10
------------------------------------------------------------------------------
(* The meaning of the tokens i .. j by their roles.                         *)

\* What the roles of tokens tell of them.
Roles(e, r) ==
  /\ Len(e) \in Nat /\ Operators(e, r)
  /\ \A k \in 1 .. Len(e) : /\ r[k] = "unary" => e[k] \in UnaryOps
                            /\ r[k] = "binary" => ~First(e, r, k)

LEMMA RolesAre ==
  ASSUME NEW T, NEW e \in Seq(T), NEW r, IsRole(e, r)
  PROVE  Roles(e, r)
<1>1. Len(e) \in Nat /\ DOMAIN e = 1 .. Len(e)
  OBVIOUS
<1>2. \A k \in 1 .. Len(e) : r[k] = RoleAt(e, r, k)
  BY <1>1 DEF IsRole
<1>3. \A k \in 1 .. Len(e) :
        /\ r[k] = "unary" => e[k] \in UnaryOps
        /\ r[k] = "binary" => ~First(e, r, k) /\ e[k] \in BinaryOps
  BY <1>2 DEF RoleAt
<1> QED
  BY <1>1, <1>3 DEF Roles, Operators

\* The values the tokens i .. j may have.
ValuesOf(e, i, j) == Mean(e)[<<i, j>>]

LEMMA MeanIs ==
  ASSUME NEW e, Roles(e, Role(e))
  PROVE  /\ IsMeaning(e, Role(e), Mean(e))
         /\ \A i \in 1 .. Len(e) + 1, j \in 0 .. Len(e) :
              ValuesOf(e, i, j) = MeaningAt(e, Role(e), Mean(e), i, j)
<1>1. \E m : IsMeaning(e, Role(e), m)
  BY MeaningExists DEF Roles
<1>2. IsMeaning(e, Role(e), Mean(e))
  <2> DEFINE P(m) == IsMeaning(e, Role(e), m)
  <2>1. \E m : P(m)
    BY <1>1
  <2> HIDE DEF P
  <2>2. P(CHOOSE m : P(m))
    BY <2>1, Zenon
  <2> QED
    BY <2>2 DEF P, Mean
<1>3. ASSUME NEW i \in 1 .. Len(e) + 1, NEW j \in 0 .. Len(e)
      PROVE  ValuesOf(e, i, j) = MeaningAt(e, Role(e), Mean(e), i, j)
  <2>1. Partial(e, Role(e), Mean(e), Len(e) + 1)
    BY <1>2, MeaningIsPartial
  <2>2. j - i < Len(e) + 1
    BY DEF Roles
  <2> QED
    BY <2>1, <2>2 DEF Partial, ValuesOf
<1> QED
  BY <1>2, <1>3

LEMMA MeanKept ==
  ASSUME NEW e, NEW f, NEW t, Roles(e, Role(e)), Roles(f, Role(f)), Extends(f, Role(f), e, Role(e), t),
         NEW i \in 1 .. Len(e) + 1, NEW j \in 0 .. Len(e)
  PROVE  ValuesOf(f, i, j) = ValuesOf(e, i, j)
<1> DEFINE n == Len(e)
<1>1. n \in Nat /\ Len(f) \in Nat /\ n <= Len(f) /\ n <= n
  BY DEF Roles, Extends
<1>2. \A k \in 1 .. n : f[k] = e[k] /\ Role(f)[k] = Role(e)[k] /\ Depth(f, k) = Depth(e, k)
  BY <1>1 DEF Extends
<1>3. Alike(e, Role(e), f, Role(f), n)
  BY <1>2 DEF Alike
<1>4. IsMeaning(e, Role(e), Mean(e)) /\ IsMeaning(f, Role(f), Mean(f))
  BY MeanIs
<1>5. Operators(e, Role(e))
  BY DEF Roles
<1> HIDE DEF n
<1>6. Mean(e)[<<i, j>>] = Mean(f)[<<i, j>>]
  BY <1>1, <1>3, <1>4, <1>5, MeaningAlike DEF n
<1> QED
  BY <1>6 DEF ValuesOf

\* One operand, one with a sign, one in brackets.
LEMMA MeanOperand ==
  ASSUME NEW e, Roles(e, Role(e)), NEW i \in 1 .. Len(e), Role(e)[i] = "other", e[i] # "("
  PROVE  ValuesOf(e, i, i) = {ValueOf(e[i])}
<1>1. i \in 1 .. Len(e) + 1 /\ i \in 0 .. Len(e) /\ ~(i > i)
  BY DEF Roles
<1>2. Ops(e, Role(e), i, i) = {}
  BY <1>1 DEF Ops
<1> QED
  BY <1>1, <1>2, MeanIs DEF MeaningAt

LEMMA MeanSigned ==
  ASSUME NEW e, Roles(e, Role(e)), NEW i \in 1 .. Len(e), NEW j \in i .. Len(e),
         Role(e)[i] = "unary", Ops(e, Role(e), i, j) = {}
  PROVE  ValuesOf(e, i, j) = Negated(e[i], ValuesOf(e, i + 1, j))
<1>1. i \in 1 .. Len(e) + 1 /\ j \in 0 .. Len(e) /\ ~(i > j)
  BY DEF Roles
<1>2. ValuesOf(e, i, j) = MeaningAt(e, Role(e), Mean(e), i, j)
  BY <1>1, MeanIs
<1>3. e[i] \in UnaryOps /\ "(" \notin UnaryOps
  BY DEF Roles, UnaryOps
<1>4. MeaningAt(e, Role(e), Mean(e), i, j) = Negated(e[i], Mean(e)[<<i + 1, j>>])
  BY <1>1, <1>3 DEF MeaningAt
<1> QED
  BY <1>2, <1>4 DEF ValuesOf

LEMMA MeanBracket ==
  ASSUME NEW e, Roles(e, Role(e)), NEW i \in 1 .. Len(e), NEW j \in i .. Len(e),
         e[i] = "(", Ops(e, Role(e), i, j) = {}
  PROVE  ValuesOf(e, i, j) = ValuesOf(e, i + 1, j - 1)
<1>1. i \in 1 .. Len(e) + 1 /\ j \in 0 .. Len(e) /\ ~(i > j)
  BY DEF Roles
<1>2. Role(e)[i] # "unary"
  <2>1. "(" \notin UnaryOps
    BY DEF UnaryOps
  <2> QED
    BY <2>1 DEF Roles
<1>3. ValuesOf(e, i, j) = MeaningAt(e, Role(e), Mean(e), i, j)
  BY <1>1, MeanIs
<1>4. MeaningAt(e, Role(e), Mean(e), i, j) = Mean(e)[<<i + 1, j - 1>>]
  BY <1>1, <1>2 DEF MeaningAt
<1> QED
  BY <1>3, <1>4 DEF ValuesOf

\* Without an offset all values are numbers.
LEMMA ValueIsNumber ==
  ASSUME NEW t, ValueOf(t).type # "SEGMENT"
  PROVE  ValueOf(t) \in NumSet
<1>1. CASE t \in DOMAIN Numeral
  BY <1>1, NumbersAssumption DEF ValueOf, NumSet, IsUnvalued
<1>2. CASE t \notin DOMAIN Numeral /\ IsUnvalued(t)
  <2>1. 0 \in Numbers
    <3>1. 2 ^ Width \in Nat \ {0}
      BY NumbersType
    <3> QED
      BY <3>1 DEF Numbers
  <2> QED
    BY <1>2, <2>1 DEF ValueOf, NumSet
<1>3. CASE t \notin DOMAIN Numeral /\ ~IsUnvalued(t)
  <2>1. t \in DOMAIN Symbol
    BY <1>3 DEF IsUnvalued
  <2>2. Symbol[t].type = "NUM"
    BY <1>3 DEF ValueOf, Seg
  <2>3. ValueOf(t) = Num(Symbol[t].number)
    BY <1>3, <2>2 DEF ValueOf
  <2>4. Symbol[t].number \in Numbers
    BY <2>1, <2>2, NumbersAssumption
  <2> QED
    BY <2>3, <2>4 DEF NumSet
<1> QED
  BY <1>1, <1>2, <1>3

LEMMA NumbersOnly ==
  ASSUME NEW e, Roles(e, Role(e)), ~HasOffset(e), NEW i \in 1 .. Len(e) + 1, NEW j \in 0 .. Len(e)
  PROVE  ValuesOf(e, i, j) \subseteq NumSet
<1> DEFINE n == Len(e)
           r == Role(e)
           D == {d \in 0 .. n : \E a \in 1 .. n + 1, b \in 0 .. n : b - a = d /\ ~(ValuesOf(e, a, b) \subseteq NumSet)}
<1>0. n \in Nat
  BY DEF Roles
<1>1. \A a \in 1 .. n + 1, b \in 0 .. n : ValuesOf(e, a, b) = MeaningAt(e, r, Mean(e), a, b)
  BY MeanIs
<1>2. ASSUME NEW a \in 1 .. n + 1, NEW b \in 0 .. n, b - a < 0
      PROVE  ValuesOf(e, a, b) \subseteq NumSet
  <2>1. a > b
    BY <1>0, <1>2
  <2> QED
    BY <1>1, <2>1 DEF MeaningAt
<1>3. D = {}
  <2> SUFFICES ASSUME D # {} PROVE FALSE
    OBVIOUS
  <2>0. D \subseteq Nat
    OBVIOUS
  <2>1. Min(D) \in D /\ \A y \in D : Min(D) <= y
    <3> HIDE DEF D
    <3> QED
      BY <2>0, NatMin
  <2>2. PICK a \in 1 .. n + 1, b \in 0 .. n : b - a = Min(D) /\ ~(ValuesOf(e, a, b) \subseteq NumSet)
    BY <2>1
  <2>3. a <= b /\ a \in 1 .. n
    BY <1>0, <1>2, <2>2
  <2>4. ASSUME NEW x \in 1 .. n + 1, NEW y \in 0 .. n, y - x < b - a
        PROVE  Mean(e)[<<x, y>>] \subseteq NumSet
    <3>1. ValuesOf(e, x, y) \subseteq NumSet
      <4>1. CASE y - x < 0
        BY <1>2, <4>1
      <4>2. CASE ~(y - x < 0)
        <5>1. y - x \in 0 .. n
          BY <1>0, <4>2
        <5>2. y - x \notin D
          <6> HIDE DEF D
          <6> QED
            BY <2>0, <2>1, <2>2, <2>4, <5>1
        <5> QED
          BY <5>1, <5>2
      <4> QED
        BY <4>1, <4>2
    <3> QED
      BY <3>1 DEF ValuesOf
  <2> HIDE DEF D
  <2> DEFINE ops == Ops(e, r, a, b)
             k == Last(e, ops)
  <2>5. CASE ops # {}
    <3>1. k \in a + 1 .. b - 1 /\ r[k] = "binary"
      <4>1. \A l \in a + 1 .. b - 1 : r[l] = "binary" => e[l] \in BinaryOps
        <5>1. \A l \in a + 1 .. b - 1 : l \in 1 .. n
          BY <1>0
        <5> QED
          BY <5>1 DEF Roles, Operators
      <4>2. k \in ops /\ k \in a + 1 .. b - 1
        <5>1. a \in Nat /\ b \in Nat
          BY <1>0
        <5> QED
          BY <2>5, <4>1, <5>1, LastIn
      <4>3. \A l \in ops : r[l] = "binary"
        BY DEF Ops
      <4> HIDE DEF k, ops
      <4> QED
        BY <4>2, <4>3
    <3>2. MeaningAt(e, r, Mean(e), a, b) = Joined(e[k], Mean(e)[<<a, k - 1>>], Mean(e)[<<k + 1, b>>])
      BY <2>3, <2>5 DEF MeaningAt
    <3> HIDE DEF k, ops
    <3>3. k \in 1 .. n /\ k - 1 \in 0 .. n /\ k + 1 \in 1 .. n + 1 /\ k - 1 - a < b - a /\ b - (k + 1) < b - a
      BY <1>0, <3>1
    <3>4. Mean(e)[<<a, k - 1>>] \subseteq NumSet /\ Mean(e)[<<k + 1, b>>] \subseteq NumSet
      BY <2>4, <3>3
    <3>5. e[k] \in BinaryOps
      BY <3>1, <3>3 DEF Roles, Operators
    <3>6. Joined(e[k], Mean(e)[<<a, k - 1>>], Mean(e)[<<k + 1, b>>]) \subseteq NumSet
      BY <3>4, <3>5, JoinedNumbers DEF Joined
    <3>7. ValuesOf(e, a, b) = Joined(e[k], Mean(e)[<<a, k - 1>>], Mean(e)[<<k + 1, b>>])
      BY <1>1, <3>2
    <3> QED
      BY <2>2, <3>6, <3>7
  <2>6. CASE ops = {} /\ r[a] = "unary"
    <3>0. e[a] # "("
      BY <2>3, <2>6 DEF Roles, UnaryOps
    <3>1. MeaningAt(e, r, Mean(e), a, b) = Negated(e[a], Mean(e)[<<a + 1, b>>])
      BY <2>3, <2>6, <3>0 DEF MeaningAt
    <3>2. Mean(e)[<<a + 1, b>>] \subseteq NumSet
      <4>1. a + 1 \in 1 .. n + 1 /\ b - (a + 1) < b - a
        BY <1>0, <2>3
      <4> QED
        BY <2>4, <4>1
    <3>3. e[a] \in UnaryOps
      BY <2>3, <2>6 DEF Roles
    <3>4. Negated(e[a], Mean(e)[<<a + 1, b>>]) \subseteq NumSet
      BY <3>2, <3>3, NegatedNumbers DEF Negated
    <3> QED
      BY <1>1, <2>2, <3>1, <3>4
  <2>7. CASE ops = {} /\ r[a] # "unary" /\ e[a] = "("
    <3>1. MeaningAt(e, r, Mean(e), a, b) = Mean(e)[<<a + 1, b - 1>>]
      BY <2>3, <2>7 DEF MeaningAt
    <3>2. a + 1 \in 1 .. n + 1 /\ b - 1 \in 0 .. n /\ b - 1 - (a + 1) < b - a
      BY <1>0, <2>3
    <3> QED
      BY <1>1, <2>2, <2>4, <3>1, <3>2
  <2>8. CASE ops = {} /\ r[a] # "unary" /\ e[a] # "("
    <3>1. MeaningAt(e, r, Mean(e), a, b) = {ValueOf(e[a])}
      BY <2>3, <2>8 DEF MeaningAt
    <3>2. ValueOf(e[a]) \in NumSet
      BY <2>3, ValueIsNumber DEF HasOffset
    <3> QED
      BY <1>1, <2>2, <3>1, <3>2
  <2> QED
    BY <2>5, <2>6, <2>7, <2>8
<1>4. CASE j - i < 0
  BY <1>2, <1>4
<1>5. CASE ~(j - i < 0)
  <2>1. j - i \in 0 .. n
    BY <1>0, <1>5
  <2>2. j - i \notin D
    <3> HIDE DEF D
    <3> QED
      BY <1>3
  <2> QED
    BY <2>1, <2>2
<1> QED
  BY <1>4, <1>5
------------------------------------------------------------------------------
(* Any operation that may be done first splits the meaning of the tokens.   *)

\* An operation that may be done before the others between i and j are: they
\* bind as tightly on its left, more tightly on its right, or are regrouped.
Splits(e, r, i, k, j) ==
  /\ k \in Ops(e, r, i, j)
  /\ \A l \in Ops(e, r, i, j) : l < k => Prior(e[l]) >= Prior(e[k])
  /\ \A l \in Ops(e, r, i, j) : l > k =>
       \/ Prior(e[k]) < Prior(e[l])
       \/ Associative(e[k]) /\ Prior(e[k]) = Prior(e[l]) /\ ~HasOffset(e)

LEMMA LastUnique ==
  ASSUME NEW e, NEW A, NEW B, NEW c, NEW d, B \subseteq A, A \subseteq Nat, c \in B, d \in B,
         \A l \in A : Prior(e[l]) \in Int,
         \A l \in A : Prior(e[c]) <= Prior(e[l]), \A l \in A : l > c => Prior(e[c]) < Prior(e[l]),
         \A l \in B : Prior(e[d]) <= Prior(e[l]), \A l \in B : l > d => Prior(e[d]) < Prior(e[l])
  PROVE  c = d
<1>1. c \in A /\ d \in A /\ c \in Nat /\ d \in Nat
  OBVIOUS
<1>2. Prior(e[c]) \in Int /\ Prior(e[d]) \in Int /\ Prior(e[c]) <= Prior(e[d]) /\ Prior(e[d]) <= Prior(e[c])
  BY <1>1
<1>3. ~(d > c)
  BY <1>1, <1>2
<1>4. ~(c > d)
  BY <1>2
<1> QED
  BY <1>1, <1>3, <1>4

\* The operators behind k, all of one level.
LEMMA OpsBehind ==
  ASSUME NEW e, NEW r, Roles(e, r), NEW i \in 1 .. Len(e), NEW j \in 1 .. Len(e), NEW k \in Ops(e, r, i, j)
  PROVE  /\ k \in i + 1 .. j - 1 /\ k \in 1 .. Len(e) /\ k + 1 \in 1 .. Len(e)
         /\ \A l \in Ops(e, r, i, j) : l > k => l \in Ops(e, r, k + 1, j)
         /\ \A l \in Ops(e, r, k + 1, j) : l \in Ops(e, r, i, j) /\ l > k
<1>1. k \in i + 1 .. j - 1 /\ r[k] = "binary" /\ Depth(e, k) = Depth(e, i)
  BY DEF Ops
<1>2. Len(e) \in Nat
  BY DEF Roles
<1>3. k \in 1 .. Len(e) /\ k + 1 \in 1 .. Len(e) /\ k \in Nat \ {0}
  BY <1>1, <1>2
<1>4. Depth(e, k + 1) = Depth(e, i)
  <2>1. e[k] \in BinaryOps
    BY <1>1, <1>3 DEF Roles, Operators
  <2> QED
    BY <1>1, <1>3, <2>1, DepthStep, PriorOf
<1>5. r[k + 1] # "binary"
  <2>1. k + 1 - 1 = k
    BY <1>3
  <2>2. First(e, r, k + 1)
    BY <1>1, <2>1 DEF First
  <2> QED
    BY <1>3, <2>2 DEF Roles
<1>6. ASSUME NEW l \in Ops(e, r, i, j), l > k PROVE l \in Ops(e, r, k + 1, j)
  <2>1. l \in i + 1 .. j - 1 /\ r[l] = "binary" /\ Depth(e, l) = Depth(e, i)
    BY DEF Ops
  <2>2. l \in k + 1 + 1 .. j - 1
    <3>1. l # k + 1
      BY <1>5, <2>1
    <3> QED
      BY <1>3, <1>6, <2>1, <3>1
  <2> QED
    BY <1>4, <2>1, <2>2 DEF Ops
<1>7. ASSUME NEW l \in Ops(e, r, k + 1, j) PROVE l \in Ops(e, r, i, j) /\ l > k
  <2>1. l \in k + 1 + 1 .. j - 1 /\ r[l] = "binary" /\ Depth(e, l) = Depth(e, i)
    BY <1>4 DEF Ops
  <2>2. l \in i + 1 .. j - 1 /\ l > k
    BY <1>1, <2>1
  <2> QED
    BY <2>1, <2>2 DEF Ops
<1> QED
  BY <1>1, <1>3, <1>6, <1>7

\* The same in fewer tokens.
LEMMA SplitsShorter ==
  ASSUME NEW e, NEW r, Roles(e, r), NEW i \in 1 .. Len(e), NEW j \in 1 .. Len(e), NEW k, Splits(e, r, i, k, j),
         NEW c \in Ops(e, r, k + 1, j)
  PROVE  Splits(e, r, i, k, c - 1) /\ c - 1 \in 1 .. Len(e) /\ c - 1 < j
<1>1. k \in Ops(e, r, i, j)
  BY DEF Splits
<1>2. k \in i + 1 .. j - 1 /\ c \in k + 1 + 1 .. j - 1
  BY <1>1 DEF Ops
<1>3. Ops(e, r, i, c - 1) \subseteq Ops(e, r, i, j)
  BY <1>2 DEF Ops
<1>4. k \in Ops(e, r, i, c - 1)
  BY <1>1, <1>2 DEF Ops
<1>5. c - 1 \in 1 .. Len(e) /\ c - 1 < j
  BY <1>2 DEF Roles
<1> QED
  BY <1>3, <1>4, <1>5 DEF Splits

\* The operation k of two meanings is a meaning.
LEMMA Combine ==
  ASSUME NEW e, Roles(e, Role(e)), NEW i \in 1 .. Len(e), NEW k, NEW j \in 1 .. Len(e),
         Splits(e, Role(e), i, k, j)
  PROVE  Joined(e[k], ValuesOf(e, i, k - 1), ValuesOf(e, k + 1, j)) \subseteq ValuesOf(e, i, j)
<1> DEFINE n == Len(e)
           r == Role(e)
           Bad(h) == /\ Splits(e, r, i, k, h)
                     /\ ~(Joined(e[k], ValuesOf(e, i, k - 1), ValuesOf(e, k + 1, h)) \subseteq ValuesOf(e, i, h))
           D == {h \in 1 .. n : Bad(h)}
<1>1. n \in Nat
  BY DEF Roles
<1>2. D = {}
  <2> SUFFICES ASSUME D # {} PROVE FALSE
    OBVIOUS
  <2>0. D \subseteq Nat
    OBVIOUS
  <2>1. PICK h \in D : \A y \in D : h <= y
    <3> HIDE DEF D
    <3> QED
      BY <2>0, NatMin
  <2>2. h \in 1 .. n /\ Bad(h) /\ Splits(e, r, i, k, h)
    OBVIOUS
  <2> DEFINE ops == Ops(e, r, i, h)
             c == Last(e, ops)
             X == ValuesOf(e, i, k - 1)
  <2>3. k \in ops
    BY <2>2 DEF Splits
  <2>4. \A l \in i + 1 .. h - 1 : l \in 1 .. n /\ (r[l] = "binary" => e[l] \in BinaryOps)
    <3>1. \A l \in i + 1 .. h - 1 : l \in 1 .. n
      BY <1>1, <2>2
    <3> QED
      BY <3>1 DEF Roles, Operators
  <2>5. ops \subseteq Nat /\ \A l \in ops : l \in i + 1 .. h - 1 /\ Prior(e[l]) \in Int
    <3>1. \A l \in ops : l \in i + 1 .. h - 1 /\ r[l] = "binary"
      BY DEF Ops
    <3> HIDE DEF ops
    <3>2. \A l \in ops : e[l] \in BinaryOps
      BY <2>4, <3>1
    <3> QED
      BY <3>1, <3>2, PriorOf
  <2>6. c \in ops /\ (\A l \in ops : Prior(e[c]) <= Prior(e[l])) /\ \A l \in ops : l > c => Prior(e[c]) < Prior(e[l])
    <3>1. i \in Nat /\ h \in Nat
      BY <2>2
    <3> QED
      BY <2>3, <2>4, <3>1, LastIn
  <2>7. ValuesOf(e, i, h) = Joined(e[c], ValuesOf(e, i, c - 1), ValuesOf(e, c + 1, h))
    <3>1. i \in 1 .. n + 1 /\ h \in 0 .. n /\ ~(i > h)
      <4>1. k \in i + 1 .. h - 1
        BY <2>3, <2>5
      <4> QED
        BY <1>1, <2>2, <4>1
    <3>2. ValuesOf(e, i, h) = MeaningAt(e, r, Mean(e), i, h)
      BY <3>1, MeanIs
    <3>3. MeaningAt(e, r, Mean(e), i, h) = Joined(e[c], Mean(e)[<<i, c - 1>>], Mean(e)[<<c + 1, h>>])
      BY <2>3, <3>1 DEF MeaningAt
    <3> QED
      BY <3>2, <3>3 DEF ValuesOf
  <2> HIDE DEF c, ops
  <2>8. k \in Int /\ c \in Int
    BY <2>3, <2>5, <2>6
  <2>9. c # k
    <3> HIDE DEF D
    <3> QED
      BY <2>2, <2>7
  <2>10. ~(c < k)
    <3>1. c < k => Prior(e[c]) >= Prior(e[k]) /\ Prior(e[c]) < Prior(e[k])
      BY <2>2, <2>3, <2>6, <2>8 DEF Splits, ops
    <3> QED
      BY <2>3, <2>5, <2>6, <3>1
  <2>11. c > k
    BY <2>8, <2>9, <2>10
  <2>12. Associative(e[k]) /\ Prior(e[k]) = Prior(e[c]) /\ ~HasOffset(e)
    <3>1. ~(Prior(e[k]) < Prior(e[c]))
      BY <2>3, <2>5, <2>6
    <3> QED
      BY <2>2, <2>6, <2>11, <3>1 DEF Splits, ops
  <2> DEFINE B == Ops(e, r, k + 1, h)
  <2>13. /\ k \in i + 1 .. h - 1 /\ k \in 1 .. n /\ k + 1 \in 1 .. n
         /\ c \in B /\ B \subseteq ops
    <3>1. Roles(e, r)
      OBVIOUS
    <3> HIDE DEF r, D, Bad
    <3>2. /\ k \in i + 1 .. h - 1 /\ k \in 1 .. n /\ k + 1 \in 1 .. n
          /\ \A l \in ops : l > k => l \in B
          /\ \A l \in B : l \in ops /\ l > k
      BY <2>2, <2>3, <3>1, OpsBehind DEF ops
    <3> HIDE DEF B
    <3> QED
      BY <2>6, <2>11, <3>2
  <2>14. ValuesOf(e, k + 1, h) = Joined(e[c], ValuesOf(e, k + 1, c - 1), ValuesOf(e, c + 1, h))
    <3> DEFINE d == Last(e, B)
    <3>1. d \in B /\ (\A l \in B : Prior(e[d]) <= Prior(e[l])) /\ \A l \in B : l > d => Prior(e[d]) < Prior(e[l])
      <4>1. k + 1 \in Nat /\ h \in Nat
        BY <2>2, <2>13
      <4>2. \A l \in k + 1 + 1 .. h - 1 : r[l] = "binary" => e[l] \in BinaryOps
        <5>1. \A l \in k + 1 + 1 .. h - 1 : l \in i + 1 .. h - 1
          BY <2>13
        <5> QED
          BY <2>4, <5>1
      <4>3. B # {}
        BY <2>13
      <4> HIDE DEF r
      <4> QED
        BY <4>1, <4>2, <4>3, LastIn
    <3>2. c = d
      <4> HIDE DEF B, d
      <4> QED
        BY <2>5, <2>6, <2>13, <3>1, LastUnique
    <3>3. k + 1 \in 1 .. n + 1 /\ h \in 0 .. n /\ ~(k + 1 > h) /\ B # {}
      BY <1>1, <2>2, <2>13
    <3>4. ValuesOf(e, k + 1, h) = MeaningAt(e, r, Mean(e), k + 1, h)
      BY <3>3, MeanIs
    <3>5. MeaningAt(e, r, Mean(e), k + 1, h) = Joined(e[d], Mean(e)[<<k + 1, d - 1>>], Mean(e)[<<d + 1, h>>])
      BY <3>3 DEF MeaningAt
    <3> HIDE DEF d
    <3> QED
      BY <3>2, <3>4, <3>5 DEF ValuesOf
  <2>15. Joined(e[k], X, ValuesOf(e, k + 1, c - 1)) \subseteq ValuesOf(e, i, c - 1)
    <3>1. Splits(e, r, i, k, c - 1) /\ c - 1 \in 1 .. n /\ c - 1 < h
      <4>1. Roles(e, r)
        OBVIOUS
      <4> HIDE DEF r, D, Bad
      <4> QED
        BY <2>2, <2>13, <4>1, SplitsShorter
    <3>2. c - 1 \notin D
      <4> HIDE DEF D
      <4> QED
        BY <2>0, <2>1, <2>2, <2>8, <3>1
    <3> QED
      BY <3>1, <3>2
  <2>16. ASSUME NEW x \in X, NEW w \in ValuesOf(e, k + 1, h), NEW z \in BinaryOp(x, e[k], w)
         PROVE  z \in ValuesOf(e, i, h)
    <3>1. PICK y \in ValuesOf(e, k + 1, c - 1), v \in ValuesOf(e, c + 1, h) : w \in BinaryOp(y, e[c], v)
      BY <2>14 DEF Joined
    <3>2. x \in NumSet /\ y \in NumSet /\ v \in NumSet
      <4>1. /\ i \in 1 .. n + 1 /\ k - 1 \in 0 .. n /\ k + 1 \in 1 .. n + 1
            /\ c - 1 \in 0 .. n /\ c + 1 \in 1 .. n + 1 /\ h \in 0 .. n
        <5>1. c \in i + 1 .. h - 1
          BY <2>5, <2>6
        <5> QED
          BY <1>1, <2>2, <2>13, <5>1
      <4>2. X \subseteq NumSet
        BY <2>12, <4>1, NumbersOnly
      <4>3. ValuesOf(e, k + 1, c - 1) \subseteq NumSet
        BY <2>12, <4>1, NumbersOnly
      <4>4. ValuesOf(e, c + 1, h) \subseteq NumSet
        BY <2>12, <4>1, NumbersOnly
      <4> QED
        BY <4>2, <4>3, <4>4
    <3>3. e[k] \in BinaryOps /\ e[c] \in BinaryOps
      <4>1. r[k] = "binary" /\ r[c] = "binary"
        BY <2>3, <2>6 DEF ops, Ops
      <4>2. k \in i + 1 .. h - 1 /\ c \in i + 1 .. h - 1
        BY <2>3, <2>5, <2>6
      <4> QED
        BY <2>4, <4>1, <4>2
    <3>4. PICK u \in BinaryOp(x, e[k], y) : z \in BinaryOp(u, e[c], v)
      <4>1. BinaryOp(x, e[k], w) \subseteq UNION {BinaryOp(u, e[c], v) : u \in BinaryOp(x, e[k], y)}
        BY <2>12, <3>1, <3>2, <3>3, Regroup
      <4> QED
        BY <4>1
    <3>5. u \in ValuesOf(e, i, c - 1)
      BY <2>15 DEF Joined
    <3> QED
      BY <2>7, <3>4, <3>5 DEF Joined
  <2>17. Joined(e[k], X, ValuesOf(e, k + 1, h)) \subseteq ValuesOf(e, i, h)
    <3> HIDE DEF X
    <3> QED
      BY <2>16 DEF Joined
  <2> QED
    BY <2>2, <2>17
<1> HIDE DEF D
<1>3. j \notin D
  BY <1>2
<1> QED
  BY <1>3 DEF D
------------------------------------------------------------------------------
(* Where the entries of the stack come from.                                *)

Level(e, p, k) == Depth(e, p[k] + 1)

\* p is where the entries of the stack come from: behind each the expression
\* goes on within the brackets that were open there, and an operator on the
\* same level binds more tightly or has waited for it.
Stands(s, e, r, p) ==
  /\ p \in [1 .. Len(s) -> 0 .. Len(e)] /\ p[1] = 0
  /\ \A j, k \in 1 .. Len(s) : j < k => p[j] < p[k]
  /\ \A k \in 2 .. Len(s) : /\ e[p[k]] = s[k].bin_op
                            /\ s[k].bin_op # "(" => r[p[k]] = "binary"
                            /\ Depth(e, p[k]) = Level(e, p, k - 1)
  /\ \A k \in 1 .. Len(s) : \A i \in p[k] + 1 .. Len(e) + 1 : Depth(e, i) >= Level(e, p, k)
  /\ \A k \in 2 .. Len(s) : s[k].bin_op # "(" =>
       \A b \in p[k] + 1 .. Len(e) :
         r[b] = "binary" /\ Depth(e, b) = Level(e, p, k)
           => Prior(s[k].bin_op) < Prior(e[b]) \/ Waiting(e, r, p[k], b)

\* The operators before an entry that are reduced already bind as tightly, and
\* before a bracket there is none; between two entries one binds more tightly
\* than the lower.
Ranked(s, e, r, p) ==
  /\ \A k \in 2 .. Len(s) : \A b \in p[k - 1] + 1 .. p[k] - 1 :
       r[b] = "binary" /\ Depth(e, b) = Level(e, p, k - 1)
         => s[k].bin_op # "(" /\ Prior(e[b]) >= Prior(s[k].bin_op)
  /\ \A k \in 2 .. Len(s) - 1 : s[k].bin_op # "(" /\ s[k + 1].bin_op # "(" =>
       \E b \in p[k] + 1 .. p[k + 1] :
         r[b] = "binary" /\ Depth(e, b) = Level(e, p, k) /\ Prior(e[b]) > Prior(s[k].bin_op)

\* An operator on the level of the top is pushed, so none is behind it.
AtTop(s, e, r, p) ==
  /\ Depth(e, Len(e) + 1) = Level(e, p, Len(s))
  /\ \A b \in p[Len(s)] + 1 .. Len(e) : r[b] = "binary" => Depth(e, b) # Level(e, p, Len(s))

Climbs(s, e, r, p) == Stands(s, e, r, p) /\ Ranked(s, e, r, p) /\ AtTop(s, e, r, p)

Signed(s) ==
  /\ Len(s) \in Nat \ {0}
  /\ \A k \in 2 .. Len(s) : s[k].bin_op \in BinaryOps \cup {"("}

LEMMA GoodSigned ==
  ASSUME NEW s, GoodStack(s)
  PROVE  Signed(s) /\ s[1].bin_op = "none"
<1>1. PICK V : s \in Seq(Entries(V))
  BY DEF GoodStack
<1>2. Len(s) \in Nat \ {0} /\ 1 \in 1 .. Len(s)
  BY <1>1 DEF GoodStack
<1>3. ASSUME NEW k \in 2 .. Len(s) PROVE s[k].bin_op \in BinaryOps \cup {"("}
  <2>1. k \in 1 .. Len(s) /\ k # 1
    BY <1>2
  <2>2. s[k] \in Entries(V) /\ s[k].bin_op # "none"
    BY <1>1, <2>1 DEF GoodStack
  <2> QED
    BY <2>2 DEF Entries
<1> QED
  BY <1>2, <1>3 DEF GoodStack, Signed

\* An operator has the level of the entry below it, a bracket the next one.
LEMMA LevelStep ==
  ASSUME NEW s, Signed(s), NEW e, Len(e) \in Nat, NEW r, NEW p, Stands(s, e, r, p), NEW k \in 2 .. Len(s)
  PROVE  /\ p[k] \in 1 .. Len(e) /\ k - 1 \in 1 .. Len(s)
         /\ Level(e, p, k) \in Int /\ Level(e, p, k - 1) \in Int
         /\ s[k].bin_op = "(" => Level(e, p, k) = Level(e, p, k - 1) + 1
         /\ s[k].bin_op # "(" => Level(e, p, k) = Level(e, p, k - 1) /\ Depth(e, p[k]) = Level(e, p, k)
<1>1. k - 1 \in 1 .. Len(s) /\ k \in 1 .. Len(s) /\ k - 1 < k
  BY DEF Signed
<1>2. p[k - 1] < p[k] /\ p[k - 1] \in 0 .. Len(e) /\ p[k] \in 0 .. Len(e)
  BY <1>1 DEF Stands
<1>3. p[k] \in Nat \ {0} /\ p[k] \in 1 .. Len(e) /\ p[k - 1] + 1 \in Nat /\ p[k] + 1 \in Nat
  BY <1>2
<1>4. e[p[k]] = s[k].bin_op /\ Depth(e, p[k]) = Level(e, p, k - 1)
  BY DEF Stands
<1>5. s[k].bin_op \in BinaryOps \cup {"("}
  BY DEF Signed
<1>6. s[k].bin_op # ")"
  BY <1>5, PriorOf
<1>7. Level(e, p, k) \in Int /\ Level(e, p, k - 1) \in Int
  BY <1>3, DepthType DEF Level
<1>8. /\ e[p[k]] = "(" => Level(e, p, k) = Depth(e, p[k]) + 1
      /\ e[p[k]] \notin {"(", ")"} => Level(e, p, k) = Depth(e, p[k])
  BY <1>3, DepthStep DEF Level
<1> QED
  BY <1>1, <1>3, <1>4, <1>6, <1>7, <1>8

\* Above an entry on the level of the top is an operator that binds more tightly.
LEMMA TighterAbove ==
  ASSUME NEW s, Signed(s), NEW e, Len(e) \in Nat, NEW r, NEW p, Stands(s, e, r, p), Ranked(s, e, r, p),
         NEW j \in 2 .. Len(s), j < Len(s), s[j].bin_op # "(", Level(e, p, j) = Level(e, p, Len(s))
  PROVE  \E b \in p[j] + 1 .. Len(e) :
           r[b] = "binary" /\ Depth(e, b) = Level(e, p, j) /\ Prior(e[b]) > Prior(s[j].bin_op)
<1> DEFINE m == Len(s)
<1>1. m \in 2 .. m /\ m \in 1 .. m /\ m \in Nat /\ j + 1 \in 2 .. m /\ j + 1 \in 1 .. m /\ j \in 2 .. m - 1
      /\ j + 1 - 1 = j /\ j \in 1 .. m
  BY DEF Signed
<1>2. p[j + 1] \in 1 .. Len(e) /\ p[m] \in 1 .. Len(e) /\ p[j] \in 1 .. Len(e)
  BY <1>1, LevelStep
<1>3. p[m] + 1 \in p[j + 1] + 1 .. Len(e) + 1
  <2>1. p[j + 1] <= p[m]
    <3>1. j + 1 = m \/ j + 1 < m
      BY <1>1
    <3>2. j + 1 < m => p[j + 1] < p[m]
      BY <1>1 DEF Stands
    <3> QED
      BY <1>2, <3>1, <3>2
  <2> QED
    BY <1>2, <2>1
<1>4. s[j + 1].bin_op # "("
  <2> SUFFICES ASSUME s[j + 1].bin_op = "(" PROVE FALSE
    OBVIOUS
  <2>1. Level(e, p, j + 1) = Level(e, p, j) + 1 /\ Level(e, p, j) \in Int
    BY <1>1, LevelStep
  <2>2. Depth(e, p[m] + 1) >= Level(e, p, j + 1)
    BY <1>1, <1>3 DEF Stands
  <2>3. Depth(e, p[m] + 1) = Level(e, p, j)
    BY DEF Level
  <2> QED
    BY <2>1, <2>2, <2>3
<1>5. PICK b \in p[j] + 1 .. p[j + 1] :
        r[b] = "binary" /\ Depth(e, b) = Level(e, p, j) /\ Prior(e[b]) > Prior(s[j].bin_op)
  BY <1>1, <1>4 DEF Ranked
<1>6. b \in p[j] + 1 .. Len(e)
  BY <1>2
<1> QED
  BY <1>5, <1>6

\* The same entries, or the lower ones, stand as they did when a token follows.
LEMMA TokenStands ==
  ASSUME NEW s, Signed(s), NEW e, Len(e) \in Nat, NEW r, NEW p, Stands(s, e, r, p), Ranked(s, e, r, p),
         NEW f, NEW q, NEW t, Extends(f, q, e, r, t),
         NEW u, Len(u) \in 1 .. Len(s), \A k \in 1 .. Len(u) : u[k].bin_op = s[k].bin_op,
         \A k \in 1 .. Len(u) : Depth(f, Len(e) + 2) >= Level(e, p, k),
         q[Len(e) + 1] = "binary" =>
           \A k \in 2 .. Len(u) : s[k].bin_op # "(" /\ Level(e, p, k) = Depth(e, Len(e) + 1)
                                    => Prior(s[k].bin_op) < Prior(t) \/ Waiting(f, q, p[k], Len(e) + 1)
  PROVE  \E o : /\ Stands(u, f, q, o) /\ Ranked(u, f, q, o)
                /\ \A k \in 1 .. Len(u) : o[k] = p[k] /\ Level(f, o, k) = Level(e, p, k)
<1> DEFINE m == Len(u)
           n == Len(e)
           o == [k \in 1 .. m |-> p[k]]
<1>1. n \in Nat /\ m \in Nat \ {0} /\ m <= Len(s) /\ Len(s) \in Nat /\ Len(f) = n + 1
  BY DEF Signed, Extends
<1>2. \A k \in 1 .. m : o[k] = p[k] /\ k \in 1 .. Len(s) /\ p[k] \in 0 .. n /\ p[k] + 1 \in 1 .. n + 1
  <2>1. p \in [1 .. Len(s) -> 0 .. n]
    BY DEF Stands
  <2>2. \A k \in 1 .. m : k \in 1 .. Len(s)
    BY <1>1
  <2>3. \A k \in 1 .. m : p[k] \in 0 .. n
    BY <2>1, <2>2
  <2> QED
    BY <1>1, <2>2, <2>3
<1>3. /\ \A k \in 1 .. n : f[k] = e[k] /\ q[k] = r[k]
      /\ \A k \in 1 .. n + 1 : Depth(f, k) = Depth(e, k)
      /\ f[n + 1] = t
  BY DEF Extends
<1> HIDE DEF o
<1>4. \A k \in 1 .. m : Level(f, o, k) = Level(e, p, k)
  BY <1>2, <1>3 DEF Level
<1>5. \A k \in 2 .. m : k \in 2 .. Len(s) /\ k \in 1 .. m /\ k - 1 \in 1 .. m
  BY <1>1
<1>6. \A k \in 2 .. m : p[k] \in 1 .. n
  BY <1>5, LevelStep
<1>7. ASSUME NEW k \in 2 .. m
      PROVE  /\ f[o[k]] = u[k].bin_op
             /\ u[k].bin_op # "(" => q[o[k]] = "binary"
             /\ Depth(f, o[k]) = Level(f, o, k - 1)
  <2>1. o[k] = p[k] /\ p[k] \in 1 .. n /\ p[k] \in 1 .. n + 1 /\ u[k].bin_op = s[k].bin_op
    BY <1>1, <1>2, <1>5, <1>6
  <2>2. e[p[k]] = s[k].bin_op /\ (s[k].bin_op # "(" => r[p[k]] = "binary") /\ Depth(e, p[k]) = Level(e, p, k - 1)
    BY <1>5 DEF Stands
  <2> QED
    BY <1>3, <1>4, <1>5, <2>1, <2>2
<1>8. ASSUME NEW k \in 1 .. m, NEW i \in o[k] + 1 .. Len(f) + 1
      PROVE  Depth(f, i) >= Level(f, o, k)
  <2>1. i \in p[k] + 1 .. n + 1 \/ i = n + 2
    BY <1>1, <1>2
  <2>2. i \in p[k] + 1 .. n + 1 => i \in 1 .. n + 1
    BY <1>1, <1>2
  <2>3. i \in p[k] + 1 .. n + 1 => Depth(e, i) >= Level(e, p, k)
    BY <1>2 DEF Stands
  <2>4. Level(f, o, k) = Level(e, p, k)
    BY <1>4
  <2> QED
    BY <1>3, <2>1, <2>2, <2>3, <2>4
<1>9. ASSUME NEW k \in 2 .. m, u[k].bin_op # "(", NEW b \in o[k] + 1 .. Len(f),
             q[b] = "binary", Depth(f, b) = Level(f, o, k)
      PROVE  Prior(u[k].bin_op) < Prior(f[b]) \/ Waiting(f, q, o[k], b)
  <2>1. o[k] = p[k] /\ u[k].bin_op = s[k].bin_op /\ Level(f, o, k) = Level(e, p, k) /\ p[k] \in 1 .. n
    BY <1>2, <1>4, <1>5, <1>6
  <2>2. CASE b \in p[k] + 1 .. n
    <3>1. b \in 1 .. n /\ b \in 1 .. n + 1
      BY <1>1, <2>1, <2>2
    <3>2. r[b] = "binary" /\ Depth(e, b) = Level(e, p, k) /\ f[b] = e[b]
      BY <1>3, <1>9, <2>1, <3>1
    <3>3. Prior(s[k].bin_op) < Prior(e[b]) \/ Waiting(e, r, p[k], b)
      BY <1>5, <1>9, <2>1, <2>2, <3>2 DEF Stands
    <3>4. Waiting(e, r, p[k], b) => Waiting(f, q, p[k], b)
      BY <2>1, <3>1, WaitingKept
    <3> QED
      BY <2>1, <3>2, <3>3, <3>4
  <2>3. CASE b = n + 1
    <3>1. Depth(e, n + 1) = Level(e, p, k) /\ f[b] = t
      BY <1>1, <1>3, <1>9, <2>1, <2>3
    <3> QED
      BY <1>9, <2>1, <2>3, <3>1
  <2> QED
    BY <1>1, <2>1, <2>2, <2>3
<1>10. o \in [1 .. m -> 0 .. Len(f)] /\ o[1] = 0
  BY <1>1, <1>2 DEF o, Stands
<1>11. \A j, k \in 1 .. m : j < k => o[j] < o[k]
  BY <1>2 DEF Stands
<1>12. Stands(u, f, q, o)
  BY <1>7, <1>8, <1>9, <1>10, <1>11 DEF Stands
<1>13. ASSUME NEW k \in 2 .. m, NEW b \in o[k - 1] + 1 .. o[k] - 1, q[b] = "binary", Depth(f, b) = Level(f, o, k - 1)
       PROVE  u[k].bin_op # "(" /\ Prior(f[b]) >= Prior(u[k].bin_op)
  <2>1. b \in p[k - 1] + 1 .. p[k] - 1 /\ Level(f, o, k - 1) = Level(e, p, k - 1) /\ u[k].bin_op = s[k].bin_op
    BY <1>2, <1>4, <1>5
  <2>2. b \in 1 .. n /\ b \in 1 .. n + 1
    <3>1. p[k - 1] \in 0 .. n /\ p[k] \in 0 .. n
      BY <1>2, <1>5
    <3> HIDE DEF n, m
    <3> QED
      BY <1>1, <2>1, <3>1
  <2>3. r[b] = "binary" /\ Depth(e, b) = Level(e, p, k - 1) /\ f[b] = e[b]
    BY <1>3, <1>13, <2>1, <2>2
  <2> QED
    BY <1>5, <2>1, <2>3 DEF Ranked
<1>14. ASSUME NEW k \in 2 .. m - 1, u[k].bin_op # "(", u[k + 1].bin_op # "("
       PROVE  \E b \in o[k] + 1 .. o[k + 1] :
                q[b] = "binary" /\ Depth(f, b) = Level(f, o, k) /\ Prior(f[b]) > Prior(u[k].bin_op)
  <2>1. k \in 2 .. m /\ k + 1 \in 2 .. m /\ k \in 1 .. m /\ k + 1 \in 1 .. m /\ k \in 2 .. Len(s) - 1
    BY <1>1
  <2>2. u[k].bin_op = s[k].bin_op /\ u[k + 1].bin_op = s[k + 1].bin_op
    BY <2>1
  <2>3. PICK b \in p[k] + 1 .. p[k + 1] :
          r[b] = "binary" /\ Depth(e, b) = Level(e, p, k) /\ Prior(e[b]) > Prior(s[k].bin_op)
    BY <1>14, <2>1, <2>2 DEF Ranked
  <2>4. b \in o[k] + 1 .. o[k + 1] /\ b \in 1 .. n /\ b \in 1 .. n + 1
    <3>1. o[k] = p[k] /\ o[k + 1] = p[k + 1] /\ p[k] \in 1 .. n /\ p[k + 1] \in 1 .. n
      BY <1>2, <1>6, <2>1
    <3> HIDE DEF n, m
    <3> QED
      BY <1>1, <3>1
  <2>5. q[b] = "binary" /\ Depth(f, b) = Level(f, o, k) /\ f[b] = e[b]
    BY <1>3, <1>4, <2>1, <2>3, <2>4
  <2> QED
    BY <2>2, <2>3, <2>4, <2>5
<1>15. Ranked(u, f, q, o)
  BY <1>13, <1>14 DEF Ranked
<1> QED
  BY <1>2, <1>4, <1>12, <1>15

\* The last token is pushed.
LEMMA PushStands ==
  ASSUME NEW u, Len(u) \in Nat \ {0}, NEW f, Len(f) \in Nat \ {0}, NEW q, NEW o, Stands(u, f, q, o), Ranked(u, f, q, o),
         \A k \in 1 .. Len(u) : o[k] < Len(f),
         Depth(f, Len(f)) = Level(f, o, Len(u)),
         NEW w, Len(w) = Len(u) + 1, \A k \in 1 .. Len(u) : w[k] = u[k],
         w[Len(w)].bin_op = f[Len(f)], f[Len(f)] # "(" => q[Len(f)] = "binary",
         \A b \in o[Len(u)] + 1 .. Len(f) - 1 : q[b] = "binary" /\ Depth(f, b) = Level(f, o, Len(u))
           => f[Len(f)] # "(" /\ Prior(f[b]) >= Prior(f[Len(f)]),
         Len(u) # 1 /\ u[Len(u)].bin_op # "(" /\ f[Len(f)] # "(" =>
           \E b \in o[Len(u)] + 1 .. Len(f) :
             q[b] = "binary" /\ Depth(f, b) = Level(f, o, Len(u)) /\ Prior(f[b]) > Prior(u[Len(u)].bin_op)
  PROVE  \E p : /\ Climbs(w, f, q, p)
                /\ p[Len(w)] = Len(f) /\ \A k \in 1 .. Len(u) : p[k] = o[k]
<1> DEFINE m == Len(u)
           n == Len(f)
           p == [k \in 1 .. m + 1 |-> IF k = m + 1 THEN n ELSE o[k]]
<1>1. m \in Nat \ {0} /\ n \in Nat \ {0} /\ Len(w) = m + 1
  OBVIOUS
<1>2. \A k \in 1 .. m : k \in 1 .. m + 1 /\ k # m + 1
  BY <1>1
<1>3. p[m + 1] = n /\ \A k \in 1 .. m : p[k] = o[k]
  BY <1>1, <1>2
<1>4. \A k \in 1 .. m : o[k] \in 0 .. n /\ o[k] < n
  BY DEF Stands
<1>5. p \in [1 .. m + 1 -> 0 .. n] /\ p[1] = 0
  <2>1. \A k \in 1 .. m + 1 : k # m + 1 => k \in 1 .. m
    BY <1>1
  <2>2. \A k \in 1 .. m + 1 : (IF k = m + 1 THEN n ELSE o[k]) \in 0 .. n
    BY <1>1, <1>4, <2>1
  <2>3. p[1] = 0
    BY <1>1, <1>3 DEF Stands
  <2> QED
    BY <2>2, <2>3
<1> HIDE DEF p
<1>6. \A k \in 1 .. m : Level(f, p, k) = Level(f, o, k)
  BY <1>3 DEF Level
<1>7. Level(f, p, m + 1) = Depth(f, n + 1)
  BY <1>3 DEF Level
<1>8. \A k \in 1 .. m + 1 : k \in 1 .. m \/ k = m + 1
  BY <1>1
<1>9. ASSUME NEW j \in 1 .. m + 1, NEW k \in 1 .. m + 1, j < k PROVE p[j] < p[k]
  <2>1. j \in 1 .. m
    BY <1>1, <1>9
  <2> QED
    BY <1>3, <1>4, <1>8, <1>9, <2>1 DEF Stands
<1>10. \A k \in 2 .. m + 1 : (k \in 2 .. m /\ k - 1 \in 1 .. m) \/ k = m + 1
  BY <1>1
<1>11. ASSUME NEW k \in 2 .. m + 1
       PROVE  /\ f[p[k]] = w[k].bin_op
              /\ w[k].bin_op # "(" => q[p[k]] = "binary"
              /\ Depth(f, p[k]) = Level(f, p, k - 1)
  <2>1. CASE k \in 2 .. m /\ k - 1 \in 1 .. m
    <3>1. k \in 1 .. m
      BY <1>1, <2>1
    <3> QED
      BY <1>3, <1>6, <2>1, <3>1 DEF Stands
  <2>2. CASE k = m + 1
    <3>1. k - 1 = m /\ m \in 1 .. m
      BY <1>1, <2>2
    <3> QED
      BY <1>1, <1>3, <1>6, <2>2, <3>1
  <2> QED
    BY <1>10, <2>1, <2>2
<1>12. ASSUME NEW k \in 1 .. m + 1, NEW i \in p[k] + 1 .. n + 1
       PROVE  Depth(f, i) >= Level(f, p, k)
  <2>1. CASE k \in 1 .. m
    BY <1>3, <1>6, <1>12, <2>1 DEF Stands
  <2>2. CASE k = m + 1
    <3>1. i = n + 1
      BY <1>1, <1>3, <2>2
    <3> QED
      BY <1>1, <1>7, <2>2, <3>1, DepthType
  <2> QED
    BY <1>8, <2>1, <2>2
<1>13. ASSUME NEW k \in 2 .. m + 1, w[k].bin_op # "(", NEW b \in p[k] + 1 .. n,
              q[b] = "binary", Depth(f, b) = Level(f, p, k)
       PROVE  Prior(w[k].bin_op) < Prior(f[b]) \/ Waiting(f, q, p[k], b)
  <2>1. k # m + 1
    BY <1>1, <1>3
  <2>2. k \in 2 .. m /\ k \in 1 .. m
    BY <1>1, <2>1
  <2> QED
    BY <1>3, <1>6, <1>13, <2>2 DEF Stands
<1>14. Stands(w, f, q, p)
  BY <1>1, <1>5, <1>9, <1>11, <1>12, <1>13 DEF Stands
<1>15. AtTop(w, f, q, p)
  <2>1. p[m + 1] + 1 .. n = {}
    BY <1>1, <1>3
  <2> QED
    BY <1>1, <1>7, <2>1 DEF AtTop
<1>16. ASSUME NEW k \in 2 .. m + 1, NEW b \in p[k - 1] + 1 .. p[k] - 1, q[b] = "binary", Depth(f, b) = Level(f, p, k - 1)
       PROVE  w[k].bin_op # "(" /\ Prior(f[b]) >= Prior(w[k].bin_op)
  <2>1. CASE k \in 2 .. m /\ k - 1 \in 1 .. m
    <3>1. k \in 1 .. m
      BY <1>1, <2>1
    <3>2. p[k] = o[k] /\ p[k - 1] = o[k - 1] /\ w[k] = u[k] /\ Level(f, p, k - 1) = Level(f, o, k - 1)
      BY <1>3, <1>6, <2>1, <3>1
    <3> QED
      BY <1>16, <2>1, <3>2 DEF Ranked
  <2>2. CASE k = m + 1
    <3>1. k - 1 = m /\ m \in 1 .. m /\ w[k].bin_op = f[n]
      BY <1>1, <2>2
    <3>2. b \in o[m] + 1 .. n - 1 /\ Depth(f, b) = Level(f, o, m)
      BY <1>1, <1>3, <1>6, <1>16, <2>2, <3>1
    <3> QED
      BY <1>16, <3>1, <3>2
  <2> QED
    BY <1>10, <2>1, <2>2
<1>17. ASSUME NEW k \in 2 .. m, w[k].bin_op # "(", w[k + 1].bin_op # "("
       PROVE  \E b \in p[k] + 1 .. p[k + 1] :
                q[b] = "binary" /\ Depth(f, b) = Level(f, p, k) /\ Prior(f[b]) > Prior(w[k].bin_op)
  <2>0. k \in 1 .. m
    BY <1>1
  <2>1. w[k] = u[k] /\ p[k] = o[k] /\ Level(f, p, k) = Level(f, o, k)
    BY <1>3, <1>6, <2>0
  <2>2. CASE k \in 2 .. m - 1
    <3>1. k + 1 \in 1 .. m
      BY <1>1, <2>2
    <3>2. w[k + 1] = u[k + 1] /\ p[k + 1] = o[k + 1]
      BY <1>3, <3>1
    <3> QED
      BY <1>17, <2>1, <2>2, <3>2 DEF Ranked
  <2>3. CASE k = m
    <3>1. p[k + 1] = n /\ w[k + 1].bin_op = f[n] /\ m # 1
      BY <1>1, <1>3, <2>3
    <3> QED
      BY <1>17, <2>1, <2>3, <3>1
  <2> QED
    BY <1>1, <2>2, <2>3
<1>18. Ranked(w, f, q, p)
  <2>1. Len(w) - 1 = m
    BY <1>1
  <2> QED
    BY <1>1, <1>16, <1>17, <2>1 DEF Ranked
<1> QED
  BY <1>1, <1>3, <1>14, <1>15, <1>18 DEF Climbs
------------------------------------------------------------------------------
(* What a token does to the places of the entries.                          *)

LEMMA Extended ==
  ASSUME ReadSoFar, NEW t \in Tokens
  PROVE  /\ Extends(Append(expr, t), Role(Append(expr, t)), expr, Role(expr), t)
         /\ Role(Append(expr, t))[Len(expr) + 1] = RoleFor(t)
         /\ Len(expr) \in Nat
         /\ Roles(expr, Role(expr)) /\ Roles(Append(expr, t), Role(Append(expr, t)))
         /\ StateFits(Role(expr))
<1>1. PICK r : IsRole(expr, r) /\ StateFits(r)
  BY DEF ReadSoFar
<1>2. expr \in Seq(Tokens)
  BY DEF ReadSoFar
<1> DEFINE q == RoleOfNext(expr, r, t)
<1>3. IsRole(Append(expr, t), q) /\ Append(expr, t) \in Seq(Tokens)
  BY <1>1, <1>2, RoleNext
<1>4. Role(expr) = r /\ Role(Append(expr, t)) = q
  BY <1>1, <1>2, <1>3, RoleIs
<1>5. q[Len(expr) + 1] = RoleFor(t)
  BY <1>1, <1>2, RoleOfToken
<1>6. \A k \in 1 .. Len(expr) : q[k] = r[k]
  BY <1>2 DEF RoleOfNext
<1>7. \A k \in 1 .. Len(expr) + 1 : Depth(Append(expr, t), k) = Depth(expr, k)
  BY <1>2, DepthKept
<1>8. /\ Len(Append(expr, t)) = Len(expr) + 1 /\ Append(expr, t)[Len(expr) + 1] = t
      /\ \A k \in 1 .. Len(expr) : Append(expr, t)[k] = expr[k]
      /\ Len(expr) \in Nat
  BY <1>2
<1>9. Roles(expr, r) /\ Roles(Append(expr, t), q)
  BY <1>1, <1>2, <1>3, RolesAre
<1> HIDE DEF q
<1> QED
  BY <1>1, <1>4, <1>5, <1>6, <1>7, <1>8, <1>9 DEF Extends

\* What is known when a token is taken.
Taken(t, p) ==
  /\ Signed(stack) /\ Len(expr) \in Nat
  /\ Climbs(stack, expr, Role(expr), p) /\ ~Stranded(expr)
  /\ Extends(expr', Role(expr'), expr, Role(expr), t)
  /\ Role(expr')[Len(expr) + 1] = RoleFor(t)
  /\ Roles(expr, Role(expr)) /\ Roles(expr', Role(expr')) /\ StateFits(Role(expr))

\* The depths around a token that is taken.
LEMMA TakenDepth ==
  ASSUME NEW t, NEW p, Taken(t, p)
  PROVE  /\ Len(expr') = Len(expr) + 1 /\ Len(expr) + 1 \in Nat \ {0}
         /\ Depth(expr', Len(expr) + 1) = Level(expr, p, Len(stack))
         /\ Level(expr, p, Len(stack)) \in Int
         /\ t = "(" => Depth(expr', Len(expr) + 2) = Level(expr, p, Len(stack)) + 1
         /\ t = ")" => Depth(expr', Len(expr) + 2) = Level(expr, p, Len(stack)) - 1
         /\ t \notin {"(", ")"} => Depth(expr', Len(expr) + 2) = Level(expr, p, Len(stack))
<1> DEFINE n == Len(expr)
<1>1. n \in Nat /\ n + 1 \in Nat \ {0} /\ n + 1 \in 1 .. n + 1
  BY DEF Taken
<1>2. expr'[n + 1] = t /\ Depth(expr', n + 1) = Depth(expr, n + 1) /\ Len(expr') = n + 1
  BY <1>1 DEF Taken, Extends
<1>3. Depth(expr, n + 1) = Level(expr, p, Len(stack)) /\ Depth(expr, n + 1) \in Int
  BY <1>1, DepthType DEF Taken, Climbs, AtTop
<1>4. n + 1 + 1 = n + 2
  BY <1>1
<1> QED
  BY <1>1, <1>2, <1>3, <1>4, DepthStep

\* Nothing below the top has a higher level than it.
LEMMA TakenLevels ==
  ASSUME NEW t, NEW p, Taken(t, p), NEW k \in 1 .. Len(stack)
  PROVE  Level(expr, p, k) \in Int /\ Level(expr, p, Len(stack)) >= Level(expr, p, k)
<1>1. Len(expr) \in Nat /\ p[k] \in 0 .. Len(expr)
  BY DEF Taken, Climbs, Stands
<1>2. Len(expr) + 1 \in p[k] + 1 .. Len(expr) + 1 /\ p[k] + 1 \in Nat
  BY <1>1
<1>3. Depth(expr, Len(expr) + 1) >= Level(expr, p, k)
  BY <1>2 DEF Taken, Climbs, Stands
<1> QED
  BY <1>2, <1>3, DepthType DEF Taken, Climbs, AtTop, Level

\* An operand, or a sign of one: the entries stay.
LEMMA OperandClimbs ==
  ASSUME NEW t, NEW p, Taken(t, p), t \notin {"(", ")"}, RoleFor(t) # "binary",
         Len(stack') = Len(stack), \A k \in 1 .. Len(stack) : stack'[k].bin_op = stack[k].bin_op
  PROVE  \E o : /\ Climbs(stack', expr', Role(expr'), o)
                /\ \A k \in 1 .. Len(stack) : o[k] = p[k]
<1> DEFINE n == Len(expr)
           m == Len(stack)
           r == Role(expr)
           f == expr'
           q == Role(f)
<1>1. m \in Nat \ {0} /\ m \in 1 .. m /\ n \in Nat
  BY DEF Taken, Signed
<1>2. Depth(f, n + 2) = Level(expr, p, m) /\ Len(f) = n + 1
  BY TakenDepth
<1>3. \A k \in 1 .. m : Depth(f, n + 2) >= Level(expr, p, k)
  BY <1>2, TakenLevels
<1>4. /\ Stands(stack, expr, r, p) /\ Ranked(stack, expr, r, p) /\ Signed(stack) /\ q[n + 1] # "binary"
      /\ Extends(f, q, expr, r, t) /\ AtTop(stack, expr, r, p)
  BY DEF Taken, Climbs
<1> HIDE DEF q, f, r
<1>5. PICK o : /\ Stands(stack', f, q, o) /\ Ranked(stack', f, q, o)
               /\ \A k \in 1 .. m : o[k] = p[k] /\ Level(f, o, k) = Level(expr, p, k)
  BY <1>1, <1>3, <1>4, TokenStands
<1>6. AtTop(stack', f, q, o)
  <2>1. ASSUME NEW b \in p[m] + 1 .. n + 1, q[b] = "binary" PROVE Depth(f, b) # Level(expr, p, m)
    <3>1. b # n + 1 /\ p[m] \in 0 .. n
      BY <1>1, <1>4, <2>1 DEF Stands
    <3>2. b \in p[m] + 1 .. n /\ b \in 1 .. n /\ b \in 1 .. n + 1
      BY <1>1, <3>1
    <3>3. r[b] = "binary" /\ Depth(f, b) = Depth(expr, b)
      BY <1>4, <2>1, <3>2 DEF Extends
    <3> QED
      BY <1>4, <3>2, <3>3 DEF AtTop
  <2>2. Depth(f, n + 1 + 1) = Level(expr, p, m)
    BY <1>1, <1>2
  <2> QED
    BY <1>1, <1>2, <1>5, <2>1, <2>2 DEF AtTop
<1> QED
  BY <1>5, <1>6 DEF Climbs, f, q

\* Token t may be pushed on entry l.
Fits(t, p, l) ==
  /\ RoleFor(t) = "binary" =>
       \A k \in 2 .. l : stack[k].bin_op # "(" /\ Level(expr, p, k) = Level(expr, p, Len(stack))
         => Prior(stack[k].bin_op) < Prior(t) \/ Waiting(expr', Role(expr'), p[k], Len(expr) + 1)
  /\ \A b \in p[l] + 1 .. Len(expr) :
       Role(expr)[b] = "binary" /\ Depth(expr, b) = Level(expr, p, Len(stack))
         => t # "(" /\ Prior(expr[b]) >= Prior(t)
  /\ l # 1 /\ stack[l].bin_op # "(" /\ t # "(" =>
       \E b \in p[l] + 1 .. Len(expr) + 1 :
         /\ Role(expr')[b] = "binary" /\ Depth(expr', b) = Level(expr, p, Len(stack))
         /\ Prior(expr'[b]) > Prior(stack[l].bin_op)

\* A bracket or an operator is pushed on u, which has the lower entries.
Pushes(t, p, u, w) ==
  /\ t # ")" /\ (t # "(" => RoleFor(t) = "binary") /\ (t = "(" => RoleFor(t) # "binary")
  /\ Len(u) \in 1 .. Len(stack) /\ \A k \in 1 .. Len(u) : u[k].bin_op = stack[k].bin_op
  /\ Level(expr, p, Len(u)) = Level(expr, p, Len(stack))
  /\ Fits(t, p, Len(u))
  /\ Len(w) = Len(u) + 1 /\ \A k \in 1 .. Len(u) : w[k] = u[k]
  /\ w[Len(w)].bin_op = t

LEMMA PushClimbs ==
  ASSUME NEW t, NEW p, Taken(t, p), NEW u, NEW w, Pushes(t, p, u, w)
  PROVE  \E o : /\ Climbs(w, expr', Role(expr'), o)
                /\ o[Len(w)] = Len(expr) + 1 /\ \A k \in 1 .. Len(u) : o[k] = p[k]
<1> DEFINE n == Len(expr)
           m == Len(stack)
           l == Len(u)
           r == Role(expr)
           f == expr'
           q == Role(f)
<1>0. /\ t # ")" /\ (t # "(" => RoleFor(t) = "binary") /\ (t = "(" => RoleFor(t) # "binary")
      /\ Len(u) \in 1 .. Len(stack) /\ \A k \in 1 .. Len(u) : u[k].bin_op = stack[k].bin_op
      /\ Level(expr, p, Len(u)) = Level(expr, p, Len(stack))
      /\ Fits(t, p, Len(u))
      /\ Len(w) = Len(u) + 1 /\ \A k \in 1 .. Len(u) : w[k] = u[k]
      /\ w[Len(w)].bin_op = t
  BY DEF Pushes
<1> USE <1>0
<1>1. m \in Nat \ {0} /\ l \in Nat \ {0} /\ l \in 1 .. l /\ n \in Nat /\ \A k \in 1 .. l : k \in 1 .. m
  BY DEF Taken, Signed
<1>2. Depth(f, n + 1) = Level(expr, p, m) /\ Len(f) = n + 1 /\ Level(expr, p, m) \in Int
      /\ Depth(f, n + 2) >= Level(expr, p, m) /\ Depth(f, n + 2) \in Int
  BY TakenDepth
<1>3. \A k \in 1 .. l : Depth(f, n + 2) >= Level(expr, p, k)
  BY <1>1, <1>2, TakenLevels
<1>4. /\ f[n + 1] = t /\ q[n + 1] = RoleFor(t) /\ Depth(expr, n + 1) = Level(expr, p, m)
      /\ Extends(f, q, expr, r, t) /\ Stands(stack, expr, r, p) /\ Ranked(stack, expr, r, p) /\ Signed(stack)
  BY DEF Taken, Climbs, Extends, AtTop
<1>5. RoleFor(t) = "binary" =>
        \A k \in 2 .. l : stack[k].bin_op # "(" /\ Level(expr, p, k) = Level(expr, p, m)
                             => Prior(stack[k].bin_op) < Prior(t) \/ Waiting(f, q, p[k], n + 1)
  BY DEF Fits
<1>6. \A b \in p[l] + 1 .. n : r[b] = "binary" /\ Depth(expr, b) = Level(expr, p, m)
                                 => t # "(" /\ Prior(expr[b]) >= Prior(t)
  BY DEF Fits
<1>7. l # 1 /\ stack[l].bin_op # "(" /\ t # "(" =>
        \E b \in p[l] + 1 .. n + 1 : /\ q[b] = "binary" /\ Depth(f, b) = Level(expr, p, m)
                                     /\ Prior(f[b]) > Prior(stack[l].bin_op)
  BY DEF Fits
<1> HIDE DEF f, q, r
<1>8. PICK o : /\ Stands(u, f, q, o) /\ Ranked(u, f, q, o)
               /\ \A k \in 1 .. l : o[k] = p[k] /\ Level(f, o, k) = Level(expr, p, k)
  <2>1. q[n + 1] = "binary" =>
          \A k \in 2 .. l : stack[k].bin_op # "(" /\ Level(expr, p, k) = Depth(expr, n + 1)
                               => Prior(stack[k].bin_op) < Prior(t) \/ Waiting(f, q, p[k], n + 1)
    BY <1>4, <1>5
  <2>2. n \in Nat
    BY <1>1
  <2> HIDE DEF n, m, l
  <2> QED
    BY <1>1, <1>3, <1>4, <2>1, <2>2, TokenStands DEF n, m, l
<1>9. \A k \in 1 .. l : o[k] < n + 1
  <2>1. p \in [1 .. m -> 0 .. n]
    BY <1>4 DEF Stands
  <2>2. \A k \in 1 .. l : p[k] \in 0 .. n
    BY <1>1, <2>1
  <2> QED
    BY <1>1, <2>2, <1>8
<1>10. Depth(f, Len(f)) = Level(f, o, l)
  BY <1>1, <1>2, <1>8
<1>11. /\ f[Len(f)] = t /\ (t # "(" => q[Len(f)] = "binary") /\ Len(f) \in Nat \ {0}
       /\ \A k \in 1 .. l : o[k] < Len(f)
  BY <1>1, <1>2, <1>4, <1>9
<1>12. ASSUME NEW b \in o[l] + 1 .. Len(f) - 1, q[b] = "binary", Depth(f, b) = Level(f, o, l)
       PROVE  f[Len(f)] # "(" /\ Prior(f[b]) >= Prior(f[Len(f)])
  <2>1. o[l] = p[l] /\ p[l] \in 0 .. n
    <3>1. p \in [1 .. m -> 0 .. n]
      BY <1>4 DEF Stands
    <3> QED
      BY <1>1, <1>8, <3>1
  <2>2. b \in p[l] + 1 .. n /\ b \in 1 .. n /\ b \in 1 .. n + 1
    BY <1>1, <1>2, <2>1
  <2>3. r[b] = "binary" /\ Depth(expr, b) = Depth(f, b) /\ f[b] = expr[b]
    BY <1>4, <1>12, <2>2 DEF Extends
  <2>4. Level(f, o, l) = Level(expr, p, m)
    BY <1>1, <1>8
  <2> QED
    BY <1>6, <1>11, <1>12, <2>2, <2>3, <2>4
<1>13. l # 1 /\ u[l].bin_op # "(" /\ f[Len(f)] # "(" =>
         \E b \in o[l] + 1 .. Len(f) :
           q[b] = "binary" /\ Depth(f, b) = Level(f, o, l) /\ Prior(f[b]) > Prior(u[l].bin_op)
  <2>1. o[l] = p[l] /\ Level(f, o, l) = Level(expr, p, m) /\ u[l].bin_op = stack[l].bin_op
    BY <1>1, <1>8
  <2> QED
    BY <1>2, <1>7, <1>11, <2>1
<1>14. PICK g : Climbs(w, f, q, g) /\ g[Len(w)] = Len(f) /\ \A k \in 1 .. l : g[k] = o[k]
  <2>1. w[Len(w)].bin_op = f[Len(f)] /\ (f[Len(f)] # "(" => q[Len(f)] = "binary")
    BY <1>11
  <2>2. l \in Nat \ {0} /\ Len(f) \in Nat \ {0} /\ Stands(u, f, q, o) /\ Ranked(u, f, q, o)
    BY <1>1, <1>8, <1>11
  <2>3. Len(w) = Len(u) + 1 /\ (\A k \in 1 .. Len(u) : w[k] = u[k])
    OBVIOUS
  <2>4. \A k \in 1 .. l : o[k] < Len(f)
    BY <1>11
  <2> HIDE DEF n, m
  <2> QED
    BY ONLY <1>10, <1>12, <1>13, <2>1, <2>2, <2>3, <2>4, PushStands
<1> QED
  BY <1>2, <1>8, <1>14 DEF f, q
------------------------------------------------------------------------------
(* A closing bracket, an operator that binds more tightly, one that does not. *)

\* Above the last bracket are operators only, all on its level.
LEMMA LevelOfOpen ==
  ASSUME GoodStack(stack), Opens # {}, NEW e, Len(e) \in Nat, NEW r, NEW p, Stands(stack, e, r, p)
  PROVE  /\ Level(e, p, Len(stack)) = Level(e, p, Max(Opens) - 1) + 1
         /\ stack[Max(Opens)].bin_op = "("
         /\ \A k \in Max(Opens) + 1 .. Len(stack) : stack[k].bin_op # "("
<1> DEFINE m == Len(stack)
           x == Max(Opens)
           D == {k \in x .. m : Level(e, p, k) # Level(e, p, x)}
<1>1. Signed(stack) /\ m \in Nat \ {0} /\ x \in 2 .. m
  BY GoodSigned, OpensBound DEF Signed
<1>2. x \in Opens /\ \A k \in Opens : k <= x
  <2>1. PICK V : stack \in Seq(Entries(V))
    BY DEF GoodStack
  <2>2. Opens \subseteq 1 .. m
    BY <2>1 DEF Opens
  <2>3. Opens \subseteq Int /\ m \in Int /\ \A y \in Opens : y <= m
    BY <1>1, <2>2
  <2> QED
    BY <2>3, IntMax
<1>3. stack[x].bin_op = "(" /\ \A k \in x + 1 .. m : stack[k].bin_op # "("
  <2>1. DOMAIN stack = 1 .. m
    <3>1. PICK V : stack \in Seq(Entries(V))
      BY DEF GoodStack
    <3> QED
      BY <3>1
  <2> HIDE DEF x
  <2>2. \A k \in x + 1 .. m : k \in 1 .. m /\ ~(k <= x)
    BY <1>1
  <2> QED
    BY <1>2, <2>1, <2>2 DEF Opens
<1> HIDE DEF x, m
<1>4. Level(e, p, x) = Level(e, p, x - 1) + 1
  BY <1>1, <1>3, LevelStep DEF m
<1>5. D = {}
  <2> SUFFICES ASSUME D # {} PROVE FALSE
    OBVIOUS
  <2>1. D \subseteq Nat
    BY <1>1
  <2>2. PICK k \in D : \A y \in D : k <= y
    BY <2>1, NatMin
  <2>3. k \in x + 1 .. m /\ k \in 2 .. m /\ k - 1 \in x .. m /\ ~(k <= k - 1)
    BY <1>1
  <2>4. Level(e, p, k - 1) = Level(e, p, x)
    BY <2>2, <2>3
  <2>5. Level(e, p, k) = Level(e, p, k - 1)
    <3>1. k \in 2 .. Len(stack) /\ stack[k].bin_op # "("
      BY <1>3, <2>3 DEF m
    <3> HIDE DEF D
    <3> QED
      BY <1>1, <3>1, LevelStep
  <2> QED
    BY <2>4, <2>5
<1>6. Level(e, p, m) = Level(e, p, x)
  BY <1>1, <1>5
<1> QED
  BY <1>3, <1>4, <1>6 DEF m, x

\* A closed bracket.
LEMMA CloseClimbs ==
  ASSUME GoodStack(stack), Opens # {}, NEW p, Taken(")", p),
         NEW w, Len(w) = Max(Opens) - 1, \A k \in 1 .. Max(Opens) - 1 : w[k].bin_op = stack[k].bin_op
  PROVE  \E o : /\ Climbs(w, expr', Role(expr'), o)
                /\ \A k \in 1 .. Max(Opens) - 1 : o[k] = p[k]
<1> DEFINE n == Len(expr)
           x == Max(Opens)
           r == Role(expr)
           f == expr'
           q == Role(f)
<1>1. Len(stack) \in Nat \ {0} /\ x \in 2 .. Len(stack) /\ Signed(stack)
  BY OpensBound, GoodSigned DEF Signed
<1>2. x - 1 \in 1 .. Len(stack) /\ x - 1 \in 1 .. x - 1 /\ n \in Nat
  BY <1>1 DEF Taken
<1>3. /\ Stands(stack, expr, r, p) /\ Ranked(stack, expr, r, p) /\ Extends(f, q, expr, r, ")")
      /\ Roles(expr, r)
  BY DEF Taken, Climbs
<1>4. Level(expr, p, Len(stack)) = Level(expr, p, x - 1) + 1 /\ stack[x].bin_op = "("
  BY <1>2, <1>3, LevelOfOpen
<1>5. Depth(f, n + 2) = Level(expr, p, x - 1) /\ Level(expr, p, x - 1) \in Int /\ Len(f) = n + 1
      /\ Depth(f, n + 1) = Level(expr, p, x - 1) + 1
  BY <1>2, <1>4, TakenDepth, TakenLevels
<1>6. q[n + 1] # "binary"
  <2>1. RoleFor(")") # "binary"
    BY PriorOf DEF RoleFor
  <2> QED
    BY <2>1 DEF Taken
<1>7. /\ p[x] \in 1 .. n /\ p[x - 1] \in 0 .. n /\ p[x - 1] < p[x]
      /\ Level(expr, p, x) = Level(expr, p, x - 1) + 1 /\ expr[p[x]] = "("
  <2>1. p[x] \in 1 .. n /\ Level(expr, p, x) = Level(expr, p, x - 1) + 1
    BY <1>1, <1>2, <1>3, <1>4, LevelStep
  <2>2. p[x - 1] \in 0 .. n /\ p[x - 1] < p[x] /\ expr[p[x]] = "("
    <3>1. x \in 1 .. Len(stack) /\ x - 1 < x
      BY <1>1
    <3> QED
      BY <1>1, <1>2, <1>3, <1>4, <3>1 DEF Stands
  <2> QED
    BY <2>1, <2>2
<1> HIDE DEF x, f, q, r
<1>8. ASSUME NEW k \in 1 .. x - 1 PROVE Depth(f, n + 2) >= Level(expr, p, k)
  <2>1. k \in 1 .. Len(stack) /\ (k < x - 1 \/ k = x - 1)
    BY <1>1
  <2>2. CASE k = x - 1
    BY <1>5, <2>2
  <2>3. CASE k < x - 1
    <3>1. p[k] < p[x - 1] /\ p[k] \in 0 .. n /\ p[x - 1] \in 0 .. n
      BY <1>2, <1>3, <2>1, <2>3 DEF Stands
    <3>2. p[x - 1] + 1 \in p[k] + 1 .. n + 1
      BY <1>2, <3>1
    <3>3. Depth(expr, p[x - 1] + 1) >= Level(expr, p, k)
      BY <1>3, <2>1, <3>2 DEF Stands
    <3> QED
      BY <1>5, <3>3 DEF Level
  <2> QED
    BY <2>1, <2>2, <2>3
<1>9. PICK o : /\ Stands(w, f, q, o) /\ Ranked(w, f, q, o)
               /\ \A k \in 1 .. x - 1 : o[k] = p[k] /\ Level(f, o, k) = Level(expr, p, k)
  <2>1. Len(w) \in 1 .. Len(stack) /\ (\A k \in 1 .. Len(w) : w[k].bin_op = stack[k].bin_op) /\ Len(w) = x - 1
    BY <1>2 DEF x
  <2>2. \A k \in 1 .. Len(w) : Depth(f, Len(expr) + 2) >= Level(expr, p, k)
    BY <1>8, <2>1
  <2>3. \E o : /\ Stands(w, f, q, o) /\ Ranked(w, f, q, o)
               /\ \A k \in 1 .. Len(w) : o[k] = p[k] /\ Level(f, o, k) = Level(expr, p, k)
    BY <1>1, <1>2, <1>3, <1>6, <2>1, <2>2, TokenStands
  <2> QED
    BY <2>1, <2>3
<1>10. ASSUME NEW b \in p[x - 1] + 1 .. n + 1, q[b] = "binary" PROVE Depth(f, b) # Level(expr, p, x - 1)
  <2>1. b \in 1 .. n /\ b \in 1 .. n + 1
    <3>1. b # n + 1
      BY <1>6, <1>10
    <3> QED
      BY <1>2, <1>7, <3>1
  <2>2. r[b] = "binary" /\ Depth(f, b) = Depth(expr, b)
    BY <1>3, <1>10, <2>1 DEF Extends
  <2>3. CASE b < p[x]
    <3>1. b \in p[x - 1] + 1 .. p[x] - 1
      BY <1>7, <2>3
    <3> QED
      BY <1>1, <1>3, <1>4, <2>2, <3>1 DEF Ranked
  <2>4. CASE b = p[x]
    <3>1. expr[b] \in BinaryOps
      BY <1>3, <2>1, <2>2 DEF Roles, Operators
    <3> QED
      BY <1>7, <2>4, <3>1, PriorOf
  <2>5. CASE b > p[x]
    <3>1. b \in p[x] + 1 .. n + 1 /\ x \in 1 .. Len(stack)
      BY <1>1, <1>7, <2>5
    <3>2. Depth(expr, b) >= Level(expr, p, x)
      BY <1>3, <3>1 DEF Stands
    <3> QED
      BY <1>5, <1>7, <2>2, <3>2
  <2> QED
    BY <1>7, <2>3, <2>4, <2>5
<1>11. AtTop(w, f, q, o)
  <2>1. n + 1 + 1 = n + 2 /\ Len(w) = x - 1
    BY <1>2 DEF x
  <2> QED
    BY <1>2, <1>5, <1>9, <1>10, <2>1 DEF AtTop
<1> QED
  BY <1>9, <1>11 DEF Climbs, f, q, x

\* An operator that has waited is as good as the one it waited for.
LEMMA AtLeast ==
  ASSUME NEW t, NEW p, Taken(t, p), NEW k \in 2 .. Len(stack), stack[k].bin_op # "(",
         NEW b \in p[k] + 1 .. Len(expr), Role(expr)[b] = "binary", Depth(expr, b) = Level(expr, p, k)
  PROVE  /\ Prior(stack[k].bin_op) <= Prior(expr[b])
         /\ \/ Prior(stack[k].bin_op) < Prior(expr[b])
            \/ /\ Associative(stack[k].bin_op) /\ Prior(stack[k].bin_op) = Prior(expr[b])
               /\ ~HasOffset(expr)
<1> DEFINE r == Role(expr)
           a == p[k]
<1>1. a \in 1 .. Len(expr) /\ Len(expr) \in Nat
  BY LevelStep DEF Taken, Climbs
<1>2. expr[a] = stack[k].bin_op
  BY DEF Taken, Climbs, Stands
<1>3. b \in 1 .. Len(expr)
  BY <1>1
<1>4. Prior(stack[k].bin_op) < Prior(expr[b]) \/ Waiting(expr, r, a, b)
  BY DEF Taken, Climbs, Stands
<1>5. Waiting(expr, r, a, b) => Associative(expr[a]) /\ Prior(expr[a]) = Prior(expr[b]) /\ ~HasOffset(expr)
  BY <1>1, <1>3, StrandedIs DEF Taken
<1>6. Prior(stack[k].bin_op) \in Int /\ Prior(expr[b]) \in Int
  <2>1. stack[k].bin_op \in BinaryOps
    BY DEF Taken, Signed
  <2>2. expr[b] \in BinaryOps
    BY <1>3 DEF Taken, Roles, Operators
  <2> QED
    BY <2>1, <2>2, PriorOf
<1> HIDE DEF a, r
<1> QED
  BY <1>2, <1>4, <1>5, <1>6

\* An operator that does not bind more tightly than one below the top has waited.
LEMMA TopWaits ==
  ASSUME NEW t \in BinaryOps, state = "BINARY", NEW p, Taken(t, p),
         NEW k \in 2 .. Len(stack), k < Len(stack), stack[k].bin_op # "(",
         Level(expr, p, k) = Level(expr, p, Len(stack)), ~(Prior(stack[k].bin_op) < Prior(t))
  PROVE  Waiting(expr', Role(expr'), p[k], Len(expr) + 1)
<1> DEFINE m == Len(stack)
           n == Len(expr)
           f == expr'
           r == Role(expr)
           q == Role(f)
           a == p[k]
<1>1. Signed(stack) /\ n \in Nat /\ k \in 1 .. m
  BY DEF Taken, Signed
<1>2. RoleFor(t) = "binary"
  BY PriorOf DEF RoleFor
<1>3. /\ Stands(stack, expr, r, p) /\ Ranked(stack, expr, r, p) /\ Extends(f, q, expr, r, t)
      /\ q[n + 1] = "binary" /\ AtTop(stack, expr, r, p)
  BY <1>2 DEF Taken, Climbs
<1>4. PICK b \in a + 1 .. n :
        r[b] = "binary" /\ Depth(expr, b) = Level(expr, p, k) /\ Prior(expr[b]) > Prior(stack[k].bin_op)
  BY <1>1, <1>3, TighterAbove
<1>5. /\ a \in 1 .. n /\ Depth(expr, a) = Level(expr, p, k) /\ r[a] = "binary" /\ expr[a] = stack[k].bin_op
  <2>1. a \in 1 .. n /\ Depth(expr, a) = Level(expr, p, k)
    BY <1>1, <1>3, LevelStep
  <2>2. r[a] = "binary" /\ expr[a] = stack[k].bin_op
    BY <1>3 DEF Stands
  <2> QED
    BY <2>1, <2>2
<1>6. /\ \A i \in 1 .. n : f[i] = expr[i] /\ q[i] = r[i]
      /\ \A i \in 1 .. n + 1 : Depth(f, i) = Depth(expr, i)
      /\ f[n + 1] = t /\ Len(f) = n + 1
  BY <1>3 DEF Extends
<1>7. Depth(expr, n + 1) = Level(expr, p, k)
  BY <1>3 DEF AtTop
<1>8. ASSUME NEW i \in a .. n + 1 PROVE Depth(expr, i) >= Level(expr, p, k)
  <2>1. CASE i = a
    <3>1. Depth(expr, a) \in Int
      BY <1>5, DepthType
    <3> QED
      BY <1>5, <2>1, <3>1
  <2>2. CASE i # a
    <3>1. i \in a + 1 .. n + 1
      BY <1>5, <2>2
    <3> QED
      BY <1>1, <1>3, <3>1 DEF Stands
  <2> QED
    BY <2>1, <2>2
<1>9. \A i \in a + 1 .. n : r[i] = "binary" /\ Depth(expr, i) = Level(expr, p, k)
                              => Prior(stack[k].bin_op) <= Prior(expr[i])
  BY AtLeast
<1>10. stack[k].bin_op \in BinaryOps
  BY <1>1 DEF Signed
<1>11. Prior(stack[k].bin_op) \in Int /\ Prior(t) \in Int
  BY <1>10, PriorOf
<1>12. \A i \in 1 .. n : r[i] = "binary" => Prior(expr[i]) \in Int
  BY PriorOf DEF Taken, Roles, Operators
<1> HIDE DEF a, f, q, r, n
<1>13. a \in 1 .. n + 1 /\ n + 1 \in 1 .. n + 1 /\ (n + 1) - 1 = n /\ a + 1 .. (n + 1) - 1 = a + 1 .. n
  BY <1>1, <1>5
<1>14. q[a] = "binary" /\ q[n + 1] = "binary" /\ Depth(f, a) = Level(expr, p, k) /\ f[a] = stack[k].bin_op
  BY <1>3, <1>5, <1>6, <1>13
<1>15. \A i \in a .. n + 1 : Depth(f, i) >= Depth(f, a)
  <2>1. \A i \in a .. n + 1 : i \in 1 .. n + 1
    BY <1>5
  <2> QED
    BY <1>6, <1>8, <1>14, <2>1
<1>16. Depth(f, n + 1) = Depth(f, a) /\ Prior(f[n + 1]) <= Prior(f[a])
  <2>1. Depth(f, n + 1) = Depth(f, a) /\ f[n + 1] = t
    BY <1>6, <1>7, <1>13, <1>14
  <2>2. Prior(t) <= Prior(stack[k].bin_op)
    BY <1>11
  <2> QED
    BY <1>14, <2>1, <2>2
<1>17. \A i \in a + 1 .. n : f[i] = expr[i] /\ q[i] = r[i] /\ Depth(f, i) = Depth(expr, i) /\ i \in 1 .. n
  <2>1. \A i \in a + 1 .. n : i \in 1 .. n /\ i \in 1 .. n + 1
    BY <1>1, <1>5
  <2> QED
    BY <1>6, <2>1
<1>18. \A i \in a + 1 .. n : q[i] = "binary" /\ Depth(f, i) = Depth(f, a) => Prior(f[i]) >= Prior(f[a])
  BY <1>9, <1>11, <1>12, <1>14, <1>17
<1>19. q[b] = "binary" /\ Depth(f, b) = Depth(f, a) /\ Prior(f[b]) > Prior(f[a])
  BY <1>4, <1>11, <1>12, <1>14, <1>17
<1>20. \E i \in a + 1 .. (n + 1) - 1 : q[i] = "binary" /\ Depth(f, i) = Depth(f, a) /\ Prior(f[i]) > Prior(f[a])
  BY <1>4, <1>13, <1>19
<1>21. \A i \in a + 1 .. (n + 1) - 1 : q[i] = "binary" /\ Depth(f, i) = Depth(f, a) => Prior(f[i]) >= Prior(f[a])
  BY <1>13, <1>18
<1>22. Waiting(f, q, a, n + 1)
  BY <1>14, <1>15, <1>16, <1>20, <1>21 DEF Waiting
<1> QED
  BY <1>22 DEF a, f, q, n

\* An operator that binds more tightly than the last one.
LEMMA TighterClimbs ==
  ASSUME GoodStack(stack), NEW t \in BinaryOps, state = "BINARY", NEW p, Taken(t, p),
         Prior(Top.bin_op) < Prior(t),
         NEW w, Len(w) = Len(stack) + 1, \A k \in 1 .. Len(stack) : w[k] = stack[k], w[Len(w)].bin_op = t
  PROVE  \E o : /\ Climbs(w, expr', Role(expr'), o)
                /\ o[Len(w)] = Len(expr) + 1 /\ \A k \in 1 .. Len(stack) : o[k] = p[k]
<1> DEFINE m == Len(stack)
           n == Len(expr)
<1>1. Signed(stack) /\ m \in Nat \ {0} /\ m \in 1 .. m /\ stack[1].bin_op = "none"
  BY GoodSigned DEF Signed
<1>2. RoleFor(t) = "binary" /\ t # "(" /\ t # ")"
  BY PriorOf DEF RoleFor
<1>3. ASSUME NEW k \in 2 .. m, stack[k].bin_op # "(", Level(expr, p, k) = Level(expr, p, m)
      PROVE  Prior(stack[k].bin_op) < Prior(t) \/ Waiting(expr', Role(expr'), p[k], n + 1)
  <2>1. CASE k = m
    BY <2>1 DEF Top
  <2>2. CASE k < m
    BY <1>3, <2>2, TopWaits
  <2> QED
    BY <1>1, <2>1, <2>2
<1>4. \A b \in p[m] + 1 .. n : Role(expr)[b] = "binary" /\ Depth(expr, b) = Level(expr, p, m) => FALSE
  BY DEF Taken, Climbs, AtTop
<1>5. \E b \in p[m] + 1 .. n + 1 :
        /\ Role(expr')[b] = "binary" /\ Depth(expr', b) = Level(expr, p, m)
        /\ Prior(expr'[b]) > Prior(stack[m].bin_op)
  <2>1. n \in Nat /\ p[m] \in 0 .. n
    BY <1>1 DEF Taken, Climbs, Stands
  <2>2. n + 1 \in p[m] + 1 .. n + 1
    BY <2>1
  <2>3. Role(expr')[n + 1] = "binary" /\ expr'[n + 1] = t
    BY <1>2 DEF Taken, Extends
  <2>4. Depth(expr', n + 1) = Level(expr, p, m)
    BY TakenDepth
  <2>5. Prior(t) > Prior(stack[m].bin_op)
    <3>1. Prior(t) \in Int /\ Prior(stack[m].bin_op) \in Int
      <4>1. m = 1 \/ m \in 2 .. m
        <5> HIDE DEF m
        <5>1. m \in Nat \ {0}
          BY <1>1
        <5> QED
          BY <5>1
      <4>2. stack[m].bin_op \in BinaryOps \cup {"(", "none"}
        BY <1>1, <4>1 DEF Signed
      <4>3. \A op \in BinaryOps : Prior(op) \in Int
        BY PriorOf
      <4>4. Prior("(") \in Int /\ Prior("none") \in Int
        BY PriorOf
      <4> HIDE DEF m
      <4> QED
        BY <4>2, <4>3, <4>4
    <3> QED
      BY <3>1 DEF Top
  <2> QED
    BY <2>2, <2>3, <2>4, <2>5
<1>6. Fits(t, p, m)
  BY <1>3, <1>4, <1>5 DEF Fits
<1>7. Pushes(t, p, stack, w)
  <2>1. /\ Len(stack) \in 1 .. Len(stack) /\ Level(expr, p, Len(stack)) = Level(expr, p, Len(stack))
        /\ Fits(t, p, Len(stack)) /\ Len(w) = Len(stack) + 1
    BY <1>1, <1>6
  <2>2. (t # "(" => RoleFor(t) = "binary") /\ (t = "(" => RoleFor(t) # "binary") /\ t # ")"
    BY <1>2
  <2>3. /\ \A k \in 1 .. Len(stack) : stack[k].bin_op = stack[k].bin_op
        /\ \A k \in 1 .. Len(stack) : w[k] = stack[k]
        /\ w[Len(w)].bin_op = t
    OBVIOUS
  <2> HIDE DEF m, n
  <2> QED
    BY ONLY <2>1, <2>2, <2>3 DEF Pushes
<1> QED
  BY <1>7, PushClimbs

\* An operator that does not: the last operation is reduced, and an operator on
\* its level that is not reduced as well is one that was waited for.
LEMMA LooserClimbs ==
  ASSUME GoodStack(stack), NEW t \in BinaryOps, state = "BINARY", NEW p, Taken(t, p),
         ~(Prior(Top.bin_op) < Prior(t)),
         NEW u, Len(u) = Len(stack) - 1, \A k \in 1 .. Len(u) : u[k].bin_op = stack[k].bin_op,
         NEW w, Len(w) = Len(u) + 1, \A k \in 1 .. Len(u) : w[k] = u[k], w[Len(w)].bin_op = t
  PROVE  /\ Len(u) \in 1 .. Len(stack) /\ Top.bin_op # "("
         /\ \E o : /\ Climbs(w, expr', Role(expr'), o)
                   /\ o[Len(w)] = Len(expr) + 1 /\ \A k \in 1 .. Len(u) : o[k] = p[k]
<1> DEFINE m == Len(stack)
           n == Len(expr)
           l == Len(u)
           f == expr'
           r == Role(expr)
           q == Role(f)
<1>1. Signed(stack) /\ stack[1].bin_op = "none" /\ l = m - 1 /\ n \in Nat /\ m \in Nat \ {0}
  BY GoodSigned DEF Taken, Signed
<1>2. RoleFor(t) = "binary" /\ t # "(" /\ t # ")" /\ Prior(t) \in Int /\ Prior(t) >= 2
  BY PriorOf DEF RoleFor
<1>3. m # 1 /\ stack[m].bin_op # "("
  BY <1>1, <1>2, PriorOf DEF Top
<1>4. m \in 2 .. m /\ m \in Nat /\ l \in 1 .. m /\ m \in 1 .. m
  BY <1>1, <1>3
<1>5. stack[m].bin_op \in BinaryOps /\ Prior(stack[m].bin_op) >= Prior(t) /\ Prior(stack[m].bin_op) \in Int
  <2>1. stack[m].bin_op \in BinaryOps
    BY <1>1, <1>3, <1>4 DEF Signed
  <2>2. Prior(stack[m].bin_op) \in Int
    BY <2>1, PriorOf
  <2> QED
    BY <1>2, <2>1, <2>2 DEF Top
<1>6. /\ Stands(stack, expr, r, p) /\ Ranked(stack, expr, r, p) /\ Extends(f, q, expr, r, t)
      /\ AtTop(stack, expr, r, p) /\ Roles(expr, r)
  BY DEF Taken, Climbs
<1>7. Level(expr, p, l) = Level(expr, p, m) /\ Depth(expr, p[m]) = Level(expr, p, m) /\ p[m] \in 1 .. n
  BY <1>1, <1>3, <1>4, <1>6, LevelStep
<1>8. ASSUME NEW k \in 2 .. l, stack[k].bin_op # "(", Level(expr, p, k) = Level(expr, p, m)
      PROVE  Prior(stack[k].bin_op) < Prior(t) \/ Waiting(f, q, p[k], n + 1)
  <2>1. k \in 2 .. m /\ k < m
    BY <1>1
  <2> QED
    BY <1>8, <2>1, TopWaits
<1>9. ASSUME NEW b \in p[l] + 1 .. n, r[b] = "binary", Depth(expr, b) = Level(expr, p, m)
      PROVE  t # "(" /\ Prior(expr[b]) >= Prior(t)
  <2>1. p[l] \in 0 .. n /\ b \in Int
    BY <1>4, <1>6 DEF Stands
  <2>2. CASE b < p[m]
    <3>1. b \in p[m - 1] + 1 .. p[m] - 1 /\ Depth(expr, b) = Level(expr, p, m - 1)
      BY <1>1, <1>7, <1>9, <2>1, <2>2
    <3>2. Prior(expr[b]) >= Prior(stack[m].bin_op)
      BY <1>4, <1>6, <1>9, <3>1 DEF Ranked
    <3>3. Prior(expr[b]) \in Int
      <4>1. b \in 1 .. n
        BY <2>1
      <4> QED
        BY <1>6, <1>9, <4>1, PriorOf DEF Roles, Operators
    <3> QED
      BY <1>2, <1>5, <3>2, <3>3
  <2>3. CASE b = p[m]
    BY <1>2, <1>4, <1>5, <1>6, <2>3 DEF Stands
  <2>4. CASE b > p[m]
    <3>1. b \in p[m] + 1 .. n
      BY <1>7, <2>1, <2>4
    <3> QED
      BY <1>6, <1>9, <3>1 DEF AtTop
  <2> QED
    BY <1>7, <2>1, <2>2, <2>3, <2>4
<1>10. ASSUME l # 1, stack[l].bin_op # "("
       PROVE  \E b \in p[l] + 1 .. n + 1 : /\ q[b] = "binary" /\ Depth(f, b) = Level(expr, p, m)
                                           /\ Prior(f[b]) > Prior(stack[l].bin_op)
  <2>1. l \in 2 .. m - 1 /\ l + 1 = m
    BY <1>1, <1>4, <1>10
  <2>2. PICK b \in p[l] + 1 .. p[m] :
          r[b] = "binary" /\ Depth(expr, b) = Level(expr, p, l) /\ Prior(expr[b]) > Prior(stack[l].bin_op)
    BY <1>3, <1>6, <1>10, <2>1 DEF Ranked
  <2>3. p[l] \in 0 .. n
    BY <1>4, <1>6 DEF Stands
  <2>4. b \in p[l] + 1 .. n + 1 /\ b \in 1 .. n /\ b \in 1 .. n + 1
    BY <1>7, <2>3
  <2>5. q[b] = "binary" /\ Depth(f, b) = Level(expr, p, m) /\ f[b] = expr[b]
    BY <1>6, <1>7, <2>2, <2>4 DEF Extends
  <2> QED
    BY <2>2, <2>4, <2>5
<1>11. Fits(t, p, l)
  BY <1>8, <1>9, <1>10 DEF Fits
<1>12. \E o : /\ Climbs(w, expr', Role(expr'), o)
              /\ o[Len(w)] = Len(expr) + 1 /\ \A k \in 1 .. Len(u) : o[k] = p[k]
  <2>1. Pushes(t, p, u, w)
    BY <1>2, <1>4, <1>7, <1>11 DEF Pushes
  <2> HIDE DEF m, n, l, f, q, r
  <2> QED
    BY <2>1, PushClimbs
<1>13. Top.bin_op # "("
  BY <1>3 DEF Top
<1>14. Len(u) \in 1 .. Len(stack)
  BY <1>4
<1> QED
  BY <1>12, <1>13, <1>14
------------------------------------------------------------------------------
(* The values of the entries.                                               *)

IsValue(v) == v.type = "SEGMENT" \/ v = Num(v.number)

\* The sign of an entry stands right before token j + 1, or there is none.
Placed(u, e, r, i, j) ==
  \/ u = "none" /\ j = i
  \/ u \in UnaryOps /\ j = i + 1 /\ j \in 1 .. Len(e) /\ u = e[j] /\ r[j] = "unary"

\* The value of an entry is one of the tokens between it and the next one; under
\* a bracket it has none yet.
Below(s, e, r, p, k) ==
  IF s[k + 1].bin_op # "(" THEN s[k].val \in ValuesOf(e, p[k] + 1, p[k + 1] - 1)
  ELSE Placed(s[k].una_op, e, r, p[k], p[k + 1] - 1)

\* The last entry has one when the operand is read.
OnTop(s, st, e, r, p) ==
  IF st = "BINARY" THEN s[Len(s)].val \in ValuesOf(e, p[Len(s)] + 1, Len(e))
  ELSE /\ Placed(s[Len(s)].una_op, e, r, p[Len(s)], Len(e))
       /\ st = "UNARY_OR_VALUE" => s[Len(s)].una_op = "none"

Valued(s, st, e, r, p) ==
  /\ \A k \in 1 .. Len(s) : IsValue(s[k].val)
  /\ \A k \in 1 .. Len(s) - 1 : Below(s, e, r, p, k)
  /\ OnTop(s, st, e, r, p)

LEMMA ResultIsValue ==
  /\ \A op, v : IsValue(v) => \A w \in UnaryOp(op, v) : IsValue(w)
  /\ \A op, v, w : \A x \in BinaryOp(v, op, w) : IsValue(x)
  /\ \A v : IsValue(v) => UnaryOp("none", v) = {v}
  /\ \A t : IsValue(ValueOf(t))
  /\ IsValue(Num(0))
<1>1. \A n : IsValue(Num(n)) /\ \A s : IsValue(Seg(s, n))
  BY DEF IsValue, Num, Seg
<1>2. ASSUME NEW op, NEW v, IsValue(v), NEW w \in UnaryOp(op, v) PROVE IsValue(w)
  BY <1>1, <1>2 DEF UnaryOp
<1>3. ASSUME NEW op, NEW v, NEW w, NEW x \in BinaryOp(v, op, w) PROVE IsValue(x)
  <2>1. CASE v.type = "SEGMENT" /\ w.type = "SEGMENT"
    BY <1>1, <2>1, <1>3 DEF BinaryOp
  <2>2. CASE v.type = "NUM" /\ w.type = "NUM"
    BY <1>1, <2>2, <1>3 DEF BinaryOp
  <2>3. CASE ~(v.type = "SEGMENT" /\ w.type = "SEGMENT") /\ ~(v.type = "NUM" /\ w.type = "NUM")
    BY <1>1, <2>3, <1>3 DEF BinaryOp
  <2> QED
    BY <2>1, <2>2, <2>3
<1>4. ASSUME NEW v, IsValue(v) PROVE UnaryOp("none", v) = {v}
  <2>1. CASE v.type = "SEGMENT"
    BY <2>1 DEF UnaryOp
  <2>2. CASE v.type # "SEGMENT"
    BY <1>4, <2>2 DEF UnaryOp, IsValue
  <2> QED
    BY <2>1, <2>2
<1>5. ASSUME NEW t PROVE IsValue(ValueOf(t))
  <2>1. CASE t \in DOMAIN Numeral \/ IsUnvalued(t)
    BY <1>1, <2>1 DEF ValueOf
  <2>2. CASE t \notin DOMAIN Numeral /\ ~IsUnvalued(t)
    BY <1>1, <2>2 DEF ValueOf
  <2> QED
    BY <2>1, <2>2
<1> QED
  BY <1>1, <1>2, <1>3, <1>4, <1>5

\* Reduced, of the entries of s from k on.
IsReduced(k, r) ==
  r = [i \in k .. Len(stack) |->
        IF i = Len(stack) THEN {stack[i].val}
        ELSE UNION {BinaryOp(stack[i].val, stack[i + 1].bin_op, v) : v \in r[i + 1]}]

LEMMA ReducedChosen == \A k : Reduced(k) = (CHOOSE r : IsReduced(k, r))[k]
BY DEF Reduced, IsReduced

LEMMA ReducedExists ==
  ASSUME Signed(stack), NEW k \in 1 .. Len(stack)
  PROVE  \E r : IsReduced(k, r)
<1> DEFINE m == Len(stack)
           D == {h \in 1 .. m : ~\E r : IsReduced(h, r)}
<1>1. m \in Nat \ {0} /\ m \in 1 .. m
  BY DEF Signed
<1>2. D = {}
  <2> SUFFICES ASSUME D # {} PROVE FALSE
    OBVIOUS
  <2>1. D \subseteq Int /\ m \in Int /\ D # {} /\ \A x \in D : x <= m
    BY <1>1
  <2>2. Max(D) \in D /\ \A y \in D : y <= Max(D)
    <3> HIDE DEF D, m
    <3> QED
      BY <2>1, IntMax
  <2> DEFINE h == Max(D)
  <2>3. h \in 1 .. m /\ ~\E r : IsReduced(h, r)
    BY <2>2
  <2>4. h # m
    <3> DEFINE r == [i \in m .. m |-> {stack[i].val}]
    <3>1. m .. m = {m}
      BY <1>1
    <3>2. IsReduced(m, r)
      BY <1>1, <3>1 DEF IsReduced
    <3> QED
      BY <2>3, <3>2
  <2>5. h + 1 \in 1 .. m /\ h + 1 \notin D
    <3> HIDE DEF D
    <3> QED
      BY <1>1, <2>2, <2>3, <2>4
  <2>6. PICK r : IsReduced(h + 1, r)
    BY <2>5
  <2> HIDE DEF h, D
  <2> DEFINE g == [i \in h .. m |->
                    IF i = h THEN UNION {BinaryOp(stack[i].val, stack[i + 1].bin_op, v) : v \in r[i + 1]}
                    ELSE r[i]]
  <2>7. ASSUME NEW i \in h .. m, i # m PROVE g[i + 1] = r[i + 1] /\ i + 1 \in h + 1 .. m
    BY <1>1, <2>3, <2>7
  <2>8. ASSUME NEW i \in h .. m
        PROVE  g[i] = IF i = m THEN {stack[i].val}
                      ELSE UNION {BinaryOp(stack[i].val, stack[i + 1].bin_op, v) : v \in g[i + 1]}
    <3>1. CASE i = h
      BY <2>3, <2>4, <2>7, <3>1
    <3>2. CASE i # h
      <4>1. i \in h + 1 .. m
        BY <1>1, <2>3, <3>2
      <4>2. r[i] = IF i = m THEN {stack[i].val}
                   ELSE UNION {BinaryOp(stack[i].val, stack[i + 1].bin_op, v) : v \in r[i + 1]}
        BY <2>6, <4>1 DEF IsReduced
      <4>3. g[i] = r[i]
        BY <3>2
      <4> HIDE DEF g
      <4> QED
        BY <2>7, <4>2, <4>3
    <3> QED
      BY <3>1, <3>2
  <2>9. IsReduced(h, g)
    <3>1. g = [i \in h .. m |-> g[i]]
      OBVIOUS
    <3> HIDE DEF g
    <3> QED
      BY <2>8, <3>1 DEF IsReduced
  <2> QED
    BY <2>3, <2>9
<1>3. k \notin D
  <2> HIDE DEF D
  <2> QED
    BY <1>2
<1> QED
  BY <1>3
------------------------------------------------------------------------------
(* The values that the stack is reduced to.                                 *)

\* What an operand has behind it: the stack is known and no operator is stranded.
Known(p) ==
  /\ Signed(stack) /\ Roles(expr, Role(expr)) /\ StateFits(Role(expr))
  /\ Climbs(stack, expr, Role(expr), p) /\ ~Stranded(expr)
  /\ Valued(stack, state, expr, Role(expr), p)

\* The operator of the entry above h splits the tokens behind h.
LEMMA StackSplits ==
  ASSUME NEW p, Known(p), state = "BINARY", NEW h \in 1 .. Len(stack) - 1, stack[h + 1].bin_op # "("
  PROVE  /\ p[h] + 1 \in 1 .. Len(expr) /\ p[h + 1] \in 1 .. Len(expr) /\ Len(expr) \in 1 .. Len(expr)
         /\ expr[p[h + 1]] = stack[h + 1].bin_op
         /\ Splits(expr, Role(expr), p[h] + 1, p[h + 1], Len(expr))
<1> DEFINE n == Len(expr)
           r == Role(expr)
           c == p[h + 1]
           i == p[h] + 1
<1>1. Signed(stack) /\ Roles(expr, r) /\ Stands(stack, expr, r, p) /\ Ranked(stack, expr, r, p) /\ StateFits(r)
  BY DEF Known, Climbs
<1>2. h + 1 \in 2 .. Len(stack) /\ h + 1 - 1 = h /\ h \in 1 .. Len(stack) /\ h + 1 \in 1 .. Len(stack) /\ h < h + 1
      /\ n \in Nat
  BY <1>1 DEF Signed, Roles
<1>3. p[h] \in 0 .. n /\ p[h] < c /\ c \in 1 .. n
  <2>1. p[h] \in 0 .. n /\ c \in 0 .. n /\ p[h] < c
    BY <1>1, <1>2 DEF Stands
  <2> QED
    BY <2>1
<1>4. expr[c] = stack[h + 1].bin_op /\ r[c] = "binary" /\ Depth(expr, c) = Depth(expr, i)
  BY <1>1, <1>2 DEF Stands, Level
<1>5. c # i
  <2> SUFFICES ASSUME c = i PROVE FALSE
    OBVIOUS
  <2>1. ~First(expr, r, c)
    BY <1>1, <1>3, <1>4 DEF Roles
  <2>2. c # 1 /\ c - 1 = p[h] /\ h # 1
    BY <1>1, <1>3, <2>1 DEF First, Stands
  <2>3. h \in 2 .. Len(stack)
    BY <1>2, <2>2
  <2>4. expr[p[h]] = stack[h].bin_op /\ (stack[h].bin_op # "(" => r[p[h]] = "binary")
    BY <1>1, <2>3 DEF Stands
  <2> QED
    BY <2>1, <2>2, <2>4 DEF First
<1>6. c # n
  <2>1. ~First(expr, r, n + 1)
    BY <1>1 DEF StateFits
  <2>2. n + 1 - 1 = n
    BY <1>2
  <2> QED
    BY <1>4, <2>1, <2>2 DEF First
<1>7. c \in i + 1 .. n - 1 /\ i \in 1 .. n
  BY <1>2, <1>3, <1>5, <1>6
<1>8. c \in Ops(expr, r, i, n)
  BY <1>4, <1>7 DEF Ops
<1>9. ASSUME NEW l \in Ops(expr, r, i, n), l < c
      PROVE  Prior(expr[l]) >= Prior(expr[c])
  <2>1. l \in i + 1 .. n - 1 /\ r[l] = "binary" /\ Depth(expr, l) = Depth(expr, i)
    BY DEF Ops
  <2>2. l \in p[h] + 1 .. p[h + 1] - 1
    BY <1>2, <1>3, <1>9, <2>1
  <2>3. Depth(expr, l) = Level(expr, p, h)
    BY <2>1 DEF Level
  <2>4. \A b \in p[h] + 1 .. p[h + 1] - 1 : r[b] = "binary" /\ Depth(expr, b) = Level(expr, p, h)
                 => Prior(expr[b]) >= Prior(stack[h + 1].bin_op)
    BY <1>1, <1>2 DEF Ranked
  <2> QED
    BY <1>4, <2>1, <2>2, <2>3, <2>4
<1>10. ASSUME NEW l \in Ops(expr, r, i, n), l > c
       PROVE  \/ Prior(expr[c]) < Prior(expr[l])
              \/ Associative(expr[c]) /\ Prior(expr[c]) = Prior(expr[l]) /\ ~HasOffset(expr)
  <2>1. l \in i + 1 .. n - 1 /\ r[l] = "binary" /\ Depth(expr, l) = Depth(expr, i)
    BY DEF Ops
  <2>2. l \in c + 1 .. n /\ l \in 1 .. n
    BY <1>2, <1>3, <1>10, <2>1
  <2>3. Depth(expr, l) = Level(expr, p, h + 1)
    <3>1. Level(expr, p, h + 1) = Level(expr, p, h)
      <4>1. \A g \in 2 .. Len(stack) : stack[g].bin_op # "(" => Level(expr, p, g) = Level(expr, p, g - 1)
        <5>1. Len(expr) \in Nat
          BY <1>2
        <5> QED
          BY <1>1, <5>1, LevelStep
      <4> QED
        BY <1>2, <4>1
    <3> QED
      BY <2>1, <3>1 DEF Level
  <2>4. Prior(expr[c]) < Prior(expr[l]) \/ Waiting(expr, r, c, l)
    BY <1>1, <1>2, <1>4, <2>1, <2>2, <2>3 DEF Stands
  <2>5. ~Stranded(expr)
    BY DEF Known
  <2> QED
    BY <1>3, <2>2, <2>4, <2>5, StrandedIs
<1>11. n \in 1 .. n
  BY <1>2, <1>3
<1> HIDE DEF c, i, n, r
<1>12. Splits(expr, r, i, c, n)
  BY <1>8, <1>9, <1>10 DEF Splits
<1> QED
  BY <1>3, <1>4, <1>7, <1>11, <1>12 DEF c, i, n, r

\* What the stack is reduced to has the value of the tokens it stands for.
LEMMA ReducedIn ==
  ASSUME NEW p, Known(p), state = "BINARY", NEW k \in 1 .. Len(stack),
         \A h \in k + 1 .. Len(stack) : stack[h].bin_op # "("
  PROVE  Reduced(k) \subseteq ValuesOf(expr, p[k] + 1, Len(expr)) /\ \A v \in Reduced(k) : IsValue(v)
<1> DEFINE m == Len(stack)
           n == Len(expr)
           w == CHOOSE w : IsReduced(k, w)
           Good(i) == w[i] \subseteq ValuesOf(expr, p[i] + 1, n) /\ \A v \in w[i] : IsValue(v)
           D == {h \in k .. m : ~Good(h)}
<1>1. m \in Nat \ {0} /\ m \in k .. m /\ k \in k .. m /\ \A h \in k .. m : h \in 1 .. m
  BY DEF Known, Signed
<1>2. Valued(stack, state, expr, Role(expr), p)
  BY DEF Known
<1>3. IsReduced(k, w)
  BY ReducedExists DEF Known
<1>4. Reduced(k) = w[k]
  BY ReducedChosen
<1> HIDE DEF w
<1>5. \A i \in k .. m : w[i] = IF i = m THEN {stack[i].val}
                               ELSE UNION {BinaryOp(stack[i].val, stack[i + 1].bin_op, v) : v \in w[i + 1]}
  BY <1>3 DEF IsReduced
<1>6. Good(m)
  <2>1. w[m] = {stack[m].val}
    BY <1>1, <1>5
  <2>2. stack[m].val \in ValuesOf(expr, p[m] + 1, n) /\ IsValue(stack[m].val)
    BY <1>1, <1>2 DEF Valued, OnTop
  <2> QED
    BY <2>1, <2>2
<1>7. ASSUME NEW h \in k .. m, h # m, Good(h + 1)
      PROVE  Good(h)
  <2>1. h \in 1 .. m - 1 /\ h \in 1 .. m /\ h + 1 \in k + 1 .. m
    BY <1>1, <1>7
  <2>2. stack[h + 1].bin_op # "("
    BY <2>1
  <2> DEFINE c == p[h + 1]
             X == ValuesOf(expr, p[h] + 1, c - 1)
             Y == ValuesOf(expr, c + 1, n)
  <2>3. /\ p[h] + 1 \in 1 .. n /\ c \in 1 .. n /\ n \in 1 .. n
        /\ expr[c] = stack[h + 1].bin_op /\ Splits(expr, Role(expr), p[h] + 1, c, n)
    BY <2>1, <2>2, StackSplits
  <2>4. stack[h].val \in X
    BY <1>2, <2>1, <2>2 DEF Valued, Below
  <2>5. w[h + 1] \subseteq Y
    BY <1>7
  <2>6. w[h] = UNION {BinaryOp(stack[h].val, stack[h + 1].bin_op, v) : v \in w[h + 1]}
    BY <1>5, <1>7
  <2>7. Joined(expr[c], X, Y) \subseteq ValuesOf(expr, p[h] + 1, n)
    <3>1. Roles(expr, Role(expr))
      BY DEF Known
    <3> HIDE DEF c
    <3> QED
      BY <2>3, <3>1, Combine
  <2>8. w[h] \subseteq Joined(expr[c], X, Y)
    <3> HIDE DEF X, Y, c
    <3> QED
      BY <2>3, <2>4, <2>5, <2>6 DEF Joined
  <2>9. \A v \in w[h] : IsValue(v)
    BY <2>6, ResultIsValue
  <2> QED
    BY <2>7, <2>8, <2>9
<1>8. D = {}
  <2> SUFFICES ASSUME D # {} PROVE FALSE
    OBVIOUS
  <2>1. D \subseteq Int /\ m \in Int /\ D # {} /\ \A x \in D : x <= m
    BY <1>1
  <2>2. Max(D) \in D /\ \A y \in D : y <= Max(D)
    <3> HIDE DEF D, m
    <3> QED
      BY <2>1, IntMax
  <2>3. Max(D) \in k .. m /\ ~Good(Max(D))
    BY <2>2
  <2> HIDE DEF Good
  <2>4. Max(D) # m
    BY <1>6, <2>3
  <2>5. Max(D) + 1 \in k .. m /\ Max(D) + 1 \notin D
    <3> HIDE DEF D
    <3> QED
      BY <1>1, <2>2, <2>3, <2>4
  <2>6. Good(Max(D) + 1)
    BY <2>5
  <2> HIDE DEF D
  <2> QED
    BY <1>7, <2>3, <2>4, <2>6
<1>9. Good(k)
  <2> HIDE DEF Good
  <2> QED
    BY <1>1, <1>8
<1> QED
  BY <1>4, <1>9
------------------------------------------------------------------------------
(* The values of the entries when a token is taken.                         *)

\* The value of an operand and its sign, if it has one.
LEMMA SignedValue ==
  ASSUME NEW e, Roles(e, Role(e)), NEW u, NEW i \in 0 .. Len(e), NEW c \in 1 .. Len(e), Placed(u, e, Role(e), i, c - 1),
         NEW j \in c .. Len(e), NEW v, IsValue(v), v \in ValuesOf(e, c, j),
         u # "none" => Ops(e, Role(e), i + 1, j) = {}
  PROVE  UnaryOp(u, v) \subseteq ValuesOf(e, i + 1, j)
<1>0. Len(e) \in Nat
  BY DEF Roles
<1>1. CASE u = "none"
  <2>1. c - 1 = i
    BY <1>1 DEF Placed, UnaryOps
  <2>2. i + 1 = c
    BY <1>0, <2>1
  <2>3. UnaryOp(u, v) = {v}
    BY <1>1, ResultIsValue
  <2> QED
    BY <2>2, <2>3
<1>2. CASE u # "none"
  <2>1. c - 1 = i + 1 /\ c - 1 \in 1 .. Len(e) /\ u = e[c - 1] /\ Role(e)[c - 1] = "unary"
    BY <1>2 DEF Placed
  <2>2. i + 1 \in 1 .. Len(e) /\ i + 1 + 1 = c /\ j \in i + 1 .. Len(e) /\ u = e[i + 1] /\ Role(e)[i + 1] = "unary"
    BY <1>0, <2>1
  <2>3. ValuesOf(e, i + 1, j) = Negated(e[i + 1], ValuesOf(e, i + 1 + 1, j))
    BY <1>2, <2>2, MeanSigned
  <2>4. ValuesOf(e, i + 1, j) = Negated(u, ValuesOf(e, c, j))
    BY <2>2, <2>3
  <2> QED
    BY <2>4 DEF Negated
<1> QED
  BY <1>1, <1>2

LEMMA PlacedKept ==
  ASSUME NEW t, NEW p, Taken(t, p), NEW u, NEW i, NEW j, Placed(u, expr, Role(expr), i, j)
  PROVE  Placed(u, expr', Role(expr'), i, j)
<1>1. Len(expr) \in Nat /\ Len(expr') = Len(expr) + 1
  BY DEF Taken, Extends
<1>2. \A k \in 1 .. Len(expr) : k \in 1 .. Len(expr')
  BY <1>1
<1>3. \A k \in 1 .. Len(expr) : expr'[k] = expr[k] /\ Role(expr')[k] = Role(expr)[k]
  BY DEF Taken, Extends
<1> QED
  BY <1>2, <1>3 DEF Placed

LEMMA ValuesKept ==
  ASSUME NEW t, NEW p, Taken(t, p), NEW i \in 1 .. Len(expr) + 1, NEW j \in 0 .. Len(expr)
  PROVE  ValuesOf(expr', i, j) = ValuesOf(expr, i, j)
BY MeanKept DEF Taken

\* Where the entries come from.
LEMMA TakenPlaces ==
  ASSUME NEW t, NEW p, Taken(t, p)
  PROVE  /\ Len(stack) \in Nat \ {0} /\ Len(expr) \in Nat /\ Len(expr') = Len(expr) + 1
         /\ \A k \in 1 .. Len(stack) : p[k] \in 0 .. Len(expr) /\ p[k] + 1 \in 1 .. Len(expr) + 1
         /\ \A k \in 1 .. Len(stack) - 1 : p[k + 1] \in 1 .. Len(expr) /\ p[k + 1] - 1 \in 0 .. Len(expr) /\ p[k] < p[k + 1]
<1>1. Len(stack) \in Nat \ {0} /\ Len(expr) \in Nat /\ Len(expr') = Len(expr) + 1
  BY DEF Taken, Signed, Extends
<1>2. ASSUME NEW k \in 1 .. Len(stack) PROVE p[k] \in 0 .. Len(expr)
  BY DEF Taken, Climbs, Stands
<1>3. ASSUME NEW k \in 1 .. Len(stack) - 1 PROVE p[k] < p[k + 1] /\ k \in 1 .. Len(stack) /\ k + 1 \in 1 .. Len(stack)
  <2>1. k \in 1 .. Len(stack) /\ k + 1 \in 1 .. Len(stack) /\ k < k + 1
    BY <1>1
  <2>2. \A a, b \in 1 .. Len(stack) : a < b => p[a] < p[b]
    BY DEF Taken, Climbs, Stands
  <2> QED
    BY <2>1, <2>2
<1>4. ASSUME NEW k \in 1 .. Len(stack) - 1 PROVE p[k + 1] \in 1 .. Len(expr) /\ p[k + 1] - 1 \in 0 .. Len(expr)
  <2>1. p[k] \in 0 .. Len(expr) /\ p[k + 1] \in 0 .. Len(expr) /\ p[k] < p[k + 1]
    BY <1>2, <1>3
  <2> QED
    BY <1>1, <2>1
<1>5. \A k \in 1 .. Len(stack) : p[k] + 1 \in 1 .. Len(expr) + 1
  BY <1>1, <1>2
<1> QED
  BY <1>1, <1>2, <1>3, <1>4, <1>5

\* An entry that stays below another keeps its value.
LEMMA BelowKept ==
  ASSUME NEW t, NEW p, Taken(t, p), NEW k \in 1 .. Len(stack) - 1, Below(stack, expr, Role(expr), p, k),
         NEW w, w[k] = stack[k], w[k + 1].bin_op = stack[k + 1].bin_op,
         NEW o, o[k] = p[k], o[k + 1] = p[k + 1]
  PROVE  Below(w, expr', Role(expr'), o, k)
<1>1. /\ k \in 1 .. Len(stack) /\ p[k] + 1 \in 1 .. Len(expr) + 1
      /\ p[k + 1] \in 1 .. Len(expr) /\ p[k + 1] - 1 \in 0 .. Len(expr)
  <2>1. Len(stack) \in Nat \ {0}
    BY TakenPlaces
  <2>2. k \in 1 .. Len(stack)
    BY <2>1
  <2> QED
    BY <2>2, TakenPlaces
<1>2. CASE stack[k + 1].bin_op # "("
  <2>1. ValuesOf(expr', p[k] + 1, p[k + 1] - 1) = ValuesOf(expr, p[k] + 1, p[k + 1] - 1)
    BY <1>1, ValuesKept
  <2> QED
    BY <1>2, <2>1 DEF Below
<1>3. CASE stack[k + 1].bin_op = "("
  <2>1. Placed(stack[k].una_op, expr, Role(expr), p[k], p[k + 1] - 1)
    BY <1>3 DEF Below
  <2>2. Placed(stack[k].una_op, expr', Role(expr'), p[k], p[k + 1] - 1)
    BY <2>1, PlacedKept
  <2> QED
    BY <1>3, <2>2 DEF Below
<1> QED
  BY <1>2, <1>3

\* Entry l takes the operand, or the sign of it, and becomes the last one.
LEMMA OperandValued ==
  ASSUME NEW t, NEW p, Taken(t, p), Valued(stack, state, expr, Role(expr), p),
         NEW w, Len(w) \in 1 .. Len(stack), \A k \in 1 .. Len(w) - 1 : w[k] = stack[k],
         w[Len(w)].bin_op = stack[Len(w)].bin_op, IsValue(w[Len(w)].val),
         NEW o, \A k \in 1 .. Len(w) : o[k] = p[k],
         NEW st, OnTop(w, st, expr', Role(expr'), o)
  PROVE  Valued(w, st, expr', Role(expr'), o)
<1> DEFINE l == Len(w)
<1>1. Len(stack) \in Nat \ {0} /\ l \in Nat \ {0} /\ l <= Len(stack)
  BY TakenPlaces
<1>2. ASSUME NEW k \in 1 .. l PROVE IsValue(w[k].val)
  <2>1. k = l \/ k \in 1 .. l - 1
    BY <1>1
  <2>2. k \in 1 .. Len(stack)
    BY <1>1
  <2> QED
    BY <2>1, <2>2 DEF Valued
<1>3. ASSUME NEW k \in 1 .. l - 1 PROVE Below(w, expr', Role(expr'), o, k)
  <2>1. k \in 1 .. Len(stack) - 1 /\ k \in 1 .. l /\ k + 1 \in 1 .. l /\ (k + 1 = l \/ k + 1 \in 1 .. l - 1)
    BY <1>1
  <2>2. w[k] = stack[k] /\ w[k + 1].bin_op = stack[k + 1].bin_op /\ o[k] = p[k] /\ o[k + 1] = p[k + 1]
    BY <2>1
  <2>3. Below(stack, expr, Role(expr), p, k)
    BY <2>1 DEF Valued
  <2> QED
    BY <2>1, <2>2, <2>3, BelowKept
<1> QED
  BY <1>2, <1>3 DEF Valued

\* Entry l is complete, or is under the bracket, when a fresh entry is pushed on it.
PushedOn(t, p, u, w, o) ==
  /\ Len(u) \in 1 .. Len(stack) /\ \A k \in 1 .. Len(u) - 1 : u[k] = stack[k]
  /\ u[Len(u)].bin_op = stack[Len(u)].bin_op /\ IsValue(u[Len(u)].val)
  /\ t # "(" => u[Len(u)].val \in ValuesOf(expr, p[Len(u)] + 1, Len(expr))
  /\ t = "(" => Placed(u[Len(u)].una_op, expr, Role(expr), p[Len(u)], Len(expr))
  /\ Len(w) = Len(u) + 1 /\ (\A k \in 1 .. Len(u) : w[k] = u[k]) /\ w[Len(w)] = Entry(t)
  /\ (\A k \in 1 .. Len(u) : o[k] = p[k]) /\ o[Len(w)] = Len(expr) + 1

LEMMA PushValued ==
  ASSUME NEW t, NEW p, Taken(t, p), Valued(stack, state, expr, Role(expr), p),
         NEW u, NEW w, NEW o, PushedOn(t, p, u, w, o)
  PROVE  Valued(w, "UNARY_OR_VALUE", expr', Role(expr'), o)
<1>0. /\ Len(u) \in 1 .. Len(stack) /\ \A k \in 1 .. Len(u) - 1 : u[k] = stack[k]
      /\ u[Len(u)].bin_op = stack[Len(u)].bin_op /\ IsValue(u[Len(u)].val)
      /\ t # "(" => u[Len(u)].val \in ValuesOf(expr, p[Len(u)] + 1, Len(expr))
      /\ t = "(" => Placed(u[Len(u)].una_op, expr, Role(expr), p[Len(u)], Len(expr))
      /\ Len(w) = Len(u) + 1 /\ (\A k \in 1 .. Len(u) : w[k] = u[k]) /\ w[Len(w)] = Entry(t)
      /\ (\A k \in 1 .. Len(u) : o[k] = p[k]) /\ o[Len(w)] = Len(expr) + 1
  BY DEF PushedOn
<1> USE <1>0
<1> DEFINE l == Len(u)
           n == Len(expr)
<1>1. Len(stack) \in Nat \ {0} /\ l \in Nat \ {0} /\ l <= Len(stack) /\ n \in Nat /\ Len(expr') = n + 1
  BY TakenPlaces
<1>2. w[l + 1].bin_op = t /\ w[l + 1].una_op = "none" /\ IsValue(w[l + 1].val)
  BY ResultIsValue DEF Entry
<1>3. ASSUME NEW k \in 1 .. l + 1 PROVE IsValue(w[k].val)
  <2>1. k = l + 1 \/ k = l \/ k \in 1 .. l - 1
    BY <1>1
  <2>2. k = l \/ k \in 1 .. l - 1 => k \in 1 .. l /\ k \in 1 .. Len(stack)
    BY <1>1
  <2> QED
    BY <1>2, <2>1, <2>2 DEF Valued
<1>4. ASSUME NEW k \in 1 .. l - 1 PROVE Below(w, expr', Role(expr'), o, k)
  <2>1. k \in 1 .. Len(stack) - 1 /\ k \in 1 .. l /\ k + 1 \in 1 .. l /\ (k + 1 = l \/ k + 1 \in 1 .. l - 1)
    BY <1>1
  <2>2. w[k] = stack[k] /\ w[k + 1].bin_op = stack[k + 1].bin_op /\ o[k] = p[k] /\ o[k + 1] = p[k + 1]
    BY <2>1
  <2>3. Below(stack, expr, Role(expr), p, k)
    BY <2>1 DEF Valued
  <2> QED
    BY <2>1, <2>2, <2>3, BelowKept
<1>5. Below(w, expr', Role(expr'), o, l)
  <2>1. o[l] = p[l] /\ w[l] = u[l] /\ o[l + 1] = n + 1 /\ n + 1 - 1 = n
    BY <1>1
  <2>2. p[l] + 1 \in 1 .. n + 1 /\ n \in 0 .. n
    BY <1>1, TakenPlaces
  <2>3. CASE t # "("
    <3>1. ValuesOf(expr', p[l] + 1, n) = ValuesOf(expr, p[l] + 1, n)
      BY <2>2, ValuesKept
    <3>2. u[l].val \in ValuesOf(expr, p[l] + 1, n)
      BY <2>3
    <3> QED
      BY <1>2, <2>1, <2>3, <3>1, <3>2 DEF Below
  <2>4. CASE t = "("
    <3>1. Placed(u[l].una_op, expr, Role(expr), p[l], n)
      BY <2>4
    <3>2. Placed(u[l].una_op, expr', Role(expr'), p[l], n)
      BY <3>1, PlacedKept
    <3> QED
      BY <1>2, <2>1, <2>4, <3>2 DEF Below
  <2> QED
    BY <2>3, <2>4
<1>6. OnTop(w, "UNARY_OR_VALUE", expr', Role(expr'), o)
  BY <1>1, <1>2 DEF OnTop, Placed
<1>7. \A k \in 1 .. l + 1 - 1 : k = l \/ k \in 1 .. l - 1
  BY <1>1
<1> QED
  BY <1>3, <1>4, <1>5, <1>6, <1>7 DEF Valued
------------------------------------------------------------------------------
(* The invariant.                                                           *)

\* The entries of the stacks that the operations make.
LEMMA WithTopIs ==
  ASSUME NEW s, GoodStack(s), NEW e
  PROVE  Len(WithTop(s, e)) = Len(s) /\ \A k \in 1 .. Len(s) : WithTop(s, e)[k] = IF k = Len(s) THEN e ELSE s[k]
<1>1. PICK V : s \in Seq(Entries(V))
  BY DEF GoodStack
<1>2. Len(s) \in Nat \ {0} /\ DOMAIN s = 1 .. Len(s)
  BY <1>1 DEF GoodStack
<1>3. Len([s EXCEPT ![Len(s)] = e]) = Len(s)
  BY <1>1
<1> QED
  BY <1>2, <1>3 DEF WithTop

LEMMA CutIs ==
  ASSUME NEW s, GoodStack(s), NEW n \in 1 .. Len(s), NEW e
  PROVE  LET w == WithTop(SubSeq(s, 1, n), e)
         IN  Len(w) = n /\ \A k \in 1 .. n : w[k] = IF k = n THEN e ELSE s[k]
<1> DEFINE b == SubSeq(s, 1, n)
<1>1. GoodStack(b) /\ Len(b) = n
  BY CutSound
<1>2. \A k \in 1 .. n : b[k] = s[k]
  <2>1. PICK V : s \in Seq(Entries(V))
    BY DEF GoodStack
  <2> QED
    BY <2>1
<1> HIDE DEF b
<1>3. Len(WithTop(b, e)) = n /\ \A k \in 1 .. n : WithTop(b, e)[k] = IF k = n THEN e ELSE b[k]
  BY <1>1, WithTopIs
<1> QED
  BY <1>2, <1>3 DEF b

LEMMA AppendIs ==
  ASSUME NEW s, GoodStack(s), NEW e
  PROVE  LET w == Append(s, e)
         IN  Len(w) = Len(s) + 1 /\ (\A k \in 1 .. Len(s) : w[k] = s[k]) /\ w[Len(s) + 1] = e
<1>1. PICK V : s \in Seq(Entries(V))
  BY DEF GoodStack
<1> QED
  BY <1>1

LEMMA EntryFields ==
  ASSUME NEW s, GoodStack(s), NEW k \in 1 .. Len(s)
  PROVE  /\ \A v : LET e == [s[k] EXCEPT !.val = v]
                   IN  e.bin_op = s[k].bin_op /\ e.val = v /\ e.una_op = s[k].una_op
         /\ \A u : LET e == [s[k] EXCEPT !.una_op = u]
                   IN  e.bin_op = s[k].bin_op /\ e.val = s[k].val /\ e.una_op = u
         /\ \A v, u : LET e == [s[k] EXCEPT !.val = v, !.una_op = u]
                      IN  e.bin_op = s[k].bin_op /\ e.val = v /\ e.una_op = u
<1>1. PICK V : s \in Seq(Entries(V))
  BY DEF GoodStack
<1>2. s[k] \in Entries(V)
  BY <1>1
<1>3. \A x \in Entries(V) :
        /\ \A v : LET e == [x EXCEPT !.val = v] IN e.bin_op = x.bin_op /\ e.val = v /\ e.una_op = x.una_op
        /\ \A u : LET e == [x EXCEPT !.una_op = u] IN e.bin_op = x.bin_op /\ e.val = x.val /\ e.una_op = u
        /\ \A v, u : LET e == [x EXCEPT !.val = v, !.una_op = u] IN e.bin_op = x.bin_op /\ e.val = v /\ e.una_op = u
  BY DEF Entries
<1> QED
  BY <1>2, <1>3
------------------------------------------------------------------------------
\* The inductive invariant of StackClimbs and ConventionalValue.
Followed == \E p : Climbs(stack, expr, Role(expr), p) /\ Valued(stack, state, expr, Role(expr), p)
InvClimbs == Running /\ ~Stranded(expr) => Followed

LEMMA TakenIs ==
  ASSUME InvPlace, InvZero, InvClimbs, Running, NEW t \in Tokens, expr' = Append(expr, t), ~Stranded(expr')
  PROVE  GoodStack(stack) /\ \E p : Taken(t, p) /\ Known(p)
<1>1. GoodStack(stack) /\ Signed(stack) /\ ReadSoFar
  BY GoodSigned DEF InvPlace, InvZero
<1>2. /\ Extends(expr', Role(expr'), expr, Role(expr), t)
      /\ Role(expr')[Len(expr) + 1] = RoleFor(t)
      /\ Len(expr) \in Nat
      /\ Roles(expr, Role(expr)) /\ Roles(expr', Role(expr'))
      /\ StateFits(Role(expr))
  BY <1>1, Extended
<1>3. ~Stranded(expr)
  BY <1>2, StrandedKept
<1>4. PICK p : Climbs(stack, expr, Role(expr), p) /\ Valued(stack, state, expr, Role(expr), p)
  BY <1>3 DEF InvClimbs, Followed
<1>5. Taken(t, p) /\ Known(p)
  BY <1>1, <1>2, <1>3, <1>4 DEF Taken, Known
<1> QED
  BY <1>1, <1>5
------------------------------------------------------------------------------
(* Every step keeps it.                                                     *)

LEMMA UnaryFollowed ==
  ASSUME InvPlace, InvZero, InvClimbs, ~Stranded(expr'), NEW t \in Tokens, OnUnaryOp(t)
  PROVE  Followed'
<1> DEFINE m == Len(stack)
           n == Len(expr)
           e == [stack[m] EXCEPT !.una_op = t]
           f == expr'
           q == Role(f)
<1>1. /\ Running /\ expr' = Append(expr, t) /\ t \in UnaryOps /\ state = "UNARY_OR_VALUE" /\ state' = "VALUE"
      /\ stack' = WithTop(stack, e)
  BY DEF OnUnaryOp, Take, Top
<1>2. GoodStack(stack) /\ \E p : Taken(t, p) /\ Known(p)
  BY <1>1, TakenIs
<1>3. PICK p : Taken(t, p) /\ Known(p)
  BY <1>2
<1>4. m \in Nat \ {0} /\ m \in 1 .. m /\ n \in Nat /\ Len(f) = n + 1 /\ q[n + 1] = RoleFor(t) /\ f[n + 1] = t
  BY <1>3, TakenPlaces DEF Taken, Extends
<1>5. e.bin_op = stack[m].bin_op /\ e.val = stack[m].val /\ e.una_op = t
  BY <1>2, <1>4, EntryFields
<1> HIDE DEF e
<1>6. Len(stack') = m /\ \A k \in 1 .. m : stack'[k] = IF k = m THEN e ELSE stack[k]
  BY <1>1, <1>2, WithTopIs
<1>7. \A k \in 1 .. m : stack'[k].bin_op = stack[k].bin_op
  BY <1>5, <1>6
<1>8. t \notin {"(", ")"} /\ RoleFor(t) = "unary"
  BY <1>1 DEF UnaryOps, RoleFor
<1>9. PICK o : Climbs(stack', f, q, o) /\ \A k \in 1 .. m : o[k] = p[k]
  BY <1>3, <1>6, <1>7, <1>8, OperandClimbs
<1>10. Valued(stack, state, expr, Role(expr), p)
  BY <1>3 DEF Known
<1>11. p[m] = n
  <2>1. Placed("none", expr, Role(expr), p[m], n)
    BY <1>1, <1>10 DEF Valued, OnTop
  <2> QED
    BY <2>1 DEF Placed, UnaryOps
<1>12. Placed(t, f, q, p[m], n + 1)
  <2>1. n + 1 \in 1 .. Len(f)
    BY <1>4
  <2> QED
    BY <1>1, <1>4, <1>8, <1>11, <2>1 DEF Placed
<1>13. OnTop(stack', "VALUE", f, q, o)
  <2>1. stack'[m] = e /\ o[m] = p[m]
    BY <1>4, <1>6, <1>9
  <2> QED
    BY <1>4, <1>5, <1>6, <1>12, <2>1 DEF OnTop
<1>14. /\ Len(stack') \in 1 .. Len(stack) /\ \A k \in 1 .. Len(stack') - 1 : stack'[k] = stack[k]
       /\ stack'[Len(stack')].bin_op = stack[Len(stack')].bin_op /\ IsValue(stack'[Len(stack')].val)
       /\ \A k \in 1 .. Len(stack') : o[k] = p[k]
  <2>1. IsValue(stack[m].val)
    BY <1>4, <1>10 DEF Valued
  <2>2. \A k \in 1 .. m - 1 : k \in 1 .. m /\ k # m
    BY <1>4
  <2> QED
    BY <1>4, <1>5, <1>6, <1>9, <2>1, <2>2
<1>15. Valued(stack', "VALUE", f, q, o)
  <2> HIDE DEF m, n
  <2> QED
    BY <1>3, <1>10, <1>13, <1>14, OperandValued
<1> QED
  BY <1>1, <1>9, <1>15 DEF Followed

LEMMA ValueFollowed ==
  ASSUME InvPlace, InvZero, InvClimbs, ~Stranded(expr'), NEW t \in Tokens, OnValue(t)
  PROVE  Followed'
<1> DEFINE m == Len(stack)
           n == Len(expr)
           f == expr'
           q == Role(f)
<1>1. PICK v \in Operands(t) : stack' = WithTop(stack, [stack[m] EXCEPT !.val = v, !.una_op = "none"])
  BY DEF OnValue, Top
<1> DEFINE e == [stack[m] EXCEPT !.val = v, !.una_op = "none"]
<1>2. /\ Running /\ expr' = Append(expr, t) /\ t \notin Signs /\ state # "BINARY" /\ state' = "BINARY"
      /\ state = "UNARY_OR_VALUE" => t \notin UnaryOps
  BY DEF OnValue, Take, IsOperand
<1>3. GoodStack(stack) /\ \E p : Taken(t, p) /\ Known(p)
  BY <1>2, TakenIs
<1>4. PICK p : Taken(t, p) /\ Known(p)
  BY <1>3
<1>5. m \in Nat \ {0} /\ m \in 1 .. m /\ n \in Nat /\ Len(f) = n + 1 /\ q[n + 1] = RoleFor(t) /\ f[n + 1] = t
  BY <1>4, TakenPlaces DEF Taken, Extends
<1>6. e.bin_op = stack[m].bin_op /\ e.val = v
  BY <1>3, <1>5, EntryFields
<1>7. stack' = WithTop(stack, e)
  BY <1>1
<1> HIDE DEF e
<1>8. Len(stack') = m /\ \A k \in 1 .. m : stack'[k] = IF k = m THEN e ELSE stack[k]
  BY <1>3, <1>7, WithTopIs
<1>9. \A k \in 1 .. m : stack'[k].bin_op = stack[k].bin_op
  BY <1>6, <1>8
<1>10. t \notin {"(", ")"} /\ RoleFor(t) = "other"
  BY <1>2 DEF Signs, RoleFor
<1>11. PICK o : Climbs(stack', f, q, o) /\ \A k \in 1 .. m : o[k] = p[k]
  BY <1>4, <1>8, <1>9, <1>10, OperandClimbs
<1>12. Valued(stack, state, expr, Role(expr), p)
  BY <1>4 DEF Known
<1> DEFINE u == stack[m].una_op
<1>13. Placed(u, expr, Role(expr), p[m], n) /\ p[m] \in 0 .. n
  BY <1>2, <1>4, <1>5, <1>12, TakenPlaces DEF Valued, OnTop
<1>14. Placed(u, f, q, p[m], n)
  BY <1>4, <1>13, PlacedKept
<1>15. n = p[m] \/ n = p[m] + 1
  BY <1>13 DEF Placed
<1>16. IsValue(v) /\ v \in UnaryOp(u, ValueOf(t))
  BY <1>1, ResultIsValue DEF Operands, Top
<1>17. v \in ValuesOf(f, p[m] + 1, n + 1)
  <2>1. Roles(f, q)
    BY <1>4 DEF Taken
  <2>2. n + 1 \in 1 .. Len(f) /\ n + 1 \in n + 1 .. Len(f) /\ p[m] \in 0 .. Len(f) /\ n + 1 - 1 = n
    BY <1>5, <1>13
  <2>3. ValuesOf(f, n + 1, n + 1) = {ValueOf(t)}
    BY <1>5, <1>10, <2>1, <2>2, MeanOperand
  <2>4. Ops(f, q, p[m] + 1, n + 1) = {}
    <3>1. p[m] + 1 + 1 .. n + 1 - 1 = {}
      BY <1>5, <1>13, <1>15
    <3> QED
      BY <3>1 DEF Ops
  <2>5. PICK c : c = n + 1
    OBVIOUS
  <2>6. /\ Placed(u, f, q, p[m], c - 1) /\ IsValue(ValueOf(t)) /\ ValueOf(t) \in ValuesOf(f, c, c)
        /\ c \in 1 .. Len(f) /\ c \in c .. Len(f) /\ p[m] \in 0 .. Len(f) /\ Ops(f, q, p[m] + 1, c) = {}
    BY <1>14, <2>2, <2>3, <2>4, <2>5, ResultIsValue
  <2> HIDE DEF n, m, u, f, q
  <2>7. UnaryOp(u, ValueOf(t)) \subseteq ValuesOf(f, p[m] + 1, c)
    BY <2>1, <2>6, SignedValue DEF q
  <2> QED
    BY <1>16, <2>5, <2>7
<1>18. OnTop(stack', "BINARY", f, q, o)
  <2>1. stack'[m] = e /\ o[m] = p[m]
    BY <1>5, <1>8, <1>11
  <2> QED
    BY <1>5, <1>6, <1>8, <1>17, <2>1 DEF OnTop
<1>19. /\ Len(stack') \in 1 .. Len(stack) /\ \A k \in 1 .. Len(stack') - 1 : stack'[k] = stack[k]
       /\ stack'[Len(stack')].bin_op = stack[Len(stack')].bin_op /\ IsValue(stack'[Len(stack')].val)
       /\ \A k \in 1 .. Len(stack') : o[k] = p[k]
  <2>1. \A k \in 1 .. m - 1 : k \in 1 .. m /\ k # m
    BY <1>5
  <2> QED
    BY <1>5, <1>6, <1>8, <1>11, <1>16, <2>1
<1>20. Valued(stack', "BINARY", f, q, o)
  <2> HIDE DEF m, n
  <2> QED
    BY <1>4, <1>12, <1>18, <1>19, OperandValued
<1> QED
  BY <1>2, <1>11, <1>20 DEF Followed

LEMMA OpenFollowed ==
  ASSUME InvPlace, InvZero, InvClimbs, ~Stranded(expr'), OnOpen
  PROVE  Followed'
<1> DEFINE m == Len(stack)
           n == Len(expr)
           f == expr'
           q == Role(f)
<1>1. /\ Running /\ "(" \in Tokens /\ expr' = Append(expr, "(") /\ stack' = Append(stack, Entry("("))
      /\ state # "BINARY" /\ state' = "UNARY_OR_VALUE"
  BY DEF OnOpen, Take, Push
<1>2. GoodStack(stack) /\ \E p : Taken("(", p) /\ Known(p)
  BY <1>1, TakenIs
<1>3. PICK p : Taken("(", p) /\ Known(p)
  BY <1>2
<1>4. m \in Nat \ {0} /\ m \in 1 .. m
  BY <1>3, TakenPlaces
<1>5. Len(stack') = m + 1 /\ (\A k \in 1 .. m : stack'[k] = stack[k]) /\ stack'[m + 1] = Entry("(")
  BY <1>1, <1>2, AppendIs
<1>6. Valued(stack, state, expr, Role(expr), p)
  BY <1>3 DEF Known
<1>7. Placed(stack[m].una_op, expr, Role(expr), p[m], n) /\ IsValue(stack[m].val)
  BY <1>1, <1>4, <1>6 DEF Valued, OnTop
<1>8. Pushes("(", p, stack, stack')
  <2>1. RoleFor("(") # "binary" /\ "(" # ")"
    BY PriorOf DEF RoleFor
  <2>2. Entry("(").bin_op = "("
    BY DEF Entry
  <2>3. Fits("(", p, m)
    <3>1. \A b \in p[m] + 1 .. n : Role(expr)[b] = "binary" => Depth(expr, b) # Level(expr, p, m)
      BY <1>3 DEF Taken, Climbs, AtTop
    <3> QED
      BY <2>1, <3>1 DEF Fits
  <2> QED
    BY <1>4, <1>5, <2>1, <2>2, <2>3 DEF Pushes
<1>9. PICK o : Climbs(stack', f, q, o) /\ o[Len(stack')] = n + 1 /\ \A k \in 1 .. m : o[k] = p[k]
  BY <1>3, <1>8, PushClimbs
<1>10. Valued(stack', "UNARY_OR_VALUE", f, q, o)
  <2>1. PushedOn("(", p, stack, stack', o)
    BY <1>4, <1>5, <1>7, <1>9 DEF PushedOn
  <2> HIDE DEF m, n
  <2> QED
    BY <1>3, <1>6, <2>1, PushValued
<1> QED
  BY <1>1, <1>9, <1>10 DEF Followed
------------------------------------------------------------------------------
\* A bracket with its sign, after the bracket that closes it.
LEMMA BracketValue ==
  ASSUME GoodStack(stack), Opens # {}, state = "BINARY", NEW p, Taken(")", p), Known(p),
         NEW v \in Reduced(Max(Opens)),
         NEW w \in UnaryOp(stack[Max(Opens) - 1].una_op, v)
  PROVE  w \in ValuesOf(expr', p[Max(Opens) - 1] + 1, Len(expr')) /\ IsValue(w)
<1> DEFINE m == Len(stack)
           n == Len(expr)
           x == Max(Opens)
           l == x - 1
           r == Role(expr)
           f == expr'
           q == Role(f)
           u == stack[l].una_op
<1>1. x \in 2 .. m /\ m \in Nat \ {0} /\ n \in Nat /\ Len(f) = n + 1
  BY OpensBound, TakenPlaces
<1>2. l \in 1 .. m - 1 /\ l + 1 = x /\ l \in 1 .. m /\ x \in 1 .. m /\ x - 1 = l
  BY <1>1
<1>3. /\ Signed(stack) /\ Stands(stack, expr, r, p) /\ Roles(expr, r) /\ Roles(f, q) /\ Extends(f, q, expr, r, ")")
      /\ Valued(stack, state, expr, r, p)
  BY DEF Known, Taken, Climbs
<1>4. stack[x].bin_op = "(" /\ \A k \in x + 1 .. m : stack[k].bin_op # "("
  BY <1>1, <1>3, LevelOfOpen
<1>5. v \in ValuesOf(expr, p[x] + 1, n) /\ IsValue(v)
  BY <1>2, <1>4, ReducedIn
<1>6. p[l] \in 0 .. n /\ p[x] \in 1 .. n /\ p[l] < p[x]
  BY <1>2, TakenPlaces
<1>7. v \in ValuesOf(f, p[x] + 1, n)
  <2>1. p[x] + 1 \in 1 .. n + 1 /\ n \in 0 .. n
    BY <1>1, <1>6
  <2> QED
    BY <1>5, <2>1, ValuesKept
<1> HIDE DEF l, x
<1>8. /\ Depth(expr, p[x]) = Level(expr, p, l) /\ Level(expr, p, x) = Level(expr, p, l) + 1 /\ Level(expr, p, l) \in Int
      /\ expr[p[x]] = "("
  <2>1. x \in 2 .. Len(stack) /\ Len(expr) \in Nat
    BY <1>1
  <2>2. Level(expr, p, x) = Level(expr, p, x - 1) + 1 /\ Level(expr, p, x - 1) \in Int
    BY <1>3, <1>4, <2>1, LevelStep
  <2>3. Depth(expr, p[x]) = Level(expr, p, x - 1) /\ expr[p[x]] = "("
    BY <1>3, <1>4, <2>1 DEF Stands
  <2> QED
    BY <1>2, <2>2, <2>3
<1>9. ASSUME NEW k \in p[x] + 1 .. n PROVE Depth(f, k) # Level(expr, p, l)
  <2>1. k \in p[x] + 1 .. n + 1 /\ k \in 1 .. n + 1
    BY <1>1, <1>6
  <2>2. Depth(expr, k) >= Level(expr, p, x)
    BY <1>2, <1>3, <2>1 DEF Stands
  <2>3. Depth(f, k) = Depth(expr, k) /\ Depth(expr, k) \in Int
    <3>1. Depth(f, k) = Depth(expr, k)
      BY <1>3, <2>1 DEF Extends
    <3>2. k \in Nat
      BY <2>1
    <3> QED
      BY <3>1, <3>2, DepthType
  <2> QED
    BY <1>8, <2>2, <2>3
<1>10. f[p[x]] = "(" /\ q[p[x]] # "binary" /\ Depth(f, p[x]) = Level(expr, p, l) /\ Depth(f, p[l] + 1) = Level(expr, p, l)
  <2>1. p[x] \in 1 .. n + 1 /\ p[l] + 1 \in 1 .. n + 1
    BY <1>1, <1>6
  <2>2. f[p[x]] = expr[p[x]] /\ q[p[x]] = r[p[x]]
    BY <1>3, <1>6 DEF Extends
  <2>3. Depth(f, p[x]) = Depth(expr, p[x]) /\ Depth(f, p[l] + 1) = Depth(expr, p[l] + 1)
    BY <1>3, <2>1 DEF Extends
  <2>4. r[p[x]] # "binary"
    BY <1>3, <1>6, <1>8, PriorOf DEF Roles, Operators
  <2> QED
    BY <1>8, <2>2, <2>3, <2>4 DEF Level
<1>11. Ops(f, q, p[x], n + 1) = {}
  <2>1. \A k \in p[x] + 1 .. n + 1 - 1 : k \in p[x] + 1 .. n
    BY <1>1
  <2> QED
    BY <1>9, <1>10, <2>1 DEF Ops
<1>12. Placed(u, expr, r, p[l], p[x] - 1)
  BY <1>2, <1>3, <1>4 DEF Valued, Below
<1>13. u # "none" => Ops(f, q, p[l] + 1, n + 1) = {}
  <2> SUFFICES ASSUME u # "none", NEW k \in Ops(f, q, p[l] + 1, n + 1) PROVE FALSE
    OBVIOUS
  <2>1. p[x] - 1 = p[l] + 1
    BY <1>12 DEF Placed
  <2>2. k \in p[l] + 1 + 1 .. n + 1 - 1 /\ q[k] = "binary" /\ Depth(f, k) = Level(expr, p, l)
    BY <1>10 DEF Ops
  <2>3. k = p[x] \/ k \in p[x] + 1 .. n
    BY <1>1, <1>6, <2>1, <2>2
  <2> QED
    BY <1>9, <1>10, <2>2, <2>3
<1>14. Placed(u, f, q, p[l], p[x] - 1)
  BY <1>12, PlacedKept
<1>15. PICK j : j = n + 1
  OBVIOUS
<1>16. j \in p[x] .. Len(f) /\ p[x] \in 1 .. Len(f) /\ p[l] \in 0 .. Len(f) /\ j - 1 = n
  BY <1>1, <1>6, <1>15
<1>17. v \in ValuesOf(f, p[x], j)
  <2>1. ValuesOf(f, p[x], j) = ValuesOf(f, p[x] + 1, j - 1)
    <3>1. Ops(f, q, p[x], j) = {} /\ f[p[x]] = "("
      BY <1>10, <1>11, <1>15
    <3> HIDE DEF f, n
    <3> QED
      BY <1>3, <1>16, <3>1, MeanBracket DEF q
  <2> QED
    BY <1>7, <1>16, <2>1
<1>18. u # "none" => Ops(f, q, p[l] + 1, j) = {}
  BY <1>13, <1>15
<1>19. UnaryOp(u, v) \subseteq ValuesOf(f, p[l] + 1, j)
  <2> HIDE DEF f, n, u
  <2> QED
    BY <1>3, <1>5, <1>14, <1>16, <1>17, <1>18, SignedValue DEF q
<1>20. w \in UnaryOp(u, v)
  BY DEF l, x
<1>21. IsValue(w)
  BY <1>5, <1>20, ResultIsValue
<1> QED
  BY <1>1, <1>15, <1>19, <1>20, <1>21 DEF l, x

LEMMA CloseFollowed ==
  ASSUME InvPlace, InvZero, InvClimbs, ~Stranded(expr'), OnClose
  PROVE  Followed'
<1> DEFINE m == Len(stack)
           x == Max(Opens)
           l == x - 1
           f == expr'
           q == Role(f)
           below == SubSeq(stack, 1, l)
<1>1. /\ Running /\ ")" \in Tokens /\ expr' = Append(expr, ")") /\ state = "BINARY" /\ state' = "BINARY" /\ Opens # {}
  BY DEF OnClose, Take
<1>2. PICK w \in Closed : stack' = WithTop(below, [below[Len(below)] EXCEPT !.val = w, !.una_op = "none"])
  BY DEF OnClose
<1>3. PICK v \in Reduced(x) : w \in UnaryOp(stack[l].una_op, v)
  BY <1>2 DEF Closed
<1>4. GoodStack(stack) /\ \E p : Taken(")", p) /\ Known(p)
  BY <1>1, TakenIs
<1>5. PICK p : Taken(")", p) /\ Known(p)
  BY <1>4
<1>6. m \in Nat \ {0} /\ x \in 2 .. m /\ l \in 1 .. m /\ l \in 1 .. l
  <2>1. m \in Nat \ {0} /\ x \in 2 .. m
    BY <1>1, <1>4, OpensBound, TakenPlaces, <1>5
  <2> HIDE DEF m, x
  <2> QED
    BY <2>1
<1> DEFINE e == [stack[l] EXCEPT !.val = w, !.una_op = "none"]
<1>7. stack' = WithTop(below, e)
  <2>1. Len(below) = l /\ below[l] = stack[l]
    BY <1>4, <1>6, CutSound
  <2> HIDE DEF below, l
  <2> QED
    BY <1>2, <2>1
<1>8. e.bin_op = stack[l].bin_op /\ e.val = w
  BY <1>4, <1>6, EntryFields
<1>9. w \in ValuesOf(f, p[l] + 1, Len(f)) /\ IsValue(w)
  BY <1>1, <1>3, <1>4, <1>5, BracketValue
<1> HIDE DEF e, l
<1>10. Len(stack') = l /\ \A k \in 1 .. l : stack'[k] = IF k = l THEN e ELSE stack[k]
  BY <1>4, <1>6, <1>7, CutIs
<1>11. \A k \in 1 .. l : stack'[k].bin_op = stack[k].bin_op
  BY <1>8, <1>10
<1>12. PICK o : Climbs(stack', f, q, o) /\ \A k \in 1 .. l : o[k] = p[k]
  BY <1>1, <1>4, <1>5, <1>10, <1>11, CloseClimbs DEF l
<1>13. OnTop(stack', "BINARY", f, q, o)
  <2>1. stack'[l] = e /\ o[l] = p[l]
    BY <1>6, <1>10, <1>12
  <2> QED
    BY <1>8, <1>9, <1>10, <2>1 DEF OnTop
<1>14. /\ Len(stack') \in 1 .. Len(stack) /\ \A k \in 1 .. Len(stack') - 1 : stack'[k] = stack[k]
       /\ stack'[Len(stack')].bin_op = stack[Len(stack')].bin_op /\ IsValue(stack'[Len(stack')].val)
       /\ \A k \in 1 .. Len(stack') : o[k] = p[k]
  <2>1. \A k \in 1 .. l - 1 : k \in 1 .. l /\ k # l
    BY <1>6
  <2> QED
    BY <1>6, <1>8, <1>9, <1>10, <1>12, <2>1
<1>15. Valued(stack, state, expr, Role(expr), p)
  BY <1>5 DEF Known
<1>16. Valued(stack', "BINARY", f, q, o)
  <2> HIDE DEF m, x
  <2> QED
    BY <1>5, <1>13, <1>14, <1>15, OperandValued
<1> QED
  BY <1>1, <1>12, <1>16 DEF Followed
------------------------------------------------------------------------------
(* The operators, and the theorems.                                         *)

LEMMA TighterFollowed ==
  ASSUME GoodStack(stack), NEW t \in BinaryOps, state = "BINARY", NEW p, Taken(t, p), Known(p),
         Prior(Top.bin_op) < Prior(t), stack' = Append(stack, Entry(t)), state' = "UNARY_OR_VALUE"
  PROVE  Followed'
<1> DEFINE m == Len(stack)
           n == Len(expr)
           f == expr'
           q == Role(f)
<1>1. m \in Nat \ {0} /\ m \in 1 .. m /\ t # "(" /\ Entry(t).bin_op = t
  BY TakenPlaces, PriorOf DEF Entry
<1>2. Len(stack') = m + 1 /\ (\A k \in 1 .. m : stack'[k] = stack[k]) /\ stack'[m + 1] = Entry(t)
  BY AppendIs
<1>3. Len(stack') = Len(stack) + 1 /\ (\A k \in 1 .. Len(stack) : stack'[k] = stack[k]) /\ stack'[Len(stack')].bin_op = t
  BY <1>1, <1>2
<1>4. PICK o : Climbs(stack', f, q, o) /\ o[Len(stack')] = n + 1 /\ \A k \in 1 .. m : o[k] = p[k]
  <2> HIDE DEF m, n
  <2>1. Len(stack') = Len(stack) + 1 /\ (\A k \in 1 .. Len(stack) : stack'[k] = stack[k]) /\ stack'[Len(stack')].bin_op = t
    BY <1>3
  <2> QED
    BY ONLY GoodStack(stack), t \in BinaryOps, state = "BINARY", Taken(t, p), Prior(Top.bin_op) < Prior(t),
            <2>1, TighterClimbs DEF m, n
<1>5. Valued(stack, state, expr, Role(expr), p)
  BY DEF Known
<1>6. stack[m].val \in ValuesOf(expr, p[m] + 1, n) /\ IsValue(stack[m].val)
  BY <1>1, <1>5 DEF Valued, OnTop
<1>7. Valued(stack', "UNARY_OR_VALUE", f, q, o)
  <2>1. PushedOn(t, p, stack, stack', o)
    BY <1>1, <1>2, <1>4, <1>6 DEF PushedOn
  <2> HIDE DEF m, n
  <2> QED
    BY <1>5, <2>1, PushValued
<1> QED
  BY <1>4, <1>7 DEF Followed

LEMMA LooserFollowed ==
  ASSUME GoodStack(stack), NEW t \in BinaryOps, state = "BINARY", NEW p, Taken(t, p), Known(p),
         ~(Prior(Top.bin_op) < Prior(t)), NEW s \in Before(t), stack' = Append(s, Entry(t)), state' = "UNARY_OR_VALUE"
  PROVE  Followed'
<1> DEFINE n == Len(stack) - 1
           f == expr'
           q == Role(f)
<1>1. PICK v \in Reduced(n) : s = WithTop(SubSeq(stack, 1, n), [stack[n] EXCEPT !.val = v])
  BY DEF Before
<1>2. stack[1].bin_op = "none" /\ Len(stack) \in Nat \ {0}
  BY GoodSigned DEF Signed
<1>3. Len(stack) # 1
  BY <1>2, PriorOf DEF Top
<1>4. n \in 1 .. Len(stack) /\ n + 1 = Len(stack) /\ n \in 1 .. n /\ n \in Nat \ {0}
  <2> DEFINE m == Len(stack)
  <2>1. m \in Nat \ {0} /\ m # 1
    BY <1>2, <1>3
  <2> HIDE DEF m
  <2>2. m - 1 \in 1 .. m /\ m - 1 + 1 = m /\ m - 1 \in 1 .. m - 1 /\ m - 1 \in Nat \ {0}
    BY <2>1
  <2> QED
    BY <2>2 DEF m
<1> DEFINE e == [stack[n] EXCEPT !.val = v]
<1>5. e.bin_op = stack[n].bin_op /\ e.val = v
  BY <1>4, EntryFields
<1>6. s = WithTop(SubSeq(stack, 1, n), e)
  BY <1>1
<1> HIDE DEF e, n
<1>7. Len(s) = n /\ \A k \in 1 .. n : s[k] = IF k = n THEN e ELSE stack[k]
  BY <1>4, <1>6, CutIs
<1>8. Len(s) = Len(stack) - 1 /\ \A k \in 1 .. Len(s) : s[k].bin_op = stack[k].bin_op
  BY <1>5, <1>7 DEF n
<1>9. GoodStack(s)
  BY BeforeSound
<1>10. Len(stack') = Len(s) + 1 /\ (\A k \in 1 .. Len(s) : stack'[k] = s[k]) /\ stack'[Len(s) + 1] = Entry(t)
  BY <1>9, AppendIs
<1>11. stack'[Len(stack')].bin_op = t
  BY <1>10 DEF Entry
<1>12. /\ Len(s) \in 1 .. Len(stack) /\ Top.bin_op # "("
       /\ \E o : /\ Climbs(stack', expr', Role(expr'), o)
                 /\ o[Len(stack')] = Len(expr) + 1 /\ \A k \in 1 .. Len(s) : o[k] = p[k]
  <2>1. Len(stack') = Len(s) + 1 /\ \A k \in 1 .. Len(s) : stack'[k] = s[k]
    BY <1>10
  <2> QED
    BY ONLY GoodStack(stack), t \in BinaryOps, state = "BINARY", Taken(t, p), ~(Prior(Top.bin_op) < Prior(t)),
            <1>8, <1>11, <2>1, LooserClimbs
<1>13. PICK o : Climbs(stack', f, q, o) /\ o[Len(stack')] = Len(expr) + 1 /\ \A k \in 1 .. Len(s) : o[k] = p[k]
  BY <1>12
<1>14. v \in ValuesOf(expr, p[n] + 1, Len(expr)) /\ IsValue(v)
  <2>1. \A h \in n + 1 .. Len(stack) : h = Len(stack)
    BY <1>2, <1>4
  <2>2. \A h \in n + 1 .. Len(stack) : stack[h].bin_op # "("
    BY <1>12, <2>1 DEF Top
  <2> QED
    BY <1>4, <2>2, ReducedIn
<1>15. Valued(stack, state, expr, Role(expr), p)
  BY DEF Known
<1>16. Valued(stack', "UNARY_OR_VALUE", f, q, o)
  <2>1. s[Len(s)] = e
    BY <1>4, <1>7
  <2>2. \A k \in 1 .. Len(s) - 1 : s[k] = stack[k]
    <3>1. \A k \in 1 .. n - 1 : k \in 1 .. n /\ k # n
      BY <1>4
    <3> QED
      BY <1>7, <3>1
  <2>3. /\ s[Len(s)].bin_op = stack[Len(s)].bin_op /\ IsValue(s[Len(s)].val) /\ t # "("
        /\ s[Len(s)].val \in ValuesOf(expr, p[Len(s)] + 1, Len(expr))
    BY <1>5, <1>7, <1>8, <1>14, <2>1, <1>4, PriorOf
  <2>4. stack'[Len(stack')] = Entry(t)
    BY <1>10
  <2>5. PushedOn(t, p, s, stack', o)
    BY <1>10, <1>12, <1>13, <2>2, <2>3, <2>4 DEF PushedOn
  <2> QED
    BY <1>15, <2>5, PushValued
<1> QED
  BY <1>13, <1>16 DEF Followed

LEMMA BinaryFollowed ==
  ASSUME InvPlace, InvZero, InvClimbs, ~Stranded(expr'), NEW t \in Tokens, OnBinaryOp(t)
  PROVE  Followed'
<1>1. Running /\ expr' = Append(expr, t) /\ t \in BinaryOps /\ state = "BINARY"
  BY DEF OnBinaryOp, Take
<1>2. PICK s \in Before(t) : stack' = Append(s, Entry(t)) /\ state' = "UNARY_OR_VALUE"
  BY DEF OnBinaryOp, Push
<1>3. GoodStack(stack) /\ \E p : Taken(t, p) /\ Known(p)
  BY <1>1, TakenIs
<1>4. PICK p : Taken(t, p) /\ Known(p)
  BY <1>3
<1>5. CASE Prior(Top.bin_op) < Prior(t)
  <2>1. s = stack
    BY <1>5 DEF Before
  <2> QED
    BY <1>1, <1>2, <1>3, <1>4, <1>5, <2>1, TighterFollowed
<1>6. CASE ~(Prior(Top.bin_op) < Prior(t))
  BY <1>1, <1>2, <1>3, <1>4, <1>6, LooserFollowed
<1> QED
  BY <1>5, <1>6

\* Before the first token, with the bottom entry alone.
LEMMA NothingFollowed ==
  ASSUME NEW s, s = <<Entry("none")>>
  PROVE  \E p : Climbs(s, <<>>, Role(<<>>), p) /\ Valued(s, "UNARY_OR_VALUE", <<>>, Role(<<>>), p)
<1> DEFINE p == [k \in 1 .. 1 |-> 0]
           r == Role(<<>>)
<1>1. Len(s) = 1 /\ s[1] = Entry("none") /\ Len(<<>>) = 0
  OBVIOUS
<1>2. p[1] = 0 /\ p \in [1 .. 1 -> 0 .. 0]
  OBVIOUS
<1> HIDE DEF p, r
<1>3. \A i \in 0 + 1 .. 0 + 1 : Depth(<<>>, i) = 0
  BY DepthFirst
<1>4. Level(<<>>, p, 1) = 0 /\ Depth(<<>>, 0 + 1) = 0
  BY <1>2, DepthFirst DEF Level
<1>5. Stands(s, <<>>, r, p)
  BY <1>1, <1>2, <1>3, <1>4 DEF Stands
<1>6. Ranked(s, <<>>, r, p)
  BY <1>1 DEF Ranked
<1>7. AtTop(s, <<>>, r, p)
  BY <1>1, <1>2, <1>4 DEF AtTop
<1>8. Valued(s, "UNARY_OR_VALUE", <<>>, r, p)
  <2>1. Entry("none").una_op = "none" /\ IsValue(Entry("none").val)
    BY ResultIsValue DEF Entry
  <2> QED
    BY <1>1, <1>2, <2>1 DEF Valued, OnTop, Placed
<1> QED
  BY <1>5, <1>6, <1>7, <1>8 DEF Climbs, r

LEMMA ClimbsInit == Init => InvClimbs
BY NothingFollowed DEF Init, InvClimbs, Followed

LEMMA ClimbsStep == InvPlace /\ InvZero /\ InvClimbs /\ [Next]_vars => InvClimbs'
<1> SUFFICES ASSUME InvPlace, InvZero, InvClimbs, [Next]_vars, Running', ~Stranded(expr') PROVE Followed'
  BY DEF InvClimbs
<1>1. CASE UNCHANGED vars
  BY <1>1 DEF vars, InvClimbs, Followed, Running
<1>2. CASE Begin
  BY <1>2, NothingFollowed DEF Begin, Followed
<1>3. CASE Return \/ CannotReturn \/ \E t \in Tokens : ReturnError(t) \/ Misplaced(t) \/ StackFull(t) \/ CannotReduce(t)
  BY <1>3 DEF Return, CannotReturn, ReturnError, Misplaced, StackFull, CannotReduce, Stop, Running
<1> QED
  BY <1>1, <1>2, <1>3, OpenFollowed, CloseFollowed, UnaryFollowed, ValueFollowed, BinaryFollowed DEF Next

\* What _expr2n returns.
LEMMA ReturnedValue ==
  ASSUME InvPlace, InvZero, InvClimbs, Return, ~Stranded(expr)
  PROVE  val' \in Meaning(expr)
<1>1. Running /\ state = "BINARY" /\ Opens = {} /\ \E v \in Reduced(1) : val' = v
  BY DEF Return, CanReturn
<1>2. GoodStack(stack) /\ Signed(stack) /\ ReadSoFar
  BY <1>1, GoodSigned DEF InvPlace, InvZero
<1>3. PICK r : IsRole(expr, r) /\ StateFits(r)
  BY <1>2 DEF ReadSoFar
<1>4. expr \in Seq(Tokens)
  BY <1>2 DEF ReadSoFar
<1>5. Role(expr) = r
  BY <1>3, <1>4, RoleIs
<1>6. Roles(expr, Role(expr)) /\ StateFits(Role(expr))
  BY <1>3, <1>4, <1>5, RolesAre
<1>7. PICK p : Climbs(stack, expr, Role(expr), p) /\ Valued(stack, state, expr, Role(expr), p)
  BY <1>1 DEF InvClimbs, Followed
<1>8. Known(p)
  BY <1>2, <1>6, <1>7 DEF Known
<1>9. 1 \in 1 .. Len(stack) /\ \A h \in 1 + 1 .. Len(stack) : stack[h].bin_op # "("
  <2>1. DOMAIN stack = 1 .. Len(stack) /\ Len(stack) \in Nat \ {0}
    <3>1. PICK V : stack \in Seq(Entries(V))
      BY <1>2 DEF GoodStack
    <3> QED
      BY <1>2, <3>1 DEF Signed
  <2> QED
    BY <1>1, <2>1 DEF Opens
<1>10. Reduced(1) \subseteq ValuesOf(expr, p[1] + 1, Len(expr))
  BY <1>1, <1>8, <1>9, ReducedIn
<1>11. p[1] + 1 = 1
  BY <1>7 DEF Climbs, Stands
<1> QED
  BY <1>1, <1>10, <1>11, MeaningChosen DEF ValuesOf

LEMMA ConventionalStep == InvPlace /\ InvZero /\ InvClimbs /\ ConventionalValue /\ [Next]_vars => ConventionalValue'
<1> SUFFICES ASSUME InvPlace, InvZero, InvClimbs, ConventionalValue, [Next]_vars, Returned', ~Stranded(expr')
             PROVE  val' \in Meaning(expr')
  BY DEF ConventionalValue
<1>1. CASE UNCHANGED vars
  BY <1>1 DEF vars, ConventionalValue, Returned
<1>2. CASE Return
  <2>1. expr' = expr
    BY <1>2 DEF Return
  <2> QED
    BY <1>2, <2>1, ReturnedValue
<1>3. CASE Begin
  BY <1>3 DEF Begin, Returned
<1>4. CASE OnOpen \/ OnClose \/ CannotReturn \/ \E t \in Tokens : OnUnaryOp(t) \/ OnValue(t) \/ OnBinaryOp(t)
             \/ ReturnError(t) \/ Misplaced(t) \/ StackFull(t) \/ CannotReduce(t)
  BY <1>4 DEF OnOpen, OnClose, CannotReturn, OnUnaryOp, OnValue, OnBinaryOp, ReturnError, Misplaced, StackFull,
              CannotReduce, Stop, Take, Running, Returned
<1> QED
  BY <1>1, <1>2, <1>3, <1>4 DEF Next

\* The operator stack gives an expression its conventional value, whatever its
\* length and its brackets, unless an operator of it is stranded.
THEOREM ConventionalValueHolds == Spec => []ConventionalValue
<1>1. Init => ConventionalValue
  BY DEF Init, ConventionalValue, Returned
<1> QED
  BY <1>1, InvZeroInit, InvPlaceInit, InvPlaceStep, InvZeroStep, ClimbsInit, ClimbsStep, ConventionalStep, PTL DEF Spec

\* calc.c:384-395 reduces once before it pushes; as long as no operator waits for
\* a second time, what is on the stack between two brackets binds more and more
\* tightly, so at most four operators stand there.
THEOREM StackClimbsHolds == Spec => []StackClimbs
<1>1. InvPlace /\ InvClimbs => StackClimbs
  <2> SUFFICES ASSUME InvPlace, InvClimbs, Running, Waits(expr) = {}, NEW k \in 2 .. Len(stack),
                      stack[k].bin_op # "("
               PROVE  Prior(stack[k - 1].bin_op) < Prior(stack[k].bin_op)
    BY DEF StackClimbs
  <2>1. ~Stranded(expr)
    BY NoneWaits
  <2>2. PICK p : Stands(stack, expr, Role(expr), p)
    BY <2>1 DEF InvClimbs, Followed, Climbs
  <2>3. Signed(stack) /\ stack[1].bin_op = "none" /\ Len(stack) \in Nat \ {0}
    BY GoodSigned DEF InvPlace, Signed
  <2>4. stack[k].bin_op \in BinaryOps
    BY <2>3 DEF Signed
  <2>5. CASE k = 2
    BY <2>3, <2>4, <2>5, PriorOf
  <2>6. CASE k # 2 /\ stack[k - 1].bin_op = "("
    BY <2>4, <2>6, PriorOf
  <2>7. CASE k # 2 /\ stack[k - 1].bin_op # "("
    <3>1. k - 1 \in 2 .. Len(stack) /\ k \in 1 .. Len(stack) /\ k - 1 \in 1 .. Len(stack) /\ k - 1 < k
      BY <2>3, <2>7
    <3>2. p \in [1 .. Len(stack) -> 0 .. Len(expr)] /\ p[k - 1] < p[k]
      BY <2>2, <3>1 DEF Stands
    <3>3. p[k - 1] \in Int /\ p[k] \in Int /\ p[k] <= Len(expr) /\ p[k - 1] >= 0
      BY <3>1, <3>2
    <3>4. p[k] \in p[k - 1] + 1 .. Len(expr) /\ p[k] \in 1 .. Len(expr)
      BY <3>2, <3>3
    <3>5. /\ Role(expr)[p[k]] = "binary" /\ expr[p[k]] = stack[k].bin_op
          /\ Depth(expr, p[k]) = Level(expr, p, k - 1)
      BY <2>2, <2>7 DEF Stands
    <3>6. ~Waiting(expr, Role(expr), p[k - 1], p[k])
      <4>1. p[k - 1] # 0
        <5>1. p[1] = 0 /\ 1 \in 1 .. Len(stack) /\ 1 < k - 1
          BY <2>2, <2>3, <3>1 DEF Stands
        <5> QED
          BY <2>2, <3>1, <5>1 DEF Stands
      <4>2. p[k - 1] \in 1 .. Len(expr)
        BY <3>1, <3>2, <3>3, <4>1
      <4> QED
        BY <3>4, <4>2, WaitsAre
    <3> QED
      BY <2>2, <2>7, <3>1, <3>4, <3>5, <3>6 DEF Stands
  <2> QED
    BY <2>5, <2>6, <2>7
<1> QED
  BY <1>1, InvZeroInit, InvPlaceInit, InvPlaceStep, InvZeroStep, ClimbsInit, ClimbsStep, PTL DEF Spec
==============================================================================
