----------------------------- MODULE Expression -----------------------------
(***************************************************************************)
(* Values of asm/calc.c, what its operators compute, and the conventional  *)
(* meaning of an expression: brackets first, then * and /, + and -, shifts *)
(* and |, operators of one priority from left to right.                    *)
(*                                                                         *)
(* An operator has a set of results: none where the code gives up, several *)
(* where C leaves the result open (a shift by the width or more).          *)
(***************************************************************************)
EXTENDS Integers, Sequences, FiniteSetsExt

CONSTANTS
  Width,    \* bits of a number: 32 in the code
  Numeral,  \* decimal and hex tokens, with their numbers
  Symbol    \* names sym_lookup finds, with their values

ASSUME WidthAssumption == Width \in Nat \ {0}

\* What a power is: the provers know those of literals only.
ASSUME PowersAssumption == \A i \in 0 .. Width - 1 : 2 ^ (i + 1) = 2 * 2 ^ i

Numbers == 0 .. 2 ^ Width - 1
Wrap(n) == n % 2 ^ Width

\* Tokens and names stand for UINT32 numbers.
ASSUME NumbersAssumption ==
  /\ \A t \in DOMAIN Numeral : Numeral[t] \in Numbers
  /\ \A t \in DOMAIN Symbol : Symbol[t].type = "NUM" => Symbol[t].number \in Numbers

\* VALUE0
Num(n)      == [type |-> "NUM", seg_id |-> "none", number |-> n]
Seg(s, ofs) == [type |-> "SEGMENT", seg_id |-> s, number |-> ofs]

UnaryOps  == {"+", "-", "not"}
BinaryOps == {"|", "<<", ">>", "+", "-", "*", "/"}

\* _prior; the bottom of the stack has the operator "none".
Prior(op) == CASE op = "none"        -> 0
               [] op = "("           -> 1
               [] op = "|"           -> 2
               [] op \in {"<<", ">>"} -> 3
               [] op \in {"+", "-"}   -> 4
               [] op \in {"*", "/"}   -> 5

\* _unary_op: an offset takes a + only.
UnaryOp(op, v) ==
  IF v.type = "SEGMENT" THEN (IF op \in {"+", "none"} THEN {v} ELSE {})
  ELSE {Num(CASE op \in {"+", "none"} -> v.number
              [] op = "-"             -> Wrap(-v.number)
              [] op = "not"           -> 2 ^ Width - 1 - v.number)}

BitOr(a, b) ==
  LET bit(n, i) == (n \div 2 ^ i) % 2
      bits == [i \in 0 .. Width - 1 |-> (bit(a, i) + bit(b, i) - bit(a, i) * bit(b, i)) * 2 ^ i]
  IN  SumFunctionOnSet(bits, 0 .. Width - 1)

NumberOp(a, op, b) ==
  CASE op = "+"  -> {Wrap(a + b)}
    [] op = "-"  -> {Wrap(a - b)}
    [] op = "*"  -> {Wrap(a * b)}
    [] op = "/"  -> IF b = 0 THEN {} ELSE {a \div b}
    [] op = "|"  -> {BitOr(a, b)}
    [] op = "<<" -> IF b < Width THEN {Wrap(a * 2 ^ b)} ELSE Numbers
    [] op = ">>" -> IF b < Width THEN {a \div 2 ^ b} ELSE Numbers

\* _binary_op: offsets of one segment have a difference; an offset and a
\* number have a sum.
BinaryOp(v1, op, v2) ==
  CASE v1.type = "SEGMENT" /\ v2.type = "SEGMENT" ->
         IF op = "-" /\ v1.seg_id = v2.seg_id THEN {Num(Wrap(v1.number - v2.number))} ELSE {}
    [] v1.type = "NUM" /\ v2.type = "NUM" ->
         {Num(n) : n \in NumberOp(v1.number, op, v2.number)}
    [] OTHER ->
         IF op # "+" THEN {}
         ELSE {Seg((IF v1.type = "SEGMENT" THEN v1 ELSE v2).seg_id, Wrap(v1.number + v2.number))}

\* A name that has no value yet: unknown, or a label that has no segment.
IsUnvalued(t) ==
  /\ t \notin DOMAIN Numeral
  /\ t \in DOMAIN Symbol => Symbol[t].type = "OFFSET" /\ ~Symbol[t].is_resolved

\* _parse_token; a name without a value counts as zero.
ValueOf(t) == CASE t \in DOMAIN Numeral -> Num(Numeral[t])
                [] IsUnvalued(t)        -> Num(0)
                [] OTHER -> IF Symbol[t].type = "NUM" THEN Num(Symbol[t].number)
                            ELSE Seg(Symbol[t].seg_id, Symbol[t].seg_ofs)

------------------------------------------------------------------------------
\* Brackets open before token k.
Depth(e, k) == Cardinality({i \in 1 .. k - 1 : e[i] = "("})
               - Cardinality({i \in 1 .. k - 1 : e[i] = ")"})

\* What a token is by its place: a - may be either, a not may be a name.
Role(e) ==
  LET role[k \in DOMAIN e] ==
        LET first == k = 1 \/ e[k - 1] = "(" \/ role[k - 1] = "binary"
        IN  CASE first /\ e[k] \in UnaryOps -> "unary"
              [] ~first /\ role[k - 1] # "unary" /\ e[k] \in BinaryOps -> "binary"
              [] OTHER -> "other"
  IN  role

\* The values an expression may have, m[<<i, j>>] those of its tokens i .. j.
Meaning(e) ==
  LET role == Role(e)
      m[s \in (1 .. Len(e) + 1) \X (0 .. Len(e))] ==
        LET i    == s[1]
            j    == s[2]
            ops  == {k \in i + 1 .. j - 1 : role[k] = "binary" /\ Depth(e, k) = Depth(e, i)}
            last == Max({k \in ops : \A l \in ops : Prior(e[k]) <= Prior(e[l])})
        IN  IF i > j THEN {}
            ELSE CASE ops # {} ->
                        UNION {BinaryOp(x, e[last], y) : x \in m[<<i, last - 1>>], y \in m[<<last + 1, j>>]}
                   [] ops = {} /\ role[i] = "unary" -> UNION {UnaryOp(e[i], x) : x \in m[<<i + 1, j>>]}
                   [] ops = {} /\ e[i] = "(" -> m[<<i + 1, j - 1>>]
                   [] OTHER -> {ValueOf(e[i])}
  IN  m[<<1, Len(e)>>]

\* Pairs of operators a and c: c should follow the operation of a, but one
\* that binds more tightly stands between them and is to be reduced before.
Waits(e) ==
  LET role == Role(e)
      binary(i, j) == {k \in i .. j : role[k] = "binary"}
  IN  {p \in binary(1, Len(e)) \X binary(1, Len(e)) :
        LET a == p[1]
            c == p[2]
            between == {b \in binary(a + 1, c - 1) : Depth(e, b) = Depth(e, a)}
        IN  /\ \A i \in a .. c : Depth(e, i) >= Depth(e, a)
            /\ Depth(e, c) = Depth(e, a) /\ Prior(e[c]) <= Prior(e[a])
            /\ \A b \in between : Prior(e[b]) >= Prior(e[a])
            /\ \E b \in between : Prior(e[b]) > Prior(e[a])}

\* a + (b * c - d) is (a + b * c) - d, but a - (b * c - d) is another number;
\* and where an offset is added, a - may not follow.
Associative(op) == op \in {"+", "|"}
HasOffset(e) == \E i \in 1 .. Len(e) : ValueOf(e[i]).type = "SEGMENT"
Stranded(e) ==
  \E p \in Waits(e) : \/ ~Associative(e[p[1]]) \/ Prior(e[p[1]]) # Prior(e[p[2]])
                      \/ HasOffset(e)
==============================================================================
