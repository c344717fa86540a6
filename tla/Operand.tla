------------------------------- MODULE Operand -------------------------------
(***************************************************************************)
(* _opr2val of asm/calc.c: which register of a memory operand becomes the  *)
(* base, which the index, and which is left to the expressions, where its  *)
(* name has no value.                                                      *)
(*                                                                         *)
(* An operand is a number and brackets, `lead[..][..]`; a bracket is a sum *)
(* of terms, each a register, perhaps times a number, or a number.         *)
(***************************************************************************)
EXTENDS SequencesExt, Integers

RegTerm(type, reg, scale) == [type |-> type, reg |-> reg, scale |-> scale, num |-> 0]
NumTerm(n) == [type |-> "NUM", reg |-> 0, scale |-> 0, num |-> n]
IsNum(t) == t.type = "NUM"
Sum(terms) == SumFunction([i \in DOMAIN terms |-> terms[i].num])

\* OPR_CTRL with the value; `status` is NUM, a name replaced by zero, or refused.
NoReg == [type |-> "UNK", reg |-> 0, scaled |-> FALSE, index |-> 0, lv |-> 0,
          num |-> 0, status |-> "NUM"]

Level == [s \in {1, 2, 4, 8} |-> CASE s = 8 -> 3 [] s = 4 -> 2 [] OTHER -> s - 1]

\* The register at the start of a bracket is the base, if there is none yet.
\* Only registers of 64 bits are: r8b ends the process, and eax is left to the
\* expressions, where it has no value, so that no operand with it is taken.
BaseTypes == {"RAXtoRDI", "R8toR15", "RIP"}
StartsWithBase(bracket, ctl) == ctl.type = "UNK" /\ ~IsNum(Head(bracket))
WithBase(ctl, t) ==
  IF t.type \notin BaseTypes \/ t.scale # 0 THEN [ctl EXCEPT !.status = "refused"]
  ELSE [ctl EXCEPT !.type = t.type, !.reg = t.reg]

\* The register behind the base is the index; r8 to r15 are not implemented.
StartsWithIndex(terms) == terms # <<>> /\ ~IsNum(Head(terms))
WithIndex(ctl, t) ==
  IF t.type # "RAXtoRDI" \/ t.scale \notin DOMAIN Level \cup {0} THEN [ctl EXCEPT !.status = "refused"]
  ELSE [ctl EXCEPT !.scaled = TRUE, !.index = t.reg, !.lv = IF t.scale = 0 THEN @ ELSE Level[t.scale]]

\* What is left is an expression.
WithValue(ctl, terms) ==
  [ctl EXCEPT !.num = @ + Sum(terms),
              !.status = IF @ # "refused" /\ \E i \in DOMAIN terms : ~IsNum(terms[i])
                         THEN "replaced" ELSE @]

\* One bracket, once those behind it have been read.
Bracket(bracket, ctl) ==
  IF StartsWithBase(bracket, ctl)
  THEN LET based == WithBase(ctl, Head(bracket))
           rest  == Tail(bracket)
       IN  IF StartsWithIndex(rest) THEN WithValue(WithIndex(based, Head(rest)), Tail(rest))
           ELSE WithValue(based, rest)
  ELSE WithValue(ctl, bracket)

Opr2n(text) ==
  LET ctl == FoldRight(Bracket, text.brackets, NoReg)
  IN  [ctl EXCEPT !.num = @ + text.lead]
==============================================================================
