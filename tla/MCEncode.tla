------------------------------ MODULE MCEncode ------------------------------
(* Registers of every type, operands with displacements around the limits,  *)
(* and the numbers 4 and 5, which ModRM and SIB take for something else.    *)
EXTENDS Encode

Offsets == {0, 5, -128, 127, 128, -129}
Bases   == { RegTerm(t, n, 0) : t \in {"RAXtoRDI", "R8toR15"}, n \in {0, 4, 5} }
Indices == { RegTerm("RAXtoRDI", n, s) : n \in {1, 4}, s \in {2, 8} }

Text(lead, brackets) == [lead |-> lead, brackets |-> brackets]
Texts ==
  { Text(n, <<<<b>>>>) : n \in Offsets, b \in Bases }
    \cup { Text(n, <<<<b, i>>>>) : n \in Offsets, b \in Bases, i \in Indices }
    \cup { Text(5, <<<<b, NumTerm(127)>>>>) : b \in Bases }
    \cup { Text(0, <<<<RegTerm("RAXtoRDI", 6, 0), RegTerm("RAXtoRDI", 7, 4), NumTerm(2)>>, <<NumTerm(3)>>>>),
           Text(0, <<<<RegTerm("R8toR15", 1, 0), RegTerm("RAXtoRDI", 2, 8)>>, <<NumTerm(8)>>>>),
           Text(0, <<<<RegTerm("R8toR15", 1, 0), RegTerm("RAXtoRDI", 2, 0)>>>>),
           Text(0, <<<<RegTerm("RAXtoRDI", 2, 0), RegTerm("R8toR15", 1, 8)>>>>),
           Text(0, <<<<RegTerm("RAXtoRDI", 2, 8), RegTerm("RAXtoRDI", 6, 0)>>>>),
           Text(0, <<<<RegTerm("RAXtoRDI", 2, 0), RegTerm("RAXtoRDI", 6, 3)>>>>),
           Text(8, <<<<RegTerm("RAXtoRDI", 6, 0)>>, <<RegTerm("RAXtoRDI", 2, 0)>>>>),
           Text(8, <<<<NumTerm(1), RegTerm("RAXtoRDI", 2, 0)>>>>),
           Text(0, <<<<RegTerm("EAXtoEDI", 0, 0)>>>>), Text(0, <<<<RegTerm("R8BtoR15B", 1, 0)>>>>),
           Text(8, <<<<RegTerm("RIP", 0, 0)>>>>), Text(8, <<<<NumTerm(2)>>>>) }

Mems == { Mem(s, t) : s \in {8, 16, 64}, t \in Texts }
Regs == { Reg(t, n) : t \in RegTypes, n \in {0, 5} }
          \ {Reg("SPLtoDIL", 0), Reg("R8WtoR15W", 5)}
Imms == { Imm(n) : n \in {1, 4, 127, 128, -128, -129, 255, 256, -257, 40000, 70000} }
Form(mns, dsts, srcs) == [mns |-> mns, dsts |-> dsts, srcs |-> srcs]
MCForms ==
  { Form({"mov", "cmp", "movzx"}, Regs, Mems),
    Form({"lea"}, Regs, { Mem(n, t) : n \in {0, 64}, t \in Texts }),
    Form({"mov", "sub"}, Mems, Regs),
    Form({"mov", "and", "test"}, Mems, Imms),
    Form({"mov", "xchg", "movzx", "movsx", "xor"}, Regs, Regs),
    Form({"mov", "add", "or", "adc", "sbb", "test"} \cup DOMAIN ShiftOp, Regs, Imms),
    Form({"shl", "inc", "dec", "not", "push", "pop"} \cup DOMAIN Cond, Regs, {None}),
    Form({"inc", "dec"}, Mems, {None}),
    Form(DOMAIN Flags, {None}, {None}) }
=============================================================================
