------------------------------- MODULE Decode -------------------------------
(***************************************************************************)
(* What the bytes of one instruction mean to an x86-64 processor: prefixes,*)
(* opcode, ModRM, SIB, displacement and immediate, as far as the           *)
(* instructions of as- go.  Nothing of this is taken from the assembler.   *)
(***************************************************************************)
EXTENDS SequencesExt, Integers

Alu   == <<"add", "or", "adc", "sbb", "and", "sub", "xor", "cmp">>
Shift == <<"rol", "ror", "rcl", "rcr", "shl", "shr", "sal", "sar">>
Set   == <<"seto", "setno", "setc", "setnc", "setz", "setnz", "setna", "seta">>
Plain == [ b \in {144, 195, 201, 248, 249, 158, 159} |->
             CASE b = \h90 -> "nop" [] b = \hc3 -> "ret" [] b = \hc9 -> "leave" [] b = \hf8 -> "clc"
               [] b = \hf9 -> "stc" [] b = \h9e -> "sahf" [] b = \h9f -> "lahf" ]

\* Operands.  Values count modulo the size, 32 bits and more are signed here.
None == [kind |-> "none"]
Reg(type, reg) == [kind |-> "reg", type |-> type, reg |-> reg]
Imm(n, size)   == [kind |-> "imm", num |-> CASE size = 8 -> n % 256 [] size = 16 -> n % 65536 [] OTHER -> n]

\* An address is a bag of registers and an offset.
Mem(size, regs, ofs) == [kind |-> "mem", size |-> size, regs |-> regs, ofs |-> ofs]

Register(size, n, rex) ==
  LET low == n % 8
  IN  CASE size = 8  -> Reg(IF n > 7 THEN "R8BtoR15B" ELSE IF rex /\ n > 3 THEN "SPLtoDIL" ELSE "ALtoBH", low)
        [] size = 16 -> Reg(IF n > 7 THEN "R8WtoR15W" ELSE "AXtoDI", low)
        [] size = 32 -> Reg(IF n > 7 THEN "R8DtoR15D" ELSE "EAXtoEDI", low)
        [] size = 64 -> Reg(IF n > 7 THEN "R8toR15" ELSE "RAXtoRDI", low)
Pointer(n) == LET r == Register(64, n, TRUE) IN <<r.type, r.reg>>

\* The signed number in the n bytes from the i-th.
Signed(c, i, n) ==
  LET at(k) == c[i + k - 1]
      top   == IF at(n) > 127 THEN at(n) - 256 ELSE at(n)
  IN  CASE n = 1 -> top [] n = 2 -> at(1) + 256 * top
        [] n = 4 -> at(1) + 256 * (at(2) + 256 * (at(3) + 256 * top))

\* ModRM at byte i, with SIB and displacement; the prefix REX has bits w, r, x, b.
Mod(c, i)    == c[i] \div 64
Rm(c, i)     == c[i] % 8
HasSib(c, i) == Mod(c, i) # 3 /\ Rm(c, i) = 4
Base(c, i)   == IF HasSib(c, i) THEN c[i + 1] % 8 ELSE Rm(c, i)
Index(c, i, rex) == ((c[i + 1] \div 8) % 8) + 8 * rex.x
IsBare(c, i) == Mod(c, i) = 0 /\ Base(c, i) = 5
DispSize(c, i) == CASE Mod(c, i) = 1 -> 1 [] Mod(c, i) = 2 \/ IsBare(c, i) -> 4 [] OTHER -> 0
DispAt(c, i) == i + (IF HasSib(c, i) THEN 2 ELSE 1)
BaseRegs(c, i, rex) ==
  IF ~IsBare(c, i) THEN SetToBag({Pointer(Base(c, i) + 8 * rex.b)})
  ELSE IF HasSib(c, i) THEN EmptyBag ELSE SetToBag({<<"RIP", 0>>})
IndexRegs(c, i, rex) ==
  IF HasSib(c, i) /\ Index(c, i, rex) # 4
  THEN [r \in {Pointer(Index(c, i, rex))} |-> <<1, 2, 4, 8>>[c[i + 1] \div 64 + 1]] ELSE EmptyBag
ModRM(c, i, rex) ==
  LET size == DispSize(c, i)
      at   == DispAt(c, i)
  IN  IF Len(c) < i \/ (HasSib(c, i) /\ Len(c) = i) \/ Len(c) < at + size - 1 THEN [ok |-> FALSE]
      ELSE [ok |-> TRUE, reg |-> (c[i] \div 8) % 8, mod |-> Mod(c, i), rm |-> Rm(c, i) + 8 * rex.b,
            regs |-> BaseRegs(c, i, rex) (+) IndexRegs(c, i, rex),
            ofs |-> IF size = 0 \/ Mod(c, i) = 3 THEN 0 ELSE Signed(c, at, size), next |-> at + size]

Bad == [mn |-> "bad"]
Instruction(mn, dst, src) == [mn |-> mn, dst |-> dst, src |-> src]

Bit(b, n) == (b \div n) % 2
Rex(b) == [w |-> Bit(b, 8), r |-> Bit(b, 4), x |-> Bit(b, 2), b |-> Bit(b, 1)]

NoRex == Rex(0)

\* What the prefixes say: an operand size of 16 bits, and REX.
Size(p) == IF p.rex.w = 1 THEN 64 ELSE IF p.short THEN 16 ELSE 32
InReg(m, p, size) == Register(size, m.reg + 8 * p.rex.r, p.isRex)
InRM(m, p, size)  == IF m.mod = 3 THEN Register(size, m.rm, p.isRex) ELSE Mem(size, m.regs, m.ofs)

\* The forms of instructions, with ModRM at byte i; each uses up the bytes.
UsesUp(c, n, instruction) == IF n = Len(c) THEN instruction ELSE Bad
MR(c, i, p, mn, size) ==
  LET m == ModRM(c, i, p.rex)
  IN  IF m.ok THEN UsesUp(c, m.next - 1, Instruction(mn, InRM(m, p, size), InReg(m, p, size))) ELSE Bad
RM(c, i, p, mn, size, from) ==
  LET m == ModRM(c, i, p.rex)
  IN  IF m.ok THEN UsesUp(c, m.next - 1, Instruction(mn, InReg(m, p, size), InRM(m, p, from))) ELSE Bad
MWith(c, i, p, mn, size, src) ==
  LET m == ModRM(c, i, p.rex)
  IN  IF m.ok THEN UsesUp(c, m.next - 1, Instruction(mn, InRM(m, p, size), src)) ELSE Bad
MI(c, i, p, mn, size, n, as) ==
  LET m == ModRM(c, i, p.rex)
  IN  IF m.ok /\ Len(c) = m.next + n - 1
      THEN Instruction(mn, InRM(m, p, size), Imm(Signed(c, m.next, n), as)) ELSE Bad
I(c, i, mn, dst, size, n) ==
  IF Len(c) = i + n - 1 THEN Instruction(mn, dst, Imm(Signed(c, i, n), size)) ELSE Bad

\* The instruction with its opcode at byte o.
Full(p) == IF Size(p) = 16 THEN 2 ELSE 4
OneOfAlu(c, i, p, mn, form) ==
  CASE form = 0 -> MR(c, i, p, mn, 8)
    [] form = 1 -> MR(c, i, p, mn, Size(p))
    [] form = 2 -> RM(c, i, p, mn, 8, 8)
    [] form = 3 -> RM(c, i, p, mn, Size(p), Size(p))
    [] form = 4 -> I(c, i, mn, Register(8, 0, FALSE), 8, 1)
    [] form = 5 -> I(c, i, mn, Register(Size(p), 0, FALSE), Size(p), Full(p))
    [] OTHER -> Bad

\* The opcodes of two bytes.
Escaped(c, i, p, second) ==
  CASE second = \hb6 -> RM(c, i, p, "movzx", Size(p), 8)
    [] second = \hb7 -> RM(c, i, p, "movzx", Size(p), 16)
    [] second = \hbe -> RM(c, i, p, "movsx", Size(p), 8)
    [] second \in \h90 .. \h97 -> MWith(c, i, p, Set[second - \h8f], 8, None)
    [] OTHER -> Bad

\* The register is in the opcode.
Coded(c, o, p, size) == Register(size, (c[o] % 8) + 8 * p.rex.b, p.isRex)
Pushed(c, o, p)      == Register(64, (c[o] % 8) + 8 * p.rex.b, TRUE)
WithReg(c, o, p) ==
  CASE c[o] \in \h50 .. \h57 -> UsesUp(c, o, Instruction("push", Pushed(c, o, p), None))
    [] c[o] \in \h58 .. \h5f -> UsesUp(c, o, Instruction("pop", Pushed(c, o, p), None))
    [] c[o] \in \hb0 .. \hb7 -> I(c, o + 1, "mov", Coded(c, o, p, 8), 8, 1)
    [] c[o] \in \hb8 .. \hbf -> I(c, o + 1, "mov", Coded(c, o, p, Size(p)), Size(p), Full(p))
    [] OTHER -> Bad

\* The register and the memory are in ModRM.
WithModRM(c, o, p) ==
  CASE c[o] = \h87 -> MR(c, o + 1, p, "xchg", Size(p))
    [] c[o] = \h88 -> MR(c, o + 1, p, "mov", 8)
    [] c[o] = \h89 -> MR(c, o + 1, p, "mov", Size(p))
    [] c[o] = \h8a -> RM(c, o + 1, p, "mov", 8, 8)
    [] c[o] = \h8b -> RM(c, o + 1, p, "mov", Size(p), Size(p))
    [] c[o] = \h8d -> RM(c, o + 1, p, "lea", Size(p), 0)
    [] OTHER -> Bad

\* The mnemonic is in the register bits of ModRM.
Extension(c, o) == IF Len(c) > o THEN (c[o + 1] \div 8) % 8 ELSE 0
OneOfEight(c, o, p) ==
  LET alu   == Alu[Extension(c, o) + 1]
      shift == Shift[Extension(c, o) + 1]
  IN  CASE c[o] = \h80 -> MI(c, o + 1, p, alu, 8, 1, 8)
        [] c[o] = \h81 -> MI(c, o + 1, p, alu, Size(p), Full(p), Size(p))
        [] c[o] = \h83 -> MI(c, o + 1, p, alu, Size(p), 1, Size(p))
        [] c[o] = \hc0 -> MI(c, o + 1, p, shift, 8, 1, 8)
        [] c[o] = \hc1 -> MI(c, o + 1, p, shift, Size(p), 1, 8)
        [] c[o] = \hd0 -> MWith(c, o + 1, p, shift, 8, Imm(1, 8))
        [] OTHER -> Bad
OneOfFew(c, o, p) ==
  LET ext == Extension(c, o)
  IN  CASE c[o] = \hc6 /\ ext = 0 -> MI(c, o + 1, p, "mov", 8, 1, 8)
        [] c[o] = \hc7 /\ ext = 0 -> MI(c, o + 1, p, "mov", Size(p), Full(p), Size(p))
        [] c[o] = \hf6 /\ ext = 0 -> MI(c, o + 1, p, "test", 8, 1, 8)
        [] c[o] = \hf6 /\ ext = 2 -> MWith(c, o + 1, p, "not", 8, None)
        [] c[o] = \hf7 /\ ext = 0 -> MI(c, o + 1, p, "test", Size(p), Full(p), Size(p))
        [] c[o] = \hfe /\ ext < 2 -> MWith(c, o + 1, p, <<"inc", "dec">>[ext + 1], 8, None)
        [] c[o] = \hff /\ ext < 2 -> MWith(c, o + 1, p, <<"inc", "dec">>[ext + 1], Size(p), None)
        [] OTHER -> Bad

Opcode(c, o, p) ==
  CASE c[o] = \h0f -> Escaped(c, o + 2, p, IF Len(c) > o THEN c[o + 1] ELSE 0)
    [] c[o] < 64 /\ c[o] # \h0f -> OneOfAlu(c, o + 1, p, Alu[c[o] \div 8 + 1], c[o] % 8)
    [] c[o] \in (\h50 .. \h5f) \cup (\hb0 .. \hbf) -> WithReg(c, o, p)
    [] c[o] \in {\h87, \h88, \h89, \h8a, \h8b, \h8d} -> WithModRM(c, o, p)
    [] c[o] \in {\h80, \h81, \h83, \hc0, \hc1, \hd0} -> OneOfEight(c, o, p)
    [] c[o] \in {\hc6, \hc7, \hf6, \hf7, \hfe, \hff} -> OneOfFew(c, o, p)
    [] c[o] \in DOMAIN Plain -> UsesUp(c, o, Instruction(Plain[c[o]], None, None))
    [] OTHER -> Bad

IsRex(b) == b \in \h40 .. \h4f
Decoded(c) ==
  LET short == c[1] = \h66
      r     == IF short THEN 2 ELSE 1
      isRex == Len(c) >= r /\ IsRex(c[r])
      p     == [short |-> short, isRex |-> isRex, rex |-> IF isRex THEN Rex(c[r]) ELSE NoRex]
      o     == IF isRex THEN r + 1 ELSE r
  IN  IF Len(c) < o THEN Bad ELSE Opcode(c, o, p)
=============================================================================
