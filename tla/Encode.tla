------------------------------- MODULE Encode -------------------------------
(***************************************************************************)
(* The encoders of asm/x86_64.intel.c: one action for each C function that *)
(* turns a statement without labels into bytes.                            *)
(*                                                                         *)
(* A register is its REG_TYPE and its number there.  A statement that an   *)
(* encoder does not take ends the process (input_bug, unimpl_yet).         *)
(***************************************************************************)
EXTENDS Operand

CONSTANTS Forms   \* the statements: sets of mnemonics with their operands, [mns, dsts, srcs]

VARIABLES
  line,    \* the statement in hand, or NoLine
  code,    \* its bytes
  refused

vars == <<line, code, refused>>

D == INSTANCE Decode

------------------------------------------------------------------------------
\* A statement as written: operands are registers, numbers or memory.
NoLine    == [mn |-> "none"]
None      == [kind |-> "none"]
Reg(t, n) == [kind |-> "reg", type |-> t, reg |-> n]
Imm(n)    == [kind |-> "imm", num |-> n]
Mem(size, text) == [kind |-> "mem", size |-> size, text |-> text]

\* The same after _tok2id and _opr2n.  What has a name without a value is not taken.
Parsed(o) ==
  IF o.kind # "mem" THEN o
  ELSE LET ctl == Opr2n(o.text)
       IN  [kind |-> IF ctl.status = "NUM" THEN "mem" ELSE "no", size |-> o.size, type |-> ctl.type,
            reg |-> ctl.reg, scaled |-> ctl.scaled, index |-> ctl.index, lv |-> ctl.lv, num |-> ctl.num]
Line(mn, d, s) == [mn |-> mn, dst |-> Parsed(d), src |-> Parsed(s), written |-> <<d, s>>]

IsReg(o, t)    == o.kind = "reg" /\ o.type = t
IsImm(o)       == o.kind = "imm"
IsMem(o, t)    == o.kind = "mem" /\ o.type = t
IsPlain(o, t)  == IsMem(o, t) /\ ~o.scaled
IsScaled(o, t) == IsMem(o, t) /\ o.scaled
Sized(o, size) == o.kind = "mem" /\ o.size = size

Byte(n)     == n \in -128 .. 127
ByteHalf(n) == n \in -256 .. 255
WordHalf(n) == n \in -65536 .. 65535
S16(n)      == ((n + 32768) % 65536) - 32768

Low(n)      == n % 256
Bytes(n, k) == [i \in 1 .. k |-> (n \div <<1, 256, 65536, 16777216>>[i]) % 256]

ModRM(mod, reg, rm) == 64 * mod + 8 * reg + rm
SIB(m)      == 64 * m.lv + 8 * m.index + m.reg
Both(r, s)  == ModRM(3, r.reg, s.reg)
At(r, m)    == ModRM(0, r.reg, m.reg)
AtByte(r, m) == <<ModRM(1, r.reg, m.reg), Low(m.num)>>
AtLong(r, m) == <<ModRM(2, r.reg, m.reg)>> \o Bytes(m.num, 4)
SibLong(r, m) == <<ModRM(2, r.reg, 4), SIB(m)>> \o Bytes(m.num, 4)

\* Opcode extensions take the place of the register.
Ext(n) == [reg |-> n]

Refuse == <<>>

------------------------------------------------------------------------------
\* mov
FromPtr64(d, m) ==
  CASE d.type = "RAXtoRDI" /\ IsPlain(m, "RAXtoRDI") /\ m.num = 0 -> <<\h48, \h8b, At(d, m), \o44>>
    [] d.type = "RAXtoRDI" /\ IsPlain(m, "RAXtoRDI") /\ m.num # 0 /\ Byte(m.num) ->
         <<\h48, \h8b>> \o AtByte(d, m)
    [] d.type = "RAXtoRDI" /\ IsScaled(m, "R8toR15") /\ Byte(m.num) ->
         <<\h49, \h8b, ModRM(1, d.reg, 4), SIB(m), Low(m.num)>>
    [] d.type = "R8toR15" /\ IsPlain(m, "RAXtoRDI") -> <<\h4c, \h8b>> \o AtByte(d, m)
    [] d.type = "R8toR15" /\ IsScaled(m, "R8toR15") -> <<\h4d, \h8b, ModRM(0, d.reg, 4), SIB(m)>>
    [] OTHER -> Refuse

FromPtr8(d, m) ==
  CASE IsPlain(m, "RAXtoRDI") /\ m.num = 0 -> <<\h8a, At(d, m)>>
    [] IsPlain(m, "RAXtoRDI") /\ m.num # 0 /\ Byte(m.num) -> <<\h8a>> \o AtByte(d, m)
    [] IsPlain(m, "RAXtoRDI") /\ ~Byte(m.num) -> <<\h8a>> \o AtLong(d, m)
    [] IsPlain(m, "R8toR15") /\ m.num = 0 -> <<\h41, \h8a, At(d, m)>>
    [] IsPlain(m, "R8toR15") /\ m.num # 0 /\ Byte(m.num) -> <<\h41, \h8a>> \o AtByte(d, m)
    [] IsScaled(m, "R8toR15") /\ ~Byte(m.num) -> <<\h41, \h8a>> \o SibLong(d, m)
    [] OTHER -> Refuse

FromPtr16(d, m) ==
  CASE IsPlain(m, "RAXtoRDI") /\ m.num = 0 -> <<\h66, \h8b, At(d, m)>>
    [] IsPlain(m, "RAXtoRDI") /\ m.num # 0 /\ Byte(m.num) -> <<\h66, \h8b>> \o AtByte(d, m)
    [] IsPlain(m, "R8toR15") /\ Byte(m.num) -> <<\h66, \h41, \h8b>> \o AtByte(d, m)
    [] OTHER -> Refuse

ToPtr(m, s) ==
  CASE IsImm(s) /\ m.size = 8 /\ IsMem(m, "RAXtoRDI") /\ Byte(m.num) ->
         <<\hc6>> \o AtByte(Ext(0), m) \o <<Low(s.num)>>
    [] IsReg(s, "ALtoBH") /\ m.size = 8 /\ IsPlain(m, "RAXtoRDI") /\ m.num = 0 -> <<\h88, At(s, m)>>
    [] IsReg(s, "ALtoBH") /\ m.size = 8 /\ IsPlain(m, "RAXtoRDI") /\ m.num # 0 /\ Byte(m.num) ->
         <<\h88>> \o AtByte(s, m)
    [] IsReg(s, "ALtoBH") /\ m.size = 8 /\ IsScaled(m, "R8toR15") -> <<\h41, \h88>> \o SibLong(s, m)
    [] IsReg(s, "SPLtoDIL") /\ m.size = 8 /\ IsPlain(m, "RAXtoRDI") /\ Byte(m.num) ->
         <<\h40, \h88>> \o AtByte(s, m)
    [] IsReg(s, "AXtoDI") /\ m.size = 16 /\ IsPlain(m, "RAXtoRDI") /\ m.num = 0 -> <<\h66, \h89, At(s, m)>>
    [] IsReg(s, "AXtoDI") /\ m.size = 16 /\ IsPlain(m, "RAXtoRDI") /\ m.num # 0 /\ Byte(m.num) ->
         <<\h66, \h89>> \o AtByte(s, m)
    [] IsReg(s, "RAXtoRDI") /\ m.size = 64 /\ IsPlain(m, "RAXtoRDI") /\ m.num = 0 ->
         <<\h48, \h89, At(s, m), \o44>>
    [] IsReg(s, "RAXtoRDI") /\ m.size = 64 /\ IsPlain(m, "RAXtoRDI") /\ m.num # 0 /\ Byte(m.num) ->
         <<\h48, \h89>> \o AtByte(s, m)
    [] OTHER -> Refuse

MovRegs(d, s) ==
  CASE IsReg(s, "EAXtoEDI") /\ d.type = "EAXtoEDI"  -> <<\h89, Both(s, d)>>
    [] IsReg(s, "ALtoBH")   /\ d.type = "ALtoBH"    -> <<\h88, Both(s, d)>>
    [] IsReg(s, "ALtoBH")   /\ d.type = "R8BtoR15B" -> <<\h41, \h88, Both(s, d)>>
    [] IsReg(s, "AXtoDI")   /\ d.type = "AXtoDI"    -> <<\h66, \h89, Both(s, d)>>
    [] IsReg(s, "RAXtoRDI") /\ d.type = "RAXtoRDI"  -> <<\h48, \h89, Both(s, d)>>
    [] IsReg(s, "RAXtoRDI") /\ d.type = "R8toR15"   -> <<\h49, \h89, Both(s, d)>>
    [] OTHER -> Refuse

\* mov ecx,5 is taken for a mistake: an immediate of 32 bits is one that needs them.
FitsImm32(n) == ~Byte(n)
MovImm(d, n) ==
  CASE d.type = "EAXtoEDI" /\ FitsImm32(n) -> <<\hb8 + d.reg>> \o Bytes(n, 4)
    [] d.type = "ALtoBH" -> <<\hb0 + d.reg, Low(n)>>
    [] d.type = "AXtoDI" /\ WordHalf(n) -> <<\h66, \hb8 + d.reg>> \o Bytes(n, 2)
    [] d.type = "RAXtoRDI" -> <<\h48, \hc7, Both(Ext(0), d)>> \o Bytes(n, 4)
    [] OTHER -> Refuse

Mov(d, s) ==
  CASE d.kind = "mem" -> ToPtr(d, s)
    [] d.kind = "reg" /\ s.kind = "reg" -> MovRegs(d, s)
    [] d.kind = "reg" /\ d.type \in {"RAXtoRDI", "R8toR15"} /\ Sized(s, 64) -> FromPtr64(d, s)
    [] IsReg(d, "ALtoBH") /\ Sized(s, 8)  -> FromPtr8(d, s)
    [] IsReg(d, "AXtoDI") /\ Sized(s, 16) -> FromPtr16(d, s)
    [] d.kind = "reg" /\ IsImm(s) -> MovImm(d, s.num)
    [] OTHER -> Refuse

\* movzx, movsx
Movzx(d, s) ==
  CASE IsReg(s, "ALtoBH") /\ IsReg(d, "EAXtoEDI")    -> <<\h0f, \hb6, Both(d, s)>>
    [] IsReg(s, "ALtoBH") /\ IsReg(d, "RAXtoRDI")    -> <<\h48, \h0f, \hb6, Both(d, s)>>
    [] IsReg(s, "R8BtoR15B") /\ IsReg(d, "RAXtoRDI") -> <<\h49, \h0f, \hb6, Both(d, s)>>
    [] IsReg(s, "AXtoDI") /\ IsReg(d, "RAXtoRDI")    -> <<\h48, \h0f, \hb7, Both(d, s)>>
    [] IsReg(d, "EAXtoEDI") /\ Sized(s, 8) /\ IsPlain(s, "RAXtoRDI") /\ ~Byte(s.num) ->
         <<\h0f, \hb6>> \o AtLong(d, s)
    [] IsReg(d, "RAXtoRDI") /\ Sized(s, 8) /\ ~s.scaled /\ s.num = 0 -> <<\h49, \h0f, \hb6, At(d, s)>>
    [] IsReg(d, "RAXtoRDI") /\ Sized(s, 8) /\ ~s.scaled /\ s.num # 0 /\ Byte(s.num) ->
         <<\h48, \h0f, \hb6>> \o AtByte(d, s)
    [] IsReg(d, "RAXtoRDI") /\ Sized(s, 16) /\ ~s.scaled -> <<\h48, \h0f, \hb7>> \o AtByte(d, s)
    [] OTHER -> Refuse

Movsx(d, s) ==
  CASE IsReg(s, "ALtoBH") /\ IsReg(d, "AXtoDI")   -> <<\h66, \h0f, \hbe, Both(d, s)>>
    [] IsReg(s, "ALtoBH") /\ IsReg(d, "RAXtoRDI") -> <<\h48, \h0f, \hbe, Both(d, s)>>
    [] OTHER -> Refuse

\* lea, apart from [rip] (Pass1).  Its operand may have no size.
Lea(d, s) ==
  IF ~(Sized(s, 64) \/ Sized(s, 0)) \/ s.type # "RAXtoRDI" \/ s.reg \in {4, 5} THEN Refuse
  ELSE CASE IsReg(d, "R8toR15") /\ s.num = 0 -> <<\h4c, \h8d, At(d, s)>>
         [] IsReg(d, "RAXtoRDI") -> <<\h48, \h8d>> \o AtByte(d, s)
         [] OTHER -> Refuse

Xchg(d, s) == IF IsReg(d, "AXtoDI") /\ IsReg(s, "AXtoDI") THEN <<\h66, \h87, Both(s, d)>> ELSE Refuse

IncDecOp == [inc |-> 0, dec |-> 1]
IncDec(d, op) ==
  LET AtPtr == IsPlain(d, "RAXtoRDI") /\ Byte(d.num)
  IN  CASE IsReg(d, "ALtoBH")   -> <<\hfe, Both(Ext(op), d)>>
        [] IsReg(d, "AXtoDI")   -> <<\h66, \hff, Both(Ext(op), d)>>
        [] IsReg(d, "RAXtoRDI") -> <<\h48, \hff, Both(Ext(op), d)>>
        [] IsReg(d, "R8toR15")  -> <<\h49, \hff, Both(Ext(op), d)>>
        [] AtPtr /\ d.size = 8  -> <<\hfe>> \o AtByte(Ext(op), d)
        [] AtPtr /\ d.size = 16 -> <<\h66, \hff>> \o AtByte(Ext(op), d)
        [] AtPtr /\ d.size = 64 -> <<\h48, \hff>> \o AtByte(Ext(op), d)
        [] OTHER -> Refuse

\* add or adc sbb and sub xor cmp
AluOp == [add |-> 0, or |-> 1, adc |-> 2, sbb |-> 3, and |-> 4, sub |-> 5, xor |-> 6, cmp |-> 7]

AluPtr(m, s, op) ==
  IF ~(IsMem(m, "RAXtoRDI") /\ Byte(m.num)) THEN Refuse
  ELSE CASE IsReg(s, "ALtoBH") -> <<8 * op>> \o AtByte(s, m)
         [] IsImm(s) /\ m.size = 8 /\ ByteHalf(s.num)  -> <<\h80>> \o AtByte(Ext(op), m) \o <<Low(s.num)>>
         [] IsImm(s) /\ m.size = 16 /\ ByteHalf(s.num) -> <<\h66, \h83>> \o AtByte(Ext(op), m) \o <<Low(s.num)>>
         [] OTHER -> Refuse

AluFromPtr(d, m, op) ==
  IF ~IsMem(m, "RAXtoRDI") THEN Refuse
  ELSE CASE IsReg(d, "ALtoBH") /\ m.size = 8 /\ Byte(m.num)  -> <<8 * op + 2>> \o AtByte(d, m)
         [] IsReg(d, "AXtoDI") /\ m.size = 16 /\ Byte(m.num) -> <<\h66, 8 * op + 3>> \o AtByte(d, m)
         [] IsReg(d, "RAXtoRDI") /\ m.size = 64 /\ m.num = 0 -> <<\h48, 8 * op + 3, At(d, m), \o44>>
         [] IsReg(d, "RAXtoRDI") /\ m.size = 64 /\ m.num # 0 /\ Byte(m.num) ->
              <<\h48, 8 * op + 3>> \o AtByte(d, m)
         [] OTHER -> Refuse

AluRegs(d, s, op) ==
  CASE IsReg(s, "EAXtoEDI") /\ d.type = "EAXtoEDI" -> <<8 * op + 1, Both(s, d)>>
    [] IsReg(s, "ALtoBH") /\ d.type = "ALtoBH"     -> <<8 * op, Both(s, d)>>
    [] IsReg(s, "AXtoDI") /\ d.type = "AXtoDI"     -> <<\h66, 8 * op + 1, Both(s, d)>>
    [] IsReg(s, "AXtoDI") /\ d.type = "R8WtoR15W"  -> <<\h66, \h41, 8 * op + 1, Both(s, d)>>
    [] IsReg(s, "R8toR15") /\ d.type = "RAXtoRDI"  -> <<\h4c, 8 * op + 1, Both(s, d)>>
    [] IsReg(s, "RAXtoRDI") /\ d.type = "R8toR15"  -> <<\h49, 8 * op + 1, Both(s, d)>>
    [] OTHER -> Refuse

\* The short form of an immediate is extended to the size by its sign.
ShortImm16Wide(n) == ByteHalf(S16(n))
ShortImm16(n) == Byte(S16(n))
AluImm(d, n, op) ==
  LET r == Both(Ext(op), d)
  IN  CASE d.type = "EAXtoEDI" /\ d.reg = 0 -> <<8 * op + 5>> \o Bytes(n, 4)
        [] d.type = "EAXtoEDI" /\ d.reg # 0 -> IF Byte(n) THEN <<\h83, r, Low(n)>> ELSE <<\h81, r>> \o Bytes(n, 4)
        [] d.type = "ALtoBH" /\ ByteHalf(n) -> IF d.reg = 0 THEN <<8 * op + 4, Low(n)>> ELSE <<\h80, r, Low(n)>>
        [] d.type = "AXtoDI"   -> IF ShortImm16(n) THEN <<\h66, \h83, r, Low(n)>> ELSE <<\h66, \h81, r>> \o Bytes(n, 2)
        [] d.type = "RAXtoRDI" -> IF Byte(n) THEN <<\h48, \h83, r, Low(n)>> ELSE <<\h48, \h81, r>> \o Bytes(n, 4)
        [] d.type = "R8toR15"  -> IF Byte(n) THEN <<\h49, \h83, r, Low(n)>> ELSE <<\h49, \h81, r>> \o Bytes(n, 4)
        [] OTHER -> Refuse

ArithLogic(d, s, op) ==
  CASE d.kind = "mem" -> AluPtr(d, s, op)
    [] d.kind = "reg" /\ s.kind = "reg" -> AluRegs(d, s, op)
    [] d.kind = "reg" /\ s.kind = "mem" -> AluFromPtr(d, s, op)
    [] d.kind = "reg" /\ IsImm(s) -> AluImm(d, s.num, op)
    [] OTHER -> Refuse

Test(d, s) ==
  IF ~IsImm(s) THEN Refuse
  ELSE CASE IsReg(d, "ALtoBH") /\ ByteHalf(s.num) -> <<\hf6, Both(Ext(0), d), Low(s.num)>>
         [] IsReg(d, "AXtoDI") /\ WordHalf(s.num) -> <<\h66, \hf7, Both(Ext(0), d)>> \o Bytes(s.num, 2)
         [] Sized(d, 64) /\ d.num = 0 /\ IsScaled(d, "R8toR15") -> <<\h49, \hf7, 4, SIB(d)>> \o Bytes(s.num, 4)
         [] Sized(d, 8) /\ IsPlain(d, "RAXtoRDI") /\ Byte(d.num) -> <<\hf6>> \o AtByte(Ext(0), d) \o <<Low(s.num)>>
         [] Sized(d, 8) /\ IsPlain(d, "RAXtoRDI") /\ ~Byte(d.num) -> <<\hf6>> \o AtLong(Ext(0), d) \o <<Low(s.num)>>
         [] OTHER -> Refuse

\* Statements without operands, and those with one register.
Flags == [nop |-> \h90, clc |-> \hf8, stc |-> \hf9, sahf |-> \h9e, lahf |-> \h9f, ret |-> \hc3, leave |-> \hc9]
Not(d) == IF IsReg(d, "ALtoBH") THEN <<\hf6, Both(Ext(2), d)>> ELSE Refuse
Cond == [seto |-> 0, setno |-> 1, setc |-> 2, setnc |-> 3, setz |-> 4, setnz |-> 5, setna |-> 6, seta |-> 7]
Setcc(d, cc) == IF IsReg(d, "ALtoBH") THEN <<\h0f, \h90 + cc, Both(Ext(0), d)>> ELSE Refuse
PushPop(d, op) ==
  CASE IsReg(d, "RAXtoRDI") -> <<\h50 + 8 * op + d.reg>>
    [] IsReg(d, "R8toR15")  -> <<\h41, \h50 + 8 * op + d.reg>>
    [] OTHER -> Refuse

\* Without a second operand a shift is by one.
ShiftOp == [rol |-> 0, ror |-> 1, rcl |-> 2, rcr |-> 3, shl |-> 4, shr |-> 5, sal |-> 4, sar |-> 7]
Count(s) == IF s.kind = "none" THEN 1 ELSE s.num
Rotsft(d, s, op) ==
  LET r == Both(Ext(op), d)
  IN  IF ~(IsImm(s) \/ s.kind = "none") THEN Refuse
      ELSE CASE IsReg(d, "EAXtoEDI") -> <<\hc1, r, Low(Count(s))>>
             [] IsReg(d, "ALtoBH")   -> IF Count(s) = 1 THEN <<\hd0, r>> ELSE <<\hc0, r, Low(Count(s))>>
             [] IsReg(d, "RAXtoRDI") -> <<\h48, \hc1, r, Low(Count(s))>>
             [] OTHER -> Refuse

------------------------------------------------------------------------------
Init == line = NoLine /\ code = <<>> /\ refused = FALSE

Read(f) ==
  /\ line = NoLine
  /\ \E mn \in f.mns, d \in f.dsts, s \in f.srcs : line' = Line(mn, d, s)
  /\ UNCHANGED <<code, refused>>

Push(bytes) ==
  /\ line # NoLine /\ code = <<>> /\ ~refused
  /\ code' = bytes
  /\ refused' = (bytes = Refuse)
  /\ UNCHANGED line

Dst == line.dst
Src == line.src
Is(mns) == line # NoLine /\ line.mn \in mns

EncodeMov    == Is({"mov"})   /\ Push(Mov(Dst, Src))
EncodeMovzx  == Is({"movzx"}) /\ Push(Movzx(Dst, Src))
EncodeMovsx  == Is({"movsx"}) /\ Push(Movsx(Dst, Src))
EncodeLea    == Is({"lea"})   /\ Push(Lea(Dst, Src))
EncodeXchg   == Is({"xchg"})  /\ Push(Xchg(Dst, Src))
EncodeIncDec == Is(DOMAIN IncDecOp) /\ Push(IncDec(Dst, IncDecOp[line.mn]))
EncodeAlu    == Is(DOMAIN AluOp)    /\ Push(ArithLogic(Dst, Src, AluOp[line.mn]))
EncodeTest   == Is({"test"})  /\ Push(Test(Dst, Src))
EncodeFlag   == Is(DOMAIN Flags)    /\ Push(<<Flags[line.mn]>>)
EncodeNot    == Is({"not"})   /\ Push(Not(Dst))
EncodeSetcc  == Is(DOMAIN Cond)     /\ Push(Setcc(Dst, Cond[line.mn]))
EncodeShift  == Is(DOMAIN ShiftOp)  /\ Push(Rotsft(Dst, Src, ShiftOp[line.mn]))
EncodePush   == Is({"push"})  /\ Push(PushPop(Dst, 0))
EncodePop    == Is({"pop"})   /\ Push(PushPop(Dst, 1))

Encode ==
  \/ EncodeMov \/ EncodeMovzx \/ EncodeMovsx \/ EncodeLea \/ EncodeXchg \/ EncodeIncDec \/ EncodeAlu
  \/ EncodeTest \/ EncodeFlag \/ EncodeNot \/ EncodeSetcc \/ EncodeShift \/ EncodePush \/ EncodePop

NextStatement == code # <<>> /\ line' = NoLine /\ code' = <<>> /\ UNCHANGED refused

Next == Encode \/ NextStatement \/ \E f \in Forms : Read(f)
Spec == Init /\ [][Next]_vars

------------------------------------------------------------------------------
\* What a statement says, in the terms of Decode.
Places(text) == UNION { {i} \X DOMAIN text.brackets[i] : i \in DOMAIN text.brackets }
TermAt(text, p) == text.brackets[p[1]][p[2]]
Registers(text) == { p \in Places(text) : ~IsNum(TermAt(text, p)) }
Name(t)  == <<t.type, t.reg>>
Times(t) == IF t.scale = 0 THEN 1 ELSE t.scale
Added(text) ==
  [r \in { Name(TermAt(text, p)) : p \in Registers(text) } |->
     SumFunction([p \in { q \in Registers(text) : Name(TermAt(text, q)) = r } |-> Times(TermAt(text, p))])]
Offset(text) == text.lead + SumFunction([p \in Places(text) |-> TermAt(text, p).num])

\* What the tokenizer makes of the operands: registers (g_tok2id_*, asm/calc.c:478-548),
\* numbers of 32 bits (VALUE, :62), and brackets that hold something.
RegTypes == {"RAXtoRDI", "R8toR15", "EAXtoEDI", "ALtoBH", "AXtoDI", "RIP", "SPLtoDIL", "R8BtoR15B", "R8WtoR15W"}
Max32 == 2147483647
Int32 == (-Max32 - 1) .. Max32
Terms == [type : RegTypes, reg : 0 .. 7, scale : Nat, num : {0}]
           \cup [type : {"NUM"}, reg : {0}, scale : {0}, num : Int]
IsText(text) ==
  text.lead \in Int /\ text.brackets \in Seq(Seq(Terms) \ {<<>>}) /\ Offset(text) \in Int32
IsOperand(o) ==
  \/ o = None
  \/ o \in [kind : {"reg"}, type : RegTypes, reg : 0 .. 7] /\ (o.type = "SPLtoDIL" => o.reg > 3)
  \/ o \in [kind : {"imm"}, num : Int32]
  \/ o.kind = "mem" /\ IsText(o.text)

\* The parser takes as many operands as the mnemonic has.
OneOperand == {"not", "push", "pop"} \cup DOMAIN IncDecOp \cup DOMAIN Cond
IsStatement(mn, d, s) ==
  /\ IsOperand(d) /\ IsOperand(s)
  /\ mn \in OneOperand => s = None
  /\ mn \in DOMAIN Flags => d = None /\ s = None
ASSUME FormsAssumption ==
  \A f \in Forms : \A mn \in f.mns, d \in f.dsts, s \in f.srcs : IsStatement(mn, d, s)

Written(o, size) ==
  CASE o.kind = "mem" -> D!Mem(size, Added(o.text), Offset(o.text))
    [] o.kind = "imm" -> D!Imm(o.num, size)
    [] OTHER -> o
SizeOf(o) ==
  CASE o.kind = "mem" -> o.size
    [] o.kind = "reg" -> CASE o.type \in {"ALtoBH", "SPLtoDIL", "R8BtoR15B"} -> 8
                           [] o.type \in {"AXtoDI", "R8WtoR15W"} -> 16
                           [] o.type = "EAXtoEDI" -> 32
                           [] OTHER -> 64
    [] OTHER -> 0
SrcSize(mn, d, s) ==
  CASE mn \in DOMAIN ShiftOp -> 8
    [] mn = "lea" -> 0
    [] mn = "movzx" /\ s.kind = "mem" -> s.size
    [] OTHER -> SizeOf(d)
MeantBy(mn, d, s) ==
  D!Instruction(IF mn = "sal" THEN "shl" ELSE mn,
                Written(d, SizeOf(d)),
                Written(IF mn \in DOMAIN ShiftOp THEN Imm(Count(s)) ELSE s, SrcSize(mn, d, s)))
Meant(l) == MeantBy(l.mn, l.written[1], l.written[2])

\* The statements that are taken and given the bytes of something else.
HasMem  == Dst.kind = "mem" \/ Src.kind = "mem"
Ptr     == IF Dst.kind = "mem" THEN Dst ELSE Src
Counterpart == IF Dst.kind = "mem" THEN Src ELSE Dst
IsAlu   == Is(DOMAIN AluOp)

\* ah to bh next to a prefix REX are spl to dil.
HighByteWithRex ==
  /\ \E o \in {Dst, Src} : IsReg(o, "ALtoBH") /\ o.reg > 3
  /\ \/ Is({"movzx", "movsx"}) /\ IsReg(Dst, "RAXtoRDI")
     \/ IsReg(Dst, "R8BtoR15B")
     \/ HasMem /\ Ptr.type = "R8toR15"

\* rsp, rbp, r12 and r13, which only lea refuses (x86_64.intel.c:1081).  The 0044
\* of :414, :632 and :1469 makes [rsp] right, and every other [r64] wrong.
WithSib44 == Is({"mov"} \cup DOMAIN AluOp) /\ IsReg(Counterpart, "RAXtoRDI") /\ IsPlain(Ptr, "RAXtoRDI") /\ Ptr.num = 0
NoSib     == IF WithSib44 THEN Ptr.reg # 4 ELSE ~Ptr.scaled /\ Ptr.reg = 4
NoDisp ==
  /\ Ptr.reg = 5 /\ Ptr.num = 0
  /\ \/ Is({"mov"}) /\ Counterpart.kind = "reg" /\ Counterpart.type \in {"ALtoBH", "AXtoDI"} /\ IsPlain(Ptr, "RAXtoRDI")
     \/ Is({"mov"}) /\ IsReg(Counterpart, "ALtoBH") /\ IsPlain(Ptr, "R8toR15")
     \/ Is({"mov"}) /\ IsReg(Counterpart, "R8toR15") /\ Ptr.scaled
     \/ Is({"movzx"}) /\ Ptr.size = 8
     \/ Is({"test"}) /\ Ptr.size = 64

\* Nobody asks for an index (:653, :1076, :1322, :1439), or for rsp as one.
IndexLost == Ptr.scaled /\ (IsAlu \/ Is({"lea"}) \/ (IsImm(Counterpart) /\ Is({"mov"})) \/ Ptr.index = 4)

\* Of an offset beyond one byte the low one is left (:444, :988, :1090); :452 drops any.
OffsetLost ==
  \/ /\ ~Byte(Ptr.num)
     /\ \/ Is({"lea"})
        \/ Is({"movzx"}) /\ Ptr.size = 16
        \/ IsReg(Counterpart, "R8toR15") /\ IsPlain(Ptr, "RAXtoRDI")
  \/ Ptr.num # 0 /\ IsReg(Counterpart, "R8toR15") /\ Ptr.scaled

\* movzx chooses the prefix by the offset, not by the base (:971-991).
BaseLost ==
  Is({"movzx"}) /\ IsReg(Dst, "RAXtoRDI")
    /\ Ptr.type # (IF Ptr.size = 8 /\ Ptr.num = 0 THEN "R8toR15" ELSE "RAXtoRDI")

\* A byte that stands for a word is extended by its sign (:1353).  The size of the
\* memory operand is not compared with the register (:1321).
SizeLost ==
  /\ IsAlu /\ Dst.kind = "mem"
  /\ \/ IsReg(Src, "ALtoBH") /\ Dst.size # 8
     \/ IsImm(Src) /\ Dst.size = 16 /\ ~Byte(Src.num)

Misencoded ==
  \/ HighByteWithRex
  \/ HasMem /\ (NoSib \/ NoDisp \/ IndexLost \/ OffsetLost \/ BaseLost \/ SizeLost)

\* The bytes of a statement, read by the processor, are the statement, and the
\* exceptions are those named above: the assembler is "compatible with GCC"
\* (README.md:1), so each of them should be refused or written otherwise.
CodeMeansStatement == code # <<>> => (D!Decoded(code) = Meant(line) <=> ~Misencoded)
=============================================================================
