-------------------------------- MODULE Relax --------------------------------
(***************************************************************************)
(* Pass 2.1 of the assembler (asm/x86_64.intel.c): the jumps of one        *)
(* segment get their short (REL8) or long (REL32) form, loop by loop, and  *)
(* the fragments their addresses.                                          *)
(*                                                                         *)
(* Positions in shrink (i_from, i_to) and fragment identifiers are both    *)
(* one larger than in the code, so comparing one with the other, as the    *)
(* code does, keeps its meaning.                                           *)
(***************************************************************************)
EXTENDS Fragments, FiniteSetsExt

CONSTANT SegMod   \* 1 << SEGMENT_SIZE_BITS: addresses wrap here

ASSUME SegModAssumption == SegMod \in Nat \ {0}

VARIABLES
  seg,     \* the segment of s_segtbl at hand
  target,  \* label -> [frag, ofs], what _fragment_addr_from_expr2n returns
  shrink,  \* pass2()->rel8_capable_jmp: [frag, to]
  i_from,  \* the jump the loop looks at
  before,  \* ambiguous jumps the loop before left
  after,   \* ambiguous jumps this loop has left so far
  capable  \* history: the jumps the loops had to decide

optVars   == <<shrink, i_from, before, after, capable>>
relaxVars == <<seg, target, optVars>>

NoTarget == [frag |-> 0, ofs |-> 0]
Targets == [frag : Nat, ofs : Nat]

Cnt == Len(shrink)
Frag(i)    == frags.pieces[shrink[i].frag]
IsJmp(i)   == HasJmp(Frag(i))
IsAmbiguous(i) == IsJmp(i) /\ Frag(i).ofsType = "REL8or32"

\* pass2()->i_from_frag_id, filled for the fragments of this segment only;
\* every other slot is whatever malloc left there.
Known(frag)  == \E i \in 1 .. Cnt : shrink[i].frag = frag
Lookup(frag) == CHOOSE i \in 1 .. Cnt : shrink[i].frag = frag

MinLenLong(f)  == f.objLen + (IF f.ofsType = "REL8" THEN f.jmp8 ELSE f.jmp32)
MaxLenShort(f) == f.objLen + (IF f.ofsType = "REL32" THEN f.jmp32 ELSE f.jmp8)
MinLen(f) == f.objLen + (IF f.ofsType = "REL32" THEN f.jmp32 ELSE f.jmp8)
MaxLen(f) == f.objLen + (IF f.ofsType \in {"REL32", "REL8or32"} THEN f.jmp32 ELSE f.jmp8)

\* _cseg_calc_distance: the bytes of fragments start .. end-1, given the
\* length of each.
Distance(len, start, end) == SumFunctionOnSet(len, start .. (end - 1))
MinLens == [i \in 1 .. Cnt |-> MinLen(Frag(i))]
MaxLens == [i \in 1 .. Cnt |-> MaxLen(Frag(i))]

IsMinusNotSelf(i) == shrink[i].to.frag < i
IsMinus(i) == shrink[i].to.frag <= i

NeedRel32(i, len) ==
  LET to   == shrink[i].to
      i_to == Lookup(to.frag)
  IN IF IsMinus(i)
     THEN to.ofs - (Distance(len, i_to, i) + Frag(i).objLen + Frag(i).jmp8) < -128
     ELSE Distance(len, i + 1, i_to) + to.ofs > 127

------------------------------------------------------------------------------
Goto(p) == phase' = p
Bug(why) == fault' = why /\ UNCHANGED <<frags, phase, relaxVars>>

Running(p) == phase = p /\ fault = "none"

\* s_segtbl: where pass 2 goes after a segment.
AfterSeg == IF seg = "CSEG" THEN "startup" ELSE "addresses"

\* The members of a set of numbers, from the smallest to the largest.
InOrder(S) == [i \in 1 .. Cardinality(S) |-> CHOOSE x \in S : Cardinality({j \in S : j <= x}) = i]
InSegOrder(s) == InOrder(IdsOf(frags, s))

\* _jmp8or32_optimize_startup
Startup ==
  /\ Running("startup")
  /\ LET ids == InSegOrder(seg)
         to(f) == IF HasJmp(f) THEN target[f.to] ELSE NoTarget
     IN IF \E i \in DOMAIN ids : HasJmp(frags.pieces[ids[i]]) /\ to(frags.pieces[ids[i]]) = NoTarget
        THEN Bug("_fragment_addr_from_expr2n")
        ELSE /\ shrink' = [i \in DOMAIN ids |-> [frag |-> ids[i], to |-> to(frags.pieces[ids[i]])]]
             /\ capable' = { i \in DOMAIN ids : LET f == frags.pieces[ids[i]]
                                                IN HasJmp(f) /\ f.ofsType = "REL8or32" }
             /\ before' = Len(ids) /\ after' = 0 /\ i_from' = 1
             /\ Goto("optimize")
             /\ UNCHANGED <<frags, fault, seg, target>>

Looking(i) == Running("optimize") /\ i = i_from /\ i <= Cnt
NextJmp == i_from' = i_from + 1 /\ UNCHANGED <<fault, phase, seg, target, shrink, before, capable>>

Skip(i) ==
  /\ Looking(i) /\ ~IsAmbiguous(i)
  /\ NextJmp
  /\ UNCHANGED <<frags, after>>

\* The two assertions on the target of a jump.
BadTargetAtEnd(i) ==
  IF IsMinus(i) THEN shrink[i].to.frag = i /\ Frag(i).objLen <= shrink[i].to.ofs
                ELSE shrink[i].to.frag - 1 > Cnt
BadTarget(i) ==
  IF IsMinus(i) THEN shrink[i].to.frag = i /\ Frag(i).objLen < shrink[i].to.ofs
                ELSE shrink[i].to.frag - 1 > Cnt

DecideFails(i) ==
  /\ Looking(i) /\ IsAmbiguous(i) /\ BadTarget(i)
  /\ Bug("_jmp8or32_optimize")

Settle(i, type) == frags' = SetOfsType(frags, shrink[i].frag, type) /\ UNCHANGED after
LeaveUncounted == UNCHANGED <<frags, after>>
LeaveOpen == after' = after + 1 /\ UNCHANGED frags

Decide(i) ==
  /\ Looking(i) /\ IsAmbiguous(i) /\ ~BadTarget(i) /\ Known(shrink[i].to.frag)
  /\ LET min == NeedRel32(i, MinLens)
         max == NeedRel32(i, MaxLens)
     IN \/ min = max /\ Settle(i, IF min THEN "REL32" ELSE "REL8")
        \/ min # max /\ LeaveOpen
  /\ NextJmp

\* A label of another segment is looked up in a slot nobody wrote: the
\* distance is anything, or the sum runs off the array.
DecideBlindly(i) ==
  /\ Looking(i) /\ IsAmbiguous(i) /\ ~BadTarget(i) /\ ~Known(shrink[i].to.frag)
  /\ \/ (\E type \in {"REL8", "REL32"} : Settle(i, type)) /\ NextJmp
     \/ LeaveOpen /\ NextJmp
     \/ Bug("out of bounds")

\* Another loop, as long as the last one decided something.
AnotherLoopOnTie == after <= before
AnotherLoop == after < before

Again ==
  /\ Running("optimize") /\ i_from > Cnt /\ AnotherLoop
  /\ before' = after /\ after' = 0 /\ i_from' = 1
  /\ UNCHANGED <<frags, fault, phase, seg, target, shrink, capable>>

LoopDone == Running("optimize") /\ i_from > Cnt /\ ~AnotherLoop

\* _jmp8or32_to_reftbl: each fragment gets the address behind the one before.
\* A jump that stayed ambiguous counts, and is written, as REL32.
FinalLen(f) == f.objLen + (IF HasJmp(f) THEN JmpLen(f) ELSE 0)
FinalLens == [i \in 1 .. Cnt |-> FinalLen(Frag(i))]
PlacedWithoutJumps ==
  LET addr(i) == Distance([j \in 1 .. Cnt |-> Frag(j).objLen], 1, i) % SegMod
  IN [frags EXCEPT !.pieces = [id \in DOMAIN @ |->
        IF Known(id) THEN [@[id] EXCEPT !.segAddr = addr(Lookup(id))] ELSE @[id]]]
Placed ==
  LET addr(i) == Distance(FinalLens, 1, i) % SegMod
  IN [frags EXCEPT !.pieces = [id \in DOMAIN @ |->
        IF Known(id) THEN [@[id] EXCEPT !.segAddr = addr(Lookup(id))] ELSE @[id]]]

ToReftbl ==
  /\ LoopDone
  /\ frags' = Placed
  /\ Goto(AfterSeg)
  /\ seg' = "DSEG"
  /\ UNCHANGED <<fault, target, optVars>>

OptimizeStep ==
  \/ \E i \in 1 .. Cnt : Skip(i) \/ Decide(i) \/ DecideBlindly(i) \/ DecideFails(i)
  \/ Again

allVars == <<frags, phase, fault, relaxVars>>
NextRelax == Startup \/ OptimizeStep \/ ToReftbl

\* From fragments F and label targets T, both of pass 1.
InitRelax(F, T) ==
  /\ frags = F /\ target = T
  /\ phase = "startup" /\ fault = "none" /\ seg = "CSEG"
  /\ shrink = <<>> /\ i_from = 1 /\ before = 0 /\ after = 0 /\ capable = {}

------------------------------------------------------------------------------
(* What the loops promise.                                                  *)

\* From the end of jump i to its target, in the layout that is written.
Displacement(i) ==
  LET to == shrink[i].to
  IN (Distance(FinalLens, 1, Lookup(to.frag)) + to.ofs) - Distance(FinalLens, 1, i + 1)

Reaches(d) == d \in -128 .. 127

\* The segments that the loops get right: the jumps are in a segment whose
\* fragments come first, as in a source that opens .rodata behind its code,
\* and lead to places of that segment.  MCRelaxMixed.cfg shows another.
FormOK(f) ==
  /\ f.ofsType \in {"REL8", "REL32", "REL8or32"}
  /\ IF HasJmp(f) THEN f.jmp8 <= f.jmp32 /\ f.to \in Labels ELSE f.jmp8 = 0 /\ f.jmp32 = 0
InFirst(F, T, s) ==
  \A id \in IdsOf(F, s) :
    HasJmp(F.pieces[id]) =>
      LET to == T[F.pieces[id].to]
      IN /\ IdsOf(F, s) = 1 .. Cardinality(IdsOf(F, s))
         /\ to.frag \in IdsOf(F, s) /\ to.ofs \in 0 .. F.pieces[to.frag].objLen
JumpsFirst(F, T) ==
  /\ F.pieces \in Seq(Fragment) /\ T \in [Labels -> Targets]
  /\ \A id \in DOMAIN F.pieces : FormOK(F.pieces[id])
  /\ InFirst(F, T, "CSEG") /\ InFirst(F, T, "DSEG")

\* Every jump left with a one-byte displacement reaches its target in the
\* layout that is written: flow_bug(-128 <= rel32 && rel32 <= 127) of
\* _resolve_reftbl.
Rel8Reaches ==
  LoopDone => \A i \in capable :
    Frag(i).ofsType = "REL8" =>
      /\ Known(shrink[i].to.frag)
      /\ Reaches(Displacement(i))

\* The reference: start with every jump short, lengthen whatever does not
\* reach.  The jumps that end up long are the least set closed under that.
ShortBut(S) == [i \in 1 .. Cnt |->
  Frag(i).objLen + (IF i \in S THEN Frag(i).jmp32
                    ELSE IF i \in capable THEN Frag(i).jmp8
                    ELSE IF IsJmp(i) THEN JmpLen(Frag(i)) ELSE 0)]
FitsIn(len, i, isLong) ==
  LET to   == shrink[i].to
      size == IF isLong THEN len[i] - (Frag(i).jmp32 - Frag(i).jmp8) ELSE len[i]
  IN Reaches(IF to.frag <= shrink[i].frag
             THEN to.ofs - (Distance(len, Lookup(to.frag), i) + size)
             ELSE to.ofs + Distance(len, i + 1, Lookup(to.frag)))
ClosedSet(S) == LET len == ShortBut(S) IN \A i \in capable \ S : FitsIn(len, i, FALSE)
LongInLeast == LET sets == { S \in SUBSET capable : ClosedSet(S) }
               IN { i \in capable : \A S \in sets : i \in S }

\* What the loops decided is what the reference decides: no jump is long
\* that could be short, and none short that could not.
DecidedLikeLeast ==
  LoopDone => \A i \in capable :
    /\ Frag(i).ofsType = "REL8"  => i \notin LongInLeast
    /\ Frag(i).ofsType = "REL32" => i \in LongInLeast

\* The loops stop only when no other loop would help: a jump still ambiguous
\* is in reach if the other ambiguous jumps are short, and out of reach if
\* they are long.
OfType(type) == { i \in capable : Frag(i).ofsType = type }
OnlyCirclesLeft ==
  LoopDone => \A i \in OfType("REL8or32") :
    /\ FitsIn(ShortBut(OfType("REL32")), i, FALSE)
    /\ ~FitsIn(ShortBut(OfType("REL32") \cup OfType("REL8or32")), i, TRUE)

\* None of the assertions of the loops fails, the last one,
\* flow_bug(after == before), included.
LoopAssertions == fault = "none" /\ (LoopDone => after = before)

\* The loops end: the number of ambiguous jumps falls each time round.
Terminates == <>(phase = "addresses")
==============================================================================
