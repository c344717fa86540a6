-------------------------------- MODULE Pass1 --------------------------------
(***************************************************************************)
(* Pass 1 of the assembler (asm/x86_64.intel.c with asm/procs.c,           *)
(* asm/reftbl.c and asm/sym.c): every source statement appends to the      *)
(* fragments and notes the addresses, symbols, procedures and references   *)
(* that pass 2 resolves.  One action per kind of statement.                *)
(*                                                                         *)
(* A statement that fails an input_bug, or that the code does not          *)
(* implement, ends the process with a message about the source: the model  *)
(* has no step for it.  A statement that fails one of the assembler's own  *)
(* assertions sets fault.                                                  *)
(***************************************************************************)
EXTENDS Fragments, FiniteSetsExt

CONSTANTS
  Source,    \* bound: for each line, the kinds of statement it may hold
  CodeLens   \* byte lengths of runs of straight-line instructions

AllMnemonics == {"code", "jmp", "jcc", "call", "label", "text", "rodata", "struct", "equ",
                 "declare", "startproc", "endproc", "cfi", "size", "quad", "lea"}

ASSUME SourceAssumption ==
  Source \in Seq(SUBSET AllMnemonics) /\ CodeLens \subseteq Nat \ {0}

VARIABLES
  seg_id,    \* pass1()->seg_id: the segment statements go to
  proc_id,   \* pass1()->proc_id: the procedure being defined, or 0
  addrs,     \* pass1()->addrs: [frag, ofs], plus what pass 2 fills in
  procs,     \* procs()->begin: [start, end, cfi], end is 0 until .cfi_endproc
  syms,      \* sym()->begin: the value of each name
  reftbl,    \* references to patch: [type, addr, to]
  line,      \* my()->line
  \* History, read by the properties only:
  emitted,   \* items (bytes and jumps) the source has put into each segment
  meant,     \* for each address: the segment and item it was taken at
  given,     \* the names sym_set_value was called for
  lost,      \* the names whose placeholder number was used as a value
  retagged   \* fragments moved to another segment with addresses in them

pass1Vars == <<seg_id, proc_id, addrs, procs, syms, reftbl, line>>
histVars  == <<emitted, meant, given, lost, retagged>>
vars      == <<frags, phase, fault, pass1Vars, histVars>>

SectionNames == {".text", ".rodata"}
Names == Labels \cup SectionNames

Num       == [type |-> "NUM", addr |-> 0]
Offset(a) == [type |-> "OFFSET", addr |-> a]
Absent    == [type |-> "ABSENT", addr |-> 0]

Addr(frag, ofs) == [frag |-> frag, ofs |-> ofs]

InitPass1 ==
  /\ frags = NoFragments /\ phase = "pass1" /\ fault = "none"
  /\ seg_id = "STRUCTSEG" /\ proc_id = 0
  /\ addrs = <<>> /\ procs = <<>> /\ reftbl = <<>> /\ line = 0
  /\ syms = [n \in Names |-> Absent]
  /\ emitted = [s \in Segments |-> 0]
  /\ meant = <<>> /\ given = {} /\ lost = {} /\ retagged = {}

------------------------------------------------------------------------------
(* _ensure_appending: the fragment the next byte or address goes to.        *)

\* An open fragment of another segment that holds no byte yet is reused: its
\* segment is overwritten ("modify segment if nothing in a fragment").
ReusesWithBytes(F, s) == GetAppending(F) # 0
Reuses(F, s) == /\ GetAppending(F) # 0
                /\ \/ F.pieces[GetAppending(F)].seg = s
                   \/ F.pieces[GetAppending(F)].objLen = 0

Ensure(F, s) == IF Reuses(F, s) THEN SetSegId(F, Len(F.pieces), s)
                ELSE BeginAppending(F, s)

\* flow_bug(NULL == my()->pieces[my()->pieces_len -1]) in _begin_appending,
\* which a fragment still open under INVALID_FRAGMENT_ID fails.
CanEnsure == frags.open => GetAppending(frags) # 0

Ensured(s)    == Ensure(frags, s)
EnsuredId(s)  == Len(Ensured(s).pieces)
EnsuredLen(s) == Ensured(s).pieces[EnsuredId(s)].objLen

\* _push_obj: the length of a fragment must fit in its bit field.
FitsOneMore(s, n) == EnsuredLen(s) + n <= ObjLenMax + 1
Fits(s, n) == EnsuredLen(s) + n <= ObjLenMax

\* History of Ensure: a fragment that changes segment under an address.
NoteRetag(s) ==
  retagged' = retagged \cup
    { id \in {GetAppending(frags)} \ {0} :
        /\ Ensured(s).pieces[id].seg # frags.pieces[id].seg
        /\ \E a \in DOMAIN addrs : addrs[a].frag = id }

\* The first part of every statement.
Reads(m) == /\ phase = "pass1" /\ fault = "none"
            /\ line < Len(Source) /\ m \in Source[line + 1]

NextLine(m) == Reads(m) /\ line' = line + 1 /\ UNCHANGED phase

\* A statement that writes to, or takes an address in, segment s.
Appending(m, s) == NextLine(m) /\ CanEnsure /\ NoteRetag(s) /\ UNCHANGED fault

Emit(n) == emitted' = [emitted EXCEPT ![seg_id] = @ + n]

\* addrs_append, with the history of the item it points at.
NewAddr == Len(addrs) + 1
TakeAddr(frag, ofs, s, pos) ==
  /\ addrs' = Append(addrs, Addr(frag, ofs))
  /\ meant' = Append(meant, [seg |-> s, pos |-> pos])
TakeAddrBeforeEnsure == TakeAddr(Len(frags.pieces), 0, seg_id, emitted[seg_id])
TakeAddrAtStart == TakeAddr(EnsuredId(seg_id), 0, seg_id, emitted[seg_id])
TakeAddrHere == TakeAddr(EnsuredId(seg_id), EnsuredLen(seg_id), seg_id, emitted[seg_id])

\* The offset a reference notes: frag->obj_len, read after n bytes were pushed.
OfsBeforePush(n) == EnsuredLen(seg_id)
OfsAfterPush(n)  == EnsuredLen(seg_id) + n

\* sym_set_value
SetValue(n, v) == syms' = [syms EXCEPT ![n] = v] /\ given' = given \cup {n}

------------------------------------------------------------------------------
(* Instructions.                                                            *)

\* A run of instructions of n bytes in total: the code pushes them one by
\* one, which appends to the same fragment.
Code(n) ==
  /\ Appending("code", seg_id)
  /\ Fits(seg_id, n)
  /\ frags' = PushCode(Ensured(seg_id), EnsuredId(seg_id), n)
  /\ Emit(n)
  /\ UNCHANGED <<seg_id, proc_id, addrs, procs, syms, reftbl, meant, given, lost>>

\* A jump closes the fragment it ends.
Jump(m, l, type, j8, j32) ==
  /\ Appending(m, seg_id)
  /\ frags' = EndAppending(PushJmp(Ensured(seg_id), EnsuredId(seg_id), l, type, j8, j32))
  /\ Emit(1)
  /\ UNCHANGED <<seg_id, proc_id, addrs, procs, syms, reftbl, meant, given, lost>>

Jcc(l)  == Jump("jcc", l, "REL8or32", 2, 6)
Jmp(l)  == Jump("jmp", l, "REL8or32", 2, 5)
Call(l) == Jump("call", l, "REL32", 2, 5)

\* lea r64, l[rip]: seven bytes, the last four to be patched.
LeaLen == 7
Lea(l) ==
  /\ Appending("lea", seg_id)
  /\ syms[l].type # "NUM"
  /\ Fits(seg_id, LeaLen)
  /\ frags' = PushCode(Ensured(seg_id), EnsuredId(seg_id), LeaLen)
  /\ Emit(LeaLen)
  /\ TakeAddr(EnsuredId(seg_id), OfsAfterPush(LeaLen), seg_id, emitted[seg_id] + LeaLen)
  /\ reftbl' = Append(reftbl, [type |-> "REL32", addr |-> NewAddr, to |-> l])
  /\ UNCHANGED <<seg_id, proc_id, procs, syms, given, lost>>

------------------------------------------------------------------------------
(* Labels, sections and symbols.                                            *)

LabelInStruct(l) ==
  /\ NextLine("label") /\ seg_id = "STRUCTSEG"
  /\ SetValue(l, Num)
  /\ UNCHANGED <<frags, fault, seg_id, proc_id, addrs, procs, reftbl, emitted, meant, lost, retagged>>

Label(l) ==
  /\ Appending("label", seg_id) /\ seg_id # "STRUCTSEG"
  /\ frags' = Ensured(seg_id)
  /\ TakeAddrHere
  /\ SetValue(l, Offset(NewAddr))
  /\ UNCHANGED <<seg_id, proc_id, procs, reftbl, emitted, lost>>

\* .text and .section .rodata: the first one of each also names the section.
OpenSection(m, name, s) ==
  /\ proc_id = 0
  /\ seg_id' = s
  /\ \/ /\ syms[name].type # "ABSENT"
        /\ NextLine(m)
        /\ UNCHANGED <<frags, fault, addrs, meant, syms, given, retagged>>
     \/ /\ syms[name].type = "ABSENT"
        /\ Appending(m, s)
        /\ frags' = Ensured(s)
        /\ TakeAddr(EnsuredId(s), 0, s, emitted[s])
        /\ SetValue(name, Offset(NewAddr))
  /\ UNCHANGED <<proc_id, procs, reftbl, emitted, lost>>

Text   == OpenSection("text", ".text", "CSEG")
Rodata == OpenSection("rodata", ".rodata", "DSEG")

Struct ==
  /\ NextLine("struct")
  /\ seg_id' = "STRUCTSEG"
  /\ UNCHANGED <<frags, fault, proc_id, addrs, procs, syms, reftbl, histVars>>

Equ(l) ==
  /\ NextLine("equ")
  /\ SetValue(l, Num)
  /\ UNCHANGED <<frags, fault, seg_id, proc_id, addrs, procs, reftbl, emitted, meant, lost, retagged>>

\* .globl and .type enter a new name with the value zero, a number.
Declare(l) ==
  /\ NextLine("declare")
  /\ syms' = IF syms[l].type = "ABSENT" THEN [syms EXCEPT ![l] = Num] ELSE syms
  /\ UNCHANGED <<frags, fault, seg_id, proc_id, addrs, procs, reftbl, histVars>>

------------------------------------------------------------------------------
(* Procedures, sizes and data.                                              *)

StartProc ==
  /\ Appending("startproc", seg_id) /\ proc_id = 0
  /\ frags' = Ensured(seg_id)
  /\ TakeAddrHere
  /\ procs' = Append(procs, [start |-> NewAddr, end |-> 0, cfi |-> <<>>])
  /\ proc_id' = Len(procs) + 1
  /\ UNCHANGED <<seg_id, syms, reftbl, emitted, given, lost>>

EndProcStillOpen ==
  /\ Appending("endproc", seg_id) /\ proc_id > 0
  /\ frags' = Ensured(seg_id)
  /\ TakeAddrHere
  /\ procs' = [procs EXCEPT ![proc_id].end = NewAddr]
  /\ UNCHANGED <<seg_id, proc_id, syms, reftbl, emitted, given, lost>>

EndProc ==
  /\ Appending("endproc", seg_id) /\ proc_id > 0
  /\ frags' = Ensured(seg_id)
  /\ TakeAddrHere
  /\ procs' = [procs EXCEPT ![proc_id].end = NewAddr]
  /\ proc_id' = 0
  /\ UNCHANGED <<seg_id, syms, reftbl, emitted, given, lost>>

\* .cfi_offset, .cfi_restore, .cfi_def_cfa_offset, .cfi_def_cfa_register
Cfi ==
  /\ Appending("cfi", seg_id) /\ proc_id > 0
  /\ frags' = Ensured(seg_id)
  /\ TakeAddrHere
  /\ procs' = [procs EXCEPT ![proc_id].cfi = Append(@, NewAddr)]
  /\ UNCHANGED <<seg_id, proc_id, syms, reftbl, emitted, given, lost>>

\* .size l,.-l
Size(l) ==
  /\ Appending("size", seg_id) /\ syms[l].type # "ABSENT"
  /\ frags' = Ensured(seg_id)
  /\ TakeAddrHere
  /\ reftbl' = Append(reftbl, [type |-> "FN_LEN", addr |-> NewAddr, to |-> l])
  /\ UNCHANGED <<seg_id, proc_id, procs, syms, emitted, given, lost>>

\* .quad l: a number is written at once, anything else is put off.
QuadLen == 8
Quad(l) ==
  /\ Appending("quad", seg_id) /\ seg_id # "STRUCTSEG"
  /\ Fits(seg_id, QuadLen)
  /\ frags' = PushCode(Ensured(seg_id), EnsuredId(seg_id), QuadLen)
  /\ Emit(QuadLen)
  /\ \/ /\ syms[l].type = "NUM"
        /\ lost' = IF l \in given THEN lost ELSE lost \cup {l}
        /\ UNCHANGED <<addrs, meant, reftbl>>
     \/ /\ syms[l].type # "NUM"
        /\ TakeAddr(EnsuredId(seg_id), OfsAfterPush(QuadLen), seg_id, emitted[seg_id] + QuadLen)
        /\ reftbl' = Append(reftbl, [type |-> "REL64", addr |-> NewAddr, to |-> l])
        /\ UNCHANGED lost
  /\ UNCHANGED <<seg_id, proc_id, procs, syms, given>>

------------------------------------------------------------------------------
(* The assembler's own assertions.                                          *)

Fail(why) ==
  /\ fault' = why
  /\ UNCHANGED <<frags, phase, pass1Vars, histVars>>

\* The statements that call _ensure_appending here and now.
NeedsFragment ==
  \/ \E m \in {"code", "jmp", "jcc", "call", "startproc", "endproc", "size"} : Reads(m)
  \/ \E m \in {"label", "quad"} : Reads(m) /\ seg_id # "STRUCTSEG"
  \/ Reads("cfi") /\ proc_id > 0
  \/ Reads("lea") /\ \E l \in Labels : syms[l].type # "NUM"
  \/ Reads("text")   /\ proc_id = 0 /\ syms[".text"].type = "ABSENT"
  \/ Reads("rodata") /\ proc_id = 0 /\ syms[".rodata"].type = "ABSENT"

\* Such a statement, when the open fragment cannot be told from none.
FailBegin ==
  /\ NeedsFragment
  /\ ~CanEnsure
  /\ Fail("_begin_appending")

\* _push_obj: "too large fragments"
FailTooLarge ==
  /\ CanEnsure
  /\ \/ \E n \in CodeLens : Reads("code") /\ ~Fits(seg_id, n)
     \/ Reads("lea") /\ ~Fits(seg_id, LeaLen)
     \/ Reads("quad") /\ seg_id # "STRUCTSEG" /\ ~Fits(seg_id, QuadLen)
  /\ Fail("_push_obj")

\* flow_bug(0 < sym_id): the size of a name not seen yet.
FailSize ==
  /\ Reads("size") /\ CanEnsure
  /\ \E l \in Labels : syms[l].type = "ABSENT"
  /\ Fail("_size")

Statement ==
  \/ \E l \in Labels : \/ Jcc(l) \/ Jmp(l) \/ Call(l) \/ Lea(l) \/ Quad(l)
                       \/ LabelInStruct(l) \/ Label(l) \/ Equ(l) \/ Declare(l) \/ Size(l)
  \/ \E n \in CodeLens : Code(n)
  \/ Text \/ Rodata \/ Struct
  \/ StartProc \/ EndProc \/ Cfi
  \/ FailBegin \/ FailTooLarge \/ FailSize

NextPass1 == Statement
SpecPass1 == InitPass1 /\ [][NextPass1]_vars

------------------------------------------------------------------------------
(* Type invariant.                                                          *)

AddrIds == DOMAIN addrs

FragsOK(F) ==
  /\ F \in [pieces : Seq(Fragment), open : BOOLEAN]
  /\ F.open => Len(F.pieces) > 0
FragsTypeOK == FragsOK(frags)

AddrsTypeOK ==
  /\ addrs \in Seq([frag : Nat, ofs : Nat])
  /\ meant \in Seq([seg : Segments, pos : Nat])
  /\ Len(meant) = Len(addrs)

ProcsTypeOK ==
  /\ procs \in Seq([start : Nat, end : Nat, cfi : Seq(Nat)])
  /\ proc_id \in 0 .. Len(procs)

OtherTypeOK ==
  /\ seg_id \in Segments
  /\ syms \in [Names -> [type : {"NUM", "OFFSET", "ABSENT"}, addr : Nat]]
  /\ reftbl \in Seq([type : RelTypes, addr : Nat, to : Labels])
  /\ line \in Nat
  /\ emitted \in [Segments -> Nat]
  /\ given \subseteq Names /\ lost \subseteq Names /\ retagged \subseteq Nat

\* Every variable has its type.
TypeOK == FragsTypeOK /\ AddrsTypeOK /\ ProcsTypeOK /\ OtherTypeOK

------------------------------------------------------------------------------
(* Safety.                                                                  *)

Closed(F, id) == id < Len(F.pieces) \/ ~F.open

\* A fragment is closed only by a jump or by bytes that another segment
\* follows: no closed fragment is empty, and no open one ends in a jump, so
\* the flow_bug of fragments_push_code (no code behind a jump) cannot fire.
ShapeOf(F) ==
  \A id \in DOMAIN F.pieces :
    IF Closed(F, id) THEN F.pieces[id].objLen > 0 \/ HasJmp(F.pieces[id])
                     ELSE ~HasJmp(F.pieces[id])
FragmentShape == ShapeOf(frags)

\* Every address pass 1 hands out points into a fragment that exists, at most
\* at its end (in front of the jump): what addrs_resolve_all relies on.
AddrsInside ==
  \A a \in AddrIds :
    /\ addrs[a].frag \in DOMAIN frags.pieces
    /\ addrs[a].ofs <= frags.pieces[addrs[a].frag].objLen

\* Items of the address's segment that are laid out in front of it.
ItemLen(f) == f.objLen + (IF HasJmp(f) THEN 1 ELSE 0)
ItemLens == [id \in DOMAIN frags.pieces |-> ItemLen(frags.pieces[id])]
ItemsBeforeFrag(id) ==
  SumFunctionOnSet(ItemLens, IdsOf(frags, frags.pieces[id].seg) \cap 1 .. (id - 1))
ItemsBefore(a) == ItemsBeforeFrag(addrs[a].frag) + addrs[a].ofs

\* An address keeps pointing at the very item of the very segment it was
\* taken at, however the source goes on, as long as its fragment was not
\* moved to another segment while empty.
AddressesStay ==
  \A a \in AddrIds :
    addrs[a].frag \notin retagged =>
      /\ frags.pieces[addrs[a].frag].seg = meant[a].seg
      /\ ItemsBefore(a) = meant[a].pos

\* The place a reference patches (the 4 or 8 bytes in front of its address)
\* lies in one fragment, after pass 1 has written it.
RefSitesInFragment ==
  \A r \in DOMAIN reftbl :
    LET a == addrs[reftbl[r].addr] IN
      /\ reftbl[r].type = "REL64" => a.ofs >= 8
      /\ reftbl[r].type = "REL32" => a.ofs >= 4

Before(a, b) == \/ addrs[a].frag < addrs[b].frag
                \/ addrs[a].frag = addrs[b].frag /\ addrs[a].ofs <= addrs[b].ofs

\* A procedure starts before its CFI records, in order, and before its end;
\* every procedure but the one being defined has an end; nothing a later
\* procedure does reaches back.  (_resolve_cfi writes unsigned advances.)
ProcsOrdered ==
  \A p \in DOMAIN procs :
    /\ procs[p].end = 0 <=> p = proc_id
    /\ procs[p].end # 0 => Before(procs[p].start, procs[p].end)
    /\ p > 1 => Before(procs[p-1].end, procs[p].start)
    /\ \A i \in DOMAIN procs[p].cfi :
         /\ Before(procs[p].start, procs[p].cfi[i])
         /\ i > 1 => Before(procs[p].cfi[i-1], procs[p].cfi[i])
         /\ procs[p].end # 0 => Before(procs[p].cfi[i], procs[p].end)

\* A closed fragment never changes again; an open one only grows, and keeps
\* its segment once it holds bytes.
Settles(F, G) ==
  \A id \in DOMAIN F.pieces :
    /\ id \in DOMAIN G.pieces
    /\ G.pieces[id].objLen >= F.pieces[id].objLen
    /\ Closed(F, id) => G.pieces[id] = F.pieces[id]
    /\ F.pieces[id].objLen > 0 => G.pieces[id].seg = F.pieces[id].seg
FragmentsSettle == [][Settles(frags, frags')]_vars

\* input_bug(st->seg_id == en->seg_id) of _resolve_fn_len, for a source that
\* changes section only between procedures, as .text and .section demand.
ProcsInOneSegment ==
  \A p \in DOMAIN procs :
    procs[p].end # 0 =>
      frags.pieces[addrs[procs[p].start].frag].seg = frags.pieces[addrs[procs[p].end].frag].seg

\* No .quad is written with the zero of a name that has no value yet.
QuadsHaveValues == lost = {}
==============================================================================
