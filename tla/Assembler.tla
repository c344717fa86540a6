------------------------------ MODULE Assembler ------------------------------
(***************************************************************************)
(* The whole of asm/x86_64.intel.c: pass 1 (Pass1), then as_pass2: the     *)
(* layout of each segment (Relax), the addresses, the lengths of functions *)
(* and procedures, .eh_frame, and the references and relocations.          *)
(*                                                                         *)
(* Pass 2 runs to its end, to one of its own assertions (fault), or to a   *)
(* message about the source (the model has no step).                       *)
(***************************************************************************)
EXTENDS Pass1, Relax

VARIABLES
  codesLen,  \* pass2()->secs[..].len of each segment
  resolved,  \* the resolved part of addrs: [seg, ofs], empty until then
  sizes,     \* fn_len of each symbol
  procLens,  \* codes_len of each procedure
  fdes,      \* .eh_frame: [sym, ofs, len, advances] of each procedure
  written    \* what each reference became: a patch or a relocation

outVars == <<codesLen, resolved, sizes, procLens, fdes, written>>
allOf   == <<vars, relaxVars, outVars>>

Init ==
  /\ InitPass1
  /\ seg = "CSEG" /\ target = [l \in Labels |-> NoTarget]
  /\ shrink = <<>> /\ i_from = 1 /\ before = 0 /\ after = 0 /\ capable = {}
  /\ codesLen = [s \in Segments |-> 0] /\ resolved = <<>>
  /\ sizes = [l \in Labels |-> 0] /\ procLens = <<>> /\ fdes = <<>> /\ written = <<>>

------------------------------------------------------------------------------
ReadSource == Statement /\ UNCHANGED <<relaxVars, outVars>>

\* The source has ended: as_pass2.
HasValue(n) == syms[n].type = "OFFSET"
EndOfSource ==
  /\ Running("pass1") /\ line = Len(Source)
  /\ frags' = PushEnd(frags)
  /\ target' = [l \in Labels |-> IF HasValue(l) THEN addrs[syms[l].addr] ELSE NoTarget]
  /\ Goto("startup")
  /\ UNCHANGED <<fault, pass1Vars, histVars, seg, optVars, outVars>>

Optimize == (Startup \/ OptimizeStep) /\ UNCHANGED <<pass1Vars, histVars, outVars>>

\* Where the displacement of a jump ends in its fragment.
EndOfShortJump(f) == f.objLen + f.jmp8
EndOfJump(f) == f.objLen + JmpLen(f)

\* _jmp8or32_to_reftbl notes where each jump ends, _seg_commit copies the code.
Jumps == InOrder({ i \in 1 .. Cnt : IsJmp(i) })
CloseSegment ==
  /\ ToReftbl
  /\ LET end(i) == Addr(shrink[i].frag, EndOfJump(Frag(i)))
         item(i) == [seg |-> seg, pos |-> ItemsBeforeFrag(shrink[i].frag) + ItemLen(Frag(i))]
         ref(k) == [type |-> IF Frag(Jumps[k]).ofsType = "REL8" THEN "REL8" ELSE "REL32",
                    addr |-> Len(addrs) + k, to |-> Frag(Jumps[k]).to]
     IN /\ addrs'  = addrs  \o [k \in DOMAIN Jumps |-> end(Jumps[k])]
        /\ meant'  = meant  \o [k \in DOMAIN Jumps |-> item(Jumps[k])]
        /\ reftbl' = reftbl \o [k \in DOMAIN Jumps |-> ref(k)]
  /\ codesLen' = [codesLen EXCEPT ![seg] = Distance(FinalLens, 1, Cnt + 1)]
  /\ UNCHANGED <<seg_id, proc_id, procs, syms, line, emitted, given, lost, retagged>>
  /\ UNCHANGED <<resolved, sizes, procLens, fdes, written>>

Stop(why) == Bug(why) /\ UNCHANGED <<pass1Vars, histVars, outVars>>
Proceed(p) == Goto(p) /\ UNCHANGED <<frags, fault, pass1Vars, histVars, relaxVars>>

------------------------------------------------------------------------------
\* addrs_resolve_all: fragments of STRUCTSEG were never given an address.
SegAddr(a) == frags.pieces[addrs[a].frag].segAddr
ResolveAddrs ==
  /\ Running("addresses")
  /\ IF AddrIds = {} \/ \E a \in AddrIds : SegAddr(a) = Unset
     THEN Stop("addrs_resolve_all")
     ELSE /\ resolved' = [a \in AddrIds |->
                            [seg |-> frags.pieces[addrs[a].frag].seg,
                             ofs |-> (SegAddr(a) + addrs[a].ofs) % SegMod]]
          /\ Proceed("lengths")
          /\ UNCHANGED <<codesLen, sizes, procLens, fdes, written>>

At(l) == resolved[syms[l].addr]

\* _resolve_fn_len.  A .size that spans segments, and a procedure that does,
\* is an error of the source.
SizeRefs == { r \in DOMAIN reftbl : reftbl[r].type = "FN_LEN" }
BadSizes == { r \in SizeRefs : IF HasValue(reftbl[r].to)
                               THEN At(reftbl[r].to).seg # resolved[reftbl[r].addr].seg
                               ELSE TRUE }
Ended(p) == procs[p].end # 0
Spans(p) == resolved[procs[p].start].seg # resolved[procs[p].end].seg
BadProcs == { p \in DOMAIN procs : IF Ended(p) THEN Spans(p) ELSE TRUE }

ResolveFnLen ==
  /\ Running("lengths")
  /\ BadSizes = {} /\ BadProcs = {} /\ procs # <<>>
  /\ sizes' = [l \in Labels |->
                 LET rs == { r \in SizeRefs : reftbl[r].to = l }
                 IN IF rs = {} THEN 0 ELSE resolved[reftbl[Max(rs)].addr].ofs - At(l).ofs]
  /\ procLens' = [p \in DOMAIN procs |-> resolved[procs[p].end].ofs - resolved[procs[p].start].ofs]
  /\ Proceed("cfi")
  /\ UNCHANGED <<codesLen, resolved, fdes, written>>

FnLenFails ==
  /\ Running("lengths")
  /\ IF BadSizes # {} THEN ~HasValue(reftbl[Min(BadSizes)].to)
     ELSE IF procs = <<>> THEN TRUE
     ELSE BadProcs # {} /\ ~Ended(Min(BadProcs))
  /\ Stop("_resolve_fn_len")

------------------------------------------------------------------------------
\* sym_id_from: the section symbol that stands for a segment.
SectionSyms(s) == { n \in SectionNames : HasValue(n) /\ At(n).seg = s }
SymIdFrom(s) == CHOOSE n \in SectionSyms(s) : TRUE

\* _resolve_cfi: one record per procedure, with the advance to each of its
\* CFI instructions; an advance that needs more than one byte is not
\* implemented.
CfiOfs(p) == [i \in DOMAIN procs[p].cfi |-> resolved[procs[p].cfi[i]].ofs]
AdvanceFromStart(p, i) == CfiOfs(p)[i] - resolved[procs[p].start].ofs
Advance(p, i) ==
  LET prev == IF i = 1 THEN resolved[procs[p].start].ofs ELSE CfiOfs(p)[i-1]
  IN IF prev < CfiOfs(p)[i] THEN CfiOfs(p)[i] - prev ELSE 0
CfiStrays == \E p \in DOMAIN procs : \E i \in DOMAIN procs[p].cfi :
               resolved[procs[p].cfi[i]].seg # resolved[procs[p].start].seg
AdvancesFit == \A p \in DOMAIN procs : \A i \in DOMAIN procs[p].cfi : Advance(p, i) < 256

NoSection == \E s \in {"CSEG", "DSEG"} : SectionSyms(s) = {}

ResolveCfi ==
  /\ Running("cfi") /\ ~NoSection /\ ~CfiStrays /\ AdvancesFit
  /\ fdes' = [p \in DOMAIN procs |->
                LET start == resolved[procs[p].start]
                IN [sym |-> SymIdFrom(start.seg), ofs |-> start.ofs, len |-> procLens[p],
                    advances |-> [i \in DOMAIN procs[p].cfi |-> Advance(p, i)]]]
  /\ Proceed("references")
  /\ UNCHANGED <<codesLen, resolved, sizes, procLens, written>>

CfiFails ==
  /\ Running("cfi") /\ (NoSection \/ CfiStrays)
  /\ Stop(IF NoSection THEN "sym_id_from" ELSE "_resolve_cfi")

------------------------------------------------------------------------------
\* _resolve_reftbl: a reference inside a segment is patched, one to another
\* segment becomes a relocation against the symbol of that segment.
PatchRefs == DOMAIN reftbl \ SizeRefs
From(r) == resolved[reftbl[r].addr]
To(r)   == At(reftbl[r].to)
Width(r) == CASE reftbl[r].type = "REL8"  -> 1
              [] reftbl[r].type = "REL32" -> 4
              [] reftbl[r].type = "REL64" -> 8

BadRef(r) ==
  LET type == reftbl[r].type
      rel  == To(r).ofs - From(r).ofs
  IN \/ ~HasValue(reftbl[r].to)
     \/ HasValue(reftbl[r].to) /\
        IF To(r).seg # From(r).seg THEN type = "REL8"
        ELSE \/ From(r).ofs > codesLen[From(r).seg]
             \/ type = "REL64"
             \/ type = "REL8" /\ rel \notin -128 .. 127

\* The addend: a PC-relative one counts from the place of the relocation.
AddendFromEnd(r) == To(r).ofs
Addend(r) == IF reftbl[r].type = "REL64" THEN To(r).ofs ELSE To(r).ofs - 4

Write(r) ==
  IF To(r).seg = From(r).seg
  THEN [kind |-> "patch", seg |-> From(r).seg, at |-> From(r).ofs - Width(r),
        sym |-> "none", value |-> To(r).ofs - From(r).ofs]
  ELSE [kind |-> IF reftbl[r].type = "REL64" THEN "R_X86_64_64" ELSE "R_X86_64_PC32",
        seg |-> From(r).seg, at |-> From(r).ofs - Width(r), sym |-> SymIdFrom(To(r).seg),
        value |-> Addend(r)]

ResolveReftbl ==
  /\ Running("references")
  /\ IF \E r \in PatchRefs : BadRef(r)
     THEN Stop("_resolve_reftbl")
     ELSE /\ written' = [r \in PatchRefs |-> Write(r)]
          /\ Proceed("results")
          /\ UNCHANGED <<codesLen, resolved, sizes, procLens, fdes>>

\* as_pass2_result: as-.py asks for each section in turn, and one that pass 2
\* wrote nothing to fails an assertion.  The layout gives .text and .rodata
\* their bytes, and .eh_frame has its header: what may be missing is a
\* section of relocations.
HasRelocations(s) == \E r \in PatchRefs : written[r].kind # "patch" /\ written[r].seg = s
Results ==
  /\ Running("results")
  /\ IF \A s \in {"CSEG", "DSEG"} : HasRelocations(s)
     THEN Proceed("done") /\ UNCHANGED outVars
     ELSE Stop("as_pass2_result")

Pass2 == \/ EndOfSource \/ Optimize \/ CloseSegment
         \/ ResolveAddrs \/ ResolveFnLen \/ FnLenFails \/ ResolveCfi \/ CfiFails \/ ResolveReftbl \/ Results

Next == ReadSource \/ Pass2
Spec == Init /\ [][Next]_allOf /\ WF_allOf(Pass2)

------------------------------------------------------------------------------
(* What the object file promises.  The history says at which item of which  *)
(* segment an address was taken; ByteAt is where the layout puts that item. *)

ByteAt(m) ==
  LET bytes(id) == LET f == frags.pieces[id]
                       k == m.pos - ItemsBeforeFrag(id)
                   IN IF k <= 0 THEN 0 ELSE IF k > f.objLen THEN FinalLen(f) ELSE k
  IN SumFunctionOnSet([id \in DOMAIN frags.pieces |-> bytes(id)], IdsOf(frags, m.seg))

Later(p) == phase \in p

\* Every address resolves to the byte it was taken at, unless pass 1 moved its
\* fragment to another segment.
AddressesResolve ==
  Later({"lengths", "cfi", "references", "results"}) /\ retagged = {} =>
    \A a \in AddrIds : resolved[a] = [seg |-> meant[a].seg, ofs |-> ByteAt(meant[a])]

\* No segment is longer than SEGMENT_SIZE_BITS can tell apart: seg_addr and
\* every place in it keep their value.
SegmentsFit == \A s \in {"CSEG", "DSEG"} : codesLen[s] < SegMod

\* A reference ends up at its label: the patched displacement is counted from
\* the end of the patched bytes, a relocation names the section of the label
\* and adds what the linker's formula (S + A, or S + A - P) needs.
ReferencesLand ==
  phase = "results" /\ retagged = {} =>
    \A r \in PatchRefs :
      LET w == written[r]
          here == meant[reftbl[r].addr]
          there == meant[syms[reftbl[r].to].addr]
      IN /\ w.seg = here.seg /\ w.at + Width(r) = ByteAt(here)
         /\ w.kind = "patch" => there.seg = here.seg /\ ByteAt(here) + w.value = ByteAt(there)
         /\ w.kind = "R_X86_64_PC32" =>
              /\ w.sym = (IF there.seg = "CSEG" THEN ".text" ELSE ".rodata")
              /\ w.value - w.at = ByteAt(there) - ByteAt(here)
         /\ w.kind = "R_X86_64_64" =>
              /\ w.sym = (IF there.seg = "CSEG" THEN ".text" ELSE ".rodata")
              /\ w.value = ByteAt(there)

\* No two references patch the same bytes, and none reaches out of its section.
PatchesApart ==
  phase = "results" =>
    \A r \in PatchRefs :
      /\ written[r].at >= 0 /\ written[r].at + Width(r) <= codesLen[written[r].seg]
      /\ \A q \in PatchRefs \ {r} :
           written[q].seg = written[r].seg =>
             \/ written[q].at + Width(q) <= written[r].at
             \/ written[r].at + Width(r) <= written[q].at

\* The unwind record of a procedure covers it, its CFI instructions take
\* effect at the bytes they were written between, and .size measures from the
\* label to where it stands.
Sum(s, n) == SumFunctionOnSet(s, 1 .. n)
UnwindMatches ==
  phase = "results" /\ retagged = {} =>
    /\ \A p \in DOMAIN procs :
         LET start == meant[procs[p].start]
         IN /\ fdes[p].sym = (IF start.seg = "CSEG" THEN ".text" ELSE ".rodata")
            /\ fdes[p].ofs = ByteAt(start)
            /\ fdes[p].ofs + fdes[p].len = ByteAt(meant[procs[p].end])
            /\ \A i \in DOMAIN procs[p].cfi :
                 ByteAt(start) + Sum(fdes[p].advances, i) = ByteAt(meant[procs[p].cfi[i]])
    /\ \A r \in SizeRefs :
         (\A q \in SizeRefs : reftbl[q].to = reftbl[r].to => q <= r) =>
           ByteAt(meant[syms[reftbl[r].to].addr]) + sizes[reftbl[r].to]
             = ByteAt(meant[reftbl[r].addr])

\* The sources that nothing keeps pass 2 from assembling.
JumpTo(id) == frags.pieces[id].to
JumpsAway(id) == target[JumpTo(id)].frag \notin IdsOf(frags, frags.pieces[id].seg)
SegOf(r) == meant[reftbl[r].addr].seg
IsAway(r) == meant[syms[reftbl[r].to].addr].seg # SegOf(r)
Clean ==
  /\ retagged = {} /\ IdsOf(frags, "STRUCTSEG") = {}
  /\ \A n \in SectionNames : HasValue(n)
  /\ \A i \in IdsOf(frags, "CSEG"), j \in IdsOf(frags, "DSEG") : i < j
  /\ \A j \in IdsOf(frags, "DSEG") : ~HasJmp(frags.pieces[j])
  /\ \A i \in DOMAIN frags.pieces : HasJmp(frags.pieces[i]) => HasValue(JumpTo(i)) /\ ~JumpsAway(i)
  /\ \A r \in DOMAIN reftbl :
       /\ HasValue(reftbl[r].to)
       /\ reftbl[r].type = "FN_LEN" => ~IsAway(r)
       /\ reftbl[r].type = "REL64"  => IsAway(r)
  /\ \A s \in {"CSEG", "DSEG"} : \E r \in DOMAIN reftbl : SegOf(r) = s /\ IsAway(r)
  /\ procs # <<>> /\ \A p \in DOMAIN procs : Ended(p)

\* Such a source is assembled to the end: no assertion of pass 2, and none of
\* as_pass2_result, stops it.
CleanAssembles == (phase = "startup" /\ seg = "CSEG" /\ Clean) ~> (phase = "done")
=============================================================================
