------------------------------ MODULE Fragments ------------------------------
(***************************************************************************)
(* asm/fragments.c: the list of code fragments that pass 1 appends to and  *)
(* pass 2 lays out.  A fragment is a run of fixed bytes in one segment,    *)
(* optionally ended by one jump whose length is decided later.             *)
(*                                                                         *)
(* The C array pieces[] always ends with the slot being appended to, which *)
(* is NULL while no fragment is open.  Here frags.pieces holds the slots   *)
(* that are not NULL and frags.open says whether the last of them is still *)
(* open.  Identifiers are positions in pieces, so they are one larger than *)
(* the FRAGMENT_ID of the code, whose origin is 0.                         *)
(***************************************************************************)
EXTENDS Integers, Sequences

CONSTANTS
  Labels,     \* the label names a source may use
  None,       \* stands for "no label"
  ObjLenMax,  \* (1 << FRAGMENT_OBJLEN_BITS) -1
  InvalidId,  \* INVALID_FRAGMENT_ID as a position: 1024 in the code
  Unset       \* SEGMENT_POS_UNSET

ASSUME NoneAssumption == None \notin Labels
ASSUME LimitsAssumption == ObjLenMax \in Nat /\ InvalidId \in Nat \ {0} /\ Unset \in Nat

VARIABLES
  frags,   \* my()->pieces, my()->pieces_len
  phase,   \* the step of the assembly that runs now
  fault    \* the internal assertion that ended the process, or "none"

Segments == {"STRUCTSEG", "CSEG", "DSEG"}
RelTypes == {"REL32", "REL8", "REL8or32", "REL64", "FN_LEN"}
JmpLens  == 0 .. 7   \* u3

Fragment == [seg : Segments, objLen : 0 .. ObjLenMax, jmp8 : JmpLens, jmp32 : JmpLens,
             ofsType : RelTypes, to : Labels \cup {None}, segAddr : Nat]

\* An empty fragment, with the segment _ensure_appending gives it at once.
NewFragment(s) == [seg |-> s, objLen |-> 0, jmp8 |-> 0, jmp32 |-> 0,
                   ofsType |-> "REL32", to |-> None, segAddr |-> Unset]

HasJmp(f) == f.jmp8 # 0 /\ f.jmp32 # 0

\* What fragments_write_rel8_capable_jmp emits: everything that is not REL8,
\* an undecided REL8or32 included, takes the long form.
JmpLen(f) == IF f.ofsType = "REL8" THEN f.jmp8 ELSE f.jmp32

NoFragments == [pieces |-> <<>>, open |-> FALSE]

(* Definitions whose name says what is wrong with them, here and in the     *)
(* other modules, are mutants: plausible mistakes that a property catches.  *)

\* 0 stands for INVALID_FRAGMENT_ID.  An open fragment whose identifier is
\* that very number cannot be told from "nothing open".
GetAppending(F) == IF F.open /\ Len(F.pieces) # InvalidId THEN Len(F.pieces) ELSE 0

BeginAppending(F, s) == [pieces |-> Append(F.pieces, NewFragment(s)), open |-> TRUE]
ForgetsToClose(F) == F
EndAppending(F) == [pieces |-> F.pieces, open |-> FALSE]
PushEnd(F) == IF F.open THEN EndAppending(F) ELSE F

\* F with fragment id changed to f.
With(F, id, f) == [pieces |-> [F.pieces EXCEPT ![id] = f], open |-> F.open]

PushCode(F, id, n)  == With(F, id, [F.pieces[id] EXCEPT !.objLen = @ + n])
PushJmp(F, id, l, type, j8, j32) ==
  With(F, id, [F.pieces[id] EXCEPT !.to = l, !.ofsType = type, !.jmp8 = j8, !.jmp32 = j32])

SetSegId(F, id, s)   == With(F, id, [F.pieces[id] EXCEPT !.seg = s])
SetOfsType(F, id, t) == With(F, id, [F.pieces[id] EXCEPT !.ofsType = t])

\* fragments_enum_first/next: the fragments of one segment, in order.
IdsOf(F, s) == { id \in DOMAIN F.pieces : F.pieces[id].seg = s }
==============================================================================
