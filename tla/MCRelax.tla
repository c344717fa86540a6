------------------------------- MODULE MCRelax -------------------------------
(* Four fragments that pass 1 leaves behind, three of them ending in a      *)
(* jump, with lengths on both sides of what a one-byte displacement reaches.*)
EXTENDS Relax

\* The lengths of a fragment and the places of labels inside it.
Lens == <<{3, 120}, {0, 3, 120}, {0, 120}>>
Places(n) == { k \in {0, 2, n} : k <= n }

Piece(s, n, type, l) ==
  [NewFragment(s) EXCEPT !.objLen = n, !.ofsType = type, !.to = l, !.jmp8 = 2, !.jmp32 = 6]
Plain(s, n) == [NewFragment(s) EXCEPT !.objLen = n]

Fragments4(lens) ==
  { [pieces |-> <<Piece("CSEG", n1, "REL8or32", "l1"), Piece("CSEG", n2, type, "l2"),
                  Piece("CSEG", n3, "REL8or32", "l3"), Plain("CSEG", 3)>>, open |-> FALSE] :
      n1 \in lens[1], n2 \in lens[2], n3 \in lens[3], type \in {"REL8or32", "REL32"} }

TargetsIn(F, ids) ==
  [Labels -> UNION { { [frag |-> id, ofs |-> k] : k \in Places(F.pieces[id].objLen) } : id \in ids }]

\* All of it in .text, as in a source that opens .rodata last.
ASSUME InitOneAssumption ==
  \A F \in Fragments4(Lens) : \A T \in TargetsIn(F, 1 .. 4) : JumpsFirst(F, T)
InitOne == \E F \in Fragments4(Lens) : \E T \in TargetsIn(F, 1 .. 4) : InitRelax(F, T)

\* A source that starts with .rodata: fragment 1 is data.
InitMixed ==
  \E F \in Fragments4(<<{0}, {3, 130}, {3, 130}>>) : \E T \in TargetsIn(F, 2 .. 4) :
    InitRelax([F EXCEPT !.pieces[1] = Plain("DSEG", 3)], T)

SpecOne   == InitOne   /\ [][NextRelax]_allVars /\ WF_allVars(NextRelax)
SpecMixed == InitMixed /\ [][NextRelax]_allVars /\ WF_allVars(NextRelax)
==============================================================================
