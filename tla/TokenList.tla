------------------------------ MODULE TokenList ------------------------------
(***************************************************************************)
(* tokenlist.c: the table of entries behind the macros (macro.c) and the   *)
(* macro parameters (param.c).  An entry is known by its index, and index  *)
(* 0 stands for "none".  Indices are given out in order while the table    *)
(* may still grow; after that the lowest free slot is used again.          *)
(*                                                                         *)
(* t.map holds slots 1 .. used-1, t.n the number of slots allocated.       *)
(***************************************************************************)
EXTENDS Integers, Sequences, FiniteSetsExt

CONSTANTS
  Null,        \* an empty slot
  ListInitMax, \* LIST_INITMAX: 128
  ReserveMax   \* MACROID_MAX (4096) or PARAMID_MAX (256)

ASSUME TableAssumption ==
  ListInitMax \in Nat \ {0, 1} /\ ReserveMax \in Nat /\ ListInitMax <= ReserveMax

\* Doubling from ListInitMax ends at ReserveMax: both are powers of two.
ASSUME GrowthAssumption ==
  \E sizes \in SUBSET (1 .. ReserveMax) :
    ListInitMax \in sizes /\ \A n \in sizes : n = ReserveMax \/ n * 2 \in sizes

NoTable == [map |-> <<>>, n |-> 0]

Used(t) == Len(t.map) + 1
Live(t) == { id \in DOMAIN t.map : t.map[id] # Null }
Free(t) == DOMAIN t.map \ Live(t)

\* The first call allocates ListInitMax slots; a full table doubles while the
\* result stays within ReserveMax.
ReservedUnbounded(t) == IF t.n = 0 THEN ListInitMax
                        ELSE IF t.n < Used(t) + 1 THEN t.n * 2 ELSE t.n
Reserved(t) == IF t.n = 0 THEN ListInitMax
               ELSE IF t.n < Used(t) + 1 /\ t.n * 2 <= ReserveMax THEN t.n * 2
               ELSE t.n

CreateIdOnePast(t) == IF Used(t) <= Reserved(t) THEN Used(t)
                      ELSE IF Free(t) # {} THEN Min(Free(t)) ELSE 0
CreateIdAnySlot(t) == IF Used(t) + 1 <= Reserved(t) THEN Used(t) ELSE 1
CreateIdNoRecycling(t) == IF Used(t) + 1 <= Reserved(t) THEN Used(t) ELSE 0
CreateId(t) == IF Used(t) + 1 <= Reserved(t) THEN Used(t)
               ELSE IF Free(t) # {} THEN Min(Free(t))
               ELSE 0

Created(t, entry) ==
  [map |-> IF CreateId(t) = Used(t) THEN Append(t.map, entry)
           ELSE [t.map EXCEPT ![CreateId(t)] = entry],
   n   |-> Reserved(t)]

Removed(t, id) == [t EXCEPT !.map[id] = Null]
==============================================================================
