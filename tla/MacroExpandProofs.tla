-------------------------- MODULE MacroExpandProofs --------------------------
(***************************************************************************)
(* The macro table and the expansion of macros, for any macros, lines and  *)
(* limits.  The table: where its slots are, that no name has two, and what *)
(* an index means while it is in use.  The expansion: who holds the        *)
(* arguments of the calls at work, and that it leaves the table to the     *)
(* directives.                                                             *)
(***************************************************************************)
EXTENDS MacroExpand, FiniteSums

(* macro.c, tokenlist.c: the table of macros.                               *)

Entries == Names \cup {Null}

Shape ==
  /\ table \in [map : Seq(Entries), n : 0 .. ReserveMax]
  /\ Len(table.map) < ReserveMax
  /\ IF table.n = 0 THEN Len(table.map) = 0 ELSE Len(table.map) < table.n
  /\ defining_id \in 0 .. ReserveMax - 1
  /\ stopped \in {"no", "full", "_next"}

\* Two slots with one entry are free.
Unique ==
  \A i, j \in DOMAIN table.map :
    table.map[i] = table.map[j] /\ table.map[i] # Null => i = j

\* The inductive invariant.
Inv == Shape /\ Unique

------------------------------------------------------------------------------
\* macro_lookup returns the index of the name, or 0 if it has none.
LEMMA LookupSound ==
  ASSUME Shape, NEW x \in Names
  PROVE  /\ Lookup(x) # 0 => Lookup(x) \in DOMAIN table.map /\ table.map[Lookup(x)] = x
         /\ Lookup(x) = 0 => \A id \in DOMAIN table.map : table.map[id] # x
<1>1. DOMAIN table.map \subseteq Nat \ {0}
  BY DEF Shape
<1>2. IdsOf(x) \subseteq Nat /\ 0 \notin IdsOf(x)
  BY <1>1 DEF IdsOf
<1>3. CASE IdsOf(x) = {}
  BY <1>3 DEF Lookup, IdsOf
<1>4. CASE IdsOf(x) # {}
  <2>1. Min(IdsOf(x)) \in IdsOf(x)
    BY <1>2, <1>4, NatMin
  <2> QED
    BY <1>2, <1>4, <2>1 DEF Lookup, IdsOf
<1> QED
  BY <1>3, <1>4

\* tokenlist_create has room for the slot it gives: behind the last one, or a
\* free one.
LEMMA CreateIdSound ==
  ASSUME Shape, CreateId(table) # 0
  PROVE  /\ Reserved(table) \in 0 .. ReserveMax /\ Len(table.map) < Reserved(table)
         /\ \/ /\ CreateId(table) = Len(table.map) + 1
               /\ Len(table.map) + 1 < Reserved(table)
            \/ /\ CreateId(table) \in DOMAIN table.map
               /\ table.map[CreateId(table)] = Null
<1>1. Len(table.map) \in Nat /\ table.n \in Nat
  BY DEF Shape
<1>2. Reserved(table) \in 0 .. ReserveMax /\ Len(table.map) < Reserved(table)
  BY <1>1, TableAssumption DEF Shape, Reserved, Used
<1>3. CASE Used(table) + 1 <= Reserved(table)
  BY <1>1, <1>2, <1>3 DEF CreateId, Used
<1>4. CASE ~(Used(table) + 1 <= Reserved(table))
  <2>1. Free(table) # {} /\ CreateId(table) = Min(Free(table))
    BY <1>4 DEF CreateId
  <2>2. Free(table) \subseteq Nat
    BY DEF Free, Shape
  <2>3. CreateId(table) \in Free(table)
    BY <2>1, <2>2, NatMin
  <2> QED
    BY <1>2, <2>3 DEF Free, Live
<1> QED
  BY <1>3, <1>4

------------------------------------------------------------------------------
LEMMA InitInv == Init => Inv
<1> SUFFICES ASSUME Init PROVE Inv
  OBVIOUS
<1>1. table.map = <<>> /\ table.n = 0 /\ table \in [map : Seq(Entries), n : 0 .. ReserveMax]
  BY TableAssumption DEF Init, NoTable
<1>2. Len(table.map) = 0 /\ DOMAIN table.map = {}
  BY <1>1
<1> QED
  BY <1>1, <1>2, TableAssumption DEF Init, Inv, Shape, Unique

\* A new entry takes one slot, and leaves all others alone.
LEMMA DefineChanges ==
  ASSUME Inv, NEW x \in Names, Define(x)
  PROVE  LET id == CreateId(table) IN
         /\ Shape'
         /\ DOMAIN table'.map = DOMAIN table.map \cup {id}
         /\ table'.map[id] = x
         /\ \A k \in DOMAIN table.map : k # id => table'.map[k] = table.map[k]
         /\ id \in DOMAIN table.map => table.map[id] = Null
<1> DEFINE id == CreateId(table)
           m == table.map
<1>1. /\ table' = Created(table, x) /\ defining_id' = id /\ id # 0 /\ UNCHANGED stopped
      /\ x \in Entries /\ m \in Seq(Entries) /\ Len(m) < ReserveMax
  BY DEF Define, Inv, Shape, Entries
<1>2. /\ Reserved(table) \in 0 .. ReserveMax /\ Len(m) < Reserved(table)
      /\ \/ id = Len(m) + 1 /\ Len(m) + 1 < Reserved(table)
         \/ id \in DOMAIN m /\ m[id] = Null
  BY <1>1, CreateIdSound DEF Inv
<1>3. CASE id = Len(m) + 1 /\ Len(m) + 1 < Reserved(table)
  <2>1. table' = [map |-> Append(m, x), n |-> Reserved(table)]
    BY <1>1, <1>3 DEF Created, Used
  <2>2. /\ Append(m, x) \in Seq(Entries) /\ Len(Append(m, x)) = Len(m) + 1
        /\ DOMAIN Append(m, x) = DOMAIN m \cup {Len(m) + 1}
        /\ Append(m, x)[Len(m) + 1] = x
        /\ \A k \in DOMAIN m : Append(m, x)[k] = m[k]
    BY <1>1
  <2>3. Shape'
    BY <1>1, <1>2, <1>3, <2>1, <2>2, TableAssumption DEF Shape, Inv
  <2>4. id \notin DOMAIN m
    BY <1>1, <1>3
  <2> QED
    BY <1>3, <2>1, <2>2, <2>3, <2>4
<1>4. CASE id \in DOMAIN m /\ m[id] = Null
  <2>1. id # Used(table) /\ id \in 1 .. Len(m)
    BY <1>1, <1>4 DEF Used
  <2>2. table' = [map |-> [m EXCEPT ![id] = x], n |-> Reserved(table)]
    BY <1>1, <2>1 DEF Created
  <2>3. [m EXCEPT ![id] = x] \in Seq(Entries) /\ Len([m EXCEPT ![id] = x]) = Len(m)
    BY <1>1, <1>4
  <2>4. Shape'
    BY <1>1, <1>2, <2>1, <2>2, <2>3, TableAssumption DEF Shape, Inv
  <2> QED
    BY <1>4, <2>2, <2>4
<1> QED
  BY <1>2, <1>3, <1>4

\* #undef empties the slot of the name, and leaves all others alone.
LEMMA UndefChanges ==
  ASSUME Inv, NEW x \in Names, Undef(x)
  PROVE  LET id == Lookup(x) IN
         /\ Shape'
         /\ id \in DOMAIN table.map /\ table.map[id] = x
         /\ DOMAIN table'.map = DOMAIN table.map
         /\ table'.map[id] = Null
         /\ \A k \in DOMAIN table.map : k # id => table'.map[k] = table.map[k]
<1> DEFINE id == Lookup(x)
           m == table.map
<1>1. /\ table' = Removed(table, id) /\ UNCHANGED <<defining_id, stopped>>
      /\ id \in DOMAIN m /\ m[id] = x
  BY LookupSound DEF Undef, Inv
<1>2. /\ m \in Seq(Entries) /\ Null \in Entries
      /\ table \in [map : Seq(Entries), n : 0 .. ReserveMax]
  BY DEF Inv, Shape, Entries
<1>3. [m EXCEPT ![id] = Null] \in Seq(Entries) /\ Len([m EXCEPT ![id] = Null]) = Len(m)
  BY <1>1, <1>2
<1>4. table' = [map |-> [m EXCEPT ![id] = Null], n |-> table.n]
  BY <1>1, <1>2 DEF Removed
<1>5. Shape'
  BY <1>1, <1>2, <1>3, <1>4 DEF Shape, Inv
<1> QED
  BY <1>1, <1>4, <1>5

LEMMA StepInv == ASSUME Inv, [Next]_vars PROVE Inv'
<1>1. ASSUME NEW x \in Names, Define(x) PROVE Inv'
  <2>1. \A k \in DOMAIN table.map : table.map[k] # x
    BY <1>1, LookupSound DEF Define, Inv
  <2>2. Unique'
    BY <1>1, <2>1, DefineChanges DEF Inv, Unique
  <2> QED
    BY <1>1, <2>2, DefineChanges DEF Inv
<1>2. ASSUME NEW x \in Names, Undef(x) PROVE Inv'
  <2>1. Unique'
    BY <1>2, UndefChanges DEF Inv, Unique
  <2> QED
    BY <1>2, <2>1, UndefChanges DEF Inv
<1>3. ASSUME NEW x \in Names, DefineFails(x) PROVE Inv'
  BY <1>3 DEF DefineFails, Inv, Shape, Unique
<1>4. ASSUME NEW x \in Names, NEW hasBody \in BOOLEAN, Redefine(x, hasBody) PROVE Inv'
  BY <1>4, TableAssumption DEF Redefine, Inv, Shape, Unique
<1>5. CASE UNCHANGED vars
  BY <1>5 DEF vars, Inv, Shape, Unique
<1> QED
  BY <1>1, <1>2, <1>3, <1>4, <1>5 DEF Next

------------------------------------------------------------------------------
\* The inductive invariant of the macro table.
THEOREM InvHolds == Spec => []Inv
BY InitInv, StepInv, PTL DEF Spec

\* An index never needs more than the bits of a MACRO_ID (macro.c:69-73).
THEOREM TypeCorrect == Spec => []TypeOK
<1>1. Inv => TypeOK
  BY DEF Inv, Shape, TypeOK, Entries
<1> QED
  BY <1>1, InvHolds, PTL

\* tokenlist_create never writes outside of the memory it allocated
\* (tokenlist.c:36-77).
THEOREM TableInsideHolds == Spec => []TableInside
<1>1. Inv => TableInside
  BY DEF Inv, Shape, TableInside
<1> QED
  BY <1>1, InvHolds, PTL

\* #define enters a name only if no slot has it, so that #undef removes all
\* of it (macro.c:100-179).
THEOREM NamesUniqueHolds == Spec => []NamesUnique
<1>1. ASSUME Inv, NEW x \in Names PROVE Cardinality(IdsOf(x)) <= 1
  <2>1. CASE IdsOf(x) = {}
    BY <2>1, FS_EmptySet
  <2>2. CASE IdsOf(x) # {}
    <3>1. PICK id \in DOMAIN table.map : table.map[id] = x
      BY <2>2 DEF IdsOf
    <3>2. IdsOf(x) = {id}
      BY <1>1, <3>1, NullAssumption DEF IdsOf, Inv, Unique
    <3> QED
      BY <3>2, FS_Singleton
  <2> QED
    BY <2>1, <2>2
<1>2. Inv => NamesUnique
  BY <1>1 DEF NamesUnique
<1> QED
  BY <1>2, InvHolds, PTL

LEMMA StepKeepsIds ==
  ASSUME Inv, [Next]_vars, NEW id \in Live(table)
  PROVE  id \in DOMAIN table'.map /\ table'.map[id] \in {table.map[id], Null}
<1>0. id \in DOMAIN table.map /\ table.map[id] # Null
  BY DEF Live
<1>1. ASSUME NEW x \in Names, Define(x)
      PROVE  id \in DOMAIN table'.map /\ table'.map[id] \in {table.map[id], Null}
  BY <1>0, <1>1, DefineChanges
<1>2. ASSUME NEW x \in Names, Undef(x)
      PROVE  id \in DOMAIN table'.map /\ table'.map[id] \in {table.map[id], Null}
  BY <1>0, <1>2, UndefChanges
<1>3. CASE UNCHANGED table
  BY <1>0, <1>3
<1> QED
  BY <1>1, <1>2, <1>3 DEF Next, vars, DefineFails, Redefine

\* No slot goes away.
LEMMA StepKeepsSlots == ASSUME Inv, [Next]_vars PROVE DOMAIN table.map \subseteq DOMAIN table'.map
<1>1. ASSUME NEW x \in Names, Define(x) PROVE DOMAIN table.map \subseteq DOMAIN table'.map
  BY <1>1, DefineChanges
<1>2. ASSUME NEW x \in Names, Undef(x) PROVE DOMAIN table.map \subseteq DOMAIN table'.map
  BY <1>2, UndefChanges
<1>3. CASE UNCHANGED table
  BY <1>3
<1> QED
  BY <1>1, <1>2, <1>3 DEF Next, vars, DefineFails, Redefine

\* An index means one macro from its #define to its #undef, also when the
\* table grows in between (tokenlist.c:47-52).
THEOREM IdsStayHolds == Spec => IdsStay
<1>1. Inv /\ [Next]_vars =>
        [\A id \in Live(table) :
           id \in DOMAIN table'.map /\ table'.map[id] \in {table.map[id], Null}]_vars
  BY StepKeepsIds
<1> QED
  BY <1>1, InvHolds, PTL DEF Spec, IdsStay

------------------------------------------------------------------------------
\* The sizes the table grows through.
Sizes == CHOOSE sizes \in SUBSET (1 .. ReserveMax) :
           ListInitMax \in sizes /\ \A n \in sizes : n = ReserveMax \/ n * 2 \in sizes

LEMMA SizesDouble ==
  /\ Sizes \subseteq 1 .. ReserveMax
  /\ ListInitMax \in Sizes /\ \A n \in Sizes : n = ReserveMax \/ n * 2 \in Sizes
BY GrowthAssumption DEF Sizes

SizeOK == table.n # 0 => table.n \in Sizes

\* Inv with what the size of the table may be.
Inv2 == Inv /\ SizeOK

LEMMA StepSize == ASSUME Inv2, [Next]_vars PROVE SizeOK'
<1>1. ASSUME NEW x \in Names, Define(x) PROVE SizeOK'
  <2>1. table'.n = Reserved(table)
    BY <1>1 DEF Define, Created
  <2>2. Reserved(table) \in Sizes
    BY SizesDouble DEF Inv2, Inv, Shape, SizeOK, Reserved, Used
  <2> QED
    BY <2>1, <2>2 DEF SizeOK
<1>2. ASSUME NEW x \in Names, Undef(x) PROVE SizeOK'
  <2>1. table' = [table EXCEPT !.map[Lookup(x)] = Null]
    BY <1>2 DEF Undef, Removed
  <2>2. table'.n = table.n
    BY <2>1 DEF Inv2, Inv, Shape
  <2> QED
    BY <2>2 DEF SizeOK, Inv2
<1>3. CASE UNCHANGED table
  BY <1>3 DEF SizeOK, Inv2
<1> QED
  BY <1>1, <1>2, <1>3 DEF Next, vars, DefineFails, Redefine

\* The invariant, with the sizes tokenlist_create grows the table through.
THEOREM Inv2Holds == Spec => []Inv2
<1>1. Init => Inv2
  BY InitInv DEF Init, NoTable, Inv2, SizeOK
<1>2. Inv2 /\ [Next]_vars => Inv2'
  BY StepInv, StepSize DEF Inv2
<1> QED
  BY <1>1, <1>2, PTL DEF Spec

\* The names known are those in the slots, one for each live slot.
KnownIs == Known = {x \in Names : \E id \in DOMAIN table.map : table.map[id] = x}
LEMMA KnownNames == Shape => KnownIs
BY LookupSound DEF Known, KnownIs

\* ... also after a step.
LEMMA KnownNamesNext == Shape' => KnownIs'
BY KnownNames, PTL

\* Dictionary counts as this module does.
LEMMA SameCount == \A S : Dict!Cardinality(S) = Cardinality(S)
BY DEF Dict!Cardinality, Cardinality

LEMMA LiveFinite ==
  ASSUME Shape
  PROVE  /\ IsFiniteSet(DOMAIN table.map) /\ Cardinality(DOMAIN table.map) = Len(table.map)
         /\ IsFiniteSet(Live(table)) /\ Cardinality(Live(table)) <= Len(table.map)
<1>1. Len(table.map) \in Nat /\ DOMAIN table.map = 1 .. Len(table.map)
  BY DEF Shape
<1>2. IsFiniteSet(DOMAIN table.map) /\ Cardinality(DOMAIN table.map) = Len(table.map)
  BY <1>1, FS_Interval
<1>3. Live(table) \in SUBSET DOMAIN table.map
  BY DEF Live
<1> QED
  BY <1>2, <1>3, FS_Subset

LEMMA KnownCounted ==
  ASSUME Inv
  PROVE  IsFiniteSet(Known) /\ Cardinality(Known) = Cardinality(Live(table))
<1> DEFINE f == [id \in Live(table) |-> table.map[id]]
<1>1. \A id \in Live(table) : table.map[id] \in Names
  BY DEF Live, Inv, Shape, Entries
<1>2. Known = {x \in Names : \E id \in Live(table) : table.map[id] = x}
  BY KnownNames, NullAssumption DEF Inv, Live, KnownIs
<1>3. f \in [Live(table) -> Known]
  BY <1>1, <1>2
<1>4. \A a, b \in Live(table) : f[a] = f[b] => a = b
  BY DEF Inv, Unique, Live
<1>5. \A x \in Known : \E id \in Live(table) : f[id] = x
  BY <1>2
<1>6. ExistsBijection(Live(table), Known)
  BY <1>3, <1>4, <1>5 DEF ExistsBijection, Bijection, Injection, Surjection, IsInjective
<1> QED
  BY <1>6, LiveFinite, FS_Bijection DEF Inv

\* A new entry is a name that was not known, and there was room for it.
LEMMA DefineAdds == ASSUME Inv2, NEW x \in Names, Define(x) PROVE Dict!Add(x)
<1> DEFINE id == CreateId(table)
<1>1. /\ Shape' /\ DOMAIN table'.map = DOMAIN table.map \cup {id} /\ table'.map[id] = x
      /\ \A k \in DOMAIN table.map : k # id => table'.map[k] = table.map[k]
      /\ id \in DOMAIN table.map => table.map[id] = Null
  BY DefineChanges DEF Inv2
<1>2. Known' = {y \in Names : \E k \in DOMAIN table'.map : table'.map[k] = y}
  BY <1>1, KnownNamesNext DEF KnownIs
<1>3. x \notin Known
  BY DEF Define, Known
<1>4. Known' = Known \cup {x}
  BY <1>1, <1>2, KnownNames, NullAssumption DEF Inv2, Inv, KnownIs
<1>5. Cardinality(Live(table)) < ReserveMax - 1
  <2>1. id # 0
    BY DEF Define
  <2>2. Len(table.map) \in Nat /\ Len(table.map) < ReserveMax
    BY DEF Inv2, Inv, Shape
  <2>3. CASE id = Len(table.map) + 1 /\ Len(table.map) + 1 < Reserved(table)
    BY <2>1, <2>2, <2>3, CreateIdSound, LiveFinite, FS_CardinalityType, TableAssumption DEF Inv2, Inv
  <2>4. CASE id \in DOMAIN table.map /\ table.map[id] = Null
    <3>1. Live(table) \in SUBSET DOMAIN table.map /\ Live(table) # DOMAIN table.map
      BY <2>4 DEF Live
    <3>2. Cardinality(Live(table)) # Len(table.map)
      BY <3>1, LiveFinite, FS_Subset DEF Inv2, Inv
    <3> QED
      BY <2>2, <3>2, LiveFinite, FS_CardinalityType, TableAssumption DEF Inv2, Inv
  <2> QED
    BY <2>1, <2>3, <2>4, CreateIdSound DEF Inv2, Inv
<1>6. Dict!Cardinality(Known) < ReserveMax - 1
  BY <1>5, KnownCounted, SameCount DEF Inv2
<1> QED
  BY <1>3, <1>4, <1>6 DEF Define, Dict!Add

\* A name that is removed had one slot, so it is not known any more.
LEMMA UndefDrops == ASSUME Inv2, NEW x \in Names, Undef(x) PROVE Dict!Drop(x)
<1> DEFINE id == Lookup(x)
<1>1. /\ Shape' /\ id \in DOMAIN table.map /\ table.map[id] = x
      /\ DOMAIN table'.map = DOMAIN table.map /\ table'.map[id] = Null
      /\ \A k \in DOMAIN table.map : k # id => table'.map[k] = table.map[k]
  BY UndefChanges DEF Inv2
<1>2. Known' = {y \in Names : \E k \in DOMAIN table'.map : table'.map[k] = y}
  BY <1>1, KnownNamesNext DEF KnownIs
<1>3. x \in Known
  BY DEF Undef, Known
<1>4. \A k \in DOMAIN table.map : k # id => table.map[k] # x
  BY <1>1, NullAssumption DEF Inv2, Inv, Unique
<1>5. Known' = Known \ {x}
  BY <1>1, <1>2, <1>4, KnownNames, NullAssumption DEF Inv2, Inv, KnownIs
<1> QED
  BY <1>3, <1>5 DEF Undef, Dict!Drop

\* A name is refused only when every index but 0 is taken.
LEMMA FailsFull == ASSUME Inv2, NEW x \in Names, DefineFails(x) PROVE Dict!Refuse
<1>1. /\ Len(table.map) \in Nat /\ table.n \in Nat /\ DOMAIN table.map = 1 .. Len(table.map)
      /\ IF table.n = 0 THEN Len(table.map) = 0 ELSE Len(table.map) < table.n
  BY DEF Inv2, Inv, Shape
<1>2. ~(Used(table) + 1 <= Reserved(table)) /\ Free(table) = {}
  <2>1. CreateId(table) = 0
    BY DEF DefineFails
  <2>2. ~(Used(table) + 1 <= Reserved(table))
    BY <1>1, <2>1 DEF CreateId, Used
  <2>3. ASSUME Free(table) # {} PROVE FALSE
    <3>0. Free(table) \subseteq Nat
      BY <1>1 DEF Free
    <3>1. Min(Free(table)) \in Free(table)
      BY <2>3, <3>0, NatMin
    <3> QED
      BY <1>1, <2>1, <2>2, <2>3, <3>1 DEF CreateId, Free
  <2> QED
    BY <2>2, <2>3
<1>3. table.n # 0
  BY <1>1, <1>2, TableAssumption DEF Used, Reserved
<1>4. ~(table.n * 2 <= ReserveMax) /\ Len(table.map) = table.n - 1
  BY <1>1, <1>2, <1>3 DEF Used, Reserved
<1>5. table.n = ReserveMax
  <2>1. table.n \in Sizes
    BY <1>3 DEF Inv2, SizeOK
  <2>2. table.n = ReserveMax \/ table.n * 2 \in Sizes
    BY <2>1, SizesDouble
  <2>3. table.n * 2 \in Sizes => table.n * 2 <= ReserveMax
    <3>1. Sizes \subseteq 1 .. ReserveMax
      BY SizesDouble
    <3>2. table.n * 2 \in 1 .. ReserveMax => table.n * 2 <= ReserveMax
      BY <1>1
    <3> QED
      BY <3>1, <3>2, Zenon
  <2> QED
    BY <1>4, <2>2, <2>3, Zenon
<1>6. Live(table) = DOMAIN table.map
  BY <1>2 DEF Free, Live
<1>7. Cardinality(Known) = ReserveMax - 1
  BY <1>4, <1>5, <1>6, KnownCounted, LiveFinite DEF Inv2, Inv
<1>8. Dict!Cardinality(Known) = ReserveMax - 1
  BY <1>7, SameCount
<1>9. UNCHANGED Known
  BY DEF DefineFails, Known, Lookup, IdsOf
<1> QED
  BY <1>8, <1>9 DEF DefineFails, Dict!Refuse

LEMMA StepRefines ==
  ASSUME Inv2, [Next]_vars
  PROVE  [Dict!Next]_<<Known, stopped = "full">>
<1>1. ASSUME NEW x \in Names, Define(x) PROVE Dict!Next
  BY <1>1, DefineAdds DEF Dict!Next
<1>2. ASSUME NEW x \in Names, Undef(x) PROVE Dict!Next
  BY <1>2, UndefDrops DEF Dict!Next
<1>3. ASSUME NEW x \in Names, DefineFails(x) PROVE Dict!Next
  BY <1>3, FailsFull DEF Dict!Next
<1>4. ASSUME NEW x \in Names, NEW hasBody \in BOOLEAN, Redefine(x, hasBody)
      PROVE  UNCHANGED <<Known, stopped = "full">>
  <2>1. UNCHANGED Known
    BY <1>4 DEF Redefine, Known, Lookup, IdsOf
  <2>2. stopped # "full" /\ stopped' # "full"
    BY <1>4 DEF Redefine
  <2> QED
    BY <2>1, <2>2
<1>5. CASE UNCHANGED vars
  BY <1>5 DEF vars, Known, Lookup, IdsOf
<1> QED
  BY <1>1, <1>2, <1>3, <1>4, <1>5 DEF Next

\* The table is a dictionary with room for ReserveMax - 1 names, however it
\* grows and reuses slots, and refuses a name only when it is full
\* (macro.c:138-179, tokenlist.c:32-81).
THEOREM Refines == Spec => ImplementsDictionary
<1>1. Init => Dict!Init
  BY DEF Init, NoTable, Dict!Init, Known, Lookup, IdsOf
<1>2. Inv2 /\ [Next]_vars => [Dict!Next]_<<Known, stopped = "full">>
  BY StepRefines
<1> QED
  BY <1>1, <1>2, Inv2Holds, PTL DEF Spec, ImplementsDictionary, Dict!Spec

------------------------------------------------------------------------------
(* param.c: the table of arguments.                                         *)

Arguments == Seq(Tokens) \cup {Null}

ParamShape(t) ==
  /\ t \in [map : Seq(Arguments), n : 0 .. ParamIdMax]
  /\ IF t.n = 0 THEN Len(t.map) = 0 ELSE Len(t.map) < t.n

\* TokenList takes the least element as this module does.
LEMMA SameMin == \A S : Param!Min(S) = Min(S)
BY DEF Param!Min, Min

LEMMA ParamIdSound ==
  ASSUME NEW t, ParamShape(t), Param!CreateId(t) # 0
  PROVE  LET id == Param!CreateId(t) IN
         /\ id \in Nat \ {0} /\ id \notin Param!Live(t)
         /\ Param!Reserved(t) \in 0 .. ParamIdMax /\ Len(t.map) < Param!Reserved(t) /\ Param!Reserved(t) # 0
         /\ \/ id = Len(t.map) + 1 /\ Len(t.map) + 1 < Param!Reserved(t) /\ id = Param!Used(t)
            \/ id \in DOMAIN t.map /\ id # Param!Used(t) /\ t.map[id] = Null
<1> DEFINE id == Param!CreateId(t)
           r == Param!Reserved(t)
<1>1. Len(t.map) \in Nat /\ t.n \in 0 .. ParamIdMax /\ DOMAIN t.map = 1 .. Len(t.map)
  BY DEF ParamShape
<1>2. r \in 0 .. ParamIdMax /\ Len(t.map) < r /\ r # 0
  BY <1>1, ParamAssumption, TableAssumption DEF ParamShape, Param!Reserved, Param!Used
<1>3. CASE Param!Used(t) + 1 <= r
  <2>1. id = Len(t.map) + 1 /\ Len(t.map) + 1 < r /\ id = Param!Used(t)
    BY <1>1, <1>2, <1>3 DEF Param!CreateId, Param!Used
  <2>2. id \in Nat \ {0} /\ id \notin DOMAIN t.map
    BY <1>1, <2>1
  <2> QED
    BY <1>2, <2>1, <2>2 DEF Param!Live
<1>4. CASE ~(Param!Used(t) + 1 <= r)
  <2>0. id = IF Param!Free(t) # {} THEN Min(Param!Free(t)) ELSE 0
    BY <1>4, SameMin DEF Param!CreateId
  <2>1. Param!Free(t) # {} /\ id = Min(Param!Free(t))
    BY <2>0
  <2>2. Param!Free(t) \subseteq Nat
    BY <1>1 DEF Param!Free
  <2>3. id \in Param!Free(t)
    BY <2>1, <2>2, NatMin
  <2>4. id \in DOMAIN t.map /\ t.map[id] = Null
    BY <2>3 DEF Param!Free, Param!Live
  <2>5. id \in Nat \ {0} /\ id # Param!Used(t)
    BY <1>1, <2>4 DEF Param!Used
  <2> QED
    BY <1>2, <2>4, <2>5 DEF Param!Live
<1> QED
  BY <1>3, <1>4

\* param_open makes one more index live.
LEMMA ParamCreated ==
  ASSUME NEW t, ParamShape(t), Param!CreateId(t) # 0, NEW a \in Seq(Tokens)
  PROVE  /\ ParamShape(Param!Created(t, a))
         /\ Param!Live(Param!Created(t, a)) = Param!Live(t) \cup {Param!CreateId(t)}
<1> DEFINE id == Param!CreateId(t)
           u == Param!Created(t, a)
           m == t.map
<1>1. /\ Param!Reserved(t) \in 0 .. ParamIdMax /\ Len(m) < Param!Reserved(t) /\ Param!Reserved(t) # 0
      /\ \/ id = Len(m) + 1 /\ Len(m) + 1 < Param!Reserved(t) /\ id = Param!Used(t)
         \/ id \in DOMAIN m /\ id # Param!Used(t) /\ m[id] = Null
  BY ParamIdSound
<1>2. m \in Seq(Arguments) /\ a \in Arguments /\ a # Null
  BY MacrosAssumption DEF ParamShape, Arguments
<1>3. CASE id = Len(m) + 1 /\ Len(m) + 1 < Param!Reserved(t) /\ id = Param!Used(t)
  <2>1. u = [map |-> Append(m, a), n |-> Param!Reserved(t)]
    BY <1>3 DEF Param!Created
  <2>2. /\ Append(m, a) \in Seq(Arguments) /\ Len(Append(m, a)) = Len(m) + 1
        /\ DOMAIN Append(m, a) = DOMAIN m \cup {id}
        /\ Append(m, a)[id] = a
        /\ \A k \in DOMAIN m : Append(m, a)[k] = m[k]
    BY <1>2, <1>3
  <2>3. ParamShape(u)
    BY <1>1, <1>2, <1>3, <2>1, <2>2 DEF ParamShape
  <2>4. u.map = Append(m, a)
    BY <2>1
  <2> HIDE DEF id, u, m
  <2>5. Param!Live(u) = Param!Live(t) \cup {id}
    BY <1>2, <2>2, <2>4 DEF Param!Live, m
  <2> QED
    BY <2>3, <2>5 DEF id, u
<1>4. CASE id \in DOMAIN m /\ id # Param!Used(t) /\ m[id] = Null
  <2>1. u = [map |-> [m EXCEPT ![id] = a], n |-> Param!Reserved(t)]
    BY <1>4 DEF Param!Created
  <2>2. [m EXCEPT ![id] = a] \in Seq(Arguments) /\ Len([m EXCEPT ![id] = a]) = Len(m)
    BY <1>2, <1>4
  <2>3. ParamShape(u)
    BY <1>1, <1>4, <2>1, <2>2 DEF ParamShape
  <2>4. u.map = [m EXCEPT ![id] = a]
    BY <2>1
  <2>5. Param!Live(u) = Param!Live(t) \cup {id}
    BY <1>2, <1>4, <2>4 DEF Param!Live
  <2> QED
    BY <2>3, <2>5
<1> QED
  BY <1>1, <1>3, <1>4

\* param_write changes no index, and not which one is given out next.
LEMMA ParamWritten ==
  ASSUME NEW t, ParamShape(t), NEW id \in Param!Live(t), NEW a \in Seq(Tokens),
         NEW u, u = [t EXCEPT !.map[id] = a]
  PROVE  ParamShape(u) /\ Param!Live(u) = Param!Live(t) /\ Param!CreateId(u) = Param!CreateId(t)
<1> DEFINE m == t.map
<1>1. m \in Seq(Arguments) /\ a \in Arguments /\ a # Null /\ id \in DOMAIN m /\ m[id] # Null
  BY MacrosAssumption DEF ParamShape, Arguments, Param!Live
<1>2. u.map = [m EXCEPT ![id] = a] /\ u.n = t.n /\ u = [map |-> [m EXCEPT ![id] = a], n |-> t.n]
  BY DEF ParamShape
<1>3. [m EXCEPT ![id] = a] \in Seq(Arguments) /\ Len([m EXCEPT ![id] = a]) = Len(m) /\ DOMAIN [m EXCEPT ![id] = a] = DOMAIN m
  BY <1>1
<1>4. ParamShape(u)
  BY <1>2, <1>3 DEF ParamShape
<1>5. Param!Live(u) = Param!Live(t)
  BY <1>1, <1>2, <1>3 DEF Param!Live
<1>6. Param!Free(u) = Param!Free(t) /\ Param!Used(u) = Param!Used(t) /\ Param!Reserved(u) = Param!Reserved(t)
  BY <1>2, <1>3, <1>5 DEF Param!Free, Param!Used, Param!Reserved
<1>7. Param!CreateId(u) = Param!CreateId(t)
  BY <1>6 DEF Param!CreateId
<1> QED
  BY <1>4, <1>5, <1>7

\* _release_stack frees these indices.
LEMMA ParamDropped ==
  ASSUME ParamShape(params), NEW ids
  PROVE  ParamShape(Dropped(ids)) /\ Param!Live(Dropped(ids)) = Param!Live(params) \ ids
<1> DEFINE m == params.map
           w == [i \in DOMAIN m |-> IF i \in ids THEN Null ELSE m[i]]
           u == Dropped(ids)
<1>1. m \in Seq(Arguments) /\ Null \in Arguments /\ Len(m) \in Nat /\ DOMAIN m = 1 .. Len(m)
  BY DEF ParamShape, Arguments
<1>2. u = [map |-> w, n |-> params.n]
  BY DEF Dropped, ParamShape
<1>3. w \in Seq(Arguments) /\ Len(w) = Len(m) /\ DOMAIN w = DOMAIN m
  <2>1. w \in [1 .. Len(m) -> Arguments]
    BY <1>1
  <2> HIDE DEF w
  <2> QED
    BY <1>1, <2>1
<1>4. ParamShape(u)
  <2> HIDE DEF w
  <2> QED
    BY <1>2, <1>3 DEF ParamShape
<1>5. Param!Live(u) = Param!Live(params) \ ids
  BY <1>2 DEF Param!Live
<1> QED
  BY <1>4, <1>5

------------------------------------------------------------------------------
(* The stack of frames.                                                     *)

FrameSet == [kind : {"root", "macro", "param"}, id : Nat, params : Seq(Nat), owner : Nat, read : Nat]

\* The root is below, and only a macro has arguments of its own.
FramesOK(fs) ==
  /\ fs \in Seq(FrameSet) /\ Len(fs) >= 1
  /\ \A j \in 1 .. Len(fs) : fs[j].kind = "root" <=> j = 1
  /\ \A j \in 1 .. Len(fs) : fs[j].kind # "macro" => fs[j].params = <<>>

OfFrames(fs, first) == UNION { ToSet(fs[j].params) : j \in first .. Len(fs) }

\* The frames hold what is live, but for what the call holds, and nothing twice;
\* an argument that is being read is held by its macro, which is further below.
HeldOK(fs, live, inCall) ==
  /\ live = inCall \cup OfFrames(fs, 1)
  /\ \A j, k \in 1 .. Len(fs) : j # k => ToSet(fs[j].params) \cap ToSet(fs[k].params) = {}
  /\ \A j \in 1 .. Len(fs) : ToSet(fs[j].params) \cap inCall = {}
  /\ \A j \in 1 .. Len(fs) :
       fs[j].kind = "param" =>
         /\ fs[j].owner \in 1 .. (j - 1)
         /\ fs[j].id \in ToSet(fs[fs[j].owner].params)

\* What is left when frames are taken from the top and others read.
Cut(fs, gs) ==
  /\ gs \in Seq(FrameSet) /\ Len(gs) \in 1 .. Len(fs)
  /\ \A j \in 1 .. Len(gs) : /\ gs[j].kind = fs[j].kind /\ gs[j].id = fs[j].id
                             /\ gs[j].params = fs[j].params /\ gs[j].owner = fs[j].owner

LEMMA CutHeld ==
  ASSUME NEW fs, NEW gs, NEW live, NEW inCall, FramesOK(fs), HeldOK(fs, live, inCall), Cut(fs, gs)
  PROVE  FramesOK(gs) /\ HeldOK(gs, live \ OfFrames(fs, Len(gs) + 1), inCall)
<1> DEFINE rest == OfFrames(fs, Len(gs) + 1)
<1>1. /\ Len(fs) \in Nat /\ Len(gs) \in Nat /\ Len(gs) >= 1
      /\ \A j \in 1 .. Len(gs) : j \in 1 .. Len(fs) /\ gs[j].params = fs[j].params
      /\ \A j \in Len(gs) + 1 .. Len(fs) : j \in 1 .. Len(fs) /\ j \notin 1 .. Len(gs)
      /\ \A j \in 1 .. Len(fs) : j \in 1 .. Len(gs) \/ j \in Len(gs) + 1 .. Len(fs)
  BY DEF FramesOK, Cut
<1>2. FramesOK(gs)
  BY <1>1 DEF FramesOK, Cut
<1>3. OfFrames(gs, 1) = UNION {ToSet(fs[j].params) : j \in 1 .. Len(gs)}
  BY <1>1 DEF OfFrames
<1>4. OfFrames(fs, 1) = OfFrames(gs, 1) \cup rest
  <2>1. ASSUME NEW i \in OfFrames(fs, 1) PROVE i \in OfFrames(gs, 1) \cup rest
    <3>1. PICK j \in 1 .. Len(fs) : i \in ToSet(fs[j].params)
      BY DEF OfFrames
    <3> QED
      BY <1>1, <1>3, <3>1 DEF OfFrames
  <2>2. ASSUME NEW i \in OfFrames(gs, 1) \cup rest PROVE i \in OfFrames(fs, 1)
    BY <1>1, <1>3 DEF OfFrames
  <2> QED
    BY <2>1, <2>2
<1>5. rest \cap OfFrames(gs, 1) = {}
  <2> SUFFICES ASSUME NEW i \in rest, i \in OfFrames(gs, 1) PROVE FALSE
    OBVIOUS
  <2>1. PICK j \in Len(gs) + 1 .. Len(fs) : i \in ToSet(fs[j].params)
    BY DEF OfFrames
  <2>2. PICK k \in 1 .. Len(gs) : i \in ToSet(fs[k].params)
    BY <1>3
  <2>3. j \in 1 .. Len(fs) /\ k \in 1 .. Len(fs) /\ j # k
    BY <1>1
  <2>4. ToSet(fs[j].params) \cap ToSet(fs[k].params) = {}
    BY <2>3 DEF HeldOK
  <2> QED
    BY <2>1, <2>2, <2>4
<1>6. rest \cap inCall = {}
  BY <1>1 DEF OfFrames, HeldOK
<1>7. live \ rest = inCall \cup OfFrames(gs, 1)
  <2> HIDE DEF rest
  <2> QED
    BY <1>4, <1>5, <1>6 DEF HeldOK
<1>8. /\ \A j, k \in 1 .. Len(gs) : j # k => ToSet(gs[j].params) \cap ToSet(gs[k].params) = {}
      /\ \A j \in 1 .. Len(gs) : ToSet(gs[j].params) \cap inCall = {}
  <2>1. ASSUME NEW j \in 1 .. Len(gs), NEW k \in 1 .. Len(gs), j # k
        PROVE  ToSet(gs[j].params) \cap ToSet(gs[k].params) = {}
    <3>1. j \in 1 .. Len(fs) /\ k \in 1 .. Len(fs) /\ gs[j].params = fs[j].params /\ gs[k].params = fs[k].params
      BY <1>1
    <3>2. ToSet(fs[j].params) \cap ToSet(fs[k].params) = {}
      BY <2>1, <3>1 DEF HeldOK
    <3> QED
      BY <3>1, <3>2
  <2>2. ASSUME NEW j \in 1 .. Len(gs) PROVE ToSet(gs[j].params) \cap inCall = {}
    <3>1. j \in 1 .. Len(fs) /\ gs[j].params = fs[j].params
      BY <1>1
    <3>2. ToSet(fs[j].params) \cap inCall = {}
      BY <3>1 DEF HeldOK
    <3> QED
      BY <3>1, <3>2
  <2> QED
    BY <2>1, <2>2
<1>9. ASSUME NEW j \in 1 .. Len(gs), gs[j].kind = "param"
      PROVE  gs[j].owner \in 1 .. (j - 1) /\ gs[j].id \in ToSet(gs[gs[j].owner].params)
  <2>1. j \in 1 .. Len(fs) /\ fs[j].kind = "param" /\ gs[j].owner = fs[j].owner /\ gs[j].id = fs[j].id
    BY <1>1, <1>9 DEF Cut
  <2>2. fs[j].owner \in 1 .. (j - 1) /\ fs[j].id \in ToSet(fs[fs[j].owner].params)
    BY <2>1 DEF HeldOK
  <2>3. fs[j].owner \in 1 .. Len(gs)
    BY <1>1, <2>2
  <2> QED
    BY <1>1, <2>1, <2>2, <2>3
<1> HIDE DEF rest
<1>10. HeldOK(gs, live \ rest, inCall)
  BY <1>7, <1>8, <1>9 DEF HeldOK
<1> QED
  BY <1>2, <1>10 DEF rest

\* Reading a token changes nothing else of the stack.
LEMMA AdvancedCut ==
  ASSUME NEW fs, FramesOK(fs)
  PROVE  Cut(fs, Advanced(fs)) /\ Len(Advanced(fs)) = Len(fs)
<1> DEFINE n == Len(fs)
           f == fs[n]
           g == [f EXCEPT !.read = @ + 1]
<1>1. fs \in Seq(FrameSet) /\ n \in Nat /\ n >= 1 /\ f \in FrameSet
  BY DEF FramesOK
<1> HIDE DEF f
<1>2. g \in FrameSet /\ g.kind = f.kind /\ g.id = f.id /\ g.params = f.params /\ g.owner = f.owner
  <2>1. f \in [kind : {"root", "macro", "param"}, id : Nat, params : Seq(Nat), owner : Nat, read : Nat]
    BY <1>1 DEF FrameSet
  <2>2. g \in [kind : {"root", "macro", "param"}, id : Nat, params : Seq(Nat), owner : Nat, read : Nat]
        /\ g.kind = f.kind /\ g.id = f.id /\ g.params = f.params /\ g.owner = f.owner
    BY <2>1
  <2> QED
    BY <2>2 DEF FrameSet
<1>3. Advanced(fs) = [fs EXCEPT ![n] = g]
  BY DEF Advanced, f
<1> HIDE DEF g
<1>4. [fs EXCEPT ![n] = g] \in Seq(FrameSet) /\ Len([fs EXCEPT ![n] = g]) = n
  BY <1>1, <1>2
<1>5. \A j \in 1 .. n : [fs EXCEPT ![n] = g][j] = IF j = n THEN g ELSE fs[j]
  BY <1>1
<1> QED
  BY <1>1, <1>2, <1>3, <1>4, <1>5 DEF Cut, f

\* ... nor does taking frames from the top.
LEMMA SubSeqCut ==
  ASSUME NEW fs, FramesOK(fs), NEW d \in 1 .. Len(fs)
  PROVE  Cut(fs, SubSeq(fs, 1, d)) /\ Len(SubSeq(fs, 1, d)) = d
<1>1. fs \in Seq(FrameSet) /\ Len(fs) \in Nat
  BY DEF FramesOK
<1>2. SubSeq(fs, 1, d) \in Seq(FrameSet) /\ Len(SubSeq(fs, 1, d)) = d
      /\ \A j \in 1 .. d : SubSeq(fs, 1, d)[j] = fs[j]
  BY <1>1
<1> QED
  BY <1>1, <1>2 DEF Cut

LEMMA CutTwice ==
  ASSUME NEW fs, NEW gs, NEW hs, Cut(fs, gs), Cut(gs, hs), Len(fs) \in Nat
  PROVE  Cut(fs, hs)
BY DEF Cut

\* _pop_stack_until_peekable ends at the root at the latest, and leaves the
\* frames of these kinds that it passes.
LEMMA PeekableIs ==
  ASSUME NEW fs, FramesOK(fs), NEW kinds, "root" \notin kinds
  PROVE  /\ Peekable(fs, kinds) \in 1 .. Len(fs)
         /\ \A j \in Peekable(fs, kinds) + 1 .. Len(fs) : fs[j].kind \in kinds
<1> DEFINE S == { d \in DOMAIN fs : fs[d].kind \notin kinds \/ HasNext(fs[d]) }
<1>1. Len(fs) \in Nat /\ Len(fs) >= 1 /\ DOMAIN fs = 1 .. Len(fs) /\ fs[1].kind = "root"
  BY DEF FramesOK
<1>2. S \subseteq Int /\ 1 \in S /\ \A x \in S : x <= Len(fs)
  BY <1>1
<1>3. Peekable(fs, kinds) = Max(S)
  BY DEF Peekable
<1>4. \A x \in DOMAIN fs : x \notin S => fs[x].kind \in kinds
  OBVIOUS
<1>5. S \subseteq 1 .. Len(fs)
  BY <1>1
<1> HIDE DEF S
<1>6. Max(S) \in S /\ \A y \in S : y <= Max(S)
  <2>1. S # {} /\ Len(fs) \in Int
    BY <1>1, <1>2
  <2> QED
    BY <1>2, <2>1, IntMax
<1>7. \A j \in Max(S) + 1 .. Len(fs) : j \in DOMAIN fs /\ j \notin S
  <2>1. Max(S) \in 1 .. Len(fs)
    BY <1>5, <1>6
  <2>2. \A y \in S : y \in Int /\ y <= Max(S)
    BY <1>2, <1>6
  <2> QED
    BY <1>1, <2>1, <2>2
<1>8. Max(S) \in 1 .. Len(fs)
  BY <1>5, <1>6
<1> QED
  BY <1>3, <1>4, <1>7, <1>8

\* A frame more, without arguments that another one holds.
LEMMA Pushed ==
  ASSUME NEW fs, NEW f \in FrameSet, FramesOK(fs), f.kind # "root", f.kind # "macro" => f.params = <<>>
  PROVE  /\ FramesOK(Append(fs, f)) /\ Len(Append(fs, f)) = Len(fs) + 1
         /\ \A j \in 1 .. Len(fs) : Append(fs, f)[j] = fs[j]
         /\ Append(fs, f)[Len(fs) + 1] = f
         /\ OfFrames(Append(fs, f), 1) = OfFrames(fs, 1) \cup ToSet(f.params)
<1> DEFINE gs == Append(fs, f)
<1>1. fs \in Seq(FrameSet) /\ Len(fs) \in Nat /\ Len(fs) >= 1
  BY DEF FramesOK
<1>2. /\ gs \in Seq(FrameSet) /\ Len(gs) = Len(fs) + 1
      /\ \A j \in 1 .. Len(fs) : gs[j] = fs[j]
      /\ gs[Len(fs) + 1] = f
  BY <1>1
<1> HIDE DEF gs
<1>3. \A j \in 1 .. Len(gs) : j \in 1 .. Len(fs) \/ j = Len(fs) + 1
  BY <1>1, <1>2
<1>4. FramesOK(gs)
  BY <1>1, <1>2, <1>3 DEF FramesOK
<1>5. OfFrames(gs, 1) = OfFrames(fs, 1) \cup ToSet(f.params)
  <2>1. \A j \in 1 .. Len(fs) : j \in 1 .. Len(gs)
    BY <1>1, <1>2
  <2>2. Len(fs) + 1 \in 1 .. Len(gs)
    BY <1>1, <1>2
  <2> QED
    BY <1>2, <1>3, <2>1, <2>2 DEF OfFrames
<1> QED
  BY <1>2, <1>4, <1>5 DEF gs

\* The new frame takes its arguments over from the call.
LEMMA PushedHeld ==
  ASSUME NEW fs, NEW f \in FrameSet, NEW live, NEW inCall, NEW left,
         FramesOK(fs), HeldOK(fs, live, inCall), f.kind # "root", f.kind # "macro" => f.params = <<>>,
         inCall = left \cup ToSet(f.params), left \cap ToSet(f.params) = {},
         f.kind = "param" => f.owner \in 1 .. Len(fs) /\ f.id \in ToSet(fs[f.owner].params)
  PROVE  FramesOK(Append(fs, f)) /\ HeldOK(Append(fs, f), live, left)
<1> DEFINE gs == Append(fs, f)
           n == Len(fs) + 1
<1>1. /\ FramesOK(gs) /\ Len(gs) = n /\ gs[n] = f
      /\ \A j \in 1 .. Len(fs) : gs[j] = fs[j]
      /\ OfFrames(gs, 1) = OfFrames(fs, 1) \cup ToSet(f.params)
  BY Pushed
<1>2. Len(fs) \in Nat /\ \A j \in 1 .. n : j \in 1 .. Len(fs) \/ j = n
  BY DEF FramesOK
<1> HIDE DEF gs
<1>3. live = left \cup OfFrames(gs, 1)
  BY <1>1 DEF HeldOK
<1>4. \A j \in 1 .. Len(fs) : ToSet(gs[j].params) \cap (left \cup ToSet(f.params)) = {}
  BY <1>1 DEF HeldOK
<1>5. ASSUME NEW j \in 1 .. Len(gs), NEW k \in 1 .. Len(gs), j # k
      PROVE  ToSet(gs[j].params) \cap ToSet(gs[k].params) = {}
  <2>1. CASE j \in 1 .. Len(fs) /\ k \in 1 .. Len(fs)
    <3>1. ToSet(fs[j].params) \cap ToSet(fs[k].params) = {}
      BY <1>5, <2>1 DEF HeldOK
    <3> QED
      BY <1>1, <2>1, <3>1
  <2>2. CASE j = n /\ k \in 1 .. Len(fs)
    BY <1>1, <1>4, <2>2
  <2>3. CASE k = n /\ j \in 1 .. Len(fs)
    BY <1>1, <1>4, <2>3
  <2> QED
    BY <1>1, <1>2, <1>5, <2>1, <2>2, <2>3
<1>6. \A j \in 1 .. Len(gs) : ToSet(gs[j].params) \cap left = {}
  BY <1>1, <1>2, <1>4
<1>7. ASSUME NEW j \in 1 .. Len(gs), gs[j].kind = "param"
      PROVE  gs[j].owner \in 1 .. (j - 1) /\ gs[j].id \in ToSet(gs[gs[j].owner].params)
  <2>1. CASE j \in 1 .. Len(fs)
    <3>1. fs[j].owner \in 1 .. (j - 1) /\ fs[j].id \in ToSet(fs[fs[j].owner].params)
      BY <1>1, <1>7, <2>1 DEF HeldOK
    <3>2. fs[j].owner \in 1 .. Len(fs)
      BY <1>2, <2>1, <3>1
    <3> QED
      BY <1>1, <2>1, <3>1, <3>2
  <2>2. CASE j = n
    <3>1. f.owner \in 1 .. Len(fs) /\ f.id \in ToSet(fs[f.owner].params)
      BY <1>1, <1>7, <2>2
    <3>2. f.owner \in 1 .. (j - 1)
      BY <1>2, <2>2, <3>1
    <3> QED
      BY <1>1, <2>2, <3>1, <3>2
  <2> QED
    BY <1>1, <1>2, <2>1, <2>2
<1>8. HeldOK(gs, live, left)
  BY <1>3, <1>5, <1>6, <1>7 DEF HeldOK
<1> QED
  BY <1>1, <1>8 DEF gs

------------------------------------------------------------------------------
(* The inductive invariant.                                                 *)

CallSet ==
  [state : {"none", "bracket", "args", "enter"}, args : Nat, open : Int,
   heap : Seq(Nat \ {0}), parsed : Seq(Nat \ {0}), id : Nat]

CallOK ==
  /\ call \in CallSet
  /\ call.state = "none" => call = NoCall
  /\ call.state = "bracket" => call.parsed = <<>> /\ call.id = 0
  /\ call.state = "args" => call.id # 0
  /\ call.state = "enter" => call.id = 0 /\ (call.args = 0 => call.parsed = <<>>)
  /\ call.state # "none" => found \in DOMAIN table.map

\* No directive removes a macro that is being expanded: between two lines there
\* is no frame but the root.
MacrosLive ==
  /\ failed \/ running \/ Len(frames) = 1
  /\ \A j \in 1 .. Len(frames) : frames[j].kind = "macro" => frames[j].id \in Live(table)

ExpandInv ==
  /\ Inv
  /\ FramesOK(frames) /\ line \in Seq(Words) /\ ParamShape(params)
  /\ CallOK /\ MacrosLive
  /\ HeldOK(frames, Param!Live(params), InCall)

LEMMA InitExpandInv == Init0 => ExpandInv
<1> SUFFICES ASSUME Init0 PROVE ExpandInv
  OBVIOUS
<1>1. Inv
  BY InitInv DEF Init0
<1>2. frames = <<Root>> /\ Root \in FrameSet /\ Root.kind = "root" /\ Root.params = <<>>
  BY DEF Init0, Root, Frame, FrameSet
<1>3. FramesOK(frames) /\ Len(frames) = 1 /\ \A j \in 1 .. Len(frames) : j = 1 /\ frames[j] = Root
  <2> HIDE DEF Root
  <2> QED
    BY <1>2 DEF FramesOK
<1>4. line \in Seq(Words) /\ call = NoCall
  BY DEF Init0
<1>5. params.map = <<>> /\ params.n = 0 /\ params \in [map : Seq(Arguments), n : 0 .. ParamIdMax]
  BY ParamAssumption DEF Init0, NoTable
<1>6. ParamShape(params) /\ Param!Live(params) = {}
  <2>1. Len(params.map) = 0 /\ DOMAIN params.map = {}
    BY <1>5
  <2> QED
    BY <1>5, <2>1 DEF ParamShape, Param!Live
<1>7. CallOK
  BY <1>4 DEF CallOK, CallSet, NoCall
<1>8. MacrosLive
  BY <1>2, <1>3 DEF MacrosLive
<1>9. InCall = {} /\ OfFrames(frames, 1) = {}
  BY <1>2, <1>3, <1>4 DEF InCall, NoCall, OfFrames, ToSet
<1>10. HeldOK(frames, Param!Live(params), InCall)
  <2>1. \A j \in 1 .. Len(frames) : frames[j].kind # "param" /\ ToSet(frames[j].params) = {}
    BY <1>2, <1>3 DEF ToSet
  <2> QED
    BY <1>3, <1>6, <1>9, <2>1 DEF HeldOK
<1> QED
  BY <1>1, <1>3, <1>4, <1>6, <1>7, <1>8, <1>10 DEF ExpandInv

\* What a frame reads is tokens: the words of the line, a body that is there, an
\* argument that is alive.
LEMMA SourceIs ==
  ASSUME ExpandInv, NEW j \in 1 .. Len(frames)
  PROVE  Source(frames[j]) \in Seq(Tokens)
<1> DEFINE f == frames[j]
<1>1. f \in FrameSet
  BY DEF ExpandInv, FramesOK
<1>2. \A w \in Words : Word(w) \in Tokens
  BY DEF Word, Tokens
<1>3. CASE f.kind = "root"
  <2>1. Source(f) = [i \in DOMAIN line |-> Word(line[i])]
    BY <1>3 DEF Source
  <2>2. line \in Seq(Words) /\ Len(line) \in Nat /\ DOMAIN line = 1 .. Len(line)
    BY DEF ExpandInv
  <2>3. [i \in DOMAIN line |-> Word(line[i])] \in [1 .. Len(line) -> Tokens]
    BY <1>2, <2>2
  <2> QED
    BY <2>1, <2>2, <2>3
<1>4. CASE f.kind = "macro"
  <2>1. f.id \in DOMAIN table.map /\ table.map[f.id] # Null
    BY <1>4 DEF ExpandInv, MacrosLive, Live
  <2>2. PICK x \in Names : x = table.map[f.id]
    BY <2>1 DEF ExpandInv, Inv, Shape, Entries
  <2>3. Source(f) = [i \in DOMAIN Text[x] |-> MarkOf(x, Text[x][i])]
    BY <1>4, <2>2 DEF Source, Bodies
  <2>4. /\ Text[x] \in Seq(Words) /\ Len(Text[x]) \in Nat /\ DOMAIN Text[x] = 1 .. Len(Text[x])
        /\ Args[x] \in Seq(Words) /\ DOMAIN Args[x] \subseteq Nat
    BY MacrosAssumption
  <2>5. ASSUME NEW w \in Words PROVE MarkOf(x, w) \in Tokens
    <3> DEFINE places == { k \in DOMAIN Args[x] : Args[x][k] = w }
    <3>1. CASE places = {}
      BY <1>2, <3>1 DEF MarkOf
    <3>2. CASE places # {}
      <4>1. places \subseteq Nat
        BY <2>4
      <4>2. Min(places) \in Nat
        BY <3>2, <4>1, NatMin
      <4> QED
        BY <3>2, <4>2 DEF MarkOf, Tokens
    <3> QED
      BY <3>1, <3>2
  <2>6. [i \in DOMAIN Text[x] |-> MarkOf(x, Text[x][i])] \in [1 .. Len(Text[x]) -> Tokens]
    BY <2>4, <2>5
  <2> QED
    BY <2>3, <2>4, <2>6
<1>5. CASE f.kind = "param"
  <2>1. f.owner \in 1 .. Len(frames) /\ f.id \in ToSet(frames[f.owner].params)
    BY <1>5 DEF ExpandInv, HeldOK, FramesOK
  <2>2. f.id \in Param!Live(params)
    BY <2>1 DEF ExpandInv, HeldOK, OfFrames
  <2>3. f.id \in DOMAIN params.map /\ params.map[f.id] # Null /\ params.map \in Seq(Arguments)
    BY <2>2 DEF Param!Live, ExpandInv, ParamShape
  <2> QED
    BY <1>5, <2>3 DEF Source, Arguments
<1> QED
  BY <1>1, <1>3, <1>4, <1>5 DEF FrameSet

LEMMA TopIs ==
  ASSUME FramesOK(frames)
  PROVE  Len(frames) \in Nat /\ Len(frames) \in 1 .. Len(frames) /\ Top = frames[Len(frames)] /\ Top \in FrameSet
BY DEF FramesOK, Top, Last

LEMMA TokIs ==
  ASSUME ExpandInv, HasNext(Top)
  PROVE  Tok \in Tokens /\ Top.read + 1 \in 1 .. Len(Source(Top))
<1>1. Source(Top) \in Seq(Tokens) /\ Top.read \in Nat
  BY TopIs, SourceIs DEF ExpandInv, FrameSet
<1>2. Len(Source(Top)) \in Nat /\ Top.read < Len(Source(Top))
  BY <1>1 DEF HasNext
<1> QED
  BY <1>1, <1>2 DEF Tok, NextOf

\* A new argument of the call is held by no frame.
LEMMA InCallGrows ==
  ASSUME NEW fs, NEW live, NEW inCall, NEW id, HeldOK(fs, live, inCall), id \notin live
  PROVE  HeldOK(fs, live \cup {id}, inCall \cup {id})
<1>1. \A j \in 1 .. Len(fs) : ToSet(fs[j].params) \subseteq live
  BY DEF HeldOK, OfFrames
<1>2. \A j \in 1 .. Len(fs) : ToSet(fs[j].params) \cap (inCall \cup {id}) = {}
  BY <1>1 DEF HeldOK
<1>3. live \cup {id} = (inCall \cup {id}) \cup OfFrames(fs, 1)
  BY DEF HeldOK
<1> QED
  BY <1>2, <1>3 DEF HeldOK

LEMMA CutMacrosLive ==
  ASSUME MacrosLive, Cut(frames, frames'), Len(frames) \in Nat, table' = table, running' \/ failed'
  PROVE  MacrosLive'
<1>1. \A j \in 1 .. Len(frames') : j \in 1 .. Len(frames) /\ frames'[j].kind = frames[j].kind /\ frames'[j].id = frames[j].id
  BY DEF Cut
<1> QED
  BY <1>1 DEF MacrosLive, Live

\* A step that reads, and takes frames with their arguments from the top.
LEMMA Moved ==
  ASSUME ExpandInv, UNCHANGED <<vars, line>>, running' \/ failed',
         Cut(frames, frames'), ParamShape(params'),
         Param!Live(params') = Param!Live(params) \ OfFrames(frames, Len(frames') + 1),
         CallOK', InCall' = InCall
  PROVE  ExpandInv'
<1>1. Inv'
  BY StepInv DEF ExpandInv
<1>2. FramesOK(frames') /\ HeldOK(frames', Param!Live(params'), InCall)
  BY CutHeld DEF ExpandInv
<1>3. table' = table /\ line' = line
  BY DEF vars
<1>4. MacrosLive'
  BY <1>3, TopIs, CutMacrosLive DEF ExpandInv
<1> QED
  BY <1>1, <1>2, <1>3, <1>4 DEF ExpandInv

\* ... and takes none.
LEMMA NothingAbove == ASSUME NEW fs, Len(fs) \in Nat PROVE OfFrames(fs, Len(fs) + 1) = {}
<1>1. Len(fs) + 1 .. Len(fs) = {}
  OBVIOUS
<1> QED
  BY <1>1 DEF OfFrames

LEMMA MovedOn ==
  ASSUME ExpandInv, UNCHANGED <<vars, line, params>>, running' \/ failed',
         frames' = Advanced(frames), CallOK', InCall' = InCall
  PROVE  ExpandInv'
<1>1. Cut(frames, frames') /\ Len(frames') = Len(frames) /\ Len(frames) \in Nat
  BY AdvancedCut, TopIs DEF ExpandInv
<1>2. OfFrames(frames, Len(frames') + 1) = {}
  BY <1>1, NothingAbove
<1> QED
  BY <1>1, <1>2, Moved DEF ExpandInv

------------------------------------------------------------------------------
(* One lemma for each action.                                               *)

LEMMA CallStays == ASSUME CallOK, UNCHANGED <<vars, call, found>> PROVE CallOK' /\ InCall' = InCall
BY DEF CallOK, InCall, vars

\* The call does not look at found_id while it has not begun.
LEMMA NoCallStays == ASSUME CallOK, call.state = "none", UNCHANGED call PROVE CallOK' /\ InCall' = InCall
<1>1. call = NoCall
  BY DEF CallOK
<1> QED
  BY <1>1 DEF CallOK, CallSet, InCall, NoCall

LEMMA ArgsCallOK ==
  ASSUME NEW n \in Nat, NEW o \in Int, NEW h \in Seq(Nat \ {0}), NEW p \in Seq(Nat \ {0}), NEW i \in Nat, i # 0,
         call' = [state |-> "args", args |-> n, open |-> o, heap |-> h, parsed |-> p, id |-> i],
         found \in DOMAIN table.map, table' = table, found' = found
  PROVE  CallOK'
<1>1. call' \in CallSet
  BY DEF CallSet
<1>2. call'.state = "args" /\ call'.id # 0
  OBVIOUS
<1> QED
  BY <1>1, <1>2 DEF CallOK

LEMMA StepsOfLine ==
  ASSUME ExpandInv, EndOfLine \/ EndOfLineInArgs \/ Fail
  PROVE  ExpandInv'
<1>1. /\ UNCHANGED <<vars, line, frames, params, call, found>>
      /\ failed' \/ Len(frames) = 1
  BY DEF EndOfLine, EndOfLineInArgs, Fail, InArgs, Reading, Step
<1>2. Inv'
  BY <1>1, StepInv DEF ExpandInv
<1>3. CallOK' /\ InCall' = InCall
  BY <1>1, CallStays DEF ExpandInv
<1>4. MacrosLive'
  BY <1>1 DEF MacrosLive, ExpandInv, Live, vars
<1> QED
  BY <1>1, <1>2, <1>3, <1>4 DEF ExpandInv

LEMMA AppendedSet ==
  ASSUME NEW S, NEW s \in Seq(S), NEW e \in S
  PROVE  Append(s, e) \in Seq(S) /\ ToSet(Append(s, e)) = ToSet(s) \cup {e}
<1>1. /\ DOMAIN Append(s, e) = DOMAIN s \cup {Len(s) + 1} /\ Append(s, e)[Len(s) + 1] = e
      /\ \A k \in DOMAIN s : Append(s, e)[k] = s[k]
  OBVIOUS
<1> QED
  BY <1>1 DEF ToSet

LEMMA StepEndOfFrame == ASSUME ExpandInv, EndOfFrame PROVE ExpandInv'
<1> DEFINE n == Len(frames)
<1>1. /\ n > 1 /\ frames' = Front(frames) /\ params' = Dropped(ToSet(Top.params))
      /\ UNCHANGED <<vars, line, call, found, running>> /\ running
  BY DEF EndOfFrame, Reading, Step
<1>2. n \in Nat /\ n - 1 \in 1 .. n /\ Top = frames[n]
  BY <1>1, TopIs DEF ExpandInv
<1>3. Cut(frames, frames') /\ Len(frames') = n - 1
  BY <1>1, <1>2, SubSeqCut DEF ExpandInv, Front
<1>4. OfFrames(frames, Len(frames') + 1) = ToSet(Top.params)
  <2>1. Len(frames') + 1 .. Len(frames) = {n}
    BY <1>2, <1>3
  <2> QED
    BY <1>2, <2>1 DEF OfFrames
<1>5. ParamShape(params') /\ Param!Live(params') = Param!Live(params) \ ToSet(Top.params)
  BY <1>1, ParamDropped DEF ExpandInv
<1>6. CallOK' /\ InCall' = InCall
  BY <1>1, CallStays DEF ExpandInv
<1> QED
  BY <1>1, <1>3, <1>4, <1>5, <1>6, Moved

LEMMA StepsOfWord == ASSUME ExpandInv, StartLiteral \/ NewLine PROVE ExpandInv'
<1>1. frames' = Advanced(frames) /\ UNCHANGED <<vars, line, params, call, found, running>> /\ running
  BY DEF StartLiteral, NewLine, Reading, Step
<1>2. CallOK' /\ InCall' = InCall
  BY <1>1, CallStays DEF ExpandInv
<1> QED
  BY <1>1, <1>2, MovedOn

LEMMA StepPutWord == ASSUME ExpandInv, PutWord PROVE ExpandInv'
<1> DEFINE read == Advanced(frames)
           d == Peekable(read, {"macro", "param"})
           rest == SubSeq(read, 1, d)
<1>1. /\ UNCHANGED <<vars, line, call, running>> /\ running /\ call.state = "none"
      /\ frames' = rest \/ frames' = Advanced(rest)
      /\ params' = Dropped(ParamsAbove(d))
  BY DEF PutWord, Reading, Step
<1>2. FramesOK(frames) /\ Len(frames) \in Nat
  BY TopIs DEF ExpandInv
<1>3. Cut(frames, read) /\ Len(read) = Len(frames)
  BY <1>2, AdvancedCut
<1>4. FramesOK(read)
  BY <1>3, CutHeld DEF ExpandInv
<1> HIDE DEF read
<1>5. d \in 1 .. Len(read)
  BY <1>4, PeekableIs
<1> HIDE DEF d
<1>6. Cut(read, rest) /\ Len(rest) = d
  BY <1>4, <1>5, SubSeqCut
<1>7. Cut(frames, rest)
  BY <1>2, <1>3, <1>6, CutTwice
<1>8. FramesOK(rest)
  BY <1>7, CutHeld DEF ExpandInv
<1> HIDE DEF rest
<1>9. Cut(rest, Advanced(rest)) /\ Len(Advanced(rest)) = d
  BY <1>6, <1>8, AdvancedCut
<1>10. Cut(frames, Advanced(rest))
  BY <1>2, <1>7, <1>9, CutTwice
<1>11. Cut(frames, frames') /\ Len(frames') = d
  BY <1>1, <1>6, <1>7, <1>9, <1>10
<1>12. OfFrames(frames, d + 1) = ParamsAbove(d)
  BY DEF OfFrames, ParamsAbove
<1>13. ParamShape(params') /\ Param!Live(params') = Param!Live(params) \ ParamsAbove(d)
  BY <1>1, ParamDropped DEF ExpandInv
<1>14. CallOK' /\ InCall' = InCall
  BY <1>1, NoCallStays DEF ExpandInv
<1> QED
  BY <1>1, <1>11, <1>12, <1>13, <1>14, Moved

\* macro_lookup of any word.
LEMMA LookupFound ==
  ASSUME Inv, NEW w \in Words, Lookup(w) # 0
  PROVE  w \in Names /\ Lookup(w) \in DOMAIN table.map
<1>1. table.map \in Seq(Entries) /\ DOMAIN table.map \subseteq Nat
  BY DEF Inv, Shape
<1>2. IdsOf(w) \subseteq Nat /\ IdsOf(w) # {} /\ Lookup(w) = Min(IdsOf(w))
  BY <1>1 DEF IdsOf, Lookup
<1>3. Lookup(w) \in IdsOf(w)
  BY <1>2, NatMin
<1>4. Lookup(w) \in DOMAIN table.map /\ table.map[Lookup(w)] = w
  BY <1>3 DEF IdsOf
<1> QED
  BY <1>1, <1>4, MacrosAssumption DEF Entries

LEMMA StepFindMacro == ASSUME ExpandInv, FindMacro PROVE ExpandInv'
<1> DEFINE n == Len(Args[Tok.word])
<1>1. /\ UNCHANGED <<vars, line, running>> /\ running /\ call.state = "none"
      /\ HasNext(Top) /\ Lookup(Tok.word) # 0 /\ found' = Lookup(Tok.word)
      /\ call' = [call EXCEPT !.args = n, !.state = IF n > 0 THEN "bracket" ELSE "enter"]
      /\ frames' = IF IsAlias THEN Front(frames) ELSE Advanced(frames)
      /\ params' = IF IsAlias THEN Dropped(ToSet(Top.params)) ELSE params
  BY DEF FindMacro, IsCall, IsWord, Reading, Step
<1>2. Tok.word \in Words
  BY <1>1, TokIs DEF Tokens
<1>3. Tok.word \in Names /\ found' \in DOMAIN table.map
  BY <1>1, <1>2, LookupFound DEF ExpandInv
<1>4. n \in Nat
  BY <1>3, MacrosAssumption
<1>5. call = NoCall
  BY <1>1 DEF ExpandInv, CallOK, CallSet
<1>6. CallOK' /\ InCall' = InCall
  <2>1. table' = table
    BY <1>1 DEF vars
  <2>2. call' = [state |-> IF n > 0 THEN "bracket" ELSE "enter", args |-> n, open |-> 0,
                 heap |-> <<>>, parsed |-> <<>>, id |-> 0]
    BY <1>1, <1>5 DEF NoCall
  <2> HIDE DEF n
  <2>3. CallOK'
    BY <1>3, <1>4, <2>1, <2>2 DEF CallOK, CallSet
  <2>4. InCall' = InCall
    BY <1>5, <2>2 DEF InCall, NoCall
  <2> QED
    BY <2>3, <2>4
<1>7. CASE IsAlias
  <2>1. Len(frames) \in Nat /\ Len(frames) # 1 /\ Len(frames) >= 1 /\ Top = frames[Len(frames)]
    BY <1>7, TopIs DEF IsAlias, ExpandInv, FramesOK
  <2>2. Len(frames) - 1 \in 1 .. Len(frames)
    BY <2>1
  <2>3. Cut(frames, frames') /\ Len(frames') = Len(frames) - 1
    BY <1>1, <1>7, <2>2, SubSeqCut DEF ExpandInv, Front
  <2>4. OfFrames(frames, Len(frames') + 1) = ToSet(Top.params)
    <3>1. Len(frames') + 1 .. Len(frames) = {Len(frames)}
      BY <2>1, <2>3
    <3> QED
      BY <2>1, <3>1 DEF OfFrames
  <2>5. ParamShape(params') /\ Param!Live(params') = Param!Live(params) \ ToSet(Top.params)
    BY <1>1, <1>7, ParamDropped DEF ExpandInv
  <2> QED
    BY <1>1, <1>6, <2>3, <2>4, <2>5, Moved
<1>8. CASE ~IsAlias
  BY <1>1, <1>6, <1>8, MovedOn
<1> QED
  BY <1>7, <1>8

LEMMA StepEnterParam == ASSUME ExpandInv, EnterParam PROVE ExpandInv'
<1> DEFINE o == Owner(Tok.par)
           k == Index(Tok.par)
           read == Advanced(frames)
           f == Frame("param", frames[o].params[k], <<>>, o)
<1>1. /\ UNCHANGED <<vars, line, call, found, running, params>> /\ running
      /\ IsGiven(Tok.par) /\ frames' = Append(read, f)
  BY DEF EnterParam, Reading, Step
<1>2. Depth \in 1 .. Len(frames)
  <2>1. CASE Top.kind = "param"
    BY <2>1, TopIs DEF Depth, ExpandInv, HeldOK
  <2>2. CASE Top.kind # "param"
    BY <2>2, TopIs DEF Depth, ExpandInv
  <2> QED
    BY <2>1, <2>2
<1>3. o \in 1 .. Len(frames)
  <2>1. Depth # 1
    BY <1>1, <1>2 DEF IsGiven, IsOwned, ExpandInv, FramesOK
  <2> QED
    BY <1>2, <2>1, TopIs DEF Owner, ExpandInv
<1>4. k \in DOMAIN frames[o].params
  BY <1>1 DEF IsGiven
<1> HIDE DEF o
<1>5. frames[o].params \in Seq(Nat)
  <2>1. frames \in Seq(FrameSet)
    BY DEF ExpandInv, FramesOK
  <2>2. frames[o] \in FrameSet
    BY <1>3, <2>1
  <2> QED
    BY <2>2 DEF FrameSet
<1>6. frames[o].params[k] \in ToSet(frames[o].params) /\ frames[o].params[k] \in Nat
  BY <1>4, <1>5 DEF ToSet
<1> HIDE DEF k
<1>7. f \in FrameSet /\ f.kind = "param" /\ f.params = <<>> /\ f.owner = o /\ f.id = frames[o].params[k]
  BY <1>3, <1>6, TopIs DEF Frame, FrameSet, ExpandInv
<1>8. ToSet(f.params) = {}
  BY <1>7 DEF ToSet
<1> HIDE DEF f
<1>9. Cut(frames, read) /\ Len(read) = Len(frames) /\ Len(frames) \in Nat
  BY AdvancedCut, TopIs DEF ExpandInv
<1>10. OfFrames(frames, Len(read) + 1) = {}
  BY <1>9, NothingAbove
<1>11. FramesOK(read) /\ HeldOK(read, Param!Live(params), InCall)
  <2>1. Param!Live(params) \ {} = Param!Live(params)
    OBVIOUS
  <2> QED
    BY <1>9, <1>10, <2>1, CutHeld, SMTT(30) DEF ExpandInv
<1>12. f.owner \in 1 .. Len(read) /\ f.id \in ToSet(read[f.owner].params)
  BY <1>3, <1>6, <1>7, <1>9 DEF Cut
<1>13. FramesOK(Append(read, f)) /\ HeldOK(Append(read, f), Param!Live(params), InCall)
  <2>1. InCall = InCall \cup ToSet(f.params) /\ InCall \cap ToSet(f.params) = {}
    BY <1>8
  <2> HIDE DEF read
  <2> QED
    BY <1>7, <1>11, <1>12, <2>1, PushedHeld
<1>14. CallOK' /\ InCall' = InCall
  BY <1>1, CallStays DEF ExpandInv
<1>15. Inv' /\ table' = table
  BY <1>1, StepInv DEF ExpandInv, vars
<1>16. MacrosLive'
  <2>1. /\ Len(frames') = Len(frames) + 1 /\ frames'[Len(frames) + 1] = f
        /\ \A j \in 1 .. Len(frames) : frames'[j] = read[j] /\ read[j].kind = frames[j].kind /\ read[j].id = frames[j].id
    <3>1. Len(Append(read, f)) = Len(read) + 1 /\ Append(read, f)[Len(read) + 1] = f
          /\ \A j \in 1 .. Len(read) : Append(read, f)[j] = read[j]
      BY <1>7, <1>11, Pushed
    <3>2. \A j \in 1 .. Len(read) : read[j].kind = frames[j].kind /\ read[j].id = frames[j].id
      BY <1>9 DEF Cut
    <3> QED
      BY <1>1, <1>9, <3>1, <3>2
  <2>2. \A j \in 1 .. Len(frames') : j \in 1 .. Len(frames) \/ j = Len(frames) + 1
    BY <1>9, <2>1
  <2> QED
    BY <1>1, <1>7, <1>15, <2>1, <2>2 DEF MacrosLive, ExpandInv, Live
<1> QED
  BY <1>1, <1>13, <1>14, <1>15, <1>16 DEF ExpandInv

LEMMA StepEnterMacro == ASSUME ExpandInv, EnterMacro PROVE ExpandInv'
<1> DEFINE ps == IF call.args > 0 THEN call.parsed ELSE <<>>
           f == Frame("macro", found, ps, 0)
<1>1. /\ UNCHANGED <<vars, line, found, running, params>> /\ running
      /\ call.state = "enter" /\ table.map[found] # Null
      /\ frames' = Append(frames, f) /\ call' = NoCall
  BY DEF EnterMacro, Step
<1>2. /\ call.id = 0 /\ call.parsed \in Seq(Nat \ {0}) /\ found \in DOMAIN table.map
      /\ call.args \in Nat /\ (call.args = 0 => call.parsed = <<>>)
  BY <1>1 DEF ExpandInv, CallOK, CallSet
<1>3. ps = call.parsed
  BY <1>2
<1>4. found \in Live(table) /\ found \in Nat
  BY <1>1, <1>2 DEF Live, ExpandInv, Inv, Shape
<1>5. ps \in Seq(Nat)
  <2>1. Seq(Nat \ {0}) \subseteq Seq(Nat)
    OBVIOUS
  <2> QED
    BY <1>2, <1>3, <2>1
<1> HIDE DEF ps
<1>6. f \in FrameSet /\ f.kind = "macro" /\ f.params = ps /\ f.id = found
  BY <1>4, <1>5 DEF Frame, FrameSet
<1> HIDE DEF f
<1>7. InCall = ToSet(f.params) /\ InCall' = {}
  BY <1>1, <1>2, <1>3, <1>6 DEF InCall, NoCall, ToSet
<1>8. FramesOK(frames') /\ HeldOK(frames', Param!Live(params'), InCall')
  <2>1. FramesOK(Append(frames, f)) /\ HeldOK(Append(frames, f), Param!Live(params), {})
    <3>1. InCall = {} \cup ToSet(f.params) /\ {} \cap ToSet(f.params) = {}
      BY <1>7
    <3>2. FramesOK(frames) /\ HeldOK(frames, Param!Live(params), InCall)
      BY DEF ExpandInv
    <3>3. f.kind # "root" /\ f.kind # "param"
      BY <1>6
    <3> QED
      BY <1>6, <3>1, <3>2, <3>3, PushedHeld
  <2> QED
    BY <1>1, <1>7, <2>1
<1>9. Inv' /\ table' = table
  BY <1>1, StepInv DEF ExpandInv, vars
<1>10. MacrosLive'
  <2>1. /\ Len(frames') = Len(frames) + 1 /\ frames'[Len(frames) + 1] = f
        /\ \A j \in 1 .. Len(frames) : frames'[j] = frames[j]
    <3>1. f.kind # "root" /\ (f.kind # "macro" => f.params = <<>>)
      BY <1>6
    <3> QED
      BY <1>1, <1>6, <3>1, Pushed DEF ExpandInv
  <2>2. \A j \in 1 .. Len(frames') : j \in 1 .. Len(frames) \/ j = Len(frames) + 1
    BY <2>1, TopIs DEF ExpandInv
  <2> QED
    BY <1>1, <1>4, <1>6, <1>9, <2>1, <2>2 DEF MacrosLive, ExpandInv, Live
<1>11. CallOK'
  BY <1>1 DEF CallOK, CallSet, NoCall
<1> QED
  BY <1>1, <1>8, <1>9, <1>10, <1>11 DEF ExpandInv

LEMMA StepGather == ASSUME ExpandInv, Gather PROVE ExpandInv'
<1> DEFINE change == IF Is("(") THEN 1 ELSE IF Is(")") THEN -1 ELSE 0
<1>1. /\ UNCHANGED <<vars, line, params, found, running>> /\ running
      /\ frames' = Advanced(frames) /\ call.state = "args"
      /\ call' = [call EXCEPT !.heap = Append(@, Top.read + 1), !.open = @ + change]
  BY DEF Gather, InArgs, Step
<1>2. Top.read \in Nat
  BY TopIs DEF ExpandInv, FrameSet
<1>3. change \in Int
  OBVIOUS
<1> HIDE DEF change
<1>4. /\ call \in [state : {"none", "bracket", "args", "enter"}, args : Nat, open : Int,
                   heap : Seq(Nat \ {0}), parsed : Seq(Nat \ {0}), id : Nat]
      /\ call.id # 0 /\ found \in DOMAIN table.map
  BY <1>1 DEF ExpandInv, CallOK, CallSet
<1>5. Append(call.heap, Top.read + 1) \in Seq(Nat \ {0})
  <2>1. Top.read + 1 \in Nat \ {0} /\ call.heap \in Seq(Nat \ {0})
    BY <1>2, <1>4
  <2> HIDE DEF Top
  <2> QED
    BY <2>1
<1>6. call' = [state |-> "args", args |-> call.args, open |-> call.open + change,
               heap |-> Append(call.heap, Top.read + 1), parsed |-> call.parsed, id |-> call.id]
  BY <1>1, <1>4
<1>7. CallOK' /\ InCall' = InCall
  <2>1. table' = table /\ found' = found
    BY <1>1 DEF vars
  <2>2. CallOK'
    <3>1. /\ call.args \in Nat /\ call.open + change \in Int /\ call.parsed \in Seq(Nat \ {0})
          /\ call.id \in Nat /\ call.id # 0 /\ found \in DOMAIN table.map
      BY <1>3, <1>4
    <3> QED
      BY <1>5, <1>6, <2>1, <3>1, ArgsCallOK
  <2>3. InCall' = InCall
    BY <1>6 DEF InCall
  <2> QED
    BY <2>2, <2>3
<1> QED
  BY <1>1, <1>7, MovedOn

\* The bracket behind the name opens the first argument.
LEMMA StepOpenBracket == ASSUME ExpandInv, OpenBracket PROVE ExpandInv'
<1> DEFINE d == CallFrame
           rest == SubSeq(frames, 1, d)
           id == Param!CreateId(params)
<1>1. /\ UNCHANGED <<vars, line, found, running>> /\ running
      /\ call.state = "bracket" /\ id # 0
      /\ frames' = Advanced(rest)
      /\ params' = Param!Created(params, <<>>)
      /\ call' = [call EXCEPT !.state = "args", !.open = 0, !.heap = <<>>, !.parsed = <<>>, !.id = id]
  BY DEF OpenBracket, CanOpenParam, Step
<1>2. FramesOK(frames) /\ Len(frames) \in Nat /\ HeldOK(frames, Param!Live(params), InCall)
  BY TopIs DEF ExpandInv
<1>3. d \in 1 .. Len(frames) /\ \A j \in d + 1 .. Len(frames) : frames[j].kind = "param"
  <2>1. "root" \notin {"param"}
    OBVIOUS
  <2>2. /\ Peekable(frames, {"param"}) \in 1 .. Len(frames)
        /\ \A j \in Peekable(frames, {"param"}) + 1 .. Len(frames) : frames[j].kind \in {"param"}
    BY <1>2, <2>1, PeekableIs
  <2> QED
    BY <2>2 DEF CallFrame
<1> HIDE DEF d
<1>4. Cut(frames, rest) /\ Len(rest) = d
  BY <1>2, <1>3, SubSeqCut
<1>5. FramesOK(rest)
  BY <1>2, <1>4, CutHeld
<1> HIDE DEF rest
<1>6. Cut(rest, Advanced(rest)) /\ Len(Advanced(rest)) = d
  BY <1>4, <1>5, AdvancedCut
<1>7. Cut(frames, frames') /\ Len(frames') = d
  BY <1>1, <1>2, <1>4, <1>6, CutTwice
<1>8. OfFrames(frames, d + 1) = {}
  <2>1. \A j \in d + 1 .. Len(frames) : frames[j].params = <<>>
    BY <1>2, <1>3 DEF FramesOK
  <2>2. \A j \in d + 1 .. Len(frames) : ToSet(frames[j].params) = {}
    BY <2>1 DEF ToSet
  <2> QED
    BY <2>2 DEF OfFrames
<1>9. FramesOK(frames') /\ HeldOK(frames', Param!Live(params), InCall)
  <2>1. Param!Live(params) \ {} = Param!Live(params)
    OBVIOUS
  <2> QED
    BY <1>2, <1>7, <1>8, <2>1, CutHeld
<1>10. /\ ParamShape(params') /\ Param!Live(params') = Param!Live(params) \cup {id}
       /\ id \in Nat \ {0} /\ id \notin Param!Live(params)
  <2>1. <<>> \in Seq(Tokens) /\ ParamShape(params)
    BY DEF ExpandInv
  <2> QED
    BY <1>1, <2>1, ParamCreated, ParamIdSound
<1> HIDE DEF id
<1>11. /\ call \in [state : {"none", "bracket", "args", "enter"}, args : Nat, open : Int,
                    heap : Seq(Nat \ {0}), parsed : Seq(Nat \ {0}), id : Nat]
       /\ call.parsed = <<>> /\ call.id = 0 /\ found \in DOMAIN table.map
  BY <1>1 DEF ExpandInv, CallOK, CallSet
<1>12. call' = [state |-> "args", args |-> call.args, open |-> 0, heap |-> <<>>, parsed |-> <<>>, id |-> id]
  BY <1>1, <1>11
<1>13. InCall = {} /\ InCall' = {id}
  BY <1>10, <1>11, <1>12 DEF InCall, ToSet
<1>14. CallOK'
  <2>1. table' = table /\ found' = found
    BY <1>1 DEF vars
  <2>2. <<>> \in Seq(Nat \ {0}) /\ 0 \in Int
    OBVIOUS
  <2> QED
    BY <1>10, <1>11, <1>12, <2>1, <2>2, ArgsCallOK
<1>15. HeldOK(frames', Param!Live(params'), InCall')
  BY <1>9, <1>10, <1>13, InCallGrows
<1>16. Inv' /\ table' = table
  BY <1>1, StepInv DEF ExpandInv, vars
<1>17. MacrosLive'
  BY <1>1, <1>2, <1>7, <1>16, CutMacrosLive DEF ExpandInv
<1> QED
  BY <1>1, <1>9, <1>10, <1>14, <1>15, <1>16, <1>17 DEF ExpandInv

\* What is written for an argument is tokens, with the marks shifted.
LEMMA ArgumentIs ==
  ASSUME ExpandInv, call.state = "args"
  PROVE  Argument \in Seq(Tokens)
<1>1. Source(Top) \in Seq(Tokens)
  BY TopIs, SourceIs DEF ExpandInv
<1>2. call.heap \in Seq(Nat \ {0}) /\ call.args \in Nat
  BY DEF ExpandInv, CallOK, CallSet
<1>3. Word(Stale) \in Tokens
  <2>1. Stale \in Words
    BY DEF Words
  <2> QED
    BY <2>1 DEF Word, Tokens
<1>4. ASSUME NEW tok \in Tokens PROVE Shifted(tok, call.args) \in Tokens
  BY <1>2 DEF Shifted, IsParam, Tokens
<1> DEFINE source == Source(Top)
           at(i) == IF call.heap[i] <= Len(source) THEN Shifted(source[call.heap[i]], call.args) ELSE Word(Stale)
<1>5. ASSUME NEW i \in DOMAIN call.heap PROVE at(i) \in Tokens
  <2>1. call.heap[i] \in Nat \ {0} /\ Len(source) \in Nat
    BY <1>1, <1>2
  <2>2. CASE call.heap[i] <= Len(source)
    <3>1. source[call.heap[i]] \in Tokens
      BY <1>1, <2>1, <2>2
    <3> QED
      BY <1>4, <2>2, <3>1
  <2>3. CASE ~(call.heap[i] <= Len(source))
    BY <1>3, <2>3
  <2> QED
    BY <2>2, <2>3
<1>6. Argument = [i \in DOMAIN call.heap |-> at(i)]
  BY DEF Argument
<1> HIDE DEF at, source
<1>7. Len(call.heap) \in Nat /\ DOMAIN call.heap = 1 .. Len(call.heap)
  BY <1>2
<1>8. [i \in DOMAIN call.heap |-> at(i)] \in [1 .. Len(call.heap) -> Tokens]
  BY <1>5, <1>7
<1> QED
  BY <1>6, <1>7, <1>8

\* The argument is written under the index the call holds.
LEMMA WrittenIs ==
  ASSUME ExpandInv, call.state = "args"
  PROVE  /\ ParamShape(Written) /\ Param!Live(Written) = Param!Live(params)
         /\ Param!CreateId(Written) = Param!CreateId(params)
         /\ InCall = ToSet(call.parsed) \cup {call.id}
<1>1. call.id # 0
  BY DEF ExpandInv, CallOK
<1>2. InCall = ToSet(call.parsed) \cup {call.id}
  BY <1>1 DEF InCall
<1>3. call.id \in Param!Live(params)
  BY <1>2 DEF ExpandInv, HeldOK
<1>4. ParamShape(params)
  BY DEF ExpandInv
<1> QED
  BY <1>2, <1>3, <1>4, ArgumentIs, ParamWritten DEF Written

LEMMA StepNextArg == ASSUME ExpandInv, NextArg PROVE ExpandInv'
<1> DEFINE id == Param!CreateId(Written)
<1>1. /\ UNCHANGED <<vars, line, found, running>> /\ running
      /\ call.state = "args" /\ Param!CreateId(params) # 0
      /\ frames' = Advanced(frames)
      /\ params' = Param!Created(Written, <<>>)
      /\ call' = [call EXCEPT !.heap = <<>>, !.parsed = Append(@, call.id), !.id = id]
  BY DEF NextArg, CanOpenParam, InArgs, Step
<1>2. /\ ParamShape(Written) /\ Param!Live(Written) = Param!Live(params) /\ id # 0
      /\ InCall = ToSet(call.parsed) \cup {call.id}
  BY <1>1, WrittenIs
<1>3. /\ ParamShape(params') /\ Param!Live(params') = Param!Live(params) \cup {id}
      /\ id \in Nat \ {0} /\ id \notin Param!Live(params)
  <2>1. <<>> \in Seq(Tokens)
    OBVIOUS
  <2> QED
    BY <1>1, <1>2, <2>1, ParamCreated, ParamIdSound
<1> HIDE DEF id
<1>4. call \in CallSet /\ call.id # 0 /\ found \in DOMAIN table.map
  BY <1>1 DEF ExpandInv, CallOK
<1>5. /\ call.args \in Nat /\ call.open \in Int /\ call.id \in Nat \ {0} /\ call.parsed \in Seq(Nat \ {0})
      /\ call' = [state |-> "args", args |-> call.args, open |-> call.open, heap |-> <<>>,
                  parsed |-> Append(call.parsed, call.id), id |-> id]
  BY <1>1, <1>4 DEF CallSet
<1>6. Append(call.parsed, call.id) \in Seq(Nat \ {0}) /\ ToSet(Append(call.parsed, call.id)) = ToSet(call.parsed) \cup {call.id}
  BY <1>5, AppendedSet
<1>7. CallOK'
  <2>1. table' = table /\ found' = found /\ <<>> \in Seq(Nat \ {0})
    BY <1>1 DEF vars
  <2> QED
    BY <1>3, <1>4, <1>5, <1>6, <2>1, ArgsCallOK
<1>8. InCall' = InCall \cup {id}
  BY <1>2, <1>3, <1>5, <1>6 DEF InCall
<1>9. Cut(frames, frames') /\ Len(frames') = Len(frames) /\ Len(frames) \in Nat
  BY <1>1, AdvancedCut, TopIs DEF ExpandInv
<1>10. FramesOK(frames') /\ HeldOK(frames', Param!Live(params), InCall)
  <2>1. OfFrames(frames, Len(frames') + 1) = {} /\ Param!Live(params) \ {} = Param!Live(params)
    BY <1>9, NothingAbove
  <2> QED
    BY <1>9, <2>1, CutHeld DEF ExpandInv
<1>11. HeldOK(frames', Param!Live(params'), InCall')
  BY <1>3, <1>8, <1>10, InCallGrows
<1>12. Inv' /\ table' = table
  BY <1>1, StepInv DEF ExpandInv, vars
<1>13. MacrosLive'
  BY <1>1, <1>9, <1>12, CutMacrosLive DEF ExpandInv
<1> QED
  BY <1>1, <1>3, <1>7, <1>10, <1>11, <1>12, <1>13 DEF ExpandInv

LEMMA StepLastArg == ASSUME ExpandInv, LastArg PROVE ExpandInv'
<1>1. /\ UNCHANGED <<vars, line, found, running>> /\ running
      /\ call.state = "args" /\ Complete
      /\ frames' = Advanced(frames)
      /\ params' = Written
      /\ call' = [call EXCEPT !.state = "enter", !.parsed = Append(@, call.id), !.id = 0]
  BY DEF LastArg, InArgs, Step
<1>2. /\ ParamShape(params') /\ Param!Live(params') = Param!Live(params)
      /\ InCall = ToSet(call.parsed) \cup {call.id}
  BY <1>1, WrittenIs
<1>3. call \in CallSet /\ call.id # 0 /\ found \in DOMAIN table.map
  BY <1>1 DEF ExpandInv, CallOK
<1>4. /\ call.args \in Nat /\ call.open \in Int /\ call.id \in Nat \ {0}
      /\ call.parsed \in Seq(Nat \ {0}) /\ call.heap \in Seq(Nat \ {0})
      /\ call' = [state |-> "enter", args |-> call.args, open |-> call.open, heap |-> call.heap,
                  parsed |-> Append(call.parsed, call.id), id |-> 0]
  BY <1>1, <1>3 DEF CallSet
<1>5. Append(call.parsed, call.id) \in Seq(Nat \ {0}) /\ ToSet(Append(call.parsed, call.id)) = ToSet(call.parsed) \cup {call.id}
  BY <1>4, AppendedSet
<1>6. call.args # 0
  BY <1>1, <1>4 DEF Complete
<1>7. CallOK'
  <2>1. table' = table /\ found' = found
    BY <1>1 DEF vars
  <2>2. call' \in CallSet
    BY <1>4, <1>5 DEF CallSet
  <2>3. call'.state = "enter" /\ call'.id = 0 /\ call'.args # 0
    BY <1>4, <1>6
  <2> QED
    BY <1>3, <2>1, <2>2, <2>3 DEF CallOK
<1>8. InCall' = InCall
  BY <1>2, <1>4, <1>5 DEF InCall
<1>9. Cut(frames, frames') /\ Len(frames') = Len(frames) /\ Len(frames) \in Nat
  BY <1>1, AdvancedCut, TopIs DEF ExpandInv
<1>10. OfFrames(frames, Len(frames') + 1) = {} /\ Param!Live(params) \ {} = Param!Live(params)
  BY <1>9, NothingAbove
<1> QED
  BY <1>1, <1>2, <1>7, <1>8, <1>9, <1>10, Moved

\* A new line is read from its beginning, by the root alone.
LEMMA StepGetCFirst == ASSUME ExpandInv, NEW l \in Lines, GetCFirst(l) PROVE ExpandInv'
<1>1. /\ ~running /\ ~failed /\ line' = l /\ running'
      /\ frames' = [frames EXCEPT ![1].read = 0]
      /\ UNCHANGED <<vars, params, call, found>>
  BY DEF GetCFirst
<1>2. Len(frames) = 1 /\ frames \in Seq(FrameSet)
  BY <1>1 DEF ExpandInv, MacrosLive, FramesOK
<1>3. frames[1] \in FrameSet
  BY <1>2
<1> DEFINE g == [frames[1] EXCEPT !.read = 0]
<1>4. /\ g \in FrameSet /\ g.kind = frames[1].kind /\ g.id = frames[1].id
      /\ g.params = frames[1].params /\ g.owner = frames[1].owner
  BY <1>3 DEF FrameSet
<1>5. frames' = [frames EXCEPT ![1] = g]
  BY <1>1
<1> HIDE DEF g
<1>6. Cut(frames, frames') /\ Len(frames') = Len(frames)
  <2>1. [frames EXCEPT ![1] = g] \in Seq(FrameSet) /\ Len([frames EXCEPT ![1] = g]) = 1
    <3>1. \A fs \in Seq(FrameSet), f \in FrameSet :
            Len(fs) = 1 => [fs EXCEPT ![1] = f] \in Seq(FrameSet) /\ Len([fs EXCEPT ![1] = f]) = 1
      OBVIOUS
    <3> QED
      BY <1>2, <1>4, <3>1
  <2>2. [frames EXCEPT ![1] = g][1] = g
    BY <1>2
  <2>3. frames' \in Seq(FrameSet) /\ Len(frames') = 1 /\ frames'[1] = g
    BY <1>5, <2>1, <2>2
  <2>4. \A j \in 1 .. Len(frames') : j = 1
    BY <2>3
  <2> QED
    BY <1>2, <1>4, <2>3, <2>4 DEF Cut
<1>7. CallOK' /\ InCall' = InCall
  BY <1>1, CallStays DEF ExpandInv
<1>8. FramesOK(frames') /\ HeldOK(frames', Param!Live(params'), InCall')
  <2>1. Len(frames) \in Nat
    BY <1>2
  <2>2. OfFrames(frames, Len(frames') + 1) = {} /\ Param!Live(params) \ {} = Param!Live(params)
    BY <1>6, <2>1, NothingAbove
  <2>3. FramesOK(frames') /\ HeldOK(frames', Param!Live(params), InCall)
    BY <1>6, <2>2, CutHeld DEF ExpandInv
  <2> QED
    BY <1>1, <1>7, <2>3
<1>9. Inv' /\ table' = table
  BY <1>1, StepInv DEF ExpandInv, vars
<1>10. MacrosLive'
  BY <1>1, <1>2, <1>6, <1>9, CutMacrosLive DEF ExpandInv
<1>11. line' \in Seq(Words)
  BY <1>1, MacrosAssumption
<1> QED
  BY <1>1, <1>7, <1>8, <1>9, <1>10, <1>11 DEF ExpandInv

\* Directives come while only the root is on the stack; they may open slots of
\* the table, and take none away.
LEMMA StepDirectiveLine == ASSUME ExpandInv, DirectiveLine PROVE ExpandInv'
<1>1. ~running /\ ~failed /\ Next /\ UNCHANGED machine
  BY DEF DirectiveLine
<1>2. UNCHANGED <<frames, params, line, call, found, running, failed>>
  BY <1>1 DEF machine
<1>3. Len(frames) = 1 /\ frames[1].kind = "root"
  BY <1>1 DEF ExpandInv, MacrosLive, FramesOK
<1>4. Inv' /\ DOMAIN table.map \subseteq DOMAIN table'.map
  BY <1>1, StepInv, StepKeepsSlots DEF ExpandInv
<1>5. CallOK' /\ InCall' = InCall
  BY <1>2, <1>4 DEF ExpandInv, CallOK, InCall
<1>6. MacrosLive'
  <2>1. \A j \in 1 .. Len(frames) : frames[j].kind # "macro"
    BY <1>3
  <2> QED
    BY <1>2, <1>3, <2>1 DEF MacrosLive
<1> QED
  BY <1>2, <1>4, <1>5, <1>6 DEF ExpandInv

LEMMA StepExpandInv == ASSUME ExpandInv, [NextExpand]_allVars PROVE ExpandInv'
<1>1. CASE DirectiveLine
  BY <1>1, StepDirectiveLine
<1>2. ASSUME NEW l \in Lines, GetCFirst(l) PROVE ExpandInv'
  BY <1>2, StepGetCFirst
<1>3. CASE EndOfLine \/ EndOfLineInArgs \/ Fail
  BY <1>3, StepsOfLine
<1>4. CASE EndOfFrame
  BY <1>4, StepEndOfFrame
<1>5. CASE StartLiteral \/ NewLine
  BY <1>5, StepsOfWord
<1>6. CASE PutWord
  BY <1>6, StepPutWord
<1>7. CASE FindMacro
  BY <1>7, StepFindMacro
<1>8. CASE EnterParam
  BY <1>8, StepEnterParam
<1>9. CASE OpenBracket
  BY <1>9, StepOpenBracket
<1>10. CASE Gather
  BY <1>10, StepGather
<1>11. CASE NextArg
  BY <1>11, StepNextArg
<1>12. CASE LastArg
  BY <1>12, StepLastArg
<1>13. CASE EnterMacro
  BY <1>13, StepEnterMacro
<1>14. CASE UNCHANGED allVars
  <2>1. UNCHANGED <<vars, frames, params, line, call, found, running, failed>>
    BY <1>14 DEF allVars, machine
  <2>2. Inv'
    BY <2>1, StepInv DEF ExpandInv
  <2>3. CallOK' /\ InCall' = InCall
    BY <2>1, CallStays DEF ExpandInv
  <2>4. MacrosLive'
    BY <2>1 DEF MacrosLive, ExpandInv, Live, vars
  <2> QED
    BY <2>1, <2>2, <2>3, <2>4 DEF ExpandInv
<1> QED
  BY <1>1, <1>2, <1>3, <1>4, <1>5, <1>6, <1>7, <1>8, <1>9, <1>10, <1>11, <1>12, <1>13, <1>14
     DEF NextExpand, GetC

------------------------------------------------------------------------------
\* The inductive invariant of the expansion: the stack has the root below and
\* a macro below each of its arguments, the macros at work are in the table, and
\* frames and call share out the arguments that are alive.
THEOREM ExpandInvHolds == SpecExpand => []ExpandInv
BY InitExpandInv, StepExpandInv, PTL DEF SpecExpand

\* Each argument param_open made is held once, by a frame or by the call being
\* read, and a frame that reads one stands above the macro that holds it
\* (post/tokenize.c:142-190, 250-300).
THEOREM ArgumentsHeldHolds == SpecExpand => []ArgumentsHeld
<1>1. ExpandInv => ArgumentsHeld
  <2> SUFFICES ASSUME ExpandInv PROVE ArgumentsHeld
    OBVIOUS
  <2>1. DOMAIN frames = 1 .. Len(frames) /\ Len(frames) \in Nat
    BY DEF ExpandInv, FramesOK
  <2>2. \A j \in DOMAIN frames : Held[j] = ToSet(frames[j].params)
    BY DEF Held
  <2>3. OfFrames(frames, 1) = UNION { Held[j] : j \in DOMAIN frames }
    BY <2>1, <2>2 DEF OfFrames
  <2>4. Param!Live(params) = InCall \cup UNION { Held[j] : j \in DOMAIN frames }
    BY <2>3 DEF ExpandInv, HeldOK
  <2>5. ASSUME NEW j \in DOMAIN frames, NEW k \in DOMAIN frames, j # k PROVE Held[j] \cap Held[k] = {}
    <3>1. ToSet(frames[j].params) \cap ToSet(frames[k].params) = {}
      BY <2>1, <2>5 DEF ExpandInv, HeldOK
    <3> QED
      BY <2>2, <3>1
  <2>6. ASSUME NEW j \in DOMAIN frames PROVE Held[j] \cap InCall = {}
    BY <2>1, <2>2 DEF ExpandInv, HeldOK
  <2>7. ASSUME NEW j \in DOMAIN frames, frames[j].kind = "param"
        PROVE  frames[j].owner < j /\ frames[j].id \in Held[frames[j].owner]
    <3>1. frames[j].owner \in 1 .. (j - 1) /\ frames[j].id \in ToSet(frames[frames[j].owner].params)
      BY <2>1, <2>7 DEF ExpandInv, HeldOK
    <3> QED
      BY <2>1, <2>2, <3>1
  <2> QED
    BY <2>4, <2>5, <2>6, <2>7 DEF ArgumentsHeld
<1> QED
  BY <1>1, ExpandInvHolds, PTL

\* Expanding macros leaves their table alone: what holds of the table under its
\* own directives holds of it in the expansion too (macro.c:100-179).
THEOREM TableKept == SpecExpand => Spec
<1>1. Init0 => Init
  BY DEF Init0
<1>2. [NextExpand]_allVars => [Next]_vars
  BY DEF NextExpand, DirectiveLine, GetCFirst, GetC, allVars,
         EndOfLine, EndOfFrame, StartLiteral, NewLine, EnterParam, PutWord, FindMacro, OpenBracket,
         Gather, EndOfLineInArgs, NextArg, LastArg, EnterMacro, Fail, InArgs, Reading, Step
<1> QED
  BY <1>1, <1>2, PTL DEF SpecExpand, Spec
==============================================================================
