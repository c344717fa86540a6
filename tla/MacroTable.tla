----------------------------- MODULE MacroTable -----------------------------
(***************************************************************************)
(* macro.c with pre/define.c and pre/undef.c: the macros #define enters    *)
(* and #undef removes, each under the index its table gives it.            *)
(***************************************************************************)
EXTENDS TokenList

CONSTANT Names

ASSUME NullAssumption == Null \notin Names

VARIABLES
  table,        \* masked()->macro_work
  defining_id,  \* masked()->defining_id: the macro #define writes to
  stopped       \* "no", "full" (id's filled out) or "_next" (an assertion)

vars == <<table, defining_id, stopped>>

Init == table = NoTable /\ defining_id = 0 /\ stopped = "no"

\* macro_lookup: the first slot with the name, or 0.
IdsOf(x) == { id \in DOMAIN table.map : table.map[id] = x }
LookupSkipsLast(x) ==
  LET ids == IdsOf(x) \ {Len(table.map)} IN IF ids = {} THEN 0 ELSE Min(ids)
Lookup(x) == IF IdsOf(x) = {} THEN 0 ELSE Min(IdsOf(x))

\* #define x, with or without a body on its lines.  macro_open of a known name
\* warns "still defined, ignored" and returns 0 ...
Define(x) ==
  /\ stopped = "no" /\ Lookup(x) = 0 /\ CreateId(table) # 0
  /\ table' = Created(table, x)
  /\ defining_id' = CreateId(table)
  /\ UNCHANGED stopped

DefineFails(x) ==
  /\ stopped = "no" /\ Lookup(x) = 0 /\ CreateId(table) = 0
  /\ stopped' = "full"
  /\ UNCHANGED <<table, defining_id>>

\* ... which macro_define_next refuses as soon as there is a body to write.
Redefine(x, hasBody) ==
  /\ stopped = "no" /\ Lookup(x) # 0
  /\ defining_id' = 0
  /\ stopped' = IF hasBody THEN "_next" ELSE "no"
  /\ UNCHANGED table

Undef(x) ==
  /\ stopped = "no" /\ Lookup(x) # 0
  /\ table' = Removed(table, Lookup(x))
  /\ UNCHANGED <<defining_id, stopped>>

Next == \E x \in Names :
  \/ Define(x) \/ DefineFails(x) \/ Undef(x)
  \/ \E hasBody \in BOOLEAN : Redefine(x, hasBody)

Spec == Init /\ [][Next]_vars

------------------------------------------------------------------------------
\* Every variable has its type; an index fits in MACROID_BITS.
TypeOK ==
  /\ table.map \in Seq(Names \cup {Null})
  /\ table.n \in 0 .. ReserveMax
  /\ Len(table.map) < ReserveMax
  /\ defining_id \in 0 .. ReserveMax - 1
  /\ stopped \in {"no", "full", "_next"}

\* No slot in use lies outside of the memory allocated, and a table that holds
\* its full count of slots keeps one of them for index 0.
TableInside ==
  /\ Len(table.map) <= table.n
  /\ table.n # 0 => Len(table.map) < table.n

\* No name has two entries: macro_lookup finds the one that #undef removes.
NamesUnique == \A x \in Names : Cardinality(IdsOf(x)) <= 1

\* A macro keeps its index and its place until it is removed: found_id and
\* the expansion stack of post/tokenize.c hold indices across definitions.
IdsStay ==
  [][\A id \in Live(table) :
       id \in DOMAIN table'.map /\ table'.map[id] \in {table.map[id], Null}]_vars

\* The table is a dictionary that is full only when every index is taken.
Known == { x \in Names : Lookup(x) # 0 }
Dict == INSTANCE Dictionary WITH
          known <- Known, refused <- (stopped = "full"), Capacity <- ReserveMax - 1
ImplementsDictionary == Dict!Spec
==============================================================================
