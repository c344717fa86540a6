----------------------------- MODULE IfDirective -----------------------------
(***************************************************************************)
(* pre/directive.c with the callers in as-.py: #if, #ifdef, #ifndef,       *)
(* #elif, #else and #endif, and which of the other lines count.            *)
(*                                                                         *)
(* directive_if_disabler packs two bits for each open #if; here field[d]   *)
(* is the field of depth d.  A line that the code answers with an error    *)
(* about the source has no step.                                           *)
(***************************************************************************)
EXTENDS Naturals, Sequences

CONSTANTS
  Macros,    \* macro names
  DepthMax   \* get_if_depth_max(): 15 in the code

ASSUME DepthAssumption == DepthMax \in Nat \ {0}

VARIABLES
  field,    \* masked()->directive_if_disabler
  depth,    \* masked()->directive_if_depth
  defined,  \* the macros macro_lookup finds
  fault     \* manage_bug failed

vars == <<field, depth, defined, fault>>

INITIAL    == 1
ENTER_TRUE == 0
LEAVE_TRUE == 2

Init ==
  /\ field = [d \in 1 .. DepthMax |-> 0] /\ depth = 0
  /\ defined = {} /\ fault = FALSE

\* directive_is_disable_by_if: any field below the depth differs from zero.
IsDisabledHere == depth > 0 /\ field[depth] # 0
IsDisabled == \E d \in 1 .. depth : field[d] # 0

GetState == field[depth]
SetState(s) == field' = [field EXCEPT ![depth] = s]

\* input_bug: "too deep"
CanPushOneMore == depth <= DepthMax
CanPush == depth < DepthMax

\* _if, _ifdef and _ifndef, which differ in how they get their condition.
Push(c) ==
  /\ ~fault /\ CanPush
  /\ depth' = depth + 1
  /\ field' = [field EXCEPT ![depth + 1] = IF c THEN ENTER_TRUE ELSE INITIAL]
  /\ UNCHANGED <<defined, fault>>

If(c)     == Push(c)
Ifdef(m)  == Push(m \in defined)
Ifndef(m) == Push(m \notin defined)

ElifAgain(c) ==
  /\ ~fault /\ depth > 0
  /\ SetState(IF c THEN ENTER_TRUE ELSE INITIAL)
  /\ UNCHANGED <<depth, defined, fault>>

\* Only a group without a chosen branch looks at the condition.
Elif(c) ==
  /\ ~fault /\ depth > 0
  /\ SetState(IF GetState # INITIAL THEN LEAVE_TRUE
              ELSE IF c THEN ENTER_TRUE ELSE INITIAL)
  /\ UNCHANGED <<depth, defined, fault>>

\* filter_get_state of depth 0: the one place that takes an error of the
\* source for its own.
StrayElif ==
  /\ ~fault /\ depth = 0
  /\ fault' = TRUE
  /\ UNCHANGED <<field, depth, defined>>

Else ==
  /\ ~fault /\ depth > 0
  /\ SetState(IF GetState = INITIAL THEN ENTER_TRUE ELSE LEAVE_TRUE)
  /\ UNCHANGED <<depth, defined, fault>>

EndifLeavesState ==
  /\ ~fault /\ depth > 0
  /\ depth' = depth - 1
  /\ UNCHANGED <<field, defined, fault>>

Endif ==
  /\ ~fault /\ depth > 0
  /\ SetState(0)
  /\ depth' = depth - 1
  /\ UNCHANGED <<defined, fault>>

\* Lines of a branch that was not chosen are dropped.
Define(m) == /\ ~fault /\ ~IsDisabled
             /\ defined' = defined \cup {m}
             /\ UNCHANGED <<field, depth, fault>>
Undef(m)  == /\ ~fault /\ ~IsDisabled
             /\ defined' = defined \ {m}
             /\ UNCHANGED <<field, depth, fault>>

Next ==
  \/ \E c \in BOOLEAN : If(c) \/ Elif(c)
  \/ \E m \in Macros : Ifdef(m) \/ Ifndef(m) \/ Define(m) \/ Undef(m)
  \/ Else \/ Endif \/ StrayElif

Spec == Init /\ [][Next]_vars

------------------------------------------------------------------------------
\* Every variable has its type.
TypeOK ==
  /\ field \in [1 .. DepthMax -> {INITIAL, ENTER_TRUE, LEAVE_TRUE}]
  /\ depth \in 0 .. DepthMax
  /\ defined \subseteq Macros
  /\ fault \in BOOLEAN

\* The fields above the depth are zero: manage_bug(0 == filter_get_state ())
\* of a new #if, and the mask of directive_is_disable_by_if.
FieldsAboveClear == \A d \in depth + 1 .. DepthMax : field[d] = 0

\* A group that left its chosen branch never enters another while it stays
\* open.  That it leaves the branch at all, and does not choose again straight
\* from ENTER_TRUE, is part of ImplementsConditionals.
OneBranch ==
  [][\A d \in 1 .. depth : d <= depth' /\ field[d] = LEAVE_TRUE => field'[d] = LEAVE_TRUE]_vars

\* What the packed fields stand for.
Groups == [d \in 1 .. depth |-> [taken |-> field[d] # INITIAL, active |-> field[d] = ENTER_TRUE]]

Abstract == INSTANCE Conditionals WITH groups <- Groups

\* The fields implement the stack of groups; disabled lines define nothing.
ImplementsConditionals == Abstract!Spec
==============================================================================
