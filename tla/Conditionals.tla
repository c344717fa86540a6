----------------------------- MODULE Conditionals -----------------------------
(***************************************************************************)
(* What conditional directives promise: a stack of open groups.  A group   *)
(* knows whether one of its branches was chosen and whether the branch at  *)
(* hand is the chosen one.  A line counts if every open group is in its    *)
(* chosen branch; only then do #define and #undef have an effect.          *)
(***************************************************************************)
EXTENDS Naturals, Sequences

CONSTANT Macros

VARIABLES groups, defined

Group == [taken : BOOLEAN, active : BOOLEAN]

Enabled == \A i \in DOMAIN groups : groups[i].active

Init == groups = <<>> /\ defined = {}

Open(c) == /\ groups' = Append(groups, [taken |-> c, active |-> c])
           /\ UNCHANGED defined

\* The next branch is chosen if its condition holds and none was before it.
Branch(c) ==
  /\ groups # <<>>
  /\ groups' = [groups EXCEPT ![Len(groups)] =
                  [taken |-> @.taken \/ c, active |-> ~@.taken /\ c]]
  /\ UNCHANGED defined

Close == /\ groups # <<>>
         /\ groups' = SubSeq(groups, 1, Len(groups) - 1)
         /\ UNCHANGED defined

Define(m) == Enabled /\ defined' = defined \cup {m} /\ UNCHANGED groups
Undef(m)  == Enabled /\ defined' = defined \ {m}    /\ UNCHANGED groups

Next == \/ \E c \in BOOLEAN : Open(c) \/ Branch(c)
        \/ Close
        \/ \E m \in Macros : Define(m) \/ Undef(m)

Spec == Init /\ [][Next]_<<groups, defined>>
==============================================================================
