----------------------------- MODULE Dictionary -----------------------------
(***************************************************************************)
(* What the macro table promises: a set of defined names with room for     *)
(* Capacity of them, refused only when there is no room left.              *)
(***************************************************************************)
EXTENDS Naturals, FiniteSets

CONSTANTS Names, Capacity

VARIABLES known, refused

Init == known = {} /\ refused = FALSE

Add(x) == /\ ~refused /\ x \notin known /\ Cardinality(known) < Capacity
          /\ known' = known \cup {x} /\ UNCHANGED refused

Drop(x) == ~refused /\ x \in known /\ known' = known \ {x} /\ UNCHANGED refused

Refuse == ~refused /\ Cardinality(known) = Capacity /\ refused' = TRUE /\ UNCHANGED known

Next == (\E x \in Names : Add(x) \/ Drop(x)) \/ Refuse

Spec == Init /\ [][Next]_<<known, refused>>
==============================================================================
