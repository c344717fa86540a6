------------------------------- MODULE MCCalc -------------------------------
(* Expressions of up to MaxTokens tokens, with numbers of Width bits.       *)
EXTENDS Calc, TLC

MCNumeral == "3" :> 3
MCSymbol  == "near" :> [type |-> "OFFSET", is_resolved |-> TRUE, seg_id |-> "CSEG", seg_ofs |-> 5]
MCTokens  == {"3", "near", "unknown", "07", "(", ")", "not", "+", "-", "*", "<<", "|"}

(* The same without shifts and the like.                                    *)
MCArithmetic == {"3", "+", "-", "*"}
=============================================================================
