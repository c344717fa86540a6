------------------------------- MODULE MCPass1 -------------------------------
(* Sources for pass 1.                                                      *)
EXTENDS Pass1

\* Every source of six statements.
MCSource == [i \in 1 .. 6 |-> AllMnemonics]

\* One procedure, and the section after it.
SectionSource == << {"text"}, {"startproc"}, {"code", "jmp", "label"}, {"code", "jmp", "cfi"},
                    {"endproc"}, {"rodata"} >>

\* Names that are declared, defined and used in any order.
QuadSource == << {"text", "rodata"}, {"declare", "label"}, {"quad", "declare"}, {"label", "quad"} >>
==============================================================================
