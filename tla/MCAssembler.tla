----------------------------- MODULE MCAssembler -----------------------------
(* Sources of one procedure between code and data, with a jump that may or  *)
(* may not reach its label in one byte.                                     *)
EXTENDS Assembler

MCSource == <<
  {"text", "rodata"},
  {"startproc", "text"},
  {"label", "code", "cfi"},
  {"call", "lea", "code", "cfi"},
  {"label", "jcc", "cfi"},
  {"endproc", "lea"},
  {"size", "label", "endproc"},
  {"rodata", "text"},
  {"label", "quad"},
  {"quad"} >>
==============================================================================
