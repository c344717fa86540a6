------------------------------ MODULE MCDriver ------------------------------
(* Every sequence of a few lines: directives, continued ones and comments, and *)
(* C text whose statements and __asm__ go over several lines.                  *)
EXTENDS Driver

Conditional ==
  { <<"#", "if", "0">>, <<"#", "if", "0x1">>, <<"#", "elif", "1">>, <<"#", "elif", "10">>,
    <<"#", "else">>, <<"#", "endif">>, <<"#", "ifdef", "m">>, <<"#", "ifndef", "m">>,
    <<"#", "ifdef", "m", "\\">> }
Defining ==
  { <<"#", "define", "m">>, <<"#", "define", "m", "\\">>, <<"#", "define", "m", "\\", "aa">>,
    <<"#", "define", "m", "//", "\\">>, <<"#", "define", "m", "/*", "\\">>,
    <<"#", "define", "m", "aa\\">>, <<"#", "define", "m", "(", "a", ",", "a", ")", "\\">>,
    <<"#", "define", "m", "(", "a", ",", "a", ",", "a", ")">>, <<"#", "undef", "m">> }
Including ==
  { <<"#", "include", "\"file\"">>, <<"#", "include", "<file>">>, <<"#", "include", "<sys", "/", "file>">> }
Other ==
  { <<>>, <<" ">>, <<"#", "aa">>, <<"##", "aa">>, <<" ", "#", "else">>, <<"aa", "\\">>,
    <<"/*">>, <<"*">>, <<"aa", "*/">>, <<"//", "/*">>, <<" ", "//", "/*">>, <<"#", "*/", "#", "endif">>, <<"//", "*/">>,
    <<"/", "aa">>, <<"aa", ";">> }
Statement ==
  { <<"__asm__", "(", "\"t\"">>, <<"\\n", ")", ";">>, <<"__asm__", "aa">>, <<"typedef", "struct", "{">>,
    <<"{", "a", ";">>, <<" ", "}", "aa", ";">>, <<"(", ")", ";">>, <<"aa", "#">> }
MCLines == Conditional \cup Defining \cup Including \cup Other \cup Statement

MCMacros == {"*", "\\"} \cup UNION { ToSet(l) : l \in MCLines }
MCGlued == {"aa\\"}
MCZeros == {"0", "0x1"}
MCOnes == {"1", "10"}
MCFiles == {"\"file\""}
MCHeaders == {"<file>"}
MCAsmTexts == {"\"t\""}
MCWords == {"aa", "aa\\"}
MCMarks == {"(", ")", "{", "}", "[", "]", ";", ",", "*", "=", "#", "\\", "a"}
==============================================================================
