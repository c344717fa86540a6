---------------------------- MODULE MCMacroExpand ----------------------------
(* Macros that call one another, an alias, # and ##, one that is empty, and   *)
(* lines with calls inside of calls and calls over two lines, whose arguments *)
(* end with their line, as in `cat ( a ,` and `b )`, or go on over both, as   *)
(* in `id ( a` and `b )`.                                                     *)
EXTENDS MacroExpand

E == INSTANCE Expansion

MCNames == {"id", "wrap", "al", "cat", "none"}
MCArgs == [id |-> <<"p">>, wrap |-> <<"p">>, al |-> <<>>, cat |-> <<"p", "q">>, none |-> <<>>]
MCText == [ id   |-> <<"p">>,
            wrap |-> <<"id", "(", "p", "b", ")">>,
            al   |-> <<"id">>,
            cat  |-> <<"p", "##", "q", Nl, "#", "q">>,
            none |-> <<>> ]
MCLines ==
  { <<"id", "(", "wrap", "(", "a", "none", ")", ")">>,
    <<"al", "(", "cat", "(", "a", ",", "b", ")", ")">>,
    <<"cat", "(", "a", ",">>, <<"id", "(", "a">>, <<"b", ")", "cat">>, <<"b", ")">> }

\* A body that hands its own parameter to a call inside of a call.
NestedText == [MCText EXCEPT !.wrap = <<"id", "(", "id", "(", "p", ")", ")">>]

\* No line ends inside of an argument, and no directive is inside of a call: the
\* text of an argument is read from the line that ends it (tokenize.c:540), and
\* found_id may name another macro after a directive (tokenize.c:601).
Flat == FlattenSeq(text)
WholeArguments ==
  /\ \A i \in DOMAIN text : text[i] # <<Directive>>
  /\ \A i \in DOMAIN text : i < Len(text) => Last(text[i]) \in {"(", ","}

\* At the end of a line outside of calls, the tokens returned are those the
\* definition of expansion gives for the lines since the last such end, one
\* line or the two of a call.
Meaning == [x \in Known |-> Args[x]]
FaithfulExpansion ==
  AtRest /\ ~failed /\ WholeArguments =>
    out = E!Expanded(E!UnreadAll(Flat), Meaning, Text)
==============================================================================
