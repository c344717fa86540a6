----------------------------- MODULE Preprocess -----------------------------
(***************************************************************************)
(* as-.py: preprocess() with scanner.py and directive_parse_line: which    *)
(* lines are directives, lines of a continued one, C text, or nothing.     *)
(*                                                                         *)
(* A line is a sequence of words.  The delimiters of comments, a "/" that  *)
(* begins none, a run of number signs, a string with its quotes and blanks *)
(* are words of their own; so is a backslash, unless it is glued to a word *)
(* before it.  The program tests the first character of a line, here its   *)
(* first word, for blanks in front are a word too.  Both sides remember    *)
(* that a directive continues: pp_state in Python, bDirectiveContinued in  *)
(* C.                                                                      *)
(***************************************************************************)
EXTENDS IfDirective, SequencesExt

CONSTANTS
  Glued,     \* longer words that end in a backslash
  Zeros,     \* words that begin with the digit 0
  Ones,      \* words that begin with the digit 1
  Files,     \* quoted names of files that can be read and are not empty
  Headers,   \* names in <>
  ParamMax   \* MACRO_PARAM_MAX

\* The words that the program or C tells from all others by their spelling.
Special == {"#", "##", "\\", " ", "*", "/", "//", "/*", "*/"}
ASSUME WordsAssumption ==
  /\ (Glued \cup Zeros \cup Ones \cup Files \cup Headers) \cap Special = {}
  /\ Zeros \cap Ones = {} /\ Files \cap Headers = {}
ASSUME ParamAssumption == ParamMax \in Nat \ {0}

VARIABLES
  pp_state,     \* s_pp_state: "INITIAL" or "DIRECTIVE_CONTINUED"
  continued,    \* masked()->bDirectiveContinued
  directive_id, \* masked()->directive_id: the command of the last directive
  comment,      \* directive_bComment of the scanner
  halted        \* "no", "source" (an error about it) or "caller_bug"

ppVars == <<pp_state, continued, directive_id, comment, halted>>

InitPreprocess ==
  /\ Init /\ pp_state = "INITIAL" /\ continued = FALSE
  /\ directive_id = "" /\ comment = FALSE /\ halted = "no"

------------------------------------------------------------------------------
\* directive_tokenize_list: the tokens of a line, and whether its end is inside
\* of a comment.  What is scanned ends at // and, cut short, at any other "/".
ScanWord(s, w) ==
  IF s.over \/ w = " " THEN s
  ELSE IF s.inside THEN [s EXCEPT !.inside = w # "*/"]
  ELSE CASE w = "/*" -> [s EXCEPT !.inside = TRUE]
         [] w = "//" -> [s EXCEPT !.over = TRUE]
         [] w = "/"  -> [s EXCEPT !.over = TRUE, !.cut = TRUE]
         [] w = "*/" -> [s EXCEPT !.over = TRUE, !.cut = TRUE, !.tokens = Append(@, "*")]
         [] OTHER    -> [s EXCEPT !.tokens = Append(@, w)]
Scanned(l, inside) ==
  FoldLeft(ScanWord, [tokens |-> <<>>, inside |-> inside, over |-> FALSE, cut |-> FALSE], l)

\* The last character is a backslash.  In a comment it is a token, not so
\* behind //.  A star there is taken for the end of the comment.
Ends(l) == l # <<>> /\ Last(l) \in Glued \cup {"\\"}
EndsInStar(l) == l # <<>> /\ Last(l) = "*"
Tokens(l) == LET s == Scanned(l, comment)
             IN  IF s.inside /\ Ends(l) THEN Append(s.tokens, "\\") ELSE s.tokens
InsideAfter(l) == Scanned(l, comment).inside /\ ~EndsInStar(l)

IfGroup == {"if", "elif", "else", "endif", "ifdef", "ifndef"}
Command(t) == IF Len(t) > 1 THEN t[2] ELSE ""
Operands(t) == SubSeq(t, 3, Len(t))
Pound(t) == t # <<>> /\ t[1] = "#"

\* filter_calc: "now supports '0' '1' only", of which it reads one character.
IsConstant(o) == Len(o) = 1 /\ o[1] \in Zeros \cup Ones
IsTrue(o) == Len(o) = 1 /\ o[1] \in Ones

\* macro_define_first: the numbers of parameters that can be read (one at most)
\* and the operands that the name and their list take.
HasParams(o) == Len(o) > 1 /\ o[2] = "("
ParamCounts(o) ==
  { k \in 1 .. ParamMax - 1 :
      2 * k + 2 <= Len(o) /\ o[2 * k + 2] = ")" /\ \A i \in 1 .. k - 1 : o[2 * i + 2] = "," }
IsDefine(o) == o # <<>> /\ (HasParams(o) => ParamCounts(o) # {})
DefineRead(o) ==
  IF HasParams(o) /\ IsDefine(o) THEN 2 * (CHOOSE k \in ParamCounts(o) : TRUE) + 2 ELSE 1

\* _dispatch: the directives of IfDirective, and how many operands they read.
Dispatch(c, o) ==
  \/ c = "if" /\ IsConstant(o) /\ If(IsTrue(o))
  \/ c = "ifdef"  /\ o # <<>> /\ Ifdef(o[1])
  \/ c = "ifndef" /\ o # <<>> /\ Ifndef(o[1])
  \/ c = "elif" /\ (depth > 0 /\ GetState = INITIAL => IsConstant(o)) /\ (Elif(IsTrue(o)) \/ StrayElif)
  \/ c = "else"  /\ Else
  \/ c = "endif" /\ Endif
  \/ c = "define" /\ IsDefine(o) /\ Define(o[1])
  \/ c = "undef" /\ Len(o) = 1 /\ Undef(o[1])
  \/ c \notin IfGroup /\ IsDisabled /\ UNCHANGED vars
OperandsRead(c, o) ==
  CASE c = "elif" /\ (depth = 0 \/ GetState # INITIAL) -> Len(o)
    [] c = "define" -> DefineRead(o)
    [] c \in {"if", "elif", "ifdef", "ifndef", "undef"} -> 1
    [] OTHER -> 0
DispatchFails(c, o) ==
  \/ c = "if" /\ (~IsConstant(o) \/ ~CanPush)
  \/ c \in {"ifdef", "ifndef"} /\ (o = <<>> \/ ~CanPush)
  \/ c = "elif" /\ depth > 0 /\ GetState = INITIAL /\ ~IsConstant(o)
  \/ c \in {"else", "endif"} /\ depth = 0
  \/ c \notin IfGroup /\ ~IsDisabled
       /\ ~(c = "define" /\ IsDefine(o)) /\ ~(c = "undef" /\ Len(o) = 1)

\* _dispatch_aux: only #define has more to read, but in a disabled branch
\* (after the directive took effect) everything is taken.
AuxFails(c, more, known) ==
  more # <<>> /\ ~IsDisabled' /\ (c # "define" \/ known)
ContinuesAtBody(c, more) == more # <<>> /\ ~IsDisabled' /\ c = "define" /\ Last(more) # "\\"
Continues(c, more) == more # <<>> /\ ~IsDisabled' /\ c = "define" /\ Last(more) = "\\"

\* "waste tokens": C expects another line, Python does not.  (as-.c:107 returns
\* nothing, but the count is still where the caller looks for it: the call of
\* directive_parse_line is the last thing it does.)
Wasted(l) == continued' /\ ~Ends(l)
HaltIfWasted(l) == halted' = IF Wasted(l) THEN "source" ELSE halted

PyStateLongLines(l) == IF Ends(l) /\ Len(l) > 4 THEN "DIRECTIVE_CONTINUED" ELSE "INITIAL"
PyState(l) == IF Ends(l) THEN "DIRECTIVE_CONTINUED" ELSE "INITIAL"

\* directive_parse_line at the start of a directive: t are the tokens of l.
ParseStart(l, t) ==
  LET c    == Command(t)
      o    == Operands(t)
      more == SubSeq(o, OperandsRead(c, o) + 1, Len(o))
  IN  \/ /\ Dispatch(c, o)
         /\ directive_id' = c
         /\ IF AuxFails(c, more, c = "define" /\ o[1] \in defined)
            THEN halted' = "source" /\ UNCHANGED <<pp_state, continued>>
            ELSE /\ pp_state' = PyState(l)
                 /\ continued' = Continues(c, more)
                 /\ HaltIfWasted(l)
      \/ /\ DispatchFails(c, o)
         /\ halted' = "source"
         /\ UNCHANGED <<vars, pp_state, continued, directive_id>>

\* ... and on a line that continues one: the body of a macro.
ParseMore(l, t) ==
  /\ UNCHANGED <<vars, directive_id>>
  /\ IF AuxFails(directive_id, t, FALSE)
     THEN halted' = "source" /\ UNCHANGED <<pp_state, continued>>
     ELSE /\ pp_state' = PyState(l)
          /\ continued' = Continues(directive_id, t)
          /\ HaltIfWasted(l)

\* "not diretive line"
NotDirective(t) == ~continued /\ ~Pound(t)
ParseRefuses == halted' = "caller_bug" /\ UNCHANGED <<vars, pp_state, continued, directive_id>>

------------------------------------------------------------------------------
Runs == ~fault /\ halted = "no"
Pounds == {"#", "##"}
IsStartAnywhere(l) == l[1] \in Pounds
IsStart(l) == pp_state = "INITIAL" /\ l[1] \in Pounds
Quiet == UNCHANGED <<vars, pp_state, continued, directive_id, halted>>

EmptyLine(l) == Runs /\ l = <<>> /\ Quiet /\ UNCHANGED comment

\* A directive of a branch not chosen, but for the conditional ones, is dropped.
DroppedStart(l) == IsStart(l) /\ IsDisabled /\ Command(Tokens(l)) \notin IfGroup
DropDirective(l) ==
  /\ Runs /\ l # <<>> /\ DroppedStart(l)
  /\ Quiet /\ comment' = InsideAfter(l)

\* #include: of a file that cannot be read and of anything else the process ends.
IsInclude(l) == IsStart(l) /\ ~IsDisabled /\ Command(Tokens(l)) = "include"
Argument(l) == LET t == Tokens(l) IN IF Len(t) > 2 THEN t[3] ELSE ""
Include(l) ==
  /\ Runs /\ l # <<>> /\ IsInclude(l)
  /\ halted' = IF Argument(l) \in Files \cup Headers THEN "no" ELSE "source"
  /\ UNCHANGED <<vars, pp_state, continued, directive_id>>
  /\ comment' = InsideAfter(l)

IsDirectiveLine(l) ==
  (IsStart(l) /\ ~DroppedStart(l) /\ ~IsInclude(l)) \/ pp_state = "DIRECTIVE_CONTINUED"
DirectiveLine(l) ==
  /\ Runs /\ l # <<>> /\ IsDirectiveLine(l)
  /\ LET t == Tokens(l)
     IN  IF NotDirective(t) THEN ParseRefuses
         ELSE IF continued THEN ParseMore(l, t) ELSE ParseStart(l, t)
  /\ comment' = InsideAfter(l)

\* Lines of a branch not chosen and lines that begin with // are not scanned.
IsText(l) == pp_state = "INITIAL" /\ l[1] \notin Pounds
DropText(l) ==
  /\ Runs /\ l # <<>> /\ IsText(l) /\ (IsDisabled \/ l[1] = "//")
  /\ Quiet /\ UNCHANGED comment

Text(l) ==
  /\ Runs /\ l # <<>> /\ IsText(l) /\ ~IsDisabled /\ l[1] # "//"
  /\ Quiet /\ comment' = InsideAfter(l)

Line(l) ==
  EmptyLine(l) \/ DropDirective(l) \/ Include(l) \/ DirectiveLine(l) \/ DropText(l) \/ Text(l)
==============================================================================
