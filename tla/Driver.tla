------------------------------- MODULE Driver -------------------------------
(***************************************************************************)
(* as-.py: pass1(), which reads the sources line by line, an #include first *)
(* to its end, and sends what the preprocessor leaves of a line through    *)
(* cc().  The expansion of macros in between is that of MacroExpand; the   *)
(* tokens here are those it returns.                                       *)
(*                                                                         *)
(* Beside the code's state runs what the C language says of the same lines *)
(* and tokens.                                                             *)
(***************************************************************************)
EXTENDS Preprocess, Statements

CONSTANTS
  Lines,       \* the lines of the sources
  IncludeMax,  \* bound of the model: sources open at a time
  NestMax,     \* bound of the model: brackets open in a statement
  JoinedMax    \* bound of the model: strings in one line of assembler

ASSUME LinesAssumption == Lines \subseteq Seq(STRING)

\* Any word of a line may be a macro's name, and what is left of "*/" or of a
\* backslash at the end.
ASSUME NamesAssumption == {"*", "\\"} \cup UNION {ToSet(l) : l \in Lines} \subseteq Macros

VARIABLES
  sources,  \* len(g_sources)
  pending,  \* tokens of the line that cc() has not taken
  inside,   \* C: this place is inside of a comment
  spliced,  \* C: the line before continues a directive
  plain,    \* no line so far was one the preprocessor has no support for
  nest,     \* C: the brackets open in the statement
  between,  \* C: this place is between two statements
  matched   \* every bracket closed was the last one open; else no step follows

cLanguage == <<inside, spliced, plain, nest, between, matched>>
driverVars == <<vars, ppVars, ccVars, sources, pending, cLanguage>>

InitDriver ==
  /\ InitPreprocess /\ InitStatements
  /\ sources = 1 /\ pending = <<>>
  /\ inside = FALSE /\ spliced = FALSE /\ plain = TRUE
  /\ nest = <<>> /\ between = TRUE /\ matched = TRUE

------------------------------------------------------------------------------
\* What C makes of a line: at a "/" that begins no comment it goes on, and the
\* backslash at the end is no token.
Meaningful(l) ==
  LET s == Scanned(l, inside)
  IN  IF s.cut THEN Append(s.tokens, "/")
      ELSE IF Ends(l) /\ s.tokens # <<>> /\ Last(s.tokens) = "\\" THEN Front(s.tokens) ELSE s.tokens
MeaningIn(t) ==
  CASE t = <<>>   -> "nothing"
    [] Pound(t)   -> IF IsDisabled /\ Command(t) \notin IfGroup THEN "nothing" ELSE "directive"
    [] OTHER      -> IF IsDisabled THEN "nothing" ELSE "text"
Meaning(l) == IF spliced THEN "body" ELSE MeaningIn(Meaningful(l))

\* A #define with its name, in a line that counts.
Defines(l) == Meaning(l) = "directive" /\ Command(Meaningful(l)) = "define" /\ Len(Meaningful(l)) > 2

\* Lines the preprocessor has no support for: an empty one in a continued
\* directive; one that goes on elsewhere than in a #define, or before the name
\* there, or behind //, or by a backslash glued to its last word; a delimiter of
\* a comment where nothing is scanned; a "/" outside of comments, which cuts the
\* line short; a star at the end of a line within a comment; a directive behind
\* blanks or behind a comment, and a number sign that begins none.
Unsupported(l) ==
  LET s == Scanned(l, inside)
  IN  \/ l = <<>> /\ spliced
      \/ Ends(l) /\ (s.over \/ ~(s.inside \/ Last(l) = "\\") \/ ~(spliced \/ Defines(l)))
      \/ {"/*", "*/"} \cap ToSet(l) # {} /\ (IsDisabled \/ (inside /\ l[1] = "//"))
      \/ s.cut /\ ~IsDisabled
      \/ s.inside /\ EndsInStar(l)
      \/ l # <<>> /\ ~spliced /\ (l[1] \in Pounds) # Pound(Meaningful(l))

\* What the code makes of it.
Treatment(l) ==
  IF l = <<>> \/ DroppedStart(l) THEN "nothing"
  ELSE IF IsInclude(l) THEN "directive"
  ELSE IF IsDirectiveLine(l) THEN IF continued THEN "body" ELSE "directive"
  ELSE IF IsDisabled \/ l[1] = "//" \/ Tokens(l) = <<>> THEN "nothing" ELSE "text"

------------------------------------------------------------------------------
IncludesFile(l) == l # <<>> /\ IsInclude(l) /\ Argument(l) \in Files
CanRead == Runs /\ ~given_up /\ matched /\ pending = <<>> /\ sources > 0
Follow(l) ==
  /\ inside' = Scanned(l, inside).inside
  /\ spliced' = Ends(l)
  /\ plain' = (plain /\ ~Unsupported(l))
  /\ UNCHANGED <<ccVars, nest, between, matched>>

ReadLine(l) ==
  /\ CanRead /\ ~IncludesFile(l)
  /\ EmptyLine(l) \/ DropDirective(l) \/ Include(l) \/ DirectiveLine(l) \/ DropText(l)
  /\ Follow(l) /\ UNCHANGED <<sources, pending>>

\* #include "...": its lines come next.  #include <...> is passed over.
IncludeFile(l) ==
  /\ CanRead /\ IncludesFile(l) /\ sources < IncludeMax
  /\ Include(l)
  /\ sources' = sources + 1
  /\ Follow(l) /\ UNCHANGED pending

ReadText(l) ==
  /\ CanRead /\ Text(l)
  /\ pending' = Tokens(l)
  /\ Follow(l) /\ UNCHANGED sources

\* Nothing but the file ends: what is open in it stays open behind it.
EndOfFile ==
  /\ CanRead
  /\ sources' = sources - 1
  /\ plain' = (plain /\ ~spliced /\ ~inside)
  /\ UNCHANGED <<vars, ppVars, ccVars, pending, inside, spliced, nest, between, matched>>

Opening == [b \in {"(", "{", "["} |-> CASE b = "(" -> ")" [] b = "{" -> "}" [] b = "[" -> "]"]
Closing == {")", "}", "]"}

CompileToken ==
  /\ pending # <<>> /\ ~given_up /\ matched
  /\ LET t == Head(pending)
     IN  /\ t \in AsmTexts => Len(joined) < JoinedMax
         /\ t \in DOMAIN Opening => Len(nest) < NestMax
         /\ Token(t)
         /\ pending' = Tail(pending)
         /\ between' = (t = ";" /\ nest = <<>>)
         /\ nest' = IF t \in DOMAIN Opening THEN Append(nest, Opening[t])
                    ELSE IF t \in Closing /\ nest # <<>> THEN Front(nest) ELSE nest
         /\ matched' = (matched /\ (t \in Closing => nest # <<>> /\ Last(nest) = t))
  /\ UNCHANGED <<vars, ppVars, sources, inside, spliced, plain>>

NextDriver ==
  \/ \E l \in Lines : ReadLine(l) \/ IncludeFile(l) \/ ReadText(l)
  \/ EndOfFile \/ CompileToken

SpecDriver == InitDriver /\ [][NextDriver]_driverVars

------------------------------------------------------------------------------
\* Python and C agree on a directive that goes on: C believes so only while
\* Python does, and gives each line of it to directive_parse_line.
ContinuedTogether == Runs /\ continued => pp_state = "DIRECTIVE_CONTINUED"

\* Lines of C that the preprocessor supports are taken for what they are.
LinesAsMeant ==
  plain /\ CanRead => \A l \in Lines : ~Unsupported(l) => Treatment(l) = Meaning(l)

\* "caller_bug(masked()->bDirectiveContinued || bPoundStart)" (directive.c:357)
\* is not met by a source of such lines.
OnlyDirectivesParsed == plain => halted # "caller_bug"

\* A statement ends, for cc() and post/skip.c, where C ends it: at the first
\* semicolon outside of its brackets.
StatementsEnd == matched /\ ~given_up => (cc_state = 0 <=> between)

\* No source needs more than two of the four places of stack[4] (post/skip.c:39):
\* what is open in brackets is counted in one of them.
SkipStackRoom == Len(skipping) <= 2
==============================================================================
