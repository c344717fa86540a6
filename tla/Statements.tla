----------------------------- MODULE Statements -----------------------------
(***************************************************************************)
(* as-.py: cc() with post/skip.c: of the tokens of C it takes the strings  *)
(* inside of __asm__ (...) and hands every line of assembler to pass 1;    *)
(* all other statements are skipped, by a stack of what is open in them.   *)
(*                                                                         *)
(* A token is a word of two characters or more, or a single character.     *)
(***************************************************************************)
EXTENDS Integers, SequencesExt

CONSTANTS
  AsmTexts,  \* strings inside of __asm__ other than "\n"
  Words,     \* words other than __asm__, typedef and struct
  Marks      \* single characters, the letters among them too

\* The marks that are no letters; none of them is a string.
Punctuation == {"(", ")", "{", "}", "[", "]", ";", ",", "*", "=", "#", "\\"}
ASSUME MarksAssumption == Punctuation \subseteq Marks /\ AsmTexts \cap Punctuation = {}

Newline == "\\n"
CTokens == AsmTexts \cup Words \cup Marks \cup {Newline, "__asm__", "typedef", "struct"}
Strings == AsmTexts \cup {Newline}

VARIABLES
  cc_state,     \* s_cc_state: 0 between statements, 4 in one that is skipped
  joined,       \* s_cc_remainder, the text of the line begun
  skipping,     \* post/skip.c: the states entered, each with its open brackets
  line,         \* the line handed to pass 1 by the last token, if any
  given_up      \* giveup_skipping, or a token cc() does not expect

ccVars == <<cc_state, joined, skipping, line, given_up>>

Context(s) == [state |-> s, unclosed |-> 0]
Idle == <<Context("INITIAL")>>

InitStatements ==
  /\ cc_state = 0 /\ joined = <<>> /\ skipping = Idle
  /\ line = <<>> /\ given_up = FALSE

------------------------------------------------------------------------------
\* post/skip.c: what each state makes of the token, <<>> if it gives up.
Open == Last(skipping)
Modified(s) == [skipping EXCEPT ![Len(skipping)] = Context(s)]
Pushed(s)   == Append(skipping, Context(s))
Counted(n)  == [skipping EXCEPT ![Len(skipping)].unclosed = @ + n]
Popped      == IF Len(skipping) > 1 THEN Front(skipping) ELSE Idle

IsMark(t) == t \in Marks
Letters == Marks \ Punctuation

FirstOf(t)   == CASE t = "typedef" -> Modified("TYPEDEF")
                  [] IsMark(t)     -> <<>>
                  [] OTHER         -> Modified("DECLARE")
InTypedef(t) == CASE t = "struct"  -> Modified("STRUCT")
                  [] ~IsMark(t) /\ t # "struct" -> skipping
                  [] t = ";"       -> Popped
                  [] t = "("       -> Pushed("ROUND_BRACKETS")
                  [] OTHER         -> <<>>
InStruct(t)  == CASE ~IsMark(t)    -> skipping
                  [] t = ";"       -> Popped
                  [] t = "{"       -> Pushed("CURLY_BRACKETS")
                  [] OTHER         -> <<>>
InDeclare(t) == CASE ~IsMark(t)    -> skipping
                  [] t = ";"       -> Popped
                  [] t = "("       -> Pushed("ROUND_BRACKETS")
                  [] OTHER         -> <<>>
InCurlyUncounted(t) == CASE ~IsMark(t) -> skipping
                         [] t = "}"    -> Popped
                         [] t \in {"(", ")", "*", ",", ";", "[", "]", "{"} \cup Letters -> skipping
                         [] OTHER      -> <<>>
InCurlyPushes(t) == IF t = "{" THEN Pushed("CURLY_BRACKETS") ELSE InCurlyUncounted(t)
InCurly(t)   == CASE ~IsMark(t)    -> skipping
                  [] t = "{"       -> Counted(1)
                  [] t = "}"       -> IF Open.unclosed > 0 THEN Counted(-1) ELSE Popped
                  [] t \in {"(", ")", "*", ",", ";", "[", "]"} \cup Letters -> skipping
                  [] OTHER         -> <<>>
InRound(t)   == CASE ~IsMark(t)    -> skipping
                  [] t = "("       -> Counted(1)
                  [] t = ")"       -> IF Open.unclosed > 0 THEN Counted(-1) ELSE Popped
                  [] t \in {"*", ",", ";"} -> skipping
                  [] OTHER         -> <<>>

Skipped(t) == CASE Open.state = "INITIAL"        -> FirstOf(t)
                [] Open.state = "TYPEDEF"        -> InTypedef(t)
                [] Open.state = "STRUCT"         -> InStruct(t)
                [] Open.state = "CURLY_BRACKETS" -> InCurly(t)
                [] Open.state = "ROUND_BRACKETS" -> InRound(t)
                [] Open.state = "DECLARE"        -> InDeclare(t)

------------------------------------------------------------------------------
GiveUp == given_up' = TRUE /\ line' = <<>> /\ UNCHANGED <<cc_state, joined, skipping>>
To(s) == cc_state' = s /\ line' = <<>> /\ UNCHANGED <<joined, skipping, given_up>>

AsmBegin(t) == cc_state = 0 /\ t = "__asm__" /\ To(1)
AsmOpen(t)  == cc_state = 1 /\ t = "(" /\ To(2)
AsmClose(t) == cc_state = 2 /\ t = ")" /\ To(3)
AsmEnd(t)   == cc_state = 3 /\ t = ";" /\ To(0)

\* unexpected_token_abort, unexpected_abort
AsmUnexpected(t) ==
  /\ \/ cc_state = 1 /\ t # "("
     \/ cc_state = 2 /\ t # ")" /\ t \notin Strings
     \/ cc_state = 3 /\ t # ";"
  /\ GiveUp

\* A string of its own ends the line, what is joined stays over tokens and lines.
AsmText(t) ==
  /\ cc_state = 2 /\ t \in Strings
  /\ IF t = Newline THEN line' = joined /\ joined' = <<>>
     ELSE joined' = Append(joined, t) /\ line' = <<>>
  /\ UNCHANGED <<cc_state, skipping, given_up>>

\* skip_statement_C, also for the first token of a statement.
SkipToken(t) ==
  /\ cc_state = 4 \/ (cc_state = 0 /\ t # "__asm__")
  /\ IF Skipped(t) = <<>> THEN GiveUp
     ELSE /\ skipping' = Skipped(t)
          /\ cc_state' = IF Last(Skipped(t)).state = "INITIAL" THEN 0 ELSE 4
          /\ line' = <<>>
          /\ UNCHANGED <<joined, given_up>>

Token(t) ==
  /\ ~given_up
  /\ \/ AsmBegin(t) \/ AsmOpen(t) \/ AsmClose(t) \/ AsmEnd(t) \/ AsmUnexpected(t)
     \/ AsmText(t) \/ SkipToken(t)
==============================================================================
