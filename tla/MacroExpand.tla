----------------------------- MODULE MacroExpand -----------------------------
(***************************************************************************)
(* post/tokenize.c with param.c and the iterator of macro.c: the tokens of *)
(* a line of C with the macros of MacroTable expanded.                     *)
(*                                                                         *)
(* A stack of frames holds what is still to be read: the line, bodies of   *)
(* macros, arguments.  A token is a word, or in bodies and arguments the   *)
(* mark of a parameter.  A word's place in its line is its number there.   *)
(* Directives come between two lines, also between two lines of one call.  *)
(***************************************************************************)
EXTENDS MacroTable, SequencesExt

CONSTANTS
  Args, Text,   \* of each macro: its parameters, the words of its lines
  Lines,        \* the lines of C
  Nl,           \* NEWLINE, between the lines of a macro
  Quote,        \* the quotation mark # puts around a token
  Stale,        \* the text at a place behind the end of a line
  Directive,    \* a directive seen inside of a call
  ParamMax,     \* MACRO_PARAM_MAX: 16
  ParamIdMax,   \* PARAMID_MAX: 256
  NestMax,      \* BRACKET_NEST_MAX: 16
  LinesMax      \* bound of the model: lines and directives in one call

\* The words that are in the sources, and what the code keeps of them.
Words  == {Stale} \cup UNION ({ ToSet(Args[x]) \cup ToSet(Text[x]) : x \in Names } \cup { ToSet(l) : l \in Lines })
Tokens == [word : Words, par : Nat]

ASSUME MacrosAssumption ==
  /\ Args \in [Names -> Seq(Words)] /\ Text \in [Names -> Seq(Words)] /\ Lines \subseteq Seq(Words)
  /\ Null \notin Words /\ Null \notin Seq(Tokens)
ASSUME ParamAssumption == ParamIdMax \in Nat /\ ListInitMax <= ParamIdMax

VARIABLES
  frames,  \* masked()->resolve_stack, the root first
  params,  \* masked()->param_work: the arguments under their indices
  line,    \* masked()->root_tokenized
  call,    \* parsing(), heap() and parsed(): the macro call being read
  found,   \* masked()->found_id
  joined,  \* joining(): the words of the token being put together
  literal, \* parsing()->bLiteralize
  running, \* tokenize_get_C is at work on the line
  failed,  \* an assertion or an access to what is not there
  text,    \* the lines and directives since no call was open
  out      \* the tokens returned for them

machine == <<frames, params, line, call, found, joined, literal, running, failed>>
allVars == <<vars, machine, text, out>>

Param == INSTANCE TokenList WITH ReserveMax <- ParamIdMax

------------------------------------------------------------------------------
\* Tokens: a word, or parameter number `par`.
Word(w) == [word |-> w, par |-> 0]
IsParam(tok) == tok.par > 0

\* macro_write: the words that name a parameter become its mark.
MarkOf(x, w) ==
  LET places == { k \in DOMAIN Args[x] : Args[x][k] = w }
  IN  IF places = {} THEN Word(w) ELSE [word |-> w, par |-> Min(places)]
Bodies == [x \in Names |-> [i \in DOMAIN Text[x] |-> MarkOf(x, Text[x][i])]]

\* What the frame reads, and whether something of it is left.
Source(f) == CASE f.kind = "root"  -> [i \in DOMAIN line |-> Word(line[i])]
               [] f.kind = "macro" -> Bodies[table.map[f.id]]
               [] f.kind = "param" -> params.map[f.id]
HasNext(f) == f.read < Len(Source(f))
NextOf(f)  == Source(f)[f.read + 1]

Top == Last(frames)
Tok == NextOf(Top)
Is(w) == HasNext(Top) /\ ~IsParam(Tok) /\ Tok.word = w
Advanced(fs) == [fs EXCEPT ![Len(fs)].read = @ + 1]

\* macro_tokenize_next_total: the tokens got, newlines not counted.
GotTotal(f) == Cardinality({ i \in 1 .. f.read : Source(f)[i].word # Nl })

Frame(kind, id, ps, owner) ==
  [kind |-> kind, id |-> id, params |-> ps, owner |-> owner, read |-> 0]
Root == Frame("root", 0, <<>>, 0)

\* _pop_stack: the arguments of a macro go with its frame.
DroppedLeaky(ids) == params
Dropped(ids) ==
  [params EXCEPT !.map = [i \in DOMAIN @ |-> IF i \in ids THEN Null ELSE @[i]]]
ParamsAbove(d) == UNION { ToSet(frames[j].params) : j \in d + 1 .. Len(frames) }

\* _pop_stack_until_peekable: down to a frame of another kind or with a token left.
PeekableAtTop(fs, kinds) == Len(fs)
Peekable(fs, kinds) == Max({ d \in DOMAIN fs : fs[d].kind \notin kinds \/ HasNext(fs[d]) })

------------------------------------------------------------------------------
NoCall == [state |-> "none", args |-> 0, open |-> 0, heap |-> <<>>, parsed |-> <<>>, id |-> 0]
Init0 ==
  /\ Init
  /\ frames = <<Root>> /\ params = NoTable /\ line = <<>>
  /\ call = NoCall /\ found = 0
  /\ joined = <<>> /\ literal = FALSE /\ running = FALSE /\ failed = FALSE
  /\ text = <<>> /\ out = <<>>

AtRest == ~running /\ call.state = "none"

\* #define or #undef between two lines.
DirectiveLine ==
  /\ ~running /\ ~failed /\ Len(text) < LinesMax
  /\ Next
  /\ IF AtRest THEN text' = <<>> /\ out' = <<>>
     ELSE text' = Append(text, <<Directive>>) /\ UNCHANGED out
  /\ UNCHANGED machine

\* tokenize_get_C_first: the root starts over, the rest stays as it is.
GetCFirst(l) ==
  /\ ~running /\ ~failed /\ stopped = "no"
  /\ AtRest \/ Len(text) < LinesMax
  /\ line' = l /\ running' = TRUE
  /\ frames' = [frames EXCEPT ![1].read = 0]
  /\ IF AtRest THEN text' = <<l>> /\ out' = <<>>
     ELSE text' = Append(text, l) /\ UNCHANGED out
  /\ UNCHANGED <<vars, params, call, found, joined, literal, failed>>

Step == running /\ ~failed /\ UNCHANGED <<vars, line, text>>
Reading == Step /\ call.state = "none"

\* The end of the line: the caller asks again with the next one.
EndOfLine ==
  /\ Reading /\ Len(frames) = 1 /\ ~HasNext(Top)
  /\ running' = FALSE
  /\ UNCHANGED <<frames, params, call, found, joined, literal, failed, out>>

EndOfFrame ==
  /\ Reading /\ Len(frames) > 1 /\ ~HasNext(Top)
  /\ frames' = Front(frames)
  /\ params' = Dropped(ToSet(Top.params))
  /\ UNCHANGED <<call, found, joined, literal, running, failed, out>>

StartLiteral ==
  /\ Reading /\ Is("#") /\ joined = <<>> /\ ~literal
  /\ frames' = Advanced(frames)
  /\ joined' = <<Quote>> /\ literal' = TRUE
  /\ UNCHANGED <<params, call, found, running, failed, out>>

NewLine ==
  /\ Reading /\ Is(Nl)
  /\ frames' = Advanced(frames)
  /\ out' = Append(out, <<Nl>>)
  /\ UNCHANGED <<params, call, found, joined, literal, running, failed>>

\* _decode_token: the frame that owns the parameter, and its number there.  A
\* mark of the frame below is shifted behind the parameters of the frame.
Depth == IF Top.kind = "param" THEN Top.owner ELSE Len(frames)
Owner(par) == IF par <= Len(frames[Depth].params) THEN Depth ELSE Depth - 1
Index(par) == IF Owner(par) = Depth THEN par ELSE par - Len(frames[Depth].params)
IsOwned(par) == frames[Depth].kind = "macro" /\ frames[Owner(par)].kind = "macro"
\* The body may be that of a macro that took the index over inside of the call
\* and has more parameters: then there is no argument to be read.
IsGiven(par) == IsOwned(par) /\ Index(par) \in DOMAIN frames[Owner(par)].params

EnterParam ==
  /\ Reading /\ HasNext(Top) /\ IsParam(Tok) /\ IsGiven(Tok.par)
  /\ LET o == Owner(Tok.par)
     IN  frames' = Append(Advanced(frames),
                     Frame("param", frames[o].params[Index(Tok.par)], <<>>, o))
  /\ UNCHANGED <<params, call, found, joined, literal, running, failed, out>>

IsWord == HasNext(Top) /\ ~IsParam(Tok) /\ Tok.word \notin {"#", Nl}
IsCall == IsWord /\ ~literal /\ Lookup(Tok.word) # 0

\* A word that is no macro is the next token, unless ## follows.
PutWord ==
  /\ Reading /\ IsWord /\ ~IsCall
  /\ found' = IF literal THEN found ELSE 0
  /\ LET read == Advanced(frames)
         d == Peekable(read, {"macro", "param"})
         rest == SubSeq(read, 1, d)
         glued == d > 1 /\ HasNext(rest[d]) /\ NextOf(rest[d]) = Word("##")
         token == Append(joined, Tok.word)
     IN  /\ frames' = IF glued THEN Advanced(rest) ELSE rest
         /\ params' = Dropped(ParamsAbove(d))
         /\ joined' = IF glued THEN token ELSE <<>>
         /\ literal' = (glued /\ literal)
         /\ out' = IF glued THEN out
                   ELSE Append(out, IF literal THEN Append(token, Quote) ELSE token)
  /\ UNCHANGED <<call, running, failed>>

\* The name of a macro.  A body that is nothing but the name makes place first.
IsAlias == Top.kind = "macro" /\ GotTotal(Last(Advanced(frames))) = 1
           /\ Top.read + 1 = Len(Source(Top))
FindMacro ==
  /\ Reading /\ IsCall
  /\ found' = Lookup(Tok.word)
  /\ LET n == Len(Args[Tok.word])
     IN  call' = [call EXCEPT !.args = n, !.state = IF n > 0 THEN "bracket" ELSE "enter"]
  /\ frames' = IF IsAlias THEN Front(frames) ELSE Advanced(frames)
  /\ params' = IF IsAlias THEN Dropped(ToSet(Top.params)) ELSE params
  /\ UNCHANGED <<joined, literal, running, failed, out>>

\* _pre_parameter: the bracket behind the name, in this frame or behind an
\* argument that ended with the name.
CallFrame == Peekable(frames, {"param"})
HasBracket == HasNext(frames[CallFrame]) /\ NextOf(frames[CallFrame]) = Word("(")
CanOpenParam == Param!CreateId(params) # 0

OpenBracket ==
  /\ Step /\ call.state = "bracket" /\ HasBracket /\ CanOpenParam
  /\ frames' = Advanced(SubSeq(frames, 1, CallFrame))
  /\ params' = Param!Created(params, <<>>)
  /\ call' = [call EXCEPT !.state = "args", !.open = 0, !.heap = <<>>, !.parsed = <<>>,
                          !.id = Param!CreateId(params)]
  /\ UNCHANGED <<found, joined, literal, running, failed, out>>

\* _get_macro_parameters: the places of the argument's tokens, up to a comma or
\* bracket of the call itself.
InArgs == Step /\ call.state = "args"
Delimits == (Is(",") \/ Is(")")) /\ call.open = 0
CanNest == Is("(") => call.open + 1 < NestMax

Gather ==
  /\ InArgs /\ HasNext(Top) /\ ~Is(Nl) /\ ~Delimits /\ CanNest
  /\ frames' = Advanced(frames)
  /\ call' = [call EXCEPT !.heap = Append(@, Top.read + 1),
                          !.open = @ + (IF Is("(") THEN 1 ELSE IF Is(")") THEN -1 ELSE 0)]
  /\ UNCHANGED <<params, found, joined, literal, running, failed, out>>

\* A line may end inside of a call, the places then belong to the next line.
EndOfLineOutsideBrackets ==
  /\ InArgs /\ ~HasNext(Top) /\ Len(frames) = 1 /\ call.open = 0
  /\ running' = FALSE
  /\ UNCHANGED <<frames, params, call, found, joined, literal, failed, out>>
EndOfLineInArgs ==
  /\ InArgs /\ ~HasNext(Top) /\ Len(frames) = 1
  /\ running' = FALSE
  /\ UNCHANGED <<frames, params, call, found, joined, literal, failed, out>>

\* _encode_tokens and param_write.
Shifted(tok, n) == IF IsParam(tok) THEN [tok EXCEPT !.par = @ + n] ELSE tok
Argument ==
  [i \in DOMAIN call.heap |->
     IF call.heap[i] <= Len(Source(Top)) THEN Shifted(Source(Top)[call.heap[i]], call.args)
     ELSE Word(Stale)]
CanWrite ==
  /\ call.heap # <<>> /\ Len(call.parsed) < call.args
  /\ \A i \in DOMAIN call.heap : Argument[i].par <= ParamMax
Written == [params EXCEPT !.map[call.id] = Argument]
Complete == Len(call.parsed) + 1 = call.args

NextArg ==
  /\ InArgs /\ Delimits /\ Is(",") /\ CanWrite /\ CanOpenParam
  /\ frames' = Advanced(frames)
  /\ params' = Param!Created(Written, <<>>)
  /\ call' = [call EXCEPT !.heap = <<>>, !.parsed = Append(@, call.id),
                          !.id = Param!CreateId(Written)]
  /\ UNCHANGED <<found, joined, literal, running, failed, out>>

LastArg ==
  /\ InArgs /\ Delimits /\ Is(")") /\ CanWrite /\ Complete
  /\ frames' = Advanced(frames)
  /\ params' = Written
  /\ call' = [call EXCEPT !.state = "enter", !.parsed = Append(@, call.id), !.id = 0]
  /\ UNCHANGED <<found, joined, literal, running, failed, out>>

\* _enter_macro, with the index the name had when the call began.
EnterMacro ==
  /\ Step /\ call.state = "enter" /\ table.map[found] # Null
  /\ frames' = Append(frames, Frame("macro", found, IF call.args > 0 THEN call.parsed ELSE <<>>, 0))
  /\ call' = NoCall
  /\ UNCHANGED <<params, found, joined, literal, running, failed, out>>

\* An assertion, an error about the source, or a macro removed meanwhile, or
\* replaced.
Refused ==
  CASE call.state = "none" ->
         /\ HasNext(Top)
         /\ \/ Is("#") /\ (joined # <<>> \/ literal)
            \/ IsParam(Tok) /\ ~IsGiven(Tok.par)
    [] call.state = "bracket" -> ~HasBracket \/ ~CanOpenParam
    [] call.state = "args" ->
         \/ ~HasNext(Top) /\ Len(frames) > 1
         \/ Is(Nl) \/ ~CanNest
         \/ Delimits /\ (~CanWrite \/ IF Is(",") THEN ~CanOpenParam ELSE ~Complete)
    [] call.state = "enter" -> table.map[found] = Null

Fail ==
  /\ Step /\ Refused
  /\ failed' = TRUE /\ running' = FALSE
  /\ UNCHANGED <<frames, params, call, found, joined, literal, out>>

GetC ==
  \/ EndOfLine \/ EndOfFrame \/ StartLiteral \/ NewLine \/ EnterParam \/ PutWord
  \/ FindMacro \/ OpenBracket \/ Gather \/ EndOfLineInArgs \/ NextArg \/ LastArg
  \/ EnterMacro \/ Fail

NextExpand == DirectiveLine \/ (\E l \in Lines : GetCFirst(l)) \/ GetC
SpecExpand == Init0 /\ [][NextExpand]_allVars /\ WF_allVars(GetC)

------------------------------------------------------------------------------
\* Frames and call together hold every argument that is alive, each of them once:
\* none leaks, none is freed while something still reads it.
Held == [j \in DOMAIN frames |-> ToSet(frames[j].params)]
InCall == ToSet(call.parsed) \cup ({call.id} \ {0})
ArgumentsHeld ==
  /\ Param!Live(params) = InCall \cup UNION { Held[j] : j \in DOMAIN frames }
  /\ \A j, k \in DOMAIN frames : j # k => Held[j] \cap Held[k] = {}
  /\ \A j \in DOMAIN frames : Held[j] \cap InCall = {}
  /\ \A j \in DOMAIN frames :
       frames[j].kind = "param" => frames[j].owner < j /\ frames[j].id \in Held[frames[j].owner]

\* "assert(MACRO_RESOLVE == _stack[depth].type)" (post/tokenize.c:265): the frame
\* a parameter is looked up in is the one of a macro.
ParametersDecode ==
  running /\ call.state = "none" /\ HasNext(Top) /\ IsParam(Tok) => IsOwned(Tok.par)

\* tokenize_get_C gets to the end of every line or gives up.
LinesEnd == running ~> ~running
==============================================================================
