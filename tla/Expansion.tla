------------------------------ MODULE Expansion ------------------------------
(***************************************************************************)
(* What the expansion of macros means: a call is replaced by the body with *)
(* the arguments in the place of the parameters, and the result is read    *)
(* again together with the rest.                                           *)
(***************************************************************************)
EXTENDS SequencesExt, Integers

CONSTANTS Quote

\* An item is a word still to be read, or a token that # or ## put together.
Unread(w)     == [words |-> <<w>>, done |-> FALSE]
Done(words)   == [words |-> words, done |-> TRUE]
UnreadAll(ws) == [i \in DOMAIN ws |-> Unread(ws[i])]
IsUnread(items, i, w) == i <= Len(items) /\ items[i] = Unread(w)
Words(items)  == FlattenSeq([i \in DOMAIN items |-> items[i].words])

\* The number of the bracket that closes the one before `i`.
RECURSIVE Closing(_, _, _)
Closing(items, i, open) ==
  IF i > Len(items) THEN 0
  ELSE IF IsUnread(items, i, "(") THEN Closing(items, i + 1, open + 1)
  ELSE IF IsUnread(items, i, ")")
       THEN IF open = 0 THEN i ELSE Closing(items, i + 1, open - 1)
  ELSE Closing(items, i + 1, open)

\* The arguments between items a and b, apart from the commas between them.
RECURSIVE Split(_, _, _, _, _)
Split(items, a, i, b, open) ==
  IF i > b THEN <<SubSeq(items, a, b)>>
  ELSE IF IsUnread(items, i, ",") /\ open = 0
       THEN <<SubSeq(items, a, i - 1)>> \o Split(items, i + 1, i + 1, b, 0)
  ELSE Split(items, a, i + 1, b,
             open + (IF IsUnread(items, i, "(") THEN 1 ELSE IF IsUnread(items, i, ")") THEN -1 ELSE 0))

\* The body of a macro, given the items that stand for each of its words.
RECURSIVE Pasted(_)
Pasted(parts) ==
  IF parts = <<>> THEN <<>>
  ELSE IF Len(parts) > 1 /\ parts[1] = UnreadAll(<<"#">>)
       THEN Pasted(<< <<Done(<<Quote>> \o Words(parts[2]) \o <<Quote>>)>> >> \o SubSeq(parts, 3, Len(parts)))
  ELSE IF Len(parts) > 2 /\ parts[2] = UnreadAll(<<"##">>)
       THEN Pasted(<< Front(parts[1]) \o <<Done(Last(parts[1]).words \o Head(parts[3]).words)>>
                        \o Tail(parts[3]) >> \o SubSeq(parts, 4, Len(parts)))
  ELSE Head(parts) \o Pasted(Tail(parts))

\* The tokens the items stand for: Args and Text give the macros there are.
RECURSIVE Expanded(_, _, _)
Expanded(items, Args, Text) ==
  LET x    == Head(items).words[1]
      rest == Tail(items)
      end  == Closing(rest, 2, 0)
      args == Split(rest, 2, 2, end - 1, 0)
      part(w) == LET ps == { k \in DOMAIN Args[x] : Args[x][k] = w }
                 IN  IF ps = {} THEN UnreadAll(<<w>>) ELSE args[CHOOSE k \in ps : TRUE]
      body == Pasted([i \in DOMAIN Text[x] |-> part(Text[x][i])])
  IN  IF items = <<>> THEN <<>>
      ELSE IF Head(items).done \/ x \notin DOMAIN Args
           THEN <<Head(items).words>> \o Expanded(rest, Args, Text)
      ELSE IF Args[x] = <<>> THEN Expanded(body \o rest, Args, Text)
      ELSE IF ~IsUnread(rest, 1, "(") \/ end = 0 \/ Len(args) # Len(Args[x])
           THEN <<Head(items).words>> \o Expanded(rest, Args, Text)
      ELSE Expanded(body \o SubSeq(rest, end + 1, Len(rest)), Args, Text)
==============================================================================
