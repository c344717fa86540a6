---------------------------- MODULE DriverProofs ----------------------------
(***************************************************************************)
(* Conditional directives, for every set of macros and every DepthMax:     *)
(* their fields implement the stack of groups of Conditionals.  Then the   *)
(* driver, for every set of lines and words and every bound: it gives the  *)
(* directives nothing but directives, Python and C agree on those that go  *)
(* on, lines are taken for what they are, statements end where C ends      *)
(* them, and the stack of post/skip.c has room for them.                   *)
(***************************************************************************)
EXTENDS Driver, FiniteSums, SequenceTheorems, TLAPS

States == {INITIAL, ENTER_TRUE, LEAVE_TRUE}

\* The inductive invariant.
Inv == TypeOK /\ FieldsAboveClear

\* A state of a group is one of the three (never the 3 two bits could hold).
LEMMA StatesDiffer == INITIAL # ENTER_TRUE /\ INITIAL # LEAVE_TRUE /\ ENTER_TRUE # LEAVE_TRUE
BY DEF INITIAL, ENTER_TRUE, LEAVE_TRUE

LEMMA InitInv == Init => Inv
<1> SUFFICES ASSUME Init PROVE Inv
  OBVIOUS
<1>1. field \in [1 .. DepthMax -> {INITIAL, ENTER_TRUE, LEAVE_TRUE}]
  BY DEF Init, INITIAL, ENTER_TRUE, LEAVE_TRUE
<1>2. depth \in 0 .. DepthMax /\ defined \subseteq Macros
  BY DepthAssumption DEF Init
<1>3. fault \in BOOLEAN
  BY Zenon DEF Init
<1>4. FieldsAboveClear
  BY DepthAssumption DEF Init, FieldsAboveClear
<1> QED
  BY <1>1, <1>2, <1>3, <1>4 DEF Inv, TypeOK

\* Opening a group writes the field above the depth, which was clear.
LEMMA PushInv == ASSUME Inv, NEW c, Push(c) PROVE Inv'
BY DepthAssumption
   DEF Inv, TypeOK, FieldsAboveClear, Push, CanPush, INITIAL, ENTER_TRUE, LEAVE_TRUE

\* A directive of the open group writes its field only.
LEMMA SetInv ==
  ASSUME Inv, depth > 0, NEW s \in States, SetState(s), UNCHANGED <<depth, defined, fault>>
  PROVE  Inv'
BY DepthAssumption DEF Inv, TypeOK, FieldsAboveClear, SetState, States

\* Closing a group clears its field.
LEMMA EndifInv == ASSUME Inv, Endif PROVE Inv'
BY DepthAssumption
   DEF Inv, TypeOK, FieldsAboveClear, Endif, SetState, INITIAL, ENTER_TRUE, LEAVE_TRUE

LEMMA StepInv == ASSUME Inv, [Next]_vars PROVE Inv'
<1>1. ASSUME NEW c \in BOOLEAN, If(c) PROVE Inv'
  BY <1>1, PushInv DEF If
<1>2. ASSUME NEW c \in BOOLEAN, Elif(c) PROVE Inv'
  BY <1>2, SetInv DEF Elif, States
<1>3. ASSUME NEW m \in Macros, Ifdef(m) \/ Ifndef(m) PROVE Inv'
  BY <1>3, PushInv DEF Ifdef, Ifndef
<1>4. ASSUME NEW m \in Macros, Define(m) \/ Undef(m) PROVE Inv'
  BY <1>4 DEF Define, Undef, Inv, TypeOK, FieldsAboveClear
<1>5. CASE Else
  BY <1>5, SetInv DEF Else, States
<1>6. CASE Endif
  BY <1>6, EndifInv
<1>7. CASE StrayElif
  BY <1>7 DEF StrayElif, Inv, TypeOK, FieldsAboveClear
<1>8. CASE UNCHANGED vars
  BY <1>8 DEF vars, Inv, TypeOK, FieldsAboveClear
<1> QED
  BY <1>1, <1>2, <1>3, <1>4, <1>5, <1>6, <1>7, <1>8 DEF Next

\* Every reachable state of the conditional directives satisfies the invariant.
THEOREM InvHolds == Spec => []Inv
BY InitInv, StepInv, PTL DEF Spec

\* The depth stays within what the packed fields hold, and every field is one
\* of the three states (pre/directive.c:102-104).
THEOREM TypeCorrect == Spec => []TypeOK
<1>1. Inv => TypeOK
  BY DEF Inv
<1> QED
  BY <1>1, InvHolds, PTL

\* A new #if finds a clear field: manage_bug(0 == filter_get_state ()) and the
\* mask of directive_is_disable_by_if hold (pre/directive.c:95 and 188).
THEOREM ClearAbove == Spec => []FieldsAboveClear
<1>1. Inv => FieldsAboveClear
  BY DEF Inv
<1> QED
  BY <1>1, InvHolds, PTL

\* No step takes a group from LEAVE_TRUE to another state while it is open.
LEMMA StepKeepsLeft ==
  ASSUME Inv, [Next]_vars, NEW d \in 1 .. depth, d <= depth', field[d] = LEAVE_TRUE
  PROVE  field'[d] = LEAVE_TRUE
<1>0. d \in 1 .. DepthMax /\ depth \in 0 .. DepthMax
  BY DepthAssumption DEF Inv, TypeOK
<1>1. ASSUME NEW c, Push(c) PROVE field'[d] = LEAVE_TRUE
  BY <1>0, <1>1, DepthAssumption DEF Push, CanPush, Inv, TypeOK
<1>2. ASSUME NEW c \in BOOLEAN, Elif(c) PROVE field'[d] = LEAVE_TRUE
  BY <1>0, <1>2, StatesDiffer, DepthAssumption DEF Elif, SetState, GetState, Inv, TypeOK
<1>3. CASE Else
  BY <1>0, <1>3, StatesDiffer, DepthAssumption DEF Else, SetState, GetState, Inv, TypeOK
<1>4. CASE Endif
  BY <1>0, <1>4, DepthAssumption DEF Endif, SetState, Inv, TypeOK
<1>5. CASE UNCHANGED field
  BY <1>5
<1> QED
  BY <1>1, <1>2, <1>3, <1>4, <1>5
  DEF Next, vars, If, Ifdef, Ifndef, Define, Undef, StrayElif

\* A group that left its chosen branch enters no other while it stays open,
\* whatever #elif and #else follow (pre/directive.c:165-210).
THEOREM OneBranchHolds == Spec => OneBranch
<1>1. Inv /\ [Next]_vars =>
        [\A d \in 1 .. depth : d <= depth' /\ field[d] = LEAVE_TRUE => field'[d] = LEAVE_TRUE]_vars
  BY StepKeepsLeft
<1> QED
  BY <1>1, InvHolds, PTL DEF Spec, OneBranch

------------------------------------------------------------------------------
\* The groups are a sequence as long as the depth.
LEMMA GroupsSeq ==
  ASSUME Inv
  PROVE  Groups \in Seq(Abstract!Group) /\ Len(Groups) = depth
<1>1. depth \in Nat
  BY DepthAssumption DEF Inv, TypeOK
<1>2. \A d \in 1 .. depth : Groups[d] \in Abstract!Group
  BY DEF Groups, Abstract!Group
<1> QED
  BY <1>1, <1>2 DEF Groups

\* A new group is the one Open appends.
LEMMA PushOpens == ASSUME Inv, NEW c \in BOOLEAN, Push(c) PROVE Abstract!Open(c)
<1> DEFINE g == [taken |-> c, active |-> c]
<1>1. depth \in Nat /\ depth' = depth + 1 /\ depth + 1 \in 1 .. DepthMax
  BY DepthAssumption DEF Push, CanPush, Inv, TypeOK
<1>2. \A d \in 1 .. depth : Groups'[d] = Groups[d]
  BY <1>1, DepthAssumption DEF Push, Inv, TypeOK, Groups
<1>3. Groups'[depth + 1] = g
  BY <1>1, DepthAssumption DEF Push, Inv, TypeOK, Groups, INITIAL, ENTER_TRUE
<1>4. Len(Groups) = depth /\ Groups \in Seq(Abstract!Group)
  BY GroupsSeq
<1>5. Groups' = [d \in 1 .. depth + 1 |-> Groups'[d]]
  BY <1>1 DEF Groups
<1>6. Append(Groups, g) = [d \in 1 .. depth + 1 |-> IF d = depth + 1 THEN g ELSE Groups[d]]
  BY <1>1, <1>4
<1>7. Groups' = Append(Groups, g)
  BY <1>1, <1>2, <1>3, <1>5, <1>6
<1> QED
  BY <1>7 DEF Push, Abstract!Open
\* #elif and #else rewrite the last group as Branch does; c is the condition.
LEMMA SetBranches ==
  ASSUME Inv, depth > 0, NEW c \in BOOLEAN, NEW s \in States, SetState(s),
         UNCHANGED <<depth, defined>>,
         (s # INITIAL) <=> (GetState # INITIAL \/ c),
         (s = ENTER_TRUE) <=> (GetState = INITIAL /\ c)
  PROVE  Abstract!Branch(c)
<1> DEFINE g == [taken |-> Groups[depth].taken \/ c, active |-> ~Groups[depth].taken /\ c]
<1>1. depth \in 1 .. depth /\ depth \in 1 .. DepthMax /\ depth \in Nat
  BY DepthAssumption DEF Inv, TypeOK
<1>2. Len(Groups) = depth /\ Groups # <<>>
  BY GroupsSeq, <1>1
<1>3. \A d \in 1 .. depth : d # depth => Groups'[d] = Groups[d]
  BY <1>1, DepthAssumption DEF SetState, Inv, TypeOK, Groups
<1>4. field'[depth] = s
  BY <1>1 DEF SetState, Inv, TypeOK
<1>5. Groups'[depth] = [taken |-> s # INITIAL, active |-> s = ENTER_TRUE]
  BY <1>1, <1>4 DEF Groups
<1>6. Groups[depth].taken = (GetState # INITIAL)
  BY <1>1 DEF Groups, GetState
<1>7. Groups'[depth] = g
  BY <1>5, <1>6
<1>8. Groups' = [d \in 1 .. depth |-> Groups'[d]]
  BY <1>1 DEF Groups
<1>9. [Groups EXCEPT ![depth] = g] = [d \in 1 .. depth |-> IF d = depth THEN g ELSE Groups[d]]
  BY <1>1 DEF Groups
<1>10. Groups' = [Groups EXCEPT ![depth] = g]
  BY <1>3, <1>7, <1>8, <1>9
<1> QED
  BY <1>2, <1>10 DEF Abstract!Branch

\* #endif drops the last group.
LEMMA EndifCloses == ASSUME Inv, Endif PROVE Abstract!Close
<1>1. depth \in Nat \ {0} /\ depth' = depth - 1 /\ depth \in 1 .. DepthMax
  BY DepthAssumption DEF Endif, Inv, TypeOK
<1>2. Len(Groups) = depth /\ Groups # <<>>
  BY GroupsSeq, <1>1
<1>3. \A d \in 1 .. depth - 1 : Groups'[d] = Groups[d]
  BY <1>1, DepthAssumption DEF Endif, SetState, Inv, TypeOK, Groups
<1>4. Groups' = [d \in 1 .. depth - 1 |-> Groups'[d]]
  BY <1>1 DEF Groups
<1>5. SubSeq(Groups, 1, depth - 1) = [d \in 1 .. depth - 1 |-> Groups[d]]
  BY <1>1, <1>2
<1>6. Groups' = SubSeq(Groups, 1, Len(Groups) - 1)
  BY <1>2, <1>3, <1>4, <1>5
<1> QED
  BY <1>2, <1>6 DEF Endif, Abstract!Close

\* A line that counts is one whose every group is in its chosen branch.
LEMMA EnabledLines ==
  ASSUME Inv, ~IsDisabled
  PROVE  Abstract!Enabled
<1>1. DOMAIN Groups = 1 .. depth
  BY DEF Groups
<1>2. \A d \in 1 .. depth : field[d] = ENTER_TRUE
  BY DEF IsDisabled, ENTER_TRUE
<1>3. \A d \in 1 .. depth : Groups[d].active
  BY <1>2 DEF Groups
<1> QED
  BY <1>1, <1>3 DEF Abstract!Enabled

LEMMA StepRefines ==
  ASSUME Inv, [Next]_vars
  PROVE  [Abstract!Next]_<<Groups, defined>>
<1>1. ASSUME NEW c \in BOOLEAN, If(c) PROVE Abstract!Open(c)
  BY <1>1, PushOpens DEF If
<1>2. ASSUME NEW m \in Macros, Ifdef(m) PROVE \E c \in BOOLEAN : Abstract!Open(c)
  <2>1. (m \in defined) \in BOOLEAN
    OBVIOUS
  <2> QED
    BY <1>2, <2>1, PushOpens DEF Ifdef
<1>3. ASSUME NEW m \in Macros, Ifndef(m) PROVE \E c \in BOOLEAN : Abstract!Open(c)
  <2>1. (m \notin defined) \in BOOLEAN
    OBVIOUS
  <2> QED
    BY <1>3, <2>1, PushOpens DEF Ifndef
<1>4. ASSUME NEW c \in BOOLEAN, Elif(c) PROVE Abstract!Branch(c)
  <2> DEFINE s == IF GetState # INITIAL THEN LEAVE_TRUE
                  ELSE IF c THEN ENTER_TRUE ELSE INITIAL
  <2>1. s \in States /\ SetState(s) /\ depth > 0 /\ UNCHANGED <<depth, defined>>
    BY <1>4 DEF Elif, States
  <2>2. ((s # INITIAL) <=> (GetState # INITIAL \/ c))
        /\ ((s = ENTER_TRUE) <=> (GetState = INITIAL /\ c))
    BY StatesDiffer
  <2> HIDE DEF s
  <2> QED
    BY <2>1, <2>2, SetBranches
<1>5. ASSUME Else PROVE Abstract!Branch(TRUE)
  <2> DEFINE s == IF GetState = INITIAL THEN ENTER_TRUE ELSE LEAVE_TRUE
  <2>1. s \in States /\ SetState(s) /\ depth > 0 /\ UNCHANGED <<depth, defined>>
    BY <1>5 DEF Else, States
  <2>2. ((s # INITIAL) <=> (GetState # INITIAL \/ TRUE))
        /\ ((s = ENTER_TRUE) <=> (GetState = INITIAL /\ TRUE))
    BY StatesDiffer
  <2> HIDE DEF s
  <2> QED
    BY <2>1, <2>2, SetBranches
<1>6. ASSUME Endif PROVE Abstract!Close
  BY <1>6, EndifCloses
<1>7. ASSUME NEW m \in Macros, Define(m) PROVE Abstract!Define(m)
  BY <1>7, EnabledLines DEF Define, Groups, Abstract!Define
<1>8. ASSUME NEW m \in Macros, Undef(m) PROVE Abstract!Undef(m)
  BY <1>8, EnabledLines DEF Undef, Groups, Abstract!Undef
<1>9. ASSUME StrayElif \/ UNCHANGED vars PROVE UNCHANGED <<Groups, defined>>
  BY <1>9 DEF StrayElif, vars, Groups
<1> QED
  BY <1>1, <1>2, <1>3, <1>4, <1>5, <1>6, <1>7, <1>8, <1>9 DEF Next, Abstract!Next

\* The two bits per #if are a faithful record of the open groups: as long as
\* the program runs, a #define or #undef has an effect exactly in a chosen
\* branch of every group, and the first true branch is the one chosen.
THEOREM Refines == Spec => ImplementsConditionals
<1>1. Init => Abstract!Init
  BY DEF Init, Abstract!Init, Groups
<1>2. Inv /\ [Next]_vars => [Abstract!Next]_<<Groups, defined>>
  BY StepRefines
<1> QED
  BY <1>1, <1>2, InvHolds, PTL DEF Spec, ImplementsConditionals, Abstract!Spec

------------------------------------------------------------------------------
\* The steps other than CompileToken are those of preprocess() and pass1(): they
\* leave cc() alone, and pass a line to at most one of its cases.
Reads(l) == EmptyLine(l) \/ DropDirective(l) \/ Include(l) \/ DirectiveLine(l) \/ DropText(l) \/ Text(l)

LEMMA StepCases ==
  ASSUME [NextDriver]_driverVars
  PROVE  \/ \E l \in Lines : Reads(l) /\ UNCHANGED <<ccVars, nest, between, matched>>
         \/ UNCHANGED <<vars, ppVars, ccVars, nest, between, matched>>
         \/ CompileToken
<1>1. ASSUME NEW l \in Lines, ReadLine(l) \/ IncludeFile(l) \/ ReadText(l)
      PROVE  Reads(l) /\ UNCHANGED <<ccVars, nest, between, matched>>
  BY <1>1 DEF ReadLine, IncludeFile, ReadText, Reads, Follow
<1>2. CASE EndOfFile
  BY <1>2 DEF EndOfFile
<1>3. CASE UNCHANGED driverVars
  BY <1>3 DEF driverVars, cLanguage
<1> QED
  BY <1>1, <1>2, <1>3 DEF NextDriver

------------------------------------------------------------------------------
\* A directive that goes on for C goes on for Python, after every line.
LEMMA ContinuedInit == InitDriver => ContinuedTogether
BY DEF InitDriver, InitPreprocess, ContinuedTogether

LEMMA ContinuedStep == ASSUME ContinuedTogether, [NextDriver]_driverVars PROVE ContinuedTogether'
<1>1. ASSUME NEW l, Reads(l) PROVE ContinuedTogether'
  <2>1. CASE Quiet
    BY <2>1 DEF Quiet, vars, ContinuedTogether, Runs
  <2>2. ASSUME NEW t, ParseRefuses \/ ParseStart(l, t) \/ ParseMore(l, t), Runs
        PROVE  ContinuedTogether'
    <3>1. CASE halted' # "no"
      BY <3>1 DEF ContinuedTogether, Runs
    <3>2. CASE pp_state' = PyState(l) /\ HaltIfWasted(l) /\ halted' = "no"
      BY <3>2 DEF ContinuedTogether, PyState, HaltIfWasted, Wasted
    <3>3. CASE ParseRefuses
      BY <3>1, <3>3 DEF ParseRefuses
    <3>4. CASE ParseStart(l, t)
      BY <3>1, <3>2, <3>4 DEF ParseStart
    <3>5. CASE ParseMore(l, t)
      BY <3>1, <3>2, <3>5 DEF ParseMore
    <3> QED
      BY <2>2, <3>3, <3>4, <3>5
  <2>3. CASE DirectiveLine(l)
    BY <2>2, <2>3 DEF DirectiveLine
  <2>4. CASE Include(l)
    BY <2>4 DEF Include, ContinuedTogether, Runs
  <2> QED
    BY <1>1, <2>1, <2>3, <2>4 DEF Reads, EmptyLine, DropDirective, DropText, Text
<1>2. CASE UNCHANGED <<vars, ppVars>>
  BY <1>2 DEF vars, ppVars, ContinuedTogether, Runs
<1>3. CASE CompileToken
  BY <1>2, <1>3 DEF CompileToken
<1> QED
  BY <1>1, <1>2, <1>3, StepCases

\* bDirectiveContinued (directive.c:382) holds only in s_pp_state
\* DIRECTIVE_CONTINUED (as-.py:140), so that no line of a directive reaches the
\* compiler as text.
THEOREM ContinuedTogetherHolds == SpecDriver => []ContinuedTogether
BY ContinuedInit, ContinuedStep, PTL DEF SpecDriver

------------------------------------------------------------------------------
(* What the scanner returns is a fold over the words of a line: there is a     *)
(* function from the words taken to what is known then, and it is the fold.    *)

\* Induction over a range, for a set instead of a formula.
LEMMA UpTo ==
  ASSUME NEW n \in Nat, NEW G, 0 \in G, \A i \in 1 .. n : i - 1 \in G => i \in G
  PROVE  \A i \in 0 .. n : i \in G
<1> DEFINE B == {i \in 0 .. n : i \notin G}
<1>1. SUFFICES ASSUME B # {} PROVE FALSE
  OBVIOUS
<1>2. B \subseteq Nat
  OBVIOUS
<1>3. PICK m \in B : \A y \in B : m <= y
  <2> HIDE DEF B
  <2> QED
    BY <1>1, <1>2, NatMin
<1>4. m \in 1 .. n /\ m \notin G
  BY <1>3
<1>5. m - 1 \notin B
  BY <1>3, <1>4
<1> QED
  BY <1>4, <1>5

Start(c) == [tokens |-> <<>>, inside |-> c, over |-> FALSE, cut |-> FALSE]
Scans(g, l, c, S) ==
  g = [s \in SUBSET S |-> IF s = {} THEN Start(c) ELSE ScanWord(g[s \ {Max(s)}], l[Max(s)])]

LEMMA ScannedIs ==
  ASSUME NEW l, NEW c
  PROVE  Scanned(l, c) = (CHOOSE g : Scans(g, l, c, DOMAIN l))[DOMAIN l]
BY DEF Scanned, FoldLeft, MapThenFoldSet, Scans, Start

\* The last word of a set of places comes off it.
Rest(s) == s \ {Max(s)}
Places(s) == \E n \in Nat : s \subseteq 1 .. n

LEMMA PlacesBelow == ASSUME NEW s, Places(s), NEW t \in SUBSET s PROVE Places(t)
BY DEF Places

LEMMA RestIs ==
  ASSUME NEW s, Places(s), s # {}
  PROVE  Max(s) \in s /\ (\A y \in s : y <= Max(s)) /\ Rest(s) \in SUBSET s /\ Rest(s) # s
<1> PICK n \in Nat : s \subseteq 1 .. n
  BY DEF Places
<1>1. s \subseteq Int /\ n \in Int
  OBVIOUS
<1>2. \A x \in s : x <= n
  OBVIOUS
<1>3. Max(s) \in s /\ \A y \in s : y <= Max(s)
  BY <1>1, <1>2, IntMax
<1> QED
  BY <1>3 DEF Rest

\* Two such functions agree where both are defined, one on less than the other.
LEMMA ScansUnique ==
  ASSUME NEW l, NEW c, NEW A, NEW g, Scans(g, l, c, A),
         NEW S, IsFiniteSet(S), Places(S), S \subseteq A, NEW h, Scans(h, l, c, S)
  PROVE  g[S] = h[S]
<1> DEFINE D == {s \in SUBSET S : g[s] # h[s]}
<1>1. SUFFICES ASSUME D # {} PROVE FALSE
  OBVIOUS
<1>a. D \subseteq SUBSET S
  OBVIOUS
<1> HIDE DEF D
<1>2. PICK T \in D : T \subseteq S /\ \A U \in SUBSET T : U # T => U \notin D
  BY <1>1, <1>a, SmallestSet
<1> USE DEF D
<1>3. /\ g[T] = IF T = {} THEN Start(c) ELSE ScanWord(g[Rest(T)], l[Max(T)])
      /\ h[T] = IF T = {} THEN Start(c) ELSE ScanWord(h[Rest(T)], l[Max(T)])
  BY <1>2 DEF Scans, Rest
<1>4. T # {}
  BY <1>3
<1>5. Rest(T) \in SUBSET T /\ Rest(T) # T
  BY <1>2, <1>4, PlacesBelow, RestIs
<1>6. g[Rest(T)] = h[Rest(T)]
  BY <1>2, <1>5
<1> QED
  BY <1>3, <1>6

LEMMA ScansExist ==
  ASSUME NEW l, NEW c, NEW S, IsFiniteSet(S), Places(S)
  PROVE  \E g : Scans(g, l, c, S)
<1> DEFINE D == {s \in SUBSET S : ~\E g : Scans(g, l, c, s)}
<1>1. SUFFICES ASSUME D # {} PROVE FALSE
  OBVIOUS
<1>a. D \subseteq SUBSET S
  OBVIOUS
<1> HIDE DEF D
<1>2. PICK T \in D : IsFiniteSet(T) /\ T \subseteq S /\ \A U \in SUBSET T : U # T => U \notin D
  BY <1>1, <1>a, SmallestSet
<1> USE DEF D
<1>3. \A U \in SUBSET T : U # T => \E g : Scans(g, l, c, U)
  BY <1>2
<1> DEFINE V(s) == (CHOOSE k : Scans(k, l, c, s))[s]
           g == [s \in SUBSET T |-> IF s = {} THEN Start(c) ELSE ScanWord(V(Rest(s)), l[Max(s)])]
<1>4. ASSUME NEW s \in SUBSET T, s # {}
      PROVE  g[Rest(s)] = V(Rest(s))
  <2> DEFINE R == Rest(s)
  <2>0. s \in SUBSET S
    BY <1>2
  <2>a. R \in SUBSET s /\ R # s
    BY <1>4, <2>0, PlacesBelow, RestIs
  <2>1. R \in SUBSET s /\ R # s /\ R \in SUBSET T /\ R # T /\ R \in SUBSET S
    BY <2>0, <2>a
  <2> DEFINE k == CHOOSE h : Scans(h, l, c, R)
  <2>2. Scans(k, l, c, R)
    BY <1>3, <2>1
  <2>3. V(R) = k[R] /\ k[R] = IF R = {} THEN Start(c) ELSE ScanWord(k[Rest(R)], l[Max(R)])
    BY <2>2, Zenon DEF Scans, Rest
  <2>4. g[R] = IF R = {} THEN Start(c) ELSE ScanWord(V(Rest(R)), l[Max(R)])
    BY <2>1
  <2>5. ASSUME R # {} PROVE k[Rest(R)] = V(Rest(R))
    <3> DEFINE Q == Rest(R)
    <3>0. Q \in SUBSET R /\ Q # R
      BY <2>1, <2>5, PlacesBelow, RestIs
    <3>1. Q \in SUBSET R /\ Q # R /\ Q \in SUBSET T /\ Q # T /\ Q \in SUBSET S
      BY <2>1, <3>0
    <3> DEFINE j == CHOOSE h : Scans(h, l, c, Q)
    <3>2. Scans(j, l, c, Q)
      BY <1>3, <3>1
    <3>3. V(Q) = j[Q]
      OBVIOUS
    <3>4. k[Q] = j[Q]
      <4>1. Places(Q) /\ Q \subseteq R
        BY <3>1, PlacesBelow
      <4>2. IsFiniteSet(Q)
        BY <3>1, <1>2, FS_Subset
      <4> HIDE DEF Q, R, k, j
      <4> QED
        BY <2>2, <3>2, <4>1, <4>2, ScansUnique
    <3> QED
      BY <3>3, <3>4
  <2> HIDE DEF R, k, V, g
  <2>6. g[R] = V(R)
    BY <2>3, <2>4, <2>5
  <2> QED
    BY <2>6 DEF R
<1>5. \A s \in SUBSET T : g[s] = IF s = {} THEN Start(c) ELSE ScanWord(g[Rest(s)], l[Max(s)])
  <2> SUFFICES ASSUME NEW s \in SUBSET T
               PROVE  g[s] = IF s = {} THEN Start(c) ELSE ScanWord(g[Rest(s)], l[Max(s)])
    OBVIOUS
  <2>1. g[s] = IF s = {} THEN Start(c) ELSE ScanWord(V(Rest(s)), l[Max(s)])
    OBVIOUS
  <2> HIDE DEF g, V
  <2> QED
    BY <1>4, <2>1
<1>6. g = [s \in SUBSET T |-> g[s]]
  OBVIOUS
<1> HIDE DEF g, V
<1>7. g = [s \in SUBSET T |-> IF s = {} THEN Start(c) ELSE ScanWord(g[Rest(s)], l[Max(s)])]
  BY <1>5, <1>6
<1>8. Scans(g, l, c, T)
  BY <1>7 DEF Scans, Rest
<1> QED
  BY <1>2, <1>8

\* The scan of a line, word by word.
LEMMA ScanUnfolds ==
  ASSUME NEW W, NEW l \in Seq(W), NEW c
  PROVE  \E f : /\ f[0] = Start(c)
                /\ \A i \in 1 .. Len(l) : f[i] = ScanWord(f[i - 1], l[i])
                /\ Scanned(l, c) = f[Len(l)]
<1> DEFINE n == Len(l)
<1>1. n \in Nat /\ DOMAIN l = 1 .. n
  OBVIOUS
<1> DEFINE g == CHOOSE h : Scans(h, l, c, 1 .. n)
<1>2. Scans(g, l, c, 1 .. n)
  <2> DEFINE I == 1 .. n
  <2>1. Places(I) /\ IsFiniteSet(I)
    BY <1>1, FS_Interval DEF Places
  <2>2. \E h : Scans(h, l, c, I)
    <3> HIDE DEF I
    <3> QED
      BY <2>1, ScansExist
  <2> QED
    BY <2>2
<1>3. Scanned(l, c) = g[1 .. n]
  BY <1>1, <1>2, ScannedIs
<1>4. \A i \in 0 .. n : g[1 .. i] = IF 1 .. i = {} THEN Start(c) ELSE ScanWord(g[Rest(1 .. i)], l[Max(1 .. i)])
  <2>1. \A i \in 0 .. n : 1 .. i \in SUBSET (1 .. n)
    BY <1>1
  <2> QED
    BY <1>2, <2>1 DEF Scans, Rest
<1>5. ASSUME NEW i \in 1 .. n PROVE Max(1 .. i) = i /\ Rest(1 .. i) = 1 .. i - 1 /\ 1 .. i # {}
  <2>1. Max(1 .. i) \in 1 .. i /\ \A y \in 1 .. i : y <= Max(1 .. i)
    <3> DEFINE I == 1 .. i
    <3>1. I \subseteq Int /\ i \in I /\ i \in Int
      BY <1>1
    <3>2. \A x \in I : x <= i
      BY <1>1
    <3>3. Max(I) \in I /\ \A y \in I : y <= Max(I)
      <4> HIDE DEF I
      <4> QED
        BY <3>1, <3>2, IntMax
    <3> QED
      BY <3>3
  <2>2. Max(1 .. i) = i
    BY <1>1, <2>1
  <2> QED
    BY <1>1, <2>2 DEF Rest
<1> DEFINE f == [i \in 0 .. n |-> g[1 .. i]]
<1>6. f[0] = Start(c)
  <2>1. 1 .. 0 = {} /\ 0 \in 0 .. n
    BY <1>1
  <2> QED
    BY <1>4, <2>1
<1>7. ASSUME NEW i \in 1 .. n PROVE f[i] = ScanWord(f[i - 1], l[i])
  <2>1. i \in 0 .. n /\ i - 1 \in 0 .. n
    BY <1>1
  <2> QED
    BY <1>4, <1>5, <2>1
<1>8. Scanned(l, c) = f[n]
  BY <1>1, <1>3
<1> HIDE DEF f
<1> QED
  BY <1>6, <1>7, <1>8

\* What is known after some words, and what the next one adds.
AllWords == {"*", "\\"} \cup UNION {ToSet(l) : l \in Lines}
Known == [tokens : Seq(AllWords), inside : BOOLEAN, over : BOOLEAN, cut : BOOLEAN]
Delimiters == {"/*", "*/"}

LEMMA LineWords == \A l \in Lines : l \in Seq(AllWords)
<1> SUFFICES ASSUME NEW l \in Lines PROVE l \in Seq(AllWords)
  OBVIOUS
<1>1. l \in Seq(STRING)
  BY LinesAssumption
<1>2. Len(l) \in Nat /\ DOMAIN l = 1 .. Len(l) /\ l = [i \in 1 .. Len(l) |-> l[i]]
  BY <1>1, LenProperties
<1>3. \A i \in 1 .. Len(l) : l[i] \in AllWords
  BY <1>2 DEF AllWords, ToSet
<1> QED
  BY <1>2, <1>3, SeqDef

LEMMA NextWord ==
  ASSUME NEW s \in Known, NEW w \in AllWords, NEW r, r = ScanWord(s, w)
  PROVE  /\ r \in Known
         /\ s.over => r = s
         /\ ~s.over /\ s.inside =>
              ~r.over /\ r.tokens = s.tokens /\ r.cut = s.cut /\ (r.inside \/ w = "*/")
         /\ ~s.over /\ ~s.inside /\ w = "//" =>
              r.over /\ r.tokens = s.tokens /\ r.cut = s.cut /\ ~r.inside
         /\ w \notin Delimiters => r.inside = s.inside
         /\ ~s.over /\ ~s.inside /\ w = "\\" =>
              ~r.over /\ ~r.inside /\ r.tokens = Append(s.tokens, w)
<1>0. /\ s.tokens \in Seq(AllWords) /\ s.inside \in BOOLEAN /\ s.over \in BOOLEAN /\ s.cut \in BOOLEAN
      /\ Append(s.tokens, w) \in Seq(AllWords) /\ Append(s.tokens, "*") \in Seq(AllWords)
  BY DEF Known, AllWords
<1>1. CASE s.over \/ w = " "
  BY <1>1 DEF ScanWord
<1>2. CASE ~s.over /\ w # " " /\ s.inside
  <2>1. r = [tokens |-> s.tokens, inside |-> w # "*/", over |-> s.over, cut |-> s.cut]
    BY <1>2 DEF ScanWord, Known
  <2>2. r \in Known
    BY <1>0, <2>1 DEF Known
  <2>3. r.tokens = s.tokens /\ r.inside = (w # "*/") /\ r.over = s.over /\ r.cut = s.cut
    BY <2>1
  <2> QED
    BY <1>2, <2>2, <2>3 DEF Delimiters
<1>3. CASE ~s.over /\ w # " " /\ ~s.inside
  <2>1. CASE w = "/*"
    <3>1. r = [tokens |-> s.tokens, inside |-> TRUE, over |-> s.over, cut |-> s.cut]
      BY <1>3, <2>1 DEF ScanWord, Known
    <3>2. r \in Known
      BY <1>0, <3>1 DEF Known
    <3> QED
      BY <1>3, <2>1, <3>1, <3>2 DEF Delimiters
  <2>2. CASE w = "//"
    <3>1. r = [tokens |-> s.tokens, inside |-> s.inside, over |-> TRUE, cut |-> s.cut]
      BY <1>3, <2>2 DEF ScanWord, Known
    <3>2. r \in Known
      BY <1>0, <3>1 DEF Known
    <3> QED
      BY <1>3, <2>2, <3>1, <3>2 DEF Delimiters
  <2>3. CASE w = "/"
    <3>1. r = [tokens |-> s.tokens, inside |-> s.inside, over |-> TRUE, cut |-> TRUE]
      BY <1>3, <2>3 DEF ScanWord, Known
    <3>2. r \in Known
      BY <1>0, <3>1 DEF Known
    <3> QED
      BY <1>3, <2>3, <3>1, <3>2 DEF Delimiters
  <2>4. CASE w = "*/"
    <3>1. r = [tokens |-> Append(s.tokens, "*"), inside |-> s.inside, over |-> TRUE, cut |-> TRUE]
      BY <1>3, <2>4 DEF ScanWord, Known
    <3>2. r \in Known
      BY <1>0, <3>1 DEF Known
    <3> QED
      BY <1>3, <2>4, <3>1, <3>2 DEF Delimiters
  <2>5. CASE w \notin {"/*", "*/", "//", "/"}
    <3>1. r = [tokens |-> Append(s.tokens, w), inside |-> s.inside, over |-> s.over, cut |-> s.cut]
      BY <1>3, <2>5 DEF ScanWord, Known
    <3>2. r \in Known
      BY <1>0, <3>1 DEF Known
    <3>3. r.tokens = Append(s.tokens, w) /\ r.inside = s.inside /\ r.over = s.over
      BY <3>1
    <3> QED
      BY <1>3, <2>5, <3>2, <3>3
  <2> QED
    BY <2>1, <2>2, <2>3, <2>4, <2>5
<1> QED
  BY <1>0, <1>1, <1>2, <1>3

LEMMA ScannedKnown ==
  ASSUME NEW l \in Seq(AllWords), NEW c \in BOOLEAN,
         NEW f, f[0] = Start(c), \A i \in 1 .. Len(l) : f[i] = ScanWord(f[i - 1], l[i])
  PROVE  \A i \in 0 .. Len(l) : f[i] \in Known
<1> DEFINE G == {i \in Nat : f[i] \in Known}
<1>1. 0 \in G
  <2>1. Start(c) \in Known
    BY DEF Start, Known
  <2> QED
    BY <2>1
<1>2. ASSUME NEW i \in 1 .. Len(l), i - 1 \in G PROVE i \in G
  <2>1. l[i] \in AllWords /\ f[i - 1] \in Known /\ i \in Nat
    BY <1>2
  <2>2. f[i] \in Known
    BY <2>1, NextWord
  <2> QED
    BY <2>1, <2>2
<1>3. Len(l) \in Nat
  OBVIOUS
<1> HIDE DEF G
<1>4. \A i \in 0 .. Len(l) : i \in G
  BY <1>1, <1>2, <1>3, UpTo
<1> QED
  BY <1>4 DEF G

\* Without delimiters a line begins and ends on the same side of a comment, and
\* has no token if that is the inside.
LEMMA NoDelimiters ==
  ASSUME NEW l \in Seq(AllWords), NEW c \in BOOLEAN, Delimiters \cap ToSet(l) = {}
  PROVE  /\ Scanned(l, c).inside = c
         /\ c => Scanned(l, c).tokens = <<>>
<1> DEFINE n == Len(l)
<1>1. PICK f : /\ f[0] = Start(c)
               /\ \A i \in 1 .. n : f[i] = ScanWord(f[i - 1], l[i])
               /\ Scanned(l, c) = f[n]
  BY ScanUnfolds
<1>2. \A i \in 0 .. n : f[i] \in Known
  BY <1>1, ScannedKnown
<1>a. \A i \in 1 .. n : l[i] \in AllWords /\ l[i] \notin Delimiters
  BY DEF ToSet
<1>b. f[0].tokens = <<>> /\ f[0].inside = c
  BY <1>1 DEF Start
<1> DEFINE G == {i \in Nat : f[i].inside = c /\ (c => f[i].tokens = <<>>)}
<1>3. 0 \in G
  BY <1>b
<1>4. ASSUME NEW i \in 1 .. n, i - 1 \in G PROVE i \in G
  <2> DEFINE p == f[i - 1]
             q == f[i]
             w == l[i]
  <2>1. /\ p \in Known /\ w \in AllWords /\ q = ScanWord(p, w) /\ w \notin Delimiters
        /\ p.inside = c /\ (c => p.tokens = <<>>)
    BY <1>1, <1>2, <1>4, <1>a
  <2> HIDE DEF p, q, w
  <2>2. q.inside = c
    <3>1. q.inside = p.inside
      BY <2>1, NextWord
    <3> QED
      BY <2>1, <3>1
  <2>3. ASSUME c PROVE q.tokens = <<>>
    <3>1. p.over \in BOOLEAN
      BY <2>1 DEF Known
    <3>2. CASE p.over
      BY <2>1, <2>3, <3>2, NextWord
    <3>3. CASE ~p.over
      BY <2>1, <2>3, <3>3, NextWord
    <3> QED
      BY <3>1, <3>2, <3>3
  <2> QED
    BY <2>2, <2>3 DEF q
<1>5. n \in Nat
  OBVIOUS
<1>6. n \in G
  <2> HIDE DEF G
  <2>1. \A i \in 0 .. n : i \in G
    BY <1>3, <1>4, <1>5, UpTo
  <2> QED
    BY <1>5, <2>1
<1> QED
  BY <1>1, <1>6

\* Outside of comments a line that begins with // has no token and opens none.
LEMMA SlashesFirst ==
  ASSUME NEW l \in Seq(AllWords), l # <<>>, l[1] = "//"
  PROVE  Scanned(l, FALSE).inside = FALSE /\ Scanned(l, FALSE).tokens = <<>>
<1> DEFINE n == Len(l)
<1>1. PICK f : /\ f[0] = Start(FALSE)
               /\ \A i \in 1 .. n : f[i] = ScanWord(f[i - 1], l[i])
               /\ Scanned(l, FALSE) = f[n]
  BY ScanUnfolds
<1>2. \A i \in 0 .. n : f[i] \in Known
  BY <1>1, ScannedKnown
<1>a. \A i \in 1 .. n : l[i] \in AllWords
  OBVIOUS
<1>b. f[0].tokens = <<>> /\ f[0].inside = FALSE /\ f[0].over = FALSE
  BY <1>1 DEF Start
<1> DEFINE G == {i \in Nat : f[i].inside = FALSE /\ f[i].tokens = <<>> /\ (i > 0 => f[i].over)}
<1>3. 0 \in G
  BY <1>b
<1>4. ASSUME NEW i \in 1 .. n, i - 1 \in G PROVE i \in G
  <2> DEFINE p == f[i - 1]
             q == f[i]
             w == l[i]
  <2>a. p \in Known /\ w \in AllWords /\ q = ScanWord(p, w)
    BY <1>1, <1>2, <1>a
  <2>b. p.inside = FALSE /\ p.tokens = <<>> /\ (i # 1 => p.over)
    BY <1>4
  <2>c. i = 1 => ~p.over /\ w = "//"
    BY <1>b
  <2>1. /\ p \in Known /\ w \in AllWords /\ q = ScanWord(p, w)
        /\ p.inside = FALSE /\ p.tokens = <<>> /\ (i = 1 => ~p.over /\ w = "//") /\ (i # 1 => p.over)
    BY <2>a, <2>b, <2>c
  <2> HIDE DEF p, q, w
  <2>2. q \in Known /\ q.over /\ q.tokens = <<>> /\ ~q.inside
    <3>1. CASE i = 1
      BY <2>1, <3>1, NextWord
    <3>2. CASE i # 1
      BY <2>1, <3>2, NextWord
    <3> QED
      BY <3>1, <3>2
  <2>3. q.inside = FALSE
    BY <2>2 DEF Known
  <2> QED
    BY <2>2, <2>3 DEF q
<1>5. n \in Nat
  OBVIOUS
<1>6. n \in G
  <2> HIDE DEF G
  <2>1. \A i \in 0 .. n : i \in G
    BY <1>3, <1>4, <1>5, UpTo
  <2> QED
    BY <1>5, <2>1
<1> QED
  BY <1>1, <1>6

\* A line that goes on does so inside of a comment or behind its last token,
\* unless the scanner stopped before or the backslash is glued to a word.
Backslashed(t) == t # <<>> /\ Last(t) = "\\"

LEMMA EndScanned ==
  ASSUME NEW l \in Seq(AllWords), NEW c \in BOOLEAN, Ends(l), ~Scanned(l, c).over,
         Scanned(l, c).inside \/ Last(l) = "\\"
  PROVE  Scanned(l, c).inside \/ Backslashed(Scanned(l, c).tokens)
<1>0. SUFFICES ASSUME Last(l) = "\\" PROVE Scanned(l, c).inside \/ Backslashed(Scanned(l, c).tokens)
  OBVIOUS
<1> DEFINE n == Len(l)
<1>1. PICK f : /\ f[0] = Start(c)
               /\ \A i \in 1 .. n : f[i] = ScanWord(f[i - 1], l[i])
               /\ Scanned(l, c) = f[n]
  BY ScanUnfolds
<1>2. n \in 1 .. n /\ n - 1 \in 0 .. n /\ l[n] = "\\" /\ l[n] \in AllWords
  BY <1>0 DEF Ends, Last
<1>3. f[n] = ScanWord(f[n - 1], l[n]) /\ f[n - 1] \in Known
  BY <1>1, <1>2, ScannedKnown
<1>4. l[n] \notin Delimiters
  BY <1>2 DEF Delimiters
<1>5. f[n - 1].tokens \in Seq(AllWords) /\ f[n - 1].over \in BOOLEAN /\ f[n - 1].inside \in BOOLEAN
  BY <1>3 DEF Known
<1> HIDE DEF n
<1>6. CASE f[n - 1].over
  BY <1>1, <1>2, <1>3, <1>6, NextWord
<1>7. CASE f[n - 1].inside
  BY <1>1, <1>2, <1>3, <1>4, <1>7, NextWord
<1>8. CASE ~f[n - 1].over /\ ~f[n - 1].inside
  <2>1. f[n].tokens = Append(f[n - 1].tokens, l[n])
    <3> DEFINE p == f[n - 1]
               q == f[n]
               w == l[n]
    <3>1. p \in Known /\ w \in AllWords /\ q = ScanWord(p, w) /\ ~p.over /\ ~p.inside /\ w = "\\"
      BY <1>2, <1>3, <1>4, <1>8
    <3>2. q.tokens = Append(p.tokens, w)
      <4> HIDE DEF p, q, w
      <4> QED
        BY <3>1, NextWord
    <3> QED
      BY <3>2
  <2>2. Backslashed(f[n].tokens)
    BY <1>2, <1>5, <2>1 DEF Backslashed, Last
  <2> QED
    BY <1>1, <2>2
<1> QED
  BY <1>5, <1>6, <1>7, <1>8

------------------------------------------------------------------------------
\* As long as only supported lines came, Python, C and the C language agree on
\* comments and on directives that go on; only a #define does, and it counts.
InAgreement ==
  /\ comment = inside /\ continued = spliced
  /\ pp_state = IF spliced THEN "DIRECTIVE_CONTINUED" ELSE "INITIAL"
  /\ continued => directive_id = "define" /\ ~IsDisabled
LinesInv ==
  /\ inside \in BOOLEAN /\ spliced \in BOOLEAN /\ plain \in BOOLEAN
  /\ plain => halted # "caller_bug"
  /\ plain /\ Runs => InAgreement

\* A line has the tokens of its words.
LEMMA TokensAre ==
  ASSUME NEW l \in Lines, comment \in BOOLEAN
  PROVE  Scanned(l, comment) \in Known /\ Tokens(l) \in Seq(AllWords) /\ InsideAfter(l) \in BOOLEAN
<1>1. l \in Seq(AllWords)
  BY LineWords
<1>2. Scanned(l, comment) \in Known
  <2>1. PICK f : /\ f[0] = Start(comment)
                 /\ \A i \in 1 .. Len(l) : f[i] = ScanWord(f[i - 1], l[i])
                 /\ Scanned(l, comment) = f[Len(l)]
    BY <1>1, ScanUnfolds
  <2>2. \A i \in 0 .. Len(l) : f[i] \in Known
    BY <1>1, <2>1, ScannedKnown
  <2> QED
    BY <1>1, <2>1, <2>2
<1>3. Tokens(l) \in Seq(AllWords)
  <2>1. \A t \in Seq(AllWords), w \in AllWords : Append(t, w) \in Seq(AllWords)
    OBVIOUS
  <2>2. "\\" \in AllWords
    BY DEF AllWords
  <2> QED
    BY <1>2, <2>1, <2>2 DEF Tokens, Known
<1> QED
  BY <1>2, <1>3 DEF Known, InsideAfter

\* What a line is read as, and what C takes for it.
LEMMA LineScanned ==
  ASSUME NEW l \in Lines, inside \in BOOLEAN, comment = inside
  PROVE  /\ l \in Seq(AllWords) /\ Scanned(l, inside) \in Known
         /\ Tokens(l) \in Seq(AllWords)
         /\ ~Unsupported(l) => InsideAfter(l) = Scanned(l, inside).inside
         /\ ~Ends(l) => Tokens(l) = Scanned(l, inside).tokens
         /\ ~Ends(l) /\ ~Scanned(l, inside).cut => Meaningful(l) = Tokens(l)
<1>1. l \in Seq(AllWords) /\ Scanned(l, inside) \in Known /\ Tokens(l) \in Seq(AllWords)
  BY LineWords, TokensAre
<1>2. ~Unsupported(l) => InsideAfter(l) = Scanned(l, inside).inside
  <2>1. Scanned(l, inside).inside \in BOOLEAN
    BY <1>1 DEF Known
  <2> QED
    BY <2>1 DEF Unsupported, InsideAfter
<1> QED
  BY <1>1, <1>2 DEF Tokens, Meaningful

\* The last token of a line that goes on is the backslash.
LEMMA EndToken ==
  ASSUME NEW l \in Lines, inside \in BOOLEAN, comment = inside, ~Unsupported(l), Ends(l)
  PROVE  Tokens(l) # <<>> /\ Last(Tokens(l)) = "\\"
<1> DEFINE s == Scanned(l, inside)
<1>1. s.tokens \in Seq(AllWords) /\ s.inside \in BOOLEAN /\ l \in Seq(AllWords)
  BY LineScanned DEF Known
<1>2. ~s.over /\ (s.inside \/ Last(l) = "\\")
  BY <1>1 DEF Unsupported
<1>3. s.inside \/ Backslashed(s.tokens)
  BY <1>1, <1>2, EndScanned
<1>4. Tokens(l) = IF s.inside THEN Append(s.tokens, "\\") ELSE s.tokens
  BY DEF Tokens
<1> HIDE DEF s
<1> QED
  BY <1>1, <1>3, <1>4 DEF Backslashed, Last

\* A supported line that goes on and continues nothing is a #define that counts.
LEMMA GoesOn ==
  ASSUME NEW l \in Lines, inside \in BOOLEAN, comment = inside, ~Unsupported(l), Ends(l), ~spliced
  PROVE  /\ Meaning(l) = "directive" /\ ~IsDisabled /\ Pound(Meaningful(l))
         /\ Len(Tokens(l)) > 3 /\ Pound(Tokens(l)) /\ Command(Tokens(l)) = "define"
         /\ Last(Tokens(l)) = "\\"
<1> DEFINE s == Scanned(l, inside)
           m == Meaningful(l)
           t == Tokens(l)
<1>1. Meaning(l) = "directive" /\ Command(m) = "define" /\ Len(m) > 2
  BY DEF Unsupported, Defines
<1>2. Pound(m) /\ ~IsDisabled
  <2>1. MeaningIn(m) = "directive"
    BY <1>1 DEF Meaning
  <2>2. Command(m) \notin IfGroup
    BY <1>1 DEF IfGroup
  <2> QED
    BY <2>1, <2>2 DEF MeaningIn
<1>3. s.tokens \in Seq(AllWords) /\ s.inside \in BOOLEAN /\ l \in Seq(AllWords)
  BY LineScanned DEF Known
<1>4. ~s.cut /\ ~s.over /\ (s.inside \/ Last(l) = "\\")
  BY <1>2, <1>3 DEF Unsupported
<1>a. s.inside \/ Backslashed(s.tokens)
  BY <1>3, <1>4, EndScanned
<1>5. m = IF Backslashed(s.tokens) THEN Front(s.tokens) ELSE s.tokens
  BY <1>4 DEF Meaningful, Backslashed
<1>6. t = IF s.inside THEN Append(s.tokens, "\\") ELSE s.tokens
  BY DEF Tokens
<1> HIDE DEF s, m, t
<1>7. Len(t) > 3 /\ t[1] = m[1] /\ t[2] = m[2] /\ Last(t) = "\\"
  <2>1. CASE s.inside /\ Backslashed(s.tokens)
    BY <1>1, <1>3, <1>5, <1>6, <2>1 DEF Backslashed, Front, Last
  <2>2. CASE s.inside /\ ~Backslashed(s.tokens)
    BY <1>1, <1>3, <1>5, <1>6, <2>2 DEF Last
  <2>3. CASE ~s.inside
    BY <1>1, <1>3, <1>a, <1>5, <1>6, <2>3 DEF Backslashed, Front, Last
  <2> QED
    BY <1>3, <2>1, <2>2, <2>3
<1>8. t # <<>>
  BY <1>7
<1> QED
  BY <1>1, <1>2, <1>7, <1>8 DEF Pound, Command, m, t

LEMMA AppendCommand ==
  ASSUME NEW t \in Seq(AllWords), t # <<>>, NEW w
  PROVE  /\ Pound(Append(t, w)) => Pound(t)
         /\ Command(Append(t, w)) = IF Len(t) > 1 THEN t[2] ELSE w
<1>1. Append(t, w) # <<>> /\ Append(t, w)[1] = t[1] /\ Len(Append(t, w)) > 1
  OBVIOUS
<1>2. Append(t, w)[2] = IF Len(t) > 1 THEN t[2] ELSE w
  <2>1. CASE Len(t) > 1
    BY <2>1
  <2>a. Append(t, w)[Len(t) + 1] = w
    OBVIOUS
  <2>2. CASE Len(t) = 1
    <3>1. Len(t) + 1 = 2
      BY <2>2
    <3> QED
      BY <2>2, <2>a, <3>1
  <2>3. Len(t) = 1 \/ Len(t) > 1
    OBVIOUS
  <2> QED
    BY <2>1, <2>2, <2>3
<1> QED
  BY <1>1, <1>2 DEF Pound, Command

\* Up to the "/" at which a line is cut both read the same tokens.
LEMMA CutCommand ==
  ASSUME NEW l \in Lines, inside \in BOOLEAN, comment = inside, ~Ends(l), Pound(Meaningful(l))
  PROVE  /\ Pound(Tokens(l))
         /\ Command(Meaningful(l)) \in IfGroup <=> Command(Tokens(l)) \in IfGroup
<1> DEFINE t == Tokens(l)
           m == Meaningful(l)
<1>1. t \in Seq(AllWords) /\ t = Scanned(l, inside).tokens /\ Scanned(l, inside).cut \in BOOLEAN
  BY LineScanned DEF Known
<1>2. m = IF Scanned(l, inside).cut THEN Append(t, "/") ELSE t
  BY <1>1, LineScanned DEF Meaningful
<1>3. Pound(m)
  OBVIOUS
<1> HIDE DEF t, m
<1>4. CASE m = t
  BY <1>3, <1>4 DEF t, m
<1>5. CASE m = Append(t, "/")
  <2>1. t # <<>>
    BY <1>1, <1>3, <1>5 DEF Pound
  <2>2. Pound(t) /\ Command(m) = IF Len(t) > 1 THEN t[2] ELSE "/"
    BY <1>1, <1>3, <1>5, <2>1, AppendCommand
  <2>3. Command(t) = IF Len(t) > 1 THEN t[2] ELSE ""
    BY DEF Command
  <2>4. "/" \notin IfGroup /\ "" \notin IfGroup
    BY DEF IfGroup
  <2> QED
    BY <2>2, <2>3, <2>4 DEF t, m
<1> QED
  BY <1>1, <1>2, <1>4, <1>5

\* A # is where both see one.
LEMMA PoundsAgree ==
  ASSUME NEW l \in Lines, inside \in BOOLEAN, comment = inside, ~Unsupported(l), l # <<>>, ~spliced
  PROVE  /\ l[1] \in Pounds => Pound(Tokens(l)) /\ Pound(Meaningful(l))
         /\ l[1] \notin Pounds => ~Pound(Meaningful(l)) /\ ~Ends(l)
<1>1. (l[1] \in Pounds) = Pound(Meaningful(l))
  BY DEF Unsupported
<1>2. CASE Ends(l)
  BY <1>1, <1>2, GoesOn
<1>3. CASE ~Ends(l)
  BY <1>1, <1>3, CutCommand
<1> QED
  BY <1>1, <1>2, <1>3

LEMMA EmptyScanned ==
  ASSUME NEW l \in Seq(AllWords), l = <<>>, NEW c \in BOOLEAN
  PROVE  Scanned(l, c) = Start(c) /\ ~Ends(l)
<1>1. Len(l) = 0
  OBVIOUS
<1>2. PICK f : f[0] = Start(c) /\ Scanned(l, c) = f[Len(l)]
  BY ScanUnfolds
<1> QED
  BY <1>1, <1>2 DEF Ends

LEMMA Treated ==
  ASSUME LinesInv, plain, Runs, NEW l \in Lines, ~Unsupported(l)
  PROVE  Treatment(l) = Meaning(l)
<1>1. /\ inside \in BOOLEAN /\ spliced \in BOOLEAN
      /\ comment = inside /\ continued = spliced
      /\ pp_state = IF spliced THEN "DIRECTIVE_CONTINUED" ELSE "INITIAL"
  BY DEF LinesInv, InAgreement
<1>2. CASE l = <<>>
  <2>1. ~spliced
    BY <1>1, <1>2 DEF Unsupported
  <2>2. Scanned(l, inside) = Start(inside) /\ ~Ends(l)
    BY <1>1, <1>2, EmptyScanned, LineScanned
  <2>a. Scanned(l, inside).tokens = <<>> /\ Scanned(l, inside).cut = FALSE
    BY <2>2 DEF Start
  <2>3. Meaningful(l) = <<>>
    BY <2>2, <2>a DEF Meaningful
  <2> QED
    BY <1>2, <2>1, <2>3 DEF Treatment, Meaning, MeaningIn, Pound
<1>3. CASE l # <<>> /\ spliced
  <2>1. ~IsStart(l)
    BY <1>1, <1>3 DEF IsStart
  <2> QED
    BY <1>1, <1>3, <2>1 DEF Treatment, Meaning, DroppedStart, IsInclude, IsDirectiveLine
<1>4. CASE l # <<>> /\ ~spliced /\ l[1] \in Pounds
  <2>1. IsStart(l) /\ ~continued
    BY <1>1, <1>4 DEF IsStart
  <2>2. Pound(Meaningful(l))
    BY <1>1, <1>4, PoundsAgree
  <2>3. Meaning(l) = IF IsDisabled /\ Command(Tokens(l)) \notin IfGroup THEN "nothing" ELSE "directive"
    <3>1. CASE Ends(l)
      BY <1>1, <1>4, <3>1, GoesOn
    <3>2. CASE ~Ends(l)
      <4>1. Command(Meaningful(l)) \in IfGroup <=> Command(Tokens(l)) \in IfGroup
        BY <1>1, <2>2, <3>2, CutCommand
      <4> QED
        BY <1>4, <2>2, <4>1 DEF Meaning, MeaningIn, Pound
    <3> QED
      BY <3>1, <3>2
  <2> QED
    BY <1>4, <2>1, <2>3 DEF Treatment, DroppedStart, IsInclude, IsDirectiveLine
<1>5. CASE l # <<>> /\ ~spliced /\ l[1] \notin Pounds
  <2>1. ~IsStart(l) /\ pp_state # "DIRECTIVE_CONTINUED"
    BY <1>1, <1>5 DEF IsStart
  <2>2. ~Pound(Meaningful(l)) /\ ~Ends(l) /\ Tokens(l) = Scanned(l, inside).tokens
    BY <1>1, <1>5, PoundsAgree, LineScanned
  <2>3. CASE IsDisabled
    BY <1>5, <2>1, <2>2, <2>3
    DEF Treatment, DroppedStart, IsInclude, IsDirectiveLine, Meaning, MeaningIn
  <2>4. CASE ~IsDisabled
    <3>1. ~Scanned(l, inside).cut /\ Meaningful(l) = Tokens(l)
      BY <1>1, <2>2, <2>4, LineScanned DEF Unsupported
    <3>2. Meaning(l) = IF Tokens(l) = <<>> THEN "nothing" ELSE "text"
      BY <1>5, <2>2, <2>4, <3>1 DEF Meaning, MeaningIn
    <3>3. ASSUME l[1] = "//" PROVE Tokens(l) = <<>>
      <4>1. CASE inside
        <5>1. Delimiters \cap ToSet(l) = {}
          BY <3>3, <4>1 DEF Unsupported, Delimiters
        <5> QED
          BY <1>1, <2>2, <4>1, <5>1, NoDelimiters, LineScanned
      <4>2. CASE inside = FALSE
        <5>1. l \in Seq(AllWords)
          BY LineWords
        <5> QED
          BY <1>5, <2>2, <3>3, <4>2, <5>1, SlashesFirst
      <4> QED
        BY <1>1, <4>1, <4>2
    <3> QED
      BY <1>5, <2>1, <2>4, <3>2, <3>3 DEF Treatment, DroppedStart, IsInclude, IsDirectiveLine
  <2> QED
    BY <2>3, <2>4
<1> QED
  BY <1>1, <1>2, <1>3, <1>4, <1>5

\* What a #define reads ends before a backslash: with the name or a bracket.
LEMMA DefineReads ==
  ASSUME NEW o \in Seq(AllWords), Len(o) > 1, Last(o) = "\\"
  PROVE  DefineRead(o) \in 1 .. Len(o) - 1
<1>1. CASE HasParams(o) /\ IsDefine(o)
  <2> DEFINE k == CHOOSE i \in ParamCounts(o) : TRUE
  <2>1. k \in ParamCounts(o)
    BY <1>1 DEF IsDefine
  <2>2. DefineRead(o) = 2 * k + 2
    BY <1>1 DEF DefineRead
  <2> HIDE DEF k
  <2>a. k \in 1 .. ParamMax - 1 /\ 2 * k + 2 <= Len(o) /\ o[2 * k + 2] = ")"
    BY <2>1, Zenon DEF ParamCounts
  <2>3. k \in Nat /\ 2 * k + 2 <= Len(o) /\ o[2 * k + 2] = ")"
    BY <2>a, ParamAssumption
  <2>4. Len(o) \in Nat /\ 2 * k + 2 # Len(o)
    BY <2>3 DEF Last
  <2> QED
    BY <2>2, <2>3, <2>4
<1>2. CASE ~(HasParams(o) /\ IsDefine(o))
  BY <1>2 DEF DefineRead
<1> QED
  BY <1>1, <1>2

\* A directive that begins: what goes on for Python does for C.
LEMMA StartAgrees ==
  ASSUME NEW l \in Lines, ParseStart(l, Tokens(l)), halted' = "no",
         Ends(l) => /\ ~IsDisabled /\ Len(Tokens(l)) > 3 /\ Command(Tokens(l)) = "define"
                    /\ Last(Tokens(l)) = "\\",
         Tokens(l) \in Seq(AllWords), Ends(l) \in BOOLEAN
  PROVE  /\ pp_state' = PyState(l) /\ continued' = Ends(l)
         /\ continued' => directive_id' = "define" /\ ~IsDisabled'
<1> DEFINE t == Tokens(l)
           c == Command(t)
           o == Operands(t)
           more == SubSeq(o, OperandsRead(c, o) + 1, Len(o))
<1>1. /\ Dispatch(c, o) /\ directive_id' = c /\ pp_state' = PyState(l)
      /\ continued' = Continues(c, more) /\ HaltIfWasted(l)
  BY Zenon DEF ParseStart
<1>2. continued' => Ends(l)
  BY <1>1 DEF HaltIfWasted, Wasted
<1>3. continued' => directive_id' = "define" /\ ~IsDisabled'
  BY <1>1 DEF Continues
<1>4. ASSUME Ends(l) PROVE continued'
  <2>1. ~IsDisabled /\ Len(t) > 3 /\ c = "define" /\ Last(t) = "\\" /\ t \in Seq(AllWords)
    BY <1>4
  <2>2. UNCHANGED <<field, depth>>
    BY <1>1, <2>1 DEF Dispatch, Define, IfGroup, vars
  <2>3. ~IsDisabled'
    BY <2>1, <2>2 DEF IsDisabled
  <2>4. OperandsRead(c, o) = DefineRead(o)
    BY <2>1 DEF OperandsRead
  <2> HIDE DEF t, c
  <2>5. Len(o) = Len(t) - 2 /\ o \in Seq(AllWords) /\ \A i \in 1 .. Len(o) : o[i] = t[i + 2]
    BY <2>1 DEF Operands
  <2> DEFINE n == DefineRead(o)
  <2>6. more = SubSeq(o, n + 1, Len(o))
    BY <2>4
  <2> HIDE DEF o, more
  <2>a. Len(t) \in Nat /\ Len(o) \in Nat /\ Len(o) >= 2 /\ o[Len(o)] = t[Len(t)]
    BY <2>1, <2>5
  <2>b. Last(o) = "\\"
    BY <2>1, <2>a DEF Last
  <2>c. n \in 1 .. Len(o) - 1
    BY <2>5, <2>a, <2>b, DefineReads
  <2> HIDE DEF n
  <2>7. more # <<>> /\ more[Len(more)] = o[Len(o)]
    <3>1. Len(more) = Len(o) - n /\ \A i \in 1 .. Len(more) : more[i] = o[n + i]
      BY <2>5, <2>6, <2>a, <2>c
    <3>2. Len(more) \in 1 .. Len(more)
      BY <2>a, <2>c, <3>1
    <3> QED
      BY <2>a, <2>c, <3>1, <3>2
  <2>8. Continues(c, more)
    BY <2>1, <2>3, <2>7, <2>b DEF Continues, Last
  <2> QED
    BY <1>1, <2>8
<1> QED
  BY <1>1, <1>2, <1>3, <1>4 DEF Continues

LEMMA LineAgrees ==
  ASSUME LinesInv, NEW l \in Lines, Reads(l), Follow(l) PROVE LinesInv'
<1>1. /\ inside \in BOOLEAN /\ spliced \in BOOLEAN /\ plain \in BOOLEAN /\ Runs
      /\ inside' = Scanned(l, inside).inside /\ spliced' = Ends(l) /\ plain' = (plain /\ ~Unsupported(l))
  BY DEF LinesInv, Follow, Reads, EmptyLine, DropDirective, Include, DirectiveLine, DropText, Text
<1>2. inside' \in BOOLEAN /\ spliced' \in BOOLEAN /\ plain' \in BOOLEAN
  <2>1. l \in Seq(AllWords)
    BY LineWords
  <2>2. Scanned(l, inside).inside \in BOOLEAN
    <3>1. PICK f : /\ f[0] = Start(inside)
                   /\ \A i \in 1 .. Len(l) : f[i] = ScanWord(f[i - 1], l[i])
                   /\ Scanned(l, inside) = f[Len(l)]
      BY <2>1, ScanUnfolds
    <3>2. \A i \in 0 .. Len(l) : f[i] \in Known
      BY <1>1, <2>1, <3>1, ScannedKnown
    <3>3. Scanned(l, inside) \in Known
      BY <2>1, <3>1, <3>2
    <3> QED
      BY <3>3 DEF Known
  <2> QED
    BY <1>1, <2>2 DEF Ends
<1>3. CASE ~plain'
  BY <1>2, <1>3 DEF LinesInv
<1>4. CASE plain'
  <2>1. plain /\ ~Unsupported(l) /\ InAgreement
    BY <1>1, <1>4 DEF LinesInv
  <2>2. comment = inside /\ continued = spliced /\ pp_state = IF spliced THEN "DIRECTIVE_CONTINUED" ELSE "INITIAL"
    BY <2>1 DEF InAgreement
  <2>3. InsideAfter(l) = inside'
    BY <1>1, <2>1, <2>2, LineScanned
  <2>4. ASSUME Quiet, ~spliced, ~Ends(l), comment' = inside' PROVE LinesInv'
    <3>1. pp_state' = pp_state /\ continued' = continued /\ halted' = halted
      BY <2>4 DEF Quiet
    <3>a. spliced = FALSE /\ spliced' = FALSE /\ continued' = FALSE /\ pp_state' = "INITIAL"
      BY <1>1, <2>2, <2>4, <3>1
    <3>2. InAgreement'
      BY <2>4, <3>a DEF InAgreement
    <3>3. halted' # "caller_bug"
      BY <1>1, <3>1 DEF Runs
    <3> QED
      BY <1>2, <3>2, <3>3 DEF LinesInv
  <2>5. CASE EmptyLine(l)
    <3>1. l = <<>> /\ Quiet /\ comment' = comment /\ ~spliced /\ l \in Seq(AllWords)
      BY <1>1, <2>1, <2>5, LineWords DEF EmptyLine, Unsupported
    <3>2. Scanned(l, inside) = Start(inside) /\ ~Ends(l)
      BY <1>1, <3>1, EmptyScanned
    <3>3. comment' = inside'
      BY <1>1, <2>2, <3>1, <3>2 DEF Start
    <3> QED
      BY <2>4, <3>1, <3>2, <3>3
  <2>6. CASE DropDirective(l)
    <3>1. Quiet /\ ~spliced /\ IsDisabled /\ comment' = inside'
      BY <1>1, <2>2, <2>3, <2>6 DEF DropDirective, DroppedStart, IsStart
    <3>2. ~Ends(l)
      BY <1>1, <2>1, <2>2, <3>1, GoesOn
    <3> QED
      BY <2>4, <3>1, <3>2
  <2>7. CASE Include(l)
    <3>1. ~spliced /\ Command(Tokens(l)) = "include" /\ comment' = inside'
      BY <1>1, <2>2, <2>3, <2>7 DEF Include, IsInclude, IsStart
    <3>2. ~Ends(l)
      BY <1>1, <2>1, <2>2, <3>1, GoesOn
    <3>3. CASE halted' = "source"
      BY <1>2, <3>3 DEF LinesInv, Runs
    <3>4. CASE halted' = "no"
      <4>1. Quiet
        BY <1>1, <2>7, <3>4 DEF Include, Quiet, Runs
      <4> QED
        BY <2>4, <3>1, <3>2, <4>1
    <3> QED
      BY <2>7, <3>3, <3>4 DEF Include
  <2>8. CASE DropText(l) \/ Text(l)
    <3>1. Quiet /\ ~spliced /\ l # <<>> /\ l[1] \notin Pounds
      BY <1>1, <2>2, <2>8 DEF DropText, Text, IsText
    <3>2. ~Ends(l)
      BY <1>1, <2>1, <2>2, <3>1, PoundsAgree
    <3>3. comment' = inside'
      <4>1. CASE Text(l)
        BY <2>3, <4>1 DEF Text
      <4>2. CASE DropText(l)
        <5>1. comment' = comment /\ l \in Seq(AllWords)
          BY <4>2, LineWords DEF DropText
        <5>2. CASE Delimiters \cap ToSet(l) = {}
          BY <1>1, <2>2, <5>1, <5>2, NoDelimiters
        <5>3. CASE inside = FALSE /\ l[1] = "//"
          BY <1>1, <2>2, <3>1, <5>1, <5>3, SlashesFirst
        <5> QED
          BY <1>1, <2>1, <4>2, <5>2, <5>3 DEF DropText, Unsupported, Delimiters
      <4> QED
        BY <2>8, <4>1, <4>2
    <3> QED
      BY <2>4, <3>1, <3>2, <3>3
  <2>9. CASE DirectiveLine(l)
    <3>1. ~NotDirective(Tokens(l))
      <4>1. CASE spliced
        BY <2>2, <4>1 DEF NotDirective
      <4>2. CASE ~spliced
        <5>1. l # <<>> /\ l[1] \in Pounds
          BY <2>2, <2>9, <4>2 DEF DirectiveLine, IsDirectiveLine, IsStart
        <5> QED
          BY <1>1, <2>1, <2>2, <4>2, <5>1, PoundsAgree DEF NotDirective
      <4> QED
        BY <4>1, <4>2
    <3>2. /\ comment' = inside'
          /\ IF continued THEN ParseMore(l, Tokens(l)) ELSE ParseStart(l, Tokens(l))
      BY <2>3, <2>9, <3>1 DEF DirectiveLine
    <3>3. Tokens(l) \in Seq(AllWords) /\ Ends(l) \in BOOLEAN
      BY <1>1, <2>2, LineScanned DEF Ends
    <3>4. halted' \in {"no", "source"}
      <4>1. halted = "no"
        BY <1>1 DEF Runs
      <4>2. ASSUME HaltIfWasted(l) PROVE halted' \in {"no", "source"}
        BY <4>1, <4>2 DEF HaltIfWasted
      <4>3. CASE ParseMore(l, Tokens(l))
        BY <4>2, <4>3 DEF ParseMore
      <4>4. CASE ParseStart(l, Tokens(l))
        BY <4>2, <4>4, Zenon DEF ParseStart
      <4> QED
        BY <3>2, <4>3, <4>4
    <3>5. CASE halted' = "source"
      BY <1>2, <3>5 DEF LinesInv, Runs
    <3>6. CASE halted' = "no"
      <4>1. /\ pp_state' = PyState(l) /\ continued' = Ends(l)
            /\ continued' => directive_id' = "define" /\ ~IsDisabled'
        <5>1. CASE ~spliced
          <6>1. ParseStart(l, Tokens(l))
            BY <2>2, <3>2, <5>1
          <6>2. Ends(l) => /\ ~IsDisabled /\ Len(Tokens(l)) > 3 /\ Command(Tokens(l)) = "define"
                           /\ Last(Tokens(l)) = "\\"
            BY <1>1, <2>1, <2>2, <5>1, GoesOn
          <6> QED
            BY <3>3, <3>6, <6>1, <6>2, StartAgrees
        <5>2. CASE spliced
          <6>1. ParseMore(l, Tokens(l)) /\ directive_id = "define" /\ ~IsDisabled
            BY <2>1, <2>2, <3>2, <5>2 DEF InAgreement
          <6>2. /\ UNCHANGED <<vars, directive_id>> /\ pp_state' = PyState(l)
                /\ continued' = Continues(directive_id, Tokens(l)) /\ HaltIfWasted(l)
            BY <3>6, <6>1 DEF ParseMore
          <6>3. ~IsDisabled'
            BY <6>1, <6>2 DEF vars, IsDisabled
          <6>4. continued' => Ends(l)
            BY <3>6, <6>2 DEF HaltIfWasted, Wasted
          <6>5. ASSUME Ends(l) PROVE continued'
            <7>1. Tokens(l) # <<>> /\ Last(Tokens(l)) = "\\"
              BY <1>1, <2>1, <2>2, <6>5, EndToken
            <7> QED
              BY <6>1, <6>2, <6>3, <7>1 DEF Continues
          <6>6. continued' \in BOOLEAN
            BY <6>2 DEF Continues
          <6> QED
            BY <3>3, <6>1, <6>2, <6>3, <6>4, <6>5, <6>6
        <5> QED
          BY <1>1, <5>1, <5>2
      <4>2. InAgreement'
        <5>1. CASE Ends(l)
          <6>1. spliced' = TRUE /\ continued' = TRUE /\ pp_state' = "DIRECTIVE_CONTINUED"
            BY <1>1, <4>1, <5>1 DEF PyState
          <6> QED
            BY <3>2, <4>1, <6>1 DEF InAgreement
        <5>2. CASE ~Ends(l)
          <6>1. spliced' = FALSE /\ continued' = FALSE /\ pp_state' = "INITIAL"
            BY <1>1, <3>3, <4>1, <5>2 DEF PyState
          <6> QED
            BY <3>2, <6>1 DEF InAgreement
        <5> QED
          BY <5>1, <5>2
      <4> QED
        BY <1>2, <3>6, <4>2 DEF LinesInv
    <3> QED
      BY <3>4, <3>5, <3>6
  <2> QED
    BY <2>5, <2>6, <2>7, <2>8, <2>9 DEF Reads
<1> QED
  BY <1>2, <1>3, <1>4

LEMMA LinesInit == InitDriver => LinesInv
BY DEF InitDriver, InitPreprocess, LinesInv, InAgreement

LEMMA LinesStep == ASSUME LinesInv, [NextDriver]_driverVars PROVE LinesInv'
<1>1. ASSUME NEW l \in Lines, ReadLine(l) \/ IncludeFile(l) \/ ReadText(l) PROVE LinesInv'
  <2>1. Reads(l) /\ Follow(l)
    BY <1>1 DEF ReadLine, IncludeFile, ReadText, Reads
  <2> QED
    BY <2>1, LineAgrees
<1>2. ASSUME UNCHANGED <<vars, ppVars, inside, spliced>>, plain' \in BOOLEAN, plain' => plain PROVE LinesInv'
  <2>1. InAgreement' = InAgreement /\ Runs' = Runs /\ halted' = halted
    BY <1>2 DEF vars, ppVars, InAgreement, Runs, IsDisabled
  <2> QED
    BY <1>2, <2>1 DEF LinesInv
<1>3. CASE EndOfFile
  BY <1>2, <1>3 DEF EndOfFile, LinesInv
<1>4. CASE CompileToken
  BY <1>2, <1>4 DEF CompileToken, ppVars, LinesInv
<1>5. CASE UNCHANGED driverVars
  BY <1>2, <1>5 DEF driverVars, cLanguage, LinesInv
<1> QED
  BY <1>1, <1>3, <1>4, <1>5 DEF NextDriver

\* A source of supported lines is read as C means it: each line is taken for a
\* directive, the rest of one, text or nothing, as C takes it (as-.py:100-184).
THEOREM LinesAsMeantHolds == SpecDriver => []LinesAsMeant
<1>1. LinesInv => LinesAsMeant
  <2> SUFFICES ASSUME LinesInv, plain, CanRead, NEW l \in Lines, ~Unsupported(l)
               PROVE  Treatment(l) = Meaning(l)
    BY DEF LinesAsMeant
  <2> QED
    BY Treated DEF CanRead
<1> QED
  BY <1>1, LinesInit, LinesStep, PTL DEF SpecDriver

\* Such a source never meets the assertion "not diretive line" of
\* directive.c:357.
THEOREM OnlyDirectivesParsedHolds == SpecDriver => []OnlyDirectivesParsed
<1>1. LinesInv => OnlyDirectivesParsed
  BY DEF LinesInv, OnlyDirectivesParsed
<1> QED
  BY <1>1, LinesInit, LinesStep, PTL DEF SpecDriver

------------------------------------------------------------------------------
\* What the lines do to the conditional directives is what IfDirective says: the
\* names are words of the lines.
CommentOK == comment \in BOOLEAN

LEMMA CommentInit == InitDriver => CommentOK
BY DEF InitDriver, InitPreprocess, CommentOK

LEMMA CommentStep == ASSUME CommentOK, [NextDriver]_driverVars PROVE CommentOK'
<1>1. ASSUME NEW l \in Lines, Reads(l) PROVE CommentOK'
  <2>1. InsideAfter(l) \in BOOLEAN
    BY TokensAre DEF CommentOK
  <2> QED
    BY <1>1, <2>1 DEF CommentOK, Reads, EmptyLine, DropDirective, Include, DirectiveLine, DropText, Text
<1>2. CASE UNCHANGED ppVars
  BY <1>2 DEF ppVars, CommentOK
<1>3. CASE CompileToken
  BY <1>2, <1>3 DEF CompileToken
<1> QED
  BY <1>1, <1>2, <1>3, StepCases

\* The first operand of a directive is its third token.
LEMMA OperandIsWord ==
  ASSUME NEW t \in Seq(AllWords), Operands(t) # <<>>
  PROVE  Operands(t)[1] \in Macros
<1>1. Len(t) \in Nat /\ Len(Operands(t)) = IF 3 <= Len(t) THEN Len(t) - 2 ELSE 0
  BY DEF Operands
<1>2. Operands(t) \in Seq(AllWords)
  BY DEF Operands
<1>3. Len(Operands(t)) # 0
  BY <1>2
<1>4. 3 \in 1 .. Len(t) /\ Operands(t)[1] = t[3]
  BY <1>1, <1>3 DEF Operands
<1> QED
  BY <1>4, NamesAssumption DEF AllWords

LEMMA DispatchIsStep ==
  ASSUME NEW t \in Seq(AllWords), NEW c, Dispatch(c, Operands(t))
  PROVE  [Next]_vars
<1> DEFINE o == Operands(t)
<1>1. o # <<>> => o[1] \in Macros
  BY OperandIsWord
<1>2. Len(o) = 1 => o # <<>>
  OBVIOUS
<1>3. IsTrue(o) \in BOOLEAN
  BY DEF IsTrue
<1> HIDE DEF o
<1>4. Dispatch(c, o)
  BY DEF o
<1>5. IsDefine(o) => o # <<>>
  BY DEF IsDefine
<1> QED
  BY <1>1, <1>2, <1>3, <1>4, <1>5 DEF Dispatch, Next

LEMMA LineIsStep == ASSUME CommentOK, [NextDriver]_driverVars PROVE [Next]_vars
<1>1. ASSUME NEW l \in Lines, Reads(l) PROVE [Next]_vars
  <2>1. Tokens(l) \in Seq(AllWords)
    BY TokensAre DEF CommentOK
  <2>2. ASSUME ParseStart(l, Tokens(l)) PROVE [Next]_vars
    BY <2>1, <2>2, DispatchIsStep DEF ParseStart
  <2>3. ParseRefuses \/ ParseMore(l, Tokens(l)) \/ Quiet \/ Include(l) => UNCHANGED vars
    BY DEF ParseRefuses, ParseMore, Quiet, Include
  <2> QED
    BY <1>1, <2>2, <2>3 DEF Reads, EmptyLine, DropDirective, DirectiveLine, DropText, Text
<1>2. CompileToken => UNCHANGED vars
  BY DEF CompileToken
<1> QED
  BY <1>1, <1>2, StepCases

\* Whatever lines come, comments, continued ones and included files among them,
\* the driver does nothing to the conditional directives that is not one of
\* them: all that is proved of IfDirective holds while it runs, the refinement
\* of Conditionals included.
THEOREM DirectivesKept == SpecDriver => Spec
<1>1. InitDriver => Init
  BY DEF InitDriver, InitPreprocess
<1> QED
  BY <1>1, CommentInit, CommentStep, LineIsStep, PTL DEF SpecDriver, Spec

\* The driver's #ifs, #defines and #undefs are those of the stack of groups: a
\* line counts if every group open around it is in its chosen branch
\* (as-.py:140-190, pre/directive.c).
THEOREM DriverRefines == SpecDriver => ImplementsConditionals
BY DirectivesKept, Refines

\* Whatever lines come, the depth stays within what the packed fields hold, and
\* every field is one of the three states (pre/directive.c:102-104).
THEOREM DriverTypes == SpecDriver => []TypeOK
BY DirectivesKept, TypeCorrect

\* Whatever lines come, a new #if finds a clear field: manage_bug(0 ==
\* filter_get_state ()) of pre/directive.c:95 holds for every source.
THEOREM DriverClearAbove == SpecDriver => []FieldsAboveClear
BY DirectivesKept, ClearAbove

\* Whatever lines come, an open group that left its chosen branch enters no
\* other (pre/directive.c:165-210).
THEOREM DriverOneBranch == SpecDriver => OneBranch
BY DirectivesKept, OneBranchHolds

------------------------------------------------------------------------------
\* The stack of post/skip.c: a declaration, and above it at most one kind of
\* bracket; between statements and in __asm__ it is as at the start.
Outer == {"INITIAL", "TYPEDEF", "STRUCT", "DECLARE"}
Inner == {"CURLY_BRACKETS", "ROUND_BRACKETS"}
IsContext(c, states) == c = [state |-> c.state, unclosed |-> c.unclosed] /\ c.state \in states /\ c.unclosed \in Nat
IsOuter(c)    == IsContext(c, Outer) /\ (c.state = "INITIAL" => c = Context("INITIAL"))
Flat(stack)   == \E a : IsOuter(a) /\ stack = <<a>>
Nested(stack) == \E a, b : IsOuter(a) /\ a.state # "INITIAL" /\ IsContext(b, Inner) /\ stack = <<a, b>>

StackInv ==
  /\ Flat(skipping) \/ Nested(skipping)
  /\ cc_state = 4 \/ skipping = Idle

LEMMA StackInit == InitDriver => StackInv
<1>1. IsOuter(Context("INITIAL"))
  BY DEF IsOuter, IsContext, Context, Outer
<1> QED
  BY <1>1 DEF InitDriver, InitStatements, Idle, StackInv, Flat

\* Tuples of one and two.
LEMMA PairOf == ASSUME NEW S, NEW s \in Seq(S), Len(s) = 2 PROVE s = <<s[1], s[2]>>
OBVIOUS

LEMMA AppendOne == ASSUME NEW x, NEW y PROVE Append(<<x>>, y) = <<x, y>>
<1> DEFINE S == {x, y}
           s == Append(<<x>>, y)
<1>1. s \in Seq(S) /\ Len(s) = 2
  OBVIOUS
<1>2. s[1] = x /\ s[2] = y
  OBVIOUS
<1> HIDE DEF s, S
<1>3. s = <<x, y>>
  BY <1>1, <1>2, PairOf
<1> QED
  BY <1>3 DEF s

LEMMA SingleOf == ASSUME NEW S, NEW s \in Seq(S), Len(s) = 1 PROVE s = <<s[1]>>
OBVIOUS

LEMMA FrontOfTwo == ASSUME NEW x, NEW y PROVE Front(<<x, y>>) = <<x>>
<1> DEFINE S == {x, y}
           s == Front(<<x, y>>)
<1>1. s \in Seq(S) /\ Len(s) = 1
  BY DEF Front
<1>2. s[1] = x
  BY DEF Front
<1> HIDE DEF s, S
<1>3. s = <<x>>
  BY <1>1, <1>2, SingleOf
<1> QED
  BY <1>3 DEF s

LEMMA ExceptTwo == ASSUME NEW x, NEW y, NEW z PROVE [<<x, y>> EXCEPT ![2] = z] = <<x, z>>
OBVIOUS

\* What a token makes of either stack is such a stack, or nothing.
LEMMA SkippedFlat ==
  ASSUME NEW t, NEW a, IsOuter(a), skipping = <<a>>, Skipped(t) # <<>>
  PROVE  Flat(Skipped(t)) \/ Nested(Skipped(t))
<1>1. Len(skipping) = 1 /\ Open = a /\ Last(skipping) = a
  BY DEF Open, Last
<1>2. ASSUME NEW s \in Outer PROVE Flat(Modified(s))
  <2>1. Modified(s) = [<<a>> EXCEPT ![1] = Context(s)]
    BY <1>1 DEF Modified
  <2>2. Modified(s) = <<Context(s)>>
    BY <2>1
  <2> QED
    BY <2>2 DEF Flat, IsOuter, IsContext, Context
<1>3. ASSUME NEW s \in Inner, a.state # "INITIAL" PROVE Nested(Pushed(s))
  <2>1. Pushed(s) = <<a, Context(s)>>
    BY AppendOne DEF Pushed
  <2>2. IsContext(Context(s), Inner)
    BY DEF IsContext, Context
  <2> QED
    BY <1>3, <2>1, <2>2 DEF Nested
<1>4. Flat(Popped) /\ Flat(skipping)
  <2>1. Popped = <<Context("INITIAL")>>
    BY <1>1 DEF Popped, Idle
  <2>2. IsOuter(Context("INITIAL"))
    BY DEF IsOuter, IsContext, Context, Outer
  <2> QED
    BY <2>1, <2>2 DEF Flat
<1>5. CASE a.state = "INITIAL"
  BY <1>1, <1>2, <1>5 DEF Skipped, FirstOf, Outer
<1>6. CASE a.state = "TYPEDEF"
  <2>1. Skipped(t) = InTypedef(t)
    BY <1>1, <1>6 DEF Skipped
  <2>2. \A s \in Inner : Nested(Pushed(s))
    BY <1>3, <1>6
  <2>3. InTypedef(t) \in {<<>>, Modified("STRUCT"), skipping, Popped} \cup { Pushed(s) : s \in Inner }
    BY DEF InTypedef, Inner
  <2> QED
    BY <1>2, <1>4, <2>1, <2>2, <2>3 DEF Outer
<1>7. CASE a.state = "STRUCT"
  <2>1. Skipped(t) = InStruct(t)
    BY <1>1, <1>7 DEF Skipped
  <2>2. \A s \in Inner : Nested(Pushed(s))
    BY <1>3, <1>7
  <2>3. InStruct(t) \in {<<>>, Modified("STRUCT"), skipping, Popped} \cup { Pushed(s) : s \in Inner }
    BY DEF InStruct, Inner
  <2> QED
    BY <1>2, <1>4, <2>1, <2>2, <2>3 DEF Outer
<1>8. CASE a.state = "DECLARE"
  <2>1. Skipped(t) = InDeclare(t)
    BY <1>1, <1>8 DEF Skipped
  <2>2. \A s \in Inner : Nested(Pushed(s))
    BY <1>3, <1>8
  <2>3. InDeclare(t) \in {<<>>, Modified("STRUCT"), skipping, Popped} \cup { Pushed(s) : s \in Inner }
    BY DEF InDeclare, Inner
  <2> QED
    BY <1>2, <1>4, <2>1, <2>2, <2>3 DEF Outer
<1> QED
  BY <1>5, <1>6, <1>7, <1>8 DEF IsOuter, IsContext, Outer

LEMMA SkippedNested ==
  ASSUME NEW t, NEW a, NEW b, IsOuter(a), a.state # "INITIAL", IsContext(b, Inner),
         skipping = <<a, b>>, Skipped(t) # <<>>
  PROVE  /\ \/ Skipped(t) \in {skipping, <<a>>, Counted(1)}
            \/ Skipped(t) = Counted(-1) /\ b.unclosed > 0
         /\ Flat(Skipped(t)) \/ Nested(Skipped(t))
<1>1. Len(skipping) = 2 /\ Open = b /\ Last(skipping) = b
  BY DEF Open, Last
<1>2. Popped = <<a>>
  BY <1>1, FrontOfTwo DEF Popped
<1>3. ASSUME NEW n \in Int, b.unclosed + n \in Nat
      PROVE  Counted(n) = <<a, [b EXCEPT !.unclosed = @ + n]>> /\ Nested(Counted(n))
  <2>1. Counted(n) = [<<a, b>> EXCEPT ![2] = [b EXCEPT !.unclosed = @ + n]]
    BY <1>1 DEF Counted
  <2>2. Counted(n) = <<a, [b EXCEPT !.unclosed = @ + n]>>
    BY <2>1, ExceptTwo
  <2>3. IsContext([b EXCEPT !.unclosed = @ + n], Inner)
    BY <1>3 DEF IsContext
  <2> QED
    BY <2>2, <2>3 DEF Nested
<1>4. \/ Skipped(t) \in {skipping, <<a>>, Counted(1)}
      \/ Skipped(t) = Counted(-1) /\ b.unclosed > 0
  <2>1. CASE b.state = "CURLY_BRACKETS"
    <3>1. Skipped(t) = InCurly(t)
      BY <1>1, <2>1 DEF Skipped
    <3>2. InCurly(t) \in {<<>>, skipping, Popped, Counted(1)} \/ (InCurly(t) = Counted(-1) /\ Open.unclosed > 0)
      <4>1. CASE ~IsMark(t)
        BY <4>1, MarksAssumption DEF InCurly, IsMark, Punctuation
      <4>2. CASE IsMark(t) /\ t = "{"
        BY <4>2 DEF InCurly, IsMark, Punctuation
      <4>3. CASE IsMark(t) /\ t = "}"
        <5>1. InCurly(t) = IF Open.unclosed > 0 THEN Counted(-1) ELSE Popped
          BY <4>3, MarksAssumption DEF InCurly, IsMark, Letters, Punctuation
        <5> QED
          BY <5>1
      <4>4. CASE IsMark(t) /\ t # "{" /\ t # "}"
        BY <4>4 DEF InCurly, IsMark, Punctuation
      <4> QED
        BY <4>1, <4>2, <4>3, <4>4
    <3> QED
      BY <3>1, <3>2, <1>1, <1>2
  <2>2. CASE b.state = "ROUND_BRACKETS"
    <3>1. Skipped(t) = InRound(t)
      BY <1>1, <2>2 DEF Skipped
    <3>2. InRound(t) \in {<<>>, skipping, Popped, Counted(1)} \/ (InRound(t) = Counted(-1) /\ Open.unclosed > 0)
      <4>1. CASE ~IsMark(t)
        BY <4>1, MarksAssumption DEF InRound, IsMark, Punctuation
      <4>2. CASE IsMark(t) /\ t = "("
        BY <4>2 DEF InRound, IsMark, Punctuation
      <4>3. CASE IsMark(t) /\ t = ")"
        <5>1. InRound(t) = IF Open.unclosed > 0 THEN Counted(-1) ELSE Popped
          BY <4>3, MarksAssumption DEF InRound, IsMark, Punctuation
        <5> QED
          BY <5>1
      <4>4. CASE IsMark(t) /\ t # "(" /\ t # ")"
        BY <4>4 DEF InRound, IsMark, Punctuation
      <4> QED
        BY <4>1, <4>2, <4>3, <4>4
    <3> QED
      BY <3>1, <3>2, <1>1, <1>2
  <2> QED
    BY <2>1, <2>2 DEF IsContext, Inner
<1>5. Flat(<<a>>) /\ Nested(skipping)
  BY DEF Flat, Nested
<1>6. Nested(Counted(1))
  BY <1>3 DEF IsContext
<1>7. b.unclosed > 0 => Nested(Counted(-1))
  BY <1>3 DEF IsContext
<1> QED
  BY <1>4, <1>5, <1>6, <1>7

LEMMA StackKept == ASSUME StackInv, UNCHANGED <<skipping, cc_state>> PROVE StackInv'
BY DEF StackInv, Flat, Nested, IsOuter, IsContext, Idle, Context

LEMMA StackStep == ASSUME StackInv, [NextDriver]_driverVars PROVE StackInv'
<1>1. ASSUME NEW t, SkipToken(t) PROVE StackInv'
  <2>1. CASE Skipped(t) = <<>>
    BY <1>1, <2>1, StackKept DEF SkipToken, GiveUp
  <2>2. CASE Skipped(t) # <<>>
    <3>1. Flat(Skipped(t)) \/ Nested(Skipped(t))
      BY <2>2, SkippedFlat, SkippedNested DEF StackInv, Flat, Nested
    <3>2. skipping' = Skipped(t) /\ cc_state' = IF Last(Skipped(t)).state = "INITIAL" THEN 0 ELSE 4
      BY <1>1, <2>2 DEF SkipToken
    <3>3. ASSUME Last(Skipped(t)).state = "INITIAL" PROVE Skipped(t) = Idle
      <4>1. ASSUME NEW a, IsOuter(a), Skipped(t) = <<a>> PROVE Skipped(t) = Idle
        BY <3>3, <4>1 DEF IsOuter, Idle, Last
      <4>2. ASSUME NEW a, NEW b, IsContext(b, Inner), Skipped(t) = <<a, b>> PROVE FALSE
        BY <3>3, <4>2 DEF IsContext, Inner, Last
      <4> QED
        BY <3>1, <4>1, <4>2 DEF Flat, Nested
    <3>4. (Flat(skipping) \/ Nested(skipping))'
      BY <3>1, <3>2 DEF Flat, Nested
    <3>5. cc_state' = 4 \/ skipping' = Idle
      BY <3>2, <3>3
    <3> QED
      BY <3>4, <3>5 DEF StackInv, Idle, Context, Flat, Nested
  <2> QED
    BY <2>1, <2>2
<1>2. ASSUME NEW t, Token(t) PROVE StackInv'
  <2>1. ASSUME cc_state # 4, skipping' = skipping PROVE StackInv'
    BY <2>1, StackKept DEF StackInv
  <2>2. CASE AsmBegin(t) \/ AsmOpen(t) \/ AsmClose(t) \/ AsmEnd(t) \/ AsmText(t)
    <3>1. cc_state # 4 /\ skipping' = skipping
      <4>1. ~AsmText(t) => cc_state \in 0 .. 3 /\ \E n : To(n)
        <5>1. AsmEnd(t) => cc_state = 3 /\ To(0)
          BY Zenon DEF AsmEnd
        <5> QED
          BY <2>2, <5>1 DEF AsmBegin, AsmOpen, AsmClose
      <4>2. ~AsmText(t) => cc_state # 4 /\ skipping' = skipping
        BY <4>1 DEF To
      <4>3. AsmText(t) => cc_state # 4 /\ skipping' = skipping
        BY DEF AsmText
      <4> QED
        BY <4>2, <4>3
    <3> QED
      BY <2>1, <3>1
  <2>3. CASE AsmUnexpected(t)
    BY <2>3, StackKept DEF AsmUnexpected, GiveUp
  <2> QED
    BY <1>1, <1>2, <2>2, <2>3 DEF Token
<1>3. CASE CompileToken
  BY <1>2, <1>3 DEF CompileToken
<1>4. CASE UNCHANGED ccVars
  BY <1>4, StackKept DEF ccVars
<1> QED
  BY <1>3, <1>4, StepCases

\* No more than two of the four places of stack[4] (post/skip.c:39) are ever used,
\* so the assertion of push_stack holds for every source.
THEOREM SkipStackRoomHolds == SpecDriver => []SkipStackRoom
<1>1. StackInv => SkipStackRoom
  <2>1. ASSUME NEW a, skipping = <<a>> PROVE Len(skipping) <= 2
    BY <2>1
  <2>2. ASSUME NEW a, NEW b, skipping = <<a, b>> PROVE Len(skipping) <= 2
    BY <2>2
  <2> QED
    BY <2>1, <2>2 DEF StackInv, Flat, Nested, SkipStackRoom
<1> QED
  BY <1>1, StackInit, StackStep, PTL DEF SpecDriver

------------------------------------------------------------------------------
\* A statement ends for cc() where C ends it.  Brackets are those of Opening and
\* Closing; Ended and Free say what else a token may be.
LBrace   == "{"
RBrace   == "}"
Ended(t) == t = ";"
Free(t)  == t \notin DOMAIN Opening \cup Closing
After(n, t) == IF t \in DOMAIN Opening THEN Append(n, Opening[t])
               ELSE IF t \in Closing /\ n # <<>> THEN Front(n) ELSE n
Fitting(n, t) == t \in Closing => n # <<>> /\ Last(n) = t

LEMMA BracketsAre ==
  /\ DOMAIN Opening = {"(", LBrace, "["} /\ Closing = {")", RBrace, "]"}
  /\ LBrace \notin {"(", ")", "[", "]", RBrace} /\ RBrace \notin {"(", ")", "[", "]"}
<1>1. DOMAIN Opening = {"(", LBrace, "["}
  BY Zenon DEF Opening, LBrace
<1>2. Closing = {")", RBrace, "]"}
  BY Zenon DEF Closing, RBrace
<1>3. LBrace \notin {"(", ")", "[", "]", RBrace}
  BY Zenon DEF LBrace, RBrace
<1>4. RBrace \notin {"(", ")", "[", "]"}
  BY Zenon DEF RBrace
<1> QED
  BY <1>1, <1>2, <1>3, <1>4

LEMMA OpeningIs == Opening["("] = ")" /\ Opening[LBrace] = RBrace /\ Opening["["] = "]"
<1>1. Opening["("] = ")"
  BY Zenon DEF Opening
<1>2. Opening[LBrace] = RBrace
  BY Zenon DEF Opening, LBrace, RBrace
<1>3. Opening["["] = "]"
  BY Zenon DEF Opening
<1> QED
  BY <1>1, <1>2, <1>3

LEMMA BracketsAreMarks == \A t : ~Free(t) => IsMark(t) /\ t \notin Letters
BY BracketsAre, MarksAssumption, Zenon DEF Free, IsMark, Letters, Punctuation, LBrace, RBrace

LEMMA EndIsMark == \A t : Ended(t) => IsMark(t) /\ Free(t)
<1>1. \A t : Ended(t) => IsMark(t)
  BY MarksAssumption, Zenon DEF Ended, IsMark, Punctuation
<1>2. \A t : Ended(t) => Free(t)
  BY BracketsAre, Zenon DEF Ended, Free, LBrace, RBrace
<1> QED
  BY <1>1, <1>2

LEMMA WordsAreFree ==
  ASSUME NEW t, t \in {"__asm__", "typedef", "struct", Newline}
  PROVE  Free(t) /\ ~Ended(t)
<1>1. Free(t)
  BY BracketsAre, Zenon DEF Free, Newline, LBrace, RBrace
<1>2. ~Ended(t)
  BY Zenon DEF Ended, Newline
<1> QED
  BY <1>1, <1>2

LEMMA StringsAreFree == ASSUME NEW t \in Strings PROVE Free(t) /\ ~Ended(t)
<1>1. CASE t = Newline
  BY <1>1, WordsAreFree
<1>2. CASE t \in AsmTexts
  <2>1. t \notin Punctuation
    BY <1>2, MarksAssumption
  <2>2. \A u : ~Free(u) \/ Ended(u) => u \in Punctuation
    BY BracketsAre, Zenon DEF Free, Ended, Punctuation, LBrace, RBrace
  <2> QED
    BY <2>1, <2>2
<1> QED
  BY <1>1, <1>2 DEF Strings

\* What CompileToken does to the brackets, word by word.
LEMMA CompileIs ==
  ASSUME CompileToken
  PROVE  \E t : /\ Token(t)
                /\ nest' = After(nest, t)
                /\ matched' = (matched /\ Fitting(nest, t))
                /\ between' = (Ended(t) /\ nest = <<>>)
<1> DEFINE t == Head(pending)
<1>1. Token(t) /\ between' = (Ended(t) /\ nest = <<>>)
  BY Zenon DEF CompileToken, Ended
<1>2. nest' = After(nest, t) /\ matched' = (matched /\ Fitting(nest, t))
  BY Zenon DEF CompileToken, After, Fitting
<1> QED
  BY <1>1, <1>2

\* In a declaration, a token is a word, or ends it, or opens a bracket.
LEMMA FlatToken ==
  ASSUME NEW t, NEW a, IsOuter(a), skipping = <<a>>, Skipped(t) # <<>>
  PROVE  \/ /\ Free(t) /\ ~Ended(t)
            /\ \E c : IsOuter(c) /\ c.state # "INITIAL" /\ Skipped(t) = <<c>>
         \/ Ended(t) /\ Skipped(t) = Idle
         \/ /\ a.state # "INITIAL"
            /\ \/ t = "(" /\ Skipped(t) = <<a, Context("ROUND_BRACKETS")>>
               \/ t = LBrace /\ Skipped(t) = <<a, Context("CURLY_BRACKETS")>>
<1>1. Len(skipping) = 1 /\ Open = a /\ Popped = Idle
  BY DEF Open, Last, Popped
<1>2. ASSUME NEW s \in Outer, s # "INITIAL"
      PROVE  \E c : IsOuter(c) /\ c.state # "INITIAL" /\ Modified(s) = <<c>>
  <2>1. Modified(s) = [<<a>> EXCEPT ![1] = Context(s)]
    BY <1>1 DEF Modified
  <2>2. Modified(s) = <<Context(s)>>
    BY <2>1
  <2>3. IsOuter(Context(s)) /\ Context(s).state # "INITIAL"
    BY <1>2 DEF IsOuter, IsContext, Context
  <2> QED
    BY <2>2, <2>3
<1>3. \A s : Pushed(s) = <<a, Context(s)>>
  BY AppendOne DEF Pushed
<1>4. ~IsMark(t) => Free(t) /\ ~Ended(t)
  BY BracketsAreMarks, EndIsMark
<1>5. CASE a.state = "INITIAL"
  <2>1. Skipped(t) = FirstOf(t)
    BY <1>1, <1>5 DEF Skipped
  <2>2. \/ t = "typedef" /\ FirstOf(t) = Modified("TYPEDEF")
        \/ ~IsMark(t) /\ FirstOf(t) = Modified("DECLARE")
    BY <2>1 DEF FirstOf
  <2> QED
    BY <1>2, <1>4, <2>1, <2>2, WordsAreFree DEF Outer
<1>6. CASE a.state # "INITIAL"
  <2>1. CASE Skipped(t) = Modified("STRUCT") /\ t = "struct"
    BY <1>2, <2>1, WordsAreFree DEF Outer
  <2>2. CASE Skipped(t) = skipping /\ ~IsMark(t)
    BY <1>4, <1>6, <2>2
  <2>3. CASE Skipped(t) = Popped /\ Ended(t)
    BY <1>1, <2>3
  <2>4. CASE \/ Skipped(t) = Pushed("ROUND_BRACKETS") /\ t = "("
             \/ Skipped(t) = Pushed("CURLY_BRACKETS") /\ t = LBrace
    BY <1>3, <1>6, <2>4
  <2>5. \/ Skipped(t) = Modified("STRUCT") /\ t = "struct"
        \/ Skipped(t) = skipping /\ ~IsMark(t)
        \/ Skipped(t) = Popped /\ Ended(t)
        \/ Skipped(t) = Pushed("ROUND_BRACKETS") /\ t = "("
        \/ Skipped(t) = Pushed("CURLY_BRACKETS") /\ t = LBrace
    <3>1. CASE a.state = "TYPEDEF"
      <4>1. Skipped(t) = InTypedef(t)
        BY <1>1, <3>1 DEF Skipped
      <4> QED
        BY <4>1, Zenon DEF InTypedef, Ended
    <3>2. CASE a.state = "STRUCT"
      <4>1. Skipped(t) = InStruct(t)
        BY <1>1, <3>2 DEF Skipped
      <4> QED
        BY <4>1, Zenon DEF InStruct, Ended, LBrace
    <3>3. CASE a.state = "DECLARE"
      <4>1. Skipped(t) = InDeclare(t)
        BY <1>1, <3>3 DEF Skipped
      <4> QED
        BY <4>1, Zenon DEF InDeclare, Ended
    <3> QED
      BY <1>6, <3>1, <3>2, <3>3 DEF IsOuter, IsContext, Outer
  <2> QED
    BY <2>1, <2>2, <2>3, <2>4, <2>5
<1> QED
  BY <1>5, <1>6

\* In brackets, a token is no bracket, or is counted, or closes them, or is one
\* of those that { } are not interested in.
LEMMA NestedToken ==
  ASSUME NEW t, NEW a, NEW b, IsContext(b, Inner), skipping = <<a, b>>, Skipped(t) # <<>>
  PROVE  \/ Free(t) /\ Skipped(t) = skipping
         \/ /\ b.state = "CURLY_BRACKETS" /\ t \in {"(", ")", "[", "]"}
            /\ Skipped(t) = skipping
         \/ /\ t = IF b.state = "CURLY_BRACKETS" THEN LBrace ELSE "("
            /\ Skipped(t) = <<a, [b EXCEPT !.unclosed = @ + 1]>>
         \/ /\ t = IF b.state = "CURLY_BRACKETS" THEN RBrace ELSE ")"
            /\ \/ b.unclosed > 0 /\ Skipped(t) = <<a, [b EXCEPT !.unclosed = @ - 1]>>
               \/ b.unclosed = 0 /\ Skipped(t) = <<a>>
<1>1. Len(skipping) = 2 /\ Open = b
  BY DEF Open, Last
<1>2. Popped = <<a>>
  BY <1>1, FrontOfTwo DEF Popped
<1>3. ASSUME NEW n \in Int PROVE Counted(n) = <<a, [b EXCEPT !.unclosed = @ + n]>>
  <2>1. Counted(n) = [<<a, b>> EXCEPT ![2] = [b EXCEPT !.unclosed = @ + n]]
    BY <1>1 DEF Counted
  <2> QED
    BY <2>1, ExceptTwo
<1>4. Counted(1) = <<a, [b EXCEPT !.unclosed = @ + 1]>> /\ Counted(-1) = <<a, [b EXCEPT !.unclosed = @ - 1]>>
  BY <1>3 DEF IsContext
<1>5. b.unclosed \in Nat
  BY DEF IsContext
<1>6. CASE b.state = "CURLY_BRACKETS"
  <2>1. Skipped(t) = InCurly(t)
    BY <1>1, <1>6 DEF Skipped
  <2>2. CASE t = LBrace
    <3>1. IsMark(t) /\ t \notin Letters
      BY <2>2, BracketsAreMarks, BracketsAre DEF Free
    <3>2. InCurly(t) = Counted(1)
      BY <2>2, <3>1, Zenon DEF InCurly, LBrace, RBrace
    <3> QED
      BY <1>4, <1>6, <2>1, <2>2, <3>2
  <2>3. CASE t = RBrace
    <3>1. IsMark(t) /\ t \notin Letters
      BY <2>3, BracketsAreMarks, BracketsAre DEF Free
    <3>2. InCurly(t) = IF Open.unclosed > 0 THEN Counted(-1) ELSE Popped
      BY <2>3, <3>1, Zenon DEF InCurly, LBrace, RBrace
    <3> QED
      BY <1>1, <1>2, <1>4, <1>5, <1>6, <2>1, <2>3, <3>2
  <2>4. CASE t # LBrace /\ t # RBrace
    <3>1. InCurly(t) = skipping
      BY <2>1, <2>4, Zenon DEF InCurly, LBrace, RBrace
    <3>2. Free(t) \/ t \in {"(", ")", "[", "]"}
      BY <2>4, BracketsAre DEF Free
    <3> QED
      BY <1>6, <2>1, <3>1, <3>2
  <2> QED
    BY <2>2, <2>3, <2>4
<1>7. CASE b.state = "ROUND_BRACKETS"
  <2>1. Skipped(t) = InRound(t)
    BY <1>1, <1>7 DEF Skipped
  <2>2. CASE t = "("
    <3>1. IsMark(t)
      BY <2>2, BracketsAreMarks, BracketsAre DEF Free
    <3>2. InRound(t) = Counted(1)
      BY <2>2, <3>1, Zenon DEF InRound
    <3> QED
      BY <1>4, <1>7, <2>1, <2>2, <3>2
  <2>3. CASE t = ")"
    <3>1. IsMark(t)
      BY <2>3, BracketsAreMarks, BracketsAre DEF Free
    <3>2. InRound(t) = IF Open.unclosed > 0 THEN Counted(-1) ELSE Popped
      BY <2>3, <3>1, Zenon DEF InRound
    <3> QED
      BY <1>1, <1>2, <1>4, <1>5, <1>7, <2>1, <2>3, <3>2
  <2>4. CASE t # "(" /\ t # ")"
    <3>1. ~IsMark(t) \/ t \in {"*", ","} \/ Ended(t)
      BY <2>1, <2>4, Zenon DEF InRound, Ended
    <3>2. InRound(t) = skipping
      BY <2>1, <2>4, Zenon DEF InRound
    <3>3. Free(t)
      BY <3>1, BracketsAreMarks, EndIsMark, BracketsAre, Zenon DEF Free, LBrace, RBrace
    <3> QED
      BY <2>1, <3>2, <3>3
  <2> QED
    BY <2>2, <2>3, <2>4
<1> QED
  BY <1>6, <1>7 DEF IsContext, Inner

------------------------------------------------------------------------------
\* The curly brackets open in a statement.
Curly(n) == { i \in 1 .. Len(n) : n[i] = RBrace }
Count(n) == Cardinality(Curly(n))

LEMMA CountType == ASSUME NEW n \in Seq(Closing) PROVE IsFiniteSet(Curly(n)) /\ Count(n) \in Nat
<1>1. IsFiniteSet(1 .. Len(n)) /\ Curly(n) \in SUBSET (1 .. Len(n))
  BY FS_Interval DEF Curly
<1>2. IsFiniteSet(Curly(n))
  BY <1>1, FS_Subset
<1> QED
  BY <1>2, FS_CardinalityType DEF Count

LEMMA CountAppend ==
  ASSUME NEW n \in Seq(Closing), NEW c \in Closing
  PROVE  /\ Append(n, c) \in Seq(Closing)
         /\ Count(Append(n, c)) = IF c = RBrace THEN Count(n) + 1 ELSE Count(n)
<1> DEFINE m == Append(n, c)
<1>1. m \in Seq(Closing) /\ Len(m) = Len(n) + 1 /\ m[Len(n) + 1] = c /\ \A i \in 1 .. Len(n) : m[i] = n[i]
  OBVIOUS
<1>2. CASE c = RBrace
  <2>1. Curly(m) = Curly(n) \cup {Len(n) + 1}
    BY <1>1, <1>2 DEF Curly
  <2>2. Len(n) + 1 \notin Curly(n)
    BY DEF Curly
  <2> QED
    BY <1>1, <1>2, <2>1, <2>2, CountType, FS_AddElement DEF Count
<1>3. CASE c # RBrace
  <2>1. Curly(m) = Curly(n)
    BY <1>1, <1>3 DEF Curly
  <2> QED
    BY <1>1, <1>3, <2>1 DEF Count
<1> QED
  BY <1>2, <1>3

LEMMA CountFront ==
  ASSUME NEW n \in Seq(Closing), n # <<>>
  PROVE  /\ Front(n) \in Seq(Closing) /\ Len(Front(n)) = Len(n) - 1
         /\ \A i \in 1 .. Len(n) - 1 : Front(n)[i] = n[i]
         /\ Count(Front(n)) = IF Last(n) = RBrace THEN Count(n) - 1 ELSE Count(n)
<1> DEFINE m == Front(n)
<1>1. Last(n) = n[Len(n)] /\ Len(n) \in Nat \ {0}
  BY DEF Last
<1>2. m \in Seq(Closing) /\ Len(m) = Len(n) - 1 /\ \A i \in 1 .. Len(n) - 1 : m[i] = n[i]
  <2>1. Len(n) - 1 \in Int /\ \A i \in 1 .. Len(n) - 1 : n[i] \in Closing
    BY <1>1
  <2>2. /\ m \in Seq(Closing)
        /\ Len(m) = IF 1 <= Len(n) - 1 THEN Len(n) - 1 - 1 + 1 ELSE 0
        /\ \A i \in 1 .. Len(n) - 1 - 1 + 1 : m[i] = n[1 + i - 1]
    BY <2>1, SubSeqProperties DEF Front
  <2> HIDE DEF m
  <2>3. Len(m) = Len(n) - 1
    <3>1. \A k \in Nat \ {0} : (IF 1 <= k - 1 THEN k - 1 - 1 + 1 ELSE 0) = k - 1
      OBVIOUS
    <3> QED
      BY <1>1, <2>2, <3>1
  <2>4. ASSUME NEW i \in 1 .. Len(n) - 1 PROVE m[i] = n[i]
    <3>1. i \in 1 .. Len(n) - 1 - 1 + 1 /\ 1 + i - 1 = i
      BY <1>1
    <3>2. m[i] = n[1 + i - 1]
      BY <2>2, <3>1
    <3> QED
      BY <3>1, <3>2
  <2> QED
    BY <2>2, <2>3, <2>4
<1>3. CASE Last(n) = RBrace
  <2>1. Curly(m) = Curly(n) \ {Len(n)}
    BY <1>1, <1>2, <1>3 DEF Curly
  <2>2. Len(n) \in 1 .. Len(n) /\ n[Len(n)] = RBrace
    BY <1>1, <1>3
  <2>3. Len(n) \in Curly(n)
    BY <2>2 DEF Curly
  <2> QED
    BY <1>1, <1>2, <1>3, <2>1, <2>3, CountType, FS_RemoveElement DEF Count
<1>4. CASE Last(n) # RBrace
  <2>1. Curly(m) = Curly(n)
    BY <1>1, <1>2, <1>4 DEF Curly
  <2> QED
    BY <1>1, <1>2, <1>4, <2>1 DEF Count
<1> QED
  BY <1>1, <1>2, <1>3, <1>4

\* If the first bracket is a curly one, the last too, and there is no other, they are one.
LEMMA CountOne ==
  ASSUME NEW n \in Seq(Closing), n # <<>>, n[1] = RBrace, Last(n) = RBrace, Count(n) = 1
  PROVE  Len(n) = 1
<1>1. PICK x : Curly(n) = {x}
  BY CountType, FS_Singleton DEF Count
<1>2. 1 \in Curly(n) /\ Len(n) \in Curly(n)
  BY DEF Curly, Last
<1> QED
  BY <1>1, <1>2

LEMMA CountEmpty == ASSUME NEW n \in Seq(Closing), Len(n) = 0 PROVE Count(n) = 0
<1>1. Curly(n) = {}
  BY DEF Curly
<1> QED
  BY <1>1, FS_EmptySet DEF Count

LEMMA CountSingle == Count(<<RBrace>>) = 1
<1>1. Curly(<<RBrace>>) = {1}
  BY DEF Curly
<1> QED
  BY <1>1, FS_Singleton DEF Count

------------------------------------------------------------------------------
\* The brackets open for C, and what cc() and post/skip.c have of them.
RoundAs(c, n) == c.state = "ROUND_BRACKETS" /\ n \in Seq({")"}) /\ Len(n) = c.unclosed + 1
CurlyAs(c, n) == c.state = "CURLY_BRACKETS" /\ n # <<>> /\ n[1] = RBrace /\ Count(n) = c.unclosed + 1
SkipAs(stack, n) ==
  \/ \E a : IsOuter(a) /\ a.state # "INITIAL" /\ stack = <<a>> /\ n = <<>>
  \/ \E a, b : /\ IsOuter(a) /\ a.state # "INITIAL" /\ IsContext(b, Inner) /\ stack = <<a, b>>
               /\ RoundAs(b, n) \/ CurlyAs(b, n)
AsmNest == <<")">>
OpenAs(state, stack, n) ==
  \/ state \in {0, 1, 3} /\ stack = Idle /\ n = <<>>
  \/ state = 2 /\ stack = Idle /\ n = AsmNest
  \/ state = 4 /\ SkipAs(stack, n)

EndsInv ==
  matched /\ ~given_up =>
    /\ nest \in Seq(Closing) /\ OpenAs(cc_state, skipping, nest)
    /\ between <=> cc_state = 0

LEMMA AfterIs ==
  ASSUME NEW n, NEW t
  PROVE  /\ Free(t) => After(n, t) = n
         /\ t \in DOMAIN Opening => After(n, t) = Append(n, Opening[t])
         /\ t \in Closing /\ n # <<>> => After(n, t) = Front(n)
<1>1. t \in Closing => t \notin DOMAIN Opening
  BY BracketsAre
<1> QED
  BY <1>1 DEF After, Free

LEMMA CountedIs ==
  ASSUME NEW b, IsContext(b, Inner), NEW u \in Nat
  PROVE  LET c == [b EXCEPT !.unclosed = u]
         IN  IsContext(c, Inner) /\ c.state = b.state /\ c.unclosed = u
BY DEF IsContext

\* A token in brackets keeps the number of them.
LEMMA NestedStep ==
  ASSUME NEW t, NEW a, NEW b, IsOuter(a), a.state # "INITIAL", IsContext(b, Inner), skipping = <<a, b>>,
         Skipped(t) # <<>>, nest \in Seq(Closing), RoundAs(b, nest) \/ CurlyAs(b, nest), Fitting(nest, t)
  PROVE  After(nest, t) \in Seq(Closing) /\ SkipAs(Skipped(t), After(nest, t))
<1> DEFINE n == After(nest, t)
<1>1. b.unclosed \in Nat /\ b.state \in Inner
  BY DEF IsContext
<1>2. CASE RoundAs(b, nest)
  <2>1. \A i \in 1 .. Len(nest) : nest[i] = ")"
    BY <1>2 DEF RoundAs
  <2>2. nest # <<>> /\ Last(nest) = ")"
    BY <1>1, <1>2, <2>1 DEF RoundAs, Last
  <2>3. CASE Free(t) /\ Skipped(t) = skipping
    <3>1. n = nest
      BY <2>3 DEF After, Free
    <3> QED
      BY <1>2, <2>3, <3>1 DEF SkipAs
  <2>4. CASE t = "(" /\ Skipped(t) = <<a, [b EXCEPT !.unclosed = @ + 1]>>
    <3>1. n = Append(nest, ")")
      BY <2>4, AfterIs, BracketsAre, OpeningIs
    <3>2. n \in Seq({")"}) /\ Len(n) = Len(nest) + 1
      BY <1>2, <3>1 DEF RoundAs
    <3>3. n \in Seq(Closing) /\ b.unclosed + 1 \in Nat
      BY <1>1, <3>1, BracketsAre
    <3>4. LET c == [b EXCEPT !.unclosed = b.unclosed + 1]
          IN  IsContext(c, Inner) /\ RoundAs(c, n)
      BY <1>2, <3>2, <3>3, CountedIs DEF RoundAs
    <3> QED
      BY <2>4, <3>3, <3>4 DEF SkipAs
  <2>5. CASE t = ")" /\ b.unclosed > 0 /\ Skipped(t) = <<a, [b EXCEPT !.unclosed = @ - 1]>>
    <3>1. n = Front(nest)
      BY <2>2, <2>5, AfterIs, BracketsAre
    <3>2. n \in Seq({")"}) /\ Len(n) = Len(nest) - 1
      <4>1. n \in Seq(Closing) /\ Len(n) = Len(nest) - 1 /\ \A i \in 1 .. Len(nest) - 1 : n[i] = nest[i]
        BY <2>2, <3>1, CountFront
      <4>2. \A i \in 1 .. Len(nest) - 1 : nest[i] = ")"
        BY <2>1
      <4> HIDE DEF n
      <4>3. \A i \in 1 .. Len(n) : n[i] = ")"
        BY <4>1, <4>2
      <4> QED
        BY <4>1, <4>3
    <3>3. n \in Seq(Closing) /\ b.unclosed - 1 \in Nat
      BY <1>1, <2>2, <2>5, <3>1, CountFront
    <3>4. LET c == [b EXCEPT !.unclosed = b.unclosed - 1]
          IN  IsContext(c, Inner) /\ RoundAs(c, n)
      BY <1>1, <1>2, <3>2, <3>3, CountedIs DEF RoundAs
    <3> QED
      BY <2>5, <3>3, <3>4 DEF SkipAs
  <2>6. CASE t = ")" /\ b.unclosed = 0 /\ Skipped(t) = <<a>>
    <3>1. n = Front(nest)
      BY <2>2, <2>6, AfterIs, BracketsAre
    <3>2. n \in Seq(Closing) /\ Len(n) = 0
      BY <1>2, <2>2, <2>6, <3>1, CountFront DEF RoundAs
    <3> QED
      BY <2>6, <3>2 DEF SkipAs
  <2> QED
    BY <1>2, <2>3, <2>4, <2>5, <2>6, NestedToken DEF RoundAs
<1>3. CASE CurlyAs(b, nest)
  <2>1. nest[1] = RBrace /\ nest # <<>> /\ Count(nest) = b.unclosed + 1 /\ Len(nest) \in Nat \ {0}
    BY <1>3 DEF CurlyAs
  <2>2. ASSUME n # <<>>, n[1] = RBrace, NEW u \in Nat, Count(n) = u + 1,
               Skipped(t) = <<a, [b EXCEPT !.unclosed = u]>>
        PROVE  SkipAs(Skipped(t), n)
    <3>1. LET c == [b EXCEPT !.unclosed = u] IN IsContext(c, Inner) /\ CurlyAs(c, n)
      BY <1>3, <2>2, CountedIs DEF CurlyAs
    <3> QED
      BY <2>2, <3>1 DEF SkipAs
  <2>3. CASE Free(t) /\ Skipped(t) = skipping
    <3>1. n = nest
      BY <2>3, AfterIs
    <3> QED
      BY <1>3, <2>3, <3>1 DEF SkipAs
  <2>4. CASE t \in {"(", "["} /\ Skipped(t) = skipping
    <3>1. PICK c \in Closing : c # RBrace /\ n = Append(nest, c)
      BY <2>4, AfterIs, BracketsAre, OpeningIs
    <3>2. n \in Seq(Closing) /\ Count(n) = Count(nest) /\ n # <<>> /\ n[1] = RBrace
      BY <2>1, <3>1, CountAppend
    <3> QED
      BY <1>3, <2>4, <3>2 DEF SkipAs, CurlyAs
  <2>5. CASE t \in {")", "]"} /\ Skipped(t) = skipping
    <3>1. n = Front(nest) /\ Last(nest) = t /\ t # RBrace
      BY <2>1, <2>5, AfterIs, BracketsAre DEF Fitting
    <3>2. Len(nest) # 1
      BY <2>1, <3>1 DEF Last
    <3>3. n \in Seq(Closing) /\ Count(n) = Count(nest) /\ Len(n) = Len(nest) - 1
      BY <2>1, <3>1, CountFront
    <3>4. n # <<>> /\ n[1] = RBrace
      BY <2>1, <3>1, <3>2, <3>3, CountFront
    <3> QED
      BY <1>3, <2>5, <3>3, <3>4 DEF SkipAs, CurlyAs
  <2>6. CASE t = LBrace /\ Skipped(t) = <<a, [b EXCEPT !.unclosed = @ + 1]>>
    <3>1. n = Append(nest, RBrace) /\ RBrace \in Closing
      BY <2>6, AfterIs, BracketsAre, OpeningIs
    <3>2. n \in Seq(Closing) /\ Count(n) = Count(nest) + 1 /\ n # <<>> /\ n[1] = RBrace
      BY <2>1, <3>1, CountAppend
    <3>3. b.unclosed + 1 \in Nat /\ Count(n) = b.unclosed + 1 + 1
      BY <1>1, <2>1, <3>2
    <3>4. Skipped(t) = <<a, [b EXCEPT !.unclosed = b.unclosed + 1]>>
      BY <2>6
    <3>5. SkipAs(Skipped(t), n)
      BY <2>2, <3>2, <3>3, <3>4
    <3> QED
      BY <3>2, <3>5
  <2>7. CASE t = RBrace /\ b.unclosed > 0 /\ Skipped(t) = <<a, [b EXCEPT !.unclosed = @ - 1]>>
    <3>1. n = Front(nest) /\ Last(nest) = RBrace
      BY <2>1, <2>7, AfterIs, BracketsAre DEF Fitting
    <3>2. n \in Seq(Closing) /\ Count(n) = Count(nest) - 1 /\ Len(n) = Len(nest) - 1
      BY <2>1, <3>1, CountFront
    <3>3. Len(nest) # 1
      <4>1. ASSUME Len(nest) = 1 PROVE Count(n) = 0
        <5> HIDE DEF n
        <5>1. n \in Seq(Closing) /\ Len(n) = 0
          BY <3>2, <4>1
        <5> QED
          BY <5>1, CountEmpty
      <4>2. Count(n) = b.unclosed
        BY <1>1, <2>1, <3>2
      <4> QED
        BY <2>7, <4>1, <4>2
    <3>4. n # <<>> /\ n[1] = RBrace
      BY <2>1, <3>1, <3>2, <3>3, CountFront
    <3>5. b.unclosed - 1 \in Nat /\ Count(n) = b.unclosed - 1 + 1
      BY <1>1, <2>1, <2>7, <3>2
    <3>6. Skipped(t) = <<a, [b EXCEPT !.unclosed = b.unclosed - 1]>>
      BY <2>7
    <3>7. SkipAs(Skipped(t), n)
      BY <2>2, <3>4, <3>5, <3>6
    <3> QED
      BY <3>2, <3>7
  <2>8. CASE t = RBrace /\ b.unclosed = 0 /\ Skipped(t) = <<a>>
    <3>1. n = Front(nest) /\ Last(nest) = RBrace
      BY <2>1, <2>8, AfterIs, BracketsAre DEF Fitting
    <3>2. Len(nest) = 1
      BY <2>1, <2>8, <3>1, CountOne
    <3>3. n \in Seq(Closing) /\ Len(n) = 0
      BY <2>1, <3>1, <3>2, CountFront
    <3>4. n = <<>>
      BY <3>3
    <3> QED
      BY <2>8, <3>3, <3>4 DEF SkipAs
  <2> QED
    BY <1>3, <2>3, <2>4, <2>5, <2>6, <2>7, <2>8, NestedToken DEF CurlyAs
<1> QED
  BY <1>2, <1>3

\* The first words of a statement, and the words of a declaration.
LEMMA FlatStep ==
  ASSUME NEW t, NEW a, IsOuter(a), skipping = <<a>>, Skipped(t) # <<>>, nest = <<>>, Fitting(nest, t)
  PROVE  /\ After(nest, t) \in Seq(Closing)
         /\ \/ Ended(t) /\ Skipped(t) = Idle /\ After(nest, t) = <<>>
            \/ ~Ended(t) /\ SkipAs(Skipped(t), After(nest, t))
<1>1. CASE Ended(t) /\ Skipped(t) = Idle
  <2>1. <<>> \in Seq(Closing) /\ After(nest, t) = <<>>
    BY <1>1, EndIsMark, AfterIs
  <2> QED
    BY <1>1, <2>1
<1>2. ASSUME Free(t), ~Ended(t), NEW c, IsOuter(c), c.state # "INITIAL", Skipped(t) = <<c>>
      PROVE  /\ After(nest, t) \in Seq(Closing)
             /\ ~Ended(t) /\ SkipAs(Skipped(t), After(nest, t))
  <2>1. <<>> \in Seq(Closing) /\ After(nest, t) = <<>>
    BY <1>2, AfterIs
  <2> QED
    BY <1>2, <2>1 DEF SkipAs
<1>3. \A u : Ended(u) => u \notin {"(", LBrace}
  BY EndIsMark, BracketsAre DEF Free
<1>4. CASE a.state # "INITIAL" /\ t = "(" /\ Skipped(t) = <<a, Context("ROUND_BRACKETS")>>
  <2>1. After(nest, t) = <<")">>
    BY <1>4, AfterIs, BracketsAre, OpeningIs
  <2>2. IsContext(Context("ROUND_BRACKETS"), Inner) /\ RoundAs(Context("ROUND_BRACKETS"), <<")">>)
    BY DEF IsContext, Context, Inner, RoundAs
  <2>3. <<")">> \in Seq(Closing)
    BY BracketsAre
  <2> QED
    BY <1>3, <1>4, <2>1, <2>2, <2>3 DEF SkipAs
<1>5. CASE a.state # "INITIAL" /\ t = LBrace /\ Skipped(t) = <<a, Context("CURLY_BRACKETS")>>
  <2>1. After(nest, t) = <<RBrace>>
    BY <1>5, AfterIs, BracketsAre, OpeningIs
  <2>2. IsContext(Context("CURLY_BRACKETS"), Inner) /\ CurlyAs(Context("CURLY_BRACKETS"), <<RBrace>>)
    BY CountSingle DEF IsContext, Context, Inner, CurlyAs
  <2>3. <<RBrace>> \in Seq(Closing)
    BY BracketsAre
  <2> QED
    BY <1>3, <1>5, <2>1, <2>2, <2>3 DEF SkipAs
<1> QED
  BY <1>1, <1>2, <1>4, <1>5, FlatToken

LEMMA EndsInit == InitDriver => EndsInv
<1>1. InitDriver => nest = <<>> /\ cc_state = 0 /\ between = TRUE /\ skipping = Idle
  BY DEF InitDriver, InitStatements
<1> QED
  BY <1>1 DEF EndsInv, OpenAs

LEMMA EndsKept == ASSUME EndsInv, UNCHANGED <<ccVars, nest, between, matched>> PROVE EndsInv'
<1>1. UNCHANGED <<cc_state, skipping, given_up, nest, between, matched>>
  BY DEF ccVars
<1> QED
  BY <1>1 DEF EndsInv, OpenAs, SkipAs, RoundAs, CurlyAs, Idle

\* A token of C.
LEMMA EndsToken ==
  ASSUME EndsInv, NEW t, Token(t), nest' = After(nest, t), matched, Fitting(nest, t), ~given_up'
  PROVE  nest' \in Seq(Closing) /\ OpenAs(cc_state', skipping', nest') /\ (Ended(t) /\ nest = <<>> <=> cc_state' = 0)
<1>1. ~given_up
  BY DEF Token
<1>2. nest \in Seq(Closing) /\ OpenAs(cc_state, skipping, nest)
  BY <1>1 DEF EndsInv
<1>3. AsmNest \in Seq(Closing) /\ <<>> \in Seq(Closing)
  BY BracketsAre DEF AsmNest
<1>4. CASE AsmBegin(t)
  <2>1. cc_state = 0 /\ cc_state' = 1 /\ skipping' = skipping /\ t = "__asm__"
    BY <1>4 DEF AsmBegin, To
  <2>2. nest = <<>> /\ skipping = Idle /\ nest' = nest /\ ~Ended(t)
    BY <1>2, <2>1, AfterIs, WordsAreFree DEF OpenAs
  <2>3. OpenAs(cc_state', skipping', nest')
    BY <2>1, <2>2 DEF OpenAs
  <2>4. ~Ended(t) /\ cc_state' # 0
    BY <2>1, <2>2
  <2>5. nest' \in Seq(Closing)
    BY <1>2, <2>2
  <2> QED
    BY <2>3, <2>4, <2>5, Zenon
<1>5. CASE AsmOpen(t)
  <2>1. cc_state = 1 /\ cc_state' = 2 /\ skipping' = skipping /\ t = "("
    BY <1>5 DEF AsmOpen, To
  <2>2. nest = <<>> /\ skipping = Idle /\ nest' = AsmNest
    <3>1. nest = <<>> /\ skipping = Idle
      BY <1>2, <2>1 DEF OpenAs
    <3>2. nest' = Append(nest, ")")
      BY <2>1, AfterIs, BracketsAre, OpeningIs
    <3> QED
      BY <3>1, <3>2 DEF AsmNest
  <2>3. ~Ended(t)
    BY <2>1, EndIsMark, BracketsAre DEF Free
  <2> QED
    BY <1>3, <2>1, <2>2, <2>3 DEF OpenAs
<1>6. CASE AsmClose(t)
  <2>1. cc_state = 2 /\ cc_state' = 3 /\ skipping' = skipping /\ t = ")"
    BY <1>6 DEF AsmClose, To
  <2>2. nest = AsmNest /\ skipping = Idle
    BY <1>2, <2>1 DEF OpenAs
  <2>3. nest' = Front(nest)
    BY <2>1, <2>2, AfterIs, BracketsAre DEF AsmNest
  <2>4. nest' = <<>>
    BY <2>2, <2>3 DEF Front, AsmNest
  <2>5. ~Ended(t)
    BY <2>1, EndIsMark, BracketsAre DEF Free
  <2>6. OpenAs(cc_state', skipping', nest')
    BY <2>1, <2>2, <2>4 DEF OpenAs
  <2>7. cc_state' # 0
    BY <2>1
  <2>8. nest' \in Seq(Closing)
    BY <1>3, <2>4
  <2> QED
    BY <2>5, <2>6, <2>7, <2>8, Zenon
<1>7. CASE AsmEnd(t)
  <2>1. cc_state = 3 /\ To(0) /\ Ended(t)
    BY <1>7, Zenon DEF AsmEnd, Ended
  <2>2. cc_state' = 0 /\ skipping' = skipping
    BY <2>1 DEF To
  <2>3. nest = <<>> /\ skipping = Idle /\ nest' = nest
    BY <1>2, <2>1, AfterIs, EndIsMark DEF OpenAs
  <2> QED
    BY <1>3, <2>1, <2>2, <2>3 DEF OpenAs
<1>8. CASE AsmText(t)
  <2>1. cc_state = 2 /\ cc_state' = cc_state /\ skipping' = skipping /\ t \in Strings
    BY <1>8 DEF AsmText
  <2>2. nest' = nest /\ ~Ended(t)
    BY <2>1, AfterIs, StringsAreFree
  <2> QED
    BY <1>2, <2>1, <2>2 DEF OpenAs
<1>9. ~AsmUnexpected(t)
  BY DEF AsmUnexpected, GiveUp
<1>10. CASE SkipToken(t)
  <2>1. Skipped(t) # <<>> /\ skipping' = Skipped(t) /\ (cc_state = 0 \/ cc_state = 4)
    BY <1>10 DEF SkipToken, GiveUp
  <2>2. cc_state' = IF Last(Skipped(t)).state = "INITIAL" THEN 0 ELSE 4
    BY <1>10, <2>1 DEF SkipToken
  <2>3. Last(Idle).state = "INITIAL"
    BY DEF Idle, Context, Last
  <2>4. ASSUME SkipAs(Skipped(t), nest') PROVE cc_state' = 4
    <3>1. ASSUME NEW a, a.state # "INITIAL", Skipped(t) = <<a>> PROVE Last(Skipped(t)).state # "INITIAL"
      BY <3>1 DEF Last
    <3>2. ASSUME NEW a, NEW b, IsContext(b, Inner), Skipped(t) = <<a, b>> PROVE Last(Skipped(t)).state # "INITIAL"
      BY <3>2 DEF Last, IsContext, Inner
    <3> QED
      BY <2>2, <2>4, <3>1, <3>2 DEF SkipAs
  <2>5. ASSUME NEW a, IsOuter(a), skipping = <<a>>, nest = <<>>
        PROVE  nest' \in Seq(Closing) /\ OpenAs(cc_state', skipping', nest') /\ (Ended(t) /\ nest = <<>> <=> cc_state' = 0)
    <3>1. /\ nest' \in Seq(Closing)
          /\ \/ Ended(t) /\ Skipped(t) = Idle /\ nest' = <<>>
             \/ ~Ended(t) /\ SkipAs(Skipped(t), nest')
      BY <1>1, <2>1, <2>5, FlatStep
    <3>2. CASE Ended(t) /\ Skipped(t) = Idle /\ nest' = <<>>
      BY <2>1, <2>2, <2>3, <2>5, <3>1, <3>2 DEF OpenAs
    <3>3. CASE ~Ended(t) /\ SkipAs(Skipped(t), nest')
      BY <2>1, <2>4, <3>1, <3>3 DEF OpenAs
    <3> QED
      BY <3>1, <3>2, <3>3
  <2>6. ASSUME NEW a, NEW b, IsOuter(a), a.state # "INITIAL", IsContext(b, Inner), skipping = <<a, b>>,
               RoundAs(b, nest) \/ CurlyAs(b, nest)
        PROVE  nest' \in Seq(Closing) /\ OpenAs(cc_state', skipping', nest') /\ (Ended(t) /\ nest = <<>> <=> cc_state' = 0)
    <3>1. nest' \in Seq(Closing) /\ SkipAs(Skipped(t), nest')
      BY <1>1, <1>2, <2>1, <2>6, NestedStep
    <3>2. nest # <<>>
      BY <2>6 DEF RoundAs, CurlyAs, IsContext
    <3> QED
      BY <2>1, <2>4, <3>1, <3>2 DEF OpenAs
  <2>7. CASE cc_state = 0
    <3>1. skipping = <<Context("INITIAL")>> /\ nest = <<>>
      BY <1>2, <2>7 DEF OpenAs, Idle
    <3>2. IsOuter(Context("INITIAL"))
      BY DEF IsOuter, IsContext, Context, Outer
    <3> QED
      BY <2>5, <3>1, <3>2
  <2>8. CASE cc_state = 4
    BY <1>2, <2>5, <2>6, <2>8 DEF OpenAs, SkipAs
  <2> QED
    BY <2>1, <2>7, <2>8
<1> QED
  BY <1>4, <1>5, <1>6, <1>7, <1>8, <1>9, <1>10 DEF Token

LEMMA EndsStep == ASSUME EndsInv, [NextDriver]_driverVars PROVE EndsInv'
<1>1. CASE CompileToken
  <2>1. PICK t : /\ Token(t)
                 /\ nest' = After(nest, t)
                 /\ matched' = (matched /\ Fitting(nest, t))
                 /\ between' = (Ended(t) /\ nest = <<>>)
    BY <1>1, CompileIs
  <2>2. ASSUME matched', ~given_up'
        PROVE  /\ nest' \in Seq(Closing) /\ OpenAs(cc_state', skipping', nest')
               /\ Ended(t) /\ nest = <<>> <=> cc_state' = 0
    <3>1. matched /\ Fitting(nest, t)
      BY <2>1, <2>2, Zenon
    <3> QED
      BY <2>1, <2>2, <3>1, EndsToken
  <2>3. between' <=> Ended(t) /\ nest = <<>>
    BY <2>1, Zenon
  <2>4. Idle' = Idle
    BY DEF Idle, Context
  <2> QED
    BY <2>2, <2>3, <2>4 DEF EndsInv, OpenAs, SkipAs, RoundAs, CurlyAs
<1>2. CASE UNCHANGED <<ccVars, nest, between, matched>>
  BY <1>2, EndsKept
<1> QED
  BY <1>1, <1>2, StepCases

\* cc() and post/skip.c find the end of a statement at the first semicolon outside
\* of its brackets: s_cc_state (as-.py:195) is 0 behind it and nowhere else, for every
\* source with matching brackets.
THEOREM StatementsEndHolds == SpecDriver => []StatementsEnd
<1>1. EndsInv => StatementsEnd
  BY DEF EndsInv, StatementsEnd
<1> QED
  BY <1>1, EndsInit, EndsStep, PTL DEF SpecDriver
=============================================================================
