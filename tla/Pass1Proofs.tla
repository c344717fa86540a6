----------------------------- MODULE Pass1Proofs -----------------------------
(***************************************************************************)
(* Proofs about pass 1, for sources of any length over any labels, and for *)
(* any limits on the length and the number of fragments.                   *)
(***************************************************************************)
EXTENDS Pass1, FiniteSums

USE NoneAssumption, LimitsAssumption, SourceAssumption

LEMMA NewFragmentType == \A s \in Segments : NewFragment(s) \in Fragment
BY DEF NewFragment, Fragment, RelTypes, JmpLens

\* Either the open fragment is reused, or a new one follows those there are.
LEMMA EnsuredFresh ==
  ASSUME FragsTypeOK, NEW s \in Segments, ~Reuses(frags, s)
  PROVE  /\ Ensured(s) = [pieces |-> Append(frags.pieces, NewFragment(s)), open |-> TRUE]
         /\ Append(frags.pieces, NewFragment(s)) \in Seq(Fragment)
         /\ EnsuredId(s) = Len(frags.pieces) + 1
         /\ EnsuredLen(s) = 0
<1>1. Ensured(s) = [pieces |-> Append(frags.pieces, NewFragment(s)), open |-> TRUE]
  BY DEF Ensured, Ensure, BeginAppending
<1>2. frags.pieces \in Seq(Fragment) /\ NewFragment(s) \in Fragment
  BY NewFragmentType DEF FragsTypeOK, FragsOK
<1>3. EnsuredId(s) = Len(frags.pieces) + 1
  BY <1>1, <1>2 DEF EnsuredId
<1>4. EnsuredLen(s) = NewFragment(s).objLen
  BY <1>1, <1>2, <1>3 DEF EnsuredLen
<1> QED
  BY <1>1, <1>2, <1>3, <1>4 DEF NewFragment

LEMMA EnsuredReused ==
  ASSUME FragsTypeOK, NEW s \in Segments, Reuses(frags, s)
  PROVE  LET n == Len(frags.pieces)
             g == [frags.pieces[n] EXCEPT !.seg = s] IN
         /\ n \in DOMAIN frags.pieces /\ frags.open
         /\ g \in Fragment
         /\ Ensured(s) = [pieces |-> [frags.pieces EXCEPT ![n] = g], open |-> TRUE]
         /\ [frags.pieces EXCEPT ![n] = g] \in Seq(Fragment)
         /\ EnsuredId(s) = n
         /\ EnsuredLen(s) = frags.pieces[n].objLen
         /\ frags.pieces[n].seg = s \/ frags.pieces[n].objLen = 0
<1> DEFINE n == Len(frags.pieces)
           f == frags.pieces[n]
           g == [f EXCEPT !.seg = s]
<1>1. frags.open /\ (f.seg = s \/ f.objLen = 0)
  BY DEF Reuses, GetAppending
<1>2. /\ frags.pieces \in Seq(Fragment) /\ n \in DOMAIN frags.pieces
      /\ f \in Fragment /\ frags.open = TRUE
  BY <1>1 DEF FragsTypeOK, FragsOK
<1>3. Ensured(s) = With(frags, n, g)
  BY DEF Ensured, Ensure, SetSegId
<1>4. g \in Fragment /\ g.objLen = f.objLen
  BY <1>2 DEF Fragment
<1>5. Ensured(s) = [pieces |-> [frags.pieces EXCEPT ![n] = g], open |-> TRUE]
  BY <1>2, <1>3 DEF With
<1>6. /\ [frags.pieces EXCEPT ![n] = g] \in Seq(Fragment)
      /\ Len([frags.pieces EXCEPT ![n] = g]) = n
      /\ [frags.pieces EXCEPT ![n] = g][n] = g
  BY <1>2, <1>4
<1>7. EnsuredId(s) = n
  BY <1>5, <1>6 DEF EnsuredId
<1>8. EnsuredLen(s) = f.objLen
  BY <1>4, <1>5, <1>6, <1>7 DEF EnsuredLen
<1> QED
  BY <1>1, <1>2, <1>4, <1>5, <1>6, <1>7, <1>8

\* What every statement may rely on, whichever of the two happened.
Pieces(s) == Ensured(s).pieces

LEMMA EnsuredType ==
  ASSUME FragsTypeOK, NEW s \in Segments
  PROVE  /\ Ensured(s) = [pieces |-> Pieces(s), open |-> TRUE]
         /\ Pieces(s) \in Seq(Fragment)
         /\ EnsuredId(s) \in DOMAIN Pieces(s)
         /\ EnsuredId(s) = Len(Pieces(s))
         /\ EnsuredLen(s) \in 0 .. ObjLenMax
         /\ Pieces(s)[EnsuredId(s)].objLen = EnsuredLen(s)
         /\ Pieces(s)[EnsuredId(s)].seg = s
<1>1. CASE Reuses(frags, s)
  <2> DEFINE n == Len(frags.pieces)
             g == [frags.pieces[n] EXCEPT !.seg = s]
  <2>1. /\ Ensured(s) = [pieces |-> [frags.pieces EXCEPT ![n] = g], open |-> TRUE]
        /\ [frags.pieces EXCEPT ![n] = g] \in Seq(Fragment)
        /\ frags.pieces \in Seq(Fragment)
        /\ n \in DOMAIN frags.pieces /\ EnsuredId(s) = n
        /\ g \in Fragment
    BY <1>1, EnsuredReused DEF FragsTypeOK, FragsOK
  <2>2. Pieces(s) = [frags.pieces EXCEPT ![n] = g]
    BY <2>1 DEF Pieces
  <2>3. Pieces(s)[n] = g /\ n = Len(Pieces(s)) /\ n \in DOMAIN Pieces(s)
    BY <2>1, <2>2
  <2>4. EnsuredLen(s) = g.objLen
    BY <2>1, <2>3 DEF EnsuredLen, Pieces
  <2>5. g.objLen \in 0 .. ObjLenMax /\ g.seg = s
    BY <2>1 DEF Fragment
  <2> QED
    BY <2>1, <2>2, <2>3, <2>4, <2>5
<1>2. CASE ~Reuses(frags, s)
  <2>1. /\ Ensured(s) = [pieces |-> Append(frags.pieces, NewFragment(s)), open |-> TRUE]
        /\ Append(frags.pieces, NewFragment(s)) \in Seq(Fragment)
        /\ frags.pieces \in Seq(Fragment)
        /\ EnsuredId(s) = Len(frags.pieces) + 1
        /\ EnsuredLen(s) = 0
    BY <1>2, EnsuredFresh DEF FragsTypeOK, FragsOK
  <2>2. Pieces(s) = Append(frags.pieces, NewFragment(s))
    BY <2>1 DEF Pieces
  <2>3. /\ Pieces(s)[EnsuredId(s)] = NewFragment(s)
        /\ EnsuredId(s) = Len(Pieces(s)) /\ EnsuredId(s) \in DOMAIN Pieces(s)
    BY <2>1, <2>2
  <2>4. NewFragment(s).objLen = 0 /\ NewFragment(s).seg = s
    BY DEF NewFragment
  <2> QED
    BY <2>1, <2>2, <2>3, <2>4
<1> QED
  BY <1>1, <1>2

\* A fragment that was there stays where it is, with its bytes and its jump;
\* only the last one may change its segment, if it is open and empty.
LEMMA EnsuredKeeps ==
  ASSUME FragsTypeOK, NEW s \in Segments, NEW i \in DOMAIN frags.pieces
  PROVE  LET f == frags.pieces[i]
             g == Pieces(s)[i] IN
         /\ i \in DOMAIN Pieces(s)
         /\ g.objLen = f.objLen /\ (HasJmp(g) <=> HasJmp(f))
         /\ g # f => frags.open /\ i = Len(frags.pieces) /\ (f.seg # s => f.objLen = 0)
         /\ f.objLen > 0 => g.seg = f.seg
<1>1. CASE Reuses(frags, s)
  <2> DEFINE n == Len(frags.pieces)
             g == [frags.pieces[n] EXCEPT !.seg = s]
  <2>1. /\ Ensured(s) = [pieces |-> [frags.pieces EXCEPT ![n] = g], open |-> TRUE]
        /\ frags.pieces \in Seq(Fragment) /\ frags.open
        /\ n \in DOMAIN frags.pieces
        /\ frags.pieces[n].seg = s \/ frags.pieces[n].objLen = 0
    BY <1>1, EnsuredReused DEF FragsTypeOK, FragsOK
  <2>2. Pieces(s) = [frags.pieces EXCEPT ![n] = g]
    BY <2>1 DEF Pieces
  <2>3. CASE i = n
    <3>1. Pieces(s)[i] = g /\ i \in DOMAIN Pieces(s)
      BY <2>1, <2>2, <2>3
    <3>2. frags.pieces[n] \in Fragment
      BY <2>1
    <3>3. /\ g.objLen = frags.pieces[n].objLen /\ g.seg = s
          /\ g.jmp8 = frags.pieces[n].jmp8 /\ g.jmp32 = frags.pieces[n].jmp32
      BY <3>2 DEF Fragment
    <3> QED
      BY <2>1, <2>3, <3>1, <3>2, <3>3 DEF HasJmp, Fragment
  <2>4. CASE i # n
    <3>1. Pieces(s)[i] = frags.pieces[i] /\ i \in DOMAIN Pieces(s)
      BY <2>1, <2>2, <2>4
    <3> QED
      BY <3>1
  <2> QED
    BY <2>3, <2>4
<1>2. CASE ~Reuses(frags, s)
  <2>1. Pieces(s) = Append(frags.pieces, NewFragment(s)) /\ frags.pieces \in Seq(Fragment)
    BY <1>2, EnsuredFresh DEF FragsTypeOK, FragsOK, Pieces
  <2>2. Pieces(s)[i] = frags.pieces[i] /\ i \in DOMAIN Pieces(s)
    BY <2>1
  <2> QED
    BY <2>2
<1> QED
  BY <1>1, <1>2

\* There is at most one more fragment.  If there is, it starts empty, and the
\* one before it is closed with a jump or with bytes.
LEMMA EnsuredLast ==
  ASSUME FragsTypeOK, CanEnsure, NEW s \in Segments
  PROVE  LET n == EnsuredId(s) IN
         \/ /\ n = Len(frags.pieces) /\ n \in DOMAIN frags.pieces /\ frags.open
            /\ EnsuredLen(s) = frags.pieces[n].objLen
         \/ /\ n = Len(frags.pieces) + 1 /\ EnsuredLen(s) = 0
            /\ ~HasJmp(Pieces(s)[n])
            /\ frags.open => frags.pieces[Len(frags.pieces)].objLen > 0
<1>1. CASE Reuses(frags, s)
  BY <1>1, EnsuredReused
<1>2. CASE ~Reuses(frags, s)
  <2>1. /\ Pieces(s) = Append(frags.pieces, NewFragment(s)) /\ frags.pieces \in Seq(Fragment)
        /\ EnsuredId(s) = Len(frags.pieces) + 1 /\ EnsuredLen(s) = 0
    BY <1>2, EnsuredFresh DEF FragsTypeOK, FragsOK, Pieces
  <2>2. Pieces(s)[EnsuredId(s)] = NewFragment(s)
    BY <2>1
  <2>3. ~HasJmp(NewFragment(s))
    BY DEF HasJmp, NewFragment
  <2>4. ASSUME frags.open
        PROVE  frags.pieces[Len(frags.pieces)].objLen > 0
    <3>1. GetAppending(frags) = Len(frags.pieces) /\ GetAppending(frags) # 0
      BY <2>4 DEF CanEnsure, GetAppending
    <3>2. frags.pieces[Len(frags.pieces)].objLen # 0
      BY <1>2, <3>1 DEF Reuses
    <3>3. Len(frags.pieces) \in DOMAIN frags.pieces
      BY <2>1, <2>4 DEF FragsTypeOK, FragsOK
    <3>4. frags.pieces[Len(frags.pieces)] \in Fragment
      BY <2>1, <3>3
    <3>5. frags.pieces[Len(frags.pieces)].objLen \in Nat
      BY <3>4 DEF Fragment
    <3> QED
      BY <3>2, <3>5
  <2> QED
    BY <2>1, <2>2, <2>3, <2>4
<1> QED
  BY <1>1, <1>2

------------------------------------------------------------------------------
(* The three things a statement may do to the fragments: make sure that one *)
(* is open, append bytes to it, or end it with a jump.                      *)

Sound(G, s, n) ==
  /\ FragsOK(G) /\ ShapeOf(G) /\ Settles(frags, G)
  /\ EnsuredId(s) = Len(G.pieces) /\ EnsuredId(s) \in DOMAIN G.pieces
  /\ G.pieces[EnsuredId(s)].objLen = n

LEMMA EnsureSound ==
  ASSUME FragsTypeOK, FragmentShape, CanEnsure, NEW s \in Segments
  PROVE  Sound(Ensured(s), s, EnsuredLen(s))
<1> DEFINE P == Pieces(s)
           n == EnsuredId(s)
<1>1. /\ Ensured(s) = [pieces |-> P, open |-> TRUE] /\ P \in Seq(Fragment)
      /\ n \in DOMAIN P /\ n = Len(P)
      /\ P[n].objLen = EnsuredLen(s)
  BY EnsuredType
<1>2. Ensured(s).pieces = P /\ Ensured(s).open = TRUE
  BY <1>1
<1>3. FragsOK(Ensured(s))
  BY <1>1, <1>2 DEF FragsOK
<1>4. ASSUME NEW i \in DOMAIN frags.pieces
      PROVE  /\ i \in DOMAIN P
             /\ P[i].objLen = frags.pieces[i].objLen
             /\ HasJmp(P[i]) <=> HasJmp(frags.pieces[i])
             /\ P[i] # frags.pieces[i] => frags.open /\ i = Len(frags.pieces)
             /\ frags.pieces[i].objLen > 0 => P[i].seg = frags.pieces[i].seg
  BY <1>4, EnsuredKeeps
<1>5. frags.pieces \in Seq(Fragment)
  BY DEF FragsTypeOK, FragsOK
<1>a. DOMAIN frags.pieces = 1 .. Len(frags.pieces) /\ Len(frags.pieces) \in Nat
  BY <1>5
<1>b. DOMAIN P = 1 .. n /\ n \in Nat
  BY <1>1
<1>6. ShapeOf(Ensured(s))
  <2> SUFFICES ASSUME NEW i \in DOMAIN P
               PROVE  IF i < n THEN P[i].objLen > 0 \/ HasJmp(P[i]) ELSE ~HasJmp(P[i])
    BY <1>1, <1>2 DEF ShapeOf, Closed
  <2>1. CASE n = Len(frags.pieces) /\ frags.open
    <3>1. i \in DOMAIN frags.pieces
      BY <1>a, <1>b, <2>1
    <3>2. Closed(frags, i) <=> i < n
      BY <2>1 DEF Closed
    <3> QED
      BY <1>4, <3>1, <3>2 DEF FragmentShape, ShapeOf
  <2>2. CASE /\ n = Len(frags.pieces) + 1 /\ ~HasJmp(P[n])
             /\ frags.open => frags.pieces[Len(frags.pieces)].objLen > 0
    <3>1. CASE i = n
      BY <1>1, <2>2, <3>1
    <3>2. CASE i # n
      <4>1. i \in DOMAIN frags.pieces /\ i < n
        BY <1>a, <1>b, <2>2, <3>2
      <4>2. CASE Closed(frags, i)
        BY <1>4, <4>1, <4>2 DEF FragmentShape, ShapeOf
      <4>3. CASE ~Closed(frags, i)
        <5>1. ~(i < Len(frags.pieces)) /\ frags.open
          BY <4>3 DEF Closed
        <5> QED
          BY <1>4, <1>a, <2>2, <4>1, <5>1
      <4> QED
        BY <4>2, <4>3
    <3> QED
      BY <3>1, <3>2
  <2> QED
    BY <2>1, <2>2, EnsuredLast
<1>7. Settles(frags, Ensured(s))
  <2> SUFFICES ASSUME NEW i \in DOMAIN frags.pieces
               PROVE  /\ i \in DOMAIN P
                      /\ P[i].objLen >= frags.pieces[i].objLen
                      /\ Closed(frags, i) => P[i] = frags.pieces[i]
                      /\ frags.pieces[i].objLen > 0 => P[i].seg = frags.pieces[i].seg
    BY <1>2 DEF Settles
  <2>1. frags.pieces[i] \in Fragment
    BY <1>5
  <2>2. frags.pieces[i].objLen \in Nat
    BY <2>1 DEF Fragment
  <2>3. P[i].objLen >= frags.pieces[i].objLen
    BY <1>4, <2>2
  <2>4. Closed(frags, i) => P[i] = frags.pieces[i]
    BY <1>4, <1>5 DEF Closed
  <2> QED
    BY <1>4, <2>3, <2>4
<1> QED
  BY <1>1, <1>2, <1>3, <1>6, <1>7 DEF Sound

\* Bytes or a jump: the fragment made sure of becomes f, open or closed.
Replaced(s, f, open) == [pieces |-> [Pieces(s) EXCEPT ![EnsuredId(s)] = f], open |-> open]

LEMMA ReplaceSound ==
  ASSUME FragsTypeOK, FragmentShape, CanEnsure, NEW s \in Segments,
         NEW f \in Fragment, NEW b \in BOOLEAN,
         f.seg = s, f.objLen >= EnsuredLen(s),
         b => ~HasJmp(f),
         ~b => HasJmp(f)
  PROVE  Sound(Replaced(s, f, b), s, f.objLen)
<1> DEFINE P == Pieces(s)
           n == EnsuredId(s)
           Q == [P EXCEPT ![n] = f]
<1>1. /\ Ensured(s) = [pieces |-> P, open |-> TRUE] /\ P \in Seq(Fragment)
      /\ n \in DOMAIN P /\ n = Len(P)
      /\ P[n].objLen = EnsuredLen(s) /\ P[n].seg = s
  BY EnsuredType
<1>2. Ensured(s).pieces = P /\ Ensured(s).open = TRUE
  BY <1>1
<1>3. Sound(Ensured(s), s, EnsuredLen(s))
  BY EnsureSound
<1>4. /\ Q \in Seq(Fragment) /\ Len(Q) = n /\ DOMAIN Q = DOMAIN P /\ Q[n] = f
      /\ \A i \in DOMAIN P : i # n => Q[i] = P[i]
  BY <1>1
<1>5. Replaced(s, f, b).pieces = Q /\ Replaced(s, f, b).open = b
  BY DEF Replaced
<1>6. FragsOK(Replaced(s, f, b))
  <2>1. Len(Q) > 0
    BY <1>1, <1>4
  <2> QED
    BY <1>4, <1>5, <2>1 DEF FragsOK, Replaced
<1>7. DOMAIN P = 1 .. n /\ n \in Nat
  BY <1>1
<1>8. ShapeOf(Replaced(s, f, b))
  <2> SUFFICES ASSUME NEW i \in DOMAIN P
               PROVE  IF i < n \/ ~b THEN Q[i].objLen > 0 \/ HasJmp(Q[i]) ELSE ~HasJmp(Q[i])
    BY <1>4, <1>5 DEF ShapeOf, Closed
  <2>1. CASE i = n
    BY <1>4, <1>7, <2>1
  <2>2. CASE i # n
    <3>1. i < n /\ Q[i] = P[i]
      BY <1>4, <1>7, <2>2
    <3>2. P[i].objLen > 0 \/ HasJmp(P[i])
      BY <1>1, <1>2, <1>3, <3>1 DEF Sound, ShapeOf, Closed
    <3> QED
      BY <3>1, <3>2
  <2> QED
    BY <2>1, <2>2
<1>9. Settles(frags, Replaced(s, f, b))
  <2> SUFFICES ASSUME NEW i \in DOMAIN frags.pieces
               PROVE  /\ i \in DOMAIN Q
                      /\ Q[i].objLen >= frags.pieces[i].objLen
                      /\ Closed(frags, i) => Q[i] = frags.pieces[i]
                      /\ frags.pieces[i].objLen > 0 => Q[i].seg = frags.pieces[i].seg
    BY <1>5 DEF Settles
  <2>1. /\ i \in DOMAIN P
        /\ P[i].objLen >= frags.pieces[i].objLen
        /\ Closed(frags, i) => P[i] = frags.pieces[i]
        /\ frags.pieces[i].objLen > 0 => P[i].seg = frags.pieces[i].seg
    BY <1>2, <1>3 DEF Sound, Settles
  <2>2. CASE i # n
    BY <1>4, <2>1, <2>2
  <2>3. CASE i = n
    <3>1. ~Closed(frags, i)
      <4>1. frags.pieces \in Seq(Fragment)
        BY DEF FragsTypeOK, FragsOK
      <4>2. i \in 1 .. Len(frags.pieces) /\ Len(frags.pieces) \in Nat
        BY <4>1
      <4>3. n = Len(frags.pieces) /\ frags.open
        BY <2>3, <4>2, EnsuredLast
      <4> QED
        BY <2>3, <4>2, <4>3 DEF Closed
    <3>2. f.objLen \in Nat /\ EnsuredLen(s) \in Nat
      BY EnsuredType DEF Fragment
    <3>3. frags.pieces[i] \in Fragment
      BY DEF FragsTypeOK, FragsOK
    <3>4. frags.pieces[i].objLen \in Nat
      BY <3>3 DEF Fragment
    <3>5. Q[i] = f /\ P[i].objLen = EnsuredLen(s) /\ P[i].seg = s
      BY <1>1, <1>4, <2>3
    <3>6. Q[i].objLen >= frags.pieces[i].objLen
      BY <2>1, <3>2, <3>4, <3>5
    <3> QED
      BY <1>4, <2>1, <3>1, <3>5, <3>6
  <2> QED
    BY <2>2, <2>3
<1> QED
  BY <1>1, <1>4, <1>5, <1>6, <1>8, <1>9 DEF Sound

LEMMA CodeSound ==
  ASSUME FragsTypeOK, FragmentShape, CanEnsure, NEW s \in Segments,
         NEW k \in Nat, EnsuredLen(s) + k <= ObjLenMax
  PROVE  Sound(PushCode(Ensured(s), EnsuredId(s), k), s, EnsuredLen(s) + k)
<1> DEFINE h == Pieces(s)[EnsuredId(s)]
           f == [h EXCEPT !.objLen = @ + k]
<1>1. /\ Ensured(s) = [pieces |-> Pieces(s), open |-> TRUE] /\ Pieces(s) \in Seq(Fragment)
      /\ EnsuredId(s) \in DOMAIN Pieces(s) /\ EnsuredId(s) = Len(Pieces(s))
      /\ h.objLen = EnsuredLen(s) /\ h.seg = s /\ EnsuredLen(s) \in 0 .. ObjLenMax
  BY EnsuredType
<1>2. h \in Fragment
  BY <1>1
<1>3. f \in Fragment /\ f.objLen = EnsuredLen(s) + k /\ f.seg = s
      /\ f.jmp8 = h.jmp8 /\ f.jmp32 = h.jmp32
  <2>1. h.objLen + k \in 0 .. ObjLenMax
    BY <1>1
  <2> QED
    BY <1>1, <1>2, <2>1 DEF Fragment
<1>4. ~HasJmp(h)
  <2>1. Ensured(s).pieces = Pieces(s) /\ Ensured(s).open = TRUE
    BY <1>1
  <2>2. ShapeOf(Ensured(s))
    BY EnsureSound DEF Sound
  <2>3. ~Closed(Ensured(s), EnsuredId(s))
    BY <1>1, <2>1 DEF Closed
  <2> QED
    BY <1>1, <2>1, <2>2, <2>3 DEF ShapeOf
<1>5. ~HasJmp(f)
  BY <1>3, <1>4 DEF HasJmp
<1>6. Ensured(s).pieces = Pieces(s) /\ Ensured(s).open = TRUE
  BY <1>1
<1>7. PushCode(Ensured(s), EnsuredId(s), k) = Replaced(s, f, TRUE)
  BY <1>6 DEF PushCode, With, Replaced
<1>8. f.objLen >= EnsuredLen(s)
  BY <1>1, <1>3
<1> HIDE DEF f
<1>9. Sound(Replaced(s, f, TRUE), s, f.objLen)
  BY <1>3, <1>5, <1>8, ReplaceSound
<1> QED
  BY <1>3, <1>7, <1>9

LEMMA JumpSound ==
  ASSUME FragsTypeOK, FragmentShape, CanEnsure, NEW s \in Segments,
         NEW l \in Labels, NEW t \in RelTypes, NEW j8 \in JmpLens \ {0}, NEW j32 \in JmpLens \ {0}
  PROVE  Sound(EndAppending(PushJmp(Ensured(s), EnsuredId(s), l, t, j8, j32)), s, EnsuredLen(s))
<1> DEFINE h == Pieces(s)[EnsuredId(s)]
           f == [h EXCEPT !.to = l, !.ofsType = t, !.jmp8 = j8, !.jmp32 = j32]
<1>1. /\ Ensured(s) = [pieces |-> Pieces(s), open |-> TRUE] /\ Pieces(s) \in Seq(Fragment)
      /\ EnsuredId(s) \in DOMAIN Pieces(s)
      /\ h.objLen = EnsuredLen(s) /\ h.seg = s /\ EnsuredLen(s) \in 0 .. ObjLenMax
  BY EnsuredType
<1>2. h \in Fragment
  BY <1>1
<1>3. f \in Fragment /\ f.objLen = EnsuredLen(s) /\ f.seg = s /\ HasJmp(f)
  BY <1>1, <1>2 DEF Fragment, HasJmp, JmpLens
<1>4. Ensured(s).pieces = Pieces(s) /\ Ensured(s).open = TRUE
  BY <1>1
<1>5. EndAppending(PushJmp(Ensured(s), EnsuredId(s), l, t, j8, j32)) = Replaced(s, f, FALSE)
  BY <1>4 DEF EndAppending, PushJmp, With, Replaced
<1>6. f.objLen >= EnsuredLen(s)
  BY <1>1, <1>3
<1> HIDE DEF f
<1>7. Sound(Replaced(s, f, FALSE), s, f.objLen)
  BY <1>3, <1>6, ReplaceSound
<1> QED
  BY <1>3, <1>5, <1>7

------------------------------------------------------------------------------
(* The invariant: a reference only patches bytes that pass 1 has written if *)
(* its address exists and lies far enough behind the start of its fragment; *)
(* an address stays inside its fragment because fragments only grow; and    *)
(* they only grow because an open fragment never ends in a jump.            *)

RefsHaveAddrs == \A r \in DOMAIN reftbl : reftbl[r].addr \in AddrIds

Inv1 == TypeOK /\ FragmentShape /\ AddrsInside /\ RefsHaveAddrs /\ RefSitesInFragment

\* What a step does to the addresses there are: nothing.
AddrsExtend == \A a \in AddrIds : a \in DOMAIN addrs' /\ addrs'[a] = addrs[a]

Keeps == Inv1' /\ Settles(frags, frags') /\ AddrsExtend

LEMMA InsideKept ==
  ASSUME TypeOK, AddrsInside, FragsOK(frags'), Settles(frags, frags'),
         NEW a \in AddrIds
  PROVE  addrs[a].frag \in DOMAIN frags'.pieces
         /\ addrs[a].ofs <= frags'.pieces[addrs[a].frag].objLen
<1> DEFINE i == addrs[a].frag
<1>1. i \in DOMAIN frags.pieces /\ addrs[a].ofs <= frags.pieces[i].objLen
  BY DEF AddrsInside
<1>2. i \in DOMAIN frags'.pieces /\ frags'.pieces[i].objLen >= frags.pieces[i].objLen
  BY <1>1 DEF Settles
<1>3. addrs[a] \in [frag : Nat, ofs : Nat]
  <2> DEFINE T == [frag : Nat, ofs : Nat]
  <2>1. addrs \in Seq(T)
    BY DEF TypeOK, AddrsTypeOK
  <2> HIDE DEF T
  <2>2. addrs[a] \in T
    BY <2>1 DEF AddrIds
  <2> QED
    BY <2>2 DEF T
<1>4. /\ frags.pieces \in Seq(Fragment) /\ frags'.pieces \in Seq(Fragment)
  BY DEF TypeOK, FragsTypeOK, FragsOK
<1>5. frags.pieces[i] \in Fragment /\ frags'.pieces[i] \in Fragment
  BY <1>1, <1>2, <1>4
<1>6. addrs[a].ofs \in Nat /\ frags.pieces[i].objLen \in Nat /\ frags'.pieces[i].objLen \in Nat
  BY <1>3, <1>5 DEF Fragment
<1> QED
  BY <1>1, <1>2, <1>6

LEMMA NoAddr ==
  ASSUME TypeOK, AddrsInside, FragsOK(frags'), Settles(frags, frags'),
         UNCHANGED <<addrs, meant>>
  PROVE  AddrsTypeOK' /\ AddrsInside' /\ AddrsExtend
<1>1. AddrsTypeOK'
  BY DEF TypeOK, AddrsTypeOK
<1>2. AddrsInside'
  BY InsideKept DEF AddrsInside, AddrIds
<1>3. AddrsExtend
  BY DEF AddrsExtend, AddrIds
<1> QED
  BY <1>1, <1>2, <1>3

LEMMA OneAddr ==
  ASSUME TypeOK, AddrsInside, NEW s \in Segments, NEW n \in Nat, Sound(frags', s, n),
         NEW o \in Nat, o <= n, NEW pos \in Nat, TakeAddr(EnsuredId(s), o, s, pos)
  PROVE  /\ AddrsTypeOK' /\ AddrsInside' /\ AddrsExtend
         /\ NewAddr \in Nat /\ NewAddr \in DOMAIN addrs' /\ addrs'[NewAddr].ofs = o
<1>1. /\ FragsOK(frags') /\ Settles(frags, frags')
      /\ EnsuredId(s) \in DOMAIN frags'.pieces /\ frags'.pieces[EnsuredId(s)].objLen = n
  BY DEF Sound
<1>2. addrs \in Seq([frag : Nat, ofs : Nat]) /\ meant \in Seq([seg : Segments, pos : Nat])
      /\ Len(meant) = Len(addrs)
  BY DEF TypeOK, AddrsTypeOK
<1>3. EnsuredId(s) \in Nat
  BY <1>1 DEF FragsOK
<1>4. Addr(EnsuredId(s), o) \in [frag : Nat, ofs : Nat]
  BY <1>3 DEF Addr
<1>5. addrs' = Append(addrs, Addr(EnsuredId(s), o)) /\ meant' = Append(meant, [seg |-> s, pos |-> pos])
  BY DEF TakeAddr
<1>6. /\ addrs' \in Seq([frag : Nat, ofs : Nat]) /\ Len(addrs') = Len(addrs) + 1
      /\ addrs'[Len(addrs) + 1] = Addr(EnsuredId(s), o)
      /\ DOMAIN addrs' = 1 .. (Len(addrs) + 1)
      /\ DOMAIN addrs = 1 .. Len(addrs) /\ Len(addrs) \in Nat
      /\ \A a \in DOMAIN addrs : addrs'[a] = addrs[a]
  BY <1>2, <1>4, <1>5
<1>7. AddrsTypeOK'
  <2>1. meant' \in Seq([seg : Segments, pos : Nat]) /\ Len(meant') = Len(meant) + 1
    BY <1>2, <1>5
  <2> QED
    BY <1>2, <1>6, <2>1 DEF AddrsTypeOK
<1>8. AddrsInside'
  <2> SUFFICES ASSUME NEW a \in DOMAIN addrs'
               PROVE  addrs'[a].frag \in DOMAIN frags'.pieces
                      /\ addrs'[a].ofs <= frags'.pieces[addrs'[a].frag].objLen
    BY DEF AddrsInside, AddrIds
  <2>1. CASE a \in DOMAIN addrs
    BY <1>1, <1>6, <2>1, InsideKept DEF AddrIds
  <2>2. CASE a = Len(addrs) + 1
    <3>1. addrs'[a].frag = EnsuredId(s) /\ addrs'[a].ofs = o
      BY <1>6, <2>2 DEF Addr
    <3> QED
      BY <1>1, <3>1
  <2> QED
    BY <1>6, <2>1, <2>2
<1>9. AddrsExtend
  BY <1>6 DEF AddrsExtend, AddrIds
<1> QED
  BY <1>6, <1>7, <1>8, <1>9 DEF NewAddr, Addr

\* The references: none is new, or one is, at the address just taken.
LEMMA NoRef ==
  ASSUME RefsHaveAddrs, RefSitesInFragment, AddrsExtend, UNCHANGED reftbl
  PROVE  RefsHaveAddrs' /\ RefSitesInFragment'
<1>1. ASSUME NEW r \in DOMAIN reftbl
      PROVE  /\ reftbl[r].addr \in AddrIds /\ reftbl[r].addr \in DOMAIN addrs'
             /\ addrs'[reftbl[r].addr] = addrs[reftbl[r].addr]
  BY DEF RefsHaveAddrs, AddrsExtend
<1>2. RefsHaveAddrs'
  BY <1>1 DEF RefsHaveAddrs, AddrIds
<1>3. RefSitesInFragment'
  BY <1>1 DEF RefSitesInFragment
<1> QED
  BY <1>2, <1>3

RefType == [type : RelTypes, addr : Nat, to : Labels]

LEMMA OneRef ==
  ASSUME reftbl \in Seq(RefType), RefsHaveAddrs, RefSitesInFragment, AddrsExtend,
         NEW t \in RelTypes, NEW l \in Labels, NEW a \in Nat, a \in DOMAIN addrs',
         t = "REL64" => addrs'[a].ofs >= 8,
         t = "REL32" => addrs'[a].ofs >= 4,
         reftbl' = Append(reftbl, [type |-> t, addr |-> a, to |-> l])
  PROVE  reftbl' \in Seq(RefType) /\ RefsHaveAddrs' /\ RefSitesInFragment'
<1> DEFINE e == [type |-> t, addr |-> a, to |-> l]
<1>1. e \in RefType
  BY DEF RefType
<1>2. /\ reftbl' \in Seq(RefType) /\ DOMAIN reftbl' = 1 .. (Len(reftbl) + 1)
      /\ reftbl'[Len(reftbl) + 1] = e
      /\ DOMAIN reftbl = 1 .. Len(reftbl) /\ Len(reftbl) \in Nat
      /\ \A r \in DOMAIN reftbl : reftbl'[r] = reftbl[r]
  BY <1>1
<1>3. ASSUME NEW r \in DOMAIN reftbl'
      PROVE  /\ reftbl'[r].addr \in DOMAIN addrs'
             /\ reftbl'[r].type = "REL64" => addrs'[reftbl'[r].addr].ofs >= 8
             /\ reftbl'[r].type = "REL32" => addrs'[reftbl'[r].addr].ofs >= 4
  <2>1. CASE r \in DOMAIN reftbl
    <3>1. /\ reftbl[r].addr \in AddrIds /\ reftbl[r].addr \in DOMAIN addrs'
          /\ addrs'[reftbl[r].addr] = addrs[reftbl[r].addr]
      BY <2>1 DEF RefsHaveAddrs, AddrsExtend
    <3>2. /\ reftbl[r].type = "REL64" => addrs[reftbl[r].addr].ofs >= 8
          /\ reftbl[r].type = "REL32" => addrs[reftbl[r].addr].ofs >= 4
      BY <2>1 DEF RefSitesInFragment
    <3>3. reftbl'[r] = reftbl[r]
      BY <1>2, <2>1
    <3> QED
      BY <3>1, <3>2, <3>3
  <2>2. CASE r = Len(reftbl) + 1
    <3>1. reftbl'[r].addr = a /\ reftbl'[r].type = t
      BY <1>2, <2>2
    <3> QED
      BY <3>1
  <2> QED
    BY <1>2, <1>3, <2>1, <2>2
<1>4. RefsHaveAddrs'
  BY <1>3 DEF RefsHaveAddrs, AddrIds
<1>5. RefSitesInFragment'
  BY <1>3 DEF RefSitesInFragment
<1> QED
  BY <1>2, <1>4, <1>5

\* What every statement that writes to, or takes an address in, segment s has.
LEMMA AppendingFacts ==
  ASSUME Inv1, NEW s \in Segments, NEW m, Appending(m, s)
  PROVE  /\ CanEnsure /\ FragsTypeOK /\ FragmentShape
         /\ EnsuredLen(s) \in Nat
         /\ Sound(Ensured(s), s, EnsuredLen(s))
         /\ line' \in Nat /\ retagged' \subseteq Nat
<1>1. CanEnsure /\ FragsTypeOK /\ FragmentShape
  BY DEF Inv1, TypeOK, Appending
<1>2. EnsuredLen(s) \in Nat
  BY <1>1, EnsuredType
<1>3. Sound(Ensured(s), s, EnsuredLen(s))
  BY <1>1, EnsureSound
<1>4. line' \in Nat
  BY DEF Inv1, TypeOK, OtherTypeOK, Appending, NextLine
<1>5. retagged' \subseteq Nat
  <2>1. frags.pieces \in Seq(Fragment)
    BY <1>1 DEF FragsTypeOK, FragsOK
  <2>2. GetAppending(frags) \in Nat
    BY <2>1 DEF GetAppending
  <2>3. retagged' \subseteq retagged \cup {GetAppending(frags)}
    BY DEF Appending, NoteRetag
  <2> QED
    BY <2>2, <2>3 DEF Inv1, TypeOK, OtherTypeOK
<1> QED
  BY <1>1, <1>2, <1>3, <1>4, <1>5

LEMMA EmitType ==
  ASSUME Inv1, NEW n \in Nat, Emit(n)
  PROVE  emitted' \in [Segments -> Nat]
BY DEF Inv1, TypeOK, OtherTypeOK, Emit

LEMMA SetValueType ==
  ASSUME Inv1, NEW l \in Names, NEW v \in [type : {"NUM", "OFFSET", "ABSENT"}, addr : Nat],
         SetValue(l, v)
  PROVE  /\ syms' \in [Names -> [type : {"NUM", "OFFSET", "ABSENT"}, addr : Nat]]
         /\ given' \subseteq Names
BY DEF Inv1, TypeOK, OtherTypeOK, SetValue

\* Where the parts of Keeps come from.
LEMMA KeepsParts ==
  ASSUME NEW s, NEW n, Sound(frags', s, n),
         AddrsTypeOK', AddrsInside', AddrsExtend, ProcsTypeOK', OtherTypeOK',
         RefsHaveAddrs', RefSitesInFragment'
  PROVE  Keeps
<1>1. FragsTypeOK' /\ FragmentShape' /\ Settles(frags, frags')
  BY DEF Sound, FragsTypeOK, FragmentShape
<1> QED
  BY <1>1 DEF Keeps, Inv1, TypeOK

\* A step that leaves the fragments and the addresses alone.
LEMMA StillKeeps ==
  ASSUME Inv1, UNCHANGED <<frags, addrs, meant, reftbl>>, ProcsTypeOK', OtherTypeOK'
  PROVE  Keeps
<1>1. FragsTypeOK' /\ FragmentShape' /\ AddrsTypeOK' /\ AddrsInside'
  BY DEF Inv1, TypeOK, FragsTypeOK, FragmentShape, AddrsTypeOK, AddrsInside, AddrIds
<1>2. RefsHaveAddrs' /\ RefSitesInFragment'
  BY DEF Inv1, RefsHaveAddrs, RefSitesInFragment, AddrIds
<1>3. Settles(frags, frags')
  <2>1. frags' = frags
    OBVIOUS
  <2>2. ASSUME NEW i \in DOMAIN frags.pieces
        PROVE  frags.pieces[i].objLen \in Nat
    <3>1. frags.pieces[i] \in Fragment
      BY DEF Inv1, TypeOK, FragsTypeOK, FragsOK
    <3> QED
      BY <3>1 DEF Fragment
  <2> QED
    BY <2>1, <2>2 DEF Settles
<1>4. AddrsExtend
  BY DEF AddrsExtend, AddrIds
<1> QED
  BY <1>1, <1>2, <1>3, <1>4 DEF Keeps, Inv1, TypeOK

------------------------------------------------------------------------------
(* One lemma per statement.                                                 *)

LEMMA CodeKeeps ==
  ASSUME Inv1, NEW n \in CodeLens, Code(n)
  PROVE  Keeps
<1> DEFINE s == seg_id
<1>1. n \in Nat /\ s \in Segments
  BY DEF Inv1, TypeOK, OtherTypeOK
<1>2. Appending("code", s)
  BY DEF Code
<1>3. /\ CanEnsure /\ FragsTypeOK /\ FragmentShape /\ EnsuredLen(s) \in Nat
      /\ line' \in Nat /\ retagged' \subseteq Nat
  BY <1>1, <1>2, AppendingFacts
<1>4. Sound(frags', s, EnsuredLen(s) + n)
  BY <1>1, <1>3, CodeSound DEF Code, Fits
<1>5. AddrsTypeOK' /\ AddrsInside' /\ AddrsExtend
  BY <1>4, NoAddr DEF Sound, Code, Inv1
<1>6. RefsHaveAddrs' /\ RefSitesInFragment'
  BY <1>5, NoRef DEF Code, Inv1
<1>7. ProcsTypeOK'
  BY DEF Code, Inv1, TypeOK, ProcsTypeOK
<1>8. emitted' \in [Segments -> Nat]
  BY <1>1, EmitType DEF Code
<1>9. OtherTypeOK'
  BY <1>3, <1>8 DEF Code, Inv1, TypeOK, OtherTypeOK
<1> QED
  BY <1>4, <1>5, <1>6, <1>7, <1>9, KeepsParts

LEMMA JumpKeeps ==
  ASSUME Inv1, NEW m, NEW l \in Labels, NEW t \in RelTypes,
         NEW j8 \in JmpLens \ {0}, NEW j32 \in JmpLens \ {0}, Jump(m, l, t, j8, j32)
  PROVE  Keeps
<1> DEFINE s == seg_id
<1>1. s \in Segments
  BY DEF Inv1, TypeOK, OtherTypeOK
<1>2. Appending(m, s)
  BY DEF Jump
<1>3. /\ CanEnsure /\ FragsTypeOK /\ FragmentShape /\ EnsuredLen(s) \in Nat
      /\ line' \in Nat /\ retagged' \subseteq Nat
  BY <1>1, <1>2, AppendingFacts
<1>4. Sound(frags', s, EnsuredLen(s))
  BY <1>1, <1>3, JumpSound DEF Jump
<1>5. AddrsTypeOK' /\ AddrsInside' /\ AddrsExtend
  BY <1>4, NoAddr DEF Sound, Jump, Inv1
<1>6. RefsHaveAddrs' /\ RefSitesInFragment'
  BY <1>5, NoRef DEF Jump, Inv1
<1>7. ProcsTypeOK'
  BY DEF Jump, Inv1, TypeOK, ProcsTypeOK
<1>8. emitted' \in [Segments -> Nat]
  BY EmitType DEF Jump
<1>9. OtherTypeOK'
  BY <1>3, <1>8 DEF Jump, Inv1, TypeOK, OtherTypeOK
<1> QED
  BY <1>4, <1>5, <1>6, <1>7, <1>9, KeepsParts

LEMMA LeaKeeps ==
  ASSUME Inv1, NEW l \in Labels, Lea(l)
  PROVE  Keeps
<1> DEFINE s == seg_id
           n == EnsuredLen(s) + LeaLen
<1>1. s \in Segments /\ LeaLen = 7 /\ emitted[s] + LeaLen \in Nat
  BY DEF Inv1, TypeOK, OtherTypeOK, LeaLen
<1>2. Appending("lea", s)
  BY DEF Lea
<1>3. /\ CanEnsure /\ FragsTypeOK /\ FragmentShape /\ EnsuredLen(s) \in Nat
      /\ line' \in Nat /\ retagged' \subseteq Nat
  BY <1>1, <1>2, AppendingFacts
<1>4. n \in Nat /\ n >= 4
  BY <1>1, <1>3
<1>5. Sound(frags', s, n)
  BY <1>1, <1>3, CodeSound DEF Lea, Fits
<1>6. TakeAddr(EnsuredId(s), n, s, emitted[s] + LeaLen)
  BY DEF Lea, OfsAfterPush
<1>7. /\ AddrsTypeOK' /\ AddrsInside' /\ AddrsExtend
      /\ NewAddr \in Nat /\ NewAddr \in DOMAIN addrs' /\ addrs'[NewAddr].ofs = n
  BY <1>1, <1>4, <1>5, <1>6, OneAddr DEF Inv1
<1>8. reftbl \in Seq(RefType) /\ RefsHaveAddrs /\ RefSitesInFragment
  BY DEF Inv1, TypeOK, OtherTypeOK, RefType
<1>9. reftbl' \in Seq(RefType) /\ RefsHaveAddrs' /\ RefSitesInFragment'
  <2>1. "REL32" \in RelTypes /\ "REL32" # "REL64"
    BY DEF RelTypes
  <2>2. reftbl' = Append(reftbl, [type |-> "REL32", addr |-> NewAddr, to |-> l])
    BY DEF Lea
  <2> QED
    BY <1>4, <1>7, <1>8, <2>1, <2>2, OneRef
<1>10. ProcsTypeOK'
  BY DEF Lea, Inv1, TypeOK, ProcsTypeOK
<1>11. emitted' \in [Segments -> Nat]
  BY <1>1, EmitType DEF Lea
<1>12. OtherTypeOK'
  BY <1>3, <1>9, <1>11 DEF Lea, Inv1, TypeOK, OtherTypeOK, RefType
<1> QED
  BY <1>5, <1>7, <1>9, <1>10, <1>12, KeepsParts

LEMMA QuadKeeps ==
  ASSUME Inv1, NEW l \in Labels, Quad(l)
  PROVE  Keeps
<1> DEFINE s == seg_id
           n == EnsuredLen(s) + QuadLen
<1>1. s \in Segments /\ QuadLen = 8 /\ emitted[s] + QuadLen \in Nat
  BY DEF Inv1, TypeOK, OtherTypeOK, QuadLen
<1>2. Appending("quad", s)
  BY DEF Quad
<1>3. /\ CanEnsure /\ FragsTypeOK /\ FragmentShape /\ EnsuredLen(s) \in Nat
      /\ line' \in Nat /\ retagged' \subseteq Nat
  BY <1>1, <1>2, AppendingFacts
<1>4. n \in Nat /\ n >= 8
  BY <1>1, <1>3
<1>5. Sound(frags', s, n)
  BY <1>1, <1>3, CodeSound DEF Quad, Fits
<1>6. emitted' \in [Segments -> Nat]
  BY <1>1, EmitType DEF Quad
<1>7. ProcsTypeOK'
  BY DEF Quad, Inv1, TypeOK, ProcsTypeOK
<1>8. reftbl \in Seq(RefType) /\ RefsHaveAddrs /\ RefSitesInFragment
  BY DEF Inv1, TypeOK, OtherTypeOK, RefType
<1>9. CASE UNCHANGED <<addrs, meant, reftbl>> /\ lost' \subseteq Names
  <2>1. AddrsTypeOK' /\ AddrsInside' /\ AddrsExtend
    BY <1>5, <1>9, NoAddr DEF Sound, Inv1
  <2>2. RefsHaveAddrs' /\ RefSitesInFragment'
    BY <1>8, <1>9, <2>1, NoRef
  <2>3. OtherTypeOK'
    BY <1>3, <1>6, <1>9 DEF Quad, Inv1, TypeOK, OtherTypeOK
  <2> QED
    BY <1>5, <1>7, <2>1, <2>2, <2>3, KeepsParts
<1>10. CASE /\ TakeAddr(EnsuredId(s), n, s, emitted[s] + QuadLen)
            /\ reftbl' = Append(reftbl, [type |-> "REL64", addr |-> NewAddr, to |-> l])
            /\ UNCHANGED lost
  <2>1. /\ AddrsTypeOK' /\ AddrsInside' /\ AddrsExtend
        /\ NewAddr \in Nat /\ NewAddr \in DOMAIN addrs' /\ addrs'[NewAddr].ofs = n
    BY <1>1, <1>4, <1>5, <1>10, OneAddr DEF Inv1
  <2>2. "REL64" \in RelTypes /\ "REL32" # "REL64"
    BY DEF RelTypes
  <2>3. reftbl' \in Seq(RefType) /\ RefsHaveAddrs' /\ RefSitesInFragment'
    BY <1>4, <1>8, <1>10, <2>1, <2>2, OneRef
  <2>4. OtherTypeOK'
    BY <1>3, <1>6, <1>10, <2>3 DEF Quad, Inv1, TypeOK, OtherTypeOK, RefType
  <2> QED
    BY <1>5, <1>7, <2>1, <2>3, <2>4, KeepsParts
<1>11. lost \subseteq Names /\ l \in Names
  BY DEF Inv1, TypeOK, OtherTypeOK, Names
<1> QED
  BY <1>9, <1>10, <1>11 DEF Quad, OfsAfterPush

\* A label, a section name, a .size, a CFI record or either end of a
\* procedure: an address at the end of the fragment made sure of.
HereAddr(m, s, o, pos) ==
  /\ Appending(m, s)
  /\ frags' = Ensured(s)
  /\ TakeAddr(EnsuredId(s), o, s, pos)

LEMMA HereFacts ==
  ASSUME Inv1, NEW m, NEW s \in Segments, NEW o, o = 0 \/ o = EnsuredLen(s),
         NEW pos \in Nat, HereAddr(m, s, o, pos)
  PROVE  /\ Sound(frags', s, EnsuredLen(s))
         /\ AddrsTypeOK' /\ AddrsInside' /\ AddrsExtend
         /\ NewAddr \in Nat /\ NewAddr \in DOMAIN addrs'
         /\ line' \in Nat /\ retagged' \subseteq Nat
<1>1. /\ EnsuredLen(s) \in Nat /\ line' \in Nat /\ retagged' \subseteq Nat
      /\ Sound(frags', s, EnsuredLen(s))
  BY AppendingFacts DEF HereAddr
<1>2. o \in Nat /\ o <= EnsuredLen(s)
  BY <1>1
<1>3. TakeAddr(EnsuredId(s), o, s, pos)
  BY DEF HereAddr
<1> QED
  BY <1>1, <1>2, <1>3, OneAddr DEF Inv1

LEMMA LabelKeeps ==
  ASSUME Inv1, NEW l \in Labels, Label(l)
  PROVE  Keeps
<1> DEFINE s == seg_id
<1>1. s \in Segments /\ emitted[s] \in Nat /\ l \in Names
  BY DEF Inv1, TypeOK, OtherTypeOK, Names
<1>2. HereAddr("label", s, EnsuredLen(s), emitted[s])
  BY DEF HereAddr, Label, TakeAddrHere
<1>3. /\ Sound(frags', s, EnsuredLen(s))
      /\ AddrsTypeOK' /\ AddrsInside' /\ AddrsExtend /\ NewAddr \in Nat
      /\ line' \in Nat /\ retagged' \subseteq Nat
  BY <1>1, <1>2, HereFacts
<1>4. RefsHaveAddrs' /\ RefSitesInFragment'
  BY <1>3, NoRef DEF Label, Inv1
<1>5. Offset(NewAddr) \in [type : {"NUM", "OFFSET", "ABSENT"}, addr : Nat]
  BY <1>3 DEF Offset
<1>6. /\ syms' \in [Names -> [type : {"NUM", "OFFSET", "ABSENT"}, addr : Nat]]
      /\ given' \subseteq Names
  BY <1>1, <1>5, SetValueType DEF Label
<1>7. ProcsTypeOK'
  BY DEF Label, Inv1, TypeOK, ProcsTypeOK
<1>8. OtherTypeOK'
  BY <1>3, <1>6 DEF Label, Inv1, TypeOK, OtherTypeOK
<1> QED
  BY <1>3, <1>4, <1>7, <1>8, KeepsParts

LEMMA SectionKeeps ==
  ASSUME Inv1, NEW m, NEW n \in SectionNames, NEW s \in Segments, OpenSection(m, n, s)
  PROVE  Keeps
<1>1. emitted[s] \in Nat /\ n \in Names
  BY DEF Inv1, TypeOK, OtherTypeOK, Names
<1>2. ProcsTypeOK'
  BY DEF OpenSection, Inv1, TypeOK, ProcsTypeOK
<1>3. CASE NextLine(m) /\ UNCHANGED <<frags, fault, addrs, meant, syms, given, retagged>>
  <2>1. OtherTypeOK'
    BY <1>3 DEF OpenSection, NextLine, Inv1, TypeOK, OtherTypeOK
  <2> QED
    BY <1>2, <1>3, <2>1, StillKeeps DEF OpenSection
<1>4. CASE /\ Appending(m, s) /\ frags' = Ensured(s)
           /\ TakeAddr(EnsuredId(s), 0, s, emitted[s])
           /\ SetValue(n, Offset(NewAddr))
  <2>1. HereAddr(m, s, 0, emitted[s])
    BY <1>4 DEF HereAddr
  <2>2. /\ Sound(frags', s, EnsuredLen(s))
        /\ AddrsTypeOK' /\ AddrsInside' /\ AddrsExtend /\ NewAddr \in Nat
        /\ line' \in Nat /\ retagged' \subseteq Nat
    BY <1>1, <2>1, HereFacts
  <2>3. RefsHaveAddrs' /\ RefSitesInFragment'
    BY <2>2, NoRef DEF OpenSection, Inv1
  <2>4. Offset(NewAddr) \in [type : {"NUM", "OFFSET", "ABSENT"}, addr : Nat]
    BY <2>2 DEF Offset
  <2>5. /\ syms' \in [Names -> [type : {"NUM", "OFFSET", "ABSENT"}, addr : Nat]]
        /\ given' \subseteq Names
    BY <1>1, <1>4, <2>4, SetValueType
  <2>6. OtherTypeOK'
    BY <2>2, <2>5 DEF OpenSection, Inv1, TypeOK, OtherTypeOK
  <2> QED
    BY <1>2, <2>2, <2>3, <2>6, KeepsParts
<1> QED
  BY <1>3, <1>4 DEF OpenSection

ProcType == [start : Nat, end : Nat, cfi : Seq(Nat)]

LEMMA StartProcKeeps ==
  ASSUME Inv1, StartProc
  PROVE  Keeps
<1> DEFINE s == seg_id
<1>1. s \in Segments /\ emitted[s] \in Nat
  BY DEF Inv1, TypeOK, OtherTypeOK
<1>2. HereAddr("startproc", s, EnsuredLen(s), emitted[s])
  BY DEF HereAddr, StartProc, TakeAddrHere
<1>3. /\ Sound(frags', s, EnsuredLen(s))
      /\ AddrsTypeOK' /\ AddrsInside' /\ AddrsExtend /\ NewAddr \in Nat
      /\ line' \in Nat /\ retagged' \subseteq Nat
  BY <1>1, <1>2, HereFacts
<1>4. RefsHaveAddrs' /\ RefSitesInFragment'
  BY <1>3, NoRef DEF StartProc, Inv1
<1>5. ProcsTypeOK'
  <2> DEFINE p == [start |-> NewAddr, end |-> 0, cfi |-> <<>>]
  <2>1. p \in ProcType /\ procs \in Seq(ProcType)
    BY <1>3 DEF ProcType, Inv1, TypeOK, ProcsTypeOK
  <2> HIDE DEF p
  <2>2. procs' = Append(procs, p) /\ proc_id' = Len(procs) + 1
    BY DEF StartProc, p
  <2>3. procs' \in Seq(ProcType) /\ proc_id' \in 0 .. Len(procs')
    BY <2>1, <2>2
  <2> QED
    BY <2>3 DEF ProcsTypeOK, ProcType
<1>6. OtherTypeOK'
  BY <1>3 DEF StartProc, Inv1, TypeOK, OtherTypeOK
<1> QED
  BY <1>3, <1>4, <1>5, <1>6, KeepsParts

LEMMA EndProcKeeps ==
  ASSUME Inv1, EndProc
  PROVE  Keeps
<1> DEFINE s == seg_id
<1>1. s \in Segments /\ emitted[s] \in Nat
  BY DEF Inv1, TypeOK, OtherTypeOK
<1>2. HereAddr("endproc", s, EnsuredLen(s), emitted[s])
  BY DEF HereAddr, EndProc, TakeAddrHere
<1>3. /\ Sound(frags', s, EnsuredLen(s))
      /\ AddrsTypeOK' /\ AddrsInside' /\ AddrsExtend /\ NewAddr \in Nat
      /\ line' \in Nat /\ retagged' \subseteq Nat
  BY <1>1, <1>2, HereFacts
<1>4. RefsHaveAddrs' /\ RefSitesInFragment'
  BY <1>3, NoRef DEF EndProc, Inv1
<1>5. ProcsTypeOK'
  <2> DEFINE p == [procs[proc_id] EXCEPT !.end = NewAddr]
  <2>1. procs \in Seq(ProcType) /\ proc_id \in 0 .. Len(procs) /\ proc_id > 0
    BY DEF ProcType, Inv1, TypeOK, ProcsTypeOK, EndProc
  <2>2. proc_id \in DOMAIN procs /\ procs[proc_id] \in ProcType
    BY <2>1
  <2>3. p \in ProcType
    BY <1>3, <2>2 DEF ProcType
  <2>4. procs' = [procs EXCEPT ![proc_id] = p] /\ proc_id' = 0
    BY DEF EndProc
  <2> HIDE DEF p
  <2>5. procs' \in Seq(ProcType) /\ proc_id' \in 0 .. Len(procs')
    BY <2>1, <2>2, <2>3, <2>4
  <2> QED
    BY <2>5 DEF ProcsTypeOK, ProcType
<1>6. OtherTypeOK'
  BY <1>3 DEF EndProc, Inv1, TypeOK, OtherTypeOK
<1> QED
  BY <1>3, <1>4, <1>5, <1>6, KeepsParts

LEMMA CfiKeeps ==
  ASSUME Inv1, Cfi
  PROVE  Keeps
<1> DEFINE s == seg_id
<1>1. s \in Segments /\ emitted[s] \in Nat
  BY DEF Inv1, TypeOK, OtherTypeOK
<1>2. HereAddr("cfi", s, EnsuredLen(s), emitted[s])
  BY DEF HereAddr, Cfi, TakeAddrHere
<1>3. /\ Sound(frags', s, EnsuredLen(s))
      /\ AddrsTypeOK' /\ AddrsInside' /\ AddrsExtend /\ NewAddr \in Nat
      /\ line' \in Nat /\ retagged' \subseteq Nat
  BY <1>1, <1>2, HereFacts
<1>4. RefsHaveAddrs' /\ RefSitesInFragment'
  BY <1>3, NoRef DEF Cfi, Inv1
<1>5. ProcsTypeOK'
  <2> DEFINE c == Append(procs[proc_id].cfi, NewAddr)
             p == [procs[proc_id] EXCEPT !.cfi = c]
  <2>1. procs \in Seq(ProcType) /\ proc_id \in 0 .. Len(procs) /\ proc_id > 0
    BY DEF ProcType, Inv1, TypeOK, ProcsTypeOK, Cfi
  <2>2. proc_id \in DOMAIN procs /\ procs[proc_id] \in ProcType
    BY <2>1
  <2>3. procs' = [procs EXCEPT ![proc_id] = p] /\ proc_id' = proc_id
    BY DEF Cfi
  <2>4. c \in Seq(Nat)
    BY <1>3, <2>2 DEF ProcType
  <2> HIDE DEF c
  <2>5. p \in ProcType
    BY <2>2, <2>4 DEF ProcType
  <2> HIDE DEF p
  <2>6. procs' \in Seq(ProcType) /\ proc_id' \in 0 .. Len(procs')
    BY <2>1, <2>2, <2>3, <2>5
  <2> QED
    BY <2>6 DEF ProcsTypeOK, ProcType
<1>6. OtherTypeOK'
  BY <1>3 DEF Cfi, Inv1, TypeOK, OtherTypeOK
<1> QED
  BY <1>3, <1>4, <1>5, <1>6, KeepsParts

LEMMA SizeKeeps ==
  ASSUME Inv1, NEW l \in Labels, Size(l)
  PROVE  Keeps
<1> DEFINE s == seg_id
<1>1. s \in Segments /\ emitted[s] \in Nat
  BY DEF Inv1, TypeOK, OtherTypeOK
<1>2. HereAddr("size", s, EnsuredLen(s), emitted[s])
  BY DEF HereAddr, Size, TakeAddrHere
<1>3. /\ Sound(frags', s, EnsuredLen(s))
      /\ AddrsTypeOK' /\ AddrsInside' /\ AddrsExtend
      /\ NewAddr \in Nat /\ NewAddr \in DOMAIN addrs'
      /\ line' \in Nat /\ retagged' \subseteq Nat
  BY <1>1, <1>2, HereFacts
<1>4. reftbl \in Seq(RefType) /\ RefsHaveAddrs /\ RefSitesInFragment
  BY DEF Inv1, TypeOK, OtherTypeOK, RefType
<1>5. reftbl' \in Seq(RefType) /\ RefsHaveAddrs' /\ RefSitesInFragment'
  <2>1. "FN_LEN" \in RelTypes /\ "FN_LEN" # "REL64" /\ "FN_LEN" # "REL32"
    BY DEF RelTypes
  <2>2. reftbl' = Append(reftbl, [type |-> "FN_LEN", addr |-> NewAddr, to |-> l])
    BY DEF Size
  <2> QED
    BY <1>3, <1>4, <2>1, <2>2, OneRef
<1>6. ProcsTypeOK'
  BY DEF Size, Inv1, TypeOK, ProcsTypeOK
<1>7. OtherTypeOK'
  BY <1>3, <1>5 DEF Size, Inv1, TypeOK, OtherTypeOK, RefType
<1> QED
  BY <1>3, <1>5, <1>6, <1>7, KeepsParts

LEMMA StructKeeps ==
  ASSUME Inv1, Struct
  PROVE  Keeps
<1>1. ProcsTypeOK'
  BY DEF Struct, Inv1, TypeOK, ProcsTypeOK
<1>2. OtherTypeOK'
  BY DEF Struct, NextLine, histVars, Segments, Inv1, TypeOK, OtherTypeOK
<1> QED
  BY <1>1, <1>2, StillKeeps DEF Struct, histVars

LEMMA NumberKeeps ==
  ASSUME Inv1, NEW l \in Labels, LabelInStruct(l) \/ Equ(l)
  PROVE  Keeps
<1>1. Num \in [type : {"NUM", "OFFSET", "ABSENT"}, addr : Nat] /\ l \in Names
  BY DEF Num, Names
<1>2. SetValue(l, Num)
  BY DEF LabelInStruct, Equ
<1>3. /\ syms' \in [Names -> [type : {"NUM", "OFFSET", "ABSENT"}, addr : Nat]]
      /\ given' \subseteq Names
  BY <1>1, <1>2, SetValueType
<1>4. ProcsTypeOK'
  BY DEF LabelInStruct, Equ, Inv1, TypeOK, ProcsTypeOK
<1>5. OtherTypeOK'
  <2>1. /\ line' = line + 1
        /\ UNCHANGED <<seg_id, reftbl, emitted, lost, retagged>>
    BY DEF LabelInStruct, Equ, NextLine
  <2> QED
    BY <1>3, <2>1 DEF Inv1, TypeOK, OtherTypeOK
<1> QED
  BY <1>4, <1>5, StillKeeps DEF LabelInStruct, Equ

LEMMA DeclareKeeps ==
  ASSUME Inv1, NEW l \in Labels, Declare(l)
  PROVE  Keeps
<1>1. Num \in [type : {"NUM", "OFFSET", "ABSENT"}, addr : Nat]
  BY DEF Num
<1>2. syms' \in [Names -> [type : {"NUM", "OFFSET", "ABSENT"}, addr : Nat]]
  BY <1>1 DEF Declare, Inv1, TypeOK, OtherTypeOK
<1>3. ProcsTypeOK'
  BY DEF Declare, Inv1, TypeOK, ProcsTypeOK
<1>4. OtherTypeOK'
  BY <1>2 DEF Declare, NextLine, histVars, Inv1, TypeOK, OtherTypeOK
<1> QED
  BY <1>3, <1>4, StillKeeps DEF Declare, histVars

\* A failed assertion, and a step that changes nothing.
LEMMA IdleKeeps ==
  ASSUME Inv1, UNCHANGED <<frags, pass1Vars, histVars>>
  PROVE  Keeps
<1>1. ProcsTypeOK'
  BY DEF pass1Vars, Inv1, TypeOK, ProcsTypeOK
<1>2. OtherTypeOK'
  BY DEF pass1Vars, histVars, Inv1, TypeOK, OtherTypeOK
<1> QED
  BY <1>1, <1>2, StillKeeps DEF pass1Vars, histVars

LEMMA Inv1Init == InitPass1 => Inv1
<1> SUFFICES ASSUME InitPass1 PROVE Inv1
  OBVIOUS
<1>1. FragsTypeOK /\ FragmentShape
  BY DEF InitPass1, NoFragments, FragsTypeOK, FragsOK, FragmentShape, ShapeOf
<1>2. AddrsTypeOK /\ ProcsTypeOK
  BY DEF InitPass1, AddrsTypeOK, ProcsTypeOK
<1>3. OtherTypeOK
  BY DEF InitPass1, OtherTypeOK, Segments, Absent
<1>4. AddrsInside /\ RefsHaveAddrs /\ RefSitesInFragment
  BY DEF InitPass1, AddrsInside, AddrIds, RefsHaveAddrs, RefSitesInFragment
<1> QED
  BY <1>1, <1>2, <1>3, <1>4 DEF Inv1, TypeOK

LEMMA Inv1Step == Inv1 /\ [NextPass1]_vars => Keeps
<1> SUFFICES ASSUME Inv1, [NextPass1]_vars PROVE Keeps
  OBVIOUS
<1>1. CASE \E l \in Labels : Jcc(l) \/ Jmp(l) \/ Call(l)
  <2> PICK l \in Labels : Jcc(l) \/ Jmp(l) \/ Call(l)
    BY <1>1
  <2>1. /\ 2 \in JmpLens \ {0} /\ 5 \in JmpLens \ {0} /\ 6 \in JmpLens \ {0}
        /\ "REL8or32" \in RelTypes /\ "REL32" \in RelTypes
    BY DEF JmpLens, RelTypes
  <2>2. CASE Jcc(l)
    BY <2>1, <2>2, JumpKeeps DEF Jcc
  <2>3. CASE Jmp(l)
    BY <2>1, <2>3, JumpKeeps DEF Jmp
  <2>4. CASE Call(l)
    BY <2>1, <2>4, JumpKeeps DEF Call
  <2> QED
    BY <2>2, <2>3, <2>4
<1>2. CASE \E l \in Labels : Lea(l) \/ Quad(l) \/ Label(l) \/ Size(l)
  BY <1>2, LeaKeeps, QuadKeeps, LabelKeeps, SizeKeeps
<1>3. CASE \E l \in Labels : LabelInStruct(l) \/ Equ(l) \/ Declare(l)
  BY <1>3, NumberKeeps, DeclareKeeps
<1>4. CASE \E n \in CodeLens : Code(n)
  BY <1>4, CodeKeeps
<1>5. CASE Text \/ Rodata
  <2>1. /\ ".text" \in SectionNames /\ ".rodata" \in SectionNames
        /\ "CSEG" \in Segments /\ "DSEG" \in Segments
    BY DEF SectionNames, Segments
  <2> QED
    BY <1>5, <2>1, SectionKeeps DEF Text, Rodata
<1>6. CASE Struct \/ StartProc \/ EndProc \/ Cfi
  BY <1>6, StructKeeps, StartProcKeeps, EndProcKeeps, CfiKeeps
<1>7. CASE FailBegin \/ FailTooLarge \/ FailSize
  <2>1. UNCHANGED <<frags, pass1Vars, histVars>>
    BY <1>7 DEF FailBegin, FailTooLarge, FailSize, Fail
  <2> QED
    BY <2>1, IdleKeeps
<1>8. CASE UNCHANGED vars
  BY <1>8, IdleKeeps DEF vars
<1> QED
  BY <1>1, <1>2, <1>3, <1>4, <1>5, <1>6, <1>7, <1>8 DEF NextPass1, Statement

\* The invariant holds however long the source and whatever its statements.
THEOREM Inv1Holds == SpecPass1 => []Inv1
<1>1. Inv1 /\ [NextPass1]_vars => Inv1'
  BY Inv1Step DEF Keeps
<1> QED
  BY Inv1Init, <1>1, PTL DEF SpecPass1

\* Every variable of pass 1 keeps its type; in particular no fragment grows
\* past the bits of its length field.
THEOREM TypeCorrect == SpecPass1 => []TypeOK
<1>1. Inv1 => TypeOK
  BY DEF Inv1
<1> QED
  BY Inv1Holds, <1>1, PTL

\* No closed fragment is empty and no open one ends in a jump: the assertion
\* of fragments_push_code against code behind a jump never fires.
THEOREM ShapeHolds == SpecPass1 => []FragmentShape
<1>1. Inv1 => FragmentShape
  BY DEF Inv1
<1> QED
  BY Inv1Holds, <1>1, PTL

\* Every address of pass 1 lies inside a fragment that exists, which is what
\* addrs_resolve_all indexes with it.
THEOREM AddressesHold == SpecPass1 => []AddrsInside
<1>1. Inv1 => AddrsInside
  BY DEF Inv1
<1> QED
  BY Inv1Holds, <1>1, PTL

\* The bytes a reference patches were written, in the fragment of its address.
THEOREM SitesHold == SpecPass1 => []RefSitesInFragment
<1>1. Inv1 => RefSitesInFragment
  BY DEF Inv1
<1> QED
  BY Inv1Holds, <1>1, PTL

\* What is closed stays as it is, and what is open only grows.
THEOREM FragmentsOnlyGrow == SpecPass1 => FragmentsSettle
<1>1. Inv1 /\ [NextPass1]_vars => [Settles(frags, frags')]_vars
  BY Inv1Step DEF Keeps
<1> QED
  BY Inv1Holds, <1>1, PTL DEF SpecPass1, FragmentsSettle

------------------------------------------------------------------------------
(* Procedures.  An address taken at the end of the last fragment lies behind *)
(* every address there is, because all of them are inside the fragments.     *)

\* Before, in the next state, of addresses named in this one.
BeforeNext(a, b) == \/ addrs'[a].frag < addrs'[b].frag
                    \/ addrs'[a].frag = addrs'[b].frag /\ addrs'[a].ofs <= addrs'[b].ofs

LEMMA BeforeStays ==
  ASSUME AddrsExtend, NEW a \in AddrIds, NEW b \in AddrIds, Before(a, b)
  PROVE  BeforeNext(a, b)
BY DEF AddrsExtend, Before, BeforeNext

LEMMA NewIsLast ==
  ASSUME AddrsInside', FragsOK(frags'), AddrsExtend,
         NEW b \in DOMAIN addrs',
         addrs'[b].frag = Len(frags'.pieces),
         addrs'[b].ofs = frags'.pieces[Len(frags'.pieces)].objLen,
         NEW a \in AddrIds
  PROVE  BeforeNext(a, b)
<1> DEFINE i == addrs'[a].frag
           n == Len(frags'.pieces)
<1>1. a \in DOMAIN addrs'
  BY DEF AddrsExtend
<1>2. i \in DOMAIN frags'.pieces /\ addrs'[a].ofs <= frags'.pieces[i].objLen
  BY <1>1 DEF AddrsInside, AddrIds
<1>3. i \in 1 .. n /\ n \in Nat
  BY <1>2 DEF FragsOK
<1>4. i < n \/ i = n
  BY <1>3
<1> QED
  BY <1>2, <1>4 DEF BeforeNext

LEMMA HereIsLast ==
  ASSUME Inv1, NEW m, HereAddr(m, seg_id, EnsuredLen(seg_id), emitted[seg_id])
  PROVE  /\ AddrsExtend /\ NewAddr \in DOMAIN addrs' /\ NewAddr # 0
         /\ \A a \in AddrIds : BeforeNext(a, NewAddr)
<1> DEFINE s == seg_id
<1>1. s \in Segments /\ emitted[s] \in Nat
  BY DEF Inv1, TypeOK, OtherTypeOK
<1>2. /\ Sound(frags', s, EnsuredLen(s))
      /\ AddrsTypeOK' /\ AddrsInside' /\ AddrsExtend
      /\ NewAddr \in Nat /\ NewAddr \in DOMAIN addrs'
  BY <1>1, HereFacts
<1>3. addrs \in Seq([frag : Nat, ofs : Nat])
  BY DEF Inv1, TypeOK, AddrsTypeOK
<1>4. addrs' = Append(addrs, Addr(EnsuredId(s), EnsuredLen(s)))
  BY DEF HereAddr, TakeAddr
<1>5. NewAddr # 0 /\ addrs'[NewAddr] = Addr(EnsuredId(s), EnsuredLen(s))
  BY <1>3, <1>4 DEF NewAddr
<1>6. /\ addrs'[NewAddr].frag = Len(frags'.pieces)
      /\ addrs'[NewAddr].ofs = frags'.pieces[Len(frags'.pieces)].objLen
      /\ FragsOK(frags')
  BY <1>2, <1>5 DEF Addr, Sound
<1>7. \A a \in AddrIds : BeforeNext(a, NewAddr)
  BY <1>2, <1>6, NewIsLast
<1> QED
  BY <1>2, <1>5, <1>7

\* The addresses of a procedure exist, and only the last one may lack its end.
ProcsHaveAddrs ==
  \A p \in DOMAIN procs :
    /\ procs[p].start \in AddrIds
    /\ procs[p].end # 0 => procs[p].end \in AddrIds
    /\ \A i \in DOMAIN procs[p].cfi : procs[p].cfi[i] \in AddrIds
LastIsOpen == proc_id = 0 \/ proc_id = Len(procs)

InvProcs == ProcsHaveAddrs /\ LastIsOpen /\ ProcsOrdered

\* InvProcs' for one procedure.
NextProcOK(p) ==
  /\ procs'[p].start \in DOMAIN addrs'
  /\ procs'[p].end # 0 => procs'[p].end \in DOMAIN addrs'
  /\ procs'[p].end = 0 <=> p = proc_id'
  /\ procs'[p].end # 0 => BeforeNext(procs'[p].start, procs'[p].end)
  /\ p > 1 => BeforeNext(procs'[p-1].end, procs'[p].start)
  /\ \A i \in DOMAIN procs'[p].cfi :
       /\ procs'[p].cfi[i] \in DOMAIN addrs'
       /\ BeforeNext(procs'[p].start, procs'[p].cfi[i])
       /\ i > 1 => BeforeNext(procs'[p].cfi[i-1], procs'[p].cfi[i])
       /\ procs'[p].end # 0 => BeforeNext(procs'[p].cfi[i], procs'[p].end)

LEMMA ProcsNext ==
  ASSUME LastIsOpen', \A p \in DOMAIN procs' : NextProcOK(p)
  PROVE  InvProcs'
<1>1. ProcsHaveAddrs'
  BY DEF ProcsHaveAddrs, NextProcOK, AddrIds
<1>2. ProcsOrdered'
  BY DEF ProcsOrdered, NextProcOK, Before, BeforeNext
<1> QED
  BY <1>1, <1>2 DEF InvProcs

\* What InvProcs says of one procedure, and of the addresses it has.
LEMMA ProcFacts ==
  ASSUME Inv1, InvProcs, AddrsExtend, NEW p \in DOMAIN procs
  PROVE  /\ procs[p].start \in AddrIds /\ procs[p].start \in DOMAIN addrs'
         /\ procs[p].cfi \in Seq(Nat)
         /\ procs[p].end = 0 <=> p = proc_id
         /\ procs[p].end # 0 => /\ procs[p].end \in AddrIds /\ procs[p].end \in DOMAIN addrs'
                                /\ BeforeNext(procs[p].start, procs[p].end)
         /\ p > 1 => p - 1 \in DOMAIN procs /\ BeforeNext(procs[p-1].end, procs[p].start)
         /\ \A i \in DOMAIN procs[p].cfi :
              /\ procs[p].cfi[i] \in AddrIds /\ procs[p].cfi[i] \in DOMAIN addrs'
              /\ BeforeNext(procs[p].start, procs[p].cfi[i])
              /\ i > 1 => BeforeNext(procs[p].cfi[i-1], procs[p].cfi[i])
              /\ procs[p].end # 0 => BeforeNext(procs[p].cfi[i], procs[p].end)
<1>1. /\ procs \in Seq(ProcType) /\ DOMAIN procs = 1 .. Len(procs) /\ Len(procs) \in Nat
      /\ proc_id \in 0 .. Len(procs)
  BY DEF Inv1, TypeOK, ProcsTypeOK, ProcType
<1>2. procs[p] \in ProcType
  BY <1>1
<1>3. procs[p].cfi \in Seq(Nat)
  BY <1>2 DEF ProcType
<1>4. /\ procs[p].end = 0 <=> p = proc_id
      /\ procs[p].end # 0 => Before(procs[p].start, procs[p].end)
      /\ p > 1 => Before(procs[p-1].end, procs[p].start)
      /\ \A i \in DOMAIN procs[p].cfi :
           /\ Before(procs[p].start, procs[p].cfi[i])
           /\ i > 1 => Before(procs[p].cfi[i-1], procs[p].cfi[i])
           /\ procs[p].end # 0 => Before(procs[p].cfi[i], procs[p].end)
  BY DEF InvProcs, ProcsOrdered
<1>5. /\ procs[p].start \in AddrIds
      /\ procs[p].end # 0 => procs[p].end \in AddrIds
      /\ \A i \in DOMAIN procs[p].cfi : procs[p].cfi[i] \in AddrIds
  BY DEF InvProcs, ProcsHaveAddrs
<1>6. \A a \in AddrIds : a \in DOMAIN addrs'
  BY DEF AddrsExtend
<1>7. ASSUME p > 1
      PROVE  p - 1 \in DOMAIN procs /\ BeforeNext(procs[p-1].end, procs[p].start)
  <2>1. p - 1 \in 1 .. Len(procs) /\ p - 1 # 0 /\ p - 1 # Len(procs)
    BY <1>1, <1>7
  <2>2. p - 1 # proc_id
    BY <2>1 DEF InvProcs, LastIsOpen
  <2>3. procs[p-1].end # 0
    BY <1>1, <2>1, <2>2 DEF InvProcs, ProcsOrdered
  <2>4. procs[p-1].end \in AddrIds
    BY <1>1, <2>1, <2>3 DEF InvProcs, ProcsHaveAddrs
  <2> QED
    BY <1>1, <1>4, <1>5, <1>7, <2>1, <2>4, BeforeStays
<1>8. ASSUME NEW i \in DOMAIN procs[p].cfi
      PROVE  /\ BeforeNext(procs[p].start, procs[p].cfi[i])
             /\ i > 1 => BeforeNext(procs[p].cfi[i-1], procs[p].cfi[i])
             /\ procs[p].end # 0 => BeforeNext(procs[p].cfi[i], procs[p].end)
  <2>1. i > 1 => i - 1 \in DOMAIN procs[p].cfi
    BY <1>3
  <2>2. i > 1 => BeforeNext(procs[p].cfi[i-1], procs[p].cfi[i])
    BY <1>4, <1>5, <2>1, BeforeStays
  <2> QED
    BY <1>4, <1>5, <2>2, BeforeStays
<1>9. procs[p].end # 0 => BeforeNext(procs[p].start, procs[p].end)
  BY <1>4, <1>5, BeforeStays
<1> QED
  BY <1>3, <1>4, <1>5, <1>6, <1>7, <1>8, <1>9

\* A procedure no step touches.
LEMMA ProcStays ==
  ASSUME Inv1, InvProcs, AddrsExtend, NEW p \in DOMAIN procs,
         procs'[p] = procs[p], p > 1 => procs'[p-1] = procs[p-1],
         p = proc_id <=> p = proc_id'
  PROVE  NextProcOK(p)
BY ProcFacts DEF NextProcOK

LEMMA ProcsStay ==
  ASSUME Inv1, InvProcs, AddrsExtend, UNCHANGED <<procs, proc_id>>
  PROVE  InvProcs'
<1>1. LastIsOpen'
  BY DEF InvProcs, LastIsOpen
<1>2. \A p \in DOMAIN procs' : NextProcOK(p)
  BY ProcStays
<1> QED
  BY <1>1, <1>2, ProcsNext

LEMMA ProcsTyped ==
  ASSUME Inv1
  PROVE  /\ procs \in Seq(ProcType) /\ DOMAIN procs = 1 .. Len(procs) /\ Len(procs) \in Nat
         /\ proc_id \in 0 .. Len(procs)
BY DEF Inv1, TypeOK, ProcsTypeOK, ProcType

LEMMA StartProcOrdered ==
  ASSUME Inv1, InvProcs, StartProc
  PROVE  InvProcs'
<1> DEFINE q == Len(procs) + 1
           P == [start |-> NewAddr, end |-> 0, cfi |-> <<>>]
<1>1. /\ procs \in Seq(ProcType) /\ DOMAIN procs = 1 .. Len(procs) /\ Len(procs) \in Nat
  BY ProcsTyped
<1>2. procs' = Append(procs, P) /\ proc_id = 0 /\ proc_id' = q
  BY DEF StartProc
<1>3. HereAddr("startproc", seg_id, EnsuredLen(seg_id), emitted[seg_id])
  BY DEF HereAddr, StartProc, TakeAddrHere
<1>4. /\ AddrsExtend /\ NewAddr \in DOMAIN addrs'
      /\ \A a \in AddrIds : BeforeNext(a, NewAddr)
  BY <1>3, HereIsLast
<1>5. /\ DOMAIN procs' = 1 .. q /\ Len(procs') = q /\ procs'[q] = P
      /\ \A p \in DOMAIN procs : procs'[p] = procs[p]
  BY <1>1, <1>2
<1>6. LastIsOpen'
  BY <1>2, <1>5 DEF LastIsOpen
<1>7. ASSUME NEW p \in DOMAIN procs', p # q
      PROVE  NextProcOK(p)
  <2>1. p \in DOMAIN procs /\ p # 0 /\ (p > 1 => p - 1 \in DOMAIN procs)
    BY <1>1, <1>5, <1>7
  <2> QED
    BY <1>2, <1>4, <1>5, <1>7, <2>1, ProcStays
<1>8. NextProcOK(q)
  <2>1. procs'[q].start = NewAddr /\ procs'[q].end = 0 /\ procs'[q].cfi = <<>>
    BY <1>5
  <2>2. ASSUME q > 1
        PROVE  BeforeNext(procs'[q-1].end, NewAddr)
    <3>1. q - 1 \in DOMAIN procs /\ q - 1 # 0
      BY <1>1, <2>2
    <3>2. procs[q-1].end \in AddrIds /\ procs'[q-1] = procs[q-1]
      BY <1>2, <1>4, <1>5, <3>1, ProcFacts
    <3> QED
      BY <1>4, <3>2
  <2>3. DOMAIN procs'[q].cfi = {}
    BY <2>1
  <2> HIDE DEF q
  <2>4. q > 1 => BeforeNext(procs'[q-1].end, procs'[q].start)
    BY <2>1, <2>2
  <2> QED
    BY <1>2, <1>4, <2>1, <2>3, <2>4 DEF NextProcOK
<1> QED
  BY <1>6, <1>7, <1>8, ProcsNext

LEMMA EndProcOrdered ==
  ASSUME Inv1, InvProcs, EndProc
  PROVE  InvProcs'
<1> DEFINE q == proc_id
           P == [procs[q] EXCEPT !.end = NewAddr]
<1>1. /\ procs \in Seq(ProcType) /\ DOMAIN procs = 1 .. Len(procs) /\ Len(procs) \in Nat
      /\ q \in 0 .. Len(procs) /\ q > 0
  BY ProcsTyped DEF EndProc
<1>2. procs' = [procs EXCEPT ![q] = P] /\ proc_id' = 0
  BY DEF EndProc
<1>3. HereAddr("endproc", seg_id, EnsuredLen(seg_id), emitted[seg_id])
  BY DEF HereAddr, EndProc, TakeAddrHere
<1>4. /\ AddrsExtend /\ NewAddr \in DOMAIN addrs' /\ NewAddr # 0
      /\ \A a \in AddrIds : BeforeNext(a, NewAddr)
  BY <1>3, HereIsLast
<1>5. q \in DOMAIN procs /\ procs[q] \in ProcType
  BY <1>1
<1>6. P.start = procs[q].start /\ P.end = NewAddr /\ P.cfi = procs[q].cfi
  BY <1>5 DEF ProcType
<1> HIDE DEF P
<1>7. /\ DOMAIN procs' = DOMAIN procs /\ procs'[q] = P
      /\ \A p \in DOMAIN procs : p # q => procs'[p] = procs[p]
  BY <1>1, <1>2, <1>5
<1>8. q = Len(procs)
  <2>1. q # 0
    BY <1>1
  <2> QED
    BY <2>1 DEF InvProcs, LastIsOpen
<1>9. ASSUME NEW p \in DOMAIN procs', p # q
      PROVE  NextProcOK(p)
  <2>1. p \in DOMAIN procs /\ p # 0 /\ (p > 1 => p - 1 \in DOMAIN procs /\ p - 1 # q)
    BY <1>1, <1>7, <1>8, <1>9
  <2> QED
    BY <1>2, <1>4, <1>7, <1>9, <2>1, ProcStays
<1>10. NextProcOK(q)
  <2>1. /\ procs[q].start \in AddrIds /\ procs[q].start \in DOMAIN addrs'
        /\ q > 1 => q - 1 \in DOMAIN procs /\ BeforeNext(procs[q-1].end, procs[q].start)
        /\ \A i \in DOMAIN procs[q].cfi :
             /\ procs[q].cfi[i] \in AddrIds /\ procs[q].cfi[i] \in DOMAIN addrs'
             /\ BeforeNext(procs[q].start, procs[q].cfi[i])
             /\ i > 1 => BeforeNext(procs[q].cfi[i-1], procs[q].cfi[i])
    BY <1>4, <1>5, ProcFacts
  <2>2. /\ procs'[q].start = procs[q].start /\ procs'[q].end = NewAddr
        /\ procs'[q].cfi = procs[q].cfi
    BY <1>6, <1>7
  <2>3. q > 1 => procs'[q-1] = procs[q-1]
    BY <1>1, <1>7, <2>1
  <2>4. q # proc_id'
    BY <1>1, <1>2
  <2> HIDE DEF q
  <2> QED
    BY <1>4, <2>1, <2>2, <2>3, <2>4 DEF NextProcOK
<1>11. LastIsOpen'
  BY <1>2 DEF LastIsOpen
<1> QED
  BY <1>9, <1>10, <1>11, ProcsNext

LEMMA CfiOrdered ==
  ASSUME Inv1, InvProcs, Cfi
  PROVE  InvProcs'
<1> DEFINE q == proc_id
           c == procs[q].cfi
           d == Append(c, NewAddr)
           P == [procs[q] EXCEPT !.cfi = d]
<1>1. /\ procs \in Seq(ProcType) /\ DOMAIN procs = 1 .. Len(procs) /\ Len(procs) \in Nat
      /\ q \in 0 .. Len(procs) /\ q > 0
  BY ProcsTyped DEF Cfi
<1>2. procs' = [procs EXCEPT ![q] = P] /\ proc_id' = q
  BY DEF Cfi
<1>3. HereAddr("cfi", seg_id, EnsuredLen(seg_id), emitted[seg_id])
  BY DEF HereAddr, Cfi, TakeAddrHere
<1>4. /\ AddrsExtend /\ NewAddr \in DOMAIN addrs'
      /\ \A a \in AddrIds : BeforeNext(a, NewAddr)
  BY <1>3, HereIsLast
<1>5. q \in DOMAIN procs /\ procs[q] \in ProcType
  BY <1>1
<1>6. c \in Seq(Nat)
  BY <1>5 DEF ProcType
<1>7. /\ d[Len(c) + 1] = NewAddr /\ DOMAIN d = 1 .. (Len(c) + 1)
      /\ DOMAIN c = 1 .. Len(c) /\ Len(c) \in Nat
      /\ \A i \in DOMAIN c : d[i] = c[i]
  BY <1>6
<1> HIDE DEF d
<1>8. P.start = procs[q].start /\ P.end = procs[q].end /\ P.cfi = d
  BY <1>5 DEF ProcType
<1> HIDE DEF P
<1>9. /\ DOMAIN procs' = DOMAIN procs /\ procs'[q] = P
      /\ \A p \in DOMAIN procs : p # q => procs'[p] = procs[p]
  BY <1>1, <1>2, <1>5
<1>10. q = Len(procs)
  <2>1. q # 0
    BY <1>1
  <2> QED
    BY <2>1 DEF InvProcs, LastIsOpen
<1>11. ASSUME NEW p \in DOMAIN procs', p # q
       PROVE  NextProcOK(p)
  <2>1. p \in DOMAIN procs /\ (p > 1 => p - 1 \in DOMAIN procs /\ p - 1 # q)
    BY <1>1, <1>9, <1>10, <1>11
  <2> QED
    BY <1>2, <1>4, <1>9, <1>11, <2>1, ProcStays
<1>12. NextProcOK(q)
  <2>1. /\ procs[q].start \in AddrIds /\ procs[q].start \in DOMAIN addrs' /\ procs[q].end = 0
        /\ q > 1 => q - 1 \in DOMAIN procs /\ BeforeNext(procs[q-1].end, procs[q].start)
        /\ \A i \in DOMAIN c :
             /\ c[i] \in AddrIds /\ c[i] \in DOMAIN addrs'
             /\ BeforeNext(procs[q].start, c[i])
             /\ i > 1 => BeforeNext(c[i-1], c[i])
    BY <1>4, <1>5, ProcFacts
  <2>2. /\ procs'[q].start = procs[q].start /\ procs'[q].end = 0 /\ procs'[q].cfi = d
    BY <1>8, <1>9, <2>1
  <2>3. q > 1 => procs'[q-1] = procs[q-1]
    BY <1>1, <1>9, <2>1
  <2>4. ASSUME NEW i \in DOMAIN d
        PROVE  /\ d[i] \in DOMAIN addrs' /\ BeforeNext(procs[q].start, d[i])
               /\ i > 1 => BeforeNext(d[i-1], d[i])
    <3>1. CASE i \in DOMAIN c
      <4>1. d[i] = c[i] /\ (i > 1 => d[i-1] = c[i-1])
        BY <1>7, <3>1
      <4> QED
        BY <2>1, <3>1, <4>1
    <3>2. CASE i = Len(c) + 1
      <4>1. d[i] = NewAddr
        BY <1>7, <3>2
      <4>2. ASSUME i > 1
            PROVE  d[i-1] \in AddrIds
        <5>1. i - 1 \in DOMAIN c
          BY <1>7, <3>2, <4>2
        <5> QED
          BY <1>7, <2>1, <5>1
      <4> QED
        BY <1>4, <2>1, <4>1, <4>2
    <3> QED
      BY <1>7, <3>1, <3>2
  <2> HIDE DEF q
  <2> QED
    BY <1>2, <2>1, <2>2, <2>3, <2>4 DEF NextProcOK
<1>13. LastIsOpen'
  BY <1>2, <1>9, <1>10, <1>1 DEF LastIsOpen
<1> QED
  BY <1>11, <1>12, <1>13, ProcsNext

LEMMA InvProcsStep == Inv1 /\ InvProcs /\ [NextPass1]_vars => InvProcs'
<1> SUFFICES ASSUME Inv1, InvProcs, [NextPass1]_vars PROVE InvProcs'
  OBVIOUS
<1>1. AddrsExtend
  BY Inv1Step DEF Keeps
<1>2. CASE StartProc \/ EndProc \/ Cfi
  BY <1>2, StartProcOrdered, EndProcOrdered, CfiOrdered
<1>3. CASE UNCHANGED <<procs, proc_id>>
  BY <1>1, <1>3, ProcsStay
<1>4. StartProc \/ EndProc \/ Cfi \/ UNCHANGED <<procs, proc_id>>
  BY DEF NextPass1, Statement, Jcc, Jmp, Call, Jump, Lea, Quad, LabelInStruct, Label, Equ, Declare,
         Size, Code, Text, Rodata, OpenSection, Struct, FailBegin, FailTooLarge, FailSize, Fail,
         vars, pass1Vars
<1> QED
  BY <1>2, <1>3, <1>4

\* The addresses of procedures and of their CFI records are in source order,
\* so that the advances and lengths _resolve_cfi subtracts are never negative.
THEOREM ProcsOrderedHolds == SpecPass1 => []ProcsOrdered
<1>1. InitPass1 => InvProcs
  BY DEF InitPass1, InvProcs, ProcsHaveAddrs, LastIsOpen, ProcsOrdered
<1>2. InvProcs => ProcsOrdered
  BY DEF InvProcs
<1> QED
  BY Inv1Holds, InvProcsStep, <1>1, <1>2, PTL DEF SpecPass1

------------------------------------------------------------------------------
(* AddressesStay.  The items of a segment are counted over its fragments;   *)
(* the sum in front of a fragment changes only with fragments before it,    *)
(* and those are closed.                                                    *)

Lens(F) == [id \in DOMAIN F.pieces |-> ItemLen(F.pieces[id])]
Front(F, s, m) == IdsOf(F, s) \cap 1 .. (m - 1)
Below(F, s, m) == SumFunctionOnSet(Lens(F), Front(F, s, m))

\* History and layout agree: what the source has put into a segment is what
\* its fragments hold.
EmittedIs == \A s \in Segments : emitted[s] = Below(frags, s, Len(frags.pieces) + 1)

\* Only .text and .section .rodata open their segments, and they leave a name.
Named(s, name) ==
  seg_id = s \/ (\E id \in DOMAIN frags.pieces : frags.pieces[id].seg = s)
    => syms[name].type # "ABSENT"
SectionsNamed == Named("CSEG", ".text") /\ Named("DSEG", ".rodata")

\* The inductive invariant of AddressesStay, over Inv1.
InvStay == AddressesStay /\ EmittedIs /\ SectionsNamed

LEMMA ItemLenNat ==
  ASSUME NEW f \in Fragment
  PROVE  ItemLen(f) \in Nat /\ (~HasJmp(f) => ItemLen(f) = f.objLen) /\ (HasJmp(f) => ItemLen(f) = f.objLen + 1)
<1>1. f.objLen \in Nat
  BY DEF Fragment
<1> QED
  BY <1>1 DEF ItemLen

\* The fragments of a segment before position m.
LEMMA IdsBefore ==
  ASSUME NEW F, F.pieces \in Seq(Fragment), NEW s, NEW m \in Nat
  PROVE  IsFiniteSet(Front(F, s, m)) /\ \A i \in Front(F, s, m) : Lens(F)[i] \in Nat /\ i \in DOMAIN F.pieces
<1> DEFINE S == Front(F, s, m)
<1>1. IsFiniteSet(1 .. (m - 1)) /\ S \subseteq 1 .. (m - 1)
  BY FS_Interval DEF Front
<1>2. \A i \in S : i \in DOMAIN F.pieces /\ F.pieces[i] \in Fragment
  BY DEF IdsOf, Front
<1>3. \A i \in S : Lens(F)[i] \in Nat
  BY <1>2, ItemLenNat DEF Lens
<1> QED
  BY <1>1, <1>2, <1>3, FS_Subset

LEMMA BelowNat ==
  ASSUME NEW F, F.pieces \in Seq(Fragment), NEW s, NEW m \in Nat
  PROVE  Below(F, s, m) \in Nat
<1> DEFINE S == Front(F, s, m)
<1>1. IsFiniteSet(S) /\ \A i \in S : Lens(F)[i] \in Nat
  BY IdsBefore
<1> HIDE DEF S
<1>2. SumFunctionOnSet(Lens(F), S) \in Nat
  BY <1>1, SumType
<1> QED
  BY <1>2 DEF Below, S

\* It depends on the fragments in front of m only.
LEMMA BelowSame ==
  ASSUME NEW F, F.pieces \in Seq(Fragment), NEW G, G.pieces \in Seq(Fragment), NEW s, NEW m \in Nat,
         m - 1 <= Len(F.pieces), m - 1 <= Len(G.pieces),
         \A i \in 1 .. (m - 1) : F.pieces[i] = G.pieces[i]
  PROVE  Below(F, s, m) = Below(G, s, m)
<1> DEFINE S == Front(F, s, m)
           R == Front(G, s, m)
<1>1. \A i \in 1 .. (m - 1) : i \in DOMAIN F.pieces /\ i \in DOMAIN G.pieces
  OBVIOUS
<1>2. S = R
  BY <1>1 DEF IdsOf, Front
<1>3. \A i \in S : Lens(F)[i] = Lens(G)[i]
  BY <1>1 DEF Lens, Front
<1>4. IsFiniteSet(S) /\ \A i \in S : Lens(F)[i] \in Int
  BY IdsBefore
<1>5. SumFunctionOnSet(Lens(F), S) = SumFunctionOnSet(Lens(G), S)
  <2> HIDE DEF S
  <2> QED
    BY <1>3, <1>4, SumSame
<1> QED
  BY <1>2, <1>5 DEF Below

\* One fragment more.
LEMMA BelowStep ==
  ASSUME NEW F, F.pieces \in Seq(Fragment), NEW s, NEW m \in DOMAIN F.pieces
  PROVE  Below(F, s, m + 1) = Below(F, s, m) + IF F.pieces[m].seg = s THEN ItemLen(F.pieces[m]) ELSE 0
<1> DEFINE S == Front(F, s, m)
           R == Front(F, s, m + 1)
<1>1. m \in Nat /\ m + 1 \in Nat /\ \A i : i \in 1 .. (m + 1 - 1) <=> i \in 1 .. (m - 1) \/ i = m
  OBVIOUS
<1>2. m \notin 1 .. (m - 1)
  BY <1>1
<1>a. IsFiniteSet(S) /\ IsFiniteSet(R) /\ (\A i \in S : Lens(F)[i] \in Int) /\ (\A i \in R : Lens(F)[i] \in Int)
  BY <1>1, IdsBefore
<1>3. CASE F.pieces[m].seg = s
  <2>1. R = S \cup {m} /\ m \notin S
    BY <1>1, <1>2, <1>3 DEF IdsOf, Front
  <2>2. Lens(F)[m] = ItemLen(F.pieces[m])
    BY DEF Lens
  <2>3. SumFunctionOnSet(Lens(F), S \cup {m}) = Lens(F)[m] + SumFunctionOnSet(Lens(F), S)
    <3>1. \A i \in S \cup {m} : Lens(F)[i] \in Int
      BY <1>a, <2>1
    <3> HIDE DEF S, R
    <3> QED
      BY <1>a, <2>1, <3>1, SumAdd
  <2>4. Below(F, s, m + 1) = ItemLen(F.pieces[m]) + Below(F, s, m)
    BY <2>1, <2>2, <2>3 DEF Below
  <2>5. ItemLen(F.pieces[m]) \in Nat /\ Below(F, s, m) \in Nat
    BY <1>1, ItemLenNat, BelowNat
  <2> QED
    BY <1>3, <2>4, <2>5
<1>4. CASE F.pieces[m].seg # s
  <2>1. R = S
    BY <1>1, <1>2, <1>4 DEF IdsOf, Front
  <2>2. Below(F, s, m) \in Nat
    BY <1>1, BelowNat
  <2> QED
    BY <1>4, <2>1, <2>2 DEF Below
<1> QED
  BY <1>3, <1>4

------------------------------------------------------------------------------
\* A statement leaves all fragments but the last as _ensure_appending did, and
\* puts k items into that one.
Grown(G, s, k) ==
  /\ G.pieces \in Seq(Fragment) /\ Len(G.pieces) = EnsuredId(s)
  /\ \A i \in 1 .. (EnsuredId(s) - 1) : G.pieces[i] = Pieces(s)[i]
  /\ G.pieces[EnsuredId(s)].seg = s
  /\ ItemLen(G.pieces[EnsuredId(s)]) = EnsuredLen(s) + k

LEMMA EnsureGrown ==
  ASSUME FragsTypeOK, FragmentShape, CanEnsure, NEW s \in Segments
  PROVE  Grown(Ensured(s), s, 0) /\ ~HasJmp(Pieces(s)[EnsuredId(s)])
<1> DEFINE h == Pieces(s)[EnsuredId(s)]
<1>1. /\ Ensured(s) = [pieces |-> Pieces(s), open |-> TRUE] /\ Pieces(s) \in Seq(Fragment)
      /\ EnsuredId(s) \in DOMAIN Pieces(s) /\ EnsuredId(s) = Len(Pieces(s))
      /\ h.objLen = EnsuredLen(s) /\ h.seg = s /\ EnsuredLen(s) \in 0 .. ObjLenMax
  BY EnsuredType
<1>2. Ensured(s).pieces = Pieces(s) /\ Ensured(s).open = TRUE
  BY <1>1
<1>3. ~HasJmp(h)
  <2>1. ShapeOf(Ensured(s))
    BY EnsureSound DEF Sound
  <2>2. ~Closed(Ensured(s), EnsuredId(s))
    BY <1>1, <1>2 DEF Closed
  <2> QED
    BY <1>1, <1>2, <2>1, <2>2 DEF ShapeOf
<1>4. h \in Fragment
  BY <1>1
<1>5. ItemLen(h) = EnsuredLen(s) + 0
  BY <1>1, <1>3, <1>4, ItemLenNat
<1> QED
  BY <1>1, <1>2, <1>3, <1>5 DEF Grown

LEMMA ReplaceGrown ==
  ASSUME FragsTypeOK, NEW s \in Segments, NEW f \in Fragment, NEW b, NEW k,
         f.seg = s, ItemLen(f) = EnsuredLen(s) + k
  PROVE  Grown(Replaced(s, f, b), s, k)
<1>1. /\ Pieces(s) \in Seq(Fragment)
      /\ EnsuredId(s) \in DOMAIN Pieces(s) /\ EnsuredId(s) = Len(Pieces(s))
  BY EnsuredType
<1> DEFINE P == [Pieces(s) EXCEPT ![EnsuredId(s)] = f]
<1>2. P \in Seq(Fragment) /\ Len(P) = EnsuredId(s) /\ P[EnsuredId(s)] = f
      /\ \A i \in 1 .. (EnsuredId(s) - 1) : P[i] = Pieces(s)[i]
  BY <1>1
<1>3. Replaced(s, f, b).pieces = P
  BY DEF Replaced
<1> HIDE DEF P
<1> QED
  BY <1>2, <1>3 DEF Grown

LEMMA CodeGrown ==
  ASSUME FragsTypeOK, FragmentShape, CanEnsure, NEW s \in Segments,
         NEW k \in Nat, EnsuredLen(s) + k <= ObjLenMax
  PROVE  Grown(PushCode(Ensured(s), EnsuredId(s), k), s, k)
<1> DEFINE h == Pieces(s)[EnsuredId(s)]
           f == [h EXCEPT !.objLen = @ + k]
<1>1. /\ Ensured(s) = [pieces |-> Pieces(s), open |-> TRUE] /\ Pieces(s) \in Seq(Fragment)
      /\ EnsuredId(s) \in DOMAIN Pieces(s)
      /\ h.objLen = EnsuredLen(s) /\ h.seg = s /\ EnsuredLen(s) \in 0 .. ObjLenMax
      /\ ~HasJmp(h)
  BY EnsuredType, EnsureGrown
<1>2. h \in Fragment
  BY <1>1
<1>3. f \in Fragment /\ f.objLen = EnsuredLen(s) + k /\ f.seg = s /\ ~HasJmp(f)
  <2>1. h.objLen + k \in 0 .. ObjLenMax
    BY <1>1
  <2>2. f.jmp8 = h.jmp8 /\ f.jmp32 = h.jmp32
    BY <1>2 DEF Fragment
  <2>3. ~HasJmp(f)
    BY <1>1, <2>2 DEF HasJmp
  <2> QED
    BY <1>1, <1>2, <2>1, <2>3 DEF Fragment
<1>4. Ensured(s).pieces = Pieces(s) /\ Ensured(s).open = TRUE
  BY <1>1
<1>5. PushCode(Ensured(s), EnsuredId(s), k) = Replaced(s, f, TRUE)
  BY <1>4 DEF PushCode, With, Replaced
<1> HIDE DEF f
<1>6. ItemLen(f) = EnsuredLen(s) + k
  BY <1>3, ItemLenNat
<1>7. Grown(Replaced(s, f, TRUE), s, k)
  BY <1>3, <1>6, ReplaceGrown
<1> QED
  BY <1>5, <1>7

LEMMA JumpGrown ==
  ASSUME FragsTypeOK, FragmentShape, CanEnsure, NEW s \in Segments,
         NEW l \in Labels, NEW t \in RelTypes, NEW j8 \in JmpLens \ {0}, NEW j32 \in JmpLens \ {0}
  PROVE  Grown(EndAppending(PushJmp(Ensured(s), EnsuredId(s), l, t, j8, j32)), s, 1)
<1> DEFINE h == Pieces(s)[EnsuredId(s)]
           f == [h EXCEPT !.to = l, !.ofsType = t, !.jmp8 = j8, !.jmp32 = j32]
<1>1. /\ Ensured(s) = [pieces |-> Pieces(s), open |-> TRUE] /\ Pieces(s) \in Seq(Fragment)
      /\ EnsuredId(s) \in DOMAIN Pieces(s)
      /\ h.objLen = EnsuredLen(s) /\ h.seg = s /\ EnsuredLen(s) \in 0 .. ObjLenMax
  BY EnsuredType
<1>2. h \in Fragment
  BY <1>1
<1>3. f \in Fragment /\ f.objLen = EnsuredLen(s) /\ f.seg = s /\ HasJmp(f)
  BY <1>1, <1>2 DEF Fragment, HasJmp, JmpLens
<1>4. Ensured(s).pieces = Pieces(s) /\ Ensured(s).open = TRUE
  BY <1>1
<1>5. EndAppending(PushJmp(Ensured(s), EnsuredId(s), l, t, j8, j32)) = Replaced(s, f, FALSE)
  BY <1>4 DEF EndAppending, PushJmp, With, Replaced
<1> HIDE DEF f
<1>6. ItemLen(f) = EnsuredLen(s) + 1
  BY <1>3, ItemLenNat
<1>7. Grown(Replaced(s, f, FALSE), s, 1)
  BY <1>3, <1>6, ReplaceGrown
<1> QED
  BY <1>5, <1>7

------------------------------------------------------------------------------
\* AddressesStay for one address, ad, taken at me, over fragments F.
Stays(F, ad, me, rt) ==
  ad.frag \notin rt =>
    F.pieces[ad.frag].seg = me.seg /\ Below(F, me.seg, ad.frag) + ad.ofs = me.pos

LEMMA StayIs == AddressesStay <=> \A a \in AddrIds : Stays(frags, addrs[a], meant[a], retagged)
<1>1. \A a \in AddrIds :
        frags.pieces[addrs[a].frag].seg = meant[a].seg =>
          ItemsBefore(a) = Below(frags, meant[a].seg, addrs[a].frag) + addrs[a].ofs
  BY DEF ItemsBefore, ItemsBeforeFrag, ItemLens, Below, Lens, Front
<1> QED
  BY <1>1 DEF AddressesStay, Stays

LEMMA AddrTyped ==
  ASSUME TypeOK, AddrsInside, NEW a \in AddrIds
  PROVE  /\ addrs[a].frag \in DOMAIN frags.pieces /\ addrs[a].ofs \in Nat
         /\ addrs[a].frag \in Nat
<1> DEFINE T == [frag : Nat, ofs : Nat]
<1>1. addrs \in Seq(T)
  BY DEF TypeOK, AddrsTypeOK
<1> HIDE DEF T
<1>2. addrs[a] \in T
  BY <1>1 DEF AddrIds
<1> QED
  BY <1>2 DEF T, AddrsInside

\* A statement that puts k items into segment s.
Lays(m, s, k) ==
  /\ Appending(m, s) /\ Grown(frags', s, k)
  /\ emitted' = [emitted EXCEPT ![s] = @ + k]

LEMMA LaysSound ==
  ASSUME Inv1, InvStay, NEW s \in Segments, NEW m, NEW k \in Nat, Lays(m, s, k)
  PROVE  /\ EmittedIs'
         /\ \A a \in AddrIds : Stays(frags', addrs[a], meant[a], retagged')
         /\ Below(frags', s, EnsuredId(s)) + EnsuredLen(s) = emitted[s]
         /\ \A id \in DOMAIN frags'.pieces :
              \/ frags'.pieces[id].seg = s
              \/ id \in DOMAIN frags.pieces /\ frags'.pieces[id].seg = frags.pieces[id].seg
<1> DEFINE n == EnsuredId(s)
           P == frags.pieces
           Q == frags'.pieces
<1>1. FragsTypeOK /\ CanEnsure /\ FragmentShape /\ EnsuredLen(s) \in Nat /\ P \in Seq(Fragment)
  BY AppendingFacts DEF Lays, FragsTypeOK, FragsOK
<1>2. /\ Q \in Seq(Fragment) /\ Len(Q) = n /\ Q[n].seg = s /\ ItemLen(Q[n]) = EnsuredLen(s) + k
      /\ \A i \in 1 .. (n - 1) : Q[i] = Pieces(s)[i]
  BY DEF Lays, Grown
<1>3. n = Len(Pieces(s)) /\ n \in DOMAIN Pieces(s) /\ Pieces(s) \in Seq(Fragment)
  BY <1>1, EnsuredType
<1>4. n \in Nat \ {0} /\ DOMAIN Q = 1 .. n /\ n \in DOMAIN Q /\ DOMAIN P = 1 .. Len(P) /\ Len(P) \in Nat
  BY <1>1, <1>2, <1>3
<1>5. \/ n = Len(P) /\ n \in DOMAIN P /\ frags.open /\ EnsuredLen(s) = P[n].objLen
      \/ n = Len(P) + 1 /\ EnsuredLen(s) = 0
  BY <1>1, EnsuredLast
<1>6. \A i \in 1 .. (n - 1) : i \in DOMAIN P /\ Q[i] = P[i]
  <2> SUFFICES ASSUME NEW i \in 1 .. (n - 1) PROVE i \in DOMAIN P /\ Q[i] = P[i]
    OBVIOUS
  <2>1. i \in DOMAIN P
    BY <1>4, <1>5
  <2>2. frags.open /\ i = Len(P) => FALSE \/ n = Len(P) + 1
    BY <1>4, <1>5
  <2>3. Pieces(s)[i] = P[i]
    <3>1. CASE Reuses(frags, s)
      <4>1. n = Len(P) /\ Ensured(s) = [pieces |-> [P EXCEPT ![Len(P)] = [P[Len(P)] EXCEPT !.seg = s]], open |-> TRUE]
        BY <1>1, <3>1, EnsuredReused
      <4>2. Pieces(s) = [P EXCEPT ![Len(P)] = [P[Len(P)] EXCEPT !.seg = s]]
        BY <4>1 DEF Pieces
      <4>3. i # Len(P)
        BY <1>4, <4>1
      <4> QED
        BY <2>1, <4>2, <4>3
    <3>2. CASE ~Reuses(frags, s)
      <4>1. Pieces(s) = Append(P, NewFragment(s))
        BY <1>1, <3>2, EnsuredFresh DEF Pieces
      <4> QED
        BY <1>1, <2>1, <4>1
    <3> QED
      BY <3>1, <3>2
  <2> QED
    BY <1>2, <2>1, <2>3
<1>7. \A t, j : j \in 1 .. n => Below(frags', t, j) = Below(frags, t, j)
  <2> SUFFICES ASSUME NEW t, NEW j \in 1 .. n PROVE Below(frags', t, j) = Below(frags, t, j)
    OBVIOUS
  <2>1. j \in Nat /\ j - 1 <= Len(P) /\ j - 1 <= Len(Q) /\ \A i \in 1 .. (j - 1) : i \in 1 .. (n - 1)
    BY <1>2, <1>4, <1>5
  <2>2. \A i \in 1 .. (j - 1) : P[i] = Q[i]
    BY <1>6, <2>1
  <2>3. \A F, G : F.pieces \in Seq(Fragment) /\ G.pieces \in Seq(Fragment)
                   /\ j - 1 <= Len(F.pieces) /\ j - 1 <= Len(G.pieces)
                   /\ (\A i \in 1 .. (j - 1) : F.pieces[i] = G.pieces[i])
                     => Below(F, t, j) = Below(G, t, j)
    BY <2>1, BelowSame
  <2>4. Below(frags, t, j) = Below(frags', t, j)
    BY <1>1, <1>2, <2>1, <2>2, <2>3
  <2> QED
    BY <2>4
<1>8. \A t : Below(frags', t, n + 1) = Below(frags', t, n) + IF Q[n].seg = t THEN ItemLen(Q[n]) ELSE 0
  BY <1>2, <1>4, BelowStep
<1>9. \A t \in Segments : emitted[t] = Below(frags, t, n) + IF t = s THEN EnsuredLen(s) ELSE 0
  <2> SUFFICES ASSUME NEW t \in Segments
               PROVE  emitted[t] = Below(frags, t, n) + IF t = s THEN EnsuredLen(s) ELSE 0
    OBVIOUS
  <2>0. emitted[t] = Below(frags, t, Len(P) + 1) /\ Below(frags, t, n) \in Nat
    BY <1>1, <1>4, BelowNat DEF InvStay, EmittedIs
  <2>1. CASE n = Len(P) + 1 /\ EnsuredLen(s) = 0
    BY <2>0, <2>1
  <2>2. CASE n = Len(P) /\ n \in DOMAIN P /\ frags.open /\ EnsuredLen(s) = P[n].objLen
    <3>1. Below(frags, t, n + 1) = Below(frags, t, n) + IF P[n].seg = t THEN ItemLen(P[n]) ELSE 0
      BY <1>1, <2>2, BelowStep
    <3>2. ~HasJmp(P[n])
      <4>1. ~Closed(frags, n)
        BY <1>4, <2>2 DEF Closed
      <4> QED
        BY <1>1, <2>2, <4>1 DEF FragmentShape, ShapeOf
    <3>3. ItemLen(P[n]) = EnsuredLen(s)
      BY <1>1, <2>2, <3>2, ItemLenNat
    <3>4. P[n].seg = s \/ EnsuredLen(s) = 0
      <4>1. Reuses(frags, s)
        <5>1. SUFFICES ASSUME ~Reuses(frags, s) PROVE FALSE
          OBVIOUS
        <5>2. n = Len(P) + 1
          BY <1>1, <5>1, EnsuredFresh
        <5> QED
          BY <1>4, <2>2, <5>2
      <4> QED
        BY <1>1, <2>2, <4>1, EnsuredReused
    <3>5. emitted[t] = Below(frags, t, n + 1)
      BY <2>0, <2>2
    <3> QED
      BY <1>1, <2>0, <3>1, <3>3, <3>4, <3>5
  <2> QED
    BY <1>5, <2>1, <2>2
<1>10. \A t \in Segments : Below(frags, t, n) \in Nat
  BY <1>1, <1>4, BelowNat
<1>11. Below(frags', s, n) + EnsuredLen(s) = emitted[s]
  <2>1. n \in 1 .. n
    BY <1>4
  <2> QED
    BY <1>7, <1>9, <2>1
<1>12. EmittedIs'
  <2> SUFFICES ASSUME NEW t \in Segments PROVE emitted'[t] = Below(frags', t, Len(Q) + 1)
    BY DEF EmittedIs
  <2>1. emitted'[t] = IF t = s THEN emitted[t] + k ELSE emitted[t]
    BY DEF Lays, Inv1, TypeOK, OtherTypeOK
  <2>2. Below(frags', t, n) = Below(frags, t, n)
    BY <1>4, <1>7
  <2>3. Below(frags', t, n + 1) = Below(frags, t, n) + IF t = s THEN EnsuredLen(s) + k ELSE 0
    BY <1>2, <1>8, <2>2
  <2>4. emitted[t] = Below(frags, t, n) + IF t = s THEN EnsuredLen(s) ELSE 0
    BY <1>9
  <2>5. Len(Q) = n
    BY <1>2
  <2> HIDE DEF n, Q
  <2> QED
    BY <1>1, <1>10, <2>1, <2>3, <2>4, <2>5
<1>13. ASSUME NEW a \in AddrIds PROVE Stays(frags', addrs[a], meant[a], retagged')
  <2> DEFINE i == addrs[a].frag
             me == meant[a]
  <2>1. i \in DOMAIN P /\ i \in Nat
    BY AddrTyped DEF Inv1
  <2>2. Stays(frags, addrs[a], me, retagged)
    BY StayIs DEF InvStay
  <2>3. retagged \subseteq retagged'
    BY DEF Lays, Appending, NoteRetag
  <2>4. SUFFICES ASSUME i \notin retagged'
                 PROVE  Q[i].seg = me.seg /\ Below(frags', me.seg, i) + addrs[a].ofs = me.pos
    BY DEF Stays
  <2>5. P[i].seg = me.seg /\ Below(frags, me.seg, i) + addrs[a].ofs = me.pos
    BY <2>2, <2>3, <2>4 DEF Stays
  <2>6. i \in 1 .. n
    BY <1>4, <1>5, <2>1
  <2>7. Below(frags', me.seg, i) = Below(frags, me.seg, i)
    BY <1>7, <2>6
  <2>8. Q[i].seg = P[i].seg
    <3>1. CASE i \in 1 .. (n - 1)
      BY <1>6, <3>1
    <3>2. CASE i = n
      <4>1. n = Len(P) /\ n \in DOMAIN P /\ frags.open
        BY <1>4, <1>5, <2>1, <3>2
      <4>2. GetAppending(frags) = n /\ n # 0
        BY <1>4, <4>1, AppendingFacts DEF Lays, CanEnsure, GetAppending
      <4>3. Ensured(s).pieces[n].seg = s
        BY <1>1, EnsuredType DEF Pieces
      <4>4. SUFFICES ASSUME P[n].seg # s PROVE FALSE
        BY <1>2, <3>2
      <4>5. n \in retagged'
        BY <3>2, <4>2, <4>3, <4>4 DEF Lays, Appending, NoteRetag, AddrIds
      <4> QED
        BY <2>4, <3>2, <4>5
    <3> QED
      BY <1>4, <2>6, <3>1, <3>2
  <2> QED
    BY <2>5, <2>7, <2>8
<1>14. ASSUME NEW id \in DOMAIN Q
       PROVE  Q[id].seg = s \/ (id \in DOMAIN P /\ Q[id].seg = P[id].seg)
  <2>1. id = n \/ id \in 1 .. (n - 1)
    BY <1>4
  <2>2. id \in 1 .. (n - 1) => id \in DOMAIN P /\ Q[id].seg = P[id].seg
    BY <1>6
  <2> QED
    BY <1>2, <2>1, <2>2
<1> QED
  BY <1>11, <1>12, <1>13, <1>14

------------------------------------------------------------------------------
\* The same for the next state.
LEMMA StayIsNext ==
  AddressesStay' <=> \A a \in DOMAIN addrs' : Stays(frags', addrs'[a], meant'[a], retagged')
<1>1. \A a \in DOMAIN addrs' :
        frags'.pieces[addrs'[a].frag].seg = meant'[a].seg =>
          ItemsBefore(a)' = Below(frags', meant'[a].seg, addrs'[a].frag) + addrs'[a].ofs
  BY DEF ItemsBefore, ItemsBeforeFrag, ItemLens, Below, Lens, Front
<1>2. AddressesStay' <=>
        \A a \in DOMAIN addrs' :
          addrs'[a].frag \notin retagged' =>
            /\ frags'.pieces[addrs'[a].frag].seg = meant'[a].seg
            /\ ItemsBefore(a)' = meant'[a].pos
  BY DEF AddressesStay, AddrIds
<1> QED
  BY <1>1, <1>2 DEF Stays

\* A section that has its name keeps it; the segment gone to has one.
NamesGiven(s) ==
  /\ \A n \in SectionNames : syms[n].type # "ABSENT" => syms'[n].type # "ABSENT"
  /\ s = "CSEG" => syms'[".text"].type # "ABSENT"
  /\ s = "DSEG" => syms'[".rodata"].type # "ABSENT"

LEMMA NamesStay ==
  ASSUME SectionsNamed, NEW s, seg_id' = s, NamesGiven(s),
         \A id \in DOMAIN frags'.pieces :
           \/ frags'.pieces[id].seg = s
           \/ (id \in DOMAIN frags.pieces /\ frags'.pieces[id].seg = frags.pieces[id].seg)
  PROVE  SectionsNamed'
<1>1. ".text" \in SectionNames /\ ".rodata" \in SectionNames
  BY DEF SectionNames
<1>2. (seg_id' = "CSEG" \/ \E id \in DOMAIN frags'.pieces : frags'.pieces[id].seg = "CSEG")
        => syms'[".text"].type # "ABSENT"
  BY <1>1 DEF NamesGiven, SectionsNamed, Named
<1>3. (seg_id' = "DSEG" \/ \E id \in DOMAIN frags'.pieces : frags'.pieces[id].seg = "DSEG")
        => syms'[".rodata"].type # "ABSENT"
  BY <1>1 DEF NamesGiven, SectionsNamed, Named
<1> QED
  BY <1>2, <1>3 DEF SectionsNamed, Named

\* A statement goes on in the segment it finds, whose section has its name.
LEMMA SameSegment ==
  ASSUME SectionsNamed, \A n \in SectionNames : syms[n].type # "ABSENT" => syms'[n].type # "ABSENT"
  PROVE  NamesGiven(seg_id)
<1>1. ".text" \in SectionNames /\ ".rodata" \in SectionNames
  BY DEF SectionNames
<1> QED
  BY <1>1 DEF NamesGiven, SectionsNamed, Named

\* A statement that leaves the layout alone.
LEMMA StillStays ==
  ASSUME InvStay, UNCHANGED <<frags, addrs, meant, emitted, retagged>>, NamesGiven(seg_id')
  PROVE  InvStay'
<1>1. AddressesStay'
  <2>1. \A a \in DOMAIN addrs' : Stays(frags', addrs'[a], meant'[a], retagged')
    BY StayIs DEF InvStay, AddrIds
  <2> QED
    BY <2>1, StayIsNext
<1>2. EmittedIs'
  BY DEF InvStay, EmittedIs, Below, Lens, Front
<1>3. SectionsNamed'
  BY NamesStay DEF InvStay
<1> QED
  BY <1>1, <1>2, <1>3 DEF InvStay

\* A statement that writes, and takes at most one address, j items into what
\* it writes.
LEMMA LaysStays ==
  ASSUME Inv1, InvStay, NEW s \in Segments, NEW m, NEW k \in Nat, Lays(m, s, k),
         seg_id' = s, NamesGiven(s),
         \/ UNCHANGED <<addrs, meant>>
         \/ \E j \in Nat : TakeAddr(EnsuredId(s), EnsuredLen(s) + j, s, emitted[s] + j)
  PROVE  InvStay'
<1>1. /\ EmittedIs'
      /\ \A a \in AddrIds : Stays(frags', addrs[a], meant[a], retagged')
      /\ Below(frags', s, EnsuredId(s)) + EnsuredLen(s) = emitted[s]
      /\ \A id \in DOMAIN frags'.pieces :
           \/ frags'.pieces[id].seg = s
           \/ (id \in DOMAIN frags.pieces /\ frags'.pieces[id].seg = frags.pieces[id].seg)
  BY LaysSound
<1>2. SectionsNamed'
  BY <1>1, NamesStay DEF InvStay
<1>3. AddressesStay'
  <2>1. CASE UNCHANGED <<addrs, meant>>
    <3>1. \A a \in DOMAIN addrs' : Stays(frags', addrs'[a], meant'[a], retagged')
      BY <1>1, <2>1 DEF AddrIds
    <3> QED
      BY <3>1, StayIsNext
  <2>2. CASE \E j \in Nat : TakeAddr(EnsuredId(s), EnsuredLen(s) + j, s, emitted[s] + j)
    <3> PICK j \in Nat : TakeAddr(EnsuredId(s), EnsuredLen(s) + j, s, emitted[s] + j)
      BY <2>2
    <3> DEFINE ad == Addr(EnsuredId(s), EnsuredLen(s) + j)
               me == [seg |-> s, pos |-> emitted[s] + j]
    <3>1. addrs' = Append(addrs, ad) /\ meant' = Append(meant, me)
      BY DEF TakeAddr
    <3>2. /\ addrs \in Seq([frag : Nat, ofs : Nat])
          /\ meant \in Seq([seg : Segments, pos : Nat]) /\ Len(meant) = Len(addrs)
      BY DEF Inv1, TypeOK, AddrsTypeOK
    <3>3. Stays(frags', ad, me, retagged')
      <4>1. ad.frag = EnsuredId(s) /\ ad.ofs = EnsuredLen(s) + j /\ me.seg = s /\ me.pos = emitted[s] + j
        BY DEF Addr
      <4>2. frags'.pieces[EnsuredId(s)].seg = s
        BY DEF Lays, Grown
      <4>3. EnsuredLen(s) \in Nat /\ frags'.pieces \in Seq(Fragment) /\ EnsuredId(s) \in Nat
        <5>1. EnsuredLen(s) \in Nat /\ FragsTypeOK
          BY AppendingFacts DEF Lays
        <5>2. frags'.pieces \in Seq(Fragment) /\ Len(frags'.pieces) = EnsuredId(s)
          BY DEF Lays, Grown
        <5> QED
          BY <5>1, <5>2
      <4>4. Below(frags', s, EnsuredId(s)) \in Nat
        BY <4>3, BelowNat
      <4> HIDE DEF ad, me
      <4>5. Below(frags', s, EnsuredId(s)) + (EnsuredLen(s) + j) = emitted[s] + j
        BY <1>1, <4>3, <4>4
      <4> QED
        BY <4>1, <4>2, <4>5 DEF Stays
    <3> HIDE DEF ad, me
    <3>4. /\ DOMAIN addrs' = 1 .. (Len(addrs) + 1) /\ DOMAIN addrs = 1 .. Len(addrs) /\ Len(addrs) \in Nat
          /\ addrs'[Len(addrs) + 1] = ad /\ meant'[Len(addrs) + 1] = me
          /\ \A a \in DOMAIN addrs : addrs'[a] = addrs[a] /\ meant'[a] = meant[a]
      BY <3>1, <3>2
    <3>5. ASSUME NEW a \in DOMAIN addrs'
          PROVE  Stays(frags', addrs'[a], meant'[a], retagged')
      <4>1. CASE a \in DOMAIN addrs
        BY <1>1, <3>4, <4>1 DEF AddrIds
      <4>2. CASE a = Len(addrs) + 1
        BY <3>3, <3>4, <4>2
      <4> QED
        BY <3>4, <4>1, <4>2
    <3> QED
      BY <3>5, StayIsNext
  <2> QED
    BY <2>1, <2>2
<1> QED
  BY <1>1, <1>2, <1>3 DEF InvStay

------------------------------------------------------------------------------
\* What goes to the segment it finds and keeps the names of the sections.
LEMMA WritesStays ==
  ASSUME Inv1, InvStay, NEW m, NEW k \in Nat, Lays(m, seg_id, k), UNCHANGED seg_id,
         \A n \in SectionNames : syms[n].type # "ABSENT" => syms'[n].type # "ABSENT",
         \/ UNCHANGED <<addrs, meant>>
         \/ \E j \in Nat : TakeAddr(EnsuredId(seg_id), EnsuredLen(seg_id) + j, seg_id, emitted[seg_id] + j)
  PROVE  InvStay'
<1>1. seg_id \in Segments
  BY DEF Inv1, TypeOK, OtherTypeOK
<1>2. NamesGiven(seg_id)
  BY SameSegment DEF InvStay
<1> QED
  BY <1>1, <1>2, LaysStays

LEMMA CodeStays ==
  ASSUME Inv1, InvStay, NEW n \in CodeLens, Code(n)
  PROVE  InvStay'
<1> DEFINE s == seg_id
<1>1. n \in Nat /\ s \in Segments
  BY DEF Inv1, TypeOK, OtherTypeOK
<1>2. CanEnsure /\ FragsTypeOK /\ FragmentShape
  BY <1>1, AppendingFacts DEF Code
<1>3. Lays("code", s, n)
  <2>1. Grown(frags', s, n)
    BY <1>1, <1>2, CodeGrown DEF Code, Fits
  <2> QED
    BY <2>1 DEF Code, Lays, Emit
<1> QED
  BY <1>1, <1>3, WritesStays DEF Code

LEMMA JumpStays ==
  ASSUME Inv1, InvStay, NEW m, NEW l \in Labels, NEW t \in RelTypes,
         NEW j8 \in JmpLens \ {0}, NEW j32 \in JmpLens \ {0}, Jump(m, l, t, j8, j32)
  PROVE  InvStay'
<1> DEFINE s == seg_id
<1>1. s \in Segments
  BY DEF Inv1, TypeOK, OtherTypeOK
<1>2. CanEnsure /\ FragsTypeOK /\ FragmentShape
  BY <1>1, AppendingFacts DEF Jump
<1>3. Lays(m, s, 1)
  <2>1. Grown(frags', s, 1)
    BY <1>1, <1>2, JumpGrown DEF Jump
  <2> QED
    BY <2>1 DEF Jump, Lays, Emit
<1> QED
  BY <1>3, WritesStays DEF Jump

LEMMA LeaStays ==
  ASSUME Inv1, InvStay, NEW l \in Labels, Lea(l)
  PROVE  InvStay'
<1> DEFINE s == seg_id
<1>1. s \in Segments /\ LeaLen \in Nat
  BY DEF Inv1, TypeOK, OtherTypeOK, LeaLen
<1>2. CanEnsure /\ FragsTypeOK /\ FragmentShape
  BY <1>1, AppendingFacts DEF Lea
<1>3. Lays("lea", s, LeaLen)
  <2>1. Grown(frags', s, LeaLen)
    BY <1>1, <1>2, CodeGrown DEF Lea, Fits
  <2> QED
    BY <2>1 DEF Lea, Lays, Emit
<1>4. TakeAddr(EnsuredId(s), EnsuredLen(s) + LeaLen, s, emitted[s] + LeaLen)
  BY DEF Lea, OfsAfterPush
<1> QED
  BY <1>1, <1>3, <1>4, WritesStays DEF Lea

LEMMA QuadStays ==
  ASSUME Inv1, InvStay, NEW l \in Labels, Quad(l)
  PROVE  InvStay'
<1> DEFINE s == seg_id
<1>1. s \in Segments /\ QuadLen \in Nat
  BY DEF Inv1, TypeOK, OtherTypeOK, QuadLen
<1>2. CanEnsure /\ FragsTypeOK /\ FragmentShape
  BY <1>1, AppendingFacts DEF Quad
<1>3. Lays("quad", s, QuadLen)
  <2>1. Grown(frags', s, QuadLen)
    BY <1>1, <1>2, CodeGrown DEF Quad, Fits
  <2> QED
    BY <2>1 DEF Quad, Lays, Emit
<1>4. \/ UNCHANGED <<addrs, meant>>
      \/ TakeAddr(EnsuredId(s), EnsuredLen(s) + QuadLen, s, emitted[s] + QuadLen)
  BY DEF Quad, OfsAfterPush
<1> QED
  BY <1>1, <1>3, <1>4, WritesStays DEF Quad

\* An address at the end of the fragment made sure of: nothing is written.
LEMMA HereLays ==
  ASSUME Inv1, NEW s \in Segments, NEW m, Appending(m, s), frags' = Ensured(s), UNCHANGED emitted
  PROVE  Lays(m, s, 0)
<1>1. CanEnsure /\ FragsTypeOK /\ FragmentShape
  BY AppendingFacts
<1>2. Grown(frags', s, 0)
  BY <1>1, EnsureGrown
<1>3. emitted' = [emitted EXCEPT ![s] = @ + 0]
  BY DEF Inv1, TypeOK, OtherTypeOK
<1> QED
  BY <1>2, <1>3 DEF Lays

LEMMA HereStays ==
  ASSUME Inv1, InvStay, NEW m, Appending(m, seg_id), frags' = Ensured(seg_id), TakeAddrHere,
         UNCHANGED <<seg_id, emitted>>,
         \A n \in SectionNames : syms[n].type # "ABSENT" => syms'[n].type # "ABSENT"
  PROVE  InvStay'
<1> DEFINE s == seg_id
<1>1. s \in Segments /\ emitted[s] \in Nat
  BY DEF Inv1, TypeOK, OtherTypeOK
<1>2. Lays(m, s, 0) /\ EnsuredLen(s) \in Nat
  BY <1>1, HereLays, AppendingFacts
<1>3. EnsuredLen(s) + 0 = EnsuredLen(s) /\ emitted[s] + 0 = emitted[s]
  BY <1>1, <1>2
<1>4. TakeAddr(EnsuredId(s), EnsuredLen(s) + 0, s, emitted[s] + 0)
  BY <1>3 DEF TakeAddrHere
<1> QED
  BY <1>2, <1>4, WritesStays

\* A value given to a name takes no name from a section.
LEMMA ValueNames ==
  ASSUME Inv1, NEW l \in Names, NEW v, v.type # "ABSENT", SetValue(l, v)
  PROVE  \A n \in Names : /\ syms[n].type # "ABSENT" => syms'[n].type # "ABSENT"
                          /\ n = l => syms'[n].type # "ABSENT"
BY DEF Inv1, TypeOK, OtherTypeOK, SetValue

LEMMA LabelStays ==
  ASSUME Inv1, InvStay, NEW l \in Labels, Label(l)
  PROVE  InvStay'
<1>1. l \in Names /\ SectionNames \subseteq Names
  BY DEF Names
<1>2. Offset(NewAddr).type # "ABSENT"
  BY DEF Offset
<1>3. \A n \in SectionNames : syms[n].type # "ABSENT" => syms'[n].type # "ABSENT"
  BY <1>1, <1>2, ValueNames DEF Label
<1> QED
  BY <1>3, HereStays DEF Label

\* .text or .section .rodata for the first time: the segment has no fragment
\* yet, so the one made sure of is empty.
LEMMA SectionStays ==
  ASSUME Inv1, InvStay, NEW m, NEW s, NEW n,
         (s = "CSEG" /\ n = ".text") \/ (s = "DSEG" /\ n = ".rodata"), OpenSection(m, n, s)
  PROVE  InvStay'
<1> DEFINE P == frags.pieces
<1>1. /\ s \in Segments /\ n \in SectionNames /\ SectionNames \subseteq Names /\ emitted[s] \in Nat
      /\ ".text" \in SectionNames /\ ".rodata" \in SectionNames
  BY DEF Inv1, TypeOK, OtherTypeOK, Names, SectionNames, Segments
<1>2. seg_id' = s /\ emitted' = emitted
  BY DEF OpenSection
<1>3. CASE syms[n].type # "ABSENT" /\ UNCHANGED <<frags, fault, addrs, meant, syms, given, retagged>>
  <2>1. NamesGiven(seg_id')
    BY <1>1, <1>2, <1>3 DEF NamesGiven
  <2> QED
    BY <1>2, <1>3, <2>1, StillStays
<1>4. CASE /\ syms[n].type = "ABSENT"
           /\ Appending(m, s) /\ frags' = Ensured(s)
           /\ TakeAddr(EnsuredId(s), 0, s, emitted[s])
           /\ SetValue(n, Offset(NewAddr))
  <2>1. Lays(m, s, 0) /\ EnsuredLen(s) \in Nat /\ FragsTypeOK
    BY <1>1, <1>2, <1>4, HereLays, AppendingFacts
  <2>2. \A id \in DOMAIN P : P[id].seg # s
    BY <1>4 DEF InvStay, SectionsNamed, Named
  <2>3. EnsuredLen(s) = 0
    <3>1. CASE Reuses(frags, s)
      BY <1>1, <2>1, <2>2, <3>1, EnsuredLast, EnsuredReused
    <3>2. CASE ~Reuses(frags, s)
      BY <1>1, <2>1, <3>2, EnsuredFresh, EnsuredLast
    <3> QED
      BY <3>1, <3>2
  <2>4. TakeAddr(EnsuredId(s), EnsuredLen(s) + 0, s, emitted[s] + 0)
    <3>1. EnsuredLen(s) + 0 = 0 /\ emitted[s] + 0 = emitted[s]
      BY <1>1, <2>3
    <3> QED
      BY <1>4, <3>1
  <2>5. \A q \in Names : /\ syms[q].type # "ABSENT" => syms'[q].type # "ABSENT"
                         /\ q = n => syms'[q].type # "ABSENT"
    <3>1. Offset(NewAddr).type # "ABSENT" /\ n \in Names
      BY <1>1 DEF Offset
    <3> QED
      BY <1>4, <3>1, ValueNames
  <2>6. NamesGiven(s)
    BY <1>1, <2>5 DEF NamesGiven
  <2> QED
    BY <1>1, <1>2, <2>1, <2>4, <2>6, LaysStays
<1> QED
  BY <1>3, <1>4 DEF OpenSection

\* .struct, an .equ, a label in a structure, a declaration, a failed
\* assertion, or nothing.
LEMMA IdleStays ==
  ASSUME Inv1, InvStay,
         \/ Struct
         \/ \E l \in Labels : LabelInStruct(l) \/ Equ(l) \/ Declare(l)
         \/ UNCHANGED <<frags, pass1Vars, histVars>>
  PROVE  InvStay'
<1>0. SectionNames \subseteq Names /\ Labels \subseteq Names
  BY DEF Names
<1>1. UNCHANGED <<frags, addrs, meant, emitted, retagged>>
  BY DEF Struct, LabelInStruct, Equ, Declare, pass1Vars, histVars
<1>2. \A n \in SectionNames : syms[n].type # "ABSENT" => syms'[n].type # "ABSENT"
  <2>1. CASE \E l \in Labels : LabelInStruct(l) \/ Equ(l)
    <3> PICK l \in Labels : LabelInStruct(l) \/ Equ(l)
      BY <2>1
    <3>1. SetValue(l, Num) /\ Num.type # "ABSENT" /\ l \in Names
      BY <1>0 DEF LabelInStruct, Equ, Num
    <3> QED
      BY <1>0, <3>1, ValueNames
  <2>2. CASE \E l \in Labels : Declare(l)
    <3> PICK l \in Labels : Declare(l)
      BY <2>2
    <3>1. syms' = syms \/ syms' = [syms EXCEPT ![l] = Num]
      BY DEF Declare
    <3>2. Num.type # "ABSENT" /\ DOMAIN syms = Names
      BY DEF Num, Inv1, TypeOK, OtherTypeOK
    <3> QED
      BY <1>0, <3>1, <3>2
  <2>3. CASE UNCHANGED syms
    BY <2>3
  <2> QED
    BY <2>1, <2>2, <2>3 DEF Struct, pass1Vars
<1>3. NamesGiven(seg_id')
  <2>1. NamesGiven(seg_id)
    BY <1>2, SameSegment DEF InvStay
  <2>2. CASE seg_id' = seg_id
    BY <2>1, <2>2
  <2>3. CASE seg_id' = "STRUCTSEG"
    BY <1>2, <2>3 DEF NamesGiven
  <2> QED
    BY <2>2, <2>3 DEF Struct, LabelInStruct, Equ, Declare, pass1Vars
<1> QED
  BY <1>1, <1>3, StillStays

LEMMA InvStayStep == Inv1 /\ InvStay /\ [NextPass1]_vars => InvStay'
<1> SUFFICES ASSUME Inv1, InvStay, [NextPass1]_vars PROVE InvStay'
  OBVIOUS
<1>1. CASE \E l \in Labels : Jcc(l) \/ Jmp(l) \/ Call(l)
  <2> PICK l \in Labels : Jcc(l) \/ Jmp(l) \/ Call(l)
    BY <1>1
  <2>1. /\ 2 \in JmpLens \ {0} /\ 5 \in JmpLens \ {0} /\ 6 \in JmpLens \ {0}
        /\ "REL8or32" \in RelTypes /\ "REL32" \in RelTypes
    BY DEF JmpLens, RelTypes
  <2> QED
    BY <2>1, JumpStays DEF Jcc, Jmp, Call
<1>2. CASE \E l \in Labels : Lea(l) \/ Quad(l) \/ Label(l)
  BY <1>2, LeaStays, QuadStays, LabelStays
<1>3. CASE StartProc \/ EndProc \/ Cfi \/ \E l \in Labels : Size(l)
  <2>1. UNCHANGED <<seg_id, emitted, syms>> /\ frags' = Ensured(seg_id) /\ TakeAddrHere
    BY <1>3 DEF StartProc, EndProc, Cfi, Size
  <2>2. \E m : Appending(m, seg_id)
    BY <1>3 DEF StartProc, EndProc, Cfi, Size
  <2> QED
    BY <2>1, <2>2, HereStays
<1>4. CASE \E n \in CodeLens : Code(n)
  BY <1>4, CodeStays
<1>5. CASE Text \/ Rodata
  BY <1>5, SectionStays DEF Text, Rodata
<1>6. CASE Struct \/ \E l \in Labels : LabelInStruct(l) \/ Equ(l) \/ Declare(l)
  BY <1>6, IdleStays
<1>7. CASE FailBegin \/ FailTooLarge \/ FailSize \/ UNCHANGED vars
  <2>1. UNCHANGED <<frags, pass1Vars, histVars>>
    BY <1>7 DEF FailBegin, FailTooLarge, FailSize, Fail, vars
  <2> QED
    BY <2>1, IdleStays
<1> QED
  BY <1>1, <1>2, <1>3, <1>4, <1>5, <1>6, <1>7 DEF NextPass1, Statement

LEMMA InvStayInit == InitPass1 => InvStay
<1> SUFFICES ASSUME InitPass1 PROVE InvStay
  OBVIOUS
<1>1. AddressesStay
  BY DEF InitPass1, AddressesStay, AddrIds
<1>2. EmittedIs
  <2> SUFFICES ASSUME NEW s \in Segments PROVE emitted[s] = Below(frags, s, Len(frags.pieces) + 1)
    BY DEF EmittedIs
  <2>1. Front(frags, s, Len(frags.pieces) + 1) = {}
    BY DEF InitPass1, NoFragments, Front, IdsOf
  <2>2. emitted[s] = 0
    BY DEF InitPass1
  <2> QED
    BY <2>1, <2>2, SumEmpty DEF Below
<1>3. SectionsNamed
  BY DEF InitPass1, NoFragments, SectionsNamed, Named
<1> QED
  BY <1>1, <1>2, <1>3 DEF InvStay

\* Every address pass 1 takes for a label, a procedure, a CFI record or a
\* reference keeps pointing between the same two items of the segment it was
\* taken in, whatever statements follow, unless _ensure_appending moves its
\* empty fragment to another segment.
THEOREM AddressesStayHold == SpecPass1 => []AddressesStay
<1>1. InvStay => AddressesStay
  BY DEF InvStay
<1> QED
  BY Inv1Holds, InvStayInit, InvStayStep, <1>1, PTL DEF SpecPass1
==============================================================================
