----------------------------- MODULE RelaxProofs -----------------------------
(***************************************************************************)
(* What the loops of pass 2.1 decide, for any number of jumps of any       *)
(* lengths whose segment comes first (JumpsFirst): the short jumps reach,  *)
(* the long ones are those of the least layout, what stays ambiguous is a  *)
(* circle, and no assertion of the loops fails.                            *)
(***************************************************************************)
EXTENDS Relax, FiniteSums

(* Distances.                                                               *)

LEMMA Spans ==
  ASSUME NEW n \in Nat, NEW len \in [1 .. n -> Nat], NEW a \in Nat \ {0}, NEW b \in 1 .. (n + 1)
  PROVE  /\ IsFiniteSet(a .. (b - 1)) /\ a .. (b - 1) \subseteq 1 .. n
         /\ \A i \in a .. (b - 1) : len[i] \in Nat
<1>1. IsFiniteSet(a .. (b - 1))
  BY FS_Interval
<1>2. a .. (b - 1) \subseteq 1 .. n
  OBVIOUS
<1> QED
  BY <1>1, <1>2

LEMMA DistanceNat ==
  ASSUME NEW n \in Nat, NEW len \in [1 .. n -> Nat], NEW a \in Nat \ {0}, NEW b \in 1 .. (n + 1)
  PROVE  Distance(len, a, b) \in Nat
<1> DEFINE S == a .. (b - 1)
<1>1. IsFiniteSet(S) /\ \A i \in S : len[i] \in Nat
  BY Spans
<1> HIDE DEF S
<1>2. SumFunctionOnSet(len, S) \in Nat
  BY <1>1, SumType
<1> QED
  BY <1>2 DEF Distance, S

LEMMA DistanceLess ==
  ASSUME NEW n \in Nat, NEW len \in [1 .. n -> Nat], NEW more \in [1 .. n -> Nat],
         \A i \in 1 .. n : len[i] <= more[i],
         NEW a \in Nat \ {0}, NEW b \in 1 .. (n + 1)
  PROVE  Distance(len, a, b) <= Distance(more, a, b)
<1> DEFINE S == a .. (b - 1)
<1>1. /\ IsFiniteSet(S) /\ S \subseteq 1 .. n
      /\ \A i \in S : len[i] \in Nat
  BY Spans
<1>2. \A i \in S : len[i] \in Int /\ more[i] \in Int /\ len[i] <= more[i]
  BY <1>1
<1> HIDE DEF S
<1>3. SumFunctionOnSet(len, S) <= SumFunctionOnSet(more, S)
  BY <1>1, <1>2, SumLess
<1> QED
  BY <1>3 DEF Distance, S

LEMMA DistanceSplit ==
  ASSUME NEW n \in Nat, NEW len \in [1 .. n -> Nat],
         NEW a \in Nat \ {0}, NEW b \in 1 .. (n + 1), NEW c \in 1 .. (n + 1), a <= b, b <= c
  PROVE  Distance(len, a, c) = Distance(len, a, b) + Distance(len, b, c)
<1> DEFINE A == a .. (b - 1)
           B == b .. (c - 1)
<1>1. IsFiniteSet(A) /\ IsFiniteSet(B) /\ \A i \in A \cup B : len[i] \in Int
  BY Spans
<1>2. A \cap B = {} /\ A \cup B = a .. (c - 1)
  OBVIOUS
<1>3. SumFunctionOnSet(len, A \cup B) = SumFunctionOnSet(len, A) + SumFunctionOnSet(len, B)
  <2> HIDE DEF A, B
  <2> QED
    BY <1>1, <1>2, SumApart
<1> QED
  BY <1>2, <1>3 DEF Distance

LEMMA DistanceOne ==
  ASSUME NEW n \in Nat, NEW len \in [1 .. n -> Nat], NEW a \in 1 .. n
  PROVE  Distance(len, a, a + 1) = len[a]
<1>1. a .. (a + 1 - 1) = {a}
  OBVIOUS
<1>2. len[a] \in Int
  OBVIOUS
<1>3. SumFunctionOnSet(len, {a}) = len[a]
  BY <1>2, SumOne
<1> QED
  BY <1>1, <1>3 DEF Distance

------------------------------------------------------------------------------
(* When a short jump does not reach.                                        *)

\* A jump at position i whose short form ends own bytes behind its start does
\* not reach ofs bytes behind the start of position j.
Falls(len, i, own, j, ofs) ==
  IF j <= i THEN ofs - (Distance(len, j, i) + own) < -128
            ELSE Distance(len, i + 1, j) + ofs > 127

\* Longer fragments bring nothing nearer.
LEMMA FallsMore ==
  ASSUME NEW n \in Nat, NEW len \in [1 .. n -> Nat], NEW more \in [1 .. n -> Nat],
         \A k \in 1 .. n : len[k] <= more[k],
         NEW i \in 1 .. n, NEW own \in Nat, NEW j \in 1 .. n, NEW ofs \in Nat, Falls(len, i, own, j, ofs)
  PROVE  Falls(more, i, own, j, ofs)
<1>1. i + 1 \in Nat \ {0} /\ j \in Nat \ {0} /\ i \in 1 .. (n + 1) /\ j \in 1 .. (n + 1)
  OBVIOUS
<1>2. CASE j <= i
  <2> DEFINE a == Distance(len, j, i)
             b == Distance(more, j, i)
  <2>1. a <= b /\ a \in Nat /\ b \in Nat
    BY <1>1, DistanceLess, DistanceNat
  <2>2. ofs - (a + own) < -128
    BY <1>2 DEF Falls
  <2>3. Falls(more, i, own, j, ofs) <=> ofs - (b + own) < -128
    BY <1>2 DEF Falls
  <2> HIDE DEF a, b
  <2>4. \A x, y, u, v \in Nat : x <= y /\ u - (x + v) < -128 => u - (y + v) < -128
    OBVIOUS
  <2> QED
    BY <2>1, <2>2, <2>3, <2>4
<1>3. CASE ~(j <= i)
  <2> DEFINE a == Distance(len, i + 1, j)
             b == Distance(more, i + 1, j)
  <2>1. a <= b /\ a \in Nat /\ b \in Nat
    BY <1>1, DistanceLess, DistanceNat
  <2>2. a + ofs > 127
    BY <1>3 DEF Falls
  <2>3. Falls(more, i, own, j, ofs) <=> b + ofs > 127
    BY <1>3 DEF Falls
  <2> HIDE DEF a, b
  <2>4. \A x, y, u \in Nat : x <= y /\ x + u > 127 => y + u > 127
    OBVIOUS
  <2> QED
    BY <2>1, <2>2, <2>3, <2>4
<1> QED
  BY <1>2, <1>3

\* The displacement of the short form is in reach on the other side anyway,
\* as the place aimed at is in its fragment.
LEMMA ReachIs ==
  ASSUME NEW n \in Nat, NEW len \in [1 .. n -> Nat], NEW i \in 1 .. n, NEW own \in Nat,
         NEW j \in 1 .. n, NEW ofs \in Nat, j = i => ofs <= own, ofs <= len[j]
  PROVE  /\ j <= i => (Reaches(ofs - (Distance(len, j, i) + own)) <=> ~Falls(len, i, own, j, ofs))
         /\ ~(j <= i) => (Reaches(ofs + Distance(len, i + 1, j)) <=> ~Falls(len, i, own, j, ofs))
<1>1. i + 1 \in Nat \ {0} /\ j \in Nat \ {0} /\ i \in 1 .. (n + 1) /\ j \in 1 .. (n + 1)
  OBVIOUS
<1>2. ASSUME j <= i
      PROVE  Reaches(ofs - (Distance(len, j, i) + own)) <=> ~Falls(len, i, own, j, ofs)
  <2> DEFINE d == Distance(len, j, i)
  <2>1. d \in Nat
    BY <1>1, DistanceNat
  <2>2. ofs <= d + own
    <3>1. CASE j = i
      BY <2>1, <3>1
    <3>2. CASE j # i
      <4>1. j + 1 \in 1 .. (n + 1) /\ j <= j + 1 /\ j + 1 <= i /\ j + 1 \in Nat \ {0}
        BY <1>2, <3>2
      <4>2. Distance(len, j, i) = Distance(len, j, j + 1) + Distance(len, j + 1, i)
        BY <1>1, <4>1, DistanceSplit
      <4>3. Distance(len, j, j + 1) = len[j] /\ Distance(len, j + 1, i) \in Nat /\ len[j] \in Nat
        BY <1>1, <4>1, DistanceOne, DistanceNat
      <4> QED
        BY <4>2, <4>3
    <3> QED
      BY <3>1, <3>2
  <2>3. Falls(len, i, own, j, ofs) <=> ofs - (d + own) < -128
    BY <1>2 DEF Falls
  <2> HIDE DEF d
  <2>4. Reaches(ofs - (d + own)) <=> ~(ofs - (d + own) < -128)
    BY <2>1, <2>2 DEF Reaches
  <2> QED
    BY <2>3, <2>4 DEF d
<1>3. ASSUME ~(j <= i)
      PROVE  Reaches(ofs + Distance(len, i + 1, j)) <=> ~Falls(len, i, own, j, ofs)
  <2> DEFINE d == Distance(len, i + 1, j)
  <2>1. d \in Nat
    BY <1>1, DistanceNat
  <2>2. Falls(len, i, own, j, ofs) <=> d + ofs > 127
    BY <1>3 DEF Falls
  <2> HIDE DEF d
  <2>3. Reaches(ofs + d) <=> ~(d + ofs > 127)
    BY <2>1 DEF Reaches
  <2> QED
    BY <2>2, <2>3 DEF d
<1> QED
  BY <1>2, <1>3

------------------------------------------------------------------------------
(* The inductive invariant.                                                 *)

TooFar(i, len) == Falls(len, i, Frag(i).objLen + Frag(i).jmp8, shrink[i].to.frag, shrink[i].to.ofs)

Ambiguous == { i \in 1 .. Cnt : IsAmbiguous(i) }

\* What startup picks up.
PickedUp ==
  /\ shrink \in Seq([frag : Nat, to : Targets])
  /\ \A i \in 1 .. Cnt : /\ shrink[i].frag \in DOMAIN frags.pieces
                         /\ IsJmp(i) => /\ shrink[i].to.frag \in 1 .. Cnt
                                        /\ \A j \in 1 .. Cnt : shrink[j].frag = j
                                        /\ shrink[i].to.ofs \in 0 .. Frag(shrink[i].to.frag).objLen
  /\ capable \subseteq { i \in 1 .. Cnt : IsJmp(i) } /\ Ambiguous \subseteq capable

\* The loop counts what it leaves.
Counted ==
  /\ before \in Nat /\ i_from \in 1 .. (Cnt + 1)
  /\ after = Cardinality({ i \in Ambiguous : i < i_from })
  /\ Cardinality(Ambiguous) <= before

\* A short jump reaches even if all the ambiguous ones get long.
ShortReach == \A i \in OfType("REL8") : ~TooFar(i, MaxLens)

\* A long jump is long in every layout that the reference allows.
LongNeeded ==
  \A S \in SUBSET capable :
    (\A i \in capable \ S : ~TooFar(i, ShortBut(S))) => OfType("REL32") \subseteq S

\* As long as this loop decided nothing, it could not.
Undecidable ==
  Cardinality(Ambiguous) = before =>
    \A i \in Ambiguous : i < i_from => ~TooFar(i, MinLens) /\ TooFar(i, MaxLens)

LoopInv == PickedUp /\ Counted /\ ShortReach /\ LongNeeded /\ Undecidable
RelaxInv ==
  /\ fault = "none" /\ phase \in {"startup", "optimize", "addresses"} /\ seg \in {"CSEG", "DSEG"}
  /\ JumpsFirst(frags, target)
  /\ phase = "optimize" => LoopInv

\* The loops, from any fragments and targets of that kind.
SpecFirst == (InitRelax(frags, target) /\ JumpsFirst(frags, target)) /\ [][NextRelax]_allVars

------------------------------------------------------------------------------
(* The fragments at hand.                                                   *)

LEMMA FragFacts ==
  ASSUME JumpsFirst(frags, target), PickedUp, NEW i \in 1 .. Cnt
  PROVE  /\ Frag(i) \in Fragment /\ FormOK(Frag(i))
         /\ Frag(i).objLen \in Nat /\ Frag(i).jmp8 \in Nat /\ Frag(i).jmp32 \in Nat
         /\ IsJmp(i) => Frag(i).jmp8 <= Frag(i).jmp32
         /\ ~IsJmp(i) => Frag(i).jmp8 = 0 /\ Frag(i).jmp32 = 0
         /\ Frag(i).ofsType \in {"REL8", "REL32", "REL8or32"}
<1>1. shrink[i].frag \in DOMAIN frags.pieces /\ frags.pieces \in Seq(Fragment)
  BY DEF PickedUp, JumpsFirst
<1>2. Frag(i) \in Fragment /\ FormOK(Frag(i))
  BY <1>1 DEF Frag, JumpsFirst
<1>3. Frag(i).objLen \in Nat /\ Frag(i).jmp8 \in Nat /\ Frag(i).jmp32 \in Nat
  BY <1>2 DEF Fragment, JmpLens
<1> QED
  BY <1>2, <1>3 DEF FormOK, IsJmp

LEMMA CntNat ==
  ASSUME PickedUp
  PROVE  Cnt \in Nat /\ DOMAIN shrink = 1 .. Cnt
BY DEF PickedUp, Cnt

\* The target of a jump, as the loop looks it up.
LEMMA LookupIs ==
  ASSUME PickedUp, NEW i \in 1 .. Cnt, IsJmp(i)
  PROVE  /\ shrink[i].frag = i /\ shrink[i].to.frag \in 1 .. Cnt
         /\ Known(shrink[i].to.frag) /\ Lookup(shrink[i].to.frag) = shrink[i].to.frag
         /\ shrink[i].to.ofs \in Nat /\ shrink[i].to.ofs <= Frag(shrink[i].to.frag).objLen
<1> DEFINE j == shrink[i].to.frag
<1>1. j \in 1 .. Cnt /\ (\A k \in 1 .. Cnt : shrink[k].frag = k) /\ shrink[i].to.ofs \in 0 .. Frag(j).objLen
  BY DEF PickedUp
<1> HIDE DEF j
<1>2. shrink[j].frag = j /\ \A k \in 1 .. Cnt : shrink[k].frag = j => k = j
  BY <1>1
<1>3. Known(j)
  BY <1>1, <1>2 DEF Known
<1>4. Lookup(j) = j
  BY <1>1, <1>2 DEF Lookup
<1>5. shrink[i].to.ofs \in Nat /\ shrink[i].to.ofs <= Frag(j).objLen
  BY <1>1
<1> QED
  BY <1>1, <1>3, <1>4, <1>5 DEF j

LEMMA LensType ==
  ASSUME JumpsFirst(frags, target), PickedUp
  PROVE  /\ MinLens \in [1 .. Cnt -> Nat] /\ MaxLens \in [1 .. Cnt -> Nat]
         /\ \A S : ShortBut(S) \in [1 .. Cnt -> Nat]
<1>1. ASSUME NEW i \in 1 .. Cnt
      PROVE  MinLen(Frag(i)) \in Nat /\ MaxLen(Frag(i)) \in Nat
  BY FragFacts DEF MinLen, MaxLen
<1>2. ASSUME NEW i \in 1 .. Cnt, NEW S
      PROVE  Frag(i).objLen + (IF i \in S THEN Frag(i).jmp32
                               ELSE IF i \in capable THEN Frag(i).jmp8
                               ELSE IF IsJmp(i) THEN JmpLen(Frag(i)) ELSE 0) \in Nat
  BY FragFacts DEF JmpLen
<1> QED
  BY <1>1, <1>2 DEF MinLens, MaxLens, ShortBut

\* The code asks whether a jump is too far.
LEMMA NeedIs ==
  ASSUME PickedUp, NEW i \in 1 .. Cnt, IsJmp(i), NEW len \in [1 .. Cnt -> Nat],
         Frag(i).objLen \in Nat, Frag(i).jmp8 \in Nat
  PROVE  NeedRel32(i, len) <=> TooFar(i, len)
<1> DEFINE j == shrink[i].to.frag
<1>1. j \in 1 .. Cnt /\ Lookup(j) = j /\ shrink[i].to.ofs \in Nat
  BY LookupIs
<1>2. Cnt \in Nat
  BY CntNat
<1>3. CASE j <= i
  <2>0. j \in Nat \ {0} /\ i \in 1 .. (Cnt + 1)
    BY <1>1, <1>2
  <2>1. Distance(len, j, i) \in Nat
    BY <1>2, <2>0, DistanceNat
  <2>2. NeedRel32(i, len) <=> shrink[i].to.ofs - (Distance(len, j, i) + Frag(i).objLen + Frag(i).jmp8) < -128
    BY <1>1, <1>3 DEF NeedRel32, IsMinus
  <2>3. TooFar(i, len) <=> shrink[i].to.ofs - (Distance(len, j, i) + (Frag(i).objLen + Frag(i).jmp8)) < -128
    BY <1>3 DEF TooFar, Falls
  <2> QED
    BY <2>1, <2>2, <2>3
<1>4. CASE ~(j <= i)
  BY <1>1, <1>4 DEF NeedRel32, IsMinus, TooFar, Falls
<1> QED
  BY <1>3, <1>4

LEMMA TooFarMore ==
  ASSUME JumpsFirst(frags, target), PickedUp, NEW i \in 1 .. Cnt, IsJmp(i),
         NEW len \in [1 .. Cnt -> Nat], NEW more \in [1 .. Cnt -> Nat],
         \A k \in 1 .. Cnt : len[k] <= more[k], TooFar(i, len)
  PROVE  TooFar(i, more)
<1> DEFINE own == Frag(i).objLen + Frag(i).jmp8
           j == shrink[i].to.frag
           ofs == shrink[i].to.ofs
<1>1. own \in Nat /\ j \in 1 .. Cnt /\ ofs \in Nat /\ Cnt \in Nat
  BY FragFacts, LookupIs, CntNat
<1>2. Falls(len, i, own, j, ofs)
  BY DEF TooFar
<1> HIDE DEF own, j, ofs
<1>3. Falls(more, i, own, j, ofs)
  BY <1>1, <1>2, FallsMore
<1> QED
  BY <1>3 DEF TooFar, own, j, ofs

LEMMA ReachesIs ==
  ASSUME JumpsFirst(frags, target), PickedUp, NEW i \in 1 .. Cnt, IsJmp(i),
         NEW len \in [1 .. Cnt -> Nat], \A k \in 1 .. Cnt : Frag(k).objLen <= len[k]
  PROVE  LET to  == shrink[i].to
             own == Frag(i).objLen + Frag(i).jmp8
         IN /\ to.frag <= i => (Reaches(to.ofs - (Distance(len, to.frag, i) + own)) <=> ~TooFar(i, len))
            /\ ~(to.frag <= i) => (Reaches(to.ofs + Distance(len, i + 1, to.frag)) <=> ~TooFar(i, len))
<1> DEFINE own == Frag(i).objLen + Frag(i).jmp8
           j == shrink[i].to.frag
           ofs == shrink[i].to.ofs
<1>1. /\ own \in Nat /\ j \in 1 .. Cnt /\ ofs \in Nat /\ Cnt \in Nat
      /\ ofs <= Frag(j).objLen /\ Frag(i).objLen \in Nat /\ Frag(i).jmp8 \in Nat
  BY FragFacts, LookupIs, CntNat
<1>2. j = i => ofs <= own
  BY <1>1
<1>3. ofs <= len[j]
  <2>1. Frag(j).objLen <= len[j] /\ len[j] \in Nat /\ Frag(j).objLen \in Nat
    BY <1>1, FragFacts
  <2> HIDE DEF j, ofs
  <2> QED
    BY <1>1, <2>1
<1> HIDE DEF own, j, ofs
<1>4. /\ j <= i => (Reaches(ofs - (Distance(len, j, i) + own)) <=> ~Falls(len, i, own, j, ofs))
      /\ ~(j <= i) => (Reaches(ofs + Distance(len, i + 1, j)) <=> ~Falls(len, i, own, j, ofs))
  BY <1>1, <1>2, <1>3, ReachIs
<1> QED
  BY <1>4 DEF TooFar, own, j, ofs

LEMMA FitsIs ==
  ASSUME JumpsFirst(frags, target), PickedUp, NEW i \in 1 .. Cnt, IsJmp(i),
         NEW len \in [1 .. Cnt -> Nat], \A k \in 1 .. Cnt : Frag(k).objLen <= len[k],
         NEW isLong,
         (IF isLong THEN len[i] - (Frag(i).jmp32 - Frag(i).jmp8) ELSE len[i]) = Frag(i).objLen + Frag(i).jmp8
  PROVE  FitsIn(len, i, isLong) <=> ~TooFar(i, len)
<1> DEFINE j == shrink[i].to.frag
           own == Frag(i).objLen + Frag(i).jmp8
           ofs == shrink[i].to.ofs
<1>1. shrink[i].frag = i /\ Lookup(j) = j
  BY LookupIs
<1>2. FitsIn(len, i, isLong) <=>
        Reaches(IF j <= i THEN ofs - (Distance(len, j, i) + own) ELSE ofs + Distance(len, i + 1, j))
  BY <1>1 DEF FitsIn
<1>3. /\ j <= i => (Reaches(ofs - (Distance(len, j, i) + own)) <=> ~TooFar(i, len))
      /\ ~(j <= i) => (Reaches(ofs + Distance(len, i + 1, j)) <=> ~TooFar(i, len))
  BY ReachesIs
<1> HIDE DEF j, own, ofs
<1> QED
  BY <1>2, <1>3

------------------------------------------------------------------------------
(* The layouts compared.                                                    *)

LEMMA KindOf ==
  ASSUME JumpsFirst(frags, target), PickedUp, NEW i \in 1 .. Cnt
  PROVE  /\ i \in capable => IsJmp(i)
         /\ i \in OfType("REL8") <=> i \in capable /\ Frag(i).ofsType = "REL8"
         /\ i \in OfType("REL32") <=> i \in capable /\ Frag(i).ofsType = "REL32"
         /\ i \in OfType("REL8or32") <=> i \in capable /\ Frag(i).ofsType = "REL8or32"
         /\ i \in Ambiguous <=> i \in OfType("REL8or32")
         /\ i \notin capable => Frag(i).ofsType # "REL8or32" \/ ~IsJmp(i)
BY DEF PickedUp, OfType, Ambiguous, IsAmbiguous

\* With the long jumps long, every jump has its least length.
LEMMA MinLess ==
  ASSUME JumpsFirst(frags, target), PickedUp, NEW S \in SUBSET capable, OfType("REL32") \subseteq S
  PROVE  \A i \in 1 .. Cnt : MinLens[i] <= ShortBut(S)[i]
<1> SUFFICES ASSUME NEW i \in 1 .. Cnt PROVE MinLens[i] <= ShortBut(S)[i]
  OBVIOUS
<1> DEFINE f == Frag(i)
<1>1. /\ f.objLen \in Nat /\ f.jmp8 \in Nat /\ f.jmp32 \in Nat
      /\ IsJmp(i) => f.jmp8 <= f.jmp32
      /\ ~IsJmp(i) => f.jmp8 = 0 /\ f.jmp32 = 0
      /\ f.ofsType \in {"REL8", "REL32", "REL8or32"}
  BY FragFacts
<1>2. /\ i \in capable => IsJmp(i)
      /\ i \in capable /\ f.ofsType = "REL32" => i \in S
      /\ i \in S => i \in capable
      /\ i \notin capable => f.ofsType # "REL8or32" \/ ~IsJmp(i)
  BY KindOf
<1>3. MinLens[i] = f.objLen + (IF f.ofsType = "REL32" THEN f.jmp32 ELSE f.jmp8)
  BY DEF MinLens, MinLen
<1>4. ShortBut(S)[i] = f.objLen + (IF i \in S THEN f.jmp32 ELSE IF i \in capable THEN f.jmp8
                                   ELSE IF IsJmp(i) THEN (IF f.ofsType = "REL8" THEN f.jmp8 ELSE f.jmp32) ELSE 0)
  BY DEF ShortBut, JmpLen
<1> HIDE DEF f
<1> QED
  BY <1>1, <1>2, <1>3, <1>4

\* The two layouts the loops measure with are layouts of the reference, and
\* the longer one is what is written.
LEMMA MinIs ==
  ASSUME JumpsFirst(frags, target), PickedUp
  PROVE  \A i \in 1 .. Cnt : ShortBut(OfType("REL32"))[i] = MinLens[i]
<1> SUFFICES ASSUME NEW i \in 1 .. Cnt PROVE ShortBut(OfType("REL32"))[i] = MinLens[i]
  OBVIOUS
<1> DEFINE f == Frag(i)
           S == OfType("REL32")
<1>1. /\ ~IsJmp(i) => f.jmp8 = 0 /\ f.jmp32 = 0
      /\ f.ofsType \in {"REL8", "REL32", "REL8or32"}
  BY FragFacts
<1>2. /\ i \in capable => IsJmp(i)
      /\ i \in S <=> i \in capable /\ f.ofsType = "REL32"
      /\ i \notin capable => f.ofsType # "REL8or32" \/ ~IsJmp(i)
  BY KindOf
<1>3. MinLens[i] = f.objLen + (IF f.ofsType = "REL32" THEN f.jmp32 ELSE f.jmp8)
  BY DEF MinLens, MinLen
<1>4. ShortBut(S)[i] = f.objLen + (IF i \in S THEN f.jmp32 ELSE IF i \in capable THEN f.jmp8
                                   ELSE IF IsJmp(i) THEN (IF f.ofsType = "REL8" THEN f.jmp8 ELSE f.jmp32) ELSE 0)
  BY DEF ShortBut, JmpLen
<1> HIDE DEF f, S
<1>5. ShortBut(S)[i] = MinLens[i]
  BY <1>1, <1>2, <1>3, <1>4
<1> QED
  BY <1>5 DEF S

LEMMA MaxIs ==
  ASSUME JumpsFirst(frags, target), PickedUp,
         NEW S, S = OfType("REL32") \cup OfType("REL8or32") \/ S = capable \ OfType("REL8")
  PROVE  \A i \in 1 .. Cnt : ShortBut(S)[i] = MaxLens[i] /\ FinalLens[i] = MaxLens[i]
<1> SUFFICES ASSUME NEW i \in 1 .. Cnt PROVE ShortBut(S)[i] = MaxLens[i] /\ FinalLens[i] = MaxLens[i]
  OBVIOUS
<1> DEFINE f == Frag(i)
<1>1. /\ ~IsJmp(i) => f.jmp8 = 0 /\ f.jmp32 = 0
      /\ f.ofsType \in {"REL8", "REL32", "REL8or32"}
  BY FragFacts
<1>2. /\ i \in capable => IsJmp(i)
      /\ i \in S <=> i \in capable /\ f.ofsType # "REL8"
      /\ i \notin capable => f.ofsType # "REL8or32" \/ ~IsJmp(i)
  BY <1>1, KindOf
<1>3. MaxLens[i] = f.objLen + (IF f.ofsType \in {"REL32", "REL8or32"} THEN f.jmp32 ELSE f.jmp8)
  BY DEF MaxLens, MaxLen
<1>4. ShortBut(S)[i] = f.objLen + (IF i \in S THEN f.jmp32 ELSE IF i \in capable THEN f.jmp8
                                   ELSE IF IsJmp(i) THEN (IF f.ofsType = "REL8" THEN f.jmp8 ELSE f.jmp32) ELSE 0)
  BY DEF ShortBut, JmpLen
<1>5. FinalLens[i] = f.objLen + (IF IsJmp(i) THEN (IF f.ofsType = "REL8" THEN f.jmp8 ELSE f.jmp32) ELSE 0)
  BY DEF FinalLens, FinalLen, JmpLen, IsJmp
<1> HIDE DEF f
<1> QED
  BY <1>1, <1>2, <1>3, <1>4, <1>5

\* No layout is shorter than the bytes in front of the jumps.
LEMMA ObjLess ==
  ASSUME JumpsFirst(frags, target), PickedUp
  PROVE  \A i \in 1 .. Cnt : Frag(i).objLen <= MaxLens[i] /\ \A S : Frag(i).objLen <= ShortBut(S)[i]
<1> SUFFICES ASSUME NEW i \in 1 .. Cnt, NEW S
             PROVE  Frag(i).objLen <= MaxLens[i] /\ Frag(i).objLen <= ShortBut(S)[i]
  OBVIOUS
<1>1. Frag(i).objLen \in Nat /\ Frag(i).jmp8 \in Nat /\ Frag(i).jmp32 \in Nat
  BY FragFacts
<1> QED
  BY <1>1 DEF MaxLens, MaxLen, ShortBut, JmpLen

------------------------------------------------------------------------------
(* What the invariant promises when the loops end.                          *)

LEMMA AmbiguousFinite ==
  ASSUME PickedUp
  PROVE  IsFiniteSet(Ambiguous) /\ Ambiguous \subseteq 1 .. Cnt
<1>1. IsFiniteSet(1 .. Cnt)
  BY CntNat, FS_Interval
<1>2. Ambiguous \subseteq 1 .. Cnt
  BY DEF Ambiguous
<1> QED
  BY <1>1, <1>2, FS_Subset

LEMMA NothingDecided ==
  ASSUME PickedUp, Counted, LoopDone
  PROVE  Cardinality(Ambiguous) = before /\ after = before /\ \A i \in Ambiguous : i < i_from
<1>1. Cnt \in Nat
  BY CntNat
<1>2. i_from > Cnt /\ ~(after < before)
  BY DEF LoopDone, AnotherLoop
<1>3. \A i \in Ambiguous : i < i_from
  BY <1>1, <1>2 DEF Ambiguous, Counted
<1>4. { i \in Ambiguous : i < i_from } = Ambiguous
  BY <1>3
<1>5. Cardinality(Ambiguous) \in Nat
  BY AmbiguousFinite, FS_CardinalityType
<1> QED
  BY <1>2, <1>3, <1>4, <1>5 DEF Counted

LEMMA EndsShort ==
  ASSUME JumpsFirst(frags, target), LoopInv, NEW i \in capable, Frag(i).ofsType = "REL8"
  PROVE  Known(shrink[i].to.frag) /\ Reaches(Displacement(i)) /\ i \notin LongInLeast
<1> DEFINE j == shrink[i].to.frag
           ofs == shrink[i].to.ofs
           own == Frag(i).objLen + Frag(i).jmp8
<1>1. i \in 1 .. Cnt /\ IsJmp(i) /\ i \in OfType("REL8") /\ Cnt \in Nat
  BY CntNat DEF LoopInv, PickedUp, OfType
<1>2. Known(j) /\ Lookup(j) = j /\ j \in 1 .. Cnt /\ ofs \in Nat
  BY <1>1, LookupIs DEF LoopInv
<1>3. ~TooFar(i, MaxLens)
  BY <1>1 DEF LoopInv, ShortReach
<1>4. MaxLens \in [1 .. Cnt -> Nat] /\ \A S : ShortBut(S) \in [1 .. Cnt -> Nat]
  BY LensType DEF LoopInv
<1>5. FinalLens = MaxLens
  <2>1. \A k \in 1 .. Cnt : FinalLens[k] = MaxLens[k]
    BY MaxIs DEF LoopInv
  <2> QED
    BY <2>1 DEF FinalLens, MaxLens
<1>6. own \in Nat /\ MaxLens[i] = own /\ Frag(i).objLen \in Nat
  BY <1>1, FragFacts DEF LoopInv, MaxLens, MaxLen
<1>7. Reaches(Displacement(i))
  <2> DEFINE D(a, b) == Distance(MaxLens, a, b)
  <2>1. Displacement(i) = (D(1, j) + ofs) - D(1, i + 1)
    BY <1>2, <1>5 DEF Displacement
  <2>2. /\ j <= i => Reaches(ofs - (D(j, i) + own))
        /\ ~(j <= i) => Reaches(ofs + D(i + 1, j))
    BY <1>1, <1>3, <1>4, ReachesIs, ObjLess DEF LoopInv
  <2>3. /\ 1 \in Nat \ {0} /\ 1 \in 1 .. (Cnt + 1) /\ i + 1 \in 1 .. (Cnt + 1) /\ j \in 1 .. (Cnt + 1)
        /\ i \in 1 .. (Cnt + 1) /\ i \in Nat \ {0} /\ j \in Nat \ {0} /\ i + 1 \in Nat \ {0}
        /\ 1 <= j /\ 1 <= i /\ i <= i + 1 /\ 1 <= i + 1
    BY <1>1, <1>2
  <2>4. D(1, j) \in Nat /\ D(1, i) \in Nat /\ D(1, i + 1) = D(1, i) + own
    <3>1. D(1, j) \in Nat /\ D(1, i) \in Nat
      BY <1>1, <1>4, <2>3, DistanceNat
    <3>2. D(1, i + 1) = D(1, i) + D(i, i + 1)
      BY <1>1, <1>4, <2>3, DistanceSplit
    <3>3. D(i, i + 1) = own
      BY <1>1, <1>4, <1>6, DistanceOne
    <3> QED
      BY <3>1, <3>2, <3>3
  <2>7. \A b, c \in 1 .. (Cnt + 1) : b <= c => D(1, c) = D(1, b) + D(b, c) /\ D(b, c) \in Nat
    <3> SUFFICES ASSUME NEW b \in 1 .. (Cnt + 1), NEW c \in 1 .. (Cnt + 1), b <= c
                 PROVE  D(1, c) = D(1, b) + D(b, c) /\ D(b, c) \in Nat
      OBVIOUS
    <3>1. b \in Nat \ {0} /\ 1 <= b
      OBVIOUS
    <3> QED
      BY <1>1, <1>4, <2>3, <3>1, DistanceSplit, DistanceNat
  <2> HIDE DEF j
  <2>5. CASE j <= i
    <3>1. D(1, i) = D(1, j) + D(j, i) /\ D(j, i) \in Nat
      BY <2>3, <2>5, <2>7
    <3> HIDE DEF D, own, ofs
    <3>2. (D(1, j) + ofs) - D(1, i + 1) = ofs - (D(j, i) + own)
      BY <1>2, <1>6, <2>4, <3>1
    <3> QED
      BY <2>1, <2>2, <2>5, <3>2
  <2>6. CASE ~(j <= i)
    <3>0. i + 1 <= j
      BY <2>3, <2>6
    <3>1. D(1, j) = D(1, i + 1) + D(i + 1, j) /\ D(i + 1, j) \in Nat
      BY <2>3, <2>7, <3>0
    <3> HIDE DEF D, own, ofs
    <3>2. (D(1, j) + ofs) - D(1, i + 1) = ofs + D(i + 1, j)
      BY <1>2, <1>6, <2>4, <3>1
    <3> QED
      BY <2>1, <2>2, <2>6, <3>2
  <2> QED
    BY <2>5, <2>6
<1>8. i \notin LongInLeast
  <2> DEFINE S == capable \ OfType("REL8")
  <2>1. \A k \in 1 .. Cnt : ShortBut(S)[k] = MaxLens[k]
    BY MaxIs DEF LoopInv
  <2>2. ShortBut(S) = MaxLens
    BY <2>1 DEF ShortBut, MaxLens
  <2>3. ClosedSet(S)
    <3> SUFFICES ASSUME NEW k \in capable \ S PROVE FitsIn(ShortBut(S), k, FALSE)
      BY DEF ClosedSet
    <3>1. k \in OfType("REL8") /\ k \in 1 .. Cnt /\ IsJmp(k) /\ Frag(k).ofsType = "REL8"
      BY DEF LoopInv, PickedUp, OfType
    <3>2. ~TooFar(k, MaxLens)
      BY <3>1 DEF LoopInv, ShortReach
    <3>3. MaxLens[k] = Frag(k).objLen + Frag(k).jmp8
      BY <3>1 DEF MaxLens, MaxLen
    <3>4. FitsIn(MaxLens, k, FALSE) <=> ~TooFar(k, MaxLens)
      BY <1>4, <3>1, <3>3, FitsIs, ObjLess DEF LoopInv
    <3> QED
      BY <2>2, <3>2, <3>4
  <2>4. S \in SUBSET capable /\ i \notin S
    BY <1>1
  <2> HIDE DEF S
  <2> QED
    BY <2>3, <2>4 DEF LongInLeast
<1> QED
  BY <1>2, <1>7, <1>8

LEMMA EndsLong ==
  ASSUME JumpsFirst(frags, target), LoopInv, NEW i \in capable, Frag(i).ofsType = "REL32"
  PROVE  i \in LongInLeast
<1>1. i \in OfType("REL32")
  BY DEF OfType
<1>2. ASSUME NEW S \in SUBSET capable, ClosedSet(S)
      PROVE  i \in S
  <2>1. ASSUME NEW k \in capable \ S PROVE ~TooFar(k, ShortBut(S))
    <3>1. k \in 1 .. Cnt /\ IsJmp(k)
      BY DEF LoopInv, PickedUp
    <3>2. FitsIn(ShortBut(S), k, FALSE)
      BY <1>2 DEF ClosedSet
    <3>3. ShortBut(S)[k] = Frag(k).objLen + Frag(k).jmp8
      BY <3>1 DEF ShortBut
    <3>4. ShortBut(S) \in [1 .. Cnt -> Nat] /\ \A n \in 1 .. Cnt : Frag(n).objLen <= ShortBut(S)[n]
      BY LensType, ObjLess DEF LoopInv
    <3>5. FitsIn(ShortBut(S), k, FALSE) <=> ~TooFar(k, ShortBut(S))
      BY <3>1, <3>3, <3>4, FitsIs DEF LoopInv
    <3> QED
      BY <3>2, <3>5
  <2> QED
    BY <1>1, <2>1 DEF LoopInv, LongNeeded
<1> QED
  BY <1>2 DEF LongInLeast

LEMMA EndsOpen ==
  ASSUME JumpsFirst(frags, target), LoopInv, LoopDone, NEW i \in OfType("REL8or32")
  PROVE  /\ FitsIn(ShortBut(OfType("REL32")), i, FALSE)
         /\ ~FitsIn(ShortBut(OfType("REL32") \cup OfType("REL8or32")), i, TRUE)
<1> DEFINE S == OfType("REL32")
           L == OfType("REL32") \cup OfType("REL8or32")
<1>1. i \in 1 .. Cnt /\ IsJmp(i) /\ i \in capable /\ Frag(i).ofsType = "REL8or32" /\ i \in Ambiguous
  BY DEF LoopInv, PickedUp, OfType, Ambiguous, IsAmbiguous
<1>2. ~TooFar(i, MinLens) /\ TooFar(i, MaxLens)
  BY <1>1, NothingDecided DEF LoopInv, Undecidable
<1>3. /\ MaxLens \in [1 .. Cnt -> Nat] /\ MinLens \in [1 .. Cnt -> Nat]
      /\ \A n \in 1 .. Cnt : Frag(n).objLen <= MaxLens[n]
      /\ \A n \in 1 .. Cnt : Frag(n).objLen <= ShortBut(S)[n]
  BY LensType, ObjLess DEF LoopInv
<1>4. ShortBut(S) = MinLens /\ ShortBut(L) = MaxLens
  <2>1. \A k \in 1 .. Cnt : ShortBut(S)[k] = MinLens[k] /\ ShortBut(L)[k] = MaxLens[k]
    BY MinIs, MaxIs DEF LoopInv
  <2> QED
    BY <2>1 DEF ShortBut, MinLens, MaxLens
<1>5. MinLens[i] = Frag(i).objLen + Frag(i).jmp8 /\ MaxLens[i] = Frag(i).objLen + Frag(i).jmp32
  BY <1>1 DEF MinLens, MinLen, MaxLens, MaxLen
<1>6. FitsIn(MinLens, i, FALSE) <=> ~TooFar(i, MinLens)
  BY <1>1, <1>3, <1>4, <1>5, FitsIs DEF LoopInv
<1>7. MaxLens[i] - (Frag(i).jmp32 - Frag(i).jmp8) = Frag(i).objLen + Frag(i).jmp8
  <2>1. Frag(i).objLen \in Nat /\ Frag(i).jmp8 \in Nat /\ Frag(i).jmp32 \in Nat
    BY <1>1, FragFacts DEF LoopInv
  <2> QED
    BY <1>5, <2>1
<1>8. FitsIn(MaxLens, i, TRUE) <=> ~TooFar(i, MaxLens)
  BY <1>1, <1>3, <1>7, FitsIs DEF LoopInv
<1> QED
  BY <1>2, <1>4, <1>6, <1>8

------------------------------------------------------------------------------
(* The kind of source survives what the loops do to it.                     *)

LEMMA JumpsFirstKept ==
  ASSUME NEW F, NEW G, NEW T, JumpsFirst(F, T), G.pieces \in Seq(Fragment),
         DOMAIN G.pieces = DOMAIN F.pieces,
         \A id \in DOMAIN F.pieces :
           LET f == F.pieces[id]
               g == G.pieces[id]
           IN /\ g.seg = f.seg /\ g.objLen = f.objLen /\ g.jmp8 = f.jmp8 /\ g.jmp32 = f.jmp32 /\ g.to = f.to
              /\ g.ofsType \in {"REL8", "REL32", "REL8or32"}
  PROVE  JumpsFirst(G, T)
<1>1. \A id \in DOMAIN F.pieces : HasJmp(G.pieces[id]) <=> HasJmp(F.pieces[id])
  BY DEF HasJmp
<1>2. ASSUME NEW id \in DOMAIN G.pieces
      PROVE  FormOK(G.pieces[id])
  BY <1>1 DEF JumpsFirst, FormOK
<1>3. \A s : IdsOf(G, s) = IdsOf(F, s)
  BY DEF IdsOf
<1>4. ASSUME NEW s, InFirst(F, T, s)
      PROVE  InFirst(G, T, s)
  <2> SUFFICES ASSUME NEW id \in IdsOf(F, s), HasJmp(G.pieces[id])
               PROVE  LET to == T[G.pieces[id].to]
                      IN /\ IdsOf(F, s) = 1 .. Cardinality(IdsOf(F, s))
                         /\ to.frag \in IdsOf(F, s) /\ to.ofs \in 0 .. G.pieces[to.frag].objLen
    BY <1>3 DEF InFirst
  <2>1. id \in DOMAIN F.pieces
    BY DEF IdsOf
  <2>2. HasJmp(F.pieces[id]) /\ G.pieces[id].to = F.pieces[id].to
    BY <1>1, <2>1
  <2> DEFINE to == T[F.pieces[id].to]
  <2>3. /\ IdsOf(F, s) = 1 .. Cardinality(IdsOf(F, s))
        /\ to.frag \in IdsOf(F, s) /\ to.ofs \in 0 .. F.pieces[to.frag].objLen
    BY <1>4, <2>2 DEF InFirst
  <2> HIDE DEF to
  <2>4. to.frag \in DOMAIN F.pieces
    BY <2>3 DEF IdsOf
  <2>5. G.pieces[to.frag].objLen = F.pieces[to.frag].objLen
    BY <2>4
  <2> QED
    BY <2>2, <2>3, <2>5 DEF to
<1> QED
  BY <1>2, <1>4 DEF JumpsFirst

------------------------------------------------------------------------------
(* Startup.                                                                 *)

\* In a segment that comes first the n-th fragment is fragment n.
LEMMA FirstInOrder ==
  ASSUME NEW n \in Nat, NEW i \in 1 .. n
  PROVE  (CHOOSE x \in 1 .. n : Cardinality({ j \in 1 .. n : j <= x }) = i) = i
<1>1. ASSUME NEW x \in 1 .. n
      PROVE  Cardinality({ j \in 1 .. n : j <= x }) = x
  <2>1. { j \in 1 .. n : j <= x } = 1 .. x
    OBVIOUS
  <2>2. x \in Nat /\ 1 <= x
    OBVIOUS
  <2>3. Cardinality(1 .. x) = IF 1 > x THEN 0 ELSE x - 1 + 1
    BY <2>2, FS_Interval
  <2>4. Cardinality(1 .. x) = x
    BY <2>2, <2>3
  <2> QED
    BY <2>1, <2>4
<1> QED
  BY <1>1

LEMMA SegIds ==
  ASSUME NEW s, frags.pieces \in Seq(Fragment)
  PROVE  LET ids == InSegOrder(s)
             n   == Cardinality(IdsOf(frags, s))
         IN /\ n \in Nat /\ ids \in Seq(Nat) /\ Len(ids) = n /\ DOMAIN ids = 1 .. n
            /\ \A i \in 1 .. n : ids[i] \in IdsOf(frags, s) /\ ids[i] \in DOMAIN frags.pieces
            /\ IdsOf(frags, s) = 1 .. n => \A i \in 1 .. n : ids[i] = i
<1> DEFINE S == IdsOf(frags, s)
           n == Cardinality(S)
<1>1. S \subseteq 1 .. Len(frags.pieces) /\ IsFiniteSet(1 .. Len(frags.pieces))
  BY FS_Interval DEF IdsOf
<1>2. IsFiniteSet(S) /\ S \subseteq Nat /\ n \in Nat /\ Len(frags.pieces) \in Nat
  BY <1>1, FS_Subset, FS_CardinalityType
<1>3. \A i \in 1 .. n : \E x \in S : Cardinality({ j \in S : j <= x }) = i
  <2>1. Within(S, Len(frags.pieces))
    BY <1>1 DEF Within
  <2> HIDE DEF S
  <2> QED
    BY <1>2, <2>1, RankExists
<1>5. InSegOrder(s) = [i \in 1 .. n |-> CHOOSE id \in S : Cardinality({ j \in S : j <= id }) = i]
  BY DEF InSegOrder, InOrder
<1>4. \A i \in 1 .. n : InSegOrder(s)[i] \in S
  <2> HIDE DEF S
  <2> QED
    BY <1>3, <1>5
<1>6. InSegOrder(s) \in [1 .. n -> Nat]
  <2> HIDE DEF S
  <2> QED
    BY <1>2, <1>4, <1>5
<1>7. InSegOrder(s) \in Seq(Nat) /\ Len(InSegOrder(s)) = n /\ DOMAIN InSegOrder(s) = 1 .. n
  BY <1>2, <1>6
<1>8. S = 1 .. n => \A i \in 1 .. n : InSegOrder(s)[i] = i
  <2> SUFFICES ASSUME S = 1 .. n, NEW i \in 1 .. n PROVE InSegOrder(s)[i] = i
    OBVIOUS
  <2>1. InSegOrder(s)[i] = CHOOSE x \in 1 .. n : Cardinality({ j \in 1 .. n : j <= x }) = i
    BY DEF InSegOrder, InOrder
  <2> HIDE DEF n
  <2> QED
    BY <1>2, <2>1, FirstInOrder
<1> QED
  BY <1>2, <1>4, <1>7, <1>8 DEF IdsOf

LEMMA StartupKeeps ==
  ASSUME RelaxInv, Startup
  PROVE  RelaxInv'
<1> DEFINE ids == InSegOrder(seg)
           n   == Cardinality(IdsOf(frags, seg))
           f(i) == frags.pieces[ids[i]]
           to(i) == IF HasJmp(f(i)) THEN target[f(i).to] ELSE NoTarget
<1>1. JumpsFirst(frags, target) /\ frags.pieces \in Seq(Fragment) /\ seg \in {"CSEG", "DSEG"} /\ fault = "none"
  BY DEF RelaxInv, JumpsFirst
<1>2. /\ n \in Nat /\ ids \in Seq(Nat) /\ Len(ids) = n /\ DOMAIN ids = 1 .. n
      /\ \A i \in 1 .. n : ids[i] \in IdsOf(frags, seg) /\ ids[i] \in DOMAIN frags.pieces
      /\ IdsOf(frags, seg) = 1 .. n => \A i \in 1 .. n : ids[i] = i
  BY <1>1, SegIds
<1> HIDE DEF ids
<1>3. ASSUME NEW i \in 1 .. n, HasJmp(f(i))
      PROVE  /\ IdsOf(frags, seg) = 1 .. n /\ (\A j \in 1 .. n : ids[j] = j)
             /\ target[f(i).to].frag \in 1 .. n
             /\ target[f(i).to].ofs \in 0 .. frags.pieces[target[f(i).to].frag].objLen
  <2>1. InFirst(frags, target, seg)
    BY <1>1 DEF JumpsFirst
  <2>2. /\ IdsOf(frags, seg) = 1 .. n
        /\ target[f(i).to].frag \in IdsOf(frags, seg)
        /\ target[f(i).to].ofs \in 0 .. frags.pieces[target[f(i).to].frag].objLen
    BY <1>2, <1>3, <2>1 DEF InFirst
  <2> QED
    BY <1>2, <2>2
<1>4. ~\E i \in DOMAIN ids : HasJmp(f(i)) /\ to(i) = NoTarget
  <2> SUFFICES ASSUME NEW i \in 1 .. n, HasJmp(f(i)), target[f(i).to] = NoTarget PROVE FALSE
    BY <1>2
  <2>1. target[f(i).to].frag \in 1 .. n
    BY <1>3
  <2>2. target[f(i).to].frag = 0
    BY DEF NoTarget
  <2> QED
    BY <1>2, <2>1, <2>2
<1>5. /\ shrink' = [i \in DOMAIN ids |-> [frag |-> ids[i], to |-> to(i)]]
      /\ capable' = { i \in DOMAIN ids : HasJmp(f(i)) /\ f(i).ofsType = "REL8or32" }
      /\ before' = Len(ids) /\ after' = 0 /\ i_from' = 1
      /\ phase' = "optimize"
      /\ UNCHANGED <<frags, fault, seg, target>>
  BY <1>4 DEF Startup, Goto, ids
<1>6. ASSUME NEW i \in 1 .. n
      PROVE  to(i) \in Targets /\ (HasJmp(f(i)) => to(i) = target[f(i).to])
  <2>1. NoTarget \in Targets
    BY DEF NoTarget, Targets
  <2>2. CASE HasJmp(f(i))
    <3>1. f(i) \in Fragment
      BY <1>1, <1>2
    <3>4. f(i).to \in Labels
      BY <1>1, <1>2, <2>2 DEF JumpsFirst, FormOK
    <3>3. target[f(i).to] \in Targets
      BY <1>1, <3>1, <3>4 DEF JumpsFirst
    <3> QED
      BY <2>2, <3>3
  <2> QED
    BY <2>1, <2>2
<1>7. shrink' \in Seq([frag : Nat, to : Targets]) /\ Cnt' = n
  <2> DEFINE T == [frag : Nat, to : Targets]
             g == [i \in 1 .. n |-> [frag |-> ids[i], to |-> to(i)]]
  <2>1. \A i \in 1 .. n : ids[i] \in Nat
    BY <1>2
  <2>2. g \in [1 .. n -> T]
    BY <1>6, <2>1
  <2> HIDE DEF g, T
  <2>3. g \in Seq(T) /\ Len(g) = n
    BY <1>2, <2>2
  <2>4. shrink' = g
    BY <1>2, <1>5 DEF g
  <2> QED
    BY <2>3, <2>4 DEF Cnt, T
<1>8. \A i \in 1 .. n : shrink'[i].frag = ids[i] /\ shrink'[i].to = to(i) /\ Frag(i)' = f(i)
  BY <1>2, <1>5 DEF Frag
<1>9. PickedUp'
  <2>1. ASSUME NEW i \in 1 .. n
        PROVE  /\ shrink'[i].frag \in DOMAIN frags'.pieces
               /\ HasJmp(f(i)) => /\ shrink'[i].to.frag \in 1 .. n
                                  /\ \A j \in 1 .. n : shrink'[j].frag = j
                                  /\ shrink'[i].to.ofs \in 0 .. f(shrink'[i].to.frag).objLen
    <3>1. shrink'[i].frag \in DOMAIN frags'.pieces
      BY <1>2, <1>5, <1>8
    <3>2. ASSUME HasJmp(f(i))
          PROVE  /\ shrink'[i].to.frag \in 1 .. n
                 /\ \A j \in 1 .. n : shrink'[j].frag = j
                 /\ shrink'[i].to.ofs \in 0 .. f(shrink'[i].to.frag).objLen
      <4>1. /\ \A j \in 1 .. n : ids[j] = j
            /\ target[f(i).to].frag \in 1 .. n
            /\ target[f(i).to].ofs \in 0 .. frags.pieces[target[f(i).to].frag].objLen
        BY <1>3, <3>2
      <4>2. shrink'[i].to = target[f(i).to]
        BY <1>6, <1>8, <3>2
      <4> QED
        BY <1>8, <4>1, <4>2
    <3> QED
      BY <3>1, <3>2
  <2>2. \A i \in 1 .. n : IsJmp(i)' <=> HasJmp(f(i))
    BY <1>8 DEF IsJmp
  <2>3. \A i \in 1 .. n : IsAmbiguous(i)' <=> HasJmp(f(i)) /\ f(i).ofsType = "REL8or32"
    BY <1>8, <2>2 DEF IsAmbiguous
  <2>4. \A j \in 1 .. n : frags'.pieces[shrink'[j].frag] = f(j)
    BY <1>5, <1>8
  <2>5. capable' \subseteq { i \in 1 .. n : HasJmp(f(i)) } /\ Ambiguous' \subseteq capable'
    BY <1>2, <1>5, <1>7, <2>3 DEF Ambiguous
  <2> HIDE DEF f, n, to
  <2> QED
    BY <1>7, <2>1, <2>2, <2>4, <2>5 DEF PickedUp, Frag
<1>10. Counted'
  <2>1. Ambiguous' \subseteq 1 .. n /\ IsFiniteSet(1 .. n) /\ Cardinality(1 .. n) = n
    <3>1. Cardinality(1 .. n) = n /\ IsFiniteSet(1 .. n)
      <4> HIDE DEF n
      <4>1. Cardinality(1 .. n) = (IF 1 > n THEN 0 ELSE n - 1 + 1) /\ IsFiniteSet(1 .. n)
        BY <1>2, FS_Interval
      <4> QED
        BY <1>2, <4>1
    <3>2. Ambiguous' \subseteq 1 .. n
      BY <1>7 DEF Ambiguous
    <3> QED
      BY <3>1, <3>2
  <2>2. Cardinality(Ambiguous') <= n
    BY <2>1, FS_Subset
  <2>3. { i \in Ambiguous' : i < 1 } = {}
    <3>1. \A i \in 1 .. n : ~(i < 1)
      BY <1>2
    <3> QED
      BY <2>1, <3>1
  <2>4. Cardinality({}) = 0
    BY FS_EmptySet
  <2>5. { i \in Ambiguous' : i < i_from' } = {}
    BY <1>5, <2>3
  <2>6. after' = Cardinality({ i \in Ambiguous' : i < i_from' })
    BY <1>5, <2>4, <2>5
  <2>7. before' \in Nat /\ i_from' \in 1 .. (Cnt' + 1) /\ Cardinality(Ambiguous') <= before'
    <3> HIDE DEF n
    <3> QED
      BY <1>2, <1>5, <1>7, <2>2
  <2> QED
    BY <2>6, <2>7 DEF Counted
<1>11. \A i \in capable' : Frag(i)'.ofsType = "REL8or32"
  <2>1. \A i \in capable' : i \in 1 .. n /\ f(i).ofsType = "REL8or32"
    BY <1>2, <1>5
  <2> QED
    BY <1>8, <2>1
<1>12. OfType("REL8")' = {} /\ OfType("REL32")' = {}
  BY <1>11 DEF OfType
<1>13. ShortReach' /\ LongNeeded'
  BY <1>12 DEF ShortReach, LongNeeded
<1>14. Undecidable'
  <2>1. \A i \in Ambiguous' : ~(i < i_from')
    BY <1>5, <1>7 DEF Ambiguous
  <2> QED
    BY <2>1 DEF Undecidable
<1> QED
  BY <1>1, <1>5, <1>9, <1>10, <1>13, <1>14 DEF RelaxInv, LoopInv

------------------------------------------------------------------------------
(* A step that leaves the fragments alone.                                  *)

LEMMA SameFrags ==
  ASSUME UNCHANGED <<frags, shrink, capable>>
  PROVE  /\ Cnt' = Cnt /\ (\A k : Frag(k)' = Frag(k)) /\ Ambiguous' = Ambiguous
         /\ PickedUp' <=> PickedUp
         /\ ShortReach' <=> ShortReach
         /\ LongNeeded' <=> LongNeeded
         /\ \A k : TooFar(k, MinLens)' <=> TooFar(k, MinLens)
         /\ \A k : TooFar(k, MaxLens)' <=> TooFar(k, MaxLens)
<1>1. Cnt' = Cnt /\ \A k : Frag(k)' = Frag(k)
  BY DEF Cnt, Frag
<1>2. \A k : (IsJmp(k)' <=> IsJmp(k)) /\ (IsAmbiguous(k)' <=> IsAmbiguous(k))
  BY <1>1 DEF IsJmp, IsAmbiguous
<1>3. Ambiguous' = Ambiguous /\ \A t : OfType(t)' = OfType(t)
  BY <1>1, <1>2 DEF Ambiguous, OfType
<1>4. MinLens' = MinLens /\ MaxLens' = MaxLens /\ \A S : ShortBut(S)' = ShortBut(S)
  BY <1>1, <1>2 DEF MinLens, MaxLens, ShortBut
<1>5. PickedUp' <=> PickedUp
  BY <1>1, <1>2, <1>3 DEF PickedUp
<1>6. /\ \A k : TooFar(k, MinLens)' <=> TooFar(k, MinLens)
      /\ \A k : TooFar(k, MaxLens)' <=> TooFar(k, MaxLens)
      /\ \A k, S : TooFar(k, ShortBut(S))' <=> TooFar(k, ShortBut(S))
  BY <1>1, <1>4 DEF TooFar
<1>7. ShortReach' <=> ShortReach
  BY <1>3, <1>6 DEF ShortReach
<1>8. LongNeeded' <=> LongNeeded
  BY <1>3, <1>6 DEF LongNeeded
<1> QED
  BY <1>1, <1>3, <1>5, <1>6, <1>7, <1>8

LEMMA SkipKeeps ==
  ASSUME RelaxInv, NEW i \in 1 .. Cnt, Skip(i)
  PROVE  RelaxInv'
<1>1. LoopInv /\ i = i_from /\ i \notin Ambiguous /\ Cnt \in Nat
  BY CntNat DEF RelaxInv, LoopInv, Skip, Looking, Running, Ambiguous
<1>2. UNCHANGED <<frags, fault, phase, seg, target, shrink, capable, before, after>> /\ i_from' = i_from + 1
  BY DEF Skip, NextJmp
<1>3. /\ Cnt' = Cnt /\ Ambiguous' = Ambiguous
      /\ PickedUp' /\ ShortReach' /\ LongNeeded'
      /\ \A k : TooFar(k, MinLens)' <=> TooFar(k, MinLens)
      /\ \A k : TooFar(k, MaxLens)' <=> TooFar(k, MaxLens)
  BY <1>1, <1>2, SameFrags DEF LoopInv
<1>4. \A k \in Ambiguous : k < i_from' <=> k < i_from
  BY <1>1, <1>2 DEF Ambiguous
<1>5. Counted'
  <2>1. { k \in Ambiguous : k < i_from' } = { k \in Ambiguous : k < i_from }
    BY <1>4
  <2>2. i_from' \in 1 .. (Cnt + 1)
    BY <1>1, <1>2
  <2> QED
    BY <1>1, <1>2, <1>3, <2>1, <2>2 DEF LoopInv, Counted
<1>6. Undecidable'
  BY <1>1, <1>2, <1>3, <1>4 DEF LoopInv, Undecidable
<1> QED
  BY <1>1, <1>2, <1>3, <1>5, <1>6 DEF RelaxInv, LoopInv

\* A jump that is in reach in the shortest layout and out of reach in the
\* longest one is left, and counted.
LEMMA LeaveKeeps ==
  ASSUME RelaxInv, NEW i \in 1 .. Cnt, Looking(i), IsAmbiguous(i), LeaveOpen, NextJmp,
         ~TooFar(i, MinLens), TooFar(i, MaxLens)
  PROVE  RelaxInv'
<1>1. LoopInv /\ i = i_from /\ i \in Ambiguous /\ Cnt \in Nat
  BY CntNat DEF RelaxInv, LoopInv, Looking, Running, Ambiguous
<1>2. UNCHANGED <<frags, fault, phase, seg, target, shrink, capable, before>> /\ i_from' = i_from + 1 /\ after' = after + 1
  BY DEF LeaveOpen, NextJmp
<1>3. /\ Cnt' = Cnt /\ Ambiguous' = Ambiguous
      /\ PickedUp' /\ ShortReach' /\ LongNeeded'
      /\ \A k : TooFar(k, MinLens)' <=> TooFar(k, MinLens)
      /\ \A k : TooFar(k, MaxLens)' <=> TooFar(k, MaxLens)
  BY <1>1, <1>2, SameFrags DEF LoopInv
<1>4. \A k \in Ambiguous : k < i_from' <=> k < i_from \/ k = i
  BY <1>1, <1>2 DEF Ambiguous
<1>5. Counted'
  <2> DEFINE A == { k \in Ambiguous : k < i_from }
  <2>0. i \notin A
    BY <1>1
  <2>1. { k \in Ambiguous : k < i_from' } = A \cup {i}
    <3>1. \A k \in A \cup {i} : k \in Ambiguous /\ k < i_from'
      BY <1>1, <1>4
    <3>2. \A k \in Ambiguous : k < i_from' => k \in A \cup {i}
      BY <1>4
    <3> HIDE DEF A
    <3> QED
      BY <3>1, <3>2
  <2>2. IsFiniteSet(A)
    BY <1>1, AmbiguousFinite, FS_Subset DEF LoopInv
  <2>3. after = Cardinality(A)
    BY <1>1 DEF LoopInv, Counted
  <2> HIDE DEF A
  <2>4. Cardinality(A \cup {i}) = after + 1
    BY <2>0, <2>2, <2>3, FS_AddElement
  <2>5. i_from' \in 1 .. (Cnt + 1)
    BY <1>1, <1>2
  <2> QED
    BY <1>1, <1>2, <1>3, <2>1, <2>4, <2>5 DEF LoopInv, Counted
<1>6. Undecidable'
  BY <1>1, <1>2, <1>3, <1>4 DEF LoopInv, Undecidable
<1> QED
  BY <1>1, <1>2, <1>3, <1>5, <1>6 DEF RelaxInv, LoopInv

------------------------------------------------------------------------------
(* A jump gets its length.                                                  *)

\* What changes, and what not.
LEMMA SettleIs ==
  ASSUME RelaxInv, NEW i \in 1 .. Cnt, Looking(i), IsAmbiguous(i), NextJmp,
         NEW t \in {"REL8", "REL32"}, Settle(i, t)
  PROVE  /\ Cnt' = Cnt /\ UNCHANGED <<fault, phase, seg, target, shrink, capable, before, after>>
         /\ \A k \in 1 .. Cnt : /\ Frag(k)'.objLen = Frag(k).objLen
                                /\ Frag(k)'.jmp8 = Frag(k).jmp8 /\ Frag(k)'.jmp32 = Frag(k).jmp32
                                /\ Frag(k)'.ofsType = IF k = i THEN t ELSE Frag(k).ofsType
                                /\ shrink[k].frag = k
         /\ JumpsFirst(frags, target)'
<1>1. PickedUp /\ JumpsFirst(frags, target) /\ frags.pieces \in Seq(Fragment) /\ IsJmp(i)
  BY DEF RelaxInv, LoopInv, Looking, Running, IsAmbiguous, JumpsFirst
<1>2. \A k \in 1 .. Cnt : shrink[k].frag = k /\ k \in DOMAIN frags.pieces
  BY <1>1 DEF PickedUp
<1>3. /\ frags' = SetOfsType(frags, i, t)
      /\ UNCHANGED <<fault, phase, seg, target, shrink, capable, before, after>>
  BY <1>2 DEF Settle, NextJmp
<1>4. frags'.pieces = [frags.pieces EXCEPT ![i] = [frags.pieces[i] EXCEPT !.ofsType = t]]
  BY <1>3 DEF SetOfsType, With
<1>5. frags.pieces[i] \in Fragment /\ [frags.pieces[i] EXCEPT !.ofsType = t] \in Fragment
  <2>1. frags.pieces[i] \in Fragment
    BY <1>1, <1>2
  <2>2. t \in RelTypes
    BY DEF RelTypes
  <2> QED
    BY <2>1, <2>2 DEF Fragment
<1>6. frags'.pieces \in Seq(Fragment) /\ DOMAIN frags'.pieces = DOMAIN frags.pieces
  BY <1>1, <1>2, <1>4, <1>5
<1>7. ASSUME NEW k \in DOMAIN frags.pieces
      PROVE  /\ frags'.pieces[k].seg = frags.pieces[k].seg
             /\ frags'.pieces[k].objLen = frags.pieces[k].objLen
             /\ frags'.pieces[k].jmp8 = frags.pieces[k].jmp8
             /\ frags'.pieces[k].jmp32 = frags.pieces[k].jmp32
             /\ frags'.pieces[k].to = frags.pieces[k].to
             /\ frags'.pieces[k].ofsType = IF k = i THEN t ELSE frags.pieces[k].ofsType
  <2>1. CASE k = i
    BY <1>1, <1>4, <1>5, <2>1 DEF Fragment
  <2>2. CASE k # i
    BY <1>1, <1>4, <2>2
  <2> QED
    BY <2>1, <2>2
<1>8. \A k \in DOMAIN frags.pieces : frags'.pieces[k].ofsType \in {"REL8", "REL32", "REL8or32"}
  BY <1>1, <1>7 DEF JumpsFirst, FormOK
<1>9. JumpsFirst(frags', target)
  BY <1>1, <1>6, <1>7, <1>8, JumpsFirstKept
<1>10. \A k \in 1 .. Cnt : Frag(k) = frags.pieces[k] /\ Frag(k)' = frags'.pieces[k]
  BY <1>2, <1>3 DEF Frag
<1> QED
  BY <1>2, <1>3, <1>7, <1>9, <1>10 DEF Cnt

\* The two layouts the loops measure with, as lists of lengths.
LEMMA SettleLens ==
  ASSUME RelaxInv, NEW i \in 1 .. Cnt, Looking(i), IsAmbiguous(i), NextJmp,
         NEW t \in {"REL8", "REL32"}, Settle(i, t)
  PROVE  LET M == [k \in 1 .. Cnt |-> IF k = i THEN Frag(i).objLen + (IF t = "REL8" THEN Frag(i).jmp8 ELSE Frag(i).jmp32)
                                      ELSE MaxLens[k]]
         IN /\ M \in [1 .. Cnt -> Nat] /\ \A k \in 1 .. Cnt : M[k] <= MaxLens[k]
            /\ \A k \in 1 .. Cnt : TooFar(k, MaxLens)' <=> TooFar(k, M)
<1> DEFINE M == [k \in 1 .. Cnt |-> IF k = i THEN Frag(i).objLen + (IF t = "REL8" THEN Frag(i).jmp8 ELSE Frag(i).jmp32)
                                    ELSE MaxLens[k]]
<1>1. /\ JumpsFirst(frags, target) /\ PickedUp /\ IsJmp(i) /\ Frag(i).ofsType = "REL8or32"
  BY DEF RelaxInv, LoopInv, Looking, Running, IsAmbiguous
<1>2. /\ Frag(i).objLen \in Nat /\ Frag(i).jmp8 \in Nat /\ Frag(i).jmp32 \in Nat
      /\ Frag(i).jmp8 <= Frag(i).jmp32
  BY <1>1, FragFacts
<1>3. MaxLens \in [1 .. Cnt -> Nat] /\ MaxLens[i] = Frag(i).objLen + Frag(i).jmp32
  BY <1>1, LensType DEF MaxLens, MaxLen
<1>4. M \in [1 .. Cnt -> Nat]
  BY <1>2, <1>3
<1>5. \A k \in 1 .. Cnt : M[k] <= MaxLens[k]
  <2> SUFFICES ASSUME NEW k \in 1 .. Cnt PROVE M[k] <= MaxLens[k]
    OBVIOUS
  <2>1. MaxLens[k] \in Nat
    BY <1>3
  <2>2. CASE k = i
    BY <1>2, <1>3, <2>2
  <2>3. CASE k # i
    BY <2>1, <2>3
  <2> QED
    BY <2>2, <2>3
<1>6. /\ Cnt' = Cnt /\ shrink' = shrink
      /\ \A k \in 1 .. Cnt : /\ Frag(k)'.objLen = Frag(k).objLen
                             /\ Frag(k)'.jmp8 = Frag(k).jmp8 /\ Frag(k)'.jmp32 = Frag(k).jmp32
                             /\ Frag(k)'.ofsType = IF k = i THEN t ELSE Frag(k).ofsType
  BY SettleIs
<1>7. MaxLens' = M
  <2>1. ASSUME NEW k \in 1 .. Cnt PROVE MaxLen(Frag(k))' = M[k]
    <3>1. CASE k = i
      BY <1>6, <3>1 DEF MaxLen
    <3>2. CASE k # i
      BY <1>6, <3>2 DEF MaxLen, MaxLens
    <3> QED
      BY <3>1, <3>2
  <2>2. MaxLens' = [k \in 1 .. Cnt |-> MaxLen(Frag(k))']
    BY <1>6 DEF MaxLens
  <2>3. \A k \in 1 .. Cnt : MaxLens'[k] = M[k]
    BY <2>1, <2>2
  <2> HIDE DEF M
  <2> QED
    BY <1>4, <2>2, <2>3
<1>8. ASSUME NEW k \in 1 .. Cnt
      PROVE  TooFar(k, MaxLens)' <=> TooFar(k, M)
  <2> HIDE DEF M
  <2> QED
    BY <1>6, <1>7 DEF TooFar
<1> QED
  BY <1>4, <1>5, <1>8

LEMMA SettleKeeps ==
  ASSUME RelaxInv, NEW i \in 1 .. Cnt, Looking(i), IsAmbiguous(i), NextJmp,
         NEW t \in {"REL8", "REL32"}, Settle(i, t),
         t = "REL8" => ~TooFar(i, MaxLens), t = "REL32" => TooFar(i, MinLens)
  PROVE  RelaxInv'
<1>1. /\ LoopInv /\ PickedUp /\ JumpsFirst(frags, target) /\ i = i_from /\ i \in Ambiguous /\ i \in capable
      /\ IsJmp(i) /\ Cnt \in Nat /\ Frag(i).ofsType = "REL8or32"
  BY CntNat DEF RelaxInv, LoopInv, Looking, Running, Ambiguous, IsAmbiguous, PickedUp
<1>2. /\ Cnt' = Cnt /\ UNCHANGED <<fault, phase, seg, target, shrink, capable, before, after>>
      /\ \A k \in 1 .. Cnt : /\ Frag(k)'.objLen = Frag(k).objLen
                             /\ Frag(k)'.jmp8 = Frag(k).jmp8 /\ Frag(k)'.jmp32 = Frag(k).jmp32
                             /\ Frag(k)'.ofsType = IF k = i THEN t ELSE Frag(k).ofsType
                             /\ shrink[k].frag = k
      /\ JumpsFirst(frags, target)'
  BY SettleIs
<1>3. \A k \in 1 .. Cnt : IsJmp(k)' <=> IsJmp(k)
  BY <1>2 DEF IsJmp, HasJmp
<1>4. \A k \in 1 .. Cnt : IsAmbiguous(k)' <=> IsAmbiguous(k) /\ k # i
  BY <1>2, <1>3 DEF IsAmbiguous
<1>5. Ambiguous' = Ambiguous \ {i}
  BY <1>2, <1>4 DEF Ambiguous
<1>6. PickedUp'
  <2>1. \A k \in 1 .. Cnt : shrink[k].frag \in DOMAIN frags'.pieces
    <3>1. DOMAIN frags'.pieces = DOMAIN frags.pieces
      BY <1>2 DEF Settle, SetOfsType, With
    <3> QED
      BY <1>1, <3>1 DEF PickedUp
  <2>2. ASSUME NEW k \in 1 .. Cnt, IsJmp(k)
        PROVE  shrink[k].to.frag \in 1 .. Cnt /\ shrink[k].to.ofs \in 0 .. Frag(shrink[k].to.frag)'.objLen
    <3>1. shrink[k].to.frag \in 1 .. Cnt /\ shrink[k].to.ofs \in 0 .. Frag(shrink[k].to.frag).objLen
      BY <1>1, <2>2 DEF PickedUp
    <3>2. Frag(shrink[k].to.frag)'.objLen = Frag(shrink[k].to.frag).objLen
      BY <1>2, <3>1
    <3> QED
      BY <3>1, <3>2
  <2>3. /\ shrink' \in Seq([frag : Nat, to : Targets])
        /\ capable' \subseteq { k \in 1 .. Cnt : IsJmp(k) } /\ Ambiguous' \subseteq capable'
    BY <1>1, <1>2, <1>5 DEF PickedUp
  <2> QED
    BY <1>2, <1>3, <2>1, <2>2, <2>3 DEF PickedUp, Frag
<1>7. Counted' /\ Undecidable'
  <2>1. { k \in Ambiguous' : k < i_from' } = { k \in Ambiguous : k < i_from }
    <3>1. i_from' = i + 1
      BY <1>1 DEF NextJmp
    <3>2. \A k \in Ambiguous : k \in Int
      BY DEF Ambiguous
    <3>3. \A k \in Ambiguous : k < i + 1 /\ k # i <=> k < i
      BY <3>2
    <3> QED
      BY <1>1, <1>5, <3>1, <3>3
  <2>2. IsFiniteSet(Ambiguous)
    BY <1>1, AmbiguousFinite
  <2>3. Cardinality(Ambiguous') = Cardinality(Ambiguous) - 1
    BY <1>1, <1>5, <2>2, FS_RemoveElement
  <2>4. Cardinality(Ambiguous) \in Nat /\ Cardinality(Ambiguous) <= before /\ before \in Nat
        /\ after = Cardinality({ k \in Ambiguous : k < i_from })
    BY <1>1, <2>2, FS_CardinalityType DEF LoopInv, Counted
  <2>5. i_from' \in 1 .. (Cnt + 1)
    BY <1>1 DEF NextJmp
  <2>6. Counted'
    <3>1. Cardinality(Ambiguous') <= before'
      BY <1>2, <2>3, <2>4
    <3>2. after' = Cardinality({ k \in Ambiguous' : k < i_from' })
      BY <1>2, <2>1, <2>4
    <3>3. before' \in Nat /\ i_from' \in 1 .. (Cnt' + 1)
      BY <1>2, <2>4, <2>5
    <3> QED
      BY <3>1, <3>2, <3>3 DEF Counted
  <2>7. Cardinality(Ambiguous') # before'
    BY <1>2, <2>3, <2>4
  <2> QED
    BY <2>6, <2>7 DEF Undecidable
<1>8. \A k \in 1 .. Cnt, s \in RelTypes :
        k \in OfType(s)' <=> k \in capable /\ (IF k = i THEN t = s ELSE Frag(k).ofsType = s)
  BY <1>2 DEF OfType
<1>9. \A s \in RelTypes : OfType(s)' \subseteq 1 .. Cnt
  BY <1>1, <1>2 DEF OfType, PickedUp
<1>10. "REL8" \in RelTypes /\ "REL32" \in RelTypes
  BY DEF RelTypes
<1>11. ShortReach'
  <2> SUFFICES ASSUME NEW k \in OfType("REL8")' PROVE ~TooFar(k, MaxLens)'
    BY DEF ShortReach
  <2>1. k \in 1 .. Cnt /\ k \in capable /\ IsJmp(k)
    BY <1>1, <1>8, <1>9, <1>10 DEF PickedUp
  <2> DEFINE M == [n \in 1 .. Cnt |-> IF n = i THEN Frag(i).objLen + (IF t = "REL8" THEN Frag(i).jmp8 ELSE Frag(i).jmp32)
                                      ELSE MaxLens[n]]
  <2>2. /\ M \in [1 .. Cnt -> Nat] /\ \A n \in 1 .. Cnt : M[n] <= MaxLens[n]
        /\ \A n \in 1 .. Cnt : TooFar(n, MaxLens)' <=> TooFar(n, M)
    BY SettleLens
  <2> HIDE DEF M
  <2>3. ~TooFar(k, MaxLens)
    <3>1. CASE k = i
      BY <1>8, <1>10, <2>1, <3>1
    <3>2. CASE k # i
      <4>1. k \in OfType("REL8")
        BY <1>8, <1>10, <2>1, <3>2 DEF OfType
      <4> QED
        BY <1>1, <4>1 DEF LoopInv, ShortReach
    <3> QED
      BY <3>1, <3>2
  <2>4. MaxLens \in [1 .. Cnt -> Nat]
    BY <1>1, LensType
  <2>5. ~TooFar(k, M)
    BY <1>1, <2>1, <2>2, <2>3, <2>4, TooFarMore
  <2> QED
    BY <2>1, <2>2, <2>5
<1>12. LongNeeded'
  <2>1. \A S : ShortBut(S)' = ShortBut(S)
    <3> SUFFICES ASSUME NEW S PROVE ShortBut(S)' = ShortBut(S)
      OBVIOUS
    <3>1. ASSUME NEW k \in 1 .. Cnt
          PROVE  (Frag(k).objLen + (IF k \in S THEN Frag(k).jmp32
                    ELSE IF k \in capable THEN Frag(k).jmp8
                    ELSE IF IsJmp(k) THEN JmpLen(Frag(k)) ELSE 0))'
                 = Frag(k).objLen + (IF k \in S THEN Frag(k).jmp32
                    ELSE IF k \in capable THEN Frag(k).jmp8
                    ELSE IF IsJmp(k) THEN JmpLen(Frag(k)) ELSE 0)
      <4>1. CASE k = i
        BY <1>1, <1>2, <1>3, <4>1
      <4>2. CASE k # i
        BY <1>2, <1>3, <4>2 DEF JmpLen
      <4> QED
        BY <4>1, <4>2
    <3> QED
      BY <1>2, <3>1 DEF ShortBut
  <2>2. \A k \in 1 .. Cnt : \A S : TooFar(k, ShortBut(S))' <=> TooFar(k, ShortBut(S))
    BY <1>2, <2>1 DEF TooFar
  <2>3. SUFFICES ASSUME NEW S \in SUBSET capable, \A k \in capable \ S : ~TooFar(k, ShortBut(S))
                 PROVE  OfType("REL32")' \subseteq S
    <3>1. \A k \in capable : k \in 1 .. Cnt
      BY <1>1 DEF PickedUp
    <3> QED
      BY <1>2, <2>2, <2>3, <3>1 DEF LongNeeded
  <2>4. OfType("REL32") \subseteq S
    BY <1>1, <2>3 DEF LoopInv, LongNeeded
  <2>5. t = "REL32" => i \in S
    <3> SUFFICES ASSUME t = "REL32" PROVE TooFar(i, ShortBut(S))
      BY <1>1, <2>3
    <3>1. MinLens \in [1 .. Cnt -> Nat] /\ ShortBut(S) \in [1 .. Cnt -> Nat]
      BY <1>1, LensType
    <3>2. \A k \in 1 .. Cnt : MinLens[k] <= ShortBut(S)[k]
      BY <1>1, <2>4, MinLess
    <3> QED
      BY <1>1, <3>1, <3>2, TooFarMore
  <2> QED
    BY <1>8, <1>9, <1>10, <2>4, <2>5 DEF OfType
<1> QED
  BY <1>1, <1>2, <1>6, <1>7, <1>11, <1>12 DEF RelaxInv, LoopInv

------------------------------------------------------------------------------
(* The steps.                                                               *)

LEMMA MinMax ==
  ASSUME JumpsFirst(frags, target), PickedUp
  PROVE  \A k \in 1 .. Cnt : MinLens[k] <= MaxLens[k]
<1> SUFFICES ASSUME NEW k \in 1 .. Cnt PROVE MinLens[k] <= MaxLens[k]
  OBVIOUS
<1> DEFINE f == Frag(k)
<1>1. /\ f.objLen \in Nat /\ f.jmp8 \in Nat /\ f.jmp32 \in Nat
      /\ IsJmp(k) => f.jmp8 <= f.jmp32
      /\ ~IsJmp(k) => f.jmp8 = 0 /\ f.jmp32 = 0
  BY FragFacts
<1>2. MinLens[k] = f.objLen + (IF f.ofsType = "REL32" THEN f.jmp32 ELSE f.jmp8)
  BY DEF MinLens, MinLen
<1>3. MaxLens[k] = f.objLen + (IF f.ofsType \in {"REL32", "REL8or32"} THEN f.jmp32 ELSE f.jmp8)
  BY DEF MaxLens, MaxLen
<1> HIDE DEF f
<1> QED
  BY <1>1, <1>2, <1>3

LEMMA DecideKeeps ==
  ASSUME RelaxInv, NEW i \in 1 .. Cnt, Decide(i)
  PROVE  RelaxInv'
<1>1. /\ JumpsFirst(frags, target) /\ PickedUp /\ IsJmp(i) /\ Looking(i) /\ IsAmbiguous(i) /\ NextJmp
  BY DEF RelaxInv, LoopInv, Decide, Looking, Running, IsAmbiguous
<1>2. /\ MinLens \in [1 .. Cnt -> Nat] /\ MaxLens \in [1 .. Cnt -> Nat]
      /\ \A k \in 1 .. Cnt : MinLens[k] <= MaxLens[k]
  BY <1>1, LensType, MinMax
<1>3. Frag(i).objLen \in Nat /\ Frag(i).jmp8 \in Nat
  BY <1>1, FragFacts
<1>4. (NeedRel32(i, MinLens) <=> TooFar(i, MinLens)) /\ (NeedRel32(i, MaxLens) <=> TooFar(i, MaxLens))
  BY <1>1, <1>2, <1>3, NeedIs
<1>5. TooFar(i, MinLens) => TooFar(i, MaxLens)
  BY <1>1, <1>2, TooFarMore
<1>6. ASSUME NEW len
      PROVE  NeedRel32(i, len) \in BOOLEAN
  <2>1. CASE IsMinus(i)
    BY <2>1 DEF NeedRel32
  <2>2. CASE ~IsMinus(i)
    BY <2>2 DEF NeedRel32
  <2> QED
    BY <2>1, <2>2
<1>7. CASE NeedRel32(i, MinLens) /\ NeedRel32(i, MaxLens)
  <2>1. Settle(i, "REL32")
    <3>1. NeedRel32(i, MinLens) = NeedRel32(i, MaxLens)
      BY <1>6, <1>7
    <3> QED
      BY <1>7, <3>1 DEF Decide
  <2> QED
    BY <1>1, <1>4, <1>7, <2>1, SettleKeeps
<1>8. CASE ~NeedRel32(i, MinLens) /\ ~NeedRel32(i, MaxLens)
  <2>1. Settle(i, "REL8")
    <3>1. NeedRel32(i, MinLens) = NeedRel32(i, MaxLens)
      BY <1>6, <1>8
    <3> QED
      BY <1>8, <3>1 DEF Decide
  <2> QED
    BY <1>1, <1>4, <1>8, <2>1, SettleKeeps
<1>9. CASE ~NeedRel32(i, MinLens) /\ NeedRel32(i, MaxLens)
  <2>1. LeaveOpen
    <3>1. NeedRel32(i, MinLens) # NeedRel32(i, MaxLens)
      BY <1>9
    <3> QED
      BY <3>1 DEF Decide
  <2> QED
    BY <1>1, <1>4, <1>9, <2>1, LeaveKeeps
<1> QED
  BY <1>4, <1>5, <1>7, <1>8, <1>9

\* No jump leads out of its segment, so none is decided by a slot that nobody
\* wrote, and no assertion on a target fails.
LEMMA NeverBlind ==
  ASSUME RelaxInv, NEW i \in 1 .. Cnt
  PROVE  ~DecideBlindly(i) /\ ~DecideFails(i)
<1> SUFFICES ASSUME Looking(i), IsAmbiguous(i) PROVE Known(shrink[i].to.frag) /\ ~BadTarget(i)
  BY DEF DecideBlindly, DecideFails
<1>1. PickedUp /\ JumpsFirst(frags, target) /\ IsJmp(i)
  BY DEF RelaxInv, LoopInv, Looking, Running, IsAmbiguous
<1>2. /\ Known(shrink[i].to.frag) /\ shrink[i].to.frag \in 1 .. Cnt
      /\ shrink[i].to.ofs \in Nat /\ shrink[i].to.ofs <= Frag(shrink[i].to.frag).objLen
  BY <1>1, LookupIs
<1>3. Frag(i).objLen \in Nat
  BY <1>1, FragFacts
<1>4. ~BadTarget(i)
  <2>1. shrink[i].to.frag = i => ~(Frag(i).objLen < shrink[i].to.ofs)
    BY <1>2, <1>3
  <2>2. ~(shrink[i].to.frag - 1 > Cnt)
    BY <1>1, <1>2, CntNat
  <2> QED
    BY <2>1, <2>2 DEF BadTarget
<1> QED
  BY <1>2, <1>4

LEMMA AgainKeeps ==
  ASSUME RelaxInv, Again
  PROVE  RelaxInv'
<1>1. LoopInv /\ Cnt \in Nat /\ i_from > Cnt
  BY CntNat DEF RelaxInv, LoopInv, Again, Running
<1>2. /\ UNCHANGED <<frags, fault, phase, seg, target, shrink, capable>>
      /\ before' = after /\ after' = 0 /\ i_from' = 1
  BY DEF Again
<1>3. Cnt' = Cnt /\ Ambiguous' = Ambiguous /\ PickedUp' /\ ShortReach' /\ LongNeeded'
  BY <1>1, <1>2, SameFrags DEF LoopInv
<1>4. \A k \in Ambiguous : k < i_from /\ ~(k < 1)
  BY <1>1 DEF Ambiguous, LoopInv, Counted
<1>5. { k \in Ambiguous : k < i_from } = Ambiguous /\ { k \in Ambiguous : k < 1 } = {}
  BY <1>4
<1>6. Cardinality(Ambiguous) \in Nat
  BY <1>1, AmbiguousFinite, FS_CardinalityType DEF LoopInv
<1>7. after = Cardinality(Ambiguous)
  BY <1>1, <1>5 DEF LoopInv, Counted
<1>8. Counted'
  <2>1. after' = Cardinality({ k \in Ambiguous' : k < i_from' })
    BY <1>2, <1>3, <1>5, FS_EmptySet
  <2>2. before' \in Nat /\ i_from' \in 1 .. (Cnt' + 1) /\ Cardinality(Ambiguous') <= before'
    BY <1>1, <1>2, <1>3, <1>6, <1>7
  <2> QED
    BY <2>1, <2>2 DEF Counted
<1>9. Undecidable'
  BY <1>2, <1>3, <1>4 DEF Undecidable
<1> QED
  BY <1>1, <1>2, <1>3, <1>8, <1>9 DEF RelaxInv, LoopInv

LEMMA PlaceKeeps ==
  ASSUME RelaxInv, ToReftbl
  PROVE  RelaxInv'
<1>1. PickedUp /\ JumpsFirst(frags, target) /\ frags.pieces \in Seq(Fragment) /\ Cnt \in Nat
  BY CntNat DEF RelaxInv, LoopInv, ToReftbl, LoopDone, Running, JumpsFirst
<1>2. fault' = "none" /\ target' = target /\ seg' = "DSEG" /\ phase' \in {"startup", "addresses"} /\ frags' = Placed
  BY DEF RelaxInv, ToReftbl, Goto, AfterSeg
<1>3. FinalLens \in [1 .. Cnt -> Nat]
  <2>1. ASSUME NEW k \in 1 .. Cnt PROVE FinalLen(Frag(k)) \in Nat
    BY <1>1, FragFacts DEF FinalLen, JmpLen
  <2> QED
    BY <2>1 DEF FinalLens
<1> DEFINE addr(k) == Distance(FinalLens, 1, k) % SegMod
           g(id) == IF Known(id) THEN [frags.pieces[id] EXCEPT !.segAddr = addr(Lookup(id))] ELSE frags.pieces[id]
<1>4. ASSUME NEW k \in 1 .. Cnt
      PROVE  addr(k) \in Nat
  <2>1. k \in 1 .. (Cnt + 1) /\ 1 \in Nat \ {0}
    BY <1>1
  <2>2. Distance(FinalLens, 1, k) \in Nat
    BY <1>1, <1>3, <2>1, DistanceNat
  <2> QED
    BY <2>2, SegModAssumption
<1>5. ASSUME NEW id, Known(id)
      PROVE  Lookup(id) \in 1 .. Cnt
  BY <1>5 DEF Known, Lookup
<1> HIDE DEF addr
<1>6. frags'.pieces = [id \in DOMAIN frags.pieces |-> g(id)]
  BY <1>2 DEF Placed, addr
<1>7. ASSUME NEW id \in DOMAIN frags.pieces
      PROVE  /\ g(id) \in Fragment
             /\ g(id).seg = frags.pieces[id].seg /\ g(id).objLen = frags.pieces[id].objLen
             /\ g(id).jmp8 = frags.pieces[id].jmp8 /\ g(id).jmp32 = frags.pieces[id].jmp32
             /\ g(id).to = frags.pieces[id].to /\ g(id).ofsType = frags.pieces[id].ofsType
  <2>1. frags.pieces[id] \in Fragment
    BY <1>1
  <2>2. CASE Known(id)
    <3>1. addr(Lookup(id)) \in Nat
      BY <1>4, <1>5, <2>2
    <3> QED
      BY <2>1, <2>2, <3>1 DEF Fragment
  <2>3. CASE ~Known(id)
    BY <2>1, <2>3
  <2> QED
    BY <2>2, <2>3
<1>8. frags'.pieces \in Seq(Fragment) /\ DOMAIN frags'.pieces = DOMAIN frags.pieces
  <2>1. \A id \in DOMAIN frags.pieces : g(id) \in Fragment
    BY <1>7
  <2> HIDE DEF g
  <2>2. Len(frags.pieces) \in Nat /\ DOMAIN frags.pieces = 1 .. Len(frags.pieces)
    BY <1>1
  <2>3. frags'.pieces \in [1 .. Len(frags.pieces) -> Fragment]
    BY <1>6, <2>1, <2>2
  <2> QED
    BY <2>2, <2>3
<1>9. ASSUME NEW id \in DOMAIN frags.pieces
      PROVE  /\ frags'.pieces[id].seg = frags.pieces[id].seg /\ frags'.pieces[id].objLen = frags.pieces[id].objLen
             /\ frags'.pieces[id].jmp8 = frags.pieces[id].jmp8 /\ frags'.pieces[id].jmp32 = frags.pieces[id].jmp32
             /\ frags'.pieces[id].to = frags.pieces[id].to
             /\ frags'.pieces[id].ofsType \in {"REL8", "REL32", "REL8or32"}
  <2>1. frags'.pieces[id] = g(id)
    BY <1>6
  <2>2. frags.pieces[id].ofsType \in {"REL8", "REL32", "REL8or32"}
    BY <1>1 DEF JumpsFirst, FormOK
  <2> HIDE DEF g
  <2> QED
    BY <1>7, <2>1, <2>2
<1>10. JumpsFirst(frags', target)
  BY <1>1, <1>8, <1>9, JumpsFirstKept
<1> QED
  BY <1>2, <1>10 DEF RelaxInv

LEMMA StutterKeeps ==
  ASSUME RelaxInv, UNCHANGED allVars
  PROVE  RelaxInv'
<1>1. UNCHANGED <<frags, phase, fault, seg, target, shrink, i_from, before, after, capable>>
  BY DEF allVars, relaxVars, optVars
<1>2. CASE phase = "optimize"
  <2>1. LoopInv
    BY <1>2 DEF RelaxInv
  <2>2. /\ Cnt' = Cnt /\ Ambiguous' = Ambiguous /\ PickedUp' /\ ShortReach' /\ LongNeeded'
        /\ \A k : TooFar(k, MinLens)' <=> TooFar(k, MinLens)
        /\ \A k : TooFar(k, MaxLens)' <=> TooFar(k, MaxLens)
    BY <1>1, <2>1, SameFrags DEF LoopInv
  <2>3. Counted'
    BY <1>1, <2>1, <2>2 DEF LoopInv, Counted
  <2>4. Undecidable'
    BY <1>1, <2>1, <2>2 DEF LoopInv, Undecidable
  <2> QED
    BY <1>1, <2>2, <2>3, <2>4 DEF RelaxInv, LoopInv
<1>3. CASE phase # "optimize"
  BY <1>1, <1>3 DEF RelaxInv
<1> QED
  BY <1>2, <1>3

\* The invariant of the loops: it counts the jumps they leave, and says of
\* each jump they decided why, compared with the two extreme layouts and with
\* every layout the reference allows.
THEOREM RelaxInvHolds == SpecFirst => []RelaxInv
<1>1. InitRelax(frags, target) /\ JumpsFirst(frags, target) => RelaxInv
  BY DEF InitRelax, RelaxInv
<1>2. RelaxInv /\ [NextRelax]_allVars => RelaxInv'
  <2> SUFFICES ASSUME RelaxInv, [NextRelax]_allVars PROVE RelaxInv'
    OBVIOUS
  <2>1. CASE Startup
    BY <2>1, StartupKeeps
  <2>2. ASSUME NEW i \in 1 .. Cnt, Skip(i) \/ Decide(i) \/ DecideBlindly(i) \/ DecideFails(i)
        PROVE  RelaxInv'
    BY <2>2, SkipKeeps, DecideKeeps, NeverBlind
  <2>3. CASE Again
    BY <2>3, AgainKeeps
  <2>4. CASE ToReftbl
    BY <2>4, PlaceKeeps
  <2>5. CASE UNCHANGED allVars
    BY <2>5, StutterKeeps
  <2> QED
    BY <2>1, <2>2, <2>3, <2>4, <2>5 DEF NextRelax, OptimizeStep
<1> QED
  BY <1>1, <1>2, PTL DEF SpecFirst

LEMMA AtEnd ==
  ASSUME RelaxInv, LoopDone
  PROVE  JumpsFirst(frags, target) /\ LoopInv
BY DEF RelaxInv, LoopDone, Running

\* Pass 2.1 (_jmp8or32_optimize): every jump it left short reaches its target
\* in the layout that _jmp8or32_to_reftbl writes.
THEOREM Rel8ReachesHolds == SpecFirst => []Rel8Reaches
<1>1. RelaxInv => Rel8Reaches
  BY AtEnd, EndsShort DEF Rel8Reaches
<1> QED
  BY <1>1, RelaxInvHolds, PTL

\* It decides what the reference decides: no long jump could be short, no
\* short one had to be long.
THEOREM DecidedLikeLeastHolds == SpecFirst => []DecidedLikeLeast
<1>1. RelaxInv => DecidedLikeLeast
  BY AtEnd, EndsShort, EndsLong DEF DecidedLikeLeast
<1> QED
  BY <1>1, RelaxInvHolds, PTL

\* The loop that gave up could not have gone on: what is still ambiguous then
\* hangs on other ambiguous jumps.
THEOREM OnlyCirclesLeftHolds == SpecFirst => []OnlyCirclesLeft
<1>1. RelaxInv => OnlyCirclesLeft
  BY AtEnd, EndsOpen DEF OnlyCirclesLeft
<1> QED
  BY <1>1, RelaxInvHolds, PTL

\* No assertion of pass 2.1 fails, the last one, on the number of jumps the
\* loop before had left, included.
THEOREM LoopAssertionsHold == SpecFirst => []LoopAssertions
<1>1. RelaxInv => LoopAssertions
  BY AtEnd, NothingDecided DEF LoopAssertions, RelaxInv, LoopInv
<1> QED
  BY <1>1, RelaxInvHolds, PTL
==============================================================================
