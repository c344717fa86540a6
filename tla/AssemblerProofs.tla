--------------------------- MODULE AssemblerProofs ---------------------------
(***************************************************************************)
(* Proofs about the whole of x86_64.intel.c, for sources of any length:    *)
(* the layout pass 2 gives the fragments puts every address at the byte    *)
(* pass 1 meant, and what is written there - patches, relocations, unwind  *)
(* records - is counted from those bytes.                                  *)
(***************************************************************************)
EXTENDS Assembler, Pass1Proofs

(* Sums over the fragments of a segment.                                    *)

\* The sum over the fragments in front of m, and what one fragment more adds.
LEMMA FrontSum ==
  ASSUME NEW F, F.pieces \in Seq(Fragment), NEW s, NEW L, \A i \in DOMAIN F.pieces : L[i] \in Nat,
         NEW m \in Nat
  PROVE  /\ IsFiniteSet(Front(F, s, m)) /\ Front(F, s, m) \subseteq IdsOf(F, s)
         /\ \A i \in Front(F, s, m) : L[i] \in Nat
         /\ SumFunctionOnSet(L, Front(F, s, m)) \in Nat
<1> DEFINE S == Front(F, s, m)
<1>1. IsFiniteSet(S) /\ S \subseteq IdsOf(F, s) /\ \A i \in S : L[i] \in Nat
  BY IdsBefore DEF Front, IdsOf
<1>2. SumFunctionOnSet(L, S) \in Nat
  <2> HIDE DEF S
  <2> QED
    BY <1>1, SumType
<1> QED
  BY <1>1, <1>2

LEMMA FrontStep ==
  ASSUME NEW F, F.pieces \in Seq(Fragment), NEW s, NEW L, \A i \in DOMAIN F.pieces : L[i] \in Nat,
         NEW m \in DOMAIN F.pieces
  PROVE  SumFunctionOnSet(L, Front(F, s, m + 1))
           = SumFunctionOnSet(L, Front(F, s, m)) + IF F.pieces[m].seg = s THEN L[m] ELSE 0
<1> DEFINE S == Front(F, s, m)
           R == Front(F, s, m + 1)
<1>1. m \in Nat /\ m + 1 \in Nat /\ \A i : i \in 1 .. ((m + 1) - 1) <=> i \in 1 .. (m - 1) \/ i = m
  OBVIOUS
<1>2. m \notin 1 .. (m - 1)
  BY <1>1
<1>3. IsFiniteSet(S) /\ SumFunctionOnSet(L, S) \in Nat /\ \A i \in S : L[i] \in Nat
  BY <1>1, FrontSum
<1>4. CASE F.pieces[m].seg = s
  <2>1. R = S \cup {m} /\ m \notin S
    BY <1>1, <1>2, <1>4 DEF IdsOf, Front
  <2>2. \A i \in S \cup {m} : L[i] \in Int
    BY <1>3
  <2>3. SumFunctionOnSet(L, S \cup {m}) = L[m] + SumFunctionOnSet(L, S)
    <3> HIDE DEF S, R
    <3> QED
      BY <1>3, <2>1, <2>2, SumAdd
  <2>4. SumFunctionOnSet(L, R) = L[m] + SumFunctionOnSet(L, S)
    BY <2>1, <2>3
  <2>5. L[m] \in Nat
    OBVIOUS
  <2>6. SumFunctionOnSet(L, R) = SumFunctionOnSet(L, S) + L[m]
    <3> HIDE DEF S, R
    <3> QED
      BY <1>3, <2>4, <2>5
  <2> QED
    BY <1>4, <2>6
<1>5. CASE F.pieces[m].seg # s
  <2>1. R = S
    BY <1>1, <1>2, <1>5 DEF IdsOf, Front
  <2> QED
    BY <1>3, <1>5, <2>1
<1> QED
  BY <1>4, <1>5

\* More fragments in front add up to more; a fragment of the segment counts.
LEMMA FrontMore ==
  ASSUME NEW F, F.pieces \in Seq(Fragment), NEW s, NEW L, \A i \in DOMAIN F.pieces : L[i] \in Nat,
         NEW m \in Nat, NEW n \in Nat, m <= n
  PROVE  SumFunctionOnSet(L, Front(F, s, m)) <= SumFunctionOnSet(L, Front(F, s, n))
<1> DEFINE S == Front(F, s, m)
           R == Front(F, s, n)
<1>1. S \in SUBSET R
  BY DEF Front
<1>2. IsFiniteSet(R) /\ \A i \in R : L[i] \in Nat
  BY FrontSum
<1> HIDE DEF S, R
<1>3. SumFunctionOnSet(L, S) <= SumFunctionOnSet(L, R)
  BY <1>1, <1>2, SumMore
<1> QED
  BY <1>3 DEF S, R

LEMMA FrontPast ==
  ASSUME NEW F, F.pieces \in Seq(Fragment), NEW s, NEW L, \A i \in DOMAIN F.pieces : L[i] \in Nat,
         NEW m \in DOMAIN F.pieces, F.pieces[m].seg = s, NEW n \in Nat, m < n
  PROVE  SumFunctionOnSet(L, Front(F, s, m)) + L[m] <= SumFunctionOnSet(L, Front(F, s, n))
<1>1. m \in Nat /\ m + 1 \in Nat /\ m + 1 <= n
  OBVIOUS
<1>2. SumFunctionOnSet(L, Front(F, s, m + 1)) <= SumFunctionOnSet(L, Front(F, s, n))
  BY <1>1, FrontMore
<1>3. SumFunctionOnSet(L, Front(F, s, m + 1)) = SumFunctionOnSet(L, Front(F, s, m)) + L[m]
  BY FrontStep
<1> QED
  BY <1>2, <1>3

------------------------------------------------------------------------------
(* The place of a fragment, and of an item, in the layout.                  *)

Bytes(F) == [id \in DOMAIN F.pieces |-> FinalLen(F.pieces[id])]
Start(F, s, m) == SumFunctionOnSet(Bytes(F), Front(F, s, m))

LEMMA FinalLenNat ==
  ASSUME NEW f \in Fragment
  PROVE  /\ f.objLen \in Nat /\ f.seg \in Segments /\ FinalLen(f) \in Nat
         /\ ~HasJmp(f) => FinalLen(f) = f.objLen
         /\ HasJmp(f) => FinalLen(f) = f.objLen + JmpLen(f) /\ JmpLen(f) \in Nat /\ JmpLen(f) > 0
<1>1. f.objLen \in Nat /\ f.jmp8 \in Nat /\ f.jmp32 \in Nat /\ f.seg \in Segments
  BY LimitsAssumption DEF Fragment, JmpLens
<1>2. HasJmp(f) => JmpLen(f) \in Nat /\ JmpLen(f) > 0
  BY <1>1 DEF HasJmp, JmpLen
<1> QED
  BY <1>1, <1>2 DEF FinalLen

LEMMA BytesNat ==
  ASSUME NEW F, F.pieces \in Seq(Fragment)
  PROVE  /\ \A i \in DOMAIN F.pieces : Bytes(F)[i] \in Nat /\ Bytes(F)[i] = FinalLen(F.pieces[i])
         /\ \A i \in DOMAIN F.pieces : Lens(F)[i] \in Nat /\ Lens(F)[i] = ItemLen(F.pieces[i])
<1>1. \A i \in DOMAIN F.pieces : F.pieces[i] \in Fragment
  OBVIOUS
<1> QED
  BY <1>1, FinalLenNat, ItemLenNat DEF Bytes, Lens

LEMMA StartNat ==
  ASSUME NEW F, F.pieces \in Seq(Fragment), NEW s, NEW m \in Nat
  PROVE  Start(F, s, m) \in Nat
<1> DEFINE L == Bytes(F)
<1>1. \A i \in DOMAIN F.pieces : L[i] \in Nat
  BY BytesNat
<1> HIDE DEF L
<1>2. SumFunctionOnSet(L, Front(F, s, m)) \in Nat
  BY <1>1, FrontSum
<1> QED
  BY <1>2 DEF Start, L

\* How much of fragment id lies in front of item m, and all of it together.
Part(m) == [id \in DOMAIN frags.pieces |->
  LET f == frags.pieces[id]
      k == m.pos - ItemsBeforeFrag(id)
  IN IF k <= 0 THEN 0 ELSE IF k > f.objLen THEN FinalLen(f) ELSE k]

LEMMA ByteAtIs ==
  ASSUME NEW m
  PROVE  ByteAt(m) = SumFunctionOnSet(Part(m), IdsOf(frags, m.seg))
BY DEF ByteAt, Part

LEMMA ItemsBeforeIs ==
  ASSUME NEW id \in DOMAIN frags.pieces
  PROVE  ItemsBeforeFrag(id) = Below(frags, frags.pieces[id].seg, id)
BY DEF ItemsBeforeFrag, ItemLens, Below, Lens, Front

\* The items in front of m: all of the fragments before f, the first o bytes
\* of f, nothing of the others.
InPlace(F, f, m, o) ==
  LET p == F.pieces[f] IN
  /\ m.seg = p.seg
  /\ \/ o <= p.objLen /\ m.pos = Below(F, m.seg, f) + o
     \/ HasJmp(p) /\ o = FinalLen(p) /\ m.pos = Below(F, m.seg, f) + ItemLen(p)

LEMMA PartIs ==
  ASSUME frags.pieces \in Seq(Fragment), NEW f \in DOMAIN frags.pieces, NEW m, NEW o \in Nat,
         InPlace(frags, f, m, o), NEW id \in IdsOf(frags, m.seg)
  PROVE  /\ id \in DOMAIN frags.pieces /\ id \in Nat /\ f \in Nat
         /\ id < f => Part(m)[id] = Bytes(frags)[id]
         /\ id = f => Part(m)[id] = o
         /\ f < id => Part(m)[id] = 0
<1> DEFINE s == m.seg
           p == frags.pieces[f]
           q == frags.pieces[id]
           front == Below(frags, s, f)
           before_ == Below(frags, s, id)
<1>1. id \in DOMAIN frags.pieces /\ id \in Nat /\ f \in Nat /\ q.seg = s /\ p.seg = s
  BY DEF IdsOf, InPlace
<1>2. p \in Fragment /\ q \in Fragment
  BY <1>1
<1>3. /\ p.objLen \in Nat /\ q.objLen \in Nat /\ FinalLen(p) \in Nat /\ FinalLen(q) \in Nat
      /\ ~HasJmp(q) => FinalLen(q) = q.objLen /\ ItemLen(q) = q.objLen
      /\ HasJmp(q) => ItemLen(q) = q.objLen + 1
      /\ HasJmp(p) => ItemLen(p) = p.objLen + 1
      /\ ItemLen(p) \in Nat /\ ItemLen(q) \in Nat /\ p.objLen <= ItemLen(p)
  <2> HIDE DEF p, q
  <2>1. /\ p.objLen \in Nat /\ FinalLen(p) \in Nat /\ ItemLen(p) \in Nat
        /\ (~HasJmp(p) => ItemLen(p) = p.objLen) /\ (HasJmp(p) => ItemLen(p) = p.objLen + 1)
    BY <1>2, FinalLenNat, ItemLenNat
  <2>2. /\ q.objLen \in Nat /\ FinalLen(q) \in Nat /\ ItemLen(q) \in Nat
        /\ (~HasJmp(q) => ItemLen(q) = q.objLen /\ FinalLen(q) = q.objLen) /\ (HasJmp(q) => ItemLen(q) = q.objLen + 1)
    BY <1>2, FinalLenNat, ItemLenNat
  <2>3. p.objLen <= ItemLen(p)
    BY <2>1
  <2> QED
    BY <2>1, <2>2, <2>3
<1>4. front \in Nat /\ before_ \in Nat
  BY <1>1, BelowNat
<1>5. ItemsBeforeFrag(id) = before_
  BY <1>1, ItemsBeforeIs
<1>6. Part(m)[id] = IF m.pos - before_ <= 0 THEN 0
                    ELSE IF m.pos - before_ > q.objLen THEN FinalLen(q) ELSE m.pos - before_
  <2> HIDE DEF before_
  <2> QED
    BY <1>1, <1>5 DEF Part
<1>7. Bytes(frags)[id] = FinalLen(q)
  BY <1>1 DEF Bytes
<1>8. m.pos \in Nat /\ front <= m.pos /\ m.pos <= front + ItemLen(p)
      /\ \/ o <= p.objLen /\ m.pos = front + o
         \/ o = FinalLen(p) /\ HasJmp(p) /\ m.pos = front + ItemLen(p)
  <2> HIDE DEF front
  <2>1. \/ o <= p.objLen /\ m.pos = front + o
        \/ HasJmp(p) /\ o = FinalLen(p) /\ m.pos = front + ItemLen(p)
    BY DEF InPlace, front
  <2>2. /\ p.objLen \in Nat /\ ItemLen(p) \in Nat /\ p.objLen <= ItemLen(p) /\ front \in Nat
    BY <1>3, <1>4
  <2> HIDE DEF p
  <2>3. CASE o <= p.objLen /\ m.pos = front + o
    BY <2>2, <2>3
  <2>4. CASE HasJmp(p) /\ o = FinalLen(p) /\ m.pos = front + ItemLen(p)
    BY <2>2, <2>4
  <2> QED
    BY <2>1, <2>3, <2>4
<1>9. /\ id < f => before_ + ItemLen(q) <= front
      /\ f < id => front + ItemLen(p) <= before_
  <2> DEFINE L == Lens(frags)
  <2>1. \A i \in DOMAIN frags.pieces : L[i] \in Nat /\ L[i] = ItemLen(frags.pieces[i])
    BY BytesNat
  <2> HIDE DEF L
  <2>2. ASSUME id < f PROVE SumFunctionOnSet(L, Front(frags, s, id)) + L[id] <= SumFunctionOnSet(L, Front(frags, s, f))
    BY <1>1, <2>1, <2>2, FrontPast
  <2>3. ASSUME f < id PROVE SumFunctionOnSet(L, Front(frags, s, f)) + L[f] <= SumFunctionOnSet(L, Front(frags, s, id))
    BY <1>1, <2>1, <2>3, FrontPast
  <2> QED
    BY <1>1, <2>1, <2>2, <2>3 DEF Below, L
<1> HIDE DEF front, before_, p, q
<1>10. ASSUME id < f PROVE Part(m)[id] = Bytes(frags)[id]
  <2>1. m.pos - before_ >= ItemLen(q)
    BY <1>3, <1>4, <1>8, <1>9, <1>10
  <2>2. CASE HasJmp(q)
    <3>1. m.pos - before_ > q.objLen /\ ~(m.pos - before_ <= 0)
      BY <1>3, <1>4, <1>8, <2>1, <2>2, SMTT(30)
    <3> QED
      BY <1>6, <1>7, <3>1
  <2>3. CASE ~HasJmp(q)
    <3>1. m.pos - before_ >= q.objLen /\ FinalLen(q) = q.objLen
      BY <1>3, <2>1, <2>3
    <3>2. CASE m.pos - before_ > q.objLen
      <4>1. ~(m.pos - before_ <= 0)
        BY <1>3, <1>4, <1>8, <3>2
      <4> QED
        BY <1>6, <1>7, <3>2, <4>1
    <3>3. CASE m.pos - before_ = q.objLen
      <4>1. q.objLen \in Nat /\ (q.objLen <= 0 => q.objLen = 0) /\ ~(q.objLen > q.objLen)
        BY <1>3
      <4> QED
        BY <1>6, <1>7, <3>1, <3>3, <4>1
    <3> QED
      BY <1>3, <1>4, <1>8, <3>1, <3>2, <3>3
  <2> QED
    BY <2>2, <2>3
<1>11. ASSUME id = f PROVE Part(m)[id] = o
  <2>1. before_ = front /\ q = p
    BY <1>11 DEF before_, front, p, q
  <2>2. CASE o <= p.objLen /\ m.pos = front + o
    BY <1>3, <1>4, <1>6, <2>1, <2>2
  <2>3. CASE o = FinalLen(p) /\ HasJmp(p) /\ m.pos = front + ItemLen(p)
    <3>1. m.pos - before_ > q.objLen /\ ~(m.pos - before_ <= 0)
      BY <1>3, <1>4, <2>1, <2>3
    <3> QED
      BY <1>6, <2>1, <2>3, <3>1
  <2> QED
    BY <1>8, <2>2, <2>3
<1>12. ASSUME f < id PROVE Part(m)[id] = 0
  <2>1. m.pos - before_ <= 0
    BY <1>3, <1>4, <1>8, <1>9, <1>12
  <2> QED
    BY <1>6, <2>1
<1> QED
  BY <1>1, <1>10, <1>11, <1>12

LEMMA PlaceIs ==
  ASSUME frags.pieces \in Seq(Fragment), NEW f \in DOMAIN frags.pieces, NEW m, NEW o \in Nat,
         InPlace(frags, f, m, o)
  PROVE  ByteAt(m) = Start(frags, m.seg, f) + o
<1> DEFINE s == m.seg
           g == Part(m)
           A == Front(frags, s, f)
           B == IdsOf(frags, s) \ (A \cup {f})
<1>1. f \in Nat /\ f \in IdsOf(frags, s) /\ f \notin A /\ A \subseteq IdsOf(frags, s)
  BY DEF InPlace, IdsOf, Front
<1>2. IsFiniteSet(IdsOf(frags, s))
  <2>1. DOMAIN frags.pieces = 1 .. Len(frags.pieces) /\ Len(frags.pieces) \in Nat
    OBVIOUS
  <2>2. IsFiniteSet(DOMAIN frags.pieces)
    BY <2>1, FS_Interval
  <2>3. IdsOf(frags, s) \in SUBSET DOMAIN frags.pieces
    BY DEF IdsOf
  <2> QED
    BY <2>2, <2>3, FS_Subset
<1>3. IsFiniteSet(A) /\ IsFiniteSet(A \cup {f}) /\ IsFiniteSet(B)
  <2>1. A \in SUBSET IdsOf(frags, s) /\ A \cup {f} \in SUBSET IdsOf(frags, s) /\ B \in SUBSET IdsOf(frags, s)
    BY <1>1
  <2> HIDE DEF A, B
  <2> QED
    BY <1>2, <2>1, FS_Subset
<1>4. \A id \in A : g[id] = Bytes(frags)[id] /\ Bytes(frags)[id] \in Nat
  <2> SUFFICES ASSUME NEW id \in A PROVE g[id] = Bytes(frags)[id] /\ Bytes(frags)[id] \in Nat
    OBVIOUS
  <2>1. id \in IdsOf(frags, s) /\ id < f /\ id \in DOMAIN frags.pieces
    BY <1>1 DEF Front, IdsOf
  <2>2. Bytes(frags)[id] \in Nat
    BY <2>1, BytesNat
  <2> HIDE DEF A, g
  <2> QED
    BY <2>1, <2>2, PartIs DEF g
<1>5. g[f] = o
  BY <1>1, PartIs
<1>6. \A id \in B : g[id] = 0
  <2> SUFFICES ASSUME NEW id \in B PROVE g[id] = 0
    OBVIOUS
  <2>1. id \in IdsOf(frags, s) /\ id \in Nat /\ f < id
    BY <1>1 DEF Front, IdsOf
  <2> HIDE DEF B, g
  <2> QED
    BY <2>1, PartIs DEF g
<1>7. (A \cup {f}) \cup B = IdsOf(frags, s) /\ (A \cup {f}) \cap B = {}
  BY <1>1
<1> HIDE DEF A, B, g
<1>8. SumFunctionOnSet(g, A) = SumFunctionOnSet(Bytes(frags), A)
  BY <1>3, <1>4, SumSame
<1>9. SumFunctionOnSet(g, A \cup {f}) = g[f] + SumFunctionOnSet(g, A)
  BY <1>1, <1>3, <1>4, <1>5, SumAdd
<1>10. SumFunctionOnSet(g, (A \cup {f}) \cup B) = SumFunctionOnSet(g, A \cup {f}) + SumFunctionOnSet(g, B)
  <2>1. \A i \in (A \cup {f}) \cup B : g[i] \in Int
    BY <1>4, <1>5, <1>6
  <2> QED
    BY <1>3, <1>7, <2>1, SumApart
<1>11. SumFunctionOnSet(g, B) = 0
  BY <1>3, <1>6, SumZero
<1>12. ByteAt(m) = SumFunctionOnSet(g, IdsOf(frags, s))
  BY ByteAtIs DEF g
<1>13. Start(frags, s, f) = SumFunctionOnSet(Bytes(frags), A) /\ Start(frags, s, f) \in Nat
  BY <1>1, StartNat DEF Start, A
<1> DEFINE n == Start(frags, s, f)
<1>14. SumFunctionOnSet(g, A \cup {f}) = o + n /\ n \in Nat
  BY <1>5, <1>8, <1>9, <1>13
<1>15. ByteAt(m) = SumFunctionOnSet(g, A \cup {f}) + 0
  BY <1>7, <1>10, <1>11, <1>12
<1> HIDE DEF n
<1>16. ByteAt(m) = n + o
  BY <1>14, <1>15
<1> QED
  BY <1>16 DEF n

------------------------------------------------------------------------------
(* The layout, at every step of pass 2.                                     *)

Late   == {"addresses", "lengths", "cfi", "references", "results", "done"}
Phases == {"pass1", "startup", "optimize"} \cup Late

\* The segments whose fragments have got their addresses.
Past(sg, ph, s) == IF s = "CSEG" THEN sg = "DSEG" ELSE s = "DSEG" /\ ph \in Late
LaidOut(s)      == Past(seg, phase, s)
LaidOutNext(s)  == Past(seg', phase', s)

\* Such a fragment stands behind the others of its segment, any other nowhere.
Addressed ==
  \A id \in DOMAIN frags.pieces :
    LET p == frags.pieces[id]
    IN p.segAddr = IF LaidOut(p.seg) THEN Start(frags, p.seg, id) % SegMod ELSE Unset

Measured ==
  \A s \in {"CSEG", "DSEG"} :
    LaidOut(s) => codesLen[s] = Start(frags, s, Len(frags.pieces) + 1)

\* An address points at a byte of its fragment, at its end, or behind the jump
\* that ends it; the latter only once the jump has got its form.
PointsAt(F, a, done) ==
  LET p == F.pieces[a.frag] IN
  /\ a.frag \in DOMAIN F.pieces
  /\ a.ofs <= p.objLen \/ (HasJmp(p) /\ done /\ a.ofs = FinalLen(p))
Pointing == \A a \in AddrIds : PointsAt(frags, addrs[a], LaidOut(frags.pieces[addrs[a].frag].seg))

\* It is the place of the item it was taken at.
Meaning == \A a \in AddrIds :
  addrs[a].frag \notin retagged => InPlace(frags, addrs[a].frag, meant[a], addrs[a].ofs)

\* While the loops run, shrink holds the fragments of the segment in order.
Gathered ==
  phase = "optimize" =>
    /\ Cnt = Cardinality(IdsOf(frags, seg))
    /\ \A i \in 1 .. Cnt : shrink[i].frag = InSegOrder(seg)[i]

Placing ==
  /\ phase \in Phases /\ seg \in {"CSEG", "DSEG"}
  /\ phase = "pass1" => seg = "CSEG"
  /\ phase \in Late => seg = "DSEG"
  /\ codesLen \in [Segments -> Nat]

LayoutInv ==
  /\ frags.pieces \in Seq(Fragment) /\ AddrsTypeOK /\ Placing
  /\ Addressed /\ Measured /\ Pointing /\ Meaning /\ Gathered

\* Fragments that differ in what pass 2 sets only.
Alike(F, G) ==
  /\ DOMAIN G.pieces = DOMAIN F.pieces
  /\ \A id \in DOMAIN F.pieces :
       LET p == F.pieces[id]
           q == G.pieces[id]
       IN q.seg = p.seg /\ q.objLen = p.objLen /\ q.jmp8 = p.jmp8 /\ q.jmp32 = p.jmp32 /\ q.to = p.to

LEMMA AlikeIs ==
  ASSUME NEW F, NEW G, Alike(F, G)
  PROVE  /\ \A s : IdsOf(G, s) = IdsOf(F, s)
         /\ \A s, m : Front(G, s, m) = Front(F, s, m)
         /\ \A id \in DOMAIN F.pieces : /\ HasJmp(G.pieces[id]) <=> HasJmp(F.pieces[id])
                                        /\ ItemLen(G.pieces[id]) = ItemLen(F.pieces[id])
         /\ Lens(G) = Lens(F)
         /\ \A s, m : Below(G, s, m) = Below(F, s, m)
<1>1. \A s : IdsOf(G, s) = IdsOf(F, s)
  BY DEF Alike, IdsOf
<1>2. \A s, m : Front(G, s, m) = Front(F, s, m)
  BY <1>1 DEF Front
<1>3. \A id \in DOMAIN F.pieces : /\ HasJmp(G.pieces[id]) <=> HasJmp(F.pieces[id])
                                  /\ ItemLen(G.pieces[id]) = ItemLen(F.pieces[id])
  BY DEF Alike, HasJmp, ItemLen
<1>4. Lens(G) = Lens(F)
  <2>1. DOMAIN G.pieces = DOMAIN F.pieces
    BY DEF Alike
  <2>2. Lens(G) = [id \in DOMAIN F.pieces |-> ItemLen(G.pieces[id])]
    BY <2>1 DEF Lens
  <2> QED
    BY <1>3, <2>2 DEF Lens
<1> QED
  BY <1>1, <1>2, <1>3, <1>4 DEF Below

\* A segment whose jumps keep their form keeps its layout.
LEMMA FinalSame ==
  ASSUME NEW F, NEW G, Alike(F, G), NEW id \in DOMAIN F.pieces, G.pieces[id].ofsType = F.pieces[id].ofsType
  PROVE  FinalLen(G.pieces[id]) = FinalLen(F.pieces[id])
BY DEF Alike, HasJmp, FinalLen, JmpLen

LEMMA StartSame ==
  ASSUME NEW F, NEW G, Alike(F, G), F.pieces \in Seq(Fragment), G.pieces \in Seq(Fragment), NEW s,
         \A id \in DOMAIN F.pieces : F.pieces[id].seg = s => G.pieces[id].ofsType = F.pieces[id].ofsType,
         NEW m \in Nat
  PROVE  Start(G, s, m) = Start(F, s, m)
<1>1. \A id \in DOMAIN F.pieces : F.pieces[id].seg = s => FinalLen(G.pieces[id]) = FinalLen(F.pieces[id])
  BY FinalSame
<1>2. Start(G, s, m) = Start(F, s, m)
  <2> DEFINE S == Front(F, s, m)
             f == Bytes(F)
             g == Bytes(G)
  <2>1. Front(G, s, m) = S
    BY AlikeIs
  <2>2. \A id \in DOMAIN F.pieces : f[id] \in Nat /\ f[id] = FinalLen(F.pieces[id])
    BY BytesNat
  <2>3. \A id \in DOMAIN F.pieces : g[id] = FinalLen(G.pieces[id])
    <3>1. DOMAIN G.pieces = DOMAIN F.pieces
      BY DEF Alike
    <3> QED
      BY <3>1, BytesNat
  <2>4. IsFiniteSet(S) /\ S \subseteq IdsOf(F, s)
    <3> HIDE DEF f
    <3> QED
      BY <2>2, FrontSum
  <2>5. \A i \in S : f[i] \in Int /\ f[i] = g[i]
    <3> SUFFICES ASSUME NEW i \in S PROVE f[i] \in Int /\ f[i] = g[i]
      OBVIOUS
    <3>1. i \in DOMAIN F.pieces /\ F.pieces[i].seg = s
      BY <2>4 DEF IdsOf
    <3> HIDE DEF f, g
    <3> QED
      BY <1>1, <2>2, <2>3, <3>1
  <2> HIDE DEF S, f, g
  <2>6. SumFunctionOnSet(f, S) = SumFunctionOnSet(g, S)
    BY <2>4, <2>5, SumSame
  <2> QED
    BY <2>1, <2>6 DEF Start, f, g, S
<1> QED
  BY <1>2

LEMMA AddrIs ==
  ASSUME AddrsTypeOK, NEW a \in AddrIds
  PROVE  /\ addrs[a] \in [frag : Nat, ofs : Nat] /\ meant[a] \in [seg : Segments, pos : Nat]
         /\ addrs[a].frag \in Nat /\ addrs[a].ofs \in Nat
<1> DEFINE T == [frag : Nat, ofs : Nat]
           M == [seg : Segments, pos : Nat]
<1>1. addrs \in Seq(T) /\ meant \in Seq(M) /\ Len(meant) = Len(addrs)
  BY DEF AddrsTypeOK
<1> HIDE DEF T, M
<1>2. addrs[a] \in T /\ meant[a] \in M
  BY <1>1 DEF AddrIds
<1> QED
  BY <1>2 DEF T, M

\* Whatever leaves the laid out segments, the addresses and the shape of the
\* fragments as they are.
LEMMA AlikeKeeps ==
  ASSUME LayoutInv, frags'.pieces \in Seq(Fragment), Alike(frags, frags'),
         \A id \in DOMAIN frags.pieces :
           LET p == frags.pieces[id]
               q == frags'.pieces[id]
           IN q.segAddr = p.segAddr /\ (LaidOut(p.seg) => q.ofsType = p.ofsType),
         UNCHANGED <<addrs, meant, retagged, codesLen>>,
         Placing', \A s : LaidOutNext(s) <=> LaidOut(s), Gathered'
  PROVE  LayoutInv'
<1>1. /\ \A s : IdsOf(frags', s) = IdsOf(frags, s)
      /\ \A id \in DOMAIN frags.pieces : HasJmp(frags'.pieces[id]) <=> HasJmp(frags.pieces[id])
      /\ \A id \in DOMAIN frags.pieces : ItemLen(frags'.pieces[id]) = ItemLen(frags.pieces[id])
      /\ \A s, m : Below(frags', s, m) = Below(frags, s, m)
  BY AlikeIs
<1>2. /\ DOMAIN frags'.pieces = DOMAIN frags.pieces
      /\ \A id \in DOMAIN frags.pieces :
           /\ frags'.pieces[id].seg = frags.pieces[id].seg
           /\ frags'.pieces[id].objLen = frags.pieces[id].objLen
           /\ frags'.pieces[id].segAddr = frags.pieces[id].segAddr
  BY DEF Alike
<1>3. \A s : LaidOut(s) =>
         /\ \A id \in DOMAIN frags.pieces :
              frags.pieces[id].seg = s => FinalLen(frags'.pieces[id]) = FinalLen(frags.pieces[id])
         /\ \A m \in Nat : Start(frags', s, m) = Start(frags, s, m)
  <2> SUFFICES ASSUME NEW s, LaidOut(s)
               PROVE  /\ \A id \in DOMAIN frags.pieces :
                           frags.pieces[id].seg = s => FinalLen(frags'.pieces[id]) = FinalLen(frags.pieces[id])
                      /\ \A m \in Nat : Start(frags', s, m) = Start(frags, s, m)
    OBVIOUS
  <2>1. \A id \in DOMAIN frags.pieces :
          frags.pieces[id].seg = s => frags'.pieces[id].ofsType = frags.pieces[id].ofsType
    OBVIOUS
  <2>2. frags.pieces \in Seq(Fragment)
    BY DEF LayoutInv
  <2>3. ASSUME NEW id \in DOMAIN frags.pieces, frags.pieces[id].seg = s
        PROVE  FinalLen(frags'.pieces[id]) = FinalLen(frags.pieces[id])
    BY <2>1, <2>3, FinalSame
  <2>4. ASSUME NEW m \in Nat PROVE Start(frags', s, m) = Start(frags, s, m)
    BY <2>1, <2>2, StartSame
  <2> QED
    BY <2>3, <2>4
<1>4. DOMAIN frags.pieces \subseteq Nat /\ Len(frags'.pieces) = Len(frags.pieces) /\ Len(frags.pieces) + 1 \in Nat
  BY <1>2 DEF LayoutInv
<1>5. Addressed'
  <2> SUFFICES ASSUME NEW id \in DOMAIN frags'.pieces
               PROVE  frags'.pieces[id].segAddr
                        = IF LaidOutNext(frags'.pieces[id].seg) THEN Start(frags', frags'.pieces[id].seg, id) % SegMod ELSE Unset
    BY DEF Addressed, LaidOut, LaidOutNext
  <2> DEFINE p == frags.pieces[id]
  <2>1. id \in DOMAIN frags.pieces /\ frags'.pieces[id].seg = p.seg /\ frags'.pieces[id].segAddr = p.segAddr /\ id \in Nat
    BY <1>2, <1>4
  <2>2. p.segAddr = IF LaidOut(p.seg) THEN Start(frags, p.seg, id) % SegMod ELSE Unset
    BY <2>1 DEF LayoutInv, Addressed
  <2>3. LaidOutNext(frags'.pieces[id].seg) <=> LaidOut(p.seg)
    BY <2>1
  <2>4. LaidOut(p.seg) => Start(frags', p.seg, id) = Start(frags, p.seg, id)
    BY <1>3, <2>1
  <2> HIDE DEF p
  <2> QED
    BY <2>1, <2>2, <2>3, <2>4
<1>6. Measured'
  <2> SUFFICES ASSUME NEW s \in {"CSEG", "DSEG"}, LaidOutNext(s)
               PROVE  codesLen'[s] = Start(frags', s, Len(frags'.pieces) + 1)
    BY DEF Measured, LaidOut, LaidOutNext
  <2>1. LaidOut(s)
    OBVIOUS
  <2>2. codesLen[s] = Start(frags, s, Len(frags.pieces) + 1)
    BY <2>1 DEF LayoutInv, Measured
  <2> QED
    BY <1>3, <1>4, <2>1, <2>2
<1>7. \A a \in AddrIds : PointsAt(frags, addrs[a], LaidOut(frags.pieces[addrs[a].frag].seg))
                          /\ addrs[a].ofs \in Nat
  <2> SUFFICES ASSUME NEW a \in AddrIds
               PROVE  PointsAt(frags, addrs[a], LaidOut(frags.pieces[addrs[a].frag].seg)) /\ addrs[a].ofs \in Nat
    OBVIOUS
  <2>1. addrs[a].ofs \in Nat
    BY AddrIs DEF LayoutInv
  <2>2. PointsAt(frags, addrs[a], LaidOut(frags.pieces[addrs[a].frag].seg))
    BY DEF LayoutInv, Pointing
  <2> QED
    BY <2>1, <2>2
<1>8. Pointing'
  <2> SUFFICES ASSUME NEW a \in AddrIds
               PROVE  PointsAt(frags', addrs[a], LaidOutNext(frags'.pieces[addrs[a].frag].seg))
    BY DEF Pointing, AddrIds, LaidOut, LaidOutNext
  <2> DEFINE f == addrs[a].frag
  <2>1. f \in DOMAIN frags.pieces /\ PointsAt(frags, addrs[a], LaidOut(frags.pieces[f].seg))
    BY <1>7 DEF PointsAt
  <2>2. LaidOutNext(frags'.pieces[f].seg) <=> LaidOut(frags.pieces[f].seg)
    BY <1>2, <2>1
  <2>3. LaidOut(frags.pieces[f].seg) => FinalLen(frags'.pieces[f]) = FinalLen(frags.pieces[f])
    BY <1>3, <2>1
  <2>4. f \in DOMAIN frags'.pieces /\ frags'.pieces[f].objLen = frags.pieces[f].objLen
        /\ (HasJmp(frags'.pieces[f]) <=> HasJmp(frags.pieces[f]))
    BY <1>1, <1>2, <2>1
  <2> QED
    BY <2>1, <2>2, <2>3, <2>4 DEF PointsAt
<1>9. Meaning'
  <2> SUFFICES ASSUME NEW a \in AddrIds, addrs[a].frag \notin retagged
               PROVE  InPlace(frags', addrs[a].frag, meant[a], addrs[a].ofs)
    BY DEF Meaning, AddrIds
  <2> DEFINE f == addrs[a].frag
  <2>1. f \in DOMAIN frags.pieces /\ PointsAt(frags, addrs[a], LaidOut(frags.pieces[f].seg)) /\ addrs[a].ofs \in Nat
    BY <1>7 DEF PointsAt
  <2>2. InPlace(frags, f, meant[a], addrs[a].ofs)
    BY DEF LayoutInv, Meaning
  <2>3. LaidOut(frags.pieces[f].seg) => FinalLen(frags'.pieces[f]) = FinalLen(frags.pieces[f])
    BY <1>3, <2>1
  <2>4. frags'.pieces[f].seg = frags.pieces[f].seg /\ frags'.pieces[f].objLen = frags.pieces[f].objLen
        /\ (HasJmp(frags'.pieces[f]) <=> HasJmp(frags.pieces[f])) /\ ItemLen(frags'.pieces[f]) = ItemLen(frags.pieces[f])
    BY <1>1, <1>2, <2>1
  <2>5. frags.pieces[f] \in Fragment
    BY <2>1 DEF LayoutInv
  <2>6. CASE addrs[a].ofs <= frags.pieces[f].objLen
    <3>1. ~(HasJmp(frags.pieces[f]) /\ addrs[a].ofs = FinalLen(frags.pieces[f]))
      <4> DEFINE p == frags.pieces[f]
      <4>1. HasJmp(p) => p.objLen \in Nat /\ FinalLen(p) = p.objLen + JmpLen(p) /\ JmpLen(p) \in Nat /\ JmpLen(p) > 0
        BY <2>5, FinalLenNat
      <4>2. addrs[a].ofs <= p.objLen
        BY <2>6
      <4> HIDE DEF p
      <4> QED
        BY <2>1, <4>1, <4>2 DEF p
    <3> QED
      BY <1>1, <2>2, <2>4, <2>6, <3>1 DEF InPlace
  <2>7. CASE LaidOut(frags.pieces[f].seg)
    BY <1>1, <2>2, <2>3, <2>4, <2>7 DEF InPlace
  <2> QED
    BY <2>1, <2>6, <2>7 DEF PointsAt
<1>10. AddrsTypeOK'
  BY DEF LayoutInv, AddrsTypeOK
<1> QED
  BY <1>5, <1>6, <1>8, <1>9, <1>10 DEF LayoutInv

------------------------------------------------------------------------------
(* What pass 1 hands over.                                                  *)

\* A fragment without an address, whose jump, if any, has room for a
\* displacement in either form, and a label to go to.
Fresh(p) ==
  /\ p.segAddr = Unset
  /\ HasJmp(p) => p.jmp8 >= 1 /\ p.jmp32 >= 4 /\ p.to \in Labels
Untouched == \A id \in DOMAIN frags.pieces : Fresh(frags.pieces[id])

Jumped(s, l, t, j8, j32) == EndAppending(PushJmp(Ensured(s), EnsuredId(s), l, t, j8, j32))

\* What a statement does to the fragments.
LEMMA WritesOne ==
  ASSUME Statement, Inv1
  PROVE  \/ UNCHANGED frags
         \/ \E s \in Segments : frags' = Ensured(s)
         \/ \E s \in Segments, k \in Nat : frags' = PushCode(Ensured(s), EnsuredId(s), k)
         \/ \E s \in Segments, l \in Labels, t \in {"REL8or32", "REL32"}, j32 \in {5, 6} :
              frags' = Jumped(s, l, t, 2, j32)
<1>1. seg_id \in Segments /\ "CSEG" \in Segments /\ "DSEG" \in Segments
  BY DEF Inv1, TypeOK, OtherTypeOK, Segments
<1>2. CASE \E l \in Labels : Jcc(l) \/ Jmp(l) \/ Call(l)
  BY <1>1, <1>2 DEF Jcc, Jmp, Call, Jump, Jumped
<1>3. CASE \E l \in Labels : Lea(l) \/ Quad(l)
  <2>1. LeaLen \in Nat /\ QuadLen \in Nat
    BY DEF LeaLen, QuadLen
  <2> QED
    BY <1>1, <1>3, <2>1 DEF Lea, Quad
<1>4. CASE \E n \in CodeLens : Code(n)
  BY <1>1, <1>4, SourceAssumption DEF Code
<1>5. CASE \E l \in Labels : Label(l) \/ Size(l)
  BY <1>1, <1>5 DEF Label, Size
<1>6. CASE StartProc \/ EndProc \/ Cfi
  BY <1>1, <1>6 DEF StartProc, EndProc, Cfi
<1>7. CASE Text \/ Rodata
  BY <1>1, <1>7 DEF Text, Rodata, OpenSection
<1>8. CASE Struct \/ \E l \in Labels : LabelInStruct(l) \/ Equ(l) \/ Declare(l)
  BY <1>8 DEF Struct, LabelInStruct, Equ, Declare
<1>9. CASE FailBegin \/ FailTooLarge \/ FailSize
  BY <1>9 DEF FailBegin, FailTooLarge, FailSize, Fail
<1> QED
  BY <1>2, <1>3, <1>4, <1>5, <1>6, <1>7, <1>8, <1>9 DEF Statement

LEMMA EnsuredUntouched ==
  ASSUME FragsTypeOK, Untouched, NEW s \in Segments
  PROVE  \A id \in DOMAIN Pieces(s) : Fresh(Pieces(s)[id])
<1>0. \A id \in DOMAIN frags.pieces : Fresh(frags.pieces[id])
  BY DEF Untouched
<1>a. DOMAIN frags.pieces = 1 .. Len(frags.pieces) /\ Len(frags.pieces) \in Nat
  BY DEF FragsTypeOK, FragsOK
<1>1. CASE Reuses(frags, s)
  <2> DEFINE n == Len(frags.pieces)
             g == [frags.pieces[n] EXCEPT !.seg = s]
  <2>1. n \in DOMAIN frags.pieces /\ Pieces(s) = [frags.pieces EXCEPT ![n] = g]
    BY <1>1, EnsuredReused DEF Pieces
  <2>2. Fresh(g)
    <3>1. frags.pieces[n] \in Fragment /\ Fresh(frags.pieces[n])
      BY <1>0, <2>1 DEF FragsTypeOK, FragsOK
    <3>2. g.segAddr = frags.pieces[n].segAddr /\ g.jmp8 = frags.pieces[n].jmp8 /\ g.jmp32 = frags.pieces[n].jmp32
          /\ g.to = frags.pieces[n].to
      BY <3>1 DEF Fragment
    <3> HIDE DEF g
    <3> QED
      BY <3>1, <3>2 DEF Fresh, HasJmp
  <2> HIDE DEF g, n
  <2> QED
    BY <1>0, <2>1, <2>2
<1>2. CASE ~Reuses(frags, s)
  <2>1. Pieces(s) = Append(frags.pieces, NewFragment(s))
    BY <1>2, EnsuredFresh DEF Pieces
  <2>2. Fresh(NewFragment(s))
    BY DEF Fresh, NewFragment, HasJmp
  <2>3. \A id \in DOMAIN Pieces(s) : (id \in DOMAIN frags.pieces /\ Pieces(s)[id] = frags.pieces[id]) \/ Pieces(s)[id] = NewFragment(s)
    <3> DEFINE T == Fragment
               x == NewFragment(s)
    <3>1. frags.pieces \in Seq(T)
      BY DEF FragsTypeOK, FragsOK
    <3> HIDE DEF T, x
    <3>2. \A id \in DOMAIN Append(frags.pieces, x) :
            (id \in DOMAIN frags.pieces /\ Append(frags.pieces, x)[id] = frags.pieces[id]) \/ Append(frags.pieces, x)[id] = x
      BY <1>a, <3>1
    <3> QED
      BY <2>1, <3>2 DEF x
  <2> QED
    BY <1>0, <2>2, <2>3
<1> QED
  BY <1>1, <1>2

LEMMA ReplacedUntouched ==
  ASSUME FragsTypeOK, Untouched, NEW s \in Segments, NEW f, Fresh(f),
         frags'.pieces = [Pieces(s) EXCEPT ![EnsuredId(s)] = f]
  PROVE  Untouched'
<1>1. EnsuredId(s) \in DOMAIN Pieces(s) /\ Pieces(s) \in Seq(Fragment)
  BY EnsuredType
<1>2. \A id \in DOMAIN Pieces(s) : Fresh(Pieces(s)[id])
  BY EnsuredUntouched
<1>3. DOMAIN frags'.pieces = DOMAIN Pieces(s)
      /\ \A id \in DOMAIN Pieces(s) : frags'.pieces[id] = IF id = EnsuredId(s) THEN f ELSE Pieces(s)[id]
  BY <1>1
<1>4. \A id \in DOMAIN frags'.pieces : Fresh(frags'.pieces[id])
  BY <1>2, <1>3
<1> QED
  BY <1>4 DEF Untouched, Fresh, HasJmp

LEMMA UntouchedStep ==
  ASSUME Inv1, Untouched, Statement
  PROVE  Untouched'
<1>1. FragsTypeOK
  BY DEF Inv1, TypeOK
<1>2. CASE UNCHANGED frags
  BY <1>2 DEF Untouched, Fresh, HasJmp
<1>3. ASSUME NEW s \in Segments, frags' = Ensured(s) PROVE Untouched'
  <2>1. \A id \in DOMAIN Pieces(s) : Fresh(Pieces(s)[id])
    BY <1>1, EnsuredUntouched
  <2>2. frags'.pieces = Pieces(s)
    BY <1>3 DEF Pieces
  <2> QED
    BY <2>1, <2>2 DEF Untouched, Fresh, HasJmp
<1>4. ASSUME NEW s \in Segments, NEW k \in Nat, frags' = PushCode(Ensured(s), EnsuredId(s), k) PROVE Untouched'
  <2> DEFINE h == Pieces(s)[EnsuredId(s)]
             f == [h EXCEPT !.objLen = @ + k]
  <2>1. h \in Fragment /\ Fresh(h)
    <3>1. EnsuredId(s) \in DOMAIN Pieces(s) /\ Pieces(s) \in Seq(Fragment)
      BY <1>1, EnsuredType
    <3>2. \A id \in DOMAIN Pieces(s) : Fresh(Pieces(s)[id])
      BY <1>1, EnsuredUntouched
    <3> QED
      BY <3>1, <3>2
  <2>2. Fresh(f)
    <3>1. f.segAddr = h.segAddr /\ f.jmp8 = h.jmp8 /\ f.jmp32 = h.jmp32 /\ f.to = h.to
      BY <2>1 DEF Fragment
    <3> HIDE DEF f, h
    <3> QED
      BY <2>1, <3>1 DEF Fresh, HasJmp
  <2>3. frags'.pieces = [Pieces(s) EXCEPT ![EnsuredId(s)] = f]
    BY <1>4 DEF PushCode, With, Pieces
  <2> HIDE DEF f
  <2> QED
    BY <1>1, <2>2, <2>3, ReplacedUntouched
<1>5. ASSUME NEW s \in Segments, NEW l \in Labels, NEW t \in {"REL8or32", "REL32"}, NEW j32 \in {5, 6},
             frags' = Jumped(s, l, t, 2, j32)
      PROVE  Untouched'
  <2> DEFINE h == Pieces(s)[EnsuredId(s)]
             f == [h EXCEPT !.to = l, !.ofsType = t, !.jmp8 = 2, !.jmp32 = j32]
  <2>1. h \in Fragment /\ Fresh(h)
    <3>1. EnsuredId(s) \in DOMAIN Pieces(s) /\ Pieces(s) \in Seq(Fragment)
      BY <1>1, EnsuredType
    <3>2. \A id \in DOMAIN Pieces(s) : Fresh(Pieces(s)[id])
      BY <1>1, EnsuredUntouched
    <3> QED
      BY <3>1, <3>2
  <2>2. Fresh(f)
    <3>1. f.segAddr = h.segAddr /\ f.jmp8 = 2 /\ f.jmp32 = j32 /\ f.to = l
      BY <2>1 DEF Fragment
    <3>2. 2 >= 1 /\ j32 >= 4
      OBVIOUS
    <3> HIDE DEF f, h
    <3> QED
      BY <2>1, <3>1, <3>2 DEF Fresh
  <2>3. frags'.pieces = [Pieces(s) EXCEPT ![EnsuredId(s)] = f]
    BY <1>5 DEF Jumped, EndAppending, PushJmp, With, Pieces
  <2> HIDE DEF f
  <2> QED
    BY <1>1, <2>2, <2>3, ReplacedUntouched
<1> QED
  BY <1>2, <1>3, <1>4, <1>5, WritesOne

SourceInv ==
  /\ Inv1 /\ InvStay /\ InvProcs /\ Untouched
  /\ seg = "CSEG" /\ codesLen \in [Segments -> Nat]

\* What pass 1 leaves is a layout in which nothing has its place yet.
LEMMA SourceLayout ==
  ASSUME SourceInv, phase = "pass1"
  PROVE  LayoutInv
<1>1. frags.pieces \in Seq(Fragment) /\ AddrsTypeOK /\ TypeOK
  BY DEF SourceInv, Inv1, TypeOK, FragsTypeOK, FragsOK
<1>2. \A s : ~LaidOut(s)
  BY DEF SourceInv, LaidOut, Past, Late
<1>3. Placing /\ Gathered
  BY DEF Placing, Gathered, SourceInv, Phases, Late
<1>4. Addressed
  BY <1>2 DEF Addressed, SourceInv, Untouched, Fresh
<1>5. Measured
  BY <1>2 DEF Measured
<1>6. Pointing
  BY DEF Pointing, PointsAt, SourceInv, Inv1, AddrsInside
<1>7. Meaning
  <2> SUFFICES ASSUME NEW a \in AddrIds, addrs[a].frag \notin retagged
               PROVE  InPlace(frags, addrs[a].frag, meant[a], addrs[a].ofs)
    BY DEF Meaning
  <2>1. Stays(frags, addrs[a], meant[a], retagged)
    BY StayIs DEF SourceInv, InvStay
  <2>2. addrs[a].ofs <= frags.pieces[addrs[a].frag].objLen
    BY DEF SourceInv, Inv1, AddrsInside
  <2> QED
    BY <2>1, <2>2 DEF Stays, InPlace
<1> QED
  BY <1>1, <1>3, <1>4, <1>5, <1>6, <1>7 DEF LayoutInv

LEMMA AlikeSelf ==
  ASSUME NEW F, NEW G, G.pieces = F.pieces
  PROVE  Alike(F, G)
BY DEF Alike

\* A step that moves nothing.
LEMMA QuietLayout ==
  ASSUME LayoutInv, frags'.pieces = frags.pieces,
         UNCHANGED <<addrs, meant, retagged, codesLen, seg>>,
         \/ UNCHANGED <<phase, shrink>>
         \/ phase \in Late /\ phase' \in Late
         \/ phase = "pass1" /\ phase' = "startup"
  PROVE  LayoutInv'
<1>1. Alike(frags, frags')
  BY AlikeSelf
<1>2. frags'.pieces \in Seq(Fragment)
  BY DEF LayoutInv
<1>3. Placing'
  BY DEF LayoutInv, Placing, Phases, Late
<1>4. \A s : LaidOutNext(s) <=> LaidOut(s)
  BY DEF LaidOut, LaidOutNext, Past, Late
<1>5. Gathered'
  <2>1. CASE UNCHANGED <<phase, shrink>>
    <3>1. IdsOf(frags', seg') = IdsOf(frags, seg)
      BY DEF IdsOf
    <3>2. InSegOrder(seg)' = InSegOrder(seg)
      BY <3>1 DEF InSegOrder
    <3>3. Cnt' = Cnt
      BY <2>1 DEF Cnt
    <3>4. Gathered
      BY DEF LayoutInv
    <3> QED
      BY <2>1, <3>1, <3>2, <3>3, <3>4 DEF Gathered
  <2>2. CASE phase' # "optimize"
    BY <2>2 DEF Gathered
  <2> QED
    BY <2>1, <2>2 DEF Late
<1> QED
  BY <1>1, <1>2, <1>3, <1>4, <1>5, AlikeKeeps

LEMMA StartupLayout ==
  ASSUME LayoutInv, Startup, UNCHANGED <<addrs, meant, retagged, codesLen>>
  PROVE  LayoutInv'
<1>1. CASE UNCHANGED <<frags, phase, shrink, seg>>
  BY <1>1, QuietLayout
<1>2. CASE ~UNCHANGED <<frags, phase, shrink, seg>>
  <2> DEFINE ids == InSegOrder(seg)
             to(f) == IF HasJmp(f) THEN target[f.to] ELSE NoTarget
             n == Cardinality(IdsOf(frags, seg))
  <2>1. /\ phase = "startup" /\ phase' = "optimize" /\ UNCHANGED <<frags, seg>>
        /\ shrink' = [i \in DOMAIN ids |-> [frag |-> ids[i], to |-> to(frags.pieces[ids[i]])]]
    BY <1>2 DEF Startup, Running, Bug, Goto, relaxVars, optVars
  <2>2. Alike(frags, frags') /\ frags'.pieces \in Seq(Fragment)
    BY <2>1, AlikeSelf DEF LayoutInv
  <2>3. Placing'
    BY <2>1 DEF LayoutInv, Placing, Phases, Late
  <2>4. \A s : LaidOutNext(s) <=> LaidOut(s)
    BY <2>1 DEF LaidOut, LaidOutNext, Past, Late
  <2>5. Gathered'
    <3>1. n \in Nat
      <4>1. DOMAIN frags.pieces = 1 .. Len(frags.pieces) /\ Len(frags.pieces) \in Nat
        BY DEF LayoutInv
      <4>2. IsFiniteSet(DOMAIN frags.pieces)
        BY <4>1, FS_Interval
      <4>3. IdsOf(frags, seg) \in SUBSET DOMAIN frags.pieces
        BY DEF IdsOf
      <4> QED
        BY <4>2, <4>3, FS_Subset, FS_CardinalityType
    <3>2. DOMAIN ids = 1 .. n
      BY DEF InSegOrder, InOrder
    <3>3. Len(shrink') = n /\ \A i \in 1 .. n : shrink'[i].frag = ids[i]
      <4> HIDE DEF n, ids, to
      <4> QED
        BY <2>1, <3>1, <3>2
    <3>4. ids = InSegOrder(seg)'
      BY <2>1 DEF InSegOrder
    <3>5. Cardinality(IdsOf(frags', seg')) = n
      BY <2>1
    <3> HIDE DEF ids, n
    <3> QED
      BY <2>1, <3>3, <3>4, <3>5 DEF Gathered, Cnt
  <2>6. \A id \in DOMAIN frags.pieces :
          LET p == frags.pieces[id]
              q == frags'.pieces[id]
          IN q.segAddr = p.segAddr /\ (LaidOut(p.seg) => q.ofsType = p.ofsType)
    BY <2>1
  <2> QED
    BY <2>2, <2>3, <2>4, <2>5, <2>6, AlikeKeeps
<1> QED
  BY <1>1, <1>2

\* What the loops do to the fragments.
LEMMA OptimizeDoes ==
  ASSUME OptimizeStep
  PROVE  /\ phase = "optimize" /\ UNCHANGED <<phase, seg, shrink, target, capable>>
         /\ \/ UNCHANGED frags
            \/ \E i \in 1 .. Cnt, t \in {"REL8", "REL32"} :
                 IsJmp(i) /\ frags' = SetOfsType(frags, shrink[i].frag, t)
<1>1. CASE Again
  BY <1>1 DEF Again, Running
<1>2. ASSUME NEW i \in 1 .. Cnt, Skip(i) \/ DecideFails(i)
      PROVE  phase = "optimize" /\ UNCHANGED <<phase, seg, shrink, target, capable, frags>>
  BY <1>2 DEF Skip, DecideFails, Looking, Running, NextJmp, Bug, relaxVars, optVars
<1>3. ASSUME NEW i \in 1 .. Cnt, Decide(i) \/ DecideBlindly(i)
      PROVE  /\ phase = "optimize" /\ UNCHANGED <<phase, seg, shrink, target, capable>>
             /\ \/ UNCHANGED frags
                \/ \E t \in {"REL8", "REL32"} : IsJmp(i) /\ frags' = SetOfsType(frags, shrink[i].frag, t)
  BY <1>3 DEF Decide, DecideBlindly, Looking, Running, NextJmp, Bug, relaxVars, optVars, LeaveOpen, Settle, IsAmbiguous
<1> QED
  BY <1>1, <1>2, <1>3 DEF OptimizeStep

\* The fragment of a jump that gets its form is of the segment at hand.
LEMMA GatheredIs ==
  ASSUME LayoutInv, phase = "optimize"
  PROVE  /\ Cnt \in Nat /\ Cnt = Cardinality(IdsOf(frags, seg))
         /\ \A i \in 1 .. Cnt : /\ shrink[i].frag \in IdsOf(frags, seg)
                                /\ Rank(IdsOf(frags, seg), shrink[i].frag) = i
                                /\ shrink[i].frag \in DOMAIN frags.pieces
         /\ IsFiniteSet(IdsOf(frags, seg)) /\ Within(IdsOf(frags, seg), Len(frags.pieces))
<1> DEFINE S == IdsOf(frags, seg)
<1>1. Len(frags.pieces) \in Nat /\ DOMAIN frags.pieces = 1 .. Len(frags.pieces)
  BY DEF LayoutInv
<1>2. S \in SUBSET DOMAIN frags.pieces
  BY DEF IdsOf
<1>3. IsFiniteSet(DOMAIN frags.pieces)
  BY <1>1, FS_Interval
<1>4. Within(S, Len(frags.pieces)) /\ IsFiniteSet(S) /\ Cardinality(S) \in Nat
  BY <1>1, <1>2, <1>3, FS_Subset, FS_CardinalityType DEF Within
<1> HIDE DEF S
<1>5. \A i \in 1 .. Cardinality(S) : \E x \in S : Cardinality({ j \in S : j <= x }) = i
  BY <1>1, <1>4, RankExists
<1>6. \A i \in 1 .. Cardinality(S) : InOrder(S)[i] \in S /\ Rank(S, InOrder(S)[i]) = i
  BY <1>5 DEF InOrder, Rank
<1>7. Cnt = Cardinality(S) /\ \A i \in 1 .. Cnt : shrink[i].frag = InOrder(S)[i]
  BY DEF LayoutInv, Gathered, InSegOrder, S
<1>8. \A i \in 1 .. Cnt : shrink[i].frag \in S /\ Rank(S, shrink[i].frag) = i /\ shrink[i].frag \in DOMAIN frags.pieces
  BY <1>2, <1>6, <1>7
<1> QED
  BY <1>4, <1>7, <1>8 DEF S

LEMMA SettleAlike ==
  ASSUME frags.pieces \in Seq(Fragment), NEW f \in DOMAIN frags.pieces, NEW t \in {"REL8", "REL32"},
         frags' = SetOfsType(frags, f, t)
  PROVE  /\ frags'.pieces \in Seq(Fragment) /\ Alike(frags, frags')
         /\ \A id \in DOMAIN frags.pieces :
              /\ frags'.pieces[id].segAddr = frags.pieces[id].segAddr
              /\ frags'.pieces[id].ofsType = IF id = f THEN t ELSE frags.pieces[id].ofsType
<1> DEFINE p == frags.pieces[f]
           q == [p EXCEPT !.ofsType = t]
<1>1. frags'.pieces = [frags.pieces EXCEPT ![f] = q]
  BY DEF SetOfsType, With
<1>2. p \in Fragment /\ "REL8" \in RelTypes /\ "REL32" \in RelTypes
  BY DEF RelTypes
<1>3. /\ q \in Fragment /\ q.seg = p.seg /\ q.objLen = p.objLen /\ q.jmp8 = p.jmp8 /\ q.jmp32 = p.jmp32
      /\ q.to = p.to /\ q.segAddr = p.segAddr /\ q.ofsType = t
  BY <1>2 DEF Fragment
<1> HIDE DEF q
<1>4. /\ frags'.pieces \in Seq(Fragment) /\ DOMAIN frags'.pieces = DOMAIN frags.pieces
      /\ \A id \in DOMAIN frags.pieces : frags'.pieces[id] = IF id = f THEN q ELSE frags.pieces[id]
  <2> DEFINE T == Fragment
  <2>1. frags.pieces \in Seq(T) /\ q \in T
    BY <1>3
  <2> HIDE DEF T
  <2> QED
    BY <1>1, <2>1 DEF T
<1> QED
  BY <1>3, <1>4 DEF Alike

LEMMA OptimizeLayout ==
  ASSUME LayoutInv, OptimizeStep, UNCHANGED <<addrs, meant, retagged, codesLen>>
  PROVE  LayoutInv'
<1>1. phase = "optimize" /\ UNCHANGED <<phase, seg, shrink>>
  BY OptimizeDoes
<1>2. CASE UNCHANGED frags
  BY <1>1, <1>2, QuietLayout
<1>3. ASSUME NEW i \in 1 .. Cnt, NEW t \in {"REL8", "REL32"}, frags' = SetOfsType(frags, shrink[i].frag, t)
      PROVE  LayoutInv'
  <2> DEFINE f == shrink[i].frag
  <2>1. f \in DOMAIN frags.pieces /\ frags.pieces[f].seg = seg
    BY <1>1, GatheredIs DEF IdsOf
  <2>2. frags.pieces \in Seq(Fragment)
    BY DEF LayoutInv
  <2>3. /\ frags'.pieces \in Seq(Fragment) /\ Alike(frags, frags')
        /\ \A id \in DOMAIN frags.pieces :
             /\ frags'.pieces[id].segAddr = frags.pieces[id].segAddr
             /\ frags'.pieces[id].ofsType = IF id = f THEN t ELSE frags.pieces[id].ofsType
    BY <1>3, <2>1, <2>2, SettleAlike
  <2>4. ~LaidOut(seg)
    BY <1>1 DEF LayoutInv, Placing, LaidOut, Past, Late
  <2>5. \A id \in DOMAIN frags.pieces :
          LET p == frags.pieces[id]
              q == frags'.pieces[id]
          IN q.segAddr = p.segAddr /\ (LaidOut(p.seg) => q.ofsType = p.ofsType)
    BY <2>1, <2>3, <2>4
  <2>6. Placing' /\ \A s : LaidOutNext(s) <=> LaidOut(s)
    BY <1>1 DEF LayoutInv, Placing, LaidOut, LaidOutNext, Past
  <2>7. Gathered'
    <3>1. IdsOf(frags', seg') = IdsOf(frags, seg)
      BY <1>1, <2>3, AlikeIs
    <3>2. InSegOrder(seg)' = InSegOrder(seg)
      BY <1>1, <3>1 DEF InSegOrder
    <3>3. Cnt' = Cnt
      BY <1>1 DEF Cnt
    <3>4. Gathered
      BY DEF LayoutInv
    <3> QED
      BY <1>1, <3>1, <3>2, <3>3, <3>4 DEF Gathered
  <2> QED
    BY <2>3, <2>5, <2>6, <2>7, AlikeKeeps
<1> QED
  BY <1>2, <1>3, OptimizeDoes

------------------------------------------------------------------------------
(* The end of a segment: its fragments get their places, its jumps theirs.  *)

LEMMA LookupFinds ==
  ASSUME LayoutInv, phase = "optimize", NEW id
  PROVE  /\ Known(id) <=> id \in IdsOf(frags, seg)
         /\ Known(id) => Lookup(id) \in 1 .. Cnt /\ shrink[Lookup(id)].frag = id
<1> DEFINE S == IdsOf(frags, seg)
           b == Len(frags.pieces)
<1>1. /\ Cnt \in Nat /\ Cnt = Cardinality(S) /\ IsFiniteSet(S) /\ Within(S, b)
      /\ \A i \in 1 .. Cnt : shrink[i].frag \in S /\ Rank(S, shrink[i].frag) = i
  BY GatheredIs
<1>2. b \in Nat
  BY DEF LayoutInv
<1> HIDE DEF S, b
<1>3. /\ \A x \in S : Rank(S, x) \in 1 .. Cnt
      /\ \A x, y \in S : x < y <=> Rank(S, x) < Rank(S, y)
  BY <1>1, <1>2, RankLess
<1>4. \A x \in S : x \in Nat
  <2>1. \A x \in 1 .. b : x \in Nat
    BY <1>2
  <2> QED
    BY <1>1, <2>1 DEF Within
<1>5. ASSUME NEW x \in S PROVE shrink[Rank(S, x)].frag = x
  <2> DEFINE y == shrink[Rank(S, x)].frag
  <2>1. y \in S /\ Rank(S, y) = Rank(S, x) /\ Rank(S, x) \in Nat
    BY <1>1, <1>3
  <2> HIDE DEF y
  <2>2. ~(x < y) /\ ~(y < x)
    BY <1>3, <2>1
  <2>3. x = y
    BY <1>4, <2>1, <2>2
  <2> QED
    BY <2>3 DEF y
<1>6. Known(id) => id \in S
  BY <1>1 DEF Known
<1>7. id \in S => Known(id)
  BY <1>3, <1>5 DEF Known
<1>8. Known(id) => Lookup(id) \in 1 .. Cnt /\ shrink[Lookup(id)].frag = id
  BY DEF Known, Lookup
<1> QED
  BY <1>6, <1>7, <1>8 DEF S

\* The lengths of the fragments of the segment add up to their places.
LEMMA DistancesAre ==
  ASSUME LayoutInv, phase = "optimize"
  PROVE  /\ \A i \in 1 .. Cnt : Distance(FinalLens, 1, i) = Start(frags, seg, shrink[i].frag)
         /\ Distance(FinalLens, 1, Cnt + 1) = Start(frags, seg, Len(frags.pieces) + 1)
<1> DEFINE S == IdsOf(frags, seg)
           b == Len(frags.pieces)
           f == Bytes(frags)
           g == FinalLens
           o == [i \in 1 .. Cnt |-> shrink[i].frag]
<1>1. /\ Cnt \in Nat /\ Cnt = Cardinality(S) /\ IsFiniteSet(S) /\ Within(S, b)
      /\ \A i \in 1 .. Cnt : o[i] \in S /\ Rank(S, o[i]) = i /\ o[i] = shrink[i].frag
  BY GatheredIs
<1>2. b \in Nat /\ S \subseteq DOMAIN frags.pieces /\ frags.pieces \in Seq(Fragment) /\ DOMAIN frags.pieces = 1 .. b
  BY DEF LayoutInv, IdsOf
<1>3. \A id \in DOMAIN frags.pieces : f[id] \in Nat /\ f[id] = FinalLen(frags.pieces[id])
  BY <1>2, BytesNat
<1>4. \A x \in S : f[x] \in Nat
  <2> HIDE DEF S, f
  <2> QED
    BY <1>2, <1>3
<1>5. \A i \in 1 .. Cnt : g[i] = f[o[i]]
  <2> SUFFICES ASSUME NEW i \in 1 .. Cnt PROVE g[i] = f[o[i]]
    OBVIOUS
  <2>1. g[i] = FinalLen(frags.pieces[shrink[i].frag])
    BY DEF FinalLens, Frag
  <2>2. o[i] \in DOMAIN frags.pieces /\ o[i] = shrink[i].frag
    BY <1>1, <1>2
  <2> HIDE DEF f, g, o
  <2> QED
    BY <1>3, <2>1, <2>2
<1> HIDE DEF S, f, g, o, b
<1>6. /\ \A i \in 1 .. Cnt : SumFunctionOnSet(g, 1 .. (i - 1)) = SumFunctionOnSet(f, { x \in S : x < o[i] })
      /\ SumFunctionOnSet(g, 1 .. Cnt) = SumFunctionOnSet(f, S)
  BY <1>1, <1>2, <1>4, <1>5, SumRanks
<1>7. ASSUME NEW i \in 1 .. Cnt PROVE Distance(FinalLens, 1, i) = Start(frags, seg, shrink[i].frag)
  <2>1. Front(frags, seg, o[i]) = { x \in S : x < o[i] }
    <3>1. \A x \in S : x \in Nat /\ x >= 1
      BY <1>2
    <3>2. o[i] \in Nat
      BY <1>1, <3>1
    <3>3. \A x \in S : x \in 1 .. (o[i] - 1) <=> x < o[i]
      BY <3>1, <3>2
    <3> QED
      BY <3>3 DEF Front, S
  <2>2. SumFunctionOnSet(g, 1 .. (i - 1)) = SumFunctionOnSet(f, { x \in S : x < o[i] })
    BY <1>6
  <2>3. shrink[i].frag = o[i]
    BY <1>1
  <2> QED
    BY <2>1, <2>2, <2>3 DEF Distance, Start, f, g
<1>8. Distance(FinalLens, 1, Cnt + 1) = Start(frags, seg, Len(frags.pieces) + 1)
  <2>1. (Cnt + 1) - 1 = Cnt /\ (b + 1) - 1 = b
    BY <1>1, <1>2
  <2>2. Front(frags, seg, b + 1) = S
    <3>1. S \cap (1 .. b) = S
      BY <1>2
    <3> QED
      BY <2>1, <3>1 DEF Front, S
  <2> QED
    BY <1>6, <2>1, <2>2 DEF Distance, Start, f, g, b
<1> QED
  BY <1>7, <1>8

LEMMA PlacedIs ==
  ASSUME LayoutInv, phase = "optimize", frags' = Placed
  PROVE  /\ frags'.pieces \in Seq(Fragment) /\ Alike(frags, frags')
         /\ \A id \in DOMAIN frags.pieces :
              LET p == frags.pieces[id]
                  q == frags'.pieces[id]
              IN /\ q.ofsType = p.ofsType
                 /\ q.segAddr = IF p.seg = seg THEN Start(frags, seg, id) % SegMod ELSE p.segAddr
<1> DEFINE addr(i) == Distance(FinalLens, 1, i) % SegMod
           new(id) == IF Known(id) THEN [frags.pieces[id] EXCEPT !.segAddr = addr(Lookup(id))] ELSE frags.pieces[id]
<1>1. frags.pieces \in Seq(Fragment) /\ DOMAIN frags.pieces = 1 .. Len(frags.pieces) /\ Len(frags.pieces) \in Nat
  BY DEF LayoutInv
<1>2. frags' = [frags EXCEPT !.pieces = [id \in DOMAIN frags.pieces |-> new(id)]]
  BY DEF Placed
<1>3. frags'.pieces = [id \in DOMAIN frags.pieces |-> new(id)]
  <2> HIDE DEF new
  <2> QED
    BY <1>2
<1>4. ASSUME NEW id \in DOMAIN frags.pieces
      PROVE  LET p == frags.pieces[id]
                 q == new(id)
             IN /\ q \in Fragment /\ q.seg = p.seg /\ q.objLen = p.objLen /\ q.jmp8 = p.jmp8 /\ q.jmp32 = p.jmp32
                /\ q.to = p.to /\ q.ofsType = p.ofsType
                /\ q.segAddr = IF p.seg = seg THEN Start(frags, seg, id) % SegMod ELSE p.segAddr
  <2> DEFINE p == frags.pieces[id]
             n == addr(Lookup(id))
  <2>1. p \in Fragment
    BY <1>1
  <2>2. Known(id) <=> p.seg = seg
    BY LookupFinds DEF IdsOf
  <2>3. CASE ~Known(id)
    <3>1. new(id) = p /\ p.seg # seg
      BY <2>2, <2>3
    <3> HIDE DEF new, p
    <3> QED
      BY <2>1, <3>1 DEF p
  <2>4. CASE Known(id)
    <3>1. n = Start(frags, seg, id) % SegMod
      <4>1. Lookup(id) \in 1 .. Cnt /\ shrink[Lookup(id)].frag = id
        BY <2>4, LookupFinds
      <4>2. Distance(FinalLens, 1, Lookup(id)) = Start(frags, seg, shrink[Lookup(id)].frag)
        BY <4>1, DistancesAre
      <4> QED
        BY <4>1, <4>2
    <3>2. n \in Nat
      <4>1. Start(frags, seg, id) \in Nat
        BY <1>1, StartNat
      <4> HIDE DEF n
      <4> QED
        BY <3>1, <4>1, SegModAssumption
    <3>3. new(id) = [p EXCEPT !.segAddr = n] /\ p.seg = seg
      BY <2>2, <2>4
    <3> HIDE DEF new, n, p
    <3>4. LET q == [p EXCEPT !.segAddr = n]
          IN /\ q \in Fragment /\ q.seg = p.seg /\ q.objLen = p.objLen /\ q.jmp8 = p.jmp8 /\ q.jmp32 = p.jmp32
             /\ q.to = p.to /\ q.ofsType = p.ofsType /\ q.segAddr = n
      BY <2>1, <3>2 DEF Fragment
    <3> QED
      BY <3>1, <3>3, <3>4 DEF p
  <2> QED
    BY <2>3, <2>4
<1> HIDE DEF new
<1>5. frags'.pieces \in Seq(Fragment)
  <2> DEFINE T == Fragment
             b == Len(frags.pieces)
  <2>1. \A id \in 1 .. b : new(id) \in T
    BY <1>1, <1>4
  <2>2. b \in Nat /\ frags'.pieces = [id \in 1 .. b |-> new(id)]
    BY <1>1, <1>3
  <2> HIDE DEF T, b
  <2>3. frags'.pieces \in Seq(T)
    BY <2>1, <2>2
  <2> QED
    BY <2>3 DEF T
<1>6. DOMAIN frags'.pieces = DOMAIN frags.pieces /\ \A id \in DOMAIN frags.pieces : frags'.pieces[id] = new(id)
  BY <1>3
<1>7. Alike(frags, frags')
  BY <1>4, <1>6 DEF Alike
<1> QED
  BY <1>4, <1>5, <1>6, <1>7

\* A list with n more behind it.
LEMMA JoinedIs ==
  ASSUME NEW T, NEW t \in Seq(T), NEW n \in Nat, NEW x, DOMAIN x = 1 .. n, x = [k \in DOMAIN x |-> x[k]],
         \A k \in 1 .. n : x[k] \in T
  PROVE  /\ t \o x \in Seq(T) /\ Len(t \o x) = Len(t) + n /\ Len(t) \in Nat
         /\ \A a \in DOMAIN t : a \in DOMAIN (t \o x) /\ (t \o x)[a] = t[a]
         /\ \A a \in DOMAIN (t \o x) : a \in DOMAIN t \/ \E k \in 1 .. n : a = Len(t) + k /\ (t \o x)[a] = x[k]
<1>1. x \in Seq(T) /\ Len(x) = n
  OBVIOUS
<1> QED
  BY <1>1

LEMMA JumpsIs ==
  ASSUME LayoutInv, phase = "optimize"
  PROVE  \E n \in Nat : /\ DOMAIN Jumps = 1 .. n
                        /\ \A k \in 1 .. n : /\ Jumps[k] \in 1 .. Cnt /\ IsJmp(Jumps[k])
                                             /\ \A j \in 1 .. n : Jumps[j] = Jumps[k] => j = k
<1> DEFINE J == { i \in 1 .. Cnt : IsJmp(i) }
           n == Cardinality(J)
<1>1. Cnt \in Nat
  BY GatheredIs
<1>2. Within(J, Cnt) /\ J \in SUBSET (1 .. Cnt)
  BY DEF Within
<1>3. IsFiniteSet(1 .. Cnt)
  BY <1>1, FS_Interval
<1>4. IsFiniteSet(J) /\ n \in Nat
  <2> HIDE DEF J
  <2> QED
    BY <1>2, <1>3, FS_Subset, FS_CardinalityType
<1>5. Jumps = InOrder(J)
  BY DEF Jumps
<1>6. \A i \in J : i \in 1 .. Cnt /\ IsJmp(i)
  OBVIOUS
<1> HIDE DEF J
<1>7. \A k \in 1 .. n : \E x \in J : Cardinality({ j \in J : j <= x }) = k
  BY <1>1, <1>2, <1>4, RankExists
<1> HIDE DEF n
<1>8. DOMAIN InOrder(J) = 1 .. n
  BY DEF InOrder, n
<1>9. \A k \in 1 .. n : InOrder(J)[k] \in J /\ Cardinality({ j \in J : j <= InOrder(J)[k] }) = k
  BY <1>7 DEF InOrder, n
<1>10. \A k \in 1 .. n : \A j \in 1 .. n : InOrder(J)[j] = InOrder(J)[k] => j = k
  BY <1>9
<1> QED
  BY <1>4, <1>5, <1>6, <1>8, <1>9, <1>10

\* The end of a segment, in a word: places for its fragments, an address
\* behind each of its jumps, its length.
LEMMA CloseIs ==
  ASSUME LayoutInv, CloseSegment
  PROVE  /\ phase = "optimize" /\ frags' = Placed /\ phase' = AfterSeg /\ seg' = "DSEG"
         /\ shrink' = shrink /\ retagged' = retagged
         /\ codesLen' = [codesLen EXCEPT ![seg] = Start(frags, seg, Len(frags.pieces) + 1)]
         /\ AddrsTypeOK' /\ Len(addrs) \in Nat
         /\ \A a \in AddrIds : a \in DOMAIN addrs' /\ addrs'[a] = addrs[a] /\ meant'[a] = meant[a]
         /\ \A k \in DOMAIN Jumps : Len(addrs) + k \in DOMAIN addrs' /\ Len(addrs) + k \notin AddrIds
         /\ \A a \in DOMAIN addrs' : a \in AddrIds \/ \E k \in DOMAIN Jumps :
              LET i == Jumps[k]
                  f == shrink[i].frag
              IN /\ a = Len(addrs) + k /\ i \in 1 .. Cnt /\ IsJmp(i)
                 /\ addrs'[a] = Addr(f, EndOfJump(frags.pieces[f]))
                 /\ meant'[a] = [seg |-> seg, pos |-> ItemsBeforeFrag(f) + ItemLen(frags.pieces[f])]
<1> DEFINE end(i) == Addr(shrink[i].frag, EndOfJump(Frag(i)))
           item(i) == [seg |-> seg, pos |-> ItemsBeforeFrag(shrink[i].frag) + ItemLen(Frag(i))]
           T == [frag : Nat, ofs : Nat]
           M == [seg : Segments, pos : Nat]
           x == [k \in DOMAIN Jumps |-> end(Jumps[k])]
           y == [k \in DOMAIN Jumps |-> item(Jumps[k])]
<1>1. phase = "optimize" /\ frags' = Placed /\ phase' = AfterSeg /\ seg' = "DSEG" /\ shrink' = shrink
  BY DEF CloseSegment, ToReftbl, LoopDone, Running, Goto, optVars
<1>2. addrs' = addrs \o x /\ meant' = meant \o y /\ retagged' = retagged
      /\ codesLen' = [codesLen EXCEPT ![seg] = Distance(FinalLens, 1, Cnt + 1)]
  BY DEF CloseSegment
<1>3. codesLen' = [codesLen EXCEPT ![seg] = Start(frags, seg, Len(frags.pieces) + 1)]
  BY <1>1, <1>2, DistancesAre
<1>4. PICK n \in Nat : DOMAIN Jumps = 1 .. n /\ \A k \in 1 .. n : Jumps[k] \in 1 .. Cnt /\ IsJmp(Jumps[k])
  BY <1>1, JumpsIs
<1>5. addrs \in Seq(T) /\ meant \in Seq(M) /\ Len(meant) = Len(addrs)
  BY DEF LayoutInv, AddrsTypeOK
<1>6. \A i \in 1 .. Cnt : IsJmp(i) => end(i) \in T /\ item(i) \in M
  <2> SUFFICES ASSUME NEW i \in 1 .. Cnt, IsJmp(i) PROVE end(i) \in T /\ item(i) \in M
    OBVIOUS
  <2> DEFINE f == shrink[i].frag
             p == frags.pieces[f]
  <2>1. f \in DOMAIN frags.pieces /\ p \in Fragment /\ f \in Nat /\ frags.pieces \in Seq(Fragment)
    <3>1. f \in DOMAIN frags.pieces
      BY <1>1, GatheredIs
    <3>2. frags.pieces \in Seq(Fragment)
      BY DEF LayoutInv
    <3> QED
      BY <3>1, <3>2
  <2>2. HasJmp(p) /\ Frag(i) = p
    BY DEF IsJmp, Frag
  <2>3. EndOfJump(p) \in Nat
    <3>1. p.objLen \in Nat /\ JmpLen(p) \in Nat
      BY <2>1, <2>2, FinalLenNat
    <3> QED
      BY <3>1 DEF EndOfJump
  <2>4. ItemLen(p) \in Nat
    BY <2>1, ItemLenNat
  <2>5. ItemsBeforeFrag(f) \in Nat
    <3>1. ItemsBeforeFrag(f) = Below(frags, p.seg, f)
      BY <2>1, ItemsBeforeIs
    <3>2. Below(frags, p.seg, f) \in Nat
      BY <2>1, BelowNat
    <3> QED
      BY <3>1, <3>2
  <2>6. seg \in Segments
    BY DEF LayoutInv, Placing, Segments
  <2>7. end(i) \in T
    BY <2>1, <2>2, <2>3 DEF Addr
  <2>8. item(i) \in M
    <3> HIDE DEF p, f
    <3>1. ItemsBeforeFrag(f) + ItemLen(p) \in Nat
      BY <2>4, <2>5
    <3> QED
      BY <2>2, <2>6, <3>1 DEF f
  <2> QED
    BY <2>7, <2>8
<1> HIDE DEF T, M
<1>7. DOMAIN x = 1 .. n /\ x = [k \in DOMAIN x |-> x[k]] /\ \A k \in 1 .. n : x[k] = end(Jumps[k]) /\ x[k] \in T
  BY <1>4, <1>6
<1>8. DOMAIN y = 1 .. n /\ y = [k \in DOMAIN y |-> y[k]] /\ \A k \in 1 .. n : y[k] = item(Jumps[k]) /\ y[k] \in M
  BY <1>4, <1>6
<1> HIDE DEF x, y
<1>9. /\ addrs' \in Seq(T) /\ Len(addrs') = Len(addrs) + n /\ Len(addrs) \in Nat
      /\ \A a \in DOMAIN addrs : a \in DOMAIN addrs' /\ addrs'[a] = addrs[a]
      /\ \A a \in DOMAIN addrs' : a \in DOMAIN addrs \/ \E k \in 1 .. n : a = Len(addrs) + k /\ addrs'[a] = x[k]
  <2> HIDE DEF end, item
  <2>1. /\ addrs \o x \in Seq(T) /\ Len(addrs \o x) = Len(addrs) + n /\ Len(addrs) \in Nat
        /\ \A a \in DOMAIN addrs : a \in DOMAIN (addrs \o x) /\ (addrs \o x)[a] = addrs[a]
        /\ \A a \in DOMAIN (addrs \o x) :
             a \in DOMAIN addrs \/ \E k \in 1 .. n : a = Len(addrs) + k /\ (addrs \o x)[a] = x[k]
    <3>1. addrs \in Seq(T)
      BY <1>5
    <3>2. DOMAIN x = 1 .. n /\ x = [k \in DOMAIN x |-> x[k]] /\ \A k \in 1 .. n : x[k] \in T
      BY <1>7
    <3> QED
      BY <3>1, <3>2, JoinedIs
  <2>2. addrs' = addrs \o x
    BY <1>2
  <2> QED
    BY <2>1, <2>2
<1>10. /\ meant' \in Seq(M) /\ Len(meant') = Len(addrs) + n
       /\ \A a \in DOMAIN meant : meant'[a] = meant[a]
       /\ \A a \in DOMAIN meant' : a \in DOMAIN meant \/ \E k \in 1 .. n : a = Len(meant) + k /\ meant'[a] = y[k]
  <2> HIDE DEF end, item
  <2> QED
    BY <1>2, <1>5, <1>8, JoinedIs
<1>11. DOMAIN meant = DOMAIN addrs /\ DOMAIN meant' = DOMAIN addrs'
  BY <1>5, <1>9, <1>10
<1>12. AddrsTypeOK'
  BY <1>9, <1>10 DEF AddrsTypeOK, T, M
<1>13. \A a \in AddrIds : a \in DOMAIN addrs' /\ addrs'[a] = addrs[a] /\ meant'[a] = meant[a]
  BY <1>9, <1>10, <1>11 DEF AddrIds
<1>14. ASSUME NEW a \in DOMAIN addrs', a \notin AddrIds
       PROVE  \E k \in DOMAIN Jumps :
                LET i == Jumps[k]
                    f == shrink[i].frag
                IN /\ a = Len(addrs) + k /\ i \in 1 .. Cnt /\ IsJmp(i)
                   /\ addrs'[a] = Addr(f, EndOfJump(frags.pieces[f]))
                   /\ meant'[a] = [seg |-> seg, pos |-> ItemsBeforeFrag(f) + ItemLen(frags.pieces[f])]
  <2>1. PICK k \in 1 .. n : a = Len(addrs) + k /\ addrs'[a] = x[k]
    BY <1>9, <1>14 DEF AddrIds
  <2>2. PICK j \in 1 .. n : a = Len(meant) + j /\ meant'[a] = y[j]
    BY <1>10, <1>11, <1>14 DEF AddrIds
  <2>3. j = k
    BY <1>5, <1>9, <2>1, <2>2
  <2>4. addrs'[a] = end(Jumps[k]) /\ meant'[a] = item(Jumps[k])
    BY <1>7, <1>8, <2>1, <2>2, <2>3
  <2> QED
    BY <1>4, <2>1, <2>4 DEF Frag
<1>15. \A k \in DOMAIN Jumps : Len(addrs) + k \in DOMAIN addrs' /\ Len(addrs) + k \notin AddrIds
  <2>1. DOMAIN addrs' = 1 .. (Len(addrs) + n) /\ AddrIds = 1 .. Len(addrs) /\ Len(addrs) \in Nat
    BY <1>5, <1>9 DEF AddrIds
  <2> QED
    BY <1>4, <2>1
<1> QED
  BY <1>1, <1>2, <1>3, <1>9, <1>12, <1>13, <1>14, <1>15

\* Fragments that differ in their addresses only.
LEMMA SameForms ==
  ASSUME NEW F, NEW G, Alike(F, G), F.pieces \in Seq(Fragment), G.pieces \in Seq(Fragment),
         \A id \in DOMAIN F.pieces : G.pieces[id].ofsType = F.pieces[id].ofsType
  PROVE  /\ \A s, m : m \in Nat => Start(G, s, m) = Start(F, s, m)
         /\ \A f \in DOMAIN F.pieces : \A m, o : InPlace(F, f, m, o) => InPlace(G, f, m, o)
         /\ \A a, d, e : PointsAt(F, a, d) /\ (d => e) => PointsAt(G, a, e)
<1>1. \A s, m : m \in Nat => Start(G, s, m) = Start(F, s, m)
  BY StartSame
<1>2. \A id \in DOMAIN F.pieces : /\ FinalLen(G.pieces[id]) = FinalLen(F.pieces[id])
                                  /\ HasJmp(G.pieces[id]) <=> HasJmp(F.pieces[id])
                                  /\ ItemLen(G.pieces[id]) = ItemLen(F.pieces[id])
  BY FinalSame, AlikeIs
<1>3. \A s, m : Below(G, s, m) = Below(F, s, m)
  BY AlikeIs
<1>4. DOMAIN G.pieces = DOMAIN F.pieces
      /\ \A id \in DOMAIN F.pieces : G.pieces[id].seg = F.pieces[id].seg /\ G.pieces[id].objLen = F.pieces[id].objLen
  BY DEF Alike
<1>5. \A f \in DOMAIN F.pieces : \A m, o : InPlace(F, f, m, o) => InPlace(G, f, m, o)
  BY <1>2, <1>3, <1>4 DEF InPlace
<1>6. \A a, d, e : PointsAt(F, a, d) /\ (d => e) => PointsAt(G, a, e)
  BY <1>2, <1>4 DEF PointsAt
<1> QED
  BY <1>1, <1>5, <1>6

LEMMA CloseLayout ==
  ASSUME LayoutInv, CloseSegment
  PROVE  LayoutInv'
<1>1. /\ phase = "optimize" /\ frags' = Placed /\ phase' = AfterSeg /\ seg' = "DSEG" /\ retagged' = retagged
      /\ codesLen' = [codesLen EXCEPT ![seg] = Start(frags, seg, Len(frags.pieces) + 1)] /\ AddrsTypeOK'
  BY CloseIs
<1>2. frags.pieces \in Seq(Fragment) /\ seg \in {"CSEG", "DSEG"} /\ codesLen \in [Segments -> Nat]
  BY DEF LayoutInv, Placing
<1>3. /\ frags'.pieces \in Seq(Fragment) /\ Alike(frags, frags')
      /\ \A id \in DOMAIN frags.pieces :
           LET p == frags.pieces[id]
               q == frags'.pieces[id]
           IN /\ q.ofsType = p.ofsType
              /\ q.segAddr = IF p.seg = seg THEN Start(frags, seg, id) % SegMod ELSE p.segAddr
  BY <1>1, PlacedIs
<1>4. /\ \A s, m : m \in Nat => Start(frags', s, m) = Start(frags, s, m)
      /\ \A f \in DOMAIN frags.pieces : \A m, o : InPlace(frags, f, m, o) => InPlace(frags', f, m, o)
      /\ \A a, d, e : PointsAt(frags, a, d) /\ (d => e) => PointsAt(frags', a, e)
  BY <1>2, <1>3, SameForms
<1>5. \A s : LaidOutNext(s) <=> LaidOut(s) \/ s = seg
  BY <1>1, <1>2 DEF LaidOut, LaidOutNext, Past, Late, AfterSeg
<1>6. /\ DOMAIN frags'.pieces = DOMAIN frags.pieces
      /\ \A id \in DOMAIN frags.pieces : id \in Nat /\ frags'.pieces[id].seg = frags.pieces[id].seg
      /\ Len(frags'.pieces) = Len(frags.pieces) /\ Len(frags.pieces) + 1 \in Nat
  BY <1>2, <1>3 DEF Alike
<1>7. Placing' /\ Gathered'
  <2>1. Start(frags, seg, Len(frags.pieces) + 1) \in Nat
    BY <1>2, <1>6, StartNat
  <2>2. codesLen' \in [Segments -> Nat]
    BY <1>1, <1>2, <2>1
  <2> QED
    BY <1>1, <1>2, <2>2 DEF Placing, Gathered, Phases, Late, AfterSeg
<1>8. Addressed'
  <2> SUFFICES ASSUME NEW id \in DOMAIN frags'.pieces
               PROVE  frags'.pieces[id].segAddr
                        = IF LaidOutNext(frags'.pieces[id].seg) THEN Start(frags', frags'.pieces[id].seg, id) % SegMod ELSE Unset
    BY DEF Addressed, LaidOut, LaidOutNext
  <2> DEFINE p == frags.pieces[id]
  <2>1. id \in DOMAIN frags.pieces /\ frags'.pieces[id].seg = p.seg /\ id \in Nat
    BY <1>6
  <2>2. p.segAddr = IF LaidOut(p.seg) THEN Start(frags, p.seg, id) % SegMod ELSE Unset
    BY <2>1 DEF LayoutInv, Addressed
  <2>3. frags'.pieces[id].segAddr = IF p.seg = seg THEN Start(frags, seg, id) % SegMod ELSE p.segAddr
    BY <1>3, <2>1
  <2>4. LaidOutNext(frags'.pieces[id].seg) <=> LaidOut(p.seg) \/ p.seg = seg
    BY <1>5, <2>1
  <2>5. Start(frags', p.seg, id) = Start(frags, p.seg, id)
    BY <1>4, <2>1
  <2> HIDE DEF p
  <2> QED
    BY <2>1, <2>2, <2>3, <2>4, <2>5
<1>9. Measured'
  <2> SUFFICES ASSUME NEW s \in {"CSEG", "DSEG"}, LaidOutNext(s)
               PROVE  codesLen'[s] = Start(frags', s, Len(frags'.pieces) + 1)
    BY DEF Measured, LaidOut, LaidOutNext
  <2>1. Start(frags', s, Len(frags'.pieces) + 1) = Start(frags, s, Len(frags.pieces) + 1)
    BY <1>4, <1>6
  <2>2. CASE s = seg
    <3>1. seg \in Segments
      BY <1>2 DEF Segments
    <3> QED
      BY <1>1, <1>2, <2>1, <2>2, <3>1
  <2>3. CASE s # seg
    <3>1. LaidOut(s)
      BY <1>5, <2>3
    <3>2. codesLen[s] = Start(frags, s, Len(frags.pieces) + 1)
      BY <3>1 DEF LayoutInv, Measured
    <3>3. codesLen'[s] = codesLen[s]
      <4>1. s \in Segments
        BY DEF Segments
      <4> QED
        BY <1>1, <1>2, <2>3, <4>1
    <3> QED
      BY <2>1, <3>2, <3>3
  <2> QED
    BY <2>2, <2>3
<1>10. ASSUME NEW a \in DOMAIN addrs'
       PROVE  /\ PointsAt(frags', addrs'[a], LaidOutNext(frags'.pieces[addrs'[a].frag].seg))
              /\ addrs'[a].frag \notin retagged => InPlace(frags', addrs'[a].frag, meant'[a], addrs'[a].ofs)
  <2>1. CASE a \in AddrIds
    <3>1. addrs'[a] = addrs[a] /\ meant'[a] = meant[a]
      BY <2>1, CloseIs
    <3>2. PointsAt(frags, addrs[a], LaidOut(frags.pieces[addrs[a].frag].seg))
      BY <2>1 DEF LayoutInv, Pointing
    <3>3. addrs[a].frag \in DOMAIN frags.pieces
      BY <3>2 DEF PointsAt
    <3>4. LaidOut(frags.pieces[addrs[a].frag].seg) => LaidOutNext(frags'.pieces[addrs[a].frag].seg)
      BY <1>5, <1>6, <3>3
    <3>5. addrs[a].frag \notin retagged => InPlace(frags, addrs[a].frag, meant[a], addrs[a].ofs)
      BY <2>1 DEF LayoutInv, Meaning
    <3> QED
      BY <1>4, <3>1, <3>2, <3>3, <3>4, <3>5
  <2>2. CASE a \notin AddrIds
    <3>1. PICK k \in DOMAIN Jumps :
                LET i == Jumps[k]
                    f == shrink[i].frag
                IN /\ a = Len(addrs) + k /\ i \in 1 .. Cnt /\ IsJmp(i)
                   /\ addrs'[a] = Addr(f, EndOfJump(frags.pieces[f]))
                   /\ meant'[a] = [seg |-> seg, pos |-> ItemsBeforeFrag(f) + ItemLen(frags.pieces[f])]
      BY <2>2, CloseIs
    <3> DEFINE f == shrink[Jumps[k]].frag
               p == frags.pieces[f]
    <3>2. f \in DOMAIN frags.pieces /\ p.seg = seg
      BY <1>1, <3>1, GatheredIs DEF IdsOf
    <3>3. HasJmp(p)
      BY <3>1 DEF IsJmp, Frag
    <3>4. EndOfJump(p) = FinalLen(p)
      BY <3>3 DEF EndOfJump, FinalLen
    <3>5. ItemsBeforeFrag(f) = Below(frags, seg, f)
      BY <3>2, ItemsBeforeIs
    <3>6. /\ addrs'[a].frag = f /\ addrs'[a].ofs = FinalLen(p)
          /\ meant'[a].seg = seg /\ meant'[a].pos = Below(frags, seg, f) + ItemLen(p)
      BY <3>1, <3>4, <3>5 DEF Addr
    <3> HIDE DEF f, p
    <3>7. InPlace(frags, f, meant'[a], addrs'[a].ofs)
      BY <3>2, <3>3, <3>6 DEF InPlace, p
    <3>8. PointsAt(frags, addrs'[a], TRUE)
      BY <3>2, <3>3, <3>6 DEF PointsAt, p
    <3>9. LaidOutNext(frags'.pieces[f].seg)
      BY <1>5, <1>6, <3>2 DEF p
    <3> QED
      BY <1>4, <3>2, <3>6, <3>7, <3>8, <3>9
  <2> QED
    BY <2>1, <2>2
<1>11. Pointing'
  BY <1>10 DEF Pointing, AddrIds, LaidOut, LaidOutNext
<1>12. Meaning'
  BY <1>1, <1>10 DEF Meaning, AddrIds
<1> QED
  BY <1>1, <1>3, <1>7, <1>8, <1>9, <1>11, <1>12 DEF LayoutInv

------------------------------------------------------------------------------
(* The invariant of the whole assembly.                                     *)

\* addrs_resolve_all has gone through the addresses.
Resolving == {"lengths", "cfi", "references", "results", "done"}
Resolution ==
  phase \in Resolving =>
    /\ resolved = [a \in AddrIds |->
                     [seg |-> frags.pieces[addrs[a].frag].seg, ofs |-> (SegAddr(a) + addrs[a].ofs) % SegMod]]
    /\ \A a \in AddrIds : SegAddr(a) # Unset

AsmInv ==
  /\ Resolution
  /\ phase = "pass1" => SourceInv
  /\ phase # "pass1" => LayoutInv

LEMMA ReadsFirst ==
  ASSUME Statement
  PROVE  phase = "pass1" /\ phase' = phase
<1>1. CASE \E l \in Labels : Jcc(l) \/ Jmp(l) \/ Call(l)
  BY <1>1 DEF Jcc, Jmp, Call, Jump, Appending, NextLine, Reads
<1>2. CASE \E l \in Labels : Lea(l) \/ Quad(l) \/ LabelInStruct(l) \/ Label(l) \/ Equ(l) \/ Declare(l) \/ Size(l)
  BY <1>2 DEF Lea, Quad, LabelInStruct, Label, Equ, Declare, Size, Appending, NextLine, Reads
<1>3. CASE \E n \in CodeLens : Code(n)
  BY <1>3 DEF Code, Appending, NextLine, Reads
<1>4. CASE Text \/ Rodata \/ Struct \/ StartProc \/ EndProc \/ Cfi
  BY <1>4 DEF Text, Rodata, Struct, OpenSection, StartProc, EndProc, Cfi, Appending, NextLine, Reads
<1>5. CASE FailBegin \/ FailTooLarge \/ FailSize
  BY <1>5 DEF FailBegin, FailTooLarge, FailSize, Fail, NeedsFragment, Reads
<1> QED
  BY <1>1, <1>2, <1>3, <1>4, <1>5 DEF Statement

LEMMA SourceStep ==
  ASSUME SourceInv, phase = "pass1", ReadSource
  PROVE  SourceInv' /\ phase' = "pass1"
<1>1. Statement /\ phase' = phase
  BY ReadsFirst DEF ReadSource
<1>2. [NextPass1]_vars
  BY <1>1 DEF NextPass1
<1>3. Inv1'
  BY <1>2, Inv1Step DEF SourceInv, Keeps
<1>4. InvStay' /\ InvProcs'
  BY <1>2, InvStayStep, InvProcsStep DEF SourceInv
<1>5. Untouched'
  BY <1>1, UntouchedStep DEF SourceInv
<1> QED
  BY <1>1, <1>3, <1>4, <1>5 DEF SourceInv, ReadSource, relaxVars, outVars

LEMMA EndLayout ==
  ASSUME SourceInv, EndOfSource
  PROVE  LayoutInv' /\ phase' = "startup"
<1>1. phase = "pass1" /\ phase' = "startup" /\ frags' = PushEnd(frags)
      /\ UNCHANGED <<addrs, meant, retagged, codesLen, seg>>
  BY DEF EndOfSource, Running, Goto, pass1Vars, histVars, outVars
<1>2. frags'.pieces = frags.pieces
  BY <1>1 DEF PushEnd, EndAppending
<1>3. LayoutInv
  BY <1>1, SourceLayout
<1> QED
  BY <1>1, <1>2, <1>3, QuietLayout

LEMMA OptimizeMoves ==
  ASSUME LayoutInv, Optimize
  PROVE  LayoutInv' /\ phase' \in {"startup", "optimize"}
<1>1. UNCHANGED <<addrs, meant, retagged, codesLen>>
  BY DEF Optimize, pass1Vars, histVars, outVars
<1>2. CASE Startup
  <2>1. phase' \in {"startup", "optimize"}
    BY <1>2 DEF Startup, Running, Bug, Goto
  <2> QED
    BY <1>1, <1>2, <2>1, StartupLayout
<1>3. CASE OptimizeStep
  <2>1. phase' \in {"startup", "optimize"}
    BY <1>3, OptimizeDoes
  <2> QED
    BY <1>1, <1>3, <2>1, OptimizeLayout
<1> QED
  BY <1>2, <1>3 DEF Optimize

\* The steps behind the layout leave it alone.
Output == ResolveAddrs \/ ResolveFnLen \/ FnLenFails \/ ResolveCfi \/ CfiFails \/ ResolveReftbl \/ Results

LEMMA OutputIs ==
  ASSUME Output
  PROVE  /\ UNCHANGED <<frags, pass1Vars, histVars, relaxVars, codesLen>>
         /\ phase \in Late \ {"done"} /\ (phase' = phase \/ phase' \in Resolving)
         /\ phase # "addresses" => resolved' = resolved
<1>1. CASE ResolveAddrs
  BY <1>1 DEF ResolveAddrs, Running, Stop, Bug, Proceed, Goto, outVars, Late, Resolving
<1>2. CASE ResolveFnLen \/ FnLenFails
  BY <1>2 DEF ResolveFnLen, FnLenFails, Running, Stop, Bug, Proceed, Goto, outVars, Late, Resolving
<1>3. CASE ResolveCfi \/ CfiFails
  BY <1>3 DEF ResolveCfi, CfiFails, Running, Stop, Bug, Proceed, Goto, outVars, Late, Resolving
<1>4. CASE ResolveReftbl \/ Results
  BY <1>4 DEF ResolveReftbl, Results, Running, Stop, Bug, Proceed, Goto, outVars, Late, Resolving
<1> QED
  BY <1>1, <1>2, <1>3, <1>4 DEF Output

LEMMA OutputLayout ==
  ASSUME LayoutInv, Output
  PROVE  LayoutInv' /\ phase' \in Late
<1>1. UNCHANGED <<frags, addrs, meant, retagged, codesLen, seg>> /\ phase \in Late /\ phase' \in Late
  BY OutputIs DEF pass1Vars, histVars, relaxVars, Late, Resolving
<1> QED
  BY <1>1, QuietLayout

LEMMA OutputResolution ==
  ASSUME Resolution, Output
  PROVE  Resolution'
<1>1. UNCHANGED <<frags, addrs>>
  BY OutputIs DEF pass1Vars
<1>2. CASE phase \in Resolving
  <2>1. resolved' = resolved
    BY <1>2, OutputIs DEF Resolving
  <2> QED
    BY <1>1, <1>2, <2>1 DEF Resolution, SegAddr, AddrIds
<1>3. CASE phase \notin Resolving
  <2>1. phase = "addresses"
    BY <1>3, OutputIs DEF Resolving, Late
  <2>2. ResolveAddrs
    BY <2>1 DEF Output, ResolveFnLen, FnLenFails, ResolveCfi, CfiFails, ResolveReftbl, Results, Running
  <2>3. CASE \E a \in AddrIds : SegAddr(a) = Unset
    BY <2>1, <2>2, <2>3 DEF ResolveAddrs, Stop, Bug, Resolution, Resolving
  <2>4. CASE AddrIds = {}
    BY <2>1, <2>2, <2>4 DEF ResolveAddrs, Stop, Bug, Resolution, Resolving
  <2>5. CASE AddrIds # {} /\ \A a \in AddrIds : SegAddr(a) # Unset
    <3>1. resolved' = [a \in AddrIds |->
            [seg |-> frags.pieces[addrs[a].frag].seg, ofs |-> (SegAddr(a) + addrs[a].ofs) % SegMod]]
      BY <2>2, <2>5 DEF ResolveAddrs
    <3> QED
      BY <1>1, <2>5, <3>1 DEF Resolution, SegAddr, AddrIds
  <2> QED
    BY <2>3, <2>4, <2>5
<1> QED
  BY <1>2, <1>3

LEMMA AsmInit == Init => AsmInv
<1> SUFFICES ASSUME Init PROVE AsmInv
  OBVIOUS
<1>1. InitPass1 /\ phase = "pass1" /\ seg = "CSEG" /\ codesLen = [s \in Segments |-> 0]
  BY DEF Init, InitPass1
<1>2. Inv1 /\ InvStay
  BY <1>1, Inv1Init, InvStayInit
<1>3. InvProcs
  BY <1>1 DEF InitPass1, InvProcs, ProcsHaveAddrs, LastIsOpen, ProcsOrdered
<1>4. Untouched
  BY <1>1 DEF InitPass1, NoFragments, Untouched
<1>5. codesLen \in [Segments -> Nat]
  BY <1>1
<1> QED
  BY <1>1, <1>2, <1>3, <1>4, <1>5 DEF AsmInv, SourceInv, Resolution, Resolving

LEMMA AsmStep == AsmInv /\ [Next]_allOf => AsmInv'
<1> SUFFICES ASSUME AsmInv, [Next]_allOf PROVE AsmInv'
  OBVIOUS
<1>1. CASE ReadSource
  <2>1. phase = "pass1"
    BY <1>1, ReadsFirst DEF ReadSource
  <2>2. SourceInv' /\ phase' = "pass1"
    BY <1>1, <2>1, SourceStep DEF AsmInv
  <2> QED
    BY <2>2 DEF AsmInv, Resolution, Resolving
<1>2. CASE EndOfSource
  <2>1. SourceInv
    BY <1>2 DEF AsmInv, EndOfSource, Running
  <2>2. LayoutInv' /\ phase' = "startup"
    BY <1>2, <2>1, EndLayout
  <2> QED
    BY <2>2 DEF AsmInv, Resolution, Resolving
<1>3. CASE Optimize
  <2>1. phase # "pass1"
    BY <1>3, OptimizeDoes DEF Optimize, Startup, Running
  <2>2. LayoutInv' /\ phase' \in {"startup", "optimize"}
    BY <1>3, <2>1, OptimizeMoves DEF AsmInv
  <2> QED
    BY <2>2 DEF AsmInv, Resolution, Resolving
<1>4. CASE CloseSegment
  <2>1. phase # "pass1"
    BY <1>4 DEF CloseSegment, ToReftbl, LoopDone, Running
  <2>2. LayoutInv' /\ phase' = AfterSeg
    BY <1>4, <2>1, CloseLayout, CloseIs DEF AsmInv
  <2> QED
    BY <2>2 DEF AsmInv, Resolution, Resolving, AfterSeg
<1>5. CASE Output
  <2>1. phase # "pass1"
    BY <1>5, OutputIs DEF Late
  <2>2. LayoutInv' /\ phase' \in Late
    BY <1>5, <2>1, OutputLayout DEF AsmInv
  <2>3. Resolution'
    BY <1>5, OutputResolution DEF AsmInv
  <2> QED
    BY <2>2, <2>3 DEF AsmInv, Late
<1>6. CASE UNCHANGED allOf
  <2>1. /\ frags'.pieces = frags.pieces /\ UNCHANGED <<frags, addrs, meant, retagged, codesLen, seg, phase, shrink, resolved>>
        /\ vars' = vars
    BY <1>6 DEF allOf, vars, relaxVars, optVars, outVars, pass1Vars, histVars
  <2>2. Resolution'
    BY <2>1 DEF AsmInv, Resolution, SegAddr, AddrIds
  <2>3. phase # "pass1" => LayoutInv'
    BY <2>1, QuietLayout DEF AsmInv
  <2>4. phase = "pass1" => SourceInv'
    <3> SUFFICES ASSUME phase = "pass1" PROVE SourceInv'
      OBVIOUS
    <3>1. [NextPass1]_vars
      BY <2>1
    <3>2. Inv1' /\ InvStay' /\ InvProcs'
      BY <3>1, Inv1Step, InvStayStep, InvProcsStep DEF AsmInv, SourceInv, Keeps
    <3>3. Untouched'
      BY <2>1 DEF AsmInv, SourceInv, Untouched, Fresh, HasJmp
    <3> QED
      BY <2>1, <3>2, <3>3 DEF AsmInv, SourceInv
  <2> QED
    BY <2>1, <2>2, <2>3, <2>4 DEF AsmInv
<1> QED
  BY <1>1, <1>2, <1>3, <1>4, <1>5, <1>6 DEF Next, Pass2, Output

THEOREM AsmInvHolds == Spec => []AsmInv
BY AsmInit, AsmStep, PTL DEF Spec

------------------------------------------------------------------------------
(* Where the addresses end up.                                              *)

LEMMA InFragment ==
  ASSUME LayoutInv, NEW a \in AddrIds
  PROVE  LET p == frags.pieces[addrs[a].frag]
         IN /\ addrs[a].frag \in DOMAIN frags.pieces /\ addrs[a].ofs \in Nat
            /\ addrs[a].ofs <= FinalLen(p) /\ FinalLen(p) \in Nat
<1> DEFINE p == frags.pieces[addrs[a].frag]
           o == addrs[a].ofs
<1>1. addrs[a].frag \in DOMAIN frags.pieces /\ (o <= p.objLen \/ o = FinalLen(p))
  BY DEF LayoutInv, Pointing, PointsAt
<1>2. p \in Fragment /\ o \in Nat
  BY <1>1, AddrIs DEF LayoutInv
<1> HIDE DEF p, o
<1>3. p.objLen \in Nat /\ FinalLen(p) \in Nat /\ p.objLen <= FinalLen(p)
  <2>1. /\ p.objLen \in Nat /\ FinalLen(p) \in Nat
        /\ ~HasJmp(p) => FinalLen(p) = p.objLen
        /\ HasJmp(p) => FinalLen(p) = p.objLen + JmpLen(p) /\ JmpLen(p) \in Nat
    BY <1>2, FinalLenNat
  <2> QED
    BY <2>1
<1>4. o <= FinalLen(p)
  BY <1>1, <1>2, <1>3
<1> QED
  BY <1>1, <1>2, <1>3, <1>4 DEF p, o

LEMMA FragmentsApart ==
  ASSUME frags.pieces \in Seq(Fragment), NEW f \in DOMAIN frags.pieces, NEW g \in DOMAIN frags.pieces,
         frags.pieces[f].seg = frags.pieces[g].seg, f < g
  PROVE  Start(frags, frags.pieces[f].seg, f) + FinalLen(frags.pieces[f]) <= Start(frags, frags.pieces[g].seg, g)
<1> DEFINE L == Bytes(frags)
           s == frags.pieces[f].seg
<1>1. \A i \in DOMAIN frags.pieces : L[i] \in Nat /\ L[i] = FinalLen(frags.pieces[i])
  BY BytesNat
<1>3. frags.pieces[f].seg = s /\ g \in Nat
  OBVIOUS
<1> HIDE DEF L, s
<1>2. SumFunctionOnSet(L, Front(frags, s, f)) + L[f] <= SumFunctionOnSet(L, Front(frags, s, g))
  BY <1>1, <1>3, FrontPast
<1> QED
  BY <1>1, <1>2, <1>3 DEF Start, L, s

\* What is in the layout of a segment is in front of its end.
LEMMA PlaceInSegment ==
  ASSUME LayoutInv, phase \in Late, NEW a \in AddrIds, SegAddr(a) # Unset
  PROVE  LET f == addrs[a].frag
             p == frags.pieces[f]
         IN /\ f \in DOMAIN frags.pieces /\ p.seg \in {"CSEG", "DSEG"} /\ addrs[a].ofs \in Nat
            /\ p.segAddr = Start(frags, p.seg, f) % SegMod
            /\ Start(frags, p.seg, f) \in Nat
            /\ Start(frags, p.seg, f) + addrs[a].ofs <= codesLen[p.seg]
<1> DEFINE f == addrs[a].frag
           p == frags.pieces[f]
           n == Start(frags, p.seg, f)
           end == Start(frags, p.seg, Len(frags.pieces) + 1)
<1>1. f \in DOMAIN frags.pieces
  BY InFragment
<1>2. addrs[a].ofs \in Nat
  BY InFragment
<1>3. frags.pieces \in Seq(Fragment) /\ p \in Fragment /\ f \in Nat
      /\ Len(frags.pieces) + 1 \in Nat /\ f < Len(frags.pieces) + 1
  BY <1>1 DEF LayoutInv
<1>4. LaidOut(p.seg) /\ p.segAddr = n % SegMod
  BY <1>1 DEF LayoutInv, Addressed, SegAddr
<1>5. p.seg \in {"CSEG", "DSEG"} /\ codesLen[p.seg] = end
  BY <1>4 DEF LayoutInv, Measured, LaidOut, Past
<1>6. n \in Nat /\ end \in Nat
  BY <1>3, StartNat
<1>7. n + FinalLen(p) <= end
  <2> DEFINE L == Bytes(frags)
  <2>1. \A i \in DOMAIN frags.pieces : L[i] \in Nat /\ L[i] = FinalLen(frags.pieces[i])
    BY <1>3, BytesNat
  <2> HIDE DEF L
  <2>2. SumFunctionOnSet(L, Front(frags, p.seg, f)) + L[f] <= SumFunctionOnSet(L, Front(frags, p.seg, Len(frags.pieces) + 1))
    BY <1>1, <1>3, <2>1, FrontPast
  <2> QED
    BY <1>1, <2>1, <2>2 DEF Start, L
<1>8. addrs[a].ofs <= FinalLen(p) /\ FinalLen(p) \in Nat
  BY InFragment
<1> HIDE DEF n, end, p, f
<1>9. n + addrs[a].ofs <= end
  BY <1>2, <1>6, <1>7, <1>8
<1> QED
  BY <1>1, <1>2, <1>4, <1>5, <1>6, <1>9 DEF n, p, f

LEMMA ResolvedIs ==
  ASSUME AsmInv, phase \in Resolving, SegmentsFit, NEW a \in AddrIds
  PROVE  LET f == addrs[a].frag
             p == frags.pieces[f]
         IN /\ resolved[a] = [seg |-> p.seg, ofs |-> Start(frags, p.seg, f) + addrs[a].ofs]
            /\ p.seg \in {"CSEG", "DSEG"} /\ f \in DOMAIN frags.pieces
            /\ addrs[a].ofs \in Nat /\ Start(frags, p.seg, f) \in Nat
            /\ Start(frags, p.seg, f) + addrs[a].ofs <= codesLen[p.seg]
<1> DEFINE f == addrs[a].frag
           p == frags.pieces[f]
           n == Start(frags, p.seg, f)
<1>1. LayoutInv /\ phase \in Late
  BY DEF AsmInv, Resolving, Late
<1>2. resolved[a] = [seg |-> p.seg, ofs |-> (p.segAddr + addrs[a].ofs) % SegMod] /\ SegAddr(a) # Unset
  BY DEF AsmInv, Resolution, SegAddr
<1>3. /\ f \in DOMAIN frags.pieces /\ p.seg \in {"CSEG", "DSEG"} /\ addrs[a].ofs \in Nat
      /\ p.segAddr = n % SegMod /\ n \in Nat /\ n + addrs[a].ofs <= codesLen[p.seg]
  BY <1>1, <1>2, PlaceInSegment
<1>4. codesLen[p.seg] < SegMod /\ codesLen[p.seg] \in Nat
  <2>1. p.seg \in Segments /\ codesLen \in [Segments -> Nat]
    BY <1>1, <1>3 DEF Segments, LayoutInv, Placing
  <2> QED
    BY <1>3, <2>1 DEF SegmentsFit
<1>5. ASSUME NEW x \in Nat, x < SegMod PROVE x % SegMod = x
  BY <1>5, SegModAssumption
<1> HIDE DEF n, p, f
<1>6. n < SegMod /\ n + addrs[a].ofs < SegMod /\ n + addrs[a].ofs \in Nat
  BY <1>3, <1>4, SegModAssumption
<1>7. n % SegMod = n /\ (n + addrs[a].ofs) % SegMod = n + addrs[a].ofs
  BY <1>3, <1>5, <1>6
<1>8. resolved[a] = [seg |-> p.seg, ofs |-> n + addrs[a].ofs]
  BY <1>2, <1>3, <1>7
<1> QED
  BY <1>3, <1>8 DEF n, p, f

LEMMA MeantIs ==
  ASSUME AsmInv, phase \in Resolving, SegmentsFit, NEW a \in AddrIds, addrs[a].frag \notin retagged
  PROVE  resolved[a] = [seg |-> meant[a].seg, ofs |-> ByteAt(meant[a])]
<1> DEFINE f == addrs[a].frag
           p == frags.pieces[f]
<1>1. /\ resolved[a] = [seg |-> p.seg, ofs |-> Start(frags, p.seg, f) + addrs[a].ofs]
      /\ f \in DOMAIN frags.pieces /\ addrs[a].ofs \in Nat
  BY ResolvedIs
<1>2. InPlace(frags, f, meant[a], addrs[a].ofs) /\ frags.pieces \in Seq(Fragment)
  BY DEF AsmInv, LayoutInv, Meaning, Resolving
<1>3. meant[a].seg = p.seg
  BY <1>2 DEF InPlace
<1>4. ByteAt(meant[a]) = Start(frags, meant[a].seg, f) + addrs[a].ofs
  BY <1>1, <1>2, PlaceIs
<1> QED
  BY <1>1, <1>3, <1>4

\* As long as no segment is longer than its addresses can tell apart, every
\* address of pass 1 - of labels, procedures, CFI records and references -
\* and every address pass 2 takes behind a jump resolves to the byte that the
\* items in front of it take up in the layout that is written.
THEOREM AddressesResolveHolds == Spec => [](SegmentsFit => AddressesResolve)
<1>1. AsmInv => (SegmentsFit => AddressesResolve)
  <2> SUFFICES ASSUME AsmInv, SegmentsFit, Later({"lengths", "cfi", "references", "results"}), retagged = {},
                      NEW a \in AddrIds
               PROVE  resolved[a] = [seg |-> meant[a].seg, ofs |-> ByteAt(meant[a])]
    BY DEF AddressesResolve
  <2>1. phase \in Resolving /\ addrs[a].frag \notin retagged
    BY DEF Later, Resolving
  <2> QED
    BY <2>1, MeantIs
<1> QED
  BY AsmInvHolds, <1>1, PTL

------------------------------------------------------------------------------
(* The tables pass 1 fills: references, symbols, procedures.                *)

RefKinds == {"REL8", "REL32", "REL64", "FN_LEN"}
Wide(ref) == IF ref.type = "REL8" THEN 1 ELSE IF ref.type = "REL32" THEN 4 ELSE 8
Patched(ref) == ref.type # "FN_LEN"
Home(name) == IF name = ".text" THEN "CSEG" ELSE "DSEG"

\* The references R have addresses in A.
RefsPoint(R, A) == \A r \in DOMAIN R : R[r].addr \in DOMAIN A /\ R[r].type \in RefKinds

\* The bytes each of them patches are behind those of the ones before it in
\* the same fragment.
Behind(ref, old, A) == A[old.addr].frag = A[ref.addr].frag => A[old.addr].ofs + Wide(ref) <= A[ref.addr].ofs
Stacked(R, A) ==
  \A q \in DOMAIN R : Patched(R[q]) =>
    /\ Wide(R[q]) <= A[R[q].addr].ofs
    /\ \A r \in DOMAIN R : r < q /\ Patched(R[r]) => Behind(R[q], R[r], A)

\* The values of the names S have addresses in A, the names of sections some
\* in their own segments.
SymsPoint(S, A, M) ==
  \A n \in Names : S[n].type = "OFFSET" =>
    S[n].addr \in DOMAIN A /\ (n \in SectionNames => M[S[n].addr].seg = Home(n))

Tables(R, S, A, M) == RefsPoint(R, A) /\ Stacked(R, A) /\ SymsPoint(S, A, M)

\* More addresses.
Longer(A, M, B, N) == \A a \in DOMAIN A : a \in DOMAIN B /\ B[a] = A[a] /\ N[a] = M[a]

LEMMA TablesStay ==
  ASSUME NEW R, NEW S, NEW A, NEW M, NEW B, NEW N, Longer(A, M, B, N), Tables(R, S, A, M)
  PROVE  Tables(R, S, B, N)
<1>1. RefsPoint(R, B)
  BY DEF Tables, RefsPoint, Longer
<1>2. \A r \in DOMAIN R : B[R[r].addr] = A[R[r].addr]
  BY DEF Tables, RefsPoint, Longer
<1>3. Stacked(R, B)
  BY <1>2 DEF Tables, Stacked, Behind
<1>4. SymsPoint(S, B, N)
  BY DEF Tables, SymsPoint, Longer
<1> QED
  BY <1>1, <1>3, <1>4 DEF Tables

\* n references more, in n different fragments, behind those that are there.
More(R, n, x, Q) ==
  /\ DOMAIN R = 1 .. Len(R) /\ Len(R) \in Nat
  /\ \A q \in DOMAIN Q : \/ q \in DOMAIN R /\ Q[q] = R[q]
                         \/ \E k \in 1 .. n : q = Len(R) + k /\ Q[q] = x[k]
OnTop(R, A, n, x) ==
  \A k \in 1 .. n :
    /\ x[k].addr \in DOMAIN A /\ x[k].type \in RefKinds
    /\ Patched(x[k]) =>
         /\ Wide(x[k]) <= A[x[k].addr].ofs
         /\ \A r \in DOMAIN R : Patched(R[r]) => Behind(x[k], R[r], A)
    /\ \A j \in 1 .. n : j < k => A[x[j].addr].frag # A[x[k].addr].frag

LEMMA RefsGrow ==
  ASSUME NEW R, NEW A, RefsPoint(R, A), Stacked(R, A), NEW n \in Nat, NEW x, NEW Q,
         More(R, n, x, Q), OnTop(R, A, n, x)
  PROVE  RefsPoint(Q, A) /\ Stacked(Q, A)
<1>0. /\ DOMAIN R = 1 .. Len(R) /\ Len(R) \in Nat
      /\ \A q \in DOMAIN Q : \/ q \in DOMAIN R /\ Q[q] = R[q]
                             \/ \E k \in 1 .. n : q = Len(R) + k /\ Q[q] = x[k]
  BY DEF More
<1>a. \A k \in 1 .. n :
        /\ x[k].addr \in DOMAIN A /\ x[k].type \in RefKinds
        /\ Patched(x[k]) =>
             /\ Wide(x[k]) <= A[x[k].addr].ofs
             /\ \A r \in DOMAIN R : Patched(R[r]) => Behind(x[k], R[r], A)
        /\ \A j \in 1 .. n : j < k => A[x[j].addr].frag # A[x[k].addr].frag
  BY DEF OnTop
<1>1. RefsPoint(Q, A)
  <2> SUFFICES ASSUME NEW q \in DOMAIN Q PROVE Q[q].addr \in DOMAIN A /\ Q[q].type \in RefKinds
    BY DEF RefsPoint
  <2> QED
    BY <1>0, <1>a DEF RefsPoint
<1>2. ASSUME NEW q \in DOMAIN Q, Patched(Q[q])
      PROVE  /\ Wide(Q[q]) <= A[Q[q].addr].ofs
             /\ \A r \in DOMAIN Q : r < q /\ Patched(Q[r]) => Behind(Q[q], Q[r], A)
  <2>1. CASE q \in DOMAIN R /\ Q[q] = R[q]
    <3>1. ASSUME NEW r \in DOMAIN Q, r < q PROVE r \in DOMAIN R /\ Q[r] = R[r]
      <4>1. CASE \E k \in 1 .. n : r = Len(R) + k
        BY <1>0, <2>1, <3>1, <4>1
      <4> QED
        BY <1>0, <4>1
    <3> QED
      BY <1>2, <2>1, <3>1 DEF Stacked
  <2>2. ASSUME NEW k \in 1 .. n, q = Len(R) + k, Q[q] = x[k]
        PROVE  /\ Wide(Q[q]) <= A[Q[q].addr].ofs
               /\ \A r \in DOMAIN Q : r < q /\ Patched(Q[r]) => Behind(Q[q], Q[r], A)
    <3>1. Wide(Q[q]) <= A[Q[q].addr].ofs
      BY <1>2, <1>a, <2>2
    <3>2. ASSUME NEW r \in DOMAIN Q, r < q, Patched(Q[r]) PROVE Behind(Q[q], Q[r], A)
      <4>1. CASE r \in DOMAIN R /\ Q[r] = R[r]
        BY <1>2, <1>a, <2>2, <3>2, <4>1
      <4>2. ASSUME NEW j \in 1 .. n, r = Len(R) + j, Q[r] = x[j] PROVE Behind(Q[q], Q[r], A)
        <5>1. j < k
          BY <1>0, <2>2, <3>2, <4>2
        <5>2. A[x[j].addr].frag # A[x[k].addr].frag
          BY <1>a, <5>1
        <5> QED
          BY <2>2, <4>2, <5>2 DEF Behind
      <4> QED
        BY <1>0, <4>1, <4>2
    <3> QED
      BY <3>1, <3>2
  <2> QED
    BY <1>0, <2>1, <2>2
<1>3. Stacked(Q, A)
  BY <1>2 DEF Stacked
<1> QED
  BY <1>1, <1>3

LEMMA OneRefMore ==
  ASSUME NEW R \in Seq(RefType), NEW A, RefsPoint(R, A), Stacked(R, A), NEW ref \in RefType,
         ref.addr \in DOMAIN A, ref.type \in RefKinds,
         Patched(ref) => /\ Wide(ref) <= A[ref.addr].ofs
                         /\ \A r \in DOMAIN R : Patched(R[r]) => Behind(ref, R[r], A)
  PROVE  RefsPoint(Append(R, ref), A) /\ Stacked(Append(R, ref), A)
<1> DEFINE x == [k \in {1} |-> ref]
           Q == Append(R, ref)
           T == RefType
           n == 1
<1>1. R \in Seq(T)
  OBVIOUS
<1> HIDE DEF T
<1>2. DOMAIN R = 1 .. Len(R) /\ Len(R) \in Nat
  BY <1>1
<1>3. \A q \in DOMAIN Q : (q \in DOMAIN R /\ Q[q] = R[q]) \/ (q = Len(R) + 1 /\ Q[q] = ref)
  BY <1>1
<1>4. 1 .. n = {1} /\ n \in Nat /\ x[1] = ref
  OBVIOUS
<1>10. n \in Nat
  OBVIOUS
<1> HIDE DEF x, Q, n
<1>5. \A q \in DOMAIN Q : \/ q \in DOMAIN R /\ Q[q] = R[q]
                          \/ \E k \in 1 .. n : q = Len(R) + k /\ Q[q] = x[k]
  BY <1>3, <1>4
<1>6. \A k \in 1 .. n : k = 1 /\ x[k] = ref
  BY <1>4
<1>7. \A k \in 1 .. n : \A j \in 1 .. n : ~(j < k)
  BY <1>4
<1>8. \A k \in 1 .. n :
        /\ x[k].addr \in DOMAIN A /\ x[k].type \in RefKinds
        /\ Patched(x[k]) =>
             /\ Wide(x[k]) <= A[x[k].addr].ofs
             /\ \A r \in DOMAIN R : Patched(R[r]) => Behind(x[k], R[r], A)
        /\ \A j \in 1 .. n : j < k => A[x[j].addr].frag # A[x[k].addr].frag
  BY <1>6, <1>7
<1>11. More(R, n, x, Q) /\ OnTop(R, A, n, x)
  BY <1>2, <1>5, <1>8 DEF More, OnTop
<1>9. RefsPoint(Q, A) /\ Stacked(Q, A)
  BY <1>10, <1>11, RefsGrow
<1> QED
  BY <1>9 DEF Q

LEMMA AddrMore ==
  ASSUME Inv1, NEW f, NEW o, NEW s, NEW pos, TakeAddr(f, o, s, pos)
  PROVE  /\ Longer(addrs, meant, addrs', meant') /\ NewAddr \in DOMAIN addrs' /\ NewAddr \in Nat
         /\ addrs'[NewAddr] = Addr(f, o) /\ meant'[NewAddr].seg = s
<1> DEFINE T == [frag : Nat, ofs : Nat]
           M == [seg : Segments, pos : Nat]
           x == Addr(f, o)
           y == [seg |-> s, pos |-> pos]
<1>1. addrs \in Seq(T) /\ meant \in Seq(M) /\ Len(meant) = Len(addrs)
  BY DEF Inv1, TypeOK, AddrsTypeOK
<1>2. addrs' = Append(addrs, x) /\ meant' = Append(meant, y) /\ y.seg = s
  BY DEF TakeAddr
<1> HIDE DEF T, M, x, y
<1>3. /\ Len(addrs) + 1 \in DOMAIN addrs' /\ addrs'[Len(addrs) + 1] = x /\ Len(addrs) + 1 \in Nat
      /\ \A a \in DOMAIN addrs : a \in DOMAIN addrs' /\ addrs'[a] = addrs[a]
  BY <1>1, <1>2
<1>4. /\ meant'[Len(meant) + 1] = y
      /\ \A a \in DOMAIN meant : meant'[a] = meant[a]
  BY <1>1, <1>2
<1>5. DOMAIN meant = DOMAIN addrs
  BY <1>1
<1> QED
  BY <1>1, <1>2, <1>3, <1>4, <1>5 DEF Longer, NewAddr, x

LEMMA ValueSet ==
  ASSUME NEW R, NEW A, NEW M, Tables(R, syms, A, M), NEW l \in Names, NEW v, syms' = [syms EXCEPT ![l] = v],
         DOMAIN syms = Names,
         v.type = "OFFSET" => v.addr \in DOMAIN A /\ (l \in SectionNames => M[v.addr].seg = Home(l))
  PROVE  Tables(R, syms', A, M)
<1>1. \A n \in Names : syms'[n] = IF n = l THEN v ELSE syms[n]
  OBVIOUS
<1>2. SymsPoint(syms', A, M)
  BY <1>1 DEF Tables, SymsPoint
<1> QED
  BY <1>2 DEF Tables

\* What is new in a fragment is behind the references there are.
LEMMA NewOnTop ==
  ASSUME Inv1, CanEnsure, NEW s \in Segments, NEW k \in Nat, NEW ref, Wide(ref) <= k, Wide(ref) \in Nat,
         addrs'[ref.addr] = Addr(EnsuredId(s), EnsuredLen(s) + k),
         Longer(addrs, meant, addrs', meant'), RefsPoint(reftbl, addrs)
  PROVE  /\ Wide(ref) <= addrs'[ref.addr].ofs
         /\ \A r \in DOMAIN reftbl : Behind(ref, reftbl[r], addrs')
<1>1. FragsTypeOK /\ AddrsTypeOK
  BY DEF Inv1, TypeOK
<1>2. EnsuredLen(s) \in Nat
  BY <1>1, EnsuredType
<1>3. addrs'[ref.addr].frag = EnsuredId(s) /\ addrs'[ref.addr].ofs = EnsuredLen(s) + k
  BY DEF Addr
<1>4. ASSUME NEW r \in DOMAIN reftbl, addrs'[reftbl[r].addr].frag = EnsuredId(s)
      PROVE  addrs'[reftbl[r].addr].ofs + Wide(ref) <= EnsuredLen(s) + k
  <2> DEFINE a == reftbl[r].addr
  <2>1. a \in AddrIds /\ addrs'[a] = addrs[a]
    BY DEF RefsPoint, Longer, AddrIds
  <2>2. addrs[a].ofs \in Nat /\ addrs[a].frag \in DOMAIN frags.pieces
        /\ addrs[a].ofs <= frags.pieces[addrs[a].frag].objLen
    BY <1>1, <2>1, AddrIs DEF Inv1, AddrsInside
  <2>3. DOMAIN frags.pieces = 1 .. Len(frags.pieces) /\ Len(frags.pieces) \in Nat
    BY <1>1 DEF FragsTypeOK, FragsOK
  <2>4. addrs[a].frag = EnsuredId(s)
    BY <1>4, <2>1
  <2> HIDE DEF a
  <2>5. EnsuredId(s) # Len(frags.pieces) + 1
    BY <2>2, <2>3, <2>4
  <2>6. EnsuredLen(s) = frags.pieces[EnsuredId(s)].objLen
    BY <1>1, <2>5, EnsuredLast
  <2>7. addrs[a].ofs <= EnsuredLen(s)
    BY <2>2, <2>4, <2>6
  <2>8. addrs[a].ofs + Wide(ref) <= EnsuredLen(s) + k
    BY <1>2, <2>2, <2>7
  <2> QED
    BY <2>1, <2>8 DEF a
<1>5. Wide(ref) <= EnsuredLen(s) + k
  BY <1>2
<1> QED
  BY <1>3, <1>4, <1>5 DEF Behind

LEMMA RefTables ==
  ASSUME Inv1, CanEnsure, NEW s \in Segments, NEW k \in Nat, NEW pos, NEW l \in Labels,
         NEW t \in RefKinds \ {"REL8"},
         Tables(reftbl, syms, addrs, meant),
         TakeAddr(EnsuredId(s), EnsuredLen(s) + k, s, pos),
         t = "REL32" => k >= 4, t = "REL64" => k >= 8,
         reftbl' = Append(reftbl, [type |-> t, addr |-> NewAddr, to |-> l]), UNCHANGED syms
  PROVE  Tables(reftbl', syms', addrs', meant')
<1> DEFINE ref == [type |-> t, addr |-> NewAddr, to |-> l]
<1>1. /\ Longer(addrs, meant, addrs', meant') /\ NewAddr \in DOMAIN addrs' /\ NewAddr \in Nat
      /\ addrs'[NewAddr] = Addr(EnsuredId(s), EnsuredLen(s) + k)
  BY AddrMore
<1>2. Tables(reftbl, syms, addrs', meant')
  BY <1>1, TablesStay
<1>3. reftbl \in Seq(RefType) /\ ref \in RefType
  BY <1>1 DEF Inv1, TypeOK, OtherTypeOK, RefType, RefKinds, RelTypes
<1>4. ref.addr = NewAddr /\ ref.type = t
  OBVIOUS
<1> HIDE DEF ref
<1>5. Patched(ref) => Wide(ref) <= k /\ Wide(ref) \in Nat
  BY <1>4 DEF Patched, Wide, RefKinds
<1>6. Patched(ref) => /\ Wide(ref) <= addrs'[ref.addr].ofs
                      /\ \A r \in DOMAIN reftbl : Behind(ref, reftbl[r], addrs')
  BY <1>1, <1>4, <1>5, NewOnTop DEF Tables
<1>7. RefsPoint(Append(reftbl, ref), addrs') /\ Stacked(Append(reftbl, ref), addrs')
  BY <1>1, <1>2, <1>3, <1>4, <1>6, OneRefMore DEF Tables
<1> QED
  BY <1>2, <1>7 DEF Tables, ref

LEMMA TablesStatement ==
  ASSUME Inv1, Labels \cap SectionNames = {}, Tables(reftbl, syms, addrs, meant), Statement
  PROVE  Tables(reftbl', syms', addrs', meant')
<1>1. seg_id \in Segments /\ DOMAIN syms = Names /\ \A l \in Labels : l \in Names /\ l \notin SectionNames
  BY DEF Inv1, TypeOK, OtherTypeOK, Names
<1>2. CASE UNCHANGED <<addrs, meant, reftbl, syms>>
  BY <1>2
<1>3. ASSUME NEW f, NEW o, NEW s, NEW pos, TakeAddr(f, o, s, pos), UNCHANGED <<reftbl, syms>>
      PROVE  Tables(reftbl', syms', addrs', meant')
  BY <1>3, AddrMore, TablesStay
<1>4. ASSUME NEW n \in Names, syms' = [syms EXCEPT ![n] = Num], UNCHANGED <<addrs, meant, reftbl>>
      PROVE  Tables(reftbl', syms', addrs', meant')
  <2>1. Num.type # "OFFSET"
    BY DEF Num
  <2>2. Tables(reftbl, syms', addrs, meant)
    BY <1>1, <1>4, <2>1, ValueSet
  <2> QED
    BY <1>4, <2>2
<1>5. ASSUME NEW n \in Names, NEW f, NEW o, NEW s, NEW pos, TakeAddr(f, o, s, pos), UNCHANGED reftbl,
             syms' = [syms EXCEPT ![n] = Offset(NewAddr)], n \in SectionNames => s = Home(n)
      PROVE  Tables(reftbl', syms', addrs', meant')
  <2>1. /\ Longer(addrs, meant, addrs', meant') /\ NewAddr \in DOMAIN addrs' /\ meant'[NewAddr].seg = s
    BY <1>5, AddrMore
  <2>2. Tables(reftbl, syms, addrs', meant')
    BY <2>1, TablesStay
  <2>3. Offset(NewAddr).addr = NewAddr
    BY DEF Offset
  <2>4. Tables(reftbl, syms', addrs', meant')
    BY <1>1, <1>5, <2>1, <2>2, <2>3, ValueSet
  <2> QED
    BY <1>5, <2>4
<1>6. CASE \E l \in Labels : Jcc(l) \/ Jmp(l) \/ Call(l)
  BY <1>2, <1>6 DEF Jcc, Jmp, Call, Jump
<1>7. CASE \E n \in CodeLens : Code(n)
  BY <1>2, <1>7 DEF Code
<1>8. ASSUME NEW l \in Labels, Lea(l) PROVE Tables(reftbl', syms', addrs', meant')
  <2>1. LeaLen = 7 /\ "REL32" \in RefKinds \ {"REL8"} /\ CanEnsure
    BY <1>8 DEF LeaLen, RefKinds, Lea, Appending
  <2> QED
    BY <1>1, <1>8, <2>1, RefTables DEF Lea, OfsAfterPush
<1>9. ASSUME NEW l \in Labels, Quad(l) PROVE Tables(reftbl', syms', addrs', meant')
  <2>1. QuadLen = 8 /\ "REL64" \in RefKinds \ {"REL8"} /\ CanEnsure
    BY <1>9 DEF QuadLen, RefKinds, Quad, Appending
  <2>2. CASE UNCHANGED <<addrs, meant, reftbl>>
    BY <1>2, <1>9, <2>2 DEF Quad
  <2>3. CASE ~UNCHANGED <<addrs, meant, reftbl>>
    BY <1>1, <1>9, <2>1, <2>3, RefTables DEF Quad, OfsAfterPush
  <2> QED
    BY <2>2, <2>3
<1>10. ASSUME NEW l \in Labels, Size(l) PROVE Tables(reftbl', syms', addrs', meant')
  <2>1. "FN_LEN" \in RefKinds \ {"REL8"} /\ CanEnsure /\ 0 \in Nat
    BY <1>10 DEF RefKinds, Size, Appending
  <2>2. EnsuredLen(seg_id) = EnsuredLen(seg_id) + 0
    <3>1. EnsuredLen(seg_id) \in Nat
      BY <1>1, EnsuredType DEF Inv1, TypeOK
    <3> QED
      BY <3>1
  <2>3. TakeAddr(EnsuredId(seg_id), EnsuredLen(seg_id) + 0, seg_id, emitted[seg_id])
    BY <1>10, <2>2 DEF Size, TakeAddrHere
  <2>4. reftbl' = Append(reftbl, [type |-> "FN_LEN", addr |-> NewAddr, to |-> l]) /\ syms' = syms
    BY <1>10 DEF Size
  <2> QED
    BY <1>1, <2>1, <2>3, <2>4, RefTables
<1>11. ASSUME NEW l \in Labels, Label(l) PROVE Tables(reftbl', syms', addrs', meant')
  BY <1>1, <1>5, <1>11 DEF Label, TakeAddrHere, SetValue
<1>12. ASSUME NEW l \in Labels, LabelInStruct(l) \/ Equ(l) \/ Declare(l)
       PROVE  Tables(reftbl', syms', addrs', meant')
  <2>1. UNCHANGED <<addrs, meant, reftbl>>
    BY <1>12 DEF LabelInStruct, Equ, Declare, histVars
  <2>2. syms' = [syms EXCEPT ![l] = Num] \/ syms' = syms
    BY <1>12 DEF LabelInStruct, Equ, Declare, SetValue
  <2> QED
    BY <1>1, <1>2, <1>4, <2>1, <2>2
<1>13. ASSUME NEW m, NEW n \in SectionNames, OpenSection(m, n, Home(n)) PROVE Tables(reftbl', syms', addrs', meant')
  BY <1>2, <1>5, <1>13 DEF OpenSection, SetValue, Names
<1>14. CASE Text \/ Rodata
  <2>1. /\ ".text" \in SectionNames /\ ".rodata" \in SectionNames
        /\ Home(".text") = "CSEG" /\ Home(".rodata") = "DSEG"
    BY DEF SectionNames, Home
  <2> QED
    BY <1>13, <1>14, <2>1 DEF Text, Rodata
<1>15. CASE Struct \/ FailBegin \/ FailTooLarge \/ FailSize
  BY <1>2, <1>15 DEF Struct, FailBegin, FailTooLarge, FailSize, Fail, pass1Vars, histVars
<1>16. CASE StartProc \/ EndProc \/ Cfi
  BY <1>3, <1>16 DEF StartProc, EndProc, Cfi, TakeAddrHere
<1> QED
  BY <1>6, <1>7, <1>8, <1>9, <1>10, <1>11, <1>12, <1>14, <1>15, <1>16 DEF Statement

------------------------------------------------------------------------------
(* What pass 2 has worked out so far.                                       *)

SizeOf(l) == LET rs == { r \in SizeRefs : reftbl[r].to = l }
             IN IF rs = {} THEN 0 ELSE resolved[reftbl[Max(rs)].addr].ofs - At(l).ofs
LengthsDone ==
  /\ BadSizes = {} /\ BadProcs = {}
  /\ sizes = [l \in Labels |-> SizeOf(l)]
  /\ procLens = [p \in DOMAIN procs |-> resolved[procs[p].end].ofs - resolved[procs[p].start].ofs]
Record(p) == LET start == resolved[procs[p].start]
             IN [sym |-> SymIdFrom(start.seg), ofs |-> start.ofs, len |-> procLens[p],
                 advances |-> [i \in DOMAIN procs[p].cfi |-> Advance(p, i)]]
CfiDone ==
  /\ ~NoSection /\ ~CfiStrays
  /\ fdes = [p \in DOMAIN procs |-> Record(p)]
RefsDone ==
  /\ written = [r \in PatchRefs |-> Write(r)]
  /\ \A r \in PatchRefs : ~BadRef(r)

Outcome ==
  /\ phase \in {"cfi", "references", "results", "done"} => LengthsDone
  /\ phase \in {"references", "results", "done"} => CfiDone
  /\ phase \in {"results", "done"} => RefsDone

inputs == <<reftbl, syms, procs, resolved, codesLen>>

LEMMA SameAnswers ==
  ASSUME UNCHANGED inputs
  PROVE  /\ SizeRefs' = SizeRefs /\ BadSizes' = BadSizes /\ BadProcs' = BadProcs /\ PatchRefs' = PatchRefs
         /\ \A l : At(l)' = At(l)
         /\ \A s : SymIdFrom(s)' = SymIdFrom(s)
         /\ NoSection' <=> NoSection
         /\ CfiStrays' <=> CfiStrays
         /\ \A p, i : Advance(p, i)' = Advance(p, i)
         /\ \A r : Write(r)' = Write(r) /\ (BadRef(r)' <=> BadRef(r))
<1>1. UNCHANGED <<reftbl, syms, procs, resolved, codesLen>>
  BY DEF inputs
<1>2. SizeRefs' = SizeRefs /\ \A l : At(l)' = At(l) /\ (HasValue(l)' <=> HasValue(l))
  BY <1>1 DEF SizeRefs, At, HasValue
<1>3. BadSizes' = BadSizes /\ PatchRefs' = PatchRefs
  BY <1>1, <1>2 DEF BadSizes, PatchRefs
<1>4. BadProcs' = BadProcs
  BY <1>1 DEF BadProcs, Ended, Spans
<1>5. \A s : SectionSyms(s)' = SectionSyms(s)
  BY <1>2 DEF SectionSyms
<1>6. \A s : SymIdFrom(s)' = SymIdFrom(s)
  BY <1>5, Zenon DEF SymIdFrom
<1>7. NoSection' <=> NoSection
  BY <1>5 DEF NoSection
<1>8. CfiStrays' <=> CfiStrays
  BY <1>1 DEF CfiStrays
<1>9. \A p, i : Advance(p, i)' = Advance(p, i)
  BY <1>1 DEF Advance, CfiOfs
<1>10. \A r : BadRef(r)' <=> BadRef(r)
  BY <1>1, <1>2 DEF BadRef, To, From
<1>11. \A r : Width(r)' = Width(r) /\ Addend(r)' = Addend(r)
  BY <1>1, <1>2 DEF Width, Addend, To
<1>12. \A r : Write(r)' = Write(r)
  BY <1>1, <1>2, <1>6, <1>11 DEF Write, To, From
<1> QED
  BY <1>2, <1>3, <1>4, <1>6, <1>7, <1>8, <1>9, <1>10, <1>12

------------------------------------------------------------------------------
(* The tables in pass 2: the jumps of a segment join the references.        *)

FreshJump(p) == HasJmp(p) => p.jmp8 >= 1 /\ p.jmp32 >= 4 /\ p.to \in Labels
JumpsMade(F) == \A id \in DOMAIN F.pieces : FreshJump(F.pieces[id])

SymType == [type : {"NUM", "OFFSET", "ABSENT"}, addr : Nat]

\* The part of ProcsOrdered that is about one procedure.
ProcsRun ==
  \A p \in DOMAIN procs :
    /\ procs[p].end # 0 => Before(procs[p].start, procs[p].end)
    /\ \A i \in DOMAIN procs[p].cfi :
         /\ Before(procs[p].start, procs[p].cfi[i])
         /\ i > 1 => Before(procs[p].cfi[i-1], procs[p].cfi[i])

PassTables ==
  /\ Tables(reftbl, syms, addrs, meant)
  /\ reftbl \in Seq(RefType) /\ syms \in [Names -> SymType]
  /\ ProcsTypeOK /\ ProcsHaveAddrs /\ ProcsRun
  /\ JumpsMade(frags)

LEMMA SourceTables ==
  ASSUME SourceInv, Tables(reftbl, syms, addrs, meant)
  PROVE  PassTables
<1>1. JumpsMade(frags)
  BY DEF SourceInv, Untouched, Fresh, JumpsMade, FreshJump
<1>2. reftbl \in Seq(RefType) /\ syms \in [Names -> SymType] /\ ProcsTypeOK
  BY DEF SourceInv, Inv1, TypeOK, OtherTypeOK, RefType, SymType
<1>3. ProcsHaveAddrs /\ ProcsRun
  BY DEF SourceInv, InvProcs, ProcsOrdered, ProcsRun
<1> QED
  BY <1>1, <1>2, <1>3 DEF PassTables

LEMMA AlikeJumps ==
  ASSUME NEW F, NEW G, Alike(F, G), JumpsMade(F)
  PROVE  JumpsMade(G)
BY DEF Alike, JumpsMade, FreshJump, HasJmp

\* A step that adds nothing to them.
LEMMA QuietTables ==
  ASSUME PassTables, UNCHANGED <<reftbl, syms, addrs, meant, procs, proc_id>>, Alike(frags, frags')
  PROVE  PassTables'
<1>1. JumpsMade(frags')
  BY AlikeJumps DEF PassTables
<1>2. ProcsTypeOK' /\ ProcsHaveAddrs' /\ ProcsRun'
  BY DEF PassTables, ProcsTypeOK, ProcsHaveAddrs, ProcsRun, Before, AddrIds
<1> QED
  BY <1>1, <1>2 DEF PassTables

\* The reference of the jump that ends fragment f.
LEMMA JumpRefFits ==
  ASSUME NEW p \in Fragment, FreshJump(p), HasJmp(p), NEW t,
         t = IF p.ofsType = "REL8" THEN "REL8" ELSE "REL32", NEW ref, ref.type = t
  PROVE  /\ p.to \in Labels /\ t \in RefKinds /\ t \in RelTypes /\ Patched(ref) /\ Wide(ref) \in Nat
         /\ p.objLen \in Nat /\ EndOfJump(p) \in Nat /\ p.objLen + Wide(ref) <= EndOfJump(p)
<1>1. p.jmp8 >= 1 /\ p.jmp32 >= 4 /\ p.to \in Labels /\ p.jmp8 \in Nat /\ p.jmp32 \in Nat /\ p.objLen \in Nat
  BY FinalLenNat DEF FreshJump, Fragment, JmpLens
<1>2. CASE p.ofsType = "REL8"
  BY <1>1, <1>2 DEF EndOfJump, JmpLen, Wide, Patched, RefKinds, RelTypes
<1>3. CASE p.ofsType # "REL8"
  BY <1>1, <1>3 DEF EndOfJump, JmpLen, Wide, Patched, RefKinds, RelTypes
<1> QED
  BY <1>2, <1>3

LEMMA CloseTables ==
  ASSUME LayoutInv, PassTables, CloseSegment
  PROVE  PassTables'
<1> DEFINE ref(k) == [type |-> IF Frag(Jumps[k]).ofsType = "REL8" THEN "REL8" ELSE "REL32",
                      addr |-> Len(addrs) + k, to |-> Frag(Jumps[k]).to]
           x == [k \in DOMAIN Jumps |-> ref(k)]
           T == RefType
<1>1. /\ phase = "optimize" /\ frags' = Placed /\ Len(addrs) \in Nat
      /\ Longer(addrs, meant, addrs', meant')
      /\ \A k \in DOMAIN Jumps : Len(addrs) + k \in DOMAIN addrs' /\ Len(addrs) + k \notin AddrIds
  BY CloseIs DEF Longer, AddrIds
<1>2. reftbl' = reftbl \o x /\ UNCHANGED <<syms, procs, proc_id>>
  BY DEF CloseSegment
<1>3. PICK n \in Nat : DOMAIN Jumps = 1 .. n /\ \A k \in 1 .. n : /\ Jumps[k] \in 1 .. Cnt /\ IsJmp(Jumps[k])
                                                                  /\ \A j \in 1 .. n : Jumps[j] = Jumps[k] => j = k
  BY <1>1, JumpsIs
<1>4. ASSUME NEW k \in 1 .. n
      PROVE  LET f == shrink[Jumps[k]].frag IN
             /\ f \in DOMAIN frags.pieces /\ frags.pieces[f].seg = seg /\ Frag(Jumps[k]) = frags.pieces[f]
             /\ HasJmp(frags.pieces[f]) /\ FreshJump(frags.pieces[f]) /\ frags.pieces[f] \in Fragment
             /\ addrs'[Len(addrs) + k] = Addr(f, EndOfJump(frags.pieces[f]))
  <2> DEFINE i == Jumps[k]
             f == shrink[i].frag
  <2>1. i \in 1 .. Cnt /\ IsJmp(i)
    BY <1>3
  <2>2. f \in DOMAIN frags.pieces /\ frags.pieces[f].seg = seg
    BY <1>1, <2>1, GatheredIs DEF IdsOf
  <2>3. Frag(i) = frags.pieces[f] /\ HasJmp(frags.pieces[f])
    BY <2>1 DEF Frag, IsJmp
  <2>4. FreshJump(frags.pieces[f]) /\ frags.pieces[f] \in Fragment
    BY <2>2 DEF PassTables, JumpsMade, LayoutInv
  <2>5. Len(addrs) + k \in DOMAIN addrs' /\ Len(addrs) + k \notin AddrIds
    BY <1>1, <1>3
  <2>6. PICK j \in DOMAIN Jumps :
          /\ Len(addrs) + k = Len(addrs) + j
          /\ addrs'[Len(addrs) + k] = Addr(shrink[Jumps[j]].frag, EndOfJump(frags.pieces[shrink[Jumps[j]].frag]))
    BY <2>5, CloseIs
  <2>7. j = k
    BY <1>1, <1>3, <2>6
  <2> QED
    BY <2>2, <2>3, <2>4, <2>6, <2>7
<1>5. ASSUME NEW k \in 1 .. n
      PROVE  /\ ref(k) \in RefType /\ ref(k).addr = Len(addrs) + k /\ ref(k).type \in RefKinds /\ Patched(ref(k))
             /\ Wide(ref(k)) <= addrs'[ref(k).addr].ofs
             /\ \A r \in DOMAIN reftbl : Behind(ref(k), reftbl[r], addrs')
  <2> DEFINE f == shrink[Jumps[k]].frag
             p == frags.pieces[f]
             y == ref(k)
             t == IF p.ofsType = "REL8" THEN "REL8" ELSE "REL32"
  <2>1. /\ f \in DOMAIN frags.pieces /\ p.seg = seg /\ Frag(Jumps[k]) = p
        /\ HasJmp(p) /\ FreshJump(p) /\ p \in Fragment
        /\ addrs'[Len(addrs) + k] = Addr(f, EndOfJump(p))
    BY <1>4
  <2>2. y.type = t /\ y.addr = Len(addrs) + k /\ y = [type |-> t, addr |-> Len(addrs) + k, to |-> p.to]
    BY <2>1
  <2> HIDE DEF y, p
  <2>3. /\ p.to \in Labels /\ t \in RefKinds /\ t \in RelTypes /\ Patched(y) /\ Wide(y) \in Nat
        /\ p.objLen \in Nat /\ EndOfJump(p) \in Nat /\ p.objLen + Wide(y) <= EndOfJump(p)
    <3> HIDE DEF t
    <3>1. t = IF p.ofsType = "REL8" THEN "REL8" ELSE "REL32"
      BY DEF t
    <3> QED
      BY <2>1, <2>2, <3>1, JumpRefFits
  <2>4. addrs'[y.addr].frag = f /\ addrs'[y.addr].ofs = EndOfJump(p)
    BY <2>1, <2>2 DEF Addr
  <2> HIDE DEF t
  <2>5. Len(addrs) + k \in Nat
    BY <1>1, <1>3
  <2>6. y \in RefType
    BY <2>2, <2>3, <2>5 DEF RefType
  <2>7. Wide(y) <= addrs'[y.addr].ofs
    BY <2>3, <2>4
  <2>8. ASSUME NEW r \in DOMAIN reftbl, addrs'[reftbl[r].addr].frag = f
        PROVE  addrs'[reftbl[r].addr].ofs + Wide(y) <= EndOfJump(p)
    <3> DEFINE a == reftbl[r].addr
    <3>1. a \in AddrIds /\ addrs'[a] = addrs[a]
      BY <1>1 DEF PassTables, Tables, RefsPoint, Longer, AddrIds
    <3>2. addrs[a].ofs \in Nat
      BY <3>1, AddrIs DEF LayoutInv
    <3>3. ~LaidOut(seg)
      BY <1>1 DEF LayoutInv, Placing, LaidOut, Past, Late
    <3>4. addrs[a].frag = f
      BY <2>8, <3>1
    <3>5. PointsAt(frags, addrs[a], LaidOut(frags.pieces[addrs[a].frag].seg))
      BY <3>1 DEF LayoutInv, Pointing
    <3>6. addrs[a].ofs <= p.objLen
      BY <2>1, <3>3, <3>4, <3>5 DEF PointsAt, p
    <3> HIDE DEF a
    <3>7. addrs[a].ofs + Wide(y) <= EndOfJump(p)
      BY <2>3, <3>2, <3>6
    <3> QED
      BY <3>1, <3>7 DEF a
  <2>9. \A r \in DOMAIN reftbl : Behind(y, reftbl[r], addrs')
    <3> HIDE DEF f
    <3> QED
      BY <2>4, <2>8 DEF Behind
  <2>10. y.type \in RefKinds
    BY <2>2, <2>3
  <2> QED
    BY <2>2, <2>3, <2>6, <2>7, <2>9, <2>10 DEF y
<1>6. ASSUME NEW k \in 1 .. n, NEW j \in 1 .. n, j < k
      PROVE  addrs'[ref(j).addr].frag # addrs'[ref(k).addr].frag
  <2>0. ASSUME NEW i \in 1 .. n PROVE addrs'[Len(addrs) + i].frag = shrink[Jumps[i]].frag
    <3>1. addrs'[Len(addrs) + i] = Addr(shrink[Jumps[i]].frag, EndOfJump(frags.pieces[shrink[Jumps[i]].frag]))
      BY <1>4
    <3> QED
      BY <3>1 DEF Addr
  <2>1. addrs'[Len(addrs) + k].frag = shrink[Jumps[k]].frag /\ addrs'[Len(addrs) + j].frag = shrink[Jumps[j]].frag
    BY <2>0
  <2>2. ref(k).addr = Len(addrs) + k /\ ref(j).addr = Len(addrs) + j
    BY <1>5
  <2>3. Jumps[j] # Jumps[k]
    <3>1. j # k
      BY <1>6
    <3> QED
      BY <1>3, <3>1
  <2>4. Rank(IdsOf(frags, seg), shrink[Jumps[k]].frag) = Jumps[k]
        /\ Rank(IdsOf(frags, seg), shrink[Jumps[j]].frag) = Jumps[j]
    BY <1>1, <1>3, GatheredIs
  <2>5. shrink[Jumps[j]].frag # shrink[Jumps[k]].frag
    BY <2>3, <2>4
  <2> HIDE DEF ref
  <2> QED
    BY <2>1, <2>2, <2>5
<1>7. DOMAIN x = 1 .. n /\ x = [k \in DOMAIN x |-> x[k]] /\ \A k \in 1 .. n : x[k] = ref(k)
  BY <1>3
<1> HIDE DEF x, ref
<1>8. \A k \in 1 .. n : x[k] \in T
  BY <1>5, <1>7
<1>9. reftbl \in Seq(T)
  BY DEF PassTables
<1> HIDE DEF T
<1>10. /\ reftbl \o x \in Seq(T)
       /\ \A a \in DOMAIN (reftbl \o x) : a \in DOMAIN reftbl \/ \E k \in 1 .. n : a = Len(reftbl) + k /\ (reftbl \o x)[a] = x[k]
       /\ \A a \in DOMAIN reftbl : (reftbl \o x)[a] = reftbl[a]
  BY <1>7, <1>8, <1>9, JoinedIs
<1>11. DOMAIN reftbl = 1 .. Len(reftbl) /\ Len(reftbl) \in Nat
  BY <1>9
<1>12. More(reftbl, n, x, reftbl')
  BY <1>2, <1>10, <1>11 DEF More
<1>13. OnTop(reftbl, addrs', n, x)
  <2> SUFFICES ASSUME NEW k \in 1 .. n
               PROVE  /\ x[k].addr \in DOMAIN addrs' /\ x[k].type \in RefKinds
                      /\ Patched(x[k]) =>
                           /\ Wide(x[k]) <= addrs'[x[k].addr].ofs
                           /\ \A r \in DOMAIN reftbl : Patched(reftbl[r]) => Behind(x[k], reftbl[r], addrs')
                      /\ \A j \in 1 .. n : j < k => addrs'[x[j].addr].frag # addrs'[x[k].addr].frag
    BY DEF OnTop
  <2>1. x[k] = ref(k) /\ \A j \in 1 .. n : x[j] = ref(j)
    BY <1>7
  <2>2. Len(addrs) + k \in DOMAIN addrs'
    BY <1>1, <1>3
  <2> QED
    BY <1>5, <1>6, <2>1, <2>2
<1>14. Tables(reftbl, syms, addrs', meant')
  BY <1>1, TablesStay DEF PassTables
<1>15. RefsPoint(reftbl', addrs') /\ Stacked(reftbl', addrs')
  BY <1>12, <1>13, <1>14, RefsGrow DEF Tables
<1>16. Tables(reftbl', syms', addrs', meant')
  BY <1>2, <1>14, <1>15 DEF Tables
<1>17. ProcsTypeOK'
  BY <1>2 DEF PassTables, ProcsTypeOK
<1>18. ProcsHaveAddrs'
  BY <1>1, <1>2 DEF PassTables, ProcsHaveAddrs, Longer, AddrIds
<1>19. ProcsRun'
  <2>1. \A a, b \in AddrIds : Before(a, b) => Before(a, b)'
    BY <1>1 DEF Longer, AddrIds, Before
  <2>2. procs \in Seq(ProcType)
    BY DEF PassTables, ProcsTypeOK, ProcType
  <2>3. ASSUME NEW p \in DOMAIN procs
        PROVE  /\ procs[p].end # 0 => Before(procs[p].start, procs[p].end)'
               /\ \A i \in DOMAIN procs[p].cfi :
                    /\ Before(procs[p].start, procs[p].cfi[i])'
                    /\ i > 1 => Before(procs[p].cfi[i-1], procs[p].cfi[i])'
    <3>1. procs[p].cfi \in Seq(Nat)
      <4>1. procs[p] \in ProcType
        BY <2>2
      <4> QED
        BY <4>1 DEF ProcType
    <3>2. \A i \in DOMAIN procs[p].cfi : i > 1 => i - 1 \in DOMAIN procs[p].cfi
      BY <3>1
    <3>3. /\ procs[p].start \in AddrIds
          /\ procs[p].end # 0 => procs[p].end \in AddrIds
          /\ \A i \in DOMAIN procs[p].cfi : procs[p].cfi[i] \in AddrIds
      BY DEF PassTables, ProcsHaveAddrs
    <3>4. /\ procs[p].end # 0 => Before(procs[p].start, procs[p].end)
          /\ \A i \in DOMAIN procs[p].cfi :
               /\ Before(procs[p].start, procs[p].cfi[i])
               /\ i > 1 => Before(procs[p].cfi[i-1], procs[p].cfi[i])
      BY DEF PassTables, ProcsRun
    <3> QED
      BY <1>2, <2>1, <3>2, <3>3, <3>4
  <2> QED
    BY <1>2, <2>3 DEF ProcsRun
<1>20. JumpsMade(frags')
  BY <1>1, PlacedIs, AlikeJumps DEF PassTables
<1> QED
  BY <1>2, <1>10, <1>16, <1>17, <1>18, <1>19, <1>20 DEF PassTables, T

LEMMA OptimizeAlike ==
  ASSUME LayoutInv, Optimize
  PROVE  Alike(frags, frags')
<1>1. CASE UNCHANGED frags
  BY <1>1 DEF Alike
<1>2. CASE OptimizeStep
  <2>1. CASE ~UNCHANGED frags
    <3>1. phase = "optimize"
      BY <1>2, OptimizeDoes
    <3>2. PICK i \in 1 .. Cnt, t \in {"REL8", "REL32"} : frags' = SetOfsType(frags, shrink[i].frag, t)
      BY <1>2, <2>1, OptimizeDoes
    <3>3. shrink[i].frag \in DOMAIN frags.pieces /\ frags.pieces \in Seq(Fragment)
      BY <3>1, GatheredIs DEF LayoutInv
    <3> QED
      BY <3>2, <3>3, SettleAlike
  <2> QED
    BY <1>1, <2>1
<1>3. CASE Startup
  BY <1>1, <1>3 DEF Startup, Bug
<1> QED
  BY <1>2, <1>3 DEF Optimize

\* What is known of every state: the layout, the tables, the results.
AllInv == AsmInv /\ PassTables /\ Outcome

LEMMA AllInit == Init => AllInv
<1> SUFFICES ASSUME Init PROVE AllInv
  OBVIOUS
<1>1. AsmInv /\ InitPass1 /\ phase = "pass1"
  BY AsmInit DEF Init, InitPass1
<1>2. Tables(reftbl, syms, addrs, meant)
  <2>1. reftbl = <<>> /\ \A n \in Names : syms[n].type # "OFFSET"
    BY <1>1 DEF InitPass1, Absent
  <2> QED
    BY <2>1 DEF Tables, RefsPoint, Stacked, SymsPoint
<1> QED
  BY <1>1, <1>2, SourceTables DEF AllInv, AsmInv, Outcome

LEMMA OutputTables ==
  ASSUME PassTables, Output
  PROVE  PassTables'
<1>1. UNCHANGED <<frags, reftbl, syms, addrs, meant, procs, proc_id>>
  BY OutputIs DEF pass1Vars, histVars
<1>2. Alike(frags, frags')
  BY <1>1 DEF Alike
<1> QED
  BY <1>1, <1>2, QuietTables

LEMMA OutcomeStays ==
  ASSUME UNCHANGED inputs
  PROVE  /\ LengthsDone /\ UNCHANGED <<sizes, procLens>> => LengthsDone'
         /\ CfiDone /\ UNCHANGED <<fdes, procLens>> => CfiDone'
         /\ RefsDone /\ UNCHANGED written => RefsDone'
<1>1. UNCHANGED <<reftbl, syms, procs, resolved, codesLen>>
  BY DEF inputs
<1>2. /\ SizeRefs' = SizeRefs /\ BadSizes' = BadSizes /\ BadProcs' = BadProcs /\ PatchRefs' = PatchRefs
      /\ \A l : At(l)' = At(l)
      /\ \A s : SymIdFrom(s)' = SymIdFrom(s)
      /\ NoSection' <=> NoSection
      /\ CfiStrays' <=> CfiStrays
      /\ \A p, i : Advance(p, i)' = Advance(p, i)
      /\ \A r : Write(r)' = Write(r) /\ (BadRef(r)' <=> BadRef(r))
  BY SameAnswers
<1>3. \A l : SizeOf(l)' = SizeOf(l)
  BY <1>1, <1>2 DEF SizeOf
<1>4. UNCHANGED procLens => \A p : Record(p)' = Record(p)
  BY <1>1, <1>2 DEF Record
<1>5. LengthsDone /\ UNCHANGED <<sizes, procLens>> => LengthsDone'
  BY <1>1, <1>2, <1>3 DEF LengthsDone
<1>6. CfiDone /\ UNCHANGED <<fdes, procLens>> => CfiDone'
  BY <1>1, <1>2, <1>4 DEF CfiDone
<1>7. RefsDone /\ UNCHANGED written => RefsDone'
  BY <1>2 DEF RefsDone
<1> QED
  BY <1>5, <1>6, <1>7

LEMMA OutputOutcome ==
  ASSUME Outcome, Output
  PROVE  Outcome'
<1>1. /\ UNCHANGED <<reftbl, syms, procs, codesLen>>
      /\ phase # "addresses" => UNCHANGED inputs
  BY OutputIs DEF pass1Vars, histVars, inputs
<1>2. CASE ResolveAddrs
  BY <1>2 DEF ResolveAddrs, Running, Stop, Bug, Proceed, Goto, Outcome
<1>3. CASE ResolveFnLen
  <2>1. phase = "lengths" /\ phase' = "cfi" /\ BadSizes = {} /\ BadProcs = {}
    BY <1>3 DEF ResolveFnLen, Running, Proceed, Goto
  <2>2. sizes' = [l \in Labels |-> SizeOf(l)]
        /\ procLens' = [p \in DOMAIN procs |-> resolved[procs[p].end].ofs - resolved[procs[p].start].ofs]
    BY <1>3 DEF ResolveFnLen, SizeOf
  <2>3. UNCHANGED inputs /\ UNCHANGED <<procs, resolved>>
    BY <1>1, <2>1 DEF inputs
  <2>4. BadSizes' = BadSizes /\ BadProcs' = BadProcs /\ \A l : SizeOf(l)' = SizeOf(l)
    BY <2>3, SameAnswers DEF SizeOf, inputs
  <2> QED
    BY <2>1, <2>2, <2>3, <2>4 DEF Outcome, LengthsDone
<1>4. CASE ResolveCfi
  <2>1. phase = "cfi" /\ phase' = "references" /\ ~NoSection /\ ~CfiStrays /\ UNCHANGED <<sizes, procLens>>
    BY <1>4 DEF ResolveCfi, Running, Proceed, Goto
  <2>2. fdes' = [p \in DOMAIN procs |-> Record(p)]
    BY <1>4 DEF ResolveCfi, Record
  <2>3. UNCHANGED inputs /\ UNCHANGED <<procs, resolved>>
    BY <1>1, <2>1 DEF inputs
  <2>4. (NoSection' <=> NoSection) /\ (CfiStrays' <=> CfiStrays)
    BY <2>3, SameAnswers
  <2>5. \A p : Record(p)' = Record(p)
    BY <2>1, <2>3, SameAnswers DEF Record
  <2>6. LengthsDone'
    BY <2>1, <2>3, OutcomeStays DEF Outcome
  <2> QED
    BY <2>1, <2>2, <2>3, <2>4, <2>5, <2>6 DEF Outcome, CfiDone
<1>5. CASE ResolveReftbl
  <2>1. phase = "references" /\ UNCHANGED <<sizes, procLens, fdes>>
    BY <1>5 DEF ResolveReftbl, Running, Stop, Bug, outVars
  <2>2. UNCHANGED inputs
    BY <1>1, <2>1
  <2>3. LengthsDone' /\ CfiDone'
    BY <2>1, <2>2, OutcomeStays DEF Outcome
  <2>4. \/ phase' = phase
        \/ /\ phase' = "results" /\ \A r \in PatchRefs : ~BadRef(r)
           /\ written' = [r \in PatchRefs |-> Write(r)]
    BY <1>5 DEF ResolveReftbl, Stop, Bug, Proceed, Goto
  <2>5. CASE phase' = phase
    BY <2>1, <2>3, <2>5 DEF Outcome
  <2>6. CASE phase' # phase
    <3>1. RefsDone'
      BY <2>2, <2>4, <2>6, SameAnswers DEF RefsDone
    <3> QED
      BY <2>3, <3>1 DEF Outcome
  <2> QED
    BY <2>5, <2>6
<1>6. CASE FnLenFails \/ CfiFails \/ Results
  <2>1. UNCHANGED outVars /\ phase \in {"lengths", "cfi", "results"}
        /\ (phase' = phase \/ (phase = "results" /\ phase' = "done"))
    BY <1>6 DEF FnLenFails, CfiFails, Results, Running, Stop, Bug, Proceed, Goto, outVars
  <2>2. UNCHANGED inputs /\ UNCHANGED <<sizes, procLens, fdes, written>>
    BY <1>1, <2>1 DEF outVars
  <2>3. /\ LengthsDone => LengthsDone'
        /\ CfiDone => CfiDone'
        /\ RefsDone => RefsDone'
    BY <2>2, OutcomeStays
  <2> QED
    BY <2>1, <2>3 DEF Outcome
<1> QED
  BY <1>2, <1>3, <1>4, <1>5, <1>6 DEF Output

LEMMA AllStep == Labels \cap SectionNames = {} => (AllInv /\ [Next]_allOf => AllInv')
<1> SUFFICES ASSUME Labels \cap SectionNames = {}, AllInv, [Next]_allOf PROVE AllInv'
  OBVIOUS
<1>1. AsmInv'
  BY AsmStep DEF AllInv
<1>2. CASE ReadSource
  <2>1. phase = "pass1" /\ Statement /\ phase' = "pass1" /\ UNCHANGED <<relaxVars, outVars>>
    BY <1>2, ReadsFirst DEF ReadSource
  <2>2. SourceInv /\ SourceInv'
    BY <1>1, <2>1 DEF AllInv, AsmInv
  <2>3. Tables(reftbl', syms', addrs', meant')
    BY <2>1, <2>2, TablesStatement DEF AllInv, PassTables, SourceInv
  <2>4. PassTables'
    <3>1. JumpsMade(frags')
      BY <2>2 DEF SourceInv, Untouched, Fresh, JumpsMade, FreshJump
    <3>2. reftbl' \in Seq(RefType) /\ syms' \in [Names -> SymType] /\ ProcsTypeOK'
      BY <2>2 DEF SourceInv, Inv1, TypeOK, OtherTypeOK, RefType, SymType
    <3>3. ProcsHaveAddrs' /\ ProcsRun'
      BY <2>2 DEF SourceInv, InvProcs, ProcsOrdered, ProcsRun
    <3> QED
      BY <2>3, <3>1, <3>2, <3>3 DEF PassTables
  <2> QED
    BY <1>1, <2>1, <2>4 DEF AllInv, Outcome
<1>3. CASE EndOfSource \/ Optimize
  <2>1. UNCHANGED <<reftbl, syms, addrs, meant, procs, proc_id>>
    BY <1>3 DEF EndOfSource, Optimize, pass1Vars, histVars
  <2>2. Alike(frags, frags')
    <3>1. CASE EndOfSource
      BY <3>1 DEF EndOfSource, PushEnd, EndAppending, Alike
    <3>2. CASE Optimize
      <4>1. phase # "pass1"
        BY <3>2, OptimizeDoes DEF Optimize, Startup, Running
      <4> QED
        BY <3>2, <4>1, OptimizeAlike DEF AllInv, AsmInv
    <3> QED
      BY <1>3, <3>1, <3>2
  <2>3. PassTables'
    BY <2>1, <2>2, QuietTables DEF AllInv
  <2>4. phase' \in {"startup", "optimize"}
    BY <1>3, OptimizeDoes DEF EndOfSource, Optimize, Startup, Running, Bug, Goto
  <2> QED
    BY <1>1, <2>3, <2>4 DEF AllInv, Outcome
<1>4. CASE CloseSegment
  <2>1. phase # "pass1" /\ phase' \in {"startup", "addresses"}
    BY <1>4, CloseIs DEF CloseSegment, ToReftbl, LoopDone, Running, AfterSeg, AllInv, AsmInv
  <2>2. PassTables'
    BY <1>4, <2>1, CloseTables DEF AllInv, AsmInv
  <2> QED
    BY <1>1, <2>1, <2>2 DEF AllInv, Outcome
<1>5. CASE Output
  BY <1>1, <1>5, OutputTables, OutputOutcome DEF AllInv
<1>6. CASE UNCHANGED allOf
  <2>1. /\ UNCHANGED <<frags, reftbl, syms, addrs, meant, procs, proc_id, resolved, codesLen, phase>>
        /\ UNCHANGED <<sizes, procLens, fdes, written>>
    BY <1>6 DEF allOf, vars, outVars, pass1Vars, histVars
  <2>2. Alike(frags, frags')
    BY <2>1 DEF Alike
  <2>3. PassTables'
    BY <2>1, <2>2, QuietTables DEF AllInv
  <2>4. UNCHANGED inputs
    BY <2>1 DEF inputs
  <2>5. Outcome'
    BY <2>1, <2>4, OutcomeStays DEF AllInv, Outcome
  <2> QED
    BY <1>1, <2>3, <2>5 DEF AllInv
<1> QED
  BY <1>2, <1>3, <1>4, <1>5, <1>6 DEF Next, Pass2, Output

THEOREM AllInvHolds ==
  ASSUME Labels \cap SectionNames = {}
  PROVE  Spec => []AllInv
<1>1. AllInv /\ [Next]_allOf => AllInv'
  BY AllStep
<1> QED
  BY AllInit, <1>1, PTL DEF Spec

------------------------------------------------------------------------------
(* The references end at their labels.                                      *)

LEMMA ResolvedNat ==
  ASSUME AsmInv, phase \in Resolving, SegmentsFit, NEW a \in AddrIds
  PROVE  /\ resolved[a].ofs \in Nat /\ resolved[a].seg \in {"CSEG", "DSEG"}
         /\ resolved[a].ofs <= codesLen[resolved[a].seg]
<1> DEFINE s == frags.pieces[addrs[a].frag].seg
           n == Start(frags, s, addrs[a].frag)
           o == addrs[a].ofs
<1>1. /\ resolved[a] = [seg |-> s, ofs |-> n + o]
      /\ s \in {"CSEG", "DSEG"} /\ o \in Nat /\ n \in Nat /\ n + o <= codesLen[s]
  BY ResolvedIs
<1> HIDE DEF s, n, o
<1>2. resolved[a].seg = s /\ resolved[a].ofs = n + o /\ n + o \in Nat
  BY <1>1
<1> QED
  BY <1>1, <1>2

LEMMA RefIs ==
  ASSUME AllInv, phase \in {"results", "done"}, NEW r \in PatchRefs
  PROVE  /\ r \in DOMAIN reftbl /\ reftbl[r].type \in {"REL8", "REL32", "REL64"} /\ reftbl[r].to \in Names
         /\ reftbl[r].addr \in AddrIds /\ HasValue(reftbl[r].to) /\ syms[reftbl[r].to].addr \in AddrIds
         /\ Width(r) = Wide(reftbl[r]) /\ Width(r) \in {1, 4, 8} /\ Patched(reftbl[r])
         /\ written[r] = Write(r) /\ ~BadRef(r)
<1>1. PassTables /\ RefsDone
  BY DEF AllInv, Outcome
<1>2. r \in DOMAIN reftbl /\ reftbl[r].type # "FN_LEN"
  BY DEF PatchRefs, SizeRefs
<1>3. reftbl[r].type \in {"REL8", "REL32", "REL64"} /\ reftbl[r].addr \in AddrIds
  BY <1>1, <1>2 DEF PassTables, Tables, RefsPoint, RefKinds, AddrIds
<1>4. reftbl[r].to \in Names
  <2>1. reftbl \in Seq(RefType)
    BY <1>1 DEF PassTables
  <2>2. reftbl[r] \in RefType
    <3> DEFINE T == RefType
    <3>1. reftbl \in Seq(T)
      BY <2>1
    <3> HIDE DEF T
    <3>2. reftbl[r] \in T
      BY <1>2, <3>1
    <3> QED
      BY <3>2 DEF T
  <2> QED
    BY <2>2 DEF RefType, Names
<1>5. written[r] = Write(r) /\ ~BadRef(r)
  BY <1>1 DEF RefsDone
<1>6. HasValue(reftbl[r].to)
  BY <1>5 DEF BadRef
<1>7. syms[reftbl[r].to].addr \in AddrIds
  BY <1>1, <1>4, <1>6 DEF PassTables, Tables, SymsPoint, HasValue, AddrIds
<1>8. Width(r) = Wide(reftbl[r]) /\ Width(r) \in {1, 4, 8}
  BY <1>3 DEF Width, Wide
<1> QED
  BY <1>2, <1>3, <1>4, <1>5, <1>6, <1>7, <1>8 DEF Patched

\* sym_id_from finds the name of the section.
LEMMA SectionSymIs ==
  ASSUME AllInv, phase \in {"references", "results", "done"}, SegmentsFit, retagged = {},
         NEW s \in {"CSEG", "DSEG"}
  PROVE  SymIdFrom(s) = IF s = "CSEG" THEN ".text" ELSE ".rodata"
<1>1. SectionSyms(s) # {}
  BY DEF AllInv, Outcome, CfiDone, NoSection
<1> DEFINE n == SymIdFrom(s)
<1>2. n \in SectionSyms(s)
  BY <1>1 DEF SymIdFrom
<1> HIDE DEF n
<1>3. n \in SectionNames /\ HasValue(n) /\ At(n).seg = s /\ n \in Names
  BY <1>2 DEF SectionSyms, Names
<1>4. syms[n].addr \in AddrIds /\ meant[syms[n].addr].seg = Home(n)
  BY <1>3 DEF AllInv, PassTables, Tables, SymsPoint, HasValue, AddrIds
<1>5. phase \in Resolving /\ addrs[syms[n].addr].frag \notin retagged
  BY DEF Resolving
<1>6. resolved[syms[n].addr] = [seg |-> meant[syms[n].addr].seg, ofs |-> ByteAt(meant[syms[n].addr])]
  BY <1>4, <1>5, MeantIs DEF AllInv
<1>7. s = Home(n)
  BY <1>3, <1>4, <1>6 DEF At
<1>8. n = IF s = "CSEG" THEN ".text" ELSE ".rodata"
  BY <1>3, <1>7 DEF Home, SectionNames
<1> QED
  BY <1>8 DEF n

\* When no segment is longer than its addresses can tell apart, and no label
\* has the name of a section: every patched displacement and every relocation
\* makes its reference end at its label, counted in the bytes of the layout
\* that is written.
THEOREM ReferencesLandHolds ==
  ASSUME Labels \cap SectionNames = {}
  PROVE  Spec => [](SegmentsFit => ReferencesLand)
<1>1. AllInv => (SegmentsFit => ReferencesLand)
  <2> SUFFICES ASSUME AllInv, SegmentsFit, phase = "results", retagged = {}, NEW r \in PatchRefs
               PROVE  LET w == written[r]
                          here == meant[reftbl[r].addr]
                          there == meant[syms[reftbl[r].to].addr]
                      IN /\ w.seg = here.seg /\ w.at + Width(r) = ByteAt(here)
                         /\ w.kind = "patch" => there.seg = here.seg /\ ByteAt(here) + w.value = ByteAt(there)
                         /\ w.kind = "R_X86_64_PC32" =>
                              /\ w.sym = (IF there.seg = "CSEG" THEN ".text" ELSE ".rodata")
                              /\ w.value - w.at = ByteAt(there) - ByteAt(here)
                         /\ w.kind = "R_X86_64_64" =>
                              /\ w.sym = (IF there.seg = "CSEG" THEN ".text" ELSE ".rodata")
                              /\ w.value = ByteAt(there)
    BY DEF ReferencesLand
  <2> DEFINE a == reftbl[r].addr
             b == syms[reftbl[r].to].addr
             x == ByteAt(meant[a])
             y == ByteAt(meant[b])
             p == meant[a].seg
             q == meant[b].seg
             v == written[r]
             k == Width(r)
             type == reftbl[r].type
  <2>1. /\ type \in {"REL8", "REL32", "REL64"} /\ a \in AddrIds /\ b \in AddrIds
        /\ v = Write(r) /\ ~BadRef(r) /\ k = Wide(reftbl[r]) /\ HasValue(reftbl[r].to)
    BY RefIs
  <2>2. phase \in Resolving /\ AsmInv
    BY DEF AllInv, Resolving
  <2>3. resolved[a] = [seg |-> p, ofs |-> x] /\ resolved[b] = [seg |-> q, ofs |-> y]
    BY <2>1, <2>2, MeantIs
  <2>4. x \in Nat /\ y \in Nat /\ p \in {"CSEG", "DSEG"} /\ q \in {"CSEG", "DSEG"}
    <3>1. /\ resolved[a].ofs \in Nat /\ resolved[a].seg \in {"CSEG", "DSEG"}
          /\ resolved[b].ofs \in Nat /\ resolved[b].seg \in {"CSEG", "DSEG"}
      BY <2>1, <2>2, ResolvedNat
    <3> QED
      BY <2>3, <3>1
  <2>5. From(r) = [seg |-> p, ofs |-> x] /\ To(r) = [seg |-> q, ofs |-> y]
    BY <2>3 DEF From, To, At
  <2>6. SymIdFrom(q) = IF q = "CSEG" THEN ".text" ELSE ".rodata"
    BY <2>4, SectionSymIs
  <2>7. k \in Nat /\ (type = "REL32" => k = 4)
    BY <2>1 DEF Wide
  <2> HIDE DEF x, y, p, q
  <2>8. CASE q = p
    <3>1. v = [kind |-> "patch", seg |-> p, at |-> x - k, sym |-> "none", value |-> y - x]
      BY <2>1, <2>5, <2>8 DEF Write
    <3> HIDE DEF v, k
    <3>2. v.kind = "patch" /\ v.seg = p /\ v.at + k = x /\ x + v.value = y
      BY <2>4, <2>7, <3>1
    <3> QED
      BY <2>8, <3>2 DEF v, k, x, y, p, q
  <2>9. CASE q # p
    <3>1. type # "REL8"
      BY <2>1, <2>5, <2>9 DEF BadRef
    <3>2. Addend(r) = IF type = "REL64" THEN y ELSE y - 4
      BY <2>5 DEF Addend
    <3>3. v = [kind |-> IF type = "REL64" THEN "R_X86_64_64" ELSE "R_X86_64_PC32",
               seg |-> p, at |-> x - k, sym |-> SymIdFrom(q), value |-> IF type = "REL64" THEN y ELSE y - 4]
      BY <2>1, <2>5, <2>9, <3>2 DEF Write
    <3> HIDE DEF v, k
    <3>4. v.seg = p /\ v.at + k = x /\ v.sym = SymIdFrom(q)
          /\ v.kind \in {"R_X86_64_64", "R_X86_64_PC32"}
          /\ (v.kind = "R_X86_64_PC32" => v.value - v.at = y - x)
          /\ (v.kind = "R_X86_64_64" => v.value = y)
      <4> HIDE DEF type
      <4>1. CASE type = "REL64"
        BY <2>4, <2>7, <3>3, <4>1
      <4>2. CASE type = "REL32"
        BY <2>4, <2>7, <3>3, <4>2
      <4> QED
        BY <2>1, <3>1, <4>1, <4>2 DEF type
    <3> QED
      BY <2>6, <3>4 DEF v, k, x, y, p, q
  <2> QED
    BY <2>8, <2>9
<1> QED
  BY AllInvHolds, <1>1, PTL

------------------------------------------------------------------------------
(* No byte is patched twice.                                                *)

LEMMA PatchIs ==
  ASSUME AllInv, phase = "results", SegmentsFit, NEW r \in PatchRefs
  PROVE  LET x == addrs[reftbl[r].addr]
             p == frags.pieces[x.frag]
             n == Start(frags, p.seg, x.frag)
         IN /\ x.frag \in DOMAIN frags.pieces /\ x.ofs \in Nat /\ n \in Nat /\ Width(r) \in Nat
            /\ x.ofs <= FinalLen(p) /\ FinalLen(p) \in Nat
            /\ Width(r) <= x.ofs
            /\ written[r].seg = p.seg /\ written[r].at = (n + x.ofs) - Width(r)
            /\ n + x.ofs <= codesLen[p.seg]
<1> DEFINE a == reftbl[r].addr
           f == addrs[a].frag
           p == frags.pieces[f]
           n == Start(frags, p.seg, f)
           o == addrs[a].ofs
           k == Width(r)
<1>1. /\ r \in DOMAIN reftbl /\ a \in AddrIds /\ written[r] = Write(r)
      /\ k = Wide(reftbl[r]) /\ k \in {1, 4, 8} /\ Patched(reftbl[r])
  BY RefIs
<1>2. phase \in Resolving /\ AsmInv /\ LayoutInv
  BY DEF AllInv, AsmInv, Resolving
<1>3. /\ resolved[a] = [seg |-> p.seg, ofs |-> n + o]
      /\ f \in DOMAIN frags.pieces /\ o \in Nat /\ n \in Nat
      /\ n + o <= codesLen[p.seg]
  BY <1>1, <1>2, ResolvedIs
<1>4. k <= o
  BY <1>1 DEF AllInv, PassTables, Tables, Stacked
<1>7. o <= FinalLen(p) /\ FinalLen(p) \in Nat
  BY <1>1, <1>2, InFragment
<1>8. written[r].seg = p.seg /\ written[r].at = (n + o) - k
  BY <1>1, <1>3, SMTT(30) DEF Write, From
<1> QED
  BY <1>1, <1>3, <1>4, <1>7, <1>8, SMTT(30)

\* When no segment is longer than its addresses can tell apart: the bytes of
\* two references never overlap, and none reaches out of its section.
THEOREM PatchesApartHolds ==
  ASSUME Labels \cap SectionNames = {}
  PROVE  Spec => [](SegmentsFit => PatchesApart)
<1>1. AllInv => (SegmentsFit => PatchesApart)
  <2> SUFFICES ASSUME AllInv, SegmentsFit, phase = "results", NEW r \in PatchRefs
               PROVE  /\ written[r].at >= 0 /\ written[r].at + Width(r) <= codesLen[written[r].seg]
                      /\ \A q \in PatchRefs \ {r} :
                           written[q].seg = written[r].seg =>
                             \/ written[q].at + Width(q) <= written[r].at
                             \/ written[r].at + Width(r) <= written[q].at
    BY DEF PatchesApart
  <2>1. frags.pieces \in Seq(Fragment)
    BY DEF AllInv, AsmInv, LayoutInv
  <2> DEFINE x(i) == addrs[reftbl[i].addr]
             p(i) == frags.pieces[x(i).frag]
             n(i) == Start(frags, p(i).seg, x(i).frag)
             o(i) == x(i).ofs
             at(i) == written[i].at
             k(i) == Width(i)
  <2>2. \A i \in PatchRefs : /\ x(i).frag \in DOMAIN frags.pieces /\ o(i) \in Nat /\ n(i) \in Nat /\ k(i) \in Nat
                             /\ o(i) <= FinalLen(p(i)) /\ FinalLen(p(i)) \in Nat /\ k(i) <= o(i)
                             /\ written[i].seg = p(i).seg /\ at(i) = (n(i) + o(i)) - k(i)
                             /\ n(i) + o(i) <= codesLen[p(i).seg]
    BY PatchIs
  <2>3. \A i \in PatchRefs : i \in DOMAIN reftbl /\ Patched(reftbl[i]) /\ k(i) = Wide(reftbl[i]) /\ i \in Nat
    <3>1. DOMAIN reftbl \subseteq Nat
      BY DEF AllInv, PassTables
    <3> QED
      BY <3>1, RefIs
  <2>4. ASSUME NEW i \in PatchRefs, NEW j \in PatchRefs, x(i).frag < x(j).frag, p(i).seg = p(j).seg
        PROVE  at(i) + k(i) <= at(j)
    <3>1. n(i) + FinalLen(p(i)) <= n(j)
      BY <2>1, <2>2, <2>4, FragmentsApart
    <3> HIDE DEF n, o, at, k, p, x
    <3> QED
      BY <2>2, <3>1
  <2>5. ASSUME NEW i \in PatchRefs, NEW j \in PatchRefs, x(i).frag = x(j).frag, i < j
        PROVE  at(i) + k(i) <= at(j)
    <3>1. o(i) + k(j) <= o(j)
      BY <2>3, <2>5 DEF AllInv, PassTables, Tables, Stacked, Behind
    <3>2. n(i) = n(j)
      BY <2>5
    <3> HIDE DEF n, o, at, k, p, x
    <3> QED
      BY <2>2, <3>1, <3>2
  <2>6. ASSUME NEW q \in PatchRefs \ {r}, written[q].seg = written[r].seg
        PROVE  at(q) + k(q) <= at(r) \/ at(r) + k(r) <= at(q)
    <3>1. p(q).seg = p(r).seg
      BY <2>2, <2>6
    <3>2. x(q).frag \in Nat /\ x(r).frag \in Nat /\ q \in Nat /\ r \in Nat /\ q # r
      <4>1. DOMAIN frags.pieces \subseteq Nat
        BY <2>1
      <4> QED
        BY <2>2, <2>3, <4>1
    <3> HIDE DEF n, o, at, k, p, x
    <3>3. x(q).frag < x(r).frag \/ x(r).frag < x(q).frag \/ (x(q).frag = x(r).frag /\ (q < r \/ r < q))
      BY <3>2
    <3> QED
      BY <2>4, <2>5, <3>1, <3>3
  <2>7. at(r) >= 0 /\ at(r) + k(r) <= codesLen[written[r].seg]
    <3>1. n(r) + o(r) <= codesLen[written[r].seg] /\ at(r) + k(r) = n(r) + o(r)
      <4> HIDE DEF n, o, at, k, p, x
      <4> QED
        BY <2>2
    <3>2. at(r) >= 0
      <4> HIDE DEF n, o, at, k, p, x
      <4> QED
        BY <2>2
    <3> QED
      BY <3>1, <3>2
  <2> QED
    BY <2>6, <2>7
<1> QED
  BY AllInvHolds, <1>1, PTL

------------------------------------------------------------------------------
(* The records of procedures and functions.                                 *)

\* What was written before is in front, in the same segment.
LEMMA BeforeIs ==
  ASSUME AsmInv, phase \in Resolving, SegmentsFit, NEW a \in AddrIds, NEW b \in AddrIds, Before(a, b),
         resolved[a].seg = resolved[b].seg
  PROVE  resolved[a].ofs <= resolved[b].ofs
<1> DEFINE f(x) == addrs[x].frag
           p(x) == frags.pieces[f(x)]
           n(x) == Start(frags, p(x).seg, f(x))
           o(x) == addrs[x].ofs
<1>1. LayoutInv /\ frags.pieces \in Seq(Fragment)
  BY DEF AsmInv, Resolving, LayoutInv
<1>2. ASSUME NEW x \in AddrIds
      PROVE  /\ resolved[x].seg = p(x).seg /\ resolved[x].ofs = n(x) + o(x)
             /\ f(x) \in DOMAIN frags.pieces /\ o(x) \in Nat /\ n(x) \in Nat
             /\ o(x) <= FinalLen(p(x)) /\ FinalLen(p(x)) \in Nat
  <2>1. resolved[x] = [seg |-> p(x).seg, ofs |-> n(x) + o(x)] /\ n(x) \in Nat
    BY ResolvedIs
  <2>2. /\ f(x) \in DOMAIN frags.pieces /\ o(x) \in Nat
        /\ o(x) <= FinalLen(p(x)) /\ FinalLen(p(x)) \in Nat
    BY <1>1, InFragment
  <2> HIDE DEF f, p, n, o
  <2> QED
    BY <2>1, <2>2
<1> DEFINE i == f(a)
           j == f(b)
           m == n(a)
           k == n(b)
           d == o(a)
           e == o(b)
           l == FinalLen(p(a))
<1>3. /\ p(a).seg = p(b).seg /\ i \in DOMAIN frags.pieces /\ j \in DOMAIN frags.pieces
      /\ resolved[a].ofs = m + d /\ resolved[b].ofs = k + e
      /\ m \in Nat /\ d \in Nat /\ k \in Nat /\ e \in Nat /\ l \in Nat /\ d <= l
  <2>1. /\ resolved[a].seg = p(a).seg /\ resolved[a].ofs = m + d
        /\ i \in DOMAIN frags.pieces /\ d \in Nat /\ m \in Nat /\ d <= l /\ l \in Nat
    BY <1>2
  <2>2. /\ resolved[b].seg = p(b).seg /\ resolved[b].ofs = k + e
        /\ j \in DOMAIN frags.pieces /\ e \in Nat /\ k \in Nat
    BY <1>2
  <2> HIDE DEF i, j, m, k, d, e, l, p
  <2> QED
    BY <2>1, <2>2
<1>4. i < j \/ (i = j /\ d <= e)
  BY DEF Before
<1>5. ASSUME i < j PROVE m + l <= k
  BY <1>1, <1>3, <1>5, FragmentsApart
<1>6. i = j => m = k
  OBVIOUS
<1> HIDE DEF i, j, m, k, d, e, l, p
<1> QED
  BY <1>3, <1>4, <1>5, <1>6

\* The advances of a procedure add up to the place of each CFI instruction.
LEMMA AdvancesAddUp ==
  ASSUME AllInv, phase \in {"results", "done"}, SegmentsFit, NEW p \in DOMAIN procs,
         NEW m \in DOMAIN procs[p].cfi
  PROVE  resolved[procs[p].start].ofs + Sum(fdes[p].advances, m) = resolved[procs[p].cfi[m]].ofs
<1> DEFINE c == procs[p].cfi
           n == Len(c)
           start == procs[p].start
           place == [i \in 0 .. n |-> IF i = 0 THEN resolved[start].ofs ELSE resolved[c[i]].ofs]
           d == fdes[p].advances
<1>1. c \in Seq(Nat)
  <2>1. procs \in Seq(ProcType)
    BY DEF AllInv, PassTables, ProcsTypeOK, ProcType
  <2>2. procs[p] \in ProcType
    BY <2>1
  <2> QED
    BY <2>2 DEF ProcType
<1>2. n \in Nat /\ DOMAIN c = 1 .. n
  BY <1>1
<1>3. start \in AddrIds /\ \A i \in DOMAIN c : c[i] \in AddrIds
  BY DEF AllInv, PassTables, ProcsHaveAddrs
<1>4. phase \in Resolving /\ AsmInv
  BY DEF AllInv, Resolving
<1>5. CfiDone
  BY DEF AllInv, Outcome
<1>6. \A i \in DOMAIN c : resolved[c[i]].seg = resolved[start].seg
  BY <1>5 DEF CfiDone, CfiStrays
<1>7. resolved[start].ofs \in Nat /\ \A i \in DOMAIN c : resolved[c[i]].ofs \in Nat
  BY <1>3, <1>4, ResolvedNat
<1>8. \A i \in DOMAIN c : Before(start, c[i]) /\ (i > 1 => Before(c[i-1], c[i]))
  BY DEF AllInv, PassTables, ProcsRun
<1>9. \A i \in DOMAIN c : d[i] = Advance(p, i)
  BY <1>5 DEF CfiDone, Record
<1> HIDE DEF d, start, c
<1>10. ASSUME NEW i \in DOMAIN c PROVE resolved[start].ofs <= resolved[c[i]].ofs
  BY <1>3, <1>4, <1>6, <1>8, <1>10, BeforeIs
<1>11. ASSUME NEW i \in DOMAIN c, i > 1 PROVE i - 1 \in DOMAIN c /\ resolved[c[i-1]].ofs <= resolved[c[i]].ofs
  <2>1. i - 1 \in DOMAIN c
    BY <1>2, <1>11
  <2>2. resolved[c[i-1]].seg = resolved[c[i]].seg /\ c[i-1] \in AddrIds /\ c[i] \in AddrIds /\ Before(c[i-1], c[i])
    BY <1>3, <1>6, <1>8, <1>11, <2>1
  <2> QED
    BY <1>4, <2>1, <2>2, BeforeIs
<1>12. ASSUME NEW i \in DOMAIN c PROVE d[i] = place[i] - place[i-1]
  <2>1. CfiOfs(p)[i] = resolved[c[i]].ofs /\ (i - 1 \in DOMAIN c => CfiOfs(p)[i-1] = resolved[c[i-1]].ofs)
    BY DEF CfiOfs, c
  <2>2. i \in 1 .. n /\ place[i] = resolved[c[i]].ofs
    BY <1>2
  <2>3. CASE i = 1
    <3>1. place[i-1] = resolved[start].ofs
      BY <1>2, <2>3
    <3>2. Advance(p, i) = IF resolved[start].ofs < resolved[c[i]].ofs THEN resolved[c[i]].ofs - resolved[start].ofs ELSE 0
      BY <2>1, <2>3 DEF Advance, start
    <3> HIDE DEF place
    <3> QED
      BY <1>7, <1>9, <1>10, <2>2, <3>1, <3>2
  <2>4. CASE i # 1
    <3>1. i > 1 /\ i - 1 \in DOMAIN c
      BY <1>2, <1>11, <2>2, <2>4
    <3>2. place[i-1] = resolved[c[i-1]].ofs
      BY <1>2, <3>1
    <3>3. Advance(p, i) = IF resolved[c[i-1]].ofs < resolved[c[i]].ofs THEN resolved[c[i]].ofs - resolved[c[i-1]].ofs ELSE 0
      BY <2>1, <2>4, <3>1 DEF Advance
    <3>4. resolved[c[i-1]].ofs <= resolved[c[i]].ofs
      BY <1>11, <3>1
    <3> HIDE DEF place
    <3> QED
      BY <1>7, <1>9, <2>2, <3>1, <3>2, <3>3, <3>4
  <2> QED
    BY <2>3, <2>4
<1>13. \A i \in 0 .. n : place[i] \in Int
  BY <1>2, <1>7
<1>14. place[0] = resolved[start].ofs /\ place[m] = resolved[c[m]].ofs /\ m \in 0 .. n
  BY <1>2 DEF c
<1> HIDE DEF place
<1>15. place[0] + SumFunctionOnSet(d, 1 .. m) = place[m]
  <2>1. \A i \in 1 .. n : d[i] = place[i] - place[i-1]
    BY <1>2, <1>12
  <2>2. Walk(place, d, n)
    BY <1>2, <1>13, <2>1 DEF Walk
  <2> HIDE DEF n
  <2> QED
    BY <1>14, <2>2, SumSteps
<1> QED
  BY <1>14, <1>15 DEF Sum, c, start, d

\* .size measures from its label to the place of the last .size of that label.
LEMMA SizeIs ==
  ASSUME AllInv, phase \in {"results", "done"}, SegmentsFit, retagged = {}, NEW r \in SizeRefs,
         \A q \in SizeRefs : reftbl[q].to = reftbl[r].to => q <= r
  PROVE  ByteAt(meant[syms[reftbl[r].to].addr]) + sizes[reftbl[r].to] = ByteAt(meant[reftbl[r].addr])
<1> DEFINE l == reftbl[r].to
           a == reftbl[r].addr
           b == syms[l].addr
           rs == { q \in SizeRefs : reftbl[q].to = l }
<1>1. PassTables /\ LengthsDone /\ AsmInv /\ phase \in Resolving
  BY DEF AllInv, Outcome, Resolving
<1>2. r \in DOMAIN reftbl /\ HasValue(l)
  BY <1>1 DEF SizeRefs, LengthsDone, BadSizes
<1>3. l \in Labels
  <2> DEFINE T == RefType
  <2>1. reftbl \in Seq(T)
    BY <1>1 DEF PassTables
  <2> HIDE DEF T
  <2>2. reftbl[r] \in T
    BY <1>2, <2>1
  <2> QED
    BY <2>2 DEF T, RefType
<1>4. a \in AddrIds /\ b \in AddrIds
  BY <1>1, <1>2, <1>3 DEF PassTables, Tables, RefsPoint, SymsPoint, HasValue, AddrIds, Names
<1>5. Max(rs) = r
  <2>1. r \in rs /\ \A q \in rs : q <= r
    OBVIOUS
  <2>2. rs \subseteq Int
    <3>1. DOMAIN reftbl \subseteq Int
      BY <1>1 DEF PassTables
    <3> QED
      BY <3>1 DEF SizeRefs
  <2> HIDE DEF rs
  <2>3. Max(rs) \in rs /\ \A y \in rs : y <= Max(rs)
    BY <2>1, <2>2, IntMax
  <2>4. r <= Max(rs) /\ Max(rs) <= r /\ r \in Int /\ Max(rs) \in Int
    BY <2>1, <2>2, <2>3
  <2> QED
    BY <2>4
<1>6. sizes[l] = resolved[a].ofs - resolved[b].ofs
  <2>1. sizes[l] = SizeOf(l)
    BY <1>1, <1>3 DEF LengthsDone
  <2>2. rs # {}
    OBVIOUS
  <2>3. SizeOf(l) = IF rs = {} THEN 0 ELSE resolved[reftbl[Max(rs)].addr].ofs - At(l).ofs
    BY DEF SizeOf
  <2> QED
    BY <1>5, <2>1, <2>2, <2>3 DEF At
<1>7. resolved[a].ofs = ByteAt(meant[a]) /\ resolved[b].ofs = ByteAt(meant[b])
  <2>1. ASSUME NEW x \in AddrIds PROVE resolved[x].ofs = ByteAt(meant[x])
    <3>1. resolved[x] = [seg |-> meant[x].seg, ofs |-> ByteAt(meant[x])]
      BY <1>1, MeantIs
    <3> QED
      BY <3>1
  <2> HIDE DEF a, b
  <2> QED
    BY <1>4, <2>1
<1>8. resolved[a].ofs \in Nat /\ resolved[b].ofs \in Nat
  BY <1>1, <1>4, ResolvedNat
<1> HIDE DEF l, a, b
<1>9. resolved[b].ofs + sizes[l] = resolved[a].ofs
  BY <1>6, <1>8
<1> QED
  BY <1>7, <1>9 DEF l, a, b

\* When no segment is longer than its addresses can tell apart, and no label
\* has the name of a section: the unwind record of a procedure covers it, its
\* CFI instructions take effect where they were written, and .size is the way
\* from the label to the place of its .size.
THEOREM UnwindMatchesHolds ==
  ASSUME Labels \cap SectionNames = {}
  PROVE  Spec => [](SegmentsFit => UnwindMatches)
<1>1. AllInv => (SegmentsFit => UnwindMatches)
  <2> SUFFICES ASSUME AllInv, SegmentsFit, phase = "results", retagged = {}
               PROVE  UnwindMatches
    BY DEF UnwindMatches
  <2>1. AsmInv /\ phase \in Resolving /\ PassTables /\ LengthsDone /\ CfiDone
    BY DEF AllInv, Outcome, Resolving
  <2>2. ASSUME NEW x \in AddrIds
        PROVE  /\ resolved[x].ofs = ByteAt(meant[x]) /\ resolved[x].seg = meant[x].seg
               /\ resolved[x].ofs \in Nat /\ resolved[x].seg \in {"CSEG", "DSEG"}
    <3>1. resolved[x] = [seg |-> meant[x].seg, ofs |-> ByteAt(meant[x])]
      BY <2>1, MeantIs
    <3> QED
      BY <2>1, <3>1, ResolvedNat
  <2>3. ASSUME NEW p \in DOMAIN procs
        PROVE  LET start == meant[procs[p].start]
               IN /\ fdes[p].sym = (IF start.seg = "CSEG" THEN ".text" ELSE ".rodata")
                  /\ fdes[p].ofs = ByteAt(start)
                  /\ fdes[p].ofs + fdes[p].len = ByteAt(meant[procs[p].end])
                  /\ \A i \in DOMAIN procs[p].cfi :
                       ByteAt(start) + Sum(fdes[p].advances, i) = ByteAt(meant[procs[p].cfi[i]])
    <3> DEFINE a == procs[p].start
               b == procs[p].end
               c == procs[p].cfi
    <3>1. b # 0
      BY <2>1 DEF LengthsDone, BadProcs, Ended
    <3>2. a \in AddrIds /\ b \in AddrIds /\ \A i \in DOMAIN c : c[i] \in AddrIds
      BY <2>1, <3>1 DEF PassTables, ProcsHaveAddrs
    <3>3. /\ resolved[a].ofs = ByteAt(meant[a]) /\ resolved[b].ofs = ByteAt(meant[b])
          /\ resolved[a].seg = meant[a].seg /\ resolved[a].seg \in {"CSEG", "DSEG"}
          /\ resolved[a].ofs \in Nat /\ resolved[b].ofs \in Nat
          /\ \A i \in DOMAIN c : resolved[c[i]].ofs = ByteAt(meant[c[i]])
      <4> HIDE DEF a, b, c
      <4> QED
        BY <2>2, <3>2
    <3>4. fdes[p].sym = SymIdFrom(resolved[a].seg) /\ fdes[p].ofs = resolved[a].ofs /\ fdes[p].len = procLens[p]
      BY <2>1 DEF CfiDone, Record
    <3>5. procLens[p] = resolved[b].ofs - resolved[a].ofs
      BY <2>1 DEF LengthsDone
    <3>6. fdes[p].sym = (IF meant[a].seg = "CSEG" THEN ".text" ELSE ".rodata")
      BY <3>3, <3>4, SectionSymIs
    <3>7. \A i \in DOMAIN c : resolved[a].ofs + Sum(fdes[p].advances, i) = resolved[c[i]].ofs
      BY AdvancesAddUp
    <3>8. fdes[p].ofs + fdes[p].len = resolved[b].ofs
      <4> HIDE DEF a, b
      <4> QED
        BY <3>3, <3>4, <3>5
    <3> HIDE DEF a, b, c
    <3>9. \A i \in DOMAIN c : ByteAt(meant[a]) + Sum(fdes[p].advances, i) = ByteAt(meant[c[i]])
      BY <3>3, <3>7
    <3> QED
      BY <3>3, <3>4, <3>6, <3>8, <3>9 DEF a, b, c
  <2>4. ASSUME NEW r \in SizeRefs, \A q \in SizeRefs : reftbl[q].to = reftbl[r].to => q <= r
        PROVE  ByteAt(meant[syms[reftbl[r].to].addr]) + sizes[reftbl[r].to] = ByteAt(meant[reftbl[r].addr])
    BY <2>4, SizeIs
  <2> QED
    BY <2>3, <2>4 DEF UnwindMatches
<1> QED
  BY AllInvHolds, <1>1, PTL
==============================================================================
