----------------------------- MODULE EncodeProofs -----------------------------
(***************************************************************************)
(* Proof that the bytes of every statement mean the statement, but for the *)
(* exceptions Encode names, whatever the statements are (Forms).           *)
(*                                                                         *)
(* The first part shows what _opr2val finds in a memory operand, the       *)
(* second what Decode reads in bytes of a given shape; the third goes      *)
(* through the encoders.                                                   *)
(***************************************************************************)
EXTENDS Encode, FiniteSums, SequenceTheorems

------------------------------------------------------------------------------
\* A sum over places is one over their numbers.
Numbers(o, n, S, g, f) ==
  /\ n \in Nat
  /\ \A i, j \in 1 .. n : o[i] = o[j] => i = j
  /\ \A i \in 1 .. n : o[i] \in S /\ g[i] = f[o[i]] /\ f[o[i]] \in Int
  /\ \A x \in S : \E i \in 1 .. n : x = o[i]

LEMMA SumRelabel ==
  ASSUME NEW n, NEW o, NEW S, NEW g, NEW f, Numbers(o, n, S, g, f)
  PROVE  IsFiniteSet(S) /\ SumFunctionOnSet(g, 1 .. n) = SumFunctionOnSet(f, S)
<1> USE DEF Numbers
<1> DEFINE First(i) == { o[j] : j \in 1 .. i }
           p == [i \in 0 .. n |-> SumFunctionOnSet(f, First(i))]
<1>1. \A i \in 0 .. n : IsFiniteSet(First(i)) /\ \A x \in First(i) : f[x] \in Int
  <2> SUFFICES ASSUME NEW i \in 0 .. n
               PROVE  IsFiniteSet(First(i)) /\ \A x \in First(i) : f[x] \in Int
    OBVIOUS
  <2>1. IsFiniteSet(1 .. i)
    BY FS_Interval
  <2>2. IsFiniteSet(First(i))
    <3> DEFINE h == [j \in 1 .. i |-> o[j]]
               I == 1 .. i
    <3>1. First(i) = Range(h)
      BY DEF Range
    <3>2. h \in Surjection(I, Range(h))
      BY DEF Range, Surjection
    <3> HIDE DEF h, First, I
    <3>3. IsFiniteSet(I)
      BY <2>1 DEF I
    <3> QED
      BY <3>1, <3>2, <3>3, FS_Surjection
  <2>3. \A j \in 1 .. i : j \in 1 .. n
    OBVIOUS
  <2> QED
    BY <2>2, <2>3
<1>2. \A i \in 0 .. n : p[i] \in Int
  <2> SUFFICES ASSUME NEW i \in 0 .. n PROVE p[i] \in Int
    OBVIOUS
  <2> HIDE DEF First
  <2>1. SumFunctionOnSet(f, First(i)) \in Int
    BY <1>1, SumType
  <2> QED
    BY <2>1
<1>3. ASSUME NEW i \in 1 .. n PROVE g[i] = p[i] - p[i - 1]
  <2>1. i - 1 \in 0 .. n /\ i \in 0 .. n /\ First(i) = First(i - 1) \cup {o[i]}
    <3>1. 1 .. i = (1 .. (i - 1)) \cup {i}
      OBVIOUS
    <3> QED
      BY <3>1
  <2>2. o[i] \notin First(i - 1)
    <3>1. \A j \in 1 .. (i - 1) : j \in 1 .. n /\ j # i
      OBVIOUS
    <3> QED
      BY <3>1
  <2>3. p[i] = SumFunctionOnSet(f, First(i)) /\ p[i - 1] = SumFunctionOnSet(f, First(i - 1))
    BY <2>1
  <2> HIDE DEF First, p
  <2>4. \A x \in First(i - 1) \cup {o[i]} : f[x] \in Int
    BY <1>1, <2>1
  <2>5. SumFunctionOnSet(f, First(i - 1) \cup {o[i]}) = f[o[i]] + SumFunctionOnSet(f, First(i - 1))
    BY <1>1, <2>1, <2>2, <2>4, SumAdd
  <2>6. p[i] \in Int /\ p[i - 1] \in Int /\ f[o[i]] \in Int
    BY <1>2, <2>1
  <2> QED
    BY <2>1, <2>3, <2>5, <2>6
<1>4. p[0] = 0
  <2>1. First(0) = {}
    OBVIOUS
  <2> HIDE DEF First
  <2> QED
    BY <2>1, SumEmpty
<1>5. p[n] = SumFunctionOnSet(f, S) /\ IsFiniteSet(S)
  <2>1. First(n) = S
    OBVIOUS
  <2> QED
    BY <1>1, <2>1
<1> HIDE DEF p
<1>6. Walk(p, g, n)
  BY <1>2, <1>3 DEF Walk
<1>7. p[0] + SumFunctionOnSet(g, 1 .. n) = p[n]
  BY <1>6, SumSteps
<1>8. SumFunctionOnSet(g, 1 .. n) \in Int
  <2>1. n \in Int
    OBVIOUS
  <2>2. IsFiniteSet(1 .. n)
    BY <2>1, FS_Interval
  <2>3. \A i \in 1 .. n : g[i] \in Int
    OBVIOUS
  <2> QED
    BY <2>2, <2>3, SumType
<1> QED
  BY <1>4, <1>5, <1>7, <1>8

\* The number of a sum of terms, with its first term apart.
LEMMA TermsSum ==
  ASSUME NEW t \in Seq(Terms)
  PROVE  /\ Sum(t) \in Int
         /\ t # <<>> => Tail(t) \in Seq(Terms) /\ Sum(t) = Head(t).num + Sum(Tail(t))
<1> DEFINE f == [i \in DOMAIN t |-> t[i].num]
<1>1. DOMAIN t = 1 .. Len(t) /\ Len(t) \in Nat /\ \A i \in 1 .. Len(t) : f[i] \in Int
  BY DEF Terms
<1>2. Sum(t) = SumFunctionOnSet(f, 1 .. Len(t))
  BY <1>1 DEF Sum, SumFunction
<1>3. Sum(t) \in Int
  <2>1. IsFiniteSet(1 .. Len(t))
    BY <1>1, FS_Interval
  <2> HIDE DEF f
  <2>2. SumFunctionOnSet(f, 1 .. Len(t)) \in Int
    BY <1>1, <2>1, SumType
  <2> QED
    BY <1>2, <2>2
<1>4. ASSUME t # <<>> PROVE Tail(t) \in Seq(Terms) /\ Sum(t) = Head(t).num + Sum(Tail(t))
  <2> DEFINE u == Tail(t)
             g == [i \in DOMAIN u |-> u[i].num]
             o == [i \in 1 .. Len(u) |-> i + 1]
  <2>1. u \in Seq(Terms) /\ Len(u) = Len(t) - 1 /\ Len(u) \in Nat /\ DOMAIN u = 1 .. Len(u)
        /\ \A i \in 1 .. Len(u) : u[i] = t[i + 1]
    BY <1>4
  <2>2. Sum(u) = SumFunctionOnSet(g, 1 .. Len(u))
    BY <2>1 DEF Sum, SumFunction
  <2>3. \A i \in 1 .. Len(u) : g[i] = f[o[i]] /\ f[o[i]] \in Int
    <3> SUFFICES ASSUME NEW i \in 1 .. Len(u) PROVE g[i] = f[o[i]] /\ f[o[i]] \in Int
      OBVIOUS
    <3>1. i + 1 \in 1 .. Len(t) /\ o[i] = i + 1
      BY <1>1, <2>1
    <3>2. g[i] = t[i + 1].num
      BY <2>1
    <3> QED
      BY <1>1, <3>1, <3>2
  <2>4. \A i, j \in 1 .. Len(u) : o[i] = o[j] => i = j
    BY <2>1
  <2>5. (\A k \in 2 .. Len(t) : \E i \in 1 .. Len(u) : k = o[i]) /\ (\A i \in 1 .. Len(u) : o[i] \in 2 .. Len(t))
    <3>1. \A k \in 2 .. Len(t) : k - 1 \in 1 .. Len(u) /\ o[k - 1] = k
      BY <1>1, <2>1
    <3>2. \A i \in 1 .. Len(u) : o[i] \in 2 .. Len(t)
      BY <1>1, <2>1
    <3> HIDE DEF o, u
    <3> QED
      BY <3>1, <3>2
  <2>6. 1 .. Len(t) = (2 .. Len(t)) \cup {1} /\ 1 \notin 2 .. Len(t)
    BY <1>1, <1>4
  <2>7. f[1] = Head(t).num
    BY <1>1, <1>4, <2>6
  <2> HIDE DEF f, g, o, u
  <2>8. Sum(u) = SumFunctionOnSet(f, 2 .. Len(t))
    <3>1. SumFunctionOnSet(g, 1 .. Len(u)) = SumFunctionOnSet(f, 2 .. Len(t))
      <4>1. Numbers(o, Len(u), 2 .. Len(t), g, f)
        BY <2>1, <2>3, <2>4, <2>5 DEF Numbers
      <4> QED
        BY <4>1, SumRelabel
    <3> QED
      BY <2>2, <3>1
  <2>9. SumFunctionOnSet(f, (2 .. Len(t)) \cup {1}) = f[1] + SumFunctionOnSet(f, 2 .. Len(t))
    <3>1. IsFiniteSet(2 .. Len(t)) /\ \A i \in (2 .. Len(t)) \cup {1} : f[i] \in Int
      BY <1>1, <2>6, FS_Interval
    <3> QED
      BY <2>6, <3>1, SumAdd
  <2> QED
    BY <1>2, <2>1, <2>6, <2>7, <2>8, <2>9 DEF u
<1> QED
  BY <1>3, <1>4

\* The function that FoldRight takes a value of to read brackets.
Recurs(g, b, S) ==
  g = [s \in SUBSET S |-> IF s = {} THEN NoReg ELSE Bracket(b[Min(s)], g[s \ {Min(s)}])]

\* The first place of a set comes off it.
Behind(s) == s \ {Min(s)}
Naturals(s) == s \subseteq Nat

LEMMA BehindIs ==
  ASSUME NEW s, Naturals(s), s # {}
  PROVE  Min(s) \in s /\ (\A y \in s : Min(s) <= y) /\ Behind(s) \in SUBSET s /\ Behind(s) # s
BY NatMin DEF Behind, Naturals

LEMMA RecursOnce ==
  ASSUME NEW b, NEW A, NEW g, Recurs(g, b, A),
         NEW S, IsFiniteSet(S), Naturals(S), S \subseteq A, NEW h, Recurs(h, b, S)
  PROVE  g[S] = h[S]
<1> DEFINE Off == {s \in SUBSET S : g[s] # h[s]}
<1>1. SUFFICES ASSUME Off # {} PROVE FALSE
  OBVIOUS
<1>a. Off \subseteq SUBSET S
  OBVIOUS
<1> HIDE DEF Off
<1>2. PICK T \in Off : T \subseteq S /\ \A U \in SUBSET T : U # T => U \notin Off
  BY <1>1, <1>a, SmallestSet
<1> USE DEF Off
<1>3. /\ g[T] = IF T = {} THEN NoReg ELSE Bracket(b[Min(T)], g[Behind(T)])
      /\ h[T] = IF T = {} THEN NoReg ELSE Bracket(b[Min(T)], h[Behind(T)])
  BY <1>2 DEF Recurs, Behind
<1>4. T # {}
  BY <1>3
<1>5. Naturals(T)
  BY <1>2 DEF Naturals
<1>6. Behind(T) \in SUBSET T /\ Behind(T) # T
  BY <1>4, <1>5, BehindIs
<1>7. g[Behind(T)] = h[Behind(T)]
  BY <1>2, <1>6
<1> QED
  BY <1>2, <1>3, <1>7

LEMMA RecursSome ==
  ASSUME NEW b, NEW S, IsFiniteSet(S), Naturals(S)
  PROVE  \E g : Recurs(g, b, S)
<1> DEFINE Off == {s \in SUBSET S : ~\E g : Recurs(g, b, s)}
<1>1. SUFFICES ASSUME Off # {} PROVE FALSE
  OBVIOUS
<1>a. Off \subseteq SUBSET S
  OBVIOUS
<1> HIDE DEF Off
<1>2. PICK T \in Off : IsFiniteSet(T) /\ T \subseteq S /\ \A U \in SUBSET T : U # T => U \notin Off
  BY <1>1, <1>a, SmallestSet
<1> USE DEF Off
<1>3. \A U \in SUBSET T : U # T => \E g : Recurs(g, b, U)
  BY <1>2
<1> DEFINE V(s) == (CHOOSE k : Recurs(k, b, s))[s]
           g == [s \in SUBSET T |-> IF s = {} THEN NoReg ELSE Bracket(b[Min(s)], V(Behind(s)))]
<1>4. ASSUME NEW s \in SUBSET T, s # {}
      PROVE  g[Behind(s)] = V(Behind(s))
  <2> DEFINE R == Behind(s)
  <2>0. s \in SUBSET S /\ Naturals(s)
    BY <1>2 DEF Naturals
  <2>a. R \in SUBSET s /\ R # s
    BY <1>4, <2>0, BehindIs
  <2>1. R \in SUBSET s /\ R # s /\ R \in SUBSET T /\ R # T /\ R \in SUBSET S /\ Naturals(R)
    BY <2>0, <2>a DEF Naturals
  <2> DEFINE k == CHOOSE h : Recurs(h, b, R)
  <2>2. Recurs(k, b, R)
    BY <1>3, <2>1
  <2>3. V(R) = k[R] /\ k[R] = IF R = {} THEN NoReg ELSE Bracket(b[Min(R)], k[Behind(R)])
    BY <2>2, Zenon DEF Recurs, Behind
  <2>4. g[R] = IF R = {} THEN NoReg ELSE Bracket(b[Min(R)], V(Behind(R)))
    BY <2>1
  <2>5. ASSUME R # {} PROVE k[Behind(R)] = V(Behind(R))
    <3> DEFINE Q == Behind(R)
    <3>0. Q \in SUBSET R /\ Q # R
      <4> HIDE DEF R
      <4> QED
        BY <2>1, <2>5, BehindIs
    <3>1. Q \in SUBSET R /\ Q # R /\ Q \in SUBSET T /\ Q # T /\ Q \in SUBSET S /\ Naturals(Q)
      BY <2>1, <3>0 DEF Naturals
    <3> DEFINE j == CHOOSE h : Recurs(h, b, Q)
    <3>2. Recurs(j, b, Q)
      BY <1>3, <3>1
    <3>3. V(Q) = j[Q]
      OBVIOUS
    <3>4. k[Q] = j[Q]
      <4>1. IsFiniteSet(Q)
        BY <3>1, <1>2, FS_Subset
      <4> HIDE DEF Q, R, k, j
      <4> QED
        BY <2>2, <3>1, <3>2, <4>1, RecursOnce
    <3> QED
      BY <3>3, <3>4
  <2> HIDE DEF R, k, V, g
  <2>6. g[R] = V(R)
    BY <2>3, <2>4, <2>5
  <2> QED
    BY <2>6 DEF R
<1>5. \A s \in SUBSET T : g[s] = IF s = {} THEN NoReg ELSE Bracket(b[Min(s)], g[Behind(s)])
  <2> SUFFICES ASSUME NEW s \in SUBSET T
               PROVE  g[s] = IF s = {} THEN NoReg ELSE Bracket(b[Min(s)], g[Behind(s)])
    OBVIOUS
  <2>1. g[s] = IF s = {} THEN NoReg ELSE Bracket(b[Min(s)], V(Behind(s)))
    OBVIOUS
  <2> HIDE DEF g, V
  <2> QED
    BY <1>4, <2>1
<1>6. g = [s \in SUBSET T |-> g[s]]
  OBVIOUS
<1> HIDE DEF g, V
<1>7. g = [s \in SUBSET T |-> IF s = {} THEN NoReg ELSE Bracket(b[Min(s)], g[Behind(s)])]
  BY <1>5, <1>6
<1>8. Recurs(g, b, T)
  BY <1>7 DEF Recurs, Behind
<1> QED
  BY <1>2, <1>8

\* The brackets are read from the last to the first: f[i] is what those from the i-th say.
LEMMA BracketsUnfold ==
  ASSUME NEW W, NEW text, text.brackets \in Seq(W)
  PROVE  \E f : /\ f[Len(text.brackets) + 1] = NoReg
                /\ \A i \in 1 .. Len(text.brackets) : f[i] = Bracket(text.brackets[i], f[i + 1])
                /\ Opr2n(text) = [f[1] EXCEPT !.num = @ + text.lead]
<1> DEFINE b == text.brackets
           n == Len(b)
<1>1. n \in Nat /\ DOMAIN b = 1 .. n
  OBVIOUS
<1> DEFINE g == CHOOSE h : Recurs(h, b, 1 .. n)
           f == [i \in 1 .. (n + 1) |-> g[i .. n]]
<1>2. Recurs(g, b, 1 .. n)
  <2> DEFINE J == 1 .. n
  <2>0. Naturals(J) /\ n \in Int
    BY <1>1 DEF Naturals
  <2>1. IsFiniteSet(J)
    BY <2>0, FS_Interval
  <2>2. \E h : Recurs(h, b, J)
    <3> HIDE DEF J, b
    <3> QED
      BY <2>0, <2>1, RecursSome
  <2> QED
    BY <2>2
<1>3. FoldRight(Bracket, b, NoReg) = (CHOOSE h : Recurs(h, b, DOMAIN b))[DOMAIN b]
  BY DEF FoldRight, MapThenFoldSet, Recurs
<1>4. Opr2n(text) = [g[1 .. n] EXCEPT !.num = @ + text.lead]
  BY <1>1, <1>3 DEF Opr2n
<1> HIDE DEF b, g
<1>5. ASSUME NEW i \in 1 .. n PROVE Min(i .. n) = i /\ Behind(i .. n) = (i + 1) .. n /\ i .. n # {} /\ i .. n \in SUBSET (1 .. n)
  <2> DEFINE J == i .. n
  <2>1. Naturals(J) /\ i \in J /\ J # {} /\ i \in Nat
    BY <1>1 DEF Naturals
  <2>2. Min(J) \in J /\ \A y \in J : Min(J) <= y
    <3> HIDE DEF J
    <3> QED
      BY <2>1, BehindIs
  <2>3. Min(J) = i
    <3>1. Min(J) \in Nat /\ Min(J) <= i /\ i <= Min(J)
      BY <1>1, <2>1, <2>2
    <3> QED
      BY <2>1, <3>1
  <2> QED
    BY <1>1, <2>3 DEF Behind
<1>6. ASSUME NEW i \in 1 .. n PROVE f[i] = Bracket(b[i], f[i + 1])
  <2>1. i \in 1 .. (n + 1) /\ i + 1 \in 1 .. (n + 1)
    BY <1>1
  <2>2. g[i .. n] = Bracket(b[Min(i .. n)], g[Behind(i .. n)])
    BY <1>2, <1>5 DEF Recurs, Behind
  <2> QED
    BY <1>5, <2>1, <2>2
<1>7. f[n + 1] = NoReg
  <2>1. n + 1 \in 1 .. (n + 1) /\ (n + 1) .. n = {} /\ {} \in SUBSET (1 .. n)
    BY <1>1
  <2>2. g[{}] = NoReg
    BY <1>2 DEF Recurs
  <2> QED
    BY <2>1, <2>2
<1>8. f[1] = g[1 .. n]
  BY <1>1
<1> QED
  BY <1>4, <1>6, <1>7, <1>8 DEF b

\* What one bracket adds: its numbers, and a base and an index if there is no base yet.
Ctl == [type : RegTypes \cup {"UNK"}, reg : 0 .. 7, scaled : BOOLEAN, index : 0 .. 7, lv : 0 .. 3,
        num : Int, status : {"NUM", "replaced", "refused"}]
SameRegs(r, k) ==
  r.type = k.type /\ r.reg = k.reg /\ r.scaled = k.scaled /\ r.index = k.index /\ r.lv = k.lv
NumbersFrom(t, i) == \A j \in 1 .. Len(t) : i <= j => IsNum(t[j])
IsBase(t, r) == ~IsNum(t) /\ t.scale = 0 /\ r.type = t.type /\ r.reg = t.reg
IsIndex(t, r) ==
  /\ ~IsNum(t) /\ t.type = "RAXtoRDI" /\ r.scaled /\ r.index = t.reg
  /\ Times(t) = <<1, 2, 4, 8>>[r.lv + 1]
Sane(k) == k.status = "NUM" => (~k.scaled => k.lv = 0) /\ (k.type = "UNK" => ~k.scaled)
Takes(t, k, r) ==
  \/ NumbersFrom(t, 1) /\ SameRegs(r, k)
  \/ k.type = "UNK" /\ IsBase(t[1], r) /\ NumbersFrom(t, 2) /\ r.scaled = k.scaled
  \/ k.type = "UNK" /\ IsBase(t[1], r) /\ NumbersFrom(t, 3) /\ 2 <= Len(t) /\ IsIndex(t[2], r)

\* The values of a rest of terms.
LEMMA ValueIs ==
  ASSUME NEW k \in Ctl, NEW t \in Seq(Terms)
  PROVE  LET r == WithValue(k, t)
         IN  /\ r \in Ctl /\ r.num = k.num + Sum(t) /\ SameRegs(r, k)
             /\ r.status = "NUM" => k.status = "NUM" /\ NumbersFrom(t, 1)
<1>1. Sum(t) \in Int /\ DOMAIN t = 1 .. Len(t)
  BY TermsSum
<1> DEFINE r == WithValue(k, t)
<1>2. k.num \in Int /\ k.num + Sum(t) \in Int
  BY <1>1 DEF Ctl
<1>3. r = [k EXCEPT !.num = k.num + Sum(t),
                    !.status = IF k.status # "refused" /\ \E i \in DOMAIN t : ~IsNum(t[i]) THEN "replaced" ELSE k.status]
  BY DEF WithValue
<1>4. r \in Ctl /\ r.num = k.num + Sum(t) /\ SameRegs(r, k)
  BY <1>2, <1>3 DEF Ctl, SameRegs
<1>5. ASSUME r.status = "NUM" PROVE k.status = "NUM" /\ NumbersFrom(t, 1)
  BY <1>1, <1>3, <1>5 DEF Ctl, NumbersFrom
<1> QED
  BY <1>4, <1>5

LEMMA BracketIs ==
  ASSUME NEW k \in Ctl, Sane(k), NEW t \in Seq(Terms) \ {<<>>}
  PROVE  LET r == Bracket(t, k)
         IN  /\ r \in Ctl /\ r.num = k.num + Sum(t) /\ Sane(r)
             /\ r.status = "NUM" => k.status = "NUM" /\ Takes(t, k, r)
<1> DEFINE r == Bracket(t, k)
<1>0. t \in Seq(Terms) /\ t # <<>> /\ Head(t) = t[1] /\ Len(t) \in Nat /\ 1 <= Len(t) /\ t[1] \in Terms
  OBVIOUS
<1>1. CASE ~StartsWithBase(t, k)
  <2>1. r = WithValue(k, t)
    BY <1>1 DEF Bracket
  <2>2. r \in Ctl /\ r.num = k.num + Sum(t) /\ SameRegs(r, k)
        /\ (r.status = "NUM" => k.status = "NUM" /\ NumbersFrom(t, 1))
    BY <1>0, <2>1, ValueIs
  <2> QED
    BY <2>2 DEF Takes, SameRegs, Sane
<1>2. CASE StartsWithBase(t, k)
  <2> DEFINE h == t[1]
             based == WithBase(k, h)
             u == Tail(t)
  <2>1. k.type = "UNK" /\ ~IsNum(h) /\ h \in [type : RegTypes, reg : 0 .. 7, scale : Nat, num : {0}]
    BY <1>0, <1>2 DEF StartsWithBase, Terms, IsNum
  <2>2. u \in Seq(Terms) /\ Sum(u) \in Int /\ Sum(t) = Sum(u)
        /\ Len(u) = Len(t) - 1 /\ \A i \in 1 .. Len(u) : u[i] = t[i + 1]
    <3>1. u \in Seq(Terms) /\ Sum(t) = Head(t).num + Sum(u)
      BY <1>0, TermsSum
    <3>2. Sum(u) \in Int
      BY <3>1, TermsSum
    <3>3. Head(t).num = 0
      BY <1>0, <2>1
    <3> QED
      BY <1>0, <3>1, <3>2, <3>3
  <2>3. based \in Ctl /\ based.num = k.num /\ based.scaled = k.scaled /\ based.lv = k.lv
        /\ (based.status = "NUM" => k.status = "NUM" /\ IsBase(h, based) /\ based.type # "UNK")
    BY <2>1 DEF WithBase, IsBase, Ctl, RegTypes
  <2> HIDE DEF based
  <2>4. CASE ~StartsWithIndex(u)
    <3>1. r = WithValue(based, u)
      BY <1>0, <1>2, <2>4 DEF Bracket, based
    <3>2. r \in Ctl /\ r.num = based.num + Sum(u) /\ SameRegs(r, based)
          /\ (r.status = "NUM" => based.status = "NUM" /\ NumbersFrom(u, 1))
      BY <2>2, <2>3, <3>1, ValueIs
    <3>3. NumbersFrom(u, 1) => NumbersFrom(t, 2)
      <4> SUFFICES ASSUME NumbersFrom(u, 1), NEW j \in 1 .. Len(t), 2 <= j PROVE IsNum(t[j])
        BY DEF NumbersFrom
      <4>1. j - 1 \in 1 .. Len(u) /\ 1 <= j - 1 /\ u[j - 1] = t[j]
        BY <1>0, <2>2
      <4> QED
        BY <4>1 DEF NumbersFrom
    <3>4. Sane(r) /\ r.num = k.num + Sum(t)
      BY <2>2, <2>3, <3>2 DEF SameRegs, Sane
    <3>5. ASSUME r.status = "NUM" PROVE k.status = "NUM" /\ Takes(t, k, r)
      <4>1. IsBase(h, r) /\ r.scaled = k.scaled /\ NumbersFrom(t, 2) /\ k.status = "NUM"
        BY <2>3, <3>2, <3>3, <3>5 DEF SameRegs, IsBase
      <4> QED
        BY <2>1, <4>1 DEF Takes
    <3> QED
      BY <3>2, <3>4, <3>5
  <2>5. CASE StartsWithIndex(u)
    <3> DEFINE x == t[2]
               both == WithIndex(based, x)
               v == Tail(u)
    <3>1. u # <<>> /\ Head(u) = x /\ 2 <= Len(t) /\ ~IsNum(x)
          /\ x \in [type : RegTypes, reg : 0 .. 7, scale : Nat, num : {0}]
      <4>1. u # <<>> /\ ~IsNum(Head(u)) /\ Head(u) = u[1] /\ 1 <= Len(u) /\ u[1] \in Terms
        BY <2>2, <2>5 DEF StartsWithIndex
      <4>2. u[1] = x /\ 2 <= Len(t)
        BY <1>0, <2>2, <4>1
      <4> HIDE DEF u
      <4> QED
        BY <4>1, <4>2 DEF Terms, IsNum
    <3>2. v \in Seq(Terms) /\ Sum(u) = Sum(v) /\ Len(v) = Len(t) - 2 /\ \A i \in 1 .. Len(v) : v[i] = t[i + 2]
      <4>1. v \in Seq(Terms) /\ Sum(u) = Head(u).num + Sum(v)
        BY <2>2, <3>1, TermsSum
      <4>2. Sum(v) \in Int
        BY <4>1, TermsSum
      <4>3. Head(u).num = 0
        BY <3>1
      <4>4. Len(v) = Len(t) - 2 /\ \A i \in 1 .. Len(v) : v[i] = t[i + 2]
        BY <1>0, <3>1
      <4> QED
        BY <4>1, <4>2, <4>3, <4>4
    <3>3. both \in Ctl /\ both.num = k.num /\ both.type = based.type /\ both.reg = based.reg
          /\ (both.status = "NUM" => based.status = "NUM" /\ IsIndex(x, both) /\ both.scaled /\ both.type # "UNK")
      <4>1. \A n \in Nat : n \in DOMAIN Level => n \in {1, 2, 4, 8} /\ Level[n] \in 0 .. 3 /\ n = <<1, 2, 4, 8>>[Level[n] + 1]
        BY DEF Level
      <4>2. DOMAIN Level = {1, 2, 4, 8}
        BY DEF Level
      <4>3. both \in Ctl /\ both.num = k.num /\ both.type = based.type /\ both.reg = based.reg
        BY <2>3, <3>1, <4>1, <4>2 DEF WithIndex, Ctl
      <4>4. ASSUME both.status = "NUM"
            PROVE  based.status = "NUM" /\ IsIndex(x, both) /\ both.scaled /\ both.type # "UNK"
        <5>1. x.type = "RAXtoRDI" /\ x.scale \in {1, 2, 4, 8} \cup {0} /\ based.status = "NUM" /\ both.scaled
              /\ both.index = x.reg /\ both.lv = (IF x.scale = 0 THEN based.lv ELSE Level[x.scale])
          BY <2>3, <3>1, <4>2, <4>4 DEF WithIndex, Ctl
        <5>2. based.lv = 0 /\ based.type # "UNK"
          BY <2>1, <2>3, <5>1 DEF Sane
        <5>3. Times(x) = <<1, 2, 4, 8>>[both.lv + 1]
          <6> HIDE DEF both, x
          <6>1. CASE x.scale = 0
            <7>1. both.lv = 0 /\ Times(x) = 1
              BY <5>1, <5>2, <6>1 DEF Times
            <7> QED
              BY <7>1
          <6>2. CASE x.scale # 0
            <7>1. x.scale \in {1, 2, 4, 8} /\ both.lv = Level[x.scale] /\ Times(x) = x.scale
              BY <5>1, <6>2 DEF Times
            <7> QED
              BY <4>1, <4>2, <7>1
          <6> QED
            BY <6>1, <6>2
        <5> QED
          BY <3>1, <4>3, <5>1, <5>2, <5>3 DEF IsIndex
      <4> QED
        BY <4>3, <4>4
    <3> HIDE DEF both
    <3>4. r = WithValue(both, v)
      BY <1>0, <1>2, <2>5, <3>1 DEF Bracket, based, both
    <3>5. r \in Ctl /\ r.num = both.num + Sum(v) /\ SameRegs(r, both)
          /\ (r.status = "NUM" => both.status = "NUM" /\ NumbersFrom(v, 1))
      BY <3>2, <3>3, <3>4, ValueIs
    <3>6. NumbersFrom(v, 1) => NumbersFrom(t, 3)
      <4> SUFFICES ASSUME NumbersFrom(v, 1), NEW j \in 1 .. Len(t), 3 <= j PROVE IsNum(t[j])
        BY DEF NumbersFrom
      <4>1. j - 2 \in 1 .. Len(v) /\ 1 <= j - 2 /\ v[j - 2] = t[j]
        BY <1>0, <3>2
      <4> QED
        BY <4>1 DEF NumbersFrom
    <3>7. Sane(r) /\ r.num = k.num + Sum(t)
      BY <2>2, <3>2, <3>3, <3>5 DEF SameRegs, Sane
    <3>8. ASSUME r.status = "NUM" PROVE k.status = "NUM" /\ Takes(t, k, r)
      <4>1. IsBase(h, r) /\ IsIndex(x, r) /\ NumbersFrom(t, 3) /\ k.status = "NUM"
        BY <2>3, <3>3, <3>5, <3>6, <3>8 DEF SameRegs, IsBase, IsIndex
      <4> QED
        BY <2>1, <3>1, <4>1 DEF Takes
    <3> QED
      BY <3>5, <3>7, <3>8
  <2> QED
    BY <2>4, <2>5
<1> QED
  BY <1>1, <1>2

\* The registers of the brackets from the i-th, and what is known of them then.
PlacesFrom(text, i) == { p \in Places(text) : p[1] >= i }
RegsFrom(text, i) == { p \in PlacesFrom(text, i) : ~IsNum(TermAt(text, p)) }
Finds(k, text, i) ==
  \/ k.type = "UNK" /\ RegsFrom(text, i) = {}
  \/ \E p : RegsFrom(text, i) = {p} /\ IsBase(TermAt(text, p), k) /\ ~k.scaled
  \/ \E p, q : RegsFrom(text, i) = {p, q} /\ p # q /\ IsBase(TermAt(text, p), k) /\ IsIndex(TermAt(text, q), k)
NumAt(text) == [p \in Places(text) |-> TermAt(text, p).num]
Brackets == Seq(Seq(Terms) \ {<<>>})
Reading(k, text, i) ==
  /\ k \in Ctl /\ Sane(k) /\ IsFiniteSet(PlacesFrom(text, i))
  /\ k.num = SumFunctionOnSet(NumAt(text), PlacesFrom(text, i))
  /\ k.status = "NUM" => Finds(k, text, i)

LEMMA PlacesAre ==
  ASSUME NEW text, text.brackets \in Brackets
  PROVE  /\ \A p \in Places(text) : /\ p[1] \in 1 .. Len(text.brackets) /\ p[2] \in 1 .. Len(text.brackets[p[1]])
                                    /\ p = <<p[1], p[2]>> /\ TermAt(text, p) \in Terms
         /\ \A i \in 1 .. Len(text.brackets) : \A j \in 1 .. Len(text.brackets[i]) :
              <<i, j>> \in Places(text) /\ TermAt(text, <<i, j>>) = text.brackets[i][j]
         /\ \A i \in 1 .. Len(text.brackets) : text.brackets[i] \in Seq(Terms) /\ text.brackets[i] # <<>>
BY DEF Places, TermAt, Brackets

LEMMA ReadOneMore ==
  ASSUME NEW text, text.brackets \in Brackets, NEW i \in 1 .. Len(text.brackets),
         NEW k, Reading(k, text, i + 1), NEW r, r = Bracket(text.brackets[i], k)
  PROVE  Reading(r, text, i)
<1> DEFINE t == text.brackets[i]
           Here == { p \in Places(text) : p[1] = i }
           N == NumAt(text)
<1>0. t \in Seq(Terms) /\ t # <<>> /\ t \in Seq(Terms) \ {<<>>} /\ i \in Nat /\ Len(t) \in Nat /\ 1 <= Len(t)
      /\ Len(text.brackets) \in Nat
  BY PlacesAre DEF Brackets
<1>1. r \in Ctl /\ r.num = k.num + Sum(t) /\ Sane(r) /\ (r.status = "NUM" => k.status = "NUM" /\ Takes(t, k, r))
  <2> HIDE DEF t
  <2>1. r = Bracket(t, k)
    BY DEF t
  <2> QED
    BY <1>0, <2>1, BracketIs DEF Reading
<1>2. PlacesFrom(text, i) = PlacesFrom(text, i + 1) \cup Here /\ PlacesFrom(text, i + 1) \cap Here = {}
  <2>1. \A p \in Places(text) : p[1] \in Nat
    BY <1>0, PlacesAre
  <2>2. \A p \in Places(text) : p[1] >= i <=> (p[1] >= i + 1 \/ p[1] = i)
    BY <1>0, <2>1
  <2>3. \A p \in Places(text) : ~(p[1] >= i + 1 /\ p[1] = i)
    BY <1>0, <2>1
  <2> QED
    BY <2>2, <2>3 DEF PlacesFrom
<1>3. \A p \in Here : p = <<i, p[2]>> /\ p[2] \in 1 .. Len(t) /\ TermAt(text, p) = t[p[2]]
  BY PlacesAre DEF TermAt
<1>4. \A j \in 1 .. Len(t) : <<i, j>> \in Here /\ TermAt(text, <<i, j>>) = t[j]
  BY PlacesAre
<1>5. IsFiniteSet(Here) /\ Sum(t) = SumFunctionOnSet(N, Here)
  <2> DEFINE o == [j \in 1 .. Len(t) |-> <<i, j>>]
             g == [j \in DOMAIN t |-> t[j].num]
  <2>1. DOMAIN t = 1 .. Len(t) /\ \A j \in 1 .. Len(t) : t[j] \in Terms /\ t[j].num \in Int
    BY <1>0 DEF Terms
  <2>2. \A j \in 1 .. Len(t) : o[j] \in Here /\ g[j] = N[o[j]] /\ N[o[j]] \in Int
    BY <1>4, <2>1 DEF NumAt
  <2>3. \A p \in Here : \E j \in 1 .. Len(t) : p = o[j]
    BY <1>3
  <2>4. \A j1, j2 \in 1 .. Len(t) : o[j1] = o[j2] => j1 = j2
    <3> SUFFICES ASSUME NEW j1 \in 1 .. Len(t), NEW j2 \in 1 .. Len(t), o[j1] = o[j2] PROVE j1 = j2
      OBVIOUS
    <3>1. <<i, j1>> = <<i, j2>>
      OBVIOUS
    <3>2. <<i, j1>>[2] = j1 /\ <<i, j2>>[2] = j2
      OBVIOUS
    <3> QED
      BY <3>1, <3>2
  <2>5. Sum(t) = SumFunctionOnSet(g, 1 .. Len(t))
    BY <2>1 DEF Sum, SumFunction
  <2> HIDE DEF o, g, N, Here, t
  <2>6. Numbers(o, Len(t), Here, g, N)
    BY <1>0, <2>2, <2>3, <2>4 DEF Numbers
  <2> QED
    BY <2>5, <2>6, SumRelabel
<1>6. IsFiniteSet(PlacesFrom(text, i)) /\ r.num = SumFunctionOnSet(N, PlacesFrom(text, i))
  <2>1. \A p \in PlacesFrom(text, i + 1) \cup Here : N[p] \in Int
    BY PlacesAre DEF NumAt, PlacesFrom, Terms
  <2>2. IsFiniteSet(PlacesFrom(text, i + 1)) /\ k.num = SumFunctionOnSet(N, PlacesFrom(text, i + 1))
    BY DEF Reading
  <2>3. IsFiniteSet(PlacesFrom(text, i + 1) \cup Here)
    BY <1>5, <2>2, FS_Union
  <2> HIDE DEF N, Here, t
  <2>4. SumFunctionOnSet(N, PlacesFrom(text, i + 1) \cup Here)
          = SumFunctionOnSet(N, PlacesFrom(text, i + 1)) + SumFunctionOnSet(N, Here)
    BY <1>2, <1>5, <2>1, <2>2, SumApart
  <2> QED
    BY <1>1, <1>2, <1>5, <2>2, <2>3, <2>4
<1>7. ASSUME r.status = "NUM" PROVE Finds(r, text, i)
  <2>1. k.status = "NUM" /\ Takes(t, k, r) /\ Finds(k, text, i + 1) /\ Sane(k)
    BY <1>1, <1>7 DEF Reading
  <2>2. RegsFrom(text, i) = RegsFrom(text, i + 1) \cup { p \in Here : ~IsNum(t[p[2]]) }
    BY <1>2, <1>3 DEF RegsFrom
  <2>3. ASSUME k.type = "UNK" PROVE RegsFrom(text, i + 1) = {} /\ ~k.scaled
    <3>1. \A p \in RegsFrom(text, i + 1) : ~IsBase(TermAt(text, p), k)
      <4>1. \A p \in RegsFrom(text, i + 1) : TermAt(text, p) \in Terms
        BY PlacesAre DEF RegsFrom, PlacesFrom
      <4> QED
        BY <2>3, <4>1 DEF IsBase, Terms, IsNum, RegTypes
    <3> QED
      BY <2>1, <2>3, <3>1 DEF Finds, Sane
  <2>4. CASE NumbersFrom(t, 1) /\ SameRegs(r, k)
    <3>1. RegsFrom(text, i) = RegsFrom(text, i + 1)
      BY <1>0, <1>3, <2>2, <2>4 DEF NumbersFrom
    <3> QED
      BY <2>1, <2>4, <3>1 DEF Finds, SameRegs, IsBase, IsIndex
  <2>5. CASE k.type = "UNK" /\ IsBase(t[1], r) /\ NumbersFrom(t, 2) /\ r.scaled = k.scaled
    <3>1. RegsFrom(text, i) = {<<i, 1>>}
      <4>1. \A p \in Here : ~IsNum(t[p[2]]) => p = <<i, 1>>
        BY <1>0, <1>3, <2>5 DEF NumbersFrom
      <4>2. <<i, 1>> \in Here /\ ~IsNum(t[<<i, 1>>[2]])
        BY <1>0, <1>4, <2>5 DEF IsBase
      <4> HIDE DEF Here, t
      <4> QED
        BY <2>2, <2>3, <2>5, <4>1, <4>2
    <3>2. TermAt(text, <<i, 1>>) = t[1]
      BY <1>0, <1>4
    <3> QED
      BY <2>3, <2>5, <3>1, <3>2 DEF Finds
  <2>6. CASE k.type = "UNK" /\ IsBase(t[1], r) /\ NumbersFrom(t, 3) /\ 2 <= Len(t) /\ IsIndex(t[2], r)
    <3>1. RegsFrom(text, i) = {<<i, 1>>, <<i, 2>>}
      <4>1. \A p \in Here : ~IsNum(t[p[2]]) => p = <<i, 1>> \/ p = <<i, 2>>
        BY <1>0, <1>3, <2>6 DEF NumbersFrom
      <4>2. <<i, 1>> \in Here /\ ~IsNum(t[<<i, 1>>[2]]) /\ <<i, 2>> \in Here /\ ~IsNum(t[<<i, 2>>[2]])
        BY <1>0, <1>4, <2>6 DEF IsBase, IsIndex
      <4> HIDE DEF Here, t
      <4> QED
        BY <2>2, <2>3, <2>6, <4>1, <4>2
    <3>2. TermAt(text, <<i, 1>>) = t[1] /\ TermAt(text, <<i, 2>>) = t[2] /\ <<i, 1>> # <<i, 2>>
      BY <1>0, <1>4, <2>6
    <3> QED
      BY <2>6, <3>1, <3>2 DEF Finds
  <2> QED
    BY <2>1, <2>4, <2>5, <2>6 DEF Takes
<1> QED
  BY <1>1, <1>6, <1>7 DEF Reading

LEMMA AllRead ==
  ASSUME NEW text, IsText(text)
  PROVE  LET k == Opr2n(text)
         IN  /\ k \in Ctl /\ Sane(k) /\ k.num = Offset(text)
             /\ k.status = "NUM" => Finds(k, text, 1)
<1> DEFINE n == Len(text.brackets)
<1>0. text.brackets \in Brackets /\ n \in Nat /\ text.lead \in Int
  BY DEF IsText, Brackets
<1>1. PICK f : /\ f[n + 1] = NoReg
               /\ \A i \in 1 .. n : f[i] = Bracket(text.brackets[i], f[i + 1])
               /\ Opr2n(text) = [f[1] EXCEPT !.num = @ + text.lead]
  BY <1>0, BracketsUnfold DEF Brackets
<1>2. Reading(NoReg, text, n + 1)
  <2>1. PlacesFrom(text, n + 1) = {} /\ RegsFrom(text, n + 1) = {}
    <3>1. \A p \in Places(text) : ~(p[1] >= n + 1)
      BY <1>0, PlacesAre
    <3> QED
      BY <3>1 DEF PlacesFrom, RegsFrom
  <2>2. NoReg \in Ctl /\ Sane(NoReg) /\ NoReg.type = "UNK" /\ NoReg.num = 0
    BY DEF NoReg, Ctl, Sane
  <2>3. IsFiniteSet({}) /\ SumFunctionOnSet(NumAt(text), {}) = 0
    BY SumEmpty, FS_EmptySet
  <2> QED
    BY <2>1, <2>2, <2>3 DEF Reading, Finds
<1> DEFINE Far == { j \in 0 .. n : ~Reading(f[n + 1 - j], text, n + 1 - j) }
<1>3. Far = {}
  <2> SUFFICES ASSUME Far # {} PROVE FALSE
    OBVIOUS
  <2>1. Far \subseteq Nat
    BY <1>0
  <2>2. Min(Far) \in Far /\ \A y \in Far : Min(Far) <= y
    <3> HIDE DEF Far
    <3> QED
      BY <2>1, NatMin
  <2> DEFINE j == Min(Far)
  <2>3. j \in 0 .. n /\ ~Reading(f[n + 1 - j], text, n + 1 - j)
    BY <2>2
  <2>4. j # 0
    BY <1>0, <1>1, <1>2, <2>3
  <2>5. j - 1 \in 0 .. n /\ ~(j <= j - 1)
    BY <1>0, <2>3, <2>4
  <2>6. j - 1 \notin Far
    <3> HIDE DEF Far
    <3> QED
      BY <2>2, <2>5
  <2> DEFINE i == n + 1 - j
  <2>7. i \in 1 .. n /\ n + 1 - (j - 1) = i + 1
    BY <1>0, <2>3, <2>4
  <2>8. Reading(f[i + 1], text, i + 1)
    BY <2>5, <2>6, <2>7
  <2>9. f[i] = Bracket(text.brackets[i], f[i + 1])
    BY <1>1, <2>7
  <2> HIDE DEF i, j
  <2>10. Reading(f[i], text, i)
    BY <1>0, <2>7, <2>8, <2>9, ReadOneMore
  <2> QED
    BY <2>3, <2>10 DEF i
<1>4. Reading(f[1], text, 1)
  <2>1. n \in 0 .. n /\ n \notin Far /\ n + 1 - n = 1
    BY <1>0, <1>3
  <2> QED
    BY <2>1
<1>5. PlacesFrom(text, 1) = Places(text)
  BY <1>0, PlacesAre DEF PlacesFrom
<1>6. Offset(text) = text.lead + SumFunctionOnSet(NumAt(text), Places(text))
  BY DEF Offset, SumFunction, NumAt
<1> DEFINE k == Opr2n(text)
<1>7. k \in Ctl /\ k.num = f[1].num + text.lead /\ SameRegs(k, f[1]) /\ k.status = f[1].status
  <2> DEFINE g == f[1]
  <2>1. g \in Ctl /\ k = [g EXCEPT !.num = g.num + text.lead]
    BY <1>1, <1>4 DEF Reading
  <2> HIDE DEF g, k
  <2>2. g.num + text.lead \in Int
    BY <1>0, <2>1 DEF Ctl
  <2>3. k \in Ctl /\ k.num = g.num + text.lead /\ SameRegs(k, g) /\ k.status = g.status
    BY <2>1, <2>2 DEF Ctl, SameRegs
  <2> QED
    BY <2>3 DEF g
<1>8. k.num = Offset(text)
  <2>1. f[1].num = SumFunctionOnSet(NumAt(text), Places(text)) /\ f[1].num \in Int
    BY <1>4, <1>5 DEF Reading, Ctl
  <2> QED
    BY <1>0, <1>6, <1>7, <2>1
<1>9. Sane(k)
  BY <1>4, <1>7 DEF Reading, Sane, SameRegs
<1>10. k.status = "NUM" => Finds(k, text, 1)
  BY <1>4, <1>7 DEF Reading, Finds, SameRegs, IsBase, IsIndex
<1> QED
  BY <1>7, <1>8, <1>9, <1>10

\* The bags of registers that an address can be.
One(p) == D!SetToBag({p})
Two(p, q, n) == D!(+)(One(p), [r \in {q} |-> n])
BagOf(m) ==
  IF m.type = "UNK" THEN D!EmptyBag
  ELSE IF m.scaled THEN Two(<<m.type, m.reg>>, <<"RAXtoRDI", m.index>>, <<1, 2, 4, 8>>[m.lv + 1])
       ELSE One(<<m.type, m.reg>>)

LEMMA OneIs ==
  ASSUME NEW p
  PROVE  One(p) = [r \in {p} |-> 1]
BY DEF One, D!SetToBag

LEMMA TwoDomain == ASSUME NEW p, NEW q, NEW n PROVE DOMAIN Two(p, q, n) = {p, q}
BY DEF Two, One, D!SetToBag, D!(+)

LEMMA TwoApart ==
  ASSUME NEW p, NEW q, NEW n \in Nat, p # q
  PROVE  Two(p, q, n)[p] = 1 /\ Two(p, q, n)[q] = n
BY DEF Two, One, D!SetToBag, D!(+)

LEMMA TwoTogether == ASSUME NEW p, NEW n \in Nat PROVE Two(p, p, n)[p] = 1 + n
BY DEF Two, One, D!SetToBag, D!(+)

LEMMA TwoIsFunction == ASSUME NEW p, NEW q, NEW n PROVE Two(p, q, n) = [r \in DOMAIN Two(p, q, n) |-> Two(p, q, n)[r]]
BY DEF Two, D!(+)

\* What _opr2val finds are the registers that are written.
LEMMA RegistersFound ==
  ASSUME NEW text, IsText(text), Opr2n(text).status = "NUM"
  PROVE  Added(text) = BagOf(Opr2n(text))
<1> DEFINE k == Opr2n(text)
           Names == { Name(TermAt(text, p)) : p \in Registers(text) }
           At1(r) == { q \in Registers(text) : Name(TermAt(text, q)) = r }
           F(r) == [p \in At1(r) |-> Times(TermAt(text, p))]
<1>0. text.brackets \in Brackets /\ k \in Ctl /\ Sane(k) /\ Finds(k, text, 1) /\ k.status = "NUM"
  BY AllRead DEF IsText, Brackets
<1>1. RegsFrom(text, 1) = Registers(text)
  <2>1. \A p \in Places(text) : p[1] >= 1
    BY <1>0, PlacesAre
  <2> QED
    BY <2>1 DEF Registers, RegsFrom, PlacesFrom
<1>2. Added(text) = [r \in Names |-> SumFunctionOnSet(F(r), At1(r))]
  BY DEF Added, SumFunction
<1>3. \A p \in Registers(text) : TermAt(text, p) \in Terms /\ Times(TermAt(text, p)) \in Nat /\ ~IsNum(TermAt(text, p))
  BY <1>0, PlacesAre DEF Registers, Terms, Times
<1> HIDE DEF k
<1>4. CASE k.type = "UNK" /\ RegsFrom(text, 1) = {}
  <2>1. Names = {}
    BY <1>1, <1>4
  <2>2. Added(text) = [r \in {} |-> 1]
    BY <1>2, <2>1
  <2> QED
    BY <1>4, <2>2 DEF BagOf, D!EmptyBag, D!SetToBag, k
<1>5. CASE \E p : RegsFrom(text, 1) = {p} /\ IsBase(TermAt(text, p), k) /\ ~k.scaled
  <2>1. PICK p : Registers(text) = {p} /\ IsBase(TermAt(text, p), k) /\ ~k.scaled
    BY <1>1, <1>5
  <2> DEFINE a == Name(TermAt(text, p))
  <2>2. Names = {a} /\ At1(a) = {p} /\ F(a)[p] = 1
    BY <2>1 DEF IsBase, Times
  <2>3. a = <<k.type, k.reg>> /\ k.type # "UNK"
    <3>1. k.type \in RegTypes
      BY <1>3, <2>1 DEF IsBase, Terms, IsNum
    <3> QED
      BY <2>1, <3>1 DEF IsBase, Name, RegTypes
  <2> HIDE DEF a
  <2>4. SumFunctionOnSet(F(a), At1(a)) = 1
    <3> HIDE DEF F, At1
    <3> QED
      BY <2>2, SumOne
  <2>5. Added(text) = [r \in {a} |-> 1]
    <3> HIDE DEF F, At1, Names
    <3> QED
      BY <1>2, <2>2, <2>4
  <2> QED
    BY <2>1, <2>3, <2>5 DEF BagOf, One, D!SetToBag, k
<1>6. CASE \E p, q : /\ RegsFrom(text, 1) = {p, q} /\ p # q
                     /\ IsBase(TermAt(text, p), k) /\ IsIndex(TermAt(text, q), k)
  <2>1. PICK p, q : Registers(text) = {p, q} /\ p # q /\ IsBase(TermAt(text, p), k) /\ IsIndex(TermAt(text, q), k)
    BY <1>1, <1>6
  <2> DEFINE a == Name(TermAt(text, p))
             c == Name(TermAt(text, q))
             w == Times(TermAt(text, q))
  <2>2. w \in Nat /\ Times(TermAt(text, p)) = 1 /\ w = <<1, 2, 4, 8>>[k.lv + 1] /\ k.scaled
    BY <1>3, <2>1 DEF IsBase, IsIndex, Times
  <2>0. w \in Nat /\ w \in Int
    BY <2>2
  <2>3. a = <<k.type, k.reg>> /\ k.type # "UNK" /\ c = <<"RAXtoRDI", k.index>>
    <3>1. k.type \in RegTypes
      BY <1>3, <2>1 DEF IsBase, Terms, IsNum
    <3> QED
      BY <2>1, <3>1 DEF IsBase, IsIndex, Name, RegTypes
  <2>4. Names = {a, c} /\ p \in At1(a) /\ q \in At1(c)
    BY <2>1
  <2>5. CASE a = c
    <3>1. At1(a) = {p, q} /\ F(a)[p] = 1 /\ F(a)[q] = w /\ Names = {a}
      BY <2>1, <2>2, <2>4, <2>5
    <3> HIDE DEF a, c, w
    <3>2. SumFunctionOnSet(F(a), {q}) = w
      <4> HIDE DEF F
      <4> QED
        BY <2>0, <3>1, SumOne
    <3>3. SumFunctionOnSet(F(a), At1(a)) = 1 + w
      <4>1. {p, q} = {q} \cup {p} /\ p \notin {q} /\ IsFiniteSet({q})
        BY <2>1, FS_Singleton
      <4> HIDE DEF F, At1
      <4>2. \A i \in {q} \cup {p} : F(a)[i] \in Int
        BY <2>2, <3>1
      <4>3. SumFunctionOnSet(F(a), {q} \cup {p}) = F(a)[p] + SumFunctionOnSet(F(a), {q})
        BY <4>1, <4>2, SumAdd
      <4> QED
        BY <3>1, <3>2, <4>1, <4>3
    <3>4. Added(text) = [r \in {a} |-> 1 + w]
      <4> HIDE DEF F, At1, Names
      <4> QED
        BY <1>2, <3>1, <3>3
    <3>5. Two(a, c, w) = [r \in {a} |-> 1 + w]
      <4>1. DOMAIN Two(a, c, w) = {a, c} /\ Two(a, c, w)[a] = 1 + w
        BY <2>0, <2>5, TwoTogether, TwoDomain
      <4> QED
        BY <2>5, <4>1, TwoIsFunction
    <3> QED
      BY <2>2, <2>3, <3>4, <3>5 DEF BagOf, k
  <2>6. CASE a # c
    <3>1. At1(a) = {p} /\ F(a)[p] = 1 /\ At1(c) = {q} /\ F(c)[q] = w
      BY <2>1, <2>2, <2>4, <2>6
    <3> HIDE DEF a, c, w
    <3>2. SumFunctionOnSet(F(a), At1(a)) = 1 /\ SumFunctionOnSet(F(c), At1(c)) = w
      <4> HIDE DEF F, At1
      <4>1. SumFunctionOnSet(F(a), {p}) = 1
        BY <3>1, SumOne
      <4>2. SumFunctionOnSet(F(c), {q}) = w
        BY <2>0, <3>1, SumOne
      <4> QED
        BY <3>1, <4>1, <4>2
    <3>3. DOMAIN Added(text) = {a, c} /\ Added(text) = [r \in {a, c} |-> Added(text)[r]]
          /\ Added(text)[a] = 1 /\ Added(text)[c] = w
      <4> HIDE DEF F, At1, Names
      <4> QED
        BY <1>2, <2>4, <3>2
    <3>4. Added(text) = Two(a, c, w)
      <4>1. DOMAIN Two(a, c, w) = {a, c} /\ Two(a, c, w)[a] = 1 /\ Two(a, c, w)[c] = w
        <5>1. DOMAIN Two(a, c, w) = {a, c}
          BY TwoDomain
        <5>2. Two(a, c, w)[a] = 1
          BY <2>0, <2>6, TwoApart
        <5>3. Two(a, c, w)[c] = w
          BY <2>0, <2>6, TwoApart
        <5> QED
          BY <5>1, <5>2, <5>3
      <4>2. \A r \in {a, c} : Added(text)[r] = Two(a, c, w)[r]
        BY <3>3, <4>1
      <4>3. Two(a, c, w) = [r \in {a, c} |-> Two(a, c, w)[r]]
        BY <4>1, TwoIsFunction
      <4> QED
        BY <3>3, <4>2, <4>3
    <3> QED
      BY <2>2, <2>3, <3>4 DEF BagOf, k
  <2> QED
    BY <2>5, <2>6
<1> QED
  BY <1>0, <1>4, <1>5, <1>6 DEF Finds

------------------------------------------------------------------------------
\* What the parser hands to the encoders.
Shape(x) ==
  \/ x = None
  \/ x \in [kind : {"reg"}, type : RegTypes, reg : 0 .. 7] /\ (x.type = "SPLtoDIL" => x.reg > 3)
  \/ x \in [kind : {"imm"}, num : Int32]
  \/ x.kind = "no"
  \/ /\ x.kind = "mem" /\ x.type \in RegTypes \cup {"UNK"} /\ x.reg \in 0 .. 7 /\ x.scaled \in BOOLEAN
     /\ x.index \in 0 .. 7 /\ x.lv \in 0 .. 3 /\ x.num \in Int32 /\ (x.type = "UNK" => ~x.scaled)

\* What is to be read of it.
Want(x, size) ==
  CASE x.kind = "mem" -> D!Mem(size, BagOf(x), x.num)
    [] x.kind = "imm" -> D!Imm(x.num, size)
    [] OTHER -> x
Means(mn, d, s) ==
  D!Instruction(IF mn = "sal" THEN "shl" ELSE mn,
                Want(d, SizeOf(d)),
                Want(IF mn \in DOMAIN ShiftOp THEN Imm(Count(s)) ELSE s, SrcSize(mn, d, s)))

LEMMA ParsedIs ==
  ASSUME NEW o, IsOperand(o)
  PROVE  /\ Shape(Parsed(o))
         /\ Parsed(o).kind # "no" =>
              /\ Parsed(o).kind = o.kind /\ SizeOf(Parsed(o)) = SizeOf(o)
              /\ o.kind = "mem" => Parsed(o).size = o.size
              /\ o.kind # "mem" => Parsed(o) = o
              /\ \A size : Written(o, size) = Want(Parsed(o), size)
<1>1. CASE o.kind # "mem"
  <2>1. Parsed(o) = o
    BY <1>1 DEF Parsed
  <2>2. Shape(o)
    BY <1>1 DEF IsOperand, Shape
  <2>3. \A size : Written(o, size) = Want(o, size)
    BY <1>1 DEF Written, Want
  <2> QED
    BY <1>1, <2>1, <2>2, <2>3
<1>2. CASE o.kind = "mem"
  <2> DEFINE k == Opr2n(o.text)
             x == Parsed(o)
  <2>1. IsText(o.text)
    BY <1>2 DEF IsOperand, None
  <2>2. k \in Ctl /\ Sane(k) /\ k.num = Offset(o.text) /\ k.num \in Int32
        /\ (k.status = "NUM" => Finds(k, o.text, 1))
    BY <2>1, AllRead DEF IsText
  <2> HIDE DEF k
  <2>3. x = [kind |-> IF k.status = "NUM" THEN "mem" ELSE "no", size |-> o.size, type |-> k.type,
             reg |-> k.reg, scaled |-> k.scaled, index |-> k.index, lv |-> k.lv, num |-> k.num]
    BY <1>2 DEF Parsed, k
  <2>4. CASE k.status = "NUM"
    <3>1. k.type = "UNK" => ~k.scaled
      BY <2>2, <2>4 DEF Sane
    <3>2. Added(o.text) = BagOf(x)
      <4>1. Added(o.text) = BagOf(k)
        BY <2>1, <2>4, RegistersFound DEF k
      <4>2. BagOf(k) = BagOf(x)
        <5>1. x.type = k.type /\ x.reg = k.reg /\ x.scaled = k.scaled /\ x.index = k.index /\ x.lv = k.lv
          BY <2>3
        <5> QED
          BY <5>1 DEF BagOf
      <4> QED
        BY <4>1, <4>2
    <3>3. x.kind = "mem" /\ x.size = o.size /\ x.num = Offset(o.text)
      BY <2>2, <2>3, <2>4
    <3>4. Shape(x)
      BY <2>2, <2>3, <2>4, <3>1 DEF Shape, Ctl
    <3>5. \A size : Written(o, size) = Want(x, size)
      <4> HIDE DEF x
      <4> QED
        BY <1>2, <3>2, <3>3 DEF Written, Want
    <3>6. SizeOf(x) = SizeOf(o)
      <4> HIDE DEF x
      <4> QED
        BY <1>2, <3>3 DEF SizeOf
    <3> HIDE DEF x
    <3> QED
      BY <1>2, <3>3, <3>4, <3>5, <3>6 DEF x
  <2>5. CASE k.status # "NUM"
    <3>1. x.kind = "no"
      BY <2>3, <2>5
    <3> QED
      BY <3>1 DEF Shape
  <2> QED
    BY <2>4, <2>5
<1> QED
  BY <1>1, <1>2

\* The statement in hand, as the encoder has it and as it was meant.
Statement == \E mn, d, s : line = Line(mn, d, s) /\ IsStatement(mn, d, s)
Taken(x) == Shape(x) /\ x.kind # "no"
InHand(mns) ==
  /\ Is(mns) /\ Shape(Dst) /\ Shape(Src)
  /\ line.mn \in OneOperand => Src = None
  /\ line.mn \in DOMAIN Flags => Dst = None /\ Src = None
  /\ Taken(Dst) /\ Taken(Src) /\ (line.mn \in DOMAIN ShiftOp => Src.kind # "mem")
       => Meant(line) = Means(line.mn, Dst, Src)

LEMMA StatementInHand ==
  ASSUME NEW mns, Statement, Is(mns)
  PROVE  InHand(mns)
<1>1. PICK mn, d, s : line = Line(mn, d, s) /\ IsStatement(mn, d, s)
  BY DEF Statement
<1>2. line.mn = mn /\ Dst = Parsed(d) /\ Src = Parsed(s) /\ line.written = <<d, s>>
  BY <1>1 DEF Line, Dst, Src
<1>3. IsOperand(d) /\ IsOperand(s)
  BY <1>1 DEF IsStatement
<1>4. Shape(Dst) /\ Shape(Src)
  BY <1>2, <1>3, ParsedIs
<1>5. Parsed(None) = None
  BY DEF Parsed, None
<1>6. /\ line.mn \in OneOperand => Src = None
      /\ line.mn \in DOMAIN Flags => Dst = None /\ Src = None
  BY <1>1, <1>2, <1>5 DEF IsStatement
<1>7. ASSUME Taken(Dst), Taken(Src), line.mn \in DOMAIN ShiftOp => Src.kind # "mem"
      PROVE  Meant(line) = Means(line.mn, Dst, Src)
  <2> DEFINE t == IF mn \in DOMAIN ShiftOp THEN Imm(Count(s)) ELSE s
             u == IF mn \in DOMAIN ShiftOp THEN Imm(Count(Src)) ELSE Src
  <2>1. Dst.kind = d.kind /\ SizeOf(Dst) = SizeOf(d) /\ \A size : Written(d, size) = Want(Dst, size)
    BY <1>2, <1>3, <1>7, ParsedIs DEF Taken
  <2>2. Src.kind = s.kind /\ (s.kind = "mem" => Src.size = s.size) /\ (s.kind # "mem" => Src = s)
        /\ \A size : Written(s, size) = Want(Src, size)
    BY <1>2, <1>3, <1>7, ParsedIs DEF Taken
  <2>3. SrcSize(mn, d, s) = SrcSize(mn, Dst, Src)
    BY <2>1, <2>2 DEF SrcSize
  <2>4. \A size : Written(t, size) = Want(u, size)
    <3>1. CASE mn \in DOMAIN ShiftOp
      <4>1. Count(s) = Count(Src)
        BY <1>2, <1>7, <2>2, <3>1
      <4> QED
        BY <3>1, <4>1 DEF Written, Want, Imm
    <3>2. CASE mn \notin DOMAIN ShiftOp
      BY <2>2, <3>2
    <3> QED
      BY <3>1, <3>2
  <2>5. Meant(line) = D!Instruction(IF mn = "sal" THEN "shl" ELSE mn, Written(d, SizeOf(d)), Written(t, SrcSize(mn, d, s)))
    BY <1>2 DEF Meant, MeantBy
  <2>6. Means(line.mn, Dst, Src) = D!Instruction(IF mn = "sal" THEN "shl" ELSE mn, Want(Dst, SizeOf(Dst)), Want(u, SrcSize(mn, Dst, Src)))
    BY <1>2 DEF Means
  <2> HIDE DEF t, u
  <2> QED
    BY <2>1, <2>3, <2>4, <2>5, <2>6
<1> QED
  BY <1>4, <1>6, <1>7 DEF InHand

------------------------------------------------------------------------------
\* What Decode reads: the prefixes.
Rx(w, r, b) == [w |-> w, r |-> r, x |-> 0, b |-> b]
Prefix(short, isRex, rex) == [short |-> short, isRex |-> isRex, rex |-> rex]
P0 == Prefix(FALSE, FALSE, Rx(0, 0, 0))
P66 == Prefix(TRUE, FALSE, Rx(0, 0, 0))
PRex(w, r, b) == Prefix(FALSE, TRUE, Rx(w, r, b))
P66B == Prefix(TRUE, TRUE, Rx(0, 0, 1))

LEMMA RexIs ==
  /\ D!NoRex = Rx(0, 0, 0)
  /\ D!Rex(64) = Rx(0, 0, 0) /\ D!Rex(65) = Rx(0, 0, 1) /\ D!Rex(72) = Rx(1, 0, 0)
  /\ D!Rex(73) = Rx(1, 0, 1) /\ D!Rex(76) = Rx(1, 1, 0) /\ D!Rex(77) = Rx(1, 1, 1)
BY DEF D!NoRex, D!Rex, D!Bit, Rx

\* An opcode, the first of no prefix.
IsOp(b) == b \in 0 .. 255 /\ b # 102 /\ b \notin 64 .. 79
Starts(c, o, p) == D!Decoded(c) = D!Opcode(c, o, p)

LEMMA NoPrefix ==
  ASSUME NEW c,
         Len(c) \in Nat, 1 <= Len(c), IsOp(c[1])
  PROVE  Starts(c, 1, P0)
<1>1. c[1] # 102 /\ ~D!IsRex(c[1]) /\ ~(Len(c) < 1)
  BY DEF IsOp, D!IsRex
<1>2. [short |-> FALSE, isRex |-> FALSE, rex |-> D!NoRex] = P0
  BY RexIs DEF P0, Prefix
<1> QED
  BY <1>1, <1>2 DEF Starts, D!Decoded

LEMMA Prefix66 ==
  ASSUME NEW c,
         Len(c) \in Nat, 2 <= Len(c), c[1] = 102, IsOp(c[2])
  PROVE  Starts(c, 2, P66)
<1>1. ~D!IsRex(c[2]) /\ ~(Len(c) < 2)
  BY DEF IsOp, D!IsRex
<1>2. [short |-> TRUE, isRex |-> FALSE, rex |-> D!NoRex] = P66
  BY RexIs DEF P66, Prefix
<1> QED
  BY <1>1, <1>2 DEF Starts, D!Decoded

LEMMA PrefixRex ==
  ASSUME NEW c,
         Len(c) \in Nat, 2 <= Len(c), c[1] \in {64, 65, 72, 73, 76, 77}
  PROVE  Starts(c, 2, Prefix(FALSE, TRUE, D!Rex(c[1])))
<1>1. c[1] # 102 /\ D!IsRex(c[1]) /\ Len(c) >= 1 /\ ~(Len(c) < 2) /\ 1 + 1 = 2
  BY DEF D!IsRex
<1>2. D!Decoded(c) = D!Opcode(c, 2, [short |-> FALSE, isRex |-> TRUE, rex |-> D!Rex(c[1])])
  BY <1>1 DEF D!Decoded
<1> QED
  BY <1>2 DEF Starts, Prefix

LEMMA Prefix66Rex ==
  ASSUME NEW c,
         Len(c) \in Nat, 3 <= Len(c), c[1] = 102, c[2] = 65
  PROVE  Starts(c, 3, P66B)
<1>1. D!IsRex(c[2]) /\ Len(c) >= 2 /\ ~(Len(c) < 3) /\ 2 + 1 = 3
  BY DEF D!IsRex
<1>2. D!Decoded(c) = D!Opcode(c, 3, [short |-> TRUE, isRex |-> TRUE, rex |-> D!Rex(c[2])])
  BY <1>1 DEF D!Decoded
<1> QED
  BY <1>2, RexIs DEF Starts, Prefix, P66B

\* The bits of ModRM and SIB.
LEMMA Bits ==
  ASSUME NEW a \in 0 .. 3, NEW g \in 0 .. 7, NEW n \in 0 .. 7
  PROVE  LET b == 64 * a + 8 * g + n IN b \div 64 = a /\ (b \div 8) % 8 = g /\ b % 8 = n
OBVIOUS

\* Numbers of one, two and four bytes.
SByte(v) == IF v % 256 > 127 THEN (v % 256) - 256 ELSE v % 256

LEMMA SByteIs ==
  ASSUME NEW v \in Int
  PROVE  /\ SByte(v) \in Int /\ (SByte(v) = v <=> Byte(v))
         /\ SByte(v) % 256 = v % 256
BY DEF SByte, Byte

LEMMA SignedByte ==
  ASSUME NEW c, NEW i \in Nat, NEW v \in Int, c[i] = Low(v)
  PROVE  D!Signed(c, i, 1) = SByte(v)
BY DEF D!Signed, SByte, Low

Quad(c, i, v) == \A k \in 1 .. 4 : c[i + k - 1] = Bytes(v, 4)[k]
Pair(c, i, v) == \A k \in 1 .. 2 : c[i + k - 1] = Bytes(v, 2)[k]

LEMMA PairIs ==
  ASSUME NEW c, NEW i \in Nat, NEW v \in Int, Pair(c, i, v)
  PROVE  D!Signed(c, i, 2) % 65536 = v % 65536
<1>1. c[i] = v % 256 /\ c[i + 1] = (v \div 256) % 256
  <2>1. Bytes(v, 2)[1] = v % 256 /\ Bytes(v, 2)[2] = (v \div 256) % 256
    BY DEF Bytes
  <2>2. i + 1 - 1 = i /\ i + 2 - 1 = i + 1
    OBVIOUS
  <2> QED
    BY <2>1, <2>2 DEF Pair
<1>2. D!Signed(c, i, 2) = c[i] + 256 * (IF c[i + 1] > 127 THEN c[i + 1] - 256 ELSE c[i + 1])
  <2>1. i + 1 - 1 = i /\ i + 2 - 1 = i + 1
    OBVIOUS
  <2> QED
    BY <2>1 DEF D!Signed
<1> QED
  BY <1>1, <1>2

------------------------------------------------------------------------------
\* What Decode reads: the opcode.
LEMMA PlainIs == DOMAIN D!Plain = {144, 195, 201, 248, 249, 158, 159}
BY DEF D!Plain

LEMMA Dispatch ==
  ASSUME NEW c, NEW o, NEW p
  PROVE  /\ c[o] = 15 => D!Opcode(c, o, p) = D!Escaped(c, o + 2, p, IF Len(c) > o THEN c[o + 1] ELSE 0)
         /\ c[o] \in 0 .. 63 /\ c[o] # 15 => D!Opcode(c, o, p) = D!OneOfAlu(c, o + 1, p, D!Alu[c[o] \div 8 + 1], c[o] % 8)
         /\ c[o] \in 80 .. 95 => D!Opcode(c, o, p) = D!WithReg(c, o, p)
         /\ c[o] \in 176 .. 191 => D!Opcode(c, o, p) = D!WithReg(c, o, p)
         /\ c[o] \in {135, 136, 137, 138, 139, 141} => D!Opcode(c, o, p) = D!WithModRM(c, o, p)
         /\ c[o] \in {128, 129, 131, 192, 193, 208} => D!Opcode(c, o, p) = D!OneOfEight(c, o, p)
         /\ c[o] \in {198, 199, 246, 247, 254, 255} => D!Opcode(c, o, p) = D!OneOfFew(c, o, p)
         /\ c[o] \in DOMAIN D!Plain => D!Opcode(c, o, p) = D!UsesUp(c, o, D!Instruction(D!Plain[c[o]], D!None, D!None))
<1> DEFINE mn == D!Alu[c[o] \div 8 + 1]
           form == c[o] % 8
           second == IF Len(c) > o THEN c[o + 1] ELSE 0
           alu == D!OneOfAlu(c, o + 1, p, mn, form)
           escaped == D!Escaped(c, o + 2, p, second)
           plain == D!UsesUp(c, o, D!Instruction(D!Plain[c[o]], D!None, D!None))
<1>1. D!Opcode(c, o, p) =
        CASE c[o] = 15 -> escaped
          [] c[o] < 64 /\ c[o] # 15 -> alu
          [] c[o] \in (80 .. 95) \cup (176 .. 191) -> D!WithReg(c, o, p)
          [] c[o] \in {135, 136, 137, 138, 139, 141} -> D!WithModRM(c, o, p)
          [] c[o] \in {128, 129, 131, 192, 193, 208} -> D!OneOfEight(c, o, p)
          [] c[o] \in {198, 199, 246, 247, 254, 255} -> D!OneOfFew(c, o, p)
          [] c[o] \in DOMAIN D!Plain -> plain
          [] OTHER -> D!Bad
  BY Zenon DEF D!Opcode
<1> HIDE DEF alu, escaped, plain
<1>2. /\ c[o] = 15 => D!Opcode(c, o, p) = escaped
      /\ c[o] \in 0 .. 63 /\ c[o] # 15 => D!Opcode(c, o, p) = alu
      /\ c[o] \in 80 .. 95 => D!Opcode(c, o, p) = D!WithReg(c, o, p)
      /\ c[o] \in 176 .. 191 => D!Opcode(c, o, p) = D!WithReg(c, o, p)
      /\ c[o] \in {135, 136, 137, 138, 139, 141} => D!Opcode(c, o, p) = D!WithModRM(c, o, p)
      /\ c[o] \in {128, 129, 131, 192, 193, 208} => D!Opcode(c, o, p) = D!OneOfEight(c, o, p)
      /\ c[o] \in {198, 199, 246, 247, 254, 255} => D!Opcode(c, o, p) = D!OneOfFew(c, o, p)
      /\ c[o] \in DOMAIN D!Plain => D!Opcode(c, o, p) = plain
  BY <1>1, PlainIs
<1> QED
  BY <1>2 DEF alu, escaped, plain

LEMMA DispatchAlu ==
  ASSUME NEW c, NEW o, NEW p, c[o] \in 0 .. 63, c[o] # 15
  PROVE  D!Opcode(c, o, p) = D!OneOfAlu(c, o + 1, p, D!Alu[c[o] \div 8 + 1], c[o] % 8)
BY Dispatch

LEMMA DispatchEscaped ==
  ASSUME NEW c, NEW o, NEW p, o \in Nat, Len(c) \in Nat, Len(c) > o, c[o] = 15
  PROVE  D!Opcode(c, o, p) = D!Escaped(c, o + 2, p, c[o + 1])
BY Dispatch

LEMMA DispatchReg ==
  ASSUME NEW c, NEW o, NEW p, c[o] \in 80 .. 95 \/ c[o] \in 176 .. 191
  PROVE  D!Opcode(c, o, p) = D!WithReg(c, o, p)
BY Dispatch

LEMMA DispatchModRM ==
  ASSUME NEW c, NEW o, NEW p, c[o] \in {135, 136, 137, 138, 139, 141}
  PROVE  D!Opcode(c, o, p) = D!WithModRM(c, o, p)
BY Dispatch

LEMMA DispatchEight ==
  ASSUME NEW c, NEW o, NEW p, c[o] \in {128, 129, 131, 192, 193, 208}
  PROVE  D!Opcode(c, o, p) = D!OneOfEight(c, o, p)
BY Dispatch

LEMMA DispatchFew ==
  ASSUME NEW c, NEW o, NEW p, c[o] \in {198, 199, 246, 247, 254, 255}
  PROVE  D!Opcode(c, o, p) = D!OneOfFew(c, o, p)
BY Dispatch

LEMMA OpAlu0 ==
  ASSUME NEW c, NEW o, NEW p, NEW k,
         k \in 0 .. 7, c[o] = 8 * k
  PROVE  D!Opcode(c, o, p) = D!MR(c, o + 1, p, D!Alu[k + 1], 8)
<1>1. c[o] \in 0 .. 63 /\ c[o] % 8 = 0 /\ c[o] \div 8 = k /\ c[o] # 15
  OBVIOUS
<1>2. D!Opcode(c, o, p) = D!OneOfAlu(c, o + 1, p, D!Alu[k + 1], 0)
  BY <1>1, DispatchAlu
<1> QED
  BY <1>2 DEF D!OneOfAlu

LEMMA OpAlu1 ==
  ASSUME NEW c, NEW o, NEW p, NEW k,
         k \in 0 .. 7, c[o] = 8 * k + 1
  PROVE  D!Opcode(c, o, p) = D!MR(c, o + 1, p, D!Alu[k + 1], D!Size(p))
<1>1. c[o] \in 0 .. 63 /\ c[o] % 8 = 1 /\ c[o] \div 8 = k /\ c[o] # 15
  OBVIOUS
<1>2. D!Opcode(c, o, p) = D!OneOfAlu(c, o + 1, p, D!Alu[k + 1], 1)
  BY <1>1, DispatchAlu
<1> QED
  BY <1>2 DEF D!OneOfAlu

LEMMA OpAlu2 ==
  ASSUME NEW c, NEW o, NEW p, NEW k,
         k \in 0 .. 7, c[o] = 8 * k + 2
  PROVE  D!Opcode(c, o, p) = D!RM(c, o + 1, p, D!Alu[k + 1], 8, 8)
<1>1. c[o] \in 0 .. 63 /\ c[o] % 8 = 2 /\ c[o] \div 8 = k /\ c[o] # 15
  OBVIOUS
<1>2. D!Opcode(c, o, p) = D!OneOfAlu(c, o + 1, p, D!Alu[k + 1], 2)
  BY <1>1, DispatchAlu
<1> QED
  BY <1>2 DEF D!OneOfAlu

LEMMA OpAlu3 ==
  ASSUME NEW c, NEW o, NEW p, NEW k,
         k \in 0 .. 7, c[o] = 8 * k + 3
  PROVE  D!Opcode(c, o, p) = D!RM(c, o + 1, p, D!Alu[k + 1], D!Size(p), D!Size(p))
<1>1. c[o] \in 0 .. 63 /\ c[o] % 8 = 3 /\ c[o] \div 8 = k /\ c[o] # 15
  OBVIOUS
<1>2. D!Opcode(c, o, p) = D!OneOfAlu(c, o + 1, p, D!Alu[k + 1], 3)
  BY <1>1, DispatchAlu
<1> QED
  BY <1>2 DEF D!OneOfAlu

LEMMA OpAlu4 ==
  ASSUME NEW c, NEW o, NEW p, NEW k,
         k \in 0 .. 7, c[o] = 8 * k + 4
  PROVE  D!Opcode(c, o, p) = D!I(c, o + 1, D!Alu[k + 1], D!Register(8, 0, FALSE), 8, 1)
<1>1. c[o] \in 0 .. 63 /\ c[o] % 8 = 4 /\ c[o] \div 8 = k /\ c[o] # 15
  OBVIOUS
<1>2. D!Opcode(c, o, p) = D!OneOfAlu(c, o + 1, p, D!Alu[k + 1], 4)
  BY <1>1, DispatchAlu
<1> QED
  BY <1>2 DEF D!OneOfAlu

LEMMA OpAlu5 ==
  ASSUME NEW c, NEW o, NEW p, NEW k,
         k \in 0 .. 7, c[o] = 8 * k + 5
  PROVE  D!Opcode(c, o, p) = D!I(c, o + 1, D!Alu[k + 1], D!Register(D!Size(p), 0, FALSE), D!Size(p), D!Full(p))
<1>1. c[o] \in 0 .. 63 /\ c[o] % 8 = 5 /\ c[o] \div 8 = k /\ c[o] # 15
  OBVIOUS
<1>2. D!Opcode(c, o, p) = D!OneOfAlu(c, o + 1, p, D!Alu[k + 1], 5)
  BY <1>1, DispatchAlu
<1> QED
  BY <1>2 DEF D!OneOfAlu

LEMMA OpMR ==
  ASSUME NEW c, NEW o, NEW p
  PROVE  /\ c[o] = 135 => D!Opcode(c, o, p) = D!MR(c, o + 1, p, "xchg", D!Size(p))
         /\ c[o] = 136 => D!Opcode(c, o, p) = D!MR(c, o + 1, p, "mov", 8)
         /\ c[o] = 137 => D!Opcode(c, o, p) = D!MR(c, o + 1, p, "mov", D!Size(p))
BY DispatchModRM DEF D!WithModRM

LEMMA OpRM ==
  ASSUME NEW c, NEW o, NEW p
  PROVE  /\ c[o] = 138 => D!Opcode(c, o, p) = D!RM(c, o + 1, p, "mov", 8, 8)
         /\ c[o] = 139 => D!Opcode(c, o, p) = D!RM(c, o + 1, p, "mov", D!Size(p), D!Size(p))
         /\ c[o] = 141 => D!Opcode(c, o, p) = D!RM(c, o + 1, p, "lea", D!Size(p), 0)
BY DispatchModRM DEF D!WithModRM

LEMMA OpMov8 ==
  ASSUME NEW c, NEW o, NEW p, NEW n,
         n \in 0 .. 7, c[o] = 176 + n
  PROVE  D!Opcode(c, o, p) = D!I(c, o + 1, "mov", D!Register(8, n + 8 * p.rex.b, p.isRex), 8, 1)
<1>1. c[o] \in 176 .. 183 /\ c[o] % 8 = n
  OBVIOUS
<1>2. D!Opcode(c, o, p) = D!WithReg(c, o, p)
  <2>1. c[o] \in 80 .. 95 \/ c[o] \in 176 .. 191
    BY <1>1
  <2> QED
    BY <2>1, DispatchReg
<1> QED
  BY <1>1, <1>2 DEF D!WithReg, D!Coded, D!Pushed

LEMMA OpMov ==
  ASSUME NEW c, NEW o, NEW p, NEW n,
         n \in 0 .. 7, c[o] = 184 + n
  PROVE  D!Opcode(c, o, p) = D!I(c, o + 1, "mov", D!Register(D!Size(p), n + 8 * p.rex.b, p.isRex), D!Size(p), D!Full(p))
<1>1. c[o] \in 184 .. 191 /\ c[o] % 8 = n
  OBVIOUS
<1>2. D!Opcode(c, o, p) = D!WithReg(c, o, p)
  <2>1. c[o] \in 80 .. 95 \/ c[o] \in 176 .. 191
    BY <1>1
  <2> QED
    BY <2>1, DispatchReg
<1> QED
  BY <1>1, <1>2 DEF D!WithReg, D!Coded, D!Pushed

LEMMA OpPush ==
  ASSUME NEW c, NEW o, NEW p, NEW n,
         n \in 0 .. 7, c[o] = 80 + n
  PROVE  D!Opcode(c, o, p) = D!UsesUp(c, o, D!Instruction("push", D!Register(64, n + 8 * p.rex.b, TRUE), D!None))
<1>1. c[o] \in 80 .. 87 /\ c[o] % 8 = n
  OBVIOUS
<1>2. D!Opcode(c, o, p) = D!WithReg(c, o, p)
  <2>1. c[o] \in 80 .. 95 \/ c[o] \in 176 .. 191
    BY <1>1
  <2> QED
    BY <2>1, DispatchReg
<1>3. D!Pushed(c, o, p) = D!Register(64, n + 8 * p.rex.b, TRUE)
  BY <1>1 DEF D!Pushed
<1>4. D!WithReg(c, o, p) = D!UsesUp(c, o, D!Instruction("push", D!Pushed(c, o, p), D!None))
  BY <1>1 DEF D!WithReg
<1> QED
  BY <1>2, <1>3, <1>4

LEMMA OpPop ==
  ASSUME NEW c, NEW o, NEW p, NEW n,
         n \in 0 .. 7, c[o] = 88 + n
  PROVE  D!Opcode(c, o, p) = D!UsesUp(c, o, D!Instruction("pop", D!Register(64, n + 8 * p.rex.b, TRUE), D!None))
<1>1. c[o] \in 88 .. 95 /\ c[o] % 8 = n
  OBVIOUS
<1>2. D!Opcode(c, o, p) = D!WithReg(c, o, p)
  <2>1. c[o] \in 80 .. 95 \/ c[o] \in 176 .. 191
    BY <1>1
  <2> QED
    BY <2>1, DispatchReg
<1>3. D!Pushed(c, o, p) = D!Register(64, n + 8 * p.rex.b, TRUE)
  BY <1>1 DEF D!Pushed
<1>4. D!WithReg(c, o, p) = D!UsesUp(c, o, D!Instruction("pop", D!Pushed(c, o, p), D!None))
  BY <1>1 DEF D!WithReg
<1> QED
  BY <1>2, <1>3, <1>4

LEMMA OpPlain ==
  ASSUME NEW c, NEW o, NEW p,
         c[o] \in {144, 195, 201, 248, 249, 158, 159}
  PROVE  D!Opcode(c, o, p) = D!UsesUp(c, o, D!Instruction(D!Plain[c[o]], D!None, D!None))
BY Dispatch, PlainIs

LEMMA OpMovzx ==
  ASSUME NEW c, NEW o, NEW p,
         o \in Nat, c[o] = 15, Len(c) \in Nat, Len(c) > o
  PROVE  /\ c[o + 1] = 182 => D!Opcode(c, o, p) = D!RM(c, o + 2, p, "movzx", D!Size(p), 8)
         /\ c[o + 1] = 183 => D!Opcode(c, o, p) = D!RM(c, o + 2, p, "movzx", D!Size(p), 16)
         /\ c[o + 1] = 190 => D!Opcode(c, o, p) = D!RM(c, o + 2, p, "movsx", D!Size(p), 8)
<1>1. /\ D!Escaped(c, o + 2, p, 182) = D!RM(c, o + 2, p, "movzx", D!Size(p), 8)
      /\ D!Escaped(c, o + 2, p, 183) = D!RM(c, o + 2, p, "movzx", D!Size(p), 16)
      /\ D!Escaped(c, o + 2, p, 190) = D!RM(c, o + 2, p, "movsx", D!Size(p), 8)
  BY DEF D!Escaped
<1>2. D!Opcode(c, o, p) = D!Escaped(c, o + 2, p, c[o + 1])
  BY DispatchEscaped
<1> QED
  BY <1>1, <1>2

LEMMA OpSet ==
  ASSUME NEW c, NEW o, NEW p, NEW n,
         o \in Nat, n \in 0 .. 7, c[o] = 15, Len(c) \in Nat, Len(c) > o, c[o + 1] = 144 + n
  PROVE  D!Opcode(c, o, p) = D!MWith(c, o + 2, p, D!Set[n + 1], 8, D!None)
<1>1. c[o + 1] \in 144 .. 151 /\ c[o + 1] - 143 = n + 1
  OBVIOUS
<1>2. D!Opcode(c, o, p) = D!Escaped(c, o + 2, p, c[o + 1])
  BY DispatchEscaped
<1> QED
  BY <1>1, <1>2 DEF D!Escaped

LEMMA OpExt ==
  ASSUME NEW c, NEW o, NEW p, NEW e,
         e \in 0 .. 7, D!Extension(c, o) = e
  PROVE  /\ c[o] = 128 => D!Opcode(c, o, p) = D!MI(c, o + 1, p, D!Alu[e + 1], 8, 1, 8)
         /\ c[o] = 129 => D!Opcode(c, o, p) = D!MI(c, o + 1, p, D!Alu[e + 1], D!Size(p), D!Full(p), D!Size(p))
         /\ c[o] = 131 => D!Opcode(c, o, p) = D!MI(c, o + 1, p, D!Alu[e + 1], D!Size(p), 1, D!Size(p))
BY DispatchEight DEF D!OneOfEight

LEMMA OpShift ==
  ASSUME NEW c, NEW o, NEW p, NEW e,
         e \in 0 .. 7, D!Extension(c, o) = e
  PROVE  /\ c[o] = 192 => D!Opcode(c, o, p) = D!MI(c, o + 1, p, D!Shift[e + 1], 8, 1, 8)
         /\ c[o] = 193 => D!Opcode(c, o, p) = D!MI(c, o + 1, p, D!Shift[e + 1], D!Size(p), 1, 8)
         /\ c[o] = 208 => D!Opcode(c, o, p) = D!MWith(c, o + 1, p, D!Shift[e + 1], 8, D!Imm(1, 8))
BY DispatchEight DEF D!OneOfEight

LEMMA OpExt0 ==
  ASSUME NEW c, NEW o, NEW p,
         D!Extension(c, o) = 0
  PROVE  /\ c[o] = 198 => D!Opcode(c, o, p) = D!MI(c, o + 1, p, "mov", 8, 1, 8)
         /\ c[o] = 199 => D!Opcode(c, o, p) = D!MI(c, o + 1, p, "mov", D!Size(p), D!Full(p), D!Size(p))
         /\ c[o] = 246 => D!Opcode(c, o, p) = D!MI(c, o + 1, p, "test", 8, 1, 8)
         /\ c[o] = 247 => D!Opcode(c, o, p) = D!MI(c, o + 1, p, "test", D!Size(p), D!Full(p), D!Size(p))
BY DispatchFew DEF D!OneOfFew

LEMMA OpNot ==
  ASSUME NEW c, NEW o, NEW p,
         D!Extension(c, o) = 2, c[o] = 246
  PROVE  D!Opcode(c, o, p) = D!MWith(c, o + 1, p, "not", 8, D!None)
BY DispatchFew DEF D!OneOfFew

LEMMA OpIncDec ==
  ASSUME NEW c, NEW o, NEW p, NEW e,
         e \in 0 .. 1, D!Extension(c, o) = e
  PROVE  /\ c[o] = 254 => D!Opcode(c, o, p) = D!MWith(c, o + 1, p, <<"inc", "dec">>[e + 1], 8, D!None)
         /\ c[o] = 255 => D!Opcode(c, o, p) = D!MWith(c, o + 1, p, <<"inc", "dec">>[e + 1], D!Size(p), D!None)
BY DispatchFew DEF D!OneOfFew

------------------------------------------------------------------------------
\* What Decode reads: ModRM, of a register or of memory with k bytes behind it.
Pt(b, n) == <<IF b = 1 THEN "R8toR15" ELSE "RAXtoRDI", n>>
IsRx(rex) == \E w \in 0 .. 1, r \in 0 .. 1, b \in 0 .. 1 : rex = Rx(w, r, b)
Names(c, i, rex, g, n, k) ==
  LET m == D!ModRM(c, i, rex)
  IN  m.ok /\ m.mod = 3 /\ m.reg = g /\ m.rm = n + 8 * rex.b /\ m.next = i + 1 /\ Len(c) = i + k
Sees(c, i, rex, g, k, bag, ofs) ==
  LET m == D!ModRM(c, i, rex)
  IN  m.ok /\ m.mod # 3 /\ m.reg = g /\ m.regs = bag /\ m.ofs = ofs /\ m.next \in Nat /\ m.next + k = Len(c) + 1

\* The bytes are more or less than it asks for.
Blind(c, i, rex, k) ==
  LET m == D!ModRM(c, i, rex)
  IN  m.ok => m.next \in Nat /\ m.next + k # Len(c) + 1

LEMMA PointerIs ==
  ASSUME NEW b \in 0 .. 1, NEW n \in 0 .. 7
  PROVE  D!Pointer(n + 8 * b) = Pt(b, n)
<1>1. CASE b = 0
  <2>1. n + 8 * b = n /\ n % 8 = n /\ ~(n > 7)
    BY <1>1
  <2> QED
    BY <2>1, <1>1 DEF D!Pointer, D!Register, D!Reg, Pt
<1>2. CASE b = 1
  <2>1. n + 8 * b = n + 8 /\ (n + 8) % 8 = n /\ n + 8 > 7
    BY <1>2
  <2> QED
    BY <2>1, <1>2 DEF D!Pointer, D!Register, D!Reg, Pt
<1> QED
  BY <1>1, <1>2

LEMMA OneAlone == ASSUME NEW p PROVE D!(+)(One(p), D!EmptyBag) = One(p)
BY DEF One, D!SetToBag, D!(+), D!EmptyBag

\* The parts of a ModRM without SIB, and of one with.
Octal == 0 .. 7
Written3(c, i, a, g, n) == c[i] = 64 * a + 8 * g + n
Direct(c, i, a, g, n) ==
  /\ D!Mod(c, i) = a /\ ~D!HasSib(c, i) /\ D!Base(c, i) = n /\ (c[i] \div 8) % 8 = g
  /\ (D!IsBare(c, i) <=> a = 0 /\ n = 5) /\ D!DispAt(c, i) = i + 1
BySib(c, i, a, g, lv, x, n) ==
  /\ D!Mod(c, i) = a /\ D!HasSib(c, i) /\ D!Base(c, i) = n /\ (c[i] \div 8) % 8 = g
  /\ (D!IsBare(c, i) <=> a = 0 /\ n = 5) /\ D!DispAt(c, i) = i + 2
  /\ (c[i + 1] \div 8) % 8 = x /\ c[i + 1] \div 64 = lv
LEMMA NoSibParts ==
  ASSUME NEW c, NEW i \in Nat, NEW a \in 0 .. 2, NEW g \in 0 .. 7, NEW n \in 0 .. 7, Written3(c, i, a, g, n), n # 4
  PROVE  Direct(c, i, a, g, n)
<1>1. D!Mod(c, i) = a /\ D!Rm(c, i) = n /\ (c[i] \div 8) % 8 = g
  BY Bits DEF Written3, D!Mod, D!Rm
<1>2. ~D!HasSib(c, i)
  BY <1>1 DEF D!HasSib
<1>3. D!Base(c, i) = n /\ D!DispAt(c, i) = i + 1
  BY <1>1, <1>2 DEF D!Base, D!DispAt
<1> QED
  BY <1>1, <1>2, <1>3 DEF D!IsBare, Direct

LEMMA SibParts ==
  ASSUME NEW c, NEW i \in Nat, NEW a \in 0 .. 2, NEW g \in 0 .. 7, Written3(c, i, a, g, 4),
         NEW lv \in 0 .. 3, NEW x \in 0 .. 7, NEW n \in 0 .. 7, Written3(c, i + 1, lv, x, n)
  PROVE  BySib(c, i, a, g, lv, x, n)
<1>1. D!Mod(c, i) = a /\ D!Rm(c, i) = 4 /\ (c[i] \div 8) % 8 = g
  BY Bits DEF D!Mod, D!Rm, Written3
<1>2. D!HasSib(c, i)
  BY <1>1 DEF D!HasSib
<1>3. (c[i + 1] \div 8) % 8 = x /\ c[i + 1] \div 64 = lv /\ c[i + 1] % 8 = n
  BY Bits DEF Written3
<1>4. D!Base(c, i) = n /\ D!DispAt(c, i) = i + 2
  BY <1>2, <1>3 DEF D!Base, D!DispAt
<1> QED
  BY <1>1, <1>2, <1>3, <1>4 DEF D!IsBare, BySib

LEMMA DispSizeIs ==
  ASSUME NEW c, NEW i
  PROVE  /\ D!Mod(c, i) = 1 => D!DispSize(c, i) = 1
         /\ D!Mod(c, i) = 2 => D!DispSize(c, i) = 4
         /\ D!Mod(c, i) = 0 /\ D!IsBare(c, i) => D!DispSize(c, i) = 4
         /\ D!Mod(c, i) = 0 /\ ~D!IsBare(c, i) => D!DispSize(c, i) = 0
BY DEF D!DispSize, D!IsBare

\* With rm 4 there is a SIB byte, whatever it holds.
LEMMA SibAnyway ==
  ASSUME NEW c, NEW i \in Nat, NEW a \in 0 .. 2, NEW g \in 0 .. 7, Written3(c, i, a, g, 4)
  PROVE  D!Mod(c, i) = a /\ D!HasSib(c, i) /\ D!DispAt(c, i) = i + 2
<1>1. D!Mod(c, i) = a /\ D!Rm(c, i) = 4
  BY Bits DEF Written3, D!Mod, D!Rm
<1>2. D!HasSib(c, i)
  BY <1>1 DEF D!HasSib
<1> QED
  BY <1>1, <1>2 DEF D!DispAt

LEMMA RxIs ==
  ASSUME NEW rex, IsRx(rex)
  PROVE  rex.x = 0 /\ rex.b \in 0 .. 1 /\ rex.r \in 0 .. 1 /\ rex.w \in 0 .. 1
BY DEF IsRx, Rx

LEMMA NamesReg ==
  ASSUME NEW c, NEW i, NEW rex, NEW g, NEW n, NEW k,
         i \in Nat, g \in Octal, n \in Octal, k \in Nat, Written3(c, i, 3, g, n), Len(c) = i + k
  PROVE  Names(c, i, rex, g, n, k)
<1> USE DEF Octal
<1>1. D!Mod(c, i) = 3 /\ D!Rm(c, i) = n /\ (c[i] \div 8) % 8 = g
  BY Bits DEF Written3, D!Mod, D!Rm
<1>2. ~D!HasSib(c, i) /\ ~D!IsBare(c, i)
  BY <1>1 DEF D!HasSib, D!IsBare
<1>3. D!DispSize(c, i) = 0 /\ D!DispAt(c, i) = i + 1
  BY <1>1, <1>2 DEF D!DispSize, D!DispAt
<1>4. ~(Len(c) < i) /\ ~(Len(c) < i + 1 + 0 - 1) /\ i + 1 + 0 = i + 1
  OBVIOUS
<1> QED
  BY <1>1, <1>2, <1>3, <1>4 DEF Names, D!ModRM

\* [r64], with mod 0: not of rsp, r12, which ask for a SIB, nor of rbp, r13, which ask for an offset.
LEMMA SeesAt ==
  ASSUME NEW c, NEW i \in Nat, NEW rex, IsRx(rex), NEW g \in 0 .. 7, NEW n \in 0 .. 7,
         Written3(c, i, 0, g, n), Len(c) = i
  PROVE  /\ n \notin {4, 5} => Sees(c, i, rex, g, 0, One(Pt(rex.b, n)), 0)
         /\ n \in {4, 5} => Blind(c, i, rex, 0)
<1>0. rex.b \in 0 .. 1
  BY RxIs
<1>1. CASE n = 4
  <2>1. D!HasSib(c, i)
    BY <1>0, <1>1, SibAnyway
  <2> QED
    BY <1>1, <2>1 DEF Sees, Blind, D!ModRM
<1>2. CASE n = 5
  <2>0. Direct(c, i, 0, g, n)
    BY <1>2, NoSibParts
  <2>1. ~D!HasSib(c, i) /\ D!IsBare(c, i) /\ D!DispAt(c, i) = i + 1 /\ D!Mod(c, i) = 0
    BY <1>2, <2>0 DEF Direct
  <2>2. D!DispSize(c, i) = 4
    BY <2>1, DispSizeIs
  <2>3. Len(c) < i + 1 + 4 - 1
    OBVIOUS
  <2> QED
    BY <1>2, <2>1, <2>2, <2>3 DEF Sees, Blind, D!ModRM
<1>3. CASE n \notin {4, 5}
  <2>0. Direct(c, i, 0, g, n)
    BY <1>3, NoSibParts
  <2>1. ~D!HasSib(c, i) /\ ~D!IsBare(c, i) /\ D!DispAt(c, i) = i + 1 /\ D!Mod(c, i) = 0
        /\ (c[i] \div 8) % 8 = g /\ D!Base(c, i) = n
    BY <1>3, <2>0 DEF Direct
  <2>2. D!DispSize(c, i) = 0
    BY <2>1, DispSizeIs
  <2>3. ~(Len(c) < i) /\ ~(Len(c) < i + 1 + 0 - 1) /\ i + 1 + 0 + 0 = Len(c) + 1 /\ i + 1 + 0 \in Nat
    OBVIOUS
  <2>4. D!(+)(D!BaseRegs(c, i, rex), D!IndexRegs(c, i, rex)) = One(Pt(rex.b, n))
    <3>1. D!BaseRegs(c, i, rex) = One(Pt(rex.b, n))
      BY <1>0, <2>1, PointerIs DEF D!BaseRegs, One
    <3>2. D!IndexRegs(c, i, rex) = D!EmptyBag
      BY <2>1 DEF D!IndexRegs
    <3> QED
      BY <3>1, <3>2, OneAlone
  <2> QED
    BY <1>3, <2>1, <2>2, <2>3, <2>4 DEF Sees, Blind, D!ModRM
<1> QED
  BY <1>1, <1>2, <1>3

LEMMA SignedLong ==
  ASSUME NEW c, NEW i \in Nat
  PROVE  D!Signed(c, i, 4) =
           c[i] + 256 * (c[i + 1] + 256 * (c[i + 2] + 256 * (IF c[i + 3] > 127 THEN c[i + 3] - 256 ELSE c[i + 3])))
<1>1. i + 1 - 1 = i /\ i + 2 - 1 = i + 1 /\ i + 3 - 1 = i + 2 /\ i + 4 - 1 = i + 3
  OBVIOUS
<1> QED
  BY <1>1 DEF D!Signed

LEMMA QuadParts ==
  ASSUME NEW v \in Int32
  PROVE  /\ v \in Int
         /\ v = 256 * (v \div 256) + (v % 256)
         /\ v \div 256 = 256 * (v \div 65536) + ((v \div 256) % 256)
         /\ v \div 65536 = 256 * (v \div 16777216) + ((v \div 65536) % 256)
         /\ v \div 16777216 \in -128 .. 127
<1>1. v \in Int /\ -Max32 - 1 <= v /\ v <= Max32
  <2>1. Max32 \in Int
    BY SMT DEF Max32
  <2> QED
    BY <2>1 DEF Int32
<1>2. -2147483648 <= v /\ v <= 2147483647
  BY <1>1, SMT DEF Max32
<1> QED
  BY <1>1, <1>2, SMT

\* A number of four bytes is read as it was written.
LEMMA QuadIs ==
  ASSUME NEW c, NEW i \in Nat, NEW v \in Int32, Quad(c, i, v)
  PROVE  D!Signed(c, i, 4) = v
<1> DEFINE q1 == v \div 256
           q2 == v \div 65536
           q3 == v \div 16777216
<1>1. v \in Int /\ v = 256 * q1 + (v % 256) /\ q1 = 256 * q2 + (q1 % 256) /\ q2 = 256 * q3 + (q2 % 256) /\ q3 \in -128 .. 127
  BY QuadParts, SMT
<1>2. q1 \in Int /\ q2 \in Int
  BY <1>1, SMT
<1>3. Bytes(v, 4)[1] = v % 256 /\ Bytes(v, 4)[2] = q1 % 256 /\ Bytes(v, 4)[3] = q2 % 256 /\ Bytes(v, 4)[4] = q3 % 256
  <2>1. (v \div 1) % 256 = v % 256
    BY <1>1, SMT
  <2> QED
    BY <2>1, SMT DEF Bytes
<1> HIDE DEF q1, q2, q3
<1>4. c[i] = v % 256 /\ c[i + 1] = q1 % 256 /\ c[i + 2] = q2 % 256 /\ c[i + 3] = q3 % 256
  <2>1. i + 1 - 1 = i /\ i + 2 - 1 = i + 1 /\ i + 3 - 1 = i + 2 /\ i + 4 - 1 = i + 3
    OBVIOUS
  <2> QED
    BY <1>3, <2>1 DEF Quad
<1>5. (IF q3 % 256 > 127 THEN (q3 % 256) - 256 ELSE q3 % 256) = q3
  BY <1>1
<1>6. D!Signed(c, i, 4) = (v % 256) + 256 * ((q1 % 256) + 256 * ((q2 % 256) + 256 * q3))
  BY <1>4, <1>5, SignedLong
<1> QED
  BY <1>1, <1>2, <1>6

\* The [rsp] that the 0044 behind makes right, and every other register wrong.
LEMMA SeesAt44 ==
  ASSUME NEW c, NEW i \in Nat, NEW rex, IsRx(rex), NEW g \in 0 .. 7, NEW n \in 0 .. 7,
         Written3(c, i, 0, g, n), c[i + 1] = 36, Len(c) = i + 1
  PROVE  /\ n = 4 => Sees(c, i, rex, g, 0, One(Pt(rex.b, n)), 0)
         /\ n # 4 => Blind(c, i, rex, 0)
<1>0. rex.b \in 0 .. 1 /\ rex.x = 0
  BY RxIs
<1>1. CASE n = 4
  <2>0. Written3(c, i + 1, 0, 4, 4)
    BY DEF Written3
  <2>5. BySib(c, i, 0, g, 0, 4, 4)
    <3>1. Written3(c, i, 0, g, 4)
      BY <1>1
    <3>2. 0 \in 0 .. 2 /\ 0 \in 0 .. 3 /\ 4 \in 0 .. 7
      OBVIOUS
    <3> QED
      BY <2>0, <3>1, <3>2, SibParts, Zenon
  <2>1. D!HasSib(c, i) /\ ~D!IsBare(c, i) /\ D!DispAt(c, i) = i + 2 /\ D!Mod(c, i) = 0 /\ (c[i] \div 8) % 8 = g
        /\ D!Base(c, i) = 4 /\ (c[i + 1] \div 8) % 8 = 4
    BY <2>5 DEF BySib
  <2>2. D!DispSize(c, i) = 0
    BY <2>1, DispSizeIs
  <2>3. ~(Len(c) < i) /\ Len(c) # i /\ ~(Len(c) < i + 2 + 0 - 1) /\ i + 2 + 0 + 0 = Len(c) + 1 /\ i + 2 + 0 \in Nat
    OBVIOUS
  <2>4. D!(+)(D!BaseRegs(c, i, rex), D!IndexRegs(c, i, rex)) = One(Pt(rex.b, n))
    <3>1. D!BaseRegs(c, i, rex) = One(Pt(rex.b, n))
      BY <1>0, <1>1, <2>1, PointerIs DEF D!BaseRegs, One
    <3>2. D!IndexRegs(c, i, rex) = D!EmptyBag
      BY <1>0, <2>1 DEF D!IndexRegs, D!Index
    <3> QED
      BY <3>1, <3>2, OneAlone
  <2> QED
    BY <1>1, <2>1, <2>2, <2>3, <2>4 DEF Sees, Blind, D!ModRM
<1>2. CASE n # 4
  <2>0. Direct(c, i, 0, g, n)
    BY <1>2, NoSibParts
  <2>1. ~D!HasSib(c, i) /\ D!DispAt(c, i) = i + 1 /\ D!Mod(c, i) = 0
    BY <1>2, <2>0 DEF Direct
  <2>2. D!DispSize(c, i) = 0 \/ D!DispSize(c, i) = 4
    BY <2>1, DispSizeIs
  <2>3. i + 1 + 0 + 0 # Len(c) + 1 /\ i + 1 + 0 \in Nat /\ Len(c) < i + 1 + 4 - 1
    OBVIOUS
  <2> QED
    BY <1>2, <2>1, <2>2, <2>3 DEF Sees, Blind, D!ModRM
<1> QED
  BY <1>1, <1>2

\* [r64 + n] in one byte: not of rsp, r12.
LEMMA SeesAtByte ==
  ASSUME NEW c, NEW i \in Nat, NEW rex, IsRx(rex), NEW g \in 0 .. 7, NEW n \in 0 .. 7, NEW v \in Int, NEW k \in Nat,
         Written3(c, i, 1, g, n), c[i + 1] = Low(v), Len(c) = i + 1 + k
  PROVE  /\ n # 4 => Sees(c, i, rex, g, k, One(Pt(rex.b, n)), SByte(v))
         /\ n = 4 => Blind(c, i, rex, k)
<1>0. rex.b \in 0 .. 1
  BY RxIs
<1>1. CASE n = 4
  <2>1. D!HasSib(c, i) /\ D!DispAt(c, i) = i + 2 /\ D!Mod(c, i) = 1
    BY <1>1, SibAnyway
  <2>2. D!DispSize(c, i) = 1
    BY <2>1, DispSizeIs
  <2>3. i + 2 + 1 + k # Len(c) + 1 /\ i + 2 + 1 \in Nat
    OBVIOUS
  <2> QED
    BY <1>1, <2>1, <2>2, <2>3 DEF Sees, Blind, D!ModRM
<1>2. CASE n # 4
  <2>0. Direct(c, i, 1, g, n)
    BY <1>2, NoSibParts
  <2>1. ~D!HasSib(c, i) /\ ~D!IsBare(c, i) /\ D!DispAt(c, i) = i + 1 /\ D!Mod(c, i) = 1 /\ (c[i] \div 8) % 8 = g
        /\ D!Base(c, i) = n
    BY <1>2, <2>0 DEF Direct
  <2>2. D!DispSize(c, i) = 1
    BY <2>1, DispSizeIs
  <2>3. ~(Len(c) < i) /\ ~(Len(c) < i + 1 + 1 - 1) /\ i + 1 + 1 + k = Len(c) + 1 /\ i + 1 + 1 \in Nat
    OBVIOUS
  <2>4. D!(+)(D!BaseRegs(c, i, rex), D!IndexRegs(c, i, rex)) = One(Pt(rex.b, n))
    <3>1. D!BaseRegs(c, i, rex) = One(Pt(rex.b, n))
      BY <1>0, <2>1, PointerIs DEF D!BaseRegs, One
    <3>2. D!IndexRegs(c, i, rex) = D!EmptyBag
      BY <2>1 DEF D!IndexRegs
    <3> QED
      BY <3>1, <3>2, OneAlone
  <2>5. D!Signed(c, i + 1, 1) = SByte(v)
    BY SignedByte
  <2> QED
    BY <1>2, <2>1, <2>2, <2>3, <2>4, <2>5 DEF Sees, Blind, D!ModRM
<1> QED
  BY <1>1, <1>2

\* [r64 + n] in four bytes: not of rsp, r12.
LEMMA SeesAtLong ==
  ASSUME NEW c, NEW i \in Nat, NEW rex, IsRx(rex), NEW g \in 0 .. 7, NEW n \in 0 .. 7, NEW v \in Int32, NEW k \in Nat,
         Written3(c, i, 2, g, n), Quad(c, i + 1, v), Len(c) = i + 4 + k
  PROVE  /\ n # 4 => Sees(c, i, rex, g, k, One(Pt(rex.b, n)), v)
         /\ n = 4 => Blind(c, i, rex, k)
<1>0. rex.b \in 0 .. 1
  BY RxIs
<1>1. CASE n = 4
  <2>1. D!HasSib(c, i) /\ D!DispAt(c, i) = i + 2 /\ D!Mod(c, i) = 2
    BY <1>1, SibAnyway
  <2>2. D!DispSize(c, i) = 4
    BY <2>1, DispSizeIs
  <2>3. i + 2 + 4 + k # Len(c) + 1 /\ i + 2 + 4 \in Nat
    OBVIOUS
  <2> QED
    BY <1>1, <2>1, <2>2, <2>3 DEF Sees, Blind, D!ModRM
<1>2. CASE n # 4
  <2>0. Direct(c, i, 2, g, n)
    BY <1>2, NoSibParts
  <2>1. ~D!HasSib(c, i) /\ ~D!IsBare(c, i) /\ D!DispAt(c, i) = i + 1 /\ D!Mod(c, i) = 2 /\ (c[i] \div 8) % 8 = g
        /\ D!Base(c, i) = n
    BY <1>2, <2>0 DEF Direct
  <2>2. D!DispSize(c, i) = 4
    BY <2>1, DispSizeIs
  <2>3. ~(Len(c) < i) /\ ~(Len(c) < i + 1 + 4 - 1) /\ i + 1 + 4 + k = Len(c) + 1 /\ i + 1 + 4 \in Nat
    OBVIOUS
  <2>4. D!(+)(D!BaseRegs(c, i, rex), D!IndexRegs(c, i, rex)) = One(Pt(rex.b, n))
    <3>1. D!BaseRegs(c, i, rex) = One(Pt(rex.b, n))
      BY <1>0, <2>1, PointerIs DEF D!BaseRegs, One
    <3>2. D!IndexRegs(c, i, rex) = D!EmptyBag
      BY <2>1 DEF D!IndexRegs
    <3> QED
      BY <3>1, <3>2, OneAlone
  <2>5. D!Signed(c, i + 1, 4) = v
    BY QuadIs
  <2> QED
    BY <1>2, <2>1, <2>2, <2>3, <2>4, <2>5 DEF Sees, Blind, D!ModRM
<1> QED
  BY <1>1, <1>2

\* A base and an index, which rsp cannot be.
SibBag(b, n, x, lv) == IF x = 4 THEN One(Pt(b, n)) ELSE Two(Pt(b, n), Pt(0, x), <<1, 2, 4, 8>>[lv + 1])

HasRegs(c, i, rex, bag) == D!(+)(D!BaseRegs(c, i, rex), D!IndexRegs(c, i, rex)) = bag

LEMMA SibRegs ==
  ASSUME NEW c, NEW i \in Nat, NEW rex, IsRx(rex), NEW a, NEW g, NEW lv \in 0 .. 3, NEW x \in 0 .. 7, NEW n \in 0 .. 7,
         BySib(c, i, a, g, lv, x, n), ~D!IsBare(c, i)
  PROVE  HasRegs(c, i, rex, SibBag(rex.b, n, x, lv))
<1>0. rex.b \in 0 .. 1 /\ rex.x = 0
  BY RxIs
<1>1. D!HasSib(c, i) /\ D!Base(c, i) = n /\ (c[i + 1] \div 8) % 8 = x /\ c[i + 1] \div 64 = lv
  BY DEF BySib
<1>2. D!BaseRegs(c, i, rex) = One(Pt(rex.b, n))
  BY <1>0, <1>1, PointerIs DEF D!BaseRegs, One
<1>3. D!Index(c, i, rex) = x + 8 * 0 /\ D!Index(c, i, rex) = x
  BY <1>0, <1>1 DEF D!Index
<1>4. CASE x = 4
  <2>1. D!IndexRegs(c, i, rex) = D!EmptyBag
    BY <1>1, <1>3, <1>4 DEF D!IndexRegs
  <2> QED
    BY <1>2, <1>4, <2>1, OneAlone DEF SibBag, HasRegs
<1>5. CASE x # 4
  <2>1. D!Pointer(D!Index(c, i, rex)) = Pt(0, x)
    <3>1. D!Pointer(x + 8 * 0) = Pt(0, x)
      BY PointerIs
    <3> QED
      BY <1>3, <3>1
  <2>2. D!IndexRegs(c, i, rex) = [r \in {Pt(0, x)} |-> <<1, 2, 4, 8>>[lv + 1]]
    BY <1>1, <1>3, <1>5, <2>1 DEF D!IndexRegs
  <2> QED
    BY <1>2, <1>5, <2>2 DEF SibBag, Two, HasRegs
<1> QED
  BY <1>4, <1>5

LEMMA SeesSib ==
  ASSUME NEW c, NEW i \in Nat, NEW rex, IsRx(rex), NEW g \in 0 .. 7, NEW k \in Nat, Written3(c, i, 0, g, 4),
         NEW lv \in 0 .. 3, NEW x \in 0 .. 7, NEW n \in 0 .. 7, Written3(c, i + 1, lv, x, n), Len(c) = i + 1 + k
  PROVE  /\ n # 5 => Sees(c, i, rex, g, k, SibBag(rex.b, n, x, lv), 0)
         /\ n = 5 => Blind(c, i, rex, k)
<1>0. BySib(c, i, 0, g, lv, x, n)
  BY 0 \in 0 .. 2, SibParts, Zenon
<1>1. D!HasSib(c, i) /\ (D!IsBare(c, i) <=> n = 5) /\ D!DispAt(c, i) = i + 2 /\ D!Mod(c, i) = 0 /\ (c[i] \div 8) % 8 = g
  BY <1>0 DEF BySib
<1>2. CASE n = 5
  <2>1. D!DispSize(c, i) = 4
    BY <1>1, <1>2, DispSizeIs
  <2>2. i + 2 + 4 + k # Len(c) + 1 /\ i + 2 + 4 \in Nat
    OBVIOUS
  <2> QED
    BY <1>1, <1>2, <2>1, <2>2 DEF Sees, Blind, D!ModRM, HasRegs
<1>3. CASE n # 5
  <2>1. D!DispSize(c, i) = 0
    BY <1>1, <1>3, DispSizeIs
  <2>2. ~(Len(c) < i) /\ Len(c) # i /\ ~(Len(c) < i + 2 + 0 - 1) /\ i + 2 + 0 + k = Len(c) + 1 /\ i + 2 + 0 \in Nat
    OBVIOUS
  <2>4. ~D!IsBare(c, i)
    BY <1>1, <1>3
  <2>3. HasRegs(c, i, rex, SibBag(rex.b, n, x, lv))
    BY <1>0, <2>4, SibRegs, Zenon
  <2> QED
    BY <1>1, <1>3, <2>1, <2>2, <2>3 DEF Sees, Blind, D!ModRM, HasRegs
<1> QED
  BY <1>2, <1>3

LEMMA SeesSibByte ==
  ASSUME NEW c, NEW i \in Nat, NEW rex, IsRx(rex), NEW g \in 0 .. 7, NEW k \in Nat, Written3(c, i, 1, g, 4),
         NEW lv \in 0 .. 3, NEW x \in 0 .. 7, NEW n \in 0 .. 7, Written3(c, i + 1, lv, x, n),
         NEW v \in Int, c[i + 2] = Low(v), Len(c) = i + 2 + k
  PROVE  Sees(c, i, rex, g, k, SibBag(rex.b, n, x, lv), SByte(v))
<1>0. BySib(c, i, 1, g, lv, x, n)
  BY 1 \in 0 .. 2, SibParts, Zenon
<1>1. D!HasSib(c, i) /\ ~D!IsBare(c, i) /\ D!DispAt(c, i) = i + 2 /\ D!Mod(c, i) = 1 /\ (c[i] \div 8) % 8 = g
  BY <1>0 DEF BySib
<1>2. D!DispSize(c, i) = 1
  BY <1>1, DispSizeIs
<1>3. ~(Len(c) < i) /\ Len(c) # i /\ ~(Len(c) < i + 2 + 1 - 1) /\ i + 2 + 1 + k = Len(c) + 1 /\ i + 2 + 1 \in Nat
  OBVIOUS
<1>4. HasRegs(c, i, rex, SibBag(rex.b, n, x, lv))
  BY <1>0, <1>1, SibRegs, Zenon
<1>5. D!Signed(c, i + 2, 1) = SByte(v)
  BY SignedByte
<1> QED
  BY <1>1, <1>2, <1>3, <1>4, <1>5 DEF Sees, Blind, D!ModRM, HasRegs

LEMMA SeesSibLong ==
  ASSUME NEW c, NEW i \in Nat, NEW rex, IsRx(rex), NEW g \in 0 .. 7, NEW k \in Nat, Written3(c, i, 2, g, 4),
         NEW lv \in 0 .. 3, NEW x \in 0 .. 7, NEW n \in 0 .. 7, Written3(c, i + 1, lv, x, n),
         NEW v \in Int32, Quad(c, i + 2, v), Len(c) = i + 5 + k
  PROVE  Sees(c, i, rex, g, k, SibBag(rex.b, n, x, lv), v)
<1>0. BySib(c, i, 2, g, lv, x, n)
  BY 2 \in 0 .. 2, SibParts, Zenon
<1>1. D!HasSib(c, i) /\ ~D!IsBare(c, i) /\ D!DispAt(c, i) = i + 2 /\ D!Mod(c, i) = 2 /\ (c[i] \div 8) % 8 = g
  BY <1>0 DEF BySib
<1>2. D!DispSize(c, i) = 4
  BY <1>1, DispSizeIs
<1>3. ~(Len(c) < i) /\ Len(c) # i /\ ~(Len(c) < i + 2 + 4 - 1) /\ i + 2 + 4 + k = Len(c) + 1 /\ i + 2 + 4 \in Nat
  OBVIOUS
<1>4. HasRegs(c, i, rex, SibBag(rex.b, n, x, lv))
  BY <1>0, <1>1, SibRegs, Zenon
<1>5. D!Signed(c, i + 2, 4) = v
  BY QuadIs
<1> QED
  BY <1>1, <1>2, <1>3, <1>4, <1>5 DEF Sees, Blind, D!ModRM, HasRegs

------------------------------------------------------------------------------
\* What Decode reads: the operands.
Sizes == {8, 16, 32, 64}
Named(size, b, isRex, n) ==
  CASE size = 8  -> D!Reg(IF b = 1 THEN "R8BtoR15B" ELSE IF isRex /\ n > 3 THEN "SPLtoDIL" ELSE "ALtoBH", n)
    [] size = 16 -> D!Reg(IF b = 1 THEN "R8WtoR15W" ELSE "AXtoDI", n)
    [] size = 32 -> D!Reg(IF b = 1 THEN "R8DtoR15D" ELSE "EAXtoEDI", n)
    [] size = 64 -> D!Reg(IF b = 1 THEN "R8toR15" ELSE "RAXtoRDI", n)

LEMMA RegisterIs ==
  ASSUME NEW size \in Sizes, NEW b \in 0 .. 1, NEW isRex, NEW n \in 0 .. 7
  PROVE  D!Register(size, n + 8 * b, isRex) = Named(size, b, isRex, n)
<1>1. CASE b = 0
  <2>1. n + 8 * b = n /\ n % 8 = n /\ ~(n > 7)
    BY <1>1
  <2> QED
    BY <2>1, <1>1 DEF D!Register, Named, Sizes
<1>2. CASE b = 1
  <2>1. n + 8 * b = n + 8 /\ (n + 8) % 8 = n /\ n + 8 > 7
    BY <1>2
  <2> QED
    BY <2>1, <1>2 DEF D!Register, Named, Sizes
<1> QED
  BY <1>1, <1>2

LEMMA InstructionsEqual ==
  ASSUME NEW m1, NEW x1, NEW y1, NEW m2, NEW x2, NEW y2
  PROVE  D!Instruction(m1, x1, y1) = D!Instruction(m2, x2, y2) <=> m1 = m2 /\ x1 = x2 /\ y1 = y2
BY DEF D!Instruction

LEMMA NotBad == ASSUME NEW m, NEW x, NEW y PROVE D!Bad # D!Instruction(m, x, y)
BY DEF D!Bad, D!Instruction

\* Of two registers, or of a register and an extension of the opcode.
LEMMA MRNames ==
  ASSUME NEW c, NEW i, NEW p, NEW g, NEW n, NEW size, NEW mn,
         i \in Nat, g \in Octal, n \in Octal, size \in Sizes, IsRx(p.rex), Names(c, i, p.rex, g, n, 0)
  PROVE  D!MR(c, i, p, mn, size) =
           D!Instruction(mn, Named(size, p.rex.b, p.isRex, n), Named(size, p.rex.r, p.isRex, g))
<1> USE DEF Octal
<1>1. p.rex.b \in 0 .. 1 /\ p.rex.r \in 0 .. 1
  BY RxIs
<1>2. i + 1 - 1 = Len(c)
  BY DEF Names
<1>3. D!InRM(D!ModRM(c, i, p.rex), p, size) = Named(size, p.rex.b, p.isRex, n)
  BY <1>1, RegisterIs DEF D!InRM, Names
<1>4. D!InReg(D!ModRM(c, i, p.rex), p, size) = Named(size, p.rex.r, p.isRex, g)
  BY <1>1, RegisterIs DEF D!InReg, Names
<1> QED
  BY <1>2, <1>3, <1>4 DEF D!MR, D!UsesUp, Names

LEMMA RMNames ==
  ASSUME NEW c, NEW i, NEW p, NEW g, NEW n, NEW size, NEW from, NEW mn,
         i \in Nat, g \in Octal, n \in Octal, size \in Sizes, from \in Sizes, IsRx(p.rex),
         Names(c, i, p.rex, g, n, 0)
  PROVE  D!RM(c, i, p, mn, size, from) =
           D!Instruction(mn, Named(size, p.rex.r, p.isRex, g), Named(from, p.rex.b, p.isRex, n))
<1> USE DEF Octal
<1>1. p.rex.b \in 0 .. 1 /\ p.rex.r \in 0 .. 1
  BY RxIs
<1>2. i + 1 - 1 = Len(c)
  BY DEF Names
<1>3. D!InRM(D!ModRM(c, i, p.rex), p, from) = Named(from, p.rex.b, p.isRex, n)
  BY <1>1, RegisterIs DEF D!InRM, Names
<1>4. D!InReg(D!ModRM(c, i, p.rex), p, size) = Named(size, p.rex.r, p.isRex, g)
  BY <1>1, RegisterIs DEF D!InReg, Names
<1> QED
  BY <1>2, <1>3, <1>4 DEF D!RM, D!UsesUp, Names

LEMMA MWithNames ==
  ASSUME NEW c, NEW i, NEW p, NEW g, NEW n, NEW size, NEW mn, NEW src,
         i \in Nat, g \in Octal, n \in Octal, size \in Sizes, IsRx(p.rex), Names(c, i, p.rex, g, n, 0)
  PROVE  D!MWith(c, i, p, mn, size, src) = D!Instruction(mn, Named(size, p.rex.b, p.isRex, n), src)
<1> USE DEF Octal
<1>1. p.rex.b \in 0 .. 1
  BY RxIs
<1>2. i + 1 - 1 = Len(c)
  BY DEF Names
<1>3. D!InRM(D!ModRM(c, i, p.rex), p, size) = Named(size, p.rex.b, p.isRex, n)
  BY <1>1, RegisterIs DEF D!InRM, Names
<1> QED
  BY <1>2, <1>3 DEF D!MWith, D!UsesUp, Names

LEMMA MINames ==
  ASSUME NEW c, NEW i, NEW p, NEW g, NEW n, NEW k, NEW size, NEW mn, NEW to, NEW r, NEW v,
         i \in Nat, g \in Octal, n \in Octal, k \in Octal, size \in Sizes, IsRx(p.rex),
         Names(c, i, p.rex, g, n, k), r = Named(size, p.rex.b, p.isRex, n), v = D!Signed(c, i + 1, k)
  PROVE  D!MI(c, i, p, mn, size, k, to) = D!Instruction(mn, r, D!Imm(v, to))
<1> USE DEF Octal
<1>1. p.rex.b \in 0 .. 1
  BY RxIs
<1>2. Len(c) = i + 1 + k - 1
  BY DEF Names
<1>3. D!InRM(D!ModRM(c, i, p.rex), p, size) = Named(size, p.rex.b, p.isRex, n)
  BY <1>1, RegisterIs DEF D!InRM, Names
<1> QED
  BY <1>2, <1>3 DEF D!MI, Names

------------------------------------------------------------------------------
\* What is read and what was meant, compared.
IsAt(m, b) == ~m.scaled /\ m.type = (IF b = 1 THEN "R8toR15" ELSE "RAXtoRDI")
IsMemory(m) == Shape(m) /\ m.kind = "mem"
IsRegister(x) == Shape(x) /\ x.kind = "reg"
IsNumber(x) == Shape(x) /\ x.kind = "imm"

LEMMA RegisterShape ==
  ASSUME NEW x, IsRegister(x)
  PROVE  x = D!Reg(x.type, x.reg) /\ x.type \in RegTypes /\ x.reg \in 0 .. 7 /\ (x.type = "SPLtoDIL" => x.reg > 3)
         /\ x.reg \in Octal
BY DEF Octal, IsRegister, Shape, None, D!Reg

LEMMA MemoryShape ==
  ASSUME NEW m, IsMemory(m)
  PROVE  /\ m.type \in RegTypes \cup {"UNK"} /\ m.reg \in 0 .. 7 /\ m.scaled \in BOOLEAN /\ m.index \in 0 .. 7
         /\ m.lv \in 0 .. 3 /\ m.num \in Int32 /\ (m.type = "UNK" => ~m.scaled)
BY DEF IsMemory, Shape, None

LEMMA NumberShape ==
  ASSUME NEW x, IsNumber(x)
  PROVE  x.num \in Int32
BY DEF IsNumber, Shape, None

LEMMA WantReg == ASSUME NEW x, NEW z, IsRegister(x) PROVE Want(x, z) = D!Reg(x.type, x.reg)
BY RegisterShape DEF Want, IsRegister

LEMMA WantMem == ASSUME NEW m, NEW z, IsMemory(m) PROVE Want(m, z) = D!Mem(z, BagOf(m), m.num)
BY DEF Want, IsMemory

LEMMA WantImm == ASSUME NEW x, NEW z, IsNumber(x) PROVE Want(x, z) = D!Imm(x.num, z)
BY DEF Want, IsNumber

LEMMA WantNone == ASSUME NEW z PROVE Want(None, z) = D!None
BY DEF Want, None, D!None

LEMMA RegsEqual ==
  ASSUME NEW t1, NEW n1, NEW t2, NEW n2
  PROVE  D!Reg(t1, n1) = D!Reg(t2, n2) <=> t1 = t2 /\ n1 = n2
BY DEF D!Reg

LEMMA MemsEqual ==
  ASSUME NEW z1, NEW r1, NEW o1, NEW z2, NEW r2, NEW o2
  PROVE  D!Mem(z1, r1, o1) = D!Mem(z2, r2, o2) <=> z1 = z2 /\ r1 = r2 /\ o1 = o2
BY DEF D!Mem

LEMMA OnesEqual == ASSUME NEW p, NEW q PROVE One(p) = One(q) <=> p = q
<1>1. DOMAIN One(p) = {p} /\ DOMAIN One(q) = {q}
  BY OneIs
<1> QED
  BY <1>1

LEMMA TwoIsNotOne ==
  ASSUME NEW p, NEW q, NEW n \in Nat, n > 0, NEW r
  PROVE  Two(p, q, n) # One(r)
<1>1. SUFFICES ASSUME Two(p, q, n) = One(r) PROVE FALSE
  OBVIOUS
<1>2. DOMAIN Two(p, q, n) = {p, q} /\ DOMAIN One(r) = {r} /\ One(r)[r] = 1
  BY TwoDomain, OneIs
<1>3. p = r /\ q = r
  BY <1>1, <1>2
<1>4. Two(p, q, n)[r] = 1 + n
  BY <1>3, TwoTogether
<1> QED
  BY <1>1, <1>2, <1>4

LEMMA ScaleIs ==
  ASSUME NEW lv \in 0 .. 3
  PROVE  <<1, 2, 4, 8>>[lv + 1] \in Nat /\ <<1, 2, 4, 8>>[lv + 1] > 0
<1>1. CASE lv = 0
  BY <1>1
<1>2. CASE lv = 1
  BY <1>2
<1>3. CASE lv = 2
  BY <1>3
<1>4. CASE lv = 3
  BY <1>4
<1> QED
  BY <1>1, <1>2, <1>3, <1>4

LEMMA BagIsOne ==
  ASSUME NEW m, IsMemory(m), NEW b \in 0 .. 1
  PROVE  BagOf(m) = One(Pt(b, m.reg)) <=> IsAt(m, b)
<1>1. CASE m.type = "UNK"
  <2>1. BagOf(m) = D!EmptyBag /\ DOMAIN D!EmptyBag = {}
    BY <1>1 DEF BagOf, D!EmptyBag, D!SetToBag
  <2>2. DOMAIN One(Pt(b, m.reg)) = {Pt(b, m.reg)}
    BY OneIs
  <2>3. BagOf(m) # One(Pt(b, m.reg))
    BY <2>1, <2>2
  <2> QED
    BY <1>1, <2>3 DEF IsAt
<1>2. CASE m.type # "UNK" /\ m.scaled
  <2> DEFINE n == <<1, 2, 4, 8>>[m.lv + 1]
  <2>1. n \in Nat /\ n > 0
    BY MemoryShape, ScaleIs
  <2>2. BagOf(m) = Two(<<m.type, m.reg>>, <<"RAXtoRDI", m.index>>, n)
    BY <1>2 DEF BagOf
  <2> HIDE DEF n
  <2> QED
    BY <1>2, <2>1, <2>2, TwoIsNotOne DEF IsAt
<1>3. CASE m.type # "UNK" /\ ~m.scaled
  <2>1. BagOf(m) = One(<<m.type, m.reg>>)
    BY <1>3 DEF BagOf
  <2>2. <<m.type, m.reg>> = Pt(b, m.reg) <=> IsAt(m, b)
    BY <1>3 DEF Pt, IsAt
  <2> QED
    BY <2>1, <2>2, OnesEqual
<1> QED
  BY <1>1, <1>2, <1>3

LEMMA BagIsSib ==
  ASSUME NEW m, IsMemory(m), m.scaled, m.type = "R8toR15"
  PROVE  BagOf(m) = SibBag(1, m.reg, m.index, m.lv) <=> m.index # 4
<1> DEFINE n == <<1, 2, 4, 8>>[m.lv + 1]
<1>1. n \in Nat /\ n > 0
  BY MemoryShape, ScaleIs
<1>2. BagOf(m) = Two(Pt(1, m.reg), Pt(0, m.index), n)
  BY DEF BagOf, Pt
<1>3. CASE m.index = 4
  <2>1. SibBag(1, m.reg, m.index, m.lv) = One(Pt(1, m.reg))
    BY <1>3 DEF SibBag
  <2> HIDE DEF n
  <2> QED
    BY <1>1, <1>2, <1>3, <2>1, TwoIsNotOne
<1>4. CASE m.index # 4
  <2>1. SibBag(1, m.reg, m.index, m.lv) = Two(Pt(1, m.reg), Pt(0, m.index), n)
    BY <1>4 DEF SibBag
  <2> HIDE DEF n
  <2> QED
    BY <1>2, <1>4, <2>1
<1> QED
  BY <1>3, <1>4

\* The memory that ModRM names, with k bytes behind, is m, or something else.
Reads(c, i, rex, g, k, m) ==
  LET r == D!ModRM(c, i, rex)
  IN  r.ok /\ r.mod # 3 /\ r.reg = g /\ r.regs = BagOf(m) /\ r.ofs = m.num /\ r.next \in Nat /\ r.next + k = Len(c) + 1
Misreads(c, i, rex, k, m) ==
  LET r == D!ModRM(c, i, rex)
  IN  r.ok => /\ r.next \in Nat
              /\ r.next + k = Len(c) + 1 => r.mod # 3 /\ (r.regs # BagOf(m) \/ r.ofs # m.num)

LEMMA BlindMisreads ==
  ASSUME NEW c, NEW i, NEW rex, NEW k, NEW m, Blind(c, i, rex, k)
  PROVE  Misreads(c, i, rex, k, m)
BY DEF Blind, Misreads

LEMMA SeesRight ==
  ASSUME NEW c, NEW i, NEW rex, NEW g, NEW k, NEW m, NEW bag, NEW ofs, Sees(c, i, rex, g, k, bag, ofs),
         BagOf(m) = bag, m.num = ofs
  PROVE  Reads(c, i, rex, g, k, m)
BY DEF Sees, Reads

LEMMA SeesWrong ==
  ASSUME NEW c, NEW i, NEW rex, NEW g, NEW k, NEW m, NEW bag, NEW ofs, Sees(c, i, rex, g, k, bag, ofs),
         BagOf(m) # bag \/ m.num # ofs
  PROVE  Misreads(c, i, rex, k, m)
BY DEF Sees, Misreads

\* [r64] as it stands, with 0044 behind, with one byte and with four.
LEMMA AtReads ==
  ASSUME NEW c, NEW i, NEW rex, NEW g, NEW m,
         i \in Nat, g \in Octal, IsRx(rex), IsMemory(m), Written3(c, i, 0, g, m.reg), Len(c) = i
  PROVE  /\ m.reg \notin {4, 5} /\ IsAt(m, rex.b) /\ m.num = 0 => Reads(c, i, rex, g, 0, m)
         /\ m.reg \in {4, 5} \/ ~IsAt(m, rex.b) \/ m.num # 0 => Misreads(c, i, rex, 0, m)
<1> USE DEF Octal
<1> DEFINE n == m.reg
           bag == One(Pt(rex.b, n))
<1>1. n \in 0 .. 7 /\ rex.b \in 0 .. 1
  BY MemoryShape, RxIs
<1>2. BagOf(m) = bag <=> IsAt(m, rex.b)
  BY <1>1, BagIsOne
<1>3. /\ n \notin {4, 5} => Sees(c, i, rex, g, 0, bag, 0)
      /\ n \in {4, 5} => Blind(c, i, rex, 0)
  BY <1>1, SeesAt
<1> HIDE DEF bag
<1> QED
  BY <1>2, <1>3, BlindMisreads, SeesRight, SeesWrong

LEMMA At44Reads ==
  ASSUME NEW c, NEW i, NEW rex, NEW g, NEW m,
         i \in Nat, g \in Octal, IsRx(rex), IsMemory(m), Written3(c, i, 0, g, m.reg), c[i + 1] = 36,
         Len(c) = i + 1
  PROVE  /\ m.reg = 4 /\ IsAt(m, rex.b) /\ m.num = 0 => Reads(c, i, rex, g, 0, m)
         /\ m.reg # 4 \/ ~IsAt(m, rex.b) \/ m.num # 0 => Misreads(c, i, rex, 0, m)
<1> USE DEF Octal
<1> DEFINE n == m.reg
           bag == One(Pt(rex.b, n))
<1>1. n \in 0 .. 7 /\ rex.b \in 0 .. 1
  BY MemoryShape, RxIs
<1>2. BagOf(m) = bag <=> IsAt(m, rex.b)
  BY <1>1, BagIsOne
<1>3. /\ n = 4 => Sees(c, i, rex, g, 0, bag, 0)
      /\ n # 4 => Blind(c, i, rex, 0)
  BY <1>1, SeesAt44
<1> HIDE DEF bag
<1> QED
  BY <1>2, <1>3, BlindMisreads, SeesRight, SeesWrong

LEMMA AtByteReads ==
  ASSUME NEW c, NEW i, NEW rex, NEW g, NEW m, NEW k,
         i \in Nat, g \in Octal, k \in Nat, IsRx(rex), IsMemory(m), Written3(c, i, 1, g, m.reg),
         c[i + 1] = Low(m.num), Len(c) = i + 1 + k
  PROVE  /\ m.reg # 4 /\ IsAt(m, rex.b) /\ Byte(m.num) => Reads(c, i, rex, g, k, m)
         /\ m.reg = 4 \/ ~IsAt(m, rex.b) \/ ~Byte(m.num) => Misreads(c, i, rex, k, m)
<1> USE DEF Octal
<1> DEFINE n == m.reg
           v == SByte(m.num)
           bag == One(Pt(rex.b, n))
<1>1. n \in 0 .. 7 /\ rex.b \in 0 .. 1 /\ m.num \in Int
  BY MemoryShape, RxIs DEF Int32
<1>2. BagOf(m) = bag <=> IsAt(m, rex.b)
  BY <1>1, BagIsOne
<1>3. /\ n # 4 => Sees(c, i, rex, g, k, bag, v)
      /\ n = 4 => Blind(c, i, rex, k)
  BY <1>1, SeesAtByte
<1>4. v = m.num <=> Byte(m.num)
  BY <1>1, SByteIs
<1> HIDE DEF bag, v
<1> QED
  BY <1>2, <1>3, <1>4, BlindMisreads, SeesRight, SeesWrong

LEMMA AtLongReads ==
  ASSUME NEW c, NEW i, NEW rex, NEW g, NEW m, NEW k,
         i \in Nat, g \in Octal, k \in Nat, IsRx(rex), IsMemory(m), Written3(c, i, 2, g, m.reg),
         Quad(c, i + 1, m.num), Len(c) = i + 4 + k
  PROVE  /\ m.reg # 4 /\ IsAt(m, rex.b) => Reads(c, i, rex, g, k, m)
         /\ m.reg = 4 \/ ~IsAt(m, rex.b) => Misreads(c, i, rex, k, m)
<1> USE DEF Octal
<1> DEFINE n == m.reg
           bag == One(Pt(rex.b, n))
<1>1. n \in 0 .. 7 /\ rex.b \in 0 .. 1 /\ m.num \in Int32
  BY MemoryShape, RxIs
<1>2. BagOf(m) = bag <=> IsAt(m, rex.b)
  BY <1>1, BagIsOne
<1>3. /\ n # 4 => Sees(c, i, rex, g, k, bag, m.num)
      /\ n = 4 => Blind(c, i, rex, k)
  BY <1>1, SeesAtLong
<1> HIDE DEF bag
<1> QED
  BY <1>2, <1>3, BlindMisreads, SeesRight, SeesWrong

\* [r64 + r64 * scale], of r8 to r15.
IsSib(m) == m.scaled /\ m.type = "R8toR15"

LEMMA SibReads ==
  ASSUME NEW c, NEW i, NEW rex, NEW g, NEW m, NEW k,
         i \in Nat, g \in Octal, k \in Nat, IsRx(rex), rex.b = 1, IsMemory(m), IsSib(m),
         Written3(c, i, 0, g, 4), Written3(c, i + 1, m.lv, m.index, m.reg), Len(c) = i + 1 + k
  PROVE  /\ m.reg # 5 /\ m.index # 4 /\ m.num = 0 => Reads(c, i, rex, g, k, m)
         /\ m.reg = 5 \/ m.index = 4 \/ m.num # 0 => Misreads(c, i, rex, k, m)
<1> USE DEF Octal
<1> DEFINE n == m.reg
           bag == SibBag(1, n, m.index, m.lv)
<1>1. n \in 0 .. 7 /\ m.lv \in 0 .. 3 /\ m.index \in 0 .. 7
  BY MemoryShape
<1>2. BagOf(m) = bag <=> m.index # 4
  BY BagIsSib DEF IsSib
<1>3. /\ n # 5 => Sees(c, i, rex, g, k, bag, 0)
      /\ n = 5 => Blind(c, i, rex, k)
  BY <1>1, SeesSib
<1> HIDE DEF bag
<1> QED
  BY <1>2, <1>3, BlindMisreads, SeesRight, SeesWrong

LEMMA SibByteReads ==
  ASSUME NEW c, NEW i, NEW rex, NEW g, NEW m, NEW k,
         i \in Nat, g \in Octal, k \in Nat, IsRx(rex), rex.b = 1, IsMemory(m), IsSib(m),
         Written3(c, i, 1, g, 4), Written3(c, i + 1, m.lv, m.index, m.reg), c[i + 2] = Low(m.num),
         Len(c) = i + 2 + k
  PROVE  /\ m.index # 4 /\ Byte(m.num) => Reads(c, i, rex, g, k, m)
         /\ m.index = 4 \/ ~Byte(m.num) => Misreads(c, i, rex, k, m)
<1> USE DEF Octal
<1> DEFINE v == SByte(m.num)
           bag == SibBag(1, m.reg, m.index, m.lv)
<1>1. m.reg \in 0 .. 7 /\ m.lv \in 0 .. 3 /\ m.index \in 0 .. 7 /\ m.num \in Int
  BY MemoryShape DEF Int32
<1>2. BagOf(m) = bag <=> m.index # 4
  BY BagIsSib DEF IsSib
<1>3. Sees(c, i, rex, g, k, bag, v)
  BY <1>1, SeesSibByte
<1>4. v = m.num <=> Byte(m.num)
  BY <1>1, SByteIs
<1> HIDE DEF bag, v
<1> QED
  BY <1>2, <1>3, <1>4, SeesRight, SeesWrong

LEMMA SibLongReads ==
  ASSUME NEW c, NEW i, NEW rex, NEW g, NEW m, NEW k,
         i \in Nat, g \in Octal, k \in Nat, IsRx(rex), rex.b = 1, IsMemory(m), IsSib(m),
         Written3(c, i, 2, g, 4), Written3(c, i + 1, m.lv, m.index, m.reg), Quad(c, i + 2, m.num),
         Len(c) = i + 5 + k
  PROVE  /\ m.index # 4 => Reads(c, i, rex, g, k, m)
         /\ m.index = 4 => Misreads(c, i, rex, k, m)
<1> USE DEF Octal
<1> DEFINE bag == SibBag(1, m.reg, m.index, m.lv)
<1>1. m.reg \in 0 .. 7 /\ m.lv \in 0 .. 3 /\ m.index \in 0 .. 7 /\ m.num \in Int32
  BY MemoryShape
<1>2. BagOf(m) = bag <=> m.index # 4
  BY BagIsSib DEF IsSib
<1>3. Sees(c, i, rex, g, k, bag, m.num)
  BY <1>1, SeesSibLong
<1> HIDE DEF bag
<1> QED
  BY <1>2, <1>3, SeesRight, SeesWrong

\* The forms of instructions, read and meant.
Straight(mn) == mn \notin DOMAIN ShiftOp

LEMMA MeansStraight ==
  ASSUME NEW mn, NEW d, NEW s,
         Straight(mn)
  PROVE  Means(mn, d, s) = D!Instruction(mn, Want(d, SizeOf(d)), Want(s, SrcSize(mn, d, s)))
BY DEF Means, Straight, ShiftOp

LEMMA MemorySize == ASSUME NEW m, IsMemory(m) PROVE SizeOf(m) = m.size
BY DEF IsMemory, SizeOf

LEMMA SourceSize ==
  ASSUME NEW mn, NEW d, NEW s,
         Straight(mn), mn # "lea", mn # "movzx"
  PROVE  SrcSize(mn, d, s) = SizeOf(d)
BY DEF SrcSize, Straight

\* A register from memory.
LEMMA FromMeans ==
  ASSUME NEW c, NEW i, NEW p, NEW mn, NEW d, NEW m, NEW z, NEW from,
         z \in Sizes, Len(c) \in Nat, IsRx(p.rex), Straight(mn), IsRegister(d), IsMemory(m),
         D!Decoded(c) = D!RM(c, i, p, mn, z, from), SrcSize(mn, d, m) = from
  PROVE  /\ Reads(c, i, p.rex, d.reg, 0, m) =>
              (D!Decoded(c) = Means(mn, d, m) <=> Named(z, p.rex.r, p.isRex, d.reg) = D!Reg(d.type, d.reg))
         /\ Misreads(c, i, p.rex, 0, m) => D!Decoded(c) # Means(mn, d, m)
<1> DEFINE x == D!Reg(d.type, d.reg)
           y == D!Mem(from, BagOf(m), m.num)
           r == D!ModRM(c, i, p.rex)
<1>1. Means(mn, d, m) = D!Instruction(mn, x, y)
  BY MeansStraight, WantReg, WantMem
<1>2. d.reg \in 0 .. 7 /\ p.rex.r \in 0 .. 1
  BY RegisterShape, RxIs
<1> HIDE DEF x
<1>3. ASSUME Reads(c, i, p.rex, d.reg, 0, m)
      PROVE  D!Decoded(c) = Means(mn, d, m) <=> Named(z, p.rex.r, p.isRex, d.reg) = x
  <2>1. r.ok /\ r.mod # 3 /\ r.reg = d.reg /\ r.regs = BagOf(m) /\ r.ofs = m.num /\ r.next - 1 = Len(c)
    BY <1>3 DEF Reads
  <2>2. D!InRM(r, p, from) = y
    BY <2>1 DEF D!InRM
  <2>3. D!InReg(r, p, z) = Named(z, p.rex.r, p.isRex, d.reg)
    BY <1>2, <2>1, RegisterIs DEF D!InReg
  <2>4. D!RM(c, i, p, mn, z, from) = D!Instruction(mn, Named(z, p.rex.r, p.isRex, d.reg), y)
    BY <2>1, <2>2, <2>3 DEF D!RM, D!UsesUp
  <2> HIDE DEF y
  <2> QED
    BY <1>1, <2>4, InstructionsEqual
<1>4. ASSUME Misreads(c, i, p.rex, 0, m)
      PROVE  D!Decoded(c) # Means(mn, d, m)
  <2>1. CASE r.ok /\ r.next - 1 = Len(c)
    <3>1. r.next \in Nat /\ r.mod # 3 /\ (r.regs # BagOf(m) \/ r.ofs # m.num)
      BY <1>4, <2>1 DEF Misreads
    <3>2. D!InRM(r, p, from) # y
      BY <3>1, MemsEqual DEF D!InRM
    <3>3. D!RM(c, i, p, mn, z, from) = D!Instruction(mn, D!InReg(r, p, z), D!InRM(r, p, from))
      BY <2>1 DEF D!RM, D!UsesUp
    <3> HIDE DEF y
    <3> QED
      BY <1>1, <3>2, <3>3, InstructionsEqual
  <2>2. CASE ~(r.ok /\ r.next - 1 = Len(c))
    <3>1. D!RM(c, i, p, mn, z, from) = D!Bad
      BY <2>2 DEF D!RM, D!UsesUp
    <3> QED
      BY <1>1, <3>1, NotBad
  <2> QED
    BY <2>1, <2>2
<1> QED
  BY <1>3, <1>4 DEF x

\* Memory from a register.
LEMMA ToMeans ==
  ASSUME NEW c, NEW i, NEW p, NEW mn, NEW s, NEW m, NEW z,
         z \in Sizes, Len(c) \in Nat, IsRx(p.rex), Straight(mn), IsRegister(s), IsMemory(m),
         D!Decoded(c) = D!MR(c, i, p, mn, z)
  PROVE  /\ Reads(c, i, p.rex, s.reg, 0, m) =>
              (D!Decoded(c) = Means(mn, m, s) <=> m.size = z /\ Named(z, p.rex.r, p.isRex, s.reg) = D!Reg(s.type, s.reg))
         /\ Misreads(c, i, p.rex, 0, m) => D!Decoded(c) # Means(mn, m, s)
<1> DEFINE x == D!Mem(m.size, BagOf(m), m.num)
           y == D!Reg(s.type, s.reg)
           r == D!ModRM(c, i, p.rex)
<1>1. Means(mn, m, s) = D!Instruction(mn, x, y)
  BY MeansStraight, MemorySize, WantReg, WantMem
<1>2. s.reg \in 0 .. 7 /\ p.rex.r \in 0 .. 1
  BY RegisterShape, RxIs
<1> HIDE DEF y
<1>3. ASSUME Reads(c, i, p.rex, s.reg, 0, m)
      PROVE  D!Decoded(c) = Means(mn, m, s) <=> m.size = z /\ Named(z, p.rex.r, p.isRex, s.reg) = y
  <2>1. r.ok /\ r.mod # 3 /\ r.reg = s.reg /\ r.regs = BagOf(m) /\ r.ofs = m.num /\ r.next - 1 = Len(c)
    BY <1>3 DEF Reads
  <2>2. D!InRM(r, p, z) = D!Mem(z, BagOf(m), m.num)
    BY <2>1 DEF D!InRM
  <2>3. D!InReg(r, p, z) = Named(z, p.rex.r, p.isRex, s.reg)
    BY <1>2, <2>1, RegisterIs DEF D!InReg
  <2>4. D!MR(c, i, p, mn, z) = D!Instruction(mn, D!Mem(z, BagOf(m), m.num), Named(z, p.rex.r, p.isRex, s.reg))
    BY <2>1, <2>2, <2>3 DEF D!MR, D!UsesUp
  <2>5. D!Mem(z, BagOf(m), m.num) = x <=> m.size = z
    BY MemsEqual
  <2> HIDE DEF x
  <2> QED
    BY <1>1, <2>4, <2>5, InstructionsEqual
<1>4. ASSUME Misreads(c, i, p.rex, 0, m)
      PROVE  D!Decoded(c) # Means(mn, m, s)
  <2>1. CASE r.ok /\ r.next - 1 = Len(c)
    <3>1. r.next \in Nat /\ r.mod # 3 /\ (r.regs # BagOf(m) \/ r.ofs # m.num)
      BY <1>4, <2>1 DEF Misreads
    <3>2. D!InRM(r, p, z) # x
      BY <3>1, MemsEqual DEF D!InRM
    <3>3. D!MR(c, i, p, mn, z) = D!Instruction(mn, D!InRM(r, p, z), D!InReg(r, p, z))
      BY <2>1 DEF D!MR, D!UsesUp
    <3> HIDE DEF x
    <3> QED
      BY <1>1, <3>2, <3>3, InstructionsEqual
  <2>2. CASE ~(r.ok /\ r.next - 1 = Len(c))
    <3>1. D!MR(c, i, p, mn, z) = D!Bad
      BY <2>2 DEF D!MR, D!UsesUp
    <3> QED
      BY <1>1, <3>1, NotBad
  <2> QED
    BY <2>1, <2>2
<1> QED
  BY <1>3, <1>4 DEF y

\* Memory alone, whatever the register bits say.
Reaches(c, i, p, k, m) == \E g : Reads(c, i, p.rex, g, k, m)
Strays(c, i, p, k, m)  == Misreads(c, i, p.rex, k, m)

LEMMA OnlyMeans ==
  ASSUME NEW c, NEW i, NEW p, NEW mn, NEW m, NEW z,
         Len(c) \in Nat, Straight(mn), IsMemory(m), D!Decoded(c) = D!MWith(c, i, p, mn, z, D!None)
  PROVE  /\ Reaches(c, i, p, 0, m) => (D!Decoded(c) = Means(mn, m, None) <=> m.size = z)
         /\ Strays(c, i, p, 0, m) => D!Decoded(c) # Means(mn, m, None)
<1> DEFINE x == D!Mem(m.size, BagOf(m), m.num)
           y == D!None
           r == D!ModRM(c, i, p.rex)
<1>1. Means(mn, m, None) = D!Instruction(mn, x, y)
  BY MeansStraight, MemorySize, WantNone, WantMem
<1> HIDE DEF y
<1>0. D!Decoded(c) = D!MWith(c, i, p, mn, z, y)
  BY DEF y
<1>3. ASSUME Reaches(c, i, p, 0, m)
      PROVE  D!Decoded(c) = Means(mn, m, None) <=> m.size = z
  <2>1. r.ok /\ r.mod # 3 /\ r.regs = BagOf(m) /\ r.ofs = m.num /\ r.next - 1 = Len(c)
    BY <1>3 DEF Reaches, Reads
  <2>2. D!InRM(r, p, z) = D!Mem(z, BagOf(m), m.num)
    BY <2>1 DEF D!InRM
  <2>4. D!MWith(c, i, p, mn, z, y) = D!Instruction(mn, D!Mem(z, BagOf(m), m.num), y)
    BY <2>1, <2>2 DEF D!MWith, D!UsesUp
  <2>5. D!Mem(z, BagOf(m), m.num) = x <=> m.size = z
    BY MemsEqual
  <2> HIDE DEF x
  <2> QED
    BY <1>0, <1>1, <2>4, <2>5, InstructionsEqual
<1>4. ASSUME Strays(c, i, p, 0, m)
      PROVE  D!Decoded(c) # Means(mn, m, None)
  <2>1. CASE r.ok /\ r.next - 1 = Len(c)
    <3>1. r.next \in Nat /\ r.mod # 3 /\ (r.regs # BagOf(m) \/ r.ofs # m.num)
      BY <1>4, <2>1 DEF Strays, Misreads
    <3>2. D!InRM(r, p, z) # x
      BY <3>1, MemsEqual DEF D!InRM
    <3>3. D!MWith(c, i, p, mn, z, y) = D!Instruction(mn, D!InRM(r, p, z), y)
      BY <2>1 DEF D!MWith, D!UsesUp
    <3> HIDE DEF x
    <3> QED
      BY <1>0, <1>1, <3>2, <3>3, InstructionsEqual
  <2>2. CASE ~(r.ok /\ r.next - 1 = Len(c))
    <3>1. D!MWith(c, i, p, mn, z, y) = D!Bad
      BY <2>2 DEF D!MWith, D!UsesUp
    <3> QED
      BY <1>0, <1>1, <3>1, NotBad
  <2> QED
    BY <2>1, <2>2
<1> QED
  BY <1>3, <1>4

HasSize(m, z) == m.size = z

LEMMA OnlyStrays ==
  ASSUME NEW c, NEW i, NEW p, NEW mn, NEW m, NEW z,
         Len(c) \in Nat, Straight(mn), IsMemory(m), D!Decoded(c) = D!MWith(c, i, p, mn, z, D!None),
         Strays(c, i, p, 0, m)
  PROVE  D!Decoded(c) # Means(mn, m, None)
BY OnlyMeans

LEMMA OnlyReaches ==
  ASSUME NEW c, NEW i, NEW p, NEW mn, NEW m, NEW z,
         Len(c) \in Nat, Straight(mn), IsMemory(m), D!Decoded(c) = D!MWith(c, i, p, mn, z, D!None),
         Reaches(c, i, p, 0, m)
  PROVE  D!Decoded(c) = Means(mn, m, None) <=> HasSize(m, z)
BY OnlyMeans DEF HasSize

\* Memory and a number, which is in the last k bytes.
LastBytes(c, k) == D!Signed(c, Len(c) + 1 - k, k)

LEMMA NumberMeans ==
  ASSUME NEW c, NEW i, NEW p, NEW mn, NEW m, NEW s, NEW z, NEW k, NEW to,
         Len(c) \in Nat, k \in Octal, IsMemory(m), IsNumber(s), Straight(mn), mn # "lea", mn # "movzx",
         D!Decoded(c) = D!MI(c, i, p, mn, z, k, to)
  PROVE  /\ Reaches(c, i, p, k, m) =>
              (D!Decoded(c) = Means(mn, m, s) <=> m.size = z /\ D!Imm(LastBytes(c, k), to) = D!Imm(s.num, m.size))
         /\ Strays(c, i, p, k, m) => D!Decoded(c) # Means(mn, m, s)
<1>0. k \in Nat
  BY DEF Octal
<1> DEFINE x == D!Mem(m.size, BagOf(m), m.num)
           y == D!Imm(s.num, m.size)
           imm == D!Imm(LastBytes(c, k), to)
           r == D!ModRM(c, i, p.rex)
<1>1. Means(mn, m, s) = D!Instruction(mn, x, y)
  BY MeansStraight, SourceSize, MemorySize, WantImm, WantMem
<1> HIDE DEF y
<1>3. ASSUME Reaches(c, i, p, k, m)
      PROVE  D!Decoded(c) = Means(mn, m, s) <=> m.size = z /\ imm = y
  <2>1. r.ok /\ r.mod # 3 /\ r.regs = BagOf(m) /\ r.ofs = m.num /\ Len(c) = r.next + k - 1 /\ r.next = Len(c) + 1 - k
    BY <1>0, <1>3 DEF Reaches, Reads
  <2>2. D!InRM(r, p, z) = D!Mem(z, BagOf(m), m.num)
    BY <2>1 DEF D!InRM
  <2>4. D!MI(c, i, p, mn, z, k, to) = D!Instruction(mn, D!Mem(z, BagOf(m), m.num), imm)
    BY <1>0, <2>1, <2>2 DEF D!MI, LastBytes
  <2>5. D!Mem(z, BagOf(m), m.num) = x <=> m.size = z
    BY MemsEqual
  <2> HIDE DEF x, imm
  <2> QED
    BY <1>1, <2>4, <2>5, InstructionsEqual
<1>4. ASSUME Strays(c, i, p, k, m)
      PROVE  D!Decoded(c) # Means(mn, m, s)
  <2>1. CASE r.ok /\ Len(c) = r.next + k - 1
    <3>1. r.next \in Nat /\ r.mod # 3 /\ (r.regs # BagOf(m) \/ r.ofs # m.num)
      BY <1>0, <1>4, <2>1 DEF Strays, Misreads
    <3>2. D!InRM(r, p, z) # x
      BY <3>1, MemsEqual DEF D!InRM
    <3> DEFINE w == D!Imm(D!Signed(c, r.next, k), to)
               t == D!InRM(r, p, z)
    <3>3. D!MI(c, i, p, mn, z, k, to) = D!Instruction(mn, t, w)
      BY <2>1 DEF D!MI
    <3> HIDE DEF x, w, t, r, imm
    <3> QED
      BY <1>1, <3>2, <3>3, InstructionsEqual DEF t
  <2>2. CASE ~(r.ok /\ Len(c) = r.next + k - 1)
    <3>1. D!MI(c, i, p, mn, z, k, to) = D!Bad
      BY <2>2 DEF D!MI
    <3> QED
      BY <1>1, <3>1, NotBad
  <2> QED
    BY <2>1, <2>2
<1> HIDE DEF imm
<1> QED
  BY <1>3, <1>4 DEF y, imm
LEMMA NumberStrays ==
  ASSUME NEW c, NEW i, NEW p, NEW mn, NEW m, NEW s, NEW z, NEW k, NEW to,
         Len(c) \in Nat, k \in Octal, IsMemory(m), IsNumber(s), Straight(mn), mn # "lea", mn # "movzx",
         D!Decoded(c) = D!MI(c, i, p, mn, z, k, to), Strays(c, i, p, k, m)
  PROVE  D!Decoded(c) # Means(mn, m, s)
BY NumberMeans

HasNumber(c, k, to, s, z) == D!Imm(LastBytes(c, k), to) = D!Imm(s.num, z)

LEMMA NumberReaches ==
  ASSUME NEW c, NEW i, NEW p, NEW mn, NEW m, NEW s, NEW z, NEW k, NEW to,
         Len(c) \in Nat, k \in Octal, IsMemory(m), IsNumber(s), Straight(mn), mn # "lea", mn # "movzx",
         D!Decoded(c) = D!MI(c, i, p, mn, z, k, to), Reaches(c, i, p, k, m)
  PROVE  D!Decoded(c) = Means(mn, m, s) <=> HasSize(m, z) /\ HasNumber(c, k, to, s, z)
BY NumberMeans DEF HasSize, HasNumber

\* Registers.
LEMMA RegsMeans ==
  ASSUME NEW c, NEW i, NEW p, NEW mn, NEW d, NEW s, NEW z,
         i \in Nat, z \in Sizes, IsRx(p.rex), Straight(mn), IsRegister(d), IsRegister(s),
         Names(c, i, p.rex, s.reg, d.reg, 0), D!Decoded(c) = D!MR(c, i, p, mn, z)
  PROVE  D!Decoded(c) = Means(mn, d, s) <=>
           /\ Named(z, p.rex.b, p.isRex, d.reg) = D!Reg(d.type, d.reg)
           /\ Named(z, p.rex.r, p.isRex, s.reg) = D!Reg(s.type, s.reg)
<1>1. Means(mn, d, s) = D!Instruction(mn, D!Reg(d.type, d.reg), D!Reg(s.type, s.reg))
  BY MeansStraight, WantReg
<1>2. d.reg \in Octal /\ s.reg \in Octal
  BY RegisterShape
<1>3. D!MR(c, i, p, mn, z) = D!Instruction(mn, Named(z, p.rex.b, p.isRex, d.reg), Named(z, p.rex.r, p.isRex, s.reg))
  BY <1>2, MRNames
<1> QED
  BY <1>1, <1>3, InstructionsEqual

LEMMA RegsFromMeans ==
  ASSUME NEW c, NEW i, NEW p, NEW mn, NEW d, NEW s, NEW z, NEW from,
         i \in Nat, z \in Sizes, from \in Sizes, IsRx(p.rex), Straight(mn), IsRegister(d), IsRegister(s),
         Names(c, i, p.rex, d.reg, s.reg, 0), D!Decoded(c) = D!RM(c, i, p, mn, z, from)
  PROVE  D!Decoded(c) = Means(mn, d, s) <=>
           /\ Named(z, p.rex.r, p.isRex, d.reg) = D!Reg(d.type, d.reg)
           /\ Named(from, p.rex.b, p.isRex, s.reg) = D!Reg(s.type, s.reg)
<1>1. Means(mn, d, s) = D!Instruction(mn, D!Reg(d.type, d.reg), D!Reg(s.type, s.reg))
  BY MeansStraight, WantReg
<1>2. d.reg \in Octal /\ s.reg \in Octal
  BY RegisterShape
<1>3. D!RM(c, i, p, mn, z, from) = D!Instruction(mn, Named(z, p.rex.r, p.isRex, d.reg), Named(from, p.rex.b, p.isRex, s.reg))
  BY <1>2, RMNames
<1> QED
  BY <1>1, <1>3, InstructionsEqual

\* A register alone.
LEMMA RegMeans ==
  ASSUME NEW c, NEW i, NEW p, NEW mn, NEW d, NEW g, NEW z,
         i \in Nat, g \in Octal, z \in Sizes, IsRx(p.rex), Straight(mn), IsRegister(d),
         Names(c, i, p.rex, g, d.reg, 0), D!Decoded(c) = D!MWith(c, i, p, mn, z, D!None)
  PROVE  D!Decoded(c) = Means(mn, d, None) <=> Named(z, p.rex.b, p.isRex, d.reg) = D!Reg(d.type, d.reg)
<1>1. Means(mn, d, None) = D!Instruction(mn, D!Reg(d.type, d.reg), D!None)
  BY MeansStraight, WantReg, WantNone
<1>2. d.reg \in Octal
  BY RegisterShape
<1>3. D!MWith(c, i, p, mn, z, D!None) = D!Instruction(mn, Named(z, p.rex.b, p.isRex, d.reg), D!None)
  BY <1>2, MWithNames
<1> QED
  BY <1>1, <1>3, InstructionsEqual

\* A register and a number.
LEMMA RegNumberMeans ==
  ASSUME NEW c, NEW i, NEW p, NEW mn, NEW d, NEW s, NEW g, NEW k, NEW to, NEW z, NEW v, NEW size,
         i \in Nat, g \in Octal, k \in Octal, z \in Sizes, IsRx(p.rex), IsRegister(d), IsNumber(s),
         Straight(mn), mn # "lea", mn # "movzx", Names(c, i, p.rex, g, d.reg, k),
         D!Decoded(c) = D!MI(c, i, p, mn, z, k, to), Named(z, p.rex.b, p.isRex, d.reg) = D!Reg(d.type, d.reg),
         v = D!Signed(c, i + 1, k), size = SizeOf(d), D!Imm(v, to) = D!Imm(s.num, size)
  PROVE  D!Decoded(c) = Means(mn, d, s)
<1>1. Means(mn, d, s) = D!Instruction(mn, D!Reg(d.type, d.reg), D!Imm(s.num, size))
  BY MeansStraight, SourceSize, WantReg, WantImm
<1>2. d.reg \in Octal
  BY RegisterShape
<1>3. D!MI(c, i, p, mn, z, k, to) = D!Instruction(mn, Named(z, p.rex.b, p.isRex, d.reg), D!Imm(v, to))
  BY <1>2, MINames
<1> QED
  BY <1>1, <1>3

LEMMA InOpcodeMeans ==
  ASSUME NEW c, NEW i, NEW mn, NEW d, NEW s, NEW k, NEW to, NEW r,
         i \in Nat, k \in Nat, Straight(mn), mn # "lea", mn # "movzx", IsRegister(d), IsNumber(s),
         D!Decoded(c) = D!I(c, i, mn, r, to, k), Len(c) = i + k - 1, r = D!Reg(d.type, d.reg),
         D!Imm(D!Signed(c, i, k), to) = D!Imm(s.num, SizeOf(d))
  PROVE  D!Decoded(c) = Means(mn, d, s)
<1>1. Means(mn, d, s) = D!Instruction(mn, D!Reg(d.type, d.reg), D!Imm(s.num, SizeOf(d)))
  BY MeansStraight, SourceSize, WantReg, WantImm
<1> QED
  BY <1>1 DEF D!I

\* A register and how far to shift it.
Called(mn) == IF mn = "sal" THEN "shl" ELSE mn

LEMMA MeansShift ==
  ASSUME NEW mn, NEW d, NEW s,
         mn \in DOMAIN ShiftOp, IsRegister(d)
  PROVE  Means(mn, d, s) = D!Instruction(Called(mn), D!Reg(d.type, d.reg), D!Imm(Count(s), 8))
<1>1. SrcSize(mn, d, s) = 8
  BY DEF SrcSize, ShiftOp
<1>2. Want(Imm(Count(s)), 8) = D!Imm(Count(s), 8)
  BY DEF Want, Imm
<1> QED
  BY <1>1, <1>2, WantReg DEF Means, Called

LEMMA ShiftMeans ==
  ASSUME NEW c, NEW i, NEW p, NEW mn, NEW d, NEW s, NEW g, NEW z, NEW v,
         i \in Nat, g \in Octal, z \in Sizes, IsRx(p.rex), IsRegister(d), mn \in DOMAIN ShiftOp,
         Names(c, i, p.rex, g, d.reg, 1), D!Decoded(c) = D!MI(c, i, p, Called(mn), z, 1, 8),
         Named(z, p.rex.b, p.isRex, d.reg) = D!Reg(d.type, d.reg), v = D!Signed(c, i + 1, 1),
         D!Imm(v, 8) = D!Imm(Count(s), 8)
  PROVE  D!Decoded(c) = Means(mn, d, s)
<1>1. Means(mn, d, s) = D!Instruction(Called(mn), D!Reg(d.type, d.reg), D!Imm(Count(s), 8))
  BY MeansShift
<1>2. d.reg \in Octal /\ 1 \in Octal
  BY RegisterShape DEF Octal
<1>3. D!MI(c, i, p, Called(mn), z, 1, 8) = D!Instruction(Called(mn), Named(z, p.rex.b, p.isRex, d.reg), D!Imm(v, 8))
  BY <1>2, MINames
<1> QED
  BY <1>1, <1>3

LEMMA ShiftOneMeans ==
  ASSUME NEW c, NEW i, NEW p, NEW mn, NEW d, NEW s, NEW g, NEW z,
         i \in Nat, g \in Octal, z \in Sizes, IsRx(p.rex), mn \in DOMAIN ShiftOp, IsRegister(d), Count(s) = 1,
         Names(c, i, p.rex, g, d.reg, 0), D!Decoded(c) = D!MWith(c, i, p, Called(mn), z, D!Imm(1, 8)),
         Named(z, p.rex.b, p.isRex, d.reg) = D!Reg(d.type, d.reg)
  PROVE  D!Decoded(c) = Means(mn, d, s)
<1>1. Means(mn, d, s) = D!Instruction(Called(mn), D!Reg(d.type, d.reg), D!Imm(1, 8))
  BY MeansShift
<1>2. d.reg \in Octal
  BY RegisterShape
<1>3. D!MWith(c, i, p, Called(mn), z, D!Imm(1, 8)) = D!Instruction(Called(mn), Named(z, p.rex.b, p.isRex, d.reg), D!Imm(1, 8))
  BY <1>2, MWithNames
<1> QED
  BY <1>1, <1>3

\* No operand, or one in the opcode.
LEMMA AloneMeans ==
  ASSUME NEW c, NEW mn,
         Straight(mn), D!Decoded(c) = D!UsesUp(c, Len(c), D!Instruction(mn, D!None, D!None))
  PROVE  D!Decoded(c) = Means(mn, None, None)
<1>1. Means(mn, None, None) = D!Instruction(mn, D!None, D!None)
  BY MeansStraight, WantNone
<1> QED
  BY <1>1 DEF D!UsesUp

LEMMA PushMeans ==
  ASSUME NEW c, NEW mn, NEW d, NEW r,
         Straight(mn), IsRegister(d), r = D!Reg(d.type, d.reg),
         D!Decoded(c) = D!UsesUp(c, Len(c), D!Instruction(mn, r, D!None))
  PROVE  D!Decoded(c) = Means(mn, d, None)
<1>1. Means(mn, d, None) = D!Instruction(mn, D!Reg(d.type, d.reg), D!None)
  BY MeansStraight, WantReg, WantNone
<1> QED
  BY <1>1 DEF D!UsesUp

\* The bytes of a statement are it, or it is one of those that are named.
OfLine(mn, d, s) == line # NoLine /\ line.mn = mn /\ d = Dst /\ s = Src
Right(bytes, mn, d, s) == bytes # Refuse => (D!Decoded(bytes) = Means(mn, d, s) <=> ~Misencoded)

\* The prefixes that are written.
HasBits(p, r, b, size) == IsRx(p.rex) /\ p.rex.r = r /\ p.rex.b = b /\ D!Size(p) = size

LEMMA PrefixesAre ==
  /\ HasBits(P0, 0, 0, 32) /\ ~P0.isRex
  /\ HasBits(P66, 0, 0, 16) /\ ~P66.isRex
  /\ HasBits(P66B, 0, 1, 16) /\ P66B.isRex
  /\ HasBits(PRex(0, 0, 0), 0, 0, 32) /\ PRex(0, 0, 0).isRex
  /\ HasBits(PRex(0, 0, 1), 0, 1, 32) /\ PRex(0, 0, 1).isRex
  /\ HasBits(PRex(1, 0, 0), 0, 0, 64) /\ PRex(1, 0, 0).isRex
  /\ HasBits(PRex(1, 0, 1), 0, 1, 64) /\ PRex(1, 0, 1).isRex
  /\ HasBits(PRex(1, 1, 0), 1, 0, 64) /\ PRex(1, 1, 0).isRex
  /\ HasBits(PRex(1, 1, 1), 1, 1, 64) /\ PRex(1, 1, 1).isRex
BY DEF P0, P66, P66B, PRex, Prefix, Rx, D!Size, IsRx, HasBits

LEMMA RexPrefixes ==
  ASSUME NEW c, Len(c) \in Nat, 2 <= Len(c)
  PROVE  /\ c[1] = 64 => Starts(c, 2, PRex(0, 0, 0))
         /\ c[1] = 65 => Starts(c, 2, PRex(0, 0, 1))
         /\ c[1] = 72 => Starts(c, 2, PRex(1, 0, 0))
         /\ c[1] = 73 => Starts(c, 2, PRex(1, 0, 1))
         /\ c[1] = 76 => Starts(c, 2, PRex(1, 1, 0))
         /\ c[1] = 77 => Starts(c, 2, PRex(1, 1, 1))
<1> DEFINE p(b) == Prefix(FALSE, TRUE, D!Rex(b))
<1>1. c[1] \in {64, 65, 72, 73, 76, 77} => Starts(c, 2, p(c[1]))
  BY PrefixRex
<1>2. /\ p(64) = PRex(0, 0, 0) /\ p(65) = PRex(0, 0, 1) /\ p(72) = PRex(1, 0, 0)
      /\ p(73) = PRex(1, 0, 1) /\ p(76) = PRex(1, 1, 0) /\ p(77) = PRex(1, 1, 1)
  BY RexIs DEF PRex
<1> HIDE DEF p
<1> QED
  BY <1>1, <1>2

LEMMA ExtensionIs ==
  ASSUME NEW c, NEW o, NEW a, NEW e, NEW n,
         o \in Nat, Len(c) \in Nat, Len(c) > o, a \in 0 .. 3, e \in Octal, n \in Octal, Written3(c, o + 1, a, e, n)
  PROVE  D!Extension(c, o) = e
BY Bits DEF D!Extension, Written3, Octal

\* Numbers that count as the same.
LEMMA ImmsEqual ==
  ASSUME NEW a, NEW b, a \in Int, b \in Int
  PROVE  /\ D!Imm(a, 8) = D!Imm(b, 8) <=> a % 256 = b % 256
         /\ D!Imm(a, 16) = D!Imm(b, 16) <=> a % 65536 = b % 65536
BY DEF D!Imm

LEMMA ByteImm ==
  ASSUME NEW v, v \in Int
  PROVE  D!Imm(SByte(v), 8) = D!Imm(v, 8)
<1>1. SByte(v) \in Int /\ SByte(v) % 256 = v % 256
  BY SByteIs
<1> QED
  BY <1>1, ImmsEqual

LEMMA ShortImm ==
  ASSUME NEW v, v \in Int
  PROVE  /\ ByteHalf(v) => (D!Imm(SByte(v), 16) = D!Imm(v, 16) <=> Byte(v))
         /\ ShortImm16(v) => D!Imm(SByte(v), 16) = D!Imm(v, 16)
<1>1. SByte(v) \in Int /\ (SByte(v) = v <=> Byte(v))
  BY SByteIs
<1>2. ByteHalf(v) => (SByte(v) % 65536 = v % 65536 <=> SByte(v) = v)
  BY DEF ByteHalf, SByte
<1>3. ShortImm16(v) => SByte(v) % 65536 = v % 65536
  BY DEF ShortImm16, S16, SByte, Byte
<1> QED
  BY <1>1, <1>2, <1>3, ImmsEqual

LEMMA LongIsInt == ASSUME NEW v, v \in Int32 PROVE v \in Int
BY QuadParts

\* The eight operations whose opcodes differ in three bits.
LEMMA AluIs ==
  ASSUME NEW mn, NEW op, mn \in DOMAIN AluOp, op = AluOp[mn]
  PROVE  /\ op \in Octal /\ D!Alu[op + 1] = mn /\ Straight(mn)
         /\ mn \notin {"mov", "movzx", "movsx", "lea", "test", "not", "inc", "dec"}
BY DEF AluOp, Octal, D!Alu, Straight, ShiftOp

OpOf(op, n) == 8 * op + n

LEMMA AluBytes ==
  ASSUME NEW op, op \in Octal
  PROVE  /\ IsOp(OpOf(op, 0)) /\ IsOp(OpOf(op, 1)) /\ IsOp(OpOf(op, 2))
         /\ IsOp(OpOf(op, 3)) /\ IsOp(OpOf(op, 4)) /\ IsOp(OpOf(op, 5))
         /\ op \in Int
BY DEF IsOp, Octal, OpOf

Stands(mn, op) == op \in Octal /\ D!Alu[op + 1] = mn

LEMMA AluForm0 ==
  ASSUME NEW c, NEW o, NEW p, NEW mn, NEW op, Stands(mn, op), c[o] = OpOf(op, 0)
  PROVE  D!Opcode(c, o, p) = D!MR(c, o + 1, p, mn, 8)
<1>1. op \in 0 .. 7 /\ D!Alu[op + 1] = mn
  BY DEF Stands, Octal
<1>2. c[o] = 8 * op
  BY <1>1 DEF OpOf
<1> QED
  BY <1>1, <1>2, OpAlu0

LEMMA AluForm1 ==
  ASSUME NEW c, NEW o, NEW p, NEW mn, NEW op, Stands(mn, op), c[o] = OpOf(op, 1)
  PROVE  D!Opcode(c, o, p) = D!MR(c, o + 1, p, mn, D!Size(p))
<1>1. op \in 0 .. 7 /\ D!Alu[op + 1] = mn
  BY DEF Stands, Octal
<1>2. c[o] = 8 * op + 1
  BY <1>1 DEF OpOf
<1> QED
  BY <1>1, <1>2, OpAlu1

LEMMA AluForm2 ==
  ASSUME NEW c, NEW o, NEW p, NEW mn, NEW op, Stands(mn, op), c[o] = OpOf(op, 2)
  PROVE  D!Opcode(c, o, p) = D!RM(c, o + 1, p, mn, 8, 8)
<1>1. op \in 0 .. 7 /\ D!Alu[op + 1] = mn
  BY DEF Stands, Octal
<1>2. c[o] = 8 * op + 2
  BY <1>1 DEF OpOf
<1> QED
  BY <1>1, <1>2, OpAlu2

LEMMA AluForm3 ==
  ASSUME NEW c, NEW o, NEW p, NEW mn, NEW op, Stands(mn, op), c[o] = OpOf(op, 3)
  PROVE  D!Opcode(c, o, p) = D!RM(c, o + 1, p, mn, D!Size(p), D!Size(p))
<1>1. op \in 0 .. 7 /\ D!Alu[op + 1] = mn
  BY DEF Stands, Octal
<1>2. c[o] = 8 * op + 3
  BY <1>1 DEF OpOf
<1> QED
  BY <1>1, <1>2, OpAlu3

LEMMA AluForm4 ==
  ASSUME NEW c, NEW o, NEW p, NEW mn, NEW op, Stands(mn, op), c[o] = OpOf(op, 4)
  PROVE  D!Opcode(c, o, p) = D!I(c, o + 1, mn, D!Register(8, 0, FALSE), 8, 1)
<1>1. op \in 0 .. 7 /\ D!Alu[op + 1] = mn
  BY DEF Stands, Octal
<1>2. c[o] = 8 * op + 4
  BY <1>1 DEF OpOf
<1> QED
  BY <1>1, <1>2, OpAlu4

LEMMA AluForm5 ==
  ASSUME NEW c, NEW o, NEW p, NEW mn, NEW op, Stands(mn, op), c[o] = OpOf(op, 5)
  PROVE  D!Opcode(c, o, p) = D!I(c, o + 1, mn, D!Register(D!Size(p), 0, FALSE), D!Size(p), D!Full(p))
<1>1. op \in 0 .. 7 /\ D!Alu[op + 1] = mn
  BY DEF Stands, Octal
<1>2. c[o] = 8 * op + 5
  BY <1>1 DEF OpOf
<1> QED
  BY <1>1, <1>2, OpAlu5

LEMMA OpAluExt ==
  ASSUME NEW c, NEW o, NEW p, NEW mn, NEW op, Stands(mn, op), D!Extension(c, o) = op
  PROVE  /\ c[o] = 128 => D!Opcode(c, o, p) = D!MI(c, o + 1, p, mn, 8, 1, 8)
         /\ c[o] = 129 => D!Opcode(c, o, p) = D!MI(c, o + 1, p, mn, D!Size(p), D!Full(p), D!Size(p))
         /\ c[o] = 131 => D!Opcode(c, o, p) = D!MI(c, o + 1, p, mn, D!Size(p), 1, D!Size(p))
<1>1. op \in 0 .. 7 /\ D!Alu[op + 1] = mn
  BY DEF Stands, Octal
<1> QED
  BY <1>1, OpExt

LEMMA AluStands ==
  ASSUME NEW mn, NEW op, mn \in DOMAIN AluOp, op = AluOp[mn]
  PROVE  Stands(mn, op)
BY AluIs DEF Stands

\* Registers as the prefix, the size and the bits of ModRM name them: x in rm, y in reg.
RmIs(p, z, x)  == Named(z, p.rex.b, p.isRex, x.reg) = D!Reg(x.type, x.reg)
RegIs(p, z, y) == Named(z, p.rex.r, p.isRex, y.reg) = D!Reg(y.type, y.reg)
NamesRm(c, i, p, g, x, k) == Names(c, i, p.rex, g, x.reg, k)
NamesBoth(c, i, p, y, x)  == Names(c, i, p.rex, y.reg, x.reg, 0)
HasRx(p) == IsRx(p.rex)
HasSizeOf(x, z) == SizeOf(x) = z

LEMMA MRRegs ==
  ASSUME NEW c, NEW i, NEW p, NEW mn, NEW d, NEW s, NEW z,
         i \in Nat, z \in Sizes, HasRx(p), Straight(mn), IsRegister(d), IsRegister(s),
         NamesBoth(c, i, p, s, d), D!Decoded(c) = D!MR(c, i, p, mn, z)
  PROVE  D!Decoded(c) = Means(mn, d, s) <=> RmIs(p, z, d) /\ RegIs(p, z, s)
BY RegsMeans DEF RmIs, RegIs, NamesBoth, HasRx

LEMMA RMRegs ==
  ASSUME NEW c, NEW i, NEW p, NEW mn, NEW d, NEW s, NEW z, NEW from,
         i \in Nat, z \in Sizes, from \in Sizes, HasRx(p), Straight(mn), IsRegister(d), IsRegister(s),
         NamesBoth(c, i, p, d, s), D!Decoded(c) = D!RM(c, i, p, mn, z, from)
  PROVE  D!Decoded(c) = Means(mn, d, s) <=> RegIs(p, z, d) /\ RmIs(p, from, s)
BY RegsFromMeans DEF RmIs, RegIs, NamesBoth, HasRx

LEMMA MWithReg ==
  ASSUME NEW c, NEW i, NEW p, NEW mn, NEW d, NEW g, NEW z,
         i \in Nat, g \in Octal, z \in Sizes, HasRx(p), Straight(mn), IsRegister(d),
         NamesRm(c, i, p, g, d, 0), D!Decoded(c) = D!MWith(c, i, p, mn, z, D!None), RmIs(p, z, d)
  PROVE  D!Decoded(c) = Means(mn, d, None)
BY RegMeans DEF RmIs, NamesRm, HasRx

LEMMA MIReg ==
  ASSUME NEW c, NEW i, NEW p, NEW mn, NEW d, NEW s, NEW g, NEW k, NEW z,
         i \in Nat, g \in Octal, k \in Octal, z \in Sizes, HasRx(p), IsRegister(d), IsNumber(s), HasSizeOf(d, z),
         Straight(mn), mn # "lea", mn # "movzx", NamesRm(c, i, p, g, d, k),
         D!Decoded(c) = D!MI(c, i, p, mn, z, k, z), RmIs(p, z, d), HasNumber(c, k, z, s, z)
  PROVE  D!Decoded(c) = Means(mn, d, s)
<1> DEFINE v == D!Signed(c, i + 1, k)
<1>1. Len(c) + 1 - k = i + 1
  BY DEF NamesRm, Names, Octal
<1>2. v = LastBytes(c, k)
  BY <1>1 DEF LastBytes
<1>3. D!Imm(v, z) = D!Imm(s.num, z)
  BY <1>2 DEF HasNumber
<1> QED
  BY <1>3, RegNumberMeans DEF RmIs, NamesRm, HasRx, HasSizeOf

EndsWith(c, i, k) == Len(c) = i + k - 1

LEMMA IReg ==
  ASSUME NEW c, NEW i, NEW mn, NEW d, NEW s, NEW k, NEW r, NEW z,
         i \in Nat, k \in Octal, Straight(mn), mn # "lea", mn # "movzx", IsRegister(d), IsNumber(s), HasSizeOf(d, z),
         D!Decoded(c) = D!I(c, i, mn, r, z, k), EndsWith(c, i, k), r = D!Reg(d.type, d.reg), HasNumber(c, k, z, s, z)
  PROVE  D!Decoded(c) = Means(mn, d, s)
<1>1. Len(c) + 1 - k = i /\ k \in Nat /\ Len(c) = i + k - 1
  BY DEF Octal, EndsWith
<1>2. D!Signed(c, i, k) = LastBytes(c, k)
  BY <1>1 DEF LastBytes
<1>3. D!Imm(D!Signed(c, i, k), z) = D!Imm(s.num, SizeOf(d))
  BY <1>2 DEF HasNumber, HasSizeOf
<1> QED
  BY <1>1, <1>3, InOpcodeMeans

LEMMA ShiftReg ==
  ASSUME NEW c, NEW i, NEW p, NEW mn, NEW d, NEW s, NEW g, NEW z,
         i \in Nat, g \in Octal, z \in Sizes, HasRx(p), IsRegister(d), mn \in DOMAIN ShiftOp,
         NamesRm(c, i, p, g, d, 1), D!Decoded(c) = D!MI(c, i, p, Called(mn), z, 1, 8),
         RmIs(p, z, d), D!Imm(LastBytes(c, 1), 8) = D!Imm(Count(s), 8)
  PROVE  D!Decoded(c) = Means(mn, d, s)
<1> DEFINE v == D!Signed(c, i + 1, 1)
<1>1. Len(c) + 1 - 1 = i + 1
  BY DEF NamesRm, Names
<1>2. v = LastBytes(c, 1)
  BY <1>1 DEF LastBytes
<1> QED
  BY <1>2, ShiftMeans DEF RmIs, NamesRm, HasRx

LEMMA ShiftOneReg ==
  ASSUME NEW c, NEW i, NEW p, NEW mn, NEW d, NEW s, NEW g, NEW z,
         i \in Nat, g \in Octal, z \in Sizes, HasRx(p), mn \in DOMAIN ShiftOp, IsRegister(d), Count(s) = 1,
         NamesRm(c, i, p, g, d, 0), D!Decoded(c) = D!MWith(c, i, p, Called(mn), z, D!Imm(1, 8)), RmIs(p, z, d)
  PROVE  D!Decoded(c) = Means(mn, d, s)
BY ShiftOneMeans DEF RmIs, NamesRm, HasRx

LEMMA NamesOne ==
  ASSUME NEW c, NEW i, NEW p, NEW g, NEW x, NEW k,
         i \in Nat, g \in Octal, IsRegister(x), k \in Octal, Written3(c, i, 3, g, x.reg), Len(c) = i + k
  PROVE  NamesRm(c, i, p, g, x, k)
<1>1. x.reg \in Octal /\ k \in Nat
  BY RegisterShape DEF Octal
<1> QED
  BY <1>1, NamesReg DEF NamesRm

LEMMA NamesTwo ==
  ASSUME NEW c, NEW i, NEW p, NEW y, NEW x,
         i \in Nat, IsRegister(y), IsRegister(x), Written3(c, i, 3, y.reg, x.reg), Len(c) = i
  PROVE  NamesBoth(c, i, p, y, x)
<1>1. x.reg \in Octal /\ y.reg \in Octal
  BY RegisterShape
<1>2. Len(c) = i + 0 /\ 0 \in Nat
  OBVIOUS
<1> QED
  BY <1>1, <1>2, NamesReg DEF NamesBoth

\* Opcodes that hold a register, a condition, or, behind them, a shift.
RegOp(b, x) == b + x.reg

LEMMA CodedMov8 ==
  ASSUME NEW c, NEW o, NEW p, NEW x, IsRegister(x), HasRx(p), c[o] = RegOp(176, x), RmIs(p, 8, x)
  PROVE  D!Opcode(c, o, p) = D!I(c, o + 1, "mov", D!Reg(x.type, x.reg), 8, 1)
<1>1. x.reg \in 0 .. 7 /\ c[o] = 176 + x.reg /\ p.rex.b \in 0 .. 1
  BY RegisterShape, RxIs DEF HasRx, RegOp
<1>2. D!Register(8, x.reg + 8 * p.rex.b, p.isRex) = D!Reg(x.type, x.reg)
  BY <1>1, RegisterIs DEF RmIs, Sizes
<1> QED
  BY <1>1, <1>2, OpMov8

LEMMA CodedMov ==
  ASSUME NEW c, NEW o, NEW p, NEW x, NEW z, IsRegister(x), HasRx(p), c[o] = RegOp(184, x), z \in Sizes,
         z = D!Size(p), RmIs(p, z, x)
  PROVE  D!Opcode(c, o, p) = D!I(c, o + 1, "mov", D!Reg(x.type, x.reg), z, D!Full(p))
<1>1. x.reg \in 0 .. 7 /\ c[o] = 184 + x.reg /\ p.rex.b \in 0 .. 1
  BY RegisterShape, RxIs DEF HasRx, RegOp
<1>2. D!Register(z, x.reg + 8 * p.rex.b, p.isRex) = D!Reg(x.type, x.reg)
  BY <1>1, RegisterIs DEF RmIs
<1> QED
  BY <1>1, <1>2, OpMov

StackIs(p, x) == Named(64, p.rex.b, TRUE, x.reg) = D!Reg(x.type, x.reg)

LEMMA CodedStack ==
  ASSUME NEW p, NEW x, IsRegister(x), HasRx(p), StackIs(p, x)
  PROVE  x.reg \in 0 .. 7 /\ D!Register(64, x.reg + 8 * p.rex.b, TRUE) = D!Reg(x.type, x.reg)
<1>1. x.reg \in 0 .. 7 /\ p.rex.b \in 0 .. 1 /\ 64 \in Sizes
  BY RegisterShape, RxIs DEF HasRx, Sizes
<1> QED
  BY <1>1, RegisterIs DEF StackIs

LEMMA CodedPush ==
  ASSUME NEW c, NEW o, NEW p, NEW x, IsRegister(x), HasRx(p), StackIs(p, x), c[o] = RegOp(80, x)
  PROVE  D!Opcode(c, o, p) = D!UsesUp(c, o, D!Instruction("push", D!Reg(x.type, x.reg), D!None))
<1>1. x.reg \in 0 .. 7 /\ c[o] = 80 + x.reg
  BY RegisterShape DEF RegOp
<1>2. D!Register(64, x.reg + 8 * p.rex.b, TRUE) = D!Reg(x.type, x.reg)
  BY CodedStack
<1> QED
  BY <1>1, <1>2, OpPush

LEMMA CodedPop ==
  ASSUME NEW c, NEW o, NEW p, NEW x, IsRegister(x), HasRx(p), StackIs(p, x), c[o] = RegOp(88, x)
  PROVE  D!Opcode(c, o, p) = D!UsesUp(c, o, D!Instruction("pop", D!Reg(x.type, x.reg), D!None))
<1>1. x.reg \in 0 .. 7 /\ c[o] = 88 + x.reg
  BY RegisterShape DEF RegOp
<1>2. D!Register(64, x.reg + 8 * p.rex.b, TRUE) = D!Reg(x.type, x.reg)
  BY CodedStack
<1> QED
  BY <1>1, <1>2, OpPop

StandsSet(mn, cc) == cc \in Octal /\ D!Set[cc + 1] = mn
SetOp(cc) == 144 + cc

LEMMA SetForm ==
  ASSUME NEW c, NEW o, NEW p, NEW mn, NEW cc,
         o \in Nat, StandsSet(mn, cc), c[o] = 15, Len(c) \in Nat, Len(c) > o, c[o + 1] = SetOp(cc)
  PROVE  D!Opcode(c, o, p) = D!MWith(c, o + 2, p, mn, 8, D!None)
BY OpSet DEF StandsSet, SetOp, Octal

StandsShift(mn, op) == op \in Octal /\ D!Shift[op + 1] = Called(mn)

LEMMA OpShiftExt ==
  ASSUME NEW c, NEW o, NEW p, NEW mn, NEW op, StandsShift(mn, op), D!Extension(c, o) = op
  PROVE  /\ c[o] = 192 => D!Opcode(c, o, p) = D!MI(c, o + 1, p, Called(mn), 8, 1, 8)
         /\ c[o] = 193 => D!Opcode(c, o, p) = D!MI(c, o + 1, p, Called(mn), D!Size(p), 1, 8)
         /\ c[o] = 208 => D!Opcode(c, o, p) = D!MWith(c, o + 1, p, Called(mn), 8, D!Imm(1, 8))
<1>1. op \in 0 .. 7 /\ D!Shift[op + 1] = Called(mn)
  BY DEF StandsShift, Octal
<1> QED
  BY <1>1, OpShift

LEMMA ShiftStands ==
  ASSUME NEW mn, NEW op, mn \in DOMAIN ShiftOp, op = ShiftOp[mn]
  PROVE  StandsShift(mn, op) /\ op \in Octal /\ mn \notin DOMAIN AluOp /\ mn \notin {"mov", "movzx", "movsx", "lea", "test"}
BY DEF ShiftOp, StandsShift, Called, D!Shift, Octal, AluOp

LEMMA SetStands ==
  ASSUME NEW mn, NEW cc, mn \in DOMAIN Cond, cc = Cond[mn]
  PROVE  /\ StandsSet(mn, cc) /\ cc \in Octal /\ mn \notin DOMAIN AluOp /\ Straight(mn)
         /\ mn \notin {"mov", "movzx", "movsx", "lea", "test"}
BY DEF Cond, StandsSet, D!Set, Octal, AluOp, Straight, ShiftOp

LEMMA PairInt ==
  ASSUME NEW c, NEW i, NEW v, i \in Nat, v \in Int, Pair(c, i, v)
  PROVE  D!Signed(c, i, 2) \in Int
<1>1. c[i] = v % 256 /\ c[i + 1] = (v \div 256) % 256
  BY DEF Pair, Bytes
<1>2. c[i] \in Int /\ c[i + 1] \in Int
  BY <1>1
<1> QED
  BY <1>2 DEF D!Signed

------------------------------------------------------------------------------
\* The encoders, one CASE for each of their arms, and in it: the bytes c (<2>1), which of
\* the exceptions the arm can be (<2>2), the bytes one by one (<2>3), the prefixes they
\* begin with (<2>4, <2>5), the form Decode finds (<2>6), what that form reads in ModRM
\* (<2>7 to <2>10), and so when the instruction read is the statement (the step before QED).
\* Last, an arm that is none of these refuses.
\*
\* Operands in memory.
LEMMA FromPtr64Is ==
  ASSUME NEW d, NEW m,
         OfLine("mov", d, m), IsRegister(d), IsMemory(m), m.size = 64
  PROVE  Right(FromPtr64(d, m), "mov", d, m)
<1>0. /\ d.reg \in Octal /\ d.kind = "reg" /\ m.reg \in Octal /\ m.index \in Octal /\ m.lv \in 0 .. 3
      /\ m.num \in Int32 /\ m.num \in Int /\ (m.num = 0 => Byte(m.num)) /\ m.kind = "mem" /\ Octal \subseteq Int
      /\ Straight("mov") /\ "mov" \notin DOMAIN AluOp
  BY RegisterShape, MemoryShape, LongIsInt DEF Octal, IsRegister, IsMemory, Byte, ShiftOp, AluOp, Straight
<1>1. CASE d.type = "RAXtoRDI" /\ IsPlain(m, "RAXtoRDI") /\ m.num = 0
  <2> DEFINE c == <<72, 139, At(d, m), 36>>
             p == PRex(1, 0, 0)
             i == 3
  <2>1. FromPtr64(d, m) = c
    BY <1>1, <1>0 DEF FromPtr64, IsPlain, IsMem, IsScaled
  <2>2. Misencoded <=> m.reg # 4
    BY <1>1, <1>0 DEF Misencoded, HighByteWithRex, NoSib, NoDisp, IndexLost, OffsetLost, BaseLost, SizeLost,
                      HasMem, Ptr, Counterpart, WithSib44, IsAlu, Is, IsReg, IsImm, IsPlain, IsScaled, IsMem,
                      IsRegister, IsMemory, IsNumber, OfLine
  <2>3. /\ i = 2 + 1 /\ i \in Nat /\ Len(c) = i + 1 /\ Len(c) = 4 /\ c[1] = 72 /\ c[2] = 139
        /\ Written3(c, i, 0, d.reg, m.reg) /\ c[i + 1] = 36
    BY <1>0 DEF At, ModRM, Written3
  <2>4. HasBits(p, 0, 0, 64) /\ p.isRex
    BY PrefixesAre
  <2> HIDE DEF c, i
  <2>5. Starts(c, 2, p)
    <3>1. Len(c) \in Nat /\ 2 <= Len(c) /\ c[1] = 72
      BY <2>3
    <3> QED
      BY <3>1, RexPrefixes, Zenon DEF p
  <2> HIDE DEF p
  <2>6. D!Decoded(c) = D!RM(c, i, p, "mov", 64, 64)
    BY <1>0, <2>3, <2>4, <2>5, OpRM DEF Starts, HasBits
  <2>7. /\ m.reg = 4 /\ IsAt(m, p.rex.b) /\ m.num = 0 => Reads(c, i, p.rex, d.reg, 0, m)
        /\ m.reg # 4 \/ ~IsAt(m, p.rex.b) \/ m.num # 0 => Misreads(c, i, p.rex, 0, m)
    <3>1. i \in Nat /\ Written3(c, i, 0, d.reg, m.reg) /\ c[i + 1] = 36 /\ Len(c) = i + 1 /\ IsRx(p.rex)
      BY <2>3, <2>4 DEF HasBits
    <3> QED
      BY <1>0, <3>1, At44Reads
  <2>8. Named(64, p.rex.r, p.isRex, d.reg) = D!Reg(d.type, d.reg)
    BY <1>1, <1>0, <2>4 DEF Named, HasBits, IsReg, Octal
  <2>9. /\ Reads(c, i, p.rex, d.reg, 0, m) =>
              (D!Decoded(c) = Means("mov", d, m) <=> Named(64, p.rex.r, p.isRex, d.reg) = D!Reg(d.type, d.reg))
        /\ Misreads(c, i, p.rex, 0, m) => D!Decoded(c) # Means("mov", d, m)
    <3>1. SrcSize("mov", d, m) = 64 /\ 64 \in Sizes
      BY <1>1, <1>0 DEF SrcSize, SizeOf, Sizes, Straight, IsRegister, IsMemory, IsReg, IsPlain, IsMem
    <3>2. IsRx(p.rex) /\ Len(c) \in Nat
      BY <2>3, <2>4 DEF HasBits
    <3> QED
      BY <1>0, <2>6, <3>1, <3>2, FromMeans
  <2>10. IsAt(m, p.rex.b)
    BY <1>1, <1>0, <2>4 DEF IsAt, IsPlain, IsMem, HasBits
  <2>11. D!Decoded(c) = Means("mov", d, m) <=> ~(m.reg # 4)
    BY <1>1, <2>7, <2>8, <2>9, <2>10
  <2> QED
    BY <2>1, <2>2, <2>11 DEF Right
<1>2. CASE d.type = "RAXtoRDI" /\ IsPlain(m, "RAXtoRDI") /\ m.num # 0 /\ Byte(m.num)
  <2> DEFINE c == <<72, 139>> \o AtByte(d, m)
             p == PRex(1, 0, 0)
             i == 3
  <2>1. FromPtr64(d, m) = c
    BY <1>2, <1>0 DEF FromPtr64, IsPlain, IsMem, IsScaled
  <2>2. Misencoded <=> m.reg = 4
    BY <1>2, <1>0 DEF Misencoded, HighByteWithRex, NoSib, NoDisp, IndexLost, OffsetLost, BaseLost, SizeLost,
                      HasMem, Ptr, Counterpart, WithSib44, IsAlu, Is, IsReg, IsImm, IsPlain, IsScaled, IsMem,
                      IsRegister, IsMemory, IsNumber, OfLine
  <2>3. /\ i = 2 + 1 /\ i \in Nat /\ Len(c) = i + 1 + 0 /\ Len(c) = 4 /\ c[1] = 72 /\ c[2] = 139
        /\ Written3(c, i, 1, d.reg, m.reg) /\ c[i + 1] = Low(m.num)
    BY <1>0 DEF AtByte, ModRM, Written3
  <2>4. HasBits(p, 0, 0, 64) /\ p.isRex
    BY PrefixesAre
  <2> HIDE DEF c, i
  <2>5. Starts(c, 2, p)
    <3>1. Len(c) \in Nat /\ 2 <= Len(c) /\ c[1] = 72
      BY <2>3
    <3> QED
      BY <3>1, RexPrefixes, Zenon DEF p
  <2> HIDE DEF p
  <2>6. D!Decoded(c) = D!RM(c, i, p, "mov", 64, 64)
    BY <1>0, <2>3, <2>4, <2>5, OpRM DEF Starts, HasBits
  <2>7. /\ m.reg # 4 /\ IsAt(m, p.rex.b) /\ Byte(m.num) => Reads(c, i, p.rex, d.reg, 0, m)
        /\ m.reg = 4 \/ ~IsAt(m, p.rex.b) \/ ~Byte(m.num) => Misreads(c, i, p.rex, 0, m)
    <3>1. /\ i \in Nat /\ Written3(c, i, 1, d.reg, m.reg) /\ c[i + 1] = Low(m.num) /\ Len(c) = i + 1 + 0
          /\ IsRx(p.rex)
      BY <2>3, <2>4 DEF HasBits
    <3> QED
      BY <1>0, <3>1, AtByteReads
  <2>8. Named(64, p.rex.r, p.isRex, d.reg) = D!Reg(d.type, d.reg)
    BY <1>2, <1>0, <2>4 DEF Named, HasBits, IsReg, Octal
  <2>9. /\ Reads(c, i, p.rex, d.reg, 0, m) =>
              (D!Decoded(c) = Means("mov", d, m) <=> Named(64, p.rex.r, p.isRex, d.reg) = D!Reg(d.type, d.reg))
        /\ Misreads(c, i, p.rex, 0, m) => D!Decoded(c) # Means("mov", d, m)
    <3>1. SrcSize("mov", d, m) = 64 /\ 64 \in Sizes
      BY <1>2, <1>0 DEF SrcSize, SizeOf, Sizes, Straight, IsRegister, IsMemory, IsReg, IsPlain, IsMem
    <3>2. IsRx(p.rex) /\ Len(c) \in Nat
      BY <2>3, <2>4 DEF HasBits
    <3> QED
      BY <1>0, <2>6, <3>1, <3>2, FromMeans
  <2>10. IsAt(m, p.rex.b)
    BY <1>2, <1>0, <2>4 DEF IsAt, IsPlain, IsMem, HasBits
  <2>11. D!Decoded(c) = Means("mov", d, m) <=> ~(m.reg = 4)
    BY <1>2, <2>7, <2>8, <2>9, <2>10
  <2> QED
    BY <2>1, <2>2, <2>11 DEF Right
<1>3. CASE d.type = "RAXtoRDI" /\ IsScaled(m, "R8toR15") /\ Byte(m.num)
  <2> DEFINE c == <<73, 139, ModRM(1, d.reg, 4), SIB(m), Low(m.num)>>
             p == PRex(1, 0, 1)
             i == 3
  <2>1. FromPtr64(d, m) = c
    BY <1>3, <1>0 DEF FromPtr64, IsPlain, IsMem, IsScaled
  <2>2. Misencoded <=> m.index = 4
    BY <1>3, <1>0 DEF Misencoded, HighByteWithRex, NoSib, NoDisp, IndexLost, OffsetLost, BaseLost, SizeLost,
                      HasMem, Ptr, Counterpart, WithSib44, IsAlu, Is, IsReg, IsImm, IsPlain, IsScaled, IsMem,
                      IsRegister, IsMemory, IsNumber, OfLine
  <2>3. /\ i = 2 + 1 /\ i \in Nat /\ Len(c) = i + 2 + 0 /\ Len(c) = 5 /\ c[1] = 73 /\ c[2] = 139
        /\ Written3(c, i, 1, d.reg, 4) /\ Written3(c, i + 1, m.lv, m.index, m.reg) /\ c[i + 2] = Low(m.num)
    BY <1>0 DEF ModRM, SIB, Written3
  <2>4. HasBits(p, 0, 1, 64) /\ p.isRex
    BY PrefixesAre
  <2> HIDE DEF c, i
  <2>5. Starts(c, 2, p)
    <3>1. Len(c) \in Nat /\ 2 <= Len(c) /\ c[1] = 73
      BY <2>3
    <3> QED
      BY <3>1, RexPrefixes, Zenon DEF p
  <2> HIDE DEF p
  <2>6. D!Decoded(c) = D!RM(c, i, p, "mov", 64, 64)
    BY <1>0, <2>3, <2>4, <2>5, OpRM DEF Starts, HasBits
  <2>7. /\ m.index # 4 /\ Byte(m.num) => Reads(c, i, p.rex, d.reg, 0, m)
        /\ m.index = 4 \/ ~Byte(m.num) => Misreads(c, i, p.rex, 0, m)
    <3>1. /\ i \in Nat /\ Written3(c, i, 1, d.reg, 4) /\ Written3(c, i + 1, m.lv, m.index, m.reg)
          /\ c[i + 2] = Low(m.num) /\ Len(c) = i + 2 + 0 /\ IsRx(p.rex) /\ p.rex.b = 1 /\ IsSib(m)
      BY <2>3, <2>4, <1>3 DEF HasBits, IsSib, IsScaled, IsMem
    <3> QED
      BY <1>0, <3>1, SibByteReads
  <2>8. Named(64, p.rex.r, p.isRex, d.reg) = D!Reg(d.type, d.reg)
    BY <1>3, <1>0, <2>4 DEF Named, HasBits, IsReg, Octal
  <2>9. /\ Reads(c, i, p.rex, d.reg, 0, m) =>
              (D!Decoded(c) = Means("mov", d, m) <=> Named(64, p.rex.r, p.isRex, d.reg) = D!Reg(d.type, d.reg))
        /\ Misreads(c, i, p.rex, 0, m) => D!Decoded(c) # Means("mov", d, m)
    <3>1. SrcSize("mov", d, m) = 64 /\ 64 \in Sizes
      BY <1>3, <1>0 DEF SrcSize, SizeOf, Sizes, Straight, IsRegister, IsMemory, IsReg, IsPlain, IsMem
    <3>2. IsRx(p.rex) /\ Len(c) \in Nat
      BY <2>3, <2>4 DEF HasBits
    <3> QED
      BY <1>0, <2>6, <3>1, <3>2, FromMeans
  <2>11. D!Decoded(c) = Means("mov", d, m) <=> ~(m.index = 4)
    BY <1>3, <2>7, <2>8, <2>9
  <2> QED
    BY <2>1, <2>2, <2>11 DEF Right
<1>4. CASE d.type = "R8toR15" /\ IsPlain(m, "RAXtoRDI")
  <2> DEFINE c == <<76, 139>> \o AtByte(d, m)
             p == PRex(1, 1, 0)
             i == 3
  <2>1. FromPtr64(d, m) = c
    BY <1>4, <1>0 DEF FromPtr64, IsPlain, IsMem, IsScaled
  <2>2. Misencoded <=> m.reg = 4 \/ ~Byte(m.num)
    BY <1>4, <1>0 DEF Misencoded, HighByteWithRex, NoSib, NoDisp, IndexLost, OffsetLost, BaseLost, SizeLost,
                      HasMem, Ptr, Counterpart, WithSib44, IsAlu, Is, IsReg, IsImm, IsPlain, IsScaled, IsMem,
                      IsRegister, IsMemory, IsNumber, OfLine
  <2>3. /\ i = 2 + 1 /\ i \in Nat /\ Len(c) = i + 1 + 0 /\ Len(c) = 4 /\ c[1] = 76 /\ c[2] = 139
        /\ Written3(c, i, 1, d.reg, m.reg) /\ c[i + 1] = Low(m.num)
    BY <1>0 DEF AtByte, ModRM, Written3
  <2>4. HasBits(p, 1, 0, 64) /\ p.isRex
    BY PrefixesAre
  <2> HIDE DEF c, i
  <2>5. Starts(c, 2, p)
    <3>1. Len(c) \in Nat /\ 2 <= Len(c) /\ c[1] = 76
      BY <2>3
    <3> QED
      BY <3>1, RexPrefixes, Zenon DEF p
  <2> HIDE DEF p
  <2>6. D!Decoded(c) = D!RM(c, i, p, "mov", 64, 64)
    BY <1>0, <2>3, <2>4, <2>5, OpRM DEF Starts, HasBits
  <2>7. /\ m.reg # 4 /\ IsAt(m, p.rex.b) /\ Byte(m.num) => Reads(c, i, p.rex, d.reg, 0, m)
        /\ m.reg = 4 \/ ~IsAt(m, p.rex.b) \/ ~Byte(m.num) => Misreads(c, i, p.rex, 0, m)
    <3>1. /\ i \in Nat /\ Written3(c, i, 1, d.reg, m.reg) /\ c[i + 1] = Low(m.num) /\ Len(c) = i + 1 + 0
          /\ IsRx(p.rex)
      BY <2>3, <2>4 DEF HasBits
    <3> QED
      BY <1>0, <3>1, AtByteReads
  <2>8. Named(64, p.rex.r, p.isRex, d.reg) = D!Reg(d.type, d.reg)
    BY <1>4, <1>0, <2>4 DEF Named, HasBits, IsReg, Octal
  <2>9. /\ Reads(c, i, p.rex, d.reg, 0, m) =>
              (D!Decoded(c) = Means("mov", d, m) <=> Named(64, p.rex.r, p.isRex, d.reg) = D!Reg(d.type, d.reg))
        /\ Misreads(c, i, p.rex, 0, m) => D!Decoded(c) # Means("mov", d, m)
    <3>1. SrcSize("mov", d, m) = 64 /\ 64 \in Sizes
      BY <1>4, <1>0 DEF SrcSize, SizeOf, Sizes, Straight, IsRegister, IsMemory, IsReg, IsPlain, IsMem
    <3>2. IsRx(p.rex) /\ Len(c) \in Nat
      BY <2>3, <2>4 DEF HasBits
    <3> QED
      BY <1>0, <2>6, <3>1, <3>2, FromMeans
  <2>10. IsAt(m, p.rex.b)
    BY <1>4, <1>0, <2>4 DEF IsAt, IsPlain, IsMem, HasBits
  <2>11. D!Decoded(c) = Means("mov", d, m) <=> ~(m.reg = 4 \/ ~Byte(m.num))
    BY <1>4, <2>7, <2>8, <2>9, <2>10
  <2> QED
    BY <2>1, <2>2, <2>11 DEF Right
<1>5. CASE d.type = "R8toR15" /\ IsScaled(m, "R8toR15")
  <2> DEFINE c == <<77, 139, ModRM(0, d.reg, 4), SIB(m)>>
             p == PRex(1, 1, 1)
             i == 3
  <2>1. FromPtr64(d, m) = c
    BY <1>5, <1>0 DEF FromPtr64, IsPlain, IsMem, IsScaled
  <2>2. Misencoded <=> m.reg = 5 \/ m.index = 4 \/ m.num # 0
    BY <1>5, <1>0 DEF Misencoded, HighByteWithRex, NoSib, NoDisp, IndexLost, OffsetLost, BaseLost, SizeLost,
                      HasMem, Ptr, Counterpart, WithSib44, IsAlu, Is, IsReg, IsImm, IsPlain, IsScaled, IsMem,
                      IsRegister, IsMemory, IsNumber, OfLine
  <2>3. /\ i = 2 + 1 /\ i \in Nat /\ Len(c) = i + 1 + 0 /\ Len(c) = 4 /\ c[1] = 77 /\ c[2] = 139
        /\ Written3(c, i, 0, d.reg, 4) /\ Written3(c, i + 1, m.lv, m.index, m.reg)
    BY <1>0 DEF ModRM, SIB, Written3
  <2>4. HasBits(p, 1, 1, 64) /\ p.isRex
    BY PrefixesAre
  <2> HIDE DEF c, i
  <2>5. Starts(c, 2, p)
    <3>1. Len(c) \in Nat /\ 2 <= Len(c) /\ c[1] = 77
      BY <2>3
    <3> QED
      BY <3>1, RexPrefixes, Zenon DEF p
  <2> HIDE DEF p
  <2>6. D!Decoded(c) = D!RM(c, i, p, "mov", 64, 64)
    BY <1>0, <2>3, <2>4, <2>5, OpRM DEF Starts, HasBits
  <2>7. /\ m.reg # 5 /\ m.index # 4 /\ m.num = 0 => Reads(c, i, p.rex, d.reg, 0, m)
        /\ m.reg = 5 \/ m.index = 4 \/ m.num # 0 => Misreads(c, i, p.rex, 0, m)
    <3>1. /\ i \in Nat /\ Written3(c, i, 0, d.reg, 4) /\ Written3(c, i + 1, m.lv, m.index, m.reg)
          /\ Len(c) = i + 1 + 0 /\ IsRx(p.rex) /\ p.rex.b = 1 /\ IsSib(m)
      BY <2>3, <2>4, <1>5 DEF HasBits, IsSib, IsScaled, IsMem
    <3> QED
      BY <1>0, <3>1, SibReads
  <2>8. Named(64, p.rex.r, p.isRex, d.reg) = D!Reg(d.type, d.reg)
    BY <1>5, <1>0, <2>4 DEF Named, HasBits, IsReg, Octal
  <2>9. /\ Reads(c, i, p.rex, d.reg, 0, m) =>
              (D!Decoded(c) = Means("mov", d, m) <=> Named(64, p.rex.r, p.isRex, d.reg) = D!Reg(d.type, d.reg))
        /\ Misreads(c, i, p.rex, 0, m) => D!Decoded(c) # Means("mov", d, m)
    <3>1. SrcSize("mov", d, m) = 64 /\ 64 \in Sizes
      BY <1>5, <1>0 DEF SrcSize, SizeOf, Sizes, Straight, IsRegister, IsMemory, IsReg, IsPlain, IsMem
    <3>2. IsRx(p.rex) /\ Len(c) \in Nat
      BY <2>3, <2>4 DEF HasBits
    <3> QED
      BY <1>0, <2>6, <3>1, <3>2, FromMeans
  <2>11. D!Decoded(c) = Means("mov", d, m) <=> ~(m.reg = 5 \/ m.index = 4 \/ m.num # 0)
    BY <1>5, <2>7, <2>8, <2>9
  <2> QED
    BY <2>1, <2>2, <2>11 DEF Right
<1>6. FromPtr64(d, m) # Refuse =>
         \/ d.type = "RAXtoRDI" /\ IsPlain(m, "RAXtoRDI") /\ m.num = 0
         \/ d.type = "RAXtoRDI" /\ IsPlain(m, "RAXtoRDI") /\ m.num # 0 /\ Byte(m.num)
         \/ d.type = "RAXtoRDI" /\ IsScaled(m, "R8toR15") /\ Byte(m.num)
         \/ d.type = "R8toR15" /\ IsPlain(m, "RAXtoRDI")
         \/ d.type = "R8toR15" /\ IsScaled(m, "R8toR15")
  BY <1>0 DEF FromPtr64, IsPlain, IsMem, IsScaled
<1> QED
  BY <1>1, <1>2, <1>3, <1>4, <1>5, <1>6 DEF Right

LEMMA FromPtr8Is ==
  ASSUME NEW d, NEW m,
         OfLine("mov", d, m), IsRegister(d), IsMemory(m), d.type = "ALtoBH", m.size = 8
  PROVE  Right(FromPtr8(d, m), "mov", d, m)
<1>0. /\ d.reg \in Octal /\ d.kind = "reg" /\ m.reg \in Octal /\ m.index \in Octal /\ m.lv \in 0 .. 3
      /\ m.num \in Int32 /\ m.num \in Int /\ (m.num = 0 => Byte(m.num)) /\ m.kind = "mem" /\ Octal \subseteq Int
      /\ Straight("mov") /\ "mov" \notin DOMAIN AluOp
  BY RegisterShape, MemoryShape, LongIsInt DEF Octal, IsRegister, IsMemory, Byte, ShiftOp, AluOp, Straight
<1>1. CASE IsPlain(m, "RAXtoRDI") /\ m.num = 0
  <2> DEFINE c == <<138, At(d, m)>>
             p == P0
             i == 2
  <2>1. FromPtr8(d, m) = c
    BY <1>1, <1>0 DEF FromPtr8, IsPlain, IsMem, IsScaled
  <2>2. Misencoded <=> m.reg \in {4, 5}
    BY <1>1, <1>0 DEF Misencoded, HighByteWithRex, NoSib, NoDisp, IndexLost, OffsetLost, BaseLost, SizeLost,
                      HasMem, Ptr, Counterpart, WithSib44, IsAlu, Is, IsReg, IsImm, IsPlain, IsScaled, IsMem,
                      IsRegister, IsMemory, IsNumber, OfLine
  <2>3. i = 1 + 1 /\ i \in Nat /\ Len(c) = i /\ Len(c) = 2 /\ c[1] = 138 /\ Written3(c, i, 0, d.reg, m.reg)
    BY <1>0 DEF At, ModRM, Written3
  <2>4. HasBits(p, 0, 0, 32) /\ ~p.isRex
    BY PrefixesAre
  <2> HIDE DEF c, i
  <2>5. Starts(c, 1, p)
    <3>1. Len(c) \in Nat /\ 1 <= Len(c) /\ IsOp(c[1])
      BY <2>3 DEF IsOp
    <3> QED
      BY <3>1, NoPrefix, Zenon DEF p
  <2> HIDE DEF p
  <2>6. D!Decoded(c) = D!RM(c, i, p, "mov", 8, 8)
    BY <1>0, <2>3, <2>4, <2>5, OpRM DEF Starts, HasBits
  <2>7. /\ m.reg \notin {4, 5} /\ IsAt(m, p.rex.b) /\ m.num = 0 => Reads(c, i, p.rex, d.reg, 0, m)
        /\ m.reg \in {4, 5} \/ ~IsAt(m, p.rex.b) \/ m.num # 0 => Misreads(c, i, p.rex, 0, m)
    <3>1. i \in Nat /\ Written3(c, i, 0, d.reg, m.reg) /\ Len(c) = i /\ IsRx(p.rex)
      BY <2>3, <2>4 DEF HasBits
    <3> QED
      BY <1>0, <3>1, AtReads
  <2>8. Named(8, p.rex.r, p.isRex, d.reg) = D!Reg(d.type, d.reg)
    BY <1>1, <1>0, <2>4 DEF Named, HasBits, IsReg, Octal
  <2>9. /\ Reads(c, i, p.rex, d.reg, 0, m) =>
              (D!Decoded(c) = Means("mov", d, m) <=> Named(8, p.rex.r, p.isRex, d.reg) = D!Reg(d.type, d.reg))
        /\ Misreads(c, i, p.rex, 0, m) => D!Decoded(c) # Means("mov", d, m)
    <3>1. SrcSize("mov", d, m) = 8 /\ 8 \in Sizes
      BY <1>1, <1>0 DEF SrcSize, SizeOf, Sizes, Straight, IsRegister, IsMemory, IsReg, IsPlain, IsMem
    <3>2. IsRx(p.rex) /\ Len(c) \in Nat
      BY <2>3, <2>4 DEF HasBits
    <3> QED
      BY <1>0, <2>6, <3>1, <3>2, FromMeans
  <2>10. IsAt(m, p.rex.b)
    BY <1>1, <1>0, <2>4 DEF IsAt, IsPlain, IsMem, HasBits
  <2>11. D!Decoded(c) = Means("mov", d, m) <=> ~(m.reg \in {4, 5})
    BY <1>1, <2>7, <2>8, <2>9, <2>10
  <2> QED
    BY <2>1, <2>2, <2>11 DEF Right
<1>2. CASE IsPlain(m, "RAXtoRDI") /\ m.num # 0 /\ Byte(m.num)
  <2> DEFINE c == <<138>> \o AtByte(d, m)
             p == P0
             i == 2
  <2>1. FromPtr8(d, m) = c
    BY <1>2, <1>0 DEF FromPtr8, IsPlain, IsMem, IsScaled
  <2>2. Misencoded <=> m.reg = 4
    BY <1>2, <1>0 DEF Misencoded, HighByteWithRex, NoSib, NoDisp, IndexLost, OffsetLost, BaseLost, SizeLost,
                      HasMem, Ptr, Counterpart, WithSib44, IsAlu, Is, IsReg, IsImm, IsPlain, IsScaled, IsMem,
                      IsRegister, IsMemory, IsNumber, OfLine
  <2>3. /\ i = 1 + 1 /\ i \in Nat /\ Len(c) = i + 1 + 0 /\ Len(c) = 3 /\ c[1] = 138
        /\ Written3(c, i, 1, d.reg, m.reg) /\ c[i + 1] = Low(m.num)
    BY <1>0 DEF AtByte, ModRM, Written3
  <2>4. HasBits(p, 0, 0, 32) /\ ~p.isRex
    BY PrefixesAre
  <2> HIDE DEF c, i
  <2>5. Starts(c, 1, p)
    <3>1. Len(c) \in Nat /\ 1 <= Len(c) /\ IsOp(c[1])
      BY <2>3 DEF IsOp
    <3> QED
      BY <3>1, NoPrefix, Zenon DEF p
  <2> HIDE DEF p
  <2>6. D!Decoded(c) = D!RM(c, i, p, "mov", 8, 8)
    BY <1>0, <2>3, <2>4, <2>5, OpRM DEF Starts, HasBits
  <2>7. /\ m.reg # 4 /\ IsAt(m, p.rex.b) /\ Byte(m.num) => Reads(c, i, p.rex, d.reg, 0, m)
        /\ m.reg = 4 \/ ~IsAt(m, p.rex.b) \/ ~Byte(m.num) => Misreads(c, i, p.rex, 0, m)
    <3>1. /\ i \in Nat /\ Written3(c, i, 1, d.reg, m.reg) /\ c[i + 1] = Low(m.num) /\ Len(c) = i + 1 + 0
          /\ IsRx(p.rex)
      BY <2>3, <2>4 DEF HasBits
    <3> QED
      BY <1>0, <3>1, AtByteReads
  <2>8. Named(8, p.rex.r, p.isRex, d.reg) = D!Reg(d.type, d.reg)
    BY <1>2, <1>0, <2>4 DEF Named, HasBits, IsReg, Octal
  <2>9. /\ Reads(c, i, p.rex, d.reg, 0, m) =>
              (D!Decoded(c) = Means("mov", d, m) <=> Named(8, p.rex.r, p.isRex, d.reg) = D!Reg(d.type, d.reg))
        /\ Misreads(c, i, p.rex, 0, m) => D!Decoded(c) # Means("mov", d, m)
    <3>1. SrcSize("mov", d, m) = 8 /\ 8 \in Sizes
      BY <1>2, <1>0 DEF SrcSize, SizeOf, Sizes, Straight, IsRegister, IsMemory, IsReg, IsPlain, IsMem
    <3>2. IsRx(p.rex) /\ Len(c) \in Nat
      BY <2>3, <2>4 DEF HasBits
    <3> QED
      BY <1>0, <2>6, <3>1, <3>2, FromMeans
  <2>10. IsAt(m, p.rex.b)
    BY <1>2, <1>0, <2>4 DEF IsAt, IsPlain, IsMem, HasBits
  <2>11. D!Decoded(c) = Means("mov", d, m) <=> ~(m.reg = 4)
    BY <1>2, <2>7, <2>8, <2>9, <2>10
  <2> QED
    BY <2>1, <2>2, <2>11 DEF Right
<1>3. CASE IsPlain(m, "RAXtoRDI") /\ ~Byte(m.num)
  <2> DEFINE c == <<138>> \o AtLong(d, m)
             p == P0
             i == 2
  <2>1. FromPtr8(d, m) = c
    BY <1>3, <1>0 DEF FromPtr8, IsPlain, IsMem, IsScaled
  <2>2. Misencoded <=> m.reg = 4
    BY <1>3, <1>0 DEF Misencoded, HighByteWithRex, NoSib, NoDisp, IndexLost, OffsetLost, BaseLost, SizeLost,
                      HasMem, Ptr, Counterpart, WithSib44, IsAlu, Is, IsReg, IsImm, IsPlain, IsScaled, IsMem,
                      IsRegister, IsMemory, IsNumber, OfLine
  <2>3. /\ i = 1 + 1 /\ i \in Nat /\ Len(c) = i + 4 + 0 /\ Len(c) = 6 /\ c[1] = 138
        /\ Written3(c, i, 2, d.reg, m.reg) /\ Quad(c, i + 1, m.num)
    BY <1>0 DEF AtLong, Bytes, ModRM, Quad, Written3
  <2>4. HasBits(p, 0, 0, 32) /\ ~p.isRex
    BY PrefixesAre
  <2> HIDE DEF c, i
  <2>5. Starts(c, 1, p)
    <3>1. Len(c) \in Nat /\ 1 <= Len(c) /\ IsOp(c[1])
      BY <2>3 DEF IsOp
    <3> QED
      BY <3>1, NoPrefix, Zenon DEF p
  <2> HIDE DEF p
  <2>6. D!Decoded(c) = D!RM(c, i, p, "mov", 8, 8)
    BY <1>0, <2>3, <2>4, <2>5, OpRM DEF Starts, HasBits
  <2>7. /\ m.reg # 4 /\ IsAt(m, p.rex.b) => Reads(c, i, p.rex, d.reg, 0, m)
        /\ m.reg = 4 \/ ~IsAt(m, p.rex.b) => Misreads(c, i, p.rex, 0, m)
    <3>1. /\ i \in Nat /\ Written3(c, i, 2, d.reg, m.reg) /\ Quad(c, i + 1, m.num) /\ Len(c) = i + 4 + 0
          /\ IsRx(p.rex)
      BY <2>3, <2>4 DEF HasBits
    <3> QED
      BY <1>0, <3>1, AtLongReads
  <2>8. Named(8, p.rex.r, p.isRex, d.reg) = D!Reg(d.type, d.reg)
    BY <1>3, <1>0, <2>4 DEF Named, HasBits, IsReg, Octal
  <2>9. /\ Reads(c, i, p.rex, d.reg, 0, m) =>
              (D!Decoded(c) = Means("mov", d, m) <=> Named(8, p.rex.r, p.isRex, d.reg) = D!Reg(d.type, d.reg))
        /\ Misreads(c, i, p.rex, 0, m) => D!Decoded(c) # Means("mov", d, m)
    <3>1. SrcSize("mov", d, m) = 8 /\ 8 \in Sizes
      BY <1>3, <1>0 DEF SrcSize, SizeOf, Sizes, Straight, IsRegister, IsMemory, IsReg, IsPlain, IsMem
    <3>2. IsRx(p.rex) /\ Len(c) \in Nat
      BY <2>3, <2>4 DEF HasBits
    <3> QED
      BY <1>0, <2>6, <3>1, <3>2, FromMeans
  <2>10. IsAt(m, p.rex.b)
    BY <1>3, <1>0, <2>4 DEF IsAt, IsPlain, IsMem, HasBits
  <2>11. D!Decoded(c) = Means("mov", d, m) <=> ~(m.reg = 4)
    BY <1>3, <2>7, <2>8, <2>9, <2>10
  <2> QED
    BY <2>1, <2>2, <2>11 DEF Right
<1>4. CASE IsPlain(m, "R8toR15") /\ m.num = 0
  <2> DEFINE c == <<65, 138, At(d, m)>>
             p == PRex(0, 0, 1)
             i == 3
  <2>1. FromPtr8(d, m) = c
    BY <1>4, <1>0 DEF FromPtr8, IsPlain, IsMem, IsScaled
  <2>2. Misencoded <=> m.reg \in {4, 5} \/ d.reg > 3
    BY <1>4, <1>0 DEF Misencoded, HighByteWithRex, NoSib, NoDisp, IndexLost, OffsetLost, BaseLost, SizeLost,
                      HasMem, Ptr, Counterpart, WithSib44, IsAlu, Is, IsReg, IsImm, IsPlain, IsScaled, IsMem,
                      IsRegister, IsMemory, IsNumber, OfLine
  <2>3. /\ i = 2 + 1 /\ i \in Nat /\ Len(c) = i /\ Len(c) = 3 /\ c[1] = 65 /\ c[2] = 138
        /\ Written3(c, i, 0, d.reg, m.reg)
    BY <1>0 DEF At, ModRM, Written3
  <2>4. HasBits(p, 0, 1, 32) /\ p.isRex
    BY PrefixesAre
  <2> HIDE DEF c, i
  <2>5. Starts(c, 2, p)
    <3>1. Len(c) \in Nat /\ 2 <= Len(c) /\ c[1] = 65
      BY <2>3
    <3> QED
      BY <3>1, RexPrefixes, Zenon DEF p
  <2> HIDE DEF p
  <2>6. D!Decoded(c) = D!RM(c, i, p, "mov", 8, 8)
    BY <1>0, <2>3, <2>4, <2>5, OpRM DEF Starts, HasBits
  <2>7. /\ m.reg \notin {4, 5} /\ IsAt(m, p.rex.b) /\ m.num = 0 => Reads(c, i, p.rex, d.reg, 0, m)
        /\ m.reg \in {4, 5} \/ ~IsAt(m, p.rex.b) \/ m.num # 0 => Misreads(c, i, p.rex, 0, m)
    <3>1. i \in Nat /\ Written3(c, i, 0, d.reg, m.reg) /\ Len(c) = i /\ IsRx(p.rex)
      BY <2>3, <2>4 DEF HasBits
    <3> QED
      BY <1>0, <3>1, AtReads
  <2>8. Named(8, p.rex.r, p.isRex, d.reg) = D!Reg(d.type, d.reg) <=> ~(d.reg > 3)
    BY <1>4, <1>0, <2>4, RegsEqual DEF Named, HasBits, IsReg, Octal
  <2>9. /\ Reads(c, i, p.rex, d.reg, 0, m) =>
              (D!Decoded(c) = Means("mov", d, m) <=> Named(8, p.rex.r, p.isRex, d.reg) = D!Reg(d.type, d.reg))
        /\ Misreads(c, i, p.rex, 0, m) => D!Decoded(c) # Means("mov", d, m)
    <3>1. SrcSize("mov", d, m) = 8 /\ 8 \in Sizes
      BY <1>4, <1>0 DEF SrcSize, SizeOf, Sizes, Straight, IsRegister, IsMemory, IsReg, IsPlain, IsMem
    <3>2. IsRx(p.rex) /\ Len(c) \in Nat
      BY <2>3, <2>4 DEF HasBits
    <3> QED
      BY <1>0, <2>6, <3>1, <3>2, FromMeans
  <2>10. IsAt(m, p.rex.b)
    BY <1>4, <1>0, <2>4 DEF IsAt, IsPlain, IsMem, HasBits
  <2>11. D!Decoded(c) = Means("mov", d, m) <=> ~(m.reg \in {4, 5} \/ d.reg > 3)
    BY <1>4, <2>7, <2>8, <2>9, <2>10
  <2> QED
    BY <2>1, <2>2, <2>11 DEF Right
<1>5. CASE IsPlain(m, "R8toR15") /\ m.num # 0 /\ Byte(m.num)
  <2> DEFINE c == <<65, 138>> \o AtByte(d, m)
             p == PRex(0, 0, 1)
             i == 3
  <2>1. FromPtr8(d, m) = c
    BY <1>5, <1>0 DEF FromPtr8, IsPlain, IsMem, IsScaled
  <2>2. Misencoded <=> m.reg = 4 \/ d.reg > 3
    BY <1>5, <1>0 DEF Misencoded, HighByteWithRex, NoSib, NoDisp, IndexLost, OffsetLost, BaseLost, SizeLost,
                      HasMem, Ptr, Counterpart, WithSib44, IsAlu, Is, IsReg, IsImm, IsPlain, IsScaled, IsMem,
                      IsRegister, IsMemory, IsNumber, OfLine
  <2>3. /\ i = 2 + 1 /\ i \in Nat /\ Len(c) = i + 1 + 0 /\ Len(c) = 4 /\ c[1] = 65 /\ c[2] = 138
        /\ Written3(c, i, 1, d.reg, m.reg) /\ c[i + 1] = Low(m.num)
    BY <1>0 DEF AtByte, ModRM, Written3
  <2>4. HasBits(p, 0, 1, 32) /\ p.isRex
    BY PrefixesAre
  <2> HIDE DEF c, i
  <2>5. Starts(c, 2, p)
    <3>1. Len(c) \in Nat /\ 2 <= Len(c) /\ c[1] = 65
      BY <2>3
    <3> QED
      BY <3>1, RexPrefixes, Zenon DEF p
  <2> HIDE DEF p
  <2>6. D!Decoded(c) = D!RM(c, i, p, "mov", 8, 8)
    BY <1>0, <2>3, <2>4, <2>5, OpRM DEF Starts, HasBits
  <2>7. /\ m.reg # 4 /\ IsAt(m, p.rex.b) /\ Byte(m.num) => Reads(c, i, p.rex, d.reg, 0, m)
        /\ m.reg = 4 \/ ~IsAt(m, p.rex.b) \/ ~Byte(m.num) => Misreads(c, i, p.rex, 0, m)
    <3>1. /\ i \in Nat /\ Written3(c, i, 1, d.reg, m.reg) /\ c[i + 1] = Low(m.num) /\ Len(c) = i + 1 + 0
          /\ IsRx(p.rex)
      BY <2>3, <2>4 DEF HasBits
    <3> QED
      BY <1>0, <3>1, AtByteReads
  <2>8. Named(8, p.rex.r, p.isRex, d.reg) = D!Reg(d.type, d.reg) <=> ~(d.reg > 3)
    BY <1>5, <1>0, <2>4, RegsEqual DEF Named, HasBits, IsReg, Octal
  <2>9. /\ Reads(c, i, p.rex, d.reg, 0, m) =>
              (D!Decoded(c) = Means("mov", d, m) <=> Named(8, p.rex.r, p.isRex, d.reg) = D!Reg(d.type, d.reg))
        /\ Misreads(c, i, p.rex, 0, m) => D!Decoded(c) # Means("mov", d, m)
    <3>1. SrcSize("mov", d, m) = 8 /\ 8 \in Sizes
      BY <1>5, <1>0 DEF SrcSize, SizeOf, Sizes, Straight, IsRegister, IsMemory, IsReg, IsPlain, IsMem
    <3>2. IsRx(p.rex) /\ Len(c) \in Nat
      BY <2>3, <2>4 DEF HasBits
    <3> QED
      BY <1>0, <2>6, <3>1, <3>2, FromMeans
  <2>10. IsAt(m, p.rex.b)
    BY <1>5, <1>0, <2>4 DEF IsAt, IsPlain, IsMem, HasBits
  <2>11. D!Decoded(c) = Means("mov", d, m) <=> ~(m.reg = 4 \/ d.reg > 3)
    BY <1>5, <2>7, <2>8, <2>9, <2>10
  <2> QED
    BY <2>1, <2>2, <2>11 DEF Right
<1>6. CASE IsScaled(m, "R8toR15") /\ ~Byte(m.num)
  <2> DEFINE c == <<65, 138>> \o SibLong(d, m)
             p == PRex(0, 0, 1)
             i == 3
  <2>1. FromPtr8(d, m) = c
    BY <1>6, <1>0 DEF FromPtr8, IsPlain, IsMem, IsScaled
  <2>2. Misencoded <=> m.index = 4 \/ d.reg > 3
    BY <1>6, <1>0 DEF Misencoded, HighByteWithRex, NoSib, NoDisp, IndexLost, OffsetLost, BaseLost, SizeLost,
                      HasMem, Ptr, Counterpart, WithSib44, IsAlu, Is, IsReg, IsImm, IsPlain, IsScaled, IsMem,
                      IsRegister, IsMemory, IsNumber, OfLine
  <2>3. /\ i = 2 + 1 /\ i \in Nat /\ Len(c) = i + 5 + 0 /\ Len(c) = 8 /\ c[1] = 65 /\ c[2] = 138
        /\ Written3(c, i, 2, d.reg, 4) /\ Written3(c, i + 1, m.lv, m.index, m.reg) /\ Quad(c, i + 2, m.num)
    BY <1>0 DEF Bytes, ModRM, Quad, SIB, SibLong, Written3
  <2>4. HasBits(p, 0, 1, 32) /\ p.isRex
    BY PrefixesAre
  <2> HIDE DEF c, i
  <2>5. Starts(c, 2, p)
    <3>1. Len(c) \in Nat /\ 2 <= Len(c) /\ c[1] = 65
      BY <2>3
    <3> QED
      BY <3>1, RexPrefixes, Zenon DEF p
  <2> HIDE DEF p
  <2>6. D!Decoded(c) = D!RM(c, i, p, "mov", 8, 8)
    BY <1>0, <2>3, <2>4, <2>5, OpRM DEF Starts, HasBits
  <2>7. /\ m.index # 4 => Reads(c, i, p.rex, d.reg, 0, m)
        /\ m.index = 4 => Misreads(c, i, p.rex, 0, m)
    <3>1. /\ i \in Nat /\ Written3(c, i, 2, d.reg, 4) /\ Written3(c, i + 1, m.lv, m.index, m.reg)
          /\ Quad(c, i + 2, m.num) /\ Len(c) = i + 5 + 0 /\ IsRx(p.rex) /\ p.rex.b = 1 /\ IsSib(m)
      BY <2>3, <2>4, <1>6 DEF HasBits, IsSib, IsScaled, IsMem
    <3> QED
      BY <1>0, <3>1, SibLongReads
  <2>8. Named(8, p.rex.r, p.isRex, d.reg) = D!Reg(d.type, d.reg) <=> ~(d.reg > 3)
    BY <1>6, <1>0, <2>4, RegsEqual DEF Named, HasBits, IsReg, Octal
  <2>9. /\ Reads(c, i, p.rex, d.reg, 0, m) =>
              (D!Decoded(c) = Means("mov", d, m) <=> Named(8, p.rex.r, p.isRex, d.reg) = D!Reg(d.type, d.reg))
        /\ Misreads(c, i, p.rex, 0, m) => D!Decoded(c) # Means("mov", d, m)
    <3>1. SrcSize("mov", d, m) = 8 /\ 8 \in Sizes
      BY <1>6, <1>0 DEF SrcSize, SizeOf, Sizes, Straight, IsRegister, IsMemory, IsReg, IsPlain, IsMem
    <3>2. IsRx(p.rex) /\ Len(c) \in Nat
      BY <2>3, <2>4 DEF HasBits
    <3> QED
      BY <1>0, <2>6, <3>1, <3>2, FromMeans
  <2>11. D!Decoded(c) = Means("mov", d, m) <=> ~(m.index = 4 \/ d.reg > 3)
    BY <1>6, <2>7, <2>8, <2>9
  <2> QED
    BY <2>1, <2>2, <2>11 DEF Right
<1>7. FromPtr8(d, m) # Refuse =>
         \/ IsPlain(m, "RAXtoRDI") /\ m.num = 0
         \/ IsPlain(m, "RAXtoRDI") /\ m.num # 0 /\ Byte(m.num)
         \/ IsPlain(m, "RAXtoRDI") /\ ~Byte(m.num)
         \/ IsPlain(m, "R8toR15") /\ m.num = 0
         \/ IsPlain(m, "R8toR15") /\ m.num # 0 /\ Byte(m.num)
         \/ IsScaled(m, "R8toR15") /\ ~Byte(m.num)
  BY <1>0 DEF FromPtr8, IsPlain, IsMem, IsScaled
<1> QED
  BY <1>1, <1>2, <1>3, <1>4, <1>5, <1>6, <1>7 DEF Right

LEMMA FromPtr16Is ==
  ASSUME NEW d, NEW m,
         OfLine("mov", d, m), IsRegister(d), IsMemory(m), d.type = "AXtoDI", m.size = 16
  PROVE  Right(FromPtr16(d, m), "mov", d, m)
<1>0. /\ d.reg \in Octal /\ d.kind = "reg" /\ m.reg \in Octal /\ m.index \in Octal /\ m.lv \in 0 .. 3
      /\ m.num \in Int32 /\ m.num \in Int /\ (m.num = 0 => Byte(m.num)) /\ m.kind = "mem" /\ Octal \subseteq Int
      /\ Straight("mov") /\ "mov" \notin DOMAIN AluOp
  BY RegisterShape, MemoryShape, LongIsInt DEF Octal, IsRegister, IsMemory, Byte, ShiftOp, AluOp, Straight
<1>1. CASE IsPlain(m, "RAXtoRDI") /\ m.num = 0
  <2> DEFINE c == <<102, 139, At(d, m)>>
             p == P66
             i == 3
  <2>1. FromPtr16(d, m) = c
    BY <1>1, <1>0 DEF FromPtr16, IsPlain, IsMem, IsScaled
  <2>2. Misencoded <=> m.reg \in {4, 5}
    BY <1>1, <1>0 DEF Misencoded, HighByteWithRex, NoSib, NoDisp, IndexLost, OffsetLost, BaseLost, SizeLost,
                      HasMem, Ptr, Counterpart, WithSib44, IsAlu, Is, IsReg, IsImm, IsPlain, IsScaled, IsMem,
                      IsRegister, IsMemory, IsNumber, OfLine
  <2>3. /\ i = 2 + 1 /\ i \in Nat /\ Len(c) = i /\ Len(c) = 3 /\ c[1] = 102 /\ c[2] = 139
        /\ Written3(c, i, 0, d.reg, m.reg)
    BY <1>0 DEF At, ModRM, Written3
  <2>4. HasBits(p, 0, 0, 16) /\ ~p.isRex
    BY PrefixesAre
  <2> HIDE DEF c, i
  <2>5. Starts(c, 2, p)
    <3>1. Len(c) \in Nat /\ 2 <= Len(c) /\ c[1] = 102 /\ IsOp(c[2])
      BY <2>3 DEF IsOp
    <3> QED
      BY <3>1, Prefix66, Zenon DEF p
  <2> HIDE DEF p
  <2>6. D!Decoded(c) = D!RM(c, i, p, "mov", 16, 16)
    BY <1>0, <2>3, <2>4, <2>5, OpRM DEF Starts, HasBits
  <2>7. /\ m.reg \notin {4, 5} /\ IsAt(m, p.rex.b) /\ m.num = 0 => Reads(c, i, p.rex, d.reg, 0, m)
        /\ m.reg \in {4, 5} \/ ~IsAt(m, p.rex.b) \/ m.num # 0 => Misreads(c, i, p.rex, 0, m)
    <3>1. i \in Nat /\ Written3(c, i, 0, d.reg, m.reg) /\ Len(c) = i /\ IsRx(p.rex)
      BY <2>3, <2>4 DEF HasBits
    <3> QED
      BY <1>0, <3>1, AtReads
  <2>8. Named(16, p.rex.r, p.isRex, d.reg) = D!Reg(d.type, d.reg)
    BY <1>1, <1>0, <2>4 DEF Named, HasBits, IsReg, Octal
  <2>9. /\ Reads(c, i, p.rex, d.reg, 0, m) =>
              (D!Decoded(c) = Means("mov", d, m) <=> Named(16, p.rex.r, p.isRex, d.reg) = D!Reg(d.type, d.reg))
        /\ Misreads(c, i, p.rex, 0, m) => D!Decoded(c) # Means("mov", d, m)
    <3>1. SrcSize("mov", d, m) = 16 /\ 16 \in Sizes
      BY <1>1, <1>0 DEF SrcSize, SizeOf, Sizes, Straight, IsRegister, IsMemory, IsReg, IsPlain, IsMem
    <3>2. IsRx(p.rex) /\ Len(c) \in Nat
      BY <2>3, <2>4 DEF HasBits
    <3> QED
      BY <1>0, <2>6, <3>1, <3>2, FromMeans
  <2>10. IsAt(m, p.rex.b)
    BY <1>1, <1>0, <2>4 DEF IsAt, IsPlain, IsMem, HasBits
  <2>11. D!Decoded(c) = Means("mov", d, m) <=> ~(m.reg \in {4, 5})
    BY <1>1, <2>7, <2>8, <2>9, <2>10
  <2> QED
    BY <2>1, <2>2, <2>11 DEF Right
<1>2. CASE IsPlain(m, "RAXtoRDI") /\ m.num # 0 /\ Byte(m.num)
  <2> DEFINE c == <<102, 139>> \o AtByte(d, m)
             p == P66
             i == 3
  <2>1. FromPtr16(d, m) = c
    BY <1>2, <1>0 DEF FromPtr16, IsPlain, IsMem, IsScaled
  <2>2. Misencoded <=> m.reg = 4
    BY <1>2, <1>0 DEF Misencoded, HighByteWithRex, NoSib, NoDisp, IndexLost, OffsetLost, BaseLost, SizeLost,
                      HasMem, Ptr, Counterpart, WithSib44, IsAlu, Is, IsReg, IsImm, IsPlain, IsScaled, IsMem,
                      IsRegister, IsMemory, IsNumber, OfLine
  <2>3. /\ i = 2 + 1 /\ i \in Nat /\ Len(c) = i + 1 + 0 /\ Len(c) = 4 /\ c[1] = 102 /\ c[2] = 139
        /\ Written3(c, i, 1, d.reg, m.reg) /\ c[i + 1] = Low(m.num)
    BY <1>0 DEF AtByte, ModRM, Written3
  <2>4. HasBits(p, 0, 0, 16) /\ ~p.isRex
    BY PrefixesAre
  <2> HIDE DEF c, i
  <2>5. Starts(c, 2, p)
    <3>1. Len(c) \in Nat /\ 2 <= Len(c) /\ c[1] = 102 /\ IsOp(c[2])
      BY <2>3 DEF IsOp
    <3> QED
      BY <3>1, Prefix66, Zenon DEF p
  <2> HIDE DEF p
  <2>6. D!Decoded(c) = D!RM(c, i, p, "mov", 16, 16)
    BY <1>0, <2>3, <2>4, <2>5, OpRM DEF Starts, HasBits
  <2>7. /\ m.reg # 4 /\ IsAt(m, p.rex.b) /\ Byte(m.num) => Reads(c, i, p.rex, d.reg, 0, m)
        /\ m.reg = 4 \/ ~IsAt(m, p.rex.b) \/ ~Byte(m.num) => Misreads(c, i, p.rex, 0, m)
    <3>1. /\ i \in Nat /\ Written3(c, i, 1, d.reg, m.reg) /\ c[i + 1] = Low(m.num) /\ Len(c) = i + 1 + 0
          /\ IsRx(p.rex)
      BY <2>3, <2>4 DEF HasBits
    <3> QED
      BY <1>0, <3>1, AtByteReads
  <2>8. Named(16, p.rex.r, p.isRex, d.reg) = D!Reg(d.type, d.reg)
    BY <1>2, <1>0, <2>4 DEF Named, HasBits, IsReg, Octal
  <2>9. /\ Reads(c, i, p.rex, d.reg, 0, m) =>
              (D!Decoded(c) = Means("mov", d, m) <=> Named(16, p.rex.r, p.isRex, d.reg) = D!Reg(d.type, d.reg))
        /\ Misreads(c, i, p.rex, 0, m) => D!Decoded(c) # Means("mov", d, m)
    <3>1. SrcSize("mov", d, m) = 16 /\ 16 \in Sizes
      BY <1>2, <1>0 DEF SrcSize, SizeOf, Sizes, Straight, IsRegister, IsMemory, IsReg, IsPlain, IsMem
    <3>2. IsRx(p.rex) /\ Len(c) \in Nat
      BY <2>3, <2>4 DEF HasBits
    <3> QED
      BY <1>0, <2>6, <3>1, <3>2, FromMeans
  <2>10. IsAt(m, p.rex.b)
    BY <1>2, <1>0, <2>4 DEF IsAt, IsPlain, IsMem, HasBits
  <2>11. D!Decoded(c) = Means("mov", d, m) <=> ~(m.reg = 4)
    BY <1>2, <2>7, <2>8, <2>9, <2>10
  <2> QED
    BY <2>1, <2>2, <2>11 DEF Right
<1>3. CASE IsPlain(m, "R8toR15") /\ Byte(m.num)
  <2> DEFINE c == <<102, 65, 139>> \o AtByte(d, m)
             p == P66B
             i == 4
  <2>1. FromPtr16(d, m) = c
    BY <1>3, <1>0 DEF FromPtr16, IsPlain, IsMem, IsScaled
  <2>2. Misencoded <=> m.reg = 4
    BY <1>3, <1>0 DEF Misencoded, HighByteWithRex, NoSib, NoDisp, IndexLost, OffsetLost, BaseLost, SizeLost,
                      HasMem, Ptr, Counterpart, WithSib44, IsAlu, Is, IsReg, IsImm, IsPlain, IsScaled, IsMem,
                      IsRegister, IsMemory, IsNumber, OfLine
  <2>3. /\ i = 3 + 1 /\ i \in Nat /\ Len(c) = i + 1 + 0 /\ Len(c) = 5 /\ c[1] = 102 /\ c[2] = 65 /\ c[3] = 139
        /\ Written3(c, i, 1, d.reg, m.reg) /\ c[i + 1] = Low(m.num)
    BY <1>0 DEF AtByte, ModRM, Written3
  <2>4. HasBits(p, 0, 1, 16) /\ p.isRex
    BY PrefixesAre
  <2> HIDE DEF c, i
  <2>5. Starts(c, 3, p)
    <3>1. Len(c) \in Nat /\ 3 <= Len(c) /\ c[1] = 102 /\ c[2] = 65
      BY <2>3
    <3> QED
      BY <3>1, Prefix66Rex, Zenon DEF p
  <2> HIDE DEF p
  <2>6. D!Decoded(c) = D!RM(c, i, p, "mov", 16, 16)
    BY <1>0, <2>3, <2>4, <2>5, OpRM DEF Starts, HasBits
  <2>7. /\ m.reg # 4 /\ IsAt(m, p.rex.b) /\ Byte(m.num) => Reads(c, i, p.rex, d.reg, 0, m)
        /\ m.reg = 4 \/ ~IsAt(m, p.rex.b) \/ ~Byte(m.num) => Misreads(c, i, p.rex, 0, m)
    <3>1. /\ i \in Nat /\ Written3(c, i, 1, d.reg, m.reg) /\ c[i + 1] = Low(m.num) /\ Len(c) = i + 1 + 0
          /\ IsRx(p.rex)
      BY <2>3, <2>4 DEF HasBits
    <3> QED
      BY <1>0, <3>1, AtByteReads
  <2>8. Named(16, p.rex.r, p.isRex, d.reg) = D!Reg(d.type, d.reg)
    BY <1>3, <1>0, <2>4 DEF Named, HasBits, IsReg, Octal
  <2>9. /\ Reads(c, i, p.rex, d.reg, 0, m) =>
              (D!Decoded(c) = Means("mov", d, m) <=> Named(16, p.rex.r, p.isRex, d.reg) = D!Reg(d.type, d.reg))
        /\ Misreads(c, i, p.rex, 0, m) => D!Decoded(c) # Means("mov", d, m)
    <3>1. SrcSize("mov", d, m) = 16 /\ 16 \in Sizes
      BY <1>3, <1>0 DEF SrcSize, SizeOf, Sizes, Straight, IsRegister, IsMemory, IsReg, IsPlain, IsMem
    <3>2. IsRx(p.rex) /\ Len(c) \in Nat
      BY <2>3, <2>4 DEF HasBits
    <3> QED
      BY <1>0, <2>6, <3>1, <3>2, FromMeans
  <2>10. IsAt(m, p.rex.b)
    BY <1>3, <1>0, <2>4 DEF IsAt, IsPlain, IsMem, HasBits
  <2>11. D!Decoded(c) = Means("mov", d, m) <=> ~(m.reg = 4)
    BY <1>3, <2>7, <2>8, <2>9, <2>10
  <2> QED
    BY <2>1, <2>2, <2>11 DEF Right
<1>4. FromPtr16(d, m) # Refuse =>
         \/ IsPlain(m, "RAXtoRDI") /\ m.num = 0
         \/ IsPlain(m, "RAXtoRDI") /\ m.num # 0 /\ Byte(m.num)
         \/ IsPlain(m, "R8toR15") /\ Byte(m.num)
  BY <1>0 DEF FromPtr16, IsPlain, IsMem, IsScaled
<1> QED
  BY <1>1, <1>2, <1>3, <1>4 DEF Right

LEMMA ToPtrRegIs ==
  ASSUME NEW m, NEW s,
         OfLine("mov", m, s), IsMemory(m), IsRegister(s)
  PROVE  Right(ToPtr(m, s), "mov", m, s)
<1>0. /\ s.reg \in Octal /\ s.kind = "reg" /\ m.reg \in Octal /\ m.index \in Octal /\ m.lv \in 0 .. 3
      /\ m.num \in Int32 /\ m.num \in Int /\ (m.num = 0 => Byte(m.num)) /\ m.kind = "mem" /\ Octal \subseteq Int
      /\ Straight("mov") /\ "mov" \notin DOMAIN AluOp /\ (s.type = "SPLtoDIL" => s.reg > 3) /\ "mov" # "lea"
      /\ "mov" # "movzx"
  BY RegisterShape, MemoryShape, LongIsInt DEF Octal, IsRegister, IsMemory, Byte, ShiftOp, AluOp, Straight
<1>1. CASE s.type = "ALtoBH" /\ m.size = 8 /\ IsPlain(m, "RAXtoRDI") /\ m.num = 0
  <2> DEFINE c == <<136, At(s, m)>>
             p == P0
             i == 2
  <2>1. ToPtr(m, s) = c
    BY <1>1, <1>0 DEF ToPtr, IsPlain, IsScaled, IsMem, IsReg, IsImm, IsRegister, IsNumber
  <2>2. Misencoded <=> m.reg \in {4, 5}
    BY <1>1, <1>0 DEF Misencoded, HighByteWithRex, NoSib, NoDisp, IndexLost, OffsetLost, BaseLost, SizeLost,
                      HasMem, Ptr, Counterpart, WithSib44, IsAlu, Is, IsReg, IsImm, IsPlain, IsScaled, IsMem,
                      IsRegister, IsMemory, IsNumber, OfLine
  <2>3. i = 1 + 1 /\ i \in Nat /\ Len(c) = i /\ Len(c) = 2 /\ c[1] = 136 /\ Written3(c, i, 0, s.reg, m.reg)
    BY <1>0 DEF At, ModRM, Written3
  <2>4. HasBits(p, 0, 0, 32) /\ ~p.isRex
    BY PrefixesAre
  <2> HIDE DEF c, i
  <2>5. Starts(c, 1, p)
    <3>1. Len(c) \in Nat /\ 1 <= Len(c) /\ IsOp(c[1])
      BY <2>3 DEF IsOp
    <3> QED
      BY <3>1, NoPrefix, Zenon DEF p
  <2> HIDE DEF p
  <2>6. D!Decoded(c) = D!MR(c, i, p, "mov", 8)
    BY <1>0, <2>3, <2>4, <2>5, OpMR DEF Starts, HasBits
  <2>7. /\ m.reg \notin {4, 5} /\ IsAt(m, p.rex.b) /\ m.num = 0 => Reads(c, i, p.rex, s.reg, 0, m)
        /\ m.reg \in {4, 5} \/ ~IsAt(m, p.rex.b) \/ m.num # 0 => Misreads(c, i, p.rex, 0, m)
    <3>1. i \in Nat /\ Written3(c, i, 0, s.reg, m.reg) /\ Len(c) = i /\ IsRx(p.rex)
      BY <2>3, <2>4 DEF HasBits
    <3> QED
      BY <1>0, <3>1, AtReads
  <2>8. Named(8, p.rex.r, p.isRex, s.reg) = D!Reg(s.type, s.reg)
    BY <1>1, <1>0, <2>4 DEF Named, HasBits, IsReg, Octal
  <2>9. /\ Reads(c, i, p.rex, s.reg, 0, m) =>
              (D!Decoded(c) = Means("mov", m, s) <=>
                 m.size = 8 /\ Named(8, p.rex.r, p.isRex, s.reg) = D!Reg(s.type, s.reg))
        /\ Misreads(c, i, p.rex, 0, m) => D!Decoded(c) # Means("mov", m, s)
    <3>1. 8 \in Sizes
      BY DEF Sizes
    <3>2. IsRx(p.rex) /\ Len(c) \in Nat
      BY <2>3, <2>4 DEF HasBits
    <3> QED
      BY <1>0, <2>6, <3>1, <3>2, ToMeans
  <2>10. IsAt(m, p.rex.b)
    BY <1>1, <1>0, <2>4 DEF IsAt, IsPlain, IsMem, HasBits
  <2>11. D!Decoded(c) = Means("mov", m, s) <=> ~(m.reg \in {4, 5})
    BY <1>1, <2>7, <2>8, <2>9, <2>10
  <2> QED
    BY <2>1, <2>2, <2>11 DEF Right
<1>2. CASE s.type = "ALtoBH" /\ m.size = 8 /\ IsPlain(m, "RAXtoRDI") /\ m.num # 0 /\ Byte(m.num)
  <2> DEFINE c == <<136>> \o AtByte(s, m)
             p == P0
             i == 2
  <2>1. ToPtr(m, s) = c
    BY <1>2, <1>0 DEF ToPtr, IsPlain, IsScaled, IsMem, IsReg, IsImm, IsRegister, IsNumber
  <2>2. Misencoded <=> m.reg = 4
    BY <1>2, <1>0 DEF Misencoded, HighByteWithRex, NoSib, NoDisp, IndexLost, OffsetLost, BaseLost, SizeLost,
                      HasMem, Ptr, Counterpart, WithSib44, IsAlu, Is, IsReg, IsImm, IsPlain, IsScaled, IsMem,
                      IsRegister, IsMemory, IsNumber, OfLine
  <2>3. /\ i = 1 + 1 /\ i \in Nat /\ Len(c) = i + 1 + 0 /\ Len(c) = 3 /\ c[1] = 136
        /\ Written3(c, i, 1, s.reg, m.reg) /\ c[i + 1] = Low(m.num)
    BY <1>0 DEF AtByte, ModRM, Written3
  <2>4. HasBits(p, 0, 0, 32) /\ ~p.isRex
    BY PrefixesAre
  <2> HIDE DEF c, i
  <2>5. Starts(c, 1, p)
    <3>1. Len(c) \in Nat /\ 1 <= Len(c) /\ IsOp(c[1])
      BY <2>3 DEF IsOp
    <3> QED
      BY <3>1, NoPrefix, Zenon DEF p
  <2> HIDE DEF p
  <2>6. D!Decoded(c) = D!MR(c, i, p, "mov", 8)
    BY <1>0, <2>3, <2>4, <2>5, OpMR DEF Starts, HasBits
  <2>7. /\ m.reg # 4 /\ IsAt(m, p.rex.b) /\ Byte(m.num) => Reads(c, i, p.rex, s.reg, 0, m)
        /\ m.reg = 4 \/ ~IsAt(m, p.rex.b) \/ ~Byte(m.num) => Misreads(c, i, p.rex, 0, m)
    <3>1. /\ i \in Nat /\ Written3(c, i, 1, s.reg, m.reg) /\ c[i + 1] = Low(m.num) /\ Len(c) = i + 1 + 0
          /\ IsRx(p.rex)
      BY <2>3, <2>4 DEF HasBits
    <3> QED
      BY <1>0, <3>1, AtByteReads
  <2>8. Named(8, p.rex.r, p.isRex, s.reg) = D!Reg(s.type, s.reg)
    BY <1>2, <1>0, <2>4 DEF Named, HasBits, IsReg, Octal
  <2>9. /\ Reads(c, i, p.rex, s.reg, 0, m) =>
              (D!Decoded(c) = Means("mov", m, s) <=>
                 m.size = 8 /\ Named(8, p.rex.r, p.isRex, s.reg) = D!Reg(s.type, s.reg))
        /\ Misreads(c, i, p.rex, 0, m) => D!Decoded(c) # Means("mov", m, s)
    <3>1. 8 \in Sizes
      BY DEF Sizes
    <3>2. IsRx(p.rex) /\ Len(c) \in Nat
      BY <2>3, <2>4 DEF HasBits
    <3> QED
      BY <1>0, <2>6, <3>1, <3>2, ToMeans
  <2>10. IsAt(m, p.rex.b)
    BY <1>2, <1>0, <2>4 DEF IsAt, IsPlain, IsMem, HasBits
  <2>11. D!Decoded(c) = Means("mov", m, s) <=> ~(m.reg = 4)
    BY <1>2, <2>7, <2>8, <2>9, <2>10
  <2> QED
    BY <2>1, <2>2, <2>11 DEF Right
<1>3. CASE s.type = "ALtoBH" /\ m.size = 8 /\ IsScaled(m, "R8toR15")
  <2> DEFINE c == <<65, 136>> \o SibLong(s, m)
             p == PRex(0, 0, 1)
             i == 3
  <2>1. ToPtr(m, s) = c
    BY <1>3, <1>0 DEF ToPtr, IsPlain, IsScaled, IsMem, IsReg, IsImm, IsRegister, IsNumber
  <2>2. Misencoded <=> m.index = 4 \/ s.reg > 3
    BY <1>3, <1>0 DEF Misencoded, HighByteWithRex, NoSib, NoDisp, IndexLost, OffsetLost, BaseLost, SizeLost,
                      HasMem, Ptr, Counterpart, WithSib44, IsAlu, Is, IsReg, IsImm, IsPlain, IsScaled, IsMem,
                      IsRegister, IsMemory, IsNumber, OfLine
  <2>3. /\ i = 2 + 1 /\ i \in Nat /\ Len(c) = i + 5 + 0 /\ Len(c) = 8 /\ c[1] = 65 /\ c[2] = 136
        /\ Written3(c, i, 2, s.reg, 4) /\ Written3(c, i + 1, m.lv, m.index, m.reg) /\ Quad(c, i + 2, m.num)
    BY <1>0 DEF Bytes, ModRM, Quad, SIB, SibLong, Written3
  <2>4. HasBits(p, 0, 1, 32) /\ p.isRex
    BY PrefixesAre
  <2> HIDE DEF c, i
  <2>5. Starts(c, 2, p)
    <3>1. Len(c) \in Nat /\ 2 <= Len(c) /\ c[1] = 65
      BY <2>3
    <3> QED
      BY <3>1, RexPrefixes, Zenon DEF p
  <2> HIDE DEF p
  <2>6. D!Decoded(c) = D!MR(c, i, p, "mov", 8)
    BY <1>0, <2>3, <2>4, <2>5, OpMR DEF Starts, HasBits
  <2>7. /\ m.index # 4 => Reads(c, i, p.rex, s.reg, 0, m)
        /\ m.index = 4 => Misreads(c, i, p.rex, 0, m)
    <3>1. /\ i \in Nat /\ Written3(c, i, 2, s.reg, 4) /\ Written3(c, i + 1, m.lv, m.index, m.reg)
          /\ Quad(c, i + 2, m.num) /\ Len(c) = i + 5 + 0 /\ IsRx(p.rex) /\ p.rex.b = 1 /\ IsSib(m)
      BY <2>3, <2>4, <1>3 DEF HasBits, IsSib, IsScaled, IsMem
    <3> QED
      BY <1>0, <3>1, SibLongReads
  <2>8. Named(8, p.rex.r, p.isRex, s.reg) = D!Reg(s.type, s.reg) <=> ~(s.reg > 3)
    BY <1>3, <1>0, <2>4, RegsEqual DEF Named, HasBits, IsReg, Octal
  <2>9. /\ Reads(c, i, p.rex, s.reg, 0, m) =>
              (D!Decoded(c) = Means("mov", m, s) <=>
                 m.size = 8 /\ Named(8, p.rex.r, p.isRex, s.reg) = D!Reg(s.type, s.reg))
        /\ Misreads(c, i, p.rex, 0, m) => D!Decoded(c) # Means("mov", m, s)
    <3>1. 8 \in Sizes
      BY DEF Sizes
    <3>2. IsRx(p.rex) /\ Len(c) \in Nat
      BY <2>3, <2>4 DEF HasBits
    <3> QED
      BY <1>0, <2>6, <3>1, <3>2, ToMeans
  <2>11. D!Decoded(c) = Means("mov", m, s) <=> ~(m.index = 4 \/ s.reg > 3)
    BY <1>3, <2>7, <2>8, <2>9
  <2> QED
    BY <2>1, <2>2, <2>11 DEF Right
<1>4. CASE s.type = "SPLtoDIL" /\ m.size = 8 /\ IsPlain(m, "RAXtoRDI") /\ Byte(m.num)
  <2> DEFINE c == <<64, 136>> \o AtByte(s, m)
             p == PRex(0, 0, 0)
             i == 3
  <2>1. ToPtr(m, s) = c
    BY <1>4, <1>0 DEF ToPtr, IsPlain, IsScaled, IsMem, IsReg, IsImm, IsRegister, IsNumber
  <2>2. Misencoded <=> m.reg = 4
    BY <1>4, <1>0 DEF Misencoded, HighByteWithRex, NoSib, NoDisp, IndexLost, OffsetLost, BaseLost, SizeLost,
                      HasMem, Ptr, Counterpart, WithSib44, IsAlu, Is, IsReg, IsImm, IsPlain, IsScaled, IsMem,
                      IsRegister, IsMemory, IsNumber, OfLine
  <2>3. /\ i = 2 + 1 /\ i \in Nat /\ Len(c) = i + 1 + 0 /\ Len(c) = 4 /\ c[1] = 64 /\ c[2] = 136
        /\ Written3(c, i, 1, s.reg, m.reg) /\ c[i + 1] = Low(m.num)
    BY <1>0 DEF AtByte, ModRM, Written3
  <2>4. HasBits(p, 0, 0, 32) /\ p.isRex
    BY PrefixesAre
  <2> HIDE DEF c, i
  <2>5. Starts(c, 2, p)
    <3>1. Len(c) \in Nat /\ 2 <= Len(c) /\ c[1] = 64
      BY <2>3
    <3> QED
      BY <3>1, RexPrefixes, Zenon DEF p
  <2> HIDE DEF p
  <2>6. D!Decoded(c) = D!MR(c, i, p, "mov", 8)
    BY <1>0, <2>3, <2>4, <2>5, OpMR DEF Starts, HasBits
  <2>7. /\ m.reg # 4 /\ IsAt(m, p.rex.b) /\ Byte(m.num) => Reads(c, i, p.rex, s.reg, 0, m)
        /\ m.reg = 4 \/ ~IsAt(m, p.rex.b) \/ ~Byte(m.num) => Misreads(c, i, p.rex, 0, m)
    <3>1. /\ i \in Nat /\ Written3(c, i, 1, s.reg, m.reg) /\ c[i + 1] = Low(m.num) /\ Len(c) = i + 1 + 0
          /\ IsRx(p.rex)
      BY <2>3, <2>4 DEF HasBits
    <3> QED
      BY <1>0, <3>1, AtByteReads
  <2>8. Named(8, p.rex.r, p.isRex, s.reg) = D!Reg(s.type, s.reg)
    BY <1>4, <1>0, <2>4 DEF Named, HasBits, IsReg, Octal
  <2>9. /\ Reads(c, i, p.rex, s.reg, 0, m) =>
              (D!Decoded(c) = Means("mov", m, s) <=>
                 m.size = 8 /\ Named(8, p.rex.r, p.isRex, s.reg) = D!Reg(s.type, s.reg))
        /\ Misreads(c, i, p.rex, 0, m) => D!Decoded(c) # Means("mov", m, s)
    <3>1. 8 \in Sizes
      BY DEF Sizes
    <3>2. IsRx(p.rex) /\ Len(c) \in Nat
      BY <2>3, <2>4 DEF HasBits
    <3> QED
      BY <1>0, <2>6, <3>1, <3>2, ToMeans
  <2>10. IsAt(m, p.rex.b)
    BY <1>4, <1>0, <2>4 DEF IsAt, IsPlain, IsMem, HasBits
  <2>11. D!Decoded(c) = Means("mov", m, s) <=> ~(m.reg = 4)
    BY <1>4, <2>7, <2>8, <2>9, <2>10
  <2> QED
    BY <2>1, <2>2, <2>11 DEF Right
<1>5. CASE s.type = "AXtoDI" /\ m.size = 16 /\ IsPlain(m, "RAXtoRDI") /\ m.num = 0
  <2> DEFINE c == <<102, 137, At(s, m)>>
             p == P66
             i == 3
  <2>1. ToPtr(m, s) = c
    BY <1>5, <1>0 DEF ToPtr, IsPlain, IsScaled, IsMem, IsReg, IsImm, IsRegister, IsNumber
  <2>2. Misencoded <=> m.reg \in {4, 5}
    BY <1>5, <1>0 DEF Misencoded, HighByteWithRex, NoSib, NoDisp, IndexLost, OffsetLost, BaseLost, SizeLost,
                      HasMem, Ptr, Counterpart, WithSib44, IsAlu, Is, IsReg, IsImm, IsPlain, IsScaled, IsMem,
                      IsRegister, IsMemory, IsNumber, OfLine
  <2>3. /\ i = 2 + 1 /\ i \in Nat /\ Len(c) = i /\ Len(c) = 3 /\ c[1] = 102 /\ c[2] = 137
        /\ Written3(c, i, 0, s.reg, m.reg)
    BY <1>0 DEF At, ModRM, Written3
  <2>4. HasBits(p, 0, 0, 16) /\ ~p.isRex
    BY PrefixesAre
  <2> HIDE DEF c, i
  <2>5. Starts(c, 2, p)
    <3>1. Len(c) \in Nat /\ 2 <= Len(c) /\ c[1] = 102 /\ IsOp(c[2])
      BY <2>3 DEF IsOp
    <3> QED
      BY <3>1, Prefix66, Zenon DEF p
  <2> HIDE DEF p
  <2>6. D!Decoded(c) = D!MR(c, i, p, "mov", 16)
    BY <1>0, <2>3, <2>4, <2>5, OpMR DEF Starts, HasBits
  <2>7. /\ m.reg \notin {4, 5} /\ IsAt(m, p.rex.b) /\ m.num = 0 => Reads(c, i, p.rex, s.reg, 0, m)
        /\ m.reg \in {4, 5} \/ ~IsAt(m, p.rex.b) \/ m.num # 0 => Misreads(c, i, p.rex, 0, m)
    <3>1. i \in Nat /\ Written3(c, i, 0, s.reg, m.reg) /\ Len(c) = i /\ IsRx(p.rex)
      BY <2>3, <2>4 DEF HasBits
    <3> QED
      BY <1>0, <3>1, AtReads
  <2>8. Named(16, p.rex.r, p.isRex, s.reg) = D!Reg(s.type, s.reg)
    BY <1>5, <1>0, <2>4 DEF Named, HasBits, IsReg, Octal
  <2>9. /\ Reads(c, i, p.rex, s.reg, 0, m) =>
              (D!Decoded(c) = Means("mov", m, s) <=>
                 m.size = 16 /\ Named(16, p.rex.r, p.isRex, s.reg) = D!Reg(s.type, s.reg))
        /\ Misreads(c, i, p.rex, 0, m) => D!Decoded(c) # Means("mov", m, s)
    <3>1. 16 \in Sizes
      BY DEF Sizes
    <3>2. IsRx(p.rex) /\ Len(c) \in Nat
      BY <2>3, <2>4 DEF HasBits
    <3> QED
      BY <1>0, <2>6, <3>1, <3>2, ToMeans
  <2>10. IsAt(m, p.rex.b)
    BY <1>5, <1>0, <2>4 DEF IsAt, IsPlain, IsMem, HasBits
  <2>11. D!Decoded(c) = Means("mov", m, s) <=> ~(m.reg \in {4, 5})
    BY <1>5, <2>7, <2>8, <2>9, <2>10
  <2> QED
    BY <2>1, <2>2, <2>11 DEF Right
<1>6. CASE s.type = "AXtoDI" /\ m.size = 16 /\ IsPlain(m, "RAXtoRDI") /\ m.num # 0 /\ Byte(m.num)
  <2> DEFINE c == <<102, 137>> \o AtByte(s, m)
             p == P66
             i == 3
  <2>1. ToPtr(m, s) = c
    BY <1>6, <1>0 DEF ToPtr, IsPlain, IsScaled, IsMem, IsReg, IsImm, IsRegister, IsNumber
  <2>2. Misencoded <=> m.reg = 4
    BY <1>6, <1>0 DEF Misencoded, HighByteWithRex, NoSib, NoDisp, IndexLost, OffsetLost, BaseLost, SizeLost,
                      HasMem, Ptr, Counterpart, WithSib44, IsAlu, Is, IsReg, IsImm, IsPlain, IsScaled, IsMem,
                      IsRegister, IsMemory, IsNumber, OfLine
  <2>3. /\ i = 2 + 1 /\ i \in Nat /\ Len(c) = i + 1 + 0 /\ Len(c) = 4 /\ c[1] = 102 /\ c[2] = 137
        /\ Written3(c, i, 1, s.reg, m.reg) /\ c[i + 1] = Low(m.num)
    BY <1>0 DEF AtByte, ModRM, Written3
  <2>4. HasBits(p, 0, 0, 16) /\ ~p.isRex
    BY PrefixesAre
  <2> HIDE DEF c, i
  <2>5. Starts(c, 2, p)
    <3>1. Len(c) \in Nat /\ 2 <= Len(c) /\ c[1] = 102 /\ IsOp(c[2])
      BY <2>3 DEF IsOp
    <3> QED
      BY <3>1, Prefix66, Zenon DEF p
  <2> HIDE DEF p
  <2>6. D!Decoded(c) = D!MR(c, i, p, "mov", 16)
    BY <1>0, <2>3, <2>4, <2>5, OpMR DEF Starts, HasBits
  <2>7. /\ m.reg # 4 /\ IsAt(m, p.rex.b) /\ Byte(m.num) => Reads(c, i, p.rex, s.reg, 0, m)
        /\ m.reg = 4 \/ ~IsAt(m, p.rex.b) \/ ~Byte(m.num) => Misreads(c, i, p.rex, 0, m)
    <3>1. /\ i \in Nat /\ Written3(c, i, 1, s.reg, m.reg) /\ c[i + 1] = Low(m.num) /\ Len(c) = i + 1 + 0
          /\ IsRx(p.rex)
      BY <2>3, <2>4 DEF HasBits
    <3> QED
      BY <1>0, <3>1, AtByteReads
  <2>8. Named(16, p.rex.r, p.isRex, s.reg) = D!Reg(s.type, s.reg)
    BY <1>6, <1>0, <2>4 DEF Named, HasBits, IsReg, Octal
  <2>9. /\ Reads(c, i, p.rex, s.reg, 0, m) =>
              (D!Decoded(c) = Means("mov", m, s) <=>
                 m.size = 16 /\ Named(16, p.rex.r, p.isRex, s.reg) = D!Reg(s.type, s.reg))
        /\ Misreads(c, i, p.rex, 0, m) => D!Decoded(c) # Means("mov", m, s)
    <3>1. 16 \in Sizes
      BY DEF Sizes
    <3>2. IsRx(p.rex) /\ Len(c) \in Nat
      BY <2>3, <2>4 DEF HasBits
    <3> QED
      BY <1>0, <2>6, <3>1, <3>2, ToMeans
  <2>10. IsAt(m, p.rex.b)
    BY <1>6, <1>0, <2>4 DEF IsAt, IsPlain, IsMem, HasBits
  <2>11. D!Decoded(c) = Means("mov", m, s) <=> ~(m.reg = 4)
    BY <1>6, <2>7, <2>8, <2>9, <2>10
  <2> QED
    BY <2>1, <2>2, <2>11 DEF Right
<1>7. CASE s.type = "RAXtoRDI" /\ m.size = 64 /\ IsPlain(m, "RAXtoRDI") /\ m.num = 0
  <2> DEFINE c == <<72, 137, At(s, m), 36>>
             p == PRex(1, 0, 0)
             i == 3
  <2>1. ToPtr(m, s) = c
    BY <1>7, <1>0 DEF ToPtr, IsPlain, IsScaled, IsMem, IsReg, IsImm, IsRegister, IsNumber
  <2>2. Misencoded <=> m.reg # 4
    BY <1>7, <1>0 DEF Misencoded, HighByteWithRex, NoSib, NoDisp, IndexLost, OffsetLost, BaseLost, SizeLost,
                      HasMem, Ptr, Counterpart, WithSib44, IsAlu, Is, IsReg, IsImm, IsPlain, IsScaled, IsMem,
                      IsRegister, IsMemory, IsNumber, OfLine
  <2>3. /\ i = 2 + 1 /\ i \in Nat /\ Len(c) = i + 1 /\ Len(c) = 4 /\ c[1] = 72 /\ c[2] = 137
        /\ Written3(c, i, 0, s.reg, m.reg) /\ c[i + 1] = 36
    BY <1>0 DEF At, ModRM, Written3
  <2>4. HasBits(p, 0, 0, 64) /\ p.isRex
    BY PrefixesAre
  <2> HIDE DEF c, i
  <2>5. Starts(c, 2, p)
    <3>1. Len(c) \in Nat /\ 2 <= Len(c) /\ c[1] = 72
      BY <2>3
    <3> QED
      BY <3>1, RexPrefixes, Zenon DEF p
  <2> HIDE DEF p
  <2>6. D!Decoded(c) = D!MR(c, i, p, "mov", 64)
    BY <1>0, <2>3, <2>4, <2>5, OpMR DEF Starts, HasBits
  <2>7. /\ m.reg = 4 /\ IsAt(m, p.rex.b) /\ m.num = 0 => Reads(c, i, p.rex, s.reg, 0, m)
        /\ m.reg # 4 \/ ~IsAt(m, p.rex.b) \/ m.num # 0 => Misreads(c, i, p.rex, 0, m)
    <3>1. i \in Nat /\ Written3(c, i, 0, s.reg, m.reg) /\ c[i + 1] = 36 /\ Len(c) = i + 1 /\ IsRx(p.rex)
      BY <2>3, <2>4 DEF HasBits
    <3> QED
      BY <1>0, <3>1, At44Reads
  <2>8. Named(64, p.rex.r, p.isRex, s.reg) = D!Reg(s.type, s.reg)
    BY <1>7, <1>0, <2>4 DEF Named, HasBits, IsReg, Octal
  <2>9. /\ Reads(c, i, p.rex, s.reg, 0, m) =>
              (D!Decoded(c) = Means("mov", m, s) <=>
                 m.size = 64 /\ Named(64, p.rex.r, p.isRex, s.reg) = D!Reg(s.type, s.reg))
        /\ Misreads(c, i, p.rex, 0, m) => D!Decoded(c) # Means("mov", m, s)
    <3>1. 64 \in Sizes
      BY DEF Sizes
    <3>2. IsRx(p.rex) /\ Len(c) \in Nat
      BY <2>3, <2>4 DEF HasBits
    <3> QED
      BY <1>0, <2>6, <3>1, <3>2, ToMeans
  <2>10. IsAt(m, p.rex.b)
    BY <1>7, <1>0, <2>4 DEF IsAt, IsPlain, IsMem, HasBits
  <2>11. D!Decoded(c) = Means("mov", m, s) <=> ~(m.reg # 4)
    BY <1>7, <2>7, <2>8, <2>9, <2>10
  <2> QED
    BY <2>1, <2>2, <2>11 DEF Right
<1>8. CASE s.type = "RAXtoRDI" /\ m.size = 64 /\ IsPlain(m, "RAXtoRDI") /\ m.num # 0 /\ Byte(m.num)
  <2> DEFINE c == <<72, 137>> \o AtByte(s, m)
             p == PRex(1, 0, 0)
             i == 3
  <2>1. ToPtr(m, s) = c
    BY <1>8, <1>0 DEF ToPtr, IsPlain, IsScaled, IsMem, IsReg, IsImm, IsRegister, IsNumber
  <2>2. Misencoded <=> m.reg = 4
    BY <1>8, <1>0 DEF Misencoded, HighByteWithRex, NoSib, NoDisp, IndexLost, OffsetLost, BaseLost, SizeLost,
                      HasMem, Ptr, Counterpart, WithSib44, IsAlu, Is, IsReg, IsImm, IsPlain, IsScaled, IsMem,
                      IsRegister, IsMemory, IsNumber, OfLine
  <2>3. /\ i = 2 + 1 /\ i \in Nat /\ Len(c) = i + 1 + 0 /\ Len(c) = 4 /\ c[1] = 72 /\ c[2] = 137
        /\ Written3(c, i, 1, s.reg, m.reg) /\ c[i + 1] = Low(m.num)
    BY <1>0 DEF AtByte, ModRM, Written3
  <2>4. HasBits(p, 0, 0, 64) /\ p.isRex
    BY PrefixesAre
  <2> HIDE DEF c, i
  <2>5. Starts(c, 2, p)
    <3>1. Len(c) \in Nat /\ 2 <= Len(c) /\ c[1] = 72
      BY <2>3
    <3> QED
      BY <3>1, RexPrefixes, Zenon DEF p
  <2> HIDE DEF p
  <2>6. D!Decoded(c) = D!MR(c, i, p, "mov", 64)
    BY <1>0, <2>3, <2>4, <2>5, OpMR DEF Starts, HasBits
  <2>7. /\ m.reg # 4 /\ IsAt(m, p.rex.b) /\ Byte(m.num) => Reads(c, i, p.rex, s.reg, 0, m)
        /\ m.reg = 4 \/ ~IsAt(m, p.rex.b) \/ ~Byte(m.num) => Misreads(c, i, p.rex, 0, m)
    <3>1. /\ i \in Nat /\ Written3(c, i, 1, s.reg, m.reg) /\ c[i + 1] = Low(m.num) /\ Len(c) = i + 1 + 0
          /\ IsRx(p.rex)
      BY <2>3, <2>4 DEF HasBits
    <3> QED
      BY <1>0, <3>1, AtByteReads
  <2>8. Named(64, p.rex.r, p.isRex, s.reg) = D!Reg(s.type, s.reg)
    BY <1>8, <1>0, <2>4 DEF Named, HasBits, IsReg, Octal
  <2>9. /\ Reads(c, i, p.rex, s.reg, 0, m) =>
              (D!Decoded(c) = Means("mov", m, s) <=>
                 m.size = 64 /\ Named(64, p.rex.r, p.isRex, s.reg) = D!Reg(s.type, s.reg))
        /\ Misreads(c, i, p.rex, 0, m) => D!Decoded(c) # Means("mov", m, s)
    <3>1. 64 \in Sizes
      BY DEF Sizes
    <3>2. IsRx(p.rex) /\ Len(c) \in Nat
      BY <2>3, <2>4 DEF HasBits
    <3> QED
      BY <1>0, <2>6, <3>1, <3>2, ToMeans
  <2>10. IsAt(m, p.rex.b)
    BY <1>8, <1>0, <2>4 DEF IsAt, IsPlain, IsMem, HasBits
  <2>11. D!Decoded(c) = Means("mov", m, s) <=> ~(m.reg = 4)
    BY <1>8, <2>7, <2>8, <2>9, <2>10
  <2> QED
    BY <2>1, <2>2, <2>11 DEF Right
<1>9. ToPtr(m, s) # Refuse =>
         \/ s.type = "ALtoBH" /\ m.size = 8 /\ IsPlain(m, "RAXtoRDI") /\ m.num = 0
         \/ s.type = "ALtoBH" /\ m.size = 8 /\ IsPlain(m, "RAXtoRDI") /\ m.num # 0 /\ Byte(m.num)
         \/ s.type = "ALtoBH" /\ m.size = 8 /\ IsScaled(m, "R8toR15")
         \/ s.type = "SPLtoDIL" /\ m.size = 8 /\ IsPlain(m, "RAXtoRDI") /\ Byte(m.num)
         \/ s.type = "AXtoDI" /\ m.size = 16 /\ IsPlain(m, "RAXtoRDI") /\ m.num = 0
         \/ s.type = "AXtoDI" /\ m.size = 16 /\ IsPlain(m, "RAXtoRDI") /\ m.num # 0 /\ Byte(m.num)
         \/ s.type = "RAXtoRDI" /\ m.size = 64 /\ IsPlain(m, "RAXtoRDI") /\ m.num = 0
         \/ s.type = "RAXtoRDI" /\ m.size = 64 /\ IsPlain(m, "RAXtoRDI") /\ m.num # 0 /\ Byte(m.num)
  BY <1>0 DEF ToPtr, IsPlain, IsScaled, IsMem, IsReg, IsImm, IsRegister, IsNumber
<1> QED
  BY <1>1, <1>2, <1>3, <1>4, <1>5, <1>6, <1>7, <1>8, <1>9 DEF Right

LEMMA ToPtrImmIs ==
  ASSUME NEW m, NEW s,
         OfLine("mov", m, s), IsMemory(m), IsNumber(s)
  PROVE  Right(ToPtr(m, s), "mov", m, s)
<1>0. /\ m.reg \in Octal /\ m.index \in Octal /\ m.lv \in 0 .. 3 /\ m.num \in Int32 /\ m.num \in Int
      /\ (m.num = 0 => Byte(m.num)) /\ m.kind = "mem" /\ s.num \in Int32 /\ s.num \in Int /\ s.kind = "imm"
      /\ Octal \subseteq Int /\ Straight("mov") /\ "mov" \notin DOMAIN AluOp /\ 0 \in Octal
  BY MemoryShape, NumberShape, LongIsInt DEF Octal, IsMemory, Byte, IsNumber, ShiftOp, AluOp, Straight
<1>1. CASE m.size = 8 /\ IsMem(m, "RAXtoRDI") /\ Byte(m.num)
  <2> DEFINE c == <<198>> \o AtByte(Ext(0), m) \o <<Low(s.num)>>
             p == P0
             i == 2
  <2>1. ToPtr(m, s) = c
    BY <1>1, <1>0 DEF ToPtr, IsPlain, IsScaled, IsMem, IsReg, IsImm, IsRegister, IsNumber
  <2>2. Misencoded <=> m.scaled \/ m.reg = 4
    BY <1>1, <1>0 DEF Misencoded, HighByteWithRex, NoSib, NoDisp, IndexLost, OffsetLost, BaseLost, SizeLost,
                      HasMem, Ptr, Counterpart, WithSib44, IsAlu, Is, IsReg, IsImm, IsPlain, IsScaled, IsMem,
                      IsRegister, IsMemory, IsNumber, OfLine
  <2>3. /\ i = 1 + 1 /\ i \in Nat /\ Len(c) = i + 1 + 1 /\ Len(c) = 4 /\ c[1] = 198
        /\ Written3(c, i, 1, 0, m.reg) /\ c[i + 1] = Low(m.num) /\ c[4] = Low(s.num)
    BY <1>0 DEF AtByte, Ext, ModRM, Written3
  <2>4. HasBits(p, 0, 0, 32) /\ ~p.isRex
    BY PrefixesAre
  <2> HIDE DEF c, i
  <2>5. Starts(c, 1, p)
    <3>1. Len(c) \in Nat /\ 1 <= Len(c) /\ IsOp(c[1])
      BY <2>3 DEF IsOp
    <3> QED
      BY <3>1, NoPrefix, Zenon DEF p
  <2> HIDE DEF p
  <2>6. D!Decoded(c) = D!MI(c, i, p, "mov", 8, 1, 8)
    <3>1. D!Extension(c, 1) = 0
      <4>1. 1 \in Nat /\ Len(c) \in Nat /\ Len(c) > 1 /\ 1 \in 0 .. 3 /\ Written3(c, 1 + 1, 1, 0, m.reg)
        BY <2>3
      <4> QED
        BY <1>0, <4>1, ExtensionIs
    <3> QED
      BY <1>0, <2>3, <2>4, <2>5, <3>1, OpExt0 DEF Starts, HasBits
  <2>7. /\ m.reg # 4 /\ IsAt(m, p.rex.b) /\ Byte(m.num) => Reaches(c, i, p, 1, m)
        /\ m.reg = 4 \/ ~IsAt(m, p.rex.b) \/ ~Byte(m.num) => Strays(c, i, p, 1, m)
    <3>1. /\ i \in Nat /\ Written3(c, i, 1, 0, m.reg) /\ c[i + 1] = Low(m.num) /\ Len(c) = i + 1 + 1
          /\ IsRx(p.rex)
      BY <2>3, <2>4 DEF HasBits
    <3>2. /\ m.reg # 4 /\ IsAt(m, p.rex.b) /\ Byte(m.num) => Reads(c, i, p.rex, 0, 1, m)
          /\ m.reg = 4 \/ ~IsAt(m, p.rex.b) \/ ~Byte(m.num) => Misreads(c, i, p.rex, 1, m)
      BY <1>0, <3>1, AtByteReads
    <3> QED
      BY <3>2 DEF Reaches, Strays
  <2>8. HasSize(m, 8) /\ HasNumber(c, 1, 8, s, 8)
    <3>1. LastBytes(c, 1) = SByte(s.num)
      BY <1>0, <2>3, SignedByte DEF LastBytes
    <3> QED
      BY <1>1, <1>0, <3>1, ByteImm, ShortImm DEF Sized, HasSize, HasNumber
  <2>9. /\ Reaches(c, i, p, 1, m) =>
              (D!Decoded(c) = Means("mov", m, s) <=>
                 HasSize(m, 8) /\ HasNumber(c, 1, 8, s, 8))
        /\ Strays(c, i, p, 1, m) => D!Decoded(c) # Means("mov", m, s)
    <3>1. 8 \in Sizes /\ 1 \in Octal
      BY DEF Sizes, Octal
    <3>2. IsRx(p.rex) /\ Len(c) \in Nat
      BY <2>3, <2>4 DEF HasBits
    <3> QED
      BY <1>0, <2>6, <3>1, <3>2, NumberReaches, NumberStrays
  <2>10. IsAt(m, p.rex.b) <=> ~m.scaled
    BY <1>1, <1>0, <2>4 DEF IsAt, IsPlain, IsMem, HasBits
  <2>11. D!Decoded(c) = Means("mov", m, s) <=> ~(m.scaled \/ m.reg = 4)
    BY <1>1, <2>7, <2>8, <2>9, <2>10
  <2> QED
    BY <2>1, <2>2, <2>11 DEF Right
<1>2. ToPtr(m, s) # Refuse =>
         \/ m.size = 8 /\ IsMem(m, "RAXtoRDI") /\ Byte(m.num)
  BY <1>0 DEF ToPtr, IsPlain, IsScaled, IsMem, IsReg, IsImm, IsRegister, IsNumber
<1> QED
  BY <1>1, <1>2 DEF Right

LEMMA MovzxPtrIs ==
  ASSUME NEW d, NEW s,
         OfLine("movzx", d, s), IsRegister(d), IsMemory(s)
  PROVE  Right(Movzx(d, s), "movzx", d, s)
<1>0. /\ d.reg \in Octal /\ d.kind = "reg" /\ s.reg \in Octal /\ s.index \in Octal /\ s.lv \in 0 .. 3
      /\ s.num \in Int32 /\ s.num \in Int /\ (s.num = 0 => Byte(s.num)) /\ s.kind = "mem" /\ Octal \subseteq Int
      /\ Straight("movzx") /\ "movzx" \notin DOMAIN AluOp
  BY RegisterShape, MemoryShape, LongIsInt DEF Octal, IsRegister, IsMemory, Byte, ShiftOp, AluOp, Straight
<1>1. CASE IsReg(d, "EAXtoEDI") /\ s.size = 8 /\ IsPlain(s, "RAXtoRDI") /\ ~Byte(s.num)
  <2> DEFINE c == <<15, 182>> \o AtLong(d, s)
             p == P0
             i == 3
  <2>1. Movzx(d, s) = c
    BY <1>1, <1>0 DEF Movzx, IsPlain, IsScaled, IsMem, IsReg, Sized, IsRegister, IsMemory
  <2>2. Misencoded <=> s.reg = 4
    BY <1>1, <1>0 DEF Misencoded, HighByteWithRex, NoSib, NoDisp, IndexLost, OffsetLost, BaseLost, SizeLost,
                      HasMem, Ptr, Counterpart, WithSib44, IsAlu, Is, IsReg, IsImm, IsPlain, IsScaled, IsMem,
                      IsRegister, IsMemory, IsNumber, OfLine
  <2>3. /\ i = 2 + 1 /\ i \in Nat /\ Len(c) = i + 4 + 0 /\ Len(c) = 7 /\ c[1] = 15 /\ c[2] = 182
        /\ Written3(c, i, 2, d.reg, s.reg) /\ Quad(c, i + 1, s.num)
    BY <1>0 DEF AtLong, Bytes, ModRM, Quad, Written3
  <2>4. HasBits(p, 0, 0, 32) /\ ~p.isRex
    BY PrefixesAre
  <2> HIDE DEF c, i
  <2>5. Starts(c, 1, p)
    <3>1. Len(c) \in Nat /\ 1 <= Len(c) /\ IsOp(c[1])
      BY <2>3 DEF IsOp
    <3> QED
      BY <3>1, NoPrefix, Zenon DEF p
  <2> HIDE DEF p
  <2>6. D!Decoded(c) = D!RM(c, i, p, "movzx", 32, 8)
    <3>1. 1 \in Nat /\ Len(c) \in Nat /\ Len(c) > 1 /\ c[1] = 15 /\ c[1 + 1] = 182 /\ i = 1 + 2
      BY <2>3
    <3> QED
      BY <2>4, <2>5, <3>1, OpMovzx DEF Starts, HasBits
  <2>7. /\ s.reg # 4 /\ IsAt(s, p.rex.b) => Reads(c, i, p.rex, d.reg, 0, s)
        /\ s.reg = 4 \/ ~IsAt(s, p.rex.b) => Misreads(c, i, p.rex, 0, s)
    <3>1. /\ i \in Nat /\ Written3(c, i, 2, d.reg, s.reg) /\ Quad(c, i + 1, s.num) /\ Len(c) = i + 4 + 0
          /\ IsRx(p.rex)
      BY <2>3, <2>4 DEF HasBits
    <3> QED
      BY <1>0, <3>1, AtLongReads
  <2>8. Named(32, p.rex.r, p.isRex, d.reg) = D!Reg(d.type, d.reg)
    BY <1>1, <1>0, <2>4 DEF Named, HasBits, IsReg, Octal
  <2>9. /\ Reads(c, i, p.rex, d.reg, 0, s) =>
              (D!Decoded(c) = Means("movzx", d, s) <=> Named(32, p.rex.r, p.isRex, d.reg) = D!Reg(d.type, d.reg))
        /\ Misreads(c, i, p.rex, 0, s) => D!Decoded(c) # Means("movzx", d, s)
    <3>1. SrcSize("movzx", d, s) = 8 /\ 32 \in Sizes
      BY <1>1, <1>0 DEF SrcSize, SizeOf, Sizes, Straight, IsRegister, IsMemory, IsReg, IsPlain, IsMem
    <3>2. IsRx(p.rex) /\ Len(c) \in Nat
      BY <2>3, <2>4 DEF HasBits
    <3> QED
      BY <1>0, <2>6, <3>1, <3>2, FromMeans
  <2>10. IsAt(s, p.rex.b)
    BY <1>1, <1>0, <2>4 DEF IsAt, IsPlain, IsMem, HasBits
  <2>11. D!Decoded(c) = Means("movzx", d, s) <=> ~(s.reg = 4)
    BY <1>1, <2>7, <2>8, <2>9, <2>10
  <2> QED
    BY <2>1, <2>2, <2>11 DEF Right
<1>2. CASE IsReg(d, "RAXtoRDI") /\ s.size = 8 /\ ~s.scaled /\ s.num = 0
  <2> DEFINE c == <<73, 15, 182, At(d, s)>>
             p == PRex(1, 0, 1)
             i == 4
  <2>1. Movzx(d, s) = c
    BY <1>2, <1>0 DEF Movzx, IsPlain, IsScaled, IsMem, IsReg, Sized, IsRegister, IsMemory
  <2>2. Misencoded <=> s.reg \in {4, 5} \/ s.type # "R8toR15"
    BY <1>2, <1>0 DEF Misencoded, HighByteWithRex, NoSib, NoDisp, IndexLost, OffsetLost, BaseLost, SizeLost,
                      HasMem, Ptr, Counterpart, WithSib44, IsAlu, Is, IsReg, IsImm, IsPlain, IsScaled, IsMem,
                      IsRegister, IsMemory, IsNumber, OfLine
  <2>3. /\ i = 3 + 1 /\ i \in Nat /\ Len(c) = i /\ Len(c) = 4 /\ c[1] = 73 /\ c[2] = 15 /\ c[3] = 182
        /\ Written3(c, i, 0, d.reg, s.reg)
    BY <1>0 DEF At, ModRM, Written3
  <2>4. HasBits(p, 0, 1, 64) /\ p.isRex
    BY PrefixesAre
  <2> HIDE DEF c, i
  <2>5. Starts(c, 2, p)
    <3>1. Len(c) \in Nat /\ 2 <= Len(c) /\ c[1] = 73
      BY <2>3
    <3> QED
      BY <3>1, RexPrefixes, Zenon DEF p
  <2> HIDE DEF p
  <2>6. D!Decoded(c) = D!RM(c, i, p, "movzx", 64, 8)
    <3>1. 2 \in Nat /\ Len(c) \in Nat /\ Len(c) > 2 /\ c[2] = 15 /\ c[2 + 1] = 182 /\ i = 2 + 2
      BY <2>3
    <3> QED
      BY <2>4, <2>5, <3>1, OpMovzx DEF Starts, HasBits
  <2>7. /\ s.reg \notin {4, 5} /\ IsAt(s, p.rex.b) /\ s.num = 0 => Reads(c, i, p.rex, d.reg, 0, s)
        /\ s.reg \in {4, 5} \/ ~IsAt(s, p.rex.b) \/ s.num # 0 => Misreads(c, i, p.rex, 0, s)
    <3>1. i \in Nat /\ Written3(c, i, 0, d.reg, s.reg) /\ Len(c) = i /\ IsRx(p.rex)
      BY <2>3, <2>4 DEF HasBits
    <3> QED
      BY <1>0, <3>1, AtReads
  <2>8. Named(64, p.rex.r, p.isRex, d.reg) = D!Reg(d.type, d.reg)
    BY <1>2, <1>0, <2>4 DEF Named, HasBits, IsReg, Octal
  <2>9. /\ Reads(c, i, p.rex, d.reg, 0, s) =>
              (D!Decoded(c) = Means("movzx", d, s) <=> Named(64, p.rex.r, p.isRex, d.reg) = D!Reg(d.type, d.reg))
        /\ Misreads(c, i, p.rex, 0, s) => D!Decoded(c) # Means("movzx", d, s)
    <3>1. SrcSize("movzx", d, s) = 8 /\ 64 \in Sizes
      BY <1>2, <1>0 DEF SrcSize, SizeOf, Sizes, Straight, IsRegister, IsMemory, IsReg, IsPlain, IsMem
    <3>2. IsRx(p.rex) /\ Len(c) \in Nat
      BY <2>3, <2>4 DEF HasBits
    <3> QED
      BY <1>0, <2>6, <3>1, <3>2, FromMeans
  <2>10. IsAt(s, p.rex.b) <=> s.type = "R8toR15"
    BY <1>2, <1>0, <2>4 DEF IsAt, IsPlain, IsMem, HasBits
  <2>11. D!Decoded(c) = Means("movzx", d, s) <=> ~(s.reg \in {4, 5} \/ s.type # "R8toR15")
    BY <1>2, <2>7, <2>8, <2>9, <2>10
  <2> QED
    BY <2>1, <2>2, <2>11 DEF Right
<1>3. CASE IsReg(d, "RAXtoRDI") /\ s.size = 8 /\ ~s.scaled /\ s.num # 0 /\ Byte(s.num)
  <2> DEFINE c == <<72, 15, 182>> \o AtByte(d, s)
             p == PRex(1, 0, 0)
             i == 4
  <2>1. Movzx(d, s) = c
    BY <1>3, <1>0 DEF Movzx, IsPlain, IsScaled, IsMem, IsReg, Sized, IsRegister, IsMemory
  <2>2. Misencoded <=> s.reg = 4 \/ s.type # "RAXtoRDI"
    BY <1>3, <1>0 DEF Misencoded, HighByteWithRex, NoSib, NoDisp, IndexLost, OffsetLost, BaseLost, SizeLost,
                      HasMem, Ptr, Counterpart, WithSib44, IsAlu, Is, IsReg, IsImm, IsPlain, IsScaled, IsMem,
                      IsRegister, IsMemory, IsNumber, OfLine
  <2>3. /\ i = 3 + 1 /\ i \in Nat /\ Len(c) = i + 1 + 0 /\ Len(c) = 5 /\ c[1] = 72 /\ c[2] = 15 /\ c[3] = 182
        /\ Written3(c, i, 1, d.reg, s.reg) /\ c[i + 1] = Low(s.num)
    BY <1>0 DEF AtByte, ModRM, Written3
  <2>4. HasBits(p, 0, 0, 64) /\ p.isRex
    BY PrefixesAre
  <2> HIDE DEF c, i
  <2>5. Starts(c, 2, p)
    <3>1. Len(c) \in Nat /\ 2 <= Len(c) /\ c[1] = 72
      BY <2>3
    <3> QED
      BY <3>1, RexPrefixes, Zenon DEF p
  <2> HIDE DEF p
  <2>6. D!Decoded(c) = D!RM(c, i, p, "movzx", 64, 8)
    <3>1. 2 \in Nat /\ Len(c) \in Nat /\ Len(c) > 2 /\ c[2] = 15 /\ c[2 + 1] = 182 /\ i = 2 + 2
      BY <2>3
    <3> QED
      BY <2>4, <2>5, <3>1, OpMovzx DEF Starts, HasBits
  <2>7. /\ s.reg # 4 /\ IsAt(s, p.rex.b) /\ Byte(s.num) => Reads(c, i, p.rex, d.reg, 0, s)
        /\ s.reg = 4 \/ ~IsAt(s, p.rex.b) \/ ~Byte(s.num) => Misreads(c, i, p.rex, 0, s)
    <3>1. /\ i \in Nat /\ Written3(c, i, 1, d.reg, s.reg) /\ c[i + 1] = Low(s.num) /\ Len(c) = i + 1 + 0
          /\ IsRx(p.rex)
      BY <2>3, <2>4 DEF HasBits
    <3> QED
      BY <1>0, <3>1, AtByteReads
  <2>8. Named(64, p.rex.r, p.isRex, d.reg) = D!Reg(d.type, d.reg)
    BY <1>3, <1>0, <2>4 DEF Named, HasBits, IsReg, Octal
  <2>9. /\ Reads(c, i, p.rex, d.reg, 0, s) =>
              (D!Decoded(c) = Means("movzx", d, s) <=> Named(64, p.rex.r, p.isRex, d.reg) = D!Reg(d.type, d.reg))
        /\ Misreads(c, i, p.rex, 0, s) => D!Decoded(c) # Means("movzx", d, s)
    <3>1. SrcSize("movzx", d, s) = 8 /\ 64 \in Sizes
      BY <1>3, <1>0 DEF SrcSize, SizeOf, Sizes, Straight, IsRegister, IsMemory, IsReg, IsPlain, IsMem
    <3>2. IsRx(p.rex) /\ Len(c) \in Nat
      BY <2>3, <2>4 DEF HasBits
    <3> QED
      BY <1>0, <2>6, <3>1, <3>2, FromMeans
  <2>10. IsAt(s, p.rex.b) <=> s.type = "RAXtoRDI"
    BY <1>3, <1>0, <2>4 DEF IsAt, IsPlain, IsMem, HasBits
  <2>11. D!Decoded(c) = Means("movzx", d, s) <=> ~(s.reg = 4 \/ s.type # "RAXtoRDI")
    BY <1>3, <2>7, <2>8, <2>9, <2>10
  <2> QED
    BY <2>1, <2>2, <2>11 DEF Right
<1>4. CASE IsReg(d, "RAXtoRDI") /\ s.size = 16 /\ ~s.scaled
  <2> DEFINE c == <<72, 15, 183>> \o AtByte(d, s)
             p == PRex(1, 0, 0)
             i == 4
  <2>1. Movzx(d, s) = c
    BY <1>4, <1>0 DEF Movzx, IsPlain, IsScaled, IsMem, IsReg, Sized, IsRegister, IsMemory
  <2>2. Misencoded <=> s.reg = 4 \/ s.type # "RAXtoRDI" \/ ~Byte(s.num)
    BY <1>4, <1>0 DEF Misencoded, HighByteWithRex, NoSib, NoDisp, IndexLost, OffsetLost, BaseLost, SizeLost,
                      HasMem, Ptr, Counterpart, WithSib44, IsAlu, Is, IsReg, IsImm, IsPlain, IsScaled, IsMem,
                      IsRegister, IsMemory, IsNumber, OfLine
  <2>3. /\ i = 3 + 1 /\ i \in Nat /\ Len(c) = i + 1 + 0 /\ Len(c) = 5 /\ c[1] = 72 /\ c[2] = 15 /\ c[3] = 183
        /\ Written3(c, i, 1, d.reg, s.reg) /\ c[i + 1] = Low(s.num)
    BY <1>0 DEF AtByte, ModRM, Written3
  <2>4. HasBits(p, 0, 0, 64) /\ p.isRex
    BY PrefixesAre
  <2> HIDE DEF c, i
  <2>5. Starts(c, 2, p)
    <3>1. Len(c) \in Nat /\ 2 <= Len(c) /\ c[1] = 72
      BY <2>3
    <3> QED
      BY <3>1, RexPrefixes, Zenon DEF p
  <2> HIDE DEF p
  <2>6. D!Decoded(c) = D!RM(c, i, p, "movzx", 64, 16)
    <3>1. 2 \in Nat /\ Len(c) \in Nat /\ Len(c) > 2 /\ c[2] = 15 /\ c[2 + 1] = 183 /\ i = 2 + 2
      BY <2>3
    <3> QED
      BY <2>4, <2>5, <3>1, OpMovzx DEF Starts, HasBits
  <2>7. /\ s.reg # 4 /\ IsAt(s, p.rex.b) /\ Byte(s.num) => Reads(c, i, p.rex, d.reg, 0, s)
        /\ s.reg = 4 \/ ~IsAt(s, p.rex.b) \/ ~Byte(s.num) => Misreads(c, i, p.rex, 0, s)
    <3>1. /\ i \in Nat /\ Written3(c, i, 1, d.reg, s.reg) /\ c[i + 1] = Low(s.num) /\ Len(c) = i + 1 + 0
          /\ IsRx(p.rex)
      BY <2>3, <2>4 DEF HasBits
    <3> QED
      BY <1>0, <3>1, AtByteReads
  <2>8. Named(64, p.rex.r, p.isRex, d.reg) = D!Reg(d.type, d.reg)
    BY <1>4, <1>0, <2>4 DEF Named, HasBits, IsReg, Octal
  <2>9. /\ Reads(c, i, p.rex, d.reg, 0, s) =>
              (D!Decoded(c) = Means("movzx", d, s) <=> Named(64, p.rex.r, p.isRex, d.reg) = D!Reg(d.type, d.reg))
        /\ Misreads(c, i, p.rex, 0, s) => D!Decoded(c) # Means("movzx", d, s)
    <3>1. SrcSize("movzx", d, s) = 16 /\ 64 \in Sizes
      BY <1>4, <1>0 DEF SrcSize, SizeOf, Sizes, Straight, IsRegister, IsMemory, IsReg, IsPlain, IsMem
    <3>2. IsRx(p.rex) /\ Len(c) \in Nat
      BY <2>3, <2>4 DEF HasBits
    <3> QED
      BY <1>0, <2>6, <3>1, <3>2, FromMeans
  <2>10. IsAt(s, p.rex.b) <=> s.type = "RAXtoRDI"
    BY <1>4, <1>0, <2>4 DEF IsAt, IsPlain, IsMem, HasBits
  <2>11. D!Decoded(c) = Means("movzx", d, s) <=> ~(s.reg = 4 \/ s.type # "RAXtoRDI" \/ ~Byte(s.num))
    BY <1>4, <2>7, <2>8, <2>9, <2>10
  <2> QED
    BY <2>1, <2>2, <2>11 DEF Right
<1>5. Movzx(d, s) # Refuse =>
         \/ IsReg(d, "EAXtoEDI") /\ s.size = 8 /\ IsPlain(s, "RAXtoRDI") /\ ~Byte(s.num)
         \/ IsReg(d, "RAXtoRDI") /\ s.size = 8 /\ ~s.scaled /\ s.num = 0
         \/ IsReg(d, "RAXtoRDI") /\ s.size = 8 /\ ~s.scaled /\ s.num # 0 /\ Byte(s.num)
         \/ IsReg(d, "RAXtoRDI") /\ s.size = 16 /\ ~s.scaled
  BY <1>0 DEF Movzx, IsPlain, IsScaled, IsMem, IsReg, Sized, IsRegister, IsMemory
<1> QED
  BY <1>1, <1>2, <1>3, <1>4, <1>5 DEF Right

LEMMA LeaPtrIs ==
  ASSUME NEW d, NEW s,
         OfLine("lea", d, s), IsRegister(d), IsMemory(s)
  PROVE  Right(Lea(d, s), "lea", d, s)
<1>0. /\ d.reg \in Octal /\ d.kind = "reg" /\ s.reg \in Octal /\ s.index \in Octal /\ s.lv \in 0 .. 3
      /\ s.num \in Int32 /\ s.num \in Int /\ (s.num = 0 => Byte(s.num)) /\ s.kind = "mem" /\ Octal \subseteq Int
      /\ Straight("lea") /\ "lea" \notin DOMAIN AluOp
  BY RegisterShape, MemoryShape, LongIsInt DEF Octal, IsRegister, IsMemory, Byte, ShiftOp, AluOp, Straight
<1>1. CASE (s.size = 64 \/ s.size = 0) /\ s.type = "RAXtoRDI" /\ s.reg \notin {4, 5} /\ IsReg(d, "R8toR15") /\ s.num = 0
  <2> DEFINE c == <<76, 141, At(d, s)>>
             p == PRex(1, 1, 0)
             i == 3
  <2>1. Lea(d, s) = c
    BY <1>1, <1>0 DEF Lea, IsPlain, IsScaled, IsMem, IsReg, Sized, IsRegister, IsMemory
  <2>2. Misencoded <=> s.scaled
    BY <1>1, <1>0 DEF Misencoded, HighByteWithRex, NoSib, NoDisp, IndexLost, OffsetLost, BaseLost, SizeLost,
                      HasMem, Ptr, Counterpart, WithSib44, IsAlu, Is, IsReg, IsImm, IsPlain, IsScaled, IsMem,
                      IsRegister, IsMemory, IsNumber, OfLine
  <2>3. /\ i = 2 + 1 /\ i \in Nat /\ Len(c) = i /\ Len(c) = 3 /\ c[1] = 76 /\ c[2] = 141
        /\ Written3(c, i, 0, d.reg, s.reg)
    BY <1>0 DEF At, ModRM, Written3
  <2>4. HasBits(p, 1, 0, 64) /\ p.isRex
    BY PrefixesAre
  <2> HIDE DEF c, i
  <2>5. Starts(c, 2, p)
    <3>1. Len(c) \in Nat /\ 2 <= Len(c) /\ c[1] = 76
      BY <2>3
    <3> QED
      BY <3>1, RexPrefixes, Zenon DEF p
  <2> HIDE DEF p
  <2>6. D!Decoded(c) = D!RM(c, i, p, "lea", 64, 0)
    BY <1>0, <2>3, <2>4, <2>5, OpRM DEF Starts, HasBits
  <2>7. /\ s.reg \notin {4, 5} /\ IsAt(s, p.rex.b) /\ s.num = 0 => Reads(c, i, p.rex, d.reg, 0, s)
        /\ s.reg \in {4, 5} \/ ~IsAt(s, p.rex.b) \/ s.num # 0 => Misreads(c, i, p.rex, 0, s)
    <3>1. i \in Nat /\ Written3(c, i, 0, d.reg, s.reg) /\ Len(c) = i /\ IsRx(p.rex)
      BY <2>3, <2>4 DEF HasBits
    <3> QED
      BY <1>0, <3>1, AtReads
  <2>8. Named(64, p.rex.r, p.isRex, d.reg) = D!Reg(d.type, d.reg)
    BY <1>1, <1>0, <2>4 DEF Named, HasBits, IsReg, Octal
  <2>9. /\ Reads(c, i, p.rex, d.reg, 0, s) =>
              (D!Decoded(c) = Means("lea", d, s) <=> Named(64, p.rex.r, p.isRex, d.reg) = D!Reg(d.type, d.reg))
        /\ Misreads(c, i, p.rex, 0, s) => D!Decoded(c) # Means("lea", d, s)
    <3>1. SrcSize("lea", d, s) = 0 /\ 64 \in Sizes
      BY <1>1, <1>0 DEF SrcSize, SizeOf, Sizes, Straight, IsRegister, IsMemory, IsReg, IsPlain, IsMem
    <3>2. IsRx(p.rex) /\ Len(c) \in Nat
      BY <2>3, <2>4 DEF HasBits
    <3> QED
      BY <1>0, <2>6, <3>1, <3>2, FromMeans
  <2>10. IsAt(s, p.rex.b) <=> ~s.scaled
    BY <1>1, <1>0, <2>4 DEF IsAt, IsPlain, IsMem, HasBits
  <2>11. D!Decoded(c) = Means("lea", d, s) <=> ~(s.scaled)
    BY <1>1, <2>7, <2>8, <2>9, <2>10
  <2> QED
    BY <2>1, <2>2, <2>11 DEF Right
<1>2. CASE (s.size = 64 \/ s.size = 0) /\ s.type = "RAXtoRDI" /\ s.reg \notin {4, 5} /\ IsReg(d, "RAXtoRDI")
  <2> DEFINE c == <<72, 141>> \o AtByte(d, s)
             p == PRex(1, 0, 0)
             i == 3
  <2>1. Lea(d, s) = c
    BY <1>2, <1>0 DEF Lea, IsPlain, IsScaled, IsMem, IsReg, Sized, IsRegister, IsMemory
  <2>2. Misencoded <=> s.scaled \/ ~Byte(s.num)
    BY <1>2, <1>0 DEF Misencoded, HighByteWithRex, NoSib, NoDisp, IndexLost, OffsetLost, BaseLost, SizeLost,
                      HasMem, Ptr, Counterpart, WithSib44, IsAlu, Is, IsReg, IsImm, IsPlain, IsScaled, IsMem,
                      IsRegister, IsMemory, IsNumber, OfLine
  <2>3. /\ i = 2 + 1 /\ i \in Nat /\ Len(c) = i + 1 + 0 /\ Len(c) = 4 /\ c[1] = 72 /\ c[2] = 141
        /\ Written3(c, i, 1, d.reg, s.reg) /\ c[i + 1] = Low(s.num)
    BY <1>0 DEF AtByte, ModRM, Written3
  <2>4. HasBits(p, 0, 0, 64) /\ p.isRex
    BY PrefixesAre
  <2> HIDE DEF c, i
  <2>5. Starts(c, 2, p)
    <3>1. Len(c) \in Nat /\ 2 <= Len(c) /\ c[1] = 72
      BY <2>3
    <3> QED
      BY <3>1, RexPrefixes, Zenon DEF p
  <2> HIDE DEF p
  <2>6. D!Decoded(c) = D!RM(c, i, p, "lea", 64, 0)
    BY <1>0, <2>3, <2>4, <2>5, OpRM DEF Starts, HasBits
  <2>7. /\ s.reg # 4 /\ IsAt(s, p.rex.b) /\ Byte(s.num) => Reads(c, i, p.rex, d.reg, 0, s)
        /\ s.reg = 4 \/ ~IsAt(s, p.rex.b) \/ ~Byte(s.num) => Misreads(c, i, p.rex, 0, s)
    <3>1. /\ i \in Nat /\ Written3(c, i, 1, d.reg, s.reg) /\ c[i + 1] = Low(s.num) /\ Len(c) = i + 1 + 0
          /\ IsRx(p.rex)
      BY <2>3, <2>4 DEF HasBits
    <3> QED
      BY <1>0, <3>1, AtByteReads
  <2>8. Named(64, p.rex.r, p.isRex, d.reg) = D!Reg(d.type, d.reg)
    BY <1>2, <1>0, <2>4 DEF Named, HasBits, IsReg, Octal
  <2>9. /\ Reads(c, i, p.rex, d.reg, 0, s) =>
              (D!Decoded(c) = Means("lea", d, s) <=> Named(64, p.rex.r, p.isRex, d.reg) = D!Reg(d.type, d.reg))
        /\ Misreads(c, i, p.rex, 0, s) => D!Decoded(c) # Means("lea", d, s)
    <3>1. SrcSize("lea", d, s) = 0 /\ 64 \in Sizes
      BY <1>2, <1>0 DEF SrcSize, SizeOf, Sizes, Straight, IsRegister, IsMemory, IsReg, IsPlain, IsMem
    <3>2. IsRx(p.rex) /\ Len(c) \in Nat
      BY <2>3, <2>4 DEF HasBits
    <3> QED
      BY <1>0, <2>6, <3>1, <3>2, FromMeans
  <2>10. IsAt(s, p.rex.b) <=> ~s.scaled
    BY <1>2, <1>0, <2>4 DEF IsAt, IsPlain, IsMem, HasBits
  <2>11. D!Decoded(c) = Means("lea", d, s) <=> ~(s.scaled \/ ~Byte(s.num))
    BY <1>2, <2>7, <2>8, <2>9, <2>10
  <2> QED
    BY <2>1, <2>2, <2>11 DEF Right
<1>3. Lea(d, s) # Refuse =>
         \/ (s.size = 64 \/ s.size = 0) /\ s.type = "RAXtoRDI" /\ s.reg \notin {4, 5} /\ IsReg(d, "R8toR15") /\ s.num = 0
         \/ (s.size = 64 \/ s.size = 0) /\ s.type = "RAXtoRDI" /\ s.reg \notin {4, 5} /\ IsReg(d, "RAXtoRDI")
  BY <1>0 DEF Lea, IsPlain, IsScaled, IsMem, IsReg, Sized, IsRegister, IsMemory
<1> QED
  BY <1>1, <1>2, <1>3 DEF Right

LEMMA IncDecPtrIs ==
  ASSUME NEW mn, NEW op, NEW d,
         OfLine(mn, d, None), mn \in DOMAIN IncDecOp, op = IncDecOp[mn], IsMemory(d)
  PROVE  Right(IncDec(d, op), mn, d, None)
<1>0. /\ d.reg \in Octal /\ d.index \in Octal /\ d.lv \in 0 .. 3 /\ d.num \in Int32 /\ d.num \in Int
      /\ (d.num = 0 => Byte(d.num)) /\ d.kind = "mem" /\ Octal \subseteq Int /\ Straight(mn)
      /\ mn \notin DOMAIN AluOp /\ mn \notin {"mov", "movzx", "movsx", "lea", "test"} /\ op \in 0 .. 1
      /\ op \in Octal /\ <<"inc", "dec">>[op + 1] = mn /\ None.kind = "none"
  BY MemoryShape, LongIsInt DEF Octal, IsMemory, Byte, ShiftOp, AluOp, Straight, IncDecOp, None
<1>1. CASE IsPlain(d, "RAXtoRDI") /\ Byte(d.num) /\ d.size = 8
  <2> DEFINE c == <<254>> \o AtByte(Ext(op), d)
             p == P0
             i == 2
  <2>1. IncDec(d, op) = c
    BY <1>1, <1>0 DEF IncDec, IsPlain, IsScaled, IsMem, IsReg, Sized, IsRegister, IsMemory
  <2>2. Misencoded <=> d.reg = 4
    BY <1>1, <1>0 DEF Misencoded, HighByteWithRex, NoSib, NoDisp, IndexLost, OffsetLost, BaseLost, SizeLost,
                      HasMem, Ptr, Counterpart, WithSib44, IsAlu, Is, IsReg, IsImm, IsPlain, IsScaled, IsMem,
                      IsRegister, IsMemory, IsNumber, OfLine
  <2>3. /\ i = 1 + 1 /\ i \in Nat /\ Len(c) = i + 1 + 0 /\ Len(c) = 3 /\ c[1] = 254
        /\ Written3(c, i, 1, op, d.reg) /\ c[i + 1] = Low(d.num)
    BY <1>0 DEF AtByte, Ext, ModRM, Written3
  <2>4. HasBits(p, 0, 0, 32) /\ ~p.isRex
    BY PrefixesAre
  <2> HIDE DEF c, i
  <2>5. Starts(c, 1, p)
    <3>1. Len(c) \in Nat /\ 1 <= Len(c) /\ IsOp(c[1])
      BY <2>3 DEF IsOp
    <3> QED
      BY <3>1, NoPrefix, Zenon DEF p
  <2> HIDE DEF p
  <2>6. D!Decoded(c) = D!MWith(c, i, p, mn, 8, D!None)
    <3>1. D!Extension(c, 1) = op
      <4>1. 1 \in Nat /\ Len(c) \in Nat /\ Len(c) > 1 /\ 1 \in 0 .. 3 /\ Written3(c, 1 + 1, 1, op, d.reg)
        BY <2>3
      <4> QED
        BY <1>0, <4>1, ExtensionIs
    <3> QED
      BY <1>0, <2>3, <2>4, <2>5, <3>1, OpIncDec DEF Starts, HasBits
  <2>7. /\ d.reg # 4 /\ IsAt(d, p.rex.b) /\ Byte(d.num) => Reaches(c, i, p, 0, d)
        /\ d.reg = 4 \/ ~IsAt(d, p.rex.b) \/ ~Byte(d.num) => Strays(c, i, p, 0, d)
    <3>1. /\ i \in Nat /\ Written3(c, i, 1, op, d.reg) /\ c[i + 1] = Low(d.num) /\ Len(c) = i + 1 + 0
          /\ IsRx(p.rex)
      BY <2>3, <2>4 DEF HasBits
    <3>2. /\ d.reg # 4 /\ IsAt(d, p.rex.b) /\ Byte(d.num) => Reads(c, i, p.rex, op, 0, d)
          /\ d.reg = 4 \/ ~IsAt(d, p.rex.b) \/ ~Byte(d.num) => Misreads(c, i, p.rex, 0, d)
      BY <1>0, <3>1, AtByteReads
    <3> QED
      BY <3>2 DEF Reaches, Strays
  <2>8. HasSize(d, 8)
    BY <1>1 DEF HasSize
  <2>9. /\ Reaches(c, i, p, 0, d) =>
              (D!Decoded(c) = Means(mn, d, None) <=> HasSize(d, 8))
        /\ Strays(c, i, p, 0, d) => D!Decoded(c) # Means(mn, d, None)
    <3>1. 8 \in Sizes
      BY DEF Sizes
    <3>2. IsRx(p.rex) /\ Len(c) \in Nat
      BY <2>3, <2>4 DEF HasBits
    <3> QED
      BY <1>0, <2>6, <3>1, <3>2, OnlyReaches, OnlyStrays
  <2>10. IsAt(d, p.rex.b)
    BY <1>1, <1>0, <2>4 DEF IsAt, IsPlain, IsMem, HasBits
  <2>11. D!Decoded(c) = Means(mn, d, None) <=> ~(d.reg = 4)
    BY <1>1, <2>7, <2>8, <2>9, <2>10
  <2> QED
    BY <2>1, <2>2, <2>11 DEF Right
<1>2. CASE IsPlain(d, "RAXtoRDI") /\ Byte(d.num) /\ d.size = 16
  <2> DEFINE c == <<102, 255>> \o AtByte(Ext(op), d)
             p == P66
             i == 3
  <2>1. IncDec(d, op) = c
    BY <1>2, <1>0 DEF IncDec, IsPlain, IsScaled, IsMem, IsReg, Sized, IsRegister, IsMemory
  <2>2. Misencoded <=> d.reg = 4
    BY <1>2, <1>0 DEF Misencoded, HighByteWithRex, NoSib, NoDisp, IndexLost, OffsetLost, BaseLost, SizeLost,
                      HasMem, Ptr, Counterpart, WithSib44, IsAlu, Is, IsReg, IsImm, IsPlain, IsScaled, IsMem,
                      IsRegister, IsMemory, IsNumber, OfLine
  <2>3. /\ i = 2 + 1 /\ i \in Nat /\ Len(c) = i + 1 + 0 /\ Len(c) = 4 /\ c[1] = 102 /\ c[2] = 255
        /\ Written3(c, i, 1, op, d.reg) /\ c[i + 1] = Low(d.num)
    BY <1>0 DEF AtByte, Ext, ModRM, Written3
  <2>4. HasBits(p, 0, 0, 16) /\ ~p.isRex
    BY PrefixesAre
  <2> HIDE DEF c, i
  <2>5. Starts(c, 2, p)
    <3>1. Len(c) \in Nat /\ 2 <= Len(c) /\ c[1] = 102 /\ IsOp(c[2])
      BY <2>3 DEF IsOp
    <3> QED
      BY <3>1, Prefix66, Zenon DEF p
  <2> HIDE DEF p
  <2>6. D!Decoded(c) = D!MWith(c, i, p, mn, 16, D!None)
    <3>1. D!Extension(c, 2) = op
      <4>1. 2 \in Nat /\ Len(c) \in Nat /\ Len(c) > 2 /\ 1 \in 0 .. 3 /\ Written3(c, 2 + 1, 1, op, d.reg)
        BY <2>3
      <4> QED
        BY <1>0, <4>1, ExtensionIs
    <3> QED
      BY <1>0, <2>3, <2>4, <2>5, <3>1, OpIncDec DEF Starts, HasBits
  <2>7. /\ d.reg # 4 /\ IsAt(d, p.rex.b) /\ Byte(d.num) => Reaches(c, i, p, 0, d)
        /\ d.reg = 4 \/ ~IsAt(d, p.rex.b) \/ ~Byte(d.num) => Strays(c, i, p, 0, d)
    <3>1. /\ i \in Nat /\ Written3(c, i, 1, op, d.reg) /\ c[i + 1] = Low(d.num) /\ Len(c) = i + 1 + 0
          /\ IsRx(p.rex)
      BY <2>3, <2>4 DEF HasBits
    <3>2. /\ d.reg # 4 /\ IsAt(d, p.rex.b) /\ Byte(d.num) => Reads(c, i, p.rex, op, 0, d)
          /\ d.reg = 4 \/ ~IsAt(d, p.rex.b) \/ ~Byte(d.num) => Misreads(c, i, p.rex, 0, d)
      BY <1>0, <3>1, AtByteReads
    <3> QED
      BY <3>2 DEF Reaches, Strays
  <2>8. HasSize(d, 16)
    BY <1>2 DEF HasSize
  <2>9. /\ Reaches(c, i, p, 0, d) =>
              (D!Decoded(c) = Means(mn, d, None) <=> HasSize(d, 16))
        /\ Strays(c, i, p, 0, d) => D!Decoded(c) # Means(mn, d, None)
    <3>1. 16 \in Sizes
      BY DEF Sizes
    <3>2. IsRx(p.rex) /\ Len(c) \in Nat
      BY <2>3, <2>4 DEF HasBits
    <3> QED
      BY <1>0, <2>6, <3>1, <3>2, OnlyReaches, OnlyStrays
  <2>10. IsAt(d, p.rex.b)
    BY <1>2, <1>0, <2>4 DEF IsAt, IsPlain, IsMem, HasBits
  <2>11. D!Decoded(c) = Means(mn, d, None) <=> ~(d.reg = 4)
    BY <1>2, <2>7, <2>8, <2>9, <2>10
  <2> QED
    BY <2>1, <2>2, <2>11 DEF Right
<1>3. CASE IsPlain(d, "RAXtoRDI") /\ Byte(d.num) /\ d.size = 64
  <2> DEFINE c == <<72, 255>> \o AtByte(Ext(op), d)
             p == PRex(1, 0, 0)
             i == 3
  <2>1. IncDec(d, op) = c
    BY <1>3, <1>0 DEF IncDec, IsPlain, IsScaled, IsMem, IsReg, Sized, IsRegister, IsMemory
  <2>2. Misencoded <=> d.reg = 4
    BY <1>3, <1>0 DEF Misencoded, HighByteWithRex, NoSib, NoDisp, IndexLost, OffsetLost, BaseLost, SizeLost,
                      HasMem, Ptr, Counterpart, WithSib44, IsAlu, Is, IsReg, IsImm, IsPlain, IsScaled, IsMem,
                      IsRegister, IsMemory, IsNumber, OfLine
  <2>3. /\ i = 2 + 1 /\ i \in Nat /\ Len(c) = i + 1 + 0 /\ Len(c) = 4 /\ c[1] = 72 /\ c[2] = 255
        /\ Written3(c, i, 1, op, d.reg) /\ c[i + 1] = Low(d.num)
    BY <1>0 DEF AtByte, Ext, ModRM, Written3
  <2>4. HasBits(p, 0, 0, 64) /\ p.isRex
    BY PrefixesAre
  <2> HIDE DEF c, i
  <2>5. Starts(c, 2, p)
    <3>1. Len(c) \in Nat /\ 2 <= Len(c) /\ c[1] = 72
      BY <2>3
    <3> QED
      BY <3>1, RexPrefixes, Zenon DEF p
  <2> HIDE DEF p
  <2>6. D!Decoded(c) = D!MWith(c, i, p, mn, 64, D!None)
    <3>1. D!Extension(c, 2) = op
      <4>1. 2 \in Nat /\ Len(c) \in Nat /\ Len(c) > 2 /\ 1 \in 0 .. 3 /\ Written3(c, 2 + 1, 1, op, d.reg)
        BY <2>3
      <4> QED
        BY <1>0, <4>1, ExtensionIs
    <3> QED
      BY <1>0, <2>3, <2>4, <2>5, <3>1, OpIncDec DEF Starts, HasBits
  <2>7. /\ d.reg # 4 /\ IsAt(d, p.rex.b) /\ Byte(d.num) => Reaches(c, i, p, 0, d)
        /\ d.reg = 4 \/ ~IsAt(d, p.rex.b) \/ ~Byte(d.num) => Strays(c, i, p, 0, d)
    <3>1. /\ i \in Nat /\ Written3(c, i, 1, op, d.reg) /\ c[i + 1] = Low(d.num) /\ Len(c) = i + 1 + 0
          /\ IsRx(p.rex)
      BY <2>3, <2>4 DEF HasBits
    <3>2. /\ d.reg # 4 /\ IsAt(d, p.rex.b) /\ Byte(d.num) => Reads(c, i, p.rex, op, 0, d)
          /\ d.reg = 4 \/ ~IsAt(d, p.rex.b) \/ ~Byte(d.num) => Misreads(c, i, p.rex, 0, d)
      BY <1>0, <3>1, AtByteReads
    <3> QED
      BY <3>2 DEF Reaches, Strays
  <2>8. HasSize(d, 64)
    BY <1>3 DEF HasSize
  <2>9. /\ Reaches(c, i, p, 0, d) =>
              (D!Decoded(c) = Means(mn, d, None) <=> HasSize(d, 64))
        /\ Strays(c, i, p, 0, d) => D!Decoded(c) # Means(mn, d, None)
    <3>1. 64 \in Sizes
      BY DEF Sizes
    <3>2. IsRx(p.rex) /\ Len(c) \in Nat
      BY <2>3, <2>4 DEF HasBits
    <3> QED
      BY <1>0, <2>6, <3>1, <3>2, OnlyReaches, OnlyStrays
  <2>10. IsAt(d, p.rex.b)
    BY <1>3, <1>0, <2>4 DEF IsAt, IsPlain, IsMem, HasBits
  <2>11. D!Decoded(c) = Means(mn, d, None) <=> ~(d.reg = 4)
    BY <1>3, <2>7, <2>8, <2>9, <2>10
  <2> QED
    BY <2>1, <2>2, <2>11 DEF Right
<1>4. IncDec(d, op) # Refuse =>
         \/ IsPlain(d, "RAXtoRDI") /\ Byte(d.num) /\ d.size = 8
         \/ IsPlain(d, "RAXtoRDI") /\ Byte(d.num) /\ d.size = 16
         \/ IsPlain(d, "RAXtoRDI") /\ Byte(d.num) /\ d.size = 64
  BY <1>0 DEF IncDec, IsPlain, IsScaled, IsMem, IsReg, Sized, IsRegister, IsMemory
<1> QED
  BY <1>1, <1>2, <1>3, <1>4 DEF Right

LEMMA AluFromPtrIs ==
  ASSUME NEW mn, NEW op, NEW d, NEW m,
         OfLine(mn, d, m), mn \in DOMAIN AluOp, op = AluOp[mn], IsRegister(d), IsMemory(m)
  PROVE  Right(AluFromPtr(d, m, op), mn, d, m)
<1>0. /\ d.reg \in Octal /\ d.kind = "reg" /\ m.reg \in Octal /\ m.index \in Octal /\ m.lv \in 0 .. 3
      /\ m.num \in Int32 /\ m.num \in Int /\ (m.num = 0 => Byte(m.num)) /\ m.kind = "mem" /\ Octal \subseteq Int
      /\ op \in Octal /\ op \in Int /\ Stands(mn, op) /\ Straight(mn)
      /\ mn \notin {"mov", "movzx", "movsx", "lea", "test"}
  BY RegisterShape, MemoryShape, LongIsInt, AluIs, AluStands DEF Octal, IsRegister, IsMemory, Byte
<1>1. CASE IsMem(m, "RAXtoRDI") /\ IsReg(d, "ALtoBH") /\ m.size = 8 /\ Byte(m.num)
  <2> DEFINE c == <<8 * op + 2>> \o AtByte(d, m)
             p == P0
             i == 2
  <2>1. AluFromPtr(d, m, op) = c
    BY <1>1, <1>0 DEF AluFromPtr, IsPlain, IsScaled, IsMem, IsReg, IsImm, Sized, IsRegister, IsMemory, IsNumber
  <2>2. Misencoded <=> m.scaled \/ m.reg = 4
    BY <1>1, <1>0 DEF Misencoded, HighByteWithRex, NoSib, NoDisp, IndexLost, OffsetLost, BaseLost, SizeLost,
                      HasMem, Ptr, Counterpart, WithSib44, IsAlu, Is, IsReg, IsImm, IsPlain, IsScaled, IsMem,
                      IsRegister, IsMemory, IsNumber, OfLine
  <2>3. /\ i = 1 + 1 /\ i \in Nat /\ Len(c) = i + 1 + 0 /\ Len(c) = 3 /\ c[1] = OpOf(op, 2)
        /\ Written3(c, i, 1, d.reg, m.reg) /\ c[i + 1] = Low(m.num)
    BY <1>0 DEF AtByte, ModRM, OpOf, Written3
  <2>4. HasBits(p, 0, 0, 32) /\ ~p.isRex
    BY PrefixesAre
  <2> HIDE DEF c, i
  <2>5. Starts(c, 1, p)
    <3>1. Len(c) \in Nat /\ 1 <= Len(c) /\ IsOp(c[1])
      BY <1>0, <2>3, AluBytes
    <3> QED
      BY <3>1, NoPrefix, Zenon DEF p
  <2> HIDE DEF p
  <2>6. D!Decoded(c) = D!RM(c, i, p, mn, 8, 8)
    <3> DEFINE o == 1
    <3>1. o \in Nat /\ i = o + 1 /\ c[o] = OpOf(op, 2) /\ Starts(c, o, p)
      BY <2>3, <2>5
    <3> HIDE DEF o
    <3>2. D!Opcode(c, o, p) = D!RM(c, i, p, mn, 8, 8)
      BY <1>0, <3>1, AluForm2
    <3> QED
      BY <2>4, <3>1, <3>2 DEF Starts, HasBits
  <2>7. /\ m.reg # 4 /\ IsAt(m, p.rex.b) /\ Byte(m.num) => Reads(c, i, p.rex, d.reg, 0, m)
        /\ m.reg = 4 \/ ~IsAt(m, p.rex.b) \/ ~Byte(m.num) => Misreads(c, i, p.rex, 0, m)
    <3>1. /\ i \in Nat /\ Written3(c, i, 1, d.reg, m.reg) /\ c[i + 1] = Low(m.num) /\ Len(c) = i + 1 + 0
          /\ IsRx(p.rex)
      BY <2>3, <2>4 DEF HasBits
    <3> QED
      BY <1>0, <3>1, AtByteReads
  <2>8. Named(8, p.rex.r, p.isRex, d.reg) = D!Reg(d.type, d.reg)
    BY <1>1, <1>0, <2>4 DEF Named, HasBits, IsReg, Octal
  <2>9. /\ Reads(c, i, p.rex, d.reg, 0, m) =>
              (D!Decoded(c) = Means(mn, d, m) <=> Named(8, p.rex.r, p.isRex, d.reg) = D!Reg(d.type, d.reg))
        /\ Misreads(c, i, p.rex, 0, m) => D!Decoded(c) # Means(mn, d, m)
    <3>1. SrcSize(mn, d, m) = 8 /\ 8 \in Sizes
      BY <1>1, <1>0 DEF SrcSize, SizeOf, Sizes, Straight, IsRegister, IsMemory, IsReg, IsPlain, IsMem
    <3>2. IsRx(p.rex) /\ Len(c) \in Nat
      BY <2>3, <2>4 DEF HasBits
    <3> QED
      BY <1>0, <2>6, <3>1, <3>2, FromMeans
  <2>10. IsAt(m, p.rex.b) <=> ~m.scaled
    BY <1>1, <1>0, <2>4 DEF IsAt, IsPlain, IsMem, HasBits
  <2>11. D!Decoded(c) = Means(mn, d, m) <=> ~(m.scaled \/ m.reg = 4)
    BY <1>1, <2>7, <2>8, <2>9, <2>10
  <2> QED
    BY <2>1, <2>2, <2>11 DEF Right
<1>2. CASE IsMem(m, "RAXtoRDI") /\ IsReg(d, "AXtoDI") /\ m.size = 16 /\ Byte(m.num)
  <2> DEFINE c == <<102, 8 * op + 3>> \o AtByte(d, m)
             p == P66
             i == 3
  <2>1. AluFromPtr(d, m, op) = c
    BY <1>2, <1>0 DEF AluFromPtr, IsPlain, IsScaled, IsMem, IsReg, IsImm, Sized, IsRegister, IsMemory, IsNumber
  <2>2. Misencoded <=> m.scaled \/ m.reg = 4
    BY <1>2, <1>0 DEF Misencoded, HighByteWithRex, NoSib, NoDisp, IndexLost, OffsetLost, BaseLost, SizeLost,
                      HasMem, Ptr, Counterpart, WithSib44, IsAlu, Is, IsReg, IsImm, IsPlain, IsScaled, IsMem,
                      IsRegister, IsMemory, IsNumber, OfLine
  <2>3. /\ i = 2 + 1 /\ i \in Nat /\ Len(c) = i + 1 + 0 /\ Len(c) = 4 /\ c[1] = 102 /\ c[2] = OpOf(op, 3)
        /\ Written3(c, i, 1, d.reg, m.reg) /\ c[i + 1] = Low(m.num)
    BY <1>0 DEF AtByte, ModRM, OpOf, Written3
  <2>4. HasBits(p, 0, 0, 16) /\ ~p.isRex
    BY PrefixesAre
  <2> HIDE DEF c, i
  <2>5. Starts(c, 2, p)
    <3>1. Len(c) \in Nat /\ 2 <= Len(c) /\ c[1] = 102 /\ IsOp(c[2])
      BY <1>0, <2>3, AluBytes
    <3> QED
      BY <3>1, Prefix66, Zenon DEF p
  <2> HIDE DEF p
  <2>6. D!Decoded(c) = D!RM(c, i, p, mn, 16, 16)
    <3> DEFINE o == 2
    <3>1. o \in Nat /\ i = o + 1 /\ c[o] = OpOf(op, 3) /\ Starts(c, o, p)
      BY <2>3, <2>5
    <3> HIDE DEF o
    <3>2. D!Opcode(c, o, p) = D!RM(c, i, p, mn, D!Size(p), D!Size(p))
      BY <1>0, <3>1, AluForm3
    <3> QED
      BY <2>4, <3>1, <3>2 DEF Starts, HasBits
  <2>7. /\ m.reg # 4 /\ IsAt(m, p.rex.b) /\ Byte(m.num) => Reads(c, i, p.rex, d.reg, 0, m)
        /\ m.reg = 4 \/ ~IsAt(m, p.rex.b) \/ ~Byte(m.num) => Misreads(c, i, p.rex, 0, m)
    <3>1. /\ i \in Nat /\ Written3(c, i, 1, d.reg, m.reg) /\ c[i + 1] = Low(m.num) /\ Len(c) = i + 1 + 0
          /\ IsRx(p.rex)
      BY <2>3, <2>4 DEF HasBits
    <3> QED
      BY <1>0, <3>1, AtByteReads
  <2>8. Named(16, p.rex.r, p.isRex, d.reg) = D!Reg(d.type, d.reg)
    BY <1>2, <1>0, <2>4 DEF Named, HasBits, IsReg, Octal
  <2>9. /\ Reads(c, i, p.rex, d.reg, 0, m) =>
              (D!Decoded(c) = Means(mn, d, m) <=> Named(16, p.rex.r, p.isRex, d.reg) = D!Reg(d.type, d.reg))
        /\ Misreads(c, i, p.rex, 0, m) => D!Decoded(c) # Means(mn, d, m)
    <3>1. SrcSize(mn, d, m) = 16 /\ 16 \in Sizes
      BY <1>2, <1>0 DEF SrcSize, SizeOf, Sizes, Straight, IsRegister, IsMemory, IsReg, IsPlain, IsMem
    <3>2. IsRx(p.rex) /\ Len(c) \in Nat
      BY <2>3, <2>4 DEF HasBits
    <3> QED
      BY <1>0, <2>6, <3>1, <3>2, FromMeans
  <2>10. IsAt(m, p.rex.b) <=> ~m.scaled
    BY <1>2, <1>0, <2>4 DEF IsAt, IsPlain, IsMem, HasBits
  <2>11. D!Decoded(c) = Means(mn, d, m) <=> ~(m.scaled \/ m.reg = 4)
    BY <1>2, <2>7, <2>8, <2>9, <2>10
  <2> QED
    BY <2>1, <2>2, <2>11 DEF Right
<1>3. CASE IsMem(m, "RAXtoRDI") /\ IsReg(d, "RAXtoRDI") /\ m.size = 64 /\ m.num = 0
  <2> DEFINE c == <<72, 8 * op + 3, At(d, m), 36>>
             p == PRex(1, 0, 0)
             i == 3
  <2>1. AluFromPtr(d, m, op) = c
    BY <1>3, <1>0 DEF AluFromPtr, IsPlain, IsScaled, IsMem, IsReg, IsImm, Sized, IsRegister, IsMemory, IsNumber
  <2>2. Misencoded <=> m.scaled \/ m.reg # 4
    BY <1>3, <1>0 DEF Misencoded, HighByteWithRex, NoSib, NoDisp, IndexLost, OffsetLost, BaseLost, SizeLost,
                      HasMem, Ptr, Counterpart, WithSib44, IsAlu, Is, IsReg, IsImm, IsPlain, IsScaled, IsMem,
                      IsRegister, IsMemory, IsNumber, OfLine
  <2>3. /\ i = 2 + 1 /\ i \in Nat /\ Len(c) = i + 1 /\ Len(c) = 4 /\ c[1] = 72 /\ c[2] = OpOf(op, 3)
        /\ Written3(c, i, 0, d.reg, m.reg) /\ c[i + 1] = 36
    BY <1>0 DEF At, ModRM, OpOf, Written3
  <2>4. HasBits(p, 0, 0, 64) /\ p.isRex
    BY PrefixesAre
  <2> HIDE DEF c, i
  <2>5. Starts(c, 2, p)
    <3>1. Len(c) \in Nat /\ 2 <= Len(c) /\ c[1] = 72
      BY <1>0, <2>3, AluBytes
    <3> QED
      BY <3>1, RexPrefixes, Zenon DEF p
  <2> HIDE DEF p
  <2>6. D!Decoded(c) = D!RM(c, i, p, mn, 64, 64)
    <3> DEFINE o == 2
    <3>1. o \in Nat /\ i = o + 1 /\ c[o] = OpOf(op, 3) /\ Starts(c, o, p)
      BY <2>3, <2>5
    <3> HIDE DEF o
    <3>2. D!Opcode(c, o, p) = D!RM(c, i, p, mn, D!Size(p), D!Size(p))
      BY <1>0, <3>1, AluForm3
    <3> QED
      BY <2>4, <3>1, <3>2 DEF Starts, HasBits
  <2>7. /\ m.reg = 4 /\ IsAt(m, p.rex.b) /\ m.num = 0 => Reads(c, i, p.rex, d.reg, 0, m)
        /\ m.reg # 4 \/ ~IsAt(m, p.rex.b) \/ m.num # 0 => Misreads(c, i, p.rex, 0, m)
    <3>1. i \in Nat /\ Written3(c, i, 0, d.reg, m.reg) /\ c[i + 1] = 36 /\ Len(c) = i + 1 /\ IsRx(p.rex)
      BY <2>3, <2>4 DEF HasBits
    <3> QED
      BY <1>0, <3>1, At44Reads
  <2>8. Named(64, p.rex.r, p.isRex, d.reg) = D!Reg(d.type, d.reg)
    BY <1>3, <1>0, <2>4 DEF Named, HasBits, IsReg, Octal
  <2>9. /\ Reads(c, i, p.rex, d.reg, 0, m) =>
              (D!Decoded(c) = Means(mn, d, m) <=> Named(64, p.rex.r, p.isRex, d.reg) = D!Reg(d.type, d.reg))
        /\ Misreads(c, i, p.rex, 0, m) => D!Decoded(c) # Means(mn, d, m)
    <3>1. SrcSize(mn, d, m) = 64 /\ 64 \in Sizes
      BY <1>3, <1>0 DEF SrcSize, SizeOf, Sizes, Straight, IsRegister, IsMemory, IsReg, IsPlain, IsMem
    <3>2. IsRx(p.rex) /\ Len(c) \in Nat
      BY <2>3, <2>4 DEF HasBits
    <3> QED
      BY <1>0, <2>6, <3>1, <3>2, FromMeans
  <2>10. IsAt(m, p.rex.b) <=> ~m.scaled
    BY <1>3, <1>0, <2>4 DEF IsAt, IsPlain, IsMem, HasBits
  <2>11. D!Decoded(c) = Means(mn, d, m) <=> ~(m.scaled \/ m.reg # 4)
    BY <1>3, <2>7, <2>8, <2>9, <2>10
  <2> QED
    BY <2>1, <2>2, <2>11 DEF Right
<1>4. CASE IsMem(m, "RAXtoRDI") /\ IsReg(d, "RAXtoRDI") /\ m.size = 64 /\ m.num # 0 /\ Byte(m.num)
  <2> DEFINE c == <<72, 8 * op + 3>> \o AtByte(d, m)
             p == PRex(1, 0, 0)
             i == 3
  <2>1. AluFromPtr(d, m, op) = c
    BY <1>4, <1>0 DEF AluFromPtr, IsPlain, IsScaled, IsMem, IsReg, IsImm, Sized, IsRegister, IsMemory, IsNumber
  <2>2. Misencoded <=> m.scaled \/ m.reg = 4
    BY <1>4, <1>0 DEF Misencoded, HighByteWithRex, NoSib, NoDisp, IndexLost, OffsetLost, BaseLost, SizeLost,
                      HasMem, Ptr, Counterpart, WithSib44, IsAlu, Is, IsReg, IsImm, IsPlain, IsScaled, IsMem,
                      IsRegister, IsMemory, IsNumber, OfLine
  <2>3. /\ i = 2 + 1 /\ i \in Nat /\ Len(c) = i + 1 + 0 /\ Len(c) = 4 /\ c[1] = 72 /\ c[2] = OpOf(op, 3)
        /\ Written3(c, i, 1, d.reg, m.reg) /\ c[i + 1] = Low(m.num)
    BY <1>0 DEF AtByte, ModRM, OpOf, Written3
  <2>4. HasBits(p, 0, 0, 64) /\ p.isRex
    BY PrefixesAre
  <2> HIDE DEF c, i
  <2>5. Starts(c, 2, p)
    <3>1. Len(c) \in Nat /\ 2 <= Len(c) /\ c[1] = 72
      BY <1>0, <2>3, AluBytes
    <3> QED
      BY <3>1, RexPrefixes, Zenon DEF p
  <2> HIDE DEF p
  <2>6. D!Decoded(c) = D!RM(c, i, p, mn, 64, 64)
    <3> DEFINE o == 2
    <3>1. o \in Nat /\ i = o + 1 /\ c[o] = OpOf(op, 3) /\ Starts(c, o, p)
      BY <2>3, <2>5
    <3> HIDE DEF o
    <3>2. D!Opcode(c, o, p) = D!RM(c, i, p, mn, D!Size(p), D!Size(p))
      BY <1>0, <3>1, AluForm3
    <3> QED
      BY <2>4, <3>1, <3>2 DEF Starts, HasBits
  <2>7. /\ m.reg # 4 /\ IsAt(m, p.rex.b) /\ Byte(m.num) => Reads(c, i, p.rex, d.reg, 0, m)
        /\ m.reg = 4 \/ ~IsAt(m, p.rex.b) \/ ~Byte(m.num) => Misreads(c, i, p.rex, 0, m)
    <3>1. /\ i \in Nat /\ Written3(c, i, 1, d.reg, m.reg) /\ c[i + 1] = Low(m.num) /\ Len(c) = i + 1 + 0
          /\ IsRx(p.rex)
      BY <2>3, <2>4 DEF HasBits
    <3> QED
      BY <1>0, <3>1, AtByteReads
  <2>8. Named(64, p.rex.r, p.isRex, d.reg) = D!Reg(d.type, d.reg)
    BY <1>4, <1>0, <2>4 DEF Named, HasBits, IsReg, Octal
  <2>9. /\ Reads(c, i, p.rex, d.reg, 0, m) =>
              (D!Decoded(c) = Means(mn, d, m) <=> Named(64, p.rex.r, p.isRex, d.reg) = D!Reg(d.type, d.reg))
        /\ Misreads(c, i, p.rex, 0, m) => D!Decoded(c) # Means(mn, d, m)
    <3>1. SrcSize(mn, d, m) = 64 /\ 64 \in Sizes
      BY <1>4, <1>0 DEF SrcSize, SizeOf, Sizes, Straight, IsRegister, IsMemory, IsReg, IsPlain, IsMem
    <3>2. IsRx(p.rex) /\ Len(c) \in Nat
      BY <2>3, <2>4 DEF HasBits
    <3> QED
      BY <1>0, <2>6, <3>1, <3>2, FromMeans
  <2>10. IsAt(m, p.rex.b) <=> ~m.scaled
    BY <1>4, <1>0, <2>4 DEF IsAt, IsPlain, IsMem, HasBits
  <2>11. D!Decoded(c) = Means(mn, d, m) <=> ~(m.scaled \/ m.reg = 4)
    BY <1>4, <2>7, <2>8, <2>9, <2>10
  <2> QED
    BY <2>1, <2>2, <2>11 DEF Right
<1>5. AluFromPtr(d, m, op) # Refuse =>
         \/ IsMem(m, "RAXtoRDI") /\ IsReg(d, "ALtoBH") /\ m.size = 8 /\ Byte(m.num)
         \/ IsMem(m, "RAXtoRDI") /\ IsReg(d, "AXtoDI") /\ m.size = 16 /\ Byte(m.num)
         \/ IsMem(m, "RAXtoRDI") /\ IsReg(d, "RAXtoRDI") /\ m.size = 64 /\ m.num = 0
         \/ IsMem(m, "RAXtoRDI") /\ IsReg(d, "RAXtoRDI") /\ m.size = 64 /\ m.num # 0 /\ Byte(m.num)
  BY <1>0 DEF AluFromPtr, IsPlain, IsScaled, IsMem, IsReg, IsImm, Sized, IsRegister, IsMemory, IsNumber
<1> QED
  BY <1>1, <1>2, <1>3, <1>4, <1>5 DEF Right

LEMMA AluPtrRegIs ==
  ASSUME NEW mn, NEW op, NEW m, NEW s,
         OfLine(mn, m, s), mn \in DOMAIN AluOp, op = AluOp[mn], IsMemory(m), IsRegister(s)
  PROVE  Right(AluPtr(m, s, op), mn, m, s)
<1>0. /\ s.reg \in Octal /\ s.kind = "reg" /\ m.reg \in Octal /\ m.index \in Octal /\ m.lv \in 0 .. 3
      /\ m.num \in Int32 /\ m.num \in Int /\ (m.num = 0 => Byte(m.num)) /\ m.kind = "mem" /\ Octal \subseteq Int
      /\ op \in Octal /\ op \in Int /\ Stands(mn, op) /\ Straight(mn)
      /\ mn \notin {"mov", "movzx", "movsx", "lea", "test"}
  BY RegisterShape, MemoryShape, LongIsInt, AluIs, AluStands DEF Octal, IsRegister, IsMemory, Byte
<1>1. CASE IsMem(m, "RAXtoRDI") /\ Byte(m.num) /\ IsReg(s, "ALtoBH")
  <2> DEFINE c == <<8 * op>> \o AtByte(s, m)
             p == P0
             i == 2
  <2>1. AluPtr(m, s, op) = c
    BY <1>1, <1>0 DEF AluPtr, IsPlain, IsScaled, IsMem, IsReg, IsImm, Sized, IsRegister, IsMemory, IsNumber
  <2>2. Misencoded <=> m.scaled \/ m.reg = 4 \/ m.size # 8
    BY <1>1, <1>0 DEF Misencoded, HighByteWithRex, NoSib, NoDisp, IndexLost, OffsetLost, BaseLost, SizeLost,
                      HasMem, Ptr, Counterpart, WithSib44, IsAlu, Is, IsReg, IsImm, IsPlain, IsScaled, IsMem,
                      IsRegister, IsMemory, IsNumber, OfLine
  <2>3. /\ i = 1 + 1 /\ i \in Nat /\ Len(c) = i + 1 + 0 /\ Len(c) = 3 /\ c[1] = OpOf(op, 0)
        /\ Written3(c, i, 1, s.reg, m.reg) /\ c[i + 1] = Low(m.num)
    BY <1>0 DEF AtByte, ModRM, OpOf, Written3
  <2>4. HasBits(p, 0, 0, 32) /\ ~p.isRex
    BY PrefixesAre
  <2> HIDE DEF c, i
  <2>5. Starts(c, 1, p)
    <3>1. Len(c) \in Nat /\ 1 <= Len(c) /\ IsOp(c[1])
      BY <1>0, <2>3, AluBytes
    <3> QED
      BY <3>1, NoPrefix, Zenon DEF p
  <2> HIDE DEF p
  <2>6. D!Decoded(c) = D!MR(c, i, p, mn, 8)
    <3> DEFINE o == 1
    <3>1. o \in Nat /\ i = o + 1 /\ c[o] = OpOf(op, 0) /\ Starts(c, o, p)
      BY <2>3, <2>5
    <3> HIDE DEF o
    <3>2. D!Opcode(c, o, p) = D!MR(c, i, p, mn, 8)
      BY <1>0, <3>1, AluForm0
    <3> QED
      BY <2>4, <3>1, <3>2 DEF Starts, HasBits
  <2>7. /\ m.reg # 4 /\ IsAt(m, p.rex.b) /\ Byte(m.num) => Reads(c, i, p.rex, s.reg, 0, m)
        /\ m.reg = 4 \/ ~IsAt(m, p.rex.b) \/ ~Byte(m.num) => Misreads(c, i, p.rex, 0, m)
    <3>1. /\ i \in Nat /\ Written3(c, i, 1, s.reg, m.reg) /\ c[i + 1] = Low(m.num) /\ Len(c) = i + 1 + 0
          /\ IsRx(p.rex)
      BY <2>3, <2>4 DEF HasBits
    <3> QED
      BY <1>0, <3>1, AtByteReads
  <2>8. Named(8, p.rex.r, p.isRex, s.reg) = D!Reg(s.type, s.reg)
    BY <1>1, <1>0, <2>4 DEF Named, HasBits, IsReg, Octal
  <2>9. /\ Reads(c, i, p.rex, s.reg, 0, m) =>
              (D!Decoded(c) = Means(mn, m, s) <=>
                 m.size = 8 /\ Named(8, p.rex.r, p.isRex, s.reg) = D!Reg(s.type, s.reg))
        /\ Misreads(c, i, p.rex, 0, m) => D!Decoded(c) # Means(mn, m, s)
    <3>1. 8 \in Sizes
      BY DEF Sizes
    <3>2. IsRx(p.rex) /\ Len(c) \in Nat
      BY <2>3, <2>4 DEF HasBits
    <3> QED
      BY <1>0, <2>6, <3>1, <3>2, ToMeans
  <2>10. IsAt(m, p.rex.b) <=> ~m.scaled
    BY <1>1, <1>0, <2>4 DEF IsAt, IsPlain, IsMem, HasBits
  <2>11. D!Decoded(c) = Means(mn, m, s) <=> ~(m.scaled \/ m.reg = 4 \/ m.size # 8)
    BY <1>1, <2>7, <2>8, <2>9, <2>10
  <2> QED
    BY <2>1, <2>2, <2>11 DEF Right
<1>2. AluPtr(m, s, op) # Refuse =>
         \/ IsMem(m, "RAXtoRDI") /\ Byte(m.num) /\ IsReg(s, "ALtoBH")
  BY <1>0 DEF AluPtr, IsPlain, IsScaled, IsMem, IsReg, IsImm, Sized, IsRegister, IsMemory, IsNumber
<1> QED
  BY <1>1, <1>2 DEF Right

LEMMA AluPtrImmIs ==
  ASSUME NEW mn, NEW op, NEW m, NEW s,
         OfLine(mn, m, s), mn \in DOMAIN AluOp, op = AluOp[mn], IsMemory(m), IsNumber(s)
  PROVE  Right(AluPtr(m, s, op), mn, m, s)
<1>0. /\ m.reg \in Octal /\ m.index \in Octal /\ m.lv \in 0 .. 3 /\ m.num \in Int32 /\ m.num \in Int
      /\ (m.num = 0 => Byte(m.num)) /\ m.kind = "mem" /\ s.num \in Int32 /\ s.num \in Int /\ s.kind = "imm"
      /\ Octal \subseteq Int /\ op \in Octal /\ op \in Int /\ Stands(mn, op) /\ Straight(mn)
      /\ mn \notin {"mov", "movzx", "movsx", "lea", "test"}
  BY MemoryShape, NumberShape, LongIsInt, AluIs, AluStands DEF Octal, IsMemory, Byte, IsNumber
<1>1. CASE IsMem(m, "RAXtoRDI") /\ Byte(m.num) /\ m.size = 8 /\ ByteHalf(s.num)
  <2> DEFINE c == <<128>> \o AtByte(Ext(op), m) \o <<Low(s.num)>>
             p == P0
             i == 2
  <2>1. AluPtr(m, s, op) = c
    BY <1>1, <1>0 DEF AluPtr, IsPlain, IsScaled, IsMem, IsReg, IsImm, Sized, IsRegister, IsMemory, IsNumber
  <2>2. Misencoded <=> m.scaled \/ m.reg = 4
    BY <1>1, <1>0 DEF Misencoded, HighByteWithRex, NoSib, NoDisp, IndexLost, OffsetLost, BaseLost, SizeLost,
                      HasMem, Ptr, Counterpart, WithSib44, IsAlu, Is, IsReg, IsImm, IsPlain, IsScaled, IsMem,
                      IsRegister, IsMemory, IsNumber, OfLine
  <2>3. /\ i = 1 + 1 /\ i \in Nat /\ Len(c) = i + 1 + 1 /\ Len(c) = 4 /\ c[1] = 128
        /\ Written3(c, i, 1, op, m.reg) /\ c[i + 1] = Low(m.num) /\ c[4] = Low(s.num)
    BY <1>0 DEF AtByte, Ext, ModRM, Written3
  <2>4. HasBits(p, 0, 0, 32) /\ ~p.isRex
    BY PrefixesAre
  <2> HIDE DEF c, i
  <2>5. Starts(c, 1, p)
    <3>1. Len(c) \in Nat /\ 1 <= Len(c) /\ IsOp(c[1])
      BY <2>3 DEF IsOp
    <3> QED
      BY <3>1, NoPrefix, Zenon DEF p
  <2> HIDE DEF p
  <2>6. D!Decoded(c) = D!MI(c, i, p, mn, 8, 1, 8)
    <3>1. D!Extension(c, 1) = op
      <4>1. 1 \in Nat /\ Len(c) \in Nat /\ Len(c) > 1 /\ 1 \in 0 .. 3 /\ Written3(c, 1 + 1, 1, op, m.reg)
        BY <2>3
      <4> QED
        BY <1>0, <4>1, ExtensionIs
    <3> QED
      BY <1>0, <2>3, <2>4, <2>5, <3>1, OpAluExt DEF Starts, HasBits
  <2>7. /\ m.reg # 4 /\ IsAt(m, p.rex.b) /\ Byte(m.num) => Reaches(c, i, p, 1, m)
        /\ m.reg = 4 \/ ~IsAt(m, p.rex.b) \/ ~Byte(m.num) => Strays(c, i, p, 1, m)
    <3>1. /\ i \in Nat /\ Written3(c, i, 1, op, m.reg) /\ c[i + 1] = Low(m.num) /\ Len(c) = i + 1 + 1
          /\ IsRx(p.rex)
      BY <2>3, <2>4 DEF HasBits
    <3>2. /\ m.reg # 4 /\ IsAt(m, p.rex.b) /\ Byte(m.num) => Reads(c, i, p.rex, op, 1, m)
          /\ m.reg = 4 \/ ~IsAt(m, p.rex.b) \/ ~Byte(m.num) => Misreads(c, i, p.rex, 1, m)
      BY <1>0, <3>1, AtByteReads
    <3> QED
      BY <3>2 DEF Reaches, Strays
  <2>8. HasSize(m, 8) /\ HasNumber(c, 1, 8, s, 8)
    <3>1. LastBytes(c, 1) = SByte(s.num)
      BY <1>0, <2>3, SignedByte DEF LastBytes
    <3> QED
      BY <1>1, <1>0, <3>1, ByteImm, ShortImm DEF Sized, HasSize, HasNumber
  <2>9. /\ Reaches(c, i, p, 1, m) =>
              (D!Decoded(c) = Means(mn, m, s) <=>
                 HasSize(m, 8) /\ HasNumber(c, 1, 8, s, 8))
        /\ Strays(c, i, p, 1, m) => D!Decoded(c) # Means(mn, m, s)
    <3>1. 8 \in Sizes /\ 1 \in Octal
      BY DEF Sizes, Octal
    <3>2. IsRx(p.rex) /\ Len(c) \in Nat
      BY <2>3, <2>4 DEF HasBits
    <3> QED
      BY <1>0, <2>6, <3>1, <3>2, NumberReaches, NumberStrays
  <2>10. IsAt(m, p.rex.b) <=> ~m.scaled
    BY <1>1, <1>0, <2>4 DEF IsAt, IsPlain, IsMem, HasBits
  <2>11. D!Decoded(c) = Means(mn, m, s) <=> ~(m.scaled \/ m.reg = 4)
    BY <1>1, <2>7, <2>8, <2>9, <2>10
  <2> QED
    BY <2>1, <2>2, <2>11 DEF Right
<1>2. CASE IsMem(m, "RAXtoRDI") /\ Byte(m.num) /\ m.size = 16 /\ ByteHalf(s.num)
  <2> DEFINE c == <<102, 131>> \o AtByte(Ext(op), m) \o <<Low(s.num)>>
             p == P66
             i == 3
  <2>1. AluPtr(m, s, op) = c
    BY <1>2, <1>0 DEF AluPtr, IsPlain, IsScaled, IsMem, IsReg, IsImm, Sized, IsRegister, IsMemory, IsNumber
  <2>2. Misencoded <=> m.scaled \/ m.reg = 4 \/ ~Byte(s.num)
    BY <1>2, <1>0 DEF Misencoded, HighByteWithRex, NoSib, NoDisp, IndexLost, OffsetLost, BaseLost, SizeLost,
                      HasMem, Ptr, Counterpart, WithSib44, IsAlu, Is, IsReg, IsImm, IsPlain, IsScaled, IsMem,
                      IsRegister, IsMemory, IsNumber, OfLine
  <2>3. /\ i = 2 + 1 /\ i \in Nat /\ Len(c) = i + 1 + 1 /\ Len(c) = 5 /\ c[1] = 102 /\ c[2] = 131
        /\ Written3(c, i, 1, op, m.reg) /\ c[i + 1] = Low(m.num) /\ c[5] = Low(s.num)
    BY <1>0 DEF AtByte, Ext, ModRM, Written3
  <2>4. HasBits(p, 0, 0, 16) /\ ~p.isRex
    BY PrefixesAre
  <2> HIDE DEF c, i
  <2>5. Starts(c, 2, p)
    <3>1. Len(c) \in Nat /\ 2 <= Len(c) /\ c[1] = 102 /\ IsOp(c[2])
      BY <2>3 DEF IsOp
    <3> QED
      BY <3>1, Prefix66, Zenon DEF p
  <2> HIDE DEF p
  <2>6. D!Decoded(c) = D!MI(c, i, p, mn, 16, 1, 16)
    <3>1. D!Extension(c, 2) = op
      <4>1. 2 \in Nat /\ Len(c) \in Nat /\ Len(c) > 2 /\ 1 \in 0 .. 3 /\ Written3(c, 2 + 1, 1, op, m.reg)
        BY <2>3
      <4> QED
        BY <1>0, <4>1, ExtensionIs
    <3> QED
      BY <1>0, <2>3, <2>4, <2>5, <3>1, OpAluExt DEF Starts, HasBits
  <2>7. /\ m.reg # 4 /\ IsAt(m, p.rex.b) /\ Byte(m.num) => Reaches(c, i, p, 1, m)
        /\ m.reg = 4 \/ ~IsAt(m, p.rex.b) \/ ~Byte(m.num) => Strays(c, i, p, 1, m)
    <3>1. /\ i \in Nat /\ Written3(c, i, 1, op, m.reg) /\ c[i + 1] = Low(m.num) /\ Len(c) = i + 1 + 1
          /\ IsRx(p.rex)
      BY <2>3, <2>4 DEF HasBits
    <3>2. /\ m.reg # 4 /\ IsAt(m, p.rex.b) /\ Byte(m.num) => Reads(c, i, p.rex, op, 1, m)
          /\ m.reg = 4 \/ ~IsAt(m, p.rex.b) \/ ~Byte(m.num) => Misreads(c, i, p.rex, 1, m)
      BY <1>0, <3>1, AtByteReads
    <3> QED
      BY <3>2 DEF Reaches, Strays
  <2>8. HasSize(m, 16) /\ (HasNumber(c, 1, 16, s, 16) <=> Byte(s.num))
    <3>1. LastBytes(c, 1) = SByte(s.num)
      BY <1>0, <2>3, SignedByte DEF LastBytes
    <3> QED
      BY <1>2, <1>0, <3>1, ByteImm, ShortImm DEF Sized, HasSize, HasNumber
  <2>9. /\ Reaches(c, i, p, 1, m) =>
              (D!Decoded(c) = Means(mn, m, s) <=>
                 HasSize(m, 16) /\ HasNumber(c, 1, 16, s, 16))
        /\ Strays(c, i, p, 1, m) => D!Decoded(c) # Means(mn, m, s)
    <3>1. 16 \in Sizes /\ 1 \in Octal
      BY DEF Sizes, Octal
    <3>2. IsRx(p.rex) /\ Len(c) \in Nat
      BY <2>3, <2>4 DEF HasBits
    <3> QED
      BY <1>0, <2>6, <3>1, <3>2, NumberReaches, NumberStrays
  <2>10. IsAt(m, p.rex.b) <=> ~m.scaled
    BY <1>2, <1>0, <2>4 DEF IsAt, IsPlain, IsMem, HasBits
  <2>11. D!Decoded(c) = Means(mn, m, s) <=> ~(m.scaled \/ m.reg = 4 \/ ~Byte(s.num))
    BY <1>2, <2>7, <2>8, <2>9, <2>10
  <2> QED
    BY <2>1, <2>2, <2>11 DEF Right
<1>3. AluPtr(m, s, op) # Refuse =>
         \/ IsMem(m, "RAXtoRDI") /\ Byte(m.num) /\ m.size = 8 /\ ByteHalf(s.num)
         \/ IsMem(m, "RAXtoRDI") /\ Byte(m.num) /\ m.size = 16 /\ ByteHalf(s.num)
  BY <1>0 DEF AluPtr, IsPlain, IsScaled, IsMem, IsReg, IsImm, Sized, IsRegister, IsMemory, IsNumber
<1> QED
  BY <1>1, <1>2, <1>3 DEF Right

LEMMA TestPtrIs ==
  ASSUME NEW d, NEW s,
         OfLine("test", d, s), IsMemory(d), IsNumber(s)
  PROVE  Right(Test(d, s), "test", d, s)
<1>0. /\ d.reg \in Octal /\ d.index \in Octal /\ d.lv \in 0 .. 3 /\ d.num \in Int32 /\ d.num \in Int
      /\ (d.num = 0 => Byte(d.num)) /\ d.kind = "mem" /\ s.num \in Int32 /\ s.num \in Int /\ s.kind = "imm"
      /\ Octal \subseteq Int /\ Straight("test") /\ "test" \notin DOMAIN AluOp /\ 0 \in Octal /\ 4 \in Octal
  BY MemoryShape, NumberShape, LongIsInt DEF Octal, IsMemory, Byte, IsNumber, ShiftOp, AluOp, Straight
<1>1. CASE d.size = 64 /\ d.num = 0 /\ IsScaled(d, "R8toR15")
  <2> DEFINE c == <<73, 247, 4, SIB(d)>> \o Bytes(s.num, 4)
             p == PRex(1, 0, 1)
             i == 3
  <2>1. Test(d, s) = c
    BY <1>1, <1>0 DEF Test, IsPlain, IsScaled, IsMem, IsReg, IsImm, Sized, IsRegister, IsMemory, IsNumber
  <2>2. Misencoded <=> d.reg = 5 \/ d.index = 4
    BY <1>1, <1>0 DEF Misencoded, HighByteWithRex, NoSib, NoDisp, IndexLost, OffsetLost, BaseLost, SizeLost,
                      HasMem, Ptr, Counterpart, WithSib44, IsAlu, Is, IsReg, IsImm, IsPlain, IsScaled, IsMem,
                      IsRegister, IsMemory, IsNumber, OfLine
  <2>3. /\ i = 2 + 1 /\ i \in Nat /\ Len(c) = i + 1 + 4 /\ Len(c) = 8 /\ c[1] = 73 /\ c[2] = 247
        /\ Written3(c, i, 0, 0, 4) /\ Written3(c, i + 1, d.lv, d.index, d.reg) /\ Quad(c, 5, s.num)
    BY <1>0 DEF Bytes, Ext, ModRM, Quad, SIB, Written3
  <2>4. HasBits(p, 0, 1, 64) /\ p.isRex
    BY PrefixesAre
  <2> HIDE DEF c, i
  <2>5. Starts(c, 2, p)
    <3>1. Len(c) \in Nat /\ 2 <= Len(c) /\ c[1] = 73
      BY <2>3
    <3> QED
      BY <3>1, RexPrefixes, Zenon DEF p
  <2> HIDE DEF p
  <2>6. D!Decoded(c) = D!MI(c, i, p, "test", 64, 4, 64)
    <3>1. D!Extension(c, 2) = 0
      <4>1. 2 \in Nat /\ Len(c) \in Nat /\ Len(c) > 2 /\ 0 \in 0 .. 3 /\ Written3(c, 2 + 1, 0, 0, 4)
        BY <2>3
      <4> QED
        BY <1>0, <4>1, ExtensionIs
    <3> QED
      BY <1>0, <2>3, <2>4, <2>5, <3>1, OpExt0 DEF Starts, HasBits, D!Full
  <2>7. /\ d.reg # 5 /\ d.index # 4 /\ d.num = 0 => Reaches(c, i, p, 4, d)
        /\ d.reg = 5 \/ d.index = 4 \/ d.num # 0 => Strays(c, i, p, 4, d)
    <3>1. /\ i \in Nat /\ Written3(c, i, 0, 0, 4) /\ Written3(c, i + 1, d.lv, d.index, d.reg)
          /\ Len(c) = i + 1 + 4 /\ IsRx(p.rex) /\ p.rex.b = 1 /\ IsSib(d)
      BY <2>3, <2>4, <1>1 DEF HasBits, IsSib, IsScaled, IsMem
    <3>2. /\ d.reg # 5 /\ d.index # 4 /\ d.num = 0 => Reads(c, i, p.rex, 0, 4, d)
          /\ d.reg = 5 \/ d.index = 4 \/ d.num # 0 => Misreads(c, i, p.rex, 4, d)
      BY <1>0, <3>1, SibReads
    <3> QED
      BY <3>2 DEF Reaches, Strays
  <2>8. HasSize(d, 64) /\ HasNumber(c, 4, 64, s, 64)
    <3>1. LastBytes(c, 4) = s.num
      BY <1>0, <2>3, QuadIs DEF LastBytes
    <3> QED
      BY <1>1, <1>0, <3>1, ByteImm, ShortImm DEF Sized, HasSize, HasNumber
  <2>9. /\ Reaches(c, i, p, 4, d) =>
              (D!Decoded(c) = Means("test", d, s) <=>
                 HasSize(d, 64) /\ HasNumber(c, 4, 64, s, 64))
        /\ Strays(c, i, p, 4, d) => D!Decoded(c) # Means("test", d, s)
    <3>1. 64 \in Sizes /\ 4 \in Octal
      BY DEF Sizes, Octal
    <3>2. IsRx(p.rex) /\ Len(c) \in Nat
      BY <2>3, <2>4 DEF HasBits
    <3> QED
      BY <1>0, <2>6, <3>1, <3>2, NumberReaches, NumberStrays
  <2>11. D!Decoded(c) = Means("test", d, s) <=> ~(d.reg = 5 \/ d.index = 4)
    BY <1>1, <2>7, <2>8, <2>9
  <2> QED
    BY <2>1, <2>2, <2>11 DEF Right
<1>2. CASE d.size = 8 /\ IsPlain(d, "RAXtoRDI") /\ Byte(d.num)
  <2> DEFINE c == <<246>> \o AtByte(Ext(0), d) \o <<Low(s.num)>>
             p == P0
             i == 2
  <2>1. Test(d, s) = c
    BY <1>2, <1>0 DEF Test, IsPlain, IsScaled, IsMem, IsReg, IsImm, Sized, IsRegister, IsMemory, IsNumber
  <2>2. Misencoded <=> d.reg = 4
    BY <1>2, <1>0 DEF Misencoded, HighByteWithRex, NoSib, NoDisp, IndexLost, OffsetLost, BaseLost, SizeLost,
                      HasMem, Ptr, Counterpart, WithSib44, IsAlu, Is, IsReg, IsImm, IsPlain, IsScaled, IsMem,
                      IsRegister, IsMemory, IsNumber, OfLine
  <2>3. /\ i = 1 + 1 /\ i \in Nat /\ Len(c) = i + 1 + 1 /\ Len(c) = 4 /\ c[1] = 246
        /\ Written3(c, i, 1, 0, d.reg) /\ c[i + 1] = Low(d.num) /\ c[4] = Low(s.num)
    BY <1>0 DEF AtByte, Ext, ModRM, Written3
  <2>4. HasBits(p, 0, 0, 32) /\ ~p.isRex
    BY PrefixesAre
  <2> HIDE DEF c, i
  <2>5. Starts(c, 1, p)
    <3>1. Len(c) \in Nat /\ 1 <= Len(c) /\ IsOp(c[1])
      BY <2>3 DEF IsOp
    <3> QED
      BY <3>1, NoPrefix, Zenon DEF p
  <2> HIDE DEF p
  <2>6. D!Decoded(c) = D!MI(c, i, p, "test", 8, 1, 8)
    <3>1. D!Extension(c, 1) = 0
      <4>1. 1 \in Nat /\ Len(c) \in Nat /\ Len(c) > 1 /\ 1 \in 0 .. 3 /\ Written3(c, 1 + 1, 1, 0, d.reg)
        BY <2>3
      <4> QED
        BY <1>0, <4>1, ExtensionIs
    <3> QED
      BY <1>0, <2>3, <2>4, <2>5, <3>1, OpExt0 DEF Starts, HasBits, D!Full
  <2>7. /\ d.reg # 4 /\ IsAt(d, p.rex.b) /\ Byte(d.num) => Reaches(c, i, p, 1, d)
        /\ d.reg = 4 \/ ~IsAt(d, p.rex.b) \/ ~Byte(d.num) => Strays(c, i, p, 1, d)
    <3>1. /\ i \in Nat /\ Written3(c, i, 1, 0, d.reg) /\ c[i + 1] = Low(d.num) /\ Len(c) = i + 1 + 1
          /\ IsRx(p.rex)
      BY <2>3, <2>4 DEF HasBits
    <3>2. /\ d.reg # 4 /\ IsAt(d, p.rex.b) /\ Byte(d.num) => Reads(c, i, p.rex, 0, 1, d)
          /\ d.reg = 4 \/ ~IsAt(d, p.rex.b) \/ ~Byte(d.num) => Misreads(c, i, p.rex, 1, d)
      BY <1>0, <3>1, AtByteReads
    <3> QED
      BY <3>2 DEF Reaches, Strays
  <2>8. HasSize(d, 8) /\ HasNumber(c, 1, 8, s, 8)
    <3>1. LastBytes(c, 1) = SByte(s.num)
      BY <1>0, <2>3, SignedByte DEF LastBytes
    <3> QED
      BY <1>2, <1>0, <3>1, ByteImm, ShortImm DEF Sized, HasSize, HasNumber
  <2>9. /\ Reaches(c, i, p, 1, d) =>
              (D!Decoded(c) = Means("test", d, s) <=>
                 HasSize(d, 8) /\ HasNumber(c, 1, 8, s, 8))
        /\ Strays(c, i, p, 1, d) => D!Decoded(c) # Means("test", d, s)
    <3>1. 8 \in Sizes /\ 1 \in Octal
      BY DEF Sizes, Octal
    <3>2. IsRx(p.rex) /\ Len(c) \in Nat
      BY <2>3, <2>4 DEF HasBits
    <3> QED
      BY <1>0, <2>6, <3>1, <3>2, NumberReaches, NumberStrays
  <2>10. IsAt(d, p.rex.b)
    BY <1>2, <1>0, <2>4 DEF IsAt, IsPlain, IsMem, HasBits
  <2>11. D!Decoded(c) = Means("test", d, s) <=> ~(d.reg = 4)
    BY <1>2, <2>7, <2>8, <2>9, <2>10
  <2> QED
    BY <2>1, <2>2, <2>11 DEF Right
<1>3. CASE d.size = 8 /\ IsPlain(d, "RAXtoRDI") /\ ~Byte(d.num)
  <2> DEFINE c == <<246>> \o AtLong(Ext(0), d) \o <<Low(s.num)>>
             p == P0
             i == 2
  <2>1. Test(d, s) = c
    BY <1>3, <1>0 DEF Test, IsPlain, IsScaled, IsMem, IsReg, IsImm, Sized, IsRegister, IsMemory, IsNumber
  <2>2. Misencoded <=> d.reg = 4
    BY <1>3, <1>0 DEF Misencoded, HighByteWithRex, NoSib, NoDisp, IndexLost, OffsetLost, BaseLost, SizeLost,
                      HasMem, Ptr, Counterpart, WithSib44, IsAlu, Is, IsReg, IsImm, IsPlain, IsScaled, IsMem,
                      IsRegister, IsMemory, IsNumber, OfLine
  <2>3. /\ i = 1 + 1 /\ i \in Nat /\ Len(c) = i + 4 + 1 /\ Len(c) = 7 /\ c[1] = 246
        /\ Written3(c, i, 2, 0, d.reg) /\ Quad(c, i + 1, d.num) /\ c[7] = Low(s.num)
    BY <1>0 DEF AtLong, Bytes, Ext, ModRM, Quad, Written3
  <2>4. HasBits(p, 0, 0, 32) /\ ~p.isRex
    BY PrefixesAre
  <2> HIDE DEF c, i
  <2>5. Starts(c, 1, p)
    <3>1. Len(c) \in Nat /\ 1 <= Len(c) /\ IsOp(c[1])
      BY <2>3 DEF IsOp
    <3> QED
      BY <3>1, NoPrefix, Zenon DEF p
  <2> HIDE DEF p
  <2>6. D!Decoded(c) = D!MI(c, i, p, "test", 8, 1, 8)
    <3>1. D!Extension(c, 1) = 0
      <4>1. 1 \in Nat /\ Len(c) \in Nat /\ Len(c) > 1 /\ 2 \in 0 .. 3 /\ Written3(c, 1 + 1, 2, 0, d.reg)
        BY <2>3
      <4> QED
        BY <1>0, <4>1, ExtensionIs
    <3> QED
      BY <1>0, <2>3, <2>4, <2>5, <3>1, OpExt0 DEF Starts, HasBits, D!Full
  <2>7. /\ d.reg # 4 /\ IsAt(d, p.rex.b) => Reaches(c, i, p, 1, d)
        /\ d.reg = 4 \/ ~IsAt(d, p.rex.b) => Strays(c, i, p, 1, d)
    <3>1. /\ i \in Nat /\ Written3(c, i, 2, 0, d.reg) /\ Quad(c, i + 1, d.num) /\ Len(c) = i + 4 + 1
          /\ IsRx(p.rex)
      BY <2>3, <2>4 DEF HasBits
    <3>2. /\ d.reg # 4 /\ IsAt(d, p.rex.b) => Reads(c, i, p.rex, 0, 1, d)
          /\ d.reg = 4 \/ ~IsAt(d, p.rex.b) => Misreads(c, i, p.rex, 1, d)
      BY <1>0, <3>1, AtLongReads
    <3> QED
      BY <3>2 DEF Reaches, Strays
  <2>8. HasSize(d, 8) /\ HasNumber(c, 1, 8, s, 8)
    <3>1. LastBytes(c, 1) = SByte(s.num)
      BY <1>0, <2>3, SignedByte DEF LastBytes
    <3> QED
      BY <1>3, <1>0, <3>1, ByteImm, ShortImm DEF Sized, HasSize, HasNumber
  <2>9. /\ Reaches(c, i, p, 1, d) =>
              (D!Decoded(c) = Means("test", d, s) <=>
                 HasSize(d, 8) /\ HasNumber(c, 1, 8, s, 8))
        /\ Strays(c, i, p, 1, d) => D!Decoded(c) # Means("test", d, s)
    <3>1. 8 \in Sizes /\ 1 \in Octal
      BY DEF Sizes, Octal
    <3>2. IsRx(p.rex) /\ Len(c) \in Nat
      BY <2>3, <2>4 DEF HasBits
    <3> QED
      BY <1>0, <2>6, <3>1, <3>2, NumberReaches, NumberStrays
  <2>10. IsAt(d, p.rex.b)
    BY <1>3, <1>0, <2>4 DEF IsAt, IsPlain, IsMem, HasBits
  <2>11. D!Decoded(c) = Means("test", d, s) <=> ~(d.reg = 4)
    BY <1>3, <2>7, <2>8, <2>9, <2>10
  <2> QED
    BY <2>1, <2>2, <2>11 DEF Right
<1>4. Test(d, s) # Refuse =>
         \/ d.size = 64 /\ d.num = 0 /\ IsScaled(d, "R8toR15")
         \/ d.size = 8 /\ IsPlain(d, "RAXtoRDI") /\ Byte(d.num)
         \/ d.size = 8 /\ IsPlain(d, "RAXtoRDI") /\ ~Byte(d.num)
  BY <1>0 DEF Test, IsPlain, IsScaled, IsMem, IsReg, IsImm, Sized, IsRegister, IsMemory, IsNumber
<1> QED
  BY <1>1, <1>2, <1>3, <1>4 DEF Right

\* Registers.
LEMMA MovRegsIs ==
  ASSUME NEW d, NEW s,
         OfLine("mov", d, s), IsRegister(d), IsRegister(s)
  PROVE  Right(MovRegs(d, s), "mov", d, s)
<1>0. /\ d.reg \in Octal /\ d.kind = "reg" /\ s.reg \in Octal /\ s.kind = "reg" /\ Octal \subseteq Int
      /\ Straight("mov") /\ "mov" \notin DOMAIN AluOp
  BY RegisterShape DEF Octal, IsRegister, ShiftOp, AluOp, Straight
<1>1. CASE s.type = "EAXtoEDI" /\ d.type = "EAXtoEDI"
  <2> DEFINE c == <<137, Both(s, d)>>
             p == P0
             i == 2
  <2>1. MovRegs(d, s) = c
    BY <1>1, <1>0 DEF MovRegs, IsReg, IsRegister
  <2>2. ~Misencoded
    BY <1>1, <1>0 DEF Misencoded, HighByteWithRex, NoSib, NoDisp, IndexLost, OffsetLost, BaseLost, SizeLost,
                      HasMem, Ptr, Counterpart, WithSib44, IsAlu, Is, IsReg, IsImm, IsPlain, IsScaled, IsMem,
                      IsRegister, IsMemory, IsNumber, OfLine, None
  <2>3. /\ i = 1 + 1 /\ i \in Nat /\ Len(c) = 2 /\ Len(c) \in Nat /\ Len(c) = i /\ c[1] = 137
        /\ Written3(c, i, 3, s.reg, d.reg)
    BY <1>0 DEF Both, Ext, ModRM, Written3
  <2>4. HasBits(p, 0, 0, 32) /\ HasRx(p) /\ ~p.isRex
    BY PrefixesAre DEF HasBits, HasRx
  <2> HIDE DEF c, i
  <2>5. Starts(c, 1, p)
    <3>1. Len(c) \in Nat /\ 1 <= Len(c) /\ IsOp(c[1])
      BY <2>3 DEF IsOp
    <3> QED
      BY <3>1, NoPrefix, Zenon DEF p
  <2> HIDE DEF p
  <2>6. D!Decoded(c) = D!MR(c, i, p, "mov", 32)
    BY <1>0, <2>3, <2>4, <2>5, OpMR DEF Starts, HasBits
  <2>7. NamesBoth(c, i, p, s, d)
    <3>1. i \in Nat /\ Written3(c, i, 3, s.reg, d.reg) /\ Len(c) = i
      BY <2>3
    <3> QED
      BY <3>1, NamesTwo
  <2>8. RmIs(p, 32, d) /\ RegIs(p, 32, s)
    BY <1>1, <1>0, <2>4, RegsEqual DEF RmIs, RegIs, Named, HasBits, IsReg, Octal
  <2>9. 32 \in Sizes
    BY DEF Sizes
  <2>10. D!Decoded(c) = Means("mov", d, s)
    BY <1>0, <2>3, <2>4, <2>6, <2>7, <2>8, <2>9, MRRegs
  <2> QED
    BY <2>1, <2>2, <2>10 DEF Right
<1>2. CASE s.type = "ALtoBH" /\ d.type = "ALtoBH"
  <2> DEFINE c == <<136, Both(s, d)>>
             p == P0
             i == 2
  <2>1. MovRegs(d, s) = c
    BY <1>2, <1>0 DEF MovRegs, IsReg, IsRegister
  <2>2. ~Misencoded
    BY <1>2, <1>0 DEF Misencoded, HighByteWithRex, NoSib, NoDisp, IndexLost, OffsetLost, BaseLost, SizeLost,
                      HasMem, Ptr, Counterpart, WithSib44, IsAlu, Is, IsReg, IsImm, IsPlain, IsScaled, IsMem,
                      IsRegister, IsMemory, IsNumber, OfLine, None
  <2>3. /\ i = 1 + 1 /\ i \in Nat /\ Len(c) = 2 /\ Len(c) \in Nat /\ Len(c) = i /\ c[1] = 136
        /\ Written3(c, i, 3, s.reg, d.reg)
    BY <1>0 DEF Both, Ext, ModRM, Written3
  <2>4. HasBits(p, 0, 0, 32) /\ HasRx(p) /\ ~p.isRex
    BY PrefixesAre DEF HasBits, HasRx
  <2> HIDE DEF c, i
  <2>5. Starts(c, 1, p)
    <3>1. Len(c) \in Nat /\ 1 <= Len(c) /\ IsOp(c[1])
      BY <2>3 DEF IsOp
    <3> QED
      BY <3>1, NoPrefix, Zenon DEF p
  <2> HIDE DEF p
  <2>6. D!Decoded(c) = D!MR(c, i, p, "mov", 8)
    BY <1>0, <2>3, <2>4, <2>5, OpMR DEF Starts, HasBits
  <2>7. NamesBoth(c, i, p, s, d)
    <3>1. i \in Nat /\ Written3(c, i, 3, s.reg, d.reg) /\ Len(c) = i
      BY <2>3
    <3> QED
      BY <3>1, NamesTwo
  <2>8. RmIs(p, 8, d) /\ RegIs(p, 8, s)
    BY <1>2, <1>0, <2>4, RegsEqual DEF RmIs, RegIs, Named, HasBits, IsReg, Octal
  <2>9. 8 \in Sizes
    BY DEF Sizes
  <2>10. D!Decoded(c) = Means("mov", d, s)
    BY <1>0, <2>3, <2>4, <2>6, <2>7, <2>8, <2>9, MRRegs
  <2> QED
    BY <2>1, <2>2, <2>10 DEF Right
<1>3. CASE s.type = "ALtoBH" /\ d.type = "R8BtoR15B"
  <2> DEFINE c == <<65, 136, Both(s, d)>>
             p == PRex(0, 0, 1)
             i == 3
  <2>1. MovRegs(d, s) = c
    BY <1>3, <1>0 DEF MovRegs, IsReg, IsRegister
  <2>2. Misencoded <=> s.reg > 3
    BY <1>3, <1>0 DEF Misencoded, HighByteWithRex, NoSib, NoDisp, IndexLost, OffsetLost, BaseLost, SizeLost,
                      HasMem, Ptr, Counterpart, WithSib44, IsAlu, Is, IsReg, IsImm, IsPlain, IsScaled, IsMem,
                      IsRegister, IsMemory, IsNumber, OfLine, None
  <2>3. /\ i = 2 + 1 /\ i \in Nat /\ Len(c) = 3 /\ Len(c) \in Nat /\ Len(c) = i /\ c[1] = 65 /\ c[2] = 136
        /\ Written3(c, i, 3, s.reg, d.reg)
    BY <1>0 DEF Both, Ext, ModRM, Written3
  <2>4. HasBits(p, 0, 1, 32) /\ HasRx(p) /\ p.isRex
    BY PrefixesAre DEF HasBits, HasRx
  <2> HIDE DEF c, i
  <2>5. Starts(c, 2, p)
    <3>1. Len(c) \in Nat /\ 2 <= Len(c) /\ c[1] = 65
      BY <2>3
    <3> QED
      BY <3>1, RexPrefixes, Zenon DEF p
  <2> HIDE DEF p
  <2>6. D!Decoded(c) = D!MR(c, i, p, "mov", 8)
    BY <1>0, <2>3, <2>4, <2>5, OpMR DEF Starts, HasBits
  <2>7. NamesBoth(c, i, p, s, d)
    <3>1. i \in Nat /\ Written3(c, i, 3, s.reg, d.reg) /\ Len(c) = i
      BY <2>3
    <3> QED
      BY <3>1, NamesTwo
  <2>8. RmIs(p, 8, d) /\ (RegIs(p, 8, s) <=> ~(s.reg > 3))
    BY <1>3, <1>0, <2>4, RegsEqual DEF RmIs, RegIs, Named, HasBits, IsReg, Octal
  <2>9. 8 \in Sizes
    BY DEF Sizes
  <2>10. D!Decoded(c) = Means("mov", d, s) <=> ~(s.reg > 3)
    BY <1>0, <2>3, <2>4, <2>6, <2>7, <2>8, <2>9, MRRegs
  <2> QED
    BY <2>1, <2>2, <2>10 DEF Right
<1>4. CASE s.type = "AXtoDI" /\ d.type = "AXtoDI"
  <2> DEFINE c == <<102, 137, Both(s, d)>>
             p == P66
             i == 3
  <2>1. MovRegs(d, s) = c
    BY <1>4, <1>0 DEF MovRegs, IsReg, IsRegister
  <2>2. ~Misencoded
    BY <1>4, <1>0 DEF Misencoded, HighByteWithRex, NoSib, NoDisp, IndexLost, OffsetLost, BaseLost, SizeLost,
                      HasMem, Ptr, Counterpart, WithSib44, IsAlu, Is, IsReg, IsImm, IsPlain, IsScaled, IsMem,
                      IsRegister, IsMemory, IsNumber, OfLine, None
  <2>3. /\ i = 2 + 1 /\ i \in Nat /\ Len(c) = 3 /\ Len(c) \in Nat /\ Len(c) = i /\ c[1] = 102 /\ c[2] = 137
        /\ Written3(c, i, 3, s.reg, d.reg)
    BY <1>0 DEF Both, Ext, ModRM, Written3
  <2>4. HasBits(p, 0, 0, 16) /\ HasRx(p) /\ ~p.isRex
    BY PrefixesAre DEF HasBits, HasRx
  <2> HIDE DEF c, i
  <2>5. Starts(c, 2, p)
    <3>1. Len(c) \in Nat /\ 2 <= Len(c) /\ c[1] = 102 /\ IsOp(c[2])
      BY <2>3 DEF IsOp
    <3> QED
      BY <3>1, Prefix66, Zenon DEF p
  <2> HIDE DEF p
  <2>6. D!Decoded(c) = D!MR(c, i, p, "mov", 16)
    BY <1>0, <2>3, <2>4, <2>5, OpMR DEF Starts, HasBits
  <2>7. NamesBoth(c, i, p, s, d)
    <3>1. i \in Nat /\ Written3(c, i, 3, s.reg, d.reg) /\ Len(c) = i
      BY <2>3
    <3> QED
      BY <3>1, NamesTwo
  <2>8. RmIs(p, 16, d) /\ RegIs(p, 16, s)
    BY <1>4, <1>0, <2>4, RegsEqual DEF RmIs, RegIs, Named, HasBits, IsReg, Octal
  <2>9. 16 \in Sizes
    BY DEF Sizes
  <2>10. D!Decoded(c) = Means("mov", d, s)
    BY <1>0, <2>3, <2>4, <2>6, <2>7, <2>8, <2>9, MRRegs
  <2> QED
    BY <2>1, <2>2, <2>10 DEF Right
<1>5. CASE s.type = "RAXtoRDI" /\ d.type = "RAXtoRDI"
  <2> DEFINE c == <<72, 137, Both(s, d)>>
             p == PRex(1, 0, 0)
             i == 3
  <2>1. MovRegs(d, s) = c
    BY <1>5, <1>0 DEF MovRegs, IsReg, IsRegister
  <2>2. ~Misencoded
    BY <1>5, <1>0 DEF Misencoded, HighByteWithRex, NoSib, NoDisp, IndexLost, OffsetLost, BaseLost, SizeLost,
                      HasMem, Ptr, Counterpart, WithSib44, IsAlu, Is, IsReg, IsImm, IsPlain, IsScaled, IsMem,
                      IsRegister, IsMemory, IsNumber, OfLine, None
  <2>3. /\ i = 2 + 1 /\ i \in Nat /\ Len(c) = 3 /\ Len(c) \in Nat /\ Len(c) = i /\ c[1] = 72 /\ c[2] = 137
        /\ Written3(c, i, 3, s.reg, d.reg)
    BY <1>0 DEF Both, Ext, ModRM, Written3
  <2>4. HasBits(p, 0, 0, 64) /\ HasRx(p) /\ p.isRex
    BY PrefixesAre DEF HasBits, HasRx
  <2> HIDE DEF c, i
  <2>5. Starts(c, 2, p)
    <3>1. Len(c) \in Nat /\ 2 <= Len(c) /\ c[1] = 72
      BY <2>3
    <3> QED
      BY <3>1, RexPrefixes, Zenon DEF p
  <2> HIDE DEF p
  <2>6. D!Decoded(c) = D!MR(c, i, p, "mov", 64)
    BY <1>0, <2>3, <2>4, <2>5, OpMR DEF Starts, HasBits
  <2>7. NamesBoth(c, i, p, s, d)
    <3>1. i \in Nat /\ Written3(c, i, 3, s.reg, d.reg) /\ Len(c) = i
      BY <2>3
    <3> QED
      BY <3>1, NamesTwo
  <2>8. RmIs(p, 64, d) /\ RegIs(p, 64, s)
    BY <1>5, <1>0, <2>4, RegsEqual DEF RmIs, RegIs, Named, HasBits, IsReg, Octal
  <2>9. 64 \in Sizes
    BY DEF Sizes
  <2>10. D!Decoded(c) = Means("mov", d, s)
    BY <1>0, <2>3, <2>4, <2>6, <2>7, <2>8, <2>9, MRRegs
  <2> QED
    BY <2>1, <2>2, <2>10 DEF Right
<1>6. CASE s.type = "RAXtoRDI" /\ d.type = "R8toR15"
  <2> DEFINE c == <<73, 137, Both(s, d)>>
             p == PRex(1, 0, 1)
             i == 3
  <2>1. MovRegs(d, s) = c
    BY <1>6, <1>0 DEF MovRegs, IsReg, IsRegister
  <2>2. ~Misencoded
    BY <1>6, <1>0 DEF Misencoded, HighByteWithRex, NoSib, NoDisp, IndexLost, OffsetLost, BaseLost, SizeLost,
                      HasMem, Ptr, Counterpart, WithSib44, IsAlu, Is, IsReg, IsImm, IsPlain, IsScaled, IsMem,
                      IsRegister, IsMemory, IsNumber, OfLine, None
  <2>3. /\ i = 2 + 1 /\ i \in Nat /\ Len(c) = 3 /\ Len(c) \in Nat /\ Len(c) = i /\ c[1] = 73 /\ c[2] = 137
        /\ Written3(c, i, 3, s.reg, d.reg)
    BY <1>0 DEF Both, Ext, ModRM, Written3
  <2>4. HasBits(p, 0, 1, 64) /\ HasRx(p) /\ p.isRex
    BY PrefixesAre DEF HasBits, HasRx
  <2> HIDE DEF c, i
  <2>5. Starts(c, 2, p)
    <3>1. Len(c) \in Nat /\ 2 <= Len(c) /\ c[1] = 73
      BY <2>3
    <3> QED
      BY <3>1, RexPrefixes, Zenon DEF p
  <2> HIDE DEF p
  <2>6. D!Decoded(c) = D!MR(c, i, p, "mov", 64)
    BY <1>0, <2>3, <2>4, <2>5, OpMR DEF Starts, HasBits
  <2>7. NamesBoth(c, i, p, s, d)
    <3>1. i \in Nat /\ Written3(c, i, 3, s.reg, d.reg) /\ Len(c) = i
      BY <2>3
    <3> QED
      BY <3>1, NamesTwo
  <2>8. RmIs(p, 64, d) /\ RegIs(p, 64, s)
    BY <1>6, <1>0, <2>4, RegsEqual DEF RmIs, RegIs, Named, HasBits, IsReg, Octal
  <2>9. 64 \in Sizes
    BY DEF Sizes
  <2>10. D!Decoded(c) = Means("mov", d, s)
    BY <1>0, <2>3, <2>4, <2>6, <2>7, <2>8, <2>9, MRRegs
  <2> QED
    BY <2>1, <2>2, <2>10 DEF Right
<1>7. MovRegs(d, s) # Refuse =>
         \/ s.type = "EAXtoEDI" /\ d.type = "EAXtoEDI"
         \/ s.type = "ALtoBH" /\ d.type = "ALtoBH"
         \/ s.type = "ALtoBH" /\ d.type = "R8BtoR15B"
         \/ s.type = "AXtoDI" /\ d.type = "AXtoDI"
         \/ s.type = "RAXtoRDI" /\ d.type = "RAXtoRDI"
         \/ s.type = "RAXtoRDI" /\ d.type = "R8toR15"
  BY <1>0 DEF MovRegs, IsReg, IsRegister
<1> QED
  BY <1>1, <1>2, <1>3, <1>4, <1>5, <1>6, <1>7 DEF Right

LEMMA MovzxRegIs ==
  ASSUME NEW d, NEW s,
         OfLine("movzx", d, s), IsRegister(d), IsRegister(s)
  PROVE  Right(Movzx(d, s), "movzx", d, s)
<1>0. /\ d.reg \in Octal /\ d.kind = "reg" /\ s.reg \in Octal /\ s.kind = "reg" /\ Octal \subseteq Int
      /\ Straight("movzx") /\ "movzx" \notin DOMAIN AluOp
  BY RegisterShape DEF Octal, IsRegister, ShiftOp, AluOp, Straight
<1>1. CASE IsReg(s, "ALtoBH") /\ IsReg(d, "EAXtoEDI")
  <2> DEFINE c == <<15, 182, Both(d, s)>>
             p == P0
             i == 3
  <2>1. Movzx(d, s) = c
    BY <1>1, <1>0 DEF Movzx, IsReg, IsRegister, IsImm, IsNumber, IsMem, IsPlain, IsScaled, Sized
  <2>2. ~Misencoded
    BY <1>1, <1>0 DEF Misencoded, HighByteWithRex, NoSib, NoDisp, IndexLost, OffsetLost, BaseLost, SizeLost,
                      HasMem, Ptr, Counterpart, WithSib44, IsAlu, Is, IsReg, IsImm, IsPlain, IsScaled, IsMem,
                      IsRegister, IsMemory, IsNumber, OfLine, None
  <2>3. /\ i = 2 + 1 /\ i \in Nat /\ Len(c) = 3 /\ Len(c) \in Nat /\ Len(c) = i /\ c[1] = 15 /\ c[2] = 182
        /\ Written3(c, i, 3, d.reg, s.reg)
    BY <1>0 DEF Both, Ext, ModRM, Written3
  <2>4. HasBits(p, 0, 0, 32) /\ HasRx(p) /\ ~p.isRex
    BY PrefixesAre DEF HasBits, HasRx
  <2> HIDE DEF c, i
  <2>5. Starts(c, 1, p)
    <3>1. Len(c) \in Nat /\ 1 <= Len(c) /\ IsOp(c[1])
      BY <2>3 DEF IsOp
    <3> QED
      BY <3>1, NoPrefix, Zenon DEF p
  <2> HIDE DEF p
  <2>6. D!Decoded(c) = D!RM(c, i, p, "movzx", 32, 8)
    <3>1. 1 \in Nat /\ Len(c) \in Nat /\ Len(c) > 1 /\ c[1] = 15 /\ c[1 + 1] = 182 /\ i = 1 + 2
      BY <2>3
    <3> QED
      BY <1>0, <2>4, <2>5, <3>1, OpMovzx DEF Starts, HasBits
  <2>7. NamesBoth(c, i, p, d, s)
    <3>1. i \in Nat /\ Written3(c, i, 3, d.reg, s.reg) /\ Len(c) = i
      BY <2>3
    <3> QED
      BY <3>1, NamesTwo
  <2>8. RmIs(p, 8, s) /\ RegIs(p, 32, d)
    BY <1>1, <1>0, <2>4, RegsEqual DEF RmIs, RegIs, Named, HasBits, IsReg, Octal
  <2>9. 32 \in Sizes /\ 8 \in Sizes
    BY DEF Sizes
  <2>10. D!Decoded(c) = Means("movzx", d, s)
    BY <1>0, <2>3, <2>4, <2>6, <2>7, <2>8, <2>9, RMRegs
  <2> QED
    BY <2>1, <2>2, <2>10 DEF Right
<1>2. CASE IsReg(s, "ALtoBH") /\ IsReg(d, "RAXtoRDI")
  <2> DEFINE c == <<72, 15, 182, Both(d, s)>>
             p == PRex(1, 0, 0)
             i == 4
  <2>1. Movzx(d, s) = c
    BY <1>2, <1>0 DEF Movzx, IsReg, IsRegister, IsImm, IsNumber, IsMem, IsPlain, IsScaled, Sized
  <2>2. Misencoded <=> s.reg > 3
    BY <1>2, <1>0 DEF Misencoded, HighByteWithRex, NoSib, NoDisp, IndexLost, OffsetLost, BaseLost, SizeLost,
                      HasMem, Ptr, Counterpart, WithSib44, IsAlu, Is, IsReg, IsImm, IsPlain, IsScaled, IsMem,
                      IsRegister, IsMemory, IsNumber, OfLine, None
  <2>3. /\ i = 3 + 1 /\ i \in Nat /\ Len(c) = 4 /\ Len(c) \in Nat /\ Len(c) = i /\ c[1] = 72 /\ c[2] = 15
        /\ c[3] = 182 /\ Written3(c, i, 3, d.reg, s.reg)
    BY <1>0 DEF Both, Ext, ModRM, Written3
  <2>4. HasBits(p, 0, 0, 64) /\ HasRx(p) /\ p.isRex
    BY PrefixesAre DEF HasBits, HasRx
  <2> HIDE DEF c, i
  <2>5. Starts(c, 2, p)
    <3>1. Len(c) \in Nat /\ 2 <= Len(c) /\ c[1] = 72
      BY <2>3
    <3> QED
      BY <3>1, RexPrefixes, Zenon DEF p
  <2> HIDE DEF p
  <2>6. D!Decoded(c) = D!RM(c, i, p, "movzx", 64, 8)
    <3>1. 2 \in Nat /\ Len(c) \in Nat /\ Len(c) > 2 /\ c[2] = 15 /\ c[2 + 1] = 182 /\ i = 2 + 2
      BY <2>3
    <3> QED
      BY <1>0, <2>4, <2>5, <3>1, OpMovzx DEF Starts, HasBits
  <2>7. NamesBoth(c, i, p, d, s)
    <3>1. i \in Nat /\ Written3(c, i, 3, d.reg, s.reg) /\ Len(c) = i
      BY <2>3
    <3> QED
      BY <3>1, NamesTwo
  <2>8. (RmIs(p, 8, s) <=> ~(s.reg > 3)) /\ RegIs(p, 64, d)
    BY <1>2, <1>0, <2>4, RegsEqual DEF RmIs, RegIs, Named, HasBits, IsReg, Octal
  <2>9. 64 \in Sizes /\ 8 \in Sizes
    BY DEF Sizes
  <2>10. D!Decoded(c) = Means("movzx", d, s) <=> ~(s.reg > 3)
    BY <1>0, <2>3, <2>4, <2>6, <2>7, <2>8, <2>9, RMRegs
  <2> QED
    BY <2>1, <2>2, <2>10 DEF Right
<1>3. CASE IsReg(s, "R8BtoR15B") /\ IsReg(d, "RAXtoRDI")
  <2> DEFINE c == <<73, 15, 182, Both(d, s)>>
             p == PRex(1, 0, 1)
             i == 4
  <2>1. Movzx(d, s) = c
    BY <1>3, <1>0 DEF Movzx, IsReg, IsRegister, IsImm, IsNumber, IsMem, IsPlain, IsScaled, Sized
  <2>2. ~Misencoded
    BY <1>3, <1>0 DEF Misencoded, HighByteWithRex, NoSib, NoDisp, IndexLost, OffsetLost, BaseLost, SizeLost,
                      HasMem, Ptr, Counterpart, WithSib44, IsAlu, Is, IsReg, IsImm, IsPlain, IsScaled, IsMem,
                      IsRegister, IsMemory, IsNumber, OfLine, None
  <2>3. /\ i = 3 + 1 /\ i \in Nat /\ Len(c) = 4 /\ Len(c) \in Nat /\ Len(c) = i /\ c[1] = 73 /\ c[2] = 15
        /\ c[3] = 182 /\ Written3(c, i, 3, d.reg, s.reg)
    BY <1>0 DEF Both, Ext, ModRM, Written3
  <2>4. HasBits(p, 0, 1, 64) /\ HasRx(p) /\ p.isRex
    BY PrefixesAre DEF HasBits, HasRx
  <2> HIDE DEF c, i
  <2>5. Starts(c, 2, p)
    <3>1. Len(c) \in Nat /\ 2 <= Len(c) /\ c[1] = 73
      BY <2>3
    <3> QED
      BY <3>1, RexPrefixes, Zenon DEF p
  <2> HIDE DEF p
  <2>6. D!Decoded(c) = D!RM(c, i, p, "movzx", 64, 8)
    <3>1. 2 \in Nat /\ Len(c) \in Nat /\ Len(c) > 2 /\ c[2] = 15 /\ c[2 + 1] = 182 /\ i = 2 + 2
      BY <2>3
    <3> QED
      BY <1>0, <2>4, <2>5, <3>1, OpMovzx DEF Starts, HasBits
  <2>7. NamesBoth(c, i, p, d, s)
    <3>1. i \in Nat /\ Written3(c, i, 3, d.reg, s.reg) /\ Len(c) = i
      BY <2>3
    <3> QED
      BY <3>1, NamesTwo
  <2>8. RmIs(p, 8, s) /\ RegIs(p, 64, d)
    BY <1>3, <1>0, <2>4, RegsEqual DEF RmIs, RegIs, Named, HasBits, IsReg, Octal
  <2>9. 64 \in Sizes /\ 8 \in Sizes
    BY DEF Sizes
  <2>10. D!Decoded(c) = Means("movzx", d, s)
    BY <1>0, <2>3, <2>4, <2>6, <2>7, <2>8, <2>9, RMRegs
  <2> QED
    BY <2>1, <2>2, <2>10 DEF Right
<1>4. CASE IsReg(s, "AXtoDI") /\ IsReg(d, "RAXtoRDI")
  <2> DEFINE c == <<72, 15, 183, Both(d, s)>>
             p == PRex(1, 0, 0)
             i == 4
  <2>1. Movzx(d, s) = c
    BY <1>4, <1>0 DEF Movzx, IsReg, IsRegister, IsImm, IsNumber, IsMem, IsPlain, IsScaled, Sized
  <2>2. ~Misencoded
    BY <1>4, <1>0 DEF Misencoded, HighByteWithRex, NoSib, NoDisp, IndexLost, OffsetLost, BaseLost, SizeLost,
                      HasMem, Ptr, Counterpart, WithSib44, IsAlu, Is, IsReg, IsImm, IsPlain, IsScaled, IsMem,
                      IsRegister, IsMemory, IsNumber, OfLine, None
  <2>3. /\ i = 3 + 1 /\ i \in Nat /\ Len(c) = 4 /\ Len(c) \in Nat /\ Len(c) = i /\ c[1] = 72 /\ c[2] = 15
        /\ c[3] = 183 /\ Written3(c, i, 3, d.reg, s.reg)
    BY <1>0 DEF Both, Ext, ModRM, Written3
  <2>4. HasBits(p, 0, 0, 64) /\ HasRx(p) /\ p.isRex
    BY PrefixesAre DEF HasBits, HasRx
  <2> HIDE DEF c, i
  <2>5. Starts(c, 2, p)
    <3>1. Len(c) \in Nat /\ 2 <= Len(c) /\ c[1] = 72
      BY <2>3
    <3> QED
      BY <3>1, RexPrefixes, Zenon DEF p
  <2> HIDE DEF p
  <2>6. D!Decoded(c) = D!RM(c, i, p, "movzx", 64, 16)
    <3>1. 2 \in Nat /\ Len(c) \in Nat /\ Len(c) > 2 /\ c[2] = 15 /\ c[2 + 1] = 183 /\ i = 2 + 2
      BY <2>3
    <3> QED
      BY <1>0, <2>4, <2>5, <3>1, OpMovzx DEF Starts, HasBits
  <2>7. NamesBoth(c, i, p, d, s)
    <3>1. i \in Nat /\ Written3(c, i, 3, d.reg, s.reg) /\ Len(c) = i
      BY <2>3
    <3> QED
      BY <3>1, NamesTwo
  <2>8. RmIs(p, 16, s) /\ RegIs(p, 64, d)
    BY <1>4, <1>0, <2>4, RegsEqual DEF RmIs, RegIs, Named, HasBits, IsReg, Octal
  <2>9. 64 \in Sizes /\ 16 \in Sizes
    BY DEF Sizes
  <2>10. D!Decoded(c) = Means("movzx", d, s)
    BY <1>0, <2>3, <2>4, <2>6, <2>7, <2>8, <2>9, RMRegs
  <2> QED
    BY <2>1, <2>2, <2>10 DEF Right
<1>5. Movzx(d, s) # Refuse =>
         \/ IsReg(s, "ALtoBH") /\ IsReg(d, "EAXtoEDI")
         \/ IsReg(s, "ALtoBH") /\ IsReg(d, "RAXtoRDI")
         \/ IsReg(s, "R8BtoR15B") /\ IsReg(d, "RAXtoRDI")
         \/ IsReg(s, "AXtoDI") /\ IsReg(d, "RAXtoRDI")
  BY <1>0 DEF Movzx, IsReg, IsRegister, IsImm, IsNumber, IsMem, IsPlain, IsScaled, Sized
<1> QED
  BY <1>1, <1>2, <1>3, <1>4, <1>5 DEF Right

LEMMA MovsxRegIs ==
  ASSUME NEW d, NEW s,
         OfLine("movsx", d, s), IsRegister(d), IsRegister(s)
  PROVE  Right(Movsx(d, s), "movsx", d, s)
<1>0. /\ d.reg \in Octal /\ d.kind = "reg" /\ s.reg \in Octal /\ s.kind = "reg" /\ Octal \subseteq Int
      /\ Straight("movsx") /\ "movsx" \notin DOMAIN AluOp
  BY RegisterShape DEF Octal, IsRegister, ShiftOp, AluOp, Straight
<1>1. CASE IsReg(s, "ALtoBH") /\ IsReg(d, "AXtoDI")
  <2> DEFINE c == <<102, 15, 190, Both(d, s)>>
             p == P66
             i == 4
  <2>1. Movsx(d, s) = c
    BY <1>1, <1>0 DEF Movsx, IsReg, IsRegister, IsImm, IsNumber, IsMem, IsPlain, IsScaled, Sized
  <2>2. ~Misencoded
    BY <1>1, <1>0 DEF Misencoded, HighByteWithRex, NoSib, NoDisp, IndexLost, OffsetLost, BaseLost, SizeLost,
                      HasMem, Ptr, Counterpart, WithSib44, IsAlu, Is, IsReg, IsImm, IsPlain, IsScaled, IsMem,
                      IsRegister, IsMemory, IsNumber, OfLine, None
  <2>3. /\ i = 3 + 1 /\ i \in Nat /\ Len(c) = 4 /\ Len(c) \in Nat /\ Len(c) = i /\ c[1] = 102 /\ c[2] = 15
        /\ c[3] = 190 /\ Written3(c, i, 3, d.reg, s.reg)
    BY <1>0 DEF Both, Ext, ModRM, Written3
  <2>4. HasBits(p, 0, 0, 16) /\ HasRx(p) /\ ~p.isRex
    BY PrefixesAre DEF HasBits, HasRx
  <2> HIDE DEF c, i
  <2>5. Starts(c, 2, p)
    <3>1. Len(c) \in Nat /\ 2 <= Len(c) /\ c[1] = 102 /\ IsOp(c[2])
      BY <2>3 DEF IsOp
    <3> QED
      BY <3>1, Prefix66, Zenon DEF p
  <2> HIDE DEF p
  <2>6. D!Decoded(c) = D!RM(c, i, p, "movsx", 16, 8)
    <3>1. 2 \in Nat /\ Len(c) \in Nat /\ Len(c) > 2 /\ c[2] = 15 /\ c[2 + 1] = 190 /\ i = 2 + 2
      BY <2>3
    <3> QED
      BY <1>0, <2>4, <2>5, <3>1, OpMovzx DEF Starts, HasBits
  <2>7. NamesBoth(c, i, p, d, s)
    <3>1. i \in Nat /\ Written3(c, i, 3, d.reg, s.reg) /\ Len(c) = i
      BY <2>3
    <3> QED
      BY <3>1, NamesTwo
  <2>8. RmIs(p, 8, s) /\ RegIs(p, 16, d)
    BY <1>1, <1>0, <2>4, RegsEqual DEF RmIs, RegIs, Named, HasBits, IsReg, Octal
  <2>9. 16 \in Sizes /\ 8 \in Sizes
    BY DEF Sizes
  <2>10. D!Decoded(c) = Means("movsx", d, s)
    BY <1>0, <2>3, <2>4, <2>6, <2>7, <2>8, <2>9, RMRegs
  <2> QED
    BY <2>1, <2>2, <2>10 DEF Right
<1>2. CASE IsReg(s, "ALtoBH") /\ IsReg(d, "RAXtoRDI")
  <2> DEFINE c == <<72, 15, 190, Both(d, s)>>
             p == PRex(1, 0, 0)
             i == 4
  <2>1. Movsx(d, s) = c
    BY <1>2, <1>0 DEF Movsx, IsReg, IsRegister, IsImm, IsNumber, IsMem, IsPlain, IsScaled, Sized
  <2>2. Misencoded <=> s.reg > 3
    BY <1>2, <1>0 DEF Misencoded, HighByteWithRex, NoSib, NoDisp, IndexLost, OffsetLost, BaseLost, SizeLost,
                      HasMem, Ptr, Counterpart, WithSib44, IsAlu, Is, IsReg, IsImm, IsPlain, IsScaled, IsMem,
                      IsRegister, IsMemory, IsNumber, OfLine, None
  <2>3. /\ i = 3 + 1 /\ i \in Nat /\ Len(c) = 4 /\ Len(c) \in Nat /\ Len(c) = i /\ c[1] = 72 /\ c[2] = 15
        /\ c[3] = 190 /\ Written3(c, i, 3, d.reg, s.reg)
    BY <1>0 DEF Both, Ext, ModRM, Written3
  <2>4. HasBits(p, 0, 0, 64) /\ HasRx(p) /\ p.isRex
    BY PrefixesAre DEF HasBits, HasRx
  <2> HIDE DEF c, i
  <2>5. Starts(c, 2, p)
    <3>1. Len(c) \in Nat /\ 2 <= Len(c) /\ c[1] = 72
      BY <2>3
    <3> QED
      BY <3>1, RexPrefixes, Zenon DEF p
  <2> HIDE DEF p
  <2>6. D!Decoded(c) = D!RM(c, i, p, "movsx", 64, 8)
    <3>1. 2 \in Nat /\ Len(c) \in Nat /\ Len(c) > 2 /\ c[2] = 15 /\ c[2 + 1] = 190 /\ i = 2 + 2
      BY <2>3
    <3> QED
      BY <1>0, <2>4, <2>5, <3>1, OpMovzx DEF Starts, HasBits
  <2>7. NamesBoth(c, i, p, d, s)
    <3>1. i \in Nat /\ Written3(c, i, 3, d.reg, s.reg) /\ Len(c) = i
      BY <2>3
    <3> QED
      BY <3>1, NamesTwo
  <2>8. (RmIs(p, 8, s) <=> ~(s.reg > 3)) /\ RegIs(p, 64, d)
    BY <1>2, <1>0, <2>4, RegsEqual DEF RmIs, RegIs, Named, HasBits, IsReg, Octal
  <2>9. 64 \in Sizes /\ 8 \in Sizes
    BY DEF Sizes
  <2>10. D!Decoded(c) = Means("movsx", d, s) <=> ~(s.reg > 3)
    BY <1>0, <2>3, <2>4, <2>6, <2>7, <2>8, <2>9, RMRegs
  <2> QED
    BY <2>1, <2>2, <2>10 DEF Right
<1>3. Movsx(d, s) # Refuse =>
         \/ IsReg(s, "ALtoBH") /\ IsReg(d, "AXtoDI")
         \/ IsReg(s, "ALtoBH") /\ IsReg(d, "RAXtoRDI")
  BY <1>0 DEF Movsx, IsReg, IsRegister, IsImm, IsNumber, IsMem, IsPlain, IsScaled, Sized
<1> QED
  BY <1>1, <1>2, <1>3 DEF Right

LEMMA XchgIs ==
  ASSUME NEW d, NEW s,
         OfLine("xchg", d, s), IsRegister(d), IsRegister(s)
  PROVE  Right(Xchg(d, s), "xchg", d, s)
<1>0. /\ d.reg \in Octal /\ d.kind = "reg" /\ s.reg \in Octal /\ s.kind = "reg" /\ Octal \subseteq Int
      /\ Straight("xchg") /\ "xchg" \notin DOMAIN AluOp
  BY RegisterShape DEF Octal, IsRegister, ShiftOp, AluOp, Straight
<1>1. CASE IsReg(d, "AXtoDI") /\ IsReg(s, "AXtoDI")
  <2> DEFINE c == <<102, 135, Both(s, d)>>
             p == P66
             i == 3
  <2>1. Xchg(d, s) = c
    BY <1>1, <1>0 DEF Xchg, IsReg, IsRegister, IsImm, IsNumber, IsMem, IsPlain, IsScaled, Sized
  <2>2. ~Misencoded
    BY <1>1, <1>0 DEF Misencoded, HighByteWithRex, NoSib, NoDisp, IndexLost, OffsetLost, BaseLost, SizeLost,
                      HasMem, Ptr, Counterpart, WithSib44, IsAlu, Is, IsReg, IsImm, IsPlain, IsScaled, IsMem,
                      IsRegister, IsMemory, IsNumber, OfLine, None
  <2>3. /\ i = 2 + 1 /\ i \in Nat /\ Len(c) = 3 /\ Len(c) \in Nat /\ Len(c) = i /\ c[1] = 102 /\ c[2] = 135
        /\ Written3(c, i, 3, s.reg, d.reg)
    BY <1>0 DEF Both, Ext, ModRM, Written3
  <2>4. HasBits(p, 0, 0, 16) /\ HasRx(p) /\ ~p.isRex
    BY PrefixesAre DEF HasBits, HasRx
  <2> HIDE DEF c, i
  <2>5. Starts(c, 2, p)
    <3>1. Len(c) \in Nat /\ 2 <= Len(c) /\ c[1] = 102 /\ IsOp(c[2])
      BY <2>3 DEF IsOp
    <3> QED
      BY <3>1, Prefix66, Zenon DEF p
  <2> HIDE DEF p
  <2>6. D!Decoded(c) = D!MR(c, i, p, "xchg", 16)
    BY <1>0, <2>3, <2>4, <2>5, OpMR DEF Starts, HasBits
  <2>7. NamesBoth(c, i, p, s, d)
    <3>1. i \in Nat /\ Written3(c, i, 3, s.reg, d.reg) /\ Len(c) = i
      BY <2>3
    <3> QED
      BY <3>1, NamesTwo
  <2>8. RmIs(p, 16, d) /\ RegIs(p, 16, s)
    BY <1>1, <1>0, <2>4, RegsEqual DEF RmIs, RegIs, Named, HasBits, IsReg, Octal
  <2>9. 16 \in Sizes
    BY DEF Sizes
  <2>10. D!Decoded(c) = Means("xchg", d, s)
    BY <1>0, <2>3, <2>4, <2>6, <2>7, <2>8, <2>9, MRRegs
  <2> QED
    BY <2>1, <2>2, <2>10 DEF Right
<1>2. Xchg(d, s) # Refuse =>
         \/ IsReg(d, "AXtoDI") /\ IsReg(s, "AXtoDI")
  BY <1>0 DEF Xchg, IsReg, IsRegister, IsImm, IsNumber, IsMem, IsPlain, IsScaled, Sized
<1> QED
  BY <1>1, <1>2 DEF Right

LEMMA IncDecRegIs ==
  ASSUME NEW mn, NEW op, NEW d,
         OfLine(mn, d, None), mn \in DOMAIN IncDecOp, op = IncDecOp[mn], IsRegister(d)
  PROVE  Right(IncDec(d, op), mn, d, None)
<1>0. /\ d.reg \in Octal /\ d.kind = "reg" /\ Octal \subseteq Int /\ Straight(mn) /\ mn \notin DOMAIN AluOp
      /\ mn \notin {"mov", "movzx", "movsx", "lea", "test"} /\ op \in 0 .. 1 /\ op \in Octal
      /\ <<"inc", "dec">>[op + 1] = mn /\ None.kind = "none"
  BY RegisterShape DEF Octal, IsRegister, ShiftOp, AluOp, Straight, IncDecOp, None
<1>1. CASE IsReg(d, "ALtoBH")
  <2> DEFINE c == <<254, Both(Ext(op), d)>>
             p == P0
             i == 2
  <2>1. IncDec(d, op) = c
    BY <1>1, <1>0 DEF IncDec, IsReg, IsRegister, IsImm, IsNumber, IsMem, IsPlain, IsScaled, Sized
  <2>2. ~Misencoded
    BY <1>1, <1>0 DEF Misencoded, HighByteWithRex, NoSib, NoDisp, IndexLost, OffsetLost, BaseLost, SizeLost,
                      HasMem, Ptr, Counterpart, WithSib44, IsAlu, Is, IsReg, IsImm, IsPlain, IsScaled, IsMem,
                      IsRegister, IsMemory, IsNumber, OfLine, None
  <2>3. /\ i = 1 + 1 /\ i \in Nat /\ Len(c) = 2 /\ Len(c) \in Nat /\ Len(c) = i + 0 /\ c[1] = 254
        /\ Written3(c, i, 3, op, d.reg)
    BY <1>0 DEF Both, Ext, ModRM, Written3
  <2>4. HasBits(p, 0, 0, 32) /\ HasRx(p) /\ ~p.isRex
    BY PrefixesAre DEF HasBits, HasRx
  <2> HIDE DEF c, i
  <2>5. Starts(c, 1, p)
    <3>1. Len(c) \in Nat /\ 1 <= Len(c) /\ IsOp(c[1])
      BY <2>3 DEF IsOp
    <3> QED
      BY <3>1, NoPrefix, Zenon DEF p
  <2> HIDE DEF p
  <2>6. D!Decoded(c) = D!MWith(c, i, p, mn, 8, D!None)
    <3>1. D!Extension(c, 1) = op
      <4>1. 1 \in Nat /\ Len(c) \in Nat /\ Len(c) > 1 /\ 3 \in 0 .. 3 /\ Written3(c, 1 + 1, 3, op, d.reg)
        BY <2>3
      <4> QED
        BY <1>0, <4>1, ExtensionIs
    <3> QED
      BY <1>0, <2>3, <2>4, <2>5, <3>1, OpIncDec DEF Starts, HasBits
  <2>7. NamesRm(c, i, p, op, d, 0)
    <3>1. 0 \in Octal /\ op \in Octal /\ i \in Nat /\ Written3(c, i, 3, op, d.reg) /\ Len(c) = i + 0
      BY <1>0, <2>3 DEF Octal
    <3> QED
      BY <3>1, NamesOne
  <2>8. RmIs(p, 8, d)
    BY <1>1, <1>0, <2>4 DEF RmIs, RegIs, Named, HasBits, IsReg, Octal
  <2>9. 8 \in Sizes
    BY DEF Sizes
  <2>11. D!Decoded(c) = Means(mn, d, None)
    BY <1>0, <2>3, <2>4, <2>6, <2>7, <2>8, <2>9, MWithReg
  <2> QED
    BY <2>1, <2>2, <2>11 DEF Right
<1>2. CASE IsReg(d, "AXtoDI")
  <2> DEFINE c == <<102, 255, Both(Ext(op), d)>>
             p == P66
             i == 3
  <2>1. IncDec(d, op) = c
    BY <1>2, <1>0 DEF IncDec, IsReg, IsRegister, IsImm, IsNumber, IsMem, IsPlain, IsScaled, Sized
  <2>2. ~Misencoded
    BY <1>2, <1>0 DEF Misencoded, HighByteWithRex, NoSib, NoDisp, IndexLost, OffsetLost, BaseLost, SizeLost,
                      HasMem, Ptr, Counterpart, WithSib44, IsAlu, Is, IsReg, IsImm, IsPlain, IsScaled, IsMem,
                      IsRegister, IsMemory, IsNumber, OfLine, None
  <2>3. /\ i = 2 + 1 /\ i \in Nat /\ Len(c) = 3 /\ Len(c) \in Nat /\ Len(c) = i + 0 /\ c[1] = 102 /\ c[2] = 255
        /\ Written3(c, i, 3, op, d.reg)
    BY <1>0 DEF Both, Ext, ModRM, Written3
  <2>4. HasBits(p, 0, 0, 16) /\ HasRx(p) /\ ~p.isRex
    BY PrefixesAre DEF HasBits, HasRx
  <2> HIDE DEF c, i
  <2>5. Starts(c, 2, p)
    <3>1. Len(c) \in Nat /\ 2 <= Len(c) /\ c[1] = 102 /\ IsOp(c[2])
      BY <2>3 DEF IsOp
    <3> QED
      BY <3>1, Prefix66, Zenon DEF p
  <2> HIDE DEF p
  <2>6. D!Decoded(c) = D!MWith(c, i, p, mn, 16, D!None)
    <3>1. D!Extension(c, 2) = op
      <4>1. 2 \in Nat /\ Len(c) \in Nat /\ Len(c) > 2 /\ 3 \in 0 .. 3 /\ Written3(c, 2 + 1, 3, op, d.reg)
        BY <2>3
      <4> QED
        BY <1>0, <4>1, ExtensionIs
    <3> QED
      BY <1>0, <2>3, <2>4, <2>5, <3>1, OpIncDec DEF Starts, HasBits
  <2>7. NamesRm(c, i, p, op, d, 0)
    <3>1. 0 \in Octal /\ op \in Octal /\ i \in Nat /\ Written3(c, i, 3, op, d.reg) /\ Len(c) = i + 0
      BY <1>0, <2>3 DEF Octal
    <3> QED
      BY <3>1, NamesOne
  <2>8. RmIs(p, 16, d)
    BY <1>2, <1>0, <2>4 DEF RmIs, RegIs, Named, HasBits, IsReg, Octal
  <2>9. 16 \in Sizes
    BY DEF Sizes
  <2>11. D!Decoded(c) = Means(mn, d, None)
    BY <1>0, <2>3, <2>4, <2>6, <2>7, <2>8, <2>9, MWithReg
  <2> QED
    BY <2>1, <2>2, <2>11 DEF Right
<1>3. CASE IsReg(d, "RAXtoRDI")
  <2> DEFINE c == <<72, 255, Both(Ext(op), d)>>
             p == PRex(1, 0, 0)
             i == 3
  <2>1. IncDec(d, op) = c
    BY <1>3, <1>0 DEF IncDec, IsReg, IsRegister, IsImm, IsNumber, IsMem, IsPlain, IsScaled, Sized
  <2>2. ~Misencoded
    BY <1>3, <1>0 DEF Misencoded, HighByteWithRex, NoSib, NoDisp, IndexLost, OffsetLost, BaseLost, SizeLost,
                      HasMem, Ptr, Counterpart, WithSib44, IsAlu, Is, IsReg, IsImm, IsPlain, IsScaled, IsMem,
                      IsRegister, IsMemory, IsNumber, OfLine, None
  <2>3. /\ i = 2 + 1 /\ i \in Nat /\ Len(c) = 3 /\ Len(c) \in Nat /\ Len(c) = i + 0 /\ c[1] = 72 /\ c[2] = 255
        /\ Written3(c, i, 3, op, d.reg)
    BY <1>0 DEF Both, Ext, ModRM, Written3
  <2>4. HasBits(p, 0, 0, 64) /\ HasRx(p) /\ p.isRex
    BY PrefixesAre DEF HasBits, HasRx
  <2> HIDE DEF c, i
  <2>5. Starts(c, 2, p)
    <3>1. Len(c) \in Nat /\ 2 <= Len(c) /\ c[1] = 72
      BY <2>3
    <3> QED
      BY <3>1, RexPrefixes, Zenon DEF p
  <2> HIDE DEF p
  <2>6. D!Decoded(c) = D!MWith(c, i, p, mn, 64, D!None)
    <3>1. D!Extension(c, 2) = op
      <4>1. 2 \in Nat /\ Len(c) \in Nat /\ Len(c) > 2 /\ 3 \in 0 .. 3 /\ Written3(c, 2 + 1, 3, op, d.reg)
        BY <2>3
      <4> QED
        BY <1>0, <4>1, ExtensionIs
    <3> QED
      BY <1>0, <2>3, <2>4, <2>5, <3>1, OpIncDec DEF Starts, HasBits
  <2>7. NamesRm(c, i, p, op, d, 0)
    <3>1. 0 \in Octal /\ op \in Octal /\ i \in Nat /\ Written3(c, i, 3, op, d.reg) /\ Len(c) = i + 0
      BY <1>0, <2>3 DEF Octal
    <3> QED
      BY <3>1, NamesOne
  <2>8. RmIs(p, 64, d)
    BY <1>3, <1>0, <2>4 DEF RmIs, RegIs, Named, HasBits, IsReg, Octal
  <2>9. 64 \in Sizes
    BY DEF Sizes
  <2>11. D!Decoded(c) = Means(mn, d, None)
    BY <1>0, <2>3, <2>4, <2>6, <2>7, <2>8, <2>9, MWithReg
  <2> QED
    BY <2>1, <2>2, <2>11 DEF Right
<1>4. CASE IsReg(d, "R8toR15")
  <2> DEFINE c == <<73, 255, Both(Ext(op), d)>>
             p == PRex(1, 0, 1)
             i == 3
  <2>1. IncDec(d, op) = c
    BY <1>4, <1>0 DEF IncDec, IsReg, IsRegister, IsImm, IsNumber, IsMem, IsPlain, IsScaled, Sized
  <2>2. ~Misencoded
    BY <1>4, <1>0 DEF Misencoded, HighByteWithRex, NoSib, NoDisp, IndexLost, OffsetLost, BaseLost, SizeLost,
                      HasMem, Ptr, Counterpart, WithSib44, IsAlu, Is, IsReg, IsImm, IsPlain, IsScaled, IsMem,
                      IsRegister, IsMemory, IsNumber, OfLine, None
  <2>3. /\ i = 2 + 1 /\ i \in Nat /\ Len(c) = 3 /\ Len(c) \in Nat /\ Len(c) = i + 0 /\ c[1] = 73 /\ c[2] = 255
        /\ Written3(c, i, 3, op, d.reg)
    BY <1>0 DEF Both, Ext, ModRM, Written3
  <2>4. HasBits(p, 0, 1, 64) /\ HasRx(p) /\ p.isRex
    BY PrefixesAre DEF HasBits, HasRx
  <2> HIDE DEF c, i
  <2>5. Starts(c, 2, p)
    <3>1. Len(c) \in Nat /\ 2 <= Len(c) /\ c[1] = 73
      BY <2>3
    <3> QED
      BY <3>1, RexPrefixes, Zenon DEF p
  <2> HIDE DEF p
  <2>6. D!Decoded(c) = D!MWith(c, i, p, mn, 64, D!None)
    <3>1. D!Extension(c, 2) = op
      <4>1. 2 \in Nat /\ Len(c) \in Nat /\ Len(c) > 2 /\ 3 \in 0 .. 3 /\ Written3(c, 2 + 1, 3, op, d.reg)
        BY <2>3
      <4> QED
        BY <1>0, <4>1, ExtensionIs
    <3> QED
      BY <1>0, <2>3, <2>4, <2>5, <3>1, OpIncDec DEF Starts, HasBits
  <2>7. NamesRm(c, i, p, op, d, 0)
    <3>1. 0 \in Octal /\ op \in Octal /\ i \in Nat /\ Written3(c, i, 3, op, d.reg) /\ Len(c) = i + 0
      BY <1>0, <2>3 DEF Octal
    <3> QED
      BY <3>1, NamesOne
  <2>8. RmIs(p, 64, d)
    BY <1>4, <1>0, <2>4 DEF RmIs, RegIs, Named, HasBits, IsReg, Octal
  <2>9. 64 \in Sizes
    BY DEF Sizes
  <2>11. D!Decoded(c) = Means(mn, d, None)
    BY <1>0, <2>3, <2>4, <2>6, <2>7, <2>8, <2>9, MWithReg
  <2> QED
    BY <2>1, <2>2, <2>11 DEF Right
<1>5. IncDec(d, op) # Refuse =>
         \/ IsReg(d, "ALtoBH")
         \/ IsReg(d, "AXtoDI")
         \/ IsReg(d, "RAXtoRDI")
         \/ IsReg(d, "R8toR15")
  BY <1>0 DEF IncDec, IsReg, IsRegister, IsImm, IsNumber, IsMem, IsPlain, IsScaled, Sized
<1> QED
  BY <1>1, <1>2, <1>3, <1>4, <1>5 DEF Right

LEMMA NotIs ==
  ASSUME NEW d,
         OfLine("not", d, None), IsRegister(d)
  PROVE  Right(Not(d), "not", d, None)
<1>0. /\ d.reg \in Octal /\ d.kind = "reg" /\ Octal \subseteq Int /\ Straight("not")
      /\ "not" \notin DOMAIN AluOp /\ None.kind = "none" /\ 2 \in Octal
  BY RegisterShape DEF Octal, IsRegister, ShiftOp, AluOp, Straight, None
<1>1. CASE IsReg(d, "ALtoBH")
  <2> DEFINE c == <<246, Both(Ext(2), d)>>
             p == P0
             i == 2
  <2>1. Not(d) = c
    BY <1>1, <1>0 DEF Not, IsReg, IsRegister, IsImm, IsNumber, IsMem, IsPlain, IsScaled, Sized
  <2>2. ~Misencoded
    BY <1>1, <1>0 DEF Misencoded, HighByteWithRex, NoSib, NoDisp, IndexLost, OffsetLost, BaseLost, SizeLost,
                      HasMem, Ptr, Counterpart, WithSib44, IsAlu, Is, IsReg, IsImm, IsPlain, IsScaled, IsMem,
                      IsRegister, IsMemory, IsNumber, OfLine, None
  <2>3. /\ i = 1 + 1 /\ i \in Nat /\ Len(c) = 2 /\ Len(c) \in Nat /\ Len(c) = i + 0 /\ c[1] = 246
        /\ Written3(c, i, 3, 2, d.reg)
    BY <1>0 DEF Both, Ext, ModRM, Written3
  <2>4. HasBits(p, 0, 0, 32) /\ HasRx(p) /\ ~p.isRex
    BY PrefixesAre DEF HasBits, HasRx
  <2> HIDE DEF c, i
  <2>5. Starts(c, 1, p)
    <3>1. Len(c) \in Nat /\ 1 <= Len(c) /\ IsOp(c[1])
      BY <2>3 DEF IsOp
    <3> QED
      BY <3>1, NoPrefix, Zenon DEF p
  <2> HIDE DEF p
  <2>6. D!Decoded(c) = D!MWith(c, i, p, "not", 8, D!None)
    <3>1. D!Extension(c, 1) = 2
      <4>1. 1 \in Nat /\ Len(c) \in Nat /\ Len(c) > 1 /\ 3 \in 0 .. 3 /\ Written3(c, 1 + 1, 3, 2, d.reg)
        BY <2>3
      <4> QED
        BY <1>0, <4>1, ExtensionIs
    <3> QED
      BY <1>0, <2>3, <2>4, <2>5, <3>1, OpNot DEF Starts, HasBits
  <2>7. NamesRm(c, i, p, 2, d, 0)
    <3>1. 0 \in Octal /\ 2 \in Octal /\ i \in Nat /\ Written3(c, i, 3, 2, d.reg) /\ Len(c) = i + 0
      BY <1>0, <2>3 DEF Octal
    <3> QED
      BY <3>1, NamesOne
  <2>8. RmIs(p, 8, d)
    BY <1>1, <1>0, <2>4 DEF RmIs, RegIs, Named, HasBits, IsReg, Octal
  <2>9. 8 \in Sizes
    BY DEF Sizes
  <2>11. D!Decoded(c) = Means("not", d, None)
    BY <1>0, <2>3, <2>4, <2>6, <2>7, <2>8, <2>9, MWithReg
  <2> QED
    BY <2>1, <2>2, <2>11 DEF Right
<1>2. Not(d) # Refuse =>
         \/ IsReg(d, "ALtoBH")
  BY <1>0 DEF Not, IsReg, IsRegister, IsImm, IsNumber, IsMem, IsPlain, IsScaled, Sized
<1> QED
  BY <1>1, <1>2 DEF Right

LEMMA AluRegsIs ==
  ASSUME NEW mn, NEW op, NEW d, NEW s,
         OfLine(mn, d, s), mn \in DOMAIN AluOp, op = AluOp[mn], IsRegister(d), IsRegister(s)
  PROVE  Right(AluRegs(d, s, op), mn, d, s)
<1>0. /\ d.reg \in Octal /\ d.kind = "reg" /\ s.reg \in Octal /\ s.kind = "reg" /\ Octal \subseteq Int
      /\ op \in Octal /\ op \in Int /\ Stands(mn, op) /\ Straight(mn)
      /\ mn \notin {"mov", "movzx", "movsx", "lea", "test"}
  BY RegisterShape, AluIs, AluStands DEF Octal, IsRegister
<1>1. CASE s.type = "EAXtoEDI" /\ d.type = "EAXtoEDI"
  <2> DEFINE c == <<8 * op + 1, Both(s, d)>>
             p == P0
             i == 2
  <2>1. AluRegs(d, s, op) = c
    BY <1>1, <1>0 DEF AluRegs, IsReg, IsRegister, IsImm, IsNumber, IsMem, IsPlain, IsScaled, Sized
  <2>2. ~Misencoded
    BY <1>1, <1>0 DEF Misencoded, HighByteWithRex, NoSib, NoDisp, IndexLost, OffsetLost, BaseLost, SizeLost,
                      HasMem, Ptr, Counterpart, WithSib44, IsAlu, Is, IsReg, IsImm, IsPlain, IsScaled, IsMem,
                      IsRegister, IsMemory, IsNumber, OfLine, None
  <2>3. /\ i = 1 + 1 /\ i \in Nat /\ Len(c) = 2 /\ Len(c) \in Nat /\ Len(c) = i /\ c[1] = OpOf(op, 1)
        /\ Written3(c, i, 3, s.reg, d.reg)
    BY <1>0 DEF Both, Ext, ModRM, Written3, OpOf
  <2>4. HasBits(p, 0, 0, 32) /\ HasRx(p) /\ ~p.isRex
    BY PrefixesAre DEF HasBits, HasRx
  <2> HIDE DEF c, i
  <2>5. Starts(c, 1, p)
    <3>1. Len(c) \in Nat /\ 1 <= Len(c) /\ IsOp(c[1])
      BY <2>3, <1>0, AluBytes
    <3> QED
      BY <3>1, NoPrefix, Zenon DEF p
  <2> HIDE DEF p
  <2>6. D!Decoded(c) = D!MR(c, i, p, mn, 32)
    <3> DEFINE o == 1
    <3>1. o \in Nat /\ i = o + 1 /\ c[o] = OpOf(op, 1) /\ Starts(c, o, p)
      BY <2>3, <2>5
    <3> HIDE DEF o
    <3>2. D!Opcode(c, o, p) = D!MR(c, i, p, mn, D!Size(p))
      BY <1>0, <3>1, AluForm1
    <3> QED
      BY <2>4, <3>1, <3>2 DEF Starts, HasBits
  <2>7. NamesBoth(c, i, p, s, d)
    <3>1. i \in Nat /\ Written3(c, i, 3, s.reg, d.reg) /\ Len(c) = i
      BY <2>3
    <3> QED
      BY <3>1, NamesTwo
  <2>8. RmIs(p, 32, d) /\ RegIs(p, 32, s)
    BY <1>1, <1>0, <2>4, RegsEqual DEF RmIs, RegIs, Named, HasBits, IsReg, Octal
  <2>9. 32 \in Sizes
    BY DEF Sizes
  <2>10. D!Decoded(c) = Means(mn, d, s)
    BY <1>0, <2>3, <2>4, <2>6, <2>7, <2>8, <2>9, MRRegs
  <2> QED
    BY <2>1, <2>2, <2>10 DEF Right
<1>2. CASE s.type = "ALtoBH" /\ d.type = "ALtoBH"
  <2> DEFINE c == <<8 * op, Both(s, d)>>
             p == P0
             i == 2
  <2>1. AluRegs(d, s, op) = c
    BY <1>2, <1>0 DEF AluRegs, IsReg, IsRegister, IsImm, IsNumber, IsMem, IsPlain, IsScaled, Sized
  <2>2. ~Misencoded
    BY <1>2, <1>0 DEF Misencoded, HighByteWithRex, NoSib, NoDisp, IndexLost, OffsetLost, BaseLost, SizeLost,
                      HasMem, Ptr, Counterpart, WithSib44, IsAlu, Is, IsReg, IsImm, IsPlain, IsScaled, IsMem,
                      IsRegister, IsMemory, IsNumber, OfLine, None
  <2>3. /\ i = 1 + 1 /\ i \in Nat /\ Len(c) = 2 /\ Len(c) \in Nat /\ Len(c) = i /\ c[1] = OpOf(op, 0)
        /\ Written3(c, i, 3, s.reg, d.reg)
    BY <1>0 DEF Both, Ext, ModRM, Written3, OpOf
  <2>4. HasBits(p, 0, 0, 32) /\ HasRx(p) /\ ~p.isRex
    BY PrefixesAre DEF HasBits, HasRx
  <2> HIDE DEF c, i
  <2>5. Starts(c, 1, p)
    <3>1. Len(c) \in Nat /\ 1 <= Len(c) /\ IsOp(c[1])
      BY <2>3, <1>0, AluBytes
    <3> QED
      BY <3>1, NoPrefix, Zenon DEF p
  <2> HIDE DEF p
  <2>6. D!Decoded(c) = D!MR(c, i, p, mn, 8)
    <3> DEFINE o == 1
    <3>1. o \in Nat /\ i = o + 1 /\ c[o] = OpOf(op, 0) /\ Starts(c, o, p)
      BY <2>3, <2>5
    <3> HIDE DEF o
    <3>2. D!Opcode(c, o, p) = D!MR(c, i, p, mn, 8)
      BY <1>0, <3>1, AluForm0
    <3> QED
      BY <2>4, <3>1, <3>2 DEF Starts, HasBits
  <2>7. NamesBoth(c, i, p, s, d)
    <3>1. i \in Nat /\ Written3(c, i, 3, s.reg, d.reg) /\ Len(c) = i
      BY <2>3
    <3> QED
      BY <3>1, NamesTwo
  <2>8. RmIs(p, 8, d) /\ RegIs(p, 8, s)
    BY <1>2, <1>0, <2>4, RegsEqual DEF RmIs, RegIs, Named, HasBits, IsReg, Octal
  <2>9. 8 \in Sizes
    BY DEF Sizes
  <2>10. D!Decoded(c) = Means(mn, d, s)
    BY <1>0, <2>3, <2>4, <2>6, <2>7, <2>8, <2>9, MRRegs
  <2> QED
    BY <2>1, <2>2, <2>10 DEF Right
<1>3. CASE s.type = "AXtoDI" /\ d.type = "AXtoDI"
  <2> DEFINE c == <<102, 8 * op + 1, Both(s, d)>>
             p == P66
             i == 3
  <2>1. AluRegs(d, s, op) = c
    BY <1>3, <1>0 DEF AluRegs, IsReg, IsRegister, IsImm, IsNumber, IsMem, IsPlain, IsScaled, Sized
  <2>2. ~Misencoded
    BY <1>3, <1>0 DEF Misencoded, HighByteWithRex, NoSib, NoDisp, IndexLost, OffsetLost, BaseLost, SizeLost,
                      HasMem, Ptr, Counterpart, WithSib44, IsAlu, Is, IsReg, IsImm, IsPlain, IsScaled, IsMem,
                      IsRegister, IsMemory, IsNumber, OfLine, None
  <2>3. /\ i = 2 + 1 /\ i \in Nat /\ Len(c) = 3 /\ Len(c) \in Nat /\ Len(c) = i /\ c[1] = 102
        /\ c[2] = OpOf(op, 1) /\ Written3(c, i, 3, s.reg, d.reg)
    BY <1>0 DEF Both, Ext, ModRM, Written3, OpOf
  <2>4. HasBits(p, 0, 0, 16) /\ HasRx(p) /\ ~p.isRex
    BY PrefixesAre DEF HasBits, HasRx
  <2> HIDE DEF c, i
  <2>5. Starts(c, 2, p)
    <3>1. Len(c) \in Nat /\ 2 <= Len(c) /\ c[1] = 102 /\ IsOp(c[2])
      BY <2>3, <1>0, AluBytes
    <3> QED
      BY <3>1, Prefix66, Zenon DEF p
  <2> HIDE DEF p
  <2>6. D!Decoded(c) = D!MR(c, i, p, mn, 16)
    <3> DEFINE o == 2
    <3>1. o \in Nat /\ i = o + 1 /\ c[o] = OpOf(op, 1) /\ Starts(c, o, p)
      BY <2>3, <2>5
    <3> HIDE DEF o
    <3>2. D!Opcode(c, o, p) = D!MR(c, i, p, mn, D!Size(p))
      BY <1>0, <3>1, AluForm1
    <3> QED
      BY <2>4, <3>1, <3>2 DEF Starts, HasBits
  <2>7. NamesBoth(c, i, p, s, d)
    <3>1. i \in Nat /\ Written3(c, i, 3, s.reg, d.reg) /\ Len(c) = i
      BY <2>3
    <3> QED
      BY <3>1, NamesTwo
  <2>8. RmIs(p, 16, d) /\ RegIs(p, 16, s)
    BY <1>3, <1>0, <2>4, RegsEqual DEF RmIs, RegIs, Named, HasBits, IsReg, Octal
  <2>9. 16 \in Sizes
    BY DEF Sizes
  <2>10. D!Decoded(c) = Means(mn, d, s)
    BY <1>0, <2>3, <2>4, <2>6, <2>7, <2>8, <2>9, MRRegs
  <2> QED
    BY <2>1, <2>2, <2>10 DEF Right
<1>4. CASE s.type = "AXtoDI" /\ d.type = "R8WtoR15W"
  <2> DEFINE c == <<102, 65, 8 * op + 1, Both(s, d)>>
             p == P66B
             i == 4
  <2>1. AluRegs(d, s, op) = c
    BY <1>4, <1>0 DEF AluRegs, IsReg, IsRegister, IsImm, IsNumber, IsMem, IsPlain, IsScaled, Sized
  <2>2. ~Misencoded
    BY <1>4, <1>0 DEF Misencoded, HighByteWithRex, NoSib, NoDisp, IndexLost, OffsetLost, BaseLost, SizeLost,
                      HasMem, Ptr, Counterpart, WithSib44, IsAlu, Is, IsReg, IsImm, IsPlain, IsScaled, IsMem,
                      IsRegister, IsMemory, IsNumber, OfLine, None
  <2>3. /\ i = 3 + 1 /\ i \in Nat /\ Len(c) = 4 /\ Len(c) \in Nat /\ Len(c) = i /\ c[1] = 102 /\ c[2] = 65
        /\ c[3] = OpOf(op, 1) /\ Written3(c, i, 3, s.reg, d.reg)
    BY <1>0 DEF Both, Ext, ModRM, Written3, OpOf
  <2>4. HasBits(p, 0, 1, 16) /\ HasRx(p) /\ p.isRex
    BY PrefixesAre DEF HasBits, HasRx
  <2> HIDE DEF c, i
  <2>5. Starts(c, 3, p)
    <3>1. Len(c) \in Nat /\ 3 <= Len(c) /\ c[1] = 102 /\ c[2] = 65
      BY <2>3
    <3> QED
      BY <3>1, Prefix66Rex, Zenon DEF p
  <2> HIDE DEF p
  <2>6. D!Decoded(c) = D!MR(c, i, p, mn, 16)
    <3> DEFINE o == 3
    <3>1. o \in Nat /\ i = o + 1 /\ c[o] = OpOf(op, 1) /\ Starts(c, o, p)
      BY <2>3, <2>5
    <3> HIDE DEF o
    <3>2. D!Opcode(c, o, p) = D!MR(c, i, p, mn, D!Size(p))
      BY <1>0, <3>1, AluForm1
    <3> QED
      BY <2>4, <3>1, <3>2 DEF Starts, HasBits
  <2>7. NamesBoth(c, i, p, s, d)
    <3>1. i \in Nat /\ Written3(c, i, 3, s.reg, d.reg) /\ Len(c) = i
      BY <2>3
    <3> QED
      BY <3>1, NamesTwo
  <2>8. RmIs(p, 16, d) /\ RegIs(p, 16, s)
    BY <1>4, <1>0, <2>4, RegsEqual DEF RmIs, RegIs, Named, HasBits, IsReg, Octal
  <2>9. 16 \in Sizes
    BY DEF Sizes
  <2>10. D!Decoded(c) = Means(mn, d, s)
    BY <1>0, <2>3, <2>4, <2>6, <2>7, <2>8, <2>9, MRRegs
  <2> QED
    BY <2>1, <2>2, <2>10 DEF Right
<1>5. CASE s.type = "R8toR15" /\ d.type = "RAXtoRDI"
  <2> DEFINE c == <<76, 8 * op + 1, Both(s, d)>>
             p == PRex(1, 1, 0)
             i == 3
  <2>1. AluRegs(d, s, op) = c
    BY <1>5, <1>0 DEF AluRegs, IsReg, IsRegister, IsImm, IsNumber, IsMem, IsPlain, IsScaled, Sized
  <2>2. ~Misencoded
    BY <1>5, <1>0 DEF Misencoded, HighByteWithRex, NoSib, NoDisp, IndexLost, OffsetLost, BaseLost, SizeLost,
                      HasMem, Ptr, Counterpart, WithSib44, IsAlu, Is, IsReg, IsImm, IsPlain, IsScaled, IsMem,
                      IsRegister, IsMemory, IsNumber, OfLine, None
  <2>3. /\ i = 2 + 1 /\ i \in Nat /\ Len(c) = 3 /\ Len(c) \in Nat /\ Len(c) = i /\ c[1] = 76
        /\ c[2] = OpOf(op, 1) /\ Written3(c, i, 3, s.reg, d.reg)
    BY <1>0 DEF Both, Ext, ModRM, Written3, OpOf
  <2>4. HasBits(p, 1, 0, 64) /\ HasRx(p) /\ p.isRex
    BY PrefixesAre DEF HasBits, HasRx
  <2> HIDE DEF c, i
  <2>5. Starts(c, 2, p)
    <3>1. Len(c) \in Nat /\ 2 <= Len(c) /\ c[1] = 76
      BY <2>3
    <3> QED
      BY <3>1, RexPrefixes, Zenon DEF p
  <2> HIDE DEF p
  <2>6. D!Decoded(c) = D!MR(c, i, p, mn, 64)
    <3> DEFINE o == 2
    <3>1. o \in Nat /\ i = o + 1 /\ c[o] = OpOf(op, 1) /\ Starts(c, o, p)
      BY <2>3, <2>5
    <3> HIDE DEF o
    <3>2. D!Opcode(c, o, p) = D!MR(c, i, p, mn, D!Size(p))
      BY <1>0, <3>1, AluForm1
    <3> QED
      BY <2>4, <3>1, <3>2 DEF Starts, HasBits
  <2>7. NamesBoth(c, i, p, s, d)
    <3>1. i \in Nat /\ Written3(c, i, 3, s.reg, d.reg) /\ Len(c) = i
      BY <2>3
    <3> QED
      BY <3>1, NamesTwo
  <2>8. RmIs(p, 64, d) /\ RegIs(p, 64, s)
    BY <1>5, <1>0, <2>4, RegsEqual DEF RmIs, RegIs, Named, HasBits, IsReg, Octal
  <2>9. 64 \in Sizes
    BY DEF Sizes
  <2>10. D!Decoded(c) = Means(mn, d, s)
    BY <1>0, <2>3, <2>4, <2>6, <2>7, <2>8, <2>9, MRRegs
  <2> QED
    BY <2>1, <2>2, <2>10 DEF Right
<1>6. CASE s.type = "RAXtoRDI" /\ d.type = "R8toR15"
  <2> DEFINE c == <<73, 8 * op + 1, Both(s, d)>>
             p == PRex(1, 0, 1)
             i == 3
  <2>1. AluRegs(d, s, op) = c
    BY <1>6, <1>0 DEF AluRegs, IsReg, IsRegister, IsImm, IsNumber, IsMem, IsPlain, IsScaled, Sized
  <2>2. ~Misencoded
    BY <1>6, <1>0 DEF Misencoded, HighByteWithRex, NoSib, NoDisp, IndexLost, OffsetLost, BaseLost, SizeLost,
                      HasMem, Ptr, Counterpart, WithSib44, IsAlu, Is, IsReg, IsImm, IsPlain, IsScaled, IsMem,
                      IsRegister, IsMemory, IsNumber, OfLine, None
  <2>3. /\ i = 2 + 1 /\ i \in Nat /\ Len(c) = 3 /\ Len(c) \in Nat /\ Len(c) = i /\ c[1] = 73
        /\ c[2] = OpOf(op, 1) /\ Written3(c, i, 3, s.reg, d.reg)
    BY <1>0 DEF Both, Ext, ModRM, Written3, OpOf
  <2>4. HasBits(p, 0, 1, 64) /\ HasRx(p) /\ p.isRex
    BY PrefixesAre DEF HasBits, HasRx
  <2> HIDE DEF c, i
  <2>5. Starts(c, 2, p)
    <3>1. Len(c) \in Nat /\ 2 <= Len(c) /\ c[1] = 73
      BY <2>3
    <3> QED
      BY <3>1, RexPrefixes, Zenon DEF p
  <2> HIDE DEF p
  <2>6. D!Decoded(c) = D!MR(c, i, p, mn, 64)
    <3> DEFINE o == 2
    <3>1. o \in Nat /\ i = o + 1 /\ c[o] = OpOf(op, 1) /\ Starts(c, o, p)
      BY <2>3, <2>5
    <3> HIDE DEF o
    <3>2. D!Opcode(c, o, p) = D!MR(c, i, p, mn, D!Size(p))
      BY <1>0, <3>1, AluForm1
    <3> QED
      BY <2>4, <3>1, <3>2 DEF Starts, HasBits
  <2>7. NamesBoth(c, i, p, s, d)
    <3>1. i \in Nat /\ Written3(c, i, 3, s.reg, d.reg) /\ Len(c) = i
      BY <2>3
    <3> QED
      BY <3>1, NamesTwo
  <2>8. RmIs(p, 64, d) /\ RegIs(p, 64, s)
    BY <1>6, <1>0, <2>4, RegsEqual DEF RmIs, RegIs, Named, HasBits, IsReg, Octal
  <2>9. 64 \in Sizes
    BY DEF Sizes
  <2>10. D!Decoded(c) = Means(mn, d, s)
    BY <1>0, <2>3, <2>4, <2>6, <2>7, <2>8, <2>9, MRRegs
  <2> QED
    BY <2>1, <2>2, <2>10 DEF Right
<1>7. AluRegs(d, s, op) # Refuse =>
         \/ s.type = "EAXtoEDI" /\ d.type = "EAXtoEDI"
         \/ s.type = "ALtoBH" /\ d.type = "ALtoBH"
         \/ s.type = "AXtoDI" /\ d.type = "AXtoDI"
         \/ s.type = "AXtoDI" /\ d.type = "R8WtoR15W"
         \/ s.type = "R8toR15" /\ d.type = "RAXtoRDI"
         \/ s.type = "RAXtoRDI" /\ d.type = "R8toR15"
  BY <1>0 DEF AluRegs, IsReg, IsRegister, IsImm, IsNumber, IsMem, IsPlain, IsScaled, Sized
<1> QED
  BY <1>1, <1>2, <1>3, <1>4, <1>5, <1>6, <1>7 DEF Right

LEMMA AluImmIs ==
  ASSUME NEW mn, NEW op, NEW d, NEW s,
         OfLine(mn, d, s), mn \in DOMAIN AluOp, op = AluOp[mn], IsRegister(d), IsNumber(s)
  PROVE  Right(AluImm(d, s.num, op), mn, d, s)
<1>0. /\ d.reg \in Octal /\ d.kind = "reg" /\ s.num \in Int32 /\ s.num \in Int /\ s.kind = "imm"
      /\ Octal \subseteq Int /\ op \in Octal /\ op \in Int /\ Stands(mn, op) /\ Straight(mn)
      /\ mn \notin {"mov", "movzx", "movsx", "lea", "test"}
  BY RegisterShape, NumberShape, LongIsInt, AluIs, AluStands DEF Octal, IsRegister, IsNumber
<1>1. CASE d.type = "EAXtoEDI" /\ d.reg = 0
  <2> DEFINE c == <<8 * op + 5>> \o Bytes(s.num, 4)
             p == P0
             i == 2
  <2>1. AluImm(d, s.num, op) = c
    BY <1>1, <1>0 DEF AluImm
  <2>2. ~Misencoded
    BY <1>1, <1>0 DEF Misencoded, HighByteWithRex, NoSib, NoDisp, IndexLost, OffsetLost, BaseLost, SizeLost,
                      HasMem, Ptr, Counterpart, WithSib44, IsAlu, Is, IsReg, IsImm, IsPlain, IsScaled, IsMem,
                      IsRegister, IsMemory, IsNumber, OfLine, None
  <2>3. /\ i = 1 + 1 /\ i \in Nat /\ Len(c) = 5 /\ Len(c) \in Nat /\ Len(c) = i + 4 - 1 /\ c[1] = OpOf(op, 5)
        /\ Quad(c, 2, s.num)
    BY <1>0 DEF Bytes, Quad, OpOf
  <2>4. HasBits(p, 0, 0, 32) /\ HasRx(p) /\ ~p.isRex
    BY PrefixesAre DEF HasBits, HasRx
  <2> HIDE DEF c, i
  <2>5. Starts(c, 1, p)
    <3>1. Len(c) \in Nat /\ 1 <= Len(c) /\ IsOp(c[1])
      BY <2>3, <1>0, AluBytes
    <3> QED
      BY <3>1, NoPrefix, Zenon DEF p
  <2> HIDE DEF p
  <2>6. D!Decoded(c) = D!I(c, i, mn, D!Register(32, 0, FALSE), 32, 4)
    <3> DEFINE o == 1
    <3>1. o \in Nat /\ i = o + 1 /\ c[o] = OpOf(op, 5) /\ Starts(c, o, p)
      BY <2>3, <2>5
    <3> HIDE DEF o
    <3>2. D!Opcode(c, o, p) = D!I(c, i, mn, D!Register(D!Size(p), 0, FALSE), D!Size(p), D!Full(p))
      BY <1>0, <3>1, AluForm5
    <3> QED
      BY <2>4, <3>1, <3>2 DEF Starts, HasBits, D!Full
  <2>7. D!Register(32, 0, FALSE) = D!Reg(d.type, d.reg)
    BY <1>1 DEF D!Register, D!Reg, IsReg
  <2>9. 4 \in Octal /\ HasSizeOf(d, 32)
    BY <1>1, <1>0 DEF Octal, HasSizeOf, SizeOf, IsReg
  <2>10. HasNumber(c, 4, 32, s, 32)
    <3>1. LastBytes(c, 4) = s.num
      BY <1>0, <2>3, QuadIs DEF LastBytes
    <3> QED
      BY <3>1 DEF HasNumber
  <2>8. D!Decoded(c) = D!I(c, i, mn, D!Reg(d.type, d.reg), 32, 4)
    BY <2>6, <2>7
  <2>11. D!Decoded(c) = Means(mn, d, s)
    <3>1. /\ i \in Nat /\ 4 \in Octal /\ EndsWith(c, i, 4) /\ Straight(mn) /\ mn # "lea" /\ mn # "movzx"
          /\ HasSizeOf(d, 32)
      BY <1>0, <2>3, <2>9 DEF EndsWith
    <3> QED
      BY <3>1, <2>8, <2>10, IReg
  <2> QED
    BY <2>1, <2>2, <2>11 DEF Right
<1>2. CASE d.type = "EAXtoEDI" /\ d.reg # 0 /\ Byte(s.num)
  <2> DEFINE c == <<131, Both(Ext(op), d), Low(s.num)>>
             p == P0
             i == 2
  <2>1. AluImm(d, s.num, op) = c
    BY <1>2, <1>0 DEF AluImm
  <2>2. ~Misencoded
    BY <1>2, <1>0 DEF Misencoded, HighByteWithRex, NoSib, NoDisp, IndexLost, OffsetLost, BaseLost, SizeLost,
                      HasMem, Ptr, Counterpart, WithSib44, IsAlu, Is, IsReg, IsImm, IsPlain, IsScaled, IsMem,
                      IsRegister, IsMemory, IsNumber, OfLine, None
  <2>3. /\ i = 1 + 1 /\ i \in Nat /\ Len(c) = 3 /\ Len(c) \in Nat /\ Len(c) = i + 1 /\ c[1] = 131
        /\ Written3(c, i, 3, op, d.reg) /\ c[3] = Low(s.num)
    BY <1>0 DEF Both, Ext, ModRM, Written3, Ext
  <2>4. HasBits(p, 0, 0, 32) /\ HasRx(p) /\ ~p.isRex
    BY PrefixesAre DEF HasBits, HasRx
  <2> HIDE DEF c, i
  <2>5. Starts(c, 1, p)
    <3>1. Len(c) \in Nat /\ 1 <= Len(c) /\ IsOp(c[1])
      BY <2>3 DEF IsOp
    <3> QED
      BY <3>1, NoPrefix, Zenon DEF p
  <2> HIDE DEF p
  <2>6. D!Decoded(c) = D!MI(c, i, p, mn, 32, 1, 32)
    <3>1. D!Extension(c, 1) = op
      <4>1. 1 \in Nat /\ Len(c) \in Nat /\ Len(c) > 1 /\ 3 \in 0 .. 3 /\ Written3(c, 1 + 1, 3, op, d.reg)
        BY <2>3
      <4> QED
        BY <1>0, <4>1, ExtensionIs
    <3> QED
      BY <1>0, <2>3, <2>4, <2>5, <3>1, OpAluExt DEF Starts, HasBits
  <2>7. NamesRm(c, i, p, op, d, 1)
    <3>1. 1 \in Octal /\ op \in Octal /\ i \in Nat /\ Written3(c, i, 3, op, d.reg) /\ Len(c) = i + 1
      BY <1>0, <2>3 DEF Octal
    <3> QED
      BY <3>1, NamesOne
  <2>8. RmIs(p, 32, d)
    BY <1>2, <1>0, <2>4 DEF RmIs, RegIs, Named, HasBits, IsReg, Octal
  <2>9. 32 \in Sizes /\ 1 \in Octal /\ HasSizeOf(d, 32)
    BY <1>2, <1>0 DEF Sizes, Octal, HasSizeOf, SizeOf, IsReg
  <2>10. HasNumber(c, 1, 32, s, 32)
    <3>1. LastBytes(c, 1) = SByte(s.num)
      BY <1>0, <2>3, SignedByte DEF LastBytes
    <3> QED
      BY <1>2, <1>0, <3>1, ByteImm, ShortImm, SByteIs DEF HasNumber
  <2>11. D!Decoded(c) = Means(mn, d, s)
    BY <1>0, <2>3, <2>4, <2>6, <2>7, <2>8, <2>9, <2>10, MIReg
  <2> QED
    BY <2>1, <2>2, <2>11 DEF Right
<1>3. CASE d.type = "EAXtoEDI" /\ d.reg # 0 /\ ~Byte(s.num)
  <2> DEFINE c == <<129, Both(Ext(op), d)>> \o Bytes(s.num, 4)
             p == P0
             i == 2
  <2>1. AluImm(d, s.num, op) = c
    BY <1>3, <1>0 DEF AluImm
  <2>2. ~Misencoded
    BY <1>3, <1>0 DEF Misencoded, HighByteWithRex, NoSib, NoDisp, IndexLost, OffsetLost, BaseLost, SizeLost,
                      HasMem, Ptr, Counterpart, WithSib44, IsAlu, Is, IsReg, IsImm, IsPlain, IsScaled, IsMem,
                      IsRegister, IsMemory, IsNumber, OfLine, None
  <2>3. /\ i = 1 + 1 /\ i \in Nat /\ Len(c) = 6 /\ Len(c) \in Nat /\ Len(c) = i + 4 /\ c[1] = 129
        /\ Written3(c, i, 3, op, d.reg) /\ Quad(c, 3, s.num)
    BY <1>0 DEF Both, Ext, ModRM, Written3, Bytes, Quad, Ext
  <2>4. HasBits(p, 0, 0, 32) /\ HasRx(p) /\ ~p.isRex
    BY PrefixesAre DEF HasBits, HasRx
  <2> HIDE DEF c, i
  <2>5. Starts(c, 1, p)
    <3>1. Len(c) \in Nat /\ 1 <= Len(c) /\ IsOp(c[1])
      BY <2>3 DEF IsOp
    <3> QED
      BY <3>1, NoPrefix, Zenon DEF p
  <2> HIDE DEF p
  <2>6. D!Decoded(c) = D!MI(c, i, p, mn, 32, 4, 32)
    <3>1. D!Extension(c, 1) = op
      <4>1. 1 \in Nat /\ Len(c) \in Nat /\ Len(c) > 1 /\ 3 \in 0 .. 3 /\ Written3(c, 1 + 1, 3, op, d.reg)
        BY <2>3
      <4> QED
        BY <1>0, <4>1, ExtensionIs
    <3> QED
      BY <1>0, <2>3, <2>4, <2>5, <3>1, OpAluExt DEF Starts, HasBits, D!Full
  <2>7. NamesRm(c, i, p, op, d, 4)
    <3>1. 4 \in Octal /\ op \in Octal /\ i \in Nat /\ Written3(c, i, 3, op, d.reg) /\ Len(c) = i + 4
      BY <1>0, <2>3 DEF Octal
    <3> QED
      BY <3>1, NamesOne
  <2>8. RmIs(p, 32, d)
    BY <1>3, <1>0, <2>4 DEF RmIs, RegIs, Named, HasBits, IsReg, Octal
  <2>9. 32 \in Sizes /\ 4 \in Octal /\ HasSizeOf(d, 32)
    BY <1>3, <1>0 DEF Sizes, Octal, HasSizeOf, SizeOf, IsReg
  <2>10. HasNumber(c, 4, 32, s, 32)
    <3>1. LastBytes(c, 4) = s.num
      BY <1>0, <2>3, QuadIs DEF LastBytes
    <3> QED
      BY <3>1 DEF HasNumber
  <2>11. D!Decoded(c) = Means(mn, d, s)
    BY <1>0, <2>3, <2>4, <2>6, <2>7, <2>8, <2>9, <2>10, MIReg
  <2> QED
    BY <2>1, <2>2, <2>11 DEF Right
<1>4. CASE d.type = "ALtoBH" /\ ByteHalf(s.num) /\ d.reg = 0
  <2> DEFINE c == <<8 * op + 4, Low(s.num)>>
             p == P0
             i == 2
  <2>1. AluImm(d, s.num, op) = c
    BY <1>4, <1>0 DEF AluImm
  <2>2. ~Misencoded
    BY <1>4, <1>0 DEF Misencoded, HighByteWithRex, NoSib, NoDisp, IndexLost, OffsetLost, BaseLost, SizeLost,
                      HasMem, Ptr, Counterpart, WithSib44, IsAlu, Is, IsReg, IsImm, IsPlain, IsScaled, IsMem,
                      IsRegister, IsMemory, IsNumber, OfLine, None
  <2>3. /\ i = 1 + 1 /\ i \in Nat /\ Len(c) = 2 /\ Len(c) \in Nat /\ Len(c) = i + 1 - 1 /\ c[1] = OpOf(op, 4)
        /\ c[2] = Low(s.num)
    BY <1>0 DEF OpOf
  <2>4. HasBits(p, 0, 0, 32) /\ HasRx(p) /\ ~p.isRex
    BY PrefixesAre DEF HasBits, HasRx
  <2> HIDE DEF c, i
  <2>5. Starts(c, 1, p)
    <3>1. Len(c) \in Nat /\ 1 <= Len(c) /\ IsOp(c[1])
      BY <2>3, <1>0, AluBytes
    <3> QED
      BY <3>1, NoPrefix, Zenon DEF p
  <2> HIDE DEF p
  <2>6. D!Decoded(c) = D!I(c, i, mn, D!Register(8, 0, FALSE), 8, 1)
    <3> DEFINE o == 1
    <3>1. o \in Nat /\ i = o + 1 /\ c[o] = OpOf(op, 4) /\ Starts(c, o, p)
      BY <2>3, <2>5
    <3> HIDE DEF o
    <3>2. D!Opcode(c, o, p) = D!I(c, i, mn, D!Register(8, 0, FALSE), 8, 1)
      BY <1>0, <3>1, AluForm4
    <3> QED
      BY <2>4, <3>1, <3>2 DEF Starts, HasBits, D!Full
  <2>7. D!Register(8, 0, FALSE) = D!Reg(d.type, d.reg)
    BY <1>4 DEF D!Register, D!Reg, IsReg
  <2>9. 1 \in Octal /\ HasSizeOf(d, 8)
    BY <1>4, <1>0 DEF Octal, HasSizeOf, SizeOf, IsReg
  <2>10. HasNumber(c, 1, 8, s, 8)
    <3>1. LastBytes(c, 1) = SByte(s.num)
      BY <1>0, <2>3, SignedByte DEF LastBytes
    <3> QED
      BY <1>4, <1>0, <3>1, ByteImm, ShortImm, SByteIs DEF HasNumber
  <2>8. D!Decoded(c) = D!I(c, i, mn, D!Reg(d.type, d.reg), 8, 1)
    BY <2>6, <2>7
  <2>11. D!Decoded(c) = Means(mn, d, s)
    <3>1. /\ i \in Nat /\ 1 \in Octal /\ EndsWith(c, i, 1) /\ Straight(mn) /\ mn # "lea" /\ mn # "movzx"
          /\ HasSizeOf(d, 8)
      BY <1>0, <2>3, <2>9 DEF EndsWith
    <3> QED
      BY <3>1, <2>8, <2>10, IReg
  <2> QED
    BY <2>1, <2>2, <2>11 DEF Right
<1>5. CASE d.type = "ALtoBH" /\ ByteHalf(s.num) /\ d.reg # 0
  <2> DEFINE c == <<128, Both(Ext(op), d), Low(s.num)>>
             p == P0
             i == 2
  <2>1. AluImm(d, s.num, op) = c
    BY <1>5, <1>0 DEF AluImm
  <2>2. ~Misencoded
    BY <1>5, <1>0 DEF Misencoded, HighByteWithRex, NoSib, NoDisp, IndexLost, OffsetLost, BaseLost, SizeLost,
                      HasMem, Ptr, Counterpart, WithSib44, IsAlu, Is, IsReg, IsImm, IsPlain, IsScaled, IsMem,
                      IsRegister, IsMemory, IsNumber, OfLine, None
  <2>3. /\ i = 1 + 1 /\ i \in Nat /\ Len(c) = 3 /\ Len(c) \in Nat /\ Len(c) = i + 1 /\ c[1] = 128
        /\ Written3(c, i, 3, op, d.reg) /\ c[3] = Low(s.num)
    BY <1>0 DEF Both, Ext, ModRM, Written3, Ext
  <2>4. HasBits(p, 0, 0, 32) /\ HasRx(p) /\ ~p.isRex
    BY PrefixesAre DEF HasBits, HasRx
  <2> HIDE DEF c, i
  <2>5. Starts(c, 1, p)
    <3>1. Len(c) \in Nat /\ 1 <= Len(c) /\ IsOp(c[1])
      BY <2>3 DEF IsOp
    <3> QED
      BY <3>1, NoPrefix, Zenon DEF p
  <2> HIDE DEF p
  <2>6. D!Decoded(c) = D!MI(c, i, p, mn, 8, 1, 8)
    <3>1. D!Extension(c, 1) = op
      <4>1. 1 \in Nat /\ Len(c) \in Nat /\ Len(c) > 1 /\ 3 \in 0 .. 3 /\ Written3(c, 1 + 1, 3, op, d.reg)
        BY <2>3
      <4> QED
        BY <1>0, <4>1, ExtensionIs
    <3> QED
      BY <1>0, <2>3, <2>4, <2>5, <3>1, OpAluExt DEF Starts, HasBits
  <2>7. NamesRm(c, i, p, op, d, 1)
    <3>1. 1 \in Octal /\ op \in Octal /\ i \in Nat /\ Written3(c, i, 3, op, d.reg) /\ Len(c) = i + 1
      BY <1>0, <2>3 DEF Octal
    <3> QED
      BY <3>1, NamesOne
  <2>8. RmIs(p, 8, d)
    BY <1>5, <1>0, <2>4 DEF RmIs, RegIs, Named, HasBits, IsReg, Octal
  <2>9. 8 \in Sizes /\ 1 \in Octal /\ HasSizeOf(d, 8)
    BY <1>5, <1>0 DEF Sizes, Octal, HasSizeOf, SizeOf, IsReg
  <2>10. HasNumber(c, 1, 8, s, 8)
    <3>1. LastBytes(c, 1) = SByte(s.num)
      BY <1>0, <2>3, SignedByte DEF LastBytes
    <3> QED
      BY <1>5, <1>0, <3>1, ByteImm, ShortImm, SByteIs DEF HasNumber
  <2>11. D!Decoded(c) = Means(mn, d, s)
    BY <1>0, <2>3, <2>4, <2>6, <2>7, <2>8, <2>9, <2>10, MIReg
  <2> QED
    BY <2>1, <2>2, <2>11 DEF Right
<1>6. CASE d.type = "AXtoDI" /\ ShortImm16(s.num)
  <2> DEFINE c == <<102, 131, Both(Ext(op), d), Low(s.num)>>
             p == P66
             i == 3
  <2>1. AluImm(d, s.num, op) = c
    BY <1>6, <1>0 DEF AluImm
  <2>2. ~Misencoded
    BY <1>6, <1>0 DEF Misencoded, HighByteWithRex, NoSib, NoDisp, IndexLost, OffsetLost, BaseLost, SizeLost,
                      HasMem, Ptr, Counterpart, WithSib44, IsAlu, Is, IsReg, IsImm, IsPlain, IsScaled, IsMem,
                      IsRegister, IsMemory, IsNumber, OfLine, None
  <2>3. /\ i = 2 + 1 /\ i \in Nat /\ Len(c) = 4 /\ Len(c) \in Nat /\ Len(c) = i + 1 /\ c[1] = 102 /\ c[2] = 131
        /\ Written3(c, i, 3, op, d.reg) /\ c[4] = Low(s.num)
    BY <1>0 DEF Both, Ext, ModRM, Written3, Ext
  <2>4. HasBits(p, 0, 0, 16) /\ HasRx(p) /\ ~p.isRex
    BY PrefixesAre DEF HasBits, HasRx
  <2> HIDE DEF c, i
  <2>5. Starts(c, 2, p)
    <3>1. Len(c) \in Nat /\ 2 <= Len(c) /\ c[1] = 102 /\ IsOp(c[2])
      BY <2>3 DEF IsOp
    <3> QED
      BY <3>1, Prefix66, Zenon DEF p
  <2> HIDE DEF p
  <2>6. D!Decoded(c) = D!MI(c, i, p, mn, 16, 1, 16)
    <3>1. D!Extension(c, 2) = op
      <4>1. 2 \in Nat /\ Len(c) \in Nat /\ Len(c) > 2 /\ 3 \in 0 .. 3 /\ Written3(c, 2 + 1, 3, op, d.reg)
        BY <2>3
      <4> QED
        BY <1>0, <4>1, ExtensionIs
    <3> QED
      BY <1>0, <2>3, <2>4, <2>5, <3>1, OpAluExt DEF Starts, HasBits
  <2>7. NamesRm(c, i, p, op, d, 1)
    <3>1. 1 \in Octal /\ op \in Octal /\ i \in Nat /\ Written3(c, i, 3, op, d.reg) /\ Len(c) = i + 1
      BY <1>0, <2>3 DEF Octal
    <3> QED
      BY <3>1, NamesOne
  <2>8. RmIs(p, 16, d)
    BY <1>6, <1>0, <2>4 DEF RmIs, RegIs, Named, HasBits, IsReg, Octal
  <2>9. 16 \in Sizes /\ 1 \in Octal /\ HasSizeOf(d, 16)
    BY <1>6, <1>0 DEF Sizes, Octal, HasSizeOf, SizeOf, IsReg
  <2>10. HasNumber(c, 1, 16, s, 16)
    <3>1. LastBytes(c, 1) = SByte(s.num)
      BY <1>0, <2>3, SignedByte DEF LastBytes
    <3> QED
      BY <1>6, <1>0, <3>1, ByteImm, ShortImm, SByteIs DEF HasNumber
  <2>11. D!Decoded(c) = Means(mn, d, s)
    BY <1>0, <2>3, <2>4, <2>6, <2>7, <2>8, <2>9, <2>10, MIReg
  <2> QED
    BY <2>1, <2>2, <2>11 DEF Right
<1>7. CASE d.type = "AXtoDI" /\ ~ShortImm16(s.num)
  <2> DEFINE c == <<102, 129, Both(Ext(op), d)>> \o Bytes(s.num, 2)
             p == P66
             i == 3
  <2>1. AluImm(d, s.num, op) = c
    BY <1>7, <1>0 DEF AluImm
  <2>2. ~Misencoded
    BY <1>7, <1>0 DEF Misencoded, HighByteWithRex, NoSib, NoDisp, IndexLost, OffsetLost, BaseLost, SizeLost,
                      HasMem, Ptr, Counterpart, WithSib44, IsAlu, Is, IsReg, IsImm, IsPlain, IsScaled, IsMem,
                      IsRegister, IsMemory, IsNumber, OfLine, None
  <2>3. /\ i = 2 + 1 /\ i \in Nat /\ Len(c) = 5 /\ Len(c) \in Nat /\ Len(c) = i + 2 /\ c[1] = 102 /\ c[2] = 129
        /\ Written3(c, i, 3, op, d.reg) /\ Pair(c, 4, s.num)
    BY <1>0 DEF Both, Ext, ModRM, Written3, Bytes, Pair, Ext
  <2>4. HasBits(p, 0, 0, 16) /\ HasRx(p) /\ ~p.isRex
    BY PrefixesAre DEF HasBits, HasRx
  <2> HIDE DEF c, i
  <2>5. Starts(c, 2, p)
    <3>1. Len(c) \in Nat /\ 2 <= Len(c) /\ c[1] = 102 /\ IsOp(c[2])
      BY <2>3 DEF IsOp
    <3> QED
      BY <3>1, Prefix66, Zenon DEF p
  <2> HIDE DEF p
  <2>6. D!Decoded(c) = D!MI(c, i, p, mn, 16, 2, 16)
    <3>1. D!Extension(c, 2) = op
      <4>1. 2 \in Nat /\ Len(c) \in Nat /\ Len(c) > 2 /\ 3 \in 0 .. 3 /\ Written3(c, 2 + 1, 3, op, d.reg)
        BY <2>3
      <4> QED
        BY <1>0, <4>1, ExtensionIs
    <3> QED
      BY <1>0, <2>3, <2>4, <2>5, <3>1, OpAluExt DEF Starts, HasBits, D!Full
  <2>7. NamesRm(c, i, p, op, d, 2)
    <3>1. 2 \in Octal /\ op \in Octal /\ i \in Nat /\ Written3(c, i, 3, op, d.reg) /\ Len(c) = i + 2
      BY <1>0, <2>3 DEF Octal
    <3> QED
      BY <3>1, NamesOne
  <2>8. RmIs(p, 16, d)
    BY <1>7, <1>0, <2>4 DEF RmIs, RegIs, Named, HasBits, IsReg, Octal
  <2>9. 16 \in Sizes /\ 2 \in Octal /\ HasSizeOf(d, 16)
    BY <1>7, <1>0 DEF Sizes, Octal, HasSizeOf, SizeOf, IsReg
  <2>10. HasNumber(c, 2, 16, s, 16)
    <3>1. LastBytes(c, 2) % 65536 = s.num % 65536 /\ LastBytes(c, 2) \in Int
      BY <1>0, <2>3, PairIs, PairInt DEF LastBytes
    <3> QED
      BY <1>0, <3>1, ImmsEqual DEF HasNumber
  <2>11. D!Decoded(c) = Means(mn, d, s)
    BY <1>0, <2>3, <2>4, <2>6, <2>7, <2>8, <2>9, <2>10, MIReg
  <2> QED
    BY <2>1, <2>2, <2>11 DEF Right
<1>8. CASE d.type = "RAXtoRDI" /\ Byte(s.num)
  <2> DEFINE c == <<72, 131, Both(Ext(op), d), Low(s.num)>>
             p == PRex(1, 0, 0)
             i == 3
  <2>1. AluImm(d, s.num, op) = c
    BY <1>8, <1>0 DEF AluImm
  <2>2. ~Misencoded
    BY <1>8, <1>0 DEF Misencoded, HighByteWithRex, NoSib, NoDisp, IndexLost, OffsetLost, BaseLost, SizeLost,
                      HasMem, Ptr, Counterpart, WithSib44, IsAlu, Is, IsReg, IsImm, IsPlain, IsScaled, IsMem,
                      IsRegister, IsMemory, IsNumber, OfLine, None
  <2>3. /\ i = 2 + 1 /\ i \in Nat /\ Len(c) = 4 /\ Len(c) \in Nat /\ Len(c) = i + 1 /\ c[1] = 72 /\ c[2] = 131
        /\ Written3(c, i, 3, op, d.reg) /\ c[4] = Low(s.num)
    BY <1>0 DEF Both, Ext, ModRM, Written3, Ext
  <2>4. HasBits(p, 0, 0, 64) /\ HasRx(p) /\ p.isRex
    BY PrefixesAre DEF HasBits, HasRx
  <2> HIDE DEF c, i
  <2>5. Starts(c, 2, p)
    <3>1. Len(c) \in Nat /\ 2 <= Len(c) /\ c[1] = 72
      BY <2>3
    <3> QED
      BY <3>1, RexPrefixes, Zenon DEF p
  <2> HIDE DEF p
  <2>6. D!Decoded(c) = D!MI(c, i, p, mn, 64, 1, 64)
    <3>1. D!Extension(c, 2) = op
      <4>1. 2 \in Nat /\ Len(c) \in Nat /\ Len(c) > 2 /\ 3 \in 0 .. 3 /\ Written3(c, 2 + 1, 3, op, d.reg)
        BY <2>3
      <4> QED
        BY <1>0, <4>1, ExtensionIs
    <3> QED
      BY <1>0, <2>3, <2>4, <2>5, <3>1, OpAluExt DEF Starts, HasBits
  <2>7. NamesRm(c, i, p, op, d, 1)
    <3>1. 1 \in Octal /\ op \in Octal /\ i \in Nat /\ Written3(c, i, 3, op, d.reg) /\ Len(c) = i + 1
      BY <1>0, <2>3 DEF Octal
    <3> QED
      BY <3>1, NamesOne
  <2>8. RmIs(p, 64, d)
    BY <1>8, <1>0, <2>4 DEF RmIs, RegIs, Named, HasBits, IsReg, Octal
  <2>9. 64 \in Sizes /\ 1 \in Octal /\ HasSizeOf(d, 64)
    BY <1>8, <1>0 DEF Sizes, Octal, HasSizeOf, SizeOf, IsReg
  <2>10. HasNumber(c, 1, 64, s, 64)
    <3>1. LastBytes(c, 1) = SByte(s.num)
      BY <1>0, <2>3, SignedByte DEF LastBytes
    <3> QED
      BY <1>8, <1>0, <3>1, ByteImm, ShortImm, SByteIs DEF HasNumber
  <2>11. D!Decoded(c) = Means(mn, d, s)
    BY <1>0, <2>3, <2>4, <2>6, <2>7, <2>8, <2>9, <2>10, MIReg
  <2> QED
    BY <2>1, <2>2, <2>11 DEF Right
<1>9. CASE d.type = "RAXtoRDI" /\ ~Byte(s.num)
  <2> DEFINE c == <<72, 129, Both(Ext(op), d)>> \o Bytes(s.num, 4)
             p == PRex(1, 0, 0)
             i == 3
  <2>1. AluImm(d, s.num, op) = c
    BY <1>9, <1>0 DEF AluImm
  <2>2. ~Misencoded
    BY <1>9, <1>0 DEF Misencoded, HighByteWithRex, NoSib, NoDisp, IndexLost, OffsetLost, BaseLost, SizeLost,
                      HasMem, Ptr, Counterpart, WithSib44, IsAlu, Is, IsReg, IsImm, IsPlain, IsScaled, IsMem,
                      IsRegister, IsMemory, IsNumber, OfLine, None
  <2>3. /\ i = 2 + 1 /\ i \in Nat /\ Len(c) = 7 /\ Len(c) \in Nat /\ Len(c) = i + 4 /\ c[1] = 72 /\ c[2] = 129
        /\ Written3(c, i, 3, op, d.reg) /\ Quad(c, 4, s.num)
    BY <1>0 DEF Both, Ext, ModRM, Written3, Bytes, Quad, Ext
  <2>4. HasBits(p, 0, 0, 64) /\ HasRx(p) /\ p.isRex
    BY PrefixesAre DEF HasBits, HasRx
  <2> HIDE DEF c, i
  <2>5. Starts(c, 2, p)
    <3>1. Len(c) \in Nat /\ 2 <= Len(c) /\ c[1] = 72
      BY <2>3
    <3> QED
      BY <3>1, RexPrefixes, Zenon DEF p
  <2> HIDE DEF p
  <2>6. D!Decoded(c) = D!MI(c, i, p, mn, 64, 4, 64)
    <3>1. D!Extension(c, 2) = op
      <4>1. 2 \in Nat /\ Len(c) \in Nat /\ Len(c) > 2 /\ 3 \in 0 .. 3 /\ Written3(c, 2 + 1, 3, op, d.reg)
        BY <2>3
      <4> QED
        BY <1>0, <4>1, ExtensionIs
    <3> QED
      BY <1>0, <2>3, <2>4, <2>5, <3>1, OpAluExt DEF Starts, HasBits, D!Full
  <2>7. NamesRm(c, i, p, op, d, 4)
    <3>1. 4 \in Octal /\ op \in Octal /\ i \in Nat /\ Written3(c, i, 3, op, d.reg) /\ Len(c) = i + 4
      BY <1>0, <2>3 DEF Octal
    <3> QED
      BY <3>1, NamesOne
  <2>8. RmIs(p, 64, d)
    BY <1>9, <1>0, <2>4 DEF RmIs, RegIs, Named, HasBits, IsReg, Octal
  <2>9. 64 \in Sizes /\ 4 \in Octal /\ HasSizeOf(d, 64)
    BY <1>9, <1>0 DEF Sizes, Octal, HasSizeOf, SizeOf, IsReg
  <2>10. HasNumber(c, 4, 64, s, 64)
    <3>1. LastBytes(c, 4) = s.num
      BY <1>0, <2>3, QuadIs DEF LastBytes
    <3> QED
      BY <3>1 DEF HasNumber
  <2>11. D!Decoded(c) = Means(mn, d, s)
    BY <1>0, <2>3, <2>4, <2>6, <2>7, <2>8, <2>9, <2>10, MIReg
  <2> QED
    BY <2>1, <2>2, <2>11 DEF Right
<1>10. CASE d.type = "R8toR15" /\ Byte(s.num)
  <2> DEFINE c == <<73, 131, Both(Ext(op), d), Low(s.num)>>
             p == PRex(1, 0, 1)
             i == 3
  <2>1. AluImm(d, s.num, op) = c
    BY <1>10, <1>0 DEF AluImm
  <2>2. ~Misencoded
    BY <1>10, <1>0 DEF Misencoded, HighByteWithRex, NoSib, NoDisp, IndexLost, OffsetLost, BaseLost, SizeLost,
                       HasMem, Ptr, Counterpart, WithSib44, IsAlu, Is, IsReg, IsImm, IsPlain, IsScaled, IsMem,
                       IsRegister, IsMemory, IsNumber, OfLine, None
  <2>3. /\ i = 2 + 1 /\ i \in Nat /\ Len(c) = 4 /\ Len(c) \in Nat /\ Len(c) = i + 1 /\ c[1] = 73 /\ c[2] = 131
        /\ Written3(c, i, 3, op, d.reg) /\ c[4] = Low(s.num)
    BY <1>0 DEF Both, Ext, ModRM, Written3, Ext
  <2>4. HasBits(p, 0, 1, 64) /\ HasRx(p) /\ p.isRex
    BY PrefixesAre DEF HasBits, HasRx
  <2> HIDE DEF c, i
  <2>5. Starts(c, 2, p)
    <3>1. Len(c) \in Nat /\ 2 <= Len(c) /\ c[1] = 73
      BY <2>3
    <3> QED
      BY <3>1, RexPrefixes, Zenon DEF p
  <2> HIDE DEF p
  <2>6. D!Decoded(c) = D!MI(c, i, p, mn, 64, 1, 64)
    <3>1. D!Extension(c, 2) = op
      <4>1. 2 \in Nat /\ Len(c) \in Nat /\ Len(c) > 2 /\ 3 \in 0 .. 3 /\ Written3(c, 2 + 1, 3, op, d.reg)
        BY <2>3
      <4> QED
        BY <1>0, <4>1, ExtensionIs
    <3> QED
      BY <1>0, <2>3, <2>4, <2>5, <3>1, OpAluExt DEF Starts, HasBits
  <2>7. NamesRm(c, i, p, op, d, 1)
    <3>1. 1 \in Octal /\ op \in Octal /\ i \in Nat /\ Written3(c, i, 3, op, d.reg) /\ Len(c) = i + 1
      BY <1>0, <2>3 DEF Octal
    <3> QED
      BY <3>1, NamesOne
  <2>8. RmIs(p, 64, d)
    BY <1>10, <1>0, <2>4 DEF RmIs, RegIs, Named, HasBits, IsReg, Octal
  <2>9. 64 \in Sizes /\ 1 \in Octal /\ HasSizeOf(d, 64)
    BY <1>10, <1>0 DEF Sizes, Octal, HasSizeOf, SizeOf, IsReg
  <2>10. HasNumber(c, 1, 64, s, 64)
    <3>1. LastBytes(c, 1) = SByte(s.num)
      BY <1>0, <2>3, SignedByte DEF LastBytes
    <3> QED
      BY <1>10, <1>0, <3>1, ByteImm, ShortImm, SByteIs DEF HasNumber
  <2>11. D!Decoded(c) = Means(mn, d, s)
    BY <1>0, <2>3, <2>4, <2>6, <2>7, <2>8, <2>9, <2>10, MIReg
  <2> QED
    BY <2>1, <2>2, <2>11 DEF Right
<1>11. CASE d.type = "R8toR15" /\ ~Byte(s.num)
  <2> DEFINE c == <<73, 129, Both(Ext(op), d)>> \o Bytes(s.num, 4)
             p == PRex(1, 0, 1)
             i == 3
  <2>1. AluImm(d, s.num, op) = c
    BY <1>11, <1>0 DEF AluImm
  <2>2. ~Misencoded
    BY <1>11, <1>0 DEF Misencoded, HighByteWithRex, NoSib, NoDisp, IndexLost, OffsetLost, BaseLost, SizeLost,
                       HasMem, Ptr, Counterpart, WithSib44, IsAlu, Is, IsReg, IsImm, IsPlain, IsScaled, IsMem,
                       IsRegister, IsMemory, IsNumber, OfLine, None
  <2>3. /\ i = 2 + 1 /\ i \in Nat /\ Len(c) = 7 /\ Len(c) \in Nat /\ Len(c) = i + 4 /\ c[1] = 73 /\ c[2] = 129
        /\ Written3(c, i, 3, op, d.reg) /\ Quad(c, 4, s.num)
    BY <1>0 DEF Both, Ext, ModRM, Written3, Bytes, Quad, Ext
  <2>4. HasBits(p, 0, 1, 64) /\ HasRx(p) /\ p.isRex
    BY PrefixesAre DEF HasBits, HasRx
  <2> HIDE DEF c, i
  <2>5. Starts(c, 2, p)
    <3>1. Len(c) \in Nat /\ 2 <= Len(c) /\ c[1] = 73
      BY <2>3
    <3> QED
      BY <3>1, RexPrefixes, Zenon DEF p
  <2> HIDE DEF p
  <2>6. D!Decoded(c) = D!MI(c, i, p, mn, 64, 4, 64)
    <3>1. D!Extension(c, 2) = op
      <4>1. 2 \in Nat /\ Len(c) \in Nat /\ Len(c) > 2 /\ 3 \in 0 .. 3 /\ Written3(c, 2 + 1, 3, op, d.reg)
        BY <2>3
      <4> QED
        BY <1>0, <4>1, ExtensionIs
    <3> QED
      BY <1>0, <2>3, <2>4, <2>5, <3>1, OpAluExt DEF Starts, HasBits, D!Full
  <2>7. NamesRm(c, i, p, op, d, 4)
    <3>1. 4 \in Octal /\ op \in Octal /\ i \in Nat /\ Written3(c, i, 3, op, d.reg) /\ Len(c) = i + 4
      BY <1>0, <2>3 DEF Octal
    <3> QED
      BY <3>1, NamesOne
  <2>8. RmIs(p, 64, d)
    BY <1>11, <1>0, <2>4 DEF RmIs, RegIs, Named, HasBits, IsReg, Octal
  <2>9. 64 \in Sizes /\ 4 \in Octal /\ HasSizeOf(d, 64)
    BY <1>11, <1>0 DEF Sizes, Octal, HasSizeOf, SizeOf, IsReg
  <2>10. HasNumber(c, 4, 64, s, 64)
    <3>1. LastBytes(c, 4) = s.num
      BY <1>0, <2>3, QuadIs DEF LastBytes
    <3> QED
      BY <3>1 DEF HasNumber
  <2>11. D!Decoded(c) = Means(mn, d, s)
    BY <1>0, <2>3, <2>4, <2>6, <2>7, <2>8, <2>9, <2>10, MIReg
  <2> QED
    BY <2>1, <2>2, <2>11 DEF Right
<1>12. AluImm(d, s.num, op) # Refuse =>
         \/ d.type = "EAXtoEDI" /\ d.reg = 0
         \/ d.type = "EAXtoEDI" /\ d.reg # 0 /\ Byte(s.num)
         \/ d.type = "EAXtoEDI" /\ d.reg # 0 /\ ~Byte(s.num)
         \/ d.type = "ALtoBH" /\ ByteHalf(s.num) /\ d.reg = 0
         \/ d.type = "ALtoBH" /\ ByteHalf(s.num) /\ d.reg # 0
         \/ d.type = "AXtoDI" /\ ShortImm16(s.num)
         \/ d.type = "AXtoDI" /\ ~ShortImm16(s.num)
         \/ d.type = "RAXtoRDI" /\ Byte(s.num)
         \/ d.type = "RAXtoRDI" /\ ~Byte(s.num)
         \/ d.type = "R8toR15" /\ Byte(s.num)
         \/ d.type = "R8toR15" /\ ~Byte(s.num)
  BY <1>0 DEF AluImm
<1> QED
  BY <1>1, <1>2, <1>3, <1>4, <1>5, <1>6, <1>7, <1>8, <1>9, <1>10, <1>11, <1>12 DEF Right

LEMMA RegOpBytes ==
  ASSUME NEW x, x.reg \in Octal
  PROVE  IsOp(RegOp(80, x)) /\ IsOp(RegOp(88, x)) /\ IsOp(RegOp(176, x)) /\ IsOp(RegOp(184, x))
BY DEF IsOp, Octal, RegOp

LEMMA MovImmIs ==
  ASSUME NEW d, NEW s,
         OfLine("mov", d, s), IsRegister(d), IsNumber(s)
  PROVE  Right(MovImm(d, s.num), "mov", d, s)
<1>0. /\ d.reg \in Octal /\ d.kind = "reg" /\ s.num \in Int32 /\ s.num \in Int /\ s.kind = "imm"
      /\ Octal \subseteq Int /\ Straight("mov") /\ "mov" \notin DOMAIN AluOp /\ 0 \in Octal /\ 4 \in Octal
  BY RegisterShape, NumberShape, LongIsInt DEF Octal, IsRegister, IsNumber, ShiftOp, AluOp, Straight
<1>1. CASE d.type = "EAXtoEDI" /\ ~Byte(s.num)
  <2> DEFINE c == <<184 + d.reg>> \o Bytes(s.num, 4)
             p == P0
             i == 2
  <2>1. MovImm(d, s.num) = c
    BY <1>1, <1>0 DEF MovImm, FitsImm32
  <2>2. ~Misencoded
    BY <1>1, <1>0 DEF Misencoded, HighByteWithRex, NoSib, NoDisp, IndexLost, OffsetLost, BaseLost, SizeLost,
                      HasMem, Ptr, Counterpart, WithSib44, IsAlu, Is, IsReg, IsImm, IsPlain, IsScaled, IsMem,
                      IsRegister, IsMemory, IsNumber, OfLine, None
  <2>3. /\ i = 1 + 1 /\ i \in Nat /\ Len(c) = 5 /\ Len(c) \in Nat /\ Len(c) = i + 4 - 1 /\ c[1] = RegOp(184, d)
        /\ Quad(c, 2, s.num)
    BY <1>0 DEF Bytes, Quad, RegOp
  <2>4. HasBits(p, 0, 0, 32) /\ HasRx(p) /\ ~p.isRex
    BY PrefixesAre DEF HasBits, HasRx
  <2> HIDE DEF c, i
  <2>5. Starts(c, 1, p)
    <3>1. Len(c) \in Nat /\ 1 <= Len(c) /\ IsOp(c[1])
      BY <2>3, <1>0, RegOpBytes
    <3> QED
      BY <3>1, NoPrefix, Zenon DEF p
  <2> HIDE DEF p
  <2>7. RmIs(p, 32, d)
    BY <1>1, <1>0, <2>4 DEF RmIs, Named, HasBits, IsReg, Octal
  <2>6. D!Decoded(c) = D!I(c, i, "mov", D!Reg(d.type, d.reg), 32, 4)
    <3> DEFINE o == 1
    <3>1. i = o + 1 /\ o \in Nat /\ c[o] = RegOp(184, d) /\ Starts(c, o, p)
      BY <2>3, <2>5
    <3> HIDE DEF o
    <3>2. 32 \in Sizes /\ 32 = D!Size(p) /\ D!Full(p) = 4
      BY <2>4 DEF HasBits, D!Full, Sizes
    <3>3. D!Opcode(c, o, p) = D!I(c, o + 1, "mov", D!Reg(d.type, d.reg), 32, D!Full(p))
      BY <1>0, <2>4, <2>7, <3>1, <3>2, CodedMov
    <3> QED
      BY <3>1, <3>2, <3>3 DEF Starts
  <2>9. 4 \in Octal /\ HasSizeOf(d, 32)
    BY <1>1, <1>0 DEF Octal, HasSizeOf, SizeOf, IsReg
  <2>10. HasNumber(c, 4, 32, s, 32)
    <3>1. LastBytes(c, 4) = s.num
      BY <1>0, <2>3, QuadIs DEF LastBytes
    <3> QED
      BY <3>1 DEF HasNumber
  <2>11. D!Decoded(c) = Means("mov", d, s)
    <3>1. /\ i \in Nat /\ 4 \in Octal /\ EndsWith(c, i, 4) /\ Straight("mov") /\ "mov" # "lea"
          /\ "mov" # "movzx" /\ HasSizeOf(d, 32)
      BY <1>0, <2>3, <2>9 DEF EndsWith
    <3> QED
      BY <3>1, <2>6, <2>10, IReg
  <2> QED
    BY <2>1, <2>2, <2>11 DEF Right
<1>2. CASE d.type = "ALtoBH"
  <2> DEFINE c == <<176 + d.reg, Low(s.num)>>
             p == P0
             i == 2
  <2>1. MovImm(d, s.num) = c
    BY <1>2, <1>0 DEF MovImm, FitsImm32
  <2>2. ~Misencoded
    BY <1>2, <1>0 DEF Misencoded, HighByteWithRex, NoSib, NoDisp, IndexLost, OffsetLost, BaseLost, SizeLost,
                      HasMem, Ptr, Counterpart, WithSib44, IsAlu, Is, IsReg, IsImm, IsPlain, IsScaled, IsMem,
                      IsRegister, IsMemory, IsNumber, OfLine, None
  <2>3. /\ i = 1 + 1 /\ i \in Nat /\ Len(c) = 2 /\ Len(c) \in Nat /\ Len(c) = i + 1 - 1 /\ c[1] = RegOp(176, d)
        /\ c[2] = Low(s.num)
    BY <1>0 DEF RegOp
  <2>4. HasBits(p, 0, 0, 32) /\ HasRx(p) /\ ~p.isRex
    BY PrefixesAre DEF HasBits, HasRx
  <2> HIDE DEF c, i
  <2>5. Starts(c, 1, p)
    <3>1. Len(c) \in Nat /\ 1 <= Len(c) /\ IsOp(c[1])
      BY <2>3, <1>0, RegOpBytes
    <3> QED
      BY <3>1, NoPrefix, Zenon DEF p
  <2> HIDE DEF p
  <2>7. RmIs(p, 8, d)
    BY <1>2, <1>0, <2>4 DEF RmIs, Named, HasBits, IsReg, Octal
  <2>6. D!Decoded(c) = D!I(c, i, "mov", D!Reg(d.type, d.reg), 8, 1)
    <3> DEFINE o == 1
    <3>1. i = o + 1 /\ o \in Nat /\ c[o] = RegOp(176, d) /\ Starts(c, o, p)
      BY <2>3, <2>5
    <3> HIDE DEF o
    <3>2. D!Opcode(c, o, p) = D!I(c, o + 1, "mov", D!Reg(d.type, d.reg), 8, 1)
      BY <1>0, <2>4, <2>7, <3>1, CodedMov8
    <3> QED
      BY <3>1, <3>2 DEF Starts
  <2>9. 1 \in Octal /\ HasSizeOf(d, 8)
    BY <1>2, <1>0 DEF Octal, HasSizeOf, SizeOf, IsReg
  <2>10. HasNumber(c, 1, 8, s, 8)
    <3>1. LastBytes(c, 1) = SByte(s.num)
      BY <1>0, <2>3, SignedByte DEF LastBytes
    <3> QED
      BY <1>2, <1>0, <3>1, ByteImm, ShortImm, SByteIs DEF HasNumber
  <2>11. D!Decoded(c) = Means("mov", d, s)
    <3>1. /\ i \in Nat /\ 1 \in Octal /\ EndsWith(c, i, 1) /\ Straight("mov") /\ "mov" # "lea"
          /\ "mov" # "movzx" /\ HasSizeOf(d, 8)
      BY <1>0, <2>3, <2>9 DEF EndsWith
    <3> QED
      BY <3>1, <2>6, <2>10, IReg
  <2> QED
    BY <2>1, <2>2, <2>11 DEF Right
<1>3. CASE d.type = "AXtoDI" /\ WordHalf(s.num)
  <2> DEFINE c == <<102, 184 + d.reg>> \o Bytes(s.num, 2)
             p == P66
             i == 3
  <2>1. MovImm(d, s.num) = c
    BY <1>3, <1>0 DEF MovImm, FitsImm32
  <2>2. ~Misencoded
    BY <1>3, <1>0 DEF Misencoded, HighByteWithRex, NoSib, NoDisp, IndexLost, OffsetLost, BaseLost, SizeLost,
                      HasMem, Ptr, Counterpart, WithSib44, IsAlu, Is, IsReg, IsImm, IsPlain, IsScaled, IsMem,
                      IsRegister, IsMemory, IsNumber, OfLine, None
  <2>3. /\ i = 2 + 1 /\ i \in Nat /\ Len(c) = 4 /\ Len(c) \in Nat /\ Len(c) = i + 2 - 1 /\ c[1] = 102
        /\ c[2] = RegOp(184, d) /\ Pair(c, 3, s.num)
    BY <1>0 DEF Bytes, Pair, RegOp
  <2>4. HasBits(p, 0, 0, 16) /\ HasRx(p) /\ ~p.isRex
    BY PrefixesAre DEF HasBits, HasRx
  <2> HIDE DEF c, i
  <2>5. Starts(c, 2, p)
    <3>1. Len(c) \in Nat /\ 2 <= Len(c) /\ c[1] = 102 /\ IsOp(c[2])
      BY <2>3, <1>0, RegOpBytes
    <3> QED
      BY <3>1, Prefix66, Zenon DEF p
  <2> HIDE DEF p
  <2>7. RmIs(p, 16, d)
    BY <1>3, <1>0, <2>4 DEF RmIs, Named, HasBits, IsReg, Octal
  <2>6. D!Decoded(c) = D!I(c, i, "mov", D!Reg(d.type, d.reg), 16, 2)
    <3> DEFINE o == 2
    <3>1. i = o + 1 /\ o \in Nat /\ c[o] = RegOp(184, d) /\ Starts(c, o, p)
      BY <2>3, <2>5
    <3> HIDE DEF o
    <3>2. 16 \in Sizes /\ 16 = D!Size(p) /\ D!Full(p) = 2
      BY <2>4 DEF HasBits, D!Full, Sizes
    <3>3. D!Opcode(c, o, p) = D!I(c, o + 1, "mov", D!Reg(d.type, d.reg), 16, D!Full(p))
      BY <1>0, <2>4, <2>7, <3>1, <3>2, CodedMov
    <3> QED
      BY <3>1, <3>2, <3>3 DEF Starts
  <2>9. 2 \in Octal /\ HasSizeOf(d, 16)
    BY <1>3, <1>0 DEF Octal, HasSizeOf, SizeOf, IsReg
  <2>10. HasNumber(c, 2, 16, s, 16)
    <3>1. LastBytes(c, 2) % 65536 = s.num % 65536 /\ LastBytes(c, 2) \in Int
      BY <1>0, <2>3, PairIs, PairInt DEF LastBytes
    <3> QED
      BY <1>0, <3>1, ImmsEqual DEF HasNumber
  <2>11. D!Decoded(c) = Means("mov", d, s)
    <3>1. /\ i \in Nat /\ 2 \in Octal /\ EndsWith(c, i, 2) /\ Straight("mov") /\ "mov" # "lea"
          /\ "mov" # "movzx" /\ HasSizeOf(d, 16)
      BY <1>0, <2>3, <2>9 DEF EndsWith
    <3> QED
      BY <3>1, <2>6, <2>10, IReg
  <2> QED
    BY <2>1, <2>2, <2>11 DEF Right
<1>4. CASE d.type = "RAXtoRDI"
  <2> DEFINE c == <<72, 199, Both(Ext(0), d)>> \o Bytes(s.num, 4)
             p == PRex(1, 0, 0)
             i == 3
  <2>1. MovImm(d, s.num) = c
    BY <1>4, <1>0 DEF MovImm, FitsImm32
  <2>2. ~Misencoded
    BY <1>4, <1>0 DEF Misencoded, HighByteWithRex, NoSib, NoDisp, IndexLost, OffsetLost, BaseLost, SizeLost,
                      HasMem, Ptr, Counterpart, WithSib44, IsAlu, Is, IsReg, IsImm, IsPlain, IsScaled, IsMem,
                      IsRegister, IsMemory, IsNumber, OfLine, None
  <2>3. /\ i = 2 + 1 /\ i \in Nat /\ Len(c) = 7 /\ Len(c) \in Nat /\ Len(c) = i + 4 /\ c[1] = 72 /\ c[2] = 199
        /\ Written3(c, i, 3, 0, d.reg) /\ Quad(c, 4, s.num)
    BY <1>0 DEF Both, Ext, ModRM, Written3, Bytes, Quad, Ext
  <2>4. HasBits(p, 0, 0, 64) /\ HasRx(p) /\ p.isRex
    BY PrefixesAre DEF HasBits, HasRx
  <2> HIDE DEF c, i
  <2>5. Starts(c, 2, p)
    <3>1. Len(c) \in Nat /\ 2 <= Len(c) /\ c[1] = 72
      BY <2>3
    <3> QED
      BY <3>1, RexPrefixes, Zenon DEF p
  <2> HIDE DEF p
  <2>6. D!Decoded(c) = D!MI(c, i, p, "mov", 64, 4, 64)
    <3>1. D!Extension(c, 2) = 0
      <4>1. 2 \in Nat /\ Len(c) \in Nat /\ Len(c) > 2 /\ 3 \in 0 .. 3 /\ Written3(c, 2 + 1, 3, 0, d.reg)
        BY <2>3
      <4> QED
        BY <1>0, <4>1, ExtensionIs
    <3> QED
      BY <1>0, <2>3, <2>4, <2>5, <3>1, OpExt0 DEF Starts, HasBits, D!Full
  <2>7. NamesRm(c, i, p, 0, d, 4)
    <3>1. 4 \in Octal /\ 0 \in Octal /\ i \in Nat /\ Written3(c, i, 3, 0, d.reg) /\ Len(c) = i + 4
      BY <1>0, <2>3 DEF Octal
    <3> QED
      BY <3>1, NamesOne
  <2>8. RmIs(p, 64, d)
    BY <1>4, <1>0, <2>4 DEF RmIs, RegIs, Named, HasBits, IsReg, Octal
  <2>9. 64 \in Sizes /\ 4 \in Octal /\ HasSizeOf(d, 64)
    BY <1>4, <1>0 DEF Sizes, Octal, HasSizeOf, SizeOf, IsReg
  <2>10. HasNumber(c, 4, 64, s, 64)
    <3>1. LastBytes(c, 4) = s.num
      BY <1>0, <2>3, QuadIs DEF LastBytes
    <3> QED
      BY <3>1 DEF HasNumber
  <2>11. D!Decoded(c) = Means("mov", d, s)
    BY <1>0, <2>3, <2>4, <2>6, <2>7, <2>8, <2>9, <2>10, MIReg
  <2> QED
    BY <2>1, <2>2, <2>11 DEF Right
<1>5. MovImm(d, s.num) # Refuse =>
         \/ d.type = "EAXtoEDI" /\ ~Byte(s.num)
         \/ d.type = "ALtoBH"
         \/ d.type = "AXtoDI" /\ WordHalf(s.num)
         \/ d.type = "RAXtoRDI"
  BY <1>0 DEF MovImm, FitsImm32
<1> QED
  BY <1>1, <1>2, <1>3, <1>4, <1>5 DEF Right

LEMMA TestRegIs ==
  ASSUME NEW d, NEW s,
         OfLine("test", d, s), IsRegister(d), IsNumber(s)
  PROVE  Right(Test(d, s), "test", d, s)
<1>0. /\ d.reg \in Octal /\ d.kind = "reg" /\ s.num \in Int32 /\ s.num \in Int /\ s.kind = "imm"
      /\ Octal \subseteq Int /\ Straight("test") /\ "test" \notin DOMAIN AluOp /\ 0 \in Octal /\ 4 \in Octal
  BY RegisterShape, NumberShape, LongIsInt DEF Octal, IsRegister, IsNumber, ShiftOp, AluOp, Straight
<1>1. CASE d.type = "ALtoBH" /\ ByteHalf(s.num)
  <2> DEFINE c == <<246, Both(Ext(0), d), Low(s.num)>>
             p == P0
             i == 2
  <2>1. Test(d, s) = c
    BY <1>1, <1>0 DEF Test, IsReg, IsRegister, IsImm, IsNumber, IsMem, IsPlain, IsScaled, Sized
  <2>2. ~Misencoded
    BY <1>1, <1>0 DEF Misencoded, HighByteWithRex, NoSib, NoDisp, IndexLost, OffsetLost, BaseLost, SizeLost,
                      HasMem, Ptr, Counterpart, WithSib44, IsAlu, Is, IsReg, IsImm, IsPlain, IsScaled, IsMem,
                      IsRegister, IsMemory, IsNumber, OfLine, None
  <2>3. /\ i = 1 + 1 /\ i \in Nat /\ Len(c) = 3 /\ Len(c) \in Nat /\ Len(c) = i + 1 /\ c[1] = 246
        /\ Written3(c, i, 3, 0, d.reg) /\ c[3] = Low(s.num)
    BY <1>0 DEF Both, Ext, ModRM, Written3, Ext
  <2>4. HasBits(p, 0, 0, 32) /\ HasRx(p) /\ ~p.isRex
    BY PrefixesAre DEF HasBits, HasRx
  <2> HIDE DEF c, i
  <2>5. Starts(c, 1, p)
    <3>1. Len(c) \in Nat /\ 1 <= Len(c) /\ IsOp(c[1])
      BY <2>3 DEF IsOp
    <3> QED
      BY <3>1, NoPrefix, Zenon DEF p
  <2> HIDE DEF p
  <2>6. D!Decoded(c) = D!MI(c, i, p, "test", 8, 1, 8)
    <3>1. D!Extension(c, 1) = 0
      <4>1. 1 \in Nat /\ Len(c) \in Nat /\ Len(c) > 1 /\ 3 \in 0 .. 3 /\ Written3(c, 1 + 1, 3, 0, d.reg)
        BY <2>3
      <4> QED
        BY <1>0, <4>1, ExtensionIs
    <3> QED
      BY <1>0, <2>3, <2>4, <2>5, <3>1, OpExt0 DEF Starts, HasBits, D!Full
  <2>7. NamesRm(c, i, p, 0, d, 1)
    <3>1. 1 \in Octal /\ 0 \in Octal /\ i \in Nat /\ Written3(c, i, 3, 0, d.reg) /\ Len(c) = i + 1
      BY <1>0, <2>3 DEF Octal
    <3> QED
      BY <3>1, NamesOne
  <2>8. RmIs(p, 8, d)
    BY <1>1, <1>0, <2>4 DEF RmIs, RegIs, Named, HasBits, IsReg, Octal
  <2>9. 8 \in Sizes /\ 1 \in Octal /\ HasSizeOf(d, 8)
    BY <1>1, <1>0 DEF Sizes, Octal, HasSizeOf, SizeOf, IsReg
  <2>10. HasNumber(c, 1, 8, s, 8)
    <3>1. LastBytes(c, 1) = SByte(s.num)
      BY <1>0, <2>3, SignedByte DEF LastBytes
    <3> QED
      BY <1>1, <1>0, <3>1, ByteImm, ShortImm, SByteIs DEF HasNumber
  <2>11. D!Decoded(c) = Means("test", d, s)
    BY <1>0, <2>3, <2>4, <2>6, <2>7, <2>8, <2>9, <2>10, MIReg
  <2> QED
    BY <2>1, <2>2, <2>11 DEF Right
<1>2. CASE d.type = "AXtoDI" /\ WordHalf(s.num)
  <2> DEFINE c == <<102, 247, Both(Ext(0), d)>> \o Bytes(s.num, 2)
             p == P66
             i == 3
  <2>1. Test(d, s) = c
    BY <1>2, <1>0 DEF Test, IsReg, IsRegister, IsImm, IsNumber, IsMem, IsPlain, IsScaled, Sized
  <2>2. ~Misencoded
    BY <1>2, <1>0 DEF Misencoded, HighByteWithRex, NoSib, NoDisp, IndexLost, OffsetLost, BaseLost, SizeLost,
                      HasMem, Ptr, Counterpart, WithSib44, IsAlu, Is, IsReg, IsImm, IsPlain, IsScaled, IsMem,
                      IsRegister, IsMemory, IsNumber, OfLine, None
  <2>3. /\ i = 2 + 1 /\ i \in Nat /\ Len(c) = 5 /\ Len(c) \in Nat /\ Len(c) = i + 2 /\ c[1] = 102 /\ c[2] = 247
        /\ Written3(c, i, 3, 0, d.reg) /\ Pair(c, 4, s.num)
    BY <1>0 DEF Both, Ext, ModRM, Written3, Bytes, Pair, Ext
  <2>4. HasBits(p, 0, 0, 16) /\ HasRx(p) /\ ~p.isRex
    BY PrefixesAre DEF HasBits, HasRx
  <2> HIDE DEF c, i
  <2>5. Starts(c, 2, p)
    <3>1. Len(c) \in Nat /\ 2 <= Len(c) /\ c[1] = 102 /\ IsOp(c[2])
      BY <2>3 DEF IsOp
    <3> QED
      BY <3>1, Prefix66, Zenon DEF p
  <2> HIDE DEF p
  <2>6. D!Decoded(c) = D!MI(c, i, p, "test", 16, 2, 16)
    <3>1. D!Extension(c, 2) = 0
      <4>1. 2 \in Nat /\ Len(c) \in Nat /\ Len(c) > 2 /\ 3 \in 0 .. 3 /\ Written3(c, 2 + 1, 3, 0, d.reg)
        BY <2>3
      <4> QED
        BY <1>0, <4>1, ExtensionIs
    <3> QED
      BY <1>0, <2>3, <2>4, <2>5, <3>1, OpExt0 DEF Starts, HasBits, D!Full
  <2>7. NamesRm(c, i, p, 0, d, 2)
    <3>1. 2 \in Octal /\ 0 \in Octal /\ i \in Nat /\ Written3(c, i, 3, 0, d.reg) /\ Len(c) = i + 2
      BY <1>0, <2>3 DEF Octal
    <3> QED
      BY <3>1, NamesOne
  <2>8. RmIs(p, 16, d)
    BY <1>2, <1>0, <2>4 DEF RmIs, RegIs, Named, HasBits, IsReg, Octal
  <2>9. 16 \in Sizes /\ 2 \in Octal /\ HasSizeOf(d, 16)
    BY <1>2, <1>0 DEF Sizes, Octal, HasSizeOf, SizeOf, IsReg
  <2>10. HasNumber(c, 2, 16, s, 16)
    <3>1. LastBytes(c, 2) % 65536 = s.num % 65536 /\ LastBytes(c, 2) \in Int
      BY <1>0, <2>3, PairIs, PairInt DEF LastBytes
    <3> QED
      BY <1>0, <3>1, ImmsEqual DEF HasNumber
  <2>11. D!Decoded(c) = Means("test", d, s)
    BY <1>0, <2>3, <2>4, <2>6, <2>7, <2>8, <2>9, <2>10, MIReg
  <2> QED
    BY <2>1, <2>2, <2>11 DEF Right
<1>3. Test(d, s) # Refuse =>
         \/ d.type = "ALtoBH" /\ ByteHalf(s.num)
         \/ d.type = "AXtoDI" /\ WordHalf(s.num)
  BY <1>0 DEF Test, IsReg, IsRegister, IsImm, IsNumber, IsMem, IsPlain, IsScaled, Sized
<1> QED
  BY <1>1, <1>2, <1>3 DEF Right

LEMMA SetccIs ==
  ASSUME NEW mn, NEW cc, NEW d,
         OfLine(mn, d, None), mn \in DOMAIN Cond, cc = Cond[mn], IsRegister(d)
  PROVE  Right(Setcc(d, cc), mn, d, None)
<1>0. /\ d.reg \in Octal /\ d.kind = "reg" /\ Octal \subseteq Int /\ StandsSet(mn, cc) /\ Straight(mn)
      /\ mn \notin DOMAIN AluOp /\ mn \notin {"mov", "movzx", "movsx", "lea", "test"} /\ cc \in Int
      /\ 0 \in Octal /\ None.kind = "none"
  BY RegisterShape, SetStands DEF Octal, IsRegister, None
<1>1. CASE IsReg(d, "ALtoBH")
  <2> DEFINE c == <<15, 144 + cc, Both(Ext(0), d)>>
             p == P0
             i == 3
  <2>1. Setcc(d, cc) = c
    BY <1>1, <1>0 DEF Setcc, IsReg, IsRegister
  <2>2. ~Misencoded
    BY <1>1, <1>0 DEF Misencoded, HighByteWithRex, NoSib, NoDisp, IndexLost, OffsetLost, BaseLost, SizeLost,
                      HasMem, Ptr, Counterpart, WithSib44, IsAlu, Is, IsReg, IsImm, IsPlain, IsScaled, IsMem,
                      IsRegister, IsMemory, IsNumber, OfLine, None
  <2>3. /\ i = 2 + 1 /\ i \in Nat /\ Len(c) = 3 /\ Len(c) \in Nat /\ Len(c) = i + 0 /\ c[1] = 15
        /\ c[2] = SetOp(cc) /\ Written3(c, i, 3, 0, d.reg)
    BY <1>0 DEF Both, Ext, ModRM, Written3, SetOp, Ext
  <2>4. HasBits(p, 0, 0, 32) /\ HasRx(p) /\ ~p.isRex
    BY PrefixesAre DEF HasBits, HasRx
  <2> HIDE DEF c, i
  <2>5. Starts(c, 1, p)
    <3>1. Len(c) \in Nat /\ 1 <= Len(c) /\ IsOp(c[1])
      BY <2>3 DEF IsOp
    <3> QED
      BY <3>1, NoPrefix, Zenon DEF p
  <2> HIDE DEF p
  <2>6. D!Decoded(c) = D!MWith(c, i, p, mn, 8, D!None)
    <3>1. 1 \in Nat /\ Len(c) \in Nat /\ Len(c) > 1 /\ c[1] = 15 /\ c[1 + 1] = SetOp(cc) /\ i = 1 + 2
      BY <2>3
    <3> QED
      BY <1>0, <2>4, <2>5, <3>1, SetForm DEF Starts, HasBits
  <2>7. NamesRm(c, i, p, 0, d, 0)
    <3>1. 0 \in Octal /\ 0 \in Octal /\ i \in Nat /\ Written3(c, i, 3, 0, d.reg) /\ Len(c) = i + 0
      BY <1>0, <2>3 DEF Octal
    <3> QED
      BY <3>1, NamesOne
  <2>8. RmIs(p, 8, d)
    BY <1>1, <1>0, <2>4 DEF RmIs, RegIs, Named, HasBits, IsReg, Octal
  <2>9. 8 \in Sizes
    BY DEF Sizes
  <2>11. D!Decoded(c) = Means(mn, d, None)
    BY <1>0, <2>3, <2>4, <2>6, <2>7, <2>8, <2>9, MWithReg
  <2> QED
    BY <2>1, <2>2, <2>11 DEF Right
<1>2. Setcc(d, cc) # Refuse =>
         \/ IsReg(d, "ALtoBH")
  BY <1>0 DEF Setcc, IsReg, IsRegister
<1> QED
  BY <1>1, <1>2 DEF Right

LEMMA PushIs ==
  ASSUME NEW d,
         OfLine("push", d, None), IsRegister(d)
  PROVE  Right(PushPop(d, 0), "push", d, None)
<1>0. /\ d.reg \in Octal /\ d.kind = "reg" /\ Octal \subseteq Int /\ Straight("push")
      /\ "push" \notin DOMAIN AluOp /\ None.kind = "none"
  BY RegisterShape DEF Octal, IsRegister, ShiftOp, AluOp, Straight, None
<1>1. CASE d.type = "RAXtoRDI"
  <2> DEFINE c == <<80 + 8 * 0 + d.reg>>
             p == P0
             i == 2
  <2>1. PushPop(d, 0) = c
    BY <1>1, <1>0 DEF PushPop, IsReg, IsRegister
  <2>2. ~Misencoded
    BY <1>1, <1>0 DEF Misencoded, HighByteWithRex, NoSib, NoDisp, IndexLost, OffsetLost, BaseLost, SizeLost,
                      HasMem, Ptr, Counterpart, WithSib44, IsAlu, Is, IsReg, IsImm, IsPlain, IsScaled, IsMem,
                      IsRegister, IsMemory, IsNumber, OfLine, None
  <2>3. i = 1 + 1 /\ i \in Nat /\ Len(c) = 1 /\ Len(c) \in Nat /\ Len(c) = i + 0 - 1 /\ c[1] = RegOp(80, d)
    BY <1>0 DEF RegOp
  <2>4. HasBits(p, 0, 0, 32) /\ HasRx(p) /\ ~p.isRex
    BY PrefixesAre DEF HasBits, HasRx
  <2> HIDE DEF c, i
  <2>5. Starts(c, 1, p)
    <3>1. Len(c) \in Nat /\ 1 <= Len(c) /\ IsOp(c[1])
      BY <2>3, <1>0, RegOpBytes
    <3> QED
      BY <3>1, NoPrefix, Zenon DEF p
  <2> HIDE DEF p
  <2>7. StackIs(p, d)
    BY <1>1, <1>0, <2>4 DEF StackIs, Named, HasBits, IsReg, Octal
  <2>6. D!Decoded(c) = D!UsesUp(c, Len(c), D!Instruction("push", D!Reg(d.type, d.reg), D!None))
    <3> DEFINE o == 1
    <3>1. i = o + 1 /\ Len(c) = o /\ c[o] = RegOp(80, d) /\ Starts(c, o, p)
      BY <2>3, <2>5
    <3> HIDE DEF o
    <3>2. D!Opcode(c, o, p) = D!UsesUp(c, o, D!Instruction("push", D!Reg(d.type, d.reg), D!None))
      BY <1>0, <2>4, <2>7, <3>1, CodedPush
    <3> QED
      BY <3>1, <3>2 DEF Starts
  <2>11. D!Decoded(c) = Means("push", d, None)
    BY <1>0, <2>6, PushMeans
  <2> QED
    BY <2>1, <2>2, <2>11 DEF Right
<1>2. CASE d.type = "R8toR15"
  <2> DEFINE c == <<65, 80 + 8 * 0 + d.reg>>
             p == PRex(0, 0, 1)
             i == 3
  <2>1. PushPop(d, 0) = c
    BY <1>2, <1>0 DEF PushPop, IsReg, IsRegister
  <2>2. ~Misencoded
    BY <1>2, <1>0 DEF Misencoded, HighByteWithRex, NoSib, NoDisp, IndexLost, OffsetLost, BaseLost, SizeLost,
                      HasMem, Ptr, Counterpart, WithSib44, IsAlu, Is, IsReg, IsImm, IsPlain, IsScaled, IsMem,
                      IsRegister, IsMemory, IsNumber, OfLine, None
  <2>3. /\ i = 2 + 1 /\ i \in Nat /\ Len(c) = 2 /\ Len(c) \in Nat /\ Len(c) = i + 0 - 1 /\ c[1] = 65
        /\ c[2] = RegOp(80, d)
    BY <1>0 DEF RegOp
  <2>4. HasBits(p, 0, 1, 32) /\ HasRx(p) /\ p.isRex
    BY PrefixesAre DEF HasBits, HasRx
  <2> HIDE DEF c, i
  <2>5. Starts(c, 2, p)
    <3>1. Len(c) \in Nat /\ 2 <= Len(c) /\ c[1] = 65
      BY <2>3
    <3> QED
      BY <3>1, RexPrefixes, Zenon DEF p
  <2> HIDE DEF p
  <2>7. StackIs(p, d)
    BY <1>2, <1>0, <2>4 DEF StackIs, Named, HasBits, IsReg, Octal
  <2>6. D!Decoded(c) = D!UsesUp(c, Len(c), D!Instruction("push", D!Reg(d.type, d.reg), D!None))
    <3> DEFINE o == 2
    <3>1. i = o + 1 /\ Len(c) = o /\ c[o] = RegOp(80, d) /\ Starts(c, o, p)
      BY <2>3, <2>5
    <3> HIDE DEF o
    <3>2. D!Opcode(c, o, p) = D!UsesUp(c, o, D!Instruction("push", D!Reg(d.type, d.reg), D!None))
      BY <1>0, <2>4, <2>7, <3>1, CodedPush
    <3> QED
      BY <3>1, <3>2 DEF Starts
  <2>11. D!Decoded(c) = Means("push", d, None)
    BY <1>0, <2>6, PushMeans
  <2> QED
    BY <2>1, <2>2, <2>11 DEF Right
<1>3. PushPop(d, 0) # Refuse =>
         \/ d.type = "RAXtoRDI"
         \/ d.type = "R8toR15"
  BY <1>0 DEF PushPop, IsReg, IsRegister
<1> QED
  BY <1>1, <1>2, <1>3 DEF Right

LEMMA PopIs ==
  ASSUME NEW d,
         OfLine("pop", d, None), IsRegister(d)
  PROVE  Right(PushPop(d, 1), "pop", d, None)
<1>0. /\ d.reg \in Octal /\ d.kind = "reg" /\ Octal \subseteq Int /\ Straight("pop")
      /\ "pop" \notin DOMAIN AluOp /\ None.kind = "none"
  BY RegisterShape DEF Octal, IsRegister, ShiftOp, AluOp, Straight, None
<1>1. CASE d.type = "RAXtoRDI"
  <2> DEFINE c == <<80 + 8 * 1 + d.reg>>
             p == P0
             i == 2
  <2>1. PushPop(d, 1) = c
    BY <1>1, <1>0 DEF PushPop, IsReg, IsRegister
  <2>2. ~Misencoded
    BY <1>1, <1>0 DEF Misencoded, HighByteWithRex, NoSib, NoDisp, IndexLost, OffsetLost, BaseLost, SizeLost,
                      HasMem, Ptr, Counterpart, WithSib44, IsAlu, Is, IsReg, IsImm, IsPlain, IsScaled, IsMem,
                      IsRegister, IsMemory, IsNumber, OfLine, None
  <2>3. i = 1 + 1 /\ i \in Nat /\ Len(c) = 1 /\ Len(c) \in Nat /\ Len(c) = i + 0 - 1 /\ c[1] = RegOp(88, d)
    BY <1>0 DEF RegOp
  <2>4. HasBits(p, 0, 0, 32) /\ HasRx(p) /\ ~p.isRex
    BY PrefixesAre DEF HasBits, HasRx
  <2> HIDE DEF c, i
  <2>5. Starts(c, 1, p)
    <3>1. Len(c) \in Nat /\ 1 <= Len(c) /\ IsOp(c[1])
      BY <2>3, <1>0, RegOpBytes
    <3> QED
      BY <3>1, NoPrefix, Zenon DEF p
  <2> HIDE DEF p
  <2>7. StackIs(p, d)
    BY <1>1, <1>0, <2>4 DEF StackIs, Named, HasBits, IsReg, Octal
  <2>6. D!Decoded(c) = D!UsesUp(c, Len(c), D!Instruction("pop", D!Reg(d.type, d.reg), D!None))
    <3> DEFINE o == 1
    <3>1. i = o + 1 /\ Len(c) = o /\ c[o] = RegOp(88, d) /\ Starts(c, o, p)
      BY <2>3, <2>5
    <3> HIDE DEF o
    <3>2. D!Opcode(c, o, p) = D!UsesUp(c, o, D!Instruction("pop", D!Reg(d.type, d.reg), D!None))
      BY <1>0, <2>4, <2>7, <3>1, CodedPop
    <3> QED
      BY <3>1, <3>2 DEF Starts
  <2>11. D!Decoded(c) = Means("pop", d, None)
    BY <1>0, <2>6, PushMeans
  <2> QED
    BY <2>1, <2>2, <2>11 DEF Right
<1>2. CASE d.type = "R8toR15"
  <2> DEFINE c == <<65, 80 + 8 * 1 + d.reg>>
             p == PRex(0, 0, 1)
             i == 3
  <2>1. PushPop(d, 1) = c
    BY <1>2, <1>0 DEF PushPop, IsReg, IsRegister
  <2>2. ~Misencoded
    BY <1>2, <1>0 DEF Misencoded, HighByteWithRex, NoSib, NoDisp, IndexLost, OffsetLost, BaseLost, SizeLost,
                      HasMem, Ptr, Counterpart, WithSib44, IsAlu, Is, IsReg, IsImm, IsPlain, IsScaled, IsMem,
                      IsRegister, IsMemory, IsNumber, OfLine, None
  <2>3. /\ i = 2 + 1 /\ i \in Nat /\ Len(c) = 2 /\ Len(c) \in Nat /\ Len(c) = i + 0 - 1 /\ c[1] = 65
        /\ c[2] = RegOp(88, d)
    BY <1>0 DEF RegOp
  <2>4. HasBits(p, 0, 1, 32) /\ HasRx(p) /\ p.isRex
    BY PrefixesAre DEF HasBits, HasRx
  <2> HIDE DEF c, i
  <2>5. Starts(c, 2, p)
    <3>1. Len(c) \in Nat /\ 2 <= Len(c) /\ c[1] = 65
      BY <2>3
    <3> QED
      BY <3>1, RexPrefixes, Zenon DEF p
  <2> HIDE DEF p
  <2>7. StackIs(p, d)
    BY <1>2, <1>0, <2>4 DEF StackIs, Named, HasBits, IsReg, Octal
  <2>6. D!Decoded(c) = D!UsesUp(c, Len(c), D!Instruction("pop", D!Reg(d.type, d.reg), D!None))
    <3> DEFINE o == 2
    <3>1. i = o + 1 /\ Len(c) = o /\ c[o] = RegOp(88, d) /\ Starts(c, o, p)
      BY <2>3, <2>5
    <3> HIDE DEF o
    <3>2. D!Opcode(c, o, p) = D!UsesUp(c, o, D!Instruction("pop", D!Reg(d.type, d.reg), D!None))
      BY <1>0, <2>4, <2>7, <3>1, CodedPop
    <3> QED
      BY <3>1, <3>2 DEF Starts
  <2>11. D!Decoded(c) = Means("pop", d, None)
    BY <1>0, <2>6, PushMeans
  <2> QED
    BY <2>1, <2>2, <2>11 DEF Right
<1>3. PushPop(d, 1) # Refuse =>
         \/ d.type = "RAXtoRDI"
         \/ d.type = "R8toR15"
  BY <1>0 DEF PushPop, IsReg, IsRegister
<1> QED
  BY <1>1, <1>2, <1>3 DEF Right

LEMMA RotsftIs ==
  ASSUME NEW mn, NEW op, NEW d, NEW s,
         OfLine(mn, d, s), mn \in DOMAIN ShiftOp, op = ShiftOp[mn], IsRegister(d), IsNumber(s) \/ s = None
  PROVE  Right(Rotsft(d, s, op), mn, d, s)
<1>0. /\ d.reg \in Octal /\ d.kind = "reg" /\ Octal \subseteq Int /\ op \in Octal /\ op \in Int
      /\ StandsShift(mn, op) /\ mn \notin DOMAIN AluOp /\ mn \notin {"mov", "movzx", "movsx", "lea", "test"}
      /\ Count(s) \in Int /\ s.kind \in {"imm", "none"}
  BY RegisterShape, ShiftStands, NumberShape, LongIsInt DEF Octal, IsRegister, Count, None, IsNumber
<1>1. CASE d.type = "EAXtoEDI"
  <2> DEFINE c == <<193, Both(Ext(op), d), Low(Count(s))>>
             p == P0
             i == 2
  <2>1. Rotsft(d, s, op) = c
    BY <1>1, <1>0 DEF Rotsft, IsImm, IsReg, IsRegister
  <2>2. ~Misencoded
    BY <1>1, <1>0 DEF Misencoded, HighByteWithRex, NoSib, NoDisp, IndexLost, OffsetLost, BaseLost, SizeLost,
                      HasMem, Ptr, Counterpart, WithSib44, IsAlu, Is, IsReg, IsImm, IsPlain, IsScaled, IsMem,
                      IsRegister, IsMemory, IsNumber, OfLine, None
  <2>3. /\ i = 1 + 1 /\ i \in Nat /\ Len(c) = 3 /\ Len(c) \in Nat /\ Len(c) = i + 1 /\ c[1] = 193
        /\ Written3(c, i, 3, op, d.reg) /\ c[3] = Low(Count(s))
    BY <1>0 DEF Both, Ext, ModRM, Written3, Ext
  <2>4. HasBits(p, 0, 0, 32) /\ HasRx(p) /\ ~p.isRex
    BY PrefixesAre DEF HasBits, HasRx
  <2> HIDE DEF c, i
  <2>5. Starts(c, 1, p)
    <3>1. Len(c) \in Nat /\ 1 <= Len(c) /\ IsOp(c[1])
      BY <2>3 DEF IsOp
    <3> QED
      BY <3>1, NoPrefix, Zenon DEF p
  <2> HIDE DEF p
  <2>6. D!Decoded(c) = D!MI(c, i, p, Called(mn), 32, 1, 8)
    <3>1. D!Extension(c, 1) = op
      <4>1. 1 \in Nat /\ Len(c) \in Nat /\ Len(c) > 1 /\ 3 \in 0 .. 3 /\ Written3(c, 1 + 1, 3, op, d.reg)
        BY <2>3
      <4> QED
        BY <1>0, <4>1, ExtensionIs
    <3> QED
      BY <1>0, <2>3, <2>4, <2>5, <3>1, OpShiftExt DEF Starts, HasBits
  <2>7. NamesRm(c, i, p, op, d, 1)
    <3>1. 1 \in Octal /\ op \in Octal /\ i \in Nat /\ Written3(c, i, 3, op, d.reg) /\ Len(c) = i + 1
      BY <1>0, <2>3 DEF Octal
    <3> QED
      BY <3>1, NamesOne
  <2>8. RmIs(p, 32, d)
    BY <1>1, <1>0, <2>4 DEF RmIs, RegIs, Named, HasBits, IsReg, Octal
  <2>9. 32 \in Sizes
    BY DEF Sizes
  <2>10. D!Imm(LastBytes(c, 1), 8) = D!Imm(Count(s), 8)
    <3>1. LastBytes(c, 1) = SByte(Count(s))
      BY <1>0, <2>3, SignedByte DEF LastBytes
    <3> QED
      BY <1>0, <3>1, ByteImm
  <2>11. D!Decoded(c) = Means(mn, d, s)
    BY <1>0, <2>3, <2>4, <2>6, <2>7, <2>8, <2>9, <2>10, ShiftReg
  <2> QED
    BY <2>1, <2>2, <2>11 DEF Right
<1>2. CASE d.type = "ALtoBH" /\ Count(s) = 1
  <2> DEFINE c == <<208, Both(Ext(op), d)>>
             p == P0
             i == 2
  <2>1. Rotsft(d, s, op) = c
    BY <1>2, <1>0 DEF Rotsft, IsImm, IsReg, IsRegister
  <2>2. ~Misencoded
    BY <1>2, <1>0 DEF Misencoded, HighByteWithRex, NoSib, NoDisp, IndexLost, OffsetLost, BaseLost, SizeLost,
                      HasMem, Ptr, Counterpart, WithSib44, IsAlu, Is, IsReg, IsImm, IsPlain, IsScaled, IsMem,
                      IsRegister, IsMemory, IsNumber, OfLine, None
  <2>3. /\ i = 1 + 1 /\ i \in Nat /\ Len(c) = 2 /\ Len(c) \in Nat /\ Len(c) = i + 0 /\ c[1] = 208
        /\ Written3(c, i, 3, op, d.reg)
    BY <1>0 DEF Both, Ext, ModRM, Written3, Ext
  <2>4. HasBits(p, 0, 0, 32) /\ HasRx(p) /\ ~p.isRex
    BY PrefixesAre DEF HasBits, HasRx
  <2> HIDE DEF c, i
  <2>5. Starts(c, 1, p)
    <3>1. Len(c) \in Nat /\ 1 <= Len(c) /\ IsOp(c[1])
      BY <2>3 DEF IsOp
    <3> QED
      BY <3>1, NoPrefix, Zenon DEF p
  <2> HIDE DEF p
  <2>6. D!Decoded(c) = D!MWith(c, i, p, Called(mn), 8, D!Imm(1, 8))
    <3>1. D!Extension(c, 1) = op
      <4>1. 1 \in Nat /\ Len(c) \in Nat /\ Len(c) > 1 /\ 3 \in 0 .. 3 /\ Written3(c, 1 + 1, 3, op, d.reg)
        BY <2>3
      <4> QED
        BY <1>0, <4>1, ExtensionIs
    <3> QED
      BY <1>0, <2>3, <2>4, <2>5, <3>1, OpShiftExt DEF Starts, HasBits
  <2>7. NamesRm(c, i, p, op, d, 0)
    <3>1. 0 \in Octal /\ op \in Octal /\ i \in Nat /\ Written3(c, i, 3, op, d.reg) /\ Len(c) = i + 0
      BY <1>0, <2>3 DEF Octal
    <3> QED
      BY <3>1, NamesOne
  <2>8. RmIs(p, 8, d)
    BY <1>2, <1>0, <2>4 DEF RmIs, RegIs, Named, HasBits, IsReg, Octal
  <2>9. 8 \in Sizes
    BY DEF Sizes
  <2>11. D!Decoded(c) = Means(mn, d, s)
    BY <1>2, <1>0, <2>3, <2>4, <2>6, <2>7, <2>8, <2>9, ShiftOneReg
  <2> QED
    BY <2>1, <2>2, <2>11 DEF Right
<1>3. CASE d.type = "ALtoBH" /\ Count(s) # 1
  <2> DEFINE c == <<192, Both(Ext(op), d), Low(Count(s))>>
             p == P0
             i == 2
  <2>1. Rotsft(d, s, op) = c
    BY <1>3, <1>0 DEF Rotsft, IsImm, IsReg, IsRegister
  <2>2. ~Misencoded
    BY <1>3, <1>0 DEF Misencoded, HighByteWithRex, NoSib, NoDisp, IndexLost, OffsetLost, BaseLost, SizeLost,
                      HasMem, Ptr, Counterpart, WithSib44, IsAlu, Is, IsReg, IsImm, IsPlain, IsScaled, IsMem,
                      IsRegister, IsMemory, IsNumber, OfLine, None
  <2>3. /\ i = 1 + 1 /\ i \in Nat /\ Len(c) = 3 /\ Len(c) \in Nat /\ Len(c) = i + 1 /\ c[1] = 192
        /\ Written3(c, i, 3, op, d.reg) /\ c[3] = Low(Count(s))
    BY <1>0 DEF Both, Ext, ModRM, Written3, Ext
  <2>4. HasBits(p, 0, 0, 32) /\ HasRx(p) /\ ~p.isRex
    BY PrefixesAre DEF HasBits, HasRx
  <2> HIDE DEF c, i
  <2>5. Starts(c, 1, p)
    <3>1. Len(c) \in Nat /\ 1 <= Len(c) /\ IsOp(c[1])
      BY <2>3 DEF IsOp
    <3> QED
      BY <3>1, NoPrefix, Zenon DEF p
  <2> HIDE DEF p
  <2>6. D!Decoded(c) = D!MI(c, i, p, Called(mn), 8, 1, 8)
    <3>1. D!Extension(c, 1) = op
      <4>1. 1 \in Nat /\ Len(c) \in Nat /\ Len(c) > 1 /\ 3 \in 0 .. 3 /\ Written3(c, 1 + 1, 3, op, d.reg)
        BY <2>3
      <4> QED
        BY <1>0, <4>1, ExtensionIs
    <3> QED
      BY <1>0, <2>3, <2>4, <2>5, <3>1, OpShiftExt DEF Starts, HasBits
  <2>7. NamesRm(c, i, p, op, d, 1)
    <3>1. 1 \in Octal /\ op \in Octal /\ i \in Nat /\ Written3(c, i, 3, op, d.reg) /\ Len(c) = i + 1
      BY <1>0, <2>3 DEF Octal
    <3> QED
      BY <3>1, NamesOne
  <2>8. RmIs(p, 8, d)
    BY <1>3, <1>0, <2>4 DEF RmIs, RegIs, Named, HasBits, IsReg, Octal
  <2>9. 8 \in Sizes
    BY DEF Sizes
  <2>10. D!Imm(LastBytes(c, 1), 8) = D!Imm(Count(s), 8)
    <3>1. LastBytes(c, 1) = SByte(Count(s))
      BY <1>0, <2>3, SignedByte DEF LastBytes
    <3> QED
      BY <1>0, <3>1, ByteImm
  <2>11. D!Decoded(c) = Means(mn, d, s)
    BY <1>0, <2>3, <2>4, <2>6, <2>7, <2>8, <2>9, <2>10, ShiftReg
  <2> QED
    BY <2>1, <2>2, <2>11 DEF Right
<1>4. CASE d.type = "RAXtoRDI"
  <2> DEFINE c == <<72, 193, Both(Ext(op), d), Low(Count(s))>>
             p == PRex(1, 0, 0)
             i == 3
  <2>1. Rotsft(d, s, op) = c
    BY <1>4, <1>0 DEF Rotsft, IsImm, IsReg, IsRegister
  <2>2. ~Misencoded
    BY <1>4, <1>0 DEF Misencoded, HighByteWithRex, NoSib, NoDisp, IndexLost, OffsetLost, BaseLost, SizeLost,
                      HasMem, Ptr, Counterpart, WithSib44, IsAlu, Is, IsReg, IsImm, IsPlain, IsScaled, IsMem,
                      IsRegister, IsMemory, IsNumber, OfLine, None
  <2>3. /\ i = 2 + 1 /\ i \in Nat /\ Len(c) = 4 /\ Len(c) \in Nat /\ Len(c) = i + 1 /\ c[1] = 72 /\ c[2] = 193
        /\ Written3(c, i, 3, op, d.reg) /\ c[4] = Low(Count(s))
    BY <1>0 DEF Both, Ext, ModRM, Written3, Ext
  <2>4. HasBits(p, 0, 0, 64) /\ HasRx(p) /\ p.isRex
    BY PrefixesAre DEF HasBits, HasRx
  <2> HIDE DEF c, i
  <2>5. Starts(c, 2, p)
    <3>1. Len(c) \in Nat /\ 2 <= Len(c) /\ c[1] = 72
      BY <2>3
    <3> QED
      BY <3>1, RexPrefixes, Zenon DEF p
  <2> HIDE DEF p
  <2>6. D!Decoded(c) = D!MI(c, i, p, Called(mn), 64, 1, 8)
    <3>1. D!Extension(c, 2) = op
      <4>1. 2 \in Nat /\ Len(c) \in Nat /\ Len(c) > 2 /\ 3 \in 0 .. 3 /\ Written3(c, 2 + 1, 3, op, d.reg)
        BY <2>3
      <4> QED
        BY <1>0, <4>1, ExtensionIs
    <3> QED
      BY <1>0, <2>3, <2>4, <2>5, <3>1, OpShiftExt DEF Starts, HasBits
  <2>7. NamesRm(c, i, p, op, d, 1)
    <3>1. 1 \in Octal /\ op \in Octal /\ i \in Nat /\ Written3(c, i, 3, op, d.reg) /\ Len(c) = i + 1
      BY <1>0, <2>3 DEF Octal
    <3> QED
      BY <3>1, NamesOne
  <2>8. RmIs(p, 64, d)
    BY <1>4, <1>0, <2>4 DEF RmIs, RegIs, Named, HasBits, IsReg, Octal
  <2>9. 64 \in Sizes
    BY DEF Sizes
  <2>10. D!Imm(LastBytes(c, 1), 8) = D!Imm(Count(s), 8)
    <3>1. LastBytes(c, 1) = SByte(Count(s))
      BY <1>0, <2>3, SignedByte DEF LastBytes
    <3> QED
      BY <1>0, <3>1, ByteImm
  <2>11. D!Decoded(c) = Means(mn, d, s)
    BY <1>0, <2>3, <2>4, <2>6, <2>7, <2>8, <2>9, <2>10, ShiftReg
  <2> QED
    BY <2>1, <2>2, <2>11 DEF Right
<1>5. Rotsft(d, s, op) # Refuse =>
         \/ d.type = "EAXtoEDI"
         \/ d.type = "ALtoBH" /\ Count(s) = 1
         \/ d.type = "ALtoBH" /\ Count(s) # 1
         \/ d.type = "RAXtoRDI"
  BY <1>0 DEF Rotsft, IsImm, IsReg, IsRegister
<1> QED
  BY <1>1, <1>2, <1>3, <1>4, <1>5 DEF Right

LEMMA FlagsAre ==
  ASSUME NEW mn, NEW b, mn \in DOMAIN Flags, b = Flags[mn]
  PROVE  /\ b \in {144, 195, 201, 248, 249, 158, 159} /\ IsOp(b) /\ D!Plain[b] = mn
         /\ Straight(mn) /\ mn \notin DOMAIN AluOp /\ mn \notin {"mov", "movzx", "movsx", "lea", "test"}
<1>0. mn \in {"nop", "clc", "stc", "sahf", "lahf", "ret", "leave"}
  BY DEF Flags
<1>1. \/ (mn = "nop" /\ b = 144) \/ (mn = "clc" /\ b = 248) \/ (mn = "stc" /\ b = 249)
      \/ (mn = "sahf" /\ b = 158) \/ (mn = "lahf" /\ b = 159) \/ (mn = "ret" /\ b = 195)
      \/ (mn = "leave" /\ b = 201)
  <2>1. /\ Flags["nop"] = 144 /\ Flags["clc"] = 248 /\ Flags["stc"] = 249 /\ Flags["sahf"] = 158
        /\ Flags["lahf"] = 159 /\ Flags["ret"] = 195 /\ Flags["leave"] = 201
    BY DEF Flags
  <2> QED
    BY <1>0, <2>1
<1>2. b \in {144, 195, 201, 248, 249, 158, 159} /\ IsOp(b)
  BY <1>1 DEF IsOp
<1>3. D!Plain[b] = mn
  BY <1>1 DEF D!Plain
<1>4. Straight(mn) /\ mn \notin DOMAIN AluOp /\ mn \notin {"mov", "movzx", "movsx", "lea", "test"}
  BY <1>1 DEF Straight, ShiftOp, AluOp
<1> QED
  BY <1>2, <1>3, <1>4

LEMMA FlagsIs ==
  ASSUME NEW mn, NEW b, OfLine(mn, None, None), mn \in DOMAIN Flags, b = Flags[mn]
  PROVE  Right(<<b>>, mn, None, None)
<1> DEFINE c == <<b>>
           p == P0
<1>1. Len(c) = 1 /\ c[1] = b /\ Len(c) \in Nat /\ 1 <= Len(c)
  OBVIOUS
<1>2. IsOp(c[1]) /\ c[1] \in {144, 195, 201, 248, 249, 158, 159} /\ D!Plain[c[1]] = mn /\ Straight(mn)
  BY <1>1, FlagsAre
<1>3. ~Misencoded
  <2>1. mn \notin DOMAIN AluOp /\ mn \notin {"mov", "movzx", "movsx", "lea", "test"} /\ None.kind = "none"
    BY FlagsAre DEF None
  <2> QED
    BY <2>1 DEF Misencoded, HighByteWithRex, HasMem, Is, IsReg, OfLine
<1> HIDE DEF c, p
<1>4. Starts(c, 1, p)
  <2>1. Len(c) \in Nat /\ 1 <= Len(c) /\ IsOp(c[1])
    BY <1>1, <1>2
  <2> QED
    BY <2>1, NoPrefix, Zenon DEF p
<1>5. D!Decoded(c) = D!UsesUp(c, Len(c), D!Instruction(mn, D!None, D!None))
  <2>1. D!Opcode(c, 1, p) = D!UsesUp(c, 1, D!Instruction(D!Plain[c[1]], D!None, D!None))
    BY <1>2, OpPlain
  <2> QED
    BY <1>1, <1>2, <1>4, <2>1 DEF Starts
<1>6. D!Decoded(c) = Means(mn, None, None)
  BY <1>2, <1>5, AloneMeans
<1> QED
  BY <1>3, <1>6 DEF Right, c

------------------------------------------------------------------------------
\* The encoders whole: what they do not refuse has operands that mean something.
Good(bytes, mn, d, s) ==
  bytes # Refuse => Taken(d) /\ Taken(s) /\ (mn \in DOMAIN ShiftOp => s.kind # "mem") /\ Right(bytes, mn, d, s)

LEMMA Kinds ==
  ASSUME NEW x, Shape(x)
  PROVE  /\ x.kind \in {"none", "reg", "imm", "no", "mem"}
         /\ x.kind # "no" => Taken(x)
         /\ x.kind = "reg" => IsRegister(x)
         /\ x.kind = "mem" => IsMemory(x)
         /\ x.kind = "imm" => IsNumber(x)
         /\ x.kind = "none" => x = None
<1>1. x.kind \in {"none", "reg", "imm", "no", "mem"} /\ (x.kind = "none" => x = None)
  BY DEF Shape, None
<1> QED
  BY <1>1 DEF Taken, IsRegister, IsMemory, IsNumber

LEMMA MovIs ==
  ASSUME NEW d, NEW s, OfLine("mov", d, s), Shape(d), Shape(s)
  PROVE  Good(Mov(d, s), "mov", d, s)
<1>0. /\ d.kind \in {"none", "reg", "imm", "no", "mem"} /\ s.kind \in {"none", "reg", "imm", "no", "mem"}
      /\ "mov" \notin DOMAIN ShiftOp
  BY Kinds DEF ShiftOp
<1>1. CASE d.kind = "mem"
  <2>1. Mov(d, s) = ToPtr(d, s)
    BY <1>1 DEF Mov, IsReg
  <2>2. s.kind \notin {"reg", "imm"} => ToPtr(d, s) = Refuse
    BY DEF ToPtr, IsReg, IsImm
  <2>3. s.kind \in {"reg", "imm"} => Right(ToPtr(d, s), "mov", d, s) /\ Taken(d) /\ Taken(s)
    BY <1>1, Kinds, ToPtrRegIs, ToPtrImmIs
  <2> QED
    BY <1>0, <2>1, <2>2, <2>3 DEF Good
<1>2. CASE d.kind = "reg" /\ s.kind = "reg"
  <2>1. Mov(d, s) = MovRegs(d, s)
    BY <1>2 DEF Mov, IsImm, Sized
  <2>2. Right(MovRegs(d, s), "mov", d, s) /\ Taken(d) /\ Taken(s)
    BY <1>2, Kinds, MovRegsIs
  <2> QED
    BY <1>0, <2>1, <2>2 DEF Good
<1>3. CASE d.kind = "reg" /\ s.kind = "mem"
  <2>0. IsRegister(d) /\ IsMemory(s) /\ Taken(d) /\ Taken(s)
    BY <1>3, Kinds
  <2>1. CASE d.type \in {"RAXtoRDI", "R8toR15"} /\ s.size = 64
    <3>1. Mov(d, s) = FromPtr64(d, s)
      BY <1>3, <2>1 DEF Mov, IsImm, IsReg, Sized
    <3>2. Right(FromPtr64(d, s), "mov", d, s)
      BY <2>0, <2>1, FromPtr64Is
    <3> QED
      BY <1>0, <2>0, <3>1, <3>2 DEF Good
  <2>2. CASE d.type = "ALtoBH" /\ s.size = 8
    <3>1. Mov(d, s) = FromPtr8(d, s)
      BY <1>3, <2>2 DEF Mov, IsImm, IsReg, Sized
    <3>2. Right(FromPtr8(d, s), "mov", d, s)
      BY <2>0, <2>2, FromPtr8Is
    <3> QED
      BY <1>0, <2>0, <3>1, <3>2 DEF Good
  <2>3. CASE d.type = "AXtoDI" /\ s.size = 16
    <3>1. Mov(d, s) = FromPtr16(d, s)
      BY <1>3, <2>3 DEF Mov, IsImm, IsReg, Sized
    <3>2. Right(FromPtr16(d, s), "mov", d, s)
      BY <2>0, <2>3, FromPtr16Is
    <3> QED
      BY <1>0, <2>0, <3>1, <3>2 DEF Good
  <2>4. CASE /\ ~(d.type \in {"RAXtoRDI", "R8toR15"} /\ s.size = 64) /\ ~(d.type = "ALtoBH" /\ s.size = 8)
             /\ ~(d.type = "AXtoDI" /\ s.size = 16)
    <3>1. Mov(d, s) = Refuse
      BY <1>3, <2>4 DEF Mov, IsImm, IsReg, Sized
    <3> QED
      BY <3>1 DEF Good
  <2> QED
    BY <2>1, <2>2, <2>3, <2>4
<1>4. CASE d.kind = "reg" /\ s.kind = "imm"
  <2>1. Mov(d, s) = MovImm(d, s.num)
    BY <1>4 DEF Mov, IsImm, Sized
  <2>2. Right(MovImm(d, s.num), "mov", d, s) /\ Taken(d) /\ Taken(s)
    BY <1>4, Kinds, MovImmIs
  <2> QED
    BY <1>0, <2>1, <2>2 DEF Good
<1>5. CASE d.kind \notin {"mem", "reg"} \/ (d.kind = "reg" /\ s.kind \notin {"reg", "mem", "imm"})
  <2>1. Mov(d, s) = Refuse
    BY <1>5 DEF Mov, IsReg, IsImm, Sized
  <2> QED
    BY <2>1 DEF Good
<1> QED
  BY <1>0, <1>1, <1>2, <1>3, <1>4, <1>5

LEMMA MovzxIs ==
  ASSUME NEW d, NEW s, OfLine("movzx", d, s), Shape(d), Shape(s)
  PROVE  Good(Movzx(d, s), "movzx", d, s)
<1>1. "movzx" \notin DOMAIN ShiftOp
  BY DEF ShiftOp
<1>2. d.kind # "reg" \/ s.kind \notin {"reg", "mem"} => Movzx(d, s) = Refuse
  BY DEF Movzx, IsReg, Sized
<1>3. d.kind = "reg" /\ s.kind \in {"reg", "mem"} => Right(Movzx(d, s), "movzx", d, s) /\ Taken(d) /\ Taken(s)
  BY Kinds, MovzxRegIs, MovzxPtrIs
<1> QED
  BY <1>1, <1>2, <1>3 DEF Good

LEMMA MovsxIs ==
  ASSUME NEW d, NEW s, OfLine("movsx", d, s), Shape(d), Shape(s)
  PROVE  Good(Movsx(d, s), "movsx", d, s)
<1>1. "movsx" \notin DOMAIN ShiftOp
  BY DEF ShiftOp
<1>2. d.kind # "reg" \/ s.kind # "reg" => Movsx(d, s) = Refuse
  BY DEF Movsx, IsReg
<1>3. d.kind = "reg" /\ s.kind = "reg" => Right(Movsx(d, s), "movsx", d, s) /\ Taken(d) /\ Taken(s)
  BY Kinds, MovsxRegIs
<1> QED
  BY <1>1, <1>2, <1>3 DEF Good

LEMMA LeaIs ==
  ASSUME NEW d, NEW s, OfLine("lea", d, s), Shape(d), Shape(s)
  PROVE  Good(Lea(d, s), "lea", d, s)
<1>1. "lea" \notin DOMAIN ShiftOp
  BY DEF ShiftOp
<1>2. d.kind # "reg" \/ s.kind # "mem" => Lea(d, s) = Refuse
  BY DEF Lea, IsReg, Sized
<1>3. d.kind = "reg" /\ s.kind = "mem" => Right(Lea(d, s), "lea", d, s) /\ Taken(d) /\ Taken(s)
  BY Kinds, LeaPtrIs
<1> QED
  BY <1>1, <1>2, <1>3 DEF Good

LEMMA XchgGood ==
  ASSUME NEW d, NEW s, OfLine("xchg", d, s), Shape(d), Shape(s)
  PROVE  Good(Xchg(d, s), "xchg", d, s)
<1>1. "xchg" \notin DOMAIN ShiftOp
  BY DEF ShiftOp
<1>2. d.kind # "reg" \/ s.kind # "reg" => Xchg(d, s) = Refuse
  BY DEF Xchg, IsReg
<1>3. d.kind = "reg" /\ s.kind = "reg" => Right(Xchg(d, s), "xchg", d, s) /\ Taken(d) /\ Taken(s)
  BY Kinds, XchgIs
<1> QED
  BY <1>1, <1>2, <1>3 DEF Good

LEMMA IncDecIs ==
  ASSUME NEW mn, NEW op, NEW d, OfLine(mn, d, None), mn \in DOMAIN IncDecOp, op = IncDecOp[mn], Shape(d)
  PROVE  Good(IncDec(d, op), mn, d, None)
<1>1. Taken(None) /\ None.kind # "mem"
  BY DEF Taken, Shape, None
<1>2. d.kind \notin {"reg", "mem"} => IncDec(d, op) = Refuse
  BY DEF IncDec, IsReg, IsPlain, IsMem
<1>3. d.kind \in {"reg", "mem"} => Right(IncDec(d, op), mn, d, None) /\ Taken(d)
  BY Kinds, IncDecRegIs, IncDecPtrIs
<1> QED
  BY <1>1, <1>2, <1>3 DEF Good

LEMMA ArithLogicIs ==
  ASSUME NEW mn, NEW op, NEW d, NEW s, OfLine(mn, d, s), mn \in DOMAIN AluOp, op = AluOp[mn], Shape(d), Shape(s)
  PROVE  Good(ArithLogic(d, s, op), mn, d, s)
<1>0. mn \notin DOMAIN ShiftOp /\ s.kind \in {"none", "reg", "imm", "no", "mem"}
  BY Kinds DEF AluOp, ShiftOp
<1>1. CASE d.kind = "mem"
  <2>1. ArithLogic(d, s, op) = AluPtr(d, s, op)
    BY <1>1 DEF ArithLogic
  <2>2. s.kind \notin {"reg", "imm"} => AluPtr(d, s, op) = Refuse
    BY DEF AluPtr, IsReg, IsImm
  <2>3. s.kind \in {"reg", "imm"} => Right(AluPtr(d, s, op), mn, d, s) /\ Taken(d) /\ Taken(s)
    BY <1>1, Kinds, AluPtrRegIs, AluPtrImmIs
  <2> QED
    BY <1>0, <2>1, <2>2, <2>3 DEF Good
<1>2. CASE d.kind = "reg" /\ s.kind = "reg"
  <2>1. ArithLogic(d, s, op) = AluRegs(d, s, op)
    BY <1>2 DEF ArithLogic, IsImm
  <2>2. Right(AluRegs(d, s, op), mn, d, s) /\ Taken(d) /\ Taken(s)
    BY <1>2, Kinds, AluRegsIs
  <2> QED
    BY <1>0, <2>1, <2>2 DEF Good
<1>3. CASE d.kind = "reg" /\ s.kind = "mem"
  <2>1. ArithLogic(d, s, op) = AluFromPtr(d, s, op)
    BY <1>3 DEF ArithLogic, IsImm
  <2>2. Right(AluFromPtr(d, s, op), mn, d, s) /\ Taken(d) /\ Taken(s)
    BY <1>3, Kinds, AluFromPtrIs
  <2> QED
    BY <1>0, <2>1, <2>2 DEF Good
<1>4. CASE d.kind = "reg" /\ s.kind = "imm"
  <2>1. ArithLogic(d, s, op) = AluImm(d, s.num, op)
    BY <1>4 DEF ArithLogic, IsImm
  <2>2. Right(AluImm(d, s.num, op), mn, d, s) /\ Taken(d) /\ Taken(s)
    BY <1>4, Kinds, AluImmIs
  <2> QED
    BY <1>0, <2>1, <2>2 DEF Good
<1>5. CASE d.kind \notin {"mem", "reg"} \/ (d.kind = "reg" /\ s.kind \notin {"reg", "mem", "imm"})
  <2>1. ArithLogic(d, s, op) = Refuse
    BY <1>5 DEF ArithLogic, IsImm
  <2> QED
    BY <2>1 DEF Good
<1> QED
  BY <1>0, <1>1, <1>2, <1>3, <1>4, <1>5

LEMMA TestIs ==
  ASSUME NEW d, NEW s, OfLine("test", d, s), Shape(d), Shape(s)
  PROVE  Good(Test(d, s), "test", d, s)
<1>1. "test" \notin DOMAIN ShiftOp
  BY DEF ShiftOp
<1>2. d.kind \notin {"reg", "mem"} \/ s.kind # "imm" => Test(d, s) = Refuse
  BY DEF Test, IsReg, IsImm, Sized
<1>3. d.kind \in {"reg", "mem"} /\ s.kind = "imm" => Right(Test(d, s), "test", d, s) /\ Taken(d) /\ Taken(s)
  BY Kinds, TestRegIs, TestPtrIs
<1> QED
  BY <1>1, <1>2, <1>3 DEF Good

LEMMA NotGood ==
  ASSUME NEW d, OfLine("not", d, None), Shape(d)
  PROVE  Good(Not(d), "not", d, None)
<1>1. Taken(None) /\ None.kind # "mem"
  BY DEF Taken, Shape, None
<1>2. d.kind # "reg" => Not(d) = Refuse
  BY DEF Not, IsReg
<1>3. d.kind = "reg" => Right(Not(d), "not", d, None) /\ Taken(d)
  BY Kinds, NotIs
<1> QED
  BY <1>1, <1>2, <1>3 DEF Good

LEMMA SetccGood ==
  ASSUME NEW mn, NEW cc, NEW d, OfLine(mn, d, None), mn \in DOMAIN Cond, cc = Cond[mn], Shape(d)
  PROVE  Good(Setcc(d, cc), mn, d, None)
<1>1. Taken(None) /\ None.kind # "mem"
  BY DEF Taken, Shape, None
<1>2. d.kind # "reg" => Setcc(d, cc) = Refuse
  BY DEF Setcc, IsReg
<1>3. d.kind = "reg" => Right(Setcc(d, cc), mn, d, None) /\ Taken(d)
  BY Kinds, SetccIs
<1> QED
  BY <1>1, <1>2, <1>3 DEF Good

LEMMA PushPopIs ==
  ASSUME NEW d, Shape(d)
  PROVE  /\ OfLine("push", d, None) => Good(PushPop(d, 0), "push", d, None)
         /\ OfLine("pop", d, None) => Good(PushPop(d, 1), "pop", d, None)
<1>1. Taken(None) /\ None.kind # "mem"
  BY DEF Taken, Shape, None
<1>2. d.kind # "reg" => PushPop(d, 0) = Refuse /\ PushPop(d, 1) = Refuse
  BY DEF PushPop, IsReg
<1>3. d.kind = "reg" => Taken(d) /\ IsRegister(d)
  BY Kinds
<1>4. OfLine("push", d, None) /\ d.kind = "reg" => Right(PushPop(d, 0), "push", d, None)
  BY <1>3, PushIs
<1>5. OfLine("pop", d, None) /\ d.kind = "reg" => Right(PushPop(d, 1), "pop", d, None)
  BY <1>3, PopIs
<1> QED
  BY <1>1, <1>2, <1>3, <1>4, <1>5 DEF Good

LEMMA RotsftGood ==
  ASSUME NEW mn, NEW op, NEW d, NEW s,
         OfLine(mn, d, s), mn \in DOMAIN ShiftOp, op = ShiftOp[mn], Shape(d), Shape(s)
  PROVE  Good(Rotsft(d, s, op), mn, d, s)
<1>1. d.kind # "reg" \/ s.kind \notin {"imm", "none"} => Rotsft(d, s, op) = Refuse
  BY DEF Rotsft, IsReg, IsImm
<1>2. d.kind = "reg" /\ s.kind \in {"imm", "none"} => Right(Rotsft(d, s, op), mn, d, s) /\ Taken(d) /\ Taken(s)
  BY Kinds, RotsftIs
<1> QED
  BY <1>1, <1>2 DEF Good

LEMMA FlagsGood ==
  ASSUME NEW mn, OfLine(mn, None, None), mn \in DOMAIN Flags
  PROVE  Good(<<Flags[mn]>>, mn, None, None)
<1>1. Taken(None) /\ None.kind # "mem"
  BY DEF Taken, Shape, None
<1> QED
  BY <1>1, FlagsIs DEF Good

------------------------------------------------------------------------------
\* The invariant: what is in hand was parsed, and bytes are those of the statement in hand.
EncodeInv ==
  /\ line = NoLine \/ Statement
  /\ code # <<>> => line # NoLine /\ (D!Decoded(code) = Meant(line) <=> ~Misencoded)

LEMMA InHandGood ==
  ASSUME NEW bytes, NEW mns, InHand(mns), Good(bytes, line.mn, Dst, Src)
  PROVE  bytes # Refuse => (D!Decoded(bytes) = Meant(line) <=> ~Misencoded)
BY DEF InHand, Good, Right

LEMMA SameLine ==
  ASSUME line' = line
  PROVE  (Misencoded' <=> Misencoded) /\ (Statement' <=> Statement) /\ Meant(line)' = Meant(line)
<1>1. Misencoded' <=> Misencoded
  BY DEF Misencoded, HighByteWithRex, NoSib, NoDisp, IndexLost, OffsetLost, BaseLost, SizeLost, HasMem, Ptr,
         Counterpart, WithSib44, IsAlu, Is, Dst, Src
<1>2. Statement' <=> Statement
  BY DEF Statement
<1>3. Meant(line)' = Meant(line)
  BY DEF Meant
<1> QED
  BY <1>1, <1>2, <1>3

LEMMA PushKeeps ==
  ASSUME NEW bytes, NEW mns, EncodeInv, InHand(mns), Push(bytes), Good(bytes, line.mn, Dst, Src)
  PROVE  EncodeInv'
<1>1. line # NoLine /\ line' = line /\ code' = bytes
  BY DEF Push
<1>2. bytes # <<>> => (D!Decoded(bytes) = Meant(line) <=> ~Misencoded)
  BY InHandGood DEF Refuse
<1>3. Statement
  BY <1>1 DEF EncodeInv
<1> QED
  BY <1>1, <1>2, <1>3, SameLine DEF EncodeInv

LEMMA EncodeKeeps ==
  ASSUME EncodeInv, Encode
  PROVE  EncodeInv'
<1>0. ASSUME NEW mns, Is(mns)
      PROVE  /\ InHand(mns) /\ line.mn \in mns /\ OfLine(line.mn, Dst, Src) /\ Shape(Dst) /\ Shape(Src)
             /\ line.mn \in OneOperand => Src = None
             /\ line.mn \in DOMAIN Flags => Dst = None /\ Src = None
  <2>1. line # NoLine /\ line.mn \in mns
    BY <1>0 DEF Is
  <2>2. Statement
    BY <2>1 DEF EncodeInv
  <2>3. InHand(mns)
    BY <1>0, <2>2, StatementInHand
  <2> QED
    BY <2>1, <2>3 DEF InHand, OfLine
<1>1. CASE EncodeMov
  <2>1. InHand({"mov"}) /\ line.mn = "mov" /\ Good(Mov(Dst, Src), line.mn, Dst, Src)
    BY <1>0, <1>1, MovIs DEF EncodeMov
  <2> QED
    BY <1>1, <2>1, PushKeeps DEF EncodeMov
<1>2. CASE EncodeMovzx
  <2>1. InHand({"movzx"}) /\ Good(Movzx(Dst, Src), line.mn, Dst, Src)
    BY <1>0, <1>2, MovzxIs DEF EncodeMovzx
  <2> QED
    BY <1>2, <2>1, PushKeeps DEF EncodeMovzx
<1>3. CASE EncodeMovsx
  <2>1. InHand({"movsx"}) /\ Good(Movsx(Dst, Src), line.mn, Dst, Src)
    BY <1>0, <1>3, MovsxIs DEF EncodeMovsx
  <2> QED
    BY <1>3, <2>1, PushKeeps DEF EncodeMovsx
<1>4. CASE EncodeLea
  <2>1. InHand({"lea"}) /\ Good(Lea(Dst, Src), line.mn, Dst, Src)
    BY <1>0, <1>4, LeaIs DEF EncodeLea
  <2> QED
    BY <1>4, <2>1, PushKeeps DEF EncodeLea
<1>5. CASE EncodeXchg
  <2>1. InHand({"xchg"}) /\ Good(Xchg(Dst, Src), line.mn, Dst, Src)
    BY <1>0, <1>5, XchgGood DEF EncodeXchg
  <2> QED
    BY <1>5, <2>1, PushKeeps DEF EncodeXchg
<1>6. CASE EncodeIncDec
  <2> DEFINE op == IncDecOp[line.mn]
  <2>1. InHand(DOMAIN IncDecOp) /\ line.mn \in DOMAIN IncDecOp /\ OfLine(line.mn, Dst, None) /\ Shape(Dst) /\ Src = None
    BY <1>0, <1>6 DEF EncodeIncDec, OneOperand
  <2>2. Good(IncDec(Dst, op), line.mn, Dst, Src)
    BY <2>1, IncDecIs
  <2> QED
    BY <1>6, <2>1, <2>2, PushKeeps DEF EncodeIncDec
<1>7. CASE EncodeAlu
  <2> DEFINE op == AluOp[line.mn]
  <2>1. InHand(DOMAIN AluOp) /\ Good(ArithLogic(Dst, Src, op), line.mn, Dst, Src)
    BY <1>0, <1>7, ArithLogicIs DEF EncodeAlu
  <2> QED
    BY <1>7, <2>1, PushKeeps DEF EncodeAlu
<1>8. CASE EncodeTest
  <2>1. InHand({"test"}) /\ Good(Test(Dst, Src), line.mn, Dst, Src)
    BY <1>0, <1>8, TestIs DEF EncodeTest
  <2> QED
    BY <1>8, <2>1, PushKeeps DEF EncodeTest
<1>9. CASE EncodeFlag
  <2>1. InHand(DOMAIN Flags) /\ line.mn \in DOMAIN Flags /\ OfLine(line.mn, Dst, Src) /\ Dst = None /\ Src = None
    BY <1>0, <1>9 DEF EncodeFlag
  <2>2. Good(<<Flags[line.mn]>>, line.mn, Dst, Src)
    BY <2>1, FlagsGood
  <2> QED
    BY <1>9, <2>1, <2>2, PushKeeps DEF EncodeFlag
<1>10. CASE EncodeNot
  <2>1. InHand({"not"}) /\ line.mn = "not" /\ OfLine(line.mn, Dst, None) /\ Shape(Dst) /\ Src = None
    BY <1>0, <1>10 DEF EncodeNot, OneOperand
  <2>2. Good(Not(Dst), line.mn, Dst, Src)
    BY <2>1, NotGood
  <2> QED
    BY <1>10, <2>1, <2>2, PushKeeps DEF EncodeNot
<1>11. CASE EncodeSetcc
  <2> DEFINE cc == Cond[line.mn]
  <2>1. InHand(DOMAIN Cond) /\ line.mn \in DOMAIN Cond /\ OfLine(line.mn, Dst, None) /\ Shape(Dst) /\ Src = None
    BY <1>0, <1>11 DEF EncodeSetcc, OneOperand
  <2>2. Good(Setcc(Dst, cc), line.mn, Dst, Src)
    BY <2>1, SetccGood
  <2> QED
    BY <1>11, <2>1, <2>2, PushKeeps DEF EncodeSetcc
<1>12. CASE EncodeShift
  <2> DEFINE op == ShiftOp[line.mn]
  <2>1. InHand(DOMAIN ShiftOp) /\ Good(Rotsft(Dst, Src, op), line.mn, Dst, Src)
    BY <1>0, <1>12, RotsftGood DEF EncodeShift
  <2> QED
    BY <1>12, <2>1, PushKeeps DEF EncodeShift
<1>13. CASE EncodePush
  <2>1. InHand({"push"}) /\ line.mn = "push" /\ OfLine(line.mn, Dst, None) /\ Shape(Dst) /\ Src = None
    BY <1>0, <1>13 DEF EncodePush, OneOperand
  <2>2. Good(PushPop(Dst, 0), line.mn, Dst, Src)
    BY <2>1, PushPopIs
  <2> QED
    BY <1>13, <2>1, <2>2, PushKeeps DEF EncodePush
<1>14. CASE EncodePop
  <2>1. InHand({"pop"}) /\ line.mn = "pop" /\ OfLine(line.mn, Dst, None) /\ Shape(Dst) /\ Src = None
    BY <1>0, <1>14 DEF EncodePop, OneOperand
  <2>2. Good(PushPop(Dst, 1), line.mn, Dst, Src)
    BY <2>1, PushPopIs
  <2> QED
    BY <1>14, <2>1, <2>2, PushKeeps DEF EncodePop
<1> QED
  BY <1>1, <1>2, <1>3, <1>4, <1>5, <1>6, <1>7, <1>8, <1>9, <1>10, <1>11, <1>12, <1>13, <1>14 DEF Encode

LEMMA EncodeInductive ==
  ASSUME EncodeInv, [Next]_vars
  PROVE  EncodeInv'
<1>1. CASE Encode
  BY <1>1, EncodeKeeps
<1>2. CASE NextStatement
  BY <1>2 DEF NextStatement, EncodeInv
<1>3. ASSUME NEW f \in Forms, Read(f)
      PROVE  EncodeInv'
  <2>1. line = NoLine /\ code' = code
    BY <1>3 DEF Read
  <2>2. PICK mn \in f.mns, d \in f.dsts, s \in f.srcs : line' = Line(mn, d, s)
    BY <1>3 DEF Read
  <2>3. IsStatement(mn, d, s)
    BY <2>2, FormsAssumption
  <2>4. Statement'
    BY <2>2, <2>3 DEF Statement
  <2>5. code = <<>>
    BY <2>1 DEF EncodeInv
  <2> QED
    BY <2>1, <2>4, <2>5 DEF EncodeInv
<1>4. CASE UNCHANGED vars
  <2>1. line' = line /\ code' = code
    BY <1>4 DEF vars
  <2> QED
    BY <2>1, SameLine DEF EncodeInv
<1> QED
  BY <1>1, <1>2, <1>3, <1>4 DEF Next

\* The bytes of a statement are that statement to the processor, unless it is one of
\* the named exceptions, and then they are not (the encoders of asm/x86_64.intel.c).
THEOREM Meaning == Spec => []CodeMeansStatement
<1>1. Init => EncodeInv
  BY DEF Init, EncodeInv
<1>2. EncodeInv /\ [Next]_vars => EncodeInv'
  BY EncodeInductive
<1>3. EncodeInv => CodeMeansStatement
  BY DEF EncodeInv, CodeMeansStatement
<1> QED
  BY <1>1, <1>2, <1>3, PTL DEF Spec

==============================================================================
