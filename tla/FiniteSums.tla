------------------------------ MODULE FiniteSums ------------------------------
(***************************************************************************)
(* Lemmas about least elements and about sums over finite sets, as         *)
(* SumFunctionOnSet of the community module Functions defines them.        *)
(*                                                                         *)
(* Induction needs no theorem that takes an operator here: a claim about   *)
(* the subsets of a finite set holds because no subset is a smallest       *)
(* counterexample (SmallestSet).                                           *)
(***************************************************************************)
EXTENDS Integers, Sequences, FiniteSetsExt, FiniteSetTheorems, WellFoundedInduction, TLAPS

\* A nonempty set of naturals has a least element, which Min denotes.
LEMMA NatMin ==
  ASSUME NEW S, S \subseteq Nat, S # {}
  PROVE  Min(S) \in S /\ \A y \in S : Min(S) <= y
<1> DEFINE R == {ss \in Nat \X Nat : ss[1] < ss[2]}
<1>1. R = OpToRel(<, Nat)
  BY DEF OpToRel
<1>2. IsWellFoundedOn(R, Nat)
  BY <1>1, NatLessThanWellFounded
<1>3. PICK x \in S : \A y \in S : <<y, x>> \notin R
  <2> HIDE DEF R
  <2> QED
    BY <1>2, WFMin
<1>4. ASSUME NEW y \in S PROVE x <= y
  <2>1. x \in Nat /\ y \in Nat
    OBVIOUS
  <2>2. ~(<<y, x>>[1] < <<y, x>>[2])
    BY <1>3, <2>1, Zenon
  <2> QED
    BY <2>1, <2>2
<1> QED
  BY <1>4 DEF Min

\* A nonempty set of integers with a bound has a largest element.
LEMMA IntMax ==
  ASSUME NEW S, S \subseteq Int, S # {}, NEW b \in Int, \A x \in S : x <= b
  PROVE  Max(S) \in S /\ \A y \in S : y <= Max(S)
<1> DEFINE R == {b - x : x \in S}
<1>1. R \subseteq Nat /\ R # {}
  <2>1. \A x \in S : b - x \in Nat
    OBVIOUS
  <2> QED
    BY <2>1
<1>2. Min(R) \in R /\ \A y \in R : Min(R) <= y
  BY <1>1, NatMin
<1>3. PICK m \in S : Min(R) = b - m
  BY <1>2
<1>4. ASSUME NEW y \in S PROVE y <= m
  <2>1. b - m <= b - y /\ y \in Int /\ m \in Int
    BY <1>2, <1>3
  <2> QED
    BY <2>1
<1> QED
  BY <1>4 DEF Max

\* Among subsets of a finite set one has no proper subset among them.
LEMMA SmallestSet ==
  ASSUME NEW S, IsFiniteSet(S), NEW D, D \subseteq SUBSET S, D # {}
  PROVE  \E T \in D : IsFiniteSet(T) /\ T \subseteq S /\ \A U \in SUBSET T : U # T => U \notin D
<1> DEFINE C == {Cardinality(T) : T \in D}
<1>1. \A T \in D : IsFiniteSet(T) /\ Cardinality(T) \in Nat
  BY FS_Subset, FS_CardinalityType
<1>2. C \subseteq Nat /\ C # {}
  BY <1>1
<1>3. PICK T \in D : \A U \in D : Cardinality(T) <= Cardinality(U)
  <2>1. Min(C) \in C /\ \A y \in C : Min(C) <= y
    BY <1>2, NatMin
  <2>2. PICK T \in D : Min(C) = Cardinality(T)
    BY <2>1
  <2> QED
    BY <2>1, <2>2
<1>4. ASSUME NEW U \in SUBSET T, U # T, U \in D PROVE FALSE
  <2>1. IsFiniteSet(T) /\ IsFiniteSet(U) /\ Cardinality(T) \in Nat /\ Cardinality(U) \in Nat
    BY <1>1, <1>4
  <2>2. Cardinality(U) <= Cardinality(T) /\ Cardinality(T) <= Cardinality(U)
    BY <1>3, <1>4, <2>1, FS_Subset
  <2> QED
    BY <1>4, <2>1, <2>2, FS_Subset
<1> QED
  BY <1>1, <1>4

------------------------------------------------------------------------------
(* The sum of f over S takes the elements of S in the order of Pick.        *)

Pick(s) == CHOOSE x \in s : TRUE
Sums(g, f, S) ==
  g = [s \in SUBSET S |-> IF s = {} THEN 0 ELSE f[Pick(s)] + g[s \ {Pick(s)}]]

LEMMA PickIn == \A s : s # {} => Pick(s) \in s
BY DEF Pick

LEMMA SumIs ==
  ASSUME NEW f, NEW S
  PROVE  SumFunctionOnSet(f, S) = (CHOOSE g : Sums(g, f, S))[S]
BY DEF SumFunctionOnSet, FoldFunctionOnSet, MapThenFoldSet, Sums, Pick

LEMMA SumsUnique ==
  ASSUME NEW f, NEW A, NEW B, NEW g, Sums(g, f, A), NEW h, Sums(h, f, B),
         NEW S, IsFiniteSet(S), S \subseteq A, S \subseteq B
  PROVE  g[S] = h[S]
<1> DEFINE D == {s \in SUBSET S : g[s] # h[s]}
<1>1. SUFFICES ASSUME D # {} PROVE FALSE
  OBVIOUS
<1>a. D \subseteq SUBSET S
  OBVIOUS
<1> HIDE DEF D
<1>2. PICK T \in D : T \subseteq S /\ \A U \in SUBSET T : U # T => U \notin D
  BY <1>1, <1>a, SmallestSet
<1> USE DEF D
<1>3. /\ g[T] = IF T = {} THEN 0 ELSE f[Pick(T)] + g[T \ {Pick(T)}]
      /\ h[T] = IF T = {} THEN 0 ELSE f[Pick(T)] + h[T \ {Pick(T)}]
  BY <1>2 DEF Sums
<1>4. T # {}
  BY <1>3
<1>5. T \ {Pick(T)} \in SUBSET T /\ T \ {Pick(T)} # T
  BY <1>4, PickIn
<1>6. g[T \ {Pick(T)}] = h[T \ {Pick(T)}]
  BY <1>2, <1>5
<1> QED
  BY <1>3, <1>6

\* Where such functions exist the sum is as they say.
LEMMA SumUnfolds ==
  ASSUME NEW f, NEW S, IsFiniteSet(S), NEW g, Sums(g, f, S), S # {},
         NEW h, Sums(h, f, S \ {Pick(S)})
  PROVE  SumFunctionOnSet(f, S) = f[Pick(S)] + SumFunctionOnSet(f, S \ {Pick(S)})
<1> DEFINE R == S \ {Pick(S)}
           gg == CHOOSE k : Sums(k, f, S)
           hh == CHOOSE k : Sums(k, f, R)
<1>1. Sums(gg, f, S) /\ Sums(hh, f, R)
  OBVIOUS
<1>2. IsFiniteSet(R) /\ R \subseteq S
  BY FS_RemoveElement
<1> HIDE DEF gg, hh
<1>3. gg[R] = hh[R]
  BY <1>1, <1>2, SumsUnique
<1>4. gg[S] = f[Pick(S)] + gg[R]
  BY <1>1 DEF Sums
<1>5. SumFunctionOnSet(f, S) = gg[S] /\ SumFunctionOnSet(f, R) = hh[R]
  BY SumIs DEF gg, hh
<1> QED
  BY <1>3, <1>4, <1>5

LEMMA SumEmpty == \A f : SumFunctionOnSet(f, {}) = 0
<1> SUFFICES ASSUME NEW f PROVE SumFunctionOnSet(f, {}) = 0
  OBVIOUS
<1> DEFINE g == [s \in SUBSET {} |-> 0]
<1>1. Sums(g, f, {})
  BY DEF Sums
<1> HIDE DEF g
<1>2. \A k : Sums(k, f, {}) => k[{}] = 0
  BY DEF Sums
<1> QED
  BY <1>1, <1>2, SumIs

LEMMA SumsExist ==
  ASSUME NEW f, NEW S, IsFiniteSet(S)
  PROVE  \E g : Sums(g, f, S)
<1> DEFINE D == {s \in SUBSET S : ~\E g : Sums(g, f, s)}
<1>1. SUFFICES ASSUME D # {} PROVE FALSE
  OBVIOUS
<1>a. D \subseteq SUBSET S
  OBVIOUS
<1> HIDE DEF D
<1>2. PICK T \in D : IsFiniteSet(T) /\ T \subseteq S /\ \A U \in SUBSET T : U # T => U \notin D
  BY <1>1, <1>a, SmallestSet
<1> USE DEF D
<1>3. \A U \in SUBSET T : U # T => \E g : Sums(g, f, U)
  BY <1>2
<1> DEFINE V(s) == SumFunctionOnSet(f, s)
           g == [s \in SUBSET T |-> IF s = {} THEN 0 ELSE f[Pick(s)] + V(s \ {Pick(s)})]
<1>4. ASSUME NEW s \in SUBSET T, s # {}
      PROVE  g[s \ {Pick(s)}] = V(s \ {Pick(s)})
  <2> DEFINE R == s \ {Pick(s)}
  <2>1. R \in SUBSET T /\ R # T /\ IsFiniteSet(R)
    BY <1>2, <1>4, PickIn, FS_Subset
  <2>2. CASE R = {}
    BY <2>1, <2>2, SumEmpty
  <2>3. CASE R # {}
    <3>1. R \ {Pick(R)} \in SUBSET T /\ R \ {Pick(R)} # T
      BY <2>1, <2>3, PickIn
    <3>2. PICK h, k : Sums(h, f, R) /\ Sums(k, f, R \ {Pick(R)})
      BY <1>3, <2>1, <3>1
    <3>3. V(R) = f[Pick(R)] + V(R \ {Pick(R)})
      <4> HIDE DEF R
      <4> QED
        BY <2>1, <2>3, <3>2, SumUnfolds
    <3> QED
      BY <2>1, <2>3, <3>3
  <2> QED
    BY <2>2, <2>3
<1>5. \A s \in SUBSET T : g[s] = IF s = {} THEN 0 ELSE f[Pick(s)] + g[s \ {Pick(s)}]
  <2> SUFFICES ASSUME NEW s \in SUBSET T
               PROVE  g[s] = IF s = {} THEN 0 ELSE f[Pick(s)] + g[s \ {Pick(s)}]
    OBVIOUS
  <2>1. g[s] = IF s = {} THEN 0 ELSE f[Pick(s)] + V(s \ {Pick(s)})
    OBVIOUS
  <2> HIDE DEF g, V
  <2> QED
    BY <1>4, <2>1
<1>6. g = [s \in SUBSET T |-> g[s]]
  OBVIOUS
<1> HIDE DEF g
<1>7. Sums(g, f, T)
  BY <1>5, <1>6 DEF Sums
<1> QED
  BY <1>2, <1>7

LEMMA SumPick ==
  ASSUME NEW f, NEW S, IsFiniteSet(S), S # {}
  PROVE  SumFunctionOnSet(f, S) = f[Pick(S)] + SumFunctionOnSet(f, S \ {Pick(S)})
<1>1. IsFiniteSet(S \ {Pick(S)})
  BY FS_RemoveElement
<1>2. PICK g, h : Sums(g, f, S) /\ Sums(h, f, S \ {Pick(S)})
  BY <1>1, SumsExist
<1> QED
  BY <1>2, SumUnfolds

\* The sum of integers is an integer, that of naturals a natural.
LEMMA SumType ==
  ASSUME NEW f, NEW S, IsFiniteSet(S), \A i \in S : f[i] \in Int
  PROVE  /\ SumFunctionOnSet(f, S) \in Int
         /\ (\A i \in S : f[i] >= 0) => SumFunctionOnSet(f, S) \in Nat
<1> DEFINE Good(s) == /\ SumFunctionOnSet(f, s) \in Int
                      /\ (\A i \in S : f[i] >= 0) => SumFunctionOnSet(f, s) \in Nat
           D == {s \in SUBSET S : ~Good(s)}
<1>1. SUFFICES ASSUME D # {} PROVE FALSE
  OBVIOUS
<1>2. D \subseteq SUBSET S
  OBVIOUS
<1> HIDE DEF D
<1>3. PICK T \in D : IsFiniteSet(T) /\ T \subseteq S /\ \A U \in SUBSET T : U # T => U \notin D
  BY <1>1, <1>2, SmallestSet
<1> DEFINE p == Pick(T)
           R == T \ {p}
<1>4. T # {}
  <2>1. Good({})
    BY SumEmpty
  <2> HIDE DEF Good
  <2> QED
    BY <1>3, <2>1 DEF D
<1>5. p \in T /\ p \in S /\ R \in SUBSET T /\ R # T /\ R \in SUBSET S
  BY <1>3, <1>4, PickIn
<1>6. Good(R)
  <2> HIDE DEF Good, R
  <2> QED
    BY <1>3, <1>5 DEF D
<1>7. SumFunctionOnSet(f, T) = f[p] + SumFunctionOnSet(f, R)
  BY <1>3, <1>4, SumPick
<1> HIDE DEF R, p
<1>8. Good(T)
  BY <1>5, <1>6, <1>7
<1> HIDE DEF Good
<1> QED
  BY <1>3, <1>8 DEF D

\* Any element may be taken first.
LEMMA SumStep ==
  ASSUME NEW f, NEW S, IsFiniteSet(S), \A i \in S : f[i] \in Int, NEW x \in S
  PROVE  SumFunctionOnSet(f, S) = f[x] + SumFunctionOnSet(f, S \ {x})
<1> DEFINE V(s) == SumFunctionOnSet(f, s)
           Good(s) == \A y \in s : V(s) = f[y] + V(s \ {y})
           D == {s \in SUBSET S : ~Good(s)}
<1>1. SUFFICES ASSUME D # {} PROVE FALSE
  OBVIOUS
<1>2. D \subseteq SUBSET S
  OBVIOUS
<1> HIDE DEF D
<1>3. PICK T \in D : IsFiniteSet(T) /\ T \subseteq S /\ \A U \in SUBSET T : U # T => U \notin D
  BY <1>1, <1>2, SmallestSet
<1>4. \A U \in SUBSET T : U # T => Good(U)
  <2> HIDE DEF Good
  <2> QED
    BY <1>3 DEF D
<1>5. PICK y \in T : V(T) # f[y] + V(T \ {y})
  BY <1>3 DEF D
<1> DEFINE p == Pick(T)
<1>6. p \in T
  BY <1>5, PickIn
<1>7. V(T) = f[p] + V(T \ {p})
  BY <1>3, <1>5, SumPick
<1> HIDE DEF p
<1>8. p # y
  BY <1>5, <1>7
<1>9. /\ T \ {p} \in SUBSET T /\ T \ {p} # T /\ y \in T \ {p}
      /\ T \ {y} \in SUBSET T /\ T \ {y} # T /\ p \in T \ {y}
      /\ (T \ {p}) \ {y} = (T \ {y}) \ {p}
  BY <1>5, <1>6, <1>8
<1>10. V(T \ {p}) = f[y] + V((T \ {p}) \ {y}) /\ V(T \ {y}) = f[p] + V((T \ {p}) \ {y})
  <2>1. Good(T \ {p}) /\ Good(T \ {y})
    BY <1>4, <1>9
  <2> QED
    BY <1>9, <2>1
<1>11. V((T \ {p}) \ {y}) \in Int /\ f[p] \in Int /\ f[y] \in Int
  <2>1. IsFiniteSet((T \ {p}) \ {y}) /\ (T \ {p}) \ {y} \subseteq S
    BY <1>3, FS_RemoveElement
  <2>2. V((T \ {p}) \ {y}) \in Int
    BY <2>1, SumType
  <2> QED
    BY <1>3, <1>5, <1>6, <2>2
<1> HIDE DEF V
<1> QED
  BY <1>5, <1>7, <1>10, <1>11

LEMMA SumAdd ==
  ASSUME NEW f, NEW S, IsFiniteSet(S), NEW x, x \notin S, \A i \in S \cup {x} : f[i] \in Int
  PROVE  SumFunctionOnSet(f, S \cup {x}) = f[x] + SumFunctionOnSet(f, S)
<1>1. IsFiniteSet(S \cup {x}) /\ x \in S \cup {x} /\ (S \cup {x}) \ {x} = S
  BY FS_AddElement
<1> QED
  BY <1>1, SumStep

LEMMA SumOne ==
  ASSUME NEW f, NEW x, f[x] \in Int
  PROVE  SumFunctionOnSet(f, {x}) = f[x]
<1>1. SumFunctionOnSet(f, {} \cup {x}) = f[x] + SumFunctionOnSet(f, {})
  BY SumAdd, FS_EmptySet
<1>2. {} \cup {x} = {x}
  OBVIOUS
<1> QED
  BY <1>1, <1>2, SumEmpty

\* Element by element.
LEMMA SumLess ==
  ASSUME NEW f, NEW g, NEW S, IsFiniteSet(S),
         \A i \in S : f[i] \in Int /\ g[i] \in Int /\ f[i] <= g[i]
  PROVE  SumFunctionOnSet(f, S) <= SumFunctionOnSet(g, S)
<1> DEFINE Good(s) == SumFunctionOnSet(f, s) <= SumFunctionOnSet(g, s)
           D == {s \in SUBSET S : ~Good(s)}
<1>1. SUFFICES ASSUME D # {} PROVE FALSE
  OBVIOUS
<1>2. D \subseteq SUBSET S
  OBVIOUS
<1> HIDE DEF D
<1>3. PICK T \in D : IsFiniteSet(T) /\ T \subseteq S /\ \A U \in SUBSET T : U # T => U \notin D
  BY <1>1, <1>2, SmallestSet
<1>4. T # {}
  <2>1. Good({})
    BY SumEmpty
  <2> HIDE DEF Good
  <2> QED
    BY <1>3, <2>1 DEF D
<1> DEFINE p == Pick(T)
           R == T \ {p}
<1>5. p \in T /\ p \in S /\ R \in SUBSET T /\ R # T /\ R \in SUBSET S /\ IsFiniteSet(R)
  BY <1>3, <1>4, PickIn, FS_RemoveElement
<1>6. Good(R)
  <2> HIDE DEF Good, R
  <2> QED
    BY <1>3, <1>5 DEF D
<1>7. SumFunctionOnSet(f, T) = f[p] + SumFunctionOnSet(f, R) /\ SumFunctionOnSet(g, T) = g[p] + SumFunctionOnSet(g, R)
  BY <1>3, <1>4, SumPick
<1> HIDE DEF R, p
<1>8. SumFunctionOnSet(f, R) \in Int /\ SumFunctionOnSet(g, R) \in Int
  BY <1>5, SumType
<1>9. f[p] \in Int /\ g[p] \in Int /\ f[p] <= g[p]
  BY <1>5
<1>10. Good(T)
  BY <1>6, <1>7, <1>8, <1>9
<1> QED
  BY <1>3, <1>10 DEF D

LEMMA SumSame ==
  ASSUME NEW f, NEW g, NEW S, IsFiniteSet(S),
         \A i \in S : f[i] \in Int /\ f[i] = g[i]
  PROVE  SumFunctionOnSet(f, S) = SumFunctionOnSet(g, S)
<1>1. SumFunctionOnSet(f, S) <= SumFunctionOnSet(g, S) /\ SumFunctionOnSet(g, S) <= SumFunctionOnSet(f, S)
  BY SumLess
<1>2. SumFunctionOnSet(f, S) \in Int /\ SumFunctionOnSet(g, S) \in Int
  BY SumType
<1> QED
  BY <1>1, <1>2

\* Nothing but zeros.
LEMMA SumZero ==
  ASSUME NEW f, NEW S, IsFiniteSet(S), \A i \in S : f[i] = 0
  PROVE  SumFunctionOnSet(f, S) = 0
<1> DEFINE Good(s) == SumFunctionOnSet(f, s) = 0
           D == {s \in SUBSET S : ~Good(s)}
<1>1. SUFFICES ASSUME D # {} PROVE FALSE
  OBVIOUS
<1>2. D \subseteq SUBSET S
  OBVIOUS
<1> HIDE DEF D
<1>3. PICK T \in D : IsFiniteSet(T) /\ T \subseteq S /\ \A U \in SUBSET T : U # T => U \notin D
  BY <1>1, <1>2, SmallestSet
<1>4. T # {}
  <2>1. Good({})
    BY SumEmpty
  <2> HIDE DEF Good
  <2> QED
    BY <1>3, <2>1 DEF D
<1> DEFINE p == Pick(T)
           R == T \ {p}
<1>5. p \in T /\ p \in S /\ R \in SUBSET T /\ R # T /\ R \in SUBSET S
  BY <1>3, <1>4, PickIn
<1>6. Good(R)
  <2> HIDE DEF Good, R
  <2> QED
    BY <1>3, <1>5 DEF D
<1>7. SumFunctionOnSet(f, T) = f[p] + SumFunctionOnSet(f, R)
  BY <1>3, <1>4, SumPick
<1> HIDE DEF R, p
<1>8. Good(T)
  BY <1>5, <1>6, <1>7
<1> QED
  BY <1>3, <1>8 DEF D

\* Over two sets that have nothing in common.
LEMMA SumApart ==
  ASSUME NEW f, NEW A, IsFiniteSet(A), NEW B, IsFiniteSet(B), A \cap B = {},
         \A i \in A \cup B : f[i] \in Int
  PROVE  SumFunctionOnSet(f, A \cup B) = SumFunctionOnSet(f, A) + SumFunctionOnSet(f, B)
<1> DEFINE V(s) == SumFunctionOnSet(f, s)
           Good(s) == V(s \cup B) = V(s) + V(B)
           D == {s \in SUBSET A : ~Good(s)}
<1>1. SUFFICES ASSUME D # {} PROVE FALSE
  OBVIOUS
<1>2. D \subseteq SUBSET A
  OBVIOUS
<1> HIDE DEF D
<1>3. PICK T \in D : IsFiniteSet(T) /\ T \subseteq A /\ \A U \in SUBSET T : U # T => U \notin D
  BY <1>1, <1>2, SmallestSet
<1>a. V(B) \in Int
  BY SumType
<1>4. T # {}
  <2>1. V({} \cup B) = V({}) + V(B)
    BY <1>a, SumEmpty
  <2> HIDE DEF V
  <2> QED
    BY <1>3, <2>1 DEF D
<1> DEFINE p == Pick(T)
           R == T \ {p}
<1>5. p \in T /\ p \in A /\ R \in SUBSET T /\ R # T /\ R \in SUBSET A /\ IsFiniteSet(R)
  BY <1>3, <1>4, PickIn, FS_RemoveElement
<1>6. Good(R)
  <2> HIDE DEF Good, R
  <2> QED
    BY <1>3, <1>5 DEF D
<1>7. V(T) = f[p] + V(R)
  BY <1>3, <1>4, SumPick
<1> HIDE DEF R, p
<1>8. V(T \cup B) = f[p] + V(R \cup B)
  <2>1. IsFiniteSet(T \cup B) /\ p \in T \cup B /\ \A i \in T \cup B : f[i] \in Int
    BY <1>3, <1>5, FS_Union
  <2>2. (T \cup B) \ {p} = R \cup B
    BY <1>5 DEF R
  <2> QED
    BY <2>1, <2>2, SumStep
<1>9. V(R) \in Int /\ f[p] \in Int
  BY <1>5, SumType
<1> HIDE DEF V
<1>10. Good(T)
  BY <1>a, <1>6, <1>7, <1>8, <1>9
<1> QED
  BY <1>3, <1>10 DEF D

\* More elements, none of them negative.
LEMMA SumMore ==
  ASSUME NEW f, NEW B, IsFiniteSet(B), \A i \in B : f[i] \in Nat, NEW A \in SUBSET B
  PROVE  SumFunctionOnSet(f, A) <= SumFunctionOnSet(f, B)
<1> DEFINE C == B \ A
<1>1. IsFiniteSet(A) /\ IsFiniteSet(C) /\ A \cup C = B /\ A \cap C = {}
  BY FS_Subset
<1>2. SumFunctionOnSet(f, A \cup C) = SumFunctionOnSet(f, A) + SumFunctionOnSet(f, C)
  <2>1. \A i \in A \cup C : f[i] \in Int
    OBVIOUS
  <2> HIDE DEF C
  <2> QED
    BY <1>1, <2>1, SumApart
<1>3. SumFunctionOnSet(f, A) \in Int /\ SumFunctionOnSet(f, C) \in Nat
  BY <1>1, SumType
<1>4. SumFunctionOnSet(f, B) = SumFunctionOnSet(f, A) + SumFunctionOnSet(f, C)
  <2> HIDE DEF C
  <2> QED
    BY <1>1, <1>2
<1> HIDE DEF C
<1> QED
  BY <1>3, <1>4

\* The n-th of a finite set of numbers.
Within(S, b) == S \subseteq 1 .. b

LEMMA RankExists ==
  ASSUME NEW S, IsFiniteSet(S), NEW b \in Nat, Within(S, b)
  PROVE  \A i \in 1 .. Cardinality(S) : \E x \in S : Cardinality({ j \in S : j <= x }) = i
<1> DEFINE Good(s) == \A i \in 1 .. Cardinality(s) : \E x \in s : Cardinality({ j \in s : j <= x }) = i
           D == { s \in SUBSET S : ~Good(s) }
<1>1. SUFFICES ASSUME D # {} PROVE FALSE
  <2>1. S \in SUBSET S
    OBVIOUS
  <2> QED
    BY <2>1
<1>2. D \subseteq SUBSET S
  OBVIOUS
<1>3. \A s \in D : ~Good(s)
  OBVIOUS
<1>4. \A s \in SUBSET S : s \notin D => Good(s)
  OBVIOUS
<1> HIDE DEF D, Good
<1>5. PICK T \in D : IsFiniteSet(T) /\ T \subseteq S /\ \A U \in SUBSET T : U # T => U \notin D
  BY <1>1, <1>2, SmallestSet
<1> DEFINE t == T
<1>0. t \in D /\ IsFiniteSet(t) /\ t \subseteq S /\ \A u \in SUBSET t : u # t => u \notin D
  BY <1>5
<1> HIDE DEF t
<1>6. t # {}
  <2> SUFFICES ASSUME t = {} PROVE FALSE
    OBVIOUS
  <2>1. Cardinality(t) = 0
    BY FS_EmptySet
  <2>2. Good(t)
    BY <2>1 DEF Good
  <2> QED
    BY <1>0, <1>3, <2>2
<1>7. PICK m \in t : \A y \in t : y <= m
  <2>0. t \subseteq 1 .. b
    BY <1>0 DEF Within
  <2>1. \A y \in t : y <= b
    BY <2>0
  <2>2. t \subseteq Int
    BY <2>0
  <2>3. Max(t) \in t /\ \A y \in t : y <= Max(t)
    <3>1. b \in Int
      OBVIOUS
    <3> QED
      BY <1>6, <2>1, <2>2, <3>1, IntMax
  <2> QED
    BY <2>3
<1> DEFINE R == t \ {m}
<1>8. IsFiniteSet(R) /\ Cardinality(t) = Cardinality(R) + 1 /\ Cardinality(R) \in Nat
  <2>1. IsFiniteSet(R) /\ Cardinality(R) = Cardinality(t) - 1
    BY <1>0, FS_RemoveElement
  <2>2. Cardinality(t) \in Nat /\ Cardinality(R) \in Nat
    BY <1>0, <2>1, FS_CardinalityType
  <2> QED
    BY <2>1, <2>2
<1>9. Good(R)
  <2>1. R \in SUBSET t /\ R # t /\ R \in SUBSET S
    BY <1>0
  <2> QED
    BY <1>4, <1>0, <2>1
<1>10. ASSUME NEW i \in 1 .. Cardinality(t)
       PROVE  \E x \in t : Cardinality({ j \in t : j <= x }) = i
  <2>1. CASE i = Cardinality(t)
    <3>1. { j \in t : j <= m } = t
      BY <1>7
    <3> QED
      BY <2>1, <3>1
  <2>2. CASE i # Cardinality(t)
    <3>1. i \in 1 .. Cardinality(R)
      BY <1>8, <2>2
    <3>2. PICK x \in R : Cardinality({ j \in R : j <= x }) = i
      BY <1>9, <3>1 DEF Good
    <3>3. { j \in t : j <= x } = { j \in R : j <= x }
      <4>1. x <= m /\ x # m /\ x \in Nat /\ m \in Nat
        BY <1>0, <1>7 DEF Within
      <4>2. ~(m <= x)
        BY <4>1
      <4> QED
        BY <4>2
    <3> QED
      BY <3>2, <3>3
  <2> QED
    BY <2>1, <2>2
<1>11. Good(t)
  BY <1>10 DEF Good
<1> QED
  BY <1>0, <1>3, <1>11

\* The number of members up to x.
Rank(S, x) == Cardinality({ j \in S : j <= x })

\* It orders the members as they are.
LEMMA RankLess ==
  ASSUME NEW S, IsFiniteSet(S), NEW b \in Nat, Within(S, b)
  PROVE  /\ \A x \in S : Rank(S, x) \in 1 .. Cardinality(S)
         /\ \A x, y \in S : x < y <=> Rank(S, x) < Rank(S, y)
<1> DEFINE Up(x) == { j \in S : j <= x }
<1>1. S \subseteq Nat
  BY DEF Within
<1>2. \A x \in S : /\ IsFiniteSet(Up(x)) /\ Cardinality(Up(x)) \in Nat
                   /\ Cardinality(Up(x)) <= Cardinality(S)
  <2> SUFFICES ASSUME NEW x \in S
               PROVE  /\ IsFiniteSet(Up(x)) /\ Cardinality(Up(x)) \in Nat
                      /\ Cardinality(Up(x)) <= Cardinality(S)
    OBVIOUS
  <2>1. Up(x) \in SUBSET S
    OBVIOUS
  <2> HIDE DEF Up
  <2> QED
    BY <2>1, FS_Subset, FS_CardinalityType
<1>3. \A x \in S : Cardinality(Up(x)) # 0
  <2> SUFFICES ASSUME NEW x \in S PROVE Cardinality(Up(x)) # 0
    OBVIOUS
  <2>1. x \in Up(x)
    BY <1>1
  <2> HIDE DEF Up
  <2> QED
    BY <1>2, <2>1, FS_EmptySet
<1>4. \A x, y \in S : x < y => Cardinality(Up(x)) < Cardinality(Up(y))
  <2> SUFFICES ASSUME NEW x \in S, NEW y \in S, x < y
               PROVE  Cardinality(Up(x)) < Cardinality(Up(y))
    OBVIOUS
  <2>a. x \in Nat /\ y \in Nat /\ (\A j \in S : j \in Nat /\ (j <= x => j <= y)) /\ y <= y /\ ~(y <= x)
    BY <1>1
  <2>1. Up(x) \in SUBSET Up(y) /\ y \in Up(y) /\ y \notin Up(x)
    BY <2>a
  <2> HIDE DEF Up
  <2>2. Cardinality(Up(x)) <= Cardinality(Up(y)) /\ Cardinality(Up(x)) # Cardinality(Up(y))
    BY <1>2, <2>1, FS_Subset
  <2> QED
    BY <1>2, <2>2
<1>5. \A x \in S : Rank(S, x) = Cardinality(Up(x))
  BY DEF Rank
<1>6. Cardinality(S) \in Nat
  BY FS_CardinalityType
<1>7. \A x, y \in S : x < y \/ y < x \/ x = y
  BY <1>1
<1> HIDE DEF Up
<1>8. \A x \in S : Rank(S, x) \in 1 .. Cardinality(S)
  BY <1>2, <1>3, <1>5, <1>6
<1>9. ASSUME NEW x \in S, NEW y \in S
      PROVE  x < y <=> Rank(S, x) < Rank(S, y)
  <2>1. Rank(S, x) \in Nat /\ Rank(S, y) \in Nat
    BY <1>2, <1>5
  <2>2. x < y => Rank(S, x) < Rank(S, y)
    BY <1>4, <1>5
  <2>3. y < x => Rank(S, y) < Rank(S, x)
    BY <1>4, <1>5
  <2> QED
    BY <1>7, <2>1, <2>2, <2>3
<1> QED
  BY <1>8, <1>9

\* The members of S one by one: a sum over the first positions is the sum
\* over the members there.
LEMMA SumRanks ==
  ASSUME NEW S, IsFiniteSet(S), NEW b \in Nat, Within(S, b),
         NEW o, \A i \in 1 .. Cardinality(S) : o[i] \in S /\ Rank(S, o[i]) = i,
         NEW f, \A x \in S : f[x] \in Nat,
         NEW g, \A i \in 1 .. Cardinality(S) : g[i] = f[o[i]]
  PROVE  /\ \A i \in 1 .. Cardinality(S) :
              SumFunctionOnSet(g, 1 .. (i - 1)) = SumFunctionOnSet(f, { x \in S : x < o[i] })
         /\ SumFunctionOnSet(g, 1 .. Cardinality(S)) = SumFunctionOnSet(f, S)
<1> DEFINE n == Cardinality(S)
           First(i) == { x \in S : Rank(S, x) <= i }
           Good(i) == SumFunctionOnSet(g, 1 .. i) = SumFunctionOnSet(f, First(i))
           C == { i \in 0 .. n : ~Good(i) }
<1>1. n \in Nat
  BY FS_CardinalityType
<1>2. /\ \A x \in S : Rank(S, x) \in Nat /\ 1 <= Rank(S, x) /\ Rank(S, x) <= n /\ ~(Rank(S, x) <= 0)
      /\ \A x, y \in S : x < y <=> Rank(S, x) < Rank(S, y)
      /\ S \subseteq Nat
  <2>1. /\ \A x \in S : Rank(S, x) \in 1 .. n
        /\ \A x, y \in S : x < y <=> Rank(S, x) < Rank(S, y)
    BY RankLess
  <2>2. S \subseteq Nat
    BY DEF Within
  <2>3. ASSUME NEW k \in 1 .. n PROVE k \in Nat /\ 1 <= k /\ k <= n /\ ~(k <= 0)
    BY <1>1
  <2> HIDE DEF n
  <2> QED
    BY <2>1, <2>2, <2>3
<1>3. \A i \in 1 .. n : o[i] \in S /\ Rank(S, o[i]) = i /\ g[i] = f[o[i]] /\ g[i] \in Nat
  OBVIOUS
<1>4. \A i : First(i) \subseteq S /\ IsFiniteSet(First(i))
  <2> SUFFICES ASSUME NEW i PROVE First(i) \in SUBSET S /\ IsFiniteSet(First(i))
    OBVIOUS
  <2>1. First(i) \in SUBSET S
    OBVIOUS
  <2> HIDE DEF First
  <2> QED
    BY <2>1, FS_Subset
<1> HIDE DEF n
<1>5. \A i \in 0 .. n : Good(i)
  <2>1. SUFFICES ASSUME C # {} PROVE FALSE
    OBVIOUS
  <2>2. C \subseteq Nat
    BY <1>1
  <2>3. Min(C) \in C /\ \A y \in C : Min(C) <= y
    <3> HIDE DEF C
    <3> QED
      BY <2>1, <2>2, NatMin
  <2> DEFINE m == Min(C)
  <2>4. m \in 0 .. n /\ ~Good(m)
    BY <2>3
  <2>5. \A i \in 0 .. n : i < m => Good(i)
    <3>1. \A i \in 0 .. n : ~Good(i) => i \in C
      OBVIOUS
    <3> HIDE DEF Good, C, m
    <3>2. \A y \in C : m <= y
      BY <2>3 DEF m
    <3>3. \A y \in 0 .. n : m <= y => ~(y < m)
      BY <1>1, <2>4
    <3> QED
      BY <3>1, <3>2, <3>3
  <2> HIDE DEF C, m
  <2>6. Good(0)
    <3>1. 1 .. 0 = {}
      OBVIOUS
    <3>2. First(0) = {}
      BY <1>1, <1>2
    <3> HIDE DEF First
    <3> QED
      BY <3>1, <3>2, SumEmpty
  <2>7. m \in 1 .. n /\ m - 1 \in 0 .. n /\ m - 1 < m
    <3>1. m # 0
      BY <2>4, <2>6
    <3> HIDE DEF Good
    <3> QED
      BY <1>1, <2>4, <3>1
  <2>8. SumFunctionOnSet(g, 1 .. (m - 1)) = SumFunctionOnSet(f, First(m - 1))
    <3>1. Good(m - 1)
      <4> HIDE DEF Good
      <4> QED
        BY <2>5, <2>7
    <3> QED
      BY <3>1
  <2>9. 1 .. m = (1 .. (m - 1)) \cup {m} /\ m \notin 1 .. (m - 1)
    BY <1>1, <2>7
  <2>10. First(m) = First(m - 1) \cup {o[m]} /\ o[m] \notin First(m - 1)
    <3>0. \A x \in S : Rank(S, x) \in Nat /\ (Rank(S, x) = m => x = o[m])
      <4> SUFFICES ASSUME NEW x \in S PROVE Rank(S, x) \in Nat /\ (Rank(S, x) = m => x = o[m])
        OBVIOUS
      <4>1. Rank(S, x) \in Nat /\ x \in Nat /\ o[m] \in S /\ o[m] \in Nat /\ Rank(S, o[m]) = m
        BY <1>2, <1>3, <2>7
      <4>2. (x < o[m] <=> Rank(S, x) < m) /\ (o[m] < x <=> m < Rank(S, x))
        BY <1>2, <4>1
      <4> QED
        BY <4>1, <4>2
    <3>1. o[m] \in S /\ Rank(S, o[m]) = m
      BY <1>3, <2>7
    <3>2. m \in Nat
      BY <1>1, <2>7
    <3> QED
      BY <3>0, <3>1, <3>2
  <2>11. SumFunctionOnSet(g, (1 .. (m - 1)) \cup {m}) = g[m] + SumFunctionOnSet(g, 1 .. (m - 1))
    <3> DEFINE I == 1 .. (m - 1)
    <3>1. IsFiniteSet(I)
      BY <1>1, <2>7, FS_Interval
    <3>2. \A i \in I \cup {m} : g[i] \in Int
      <4>1. \A i \in I \cup {m} : i \in 1 .. n
        BY <1>1, <2>7
      <4> QED
        BY <1>3, <4>1
    <3>3. m \notin I
      BY <2>9
    <3> HIDE DEF I
    <3>4. SumFunctionOnSet(g, I \cup {m}) = g[m] + SumFunctionOnSet(g, I)
      BY <3>1, <3>2, <3>3, SumAdd
    <3> QED
      BY <3>4 DEF I
  <2>12. SumFunctionOnSet(f, First(m - 1) \cup {o[m]}) = f[o[m]] + SumFunctionOnSet(f, First(m - 1))
    <3> DEFINE I == First(m - 1)
    <3>1. IsFiniteSet(I) /\ I \subseteq S
      BY <1>4
    <3>2. \A i \in I \cup {o[m]} : f[i] \in Int
      BY <1>3, <2>7, <3>1
    <3>3. o[m] \notin I
      BY <2>10
    <3> HIDE DEF I
    <3>4. SumFunctionOnSet(f, I \cup {o[m]}) = f[o[m]] + SumFunctionOnSet(f, I)
      BY <3>1, <3>2, <3>3, SumAdd
    <3> QED
      BY <3>4 DEF I
  <2>13. SumFunctionOnSet(g, 1 .. m) = SumFunctionOnSet(f, First(m))
    <3>1. g[m] = f[o[m]]
      BY <1>3, <2>7
    <3>2. SumFunctionOnSet(g, 1 .. m) = g[m] + SumFunctionOnSet(g, 1 .. (m - 1))
      BY <2>9, <2>11
    <3>3. SumFunctionOnSet(f, First(m)) = f[o[m]] + SumFunctionOnSet(f, First(m - 1))
      BY <2>10, <2>12
    <3> HIDE DEF First
    <3> QED
      BY <2>8, <3>1, <3>2, <3>3
  <2> QED
    BY <2>4, <2>13
<1>6. \A i \in 1 .. n : First(i - 1) = { x \in S : x < o[i] }
  <2> SUFFICES ASSUME NEW i \in 1 .. n PROVE First(i - 1) = { x \in S : x < o[i] }
    OBVIOUS
  <2>1. o[i] \in S /\ Rank(S, o[i]) = i
    BY <1>3
  <2>2. \A x \in S : Rank(S, x) <= i - 1 <=> x < o[i]
    <3> SUFFICES ASSUME NEW x \in S PROVE Rank(S, x) <= i - 1 <=> x < o[i]
      OBVIOUS
    <3>0. \A y \in S : x < y <=> Rank(S, x) < Rank(S, y)
      BY <1>2
    <3>1. x < o[i] <=> Rank(S, x) < i
      BY <2>1, <3>0
    <3>2. Rank(S, x) \in Nat /\ i \in Nat
      BY <1>1, <1>2
    <3> QED
      BY <3>1, <3>2
  <2> QED
    BY <2>2
<1>7. First(n) = S
  BY <1>1, <1>2
<1>8. \A i \in 1 .. n : SumFunctionOnSet(g, 1 .. (i - 1)) = SumFunctionOnSet(f, { x \in S : x < o[i] })
  <2> SUFFICES ASSUME NEW i \in 1 .. n
               PROVE  SumFunctionOnSet(g, 1 .. (i - 1)) = SumFunctionOnSet(f, { x \in S : x < o[i] })
    OBVIOUS
  <2>1. i - 1 \in 0 .. n
    BY <1>1
  <2>2. Good(i - 1)
    <3> HIDE DEF Good
    <3> QED
      BY <1>5, <2>1
  <2> HIDE DEF First
  <2> QED
    BY <1>6, <2>2
<1>9. SumFunctionOnSet(g, 1 .. n) = SumFunctionOnSet(f, S)
  <2>1. n \in 0 .. n
    BY <1>1
  <2>2. Good(n)
    <3> HIDE DEF Good
    <3> QED
      BY <1>5, <2>1
  <2> HIDE DEF First
  <2> QED
    BY <1>7, <2>2
<1> QED
  BY <1>8, <1>9 DEF n

\* The steps of a walk through n places add up to the way from the first.
Walk(p, d, n) == /\ n \in Nat /\ \A i \in 0 .. n : p[i] \in Int
                 /\ \A i \in 1 .. n : d[i] = p[i] - p[i - 1]

LEMMA SumSteps ==
  ASSUME NEW n, NEW d, NEW p, Walk(p, d, n), NEW m \in 0 .. n
  PROVE  p[0] + SumFunctionOnSet(d, 1 .. m) = p[m]
<1> USE DEF Walk
<1> DEFINE Off == { i \in 0 .. n : p[0] + SumFunctionOnSet(d, 1 .. i) # p[i] }
<1>1. SUFFICES ASSUME Off # {} PROVE FALSE
  OBVIOUS
<1>2. Off \subseteq Nat
  OBVIOUS
<1> DEFINE k == Min(Off)
<1>3. k \in Off /\ \A i \in Off : k <= i
  BY <1>1, <1>2, NatMin
<1> HIDE DEF k
<1>4. k \in 0 .. n /\ k \in Nat /\ p[0] + SumFunctionOnSet(d, 1 .. k) # p[k]
  BY <1>3
<1>5. k # 0
  <2>1. ASSUME k = 0 PROVE FALSE
    <3>1. 1 .. k = {}
      BY <2>1
    <3>2. SumFunctionOnSet(d, 1 .. k) = 0
      BY <3>1, SumEmpty
    <3>3. p[k] = p[0] /\ p[0] \in Int
      BY <2>1
    <3> QED
      BY <1>4, <3>2, <3>3
  <2> QED
    BY <2>1
<1> DEFINE j == k - 1
<1>6. j \in 0 .. n /\ j \in Nat /\ k \in 1 .. n /\ j < k /\ 1 .. k = (1 .. j) \cup {k} /\ k \notin 1 .. j
      /\ \A i \in (1 .. j) \cup {k} : i \in 1 .. n /\ i - 1 \in 0 .. n /\ i \in 0 .. n
  BY <1>4, <1>5
<1>7. p[0] + SumFunctionOnSet(d, 1 .. j) = p[j]
  <2>1. j \notin Off
    BY <1>3, <1>4, <1>6
  <2> QED
    BY <1>6, <2>1
<1>8. d[k] = p[k] - p[j]
  BY <1>6
<1> HIDE DEF j, Off
<1>9. \A i \in (1 .. j) \cup {k} : d[i] \in Int
  BY <1>6
<1>10. IsFiniteSet(1 .. j)
  BY <1>6, FS_Interval
<1>11. SumFunctionOnSet(d, 1 .. k) = d[k] + SumFunctionOnSet(d, 1 .. j)
  BY <1>6, <1>9, <1>10, SumAdd
<1>12. SumFunctionOnSet(d, 1 .. j) \in Int
  BY <1>9, <1>10, SumType
<1>13. p[0] \in Int /\ p[k] \in Int /\ p[j] \in Int
  BY <1>6
<1>14. p[0] + SumFunctionOnSet(d, 1 .. k) = p[k]
  BY <1>7, <1>8, <1>11, <1>12, <1>13
<1> QED
  BY <1>4, <1>14
==============================================================================
