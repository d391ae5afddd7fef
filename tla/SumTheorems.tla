---------------------------- MODULE SumTheorems -----------------------------
(***************************************************************************)
(* Sums over finite sets, which the books of both programs are made of.    *)
(* The induction theorems of the library take an operator; here induction  *)
(* ranges over a set of sets, whose complement has a minimal element.      *)
(***************************************************************************)
EXTENDS Functions, FiniteSetTheorems, WellFoundedInduction, TLAPS

(* The summand chosen next, and the equation a sum satisfies.              *)
SumStep(f, g, s) ==
  IF s = {} THEN 0 ELSE LET x == CHOOSE x \in s : TRUE IN f[x] + g[s \ {x}]

Solves(f, g, S) == \A s \in SUBSET S : g[s] = SumStep(f, g, s)
IsSum(f, g, S) == g = [s \in SUBSET S |-> SumStep(f, g, s)]

(* A property of sets that each subset of S inherits from its proper       *)
(* subsets is one of all subsets of S.                                     *)
LEMMA SubsetInduction ==
  ASSUME NEW S, IsFiniteSet(S), NEW Q,
         \A T \in SUBSET S : (\A U \in SUBSET T : U # T => U \in Q) => T \in Q
  PROVE  \A T \in SUBSET S : T \in Q
<1> DEFINE bad == {T \in SUBSET S : T \notin Q}
<1>1. SUFFICES ASSUME bad # {} PROVE FALSE
  OBVIOUS
<1>2. IsWellFoundedOn(StrictSubsetOrdering(S), SUBSET S)
  BY FS_StrictSubsetOrderingWellFounded, FS_FiniteSubsetsOfFinite
<1>3. PICK T \in bad : \A U \in bad : <<U, T>> \notin StrictSubsetOrdering(S)
  <2>1. bad \subseteq SUBSET S
    OBVIOUS
  <2> HIDE DEF bad
  <2>2. QED
    BY <1>1, <1>2, <2>1, WFMin
<1>4. \A U \in SUBSET T : U # T => U \in Q
  <2>1. SUFFICES ASSUME NEW U \in SUBSET T, U # T, U \notin Q PROVE FALSE
    OBVIOUS
  <2>2. <<U, T>> \in StrictSubsetOrdering(S)
    BY <2>1 DEF StrictSubsetOrdering
  <2>3. QED
    BY <1>3, <2>1, <2>2
<1>5. QED
  BY <1>3, <1>4

(* The equation has at most one solution ...                               *)
LEMMA SumUnique ==
  ASSUME NEW S, IsFiniteSet(S), NEW f, NEW g, NEW h, Solves(f, g, S), Solves(f, h, S)
  PROVE  g[S] = h[S]
<1> DEFINE Q == {s \in SUBSET S : g[s] = h[s]}
<1>1. ASSUME NEW T \in SUBSET S, \A U \in SUBSET T : U # T => U \in Q
      PROVE  T \in Q
  <2>1. g[T] = SumStep(f, g, T) /\ h[T] = SumStep(f, h, T)
    BY DEF Solves
  <2>2. CASE T = {}
    BY <2>1, <2>2 DEF SumStep
  <2>3. CASE T # {}
    <3> DEFINE x == CHOOSE x \in T : TRUE
    <3>1. x \in T
      BY <2>3
    <3>2. T \ {x} \in Q
      BY <1>1, <3>1
    <3>3. g[T] = f[x] + g[T \ {x}] /\ h[T] = f[x] + h[T \ {x}]
      BY <2>1, <2>3 DEF SumStep
    <3> HIDE DEF x
    <3>4. QED
      BY <3>2, <3>3
  <2>4. QED
    BY <2>2, <2>3
<1>2. \A T \in SUBSET S : T \in Q
  <2> HIDE DEF Q
  <2>1. QED
    BY <1>1, SubsetInduction
<1>3. QED
  BY <1>2

(* ... and one.                                                            *)
LEMMA SumExists ==
  ASSUME NEW S, IsFiniteSet(S), NEW f
  PROVE  \E g : IsSum(f, g, S)
<1> DEFINE Q == {T \in SUBSET S : \E g : IsSum(f, g, T)}
<1>1. ASSUME NEW T \in SUBSET S, \A U \in SUBSET T : U # T => U \in Q
      PROVE  T \in Q
  <2> DEFINE part(U) == CHOOSE g : IsSum(f, g, U)
             low(s) == IF s = T THEN 0 ELSE part(s)[s]
             next(s) == IF s = {} THEN 0
                        ELSE LET x == CHOOSE x \in s : TRUE IN f[x] + low(s \ {x})
             whole == [s \in SUBSET T |-> next(s)]
  <2>1. ASSUME NEW U \in SUBSET T, U # T
        PROVE  IsSum(f, part(U), U)
    BY <1>1, <2>1
  <2>2. ASSUME NEW U \in SUBSET T, U # T, NEW V \in SUBSET U
        PROVE  part(U)[V] = part(V)[V]
    <3> DEFINE g == part(U)
               h == part(V)
    <3>1. IsSum(f, g, U) /\ IsSum(f, h, V)
      BY <2>1, <2>2
    <3>2. IsFiniteSet(V)
      BY FS_Subset
    <3> HIDE DEF g, h
    <3>3. Solves(f, g, V) /\ Solves(f, h, V)
      BY <3>1 DEF IsSum, Solves
    <3>4. g[V] = h[V]
      BY <3>2, <3>3, SumUnique
    <3>5. QED
      BY <3>4 DEF g, h
  <2>3. ASSUME NEW s \in SUBSET T, s # T
        PROVE  next(s) = low(s)
    <3>1. low(s) = SumStep(f, part(s), s)
      <4>1. IsSum(f, part(s), s)
        BY <2>1, <2>3
      <4> HIDE DEF part
      <4>2. part(s)[s] = SumStep(f, part(s), s)
        BY <4>1 DEF IsSum
      <4>3. QED
        BY <2>3, <4>2
    <3>2. CASE s = {}
      BY <3>1, <3>2 DEF SumStep
    <3>3. CASE s # {}
      <4> DEFINE x == CHOOSE x \in s : TRUE
      <4>1. x \in s
        BY <3>3
      <4>2. part(s)[s \ {x}] = low(s \ {x})
        <5>1. s \ {x} \in SUBSET s /\ s \ {x} # T
          BY <4>1
        <5>2. part(s)[s \ {x}] = part(s \ {x})[s \ {x}]
          BY <2>2, <2>3, <5>1
        <5> HIDE DEF part
        <5>3. QED
          BY <5>1, <5>2
      <4> HIDE DEF part, low
      <4>3. QED
        BY <3>1, <3>3, <4>2 DEF SumStep
    <3>4. QED
      BY <3>2, <3>3
  <2> HIDE DEF low, part
  <2>4. ASSUME NEW s \in SUBSET T
        PROVE  next(s) = SumStep(f, whole, s)
    <3>1. CASE s = {}
      BY <3>1 DEF SumStep
    <3>2. CASE s # {}
      <4> DEFINE x == CHOOSE x \in s : TRUE
      <4>1. x \in s
        BY <3>2
      <4>2. s \ {x} \in SUBSET T /\ s \ {x} # T
        BY <4>1
      <4>3. whole[s \ {x}] = low(s \ {x})
        BY <2>3, <4>2
      <4> HIDE DEF whole
      <4>4. QED
        BY <3>2, <4>3 DEF SumStep
    <3>3. QED
      BY <3>1, <3>2
  <2>5. IsSum(f, whole, T)
    <3> HIDE DEF next
    <3>1. whole = [s \in SUBSET T |-> SumStep(f, whole, s)]
      <4>1. \A s \in SUBSET T : next(s) = SumStep(f, whole, s)
        BY <2>4
      <4>2. QED
        BY <4>1
    <3>2. QED
      BY <3>1 DEF IsSum
  <2>6. QED
    BY <2>5
<1>2. \A T \in SUBSET S : T \in Q
  <2> HIDE DEF Q
  <2>1. QED
    BY <1>1, SubsetInduction
<1>3. QED
  BY <1>2

(* The operator of the community modules obeys the equation.               *)
LEMMA SumDef ==
  ASSUME NEW S, IsFiniteSet(S), NEW f
  PROVE  SumFunctionOnSet(f, S) =
           IF S = {} THEN 0
           ELSE LET x == CHOOSE x \in S : TRUE IN f[x] + SumFunctionOnSet(f, S \ {x})
<1> DEFINE sum(T) == CHOOSE g : IsSum(f, g, T)
<1>1. ASSUME NEW T \in SUBSET S
      PROVE  SumFunctionOnSet(f, T) = sum(T)[T] /\ IsSum(f, sum(T), T)
  <2>1. IsSum(f, sum(T), T)
    BY FS_Subset, SumExists
  <2>2. SumFunctionOnSet(f, T) = sum(T)[T]
    BY DEF SumFunctionOnSet, FoldFunctionOnSet, MapThenFoldSet, IsSum, SumStep
  <2>3. QED
    BY <2>1, <2>2
<1>2. CASE S = {}
  <2> HIDE DEF sum
  <2>1. SumFunctionOnSet(f, S) = SumStep(f, sum(S), S)
    BY <1>1 DEF IsSum
  <2>2. QED
    BY <1>2, <2>1 DEF SumStep
<1>3. CASE S # {}
  <2> DEFINE x == CHOOSE x \in S : TRUE
             R == S \ {x}
  <2>1. x \in S
    BY <1>3
  <2>2. R \in SUBSET S /\ IsFiniteSet(R)
    BY FS_Subset
  <2> DEFINE g == sum(S)
             h == sum(R)
  <2>3. IsSum(f, g, S) /\ SumFunctionOnSet(f, S) = g[S]
    BY <1>1
  <2>4. IsSum(f, h, R) /\ SumFunctionOnSet(f, R) = h[R]
    BY <1>1, <2>2
  <2> HIDE DEF g, h, R
  <2>5. Solves(f, g, R) /\ Solves(f, h, R)
    BY <2>2, <2>3, <2>4 DEF IsSum, Solves
  <2>6. g[R] = h[R]
    BY <2>2, <2>5, SumUnique
  <2>7. g[S] = f[x] + g[R]
    BY <1>3, <2>3 DEF IsSum, SumStep, R
  <2> HIDE DEF x
  <2>8. SumFunctionOnSet(f, S) = f[x] + SumFunctionOnSet(f, R)
    BY <2>3, <2>4, <2>6, <2>7
  <2>9. QED
    BY <1>3, <2>8 DEF R, x
<1>4. QED
  BY <1>2, <1>3

-----------------------------------------------------------------------------
(* What the proofs about the programs use.                                 *)

(* A sum of integers is one.                                               *)
THEOREM SumType ==
  ASSUME NEW S, IsFiniteSet(S), NEW f, \A x \in S : f[x] \in Int
  PROVE  SumFunctionOnSet(f, S) \in Int
<1> DEFINE Q == {T \in SUBSET S : SumFunctionOnSet(f, T) \in Int}
<1>1. ASSUME NEW T \in SUBSET S, \A U \in SUBSET T : U # T => U \in Q
      PROVE  T \in Q
  <2> DEFINE x == CHOOSE x \in T : TRUE
  <2>1. IsFiniteSet(T)
    BY FS_Subset
  <2>2. CASE T = {}
    BY <2>1, <2>2, SumDef
  <2>3. CASE T # {}
    <3>1. x \in T
      BY <2>3
    <3>2. T \ {x} \in Q
      BY <1>1, <3>1
    <3>3. SumFunctionOnSet(f, T) = f[x] + SumFunctionOnSet(f, T \ {x})
      BY <2>1, <2>3, SumDef
    <3> HIDE DEF x
    <3>4. QED
      BY <3>1, <3>2, <3>3
  <2>4. QED
    BY <2>2, <2>3
<1>2. \A T \in SUBSET S : T \in Q
  <2> HIDE DEF Q
  <2>1. QED
    BY <1>1, SubsetInduction
<1>3. QED
  BY <1>2

(* Whichever element is taken first.                                       *)
THEOREM SumElement ==
  ASSUME NEW S, IsFiniteSet(S), NEW f, \A x \in S : f[x] \in Int, NEW p \in S
  PROVE  SumFunctionOnSet(f, S) = f[p] + SumFunctionOnSet(f, S \ {p})
<1> DEFINE Q == {T \in SUBSET S :
                   \A q \in T : SumFunctionOnSet(f, T) = f[q] + SumFunctionOnSet(f, T \ {q})}
<1>1. ASSUME NEW T \in SUBSET S, \A U \in SUBSET T : U # T => U \in Q
      PROVE  T \in Q
  <2>1. SUFFICES ASSUME NEW q \in T
                 PROVE  SumFunctionOnSet(f, T) = f[q] + SumFunctionOnSet(f, T \ {q})
    OBVIOUS
  <2> DEFINE x == CHOOSE x \in T : TRUE
  <2>2. x \in T
    OBVIOUS
  <2>3. IsFiniteSet(T) /\ IsFiniteSet(T \ {x}) /\ IsFiniteSet(T \ {q})
    BY FS_Subset
  <2>4. SumFunctionOnSet(f, T) = f[x] + SumFunctionOnSet(f, T \ {x})
    BY <2>3, SumDef
  <2> HIDE DEF x
  <2>5. CASE q # x
    <3> DEFINE R == T \ {x, q}
    <3>1. IsFiniteSet(R) /\ R = (T \ {x}) \ {q} /\ R = (T \ {q}) \ {x}
      BY FS_Subset
    <3>2. T \ {x} \in Q /\ T \ {q} \in Q
      BY <1>1, <2>2
    <3> HIDE DEF R
    <3>3. SumFunctionOnSet(f, T \ {x}) = f[q] + SumFunctionOnSet(f, R)
      BY <2>5, <3>1, <3>2
    <3>4. SumFunctionOnSet(f, T \ {q}) = f[x] + SumFunctionOnSet(f, R)
      BY <2>2, <2>5, <3>1, <3>2
    <3>5. SumFunctionOnSet(f, R) \in Int
      BY <3>1, SumType
    <3>6. f[x] \in Int /\ f[q] \in Int
      BY <2>2
    <3>7. QED
      BY <2>4, <3>3, <3>4, <3>5, <3>6
  <2>6. QED
    BY <2>4, <2>5
<1>2. \A T \in SUBSET S : T \in Q
  <2> HIDE DEF Q
  <2>1. QED
    BY <1>1, SubsetInduction
<1>3. QED
  BY <1>2

(* A sum depends on its summands only.                                     *)
THEOREM SumSame ==
  ASSUME NEW S, IsFiniteSet(S), NEW f, NEW g, \A x \in S : f[x] = g[x]
  PROVE  SumFunctionOnSet(f, S) = SumFunctionOnSet(g, S)
<1> DEFINE Q == {T \in SUBSET S : SumFunctionOnSet(f, T) = SumFunctionOnSet(g, T)}
<1>1. ASSUME NEW T \in SUBSET S, \A U \in SUBSET T : U # T => U \in Q
      PROVE  T \in Q
  <2> DEFINE x == CHOOSE x \in T : TRUE
  <2>1. IsFiniteSet(T)
    BY FS_Subset
  <2>2. CASE T = {}
    BY <2>1, <2>2, SumDef
  <2>3. CASE T # {}
    <3>1. x \in T
      BY <2>3
    <3>2. T \ {x} \in Q
      BY <1>1, <3>1
    <3>3. /\ SumFunctionOnSet(f, T) = f[x] + SumFunctionOnSet(f, T \ {x})
          /\ SumFunctionOnSet(g, T) = g[x] + SumFunctionOnSet(g, T \ {x})
      BY <2>1, <2>3, SumDef
    <3> HIDE DEF x
    <3>4. QED
      BY <3>1, <3>2, <3>3
  <2>4. QED
    BY <2>2, <2>3
<1>2. \A T \in SUBSET S : T \in Q
  <2> HIDE DEF Q
  <2>1. QED
    BY <1>1, SubsetInduction
<1>3. QED
  BY <1>2

(* If one summand changes, the sum changes by as much.                     *)
THEOREM SumChange ==
  ASSUME NEW S, IsFiniteSet(S), NEW f, NEW g, NEW p \in S,
         \A x \in S : f[x] \in Int, g[p] \in Int,
         \A x \in S \ {p} : g[x] = f[x]
  PROVE  SumFunctionOnSet(g, S) = SumFunctionOnSet(f, S) + (g[p] - f[p])
<1>1. IsFiniteSet(S \ {p})
  BY FS_Subset
<1>2. \A x \in S : g[x] \in Int
  OBVIOUS
<1>3. SumFunctionOnSet(f, S) = f[p] + SumFunctionOnSet(f, S \ {p})
  BY SumElement
<1>4. SumFunctionOnSet(g, S) = g[p] + SumFunctionOnSet(g, S \ {p})
  BY <1>2, SumElement
<1>5. SumFunctionOnSet(g, S \ {p}) = SumFunctionOnSet(f, S \ {p})
  BY <1>1, SumSame
<1>6. SumFunctionOnSet(f, S \ {p}) \in Int
  BY <1>1, SumType
<1>7. QED
  BY <1>3, <1>4, <1>5, <1>6

(* The sum of differences is the difference of the sums.                   *)
THEOREM SumMinus ==
  ASSUME NEW S, IsFiniteSet(S), NEW f, NEW g, NEW h,
         \A x \in S : f[x] \in Int /\ g[x] \in Int /\ h[x] = f[x] - g[x]
  PROVE  SumFunctionOnSet(h, S) = SumFunctionOnSet(f, S) - SumFunctionOnSet(g, S)
<1> DEFINE Q == {T \in SUBSET S :
                   SumFunctionOnSet(h, T) = SumFunctionOnSet(f, T) - SumFunctionOnSet(g, T)}
<1>1. ASSUME NEW T \in SUBSET S, \A U \in SUBSET T : U # T => U \in Q
      PROVE  T \in Q
  <2> DEFINE x == CHOOSE x \in T : TRUE
             R == T \ {x}
  <2>1. IsFiniteSet(T)
    BY FS_Subset
  <2>2. CASE T = {}
    <3>1. /\ SumFunctionOnSet(f, T) = 0 /\ SumFunctionOnSet(g, T) = 0
          /\ SumFunctionOnSet(h, T) = 0
      BY <2>1, <2>2, SumDef
    <3>2. QED
      BY <3>1
  <2>3. CASE T # {}
    <3>1. x \in T
      BY <2>3
    <3>2. R \in Q
      BY <1>1, <3>1
    <3>3. /\ SumFunctionOnSet(f, T) = f[x] + SumFunctionOnSet(f, R)
          /\ SumFunctionOnSet(g, T) = g[x] + SumFunctionOnSet(g, R)
          /\ SumFunctionOnSet(h, T) = h[x] + SumFunctionOnSet(h, R)
      BY <2>1, <2>3, SumDef
    <3>4. \A y \in R : f[y] \in Int /\ g[y] \in Int
      OBVIOUS
    <3>5. IsFiniteSet(R)
      BY <2>1, FS_Subset
    <3>6. f[x] \in Int /\ g[x] \in Int /\ h[x] = f[x] - g[x]
      BY <3>1
    <3> HIDE DEF x, R
    <3>7. SumFunctionOnSet(f, R) \in Int /\ SumFunctionOnSet(g, R) \in Int
      BY <3>4, <3>5, SumType
    <3>8. SumFunctionOnSet(h, R) = SumFunctionOnSet(f, R) - SumFunctionOnSet(g, R)
      BY <3>2
    <3>9. QED
      BY <3>3, <3>6, <3>7, <3>8
  <2>4. QED
    BY <2>2, <2>3
<1>2. \A T \in SUBSET S : T \in Q
  <2> HIDE DEF Q
  <2>1. QED
    BY <1>1, SubsetInduction
<1>3. QED
  BY <1>2

(* If each member of P brings c and nobody else brings anything, the sum   *)
(* is c times the size of P.                                               *)
THEOREM SumShare ==
  ASSUME NEW S, IsFiniteSet(S), NEW P \in SUBSET S, NEW c \in Int, NEW f,
         \A x \in S : f[x] = IF x \in P THEN c ELSE 0
  PROVE  SumFunctionOnSet(f, S) = c * Cardinality(P)
<1> DEFINE Q == {T \in SUBSET S : SumFunctionOnSet(f, T) = c * Cardinality(T \cap P)}
<1>1. ASSUME NEW T \in SUBSET S, \A U \in SUBSET T : U # T => U \in Q
      PROVE  T \in Q
  <2> DEFINE x == CHOOSE x \in T : TRUE
             R == T \ {x}
  <2>1. IsFiniteSet(T)
    BY FS_Subset
  <2>2. CASE T = {}
    <3>1. Cardinality(T \cap P) = 0
      BY <2>2, FS_EmptySet
    <3>2. c * 0 = 0
      OBVIOUS
    <3>3. SumFunctionOnSet(f, T) = 0
      BY <2>1, <2>2, SumDef
    <3>4. QED
      BY <3>1, <3>2, <3>3
  <2>3. CASE T # {}
    <3>1. x \in T
      BY <2>3
    <3>2. R \in Q
      BY <1>1, <3>1
    <3>3. SumFunctionOnSet(f, T) = f[x] + SumFunctionOnSet(f, R)
      BY <2>1, <2>3, SumDef
    <3> HIDE DEF x
    <3> DEFINE n == Cardinality(T \cap P)
               r == Cardinality(R \cap P)
    <3>4. IsFiniteSet(T \cap P) /\ n \in Nat
      BY <2>1, FS_Subset, FS_CardinalityType
    <3>5. r = (IF x \in P THEN n - 1 ELSE n)
      <4> DEFINE M == T \cap P
      <4>1. R \cap P = M \ {x} /\ (x \in M <=> x \in P)
        BY <3>1
      <4>2. IsFiniteSet(M)
        BY <3>4
      <4> HIDE DEF M
      <4>3. Cardinality(M \ {x}) = IF x \in M THEN Cardinality(M) - 1 ELSE Cardinality(M)
        BY <4>2, FS_RemoveElement
      <4> HIDE DEF R
      <4>4. QED
        BY <4>1, <4>3 DEF M
    <3>6. f[x] = (IF x \in P THEN c ELSE 0) /\ SumFunctionOnSet(f, R) = c * r
      BY <3>1, <3>2
    <3> HIDE DEF n, r, R
    <3>7. SumFunctionOnSet(f, T) = c * n
      <4>1. c + c * (n - 1) = c * n /\ 0 + c * n = c * n
        BY <3>4
      <4>2. QED
        BY <3>3, <3>5, <3>6, <4>1
    <3>8. QED
      BY <3>7 DEF n
  <2>4. QED
    BY <2>2, <2>3
<1>2. \A T \in SUBSET S : T \in Q
  <2> HIDE DEF Q
  <2>1. QED
    BY <1>1, SubsetInduction
<1>3. S \cap P = P
  OBVIOUS
<1>4. QED
  BY <1>2, <1>3

(* Nothing from everybody is nothing.                                      *)
THEOREM SumNothing ==
  ASSUME NEW S, IsFiniteSet(S), NEW f, \A x \in S : f[x] = 0
  PROVE  SumFunctionOnSet(f, S) = 0
<1>1. SumFunctionOnSet(f, S) = 0 * Cardinality({})
  BY SumShare
<1>2. Cardinality({}) = 0
  BY FS_EmptySet
<1>3. QED
  BY <1>1, <1>2

(* Two groups without a common member add up separately.                   *)
THEOREM SumUnion ==
  ASSUME NEW A, IsFiniteSet(A), NEW B, IsFiniteSet(B), A \cap B = {}, NEW f,
         \A x \in A \cup B : f[x] \in Int
  PROVE  SumFunctionOnSet(f, A \cup B) = SumFunctionOnSet(f, A) + SumFunctionOnSet(f, B)
<1> DEFINE Q == {T \in SUBSET A :
                   SumFunctionOnSet(f, T \cup B) = SumFunctionOnSet(f, T) + SumFunctionOnSet(f, B)}
<1>1. ASSUME NEW T \in SUBSET A, \A U \in SUBSET T : U # T => U \in Q
      PROVE  T \in Q
  <2> DEFINE x == CHOOSE x \in T : TRUE
             R == T \ {x}
  <2>1. IsFiniteSet(T) /\ SumFunctionOnSet(f, B) \in Int
    BY FS_Subset, SumType
  <2>2. CASE T = {}
    <3>1. SumFunctionOnSet(f, T) = 0
      BY <2>1, <2>2, SumDef
    <3>2. T \cup B = B
      BY <2>2
    <3>3. SumFunctionOnSet(f, T \cup B) = SumFunctionOnSet(f, B)
      BY <3>2
    <3> DEFINE total == SumFunctionOnSet(f, B)
    <3>4. total = 0 + total
      BY <2>1
    <3> HIDE DEF total
    <3>5. QED
      BY <3>1, <3>3, <3>4 DEF total
  <2>3. CASE T # {}
    <3>1. x \in T /\ (T \cup B) \ {x} = R \cup B
      BY <2>3
    <3>2. R \in Q
      BY <1>1, <3>1
    <3>3. SumFunctionOnSet(f, T) = f[x] + SumFunctionOnSet(f, R)
      BY <2>1, <2>3, SumDef
    <3>4. IsFiniteSet(R) /\ IsFiniteSet(T \cup B)
      BY <2>1, FS_Subset, FS_Union
    <3>5. (\A y \in T \cup B : f[y] \in Int) /\ (\A y \in R : f[y] \in Int) /\ f[x] \in Int
      BY <3>1
    <3> HIDE DEF x, R
    <3>6. SumFunctionOnSet(f, T \cup B) = f[x] + SumFunctionOnSet(f, R \cup B)
      <4>1. x \in T \cup B
        BY <3>1
      <4>2. QED
        BY <3>1, <3>4, <3>5, <4>1, SumElement
    <3>7. SumFunctionOnSet(f, R \cup B) = SumFunctionOnSet(f, R) + SumFunctionOnSet(f, B)
      BY <3>2
    <3>8. SumFunctionOnSet(f, R) \in Int
      BY <3>4, <3>5, SumType
    <3>9. QED
      BY <2>1, <3>3, <3>5, <3>6, <3>7, <3>8
  <2>4. QED
    BY <2>2, <2>3
<1>2. \A T \in SUBSET A : T \in Q
  <2> HIDE DEF Q
  <2>1. QED
    BY <1>1, SubsetInduction
<1>3. QED
  BY <1>2

-----------------------------------------------------------------------------
(* The same for functions, which is how accounts are kept.                 *)

(* The total of a book of integers is one.                                 *)
THEOREM SumFunctionType ==
  ASSUME NEW S, IsFiniteSet(S), NEW f \in [S -> Int]
  PROVE  SumFunction(f) \in Int
<1>1. DOMAIN f = S /\ \A x \in S : f[x] \in Int
  OBVIOUS
<1>2. QED
  BY <1>1, SumType DEF SumFunction

(* Two books that differ in one entry.                                     *)
THEOREM SumDiffers ==
  ASSUME NEW S, IsFiniteSet(S), NEW f \in [S -> Int], NEW g \in [S -> Int], NEW p \in S,
         \A x \in S \ {p} : g[x] = f[x]
  PROVE  SumFunction(g) = SumFunction(f) + (g[p] - f[p])
<1>1. /\ g[p] \in Int /\ DOMAIN f = S /\ DOMAIN g = S /\ \A x \in S : f[x] \in Int
  OBVIOUS
<1>2. SumFunctionOnSet(g, S) = SumFunctionOnSet(f, S) + (g[p] - f[p])
  BY <1>1, SumChange
<1>3. QED
  BY <1>1, <1>2 DEF SumFunction

(* Two books that differ in two entries.                                   *)
THEOREM SumDiffersTwice ==
  ASSUME NEW S, IsFiniteSet(S), NEW f \in [S -> Int], NEW g \in [S -> Int],
         NEW p \in S, NEW q \in S, p # q,
         \A x \in S : x # p /\ x # q => g[x] = f[x]
  PROVE  SumFunction(g) = SumFunction(f) + (g[p] - f[p]) + (g[q] - f[q])
<1> DEFINE h == [x \in S |-> IF x = p THEN g[x] ELSE f[x]]
<1>1. /\ h \in [S -> Int] /\ \A x \in S \ {p} : h[x] = f[x]
      /\ \A x \in S \ {q} : g[x] = h[x]
      /\ h[p] = g[p] /\ h[q] = f[q]
  OBVIOUS
<1> HIDE DEF h
<1>2. SumFunction(h) = SumFunction(f) + (h[p] - f[p])
  BY <1>1, SumDiffers
<1>3. SumFunction(g) = SumFunction(h) + (g[q] - h[q])
  BY <1>1, SumDiffers
<1>4. SumFunction(f) \in Int /\ g[p] - f[p] \in Int /\ g[q] - f[q] \in Int
  BY SumFunctionType
<1>5. QED
  BY <1>1, <1>2, <1>3, <1>4

(* What the first book holds more than the second.                         *)
THEOREM SumOfDifferences ==
  ASSUME NEW S, IsFiniteSet(S), NEW f \in [S -> Int], NEW g \in [S -> Int]
  PROVE  SumFunction([x \in S |-> f[x] - g[x]]) = SumFunction(f) - SumFunction(g)
<1> DEFINE h == [x \in S |-> f[x] - g[x]]
<1>1. /\ DOMAIN f = S /\ DOMAIN g = S /\ DOMAIN h = S
      /\ \A x \in S : f[x] \in Int /\ g[x] \in Int /\ h[x] = f[x] - g[x]
  OBVIOUS
<1> HIDE DEF h
<1>2. SumFunctionOnSet(h, S) = SumFunctionOnSet(f, S) - SumFunctionOnSet(g, S)
  BY <1>1, SumMinus
<1>3. SumFunction(h) = SumFunction(f) - SumFunction(g)
  BY <1>1, <1>2 DEF SumFunction
<1>4. QED
  BY <1>3 DEF h

(* One entry of a book, or of a table of books, is rewritten.              *)
Rewritten(f, g, p, v) == g = [f EXCEPT ![p] = v]
RewrittenAt(f, g, t, p, v) == g = [f EXCEPT ![t][p] = v]

(* The total of the book changes by what the entry does.                   *)
THEOREM SumExcept ==
  ASSUME NEW S, IsFiniteSet(S), NEW f \in [S -> Int], NEW p \in S, NEW v \in Int,
         NEW g, Rewritten(f, g, p, v)
  PROVE  /\ g \in [S -> Int]
         /\ SumFunction(g) = SumFunction(f) + (v - f[p])
<1>1. /\ g \in [S -> Int] /\ g[p] = v /\ \A x \in S \ {p} : g[x] = f[x]
      /\ DOMAIN f = S /\ DOMAIN g = S /\ \A x \in S : f[x] \in Int
  BY DEF Rewritten
<1>2. SumFunctionOnSet(g, S) = SumFunctionOnSet(f, S) + (g[p] - f[p])
  BY <1>1, SumChange
<1>3. QED
  BY <1>1, <1>2 DEF SumFunction

(* The total of a table of books.                                          *)
TableSum(f, S) == SumFunction([u \in S |-> SumFunction(f[u])])

(* A table of integers has a total, which is one.                          *)
THEOREM TableSumType ==
  ASSUME NEW S, IsFiniteSet(S), NEW R, IsFiniteSet(R), NEW f \in [S -> [R -> Int]]
  PROVE  TableSum(f, S) \in Int
<1> DEFINE F == [u \in S |-> SumFunction(f[u])]
<1>1. F \in [S -> Int]
  <2>1. \A u \in S : SumFunction(f[u]) \in Int
    BY SumFunctionType
  <2>2. QED
    BY <2>1
<1> HIDE DEF F
<1>2. SumFunction(F) \in Int
  BY <1>1, SumFunctionType
<1>3. QED
  BY <1>2 DEF F, TableSum

(* So does the total of the table.                                         *)
THEOREM TableSumExcept ==
  ASSUME NEW S, IsFiniteSet(S), NEW R, IsFiniteSet(R), NEW f \in [S -> [R -> Int]],
         NEW t \in S, NEW p \in R, NEW v \in Int,
         NEW g, RewrittenAt(f, g, t, p, v)
  PROVE  TableSum(g, S) = TableSum(f, S) + (v - f[t][p])
<1> DEFINE F == [u \in S |-> SumFunction(f[u])]
           G == [u \in S |-> SumFunction(g[u])]
<1>1. Rewritten(f[t], g[t], p, v) /\ \A u \in S \ {t} : g[u] = f[u]
  BY DEF Rewritten, RewrittenAt
<1>2. \A u \in S : f[u] \in [R -> Int] /\ g[u] \in [R -> Int]
  BY DEF RewrittenAt
<1>3. F \in [S -> Int] /\ G \in [S -> Int]
  <2>1. \A u \in S : SumFunction(f[u]) \in Int /\ SumFunction(g[u]) \in Int
    BY <1>2, SumFunctionType
  <2>2. QED
    BY <2>1
<1>4. \A u \in S \ {t} : G[u] = F[u]
  BY <1>1
<1>5. F[t] = SumFunction(f[t]) /\ G[t] = SumFunction(g[t])
  OBVIOUS
<1> HIDE DEF F, G
<1>6. SumFunction(G) = SumFunction(F) + (G[t] - F[t])
  BY <1>3, <1>4, SumDiffers
<1>7. SumFunction(g[t]) = SumFunction(f[t]) + (v - f[t][p])
  BY <1>1, <1>2, SumExcept
<1>8. SumFunction(F) \in Int /\ SumFunction(f[t]) \in Int /\ f[t][p] \in Int
  BY <1>2, <1>3, SumFunctionType
<1>9. SumFunction(G) = SumFunction(F) + (v - f[t][p])
  BY <1>5, <1>6, <1>7, <1>8
<1>10. QED
  BY <1>9 DEF F, G, TableSum

(* Each member of P owns c at the start, the others nothing.               *)
THEOREM SumOfShares ==
  ASSUME NEW S, IsFiniteSet(S), NEW P \in SUBSET S, NEW c \in Int
  PROVE  SumFunction([x \in S |-> IF x \in P THEN c ELSE 0]) = c * Cardinality(P)
<1> DEFINE f == [x \in S |-> IF x \in P THEN c ELSE 0]
<1>1. DOMAIN f = S /\ \A x \in S : f[x] = IF x \in P THEN c ELSE 0
  OBVIOUS
<1> HIDE DEF f
<1>2. SumFunctionOnSet(f, S) = c * Cardinality(P)
  BY <1>1, SumShare
<1>3. QED
  BY <1>1, <1>2 DEF SumFunction, f

(* Empty accounts add up to nothing.                                       *)
THEOREM SumOfNothing ==
  ASSUME NEW S, IsFiniteSet(S)
  PROVE  SumFunction([x \in S |-> 0]) = 0
<1> DEFINE f == [x \in S |-> 0]
<1>1. DOMAIN f = S /\ \A x \in S : f[x] = 0
  OBVIOUS
<1> HIDE DEF f
<1>2. SumFunctionOnSet(f, S) = 0
  BY <1>1, SumNothing
<1>3. QED
  BY <1>1, <1>2 DEF SumFunction, f

=============================================================================
