----------------------------- MODULE SumTheorems -----------------------------
(***************************************************************************)
(* Lemmas on SumFunctionOnSet of the community modules, the sum of the     *)
(* values of a function over a finite set, for every function and set:     *)
(* what the position of a contract, the total of a portfolio and the lots  *)
(* of a book are defined with.                                             *)
(*                                                                         *)
(* The induction theorems of the library take the predicate as a           *)
(* parameter.  Here it is a set: the naturals, or the finite sets, that    *)
(* have the property.  That the fold is what its recursive definition says *)
(* is proved from the existence of a function that satisfies it.           *)
(***************************************************************************)
EXTENDS Integers, FiniteSets, Functions, FiniteSetTheorems, WellFoundedInduction, TLAPS

\* A set of naturals with 0 and every successor has all of them.
LEMMA NatSetInduction ==
  ASSUME NEW T \in SUBSET Nat, 0 \in T, \A n \in T : n + 1 \in T
  PROVE  T = Nat
<1> SUFFICES ASSUME Nat \ T # {} PROVE FALSE
  OBVIOUS
<1>1. PICK n \in Nat \ T : \A m \in Nat \ T : ~ (<<m, n>> \in OpToRel(<, Nat))
  BY NatLessThanWellFounded, WFMin
<1>2. \A m \in Nat \ T : ~ (m < n)
  BY <1>1 DEF OpToRel
<1>3. n # 0 /\ n - 1 \in Nat
  OBVIOUS
<1>4. n - 1 \in T
  BY <1>2, <1>3
<1> QED
  BY <1>3, <1>4

\* A family with {} that may grow by any element of S has S, if S is finite.
LEMMA FiniteSetInduction ==
  ASSUME NEW S, IsFiniteSet(S), NEW F, {} \in F,
         \A T \in SUBSET S : \A x \in S \ T : T \in F => T \cup {x} \in F
  PROVE  S \in F
<1> DEFINE Sizes == {n \in Nat : \A T \in SUBSET S : Cardinality(T) = n => T \in F}
<1>1. 0 \in Sizes
  BY FS_Subset, FS_EmptySet
<1>2. ASSUME NEW n \in Sizes PROVE n + 1 \in Sizes
  <2> SUFFICES ASSUME NEW T \in SUBSET S, Cardinality(T) = n + 1 PROVE T \in F
    OBVIOUS
  <2>1. IsFiniteSet(T) /\ n \in Nat
    BY FS_Subset
  <2>2. T # {}
    BY <2>1, FS_EmptySet
  <2>3. PICK x : x \in T
    BY <2>2
  <2>4. Cardinality(T \ {x}) = n
    <3>1. Cardinality(T \ {x}) = Cardinality(T) - 1
      BY <2>1, <2>3, FS_RemoveElement
    <3> QED BY <2>1, <3>1
  <2>5. T \ {x} \in F
    BY <2>4
  <2>6. T = (T \ {x}) \cup {x}
    BY <2>3
  <2> QED BY <2>3, <2>5, <2>6
<1> HIDE DEF Sizes
<1>3. Sizes = Nat
  <2>1. Sizes \in SUBSET Nat
    BY DEF Sizes
  <2> QED BY <1>1, <1>2, <2>1, NatSetInduction
<1>4. Cardinality(S) \in Nat
  BY FS_CardinalityType
<1> QED
  BY <1>3, <1>4 DEF Sizes
-----------------------------------------------------------------------------
\* What the fold computes on subsets of S, as an equation.
Chosen(T) == CHOOSE x \in T : TRUE
PartSums(g, f, S) ==
  g = [T \in SUBSET S |-> IF T = {} THEN 0 ELSE f[Chosen(T)] + g[T \ {Chosen(T)}]]

\* The same on subsets of at most n elements.
Small(S, n) == {T \in SUBSET S : Cardinality(T) <= n}
SmallSums(g, f, S, n) ==
  g = [T \in Small(S, n) |-> IF T = {} THEN 0 ELSE f[Chosen(T)] + g[T \ {Chosen(T)}]]

\* What is chosen from a set is in it.
LEMMA ChosenIsIn == \A T : T # {} => Chosen(T) \in T
  BY DEF Chosen

\* The community module's sum is the value at S of a function on subsets.
LEMMA SumIsFold ==
  ASSUME NEW f, NEW S
  PROVE  SumFunctionOnSet(f, S) = (CHOOSE g : PartSums(g, f, S))[S]
  BY DEF SumFunctionOnSet, FoldFunctionOnSet, MapThenFoldSet, PartSums, Chosen

\* There is such a function on the subsets of at most n elements, for every n ...
LEMMA SmallSumsExist ==
  ASSUME NEW f, NEW S, IsFiniteSet(S)
  PROVE  \A n \in Nat : \E g : SmallSums(g, f, S, n)
<1> DEFINE Reached == {n \in Nat : \E g : SmallSums(g, f, S, n)}
<1>0. \A T \in SUBSET S : IsFiniteSet(T) /\ Cardinality(T) \in Nat
  BY FS_Subset, FS_CardinalityType
<1>1. 0 \in Reached
  <2> DEFINE g == [T \in Small(S, 0) |-> 0]
  <2>1. \A T \in Small(S, 0) : T = {}
    BY <1>0, FS_EmptySet DEF Small
  <2>2. SmallSums(g, f, S, 0)
    BY <2>1 DEF SmallSums
  <2> QED BY <2>2
<1>2. ASSUME NEW n \in Reached PROVE n + 1 \in Reached
  <2>1. n \in Nat
    OBVIOUS
  <2>2. PICK g : SmallSums(g, f, S, n)
    OBVIOUS
  <2> DEFINE Step(T) == IF T = {} THEN 0 ELSE f[Chosen(T)] + g[T \ {Chosen(T)}]
             h == [T \in Small(S, n + 1) |-> Step(T)]
  <2>3. \A T \in Small(S, n) : T \in Small(S, n + 1) /\ g[T] = Step(T)
    <3>1. \A T \in Small(S, n) : T \in Small(S, n + 1)
      BY <1>0, <2>1 DEF Small
    <3>2. \A T \in Small(S, n) : g[T] = Step(T)
      BY <2>2 DEF SmallSums
    <3> QED BY <3>1, <3>2
  <2>4. \A T \in Small(S, n + 1) : T # {} => T \ {Chosen(T)} \in Small(S, n)
    <3> SUFFICES ASSUME NEW T \in Small(S, n + 1), T # {}
                 PROVE  T \ {Chosen(T)} \in Small(S, n)
      OBVIOUS
    <3>1. T \in SUBSET S /\ Cardinality(T) <= n + 1
      BY DEF Small
    <3>2. Cardinality(T \ {Chosen(T)}) = Cardinality(T) - 1
      BY <1>0, <3>1, ChosenIsIn, FS_RemoveElement
    <3>3. Cardinality(T) \in Nat
      BY <1>0, <3>1
    <3>4. Cardinality(T \ {Chosen(T)}) <= n
      BY <2>1, <3>1, <3>2, <3>3
    <3> QED BY <3>1, <3>4 DEF Small
  <2>5. \A T \in Small(S, n) : h[T] = g[T]
    BY <2>3
  <2>6. h = [T \in Small(S, n + 1) |-> IF T = {} THEN 0 ELSE f[Chosen(T)] + h[T \ {Chosen(T)}]]
    BY <2>4, <2>5
  <2>7. SmallSums(h, f, S, n + 1)
    BY <2>6 DEF SmallSums
  <2> QED BY <2>1, <2>7
<1> HIDE DEF Reached
<1>3. Reached = Nat
  <2>1. Reached \in SUBSET Nat
    BY DEF Reached
  <2> QED BY <1>1, <1>2, <2>1, NatSetInduction
<1> QED BY <1>3 DEF Reached

\* ... and so on all subsets of a finite set.
LEMMA PartSumsExist ==
  ASSUME NEW f, NEW S, IsFiniteSet(S)
  PROVE  \E g : PartSums(g, f, S)
<1>1. Small(S, Cardinality(S)) = SUBSET S
  BY FS_Subset DEF Small
<1>2. Cardinality(S) \in Nat
  BY FS_CardinalityType
<1>3. PICK g : SmallSums(g, f, S, Cardinality(S))
  BY <1>2, SmallSumsExist
<1> QED BY <1>1, <1>3 DEF SmallSums, PartSums

\* The fold over a subset is the same function's value there.
LEMMA PartSumsAgree ==
  ASSUME NEW f, NEW S, IsFiniteSet(S), NEW g, PartSums(g, f, S),
         NEW T \in SUBSET S, NEW h, PartSums(h, f, T)
  PROVE  g[T] = h[T]
<1> DEFINE Same == {n \in Nat : \A U \in SUBSET T : Cardinality(U) <= n => g[U] = h[U]}
<1>0. \A U \in SUBSET T : IsFiniteSet(U) /\ Cardinality(U) \in Nat
  BY FS_Subset, FS_CardinalityType
<1>s. \A U \in SUBSET T : U # {} => /\ Chosen(U) \in U
                                   /\ g[U] = f[Chosen(U)] + g[U \ {Chosen(U)}]
                                   /\ h[U] = f[Chosen(U)] + h[U \ {Chosen(U)}]
  BY ChosenIsIn DEF PartSums
<1>e. g[{}] = 0 /\ h[{}] = 0
  BY DEF PartSums
<1>1. 0 \in Same
  BY <1>0, <1>e, FS_EmptySet
<1>2. ASSUME NEW n \in Same PROVE n + 1 \in Same
  <2> n \in Nat
    OBVIOUS
  <2> SUFFICES ASSUME NEW U \in SUBSET T, Cardinality(U) <= n + 1, U # {}
               PROVE  g[U] = h[U]
    <3>1. n + 1 \in Nat
      OBVIOUS
    <3>2. g[{}] = h[{}]
      BY <1>e
    <3> QED BY <3>1, <3>2
  <2> DEFINE R == U \ {Chosen(U)}
  <2>1. Cardinality(R) = Cardinality(U) - 1
    BY <1>0, <1>s, FS_RemoveElement
  <2>2. Cardinality(R) <= n
    BY <1>0, <2>1
  <2>3. g[R] = h[R]
    BY <2>2
  <2> QED BY <1>s, <2>3
<1> HIDE DEF Same
<1>3. Same = Nat
  <2>1. Same \in SUBSET Nat
    BY DEF Same
  <2> QED BY <1>1, <1>2, <2>1, NatSetInduction
<1>4. Cardinality(T) \in Nat
  BY <1>0
<1> QED BY <1>3, <1>4 DEF Same

\* The equation of the fold.
LEMMA SumUnfolds ==
  ASSUME NEW f, NEW S, IsFiniteSet(S)
  PROVE  /\ S = {} => SumFunctionOnSet(f, S) = 0
         /\ S # {} => /\ Chosen(S) \in S
                      /\ SumFunctionOnSet(f, S)
                         = f[Chosen(S)] + SumFunctionOnSet(f, S \ {Chosen(S)})
<1> DEFINE g == CHOOSE g : PartSums(g, f, S)
           R == S \ {Chosen(S)}
           h == CHOOSE h : PartSums(h, f, R)
<1>1. PartSums(g, f, S)
  BY PartSumsExist
<1>2. IsFiniteSet(R)
  BY FS_Subset
<1>3. PartSums(h, f, R)
  BY <1>2, PartSumsExist
<1>4. SumFunctionOnSet(f, S) = g[S] /\ SumFunctionOnSet(f, R) = h[R]
  BY SumIsFold
<1> HIDE DEF g, h
<1>5. g[R] = h[R]
  BY <1>1, <1>3, PartSumsAgree
<1>6. g[S] = IF S = {} THEN 0 ELSE f[Chosen(S)] + g[R]
  BY <1>1 DEF PartSums
<1> QED BY <1>4, <1>5, <1>6, ChosenIsIn
-----------------------------------------------------------------------------
\* A sum of nothing is 0.
LEMMA SumEmpty ==
  ASSUME NEW f
  PROVE  SumFunctionOnSet(f, {}) = 0
BY FS_EmptySet, SumUnfolds

\* So a sum is of the values in the set alone, whatever they are.
LEMMA SumOfSame ==
  ASSUME NEW f, NEW g, NEW S, IsFiniteSet(S), \A x \in S : g[x] = f[x]
  PROVE  SumFunctionOnSet(g, S) = SumFunctionOnSet(f, S)
<1> DEFINE N == {n \in Nat : \A T \in SUBSET S : Cardinality(T) <= n =>
                               SumFunctionOnSet(g, T) = SumFunctionOnSet(f, T)}
<1>1. \A T \in SUBSET S : IsFiniteSet(T) /\ Cardinality(T) \in Nat
  BY FS_Subset, FS_CardinalityType
<1>2. 0 \in N
  <2> SUFFICES ASSUME NEW T \in SUBSET S, Cardinality(T) <= 0
               PROVE  SumFunctionOnSet(g, T) = SumFunctionOnSet(f, T)
    OBVIOUS
  <2>1. T = {}
    BY <1>1, FS_EmptySet
  <2> QED BY <2>1, SumEmpty
<1>3. ASSUME NEW n \in N PROVE n + 1 \in N
  <2> SUFFICES ASSUME NEW T \in SUBSET S, Cardinality(T) <= n + 1
               PROVE  SumFunctionOnSet(g, T) = SumFunctionOnSet(f, T)
    OBVIOUS
  <2>1. CASE T = {}
    BY <2>1, SumEmpty
  <2>2. CASE T # {}
    <3>1. PICK c \in T : c = Chosen(T)
      BY <2>2, ChosenIsIn
    <3>2. Cardinality(T \ {c}) = Cardinality(T) - 1
      BY <1>1, FS_RemoveElement
    <3>3. T \ {c} \in SUBSET S /\ Cardinality(T \ {c}) <= n
      BY <1>1, <3>2
    <3>4. SumFunctionOnSet(g, T \ {c}) = SumFunctionOnSet(f, T \ {c})
      BY <3>3
    <3>5. SumFunctionOnSet(g, T) = g[c] + SumFunctionOnSet(g, T \ {c})
      BY <1>1, <2>2, <3>1, SumUnfolds
    <3>6. SumFunctionOnSet(f, T) = f[c] + SumFunctionOnSet(f, T \ {c})
      BY <1>1, <2>2, <3>1, SumUnfolds
    <3>7. g[c] = f[c]
      OBVIOUS
    <3> QED BY <3>4, <3>5, <3>6, <3>7
  <2> QED BY <2>1, <2>2
<1> HIDE DEF N
<1>4. N = Nat
  BY <1>2, <1>3, NatSetInduction DEF N
<1>5. Cardinality(S) \in N
  BY <1>1, <1>4
<1> QED
  BY <1>1, <1>5 DEF N

\* A finite sum of integers is an integer.
LEMMA SumInt ==
  ASSUME NEW f, NEW S, IsFiniteSet(S), \A x \in S : f[x] \in Int
  PROVE  SumFunctionOnSet(f, S) \in Int
<1> DEFINE Ok == {n \in Nat : \A T \in SUBSET S : Cardinality(T) = n => SumFunctionOnSet(f, T) \in Int}
<1>0. \A T \in SUBSET S : IsFiniteSet(T) /\ Cardinality(T) \in Nat
  BY FS_Subset, FS_CardinalityType
<1>1. 0 \in Ok
  BY <1>0, FS_EmptySet, SumEmpty
<1>2. ASSUME NEW n \in Ok PROVE n + 1 \in Ok
  <2>0. n \in Nat /\ n + 1 \in Nat
    OBVIOUS
  <2> SUFFICES ASSUME NEW T \in SUBSET S, Cardinality(T) = n + 1
               PROVE  SumFunctionOnSet(f, T) \in Int
    BY <2>0
  <2> DEFINE R == T \ {Chosen(T)}
  <2>1. T # {}
    BY <2>0, FS_EmptySet
  <2>2. /\ Chosen(T) \in T
        /\ SumFunctionOnSet(f, T) = f[Chosen(T)] + SumFunctionOnSet(f, R)
    BY <1>0, <2>1, SumUnfolds
  <2>3. Cardinality(R) = Cardinality(T) - 1
    BY <1>0, <2>2, FS_RemoveElement
  <2>4. Cardinality(R) = n
    BY <2>0, <2>3
  <2>5. SumFunctionOnSet(f, R) \in Int
    BY <2>4
  <2> QED BY <2>2, <2>5
<1> HIDE DEF Ok
<1>3. Ok = Nat
  <2>1. Ok \in SUBSET Nat
    BY DEF Ok
  <2> QED BY <1>1, <1>2, <2>1, NatSetInduction
<1> QED BY <1>0, <1>3 DEF Ok

\* Any element may be taken out first, not only the one the fold chooses.
LEMMA SumRemove ==
  ASSUME NEW f, NEW S, IsFiniteSet(S), \A x \in S : f[x] \in Int, NEW a \in S
  PROVE  SumFunctionOnSet(f, S) = f[a] + SumFunctionOnSet(f, S \ {a})
<1> DEFINE Ok == {n \in Nat : \A T \in SUBSET S : Cardinality(T) = n =>
                    \A x \in T : SumFunctionOnSet(f, T) = f[x] + SumFunctionOnSet(f, T \ {x})}
<1>0. \A T \in SUBSET S : IsFiniteSet(T) /\ Cardinality(T) \in Nat /\ SumFunctionOnSet(f, T) \in Int
  BY FS_Subset, FS_CardinalityType, SumInt
<1>1. 0 \in Ok
  BY <1>0, FS_EmptySet
<1>2. ASSUME NEW n \in Ok PROVE n + 1 \in Ok
  <2>0. n \in Nat /\ n + 1 \in Nat
    OBVIOUS
  <2> SUFFICES ASSUME NEW T \in SUBSET S, Cardinality(T) = n + 1, NEW x \in T
               PROVE  SumFunctionOnSet(f, T) = f[x] + SumFunctionOnSet(f, T \ {x})
    BY <2>0
  <2> DEFINE c == Chosen(T)
             R == T \ {c, x}
  <2>1. c \in T /\ SumFunctionOnSet(f, T) = f[c] + SumFunctionOnSet(f, T \ {c})
    BY <1>0, SumUnfolds
  <2> HIDE DEF c
  <2>2. CASE x = c
    BY <2>1, <2>2
  <2>3. CASE x # c
    <3>1. Cardinality(T \ {c}) = Cardinality(T) - 1 /\ Cardinality(T \ {x}) = Cardinality(T) - 1
      BY <1>0, <2>1, FS_RemoveElement
    <3>2. Cardinality(T \ {c}) = n /\ Cardinality(T \ {x}) = n
      BY <2>0, <3>1
    <3>3. x \in T \ {c} /\ c \in T \ {x} /\ (T \ {c}) \ {x} = R /\ (T \ {x}) \ {c} = R
      BY <2>1, <2>3
    <3>4. SumFunctionOnSet(f, T \ {c}) = f[x] + SumFunctionOnSet(f, R)
      BY <3>2, <3>3
    <3>5. SumFunctionOnSet(f, T \ {x}) = f[c] + SumFunctionOnSet(f, R)
      BY <2>1, <3>2, <3>3
    <3>6. f[x] \in Int /\ f[c] \in Int /\ SumFunctionOnSet(f, R) \in Int
      BY <1>0, <2>1
    <3> QED BY <2>1, <3>4, <3>5, <3>6
  <2> QED BY <2>2, <2>3
<1> HIDE DEF Ok
<1>3. Ok = Nat
  <2>1. Ok \in SUBSET Nat
    BY DEF Ok
  <2> QED BY <1>1, <1>2, <2>1, NatSetInduction
<1> QED BY <1>0, <1>3 DEF Ok

\* A new element adds its value.
LEMMA SumAddElement ==
  ASSUME NEW f, NEW S, IsFiniteSet(S), NEW a, a \notin S,
         \A x \in S \cup {a} : f[x] \in Int
  PROVE  SumFunctionOnSet(f, S \cup {a}) = f[a] + SumFunctionOnSet(f, S)
<1>1. IsFiniteSet(S \cup {a})
  BY FS_AddElement
<1>2. (S \cup {a}) \ {a} = S
  OBVIOUS
<1> QED BY <1>1, <1>2, SumRemove

\* Integer functions that agree on a set have the same sum over it.
LEMMA SumAgrees ==
  ASSUME NEW f, NEW g, NEW S, IsFiniteSet(S),
         \A x \in S : f[x] \in Int /\ g[x] = f[x]
  PROVE  SumFunctionOnSet(g, S) = SumFunctionOnSet(f, S)
<1> DEFINE F == {T \in SUBSET S : SumFunctionOnSet(g, T) = SumFunctionOnSet(f, T)}
<1>1. {} \in F
  BY SumEmpty
<1>2. ASSUME NEW T \in SUBSET S, NEW x \in S \ T, T \in F PROVE T \cup {x} \in F
  <2>1. IsFiniteSet(T)
    BY FS_Subset
  <2>2. SumFunctionOnSet(g, T \cup {x}) = g[x] + SumFunctionOnSet(g, T)
    BY <2>1, SumAddElement
  <2>3. SumFunctionOnSet(f, T \cup {x}) = f[x] + SumFunctionOnSet(f, T)
    BY <2>1, SumAddElement
  <2> QED BY <1>2, <2>2, <2>3
<1> HIDE DEF F
<1>3. S \in F
  BY <1>1, <1>2, FiniteSetInduction
<1> QED BY <1>3 DEF F

\* A finite sum of zeros is 0.
LEMMA SumZero ==
  ASSUME NEW f, NEW S, IsFiniteSet(S), \A x \in S : f[x] = 0
  PROVE  SumFunctionOnSet(f, S) = 0
<1> DEFINE F == {T \in SUBSET S : SumFunctionOnSet(f, T) = 0}
<1>1. {} \in F
  BY SumEmpty
<1>2. ASSUME NEW T \in SUBSET S, NEW x \in S \ T, T \in F PROVE T \cup {x} \in F
  <2>1. IsFiniteSet(T)
    BY FS_Subset
  <2>2. SumFunctionOnSet(f, T \cup {x}) = f[x] + SumFunctionOnSet(f, T)
    BY <2>1, SumAddElement
  <2> QED BY <1>2, <2>2
<1> HIDE DEF F
<1>3. S \in F
  BY <1>1, <1>2, FiniteSetInduction
<1> QED BY <1>3 DEF F

\* A finite sum of naturals is a natural ...
LEMMA SumNat ==
  ASSUME NEW f, NEW S, IsFiniteSet(S), \A x \in S : f[x] \in Nat
  PROVE  SumFunctionOnSet(f, S) \in Nat
<1> DEFINE F == {T \in SUBSET S : SumFunctionOnSet(f, T) \in Nat}
<1>1. {} \in F
  BY SumEmpty
<1>2. ASSUME NEW T \in SUBSET S, NEW x \in S \ T, T \in F PROVE T \cup {x} \in F
  <2>1. IsFiniteSet(T)
    BY FS_Subset
  <2>2. SumFunctionOnSet(f, T \cup {x}) = f[x] + SumFunctionOnSet(f, T)
    BY <2>1, SumAddElement
  <2> QED BY <1>2, <2>2
<1> HIDE DEF F
<1>3. S \in F
  BY <1>1, <1>2, FiniteSetInduction
<1> QED BY <1>3 DEF F

\* ... and at least each of them.
LEMMA SumAtLeast ==
  ASSUME NEW f, NEW S, IsFiniteSet(S), \A x \in S : f[x] \in Nat, NEW a \in S
  PROVE  f[a] <= SumFunctionOnSet(f, S)
<1>1. IsFiniteSet(S \ {a})
  BY FS_Subset
<1>2. SumFunctionOnSet(f, S \ {a}) \in Nat
  BY <1>1, SumNat
<1>3. SumFunctionOnSet(f, S) = f[a] + SumFunctionOnSet(f, S \ {a})
  BY SumRemove
<1> QED BY <1>2, <1>3

\* Changing one value changes the sum by the difference.
LEMMA SumChange ==
  ASSUME NEW f, NEW g, NEW S, IsFiniteSet(S), NEW a \in S,
         \A x \in S : f[x] \in Int, g[a] \in Int, \A x \in S \ {a} : g[x] = f[x]
  PROVE  SumFunctionOnSet(g, S) = SumFunctionOnSet(f, S) - f[a] + g[a]
<1>1. IsFiniteSet(S \ {a})
  BY FS_Subset
<1>2. SumFunctionOnSet(g, S \ {a}) = SumFunctionOnSet(f, S \ {a})
  BY <1>1, SumAgrees
<1>3. SumFunctionOnSet(f, S) = f[a] + SumFunctionOnSet(f, S \ {a})
  BY SumRemove
<1>4. SumFunctionOnSet(g, S) = g[a] + SumFunctionOnSet(g, S \ {a})
  BY SumRemove
<1>5. SumFunctionOnSet(f, S \ {a}) \in Int /\ f[a] \in Int
  BY <1>1, SumInt
<1> QED BY <1>2, <1>3, <1>4, <1>5

\* What is nowhere more adds up to no more.
LEMMA SumAtMost ==
  ASSUME NEW f, NEW g, NEW S, IsFiniteSet(S),
         \A x \in S : f[x] \in Int /\ g[x] \in Int /\ f[x] <= g[x]
  PROVE  SumFunctionOnSet(f, S) <= SumFunctionOnSet(g, S)
<1> DEFINE F == {T \in SUBSET S : SumFunctionOnSet(f, T) <= SumFunctionOnSet(g, T)}
<1>1. {} \in F
  BY SumEmpty
<1>2. ASSUME NEW T \in SUBSET S, NEW x \in S \ T, T \in F PROVE T \cup {x} \in F
  <2>1. IsFiniteSet(T)
    BY FS_Subset
  <2>2. /\ SumFunctionOnSet(f, T \cup {x}) = f[x] + SumFunctionOnSet(f, T)
        /\ SumFunctionOnSet(g, T \cup {x}) = g[x] + SumFunctionOnSet(g, T)
    BY <2>1, SumAddElement
  <2>3. SumFunctionOnSet(f, T) \in Int /\ SumFunctionOnSet(g, T) \in Int
    BY <2>1, SumInt
  <2> QED BY <1>2, <2>2, <2>3
<1> HIDE DEF F
<1>3. S \in F
  BY <1>1, <1>2, FiniteSetInduction
<1> QED BY <1>3 DEF F
-----------------------------------------------------------------------------
(***************************************************************************)
(* The fold of a sequence, FoldLeft of the community modules, takes the last  *)
(* index of a set of indices first.  That it has a course, a value after each  *)
(* element, is proved as it is for the sum: a function that satisfies the     *)
(* equation of the fold exists for every set that its step does not leave.    *)
(***************************************************************************)
Top(T) == CHOOSE x \in T : \A y \in T : x >= y

LEMMA TopIsLast ==
  ASSUME NEW n \in Nat, NEW T \in SUBSET (1 .. n), T # {}
  PROVE  Top(T) \in T /\ \A y \in T : Top(T) >= y
<1> DEFINE Has == {m \in Nat : \A U \in SUBSET (1 .. m) :
                     U # {} => \E x \in U : \A y \in U : x >= y}
<1>1. 0 \in Has
  <2>1. \A U \in SUBSET (1 .. 0) : U = {}
    OBVIOUS
  <2> QED BY <2>1
<1>2. ASSUME NEW m \in Has PROVE m + 1 \in Has
  <2>0. m \in Nat
    OBVIOUS
  <2> SUFFICES ASSUME NEW U \in SUBSET (1 .. m + 1), U # {}
               PROVE  \E x \in U : \A y \in U : x >= y
    BY <2>0
  <2>1. CASE m + 1 \in U
    BY <2>0, <2>1
  <2>2. CASE m + 1 \notin U
    <3>1. U \in SUBSET (1 .. m)
      BY <2>0, <2>2
    <3> QED BY <3>1
  <2> QED BY <2>1, <2>2
<1> HIDE DEF Has
<1>3. Has = Nat
  <2>1. Has \in SUBSET Nat
    BY DEF Has
  <2> QED BY <1>1, <1>2, <2>1, NatSetInduction
<1>4. \E x \in T : \A y \in T : x >= y
  BY <1>3 DEF Has
<1> QED BY <1>4 DEF Top

LEMMA TopOfFirst ==
  ASSUME NEW k \in Nat \ {0}
  PROVE  Top(1 .. k) = k /\ (1 .. k) \ {k} = 1 .. (k - 1)
<1>0. 1 .. k # {} /\ 1 .. k \in SUBSET (1 .. k)
  OBVIOUS
<1>1. Top(1 .. k) \in 1 .. k /\ \A y \in 1 .. k : Top(1 .. k) >= y
  BY <1>0, TopIsLast
<1> QED BY <1>1

\* What a fold from base by the step h computes on the subsets of D of at most m elements.
FoldsTo(g, h, base, D, V, m) ==
  /\ g \in [{T \in SUBSET D : Cardinality(T) <= m} -> V]
  /\ \A T \in SUBSET D : Cardinality(T) <= m =>
       g[T] = IF T = {} THEN base ELSE h[<<g[T \ {Top(T)}], Top(T)>>]

IsStep(h, n, V) == h \in [V \X (1 .. n) -> V]
IsFold(g, h, base, n, V) ==
  /\ g \in [SUBSET (1 .. n) -> V]
  /\ \A T \in SUBSET (1 .. n) :
       g[T] = IF T = {} THEN base ELSE h[<<g[T \ {Top(T)}], Top(T)>>]

\* There is such a function for every set V that the step does not leave.
LEMMA FoldExists ==
  ASSUME NEW n, n \in Nat, NEW V, NEW base, base \in V, NEW h, IsStep(h, n, V)
  PROVE  \E g : IsFold(g, h, base, n, V)
<1> DEFINE D == 1 .. n
           Reached == {m \in Nat : \E g : FoldsTo(g, h, base, D, V, m)}
<1>h. h \in [V \X (1 .. n) -> V]
  BY DEF IsStep
<1>0. /\ IsFiniteSet(D) /\ Cardinality(D) = n
      /\ \A T \in SUBSET D : IsFiniteSet(T) /\ Cardinality(T) \in Nat /\ Cardinality(T) <= n
  <2>1. IsFiniteSet(D) /\ Cardinality(D) = n
    BY FS_Interval
  <2> HIDE DEF D
  <2> QED BY <2>1, FS_Subset, FS_CardinalityType
<1>1. 0 \in Reached
  <2> DEFINE g == [T \in {U \in SUBSET D : Cardinality(U) <= 0} |-> base]
  <2>1. \A T \in SUBSET D : Cardinality(T) <= 0 => T = {}
    BY <1>0, FS_EmptySet
  <2>2. FoldsTo(g, h, base, D, V, 0)
    BY <2>1 DEF FoldsTo
  <2> QED BY <2>2
<1>2. ASSUME NEW m \in Reached PROVE m + 1 \in Reached
  <2>1. m \in Nat
    OBVIOUS
  <2>2. PICK g : FoldsTo(g, h, base, D, V, m)
    OBVIOUS
  <2> HIDE DEF D
  <2> DEFINE Few(k) == {T \in SUBSET D : Cardinality(T) <= k}
             Step(T) == IF T = {} THEN base ELSE h[<<g[T \ {Top(T)}], Top(T)>>]
             f == [T \in Few(m + 1) |-> Step(T)]
  <2>3. /\ g \in [Few(m) -> V]
        /\ \A T \in Few(m) : g[T] = Step(T)
    BY <2>2 DEF FoldsTo
  <2>4. \A T \in Few(m) : T \in Few(m + 1)
    BY <1>0, <2>1
  <2>5. ASSUME NEW T \in Few(m + 1), T # {}
        PROVE  Top(T) \in D /\ T \ {Top(T)} \in Few(m)
    <3>1. Top(T) \in T /\ T \in SUBSET D /\ Cardinality(T) <= m + 1
      BY <2>5, TopIsLast DEF D
    <3>2. Cardinality(T \ {Top(T)}) = Cardinality(T) - 1
      BY <1>0, <3>1, FS_RemoveElement
    <3>3. Cardinality(T) \in Nat /\ T \ {Top(T)} \in SUBSET D
      BY <1>0, <3>1
    <3>4. Cardinality(T \ {Top(T)}) <= m
      BY <2>1, <3>1, <3>2, <3>3
    <3> QED BY <3>1, <3>3, <3>4
  <2>6. \A T \in Few(m + 1) : Step(T) \in V
    <3> SUFFICES ASSUME NEW T \in Few(m + 1), T # {} PROVE h[<<g[T \ {Top(T)}], Top(T)>>] \in V
      OBVIOUS
    <3>1. Top(T) \in D /\ T \ {Top(T)} \in Few(m)
      BY <2>5
    <3>2. g[T \ {Top(T)}] \in V
      BY <2>3, <3>1
    <3> QED BY <1>h, <3>1, <3>2 DEF D
  <2>7. f \in [Few(m + 1) -> V]
    BY <2>6
  <2>8. \A T \in Few(m) : f[T] = g[T]
    BY <2>3, <2>4
  <2>9. \A T \in Few(m + 1) : f[T] = IF T = {} THEN base ELSE h[<<f[T \ {Top(T)}], Top(T)>>]
    <3> SUFFICES ASSUME NEW T \in Few(m + 1), T # {} PROVE f[T] = h[<<f[T \ {Top(T)}], Top(T)>>]
      OBVIOUS
    <3>1. f[T \ {Top(T)}] = g[T \ {Top(T)}]
      BY <2>5, <2>8
    <3> HIDE DEF Few
    <3>2. f[T] = h[<<g[T \ {Top(T)}], Top(T)>>]
      OBVIOUS
    <3> HIDE DEF f
    <3> QED BY <3>1, <3>2
  <2>10. FoldsTo(f, h, base, D, V, m + 1)
    <3> HIDE DEF f
    <3> QED BY <2>7, <2>9 DEF FoldsTo
  <2> QED BY <2>1, <2>10
<1> HIDE DEF Reached
<1>3. Reached = Nat
  <2>1. Reached \in SUBSET Nat
    BY DEF Reached
  <2> QED BY <1>1, <1>2, <2>1, NatSetInduction
<1>4. PICK g : FoldsTo(g, h, base, D, V, n)
  BY <1>3 DEF Reached
<1>5. {T \in SUBSET D : Cardinality(T) <= n} = SUBSET D
  BY <1>0
<1> QED
  BY <1>0, <1>4, <1>5 DEF FoldsTo, IsFold

\* The same, as the equation of a fold wants it.
FoldsOver(g, h, base, n, V) ==
  /\ g = [T \in SUBSET (1 .. n) |-> g[T]] /\ g[{}] = base
  /\ \A T \in SUBSET (1 .. n) : T # {} =>
       /\ Top(T) \in 1 .. n /\ g[T \ {Top(T)}] \in V
       /\ g[T] = h[<<g[T \ {Top(T)}], Top(T)>>]

LEMMA FoldFound ==
  ASSUME NEW n, n \in Nat, NEW V, NEW base, base \in V, NEW h, IsStep(h, n, V)
  PROVE  \E g : FoldsOver(g, h, base, n, V)
<1>1. PICK g : IsFold(g, h, base, n, V)
  BY FoldExists
<1>2. /\ g \in [SUBSET (1 .. n) -> V]
      /\ \A T \in SUBSET (1 .. n) :
           g[T] = IF T = {} THEN base ELSE h[<<g[T \ {Top(T)}], Top(T)>>]
  BY <1>1 DEF IsFold
<1>3. ASSUME NEW T \in SUBSET (1 .. n), T # {} PROVE Top(T) \in 1 .. n /\ g[T \ {Top(T)}] \in V
  <2>1. Top(T) \in T
    BY <1>3, TopIsLast
  <2> QED BY <1>2, <2>1
<1> QED
  BY <1>2, <1>3 DEF FoldsOver

\* The course of a fold takes the elements in their order.
LEMMA FirstOnes ==
  ASSUME NEW n, n \in Nat
  PROVE  /\ 1 .. 0 = {} /\ 0 \in 0 .. n /\ n \in 0 .. n
         /\ \A k \in 1 .. n : /\ 1 .. k \in SUBSET (1 .. n) /\ 1 .. k # {}
                              /\ Top(1 .. k) = k /\ (1 .. k) \ {k} = 1 .. (k - 1)
                              /\ k \in 0 .. n /\ k - 1 \in 0 .. n
<1>1. ASSUME NEW k \in 1 .. n
      PROVE  /\ 1 .. k \in SUBSET (1 .. n) /\ 1 .. k # {}
             /\ Top(1 .. k) = k /\ (1 .. k) \ {k} = 1 .. (k - 1)
             /\ k \in 0 .. n /\ k - 1 \in 0 .. n
  <2>1. k \in Nat \ {0} /\ k <= n /\ k \in 1 .. k
    OBVIOUS
  <2>2. 1 .. k \in SUBSET (1 .. n)
    BY <2>1
  <2> QED BY <2>1, <2>2, TopOfFirst
<1> QED
  BY <1>1
=============================================================================
