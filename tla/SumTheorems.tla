---------------------------- MODULE SumTheorems ----------------------------
(***************************************************************************)
(* Facts about SumFunctionOnSet and SumFunction of module Functions, which *)
(* the models use for totals.  They are recursive functions over subsets,  *)
(* so each fact rests on the well-foundedness of strict inclusion among    *)
(* finite sets: a minimal counterexample is shown not to exist.            *)
(***************************************************************************)
EXTENDS Integers, FiniteSets, Functions, FiniteSetsExt, FiniteSetTheorems,
        WellFoundedInduction, TLAPS

\* The element the fold takes next.
Pick(s) == CHOOSE x \in s : TRUE

\* g satisfies the recursion of the fold of + over the subsets of S.
IsIter(g, f, S) ==
    g = [s \in SUBSET S |->
            IF s = {} THEN 0 ELSE f[Pick(s)] + g[s \ {Pick(s)}]]

\* The fold is the value at S of a function chosen by its recursion.
LEMMA SumIsIter ==
    ASSUME NEW f, NEW S
    PROVE  SumFunctionOnSet(f, S) = (CHOOSE g : IsIter(g, f, S))[S]
BY DEF SumFunctionOnSet, FoldFunctionOnSet, MapThenFoldSet, IsIter, Pick

\* The element the fold takes out of a non-empty set belongs to it.
LEMMA PickIn ==
    ASSUME NEW s, s # {}
    PROVE  Pick(s) \in s
BY DEF Pick

\* A non-empty collection of subsets of a finite set has a member none of
\* whose strict subsets belongs to it.
LEMMA MinimalSubset ==
    ASSUME NEW S, IsFiniteSet(S), NEW Bad, Bad \subseteq SUBSET S, Bad # {}
    PROVE  \E T \in Bad : \A U \in SUBSET T : U # T => U \notin Bad
<1>1. FiniteSubsetsOf(S) = SUBSET S
  BY FS_FiniteSubsetsOfFinite
<1>2. IsWellFoundedOn(StrictSubsetOrdering(S), SUBSET S)
  BY <1>1, FS_StrictSubsetOrderingWellFounded
<1>3. PICK T \in Bad : \A U \in Bad : ~(<<U, T>> \in StrictSubsetOrdering(S))
  BY <1>2, WFMin
<1>4. ASSUME NEW U \in SUBSET T, U # T, U \in Bad
      PROVE  FALSE
  <2>1. <<U, T>> \in StrictSubsetOrdering(S)
    BY <1>4 DEF StrictSubsetOrdering
  <2> QED BY <2>1, <1>3, <1>4
<1> QED BY <1>4

\* What the recursion says of the value at a set.
LEMMA IterValue ==
    ASSUME NEW g, NEW f, NEW S, IsIter(g, f, S), NEW s \in SUBSET S
    PROVE  g[s] = IF s = {} THEN 0 ELSE f[Pick(s)] + g[s \ {Pick(s)}]
BY DEF IsIter

\* Two functions that satisfy the recursion agree where both are defined.
LEMMA IterUnique ==
    ASSUME NEW f, NEW A, NEW B, NEW g, NEW h,
           IsIter(g, f, A), IsIter(h, f, B),
           NEW S \in SUBSET (A \cap B), IsFiniteSet(S)
    PROVE  g[S] = h[S]
<1> DEFINE Bad == {s \in SUBSET S : g[s] # h[s]}
<1>1. ASSUME Bad # {} PROVE FALSE
  <2>1. PICK T \in Bad : \A U \in SUBSET T : U # T => U \notin Bad
    <3> HIDE DEF Bad
    <3>1. Bad \subseteq SUBSET S
      BY DEF Bad
    <3> QED BY <1>1, <3>1, MinimalSubset
  <2>2. T \in SUBSET A /\ T \in SUBSET B /\ T \in SUBSET S
    OBVIOUS
  <2>3. g[T] = IF T = {} THEN 0 ELSE f[Pick(T)] + g[T \ {Pick(T)}]
    BY <2>2, IterValue
  <2>4. h[T] = IF T = {} THEN 0 ELSE f[Pick(T)] + h[T \ {Pick(T)}]
    BY <2>2, IterValue
  <2>5. CASE T = {}
    BY <2>3, <2>4, <2>5
  <2>6. CASE T # {}
    <3>1. T \ {Pick(T)} \in SUBSET T /\ T \ {Pick(T)} # T
      BY <2>6, PickIn
    <3>2. g[T \ {Pick(T)}] = h[T \ {Pick(T)}]
      BY <2>1, <2>2, <3>1
    <3> QED BY <2>3, <2>4, <3>2
  <2> QED BY <2>5, <2>6
<1> QED BY <1>1

\* Some function satisfies the recursion over the subsets of a finite set.
LEMMA IterExists ==
    ASSUME NEW f, NEW S, IsFiniteSet(S)
    PROVE  \E g : IsIter(g, f, S)
<1> DEFINE Bad == {s \in SUBSET S : ~\E g : IsIter(g, f, s)}
<1>1. ASSUME Bad # {} PROVE FALSE
  <2>1. PICK T \in Bad : \A U \in SUBSET T : U # T => U \notin Bad
    <3> HIDE DEF Bad
    <3>1. Bad \subseteq SUBSET S
      BY DEF Bad
    <3> QED BY <1>1, <3>1, MinimalSubset
  <2> DEFINE it(U) == CHOOSE g : IsIter(g, f, U)
             val(U) == IF U = {} THEN 0
                       ELSE f[Pick(U)] + it(U \ {Pick(U)})[U \ {Pick(U)}]
             g == [s \in SUBSET T |-> val(s)]
  <2>2. ASSUME NEW U \in SUBSET T, U # T
        PROVE  IsIter(it(U), f, U)
    <3>1. \E h : IsIter(h, f, U)
      BY <2>1, <2>2
    <3> QED BY <3>1
  <2> HIDE DEF it
  <2>3. ASSUME NEW U \in SUBSET T, U # T
        PROVE  it(U)[U] = val(U)
    <3>1. it(U)[U] = IF U = {} THEN 0
                     ELSE f[Pick(U)] + it(U)[U \ {Pick(U)}]
      BY <2>2, <2>3, IterValue
    <3>2. CASE U = {}
      BY <3>1, <3>2
    <3>3. CASE U # {}
      <4> DEFINE W == U \ {Pick(U)}
      <4>1. W \in SUBSET T /\ W # T /\ W \in SUBSET (U \cap W)
        BY <3>3, PickIn
      <4>2. IsFiniteSet(W)
        BY <4>1, FS_Subset
      <4>3. IsIter(it(U), f, U) /\ IsIter(it(W), f, W)
        BY <4>1, <2>2, <2>3
      <4>4. it(U)[W] = it(W)[W]
        <5> HIDE DEF W
        <5> QED BY <4>1, <4>2, <4>3, IterUnique
      <4> QED BY <3>1, <3>3, <4>4
    <3> QED BY <3>2, <3>3
  <2>4. ASSUME NEW s \in SUBSET T, s # {}
        PROVE  it(s \ {Pick(s)})[s \ {Pick(s)}] = g[s \ {Pick(s)}]
    <3> DEFINE W == s \ {Pick(s)}
    <3>1. W \in SUBSET T /\ W # T
      BY <2>4, PickIn
    <3>2. g[W] = val(W)
      BY <3>1
    <3>3. it(W)[W] = val(W)
      <4> HIDE DEF W, val
      <4> QED BY <3>1, <2>3
    <3> QED BY <3>2, <3>3
  <2>5. \A s \in SUBSET T :
           val(s) = IF s = {} THEN 0 ELSE f[Pick(s)] + g[s \ {Pick(s)}]
    <3> HIDE DEF g
    <3> QED BY <2>4
  <2>6. g = [s \in SUBSET T |->
                IF s = {} THEN 0 ELSE f[Pick(s)] + g[s \ {Pick(s)}]]
    <3>1. g = [s \in SUBSET T |-> val(s)]
      OBVIOUS
    <3> HIDE DEF g, val
    <3> QED BY <3>1, <2>5
  <2>7. IsIter(g, f, T)
    BY <2>6 DEF IsIter
  <2> QED BY <2>7
<1>2. S \notin Bad
  BY <1>1
<1> QED BY <1>2

-----------------------------------------------------------------------------
(* What the sum is.                                                        *)

\* The empty sum is zero.
THEOREM SumEmpty ==
    ASSUME NEW f
    PROVE  SumFunctionOnSet(f, {}) = 0
<1>1. IsFiniteSet({})
  BY FS_EmptySet
<1>2. IsIter(CHOOSE g : IsIter(g, f, {}), f, {})
  BY <1>1, IterExists
<1> QED BY <1>2, SumIsIter, IterValue

\* Taking out the element the fold takes.
LEMMA SumPick ==
    ASSUME NEW f, NEW S, IsFiniteSet(S), S # {}
    PROVE  SumFunctionOnSet(f, S)
             = f[Pick(S)] + SumFunctionOnSet(f, S \ {Pick(S)})
<1> DEFINE W == S \ {Pick(S)}
           g == CHOOSE h : IsIter(h, f, S)
           k == CHOOSE h : IsIter(h, f, W)
<1>1. IsFiniteSet(W) /\ W \in SUBSET S /\ W \in SUBSET (S \cap W)
  BY FS_Subset
<1>2. IsIter(g, f, S)
  BY IterExists
<1>3. IsIter(k, f, W)
  <2> HIDE DEF W
  <2> QED BY <1>1, IterExists
<1>4. SumFunctionOnSet(f, S) = g[S] /\ SumFunctionOnSet(f, W) = k[W]
  BY SumIsIter
<1> HIDE DEF g, k
<1>5. g[S] = f[Pick(S)] + g[W]
  BY <1>2, IterValue
<1>6. g[W] = k[W]
  <2> HIDE DEF W
  <2> QED BY <1>1, <1>2, <1>3, IterUnique
<1> QED BY <1>4, <1>5, <1>6

\* A sum of integers is an integer, of naturals a natural.
THEOREM SumType ==
    ASSUME NEW S, IsFiniteSet(S), NEW f,
           NEW N \in {Nat, Int}, \A x \in S : f[x] \in N
    PROVE  SumFunctionOnSet(f, S) \in N
<1> DEFINE Bad == {s \in SUBSET S : SumFunctionOnSet(f, s) \notin N}
<1>1. ASSUME Bad # {} PROVE FALSE
  <2>1. PICK T \in Bad : \A U \in SUBSET T : U # T => U \notin Bad
    <3> HIDE DEF Bad
    <3>1. Bad \subseteq SUBSET S
      BY DEF Bad
    <3> QED BY <1>1, <3>1, MinimalSubset
  <2>2. T # {}
    BY SumEmpty
  <2>3. Pick(T) \in T /\ Pick(T) \in S
    BY <2>2, PickIn
  <2>4. IsFiniteSet(T)
    BY FS_Subset
  <2>5. SumFunctionOnSet(f, T \ {Pick(T)}) \in N
    BY <2>1, <2>3
  <2>6. f[Pick(T)] \in N
    BY <2>3
  <2>7. SumFunctionOnSet(f, T) \in N
    <3>1. SumFunctionOnSet(f, T)
            = f[Pick(T)] + SumFunctionOnSet(f, T \ {Pick(T)})
      BY <2>2, <2>4, SumPick
    <3>2. \A a, b \in N : a + b \in N
      OBVIOUS
    <3> QED BY <3>1, <3>2, <2>5, <2>6
  <2> QED BY <2>7
<1> QED BY <1>1

\* Any element may be taken out first.
THEOREM SumRemove ==
    ASSUME NEW S, IsFiniteSet(S), NEW f, \A y \in S : f[y] \in Int,
           NEW x \in S
    PROVE  SumFunctionOnSet(f, S) = f[x] + SumFunctionOnSet(f, S \ {x})
<1> DEFINE Sum(s) == SumFunctionOnSet(f, s)
           Bad == {s \in SUBSET S : \E y \in s : Sum(s) # f[y] + Sum(s \ {y})}
<1>0. \A s \in SUBSET S : IsFiniteSet(s) /\ Sum(s) \in Int
  BY FS_Subset, SumType
<1>1. ASSUME Bad # {} PROVE FALSE
  <2>1. PICK T \in Bad : \A U \in SUBSET T : U # T => U \notin Bad
    <3> HIDE DEF Bad
    <3>1. Bad \subseteq SUBSET S
      BY DEF Bad
    <3> QED BY <1>1, <3>1, MinimalSubset
  <2>2. PICK y \in T : Sum(T) # f[y] + Sum(T \ {y})
    OBVIOUS
  <2> DEFINE p == Pick(T)
  <2>3. p \in T /\ p \in S /\ y \in S /\ T \in SUBSET S
    BY PickIn
  <2>4. Sum(T) = f[p] + Sum(T \ {p})
    BY <1>0, <2>3, SumPick
  <2>5. p # y
    BY <2>2, <2>4
  <2> HIDE DEF p, Sum
  <2>6. Sum(T \ {p}) = f[y] + Sum((T \ {p}) \ {y})
    BY <2>1, <2>3, <2>5
  <2>7. Sum(T \ {y}) = f[p] + Sum((T \ {y}) \ {p})
    BY <2>1, <2>3, <2>5
  <2>8. (T \ {p}) \ {y} = (T \ {y}) \ {p}
    OBVIOUS
  <2>9. /\ f[p] \in Int /\ f[y] \in Int
        /\ Sum((T \ {y}) \ {p}) \in Int
    <3>1. (T \ {y}) \ {p} \in SUBSET S
      OBVIOUS
    <3> QED BY <2>3, <1>0, <3>1
  <2> DEFINE w == Sum((T \ {y}) \ {p})
  <2>10. Sum(T) = f[p] + (f[y] + w) /\ Sum(T \ {y}) = f[p] + w
    BY <2>4, <2>6, <2>7, <2>8
  <2>11. w \in Int
    BY <2>9
  <2> HIDE DEF w
  <2>12. f[p] + (f[y] + w) = f[y] + (f[p] + w)
    BY <2>9, <2>11
  <2> QED BY <2>2, <2>10, <2>12
<1> QED BY <1>1

\* The sum depends only on the values at the elements summed.
THEOREM SumEqual ==
    ASSUME NEW S, IsFiniteSet(S), NEW f, NEW g, \A x \in S : f[x] = g[x]
    PROVE  SumFunctionOnSet(f, S) = SumFunctionOnSet(g, S)
<1> DEFINE Bad == {s \in SUBSET S :
                     SumFunctionOnSet(f, s) # SumFunctionOnSet(g, s)}
<1>1. ASSUME Bad # {} PROVE FALSE
  <2>1. PICK T \in Bad : \A U \in SUBSET T : U # T => U \notin Bad
    <3> HIDE DEF Bad
    <3>1. Bad \subseteq SUBSET S
      BY DEF Bad
    <3> QED BY <1>1, <3>1, MinimalSubset
  <2>2. T # {}
    BY SumEmpty
  <2>3. Pick(T) \in T /\ Pick(T) \in S /\ IsFiniteSet(T)
    BY <2>2, PickIn, FS_Subset
  <2>4. SumFunctionOnSet(f, T \ {Pick(T)}) = SumFunctionOnSet(g, T \ {Pick(T)})
    BY <2>1, <2>3
  <2>5. SumFunctionOnSet(f, T) = SumFunctionOnSet(g, T)
    BY <2>2, <2>3, <2>4, SumPick
  <2> QED BY <2>5
<1> QED BY <1>1

\* A sum of larger naturals is larger.
THEOREM SumMonotone ==
    ASSUME NEW S, IsFiniteSet(S), NEW f, NEW g,
           \A x \in S : f[x] \in Int /\ g[x] \in Int /\ f[x] <= g[x]
    PROVE  SumFunctionOnSet(f, S) <= SumFunctionOnSet(g, S)
<1> DEFINE F(s) == SumFunctionOnSet(f, s)
           G(s) == SumFunctionOnSet(g, s)
           Bad == {s \in SUBSET S : ~(F(s) <= G(s))}
<1>0. \A s \in SUBSET S : IsFiniteSet(s) /\ F(s) \in Int /\ G(s) \in Int
  BY FS_Subset, SumType
<1>1. ASSUME Bad # {} PROVE FALSE
  <2>1. PICK T \in Bad : \A U \in SUBSET T : U # T => U \notin Bad
    <3> HIDE DEF Bad
    <3>1. Bad \subseteq SUBSET S
      BY DEF Bad
    <3> QED BY <1>1, <3>1, MinimalSubset
  <2>2. T # {}
    BY SumEmpty
  <2> DEFINE p == Pick(T)
             W == T \ {p}
  <2>3. p \in T /\ p \in S /\ W \in SUBSET S /\ W # T /\ W \in SUBSET T
    BY <2>2, PickIn
  <2>4. F(T) = f[p] + F(W) /\ G(T) = g[p] + G(W)
    BY <1>0, <2>2, SumPick
  <2> HIDE DEF p, W, F, G
  <2>5. F(W) <= G(W)
    BY <2>1, <2>3
  <2>6. F(W) \in Int /\ G(W) \in Int
    BY <1>0, <2>3
  <2>7. f[p] \in Int /\ g[p] \in Int /\ f[p] <= g[p]
    BY <2>3
  <2>8. f[p] + F(W) <= g[p] + G(W)
    BY <2>5, <2>6, <2>7
  <2> QED BY <2>4, <2>8
<1> QED BY <1>1

\* Two functions that differ at one element have sums that differ as much.
THEOREM SumUpdate ==
    ASSUME NEW S, IsFiniteSet(S), NEW f, NEW g, NEW x \in S,
           \A y \in S : f[y] \in Int /\ g[y] \in Int,
           \A y \in S \ {x} : g[y] = f[y]
    PROVE  SumFunctionOnSet(g, S) = (SumFunctionOnSet(f, S) - f[x]) + g[x]
<1> DEFINE W == S \ {x}
<1>1. IsFiniteSet(W)
  BY FS_Subset
<1>2. SumFunctionOnSet(f, W) = SumFunctionOnSet(g, W)
  <2>1. \A y \in W : f[y] = g[y]
    OBVIOUS
  <2> HIDE DEF W
  <2> QED BY <1>1, <2>1, SumEqual
<1>3. SumFunctionOnSet(f, S) = f[x] + SumFunctionOnSet(f, W)
  BY SumRemove
<1>4. SumFunctionOnSet(g, S) = g[x] + SumFunctionOnSet(g, W)
  BY SumRemove
<1>5. SumFunctionOnSet(f, W) \in Int
  <2>1. \A y \in W : f[y] \in Int
    OBVIOUS
  <2> HIDE DEF W
  <2> QED BY <1>1, <2>1, SumType
<1>6. f[x] \in Int /\ g[x] \in Int
  OBVIOUS
<1> HIDE DEF W
<1>7. \A a, b, c \in Int : b + c = ((a + c) - a) + b
  OBVIOUS
<1> QED BY <1>2, <1>3, <1>4, <1>5, <1>6, <1>7

\* Sums are linear.
THEOREM SumLinear ==
    ASSUME NEW S, IsFiniteSet(S), NEW f, NEW g, NEW h, NEW k \in Int,
           \A x \in S : /\ f[x] \in Int /\ g[x] \in Int
                        /\ h[x] = f[x] + k * g[x]
    PROVE  SumFunctionOnSet(h, S)
             = SumFunctionOnSet(f, S) + k * SumFunctionOnSet(g, S)
<1> DEFINE F(s) == SumFunctionOnSet(f, s)
           G(s) == SumFunctionOnSet(g, s)
           H(s) == SumFunctionOnSet(h, s)
           Bad == {s \in SUBSET S : H(s) # F(s) + k * G(s)}
<1>0. \A s \in SUBSET S : IsFiniteSet(s) /\ F(s) \in Int /\ G(s) \in Int
  BY FS_Subset, SumType
<1>1. ASSUME Bad # {} PROVE FALSE
  <2>1. PICK T \in Bad : \A U \in SUBSET T : U # T => U \notin Bad
    <3> HIDE DEF Bad
    <3>1. Bad \subseteq SUBSET S
      BY DEF Bad
    <3> QED BY <1>1, <3>1, MinimalSubset
  <2>2. T # {}
    BY SumEmpty
  <2> DEFINE p == Pick(T)
             W == T \ {p}
  <2>3. p \in T /\ p \in S /\ W \in SUBSET S /\ W # T /\ W \in SUBSET T
    BY <2>2, PickIn
  <2>4. /\ F(T) = f[p] + F(W) /\ G(T) = g[p] + G(W)
        /\ H(T) = h[p] + H(W)
    BY <1>0, <2>2, SumPick
  <2> HIDE DEF p, W, F, G, H
  <2>5. H(W) = F(W) + k * G(W)
    BY <2>1, <2>3
  <2>6. F(W) \in Int /\ G(W) \in Int
    BY <1>0, <2>3
  <2>7. f[p] \in Int /\ g[p] \in Int /\ h[p] = f[p] + k * g[p]
    BY <2>3
  <2>8. \A a, b, c, d \in Int :
           (a + k * b) + (c + k * d) = (a + c) + k * (b + d)
    OBVIOUS
  <2>9. H(T) = F(T) + k * G(T)
    BY <2>4, <2>5, <2>6, <2>7, <2>8
  <2> QED BY <2>9
<1> QED BY <1>1

\* Elements where a function is zero do not count.
THEOREM SumSupport ==
    ASSUME NEW S, IsFiniteSet(S), NEW f, \A x \in S : f[x] \in Int,
           NEW R \in SUBSET S, \A x \in S \ R : f[x] = 0
    PROVE  SumFunctionOnSet(f, S) = SumFunctionOnSet(f, R)
<1> DEFINE Sum(s) == SumFunctionOnSet(f, s)
           Bad == {T \in SUBSET (S \ R) : Sum(R \cup T) # Sum(R)}
<1>1. ASSUME Bad # {} PROVE FALSE
  <2>1. PICK T \in Bad : \A U \in SUBSET T : U # T => U \notin Bad
    <3> HIDE DEF Bad
    <3>1. Bad \subseteq SUBSET (S \ R) /\ IsFiniteSet(S \ R)
      BY FS_Subset DEF Bad
    <3> QED BY <1>1, <3>1, MinimalSubset
  <2>2. T \in SUBSET (S \ R) /\ Sum(R \cup T) # Sum(R)
    OBVIOUS
  <2>3. T # {}
    <3>1. R \cup {} = R
      OBVIOUS
    <3> QED BY <2>2, <3>1
  <2>4. PICK x \in T : TRUE
    BY <2>3
  <2>5. /\ IsFiniteSet(R \cup T) /\ x \in R \cup T
        /\ \A y \in R \cup T : f[y] \in Int
        /\ (R \cup T) \ {x} = R \cup (T \ {x})
    <3>1. R \cup T \in SUBSET S
      BY <2>2
    <3> QED BY <3>1, <2>2, FS_Subset
  <2>6. Sum(R \cup T) = f[x] + Sum((R \cup T) \ {x})
    BY <2>5, SumRemove
  <2>7. Sum(R \cup (T \ {x})) = Sum(R)
    <3>1. T \ {x} \in SUBSET T /\ T \ {x} # T
      BY <2>4
    <3>2. T \ {x} \notin Bad
      BY <2>1, <3>1
    <3> QED BY <3>2, <2>2
  <2>8. f[x] = 0 /\ Sum(R) \in Int
    <3>1. IsFiniteSet(R) /\ \A y \in R : f[y] \in Int
      BY FS_Subset
    <3> QED BY <2>2, <3>1, SumType
  <2> HIDE DEF Sum
  <2>9. Sum(R \cup T) = f[x] + Sum(R)
    BY <2>5, <2>6, <2>7
  <2>10. Sum(R \cup T) = Sum(R)
    BY <2>8, <2>9
  <2> QED BY <2>2, <2>10
<1>2. Sum(R \cup (S \ R)) = Sum(R)
  BY <1>1
<1>3. R \cup (S \ R) = S
  OBVIOUS
<1> QED BY <1>2, <1>3

-----------------------------------------------------------------------------
(* The same for whole functions, and the largest element of a set.         *)

\* The sum of all values of a finite function into the naturals is a natural.
THEOREM SumFunctionType ==
    ASSUME NEW f, IsFiniteSet(DOMAIN f), \A x \in DOMAIN f : f[x] \in Nat
    PROVE  SumFunction(f) \in Nat
<1>1. SumFunction(f) = SumFunctionOnSet(f, DOMAIN f)
  BY DEF SumFunction
<1> QED BY <1>1, SumType

\* A sum of zeros is zero.
THEOREM SumZero ==
    ASSUME NEW S, IsFiniteSet(S)
    PROVE  SumFunction([x \in S |-> 0]) = 0
<1> DEFINE z == [x \in S |-> 0]
<1>1. \A x \in S : z[x] \in Int /\ z[x] = 0
  OBVIOUS
<1>2. SumFunction(z) = SumFunctionOnSet(z, S)
  BY DEF SumFunction
<1> HIDE DEF z
<1>3. SumFunctionOnSet(z, S) = SumFunctionOnSet(z, {})
  BY <1>1, SumSupport
<1> QED BY <1>2, <1>3, SumEmpty DEF z

\* A function changed at one element: its sum changes as much.
THEOREM SumFunctionUpdate ==
    ASSUME NEW S, IsFiniteSet(S), NEW f \in [S -> Nat], NEW g \in [S -> Nat],
           NEW x \in S, \A y \in S \ {x} : g[y] = f[y]
    PROVE  SumFunction(g) = (SumFunction(f) - f[x]) + g[x]
<1>1. SumFunction(f) = SumFunctionOnSet(f, S)
      /\ SumFunction(g) = SumFunctionOnSet(g, S)
  BY DEF SumFunction
<1>2. \A y \in S : f[y] \in Int /\ g[y] \in Int
  OBVIOUS
<1> QED BY <1>1, <1>2, SumUpdate

\* A finite non-empty set of integers has a largest element.
THEOREM MaxExists ==
    ASSUME NEW S, IsFiniteSet(S), S \subseteq Int, S # {}
    PROVE  Max(S) \in S /\ \A x \in S : x <= Max(S)
<1> DEFINE HasMax(T) == \E m \in T : \A x \in T : x <= m
           Bad == {T \in SUBSET S : T # {} /\ ~HasMax(T)}
<1>1. ASSUME Bad # {} PROVE FALSE
  <2>1. PICK T \in Bad : \A U \in SUBSET T : U # T => U \notin Bad
    <3> HIDE DEF Bad
    <3>1. Bad \subseteq SUBSET S
      BY DEF Bad
    <3> QED BY <1>1, <3>1, MinimalSubset
  <2>2. PICK p \in T : TRUE
    OBVIOUS
  <2>3. CASE T \ {p} = {}
    BY <2>3
  <2>4. CASE T \ {p} # {}
    <3>1. HasMax(T \ {p})
      BY <2>1, <2>2, <2>4
    <3>2. PICK m \in T \ {p} : \A x \in T \ {p} : x <= m
      BY <3>1
    <3>3. \A x \in T : x <= IF m <= p THEN p ELSE m
      BY <3>2
    <3> QED BY <3>3
  <2> QED BY <2>3, <2>4
<1>2. HasMax(S)
  BY <1>1
<1>3. \E m \in S : \A x \in S : m >= x
  BY <1>2
<1> QED BY <1>3 DEF Max

\* The values of a function with a finite domain are finitely many.
THEOREM FiniteImage ==
    ASSUME NEW f, IsFiniteSet(DOMAIN f)
    PROVE  IsFiniteSet({f[x] : x \in DOMAIN f})
<1> DEFINE T == {f[x] : x \in DOMAIN f}
           g == [x \in DOMAIN f |-> f[x]]
<1>1. g \in Surjection(DOMAIN f, T)
  BY DEF Surjection
<1> HIDE DEF T, g
<1>2. IsFiniteSet(T)
  BY <1>1, FS_Surjection
<1> QED BY <1>2 DEF T

=============================================================================
