---------------------------- MODULE SumTheorems ----------------------------
(***************************************************************************)
(* Sums over finite sets, as MapThenSumSet computes them: one element after *)
(* the other, in an order of its own choice.                               *)
(***************************************************************************)
EXTENDS FiniteSetsExt, FiniteSetTheorems, NaturalsInduction, TLAPS

\* Induction, as the provers can use it: a set of numbers has a least one.
LEMMA LeastNumber ==
  ASSUME NEW S, S \subseteq Nat, S # {}
  PROVE  \E k \in S : \A j \in Nat : j < k => j \notin S
<1>1. PICK k \in S : \A j \in S : ~ (<<j, k>> \in OpToRel(<, Nat))
  BY NatLessThanWellFounded, WFMin
<1>2. \A j \in S : ~ (j < k)
  BY <1>1 DEF OpToRel
<1>3. QED
  BY <1>2

Pick(s) == CHOOSE x \in s : TRUE

SumOver(g, S) == MapThenSumSet(LAMBDA x : g[x], S)

\* f gives the sum over each set of the family D.
Sums(f, g, D) ==
  f = [s \in D |-> IF s = {} THEN 0 ELSE g[Pick(s)] + f[s \ {Pick(s)}]]

Small(S, n) == {s \in SUBSET S : Cardinality(s) <= n}

Agree(g, h, S) == \A x \in S : g[x] = h[x]

IntOn(g, S) == \A x \in S : g[x] \in Int

LEMMA SumUnfolds ==
  ASSUME NEW g, NEW S
  PROVE  SumOver(g, S) = (CHOOSE f : Sums(f, g, SUBSET S))[S]
BY DEF SumOver, Sums, MapThenSumSet, MapThenFoldSet, Pick

LEMMA PickSmaller ==
  ASSUME NEW S, IsFiniteSet(S), S # {}
  PROVE  /\ Pick(S) \in S
         /\ IsFiniteSet(S \ {Pick(S)})
         /\ Cardinality(S) \in Nat \ {0}
         /\ Cardinality(S \ {Pick(S)}) = Cardinality(S) - 1
<1>1. Pick(S) \in S
  BY DEF Pick
<1>2. QED
  BY <1>1, FS_RemoveElement, FS_CardinalityType, FS_EmptySet

\* On the subsets of at most n elements, for every n.
LEMMA SmallSumsExist ==
  ASSUME NEW g, NEW S, IsFiniteSet(S), NEW m \in Nat
  PROVE  \E f : Sums(f, g, Small(S, m))
<1> DEFINE Bad == {n \in Nat : ~ \E f : Sums(f, g, Small(S, n))}
<1>1. ASSUME NEW n \in Nat, NEW f, Sums(f, g, Small(S, n))
      PROVE  \E h : Sums(h, g, Small(S, n + 1))
  <2> DEFINE D == Small(S, n)
             E == Small(S, n + 1)
             h == [s \in E |-> IF s = {} THEN 0 ELSE g[Pick(s)] + f[s \ {Pick(s)}]]
  <2>1. D \subseteq E
    BY FS_Subset, FS_CardinalityType DEF Small
  <2>2. ASSUME NEW s \in E, s # {} PROVE s \ {Pick(s)} \in D
    <3>1. s \in SUBSET S /\ IsFiniteSet(s) /\ Cardinality(s) <= n + 1
      BY FS_Subset DEF Small
    <3>2. Cardinality(s) \in Nat /\ Cardinality(s \ {Pick(s)}) = Cardinality(s) - 1
      BY <2>2, <3>1, PickSmaller
    <3>3. s \ {Pick(s)} \in SUBSET S /\ Cardinality(s \ {Pick(s)}) <= n
      BY <3>1, <3>2
    <3>4. QED
      BY <3>3 DEF Small
  <2> HIDE DEF D, E
  <2>3. \A s \in D : f[s] = IF s = {} THEN 0 ELSE g[Pick(s)] + f[s \ {Pick(s)}]
    BY <1>1 DEF D, Sums
  <2>4. \A s \in D : h[s] = f[s]
    BY <2>1, <2>3
  <2>5. h = [s \in E |-> IF s = {} THEN 0 ELSE g[Pick(s)] + h[s \ {Pick(s)}]]
    BY <2>2, <2>4
  <2> HIDE DEF h
  <2>6. QED
    BY <2>5 DEF E, Sums
<1>2. \E f : Sums(f, g, Small(S, 0))
  <2> DEFINE h == [s \in Small(S, 0) |-> 0]
  <2>1. \A s \in Small(S, 0) : s = {}
    <3> SUFFICES ASSUME NEW s \in Small(S, 0) PROVE s = {}
      OBVIOUS
    <3>1. IsFiniteSet(s) /\ Cardinality(s) <= 0
      BY FS_Subset DEF Small
    <3>2. QED
      BY <3>1, FS_EmptySet, FS_CardinalityType
  <2>2. h = [s \in Small(S, 0) |-> IF s = {} THEN 0 ELSE g[Pick(s)] + h[s \ {Pick(s)}]]
    BY <2>1
  <2> HIDE DEF h
  <2>3. QED
    BY <2>2 DEF Sums
<1>3. ASSUME NEW k \in Nat, \A j \in Nat : j < k => j \notin Bad
      PROVE  k \notin Bad
  <2>1. CASE k = 0
    BY <1>2, <2>1
  <2>2. CASE k # 0
    <3>1. k - 1 \in Nat /\ k - 1 \notin Bad /\ (k - 1) + 1 = k
      BY <1>3, <2>2
    <3>2. PICK f : Sums(f, g, Small(S, k - 1))
      BY <3>1
    <3>3. \E h : Sums(h, g, Small(S, (k - 1) + 1))
      BY <1>1, <3>1, <3>2
    <3>4. QED
      BY <3>1, <3>3
  <2>3. QED
    BY <2>1, <2>2
<1> HIDE DEF Bad
<1>4. Bad = {}
  BY <1>3, LeastNumber DEF Bad
<1>5. QED
  BY <1>4 DEF Bad

LEMMA SumsExist ==
  ASSUME NEW g, NEW S, IsFiniteSet(S)
  PROVE  \E f : Sums(f, g, SUBSET S)
<1>1. Cardinality(S) \in Nat /\ Small(S, Cardinality(S)) = SUBSET S
  BY FS_Subset, FS_CardinalityType DEF Small
<1>2. \E f : Sums(f, g, Small(S, Cardinality(S)))
  BY <1>1, SmallSumsExist
<1>3. QED
  BY <1>1, <1>2

\* The sum over a set is the same on whatever family of sets it is computed, and
\* depends on the values of the elements only.
LEMMA SumIs ==
  ASSUME NEW f, NEW g, NEW S, Sums(f, g, SUBSET S), NEW U \in SUBSET S, IsFiniteSet(U),
         NEW h, Agree(g, h, U)
  PROVE  f[U] = SumOver(h, U)
<1>0. PICK e : e = (CHOOSE k : Sums(k, h, SUBSET U))
  OBVIOUS
<1>a. Sums(e, h, SUBSET U) /\ SumOver(h, U) = e[U]
  BY <1>0, SumUnfolds, SumsExist
<1> DEFINE Bad == {n \in Nat : \E s \in SUBSET U : Cardinality(s) = n /\ f[s] # e[s]}
<1>1. \A s \in SUBSET U :
        /\ f[s] = IF s = {} THEN 0 ELSE g[Pick(s)] + f[s \ {Pick(s)}]
        /\ e[s] = IF s = {} THEN 0 ELSE h[Pick(s)] + e[s \ {Pick(s)}]
  BY <1>a DEF Sums
<1>2. ASSUME NEW k \in Bad, \A j \in Nat : j < k => j \notin Bad
      PROVE  FALSE
  <2>1. PICK s \in SUBSET U : Cardinality(s) = k /\ f[s] # e[s]
    BY <1>2
  <2>2. IsFiniteSet(s)
    BY FS_Subset
  <2>3. s # {}
    BY <1>1, <2>1
  <2>4. /\ Pick(s) \in s /\ Cardinality(s \ {Pick(s)}) = Cardinality(s) - 1
        /\ Cardinality(s) \in Nat \ {0}
    BY <2>2, <2>3, PickSmaller
  <2>5. f[s \ {Pick(s)}] = e[s \ {Pick(s)}]
    <3>1. k - 1 \in Nat /\ k - 1 < k /\ Cardinality(s \ {Pick(s)}) = k - 1
      BY <2>1, <2>4
    <3>2. k - 1 \notin Bad
      BY <1>2, <3>1
    <3>3. QED
      BY <3>1, <3>2
  <2>6. QED
    BY <1>1, <2>1, <2>3, <2>4, <2>5 DEF Agree
<1>3. Bad = {}
  <2> HIDE DEF Bad
  <2>1. Bad \subseteq Nat
    BY DEF Bad
  <2>2. QED
    BY <1>2, <2>1, LeastNumber
<1>4. f[U] = e[U]
  BY <1>3, FS_CardinalityType
<1>5. QED
  BY <1>4, <1>a

LEMMA SumSame ==
  ASSUME NEW g, NEW h, NEW S, IsFiniteSet(S), Agree(g, h, S)
  PROVE  SumOver(g, S) = SumOver(h, S)
<1>1. PICK f : Sums(f, g, SUBSET S)
  BY SumsExist
<1>2. Agree(g, g, S)
  BY DEF Agree
<1>3. f[S] = SumOver(g, S) /\ f[S] = SumOver(h, S)
  BY <1>1, <1>2, SumIs
<1>4. QED
  BY <1>3

LEMMA SumEmpty ==
  ASSUME NEW g
  PROVE  SumOver(g, {}) = 0
<1>1. PICK f : Sums(f, g, SUBSET {})
  BY SumsExist, FS_EmptySet
<1>2. f[{}] = 0 /\ Agree(g, g, {})
  BY <1>1 DEF Sums, Agree
<1>3. f[{}] = SumOver(g, {})
  BY <1>1, <1>2, SumIs, FS_EmptySet
<1>4. QED
  BY <1>2, <1>3

LEMMA SumPick ==
  ASSUME NEW g, NEW S, IsFiniteSet(S), S # {}
  PROVE  SumOver(g, S) = g[Pick(S)] + SumOver(g, S \ {Pick(S)})
<1> DEFINE T == S \ {Pick(S)}
<1>1. PICK f : Sums(f, g, SUBSET S)
  BY SumsExist
<1>2. f[S] = g[Pick(S)] + f[T]
  BY <1>1 DEF Sums
<1>3. IsFiniteSet(T) /\ T \in SUBSET S /\ S \in SUBSET S /\ Agree(g, g, S) /\ Agree(g, g, T)
  BY PickSmaller DEF Agree
<1> HIDE DEF T
<1>4. f[S] = SumOver(g, S) /\ f[T] = SumOver(g, T)
  BY <1>1, <1>3, SumIs
<1>5. QED
  BY <1>2, <1>4 DEF T

\* Sums of integers are integers, and any element may be taken first.
LEMMA SumStep ==
  ASSUME NEW S, IsFiniteSet(S), NEW g, IntOn(g, S)
  PROVE  /\ SumOver(g, S) \in Int
         /\ \A x \in S : SumOver(g, S) = g[x] + SumOver(g, S \ {x})
<1> DEFINE Holds(s) == /\ SumOver(g, s) \in Int
                       /\ \A x \in s : SumOver(g, s) = g[x] + SumOver(g, s \ {x})
           Bad == {n \in Nat : \E s \in SUBSET S : Cardinality(s) = n /\ ~ Holds(s)}
<1>1. ASSUME NEW k \in Bad, \A j \in Nat : j < k => j \notin Bad
      PROVE  FALSE
  <2>1. PICK s \in SUBSET S : Cardinality(s) = k /\ ~ Holds(s)
    BY <1>1
  <2>2. IsFiniteSet(s)
    BY FS_Subset
  <2>3. s # {}
    <3>1. Holds({})
      BY SumEmpty
    <3> HIDE DEF Holds
    <3>2. QED
      BY <2>1, <3>1
  <2> DEFINE p == Pick(s)
             t == s \ {p}
  <2>4. p \in s /\ IsFiniteSet(t) /\ Cardinality(t) = k - 1 /\ k \in Nat /\ k - 1 \in Nat
    <3>1. /\ p \in s /\ IsFiniteSet(t) /\ Cardinality(s) \in Nat \ {0}
          /\ Cardinality(t) = Cardinality(s) - 1
      BY <2>2, <2>3, PickSmaller
    <3>2. QED
      BY <2>1, <3>1
  <2>5. SumOver(g, s) = g[p] + SumOver(g, t)
    BY <2>2, <2>3, SumPick
  <2> HIDE DEF p, Holds
  <2>6. \A u \in SUBSET S : Cardinality(u) = k - 1 => Holds(u)
    BY <1>1, <2>4
  <2>7. Holds(t)
    BY <2>4, <2>6
  <2>8. g[p] \in Int /\ SumOver(g, t) \in Int
    BY <2>4, <2>7 DEF Holds, IntOn
  <2>9. ASSUME NEW x \in s, x # p
        PROVE  SumOver(g, s) = g[x] + SumOver(g, s \ {x})
    <3>1. SumOver(g, t) = g[x] + SumOver(g, t \ {x})
      BY <2>7, <2>9 DEF Holds
    <3>2. Cardinality(s \ {x}) = k - 1
      BY <2>1, <2>2, FS_RemoveElement
    <3>3. Holds(s \ {x})
      BY <2>6, <3>2
    <3>4. p \in s \ {x} /\ (s \ {x}) \ {p} = t \ {x}
      BY <2>4, <2>9
    <3>5. SumOver(g, s \ {x}) = g[p] + SumOver(g, t \ {x}) /\ SumOver(g, s \ {x}) \in Int
      BY <3>3, <3>4 DEF Holds
    <3>6. g[x] \in Int
      BY DEF IntOn
    <3>7. /\ IsFiniteSet(t \ {x}) /\ Cardinality(t \ {x}) = (k - 1) - 1
          /\ Cardinality(t \ {x}) \in Nat
      BY <2>4, <2>9, FS_RemoveElement, FS_CardinalityType
    <3>8. SumOver(g, t \ {x}) \in Int
      <4>1. (k - 1) - 1 < k /\ (k - 1) - 1 \notin Bad
        BY <1>1, <2>4, <3>7
      <4>2. QED
        BY <3>7, <4>1 DEF Holds
    <3>9. QED
      BY <2>5, <2>8, <3>1, <3>5, <3>6, <3>8
  <2>10. SumOver(g, s) \in Int /\ (SumOver(g, s) = g[p] + SumOver(g, s \ {p}))
    BY <2>5, <2>8
  <2>11. QED
    BY <2>1, <2>9, <2>10 DEF Holds
<1>2. Bad = {}
  <2> HIDE DEF Bad
  <2>1. Bad \subseteq Nat
    BY DEF Bad
  <2>2. QED
    BY <1>1, <2>1, LeastNumber
<1>3. Holds(S)
  <2> HIDE DEF Holds
  <2>1. QED
    BY <1>2, FS_CardinalityType
<1>4. QED
  BY <1>3

\* Of the subsets of a finite set that have a property, some has it while no set
\* with one element less does.
LEMMA LeastSubset ==
  ASSUME NEW S, IsFiniteSet(S), NEW F, F \subseteq SUBSET S, F # {}
  PROVE  \E s \in F : IsFiniteSet(s) /\ \A x \in s : s \ {x} \notin F
<1> DEFINE Sizes == {n \in Nat : \E s \in F : Cardinality(s) = n}
<1>1. Sizes # {} /\ Sizes \subseteq Nat
  BY FS_Subset, FS_CardinalityType
<1>2. PICK k \in Sizes : \A j \in Nat : j < k => j \notin Sizes
  <2> HIDE DEF Sizes
  <2>1. QED
    BY <1>1, LeastNumber
<1>3. PICK s \in F : Cardinality(s) = k
  BY <1>2
<1>4. IsFiniteSet(s)
  BY FS_Subset
<1>5. ASSUME NEW x \in s PROVE s \ {x} \notin F
  <2>1. Cardinality(s \ {x}) = k - 1 /\ k \in Nat /\ k # 0
    BY <1>3, <1>4, FS_RemoveElement, FS_CardinalityType, FS_EmptySet
  <2>2. k - 1 \in Nat /\ k - 1 < k
    BY <2>1
  <2>3. QED
    BY <1>2, <2>1, <2>2
<1>6. QED
  BY <1>4, <1>5

LEMMA SumLeq ==
  ASSUME NEW S, IsFiniteSet(S), NEW g, NEW h,
         IntOn(g, S), IntOn(h, S), \A x \in S : g[x] <= h[x]
  PROVE  SumOver(g, S) <= SumOver(h, S)
<1> DEFINE F == {s \in SUBSET S : ~ (SumOver(g, s) <= SumOver(h, s))}
<1>1. ASSUME NEW s \in F, IsFiniteSet(s), \A x \in s : s \ {x} \notin F
      PROVE  FALSE
  <2>1. s # {}
    BY SumEmpty
  <2>2. PICK x \in s : TRUE
    BY <2>1
  <2>3. SumOver(g, s \ {x}) <= SumOver(h, s \ {x})
    BY <1>1
  <2> DEFINE rest == s \ {x}
  <2>4. /\ IntOn(g, s) /\ IntOn(h, s) /\ IntOn(g, rest) /\ IntOn(h, rest)
        /\ g[x] \in Int /\ h[x] \in Int /\ g[x] <= h[x] /\ IsFiniteSet(rest)
    BY <1>1, FS_Subset DEF IntOn
  <2>5. SumOver(g, s) = g[x] + SumOver(g, rest) /\ SumOver(h, s) = h[x] + SumOver(h, rest)
    BY <1>1, <2>4, SumStep
  <2> HIDE DEF rest
  <2>6. SumOver(g, rest) \in Int /\ SumOver(h, rest) \in Int
    BY <2>4, SumStep
  <2>7. QED
    BY <1>1, <2>3, <2>4, <2>5, <2>6 DEF rest
<1>2. F = {}
  <2> HIDE DEF F
  <2>1. F \subseteq SUBSET S
    BY DEF F
  <2>2. QED
    BY <1>1, <2>1, LeastSubset
<1>3. QED
  BY <1>2

LEMMA SumZero ==
  ASSUME NEW S, IsFiniteSet(S), NEW g, \A x \in S : g[x] = 0
  PROVE  SumOver(g, S) = 0
<1> DEFINE F == {s \in SUBSET S : SumOver(g, s) # 0}
<1>1. ASSUME NEW s \in F, IsFiniteSet(s), \A x \in s : s \ {x} \notin F
      PROVE  FALSE
  <2>1. s # {}
    BY SumEmpty
  <2>2. PICK x \in s : TRUE
    BY <2>1
  <2>3. SumOver(g, s \ {x}) = 0
    BY <1>1
  <2>4. IntOn(g, s) /\ g[x] = 0
    BY <1>1 DEF IntOn
  <2>5. SumOver(g, s) = g[x] + SumOver(g, s \ {x})
    BY <1>1, <2>4, SumStep
  <2>6. QED
    BY <1>1, <2>3, <2>4, <2>5
<1>2. F = {}
  <2> HIDE DEF F
  <2>1. F \subseteq SUBSET S
    BY DEF F
  <2>2. QED
    BY <1>1, <2>1, LeastSubset
<1>3. QED
  BY <1>2

\* Only one element has another value than before, or is new.
LEMMA SumBump ==
  ASSUME NEW S, IsFiniteSet(S), NEW x, NEW g, NEW h, NEW d \in Int,
         IntOn(g, S), Agree(g, h, S \ {x}),
         h[x] = (IF x \in S THEN g[x] ELSE 0) + d
  PROVE  SumOver(h, S \union {x}) = SumOver(g, S) + d
<1> DEFINE T == S \union {x}
           R == S \ {x}
<1>1. IsFiniteSet(T) /\ IsFiniteSet(R) /\ T \ {x} = R
  BY FS_AddElement, FS_Subset
<1>2. IntOn(h, T) /\ IntOn(h, R) /\ IntOn(g, R) /\ Agree(h, g, R) /\ x \in T
  BY DEF Agree, IntOn
<1>3. SumOver(h, T) = h[x] + SumOver(h, R)
  BY <1>1, <1>2, SumStep
<1>4. SumOver(h, R) = SumOver(g, R) /\ SumOver(g, R) \in Int
  <2> HIDE DEF R
  <2>1. QED
    BY <1>1, <1>2, SumSame, SumStep
<1>5. CASE x \in S
  <2>1. SumOver(g, S) = g[x] + SumOver(g, R) /\ g[x] \in Int
    BY <1>5, SumStep DEF IntOn
  <2>2. QED
    BY <1>3, <1>4, <1>5, <2>1
<1>6. CASE x \notin S
  <2>1. R = S
    BY <1>6
  <2>2. h[x] = d
    BY <1>6
  <2> HIDE DEF R
  <2>3. QED
    BY <1>3, <1>4, <2>1, <2>2
<1>7. QED
  BY <1>5, <1>6

LEMMA SumMore ==
  ASSUME NEW S, IsFiniteSet(S), NEW x, x \notin S, NEW g, NEW h, NEW d \in Int,
         IntOn(g, S), Agree(g, h, S), h[x] = d
  PROVE  SumOver(h, S \union {x}) = SumOver(g, S) + d
<1>1. Agree(g, h, S \ {x})
  BY DEF Agree
<1>2. h[x] = (IF x \in S THEN g[x] ELSE 0) + d
  OBVIOUS
<1>3. QED
  BY <1>1, <1>2, SumBump

LEMMA SumAdd ==
  ASSUME NEW S, IsFiniteSet(S), NEW g, NEW h, NEW k, IntOn(g, S), IntOn(h, S),
         \A x \in S : k[x] = g[x] + h[x]
  PROVE  SumOver(k, S) = SumOver(g, S) + SumOver(h, S)
<1> DEFINE F == {s \in SUBSET S : SumOver(k, s) # SumOver(g, s) + SumOver(h, s)}
<1>1. ASSUME NEW s \in F, IsFiniteSet(s), \A x \in s : s \ {x} \notin F
      PROVE  FALSE
  <2>1. s # {}
    <3>1. SumOver(k, {}) = 0 /\ SumOver(g, {}) = 0 /\ SumOver(h, {}) = 0
      BY SumEmpty
    <3>2. QED
      BY <3>1
  <2>2. PICK x \in s : TRUE
    BY <2>1
  <2> DEFINE rest == s \ {x}
  <2>3. SumOver(k, rest) = SumOver(g, rest) + SumOver(h, rest)
    BY <1>1
  <2>4. /\ IntOn(g, s) /\ IntOn(h, s) /\ IntOn(g, rest) /\ IntOn(h, rest) /\ IntOn(k, s)
        /\ g[x] \in Int /\ h[x] \in Int /\ k[x] = g[x] + h[x] /\ IsFiniteSet(rest)
    BY <1>1, FS_Subset DEF IntOn
  <2>5. /\ SumOver(g, s) = g[x] + SumOver(g, rest) /\ SumOver(h, s) = h[x] + SumOver(h, rest)
        /\ SumOver(k, s) = k[x] + SumOver(k, rest)
    BY <1>1, <2>4, SumStep
  <2>6. SumOver(k, s) # SumOver(g, s) + SumOver(h, s)
    OBVIOUS
  <2> HIDE DEF rest, F
  <2>7. SumOver(g, rest) \in Int /\ SumOver(h, rest) \in Int
    BY <2>4, SumStep
  <2>8. QED
    BY <2>3, <2>4, <2>5, <2>6, <2>7
<1>2. F = {}
  <2> HIDE DEF F
  <2>1. F \subseteq SUBSET S
    BY DEF F
  <2>2. QED
    BY <1>1, <2>1, LeastSubset
<1>3. QED
  BY <1>2

LEMMA SumMinus ==
  ASSUME NEW S, IsFiniteSet(S), NEW g, NEW h, IntOn(g, S), \A x \in S : h[x] = -g[x]
  PROVE  SumOver(h, S) = -SumOver(g, S)
<1>1. PICK z : z = [x \in S |-> 0]
  OBVIOUS
<1>2. IntOn(h, S) /\ \A x \in S : z[x] = g[x] + h[x]
  BY <1>1 DEF IntOn
<1>3. SumOver(z, S) = SumOver(g, S) + SumOver(h, S)
  BY <1>2, SumAdd
<1>4. SumOver(z, S) = 0
  BY <1>1, SumZero
<1>5. SumOver(g, S) \in Int /\ SumOver(h, S) \in Int
  BY <1>2, SumStep
<1>6. QED
  BY <1>3, <1>4, <1>5

\* What is zero does not count.
LEMMA SumPad ==
  ASSUME NEW S, IsFiniteSet(S), NEW T, T \subseteq S, NEW g, IntOn(g, S),
         \A x \in S \ T : g[x] = 0
  PROVE  SumOver(g, S) = SumOver(g, T)
<1> DEFINE F == {s \in SUBSET S : SumOver(g, s) # SumOver(g, s \intersect T)}
<1>1. ASSUME NEW s \in F, IsFiniteSet(s), \A x \in s : s \ {x} \notin F
      PROVE  FALSE
  <2>1. s # {}
    BY SumEmpty
  <2>2. PICK x \in s : TRUE
    BY <2>1
  <2> DEFINE rest == s \ {x}
             restIn == rest \intersect T
             sIn == s \intersect T
  <2>3. SumOver(g, rest) = SumOver(g, restIn)
    BY <1>1
  <2>4. /\ IntOn(g, s) /\ IntOn(g, sIn) /\ IntOn(g, restIn) /\ IsFiniteSet(sIn) /\ g[x] \in Int
        /\ IsFiniteSet(restIn)
    BY <1>1, FS_Subset DEF IntOn
  <2>5. SumOver(g, s) = g[x] + SumOver(g, rest)
    BY <1>1, <2>4, SumStep
  <2>6. SumOver(g, s) # SumOver(g, sIn)
    OBVIOUS
  <2>7. /\ x \in T => x \in sIn /\ restIn = sIn \ {x}
        /\ x \notin T => restIn = sIn /\ g[x] = 0
    OBVIOUS
  <2> HIDE DEF rest, F, restIn, sIn
  <2>8. SumOver(g, restIn) \in Int
    BY <2>4, SumStep
  <2>9. CASE x \in T
    <3>1. SumOver(g, sIn) = g[x] + SumOver(g, restIn)
      BY <2>4, <2>7, <2>9, SumStep
    <3>2. QED
      BY <2>3, <2>5, <2>6, <3>1
  <2>10. CASE x \notin T
    BY <2>3, <2>5, <2>6, <2>7, <2>8, <2>10
  <2>11. QED
    BY <2>9, <2>10
<1>2. F = {}
  <2> HIDE DEF F
  <2>1. F \subseteq SUBSET S
    BY DEF F
  <2>2. QED
    BY <1>1, <2>1, LeastSubset
<1>3. S \intersect T = T
  OBVIOUS
<1>4. QED
  BY <1>2, <1>3

\* Nothing that is counted counts for less than nothing.
LEMMA SumNat ==
  ASSUME NEW S, IsFiniteSet(S), NEW g, IntOn(g, S), \A x \in S : g[x] >= 0
  PROVE  SumOver(g, S) >= 0
<1>1. PICK z : z = [x \in S |-> 0]
  OBVIOUS
<1>2. IntOn(z, S) /\ \A x \in S : z[x] <= g[x]
  BY <1>1 DEF IntOn
<1>3. SumOver(z, S) <= SumOver(g, S)
  BY <1>2, SumLeq
<1>4. SumOver(z, S) = 0
  BY <1>1, SumZero
<1>5. SumOver(g, S) \in Int
  BY SumStep
<1>6. QED
  BY <1>3, <1>4, <1>5

\* Of what counts for one each there is no more than the sum.
LEMMA SumAtMostOne ==
  ASSUME NEW S, IsFiniteSet(S), NEW g, IntOn(g, S), \A x \in S : g[x] >= 1, SumOver(g, S) <= 1
  PROVE  Cardinality(S) <= 1
<1>1. ASSUME NEW x \in S, NEW y \in S, x # y PROVE FALSE
  <2>1. PICK R : R = S \ {x}
    OBVIOUS
  <2>2. PICK T : T = R \ {y}
    OBVIOUS
  <2>3. /\ IsFiniteSet(R) /\ IsFiniteSet(T) /\ IntOn(g, R) /\ IntOn(g, T) /\ y \in R
        /\ \A z \in T : g[z] >= 0
    <3>1. \A z \in T : g[z] \in Int /\ g[z] >= 1
      BY <2>1, <2>2 DEF IntOn
    <3>2. IsFiniteSet(R) /\ IsFiniteSet(T)
      BY <2>1, <2>2, FS_Subset
    <3>3. QED
      BY <1>1, <2>1, <2>2, <3>1, <3>2 DEF IntOn
  <2>4. SumOver(g, S) = g[x] + SumOver(g, R)
    BY <2>1, SumStep
  <2>5. SumOver(g, R) = g[y] + SumOver(g, T)
    BY <2>2, <2>3, SumStep
  <2>6. SumOver(g, T) >= 0 /\ SumOver(g, T) \in Int
    BY <2>3, SumNat, SumStep
  <2>7. g[x] \in Int /\ g[y] \in Int /\ g[x] >= 1 /\ g[y] >= 1
    BY DEF IntOn
  <2>8. QED
    BY <2>4, <2>5, <2>6, <2>7
<1>2. CASE S = {}
  BY <1>2, FS_EmptySet
<1>3. CASE S # {}
  <2>1. PICK x \in S : TRUE
    BY <1>3
  <2>2. S = {x}
    BY <1>1, <2>1
  <2>3. Cardinality({x}) = 1
    BY FS_Singleton
  <2>4. QED
    BY <2>2, <2>3
<1>4. QED
  BY <1>2, <1>3

LEMMA SumOnly ==
  ASSUME NEW S, IsFiniteSet(S), NEW g, IntOn(g, S), NEW x \in S, \A y \in S \ {x} : g[y] = 0
  PROVE  SumOver(g, S) = g[x]
<1>1. SumOver(g, S) = g[x] + SumOver(g, S \ {x})
  BY SumStep
<1>2. IsFiniteSet(S \ {x})
  BY FS_Subset
<1>3. SumOver(g, S \ {x}) = 0
  BY <1>2, SumZero
<1>4. g[x] \in Int
  BY DEF IntOn
<1>5. QED
  BY <1>1, <1>3, <1>4

\* The elements of S may be renamed.
Through(f, h, g, R) ==
  /\ \A i, j \in R : f[i] = f[j] => i = j
  /\ \A i \in R : h[i] = g[f[i]] /\ g[f[i]] \in Int

LEMMA SumMap ==
  ASSUME NEW R, IsFiniteSet(R), NEW f, NEW g, NEW h, Through(f, h, g, R),
         NEW I, I = {f[i] : i \in R}
  PROVE  SumOver(h, R) = SumOver(g, I)
<1>0. /\ \A i, j \in R : f[i] = f[j] => i = j
      /\ \A i \in R : h[i] = g[f[i]] /\ g[f[i]] \in Int
  BY DEF Through
<1> DEFINE Image(s) == {f[i] : i \in s}
           F == {s \in SUBSET R : ~ (/\ IsFiniteSet(Image(s))
                                    /\ SumOver(h, s) = SumOver(g, Image(s)))}
<1>1. ASSUME NEW s \in F, IsFiniteSet(s), \A x \in s : s \ {x} \notin F
      PROVE  FALSE
  <2>0. Image({}) = {}
    OBVIOUS
  <2>1. s # {}
    BY <2>0, SumEmpty, FS_EmptySet
  <2>2. PICK x \in s : TRUE
    BY <2>1
  <2> DEFINE rest == s \ {x}
  <2>3. IsFiniteSet(Image(rest)) /\ SumOver(h, rest) = SumOver(g, Image(rest))
    BY <1>1
  <2>4. Image(rest) = Image(s) \ {f[x]} /\ f[x] \in Image(s)
    BY <1>0
  <2>5. IntOn(h, s) /\ IntOn(g, Image(s)) /\ h[x] = g[f[x]]
    BY <1>0 DEF IntOn
  <2>6. IsFiniteSet(Image(s))
    <3>1. PICK v, y : v = Image(rest) /\ y = f[x]
      OBVIOUS
    <3>2. Image(s) = v \union {y}
      BY <2>4, <3>1
    <3>3. IsFiniteSet(v)
      BY <2>3, <3>1
    <3> HIDE DEF Image
    <3>4. QED
      BY <3>2, <3>3, FS_AddElement
  <2>7. SumOver(h, s) # SumOver(g, Image(s))
    BY <2>6
  <2>8. SumOver(h, s) = h[x] + SumOver(h, rest)
    BY <1>1, <2>5, SumStep
  <2>9. PICK U, V : U = Image(s) /\ V = Image(rest)
    OBVIOUS
  <2> HIDE DEF Image, F, rest
  <2>10. SumOver(g, U) = g[f[x]] + SumOver(g, V)
    BY <2>4, <2>5, <2>6, <2>9, SumStep
  <2>11. QED
    BY <2>3, <2>5, <2>7, <2>8, <2>9, <2>10
<1>2. F = {}
  <2> HIDE DEF F
  <2>1. F \subseteq SUBSET R
    BY DEF F
  <2>2. QED
    BY <1>1, <2>1, LeastSubset
<1>3. QED
  BY <1>2

\* A table may be summed by rows or by columns.
IsTable(t, P, N) == \A p \in P : \A n \in N : t[p][n] \in Int

RowSums(t, P, N) == [p \in P |-> SumOver(t[p], N)]

ColumnSums(t, P, N) == [n \in N |-> SumOver([p \in P |-> t[p][n]], P)]

LEMMA SumSwap ==
  ASSUME NEW P, NEW N, IsFiniteSet(P), IsFiniteSet(N), NEW t, IsTable(t, P, N)
  PROVE  SumOver(RowSums(t, P, N), P) = SumOver(ColumnSums(t, P, N), N)
<1>0. \A p \in P : \A n \in N : t[p][n] \in Int
  BY DEF IsTable
<1> DEFINE Row(s) == SumOver([p \in s |-> SumOver(t[p], N)], s)
           Col(s) == [n \in N |-> SumOver([p \in s |-> t[p][n]], s)]
           F == {s \in SUBSET P : Row(s) # SumOver(Col(s), N)}
<1>1. ASSUME NEW s \in F, IsFiniteSet(s), \A x \in s : s \ {x} \notin F
      PROVE  FALSE
  <2>1. s # {}
    <3>1. Row({}) = 0
      BY SumEmpty
    <3>2. \A n \in N : Col({})[n] = 0
      BY SumEmpty
    <3> HIDE DEF Col
    <3>3. SumOver(Col({}), N) = 0
      BY <3>2, SumZero
    <3>4. QED
      BY <3>1, <3>3
  <2>2. PICK x \in s : TRUE
    BY <2>1
  <2> DEFINE rest == s \ {x}
             row == [p \in s |-> SumOver(t[p], N)]
  <2>3. Row(rest) = SumOver(Col(rest), N)
    BY <1>1
  <2>4. \A p \in s : IntOn(t[p], N) /\ SumOver(t[p], N) \in Int
    BY <1>0, SumStep DEF IntOn
  <2>5. IsFiniteSet(rest) /\ x \in s /\ rest \subseteq s
    BY <1>1, FS_Subset
  <2>6. Row(s) = SumOver(t[x], N) + Row(rest)
    <3>1. IntOn(row, s) /\ row[x] = SumOver(t[x], N)
      BY <2>4 DEF IntOn
    <3>2. Agree(row, [p \in rest |-> SumOver(t[p], N)], rest)
      BY DEF Agree
    <3>3. Row(rest) = SumOver([p \in rest |-> SumOver(t[p], N)], rest)
      OBVIOUS
    <3>4. Row(s) = SumOver(row, s)
      OBVIOUS
    <3>5. PICK a, b : a = row /\ b = [p \in rest |-> SumOver(t[p], N)]
      OBVIOUS
    <3> HIDE DEF row, rest, Row
    <3>6. SumOver(a, s) = a[x] + SumOver(a, s \ {x})
      BY <1>1, <3>1, <3>5, SumStep
    <3>7. SumOver(a, rest) = SumOver(b, rest)
      BY <2>5, <3>2, <3>5, SumSame
    <3>8. s \ {x} = rest
      BY DEF rest
    <3>9. QED
      BY <3>1, <3>3, <3>4, <3>5, <3>6, <3>7, <3>8
  <2>7. \A n \in N : Col(s)[n] = t[x][n] + Col(rest)[n] /\ Col(rest)[n] \in Int
    <3> SUFFICES ASSUME NEW n \in N
                 PROVE  Col(s)[n] = t[x][n] + Col(rest)[n] /\ Col(rest)[n] \in Int
      OBVIOUS
    <3>1. PICK a, b : a = [p \in s |-> t[p][n]] /\ b = [p \in rest |-> t[p][n]]
      OBVIOUS
    <3>2. IntOn(a, s) /\ IntOn(b, rest) /\ a[x] = t[x][n] /\ Agree(a, b, rest)
      BY <1>0, <3>1 DEF IntOn, Agree
    <3>3. Col(s)[n] = SumOver(a, s) /\ Col(rest)[n] = SumOver(b, rest)
      BY <3>1
    <3>4. s \ {x} = rest
      OBVIOUS
    <3> HIDE DEF rest, Col
    <3>5. SumOver(a, s) = a[x] + SumOver(a, rest) /\ SumOver(b, rest) \in Int
      BY <1>1, <2>5, <3>2, <3>4, SumStep
    <3>6. SumOver(a, rest) = SumOver(b, rest)
      BY <2>5, <3>2, SumSame
    <3>7. QED
      BY <3>2, <3>3, <3>5, <3>6
  <2>8. Row(s) # SumOver(Col(s), N)
    OBVIOUS
  <2>9. PICK a, b, c : a = Col(s) /\ b = Col(rest) /\ c = t[x]
    OBVIOUS
  <2>10. IntOn(c, N) /\ IntOn(b, N) /\ \A n \in N : a[n] = c[n] + b[n]
    BY <2>4, <2>7, <2>9 DEF IntOn
  <2> HIDE DEF Row, Col, F, rest
  <2>11. SumOver(a, N) = SumOver(c, N) + SumOver(b, N)
    BY <2>10, SumAdd
  <2>12. QED
    BY <2>3, <2>6, <2>8, <2>9, <2>11
<1>2. F = {}
  <2> HIDE DEF F
  <2>1. F \subseteq SUBSET P
    BY DEF F
  <2>2. QED
    BY <1>1, <2>1, LeastSubset
<1>3. Row(P) = SumOver(Col(P), N)
  BY <1>2
<1>4. QED
  BY <1>3 DEF RowSums, ColumnSums
=============================================================================
