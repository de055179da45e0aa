-------------------------------- MODULE Sums --------------------------------
(***************************************************************************)
(* Sums over finite sets, for the proofs about amounts.  The amounts of a  *)
(* request, an anchor or a wallet are summed with SumFunction, which is    *)
(* defined by recursion; here are the facts about it that do not mention   *)
(* the recursion any more.                                                 *)
(*                                                                         *)
(* Induction over finite sets is used in the form of MinimalSubset: among  *)
(* the subsets of a finite set that violate a claim, one is minimal.       *)
(***************************************************************************)
EXTENDS Integers, FiniteSets, Functions, FiniteSetTheorems,
        WellFoundedInduction, TLAPS

LEMMA MinimalSubset ==
  ASSUME NEW S, IsFiniteSet(S), NEW Bad, Bad \subseteq SUBSET S, Bad # {}
  PROVE  \E T \in Bad : \A U \in Bad : U \subseteq T => U = T
<1>1. IsWellFoundedOn(StrictSubsetOrdering(S), FiniteSubsetsOf(S))
  BY FS_StrictSubsetOrderingWellFounded
<1>2. FiniteSubsetsOf(S) = SUBSET S
  BY FS_FiniteSubsetsOfFinite
<1>3. \E T \in Bad : \A U \in Bad : ~ (<<U, T>> \in StrictSubsetOrdering(S))
  BY <1>1, <1>2, WFMin
<1> QED
  BY <1>3 DEF StrictSubsetOrdering

-----------------------------------------------------------------------------
(* The recursion is well defined *)

\* h sums f over every subset of S, in the order of CHOOSE.
IsSum(h, f, S) ==
  h = [s \in SUBSET S |-> IF s = {} THEN 0
                          ELSE LET x == CHOOSE x \in s : TRUE
                               IN  f[x] + h[s \ {x}]]

Sum(f, S) == (CHOOSE h : IsSum(h, f, S))[S]

LEMMA SumFunctionIsSum ==
  ASSUME NEW f
  PROVE  SumFunction(f) = Sum(f, DOMAIN f)
BY DEF SumFunction, SumFunctionOnSet, FoldFunctionOnSet, MapThenFoldSet,
       Sum, IsSum

LEMMA SumFunctionOnSetIsSum ==
  ASSUME NEW f, NEW S
  PROVE  SumFunctionOnSet(f, S) = Sum(f, S)
BY DEF SumFunctionOnSet, FoldFunctionOnSet, MapThenFoldSet, Sum, IsSum

LEMMA SumsAgree ==
  ASSUME NEW S, NEW T, IsFiniteSet(S), NEW f, NEW h, NEW g,
         IsSum(h, f, S), IsSum(g, f, T)
  PROVE  \A U \in SUBSET (S \cap T) : h[U] = g[U]
<1> DEFINE Bad == {U \in SUBSET (S \cap T) : h[U] # g[U]}
<1> SUFFICES ASSUME Bad # {} PROVE FALSE
  OBVIOUS
<1>0. Bad \subseteq SUBSET S
  OBVIOUS
<1>1. PICK U \in Bad : \A V \in Bad : V \subseteq U => V = U
  <2> HIDE DEF Bad
  <2> QED
    BY <1>0, MinimalSubset
<1>2. U # {}
  BY <1>1 DEF IsSum
<1> DEFINE x == CHOOSE x \in U : TRUE
<1>3. x \in U
  BY <1>2
<1>4. h[U] = f[x] + h[U \ {x}] /\ g[U] = f[x] + g[U \ {x}]
  BY <1>1, <1>2 DEF IsSum
<1>5. h[U \ {x}] = g[U \ {x}]
  BY <1>1, <1>3
<1> QED
  BY <1>1, <1>4, <1>5

LEMMA SumExists ==
  ASSUME NEW S, IsFiniteSet(S), NEW f
  PROVE  IsSum(CHOOSE h : IsSum(h, f, S), f, S)
<1> DEFINE Bad == {T \in SUBSET S : ~ \E h : IsSum(h, f, T)}
<1> SUFFICES ASSUME Bad # {} PROVE FALSE
  <2>1. S \notin Bad => \E h : IsSum(h, f, S)
    OBVIOUS
  <2> QED
    BY <2>1
<1>0. Bad \subseteq SUBSET S
  OBVIOUS
<1>1. PICK T \in Bad : \A V \in Bad : V \subseteq T => V = T
  <2> HIDE DEF Bad
  <2> QED
    BY <1>0, MinimalSubset
<1>2. \A U \in SUBSET T : U # T => IsSum(CHOOSE h : IsSum(h, f, U), f, U)
  BY <1>1
<1> DEFINE c(s) == CHOOSE x \in s : TRUE
           h == [s \in SUBSET T |->
                   IF s = {} THEN 0 ELSE f[c(s)] + Sum(f, s \ {c(s)})]
<1>3. ASSUME NEW U \in SUBSET T, U # T
      PROVE  h[U] = Sum(f, U)
  <2> DEFINE k == CHOOSE k : IsSum(k, f, U)
  <2>1. IsSum(k, f, U) /\ Sum(f, U) = k[U]
    BY <1>2, <1>3 DEF Sum
  <2>2. CASE U = {}
    BY <2>1, <2>2 DEF IsSum
  <2>3. CASE U # {}
    <3> DEFINE V == U \ {c(U)}
               l == CHOOSE l : IsSum(l, f, V)
    <3>1. c(U) \in U /\ V \in SUBSET T /\ V # T /\ V \in SUBSET U
      BY <2>3
    <3>2. IsSum(l, f, V) /\ Sum(f, V) = l[V]
      BY <1>2, <3>1 DEF Sum
    <3>3. IsFiniteSet(U)
      BY FS_Subset
    <3>4. k[V] = l[V]
      BY <2>1, <3>1, <3>2, <3>3, SumsAgree
    <3>5. k[U] = f[c(U)] + k[V]
      BY <2>1, <2>3 DEF IsSum
    <3> QED
      BY <2>1, <2>3, <3>2, <3>4, <3>5
  <2> QED
    BY <2>2, <2>3
<1>4. ASSUME NEW s \in SUBSET T, s # {}
      PROVE  s \ {c(s)} \in SUBSET T /\ s \ {c(s)} # T
  BY <1>4
<1>5. IsSum(h, f, T)
  <2>1. ASSUME NEW s \in SUBSET T
        PROVE  h[s] = IF s = {} THEN 0 ELSE f[c(s)] + h[s \ {c(s)}]
    <3>1. CASE s = {}
      BY <3>1
    <3>2. CASE s # {}
      <4>1. s \ {c(s)} \in SUBSET T /\ s \ {c(s)} # T
        BY <1>4, <3>2
      <4>2. h[s \ {c(s)}] = Sum(f, s \ {c(s)})
        BY <1>3, <4>1
      <4>3. h[s] = f[c(s)] + Sum(f, s \ {c(s)})
        BY <3>2
      <4> QED
        BY <3>2, <4>2, <4>3
    <3> QED
      BY <3>1, <3>2
  <2> HIDE DEF h
  <2>2. h = [s \in SUBSET T |-> h[s]]
    BY DEF h
  <2> QED
    BY <2>1, <2>2 DEF IsSum
<1> QED
  BY <1>1, <1>5

LEMMA SumRecursion ==
  ASSUME NEW S, IsFiniteSet(S), S # {}, NEW f
  PROVE  LET x == CHOOSE x \in S : TRUE
         IN  Sum(f, S) = f[x] + Sum(f, S \ {x})
<1> DEFINE x == CHOOSE x \in S : TRUE
           h == CHOOSE h : IsSum(h, f, S)
           g == CHOOSE g : IsSum(g, f, S \ {x})
<1>1. IsFiniteSet(S \ {x})
  BY FS_RemoveElement
<1>2. IsSum(h, f, S) /\ IsSum(g, f, S \ {x})
  BY <1>1, SumExists
<1>3. h[S \ {x}] = g[S \ {x}]
  BY <1>2, SumsAgree
<1>4. h[S] = f[x] + h[S \ {x}]
  BY <1>2 DEF IsSum
<1> QED
  BY <1>3, <1>4 DEF Sum

-----------------------------------------------------------------------------
(* The facts the other modules use *)

LEMMA SumEmpty ==
  ASSUME NEW f
  PROVE  Sum(f, {}) = 0
<1> DEFINE h == CHOOSE h : IsSum(h, f, {})
<1>1. IsSum(h, f, {})
  BY SumExists, FS_EmptySet
<1> QED
  BY <1>1 DEF Sum, IsSum

LEMMA SumInt ==
  ASSUME NEW S, IsFiniteSet(S), NEW f, \A x \in S : f[x] \in Int
  PROVE  Sum(f, S) \in Int
<1> DEFINE Bad == {T \in SUBSET S : Sum(f, T) \notin Int}
<1> SUFFICES ASSUME Bad # {} PROVE FALSE
  OBVIOUS
<1>1. PICK T \in Bad : \A U \in Bad : U \subseteq T => U = T
  <2>1. Bad \subseteq SUBSET S
    OBVIOUS
  <2> HIDE DEF Bad
  <2> QED
    BY <2>1, MinimalSubset
<1>2. T # {} /\ IsFiniteSet(T)
  <2>1. Sum(f, T) \notin Int /\ IsFiniteSet(T)
    BY <1>1, FS_Subset
  <2>2. Sum(f, {}) = 0
    BY SumEmpty
  <2> QED
    BY <2>1, <2>2
<1> DEFINE x == CHOOSE x \in T : TRUE
<1>3. x \in T /\ Sum(f, T) = f[x] + Sum(f, T \ {x})
  BY <1>2, SumRecursion
<1>4. Sum(f, T \ {x}) \in Int
  BY <1>1, <1>3
<1> QED
  BY <1>3, <1>4

\* Any element may be taken out first.
LEMMA SumRemove ==
  ASSUME NEW S, IsFiniteSet(S), NEW f, \A x \in S : f[x] \in Int,
         NEW x \in S
  PROVE  Sum(f, S) = f[x] + Sum(f, S \ {x})
<1> DEFINE Bad == {T \in SUBSET S :
                     \E y \in T : Sum(f, T) # f[y] + Sum(f, T \ {y})}
<1> SUFFICES ASSUME Bad # {} PROVE FALSE
  OBVIOUS
<1>1. PICK T \in Bad : \A U \in Bad : U \subseteq T => U = T
  <2>1. Bad \subseteq SUBSET S
    OBVIOUS
  <2> HIDE DEF Bad
  <2> QED
    BY <2>1, MinimalSubset
<1>2. PICK y \in T : Sum(f, T) # f[y] + Sum(f, T \ {y})
  BY <1>1
<1> DEFINE c == CHOOSE c \in T : TRUE
<1>3. IsFiniteSet(T)
  BY FS_Subset
<1>4. c \in T /\ Sum(f, T) = f[c] + Sum(f, T \ {c})
  BY <1>2, <1>3, SumRecursion
<1>5. c # y
  BY <1>2, <1>4
<1>6. Sum(f, T \ {c}) = f[y] + Sum(f, (T \ {c}) \ {y})
  BY <1>1, <1>4, <1>5
<1>7. Sum(f, T \ {y}) = f[c] + Sum(f, (T \ {y}) \ {c})
  BY <1>1, <1>4, <1>5
<1> DEFINE R == (T \ {c}) \ {y}
<1>8. R = (T \ {y}) \ {c} /\ Sum(f, R) \in Int
  <2>1. R \in SUBSET S
    OBVIOUS
  <2> QED
    BY <2>1, FS_Subset, SumInt
<1>9. f[c] \in Int /\ f[y] \in Int
  BY <1>4
<1> HIDE DEF R, c
<1> QED
  BY <1>2, <1>4, <1>6, <1>7, <1>8, <1>9 DEF R

LEMMA SumAdd ==
  ASSUME NEW S, IsFiniteSet(S), NEW x, x \notin S, NEW f,
         \A y \in S \cup {x} : f[y] \in Int
  PROVE  Sum(f, S \cup {x}) = f[x] + Sum(f, S)
<1>1. IsFiniteSet(S \cup {x})
  BY FS_AddElement
<1>2. (S \cup {x}) \ {x} = S
  OBVIOUS
<1> QED
  BY <1>1, <1>2, SumRemove

\* Only the values on the set count.
LEMMA SumCongruence ==
  ASSUME NEW S, IsFiniteSet(S), NEW f, NEW g, \A x \in S : f[x] = g[x]
  PROVE  Sum(f, S) = Sum(g, S)
<1> DEFINE Bad == {T \in SUBSET S : Sum(f, T) # Sum(g, T)}
<1> SUFFICES ASSUME Bad # {} PROVE FALSE
  OBVIOUS
<1>1. PICK T \in Bad : \A U \in Bad : U \subseteq T => U = T
  <2>1. Bad \subseteq SUBSET S
    OBVIOUS
  <2> HIDE DEF Bad
  <2> QED
    BY <2>1, MinimalSubset
<1>2. T # {} /\ IsFiniteSet(T)
  BY SumEmpty, FS_Subset
<1> DEFINE x == CHOOSE x \in T : TRUE
<1>3. /\ x \in T
      /\ Sum(f, T) = f[x] + Sum(f, T \ {x})
      /\ Sum(g, T) = g[x] + Sum(g, T \ {x})
  BY <1>2, SumRecursion
<1>4. Sum(f, T \ {x}) = Sum(g, T \ {x})
  BY <1>1, <1>3
<1> QED
  BY <1>1, <1>3, <1>4

LEMMA SumUnion ==
  ASSUME NEW S, IsFiniteSet(S), NEW R, IsFiniteSet(R), S \cap R = {},
         NEW f, \A x \in S \cup R : f[x] \in Int
  PROVE  Sum(f, S \cup R) = Sum(f, S) + Sum(f, R)
<1> DEFINE Bad == {T \in SUBSET S : Sum(f, T \cup R) # Sum(f, T) + Sum(f, R)}
<1> SUFFICES ASSUME Bad # {} PROVE FALSE
  OBVIOUS
<1>1. PICK T \in Bad : \A U \in Bad : U \subseteq T => U = T
  <2>1. Bad \subseteq SUBSET S
    OBVIOUS
  <2> HIDE DEF Bad
  <2> QED
    BY <2>1, MinimalSubset
<1>2. IsFiniteSet(T) /\ T \subseteq S
  BY FS_Subset
<1>3. Sum(f, R) \in Int
  BY SumInt
<1>4. CASE T = {}
  <2>1. Sum(f, T) = 0 /\ Sum(f, T \cup R) = Sum(f, R)
    <3>1. T \cup R = R
      BY <1>4
    <3> QED
      BY <1>4, <3>1, SumEmpty, Zenon
  <2>2. Sum(f, T \cup R) # Sum(f, T) + Sum(f, R)
    BY <1>1
  <2> QED
    BY <1>3, <2>1, <2>2
<1>5. CASE T # {}
  <2>1. PICK x \in T : TRUE
    BY <1>5
  <2> DEFINE U == T \ {x}
  <2>2. Sum(f, U \cup R) = Sum(f, U) + Sum(f, R)
    BY <1>1, <2>1
  <2>3. T = U \cup {x} /\ T \cup R = (U \cup R) \cup {x}
    BY <2>1
  <2>4. IsFiniteSet(U) /\ IsFiniteSet(U \cup R) /\ x \notin U \cup R
    BY <1>2, <2>1, FS_Subset, FS_Union
  <2>5. /\ Sum(f, T) = f[x] + Sum(f, U)
        /\ Sum(f, T \cup R) = f[x] + Sum(f, U \cup R)
    <3> HIDE DEF U
    <3>1. \A y \in (U \cup R) \cup {x} : f[y] \in Int
      BY <1>2 DEF U
    <3> QED
      BY <2>3, <2>4, <3>1, SumAdd
  <2>6. f[x] \in Int /\ Sum(f, U) \in Int
    BY <1>2, <2>1, <2>4, SumInt
  <2> QED
    BY <1>1, <1>3, <2>2, <2>5, <2>6
<1> QED
  BY <1>4, <1>5

LEMMA SumNat ==
  ASSUME NEW S, IsFiniteSet(S), NEW f, \A x \in S : f[x] \in Nat
  PROVE  Sum(f, S) \in Nat
<1> DEFINE Bad == {T \in SUBSET S : Sum(f, T) \notin Nat}
<1> SUFFICES ASSUME Bad # {} PROVE FALSE
  OBVIOUS
<1>1. PICK T \in Bad : \A U \in Bad : U \subseteq T => U = T
  <2>1. Bad \subseteq SUBSET S
    OBVIOUS
  <2> HIDE DEF Bad
  <2> QED
    BY <2>1, MinimalSubset
<1>2. T # {} /\ IsFiniteSet(T)
  <2>1. Sum(f, T) \notin Nat /\ IsFiniteSet(T)
    BY <1>1, FS_Subset
  <2>2. Sum(f, {}) = 0
    BY SumEmpty
  <2> QED
    BY <2>1, <2>2
<1> DEFINE x == CHOOSE x \in T : TRUE
<1>3. x \in T /\ Sum(f, T) = f[x] + Sum(f, T \ {x})
  BY <1>2, SumRecursion
<1>4. Sum(f, T \ {x}) \in Nat
  BY <1>1, <1>3
<1> QED
  BY <1>3, <1>4

LEMMA SumSubset ==
  ASSUME NEW S, IsFiniteSet(S), NEW T, T \subseteq S,
         NEW f, \A x \in S : f[x] \in Nat
  PROVE  Sum(f, T) <= Sum(f, S)
<1>1. IsFiniteSet(T) /\ IsFiniteSet(S \ T)
  BY FS_Subset
<1>2. S = T \cup (S \ T)
  OBVIOUS
<1>3. Sum(f, S) = Sum(f, T) + Sum(f, S \ T)
  <2>1. \A x \in T \cup (S \ T) : f[x] \in Int
    OBVIOUS
  <2> QED
    BY <1>1, <1>2, <2>1, SumUnion
<1>4. Sum(f, T) \in Nat /\ Sum(f, S \ T) \in Nat
  BY <1>1, SumNat
<1> QED
  BY <1>3, <1>4

LEMMA SumZero ==
  ASSUME NEW S, IsFiniteSet(S), NEW f, \A x \in S : f[x] = 0
  PROVE  Sum(f, S) = 0
<1> DEFINE Bad == {T \in SUBSET S : Sum(f, T) # 0}
<1> SUFFICES ASSUME Bad # {} PROVE FALSE
  OBVIOUS
<1>1. PICK T \in Bad : \A U \in Bad : U \subseteq T => U = T
  <2>1. Bad \subseteq SUBSET S
    OBVIOUS
  <2> HIDE DEF Bad
  <2> QED
    BY <2>1, MinimalSubset
<1>2. T # {} /\ IsFiniteSet(T)
  <2>1. Sum(f, T) # 0 /\ T \in SUBSET S
    BY <1>1
  <2> QED
    BY <2>1, SumEmpty, FS_Subset
<1> DEFINE x == CHOOSE x \in T : TRUE
<1>3. x \in T /\ Sum(f, T) = f[x] + Sum(f, T \ {x})
  BY <1>2, SumRecursion
<1>4. Sum(f, T \ {x}) = 0
  BY <1>1, <1>3
<1> QED
  BY <1>1, <1>3, <1>4

\* Two sets whose elements correspond, with equal values, have equal sums.
LEMMA SumReindex ==
  ASSUME NEW S, IsFiniteSet(S), NEW R, NEW f, NEW g, NEW p \in [S -> R],
         \A x, y \in S : p[x] = p[y] => x = y,
         \A x \in S : f[x] \in Int /\ g[p[x]] = f[x],
         \A r \in R : \E x \in S : p[x] = r
  PROVE  Sum(g, R) = Sum(f, S)
<1> DEFINE Image(T) == {r \in R : \E x \in T : p[x] = r}
           Bad == {T \in SUBSET S : ~ (IsFiniteSet(Image(T))
                                       /\ Sum(g, Image(T)) = Sum(f, T))}
<1> SUFFICES ASSUME Bad # {} PROVE FALSE
  <2>1. S \notin Bad => Sum(g, Image(S)) = Sum(f, S)
    OBVIOUS
  <2>2. Image(S) = R
    OBVIOUS
  <2> QED
    BY <2>1, <2>2
<1>1. PICK T \in Bad : \A U \in Bad : U \subseteq T => U = T
  <2>1. Bad \subseteq SUBSET S
    OBVIOUS
  <2> HIDE DEF Bad
  <2> QED
    BY <2>1, MinimalSubset
<1>2. IsFiniteSet(T) /\ T \subseteq S
  BY FS_Subset
<1>3. CASE T = {}
  <2>1. Image(T) = {}
    BY <1>3
  <2>2. Sum(g, {}) = 0 /\ Sum(f, {}) = 0
    BY SumEmpty
  <2> QED
    BY <1>1, <1>3, <2>1, <2>2, FS_EmptySet
<1>4. CASE T # {}
  <2>1. PICK x \in T : TRUE
    BY <1>4
  <2> DEFINE U == T \ {x}
  <2>2. IsFiniteSet(Image(U)) /\ Sum(g, Image(U)) = Sum(f, U)
    <3>1. U \subseteq T /\ U # T /\ U \in SUBSET S
      BY <1>2, <2>1
    <3>2. U \notin Bad
      BY <1>1, <3>1
    <3> HIDE DEF U, Image
    <3> QED
      BY <3>1, <3>2
  <2>3. T = U \cup {x} /\ Image(T) = Image(U) \cup {p[x]}
    BY <1>2, <2>1
  <2>4. IsFiniteSet(U) /\ x \notin U /\ p[x] \notin Image(U)
    BY <1>2, <2>1, FS_Subset
  <2>5. \A r \in Image(U) \cup {p[x]} : g[r] \in Int
    BY <1>2, <2>1
  <2> HIDE DEF U, Image
  <2>6. Sum(g, Image(U) \cup {p[x]}) = g[p[x]] + Sum(g, Image(U))
    BY <2>2, <2>4, <2>5, SumAdd
  <2>7. Sum(f, U \cup {x}) = f[x] + Sum(f, U)
    BY <1>2, <2>3, <2>4, SumAdd
  <2>8. g[p[x]] = f[x]
    BY <1>2, <2>1
  <2>9. IsFiniteSet(Image(U) \cup {p[x]})
    BY <2>2, FS_AddElement
  <2>10. ~ (IsFiniteSet(Image(T)) /\ Sum(g, Image(T)) = Sum(f, T))
    BY <1>1
  <2> HIDE DEF Bad
  <2> QED
    BY <2>2, <2>3, <2>6, <2>7, <2>8, <2>9, <2>10
<1> QED
  BY <1>3, <1>4

\* A sum taken block by block.
LEMMA SumByBlocks ==
  ASSUME NEW S, IsFiniteSet(S), NEW block, NEW f,
         \A k \in S : IsFiniteSet(block[k]),
         \A k \in S : \A x \in block[k] : f[x] \in Int,
         \A k, l \in S : k # l => block[k] \cap block[l] = {}
  PROVE  /\ IsFiniteSet(UNION {block[k] : k \in S})
         /\ Sum(f, UNION {block[k] : k \in S})
              = Sum([k \in S |-> Sum(f, block[k])], S)
<1> DEFINE All(T) == UNION {block[k] : k \in T}
           h == [k \in S |-> Sum(f, block[k])]
           Bad == {T \in SUBSET S : ~ (IsFiniteSet(All(T))
                                       /\ Sum(f, All(T)) = Sum(h, T))}
<1> SUFFICES ASSUME Bad # {} PROVE FALSE
  <2>1. S \notin Bad => IsFiniteSet(All(S)) /\ Sum(f, All(S)) = Sum(h, S)
    OBVIOUS
  <2> QED
    BY <2>1
<1>1. PICK T \in Bad : \A U \in Bad : U \subseteq T => U = T
  <2>1. Bad \subseteq SUBSET S
    OBVIOUS
  <2> HIDE DEF Bad
  <2> QED
    BY <2>1, MinimalSubset
<1>2. IsFiniteSet(T) /\ T \subseteq S
  BY FS_Subset
<1>3. CASE T = {}
  <2>1. All(T) = {}
    BY <1>3
  <2>2. Sum(f, {}) = 0 /\ Sum(h, {}) = 0
    BY SumEmpty
  <2> QED
    BY <1>1, <1>3, <2>1, <2>2, FS_EmptySet
<1>4. CASE T # {}
  <2>1. PICK x \in T : TRUE
    BY <1>4
  <2> DEFINE U == T \ {x}
  <2>2. IsFiniteSet(All(U)) /\ Sum(f, All(U)) = Sum(h, U)
    BY <1>1, <2>1
  <2>3. T = U \cup {x} /\ All(T) = All(U) \cup block[x]
    BY <2>1
  <2>4. IsFiniteSet(U) /\ x \notin U
    BY <1>2, FS_Subset
  <2>5. All(U) \cap block[x] = {}
    BY <1>2, <2>1
  <2>6. \A y \in All(U) \cup block[x] : f[y] \in Int
    BY <1>2, <2>1
  <2>7. IsFiniteSet(block[x])
    BY <1>2, <2>1
  <2>8. \A k \in S : h[k] = Sum(f, block[k]) /\ h[k] \in Int
    BY SumInt
  <2> HIDE DEF U, All, h
  <2>9. Sum(f, All(U) \cup block[x]) = Sum(f, All(U)) + Sum(f, block[x])
    BY <2>2, <2>5, <2>6, <2>7, SumUnion
  <2>10. Sum(h, U \cup {x}) = h[x] + Sum(h, U)
    BY <1>2, <2>3, <2>4, <2>8, SumAdd
  <2>11. IsFiniteSet(All(U) \cup block[x])
    BY <2>2, <2>7, FS_Union
  <2>12. Sum(h, U) \in Int /\ h[x] \in Int /\ h[x] = Sum(f, block[x])
    BY <1>2, <2>3, <2>4, <2>8, SumInt
  <2>13. ~ (IsFiniteSet(All(T)) /\ Sum(f, All(T)) = Sum(h, T))
    BY <1>1
  <2>14. Sum(f, All(U) \cup block[x]) = Sum(h, U \cup {x})
    BY <2>2, <2>9, <2>10, <2>12
  <2>15. IsFiniteSet(All(T)) /\ Sum(f, All(T)) = Sum(h, T)
    BY <2>3, <2>11, <2>14, Zenon
  <2> QED
    BY <2>13, <2>15
<1> QED
  BY <1>3, <1>4

-----------------------------------------------------------------------------
(* Comparing sums *)

LEMMA SumMonotone ==
  ASSUME NEW S, IsFiniteSet(S), NEW f, NEW g,
         \A x \in S : f[x] \in Int /\ g[x] \in Int /\ f[x] <= g[x]
  PROVE  Sum(f, S) <= Sum(g, S)
<1> DEFINE Bad == {T \in SUBSET S : ~ (Sum(f, T) <= Sum(g, T))}
<1> SUFFICES ASSUME Bad # {} PROVE FALSE
  OBVIOUS
<1>1. PICK T \in Bad : \A U \in Bad : U \subseteq T => U = T
  <2>1. Bad \subseteq SUBSET S
    OBVIOUS
  <2> HIDE DEF Bad
  <2> QED
    BY <2>1, MinimalSubset
<1>2. IsFiniteSet(T) /\ T \subseteq S
  BY FS_Subset
<1>3. T # {}
  <2>1. Sum(f, {}) = 0 /\ Sum(g, {}) = 0
    BY SumEmpty
  <2>2. {} \notin Bad
    BY <2>1
  <2> HIDE DEF Bad
  <2> QED
    BY <1>1, <2>2
<1>4. PICK x \in T : TRUE
  BY <1>3
<1> DEFINE U == T \ {x}
<1>5. U \in SUBSET S /\ U \subseteq T /\ U # T /\ IsFiniteSet(U)
  BY <1>2, <1>4, FS_Subset
<1>6. Sum(f, U) <= Sum(g, U)
  <2> HIDE DEF U
  <2> QED
    BY <1>1, <1>5
<1>7. Sum(f, T) = f[x] + Sum(f, U) /\ Sum(g, T) = g[x] + Sum(g, U)
  BY <1>2, <1>4, SumRemove
<1>8. Sum(f, U) \in Int /\ Sum(g, U) \in Int
  BY <1>2, <1>5, SumInt
<1>9. Sum(f, T) <= Sum(g, T)
  <2> HIDE DEF U
  <2> QED
    BY <1>2, <1>4, <1>6, <1>7, <1>8
<1> QED
  BY <1>1, <1>9

\* Where one function is nowhere above another and the sums agree, so do they.
LEMMA SumTight ==
  ASSUME NEW S, IsFiniteSet(S), NEW f, NEW g,
         \A x \in S : f[x] \in Int /\ g[x] \in Int /\ f[x] <= g[x],
         Sum(f, S) = Sum(g, S),
         NEW x \in S
  PROVE  f[x] = g[x]
<1>0. f[x] \in Int /\ g[x] \in Int /\ f[x] <= g[x]
  OBVIOUS
<1> DEFINE U == S \ {x}
<1>1. IsFiniteSet(U) /\ U \subseteq S
  BY FS_Subset
<1>2. Sum(f, S) = f[x] + Sum(f, U) /\ Sum(g, S) = g[x] + Sum(g, U)
  BY SumRemove
<1>3. Sum(f, U) <= Sum(g, U)
  BY <1>1, SumMonotone
<1>4. Sum(f, U) \in Int /\ Sum(g, U) \in Int
  BY <1>1, SumInt
<1>5. Sum(f, S) = Sum(g, S)
  OBVIOUS
<1>6. \A a, b, c, d \in Int : a <= b /\ c <= d /\ a + c = b + d => a = b
  OBVIOUS
<1> HIDE DEF U
<1> QED
  BY ONLY <1>0, <1>2, <1>3, <1>4, <1>5, <1>6

-----------------------------------------------------------------------------
(* The image of a finite set *)

LEMMA FiniteImage ==
  ASSUME NEW S, IsFiniteSet(S), NEW f
  PROVE  IsFiniteSet({f[x] : x \in S})
<1> DEFINE R == {f[x] : x \in S}
           h == [x \in S |-> f[x]]
<1>1. h \in Surjection(S, R)
  BY DEF Surjection
<1> QED
  BY <1>1, FS_Surjection

LEMMA LeastElement ==
  ASSUME NEW S, IsFiniteSet(S), S \subseteq Int, S # {}
  PROVE  \E x \in S : \A y \in S : x <= y
<1> DEFINE UpTo(x) == {y \in S : y <= x}
           Segments == {UpTo(x) : x \in S}
<1>1. Segments \subseteq SUBSET S
  OBVIOUS
<1>2. PICK T \in Segments : \A U \in Segments : U \subseteq T => U = T
  <2>1. Segments # {}
    OBVIOUS
  <2>2. IsFiniteSet(S)
    OBVIOUS
  <2> HIDE DEF Segments
  <2> QED
    BY ONLY <1>1, <2>1, <2>2, MinimalSubset
<1>3. PICK x \in S : T = UpTo(x)
  OBVIOUS
<1>4. ASSUME NEW y \in S, ~ (x <= y)
      PROVE  FALSE
  <2>1. x \in Int /\ y \in Int
    OBVIOUS
  <2>2. UpTo(y) \subseteq UpTo(x) /\ x \in UpTo(x) /\ x \notin UpTo(y)
    <3>1. \A z \in S : z \in Int
      OBVIOUS
    <3>2. \A z \in S : z <= y => z <= x
      BY <1>4, <2>1, <3>1
    <3>3. ~ (x <= y) /\ x <= x
      BY <1>4, <2>1
    <3> QED
      BY <3>2, <3>3
  <2>3. UpTo(y) \in Segments
    OBVIOUS
  <2> HIDE DEF UpTo, Segments
  <2>4. UpTo(y) = T
    BY <1>2, <1>3, <2>2, <2>3
  <2> QED
    BY <1>3, <2>2, <2>4
<1> QED
  BY <1>4
=============================================================================
