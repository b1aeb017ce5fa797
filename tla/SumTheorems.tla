---------------------------- MODULE SumTheorems ----------------------------
(***************************************************************************)
(* Facts about sums over finite sets, as the models write them with         *)
(* MapThenSumSet: a sum may be taken apart at any element, is a number, and  *)
(* grows with its terms.  They hold by induction on the set, stated here for *)
(* a set of sets.                                                            *)
(***************************************************************************)
EXTENDS Integers, FiniteSetsExt, FiniteSetTheorems, WellFoundedInduction, TLAPS

Total(f, S) == MapThenSumSet(LAMBDA t : f[t], S)

First(s) == CHOOSE y \in s : TRUE

(* g is the iteration that MapThenFoldSet defines over the subsets of S. *)
Sums(f, S, g) ==
  g = [s \in SUBSET S |-> IF s = {} THEN 0 ELSE f[First(s)] + g[s \ {First(s)}]]

(* Induction on finite sets: what holds of {} and of a set when it holds of the set
   without any one of its elements holds of every subset.                      *)
LEMMA SubsetInduction ==
  ASSUME NEW S, IsFiniteSet(S), NEW G, {} \in G,
         \A T \in SUBSET S : T # {} /\ (\A x \in T : T \ {x} \in G) => T \in G
  PROVE  \A T \in SUBSET S : T \in G
<1> DEFINE Bad == {T \in SUBSET S : T \notin G}
           F == FiniteSubsetsOf(S)
           R == StrictSubsetOrdering(S)
<1> SUFFICES ASSUME Bad # {} PROVE FALSE
  OBVIOUS
<1>1. Bad \subseteq F /\ IsWellFoundedOn(R, F)
  BY FS_Subset, FS_StrictSubsetOrderingWellFounded DEF FiniteSubsetsOf
<1>2. \E X \in Bad : \A Y \in Bad : ~(<<Y, X>> \in R)
  <2> HIDE DEF Bad, F, R
  <2> QED BY <1>1, WFMin, Zenon
<1>3. PICK X \in Bad : \A Y \in Bad : ~(<<Y, X>> \in R)
  BY <1>2
<1>4. X \in SUBSET S /\ X \notin G /\ X # {}
  OBVIOUS
<1>5. ASSUME NEW x \in X PROVE X \ {x} \in G
  <2>1. <<X \ {x}, X>> \in R
    BY <1>4 DEF StrictSubsetOrdering
  <2> QED BY <1>3, <1>4, <2>1
<1> QED BY <1>4, <1>5

(* Two such iterations agree wherever both are defined. *)
LEMMA SumsAgree ==
  ASSUME NEW S, IsFiniteSet(S), NEW T, S \subseteq T, NEW f, NEW g, NEW h,
         Sums(f, S, g), Sums(f, T, h)
  PROVE  \A s \in SUBSET S : g[s] = h[s]
<1> DEFINE G == {s \in SUBSET S : g[s] = h[s]}
<1>1. /\ \A s \in SUBSET S : g[s] = IF s = {} THEN 0 ELSE f[First(s)] + g[s \ {First(s)}]
      /\ \A s \in SUBSET S : h[s] = IF s = {} THEN 0 ELSE f[First(s)] + h[s \ {First(s)}]
  BY DEF Sums
<1>2. {} \in G
  BY <1>1
<1>3. ASSUME NEW s \in SUBSET S, s # {}, \A x \in s : s \ {x} \in G PROVE s \in G
  <2>1. First(s) \in s
    BY <1>3 DEF First
  <2>2. g[s \ {First(s)}] = h[s \ {First(s)}]
    BY <1>3, <2>1
  <2> QED BY <1>1, <1>3, <2>2
<1> HIDE DEF G
<1>4. \A s \in SUBSET S : s \in G
  BY <1>2, <1>3, SubsetInduction, Zenon
<1> QED BY <1>4 DEF G

Sum(f, S) == CHOOSE g : Sums(f, S, g)

LEMMA SumsExist ==
  ASSUME NEW S, IsFiniteSet(S), NEW f
  PROVE  Sums(f, S, Sum(f, S))
<1> DEFINE G == {T \in SUBSET S : \A s \in SUBSET T : Sums(f, s, Sum(f, s))}
<1>1. {} \in G
  <2> DEFINE g == [s \in SUBSET {} |-> 0]
  <2>1. Sums(f, {}, g)
    BY DEF Sums
  <2> HIDE DEF g
  <2>2. Sums(f, {}, Sum(f, {}))
    BY <2>1 DEF Sum
  <2> QED BY <2>2
<1>2. ASSUME NEW T \in SUBSET S, T # {}, \A x \in T : T \ {x} \in G PROVE T \in G
  <2> DEFINE c == First(T)
             part(s) == Sum(f, s)[s]
             g == [s \in SUBSET T |-> IF s = T THEN f[c] + part(T \ {c}) ELSE part(s)]
  <2>1. ASSUME NEW s \in SUBSET T, s # T PROVE Sums(f, s, Sum(f, s))
    <3>1. PICK x \in T : x \notin s
      BY <2>1
    <3> QED BY <1>2, <3>1
  <2>2. ASSUME NEW s \in SUBSET T, s # T, s # {}
        PROVE  part(s) = f[First(s)] + part(s \ {First(s)})
    <3> DEFINE d == First(s)
    <3>1. d \in s
      BY <2>2 DEF First
    <3>2. Sums(f, s, Sum(f, s)) /\ Sums(f, s \ {d}, Sum(f, s \ {d}))
      BY <2>1, <2>2
    <3>3. IsFiniteSet(s \ {d})
      BY FS_Subset
    <3> HIDE DEF d
    <3>4. \A r \in SUBSET (s \ {d}) : Sum(f, s \ {d})[r] = Sum(f, s)[r]
      BY <3>2, <3>3, SumsAgree
    <3>5. Sum(f, s \ {d})[s \ {d}] = Sum(f, s)[s \ {d}]
      BY <3>4
    <3>6. Sum(f, s)[s] = f[d] + Sum(f, s)[s \ {d}]
      BY <3>2, <2>2 DEF Sums, d
    <3> QED BY <3>5, <3>6 DEF d
  <2>3. part({}) = 0
    <3>1. Sums(f, {}, Sum(f, {}))
      BY <1>2, <2>1
    <3> QED BY <3>1 DEF Sums
  <2>4. c \in T
    BY <1>2 DEF First
  <2> HIDE DEF part
  <2>5. \A s \in SUBSET T : g[s] = IF s = {} THEN 0 ELSE f[First(s)] + g[s \ {First(s)}]
    <3> SUFFICES ASSUME NEW s \in SUBSET T
                 PROVE  g[s] = IF s = {} THEN 0 ELSE f[First(s)] + g[s \ {First(s)}]
      OBVIOUS
    <3>1. CASE s = {}
      BY <1>2, <2>3, <3>1
    <3>2. CASE s = T
      BY <1>2, <2>4, <3>2
    <3>3. CASE s # {} /\ s # T
      <4>1. First(s) \in s /\ s \ {First(s)} # T
        BY <3>3 DEF First
      <4> QED BY <2>2, <3>3, <4>1
    <3> QED BY <3>1, <3>2, <3>3
  <2>6. Sums(f, T, g)
    <3>1. g = [s \in SUBSET T |-> g[s]]
      OBVIOUS
    <3> HIDE DEF g
    <3> QED BY <2>5, <3>1 DEF Sums
  <2> HIDE DEF g
  <2>7. Sums(f, T, Sum(f, T))
    BY <2>6 DEF Sum
  <2>8. \A s \in SUBSET T : Sums(f, s, Sum(f, s))
    BY <2>1, <2>7
  <2> QED BY <2>8
<1> HIDE DEF G
<1>3. \A T \in SUBSET S : T \in G
  BY <1>1, <1>2, SubsetInduction, Zenon
<1> QED BY <1>3 DEF G

LEMMA TotalIsSum ==
  ASSUME NEW f, NEW S
  PROVE  Total(f, S) = Sum(f, S)[S]
BY DEF Total, MapThenSumSet, MapThenFoldSet, Sum, Sums, First

LEMMA TotalOfNone == ASSUME NEW f PROVE Total(f, {}) = 0
<1>1. Sums(f, {}, Sum(f, {}))
  BY SumsExist, FS_EmptySet
<1> QED BY <1>1, TotalIsSum DEF Sums

LEMMA TotalFirst ==
  ASSUME NEW f, NEW S, IsFiniteSet(S), S # {}
  PROVE  Total(f, S) = f[First(S)] + Total(f, S \ {First(S)})
<1> DEFINE d == First(S)
<1>1. d \in S /\ IsFiniteSet(S \ {d})
  BY FS_Subset DEF First
<1>2. Sums(f, S, Sum(f, S)) /\ Sums(f, S \ {d}, Sum(f, S \ {d}))
  BY <1>1, SumsExist
<1> HIDE DEF d
<1>3. \A r \in SUBSET (S \ {d}) : Sum(f, S \ {d})[r] = Sum(f, S)[r]
  BY <1>1, <1>2, SumsAgree
<1>4. Sum(f, S)[S] = f[d] + Sum(f, S)[S \ {d}]
  BY <1>2 DEF Sums, d
<1> QED BY <1>3, <1>4, TotalIsSum DEF d

(* A sum of integers is an integer; of naturals, a natural. *)
LEMMA TotalType ==
  ASSUME NEW S, IsFiniteSet(S), NEW f
  PROVE  /\ (\A t \in S : f[t] \in Int) => Total(f, S) \in Int
         /\ (\A t \in S : f[t] \in Nat) => Total(f, S) \in Nat
<1>1. ASSUME NEW N, N \in {Int, Nat}, \A t \in S : f[t] \in N PROVE Total(f, S) \in N
  <2> DEFINE G == {T \in SUBSET S : Total(f, T) \in N}
  <2>1. {} \in G
    BY <1>1, TotalOfNone
  <2>2. ASSUME NEW T \in SUBSET S, T # {}, \A x \in T : T \ {x} \in G PROVE T \in G
    <3>1. First(T) \in T /\ IsFiniteSet(T)
      BY <2>2, FS_Subset DEF First
    <3>2. Total(f, T) = f[First(T)] + Total(f, T \ {First(T)})
      BY <2>2, <3>1, TotalFirst
    <3>3. f[First(T)] \in N /\ Total(f, T \ {First(T)}) \in N
      BY <1>1, <2>2, <3>1
    <3>4. \A a, b \in N : a + b \in N
      BY <1>1
    <3> QED BY <3>2, <3>3, <3>4
  <2> HIDE DEF G
  <2>3. \A T \in SUBSET S : T \in G
    BY <2>1, <2>2, SubsetInduction, Zenon
  <2> QED BY <2>3 DEF G
<1> QED BY <1>1

(* A sum comes apart at every element. *)
LEMMA TotalRemove ==
  ASSUME NEW S, IsFiniteSet(S), NEW f, \A t \in S : f[t] \in Int, NEW x \in S
  PROVE  Total(f, S) = f[x] + Total(f, S \ {x})
<1> DEFINE G == {T \in SUBSET S : \A y \in T : Total(f, T) = f[y] + Total(f, T \ {y})}
<1>1. {} \in G
  OBVIOUS
<1>2. ASSUME NEW T \in SUBSET S, T # {}, \A z \in T : T \ {z} \in G PROVE T \in G
  <2> SUFFICES ASSUME NEW y \in T PROVE Total(f, T) = f[y] + Total(f, T \ {y})
    OBVIOUS
  <2> DEFINE c == First(T)
  <2>1. c \in T /\ IsFiniteSet(T)
    BY <1>2, FS_Subset DEF First
  <2>2. Total(f, T) = f[c] + Total(f, T \ {c})
    BY <1>2, <2>1, TotalFirst
  <2> HIDE DEF c
  <2>3. CASE y = c
    BY <2>2, <2>3
  <2>4. CASE y # c
    <3>1. Total(f, T \ {c}) = f[y] + Total(f, (T \ {c}) \ {y})
      BY <1>2, <2>1, <2>4
    <3>2. Total(f, T \ {y}) = f[c] + Total(f, (T \ {y}) \ {c})
      BY <1>2, <2>1, <2>4
    <3>3. (T \ {c}) \ {y} = (T \ {y}) \ {c}
      OBVIOUS
    <3>4. f[c] \in Int /\ f[y] \in Int /\ Total(f, (T \ {y}) \ {c}) \in Int
      <4>1. IsFiniteSet((T \ {y}) \ {c})
        BY <2>1, FS_Subset
      <4>2. \A t \in (T \ {y}) \ {c} : f[t] \in Int
        OBVIOUS
      <4>3. Total(f, (T \ {y}) \ {c}) \in Int
        BY <4>1, <4>2, TotalType
      <4> QED BY <2>1, <4>3
    <3> DEFINE r == Total(f, (T \ {y}) \ {c})
    <3>5. Total(f, T) = f[c] + (f[y] + r) /\ Total(f, T \ {y}) = f[c] + r
      BY <2>2, <3>1, <3>2, <3>3
    <3> HIDE DEF r
    <3>6. r \in Int
      BY <3>4 DEF r
    <3> QED BY <3>4, <3>5, <3>6
  <2> QED BY <2>3, <2>4
<1> HIDE DEF G
<1>3. \A T \in SUBSET S : T \in G
  BY <1>1, <1>2, SubsetInduction, Zenon
<1> QED BY <1>3 DEF G

(* Equal terms have equal sums. *)
LEMMA TotalSame ==
  ASSUME NEW S, IsFiniteSet(S), NEW f, NEW g, \A t \in S : f[t] = g[t]
  PROVE  Total(f, S) = Total(g, S)
<1> DEFINE G == {T \in SUBSET S : Total(f, T) = Total(g, T)}
<1>1. {} \in G
  BY TotalOfNone
<1>2. ASSUME NEW T \in SUBSET S, T # {}, \A z \in T : T \ {z} \in G PROVE T \in G
  <2>1. First(T) \in T /\ IsFiniteSet(T)
    BY <1>2, FS_Subset DEF First
  <2>2. /\ Total(f, T) = f[First(T)] + Total(f, T \ {First(T)})
        /\ Total(g, T) = g[First(T)] + Total(g, T \ {First(T)})
    BY <1>2, <2>1, TotalFirst
  <2>3. Total(f, T \ {First(T)}) = Total(g, T \ {First(T)})
    BY <1>2, <2>1
  <2> QED BY <2>1, <2>2, <2>3
<1> HIDE DEF G
<1>3. \A T \in SUBSET S : T \in G
  BY <1>1, <1>2, SubsetInduction, Zenon
<1> QED BY <1>3 DEF G

(* Smaller terms have a smaller sum. *)
LEMMA TotalMonotone ==
  ASSUME NEW S, IsFiniteSet(S), NEW f, NEW g,
         \A t \in S : f[t] \in Int /\ g[t] \in Int /\ f[t] <= g[t]
  PROVE  Total(f, S) <= Total(g, S)
<1> DEFINE G == {T \in SUBSET S : Total(f, T) <= Total(g, T)}
<1>1. {} \in G
  BY TotalOfNone
<1>2. ASSUME NEW T \in SUBSET S, T # {}, \A z \in T : T \ {z} \in G PROVE T \in G
  <2> DEFINE c == First(T)
             R == T \ {c}
  <2>1. c \in T /\ IsFiniteSet(T) /\ IsFiniteSet(R)
    BY <1>2, FS_Subset DEF First
  <2>2. /\ Total(f, T) = f[c] + Total(f, R)
        /\ Total(g, T) = g[c] + Total(g, R)
    BY <1>2, <2>1, TotalFirst
  <2>3. Total(f, R) <= Total(g, R)
    BY <1>2, <2>1
  <2>4. (\A t \in R : f[t] \in Int) /\ (\A t \in R : g[t] \in Int)
    OBVIOUS
  <2>5. Total(f, R) \in Int /\ Total(g, R) \in Int
    BY <2>1, <2>4, TotalType
  <2>6. f[c] \in Int /\ g[c] \in Int /\ f[c] <= g[c]
    BY <2>1
  <2> HIDE DEF c, R
  <2> QED BY <2>2, <2>3, <2>5, <2>6
<1> HIDE DEF G
<1>3. \A T \in SUBSET S : T \in G
  BY <1>1, <1>2, SubsetInduction, Zenon
<1> QED BY <1>3 DEF G

(* When one term changes, the sum changes by as much. *)
LEMMA TotalPoint ==
  ASSUME NEW S, IsFiniteSet(S), NEW f, NEW g, \A t \in S : f[t] \in Int /\ g[t] \in Int,
         NEW x \in S, \A t \in S \ {x} : f[t] = g[t]
  PROVE  Total(g, S) = Total(f, S) - f[x] + g[x]
<1> DEFINE R == S \ {x}
           r == Total(f, R)
<1>1. IsFiniteSet(R) /\ (\A t \in R : f[t] \in Int)
  BY FS_Subset
<1>2. r \in Int
  BY <1>1, TotalType
<1>3. Total(g, R) = r
  BY <1>1, TotalSame
<1>4. Total(f, S) = f[x] + r
  <2>1. \A t \in S : f[t] \in Int
    OBVIOUS
  <2> QED BY <2>1, TotalRemove
<1>5. Total(g, S) = g[x] + r
  <2>1. \A t \in S : g[t] \in Int
    OBVIOUS
  <2>2. Total(g, S) = g[x] + Total(g, R)
    BY <2>1, TotalRemove
  <2> QED BY <1>3, <2>2
<1>6. f[x] \in Int /\ g[x] \in Int
  OBVIOUS
<1> HIDE DEF r, R
<1> QED BY <1>2, <1>4, <1>5, <1>6

(* A sum is that of a part and that of the rest. *)
LEMMA TotalSplit ==
  ASSUME NEW S, IsFiniteSet(S), NEW f, \A t \in S : f[t] \in Int, NEW T \in SUBSET S
  PROVE  Total(f, S) = Total(f, T) + Total(f, S \ T)
<1> DEFINE G == {U \in SUBSET T : Total(f, S) = Total(f, U) + Total(f, S \ U)}
<1>1. IsFiniteSet(T) /\ \A U \in SUBSET S : IsFiniteSet(U) /\ Total(f, U) \in Int
  <2>1. ASSUME NEW U \in SUBSET S PROVE IsFiniteSet(U) /\ Total(f, U) \in Int
    <3>1. IsFiniteSet(U)
      BY FS_Subset
    <3>2. \A t \in U : f[t] \in Int
      OBVIOUS
    <3> QED BY <3>1, <3>2, TotalType
  <2> QED BY <2>1
<1>2. {} \in G
  <2>1. Total(f, {}) = 0 /\ S \ {} = S /\ Total(f, S) \in Int
    BY <1>1, TotalOfNone
  <2> QED BY <2>1
<1>3. ASSUME NEW U \in SUBSET T, U # {}, \A z \in U : U \ {z} \in G PROVE U \in G
  <2>1. PICK x \in U : TRUE
    BY <1>3
  <2> DEFINE V == U \ {x}
             W == S \ V
             a == Total(f, V)
             b == Total(f, S \ U)
  <2>2. Total(f, S) = a + Total(f, W)
    BY <1>3
  <2>3. Total(f, U) = f[x] + a
    <3>1. IsFiniteSet(U) /\ \A t \in U : f[t] \in Int
      BY <1>1
    <3> QED BY <3>1, TotalRemove
  <2>4. Total(f, W) = f[x] + b
    <3>1. IsFiniteSet(W) /\ (\A t \in W : f[t] \in Int) /\ x \in W /\ W \ {x} = S \ U
      BY <1>1
    <3> HIDE DEF W
    <3>2. Total(f, W) = f[x] + Total(f, W \ {x})
      BY <3>1, TotalRemove
    <3> QED BY <3>1, <3>2
  <2>5. a \in Int /\ b \in Int /\ f[x] \in Int
    BY <1>1
  <2> HIDE DEF a, b, V, W
  <2>6. Total(f, S) = Total(f, U) + b
    BY <2>2, <2>3, <2>4, <2>5
  <2> QED BY <2>6 DEF b
<1> HIDE DEF G
<1>4. T \in G
  BY <1>1, <1>2, <1>3, SubsetInduction, Zenon
<1> QED BY <1>4 DEF G

LEMMA TotalSubset ==
  ASSUME NEW S, IsFiniteSet(S), NEW f, \A t \in S : f[t] \in Nat, NEW T \in SUBSET S
  PROVE  Total(f, T) <= Total(f, S) /\ Total(f, T) \in Nat /\ Total(f, S) \in Nat
<1>1. Total(f, S) = Total(f, T) + Total(f, S \ T)
  BY TotalSplit
<1>2. IsFiniteSet(T) /\ IsFiniteSet(S \ T)
  BY FS_Subset
<1>3. Total(f, T) \in Nat
  BY <1>2, TotalType
<1>4. Total(f, S \ T) \in Nat
  BY <1>2, TotalType
<1> QED BY <1>1, <1>3, <1>4

(* An inequality that holds of every term, linear in three families of terms, holds of
   their sums.                                                                 *)
LEMMA TotalLinear ==
  ASSUME NEW S, IsFiniteSet(S), NEW f, NEW g, NEW h,
         \A t \in S : f[t] \in Int /\ g[t] \in Int /\ h[t] \in Int,
         NEW a \in Int, NEW b \in Int, NEW c \in Int, NEW d \in Int,
         \A t \in S : a * g[t] <= b * f[t] + c * h[t] + d
  PROVE  a * Total(g, S) <= b * Total(f, S) + c * Total(h, S) + d * Cardinality(S)
<1> DEFINE G == {U \in SUBSET S : a * Total(g, U) <= b * Total(f, U) + c * Total(h, U)
                                                       + d * Cardinality(U)}
<1>1. {} \in G
  <2>1. Cardinality({}) = 0
    BY FS_EmptySet
  <2>2. a * 0 <= b * 0 + c * 0 + d * 0
    OBVIOUS
  <2> QED BY <2>1, <2>2, TotalOfNone
<1>2. ASSUME NEW U \in SUBSET S, U # {}, \A z \in U : U \ {z} \in G PROVE U \in G
  <2> DEFINE x == First(U)
             V == U \ {x}
             n == Cardinality(V)
             F == Total(f, V)
             H == Total(h, V)
             K == Total(g, V)
  <2>1. x \in U /\ IsFiniteSet(U) /\ IsFiniteSet(V)
    BY <1>2, FS_Subset DEF First
  <2>2. /\ Total(f, U) = f[x] + F /\ Total(g, U) = g[x] + K /\ Total(h, U) = h[x] + H
    BY <1>2, <2>1, TotalFirst
  <2>3. Cardinality(U) = n + 1 /\ n \in Nat
    <3>1. U = V \cup {x} /\ x \notin V
      BY <2>1
    <3> QED BY <2>1, <3>1, FS_AddElement, FS_CardinalityType
  <2>4. a * K <= b * F + c * H + d * n
    BY <1>2, <2>1
  <2>5. f[x] \in Int /\ g[x] \in Int /\ h[x] \in Int /\ a * g[x] <= b * f[x] + c * h[x] + d
    BY <2>1
  <2>6. F \in Int /\ H \in Int /\ K \in Int
    <3>1. /\ \A t \in V : f[t] \in Int
          /\ \A t \in V : g[t] \in Int
          /\ \A t \in V : h[t] \in Int
      OBVIOUS
    <3> HIDE DEF V
    <3> QED BY <2>1, <3>1, TotalType
  <2> HIDE DEF x, V, n, F, H, K
  <2>7. /\ a * (g[x] + K) = a * g[x] + a * K /\ b * (f[x] + F) = b * f[x] + b * F
        /\ c * (h[x] + H) = c * h[x] + c * H /\ d * (n + 1) = d * n + d
    BY <2>3, <2>5, <2>6
  <2>8. /\ a * g[x] \in Int /\ a * K \in Int /\ b * f[x] \in Int /\ b * F \in Int
        /\ c * h[x] \in Int /\ c * H \in Int /\ d * n \in Int
    BY <2>3, <2>5, <2>6
  <2>9. a * (g[x] + K) <= b * (f[x] + F) + c * (h[x] + H) + d * (n + 1)
    BY <2>4, <2>5, <2>7, <2>8
  <2> QED BY <2>2, <2>3, <2>9
<1> HIDE DEF G
<1>3. \A T \in SUBSET S : T \in G
  BY <1>1, <1>2, SubsetInduction, Zenon
<1> QED BY <1>3 DEF G

LEMMA TotalZero ==
  ASSUME NEW S, IsFiniteSet(S), NEW f, \A t \in S : f[t] = 0
  PROVE  Total(f, S) = 0
<1>1. \A t \in S : f[t] \in Int /\ f[t] \in Nat /\ 1 * f[t] <= 0 * f[t] + 0 * f[t] + 0
  OBVIOUS
<1>2. 1 * Total(f, S) <= 0 * Total(f, S) + 0 * Total(f, S) + 0 * Cardinality(S)
  <2>1. 1 \in Int /\ 0 \in Int
    OBVIOUS
  <2> QED BY <1>1, <2>1, TotalLinear
<1>3. Total(f, S) \in Nat /\ Cardinality(S) \in Nat
  BY <1>1, TotalType, FS_CardinalityType
<1> QED BY <1>2, <1>3

LEMMA TotalAdd ==
  ASSUME NEW S, IsFiniteSet(S), NEW f, NEW g, NEW h,
         \A t \in S : f[t] \in Int /\ g[t] \in Int /\ h[t] \in Int /\ g[t] = f[t] + h[t]
  PROVE  Total(g, S) = Total(f, S) + Total(h, S)
<1>1. \A t \in S : f[t] \in Int /\ g[t] \in Int /\ h[t] \in Int
  OBVIOUS
<1>2. \A t \in S : 1 * g[t] <= 1 * f[t] + 1 * h[t] + 0
  OBVIOUS
<1>3. \A t \in S : 1 * f[t] <= 1 * g[t] + (-1) * h[t] + 0
  OBVIOUS
<1>4. 1 \in Int /\ -1 \in Int /\ 0 \in Int
  OBVIOUS
<1>5. 1 * Total(g, S) <= 1 * Total(f, S) + 1 * Total(h, S) + 0 * Cardinality(S)
  BY <1>1, <1>2, <1>4, TotalLinear
<1>6. 1 * Total(f, S) <= 1 * Total(g, S) + (-1) * Total(h, S) + 0 * Cardinality(S)
  BY <1>1, <1>3, <1>4, TotalLinear
<1>7. /\ Total(f, S) \in Int /\ Total(g, S) \in Int /\ Total(h, S) \in Int
      /\ Cardinality(S) \in Nat
  BY <1>1, TotalType, FS_CardinalityType
<1> QED BY <1>5, <1>6, <1>7

(* A sum of which only the terms in T change, from nothing to a bounded value. *)
LEMMA TotalRaise ==
  ASSUME NEW S, IsFiniteSet(S), NEW T \in SUBSET S, NEW f, NEW g, NEW h,
         \A t \in S : f[t] \in Int /\ g[t] \in Int,
         \A t \in S \ T : g[t] = f[t],
         \A t \in T : f[t] = 0,
         \A t \in T : h[t] \in Int,
         NEW a \in Int, NEW b \in Int, NEW d \in Int,
         \A t \in T : a * g[t] <= b * h[t] + d
  PROVE  a * Total(g, S) <= a * Total(f, S) + b * Total(h, T) + d * Cardinality(T)
<1>1. IsFiniteSet(T) /\ IsFiniteSet(S \ T)
  BY FS_Subset
<1>2. Total(g, S) = Total(g, T) + Total(g, S \ T) /\ Total(f, S) = Total(f, T) + Total(f, S \ T)
  <2>1. (\A t \in S : f[t] \in Int) /\ (\A t \in S : g[t] \in Int)
    OBVIOUS
  <2> QED BY <2>1, TotalSplit
<1>3. Total(g, S \ T) = Total(f, S \ T)
  BY <1>1, TotalSame
<1>4. Total(f, T) = 0
  BY <1>1, TotalZero
<1>5. a * Total(g, T) <= b * Total(h, T) + 0 * Total(h, T) + d * Cardinality(T)
  <2>1. \A t \in T : g[t] \in Int /\ h[t] \in Int
    OBVIOUS
  <2>2. \A t \in T : a * g[t] <= b * h[t] + 0 * h[t] + d
    <3> SUFFICES ASSUME NEW t \in T PROVE a * g[t] <= b * h[t] + 0 * h[t] + d
      OBVIOUS
    <3> DEFINE x == a * g[t]
               y == b * h[t]
    <3>1. x \in Int /\ y \in Int /\ x <= y + d /\ 0 * h[t] = 0
      OBVIOUS
    <3> HIDE DEF x, y
    <3>2. x <= y + 0 * h[t] + d
      BY <3>1
    <3> QED BY <3>2 DEF x, y
  <2>3. 0 \in Int
    OBVIOUS
  <2> QED BY <1>1, <2>1, <2>2, <2>3, TotalLinear
<1> DEFINE gt == Total(g, T)
           r == Total(f, S \ T)
           ht == Total(h, T)
           n == Cardinality(T)
<1>6. gt \in Int /\ r \in Int /\ ht \in Int /\ n \in Int
  <2>1. gt \in Int /\ r \in Int /\ ht \in Int
    BY <1>1, TotalType
  <2>2. n \in Nat
    BY <1>1, FS_CardinalityType
  <2> QED BY <2>1, <2>2
<1>7. Total(g, S) = gt + r /\ Total(f, S) = r
  BY <1>2, <1>3, <1>4, <1>6
<1>8. a * gt <= b * ht + 0 * ht + d * n
  BY <1>5
<1> HIDE DEF gt, r, ht, n
<1>9. /\ a * (gt + r) = a * gt + a * r /\ 0 * ht = 0
      /\ a * gt \in Int /\ a * r \in Int /\ b * ht \in Int /\ d * n \in Int
  BY <1>6
<1>10. a * (gt + r) <= a * r + b * ht + d * n
  BY <1>8, <1>9
<1> QED BY <1>7, <1>10 DEF ht, n
=============================================================================
