-------------------------- MODULE SettlementProofs --------------------------
(***************************************************************************)
(* Sums over finite sets, as SUM() and the reductions of the code make     *)
(* them, and what a ledger that grows does to them.  MapThenSumSet takes   *)
(* the elements in some order, and what it returns does not depend on it:  *)
(* the sum is the last value of the one function, on the subsets of the    *)
(* set, that satisfies the recursion of the fold; that there is one, and   *)
(* only one, is shown by taking a least counterexample.                    *)
(***************************************************************************)
EXTENDS Settlement, Integers, FiniteSetTheorems, TLAPS

\* The element a fold takes next.
Pick(s) == CHOOSE x \in s : TRUE

\* The recursion of the fold: v[x] is what element x counts for.
TallyStep(f, v, s) == IF s = {} THEN 0 ELSE v[Pick(s)] + f[s \ {Pick(s)}]

IsTally(f, v, M) == f = [s \in SUBSET M |-> TallyStep(f, v, s)]

TallyOf(v, M) == CHOOSE f : IsTally(f, v, M)

\* The sum of v over M.
Total(v, M) == TallyOf(v, M)[M]

-----------------------------------------------------------------------------
(* Least elements. *)

LEMMA PickIn ==
  ASSUME NEW s, s # {}
  PROVE  Pick(s) \in s
BY DEF Pick

\* Among sets of subsets of a finite set one is minimal.
LEMMA MinimalSet ==
  ASSUME NEW M, IsFiniteSet(M), NEW B, B \subseteq SUBSET M, B # {}
  PROVE  \E s \in B : \A t \in B : t \subseteq s => t = s
<1> DEFINE R == StrictSubsetOrdering(M)
<1>1. IsWellFoundedOn(R, SUBSET M)
  BY FS_StrictSubsetOrderingWellFounded, FS_FiniteSubsetsOfFinite
<1> HIDE DEF R
<1>2. \E s \in B : \A t \in B : ~(<<t, s>> \in R)
  BY <1>1, WFMin
<1>3. PICK s \in B : \A t \in B : ~(<<t, s>> \in R)
  BY <1>2
<1>4. \A t \in B : t \subseteq s => t = s
  BY <1>3 DEF R, StrictSubsetOrdering
<1> QED BY <1>4

\* And among natural numbers one is least.
LEMMA LeastNumber ==
  ASSUME NEW T, T \subseteq Nat, T # {}
  PROVE  \E n \in T : \A m \in T : n <= m
<1> DEFINE R == OpToRel(<, Nat)
<1>1. IsWellFoundedOn(R, Nat)
  BY NatLessThanWellFounded
<1> HIDE DEF R
<1>2. \E n \in T : \A m \in T : ~(<<m, n>> \in R)
  BY <1>1, WFMin
<1>3. PICK n \in T : \A m \in T : ~(<<m, n>> \in R)
  BY <1>2
<1>4. ASSUME NEW m \in T PROVE n <= m
  <2>1. ~(m < n)
    BY <1>3 DEF R, OpToRel
  <2> QED BY <2>1
<1> QED BY <1>4

-----------------------------------------------------------------------------
(* There is a tally: one that is right for the sets of n elements extends  *)
(* to one that is right for the sets of n + 1.                             *)

TallyUpTo(f, v, M, n) ==
  /\ f = [s \in SUBSET M |-> f[s]]
  /\ \A s \in SUBSET M : Cardinality(s) <= n => f[s] = TallyStep(f, v, s)

LEMMA SmallerSet ==
  ASSUME NEW M, IsFiniteSet(M), NEW s \in SUBSET M, s # {}
  PROVE  /\ IsFiniteSet(s) /\ Cardinality(s) \in Nat /\ Cardinality(s) # 0
         /\ s \ {Pick(s)} \in SUBSET M
         /\ Cardinality(s \ {Pick(s)}) = Cardinality(s) - 1
         /\ Cardinality(s \ {Pick(s)}) \in Nat
<1>1. IsFiniteSet(s)
  BY FS_Subset
<1>2. Pick(s) \in s
  BY PickIn
<1>3. IsFiniteSet(s \ {Pick(s)}) /\ Cardinality(s \ {Pick(s)}) = Cardinality(s) - 1
  BY <1>1, <1>2, FS_RemoveElement
<1>4. Cardinality(s) \in Nat /\ Cardinality(s \ {Pick(s)}) \in Nat
  BY <1>1, <1>3, FS_CardinalityType
<1> QED BY <1>1, <1>3, <1>4

LEMMA TallyStarts ==
  ASSUME NEW M, IsFiniteSet(M), NEW v
  PROVE  \E f : TallyUpTo(f, v, M, 0)
<1> DEFINE f == [s \in SUBSET M |-> 0]
<1>1. f = [s \in SUBSET M |-> f[s]]
  OBVIOUS
<1>2. ASSUME NEW s \in SUBSET M, Cardinality(s) <= 0 PROVE f[s] = TallyStep(f, v, s)
  <2>1. s # {} => Cardinality(s) \in Nat /\ Cardinality(s) # 0
    BY SmallerSet
  <2>2. s = {}
    BY <1>2, <2>1
  <2> QED BY <2>2 DEF TallyStep
<1>3. TallyUpTo(f, v, M, 0)
  BY <1>1, <1>2 DEF TallyUpTo
<1> QED BY <1>3

LEMMA TallyGoesOn ==
  ASSUME NEW M, IsFiniteSet(M), NEW v, NEW n \in Nat, \E f : TallyUpTo(f, v, M, n)
  PROVE  \E f : TallyUpTo(f, v, M, n + 1)
<1>1. PICK f : TallyUpTo(f, v, M, n)
  OBVIOUS
<1> DEFINE g == [s \in SUBSET M |-> IF Cardinality(s) <= n THEN f[s] ELSE TallyStep(f, v, s)]
<1>2. g = [s \in SUBSET M |-> g[s]]
  OBVIOUS
<1>3. ASSUME NEW s \in SUBSET M, Cardinality(s) <= n + 1 PROVE g[s] = TallyStep(g, v, s)
  <2>1. g[s] = TallyStep(f, v, s)
    BY <1>1 DEF TallyUpTo
  <2>2. CASE s = {}
    BY <2>1, <2>2 DEF TallyStep
  <2>3. CASE s # {}
    <3>1. s \ {Pick(s)} \in SUBSET M /\ Cardinality(s \ {Pick(s)}) <= n
      BY <1>3, <2>3, SmallerSet
    <3>2. g[s \ {Pick(s)}] = f[s \ {Pick(s)}]
      BY <3>1
    <3> HIDE DEF g
    <3> QED BY <2>1, <2>3, <3>2 DEF TallyStep
  <2> QED BY <2>2, <2>3
<1> HIDE DEF g
<1>4. TallyUpTo(g, v, M, n + 1)
  BY <1>2, <1>3 DEF TallyUpTo
<1> QED BY <1>4

LEMMA TallyExists ==
  ASSUME NEW M, IsFiniteSet(M), NEW v
  PROVE  IsTally(TallyOf(v, M), v, M)
<1> DEFINE T == {n \in Nat : ~\E f : TallyUpTo(f, v, M, n)}
<1>1. T = {}
  <2> SUFFICES ASSUME T # {} PROVE FALSE
    OBVIOUS
  <2>1. PICK n \in T : \A m \in T : n <= m
    BY LeastNumber
  <2>2. n # 0
    BY TallyStarts
  <2>3. n - 1 \in Nat /\ n - 1 \notin T
    BY <2>1, <2>2
  <2>4. \E f : TallyUpTo(f, v, M, n - 1)
    BY <2>3
  <2>5. \E f : TallyUpTo(f, v, M, (n - 1) + 1)
    BY <2>3, <2>4, TallyGoesOn
  <2>6. (n - 1) + 1 = n
    OBVIOUS
  <2> QED BY <2>5, <2>6
<1>2. Cardinality(M) \in Nat
  BY FS_CardinalityType
<1>3. PICK f : TallyUpTo(f, v, M, Cardinality(M))
  BY <1>1, <1>2
<1>4. \A s \in SUBSET M : Cardinality(s) <= Cardinality(M)
  BY FS_Subset
<1>5. \A s \in SUBSET M : f[s] = TallyStep(f, v, s)
  BY <1>3, <1>4 DEF TallyUpTo
<1>6. f = [s \in SUBSET M |-> f[s]]
  BY <1>3 DEF TallyUpTo
<1>7. IsTally(f, v, M)
  BY <1>5, <1>6 DEF IsTally
<1> QED BY <1>7 DEF TallyOf

-----------------------------------------------------------------------------
(* It is a number, in whatever order the elements are taken, and there is  *)
(* no other.                                                               *)

LEMMA TallyIsNumber ==
  ASSUME NEW M, IsFiniteSet(M), NEW v, \A e \in M : v[e] \in Int, NEW f, IsTally(f, v, M)
  PROVE  \A s \in SUBSET M : f[s] \in Int
<1> DEFINE B == {s \in SUBSET M : f[s] \notin Int}
<1> SUFFICES ASSUME B # {} PROVE FALSE
  OBVIOUS
<1>1. PICK s \in B : \A t \in B : t \subseteq s => t = s
  <2>1. B \subseteq SUBSET M
    OBVIOUS
  <2> HIDE DEF B
  <2> QED BY <2>1, MinimalSet
<1>2. f[s] = TallyStep(f, v, s)
  BY DEF IsTally
<1>3. s # {}
  BY <1>2 DEF TallyStep
<1>4. Pick(s) \in s
  BY <1>3, PickIn
<1>5. f[s \ {Pick(s)}] \in Int
  BY <1>1, <1>4
<1>6. v[Pick(s)] \in Int
  BY <1>4
<1>7. f[s] = v[Pick(s)] + f[s \ {Pick(s)}]
  BY <1>2, <1>3 DEF TallyStep
<1> QED BY <1>5, <1>6, <1>7

LEMMA TallyAnyOrder ==
  ASSUME NEW M, IsFiniteSet(M), NEW v, \A e \in M : v[e] \in Int, NEW f, IsTally(f, v, M)
  PROVE  \A s \in SUBSET M : \A x \in s : f[s] = v[x] + f[s \ {x}]
<1> DEFINE B == {s \in SUBSET M : \E x \in s : f[s] # v[x] + f[s \ {x}]}
<1> SUFFICES ASSUME B # {} PROVE FALSE
  OBVIOUS
<1>1. PICK s \in B : \A t \in B : t \subseteq s => t = s
  <2>1. B \subseteq SUBSET M
    OBVIOUS
  <2> HIDE DEF B
  <2> QED BY <2>1, MinimalSet
<1>2. PICK x \in s : f[s] # v[x] + f[s \ {x}]
  OBVIOUS
<1> DEFINE c == Pick(s)
           a == s \ {c}
           b == s \ {x}
           d == s \ {c, x}
<1>3. c \in s /\ f[s] = v[c] + f[a]
  BY <1>2, PickIn DEF IsTally, TallyStep
<1>4. x # c
  BY <1>2, <1>3
<1>5. a \in SUBSET M /\ b \in SUBSET M /\ a \notin B /\ b \notin B
  BY <1>1, <1>2, <1>3
<1>6. x \in a /\ c \in b /\ a \ {x} = d /\ b \ {c} = d /\ d \in SUBSET M
  BY <1>2, <1>3, <1>4
<1>7. f[a] = v[x] + f[d] /\ f[b] = v[c] + f[d]
  BY <1>5, <1>6
<1>8. v[x] \in Int /\ v[c] \in Int /\ f[d] \in Int
  BY <1>2, <1>3, <1>6, TallyIsNumber
<1> HIDE DEF c, a, b, d
<1> QED BY <1>2, <1>3, <1>7, <1>8 DEF b

\* Two tallies of what counts the same agree where both are defined.
LEMMA TalliesAgree ==
  ASSUME NEW M, IsFiniteSet(M), NEW N, M \subseteq N, NEW v, NEW w, \A x \in M : v[x] = w[x],
         NEW f, IsTally(f, v, M), NEW g, IsTally(g, w, N)
  PROVE  f[M] = g[M]
<1> DEFINE B == {s \in SUBSET M : f[s] # g[s]}
<1>1. B = {}
  <2> SUFFICES ASSUME B # {} PROVE FALSE
    OBVIOUS
  <2>1. PICK s \in B : \A t \in B : t \subseteq s => t = s
    <3>1. B \subseteq SUBSET M
      OBVIOUS
    <3> HIDE DEF B
    <3> QED BY <3>1, MinimalSet
  <2>2. f[s] = TallyStep(f, v, s) /\ g[s] = TallyStep(g, w, s)
    BY DEF IsTally
  <2>3. s # {}
    BY <2>2 DEF TallyStep
  <2>4. Pick(s) \in s /\ v[Pick(s)] = w[Pick(s)]
    BY <2>3, PickIn
  <2>5. f[s \ {Pick(s)}] = g[s \ {Pick(s)}]
    BY <2>1, <2>4
  <2> QED BY <2>2, <2>3, <2>4, <2>5 DEF TallyStep
<1> QED BY <1>1

-----------------------------------------------------------------------------
(* Sums. *)

LEMMA TotalOfNothing ==
  ASSUME NEW v
  PROVE  Total(v, {}) = 0
BY FS_EmptySet, TallyExists DEF Total, IsTally, TallyStep

LEMMA TotalIsNumber ==
  ASSUME NEW M, IsFiniteSet(M), NEW v, \A e \in M : v[e] \in Int
  PROVE  Total(v, M) \in Int
BY TallyExists, TallyIsNumber DEF Total

\* Only what the elements count for matters.
LEMMA SameTotal ==
  ASSUME NEW M, IsFiniteSet(M), NEW v, NEW w, \A x \in M : v[x] = w[x]
  PROVE  Total(v, M) = Total(w, M)
<1>1. IsTally(TallyOf(v, M), v, M) /\ IsTally(TallyOf(w, M), w, M)
  BY TallyExists
<1> HIDE DEF TallyOf
<1> QED BY <1>1, TalliesAgree DEF Total

\* Any element can be taken first.
LEMMA TotalWithout ==
  ASSUME NEW M, IsFiniteSet(M), NEW v, \A e \in M : v[e] \in Int, NEW x \in M
  PROVE  Total(v, M) = v[x] + Total(v, M \ {x})
<1> DEFINE N == M \ {x}
<1>1. IsFiniteSet(N) /\ N \subseteq M
  BY FS_Subset
<1>2. IsTally(TallyOf(v, M), v, M) /\ IsTally(TallyOf(v, N), v, N)
  BY <1>1, TallyExists
<1>3. TallyOf(v, M)[M] = v[x] + TallyOf(v, M)[M \ {x}]
  BY <1>2, TallyAnyOrder
<1> HIDE DEF N
<1>4. TallyOf(v, N)[N] = TallyOf(v, M)[N]
  BY <1>1, <1>2, TalliesAgree
<1> QED BY <1>3, <1>4 DEF Total, N

\* A new element adds what it counts for.
LEMMA TotalWith ==
  ASSUME NEW M, IsFiniteSet(M), NEW v, NEW x, x \notin M, v[x] \in Int, \A e \in M : v[e] \in Int
  PROVE  Total(v, M \union {x}) = v[x] + Total(v, M)
<1> DEFINE N == M \union {x}
<1>1. IsFiniteSet(N) /\ N \ {x} = M /\ x \in N /\ \A e \in N : v[e] \in Int
  BY FS_AddElement
<1> HIDE DEF N
<1>2. Total(v, N) = v[x] + Total(v, N \ {x})
  BY <1>1, TotalWithout
<1> QED BY <1>1, <1>2 DEF N

\* The sum over two sets with nothing in common.
LEMMA TotalOfUnion ==
  ASSUME NEW M, IsFiniteSet(M), NEW N, IsFiniteSet(N), M \intersect N = {},
         NEW v, \A e \in M \union N : v[e] \in Int
  PROVE  Total(v, M \union N) = Total(v, M) + Total(v, N)
<1> DEFINE B == {s \in SUBSET M : Total(v, s \union N) # Total(v, s) + Total(v, N)}
<1>1. \A s \in SUBSET M : IsFiniteSet(s) /\ IsFiniteSet(s \union N)
  BY FS_Subset, FS_Union
<1>2. Total(v, N) \in Int
  BY TotalIsNumber
<1>3. B = {}
  <2> SUFFICES ASSUME B # {} PROVE FALSE
    OBVIOUS
  <2>1. PICK s \in B : \A t \in B : t \subseteq s => t = s
    <3>1. B \subseteq SUBSET M
      OBVIOUS
    <3> HIDE DEF B
    <3> QED BY <3>1, MinimalSet
  <2>2. s # {}
    <3>1. Total(v, {}) + Total(v, N) = Total(v, N) /\ {} \union N = N
      BY <1>2, TotalOfNothing
    <3> QED BY <3>1
  <2>3. PICK x \in s : TRUE
    BY <2>2
  <2> DEFINE t == s \ {x}
  <2>4. t \in SUBSET M /\ t \notin B
    BY <2>1
  <2>5. Total(v, t \union N) = Total(v, t) + Total(v, N)
    BY <2>4
  <2>6. Total(v, s) = v[x] + Total(v, t)
    BY <1>1, TotalWithout
  <2>7. Total(v, s \union N) = v[x] + Total(v, t \union N)
    <3>1. (s \union N) \ {x} = t \union N /\ x \in s \union N /\ \A e \in s \union N : v[e] \in Int
      OBVIOUS
    <3>2. Total(v, s \union N) = v[x] + Total(v, (s \union N) \ {x})
      BY <1>1, <3>1, TotalWithout
    <3> QED BY <3>1, <3>2
  <2>8. v[x] \in Int /\ Total(v, t) \in Int
    BY <1>1, <2>4, TotalIsNumber
  <2>9. Total(v, s \union N) # Total(v, s) + Total(v, N)
    OBVIOUS
  <2> HIDE DEF t, B
  <2> QED BY <1>2, <2>5, <2>6, <2>7, <2>8, <2>9
<1> QED BY <1>3

\* A sum of what is never negative is not, and a larger set has no smaller sum.
LEMMA TotalIsNatural ==
  ASSUME NEW M, IsFiniteSet(M), NEW v, \A e \in M : v[e] \in Nat
  PROVE  Total(v, M) \in Nat
<1> DEFINE B == {s \in SUBSET M : Total(v, s) \notin Nat}
<1>1. B = {}
  <2> SUFFICES ASSUME B # {} PROVE FALSE
    OBVIOUS
  <2>1. PICK s \in B : \A t \in B : t \subseteq s => t = s
    <3>1. B \subseteq SUBSET M
      OBVIOUS
    <3> HIDE DEF B
    <3> QED BY <3>1, MinimalSet
  <2>2. s # {}
    BY TotalOfNothing
  <2>3. PICK x \in s : TRUE
    BY <2>2
  <2>4. Total(v, s \ {x}) \in Nat /\ v[x] \in Nat
    BY <2>1
  <2>5. Total(v, s) = v[x] + Total(v, s \ {x})
    BY FS_Subset, TotalWithout
  <2> QED BY <2>4, <2>5
<1> QED BY <1>1

LEMMA TotalGrows ==
  ASSUME NEW M, IsFiniteSet(M), NEW N, N \subseteq M, NEW v, \A e \in M : v[e] \in Nat
  PROVE  Total(v, N) <= Total(v, M)
<1> DEFINE D == M \ N
<1>1. IsFiniteSet(N) /\ IsFiniteSet(D) /\ N \intersect D = {} /\ N \union D = M
  BY FS_Subset
<1> HIDE DEF D
<1>2. \A e \in N \union D : v[e] \in Int
  BY <1>1
<1>3. Total(v, M) = Total(v, N) + Total(v, D)
  BY <1>1, <1>2, TotalOfUnion
<1>4. Total(v, N) \in Nat /\ Total(v, D) \in Nat
  BY <1>1, TotalIsNatural
<1> QED BY <1>3, <1>4

\* What counts for nothing can be left out.
LEMMA TotalOfZeros ==
  ASSUME NEW M, IsFiniteSet(M), NEW v, \A e \in M : v[e] = 0
  PROVE  Total(v, M) = 0
<1> DEFINE B == {s \in SUBSET M : Total(v, s) # 0}
<1>1. B = {}
  <2> SUFFICES ASSUME B # {} PROVE FALSE
    OBVIOUS
  <2>1. PICK s \in B : \A t \in B : t \subseteq s => t = s
    <3>1. B \subseteq SUBSET M
      OBVIOUS
    <3> HIDE DEF B
    <3> QED BY <3>1, MinimalSet
  <2>2. s # {}
    BY TotalOfNothing
  <2>3. PICK x : x \in s
    BY <2>2
  <2> DEFINE t == s \ {x}
  <2>4. IsFiniteSet(s) /\ t \in SUBSET M /\ t # s /\ t \subseteq s /\ \A e \in s : v[e] \in Int
    BY <2>3, FS_Subset
  <2>5. Total(v, s) = v[x] + Total(v, t)
    BY <2>3, <2>4, TotalWithout
  <2>6. t \notin B
    BY <2>1, <2>4
  <2> HIDE DEF t
  <2> QED BY <2>3, <2>4, <2>5, <2>6
<1> QED BY <1>1

LEMMA TotalOnPart ==
  ASSUME NEW M, IsFiniteSet(M), NEW N, N \subseteq M, NEW v, NEW w,
         \A e \in N : v[e] = w[e] /\ v[e] \in Int, \A e \in M \ N : v[e] = 0
  PROVE  Total(v, M) = Total(w, N)
<1> DEFINE D == M \ N
<1>1. IsFiniteSet(N) /\ IsFiniteSet(D) /\ N \intersect D = {} /\ N \union D = M
  BY FS_Subset
<1>2. \A e \in D : v[e] = 0
  OBVIOUS
<1> HIDE DEF D
<1>3. Total(v, D) = 0
  BY <1>1, <1>2, TotalOfZeros
<1>4. Total(v, M) = Total(v, N) + Total(v, D)
  BY <1>1, <1>2, TotalOfUnion
<1>5. Total(v, N) = Total(w, N) /\ Total(v, N) \in Int
  BY <1>1, SameTotal, TotalIsNumber
<1> QED BY <1>3, <1>4, <1>5

\* Elements that count for one each are counted.
LEMMA TotalOfOnes ==
  ASSUME NEW M, IsFiniteSet(M), NEW v, \A e \in M : v[e] = 1
  PROVE  Total(v, M) = Cardinality(M)
<1> DEFINE B == {s \in SUBSET M : Total(v, s) # Cardinality(s)}
<1>1. B = {}
  <2> SUFFICES ASSUME B # {} PROVE FALSE
    OBVIOUS
  <2>1. PICK s \in B : \A t \in B : t \subseteq s => t = s
    <3>1. B \subseteq SUBSET M
      OBVIOUS
    <3> HIDE DEF B
    <3> QED BY <3>1, MinimalSet
  <2>2. s # {}
    BY TotalOfNothing, FS_EmptySet
  <2>3. PICK x : x \in s
    BY <2>2
  <2> DEFINE t == s \ {x}
  <2>4. IsFiniteSet(s) /\ t \in SUBSET M /\ t # s /\ t \subseteq s /\ \A e \in s : v[e] \in Int
    BY <2>3, FS_Subset
  <2>5. Total(v, s) = v[x] + Total(v, t)
    BY <2>3, <2>4, TotalWithout
  <2>6. Total(v, t) = Cardinality(t)
    BY <2>1, <2>4
  <2>7. Cardinality(t) = Cardinality(s) - 1 /\ Cardinality(s) \in Nat
    BY <2>3, <2>4, FS_RemoveElement, FS_CardinalityType
  <2>8. v[x] = 1 /\ Total(v, s) # Cardinality(s)
    BY <2>3
  <2> HIDE DEF t, B
  <2> QED BY <2>5, <2>6, <2>7, <2>8
<1> QED BY <1>1

\* `group by`: the sum of the groups' sums.
LEMMA TotalByGroup ==
  ASSUME NEW M, IsFiniteSet(M), NEW K, IsFiniteSet(K), NEW g, \A x \in M : g[x] \in K,
         NEW v, \A x \in M : v[x] \in Int,
         NEW w, \A k \in K : w[k] = Total(v, {x \in M : g[x] = k})
  PROVE  Total(w, K) = Total(v, M)
<1> DEFINE In(s) == {x \in M : g[x] \in s}
           B == {s \in SUBSET K : Total(w, s) # Total(v, In(s))}
<1>1. \A k \in K : w[k] \in Int
  <2> TAKE k \in K
  <2>1. IsFiniteSet({x \in M : g[x] = k})
    BY FS_Subset
  <2> QED BY <2>1, TotalIsNumber
<1>2. B = {}
  <2> SUFFICES ASSUME B # {} PROVE FALSE
    OBVIOUS
  <2>1. PICK s \in B : \A t \in B : t \subseteq s => t = s
    <3>1. B \subseteq SUBSET K
      OBVIOUS
    <3> HIDE DEF B
    <3> QED BY <3>1, MinimalSet
  <2>2. s # {}
    <3>1. In({}) = {} /\ Total(w, {}) = 0
      BY TotalOfNothing
    <3> QED BY <2>1, <3>1, TotalOfNothing
  <2>3. PICK k : k \in s
    BY <2>2
  <2> DEFINE t == s \ {k}
             G == {x \in M : g[x] = k}
  <2>4. IsFiniteSet(s) /\ t \in SUBSET K /\ t # s /\ t \subseteq s /\ \A e \in s : w[e] \in Int
    BY <1>1, <2>3, FS_Subset
  <2>5. Total(w, s) = w[k] + Total(w, t)
    BY <2>3, <2>4, TotalWithout
  <2>6. Total(w, t) = Total(v, In(t))
    BY <2>1, <2>4
  <2>7. /\ IsFiniteSet(G) /\ IsFiniteSet(In(t)) /\ G \intersect In(t) = {}
        /\ G \union In(t) = In(s)
        /\ \A e \in G \union In(t) : v[e] \in Int
    BY <2>3, FS_Subset
  <2>8. w[k] = Total(v, G) /\ Total(w, s) # Total(v, In(s))
    BY <2>3
  <2> HIDE DEF In, G, t, B
  <2>9. Total(v, In(s)) = Total(v, G) + Total(v, In(t))
    BY <2>7, TotalOfUnion
  <2> QED BY <2>5, <2>6, <2>8, <2>9
<1>3. In(K) = M
  OBVIOUS
<1>4. Total(w, K) = Total(v, In(K))
  BY <1>2
<1> QED BY <1>3, <1>4

-----------------------------------------------------------------------------
(* The ledger. *)

\* What COALESCE(SUM(amount), 0) is.
LEMMA SumOfAmounts ==
  ASSUME NEW M, IsFiniteSet(M), NEW v, \A e \in M : v[e] = e.amount
  PROVE  MapThenSumSet(LAMBDA e : e.amount, M) = Total(v, M)
<1> DEFINE Q(f) == f = [s \in SUBSET M |-> IF s = {} THEN 0 ELSE Pick(s).amount + f[s \ {Pick(s)}]]
           g == CHOOSE f : Q(f)
<1>1. MapThenSumSet(LAMBDA e : e.amount, M) = g[M]
  BY DEF MapThenSumSet, MapThenFoldSet, Pick
<1>2. \A s \in SUBSET M : s # {} => v[Pick(s)] = Pick(s).amount
  BY PickIn
<1>3. ASSUME NEW f PROVE Q(f) <=> IsTally(f, v, M)
  BY <1>2 DEF IsTally, TallyStep
<1>4. IsTally(TallyOf(v, M), v, M)
  BY TallyExists
<1>5. Q(TallyOf(v, M))
  BY <1>3, <1>4
<1>6. Q(g)
  <2> HIDE DEF Q
  <2> QED BY <1>5
<1>7. IsTally(g, v, M)
  BY <1>3, <1>6
<1> HIDE DEF Q, g
<1>8. g[M] = TallyOf(v, M)[M]
  BY <1>4, <1>7, TalliesAgree
<1> QED BY <1>1, <1>8 DEF Total

\* What has moved is the sum of the movements' amounts.
LEMMA MovedIsTotal ==
  ASSUME NEW L, IsFiniteSet(L), NEW kind, NEW party,
         NEW v, \A e \in Movements(L, kind, party) : v[e] = e.amount
  PROVE  Moved(L, kind, party) = Total(v, Movements(L, kind, party))
<1> DEFINE M == Movements(L, kind, party)
<1>1. IsFiniteSet(M)
  BY FS_Subset DEF Movements
<1> HIDE DEF M
<1>2. CASE M = {}
  <2>1. Moved(L, kind, party) = 0
    BY <1>2 DEF Moved, M
  <2> QED BY <1>2, <2>1, TotalOfNothing DEF M
<1>3. CASE M # {}
  <2>1. Moved(L, kind, party) = MapThenSumSet(LAMBDA e : e.amount, M)
    BY <1>3 DEF Moved, M
  <2>2. \A e \in M : v[e] = e.amount
    BY DEF M
  <2> QED BY <1>1, <2>1, <2>2, SumOfAmounts DEF M
<1> QED BY <1>2, <1>3

\* Whatever a command adds to the ledger, no party's total of any kind becomes less.
LEMMA MovedGrows ==
  ASSUME NEW K, IsFiniteSet(K), NEW L, L \subseteq K, \A e \in K : e.amount \in Nat,
         NEW kind, NEW party
  PROVE  /\ Moved(L, kind, party) \in Nat /\ Moved(K, kind, party) \in Nat
         /\ Moved(L, kind, party) <= Moved(K, kind, party)
<1> DEFINE v == [e \in K |-> e.amount]
           M == Movements(L, kind, party)
           N == Movements(K, kind, party)
<1>1. M \subseteq N /\ N \subseteq K /\ M \subseteq K
  BY DEF Movements
<1>2. IsFiniteSet(L) /\ IsFiniteSet(N) /\ IsFiniteSet(M)
  BY <1>1, FS_Subset
<1>3. \A e \in N : v[e] = e.amount /\ v[e] \in Nat
  BY <1>1
<1> HIDE DEF v
<1>4. Moved(L, kind, party) = Total(v, M)
  BY <1>1, <1>2, <1>3, MovedIsTotal
<1>5. Moved(K, kind, party) = Total(v, N)
  BY <1>3, MovedIsTotal
<1> HIDE DEF M, N
<1>6. Total(v, M) <= Total(v, N) /\ Total(v, M) \in Nat /\ Total(v, N) \in Nat
  BY <1>1, <1>2, <1>3, TotalGrows, TotalIsNatural
<1> QED BY <1>4, <1>5, <1>6

\* A hold that was captured whole stays so: the row that replaces it, from whatever
\* reading it was made, agrees with a ledger that has not shrunk.
LEMMA CapturedForGood ==
  ASSUME NEW K, IsFiniteSet(K), NEW L, L \subseteq K, \A e \in K : e.amount \in Nat,
         NEW h, NEW old \in HoldRow, NEW new \in HoldRow, old.amount = new.amount,
         Agrees(old, h, L), Agrees(new, h, K), Sound(old), Sound(new),
         new.status # "none", old.amount # 0
  PROVE  /\ new.captured >= old.captured /\ new.refunded >= old.refunded
         /\ old.status = "captured" => new.status = "captured"
<1>1. new.captured >= old.captured /\ new.refunded >= old.refunded
  BY MovedGrows DEF Agrees
<1>2. old.captured \in Nat /\ new.captured \in Nat /\ old.amount \in Int
  BY AmountAssumption DEF HoldRow
<1>3. new.status \in {"authorized", "captured", "partially_captured", "voided"}
  BY DEF HoldRow
<1> QED BY <1>1, <1>2, <1>3 DEF Sound
=============================================================================
