--------------------------- MODULE Serving_proofs ---------------------------
(***************************************************************************)
(* Proofs about a request being served.  Failover: the in-flight counters  *)
(* are exact, and what a client is told when a request ends, for any       *)
(* number of providers, requests and retries, any candidate lists and      *)
(* streams of any length.  RequestLog: a request that has ended is logged  *)
(* once, on its way or lost, and the byte cap keeps the newest bodies.     *)
(* Endpoints and Statements: ledger and usage columns agree about every    *)
(* call that has been charged, a usage report never shrinks and an account *)
(* page adds up.  The sums over finite sets these need come first.         *)
(***************************************************************************)
EXTENDS Failover, Statements, RequestLog, FiniteSetTheorems, SequenceTheorems,
        WellFoundedInduction, TLAPS

(* Sums over finite sets.  A fold takes the elements in the order that a   *)
(* chooser c gives them; g is what it has for each subset.                 *)
Chooses(c, S) == \A s \in (SUBSET S) \ {{}} : c[s] \in s
Partial(f, c, g, s) == IF s = {} THEN 0 ELSE f[c[s]] + g[s \ {c[s]}]
IsFold(f, c, S, g) == g = [s \in SUBSET S |-> Partial(f, c, g, s)]

(* A non-empty set of naturals has a least element.                        *)
LEMMA LeastNatural ==
  ASSUME NEW T, T \subseteq Nat, T # {}
  PROVE  \E n \in T : \A m \in T : n <= m
<1>1. \E x \in T : \A y \in T : ~(<<y, x>> \in OpToRel(<, Nat))
  BY NatLessThanWellFounded, WFMin
<1>2. PICK x \in T : \A y \in T : ~(<<y, x>> \in OpToRel(<, Nat))
  BY <1>1
<1>3. \A y \in T : ~(y < x)
  BY <1>2 DEF OpToRel
<1> QED
  BY <1>3

(* A subset loses an element and one of its number.                        *)
LEMMA OneLess ==
  ASSUME NEW S, IsFiniteSet(S), NEW s \in SUBSET S
  PROVE  /\ IsFiniteSet(s) /\ Cardinality(s) \in Nat
         /\ (Cardinality(s) = 0) <=> (s = {})
         /\ \A x \in s : s \ {x} \in SUBSET S /\ Cardinality(s \ {x}) = Cardinality(s) - 1
<1>1. IsFiniteSet(s)
  BY FS_Subset
<1>2. Cardinality(s) \in Nat /\ ((Cardinality(s) = 0) <=> (s = {}))
  BY <1>1, FS_CardinalityType, FS_EmptySet
<1>3. \A x \in s : Cardinality(s \ {x}) = Cardinality(s) - 1
  BY <1>1, FS_RemoveElement
<1> QED
  BY <1>1, <1>2, <1>3

(* What n + 1 has if n has it, from 0 on, every natural number has.        *)
LEMMA Induct ==
  ASSUME NEW T, 0 \in T, \A n \in Nat : n \in T => n + 1 \in T
  PROVE  \A n \in Nat : n \in T
<1>1. SUFFICES ASSUME Nat \ T # {} PROVE FALSE
  OBVIOUS
<1>2. PICK n \in Nat \ T : \A m \in Nat \ T : n <= m
  BY <1>1, LeastNatural
<1>3. n - 1 \in Nat /\ n - 1 \in T
  BY <1>2
<1>4. (n - 1) + 1 \in T
  BY <1>3
<1> QED
  BY <1>2, <1>4

(* A walk through a finite set that starts with b, takes the elements in   *)
(* the order of c and goes from v to K[x][v] at x: it exists, and never    *)
(* leaves a set V that no step leaves.                                     *)
Step(K, b, c, g, s) == IF s = {} THEN b ELSE K[c[s]][g[s \ {c[s]}]]

Remains(K, S, V) == \A x \in S : \A v \in V : K[x][v] \in V
IsWalk(K, b, c, S, V, g) ==
  g \in [SUBSET S -> V] /\ \A s \in SUBSET S : g[s] = Step(K, b, c, g, s)

LEMMA WalkExists ==
  ASSUME NEW S, IsFiniteSet(S), NEW c, Chooses(c, S), NEW V, NEW b \in V,
         NEW K, Remains(K, S, V)
  PROVE  \E g : IsWalk(K, b, c, S, V, g)
<1> DEFINE T == {n \in Nat : \E g \in [SUBSET S -> V] :
                   \A s \in SUBSET S : Cardinality(s) <= n => g[s] = Step(K, b, c, g, s)}
<1>0. /\ \A s \in SUBSET S : s # {} => c[s] \in s /\ s \ {c[s]} \in SUBSET S
      /\ \A g \in [SUBSET S -> V] : \A s \in SUBSET S : Step(K, b, c, g, s) \in V
  BY DEF Chooses, Step, Remains
<1>1. 0 \in T
  <2> PICK g : g = [s \in SUBSET S |-> b]
    OBVIOUS
  <2>1. ASSUME NEW s \in SUBSET S, Cardinality(s) <= 0 PROVE g[s] = Step(K, b, c, g, s)
    <3>1. s = {}
      BY <2>1, OneLess
    <3> QED
      BY <3>1 DEF Step
  <2>2. g \in [SUBSET S -> V]
    OBVIOUS
  <2> QED
    BY <2>1, <2>2
<1>2. ASSUME NEW n \in Nat, n \in T PROVE n + 1 \in T
  <2>1. PICK g \in [SUBSET S -> V] :
          \A s \in SUBSET S : Cardinality(s) <= n => g[s] = Step(K, b, c, g, s)
    BY <1>2
  <2> PICK h : h = [s \in SUBSET S |-> IF Cardinality(s) <= n THEN g[s] ELSE Step(K, b, c, g, s)]
    OBVIOUS
  <2>2. h \in [SUBSET S -> V]
    BY <1>0
  <2>3. ASSUME NEW s \in SUBSET S, Cardinality(s) <= n + 1 PROVE h[s] = Step(K, b, c, h, s)
    <3>1. h[s] = Step(K, b, c, g, s)
      BY <2>1
    <3>2. CASE s = {}
      BY <3>1, <3>2 DEF Step
    <3>3. CASE s # {}
      <4>1. c[s] \in s
        BY <1>0, <3>3
      <4>2. s \ {c[s]} \in SUBSET S /\ Cardinality(s \ {c[s]}) <= n
        BY <2>3, <4>1, OneLess
      <4>3. h[s \ {c[s]}] = g[s \ {c[s]}]
        BY <4>2
      <4> QED
        BY <3>1, <3>3, <4>3 DEF Step
    <3> QED
      BY <3>2, <3>3
  <2>4. \A s \in SUBSET S : Cardinality(s) <= n + 1 => h[s] = Step(K, b, c, h, s)
    BY <2>3
  <2>5. n + 1 \in Nat
    OBVIOUS
  <2> QED
    BY <2>2, <2>4, <2>5
<1>3. \A n \in Nat : n \in T
  <2> HIDE DEF T
  <2> QED
    BY <1>1, <1>2, Induct
<1>4. Cardinality(S) \in Nat /\ \A s \in SUBSET S : Cardinality(s) <= Cardinality(S)
  BY OneLess, FS_Subset
<1>5. Cardinality(S) \in T
  BY <1>3, <1>4
<1> QED
  BY <1>4, <1>5 DEF IsWalk

LEMMA FoldExists ==
  ASSUME NEW S, IsFiniteSet(S), NEW f, \A x \in S : f[x] \in Int, NEW c, Chooses(c, S)
  PROVE  \E g : IsFold(f, c, S, g)
<1> PICK V, zero : V = Int /\ zero = 0
  OBVIOUS
<1> PICK K : K = [x \in S |-> [v \in V |-> f[x] + v]]
  OBVIOUS
<1>0. zero \in V /\ Remains(K, S, V)
  BY DEF Remains
<1>1. \A x \in S : \A v \in Int : K[x][v] = f[x] + v
  OBVIOUS
<1>2. PICK h : IsWalk(K, zero, c, S, V, h)
  BY <1>0, WalkExists
<1> PICK g \in [SUBSET S -> Int] : \A s \in SUBSET S : g[s] = Step(K, 0, c, g, s)
  BY <1>2 DEF IsWalk
<1>3. ASSUME NEW s \in SUBSET S PROVE g[s] = Partial(f, c, g, s)
  <2>1. CASE s = {}
    BY <2>1 DEF Step, Partial
  <2>2. CASE s # {}
    <3>1. c[s] \in S /\ g[s \ {c[s]}] \in Int
      BY <2>2 DEF Chooses
    <3>2. g[s] = K[c[s]][g[s \ {c[s]}]]
      BY <2>2 DEF Step
    <3> QED
      BY <1>1, <2>2, <3>1, <3>2 DEF Partial
  <2> QED
    BY <2>1, <2>2
<1>4. IsFold(f, c, S, g)
  BY <1>3 DEF IsFold
<1> QED
  BY <1>4

LEMMA FoldIsInt ==
  ASSUME NEW S, IsFiniteSet(S), NEW f, \A x \in S : f[x] \in Int,
         NEW c, Chooses(c, S), NEW g, IsFold(f, c, S, g)
  PROVE  \A s \in SUBSET S : g[s] \in Int
<1> DEFINE T == {n \in Nat : \A s \in SUBSET S : Cardinality(s) = n => g[s] \in Int}
<1>0. \A s \in SUBSET S : g[s] = Partial(f, c, g, s)
  BY DEF IsFold
<1>1. 0 \in T
  <2>1. ASSUME NEW s \in SUBSET S, Cardinality(s) = 0 PROVE g[s] \in Int
    <3>1. s = {}
      BY <2>1, OneLess
    <3> QED
      BY <1>0, <3>1 DEF Partial
  <2> QED
    BY <2>1
<1>2. ASSUME NEW n \in Nat, n \in T PROVE n + 1 \in T
  <2>1. ASSUME NEW s \in SUBSET S, Cardinality(s) = n + 1 PROVE g[s] \in Int
    <3>1. s # {}
      BY <2>1, OneLess
    <3>2. c[s] \in s
      BY <3>1 DEF Chooses
    <3>3. g[s] = f[c[s]] + g[s \ {c[s]}]
      BY <1>0, <3>1 DEF Partial
    <3>4. s \ {c[s]} \in SUBSET S /\ Cardinality(s \ {c[s]}) = n
      BY <2>1, <3>2, OneLess
    <3> QED
      BY <1>2, <3>2, <3>3, <3>4
  <2> QED
    BY <2>1
<1>3. \A n \in Nat : n \in T
  <2> HIDE DEF T
  <2> QED
    BY <1>1, <1>2, Induct
<1> QED
  BY <1>3, OneLess

(* The order does not matter: any element can be the one taken out last.   *)
LEMMA FoldSplits ==
  ASSUME NEW S, IsFiniteSet(S), NEW f, \A x \in S : f[x] \in Int,
         NEW c, Chooses(c, S), NEW g, IsFold(f, c, S, g)
  PROVE  \A s \in SUBSET S : \A x \in s : g[s] = f[x] + g[s \ {x}]
<1> DEFINE T == {n \in Nat : \A s \in SUBSET S : Cardinality(s) = n =>
                                \A x \in s : g[s] = f[x] + g[s \ {x}]}
<1>0. (\A s \in SUBSET S : g[s] = Partial(f, c, g, s)) /\ (\A s \in SUBSET S : g[s] \in Int)
  <2>1. \A s \in SUBSET S : g[s] = Partial(f, c, g, s)
    BY DEF IsFold
  <2>2. \A s \in SUBSET S : g[s] \in Int
    BY FoldIsInt
  <2> QED
    BY <2>1, <2>2
<1>1. 0 \in T
  BY OneLess
<1>2. ASSUME NEW n \in Nat, n \in T PROVE n + 1 \in T
  <2>1. ASSUME NEW s \in SUBSET S, Cardinality(s) = n + 1, NEW x \in s
        PROVE g[s] = f[x] + g[s \ {x}]
    <3>1. s # {}
      OBVIOUS
    <3>2. PICK y : y = c[s] /\ y \in s /\ y \in S
      BY <3>1 DEF Chooses
    <3>3. g[s] = f[y] + g[s \ {y}]
      BY <1>0, <3>1, <3>2 DEF Partial
    <3>4. CASE x = y
      BY <3>3, <3>4
    <3>5. CASE x # y
      <4>1. /\ s \ {x} \in SUBSET S /\ Cardinality(s \ {x}) = n /\ y \in s \ {x}
            /\ s \ {y} \in SUBSET S /\ Cardinality(s \ {y}) = n /\ x \in s \ {y}
        BY <2>1, <3>2, <3>5, OneLess
      <4>2. g[s \ {y}] = f[x] + g[(s \ {y}) \ {x}] /\ g[s \ {x}] = f[y] + g[(s \ {x}) \ {y}]
        BY <1>2, <4>1
      <4>3. (s \ {y}) \ {x} = (s \ {x}) \ {y}
        OBVIOUS
      <4>4. PICK v \in Int : v = g[(s \ {x}) \ {y}]
        BY <1>0
      <4>5. f[x] \in Int /\ f[y] \in Int
        BY <3>2
      <4>6. g[s] = f[y] + (f[x] + v) /\ g[s \ {x}] = f[y] + v
        BY <3>3, <4>2, <4>3, <4>4
      <4> QED
        BY <4>4, <4>5, <4>6
    <3> QED
      BY <3>4, <3>5
  <2> QED
    BY <2>1
<1>3. \A n \in Nat : n \in T
  <2> HIDE DEF T
  <2> QED
    BY <1>1, <1>2, Induct
<1>4. \A s \in SUBSET S : Cardinality(s) \in Nat
  BY OneLess
<1> QED
  BY <1>3, <1>4

(* What a subset sums to depends on nothing else.                          *)
LEMMA FoldsAgree ==
  ASSUME NEW S, IsFiniteSet(S), NEW f, \A x \in S : f[x] \in Int,
         NEW c, Chooses(c, S), NEW g, IsFold(f, c, S, g),
         NEW T, IsFiniteSet(T), NEW e, \A x \in T : e[x] \in Int,
         NEW d, Chooses(d, T), NEW h, IsFold(e, d, T, h)
  PROVE  \A s \in SUBSET (S \cap T) : (\A x \in s : f[x] = e[x]) => g[s] = h[s]
<1> DEFINE N == {n \in Nat : \A s \in SUBSET (S \cap T) :
                   Cardinality(s) = n /\ (\A x \in s : f[x] = e[x]) => g[s] = h[s]}
<1>0. /\ \A s \in SUBSET S : g[s] = Partial(f, c, g, s)
      /\ \A s \in SUBSET T : h[s] = Partial(e, d, h, s)
  BY DEF IsFold
<1>1. 0 \in N
  BY <1>0, OneLess DEF Partial
<1>2. ASSUME NEW n \in Nat, n \in N PROVE n + 1 \in N
  <2>1. ASSUME NEW s \in SUBSET (S \cap T), Cardinality(s) = n + 1, \A x \in s : f[x] = e[x]
        PROVE g[s] = h[s]
    <3>0. s \in SUBSET S /\ s \in SUBSET T
      OBVIOUS
    <3>1. s # {}
      BY <2>1, <3>0, OneLess
    <3>2. PICK x \in s : TRUE
      BY <3>1
    <3>3. g[s] = f[x] + g[s \ {x}]
      BY <3>0, FoldSplits
    <3>4. h[s] = e[x] + h[s \ {x}]
      BY <3>0, FoldSplits
    <3>5. s \ {x} \in SUBSET (S \cap T) /\ Cardinality(s \ {x}) = n
      BY <2>1, <3>0, OneLess
    <3>6. g[s \ {x}] = h[s \ {x}]
      BY <1>2, <2>1, <3>5
    <3> QED
      BY <2>1, <3>3, <3>4, <3>6
  <2> QED
    BY <2>1
<1>3. \A n \in Nat : n \in N
  <2> HIDE DEF N
  <2> QED
    BY <1>1, <1>2, Induct
<1>4. ASSUME NEW s \in SUBSET (S \cap T) PROVE Cardinality(s) \in Nat
  BY OneLess
<1> QED
  BY <1>3, <1>4

-----------------------------------------------------------------------------
(* The sum of f over a finite set, whatever the order.                     *)
IsSum(f, S, v) == \E c, g : Chooses(c, S) /\ IsFold(f, c, S, g) /\ v = g[S]
Sum(f, S) == CHOOSE v : IsSum(f, S, v)

LEMMA SumIs ==
  ASSUME NEW S, IsFiniteSet(S), NEW f, \A x \in S : f[x] \in Int
  PROVE  IsSum(f, S, Sum(f, S)) /\ Sum(f, S) \in Int
<1> PICK c : c = [s \in (SUBSET S) \ {{}} |-> CHOOSE x \in s : TRUE]
  OBVIOUS
<1>1. Chooses(c, S)
  <2>1. ASSUME NEW s \in (SUBSET S) \ {{}} PROVE (CHOOSE x \in s : TRUE) \in s
    <3>1. s # {}
      OBVIOUS
    <3> QED
      BY <3>1
  <2> QED
    BY <2>1 DEF Chooses
<1>2. PICK g : IsFold(f, c, S, g)
  BY <1>1, FoldExists
<1>3. IsSum(f, S, g[S])
  BY <1>1, <1>2 DEF IsSum
<1>4. IsSum(f, S, Sum(f, S))
  BY <1>3 DEF Sum
<1>5. Sum(f, S) \in Int
  BY <1>4, FoldIsInt DEF IsSum
<1> QED
  BY <1>4, <1>5

LEMMA SumSame ==
  ASSUME NEW S, IsFiniteSet(S), NEW f, \A x \in S : f[x] \in Int,
         NEW e, \A x \in S : e[x] = f[x], NEW v, IsSum(e, S, v)
  PROVE  v = Sum(f, S)
<1>1. PICK c, g : Chooses(c, S) /\ IsFold(f, c, S, g) /\ Sum(f, S) = g[S]
  BY SumIs DEF IsSum
<1>2. PICK d, h : Chooses(d, S) /\ IsFold(e, d, S, h) /\ v = h[S]
  BY DEF IsSum
<1>3. \A x \in S : e[x] \in Int
  OBVIOUS
<1>4. \A s \in SUBSET (S \cap S) : (\A x \in s : f[x] = e[x]) => g[s] = h[s]
  BY <1>1, <1>2, <1>3, FoldsAgree
<1>5. g[S] = h[S]
  BY <1>4
<1> QED
  BY <1>1, <1>2, <1>5

LEMMA SumOf ==
  ASSUME NEW S, IsFiniteSet(S), NEW f, \A x \in S : f[x] \in Int,
         NEW e, \A x \in S : e[x] = f[x]
  PROVE  Sum(e, S) = Sum(f, S)
BY SumIs, SumSame

LEMMA SumOfNone ==
  ASSUME NEW f
  PROVE  Sum(f, {}) = 0
<1>1. PICK c, g : Chooses(c, {}) /\ IsFold(f, c, {}, g) /\ Sum(f, {}) = g[{}]
  BY SumIs, FS_EmptySet DEF IsSum
<1> QED
  BY <1>1 DEF IsFold, Partial

LEMMA SumSplits ==
  ASSUME NEW S, IsFiniteSet(S), NEW f, \A x \in S : f[x] \in Int, NEW x \in S
  PROVE  Sum(f, S) = f[x] + Sum(f, S \ {x})
<1>0. IsFiniteSet(S \ {x}) /\ S \ {x} \in SUBSET S
  BY FS_Subset
<1>1. PICK c, g : Chooses(c, S) /\ IsFold(f, c, S, g) /\ Sum(f, S) = g[S]
  BY SumIs DEF IsSum
<1>2. PICK d, h : /\ Chooses(d, S \ {x}) /\ IsFold(f, d, S \ {x}, h)
                  /\ Sum(f, S \ {x}) = h[S \ {x}]
  BY <1>0, SumIs DEF IsSum
<1>3. \A s \in SUBSET (S \cap (S \ {x})) : (\A y \in s : f[y] = f[y]) => g[s] = h[s]
  BY <1>0, <1>1, <1>2, FoldsAgree
<1>4. g[S \ {x}] = h[S \ {x}]
  BY <1>3
<1>5. g[S] = f[x] + g[S \ {x}]
  BY <1>1, FoldSplits
<1> QED
  BY <1>1, <1>2, <1>4, <1>5

(* More of them, none negative, sum to no less.                            *)
LEMMA SumGrows ==
  ASSUME NEW S, IsFiniteSet(S), NEW f, \A x \in S : f[x] \in Nat, NEW R \in SUBSET S
  PROVE  Sum(f, R) \in Nat /\ Sum(f, R) <= Sum(f, S)
<1>0. \A x \in S : f[x] \in Int
  OBVIOUS
<1> DEFINE T == {n \in Nat : \A s, r \in SUBSET S :
                   Cardinality(s) = n /\ r \subseteq s => Sum(f, r) \in Nat /\ Sum(f, r) <= Sum(f, s)}
<1>1. 0 \in T
  <2>1. ASSUME NEW s \in SUBSET S, NEW r \in SUBSET S, Cardinality(s) = 0, r \subseteq s
        PROVE Sum(f, r) \in Nat /\ Sum(f, r) <= Sum(f, s)
    <3>1. s = {} /\ r = {}
      BY <2>1, OneLess
    <3> QED
      BY <3>1, SumOfNone
  <2> QED
    BY <2>1
<1>2. ASSUME NEW n \in Nat, n \in T PROVE n + 1 \in T
  <2>1. ASSUME NEW s \in SUBSET S, NEW r \in SUBSET S, Cardinality(s) = n + 1, r \subseteq s
        PROVE Sum(f, r) \in Nat /\ Sum(f, r) <= Sum(f, s)
    <3>0. s # {}
      BY <2>1, OneLess
    <3>1. ASSUME NEW x \in s
          PROVE /\ Sum(f, s) = f[x] + Sum(f, s \ {x}) /\ f[x] \in Nat
                /\ \A q \in SUBSET S : q \subseteq s \ {x}
                     => Sum(f, q) \in Nat /\ Sum(f, q) <= Sum(f, s \ {x})
      <4>1. s \ {x} \in SUBSET S /\ Cardinality(s \ {x}) = n
        BY <2>1, OneLess
      <4>2. IsFiniteSet(s) /\ \A y \in s : f[y] \in Int
        BY OneLess
      <4>3. Sum(f, s) = f[x] + Sum(f, s \ {x})
        BY <4>2, SumSplits
      <4> QED
        BY <1>2, <4>1, <4>3
    <3>2. CASE r = s
      <4>1. PICK x \in s : TRUE
        BY <3>0
      <4>2. s \ {x} \in SUBSET S /\ s \ {x} \subseteq s \ {x}
        OBVIOUS
      <4>3. Sum(f, s \ {x}) \in Nat
        BY <3>1, <4>2
      <4>4. Sum(f, s) = f[x] + Sum(f, s \ {x}) /\ f[x] \in Nat
        BY <3>1
      <4> QED
        BY <3>2, <4>3, <4>4
    <3>3. CASE r # s
      <4>1. PICK x \in s : x \notin r
        BY <2>1, <3>3
      <4>2. Sum(f, r) \in Nat /\ Sum(f, r) <= Sum(f, s \ {x})
        BY <2>1, <3>1, <4>1
      <4>3. s \ {x} \in SUBSET S /\ s \ {x} \subseteq s \ {x}
        OBVIOUS
      <4>4. Sum(f, s \ {x}) \in Nat
        BY <3>1, <4>3
      <4>5. Sum(f, s) = f[x] + Sum(f, s \ {x}) /\ f[x] \in Nat
        BY <3>1
      <4> QED
        BY <4>2, <4>4, <4>5
    <3> QED
      BY <3>2, <3>3
  <2> QED
    BY <2>1
<1>3. \A n \in Nat : n \in T
  <2> HIDE DEF T
  <2> QED
    BY <1>1, <1>2, Induct
<1>4. Cardinality(S) \in Nat
  BY OneLess
<1> QED
  BY <1>3, <1>4

LEMMA SumOne ==
  ASSUME NEW f, NEW x, f[x] \in Int
  PROVE  Sum(f, {x}) = f[x]
<1>1. IsFiniteSet({x})
  BY FS_Singleton
<1>2. Sum(f, {x}) = f[x] + Sum(f, {x} \ {x})
  BY <1>1, SumSplits
<1>3. {x} \ {x} = {}
  OBVIOUS
<1> QED
  BY <1>2, <1>3, SumOfNone

LEMMA SumOfZeros ==
  ASSUME NEW S, IsFiniteSet(S), NEW f, \A x \in S : f[x] = 0
  PROVE  Sum(f, S) = 0
<1> DEFINE T == {n \in Nat : \A s \in SUBSET S : Cardinality(s) = n => Sum(f, s) = 0}
<1>1. 0 \in T
  <2>1. ASSUME NEW s \in SUBSET S, Cardinality(s) = 0 PROVE Sum(f, s) = 0
    <3>1. s = {}
      BY <2>1, OneLess
    <3> QED
      BY <3>1, SumOfNone
  <2> QED
    BY <2>1
<1>2. ASSUME NEW n \in Nat, n \in T PROVE n + 1 \in T
  <2>1. ASSUME NEW s \in SUBSET S, Cardinality(s) = n + 1 PROVE Sum(f, s) = 0
    <3>1. s # {}
      BY <2>1, OneLess
    <3>2. PICK x \in s : TRUE
      BY <3>1
    <3>3. s \ {x} \in SUBSET S /\ Cardinality(s \ {x}) = n
      BY <2>1, OneLess
    <3>4. IsFiniteSet(s) /\ \A y \in s : f[y] \in Int
      BY OneLess
    <3>5. Sum(f, s) = f[x] + Sum(f, s \ {x})
      BY <3>4, SumSplits
    <3> QED
      BY <1>2, <3>3, <3>5
  <2> QED
    BY <2>1
<1>3. \A n \in Nat : n \in T
  <2> HIDE DEF T
  <2> QED
    BY <1>1, <1>2, Induct
<1>4. Cardinality(S) \in Nat
  BY OneLess
<1> QED
  BY <1>3, <1>4

LEMMA SumLeq ==
  ASSUME NEW S, IsFiniteSet(S), NEW f, \A x \in S : f[x] \in Nat,
         NEW e, \A x \in S : e[x] \in Nat /\ f[x] <= e[x]
  PROVE  Sum(f, S) \in Nat /\ Sum(e, S) \in Nat /\ Sum(f, S) <= Sum(e, S)
<1> DEFINE Leq(s) == Sum(f, s) \in Nat /\ Sum(e, s) \in Nat /\ Sum(f, s) <= Sum(e, s)
           T == {n \in Nat : \A s \in SUBSET S : Cardinality(s) = n => Leq(s)}
<1>1. 0 \in T
  <2>1. ASSUME NEW s \in SUBSET S, Cardinality(s) = 0 PROVE Leq(s)
    <3>1. s = {}
      BY <2>1, OneLess
    <3> QED
      BY <3>1, SumOfNone
  <2> QED
    BY <2>1
<1>2. ASSUME NEW n \in Nat, n \in T PROVE n + 1 \in T
  <2>1. ASSUME NEW s \in SUBSET S, Cardinality(s) = n + 1 PROVE Leq(s)
    <3>1. s # {}
      BY <2>1, OneLess
    <3>2. PICK x \in s : TRUE
      BY <3>1
    <3>3. s \ {x} \in SUBSET S /\ Cardinality(s \ {x}) = n
      BY <2>1, OneLess
    <3>4. IsFiniteSet(s) /\ \A y \in s : f[y] \in Int /\ e[y] \in Int
      BY OneLess
    <3>5. Sum(f, s) = f[x] + Sum(f, s \ {x}) /\ Sum(e, s) = e[x] + Sum(e, s \ {x})
      BY <3>4, SumSplits
    <3>6. Leq(s \ {x})
      BY <1>2, <3>3
    <3> QED
      BY <3>5, <3>6
  <2> QED
    BY <2>1
<1>3. \A n \in Nat : n \in T
  <2> HIDE DEF T
  <2> QED
    BY <1>1, <1>2, Induct
<1>4. Cardinality(S) \in Nat
  BY OneLess
<1>5. Leq(S)
  BY <1>3, <1>4
<1> QED
  BY <1>5

LEMMA SumAdds ==
  ASSUME NEW S, IsFiniteSet(S), NEW x, x \notin S, NEW f, \A y \in S \cup {x} : f[y] \in Int
  PROVE  Sum(f, S \cup {x}) = f[x] + Sum(f, S)
<1>1. IsFiniteSet(S \cup {x}) /\ (S \cup {x}) \ {x} = S
  BY FS_AddElement
<1> QED
  BY <1>1, SumSplits

LEMMA SumBump ==
  ASSUME NEW S, IsFiniteSet(S), NEW f, \A y \in S : f[y] \in Int,
         NEW x \in S, NEW d \in Int, NEW e, e[x] = f[x] + d, \A y \in S \ {x} : e[y] = f[y]
  PROVE  Sum(e, S) = Sum(f, S) + d
<1>1. IsFiniteSet(S \ {x}) /\ \A y \in S : e[y] \in Int
  BY FS_Subset
<1>2. Sum(e, S) = e[x] + Sum(e, S \ {x}) /\ Sum(f, S) = f[x] + Sum(f, S \ {x})
  BY <1>1, SumSplits
<1>3. Sum(e, S \ {x}) = Sum(f, S \ {x})
  BY <1>1, SumOf
<1>4. Sum(f, S \ {x}) \in Int /\ f[x] \in Int
  BY <1>1, SumIs
<1> QED
  BY <1>2, <1>3, <1>4

(* MapThenSumSet has the fold that takes what CHOOSE takes.                *)
Unfolds(f, S, h) ==
  h = [s \in SUBSET S |->
         IF s = {} THEN 0 ELSE f[CHOOSE x \in s : TRUE] + h[s \ {CHOOSE x \in s : TRUE}]]

LEMMA Unfolded ==
  ASSUME NEW S, IsFiniteSet(S), NEW f, \A x \in S : f[x] \in Int
  PROVE  (\E h : Unfolds(f, S, h)) /\ \A h : Unfolds(f, S, h) => h[S] = Sum(f, S)
<1> PICK c : c = [s \in (SUBSET S) \ {{}} |-> CHOOSE x \in s : TRUE]
  OBVIOUS
<1>1. Chooses(c, S) /\ \A s \in (SUBSET S) \ {{}} : c[s] = (CHOOSE x \in s : TRUE)
  <2>1. ASSUME NEW s \in (SUBSET S) \ {{}} PROVE (CHOOSE x \in s : TRUE) \in s
    <3>1. s # {}
      OBVIOUS
    <3> QED
      BY <3>1
  <2> QED
    BY <2>1 DEF Chooses
<1>2. \A h : Unfolds(f, S, h) <=> IsFold(f, c, S, h)
  <2> SUFFICES ASSUME NEW h, NEW s \in SUBSET S
               PROVE Partial(f, c, h, s)
                       = IF s = {} THEN 0
                         ELSE f[CHOOSE x \in s : TRUE] + h[s \ {CHOOSE x \in s : TRUE}]
    BY DEF IsFold, Unfolds
  <2>1. CASE s = {}
    BY <2>1 DEF Partial
  <2>2. CASE s # {}
    <3>1. c[s] = (CHOOSE x \in s : TRUE)
      BY <1>1, <2>2
    <3>2. Partial(f, c, h, s) = f[c[s]] + h[s \ {c[s]}]
      BY <2>2 DEF Partial
    <3> QED
      BY <2>2, <3>1, <3>2
  <2> QED
    BY <2>1, <2>2
<1>3. ASSUME NEW h, IsFold(f, c, S, h) PROVE h[S] = Sum(f, S)
  <2>1. IsSum(f, S, h[S])
    BY <1>1, <1>3 DEF IsSum
  <2> QED
    BY <2>1, SumSame
<1> QED
  BY <1>1, <1>2, <1>3, FoldExists

-----------------------------------------------------------------------------
(* What a client has heard, and the attempts made for it, as sets.         *)
Heard(r) == {sent[r][n] : n \in 1..Len(sent[r])}
Tries(r) == {tried[r][n] : n \in 1..Len(tried[r])}

(* A step of request r touches the locals, answers and attempts of no      *)
(* other.                                                                  *)
Only(r) ==
  \A q \in Requests \ {r} :
    req'[q] = req[q] /\ sent'[q] = sent[q] /\ tried'[q] = tried[q]

LEMMA Says ==
  ASSUME NEW r \in Requests, NEW item \in Item, sent \in [Requests -> Seq(Item)],
         Sends(r, <<item>>) \/ Sends(r, <<item, item>>)
  PROVE  /\ sent' \in [Requests -> Seq(Item)]
         /\ \A q \in Requests \ {r} : sent'[q] = sent[q]
         /\ Heard(r)' = Heard(r) \cup {item}
<1>1. PICK items : Sends(r, items) /\ (items = <<item>> \/ items = <<item, item>>)
  OBVIOUS
<1>2. /\ items \in Seq(Item) /\ Len(items) \in 1..2
      /\ \A n \in 1..Len(items) : items[n] = item
  <2>1. CASE items = <<item>>
    BY <2>1
  <2>2. CASE items = <<item, item>>
    BY <2>2
  <2> QED
    BY <1>1, <2>1, <2>2
<1>3. /\ sent[r] \o items \in Seq(Item)
      /\ Len(sent[r] \o items) = Len(sent[r]) + Len(items)
      /\ \A n \in 1..(Len(sent[r]) + Len(items)) :
           (sent[r] \o items)[n] = IF n <= Len(sent[r]) THEN sent[r][n] ELSE items[n - Len(sent[r])]
  BY <1>2, ConcatProperties
<1>4. /\ sent' \in [Requests -> Seq(Item)] /\ sent'[r] = sent[r] \o items
      /\ \A q \in Requests \ {r} : sent'[q] = sent[q]
  BY <1>1, <1>3 DEF Sends
<1>5. Len(sent[r]) \in Nat
  BY LenProperties
<1>6. Heard(r)' = Heard(r) \cup {item}
  <2>1. \A x \in Heard(r)' : x \in Heard(r) \cup {item}
    BY <1>2, <1>3, <1>4, <1>5 DEF Heard
  <2>2. \A x \in Heard(r) : x \in Heard(r)'
    <3>1. ASSUME NEW n \in 1..Len(sent[r]) PROVE sent[r][n] = sent'[r][n] /\ n \in 1..Len(sent'[r])
      BY <1>2, <1>3, <1>4, <1>5
    <3> QED
      BY <3>1 DEF Heard
  <2>3. item \in Heard(r)'
    <3> DEFINE n == Len(sent[r]) + 1
    <3>0. \A m \in Nat, k \in 1..2 :
            m + 1 \in 1..(m + k) /\ ~(m + 1 <= m) /\ (m + 1) - m = 1 /\ 1 \in 1..k
      OBVIOUS
    <3>1. /\ n \in 1..(Len(sent[r]) + Len(items)) /\ ~(n <= Len(sent[r]))
          /\ n - Len(sent[r]) = 1 /\ 1 \in 1..Len(items)
      BY <1>2, <1>5, <3>0
    <3>2. (sent[r] \o items)[n] = items[1] /\ items[1] = item
      BY <1>2, <1>3, <3>1
    <3> QED
      BY <1>3, <1>4, <3>1, <3>2 DEF Heard
  <2> QED
    BY <2>1, <2>2, <2>3
<1> QED
  BY <1>4, <1>6

LEMMA Attempted ==
  ASSUME NEW r \in Requests, NEW outcome, NEW reported, tried \in [Requests -> Seq(Attempt)],
         [by |-> req[r].at, outcome |-> outcome, reported |-> reported] \in Attempt,
         Ended(r, outcome, reported)
  PROVE  /\ tried' \in [Requests -> Seq(Attempt)]
         /\ \A q \in Requests \ {r} : tried'[q] = tried[q]
         /\ Tries(r)' = Tries(r) \cup
              {[by |-> req[r].at, outcome |-> outcome, reported |-> reported]}
<1> DEFINE new == [by |-> req[r].at, outcome |-> outcome, reported |-> reported]
<1>1. /\ Append(tried[r], new) \in Seq(Attempt)
      /\ Len(Append(tried[r], new)) = Len(tried[r]) + 1
      /\ \A n \in 1..Len(tried[r]) : Append(tried[r], new)[n] = tried[r][n]
      /\ Append(tried[r], new)[Len(tried[r]) + 1] = new
  BY AppendProperties
<1>2. /\ tried' \in [Requests -> Seq(Attempt)] /\ tried'[r] = Append(tried[r], new)
      /\ \A q \in Requests \ {r} : tried'[q] = tried[q]
  BY <1>1 DEF Ended
<1>3. Len(tried[r]) \in Nat
  BY LenProperties
<1> HIDE DEF new
<1>4. Tries(r)' = Tries(r) \cup {new}
  <2>1. \A x \in Tries(r)' : x \in Tries(r) \cup {new}
    BY <1>1, <1>2, <1>3 DEF Tries
  <2>2. \A x \in Tries(r) : x \in Tries(r)'
    <3>1. ASSUME NEW n \in 1..Len(tried[r])
          PROVE  tried[r][n] = tried'[r][n] /\ n \in 1..Len(tried'[r])
      BY <1>1, <1>2, <1>3
    <3> QED
      BY <3>1 DEF Tries
  <2>3. new \in Tries(r)'
    <3>1. Len(tried[r]) + 1 \in 1..Len(tried'[r]) /\ tried'[r][Len(tried[r]) + 1] = new
      BY <1>1, <1>2, <1>3
    <3> QED
      BY <3>1 DEF Tries
  <2> QED
    BY <2>1, <2>2, <2>3
<1> QED
  BY <1>2, <1>4 DEF new

-----------------------------------------------------------------------------
(* The counters.                                                           *)
Holders(p) == {r \in Requests : req[r].at = p}

LEMMA HoldersCounted ==
  \A p : IsFiniteSet(Holders(p)) /\ Cardinality(Holders(p)) \in Nat
BY FailoverAssumption, FS_Subset, FS_CardinalityType DEF Holders

(* r takes a provider, or leaves the one it holds.                         *)
LEMMA Taken ==
  ASSUME TypeOK, InFlightExact, NEW r \in Requests, NEW p \in Providers,
         req[r].at = Nobody, req'[r].at = p,
         \A q \in Requests \ {r} : req'[q].at = req[q].at,
         inflight' = [inflight EXCEPT ![p] = @ + 1], UNCHANGED releasing
  PROVE  InFlightExact'
<1> USE FailoverAssumption DEF Nobody
<1>1. Holders(p)' = Holders(p) \cup {r} /\ r \notin Holders(p)
  BY DEF Holders
<1>2. Cardinality(Holders(p)') = Cardinality(Holders(p)) + 1
  BY <1>1, HoldersCounted, FS_AddElement
<1>3. ASSUME NEW q \in Providers, q # p PROVE Holders(q)' = Holders(q)
  BY <1>3 DEF Holders
<1>4. ASSUME NEW q \in Providers
      PROVE  inflight'[q] = Cardinality(Holders(q)') + releasing'[q]
  <2>1. inflight[q] = Cardinality(Holders(q)) + releasing[q]
        /\ inflight \in [Providers -> Nat] /\ releasing[q] \in Nat
    BY DEF InFlightExact, Holders, TypeOK
  <2> QED
    BY <1>2, <1>3, <2>1, HoldersCounted
<1> QED
  BY <1>4 DEF InFlightExact, Holders

LEMMA Left ==
  ASSUME TypeOK, InFlightExact, NEW r \in Requests, NEW p \in Providers,
         req[r].at = p, req'[r].at = Nobody,
         \A q \in Requests \ {r} : req'[q].at = req[q].at,
         Release(p), UNCHANGED inflight
  PROVE  InFlightExact'
<1> USE FailoverAssumption DEF Nobody
<1>1. Holders(p)' = Holders(p) \ {r} /\ r \in Holders(p)
  BY DEF Holders
<1>2. Cardinality(Holders(p)') = Cardinality(Holders(p)) - 1
  BY <1>1, HoldersCounted, FS_RemoveElement, ZenonT(40)
<1>3. ASSUME NEW q \in Providers, q # p PROVE Holders(q)' = Holders(q)
  BY <1>3 DEF Holders
<1>4. ASSUME NEW q \in Providers
      PROVE  inflight'[q] = Cardinality(Holders(q)') + releasing'[q]
  <2>1. inflight[q] = Cardinality(Holders(q)) + releasing[q]
        /\ inflight[q] \in Nat /\ releasing \in [Providers -> Nat]
    BY DEF InFlightExact, Holders, TypeOK
  <2>2. releasing' = [releasing EXCEPT ![p] = @ + 1]
    BY DEF Release
  <2> QED
    BY <1>2, <1>3, <2>1, <2>2, HoldersCounted
<1> QED
  BY <1>4 DEF InFlightExact, Holders

LEMMA Untouched ==
  ASSUME InFlightExact, \A q \in Requests : req'[q].at = req[q].at,
         UNCHANGED <<inflight, releasing>>
  PROVE  InFlightExact'
<1>1. \A p \in Providers : Holders(p)' = Holders(p)
  BY DEF Holders
<1> QED
  BY <1>1 DEF InFlightExact, Holders

LEMMA Decremented ==
  ASSUME TypeOK, InFlightExact, NEW p \in Providers, Decrement(p)
  PROVE  InFlightExact'
<1>1. \A q \in Providers : Holders(q)' = Holders(q)
  BY DEF Holders, Decrement
<1>2. ASSUME NEW q \in Providers
      PROVE  inflight'[q] = Cardinality(Holders(q)) + releasing'[q]
  <2>1. /\ inflight[q] = Cardinality(Holders(q)) + releasing[q]
        /\ inflight \in [Providers -> Nat] /\ releasing \in [Providers -> Nat]
    BY DEF InFlightExact, Holders, TypeOK
  <2> QED
    BY <2>1, HoldersCounted DEF Decrement
<1> QED
  BY <1>1, <1>2 DEF InFlightExact, Holders

-----------------------------------------------------------------------------
(* The locals of a request, what its client has heard, and the attempts    *)
(* made for it.                                                            *)
LocalsInv(r) ==
  LET L == req[r] IN
  /\ L.at # Nobody <=> L.pc \in {"calling", "streaming"}
  /\ L.pc = "calling" => L.mine = 0 /\ ~L.content
  /\ L.pc = "calling" =>
       IF L.op = "capability" THEN L.attempt < MaxRetries ELSE L.attempt > 0
  /\ L.pc = "streaming" => L.op = "stream" /\ (L.content => L.mine > 0)
  /\ L.pc = "idle" =>
       ~L.yielded /\ ~L.second /\ Heard(r) = {} /\ Tries(r) = {}

(* Content that was sent is of the attempt that holds the stream: no       *)
(* attempt begins after it.                                                *)
VoiceInv(r) ==
  /\ \A x \in Heard(r) : x.what = "content" =>
       \/ req[r].pc = "streaming" /\ req[r].content /\ x.from = req[r].at
       \/ req[r].pc \in {"done", "dropped"}
  /\ \A x, y \in Heard(r) : x.what = "content" /\ y.what = "content" => x.from = y.from

IsAnswer(x) == x.what \in {"answer", "content", "filter"}
IsFailure(x) == x.what = "error" /\ x.from \notin {"unsupported", Nobody}
Told(r) == \E x \in Heard(r) : IsAnswer(x) \/ IsFailure(x)

(* A request that may end without a word has said something before.        *)
Answered(r) == \E x \in Heard(r) : IsAnswer(x)
Concluded(r) == Answered(r) \/ \E x \in Heard(r) : x.what = "error"
Between(r) ==
  \/ req[r].pc \in {"next", "calling", "backoff"}
  \/ req[r].pc = "streaming" /\ req[r].mine = 0
EndInv(r) ==
  /\ req[r].pc = "done" => Concluded(r)
  /\ req[r].pc = "streaming" /\ req[r].content => Answered(r)
  /\ req[r].yielded /\ Between(r) => Told(r)

Fails(t) == t.outcome \in {"transient", "fatal", "client", "empty"}

(* A failure is remembered until the client is told.                       *)
FailureInv(r) ==
  req[r].op # "responses" /\ ~req[r].second /\ (\E t \in Tries(r) : Fails(t)) =>
    \/ Told(r)
    \/ req[r].pc \in Active /\ req[r].last \notin {"unsupported", Nobody}
    \/ req[r].pc = "dropped"

RequestInv(r) == LocalsInv(r) /\ VoiceInv(r) /\ EndInv(r) /\ FailureInv(r)

IInv ==
  /\ TypeOK
  /\ InFlightExact
  /\ \A r \in Requests : RequestInv(r)

(* What a step of r must show.                                             *)
Good(r) == TypeOK' /\ InFlightExact' /\ Only(r) /\ RequestInv(r)'

LEMMA Others ==
  ASSUME IInv, NEW r \in Requests, Good(r)
  PROVE  IInv'
<1>1. ASSUME NEW q \in Requests, q # r PROVE RequestInv(q)'
  <2>1. req'[q] = req[q] /\ Heard(q)' = Heard(q) /\ Tries(q)' = Tries(q)
    BY <1>1 DEF Good, Only, Heard, Tries
  <2>2. RequestInv(q)
    BY DEF IInv
  <2>3. LocalsInv(q)' /\ VoiceInv(q)'
    BY <2>1, <2>2 DEF RequestInv, LocalsInv, VoiceInv
  <2>4. EndInv(q)' /\ FailureInv(q)'
    BY <2>1, <2>2 DEF RequestInv, EndInv, FailureInv, Told, Answered, Concluded, Between
  <2> QED
    BY <2>3, <2>4 DEF RequestInv
<1> QED
  BY <1>1 DEF IInv, Good

(* The locals of r become L.                                               *)
LEMMA Moved ==
  ASSUME TypeOK, NEW r \in Requests, NEW L \in Locals, Goes(r, L)
  PROVE  /\ req' \in [Requests -> Locals] /\ req'[r] = L
         /\ \A q \in Requests \ {r} : req'[q] = req[q]
BY DEF TypeOK, Goes

LEMMA NothingSaid ==
  ASSUME NEW r \in Requests, UNCHANGED sent
  PROVE  Heard(r)' = Heard(r)
BY DEF Heard

LEMMA NothingTried ==
  ASSUME NEW r \in Requests, UNCHANGED tried
  PROVE  Tries(r)' = Tries(r)
BY DEF Tries

(* What a step of r leaves alone, and the types of what it writes.         *)
Rewrites(r) ==
  /\ sent' \in [Requests -> Seq(Item)] /\ tried' \in [Requests -> Seq(Attempt)]
  /\ \A q \in Requests \ {r} : sent'[q] = sent[q] /\ tried'[q] = tried[q]
  /\ pin' \in [Requests -> Providers \cup {Nobody}] /\ drops' \in 0..MaxDrops

LEMMA Stays ==
  ASSUME IInv, NEW r \in Requests, NEW L \in Locals, Goes(r, L), Rewrites(r),
         L.at = req[r].at, UNCHANGED <<inflight, releasing>>
  PROVE  TypeOK' /\ InFlightExact' /\ Only(r) /\ req'[r] = L
<1>1. TypeOK /\ InFlightExact
  BY DEF IInv
<1>2. /\ req' \in [Requests -> Locals] /\ req'[r] = L
      /\ \A q \in Requests \ {r} : req'[q] = req[q]
  BY <1>1, Moved
<1>3. TypeOK'
  BY <1>1, <1>2 DEF TypeOK, Rewrites
<1>4. InFlightExact'
  BY <1>1, <1>2, Untouched
<1> QED
  BY <1>2, <1>3, <1>4 DEF Only, Rewrites

LEMMA Leaving ==
  ASSUME IInv, NEW r \in Requests, NEW L \in Locals, Goes(r, L), Rewrites(r),
         L.at = Nobody, req[r].pc \in {"calling", "streaming"},
         Release(req[r].at), UNCHANGED inflight
  PROVE  TypeOK' /\ InFlightExact' /\ Only(r) /\ req'[r] = L
<1>1. TypeOK /\ InFlightExact
  BY DEF IInv
<1>2. /\ req' \in [Requests -> Locals] /\ req'[r] = L
      /\ \A q \in Requests \ {r} : req'[q] = req[q]
  BY <1>1, Moved
<1>3. req[r].at \in Providers
  <2>1. req[r].at \in Providers \cup {Nobody}
    BY <1>1 DEF TypeOK, Locals
  <2> QED
    BY <2>1 DEF IInv, RequestInv, LocalsInv
<1>4. releasing' \in [Providers -> Nat]
  BY <1>1, <1>3 DEF TypeOK, Release
<1>5. TypeOK'
  BY <1>1, <1>2, <1>4 DEF TypeOK, Rewrites
<1>6. InFlightExact'
  BY <1>1, <1>2, <1>3, Left
<1> QED
  BY <1>2, <1>5, <1>6 DEF Only, Rewrites

(* What is told and tried, in the two forms that steps have.               *)
LEMMA Mute ==
  ASSUME IInv, NEW r \in Requests, UNCHANGED <<sent, tried, pin>>, drops' \in 0..MaxDrops
  PROVE  Rewrites(r) /\ Heard(r)' = Heard(r) /\ Tries(r)' = Tries(r)
BY DEF IInv, TypeOK, Rewrites, Heard, Tries

-----------------------------------------------------------------------------
(* The candidate loop.                                                     *)
LEMMA BeginGood ==
  ASSUME IInv, NEW r \in Requests, NEW op \in Ops, NEW order \in Lists, NEW rest \in Lists,
         Begin(r, op, order, rest)
  PROVE  Good(r)
<1> DEFINE L == [req[r] EXCEPT !.pc = IF order = << >> THEN "done" ELSE "next",
                               !.op = op, !.todo = order,
                               !.rest = IF op = "capability" THEN rest ELSE << >>]
<1>1. req[r] \in Locals /\ RequestInv(r) /\ req[r].pc = "idle"
  BY DEF IInv, TypeOK, Begin
<1>2. L \in Locals
  <2>1. order \in Seq(Providers) /\ rest \in Seq(Providers) /\ op \in AllOps /\ << >> \in Seq(Providers)
    BY FailoverAssumption
  <2> QED
    BY <1>1, <2>1 DEF Locals, Active
<1>3. Goes(r, L) /\ L.at = req[r].at
  BY <1>1 DEF Begin, Locals
<1>4. UNCHANGED <<tried, pin, drops, inflight, releasing>> /\ Tries(r)' = Tries(r)
  BY DEF Begin, Tries
<1>5. CASE order = << >>
  <2>1. Failure(Nobody) \in Item
    BY DEF Failure, Item, Causes
  <2>2. /\ sent' \in [Requests -> Seq(Item)]
        /\ \A q \in Requests \ {r} : sent'[q] = sent[q]
        /\ Heard(r)' = Heard(r) \cup {Failure(Nobody)}
    BY <1>5, <2>1, Says DEF Begin, IInv, TypeOK
  <2>3. Rewrites(r)
    BY <1>4, <2>2 DEF Rewrites, IInv, TypeOK
  <2>4. TypeOK' /\ InFlightExact' /\ Only(r) /\ req'[r] = L
    BY <1>2, <1>3, <1>4, <2>3, Stays
  <2>5. L.pc = "done" /\ L.yielded = req[r].yielded /\ L.at = req[r].at
    BY <1>1, <1>5 DEF Locals
  <2>6. LocalsInv(r)'
    BY <1>1, <1>4, <2>2, <2>4, <2>5 DEF RequestInv, LocalsInv
  <2>7. VoiceInv(r)'
    BY <1>1, <2>2, <2>4, <2>5 DEF RequestInv, LocalsInv, VoiceInv, Failure
  <2>8. EndInv(r)'
    <3>1. Concluded(r)'
      <4>1. Failure(Nobody) \in Heard(r)' /\ Failure(Nobody).what = "error"
        BY <2>2 DEF Failure
      <4> QED
        BY <4>1 DEF Concluded
    <3> QED
      BY <3>1, <2>4, <2>5 DEF EndInv, Between
  <2>9. FailureInv(r)'
    BY <1>1, <1>4, <2>4 DEF RequestInv, LocalsInv, FailureInv
  <2> QED
    BY <2>4, <2>6, <2>7, <2>8, <2>9 DEF Good, RequestInv
<1>6. CASE order # << >>
  <2>1. Rewrites(r) /\ Heard(r)' = Heard(r)
    BY <1>4, <1>6, Mute DEF Begin, IInv, TypeOK
  <2>2. TypeOK' /\ InFlightExact' /\ Only(r) /\ req'[r] = L
    BY <1>2, <1>3, <1>4, <2>1, Stays
  <2>3. L.pc = "next" /\ L.yielded = req[r].yielded /\ L.at = req[r].at
    BY <1>1, <1>6 DEF Locals
  <2>4. LocalsInv(r)' /\ VoiceInv(r)'
    BY <1>1, <1>4, <2>1, <2>2, <2>3 DEF RequestInv, LocalsInv, VoiceInv
  <2>5. EndInv(r)' /\ FailureInv(r)'
    BY <1>1, <1>4, <2>1, <2>2, <2>3 DEF RequestInv, LocalsInv, EndInv, FailureInv
  <2> QED
    BY <2>2, <2>4, <2>5 DEF Good, RequestInv
<1> QED
  BY <1>5, <1>6

(* Steps that tell nothing, end nothing and hold what they held: the loop  *)
(* between two attempts.                                                   *)
LEMMA LoopGood ==
  ASSUME IInv, NEW r \in Requests, SkipCandidate(r) \/ SecondPass(r) \/ Wake(r)
  PROVE  Good(r)
<1>1. req[r] \in Locals /\ RequestInv(r) /\ UNCHANGED <<sent, tried, pin, drops, inflight, releasing>>
  BY DEF IInv, TypeOK, SkipCandidate, SecondPass, Wake
<1>2. Rewrites(r) /\ Heard(r)' = Heard(r) /\ Tries(r)' = Tries(r)
  BY <1>1, Mute DEF IInv, TypeOK
<1>3. PICK L : /\ L \in Locals /\ Goes(r, L) /\ L.at = req[r].at /\ L.op = req[r].op
               /\ L.pc = "next" /\ req[r].pc \in {"next", "backoff"}
               /\ L.yielded = req[r].yielded
               /\ req[r].second => L.second
               /\ L.last = req[r].last \/ L.second
                    \/ L.last = KeepsFirst(r, "unsupported")
  <2>1. CASE SkipCandidate(r)
    <3> DEFINE L == [req[r] EXCEPT !.todo = Tail(@), !.last = KeepsFirst(r, "unsupported")]
    <3>1. Tail(req[r].todo) \in Seq(Providers)
      BY <1>1, <2>1, HeadTailProperties DEF SkipCandidate, More, Locals
    <3>2. KeepsFirst(r, "unsupported") \in Causes
      BY <1>1 DEF KeepsFirst, Locals, Causes, Errors
    <3>3. L \in Locals /\ Goes(r, L)
      BY <1>1, <2>1, <3>1, <3>2 DEF SkipCandidate, Locals
    <3>4. /\ L.at = req[r].at /\ L.op = req[r].op /\ L.pc = "next" /\ L.yielded = req[r].yielded
          /\ L.second = req[r].second /\ L.last = KeepsFirst(r, "unsupported")
      BY <1>1, <2>1 DEF SkipCandidate, Locals
    <3> QED
      BY <2>1, <3>3, <3>4 DEF SkipCandidate
  <2>2. CASE SecondPass(r)
    <3> DEFINE L == [req[r] EXCEPT !.todo = req[r].rest, !.rest = << >>, !.second = TRUE]
    <3>0. << >> \in Seq(Providers)
      OBVIOUS
    <3>1. L \in Locals /\ Goes(r, L)
      BY <1>1, <2>2, <3>0 DEF SecondPass, Locals
    <3>2. /\ L.at = req[r].at /\ L.op = req[r].op /\ L.pc = "next" /\ L.yielded = req[r].yielded
          /\ L.second
      BY <1>1, <2>2 DEF SecondPass, Locals
    <3> QED
      BY <2>2, <3>1, <3>2 DEF SecondPass
  <2>3. CASE Wake(r)
    <3> DEFINE L == [req[r] EXCEPT !.pc = "next"]
    <3>0. L \in Locals
      BY <1>1 DEF Locals, Active
    <3>1. L \in Locals /\ Goes(r, L)
      BY <2>3, <3>0 DEF Wake
    <3>2. /\ L.at = req[r].at /\ L.op = req[r].op /\ L.pc = "next" /\ L.yielded = req[r].yielded
          /\ L.second = req[r].second /\ L.last = req[r].last
      BY <1>1, <2>3 DEF Wake, Locals
    <3> QED
      BY <2>3, <3>1, <3>2 DEF Wake
  <2> QED
    BY <2>1, <2>2, <2>3
<1>4. TypeOK' /\ InFlightExact' /\ Only(r) /\ req'[r] = L
  BY <1>1, <1>2, <1>3, Stays
<1>5. LocalsInv(r)' /\ VoiceInv(r)'
  BY <1>1, <1>2, <1>3, <1>4 DEF RequestInv, LocalsInv, VoiceInv
<1>7. EndInv(r)'
  <2>1. Told(r)' = Told(r)
    BY <1>2 DEF Told
  <2> QED
    BY <1>1, <1>3, <1>4, <2>1 DEF RequestInv, EndInv, Between
<1>6. FailureInv(r)'
  BY <1>1, <1>2, <1>3, <1>4 DEF RequestInv, FailureInv, Told, KeepsFirst, Active
<1> QED
  BY <1>4, <1>5, <1>6, <1>7 DEF Good, RequestInv

LEMMA TryGood ==
  ASSUME IInv, NEW r \in Requests, TryCandidate(r)
  PROVE  Good(r)
<1> USE FailoverAssumption
<1> DEFINE p == Head(req[r].todo)
           count == IF req[r].op = "capability" THEN req[r].attempt ELSE req[r].attempt + 1
           L == [req[r] EXCEPT !.pc = "calling", !.at = p, !.todo = Tail(req[r].todo),
                               !.mine = 0, !.content = FALSE, !.attempt = count]
<1>1. req[r] \in Locals /\ RequestInv(r) /\ req[r].pc = "next" /\ TypeOK /\ InFlightExact
  BY DEF IInv, TypeOK, TryCandidate
<1>2. req[r].todo \in Seq(Providers) /\ req[r].todo # << >> /\ req[r].attempt < MaxRetries
      /\ req[r].attempt \in 0..MaxRetries
  BY <1>1 DEF TryCandidate, More, Locals
<1>3. p \in Providers /\ Tail(req[r].todo) \in Seq(Providers)
  BY <1>2, HeadTailProperties
<1>4. count \in 0..MaxRetries
      /\ (IF req[r].op = "capability" THEN count < MaxRetries ELSE count > 0)
  BY <1>2
<1>6. Goes(r, L) /\ UNCHANGED <<sent, tried, pin, drops, releasing>>
      /\ inflight' = [inflight EXCEPT ![p] = @ + 1]
  BY DEF TryCandidate
<1> HIDE DEF p, count
<1>5. L \in Locals
  <2>1. /\ "calling" \in Active /\ p \in Providers \cup {Nobody} /\ 0 \in 0..MaxChunks
        /\ count \in 0..MaxRetries
    BY <1>3, <1>4 DEF Active
  <2> QED
    BY <1>1, <1>3, <2>1 DEF Locals
<1>7. /\ L.pc = "calling" /\ L.at = p /\ L.mine = 0 /\ L.content = FALSE /\ L.attempt = count
      /\ L.op = req[r].op /\ L.yielded = req[r].yielded /\ L.second = req[r].second
      /\ L.last = req[r].last
  BY <1>1 DEF Locals
<1> HIDE DEF L
<1>8. /\ req' \in [Requests -> Locals] /\ req'[r] = L
      /\ \A q \in Requests \ {r} : req'[q] = req[q]
  BY <1>1, <1>5, <1>6, Moved
<1>9. Rewrites(r) /\ Heard(r)' = Heard(r) /\ Tries(r)' = Tries(r)
  BY <1>1, <1>6, Mute DEF TypeOK
<1>10. req[r].at = Nobody
  BY <1>1 DEF RequestInv, LocalsInv
<1>11. InFlightExact'
  BY <1>1, <1>3, <1>6, <1>7, <1>8, <1>10, Taken
<1>12. TypeOK' /\ Only(r)
  <2>1. inflight' \in [Providers -> Nat]
    BY <1>1, <1>3, <1>6 DEF TypeOK
  <2> QED
    BY <1>1, <1>6, <1>8, <1>9, <2>1 DEF TypeOK, Rewrites, Only
<1>13. LocalsInv(r)'
  BY <1>1, <1>3, <1>4, <1>7, <1>8 DEF RequestInv, LocalsInv, Nobody
<1>14. VoiceInv(r)'
  BY <1>1, <1>7, <1>8, <1>9 DEF RequestInv, VoiceInv
<1>15. EndInv(r)' /\ FailureInv(r)'
  <2>1. Told(r)' = Told(r)
    BY <1>9 DEF Told
  <2>2. L.pc \in Active /\ req[r].pc \in Active
    BY <1>1, <1>7 DEF Active
  <2> QED
    BY <1>1, <1>7, <1>8, <1>9, <2>1, <2>2 DEF RequestInv, EndInv, FailureInv, Between
<1> QED
  BY <1>11, <1>12, <1>13, <1>14, <1>15 DEF Good, RequestInv

(* What follows when r has told item, or nothing.                          *)
LEMMA Tells ==
  ASSUME IInv, NEW r \in Requests, NEW item \in Item,
         Heard(r)' = Heard(r) \cup {item}
  PROVE  /\ Told(r) \/ IsAnswer(item) \/ IsFailure(item) => Told(r)'
         /\ item.what = "error" \/ IsAnswer(item) => Concluded(r)'
         /\ Answered(r) \/ IsAnswer(item) => Answered(r)'
         /\ item.what # "content" =>
              \A x \in Heard(r)' : x.what = "content" => x \in Heard(r)
BY DEF Told, Concluded, Answered

LEMMA TellsNothing ==
  ASSUME NEW r \in Requests, Heard(r)' = Heard(r)
  PROVE  Told(r)' = Told(r) /\ Concluded(r)' = Concluded(r) /\ Answered(r)' = Answered(r)
BY DEF Told, Concluded, Answered

LEMMA GiveUpGood ==
  ASSUME IInv, NEW r \in Requests, GiveUp(r)
  PROVE  Good(r)
<1> DEFINE L == [req[r] EXCEPT !.pc = "done"]
<1>1. req[r] \in Locals /\ RequestInv(r) /\ req[r].pc = "next" /\ TypeOK
  BY DEF IInv, TypeOK, GiveUp
<1>2. L \in Locals /\ Goes(r, L)
  BY <1>1 DEF Locals, GiveUp
<1>3. /\ L.pc = "done" /\ L.at = req[r].at /\ L.op = req[r].op /\ L.second = req[r].second
      /\ L.yielded = req[r].yielded
  BY <1>1 DEF Locals
<1> HIDE DEF L
<1>4. UNCHANGED <<tried, pin, drops, inflight, releasing>> /\ Tries(r)' = Tries(r)
  BY DEF GiveUp, Tries
<1>5. req[r].at = Nobody /\ (\A x \in Heard(r) : x.what # "content")
  BY <1>1 DEF RequestInv, LocalsInv, VoiceInv
<1>6. CASE SaysWhy(r)
  <2> DEFINE item == Failure(req[r].last)
  <2>1. item \in Item /\ item.what = "error" /\ item.from = req[r].last
    BY <1>1 DEF Failure, Item, Locals
  <2>2. Sends(r, <<item>>)
    BY <1>6 DEF GiveUp
  <2> HIDE DEF item
  <2>3. /\ sent' \in [Requests -> Seq(Item)]
        /\ \A q \in Requests \ {r} : sent'[q] = sent[q]
        /\ Heard(r)' = Heard(r) \cup {item}
    BY <1>1, <2>1, <2>2, Says DEF TypeOK
  <2>4. Rewrites(r)
    BY <1>1, <1>4, <2>3 DEF Rewrites, TypeOK
  <2>5. TypeOK' /\ InFlightExact' /\ Only(r) /\ req'[r] = L
    BY <1>2, <1>3, <1>4, <2>4, Stays
  <2>6. LocalsInv(r)'
    BY <1>3, <1>5, <2>5 DEF LocalsInv
  <2>7. VoiceInv(r)'
    BY <1>3, <1>5, <2>1, <2>3, <2>5 DEF VoiceInv
  <2>8. EndInv(r)'
    <3>1. Concluded(r)'
      BY <2>1, <2>3, Tells
    <3> QED
      BY <1>3, <2>5, <3>1 DEF EndInv, Between
  <2>9. FailureInv(r)'
    <3>1. IsFailure(item) \/ Told(r) => Told(r)'
      BY <2>1, <2>3, Tells
    <3>2. req[r].last \notin {"unsupported", Nobody} => IsFailure(item)
      BY <2>1 DEF IsFailure
    <3> QED
      BY <1>1, <1>3, <1>4, <2>5, <3>1, <3>2 DEF RequestInv, FailureInv
  <2> QED
    BY <2>5, <2>6, <2>7, <2>8, <2>9 DEF Good, RequestInv
<1>7. CASE ~SaysWhy(r)
  <2>1. UNCHANGED sent /\ req[r].yielded
    BY <1>7 DEF GiveUp, SaysWhy
  <2>2. Rewrites(r) /\ Heard(r)' = Heard(r)
    BY <1>1, <1>4, <2>1, Mute DEF TypeOK
  <2>3. TypeOK' /\ InFlightExact' /\ Only(r) /\ req'[r] = L
    BY <1>2, <1>3, <1>4, <2>2, Stays
  <2>4. Told(r) /\ Told(r)' /\ Concluded(r)'
    <3>1. Told(r)
      BY <1>1, <2>1 DEF RequestInv, EndInv, Between
    <3>2. Concluded(r)
      BY <3>1 DEF Told, Concluded, Answered, IsFailure
    <3> QED
      BY <2>2, <3>1, <3>2, TellsNothing
  <2>5. LocalsInv(r)'
    BY <1>3, <1>5, <2>3 DEF LocalsInv
  <2>6. VoiceInv(r)'
    BY <1>3, <1>5, <2>2, <2>3 DEF VoiceInv
  <2>7. EndInv(r)'
    BY <1>3, <2>3, <2>4 DEF EndInv, Between
  <2>8. FailureInv(r)'
    BY <2>4 DEF FailureInv
  <2> QED
    BY <2>3, <2>5, <2>6, <2>7, <2>8 DEF Good, RequestInv
<1> QED
  BY <1>6, <1>7

-----------------------------------------------------------------------------
(* An attempt ends.                                                        *)
LEMMA EndsAttempt ==
  ASSUME IInv, NEW r \in Requests, NEW L \in Locals, req[r].pc \in {"calling", "streaming"},
         NEW outcome \in Errors \cup {"ok", "empty"}, NEW reported \in SUBSET {"success", "failure"},
         Leaves(r, L), Ended(r, outcome, reported), UNCHANGED <<inflight, drops>>,
         pin' \in [Requests -> Providers \cup {Nobody}],
         \/ UNCHANGED sent
         \/ \E item \in Item : Sends(r, <<item>>) \/ Sends(r, <<item, item>>)
  PROVE  /\ TypeOK' /\ InFlightExact' /\ Only(r)
         /\ req'[r] = [L EXCEPT !.at = Nobody]
         /\ \E t : t.outcome = outcome /\ Tries(r)' = Tries(r) \cup {t}
<1>1. TypeOK /\ req[r] \in Locals /\ LocalsInv(r)
  BY DEF IInv, TypeOK, RequestInv
<1>2. req[r].at \in Providers
  <2>1. req[r].at \in Providers \cup {Nobody}
    BY <1>1 DEF Locals
  <2> QED
    BY <1>1, <2>1 DEF LocalsInv
<1> DEFINE N == [L EXCEPT !.at = Nobody]
           t == [by |-> req[r].at, outcome |-> outcome, reported |-> reported]
<1>3. N \in Locals /\ N.at = Nobody
  BY DEF Locals
<1>4. Goes(r, N) /\ Release(req[r].at)
  BY DEF Leaves
<1>5. t \in Attempt /\ t.outcome = outcome
  BY <1>2 DEF Attempt
<1>6. /\ tried' \in [Requests -> Seq(Attempt)]
      /\ \A q \in Requests \ {r} : tried'[q] = tried[q]
      /\ Tries(r)' = Tries(r) \cup {t}
  BY <1>1, <1>5, Attempted DEF TypeOK
<1>7. /\ sent' \in [Requests -> Seq(Item)]
      /\ \A q \in Requests \ {r} : sent'[q] = sent[q]
  BY <1>1, Says DEF TypeOK
<1>8. Rewrites(r)
  BY <1>1, <1>6, <1>7 DEF TypeOK, Rewrites
<1> HIDE DEF N, t
<1>9. TypeOK' /\ InFlightExact' /\ Only(r) /\ req'[r] = N
  BY <1>3, <1>4, <1>8, Leaving
<1> QED
  BY <1>5, <1>6, <1>9 DEF N

(* What holds of a request whose attempt has ended.                        *)
Resting(r) == req[r].at = Nobody /\ req[r].pc \in {"next", "backoff", "done", "dropped"}

LEMMA Rests ==
  ASSUME NEW r \in Requests, Resting(r)'
  PROVE  LocalsInv(r)'
BY DEF Resting, LocalsInv

LEMMA Voice ==
  ASSUME IInv, NEW r \in Requests, Resting(r)',
         \A x \in Heard(r)' : x.what = "content" => x \in Heard(r),
         \/ req'[r].pc \in {"done", "dropped"}
         \/ req[r].pc # "streaming" /\ req[r].pc \notin {"done", "dropped"}
         \/ req[r].pc = "streaming" /\ ~req[r].content
  PROVE  VoiceInv(r)'
BY DEF IInv, RequestInv, VoiceInv

LEMMA AnswerGood ==
  ASSUME IInv, NEW r \in Requests, Answer(r)
  PROVE  Good(r)
<1> DEFINE L == [req[r] EXCEPT !.pc = "done"]
           item == [what |-> "answer", from |-> req[r].at]
<1>1. TypeOK /\ req[r] \in Locals /\ RequestInv(r) /\ req[r].pc = "calling"
  BY DEF IInv, TypeOK, Answer
<1>2. L \in Locals /\ L.pc = "done"
  BY <1>1 DEF Locals
<1>3. req[r].at \in Providers
  <2>1. req[r].at \in Providers \cup {Nobody}
    BY <1>1 DEF Locals
  <2> QED
    BY <1>1, <2>1 DEF RequestInv, LocalsInv
<1>4. item \in Item /\ IsAnswer(item) /\ item.what # "content" /\ Sends(r, <<item>>)
  BY <1>3 DEF Item, IsAnswer, Answer
<1>5. Leaves(r, L) /\ Ended(r, "ok", {"success"}) /\ UNCHANGED <<inflight, drops>>
  BY DEF Answer, Reports
<1>6. pin' \in [Requests -> Providers \cup {Nobody}]
  BY <1>1, <1>3 DEF Answer, TypeOK
<1> HIDE DEF L, item
<1>7. TypeOK' /\ InFlightExact' /\ Only(r) /\ req'[r] = [L EXCEPT !.at = Nobody]
  BY <1>1, <1>2, <1>4, <1>5, <1>6, EndsAttempt
<1>8. req'[r].pc = "done" /\ req'[r].at = Nobody
  BY <1>2, <1>7 DEF Locals
<1>9. Heard(r)' = Heard(r) \cup {item}
  BY <1>1, <1>4, Says DEF TypeOK
<1>10. LocalsInv(r)' /\ VoiceInv(r)'
  BY <1>4, <1>8, <1>9, Rests, Voice, Tells DEF Resting
<1>11. Told(r)' /\ Concluded(r)'
  BY <1>4, <1>9, Tells
<1>12. EndInv(r)' /\ FailureInv(r)'
  BY <1>8, <1>11 DEF EndInv, Between, FailureInv
<1> QED
  BY <1>7, <1>10, <1>12 DEF Good, RequestInv

(* The attempt failed, nothing was told of it, and the request goes on.    *)
LEMMA GoesOn ==
  ASSUME IInv, NEW r \in Requests, NEW L \in Locals, NEW outcome \in Errors \cup {"empty"},
         NEW reported \in SUBSET {"success", "failure"},
         Leaves(r, L), Ended(r, outcome, reported), UNCHANGED <<sent, inflight, pin, drops>>,
         \/ req[r].pc = "calling" /\ L.yielded = req[r].yielded
         \/ /\ req[r].pc = "streaming" /\ ~req[r].content
            /\ L.yielded = FALSE \/ (L.yielded = req[r].yielded /\ req[r].mine = 0),
         L.pc \in {"next", "backoff"}, L.op = req[r].op, L.second = req[r].second,
         \/ outcome = "unsupported" /\ L.last = KeepsFirst(r, "unsupported")
         \/ L.second
         \/ L.last \notin {"unsupported", Nobody}
  PROVE  Good(r)
<1>1. TypeOK /\ req[r] \in Locals /\ RequestInv(r) /\ req[r].pc \in {"calling", "streaming"}
      /\ pin' \in [Requests -> Providers \cup {Nobody}]
  BY DEF IInv, TypeOK
<1>2. TypeOK' /\ InFlightExact' /\ Only(r) /\ req'[r] = [L EXCEPT !.at = Nobody]
      /\ \E t : t.outcome = outcome /\ Tries(r)' = Tries(r) \cup {t}
  BY <1>1, EndsAttempt
<1>3. /\ req'[r].pc = L.pc /\ req'[r].at = Nobody /\ req'[r].op = L.op
      /\ req'[r].second = L.second /\ req'[r].yielded = L.yielded /\ req'[r].last = L.last
  BY <1>2 DEF Locals
<1>4. Heard(r)' = Heard(r)
  BY DEF Heard
<1>5. Told(r)' = Told(r) /\ Concluded(r)' = Concluded(r) /\ Answered(r)' = Answered(r)
  BY <1>4, TellsNothing
<1>6. LocalsInv(r)' /\ VoiceInv(r)'
  BY <1>1, <1>3, <1>4, Rests, Voice DEF Resting
<1>7. EndInv(r)'
  <2>1. L.yielded => Told(r)
    BY <1>1 DEF RequestInv, EndInv, Between
  <2> QED
    BY <1>3, <1>5, <2>1 DEF EndInv, Between
<1>8. FailureInv(r)'
  <2>1. req'[r].pc \in Active /\ req[r].pc \in Active
    BY <1>1, <1>3 DEF Active
  <2>2. CASE outcome = "unsupported" /\ L.last = KeepsFirst(r, "unsupported")
    <3>1. (\E t \in Tries(r)' : Fails(t)) => \E t \in Tries(r) : Fails(t)
      BY <1>2, <2>2 DEF Fails
    <3>2. req[r].last \notin {"unsupported", Nobody} => L.last = req[r].last
      BY <2>2 DEF KeepsFirst
    <3>3. req[r].pc # "dropped"
      BY <1>1
    <3> QED
      BY <1>1, <1>3, <1>5, <2>1, <3>1, <3>2, <3>3 DEF RequestInv, FailureInv
  <2>3. CASE L.second \/ L.last \notin {"unsupported", Nobody}
    BY <1>3, <2>1, <2>3 DEF FailureInv
  <2> QED
    BY <2>2, <2>3
<1> QED
  BY <1>2, <1>6, <1>7, <1>8 DEF Good, RequestInv

LEMMA UnsupportedGood ==
  ASSUME IInv, NEW r \in Requests, Unsupported(r)
  PROVE  Good(r)
<1> DEFINE count == IF req[r].op = "capability" THEN req[r].attempt ELSE req[r].attempt - 1
           L == [req[r] EXCEPT !.pc = "next", !.attempt = count,
                               !.last = KeepsFirst(r, "unsupported")]
<1>1. req[r] \in Locals /\ RequestInv(r) /\ req[r].pc = "calling"
  BY DEF IInv, TypeOK, Unsupported
<1>2. req[r].attempt \in 0..MaxRetries /\ MaxRetries \in Nat
  BY <1>1, FailoverAssumption DEF Locals
<1>3. count \in 0..MaxRetries
  BY <1>1, <1>2 DEF RequestInv, LocalsInv
<1>4. Leaves(r, L) /\ Ended(r, "unsupported", {}) /\ UNCHANGED <<sent, inflight, pin, drops>>
  BY DEF Unsupported
<1> HIDE DEF count
<1>5. L \in Locals
  <2>1. "next" \in Active /\ KeepsFirst(r, "unsupported") \in Causes
    BY <1>1 DEF Active, KeepsFirst, Locals, Causes, Errors
  <2> QED
    BY <1>1, <1>3, <2>1 DEF Locals
<1>6. /\ L.pc = "next" /\ L.op = req[r].op /\ L.second = req[r].second
      /\ L.yielded = req[r].yielded /\ L.last = KeepsFirst(r, "unsupported")
  BY <1>1 DEF Locals
<1> HIDE DEF L
<1>7. "unsupported" \in Errors \cup {"empty"} /\ {} \in SUBSET {"success", "failure"}
  BY DEF Errors
<1> QED
  BY <1>1, <1>4, <1>5, <1>6, <1>7, GoesOn

LEMMA TransientGood ==
  ASSUME IInv, NEW r \in Requests, CallFailsTransiently(r)
  PROVE  Good(r)
<1> DEFINE count == IF req[r].op = "capability" THEN req[r].attempt + 1 ELSE req[r].attempt
           L == [req[r] EXCEPT !.pc = "backoff", !.last = LastError(r, "transient"),
                               !.attempt = count]
<1>1. req[r] \in Locals /\ RequestInv(r) /\ req[r].pc = "calling"
  BY DEF IInv, TypeOK, CallFailsTransiently
<1>2. req[r].attempt \in 0..MaxRetries /\ MaxRetries \in Nat
  BY <1>1, FailoverAssumption DEF Locals
<1>3. count \in 0..MaxRetries
  BY <1>1, <1>2 DEF RequestInv, LocalsInv
<1>4. Leaves(r, L) /\ Ended(r, "transient", {"failure"})
      /\ UNCHANGED <<sent, inflight, pin, drops>>
  BY DEF CallFailsTransiently, Reports
<1> HIDE DEF count
<1>5. L \in Locals
  <2>1. "backoff" \in Active /\ LastError(r, "transient") \in Causes
    BY <1>1 DEF Active, LastError, Locals, Causes, Errors
  <2> QED
    BY <1>1, <1>3, <2>1 DEF Locals
<1>6. /\ L.pc = "backoff" /\ L.op = req[r].op /\ L.second = req[r].second
      /\ L.yielded = req[r].yielded /\ L.last = LastError(r, "transient")
  BY <1>1 DEF Locals
<1> HIDE DEF L
<1>7. L.second \/ L.last \notin {"unsupported", Nobody}
  BY <1>6 DEF LastError, Nobody
<1>8. "transient" \in Errors \cup {"empty"} /\ {"failure"} \in SUBSET {"success", "failure"}
  BY DEF Errors
<1> QED
  BY <1>1, <1>4, <1>5, <1>6, <1>7, <1>8, GoesOn

LEMMA FailsOverGood ==
  ASSUME IInv, NEW r \in Requests, StreamFailsOver(r)
  PROVE  Good(r)
<1> DEFINE L == [req[r] EXCEPT !.pc = "backoff", !.last = "transient"]
<1>1. /\ req[r] \in Locals /\ RequestInv(r) /\ req[r].pc = "streaming" /\ req[r].mine = 0
      /\ Leaves(r, L) /\ Ended(r, "transient", {"failure"})
      /\ UNCHANGED <<sent, inflight, pin, drops>>
  BY DEF IInv, TypeOK, StreamFailsOver, NothingYet, Reports
<1>2. ~req[r].content
  BY <1>1 DEF RequestInv, LocalsInv
<1>3. L \in Locals
  <2>1. "backoff" \in Active /\ "transient" \in Causes
    BY DEF Active, Causes, Errors
  <2> QED
    BY <1>1, <2>1 DEF Locals
<1>4. /\ L.pc = "backoff" /\ L.op = req[r].op /\ L.second = req[r].second
      /\ L.yielded = req[r].yielded /\ L.last = "transient"
  BY <1>1 DEF Locals
<1> HIDE DEF L
<1>5. "transient" \notin {"unsupported", Nobody}
  BY DEF Nobody
<1>6. "transient" \in Errors \cup {"empty"} /\ {"failure"} \in SUBSET {"success", "failure"}
  BY DEF Errors
<1> QED
  BY <1>1, <1>2, <1>3, <1>4, <1>5, <1>6, GoesOn

LEMMA EmptyGood ==
  ASSUME IInv, NEW r \in Requests, StreamWasEmpty(r)
  PROVE  Good(r)
<1> DEFINE L == [req[r] EXCEPT !.pc = "backoff", !.last = "empty", !.yielded = FALSE]
<1>1. /\ req[r] \in Locals /\ RequestInv(r) /\ req[r].pc = "streaming" /\ ~req[r].content
      /\ Leaves(r, L) /\ Ended(r, "empty", {"failure"})
      /\ UNCHANGED <<sent, inflight, pin, drops>>
  BY DEF IInv, TypeOK, StreamWasEmpty, Substantial, Reports
<1>2. L \in Locals
  <2>1. "backoff" \in Active /\ "empty" \in Causes
    BY DEF Active, Causes
  <2> QED
    BY <1>1, <2>1 DEF Locals
<1>3. /\ L.pc = "backoff" /\ L.op = req[r].op /\ L.second = req[r].second
      /\ L.yielded = FALSE /\ L.last = "empty"
  BY <1>1 DEF Locals
<1> HIDE DEF L
<1>4. "empty" \notin {"unsupported", Nobody}
  BY DEF Nobody
<1>5. "empty" \in Errors \cup {"empty"} /\ {"failure"} \in SUBSET {"success", "failure"}
  OBVIOUS
<1> QED
  BY <1>1, <1>2, <1>3, <1>4, <1>5, GoesOn

(* The attempt failed and the client is told: the request ends, or goes on *)
(* to the next candidate all the same.                                     *)
LEMMA TellsFailure ==
  ASSUME IInv, NEW r \in Requests, NEW L \in Locals, NEW e \in Errors,
         NEW reported \in SUBSET {"success", "failure"},
         Leaves(r, L), Ended(r, e, reported), UNCHANGED <<inflight, pin, drops>>,
         Sends(r, <<Failure(e)>>) \/ Sends(r, <<Failure(e), Failure(e)>>),
         req[r].pc \in {"calling", "streaming"},
         L.pc = "done" \/ (L.pc = "next" /\ req[r].pc = "streaming" /\ ~req[r].content),
         L.op = req[r].op, e # "unsupported" \/ (L.op = "responses" /\ L.pc = "done")
  PROVE  Good(r)
<1> DEFINE item == Failure(e)
<1>1. TypeOK /\ req[r] \in Locals /\ RequestInv(r)
      /\ pin' \in [Requests -> Providers \cup {Nobody}]
  BY DEF IInv, TypeOK
<1>2. item \in Item /\ item.what = "error" /\ item.from = e
  BY DEF Failure, Item, Causes
<1>3. e \in Errors \cup {"ok", "empty"} /\ e # Nobody
  BY DEF Errors, Nobody
<1>4. Sends(r, <<item>>) \/ Sends(r, <<item, item>>)
  OBVIOUS
<1> HIDE DEF item
<1>5. TypeOK' /\ InFlightExact' /\ Only(r) /\ req'[r] = [L EXCEPT !.at = Nobody]
  BY <1>1, <1>2, <1>3, <1>4, EndsAttempt
<1>6. req'[r].pc = L.pc /\ req'[r].at = Nobody /\ req'[r].op = L.op
  BY <1>5 DEF Locals
<1>7. Heard(r)' = Heard(r) \cup {item}
  BY <1>1, <1>2, <1>4, Says DEF TypeOK
<1>8. LocalsInv(r)' /\ VoiceInv(r)'
  <2>1. Resting(r)' /\ (\A x \in Heard(r)' : x.what = "content" => x \in Heard(r))
    BY <1>2, <1>6, <1>7, Tells DEF Resting
  <2> QED
    BY <1>6, <2>1, Rests, Voice
<1>9. Concluded(r)' /\ (e # "unsupported" => Told(r)')
  <2>1. e # "unsupported" => IsFailure(item)
    BY <1>2, <1>3 DEF IsFailure
  <2> QED
    BY <1>2, <1>7, <2>1, Tells
<1>10. EndInv(r)' /\ FailureInv(r)'
  BY <1>6, <1>9 DEF EndInv, Between, FailureInv
<1> QED
  BY <1>5, <1>8, <1>10 DEF Good, RequestInv

LEMMA ForGoodGood ==
  ASSUME IInv, NEW r \in Requests, NEW e \in Errors, CallFailsForGood(r, e)
  PROVE  Good(r)
<1> DEFINE L == [req[r] EXCEPT !.pc = "done", !.last = e]
<1>1. /\ req[r] \in Locals /\ req[r].pc = "calling"
      /\ Leaves(r, L) /\ Ended(r, e, Reports(e)) /\ UNCHANGED <<inflight, pin, drops>>
      /\ Sends(r, <<Failure(e)>>) \/ Sends(r, <<Failure(e), Failure(e)>>)
      /\ e # "unsupported" \/ req[r].op = "responses"
  BY DEF IInv, TypeOK, CallFailsForGood, FatalErrors
<1>2. L \in Locals /\ L.pc = "done" /\ L.op = req[r].op
  BY <1>1 DEF Locals, Causes
<1>3. Reports(e) \in SUBSET {"success", "failure"}
  BY DEF Reports
<1> HIDE DEF L
<1> QED
  BY <1>1, <1>2, <1>3, TellsFailure

LEMMA StreamFailsGood ==
  ASSUME IInv, NEW r \in Requests, NEW e \in Errors, StreamFails(r, e)
  PROVE  Good(r)
<1> DEFINE L == [req[r] EXCEPT !.pc = IF req[r].mine > 0 THEN "done" ELSE "next",
                               !.yielded = TRUE]
           reported == Reports(e) \cup (IF req[r].mine > 0 THEN {"success"} ELSE {})
<1>1. /\ req[r] \in Locals /\ RequestInv(r) /\ req[r].pc = "streaming"
      /\ Leaves(r, L) /\ Ended(r, e, reported) /\ UNCHANGED <<inflight, pin, drops>>
      /\ Sends(r, <<Failure(e)>>) /\ e # "unsupported"
  BY DEF IInv, TypeOK, StreamFails
<1>2. L \in Locals /\ L.op = req[r].op
      /\ L.pc = IF req[r].mine > 0 THEN "done" ELSE "next"
  BY <1>1 DEF Locals, Active
<1>3. reported \in SUBSET {"success", "failure"}
  BY DEF Reports
<1>4. L.pc = "done" \/ (L.pc = "next" /\ ~req[r].content)
  BY <1>1, <1>2 DEF RequestInv, LocalsInv
<1> HIDE DEF L, reported
<1> QED
  BY <1>1, <1>2, <1>3, <1>4, TellsFailure

LEMMA CompletesGood ==
  ASSUME IInv, NEW r \in Requests, StreamCompletes(r)
  PROVE  Good(r)
<1> DEFINE L == [req[r] EXCEPT !.pc = "done"]
<1>1. /\ TypeOK /\ req[r] \in Locals /\ RequestInv(r) /\ req[r].pc = "streaming"
      /\ req[r].content /\ Leaves(r, L) /\ Ended(r, "ok", {"success"})
      /\ UNCHANGED <<sent, inflight, pin, drops>>
      /\ pin' \in [Requests -> Providers \cup {Nobody}]
  BY DEF IInv, TypeOK, StreamCompletes, Substantial, Reports
<1>2. L \in Locals /\ L.pc = "done"
  BY <1>1 DEF Locals
<1> HIDE DEF L
<1>3. TypeOK' /\ InFlightExact' /\ Only(r) /\ req'[r] = [L EXCEPT !.at = Nobody]
  BY <1>1, <1>2, EndsAttempt
<1>4. req'[r].pc = "done" /\ req'[r].at = Nobody
  BY <1>2, <1>3 DEF Locals
<1>5. Heard(r)' = Heard(r)
  BY <1>1 DEF Heard
<1>6. LocalsInv(r)' /\ VoiceInv(r)'
  BY <1>4, <1>5, Rests, Voice DEF Resting
<1>7. Told(r)' /\ Concluded(r)'
  <2>1. Answered(r)
    BY <1>1 DEF RequestInv, EndInv
  <2>2. Told(r) /\ Concluded(r)
    BY <2>1 DEF Answered, Told, Concluded
  <2> QED
    BY <1>5, <2>2, TellsNothing
<1>8. EndInv(r)' /\ FailureInv(r)'
  BY <1>4, <1>7 DEF EndInv, Between, FailureInv
<1> QED
  BY <1>3, <1>6, <1>8 DEF Good, RequestInv

-----------------------------------------------------------------------------
(* A stream.                                                               *)
LEMMA OpensGood ==
  ASSUME IInv, NEW r \in Requests, StreamOpens(r)
  PROVE  Good(r)
<1> DEFINE L == [req[r] EXCEPT !.pc = "streaming"]
<1>1. /\ TypeOK /\ req[r] \in Locals /\ RequestInv(r) /\ req[r].pc = "calling"
      /\ req[r].op = "stream" /\ Goes(r, L)
      /\ UNCHANGED <<sent, tried, inflight, releasing, pin, drops>>
  BY DEF IInv, TypeOK, StreamOpens
<1>2. L \in Locals
  <2>1. "streaming" \in Active
    BY DEF Active
  <2> QED
    BY <1>1, <2>1 DEF Locals
<1>3. /\ L.pc = "streaming" /\ L.at = req[r].at /\ L.op = req[r].op /\ L.mine = req[r].mine
      /\ L.content = req[r].content /\ L.yielded = req[r].yielded
      /\ L.second = req[r].second /\ L.last = req[r].last
  BY <1>1 DEF Locals
<1> HIDE DEF L
<1>4. Rewrites(r) /\ Heard(r)' = Heard(r) /\ Tries(r)' = Tries(r)
  BY <1>1, Mute DEF TypeOK
<1>5. TypeOK' /\ InFlightExact' /\ Only(r) /\ req'[r] = L
  BY <1>1, <1>2, <1>3, <1>4, Stays
<1>6. LocalsInv(r)' /\ VoiceInv(r)'
  BY <1>1, <1>3, <1>4, <1>5 DEF RequestInv, LocalsInv, VoiceInv
<1>7. EndInv(r)' /\ FailureInv(r)'
  <2>1. Told(r)' = Told(r)
    BY <1>4, TellsNothing
  <2>2. L.pc \in Active /\ req[r].pc \in Active /\ ~L.content
    BY <1>1, <1>3 DEF Active, RequestInv, LocalsInv
  <2> QED
    BY <1>1, <1>3, <1>4, <1>5, <2>1, <2>2 DEF RequestInv, EndInv, FailureInv, Between
<1> QED
  BY <1>5, <1>6, <1>7 DEF Good, RequestInv

LEMMA ChunkGood ==
  ASSUME IInv, NEW r \in Requests, NEW kind \in Chunks, Chunk(r, kind)
  PROVE  Good(r)
<1> DEFINE mine == req[r].mine + 1
           content == req[r].content \/ kind \in {"content", "filter"}
           L == [req[r] EXCEPT !.mine = mine, !.yielded = TRUE, !.content = content]
           item == [what |-> kind, from |-> req[r].at]
<1>1. /\ TypeOK /\ req[r] \in Locals /\ RequestInv(r) /\ req[r].pc = "streaming"
      /\ req[r].mine < MaxChunks /\ Goes(r, L)
      /\ UNCHANGED <<tried, inflight, releasing, drops>>
  BY DEF IInv, TypeOK, Chunk
<1>2. mine \in 1..MaxChunks /\ mine > 0 /\ mine # 0
  <2>1. req[r].mine \in 0..MaxChunks /\ MaxChunks \in Nat
    BY <1>1, FailoverAssumption DEF Locals
  <2> QED
    BY <1>1, <2>1
<1>3. req[r].at \in Providers
  <2>1. req[r].at \in Providers \cup {Nobody}
    BY <1>1 DEF Locals
  <2> QED
    BY <1>1, <2>1 DEF RequestInv, LocalsInv
<1>4. pin' \in [Requests -> Providers \cup {Nobody}]
  BY <1>1, <1>3 DEF Chunk, TypeOK
<1>5. content \in BOOLEAN /\ (kind = "content" => content = TRUE)
      /\ (content => req[r].content \/ kind \in {"content", "filter"})
  OBVIOUS
<1>6. item \in Item /\ item.what = kind /\ item.from = req[r].at
      /\ IF kind = "trailer" THEN UNCHANGED sent ELSE Sends(r, <<item>>)
  BY <1>3 DEF Item, Chunk
<1> HIDE DEF mine, content, item
<1>7. L \in Locals
  <2>1. mine \in 0..MaxChunks
    BY <1>2
  <2> QED
    BY <1>1, <1>5, <2>1 DEF Locals
<1>8. /\ L.pc = "streaming" /\ L.at = req[r].at /\ L.op = req[r].op /\ L.mine = mine
      /\ L.content = content /\ L.second = req[r].second /\ L.last = req[r].last
  BY <1>1 DEF Locals
<1> HIDE DEF L
<1>9. /\ sent' \in [Requests -> Seq(Item)]
      /\ \A q \in Requests \ {r} : sent'[q] = sent[q]
      /\ IF kind = "trailer" THEN Heard(r)' = Heard(r) ELSE Heard(r)' = Heard(r) \cup {item}
  <2>1. CASE kind = "trailer"
    BY <1>1, <1>6, <2>1 DEF TypeOK, Heard
  <2>2. CASE kind # "trailer"
    BY <1>1, <1>6, <2>2, Says DEF TypeOK
  <2> QED
    BY <2>1, <2>2
<1>10. Rewrites(r) /\ Tries(r)' = Tries(r)
  BY <1>1, <1>4, <1>9 DEF Rewrites, TypeOK, Tries
<1>11. TypeOK' /\ InFlightExact' /\ Only(r) /\ req'[r] = L
  BY <1>1, <1>7, <1>8, <1>10, Stays
<1>12. LocalsInv(r)'
  BY <1>1, <1>2, <1>8, <1>11 DEF RequestInv, LocalsInv
<1>13. VoiceInv(r)'
  <2>1. \A x \in Heard(r) : x.what = "content" => req[r].content /\ x.from = req[r].at
    BY <1>1 DEF RequestInv, VoiceInv
  <2>2. \A x \in Heard(r)' : x.what = "content" => content = TRUE /\ x.from = req[r].at
    BY <1>5, <1>6, <1>9, <2>1 DEF content
  <2> QED
    BY <1>8, <1>11, <2>2 DEF VoiceInv
<1>14. Told(r) => Told(r)'
  BY <1>6, <1>9, Tells, TellsNothing
<1>15. EndInv(r)'
  <2>1. content => Answered(r)'
    <3>1. CASE kind \in {"content", "filter"}
      <4>1. IsAnswer(item) /\ Heard(r)' = Heard(r) \cup {item}
        BY <1>6, <1>9, <3>1 DEF IsAnswer
      <4> QED
        BY <1>6, <4>1, Tells
    <3>2. CASE kind \notin {"content", "filter"}
      <4>1. content => Answered(r)
        BY <1>1, <1>5, <3>2 DEF RequestInv, EndInv
      <4> QED
        BY <1>6, <1>9, <4>1, Tells, TellsNothing
    <3> QED
      BY <3>1, <3>2
  <2> QED
    BY <1>2, <1>8, <1>11, <2>1 DEF EndInv, Between
<1>16. FailureInv(r)'
  <2>1. L.pc \in Active
    BY <1>8 DEF Active
  <2> QED
    BY <1>1, <1>8, <1>10, <1>11, <1>14, <2>1 DEF RequestInv, FailureInv
<1> QED
  BY <1>11, <1>12, <1>13, <1>15, <1>16 DEF Good, RequestInv

-----------------------------------------------------------------------------
(* The client leaves.                                                      *)
LEMMA DisconnectGood ==
  ASSUME IInv, NEW r \in Requests, Disconnect(r)
  PROVE  Good(r)
<1> DEFINE L == [req[r] EXCEPT !.pc = "dropped", !.at = Nobody]
<1>1. /\ TypeOK /\ req[r] \in Locals /\ RequestInv(r) /\ req[r].pc \in Active /\ Goes(r, L)
      /\ UNCHANGED <<sent, tried, inflight, pin>>
  BY DEF IInv, TypeOK, Disconnect
<1>2. L \in Locals /\ L.pc = "dropped" /\ L.at = Nobody
  BY <1>1 DEF Locals
<1> HIDE DEF L
<1>3. drops' \in 0..MaxDrops
  BY <1>1, FailoverAssumption DEF TypeOK, Disconnect
<1>4. Rewrites(r) /\ Heard(r)' = Heard(r) /\ Tries(r)' = Tries(r)
  BY <1>1, <1>3, Mute
<1>5. TypeOK' /\ InFlightExact' /\ Only(r) /\ req'[r] = L
  <2>1. CASE req[r].at = Nobody
    BY <1>1, <1>2, <1>4, <2>1, Stays DEF Disconnect
  <2>2. CASE req[r].at # Nobody
    <3>1. req[r].pc \in {"calling", "streaming"} /\ Release(req[r].at)
      BY <1>1, <2>2 DEF RequestInv, LocalsInv, Disconnect
    <3> QED
      BY <1>1, <1>2, <1>4, <3>1, Leaving
  <2> QED
    BY <2>1, <2>2
<1>6. LocalsInv(r)' /\ VoiceInv(r)'
  <2>1. VoiceInv(r)'
    BY <1>1, <1>2, <1>4, <1>5 DEF RequestInv, VoiceInv
  <2> QED
    BY <1>2, <1>5, <2>1, Rests DEF Resting
<1>7. EndInv(r)' /\ FailureInv(r)'
  BY <1>2, <1>5 DEF EndInv, Between, FailureInv
<1> QED
  BY <1>5, <1>6, <1>7 DEF Good, RequestInv

-----------------------------------------------------------------------------
(* All together.                                                           *)
LEMMA InitIInv == Init => IInv
<1> SUFFICES ASSUME Init PROVE IInv
  OBVIOUS
<1> USE FailoverAssumption DEF Init
<1>1. TypeOK
  <2> DEFINE L == [pc |-> "idle", op |-> "chat", todo |-> << >>, rest |-> << >>,
                   second |-> FALSE, at |-> Nobody, attempt |-> 0, last |-> Nobody,
                   yielded |-> FALSE, mine |-> 0, content |-> FALSE]
  <2>1. << >> \in Seq(Providers) /\ "chat" \in AllOps /\ Nobody \in Causes
    BY DEF AllOps, Causes
  <2>2. L \in Locals
    BY <2>1 DEF Locals
  <2>3. << >> \in Seq(Item) /\ << >> \in Seq(Attempt)
    OBVIOUS
  <2> QED
    BY <2>2, <2>3 DEF TypeOK
<1>2. InFlightExact
  <2>1. ASSUME NEW p \in Providers PROVE Holders(p) = {}
    BY <2>1 DEF Holders, Nobody
  <2>2. Cardinality({}) = 0
    BY FS_EmptySet
  <2>3. ASSUME NEW p \in Providers
        PROVE  inflight[p] = Cardinality(Holders(p)) + releasing[p]
    <3>1. inflight[p] = 0 /\ releasing[p] = 0
      BY <2>3
    <3>2. Cardinality(Holders(p)) = 0
      BY <2>1, <2>2, <2>3
    <3> HIDE DEF Init
    <3> QED
      BY <3>1, <3>2
  <2> QED
    BY <2>3 DEF InFlightExact, Holders
<1>3. ASSUME NEW r \in Requests PROVE RequestInv(r)
  <2>1. Heard(r) = {} /\ Tries(r) = {}
    BY DEF Heard, Tries
  <2> QED
    BY <2>1 DEF RequestInv, LocalsInv, VoiceInv, EndInv, Between, FailureInv
<1> QED
  BY <1>1, <1>2, <1>3 DEF IInv

LEMMA DecrementIInv ==
  ASSUME IInv, NEW p \in Providers, Decrement(p)
  PROVE  IInv'
<1>1. TypeOK'
  BY DEF IInv, TypeOK, Decrement
<1>2. InFlightExact'
  BY Decremented DEF IInv
<1>3. ASSUME NEW r \in Requests PROVE RequestInv(r)'
  <2>1. req'[r] = req[r] /\ Heard(r)' = Heard(r) /\ Tries(r)' = Tries(r)
    BY DEF Decrement, Heard, Tries
  <2>2. RequestInv(r)
    BY DEF IInv
  <2> QED
    BY <2>1, <2>2 DEF RequestInv, LocalsInv, VoiceInv, EndInv, FailureInv, Told, Answered, Concluded,
                      Between
<1> QED
  BY <1>1, <1>2, <1>3 DEF IInv

LEMMA StutterIInv == IInv /\ UNCHANGED vars => IInv'
<1> SUFFICES ASSUME IInv, UNCHANGED vars PROVE IInv'
  OBVIOUS
<1>1. TypeOK' /\ InFlightExact'
  BY DEF IInv, TypeOK, InFlightExact, vars
<1>2. ASSUME NEW r \in Requests PROVE RequestInv(r)'
  <2>1. req' = req /\ Heard(r)' = Heard(r) /\ Tries(r)' = Tries(r)
    BY DEF vars, Heard, Tries
  <2>2. RequestInv(r)
    BY DEF IInv
  <2> QED
    BY <2>1, <2>2 DEF RequestInv, LocalsInv, VoiceInv, EndInv, FailureInv, Told, Answered, Concluded,
                      Between
<1> QED
  BY <1>1, <1>2 DEF IInv

LEMMA RequestIInv ==
  ASSUME IInv, NEW r \in Requests,
         \/ \E op \in Ops, order \in Lists, rest \in Lists : Begin(r, op, order, rest)
         \/ Loop(r) \/ Provider(r) \/ Disconnect(r)
  PROVE  IInv'
<1>1. CASE \E op \in Ops, order \in Lists, rest \in Lists : Begin(r, op, order, rest)
  BY <1>1, BeginGood, Others
<1>2. CASE Loop(r)
  BY <1>2, LoopGood, TryGood, GiveUpGood, Others DEF Loop
<1>3. CASE Provider(r)
  <2>1. Good(r)
    BY <1>3, AnswerGood, OpensGood, UnsupportedGood, TransientGood, ForGoodGood,
       StreamFailsGood, ChunkGood, FailsOverGood, CompletesGood, EmptyGood DEF Provider
  <2> QED
    BY <2>1, Others
<1>4. CASE Disconnect(r)
  BY <1>4, DisconnectGood, Others
<1> QED
  BY <1>1, <1>2, <1>3, <1>4

(* The inductive invariant of the candidate loops and the counters.        *)
THEOREM Invariance == Spec => []IInv
<1>1. IInv /\ [Next]_vars => IInv'
  <2> SUFFICES ASSUME IInv, [Next]_vars PROVE IInv'
    OBVIOUS
  <2> QED
    BY RequestIInv, DecrementIInv, StutterIInv DEF Next
<1> QED
  BY InitIInv, <1>1, PTL DEF Spec

(* The locals of the handlers, the counters and what was told keep their   *)
(* types: no retry is counted that max_retries does not allow, and no      *)
(* counter goes below zero.                                                *)
THEOREM TypeCorrect == Spec => []TypeOK
<1>1. IInv => TypeOK
  BY DEF IInv
<1> QED
  BY Invariance, <1>1, PTL

(* A provider's in-flight counter is the number of attempts that hold it   *)
(* and of the decrements under way, however attempts end and whenever the  *)
(* clients leave.                                                          *)
THEOREM CountersAreExact == Spec => []InFlightExact
<1>1. IInv => InFlightExact
  BY DEF IInv
<1> QED
  BY Invariance, <1>1, PTL

(* No client is sent content of two providers, although a stream may fail  *)
(* over after it has yielded chunks.                                       *)
THEOREM NoStitching == Spec => []OneVoice
<1>1. IInv => OneVoice
  <2> SUFFICES ASSUME IInv, NEW r \in Requests,
                      NEW m \in 1..Len(sent[r]), NEW n \in 1..Len(sent[r]),
                      sent[r][m].what = "content", sent[r][n].what = "content"
               PROVE  sent[r][m].from = sent[r][n].from
    BY DEF OneVoice
  <2>1. sent[r][m] \in Heard(r) /\ sent[r][n] \in Heard(r)
    BY DEF Heard
  <2> QED
    BY <2>1 DEF IInv, RequestInv, VoiceInv
<1> QED
  BY Invariance, <1>1, PTL

(* A request that is served to its end tells its client something.         *)
THEOREM NoSilentEnd == Spec => []NeverSilent
<1>1. IInv => NeverSilent
  <2> SUFFICES ASSUME IInv, NEW r \in Requests, req[r].pc = "done"
               PROVE  Has(r, {"answer", "content", "filter", "error"})
    BY DEF NeverSilent
  <2>1. Concluded(r)
    BY DEF IInv, RequestInv, EndInv
  <2> QED
    BY <2>1 DEF Concluded, Answered, IsAnswer, Heard, Has
<1> QED
  BY Invariance, <1>1, PTL

(* A failure of a provider is told rather than a lack of support.          *)
THEOREM FailuresAreTold == Spec => []FailureOutranksUnsupported
<1>1. IInv => FailureOutranksUnsupported
  <2> SUFFICES ASSUME IInv, NEW r \in Requests, req[r].pc = "done", req[r].op # "responses",
                      ~req[r].second, Failed(r)
               PROVE  \/ Has(r, {"answer", "content", "filter"})
                      \/ \E n \in 1..Len(sent[r]) :
                           sent[r][n].what = "error" /\ sent[r][n].from \notin {"unsupported", Nobody}
    BY DEF FailureOutranksUnsupported
  <2>1. \E t \in Tries(r) : Fails(t)
    BY DEF Failed, Tries, Fails
  <2>2. Told(r)
    BY <2>1 DEF IInv, RequestInv, FailureInv, Active
  <2> QED
    BY <2>2 DEF Told, IsAnswer, IsFailure, Heard, Has
<1> QED
  BY Invariance, <1>1, PTL

-----------------------------------------------------------------------------
Repeats(q) == \E m, n \in DOMAIN q : m # n /\ q[m].of = q[n].of

LEMMA NothingIn == RequestsOf(<< >>) = {} /\ ~Repeats(<< >>)
BY DEF RequestsOf, Repeats

LEMMA OneMore ==
  ASSUME NEW S, NEW q \in Seq(S), NEW x \in S
  PROVE  /\ RequestsOf(Append(q, x)) = RequestsOf(q) \cup {x.of}
         /\ ~Repeats(q) /\ x.of \notin RequestsOf(q) => ~Repeats(Append(q, x))
<1> PICK n, a : n = Len(q) /\ a = Append(q, x)
  OBVIOUS
<1>1. /\ n \in Nat /\ DOMAIN q = 1..n /\ DOMAIN a = 1..(n + 1)
      /\ \A i \in 1..n : a[i] = q[i]
      /\ a[n + 1] = x
  <2>1. Len(q) \in Nat /\ DOMAIN q = 1..Len(q)
    BY LenProperties
  <2>2. /\ a \in Seq(S) /\ Len(a) = n + 1 /\ \A i \in 1..n : a[i] = q[i]
        /\ a[n + 1] = x
    BY AppendProperties
  <2>3. DOMAIN a = 1..Len(a)
    BY <2>2, LenProperties
  <2> QED
    BY <2>1, <2>2, <2>3
<1>2. 1..(n + 1) = 1..n \cup {n + 1}
  BY <1>1
<1>3. {a[i].of : i \in 1..(n + 1)} = {q[i].of : i \in 1..n} \cup {x.of}
  BY <1>1, <1>2
<1>4. ASSUME ~Repeats(q), x.of \notin RequestsOf(q), NEW i \in 1..(n + 1), NEW j \in 1..(n + 1),
             a[i].of = a[j].of
      PROVE  i = j
  <2>1. \A k \in 1..n : q[k].of # x.of
    BY <1>1, <1>4 DEF RequestsOf
  <2> QED
    BY <1>1, <1>2, <1>4, <2>1 DEF Repeats
<1>5. RequestsOf(a) = RequestsOf(q) \cup {x.of}
  BY <1>1, <1>3 DEF RequestsOf
<1>6. ~Repeats(q) /\ x.of \notin RequestsOf(q) => ~Repeats(a)
  BY <1>1, <1>4 DEF Repeats
<1> QED
  BY <1>5, <1>6

LEMMA Joined ==
  ASSUME NEW S, NEW p \in Seq(S), NEW q \in Seq(S)
  PROVE  /\ p \o q \in Seq(S)
         /\ RequestsOf(p \o q) = RequestsOf(p) \cup RequestsOf(q)
         /\ ~Repeats(p) /\ ~Repeats(q) /\ RequestsOf(p) \cap RequestsOf(q) = {} => ~Repeats(p \o q)
<1> PICK m, n, a : m = Len(p) /\ n = Len(q) /\ a = p \o q
  OBVIOUS
<1>1. /\ m \in Nat /\ n \in Nat /\ DOMAIN p = 1..m /\ DOMAIN q = 1..n /\ DOMAIN a = 1..(m + n)
      /\ \A i \in 1..(m + n) : a[i] = IF i <= m THEN p[i] ELSE q[i - m]
      /\ a \in Seq(S)
  <2>1. Len(p) \in Nat /\ DOMAIN p = 1..Len(p) /\ Len(q) \in Nat /\ DOMAIN q = 1..Len(q)
    BY LenProperties
  <2>2. a \in Seq(S) /\ Len(a) = m + n /\ \A i \in 1..(m + n) : a[i] = IF i <= m THEN p[i] ELSE q[i - m]
    BY ConcatProperties
  <2>3. DOMAIN a = 1..Len(a)
    BY <2>2, LenProperties
  <2> QED
    BY <2>1, <2>2, <2>3
<1>2. RequestsOf(a) = RequestsOf(p) \cup RequestsOf(q)
  <2>1. ASSUME NEW i \in 1..(m + n) PROVE a[i].of \in RequestsOf(p) \cup RequestsOf(q)
    <3>1. i <= m => i \in DOMAIN p
      BY <1>1
    <3>2. ~(i <= m) => i - m \in DOMAIN q
      BY <1>1
    <3> QED
      BY <1>1, <3>1, <3>2 DEF RequestsOf
  <2>2. ASSUME NEW i \in 1..m PROVE p[i].of \in RequestsOf(a)
    <3>1. i \in 1..(m + n) /\ a[i] = p[i]
      BY <1>1
    <3> QED
      BY <1>1, <3>1 DEF RequestsOf
  <2>3. ASSUME NEW i \in 1..n PROVE q[i].of \in RequestsOf(a)
    <3>1. m + i \in 1..(m + n) /\ ~(m + i <= m) /\ (m + i) - m = i
      BY <1>1
    <3>2. a[m + i] = q[i]
      BY <1>1, <3>1
    <3> QED
      BY <1>1, <3>1, <3>2 DEF RequestsOf
  <2>4. /\ RequestsOf(a) = {a[i].of : i \in 1..(m + n)} /\ RequestsOf(p) = {p[i].of : i \in 1..m}
        /\ RequestsOf(q) = {q[i].of : i \in 1..n}
    BY <1>1 DEF RequestsOf
  <2> QED
    <3>1. RequestsOf(a) \subseteq RequestsOf(p) \cup RequestsOf(q)
      BY <2>1, <2>4
    <3>2. RequestsOf(p) \subseteq RequestsOf(a)
      BY <2>2, <2>4
    <3>3. RequestsOf(q) \subseteq RequestsOf(a)
      BY <2>3, <2>4
    <3> QED
      BY <3>1, <3>2, <3>3
<1>3. ASSUME ~Repeats(p), ~Repeats(q), RequestsOf(p) \cap RequestsOf(q) = {},
             NEW i \in 1..(m + n), NEW j \in 1..(m + n), a[i].of = a[j].of
      PROVE  i = j
  <2>1. \A k \in 1..m, l \in 1..n : p[k].of # q[l].of
    BY <1>1, <1>3 DEF RequestsOf
  <2>2. CASE i <= m /\ j <= m
    <3>1. i \in 1..m /\ j \in 1..m /\ p[i].of = p[j].of
      BY <1>1, <1>3, <2>2
    <3> QED
      BY <1>1, <1>3, <3>1 DEF Repeats
  <2>3. CASE ~(i <= m) /\ ~(j <= m)
    <3>1. i - m \in 1..n /\ j - m \in 1..n /\ q[i - m].of = q[j - m].of
      BY <1>1, <1>3, <2>3
    <3>2. i - m = j - m
      BY <1>1, <1>3, <3>1 DEF Repeats
    <3> QED
      BY <1>1, <3>2
  <2>4. CASE i <= m /\ ~(j <= m)
    <3>1. i \in 1..m /\ j - m \in 1..n /\ p[i].of = q[j - m].of
      BY <1>1, <1>3, <2>4
    <3> QED
      BY <2>1, <3>1
  <2>5. CASE ~(i <= m) /\ j <= m
    <3>1. j \in 1..m /\ i - m \in 1..n /\ p[j].of = q[i - m].of
      BY <1>1, <1>3, <2>5
    <3> QED
      BY <2>1, <3>1
  <2> QED
    BY <2>2, <2>3, <2>4, <2>5
<1>4. ~Repeats(p) /\ ~Repeats(q) /\ RequestsOf(p) \cap RequestsOf(q) = {} => ~Repeats(a)
  BY <1>1, <1>3 DEF Repeats
<1> QED
  BY <1>1, <1>2, <1>4

Parts(q, k, a, b) == a = SubSeq(q, 1, k) /\ b = SubSeq(q, k + 1, Len(q))
LEMMA Parted ==
  ASSUME NEW S, NEW q \in Seq(S), NEW k \in 0..Len(q), NEW a, NEW b, Parts(q, k, a, b)
  PROVE  /\ a \in Seq(S) /\ b \in Seq(S)
         /\ RequestsOf(q) = RequestsOf(a) \cup RequestsOf(b)
         /\ ~Repeats(q) => ~Repeats(a) /\ ~Repeats(b) /\ RequestsOf(a) \cap RequestsOf(b) = {}
<1> USE DEF Parts
<1> PICK n : n = Len(q)
  OBVIOUS
<1>1. n \in Nat /\ k \in Nat /\ k <= n /\ DOMAIN q = 1..n /\ \A i \in 1..n : q[i] \in S
  BY LenProperties, ElementOfSeq
<1>2. /\ a \in Seq(S) /\ DOMAIN a = 1..k /\ \A i \in 1..k : a[i] = q[i]
  <2>1. \A i \in 1..k : q[i] \in S
    BY <1>1
  <2>2. /\ a \in Seq(S) /\ Len(a) = IF 1 <= k THEN (k - 1) + 1 ELSE 0
        /\ \A i \in 1..((k - 1) + 1) : a[i] = q[(1 + i) - 1]
    BY <1>1, <2>1, SubSeqProperties
  <2>3. DOMAIN a = 1..Len(a)
    BY <2>2, LenProperties
  <2> QED
    BY <1>1, <2>2, <2>3
<1>3. /\ b \in Seq(S) /\ DOMAIN b = 1..(n - k) /\ \A i \in 1..(n - k) : b[i] = q[k + i]
  <2>1. \A i \in (k + 1)..n : q[i] \in S
    BY <1>1
  <2>2. /\ b \in Seq(S) /\ Len(b) = IF k + 1 <= n THEN (n - (k + 1)) + 1 ELSE 0
        /\ \A i \in 1..((n - (k + 1)) + 1) : b[i] = q[((k + 1) + i) - 1]
    BY <1>1, <2>1, SubSeqProperties
  <2>3. DOMAIN b = 1..Len(b)
    BY <2>2, LenProperties
  <2>4. \A i \in Nat : ((k + 1) + i) - 1 = k + i
    BY <1>1
  <2> QED
    BY <1>1, <2>2, <2>3, <2>4
<1>0. /\ RequestsOf(q) = {q[i].of : i \in 1..n} /\ RequestsOf(a) = {a[i].of : i \in 1..k}
      /\ RequestsOf(b) = {b[i].of : i \in 1..(n - k)}
  BY <1>1, <1>2, <1>3 DEF RequestsOf
<1>4. RequestsOf(q) = RequestsOf(a) \cup RequestsOf(b)
  <2>1. ASSUME NEW i \in 1..n PROVE q[i].of \in RequestsOf(a) \cup RequestsOf(b)
    <3>1. CASE i <= k
      <4>1. i \in 1..k
        BY <1>1, <3>1
      <4> QED
        BY <1>2, <4>1 DEF RequestsOf
    <3>2. CASE ~(i <= k)
      <4>1. i - k \in 1..(n - k) /\ k + (i - k) = i
        BY <1>1, <3>2
      <4>2. b[i - k] = q[i]
        BY <1>3, <4>1
      <4> QED
        BY <1>3, <4>1, <4>2 DEF RequestsOf
    <3> QED
      BY <3>1, <3>2
  <2>2. ASSUME NEW i \in 1..k PROVE a[i].of \in RequestsOf(q)
    <3>1. i \in 1..n
      BY <1>1
    <3> QED
      BY <1>0, <1>2, <3>1
  <2>3. ASSUME NEW i \in 1..(n - k) PROVE b[i].of \in RequestsOf(q)
    <3>1. k + i \in 1..n
      BY <1>1
    <3> QED
      BY <1>1, <1>3, <3>1 DEF RequestsOf
  <2>4. RequestsOf(q) \subseteq RequestsOf(a) \cup RequestsOf(b)
    BY <1>0, <2>1
  <2>5. RequestsOf(a) \subseteq RequestsOf(q) /\ RequestsOf(b) \subseteq RequestsOf(q)
    BY <1>0, <2>2, <2>3
  <2> QED
    BY <2>4, <2>5
<1>5. ASSUME ~Repeats(q)
      PROVE  ~Repeats(a) /\ ~Repeats(b) /\ RequestsOf(a) \cap RequestsOf(b) = {}
  <2>0. \A i, j \in 1..n : q[i].of = q[j].of => i = j
    BY <1>1, <1>5 DEF Repeats
  <2>1. ~Repeats(a)
    BY <1>1, <1>2, <2>0 DEF Repeats
  <2>2. ASSUME NEW i \in 1..(n - k), NEW j \in 1..(n - k), b[i].of = b[j].of PROVE i = j
    <3>1. k + i \in 1..n /\ k + j \in 1..n /\ q[k + i].of = q[k + j].of
      BY <1>1, <1>3, <2>2
    <3>2. k + i = k + j
      BY <2>0, <3>1
    <3> QED
      BY <1>1, <3>2
  <2>3. ASSUME NEW i \in 1..k, NEW j \in 1..(n - k) PROVE a[i].of # b[j].of
    <3>1. i \in 1..n /\ k + j \in 1..n /\ i # k + j
      BY <1>1
    <3> QED
      BY <1>2, <1>3, <2>0, <3>1
  <2>4. ~Repeats(b)
    BY <1>3, <2>2 DEF Repeats
  <2>5. ASSUME NEW x \in RequestsOf(a), x \in RequestsOf(b) PROVE FALSE
    <3>1. PICK i \in 1..k : x = a[i].of
      BY <1>0
    <3>2. PICK j \in 1..(n - k) : x = b[j].of
      BY <1>0, <2>5
    <3> QED
      BY <2>3, <3>1, <3>2
  <2> QED
    BY <2>1, <2>4, <2>5
<1> QED
  BY <1>2, <1>3, <1>4, <1>5

-----------------------------------------------------------------------------
Over == {r \in Arrivals : stage[r] \notin {"new", "open"}}
Building == {save.of : save \in builds}
Waiting == {record.of : record \in senders}

StageInv ==
  /\ stage \in [Arrivals -> {"new", "open", "completed", "aborted", "gone"}]
  /\ inbound = {r \in Arrivals : stage[r] = "open"}

(* The records on their way and in the log are of S, and tell the truth.   *)
Truthful(S) ==
  /\ \A x \in S : x.of \in Over /\ x.status = stage[x.of]
  /\ senders \subseteq S /\ queue \in Seq(S) /\ batch \in Seq(S) /\ log \in Seq(S)
RecordsInv ==
  /\ \A save \in builds : save = [of |-> save.of, status |-> stage[save.of]]
  /\ \A x, y \in senders : x.of = y.of => x = y
  /\ ~Repeats(queue) /\ ~Repeats(batch) /\ ~Repeats(log)
  /\ \E S : Truthful(S)

(* A request that has ended is in one place, and nobody else in any.       *)
PlaceInv ==
  /\ Building \cup Waiting \cup RequestsOf(queue) \cup RequestsOf(batch)
       \cup RequestsOf(log) \cup lost = Over
  /\ Building \cap (Waiting \cup RequestsOf(queue) \cup RequestsOf(batch)
                     \cup RequestsOf(log) \cup lost) = {}
  /\ Waiting \cap (RequestsOf(queue) \cup RequestsOf(batch) \cup RequestsOf(log) \cup lost) = {}
  /\ RequestsOf(queue) \cap (RequestsOf(batch) \cup RequestsOf(log) \cup lost) = {}
  /\ RequestsOf(batch) \cap (RequestsOf(log) \cup lost) = {}
  /\ RequestsOf(log) \cap lost = {}

LogInv == StageInv /\ RecordsInv /\ PlaceInv

LEMMA InitLogInv == LogInit => LogInv
<1> SUFFICES ASSUME LogInit PROVE LogInv
  OBVIOUS
<1>1. /\ builds = {} /\ senders = {} /\ queue = << >> /\ batch = << >> /\ log = << >>
      /\ lost = {} /\ inbound = {} /\ stage = [r \in Arrivals |-> "new"]
  BY DEF LogInit
<1>2. Building = {} /\ Waiting = {} /\ Over = {}
  BY <1>1 DEF Building, Waiting, Over
<1>3. << >> \in Seq({})
  BY EmptySeq
<1>4. Truthful({})
  BY <1>1, <1>3 DEF Truthful
<1>5. StageInv
  BY <1>1 DEF StageInv
<1>6. RecordsInv
  BY <1>1, <1>4, NothingIn DEF RecordsInv
<1>7. PlaceInv
  BY <1>1, <1>2, NothingIn DEF PlaceInv
<1> QED
  BY <1>5, <1>6, <1>7 DEF LogInv

(* A handler that arrives, tries or ends.                                  *)
LEMMA ServeLogInv ==
  ASSUME LogInv, NEW r \in Arrivals,
         Arrive(r) \/ Serve(r)
  PROVE  LogInv'
<1> USE DEF LogInv
<1>1. /\ UNCHANGED <<builds, senders, queue, batch, log, lost>>
      /\ Over' = Over /\ \A q \in Over : stage'[q] = stage[q]
  BY DEF StageInv, Arrive, Serve, BeginAttempt, UpstreamRequest, Enters, Over, writer
<1>2. StageInv'
  BY DEF StageInv, Arrive, Serve, BeginAttempt, UpstreamRequest, Enters
<1>3. RecordsInv'
  <2>1. PICK S : Truthful(S)
    BY DEF RecordsInv
  <2>2. Truthful(S)'
    BY <1>1, <2>1 DEF Truthful
  <2>3. \A save \in builds : save.of \in Over
    BY DEF PlaceInv, Building
  <2> QED
    BY <1>1, <2>2, <2>3 DEF RecordsInv, Repeats
<1>4. PlaceInv'
  <2>1. /\ RequestsOf(queue)' = RequestsOf(queue) /\ RequestsOf(batch)' = RequestsOf(batch)
        /\ RequestsOf(log)' = RequestsOf(log)
        /\ Building' = Building /\ Waiting' = Waiting
    BY <1>1 DEF RequestsOf, Building, Waiting
  <2> QED
    BY <1>1, <2>1 DEF PlaceInv
<1> QED
  BY <1>2, <1>3, <1>4

LEMMA EndLogInv ==
  ASSUME LogInv, NEW r \in Arrivals, NEW status \in {"completed", "aborted"}, Ending(r, status)
  PROVE  LogInv'
<1> USE DEF LogInv
<1> PICK save : save = [of |-> r, status |-> status]
  OBVIOUS
<1>1. /\ stage[r] = "open" /\ stage' = [stage EXCEPT ![r] = status]
      /\ builds' = builds \cup {save} /\ inbound' = inbound \ {r}
      /\ UNCHANGED <<senders, queue, batch, log, lost>>
  BY DEF Ending, StageInv, Saved, Takes, Enters, writer
<1>2. /\ r \notin Over /\ Over' = Over \cup {r}
      /\ \A q \in Over : stage'[q] = stage[q]
      /\ stage'[r] = status
  BY <1>1 DEF StageInv, Over
<1>3. StageInv'
  BY <1>1 DEF StageInv
<1>4. Building' = Building \cup {r}
  BY <1>1 DEF Building
<1>5. RecordsInv'
  <2>1. PICK S : Truthful(S)
    BY DEF RecordsInv
  <2>2. Truthful(S)'
    BY <1>1, <1>2, <2>1 DEF Truthful
  <2>3. \A old \in builds : old.of \in Over
    BY DEF PlaceInv, Building
  <2>4. \A new \in builds' : new = [of |-> new.of, status |-> stage'[new.of]]
    BY <1>1, <1>2, <2>3 DEF RecordsInv
  <2> QED
    BY <1>1, <2>2, <2>4 DEF RecordsInv, Repeats
<1>6. PlaceInv'
  <2>1. /\ RequestsOf(queue)' = RequestsOf(queue) /\ RequestsOf(batch)' = RequestsOf(batch)
        /\ RequestsOf(log)' = RequestsOf(log)
        /\ Waiting' = Waiting
    BY <1>1 DEF RequestsOf, Waiting
  <2> QED
    BY <1>1, <1>2, <1>4, <2>1 DEF PlaceInv
<1> QED
  BY <1>3, <1>5, <1>6

(* A record that is built or cannot be.                                    *)
LEMMA BuildLogInv ==
  ASSUME LogInv, NEW save \in builds, Build(save) \/ BuildFails(save)
  PROVE  LogInv'
<1> USE DEF LogInv
<1>1. /\ UNCHANGED <<stage, inbound, queue, batch, log>> /\ builds' = builds \ {save}
      /\ save.of \in Over /\ save.status = stage[save.of]
  <2>1. UNCHANGED <<stage, inbound, queue, batch, log>> /\ builds' = builds \ {save}
    BY DEF Build, BuildFails, writer
  <2> QED
    BY <2>1 DEF RecordsInv, PlaceInv, Building
<1>2. Building' = Building \ {save.of}
  <2>1. \A other \in builds : other.of = save.of => other = save
    BY DEF RecordsInv
  <2> QED
    BY <1>1, <2>1 DEF Building
<1>3. StageInv' /\ Over' = Over
  BY <1>1 DEF StageInv, Over
<1>4. CASE Build(save)
  <2> PICK record : record = RecordOf(save)
    OBVIOUS
  <2>1. record.of = save.of /\ record.status = save.status
    BY DEF RecordOf
  <2>2. senders' = senders \cup {record} /\ lost' = lost
    BY <1>4 DEF Build
  <2>3. Waiting' = Waiting \cup {save.of}
    BY <2>1, <2>2 DEF Waiting
  <2>4. save.of \notin Waiting
    BY DEF PlaceInv, Building
  <2>5. PICK S : Truthful(S)
    BY DEF RecordsInv
  <2>6. Truthful(S \cup {record})'
    <3>1. \A q \in Seq(S) : q \in Seq(S \cup {record})
      BY SeqMonotonic
    <3> QED
      BY <1>1, <1>3, <2>1, <2>2, <2>5, <3>1 DEF Truthful
  <2>7. RecordsInv'
    <3>1. \A x, y \in senders' : x.of = y.of => x = y
      BY <2>1, <2>2, <2>4 DEF RecordsInv, Waiting
    <3> QED
      BY <1>1, <2>6, <3>1 DEF RecordsInv, Repeats
  <2>8. PlaceInv'
    <3>1. save.of \in Building
      BY DEF Building
    <3>2. /\ RequestsOf(queue)' = RequestsOf(queue) /\ RequestsOf(batch)' = RequestsOf(batch)
          /\ RequestsOf(log)' = RequestsOf(log)
      BY <1>1 DEF RequestsOf
    <3> QED
      BY <1>1, <1>2, <1>3, <2>2, <2>3, <3>1, <3>2 DEF PlaceInv
  <2> QED
    BY <1>3, <2>7, <2>8
<1>5. CASE BuildFails(save)
  <2>1. senders' = senders /\ lost' = lost \cup {save.of}
    BY <1>5 DEF BuildFails
  <2>2. PICK S : Truthful(S)
    BY DEF RecordsInv
  <2>3. Truthful(S)'
    BY <1>1, <1>3, <2>1, <2>2 DEF Truthful
  <2>4. RecordsInv'
    BY <1>1, <2>1, <2>3 DEF RecordsInv, Repeats
  <2>5. PlaceInv'
    <3>1. save.of \in Building
      BY DEF Building
    <3>2. /\ RequestsOf(queue)' = RequestsOf(queue) /\ RequestsOf(batch)' = RequestsOf(batch)
          /\ RequestsOf(log)' = RequestsOf(log)
          /\ Waiting' = Waiting
      BY <1>1, <2>1 DEF RequestsOf, Waiting
    <3> QED
      BY <1>1, <1>2, <1>3, <2>1, <3>1, <3>2 DEF PlaceInv
  <2> QED
    BY <1>3, <2>4, <2>5
<1> QED
  BY <1>4, <1>5

(* The queue and the batches.                                              *)
LEMMA SendLogInv ==
  ASSUME LogInv, NEW record \in senders, Send(record)
  PROVE  LogInv'
<1> USE DEF LogInv
<1>1. /\ UNCHANGED <<stage, inbound, builds, batch, log, lost>>
      /\ senders' = senders \ {record} /\ queue' = Append(queue, record)
  BY DEF Send, request
<1>2. StageInv' /\ Over' = Over
  BY <1>1 DEF StageInv, Over
<1>3. PICK S : Truthful(S)
  BY DEF RecordsInv
<1>4. record \in S /\ queue \in Seq(S)
  BY <1>3 DEF Truthful
<1>5. record.of \in Waiting /\ record.of \notin RequestsOf(queue)
  BY DEF Waiting, PlaceInv
<1>6. Waiting' = Waiting \ {record.of}
  <2>1. \A other \in senders : other.of = record.of => other = record
    BY DEF RecordsInv
  <2> QED
    BY <1>1, <2>1 DEF Waiting
<1>7. RequestsOf(queue)' = RequestsOf(queue) \cup {record.of} /\ ~Repeats(queue)'
  <2>1. ~Repeats(queue)
    BY DEF RecordsInv
  <2>2. RequestsOf(Append(queue, record)) = RequestsOf(queue) \cup {record.of}
    BY <1>4, OneMore
  <2>3. ~Repeats(Append(queue, record))
    BY <1>4, <1>5, <2>1, OneMore
  <2> QED
    BY <1>1, <2>2, <2>3 DEF RequestsOf, Repeats
<1>8. RecordsInv'
  <2>1. Append(queue, record) \in Seq(S)
    BY <1>4, AppendProperties
  <2>2. Truthful(S)'
    BY <1>1, <1>2, <1>3, <2>1 DEF Truthful
  <2> QED
    BY <1>1, <1>7, <2>2 DEF RecordsInv, Repeats
<1>9. PlaceInv'
  <2>1. /\ Building' = Building /\ RequestsOf(batch)' = RequestsOf(batch)
        /\ RequestsOf(log)' = RequestsOf(log) /\ lost' = lost
    BY <1>1 DEF Building, RequestsOf
  <2> QED
    BY <1>2, <1>5, <1>6, <1>7, <2>1 DEF PlaceInv
<1> QED
  BY <1>2, <1>8, <1>9

LEMMA RecvLogInv == LogInv /\ RecvMany => LogInv'
<1> SUFFICES ASSUME LogInv, RecvMany PROVE LogInv'
  OBVIOUS
<1> USE DEF LogInv
<1>1. /\ UNCHANGED <<stage, inbound, builds, senders, log, lost>>
      /\ batch = << >> /\ batch' = SubSeq(queue, 1, Some)
      /\ queue' = SubSeq(queue, Some + 1, Len(queue))
  BY DEF RecvMany, request
<1>2. StageInv' /\ Over' = Over
  BY <1>1 DEF StageInv, Over
<1>3. PICK S : Truthful(S)
  BY DEF RecordsInv
<1>4. queue \in Seq(S) /\ Some \in 0..Len(queue)
  <2>1. Len(queue) \in Nat
    BY <1>3, LenProperties DEF Truthful
  <2> QED
    BY <1>3, <2>1, RequestLogAssumption DEF Truthful, Some
<1>5. /\ batch' \in Seq(S) /\ queue' \in Seq(S)
      /\ RequestsOf(queue) = RequestsOf(batch') \cup RequestsOf(queue')
      /\ ~Repeats(queue) => /\ ~Repeats(batch') /\ ~Repeats(queue')
                            /\ RequestsOf(batch') \cap RequestsOf(queue') = {}
  <2> PICK k \in 0..Len(queue) : k = Some
    BY <1>4
  <2>0. queue \in Seq(S)
    BY <1>4
  <2>1. PICK a : a = SubSeq(queue, 1, k)
    OBVIOUS
  <2>2. PICK b : b = SubSeq(queue, k + 1, Len(queue))
    OBVIOUS
  <2>3. /\ a \in Seq(S) /\ b \in Seq(S)
        /\ RequestsOf(queue) = RequestsOf(a) \cup RequestsOf(b)
        /\ ~Repeats(queue) => /\ ~Repeats(a) /\ ~Repeats(b)
                              /\ RequestsOf(a) \cap RequestsOf(b) = {}
    <3>1. Parts(queue, k, a, b)
      BY <2>1, <2>2 DEF Parts
    <3> QED
      BY <2>0, <3>1, Parted
  <2>4. batch' = a /\ queue' = b
    BY <1>1, <2>1, <2>2
  <2> QED
    BY <2>3, <2>4
<1>6. ~Repeats(queue) /\ RequestsOf(batch) = {}
  BY <1>1, NothingIn DEF RecordsInv
<1>7. RecordsInv'
  <2>1. Truthful(S)'
    BY <1>1, <1>2, <1>3, <1>5 DEF Truthful
  <2> QED
    BY <1>1, <1>5, <1>6, <2>1 DEF RecordsInv, Repeats
<1>8. PlaceInv'
  <2>1. /\ Building' = Building /\ Waiting' = Waiting /\ RequestsOf(log)' = RequestsOf(log)
        /\ RequestsOf(queue)' = RequestsOf(queue') /\ RequestsOf(batch)' = RequestsOf(batch')
    BY <1>1 DEF Building, Waiting, RequestsOf
  <2> QED
    BY <1>1, <1>2, <1>5, <1>6, <2>1 DEF PlaceInv
<1> QED
  BY <1>2, <1>7, <1>8

LEMMA InsertLogInv == LogInv /\ Insert => LogInv'
<1> SUFFICES ASSUME LogInv, Insert PROVE LogInv'
  OBVIOUS
<1> USE DEF LogInv
<1>1. /\ UNCHANGED <<stage, inbound, builds, senders, queue, lost>>
      /\ batch' = << >> /\ log' = log \o batch
  BY DEF Insert, request
<1>2. StageInv' /\ Over' = Over
  BY <1>1 DEF StageInv, Over
<1>3. PICK S : Truthful(S)
  BY DEF RecordsInv
<1>4. log \in Seq(S) /\ batch \in Seq(S) /\ << >> \in Seq(S)
  BY <1>3, EmptySeq DEF Truthful
<1>5. /\ log' \in Seq(S) /\ RequestsOf(log') = RequestsOf(log) \cup RequestsOf(batch)
      /\ ~Repeats(log')
  <2>1. ~Repeats(log) /\ ~Repeats(batch) /\ RequestsOf(log) \cap RequestsOf(batch) = {}
    BY DEF RecordsInv, PlaceInv
  <2> QED
    BY <1>1, <1>4, <2>1, Joined
<1>6. RequestsOf(batch') = {} /\ ~Repeats(batch')
  BY <1>1, NothingIn
<1>7. RecordsInv'
  <2>1. Truthful(S)'
    BY <1>1, <1>2, <1>3, <1>4, <1>5 DEF Truthful
  <2> QED
    BY <1>1, <1>5, <1>6, <2>1 DEF RecordsInv, Repeats
<1>8. PlaceInv'
  <2>1. /\ Building' = Building /\ Waiting' = Waiting /\ RequestsOf(log)' = RequestsOf(log')
        /\ RequestsOf(queue)' = RequestsOf(queue) /\ RequestsOf(batch)' = RequestsOf(batch')
    BY <1>1 DEF Building, Waiting, RequestsOf
  <2> QED
    BY <1>1, <1>2, <1>5, <1>6, <2>1 DEF PlaceInv
<1> QED
  BY <1>2, <1>7, <1>8

LEMMA InsertFailsLogInv == LogInv /\ InsertFails => LogInv'
<1> SUFFICES ASSUME LogInv, InsertFails PROVE LogInv'
  OBVIOUS
<1> USE DEF LogInv
<1>1. /\ UNCHANGED <<stage, inbound, builds, senders, queue, log>>
      /\ batch' = << >> /\ lost' = lost \cup RequestsOf(batch)
  <2>1. {record.of : record \in ToSet(batch)} = RequestsOf(batch)
    BY DEF ToSet, RequestsOf
  <2> QED
    BY <2>1 DEF InsertFails, request
<1>2. StageInv' /\ Over' = Over
  BY <1>1 DEF StageInv, Over
<1>3. PICK S : Truthful(S)
  BY DEF RecordsInv
<1>4. RequestsOf(batch') = {} /\ ~Repeats(batch')
  BY <1>1, NothingIn
<1>5. RecordsInv'
  <2>1. << >> \in Seq(S)
    BY EmptySeq
  <2>2. Truthful(S)'
    BY <1>1, <1>2, <1>3, <2>1 DEF Truthful
  <2> QED
    BY <1>1, <1>4, <2>2 DEF RecordsInv, Repeats
<1>6. PlaceInv'
  <2>1. /\ Building' = Building /\ Waiting' = Waiting /\ RequestsOf(log)' = RequestsOf(log)
        /\ RequestsOf(queue)' = RequestsOf(queue) /\ RequestsOf(batch)' = RequestsOf(batch')
    BY <1>1 DEF Building, Waiting, RequestsOf
  <2> QED
    BY <1>1, <1>2, <1>4, <2>1 DEF PlaceInv
<1> QED
  BY <1>2, <1>5, <1>6

(* What is inserted survives a crash, and all else is lost with it.        *)
LEMMA CrashLogInv == LogInv /\ LogCrash => LogInv'
<1> SUFFICES ASSUME LogInv, LogCrash PROVE LogInv'
  OBVIOUS
<1> USE DEF LogInv
<1>1. /\ inbound' = {} /\ builds' = {} /\ senders' = {} /\ queue' = << >> /\ batch' = << >>
      /\ log' = log
      /\ stage' = [r \in Arrivals |-> IF stage[r] = "open" THEN "gone" ELSE stage[r]]
      /\ lost' = lost \cup {r \in Arrivals : stage[r] # "new" /\ \A id \in Ids : log[id].of # r}
  BY DEF LogCrash
<1>2. StageInv'
  BY <1>1 DEF StageInv
<1>3. /\ Over' = {r \in Arrivals : stage[r] # "new"}
      /\ Over \subseteq Over' /\ \A r \in Over : stage'[r] = stage[r]
  BY <1>1 DEF StageInv, Over
<1>4. PICK S : Truthful(S)
  BY DEF RecordsInv
<1>5. RecordsInv'
  <2>1. << >> \in Seq(S)
    BY EmptySeq
  <2>2. Truthful(S)'
    BY <1>1, <1>3, <1>4, <2>1 DEF Truthful
  <2> QED
    BY <1>1, <2>2, NothingIn DEF RecordsInv, Repeats
<1>6. PlaceInv'
  <2>1. /\ Building' = {} /\ Waiting' = {} /\ RequestsOf(log)' = RequestsOf(log)
        /\ RequestsOf(queue)' = {} /\ RequestsOf(batch)' = {}
    BY <1>1, NothingIn DEF Building, Waiting, RequestsOf
  <2>2. lost' = lost \cup (Over' \ RequestsOf(log))
    <3>1. DOMAIN log = Ids
      BY <1>4, LenProperties DEF Truthful, Ids
    <3> QED
      BY <1>1, <1>3, <3>1 DEF RequestsOf
  <2>3. RequestsOf(log) \subseteq Over /\ lost \subseteq Over /\ RequestsOf(log) \cap lost = {}
    BY DEF PlaceInv
  <2> QED
    BY <1>3, <2>1, <2>2, <2>3 DEF PlaceInv
<1> QED
  BY <1>2, <1>5, <1>6

LEMMA ElseLogInv ==
  ASSUME LogInv, Evict \/ Prunes \/ UNCHANGED requestlog
  PROVE  LogInv'
<1> USE DEF LogInv
<1>1. UNCHANGED <<stage, inbound, builds, senders, queue, batch, log, lost>>
  BY DEF Evict, Prunes, Select, DeleteSelected, DeleteFails, request, writer, requestlog
<1>2. StageInv' /\ Over' = Over
  BY <1>1 DEF StageInv, Over
<1>3. RecordsInv'
  <2>1. PICK S : Truthful(S)
    BY DEF RecordsInv
  <2>2. Truthful(S)'
    BY <1>1, <1>2, <2>1 DEF Truthful
  <2> QED
    BY <1>1, <2>2 DEF RecordsInv, Repeats
<1>4. PlaceInv'
  <2>1. /\ RequestsOf(queue)' = RequestsOf(queue) /\ RequestsOf(batch)' = RequestsOf(batch)
        /\ RequestsOf(log)' = RequestsOf(log)
        /\ Building' = Building /\ Waiting' = Waiting
    BY <1>1 DEF RequestsOf, Building, Waiting
  <2> QED
    BY <1>1, <1>2, <2>1 DEF PlaceInv
<1> QED
  BY <1>2, <1>3, <1>4

LEMMA StepLogInv == LogInv /\ [LogNext]_requestlog => LogInv'
<1>1. ASSUME LogInv, NEW r \in Arrivals, Arrive(r) \/ Serve(r) \/ Ends(r) PROVE LogInv'
  BY <1>1, ServeLogInv, EndLogInv DEF Ends, Complete, DropPending
<1>2. ASSUME LogInv, NEW save \in builds, Build(save) \/ BuildFails(save) PROVE LogInv'
  BY <1>2, BuildLogInv
<1>3. ASSUME LogInv, NEW record \in senders, Send(record) PROVE LogInv'
  BY <1>3, SendLogInv
<1>4. ASSUME LogInv, Evict \/ Writes \/ InsertFails \/ Prunes \/ LogCrash \/ UNCHANGED requestlog
      PROVE  LogInv'
  BY <1>4, RecvLogInv, InsertLogInv, InsertFailsLogInv, CrashLogInv, ElseLogInv DEF Writes
<1> QED
  BY <1>1, <1>2, <1>3, <1>4 DEF LogNext

(* A request that has ended is logged once and as it ended, or its record  *)
(* is on its way, or it is among those lost with a batch, build or crash;  *)
(* nothing is dropped by the full queue and nothing is logged twice.       *)
THEOREM LoggedOnceOrLost == LogSpec => []RecordedOnce
<1>1. LogInv => RecordedOnce
  <2> SUFFICES ASSUME LogInv, NEW r \in Arrivals
               PROVE IF stage[r] \in {"new", "open"} \/ r \in OnTheWay
                     THEN RowsOf(r) = {} /\ r \notin lost ELSE LoggedOnce(r)
    BY DEF RecordedOnce
  <2>1. OnTheWay = Building \cup Waiting \cup RequestsOf(queue) \cup RequestsOf(batch)
    BY DEF OnTheWay, Building, Waiting
  <2>2. r \notin RequestsOf(log) => RowsOf(r) = {}
    BY DEF RowsOf, RequestsOf
  <2>3. CASE stage[r] \in {"new", "open"} \/ r \in OnTheWay
    <3>1. r \notin RequestsOf(log) /\ r \notin lost
      BY <2>1, <2>3 DEF LogInv, PlaceInv, Over
    <3> QED
      BY <2>2, <2>3, <3>1
  <2>4. CASE ~(stage[r] \in {"new", "open"} \/ r \in OnTheWay)
    <3>1. r \in Over /\ (r \in RequestsOf(log) \/ r \in lost)
      BY <2>1, <2>4 DEF LogInv, PlaceInv, Over
    <3>2. CASE r \in lost
      <4>1. r \notin RequestsOf(log)
        BY <3>2 DEF LogInv, PlaceInv
      <4> QED
        BY <2>2, <2>4, <3>2, <4>1 DEF LoggedOnce
    <3>3. CASE r \in RequestsOf(log)
      <4>1. r \notin lost
        BY <3>3 DEF LogInv, PlaceInv
      <4>2. PICK id \in DOMAIN log : log[id].of = r
        BY <3>3 DEF RequestsOf
      <4>3. PICK S : Truthful(S)
        BY DEF LogInv, RecordsInv
      <4>4. id \in Ids /\ log[id] \in S
        BY <4>2, <4>3, LenProperties, ElementOfSeq DEF Truthful, Ids
      <4>5. log[id].status = stage[r]
        BY <4>2, <4>3, <4>4 DEF Truthful
      <4>6. RowsOf(r) = {id}
        BY <4>2 DEF LogInv, RecordsInv, Repeats, RowsOf
      <4> QED
        BY <2>4, <4>1, <4>4, <4>5, <4>6 DEF LoggedOnce
    <3> QED
      BY <3>1, <3>2, <3>3
  <2> QED
    BY <2>3, <2>4
<1> QED
  BY InitLogInv, StepLogInv, <1>1, PTL DEF LogSpec

-----------------------------------------------------------------------------
(* The byte cap.  What is selected is over the cap with the bodies ever    *)
(* stored after it, and stays so as the log grows.                         *)
SizesOf == [i \in Ids |-> SizeOf(i)]
SizeAfter(id) == Sum(SizesOf, StoredAfter(id))

CapInv ==
  /\ bodies \subseteq {i \in Ids : Stores(log[i])}
  /\ selected \subseteq {i \in Ids : SizeAfter(i) > MaxBodyBytes}
  /\ \A id \in Ids : Stores(log[id]) /\ SizeAfter(id) <= MaxBodyBytes => id \in bodies

(* MapThenSumSet is the sum.                                               *)
LEMMA SizesAddUp ==
  ASSUME NEW S, IsFiniteSet(S), NEW f, \A i \in S : f[i] = SizeOf(i) /\ f[i] \in Int
  PROVE  MapThenSumSet(SizeOf, S) = Sum(f, S)
<1> DEFINE It(h) == h = [s \in SUBSET S |->
                      IF s = {} THEN 0
                      ELSE SizeOf(CHOOSE x \in s : TRUE) + h[s \ {CHOOSE x \in s : TRUE}]]
<1>1. \A h : It(h) <=> Unfolds(f, S, h)
  <2>1. \A s \in SUBSET S : s # {} => (CHOOSE x \in s : TRUE) \in S
    OBVIOUS
  <2> QED
    BY <2>1 DEF Unfolds
<1>2. MapThenSumSet(SizeOf, S) = (CHOOSE h : It(h))[S]
  BY DEF MapThenSumSet, MapThenFoldSet
<1> HIDE DEF It
<1>3. PICK g : g = (CHOOSE h : It(h)) /\ It(g)
  BY <1>1, Unfolded
<1> QED
  BY <1>1, <1>2, <1>3, Unfolded

(* Ids are numbers, and the sizes of the rows are too.                     *)
LEMMA Sized ==
  ASSUME NEW S, log \in Seq(S), \A x \in S : x.of \in Arrivals
  PROVE  /\ IsFiniteSet(Ids) /\ Ids \subseteq Nat
         /\ \A i \in Ids : SizesOf[i] = SizeOf(i) /\ SizesOf[i] \in Nat
<1>1. Len(log) \in Nat /\ \A i \in Ids : log[i] \in S
  BY LenProperties, ElementOfSeq DEF Ids
<1>2. IsFiniteSet(Ids)
  BY <1>1, FS_Interval DEF Ids
<1>3. \A i \in Ids : SizeOf(i) \in Nat
  BY <1>1, RequestLogAssumption DEF SizeOf
<1> QED
  BY <1>1, <1>2, <1>3 DEF SizesOf, Ids

LEMMA InsertCapInv == LogInv /\ CapInv /\ Insert => CapInv'
<1> SUFFICES ASSUME LogInv, CapInv, Insert PROVE CapInv'
  OBVIOUS
<1>1. PICK S : Truthful(S)
  BY DEF LogInv, RecordsInv
<1>2. PICK n, k : n = Len(log) /\ k = Len(batch)
  OBVIOUS
<1>3. /\ log \in Seq(S) /\ batch \in Seq(S) /\ n \in Nat /\ k \in Nat /\ \A x \in S : x.of \in Arrivals
      /\ Ids = 1..n /\ DOMAIN batch = 1..k
      /\ \A i \in 1..n : log[i] \in S
  BY <1>1, <1>2, LenProperties, ElementOfSeq DEF Truthful, Ids, Over
<1>4. /\ log' \in Seq(S) /\ Len(log') = n + k
      /\ \A i \in 1..n : log'[i] = log[i]
      /\ \A j \in 1..k : log'[n + j] = batch[j]
  <2>1. log' = log \o batch
    BY DEF Insert
  <2>2. /\ log \o batch \in Seq(S) /\ Len(log \o batch) = Len(log) + Len(batch)
        /\ \A i \in 1..(Len(log) + Len(batch)) : (log \o batch)[i] =
             IF i <= Len(log) THEN log[i] ELSE batch[i - Len(log)]
    BY <1>3, ConcatProperties
  <2> QED
    BY <1>2, <1>3, <2>1, <2>2
<1>5. Ids' = 1..(n + k) /\ Ids \subseteq Ids'
  BY <1>3, <1>4 DEF Ids
<1>6. /\ bodies' = bodies \cup {n + j : j \in {i \in 1..k : Stores(batch[i])}}
      /\ selected' = selected
  BY <1>2, <1>3 DEF Insert
<1> PICK f : f = SizesOf
  OBVIOUS
<1> PICK e : e = SizesOf'
  OBVIOUS
<1>7. /\ \A i \in 1..n : f[i] \in Nat /\ e[i] = f[i]
      /\ \A i \in 1..(n + k) : e[i] \in Nat
  <2>1. \A i \in 1..n : f[i] = Sizes[log[i].of] /\ f[i] \in Nat
    BY <1>3, RequestLogAssumption DEF SizesOf, SizeOf
  <2>2. \A i \in 1..(n + k) : e[i] = Sizes[log'[i].of] /\ log'[i] \in S
    BY <1>4, <1>5, ElementOfSeq DEF SizesOf, SizeOf
  <2>3. \A i \in 1..(n + k) : e[i] \in Nat
    <3>1. \A x \in S : Sizes[x.of] \in Nat
      BY <1>3, RequestLogAssumption
    <3> QED
      BY <2>2, <3>1
  <2>4. ASSUME NEW i \in 1..n PROVE e[i] = f[i]
    <3>1. i \in 1..(n + k) /\ log'[i] = log[i]
      BY <1>3, <1>4
    <3> QED
      BY <2>1, <2>2, <3>1
  <2> QED
    BY <2>1, <2>3, <2>4
<1>8. ASSUME NEW id \in 1..n
      PROVE  SizeAfter(id)' \in Nat /\ SizeAfter(id) \in Nat /\ SizeAfter(id) <= SizeAfter(id)'
  <2>1. PICK R : R = StoredAfter(id)
    OBVIOUS
  <2>2. PICK T : T = StoredAfter(id)'
    OBVIOUS
  <2>3. R \subseteq T /\ R \subseteq 1..n /\ T \subseteq 1..(n + k)
    <3>1. R = {i \in 1..n : i >= id /\ Stores(log[i])}
      BY <1>3, <2>1 DEF StoredAfter
    <3>2. T = {i \in 1..(n + k) : i >= id /\ Stores(log'[i])}
      BY <1>5, <2>2 DEF StoredAfter, Stores
    <3> QED
      BY <1>3, <1>4, <3>1, <3>2
  <2>4. IsFiniteSet(T)
    <3>1. IsFiniteSet(1..(n + k))
      BY <1>3, FS_Interval
    <3> QED
      BY <2>3, <3>1, FS_Subset
  <2>5. Sum(e, T) \in Nat /\ Sum(e, R) \in Nat /\ Sum(e, R) <= Sum(e, T)
    BY <1>7, <2>3, <2>4, SumGrows
  <2>6. Sum(f, R) = Sum(e, R)
    <3>1. IsFiniteSet(R)
      BY <2>3, <2>4, FS_Subset
    <3>2. \A x \in R : e[x] \in Int /\ f[x] = e[x]
      BY <1>7, <2>3
    <3> QED
      BY <3>1, <3>2, SumOf
  <2>7. SizeAfter(id) = Sum(f, R) /\ SizeAfter(id)' = Sum(e, T)
    BY <2>1, <2>2 DEF SizeAfter
  <2> QED
    BY <2>5, <2>6, <2>7
<1>9. bodies' \subseteq {i \in Ids : Stores(log[i])}'
  <2>1. ASSUME NEW i \in bodies PROVE i \in Ids' /\ Stores(log'[i])
    BY <1>3, <1>4, <1>5 DEF CapInv
  <2>2. ASSUME NEW j \in 1..k, Stores(batch[j]) PROVE n + j \in Ids' /\ Stores(log'[n + j])
    BY <1>3, <1>4, <1>5, <2>2
  <2>3. {i \in Ids : Stores(log[i])}' = {i \in Ids' : Stores(log'[i])}
    BY DEF Stores
  <2> QED
    BY <1>6, <2>1, <2>2, <2>3
<1>10. selected' \subseteq {i \in Ids : SizeAfter(i) > MaxBodyBytes}'
  <2>1. ASSUME NEW i \in selected PROVE i \in Ids' /\ SizeAfter(i)' > MaxBodyBytes
    <3>1. i \in 1..n /\ SizeAfter(i) > MaxBodyBytes
      BY <1>3 DEF CapInv
    <3> QED
      BY <1>5, <1>3, <1>8, <3>1, RequestLogAssumption
  <2> QED
    BY <1>6, <2>1
<1>11. (\A id \in Ids : Stores(log[id]) /\ SizeAfter(id) <= MaxBodyBytes => id \in bodies)'
  <2>1. ASSUME NEW id \in Ids', Stores(log'[id]), SizeAfter(id)' <= MaxBodyBytes
        PROVE id \in bodies'
    <3>1. CASE id \in 1..n
      <4>1. log'[id] = log[id] /\ SizeAfter(id) <= MaxBodyBytes
        BY <1>4, <1>8, <2>1, <3>1, RequestLogAssumption
      <4> QED
        BY <1>3, <1>6, <2>1, <3>1, <4>1 DEF CapInv
    <3>2. CASE id \notin 1..n
      <4>1. id - n \in 1..k /\ n + (id - n) = id
        BY <1>3, <1>5, <3>2
      <4>2. log'[id] = batch[id - n]
        BY <1>4, <4>1
      <4> QED
        BY <1>6, <2>1, <4>1, <4>2
    <3> QED
      BY <3>1, <3>2
  <2> QED
    BY <2>1 DEF Stores
<1> QED
  BY <1>9, <1>10, <1>11 DEF CapInv

LEMMA SelectCapInv == LogInv /\ CapInv /\ Select => CapInv'
<1> SUFFICES ASSUME LogInv, CapInv, Select PROVE CapInv'
  OBVIOUS
<1>1. /\ bodies' = bodies /\ log' = log
      /\ selected' = {id \in bodies : NewestFirstTotal(id) > MaxBodyBytes}
  BY DEF Select, writer
<1>2. PICK S : Truthful(S)
  BY DEF LogInv, RecordsInv
<1>3. /\ IsFiniteSet(Ids) /\ Ids \subseteq Nat
      /\ \A i \in Ids : SizesOf[i] = SizeOf(i) /\ SizesOf[i] \in Nat
  BY <1>2, Sized DEF Truthful, Over
<1> PICK f : f = SizesOf
  OBVIOUS
<1>4. ASSUME NEW id \in selected' PROVE id \in Ids /\ SizeAfter(id) > MaxBodyBytes
  <2>1. id \in bodies /\ id \in Ids /\ NewestFirstTotal(id) > MaxBodyBytes
    BY <1>1, <1>4 DEF CapInv
  <2>2. PICK R : R = {b \in bodies : b >= id}
    OBVIOUS
  <2>3. PICK T : T = StoredAfter(id)
    OBVIOUS
  <2>4. R \subseteq T /\ T \subseteq Ids
    BY <2>2, <2>3 DEF CapInv, StoredAfter
  <2>5. IsFiniteSet(R) /\ IsFiniteSet(T)
    BY <1>3, <2>4, FS_Subset
  <2>6. MapThenSumSet(SizeOf, R) = Sum(f, R)
    <3>1. \A i \in R : f[i] = SizeOf(i) /\ f[i] \in Int
      BY <1>3, <2>4
    <3> QED
      BY <2>5, <3>1, SizesAddUp
  <2>7. Sum(f, R) \in Nat /\ Sum(f, R) <= Sum(f, T) /\ Sum(f, T) \in Nat
    BY <1>3, <2>4, <2>5, SumGrows
  <2>8. NewestFirstTotal(id) = Sum(f, R) /\ SizeAfter(id) = Sum(f, T)
    BY <2>2, <2>3, <2>6 DEF NewestFirstTotal, SizeAfter
  <2> QED
    BY <2>1, <2>7, <2>8, RequestLogAssumption
<1>5. /\ Ids' = Ids /\ \A id : SizeAfter(id)' = SizeAfter(id)
      /\ \A id : Stores(log[id])' = Stores(log[id])
  BY <1>1 DEF Ids, SizeAfter, SizesOf, SizeOf, StoredAfter, Stores
<1> QED
  BY <1>1, <1>4, <1>5 DEF CapInv

LEMMA ElseCapInv ==
  ASSUME LogInv, CapInv, UNCHANGED log,
         \/ UNCHANGED bodies /\ selected' \subseteq selected
         \/ \E id \in selected : bodies' = bodies \ {id} /\ selected' = selected \ {id}
  PROVE  CapInv'
<1>1. /\ Ids' = Ids /\ \A id : SizeAfter(id)' = SizeAfter(id)
      /\ \A id : Stores(log[id])' = Stores(log[id])
  BY DEF Ids, SizeAfter, SizesOf, SizeOf, StoredAfter, Stores
<1>2. selected' \subseteq selected /\ bodies' \subseteq bodies
  OBVIOUS
<1>3. \A id \in Ids : SizeAfter(id) <= MaxBodyBytes /\ id \in bodies => id \in bodies'
  <2>1. \A i \in selected : i \in Ids /\ SizeAfter(i) > MaxBodyBytes
    BY DEF CapInv
  <2>2. PICK S : Truthful(S)
    BY DEF LogInv, RecordsInv
  <2>3. /\ IsFiniteSet(Ids) /\ Ids \subseteq Nat
        /\ \A i \in Ids : SizesOf[i] = SizeOf(i) /\ SizesOf[i] \in Nat
    BY <2>2, Sized DEF Truthful, Over
  <2>4. ASSUME NEW id \in Ids PROVE SizeAfter(id) \in Nat
    <3>1. StoredAfter(id) \subseteq Ids
      BY DEF StoredAfter
    <3> QED
      BY <2>3, <3>1, SumGrows, FS_Subset DEF SizeAfter
  <2> QED
    BY <2>1, <2>4, RequestLogAssumption
<1> QED
  BY <1>1, <1>2, <1>3 DEF CapInv

LEMMA StepCapInv == LogInv /\ CapInv /\ [LogNext]_requestlog => CapInv'
<1> SUFFICES ASSUME LogInv, CapInv, [LogNext]_requestlog PROVE CapInv'
  OBVIOUS
<1>1. CASE Insert
  BY <1>1, InsertCapInv
<1>2. CASE Select
  BY <1>2, SelectCapInv
<1>3. ASSUME NEW id \in selected, DeleteSelected(id) PROVE CapInv'
  BY <1>3, ElseCapInv DEF DeleteSelected
<1>4. CASE \/ \E r \in Arrivals : Arrive(r) \/ Serve(r) \/ Ends(r)
           \/ \E save \in builds : Build(save) \/ BuildFails(save)
           \/ \E record \in senders : Send(record)
           \/ Evict \/ RecvMany \/ InsertFails \/ DeleteFails \/ LogCrash \/ UNCHANGED requestlog
  <2>1. UNCHANGED <<log, bodies>> /\ selected' \subseteq selected
    BY <1>4 DEF Arrive, Serve, BeginAttempt, UpstreamRequest, Ends, Complete, DropPending, Ending,
         Build, BuildFails, Send, Evict, RecvMany, InsertFails, DeleteFails, LogCrash, writer,
         requestlog
  <2> QED
    BY <2>1, ElseCapInv
<1> QED
  BY <1>1, <1>2, <1>3, <1>4 DEF LogNext, Writes, Prunes

(* The byte cap never costs a body that fits, for any cap, packet and      *)
(* sizes: the pruner's selection stays right while requests are logged,    *)
(* chunks of it fail and the process restarts.                             *)
THEOREM CapKeepsTheNewest == LogSpec => []CapKeepsNewest
<1>1. LogInit => CapInv
  <2> SUFFICES ASSUME LogInit PROVE CapInv
    OBVIOUS
  <2>1. Ids = {} /\ bodies = {} /\ selected = {}
    BY DEF LogInit, Ids
  <2> QED
    BY <2>1 DEF CapInv
<1>2. LogInv /\ CapInv => CapKeepsNewest
  <2> SUFFICES ASSUME LogInv, CapInv, NEW id \in Ids,
                      Stores(log[id]), MapThenSumSet(SizeOf, StoredAfter(id)) <= MaxBodyBytes
               PROVE id \in bodies
    BY DEF CapKeepsNewest
  <2>1. PICK S : Truthful(S)
    BY DEF LogInv, RecordsInv
  <2>2. /\ IsFiniteSet(Ids) /\ Ids \subseteq Nat
        /\ \A i \in Ids : SizesOf[i] = SizeOf(i) /\ SizesOf[i] \in Nat
    BY <2>1, Sized DEF Truthful, Over
  <2>3. PICK T : T = StoredAfter(id) /\ T \subseteq Ids
    BY DEF StoredAfter
  <2>4. PICK f : f = SizesOf
    OBVIOUS
  <2>5. \A i \in T : f[i] = SizeOf(i) /\ f[i] \in Int
    BY <2>2, <2>3, <2>4
  <2>6. MapThenSumSet(SizeOf, T) = Sum(f, T)
    BY <2>2, <2>3, <2>5, SizesAddUp, FS_Subset
  <2>7. SizeAfter(id) <= MaxBodyBytes
    BY <2>3, <2>4, <2>6 DEF SizeAfter
  <2> QED
    BY <2>7 DEF CapInv
<1> QED
  BY InitLogInv, StepLogInv, StepCapInv, <1>1, <1>2, PTL DEF LogSpec

-----------------------------------------------------------------------------
Early == {"idle", "modalities", "log", "access", "admit", "route", "streaming", "settle"}
Modal == [input : SUBSET {"image", "audio"}, output : SUBSET {"image", "audio"}]
CallRecord ==
  {l \in [pc : Early \cup {"tell", "done", "refused", "dropped"}, kind : AllKinds,
          wants : Modal, asks : BOOLEAN, logged : BOOLEAN, paid : BOOLEAN, told : BOOLEAN,
          mine : Nat, seen : Nat, failed : BOOLEAN, detached : BOOLEAN, billed : Nat] :
     l.pc = "modalities" => l.kind # "responses"}

BooksTypeOK ==
  /\ call \in [Calls -> CallRecord]
  /\ \E R : ledger \in Seq(R) /\ \A row \in R : row.amount \in Int
  /\ usage \in [Columns -> [requests : Nat, cost : Nat]]
  /\ logrow \in [Calls -> [status : {"none", "ok", "error", "rejected", "aborted"}, cost : Nat]]
  /\ hour \in 0..MaxHours
  /\ callfaults \in Nat

(* A call is charged once, for what it is billed, or not at all.           *)
ChargedOnce(c) ==
  \/ call[c].billed = 0 /\ UsageRows(c) = {}
  \/ /\ call[c].billed > 0
     /\ \E n \in DOMAIN ledger : UsageRows(c) = {n} /\ ledger[n].amount = -call[c].billed

TaskOf(c) == [of |-> c, cost |-> call[c].billed]
CallInv(c) ==
  /\ ChargedOnce(c)
  /\ Pc(c) \in Early \cup {"refused"} => call[c].billed = 0
  /\ Pc(c) = "tell" => call[c].billed \in {0, Due(c)}
  /\ logrow[c].status \in {"ok", "error"}
       => Pc(c) \in {"refused", "done"} /\ logrow[c].cost = call[c].billed
  /\ callfaults = 0 /\ Pc(c) = "done" /\ KeyOf[c] # NoKey
       => call[c].billed <= Fee \/ c \in recorded \/ TaskOf(c) \in recording

(* Tasks record what their call was billed, of calls that are done and     *)
(* have a key, and each of them once.                                      *)
Finished == {c \in Calls : Pc(c) = "done" /\ KeyOf[c] # NoKey}
TaskInv ==
  /\ \A task \in recording : \E c \in Finished \ recorded : task = TaskOf(c)
  /\ recorded \subseteq Finished

(* Of any pairs of a key and a model, the usage is what the calls that     *)
(* were recorded were billed.                                              *)
CostMap == [col \in Columns |-> usage[col].cost]
Bills == [c \in Calls |-> call[c].billed]
Cells(P) == {col \in Columns : <<col[1], col[3]>> \in P}
Under(P) == {c \in Calls : <<KeyOf[c], ModelOf[c]>> \in P}
UsageInv == \A P : Sum(CostMap, Cells(P)) = Sum(Bills, recorded \cap Under(P))

BooksInv == BooksTypeOK /\ (\A c \in Calls : CallInv(c)) /\ TaskInv /\ UsageInv

LEMMA ColumnsAreFinite == IsFiniteSet(Columns)
<1>1. PICK K : K = {KeyOf[c] : c \in Calls}
  OBVIOUS
<1>2. PICK M : M = {ModelOf[c] : c \in Calls}
  OBVIOUS
<1>3. IsFiniteSet(K)
  <2> PICK f : f = [c \in Calls |-> KeyOf[c]]
    OBVIOUS
  <2>1. f \in Surjection(Calls, K)
    BY <1>1 DEF Surjection
  <2> QED
    BY <2>1, EndpointsAssumption, FS_Surjection
<1>4. IsFiniteSet(M)
  <2> PICK f : f = [c \in Calls |-> ModelOf[c]]
    OBVIOUS
  <2>1. f \in Surjection(Calls, M)
    BY <1>2 DEF Surjection
  <2> QED
    BY <2>1, EndpointsAssumption, FS_Surjection
<1>5. PICK H : H = 0..MaxHours /\ IsFiniteSet(H)
  BY EndpointsAssumption, FS_Interval
<1>6. PICK T : T = K \X (H \X M) /\ IsFiniteSet(T)
  BY <1>3, <1>4, <1>5, FS_Product
<1>7. Columns = K \X H \X M
  BY <1>1, <1>2, <1>5 DEF Columns
<1>8. PICK g : g = [t \in T |-> <<t[1], t[2][1], t[2][2]>>]
  OBVIOUS
<1>9. g \in [T -> Columns]
  BY <1>6, <1>7, <1>8
<1>10. ASSUME NEW col \in Columns PROVE \E t \in T : g[t] = col
  <2>1. PICK k \in K, h \in H, m \in M : col = <<k, h, m>>
    BY <1>7
  <2>2. <<k, <<h, m>>>> \in T
    BY <1>6
  <2>3. g[<<k, <<h, m>>>>] = <<k, h, m>>
    BY <1>8, <2>2
  <2> QED
    BY <2>1, <2>2, <2>3
<1>11. g \in Surjection(T, Columns)
  BY <1>9, <1>10 DEF Surjection
<1> QED
  BY <1>6, <1>11, FS_Surjection

(* UsageInv speaks of the calls that were recorded only.                   *)
LEMMA UsageStays ==
  ASSUME BooksInv, UNCHANGED <<usage, recorded>>,
         \A c \in recorded : call'[c].billed = call[c].billed
  PROVE  UsageInv'
<1>1. recorded \subseteq Calls /\ \A c \in Calls : call[c].billed \in Nat
  BY DEF BooksInv, BooksTypeOK, CallRecord, TaskInv, Finished
<1> PICK f : f = Bills
  OBVIOUS
<1> PICK g : g = Bills'
  OBVIOUS
<1>2. \A c \in recorded : g[c] = f[c] /\ f[c] \in Int
  BY <1>1 DEF Bills
<1>3. ASSUME NEW P PROVE Sum(g, recorded \cap Under(P)) = Sum(f, recorded \cap Under(P))
  <2>1. PICK R : R = recorded \cap Under(P)
    OBVIOUS
  <2>2. IsFiniteSet(R)
    BY <1>1, <2>1, EndpointsAssumption, FS_Subset
  <2> QED
    BY <1>2, <2>1, <2>2, SumOf
<1>4. \A P : Sum(CostMap, Cells(P)) = Sum(f, recorded \cap Under(P))
  BY DEF BooksInv, UsageInv
<1>5. \A P : CostMap' = CostMap /\ Cells(P)' = Cells(P) /\ Under(P)' = Under(P)
             /\ recorded' = recorded
  BY DEF CostMap, Cells, Under
<1> QED
  BY <1>3, <1>4, <1>5 DEF UsageInv

(* What is billed and recorded never shrinks.                              *)
Grown ==
  /\ \A c \in Calls : call[c].billed <= call'[c].billed
  /\ \A col \in Columns : usage[col].cost <= usage'[col].cost
BooksStep == BooksInv' /\ Grown

(* A call goes on, and ends without a trace in the books.                  *)
LEMMA CallGoesOn ==
  ASSUME BooksInv, NEW c \in Calls, NEW l \in CallRecord, call' = [call EXCEPT ![c] = l],
         UNCHANGED Books, l.billed = call[c].billed,
         \/ Pc(c) \in Early /\ l.pc \in Early \cup {"refused", "dropped"}
         \/ Pc(c) = "tell" /\ l.pc = "dropped",
         NEW row \in [status : {"none", "ok", "error", "rejected", "aborted"}, cost : Nat],
         logrow' = [logrow EXCEPT ![c] = row],
         row.status \in {"ok", "error"} => l.pc = "refused" /\ row.cost = 0,
         callfaults' \in Nat, callfaults' >= callfaults
  PROVE  BooksStep
<1>1. BooksTypeOK'
  BY DEF BooksInv, BooksTypeOK, Books
<1>2. /\ call'[c] = l /\ logrow'[c] = row
      /\ \A d \in Calls \ {c} : call'[d] = call[d] /\ logrow'[d] = logrow[d]
      /\ \A d \in Calls : call'[d].billed = call[d].billed
  BY DEF BooksInv, BooksTypeOK
<1>3. /\ ledger' = ledger /\ recorded' = recorded /\ recording' = recording /\ usage' = usage
      /\ \A d : UsageRows(d)' = UsageRows(d)
  BY DEF Books, UsageRows
<1>4. ASSUME NEW d \in Calls PROVE CallInv(d)'
  <2>1. CallInv(d) /\ (callfaults' = 0 => callfaults = 0)
    BY DEF BooksInv, BooksTypeOK
  <2>2. ChargedOnce(d)'
    BY <1>2, <1>3, <2>1 DEF CallInv, ChargedOnce
  <2>3. CASE d # c
    <3>1. Pc(d)' = Pc(d) /\ Due(d)' = Due(d) /\ TaskOf(d)' = TaskOf(d)
      BY <1>2, <2>3 DEF Pc, Due, Chargeable, TaskOf
    <3> QED
      BY <1>2, <1>3, <2>1, <2>2, <2>3, <3>1 DEF CallInv
  <2>4. CASE d = c
    <3>1. Pc(d)' = l.pc /\ l.pc \in Early \cup {"refused", "dropped"}
      BY <1>2, <2>4 DEF Pc
    <3>2. Pc(d)' \in Early \cup {"refused"} => call'[d].billed = 0
      BY <1>2, <2>1, <2>4, <3>1 DEF CallInv, Early
    <3> QED
      BY <1>2, <2>2, <2>4, <3>1, <3>2 DEF CallInv, Early
  <2> QED
    BY <2>3, <2>4
<1>5. /\ Pc(c) # "done" /\ Finished \subseteq Finished'
      /\ \A d \in Calls : TaskOf(d)' = TaskOf(d)
  <2>1. \A d \in Finished : d # c
    BY DEF Finished, Early
  <2>2. \A d \in Finished : Pc(d)' = Pc(d)
    BY <1>2, <2>1 DEF Finished, Pc
  <2> QED
    BY <1>2, <2>2 DEF Finished, TaskOf, Early
<1>6. TaskInv'
  <2>1. TaskInv
    BY DEF BooksInv
  <2> QED
    BY <1>3, <1>5, <2>1 DEF TaskInv, Finished
<1>7. UsageInv'
  <2>1. \A d \in recorded : call'[d].billed = call[d].billed
    BY <1>2 DEF BooksInv, TaskInv, Finished
  <2> QED
    BY <1>3, <2>1, UsageStays
<1>8. Grown
  <2>1. \A d \in Calls : call[d].billed \in Nat
    BY DEF BooksInv, BooksTypeOK, CallRecord
  <2>2. \A col \in Columns : usage[col].cost \in Nat
    BY DEF BooksInv, BooksTypeOK
  <2> QED
    BY <1>2, <1>3, <2>1, <2>2 DEF Grown
<1> QED
  BY <1>1, <1>4, <1>6, <1>7, <1>8 DEF BooksInv, BooksStep

(* It goes on with nothing logged, or ends in a refusal.                   *)
LEMMA GoesOnUnlogged ==
  ASSUME BooksInv, NEW c \in Calls, Pc(c) \in Early,
         NEW l \in CallRecord, call' = [call EXCEPT ![c] = l],
         l.billed = call[c].billed, l.pc \in Early \cup {"refused"},
         UNCHANGED <<Books, logrow>>, callfaults' = callfaults \/ callfaults' = callfaults + 1
  PROVE  BooksStep
<1> PICK row : row = logrow[c]
  OBVIOUS
<1>1. row \in [status : {"none", "ok", "error", "rejected", "aborted"}, cost : Nat]
  BY DEF BooksInv, BooksTypeOK
<1>2. logrow' = [logrow EXCEPT ![c] = row]
  BY DEF BooksInv, BooksTypeOK
<1>3. row.status \notin {"ok", "error"}
  BY DEF BooksInv, CallInv, Early
<1>4. callfaults' \in Nat /\ callfaults' >= callfaults
  BY DEF BooksInv, BooksTypeOK
<1> QED
  BY <1>1, <1>2, <1>3, <1>4, CallGoesOn DEF Early

LEMMA EndsUnbilled ==
  ASSUME BooksInv, NEW c \in Calls, NEW pc \in {"refused", "dropped"},
         NEW status \in {"error", "rejected", "aborted"},
         \/ Pc(c) \in Early
         \/ Pc(c) = "tell" /\ pc = "dropped",
         call' = [call EXCEPT ![c].pc = pc, ![c].wants = Nothing],
         Logs(c, status, 0), pc = "dropped" => status = "aborted",
         UNCHANGED Books, callfaults' = callfaults \/ callfaults' = callfaults + 1
  PROVE  BooksStep
<1>1. call \in [Calls -> CallRecord]
  BY DEF BooksInv, BooksTypeOK
<1> PICK l : l = [call[c] EXCEPT !.pc = pc, !.wants = Nothing]
  OBVIOUS
<1>2. /\ l \in CallRecord /\ l.billed = call[c].billed /\ l.pc = pc
      /\ call' = [call EXCEPT ![c] = l]
  BY <1>1 DEF CallRecord, Modal, Nothing
<1> PICK row : row = IF call[c].logged THEN [status |-> status, cost |-> 0] ELSE NoRow
  OBVIOUS
<1>3. /\ row \in [status : {"none", "ok", "error", "rejected", "aborted"}, cost : Nat]
      /\ logrow' = [logrow EXCEPT ![c] = row]
      /\ row.status \in {"ok", "error"} => pc = "refused" /\ row.cost = 0
  BY DEF Logs, NoRow
<1>4. callfaults' \in Nat /\ callfaults' >= callfaults
  BY DEF BooksInv, BooksTypeOK
<1> QED
  BY <1>2, <1>3, <1>4, CallGoesOn

(* The handler up to the charge.                                           *)
Parses(c) ==
  \E kind \in Kinds :
    ParseFails(c, kind) \/ \E wants \in Wants(kind), asks \in BOOLEAN : Parse(c, kind, wants, asks)
LEMMA ParsesBooks == ASSUME BooksInv, NEW c \in Calls, Parses(c) PROVE BooksStep
<1>1. call \in [Calls -> CallRecord]
  BY DEF BooksInv, BooksTypeOK
<1>2. PICK kind \in Kinds :
        ParseFails(c, kind) \/ \E wants \in Wants(kind), asks \in BOOLEAN : Parse(c, kind, wants, asks)
  BY DEF Parses
<1>3. kind \in AllKinds /\ Pc(c) \in Early
  BY <1>2, EndpointsAssumption DEF ParseFails, Parse, Early
<1>4. CASE ParseFails(c, kind)
  <2> PICK l : l = [call[c] EXCEPT !.pc = "refused", !.kind = kind]
    OBVIOUS
  <2>1. /\ l \in CallRecord /\ l.billed = call[c].billed /\ l.pc = "refused"
        /\ call' = [call EXCEPT ![c] = l]
    BY <1>1, <1>3, <1>4 DEF CallRecord, ParseFails
  <2> QED
    BY <1>3, <1>4, <2>1, GoesOnUnlogged DEF ParseFails
<1>5. ASSUME NEW wants \in Wants(kind), NEW asks \in BOOLEAN, Parse(c, kind, wants, asks)
      PROVE  BooksStep
  <2>1. wants \in Modal
    BY <1>3 DEF Wants, Modal, Nothing, AllKinds, Chats, Unary, Tapped
  <2>2. /\ Head(Stages(kind)) \in Early
        /\ Head(Stages(kind)) = "modalities" => kind # "responses"
    BY DEF Stages, Early, Chats
  <2> PICK l : l = [call[c] EXCEPT !.pc = Head(Stages(kind)), !.kind = kind,
                                   !.wants = wants, !.asks = asks]
    OBVIOUS
  <2>3. /\ l \in CallRecord /\ l.billed = call[c].billed /\ l.pc \in Early
        /\ call' = [call EXCEPT ![c] = l]
    BY <1>1, <1>3, <1>5, <2>1, <2>2 DEF CallRecord, Parse
  <2> QED
    BY <1>3, <1>5, <2>3, GoesOnUnlogged DEF Parse
<1> QED
  BY <1>2, <1>4, <1>5

LEMMA GoesToNext ==
  ASSUME NEW kind \in AllKinds, NEW leg \in {"modalities", "log", "access"},
         leg = "modalities" => kind # "responses"
  PROVE  After(kind, leg) \in Early /\ (After(kind, leg) = "modalities" => kind # "responses")
<1> PICK s : s = Stages(kind)
  OBVIOUS
<1> PICK n : n = (CHOOSE i \in DOMAIN s : s[i] = leg)
  OBVIOUS
<1>0. After(kind, leg) = s[1 + n]
  BY DEF After
<1>1. CASE kind \in Chats
  <2>1. s = <<"modalities", "log", "access", "admit", "route">>
    BY <1>1 DEF Stages
  <2>2. \E i \in DOMAIN s : s[i] = leg
    BY <2>1
  <2>3. n \in 1..5 /\ s[n] = leg
    BY <2>1, <2>2
  <2>4. n \in 1..4
    BY <2>1, <2>3
  <2>5. s[1 + n] \in Early
    BY <2>1, <2>4 DEF Early
  <2> QED
    BY <1>0, <1>1, <2>5 DEF Chats
<1>2. CASE kind = "responses"
  <2>1. s = <<"log", "access", "admit", "route">>
    BY <1>2 DEF Stages, Chats
  <2>2. \E i \in DOMAIN s : s[i] = leg
    BY <1>2, <2>1
  <2>3. n \in 1..4 /\ s[n] = leg
    BY <2>1, <2>2
  <2>4. n \in 1..3
    BY <1>2, <2>1, <2>3
  <2>5. s[1 + n] \in Early /\ s[1 + n] # "modalities"
    <3>1. s[2] = "access" /\ s[3] = "admit" /\ s[4] = "route"
      BY <2>1
    <3>2. ASSUME NEW m \in 1..3 PROVE s[1 + m] \in {"access", "admit", "route"}
      <4>1. m = 1 \/ m = 2 \/ m = 3
        OBVIOUS
      <4>2. 1 + 1 = 2 /\ 1 + 2 = 3 /\ 1 + 3 = 4
        OBVIOUS
      <4> QED
        BY <3>1, <4>1, <4>2
    <3>3. s[1 + n] \in {"access", "admit", "route"}
      BY <2>4, <3>2
    <3> QED
      BY <3>3 DEF Early
  <2> QED
    BY <1>0, <2>5
<1>3. CASE kind \notin Chats /\ kind # "responses"
  <2>1. s = <<"log", "access", "modalities", "admit", "route">>
    BY <1>3 DEF Stages
  <2>2. \E i \in DOMAIN s : s[i] = leg
    BY <2>1
  <2>3. n \in 1..5 /\ s[n] = leg
    BY <2>1, <2>2
  <2>4. n \in 1..4
    BY <2>1, <2>3
  <2>5. s[1 + n] \in Early
    BY <2>1, <2>4 DEF Early
  <2> QED
    BY <1>0, <1>3, <2>5
<1> QED
  BY <1>1, <1>2, <1>3

LEMMA PassesBooks ==
  ASSUME BooksInv, NEW c \in Calls, NEW leg \in {"modalities", "log", "access"},
         NEW logged \in BOOLEAN,
         \/ Passes(c, leg)
         \/ leg = "log" /\ BeginLog(c, logged)
  PROVE  BooksStep
<1>1. call \in [Calls -> CallRecord]
  BY DEF BooksInv, BooksTypeOK
<1>2. /\ Pc(c) = leg /\ Pc(c) \in Early
      /\ UNCHANGED <<Books, logrow, callfaults>>
  BY DEF Passes, BeginLog, Early
<1> PICK pc : pc = After(call[c].kind, leg)
  OBVIOUS
<1>3. pc \in Early /\ (pc = "modalities" => call[c].kind # "responses")
  <2>1. call[c].kind \in AllKinds /\ (leg = "modalities" => call[c].kind # "responses")
    BY <1>1, <1>2 DEF CallRecord, Pc
  <2> QED
    BY <2>1, GoesToNext
<1>4. CASE Passes(c, leg)
  <2> PICK l : l = [call[c] EXCEPT !.pc = pc, !.wants = Nothing]
    OBVIOUS
  <2>1. l \in CallRecord /\ l.billed = call[c].billed /\ l.pc \in Early
    <3>1. Nothing \in Modal /\ call[c] \in CallRecord
      BY <1>1 DEF Nothing, Modal
    <3> QED
      BY <1>3, <3>1 DEF CallRecord
  <2>2. call' = [call EXCEPT ![c] = l]
    BY <1>1, <1>4 DEF Passes
  <2> QED
    BY <1>2, <2>1, <2>2, GoesOnUnlogged
<1>5. CASE leg = "log" /\ BeginLog(c, logged)
  <2> PICK l : l = [call[c] EXCEPT !.pc = pc, !.logged = logged]
    OBVIOUS
  <2>1. l \in CallRecord /\ l.billed = call[c].billed /\ l.pc \in Early
    BY <1>1, <1>3 DEF CallRecord
  <2>2. call' = [call EXCEPT ![c] = l]
    BY <1>1, <1>5 DEF BeginLog
  <2> QED
    BY <1>2, <2>1, <2>2, GoesOnUnlogged
<1> QED
  BY <1>4, <1>5

(* Whatever refuses it before the charge.                                  *)
Refusal(c) ==
  \/ \E declared \in Declarations : Rejection(declared, call[c].wants) /\ RequireModalities(c, declared)
  \/ Pc(c) = "access" /\ Refuses(c, "rejected") /\ UNCHANGED callfaults
  \/ AccessFails(c) \/ InsufficientFunds(c) \/ AdmitFails(c) \/ RouterFails(c)
LEMMA RefusalBooks == ASSUME BooksInv, NEW c \in Calls, Refusal(c) PROVE BooksStep
<1>1. /\ Pc(c) \in Early
      /\ Refuses(c, "error") \/ Refuses(c, "rejected")
      /\ callfaults' = callfaults \/ callfaults' = callfaults + 1
  BY DEF Refusal, RequireModalities, AccessFails, InsufficientFunds, AdmitFails, RouterFails,
       CallFault, Early
<1> QED
  BY <1>1, EndsUnbilled DEF Refuses

(* The steps that only change the handler's locals.                        *)
Works(c) ==
  \/ \E paid \in BOOLEAN : Admits(c, paid)
  \/ RouterStreams(c)
  \/ \E told \in BOOLEAN, t \in 0..MaxTokens : RouterAnswers(c, told, t)
  \/ \E t \in 0..MaxTokens : UsageChunk(c, t) \/ Trailer(c, t)
  \/ NextAttempt(c) \/ StreamItemFails(c) \/ StreamEnds(c)
LEMMA WorksBooks == ASSUME BooksInv, NEW c \in Calls, Works(c) PROVE BooksStep
<1>1. call \in [Calls -> CallRecord]
  BY DEF BooksInv, BooksTypeOK
<1>2. 0..MaxTokens \subseteq Nat
  BY EndpointsAssumption
<1>3. ASSUME NEW l \in CallRecord, call' = [call EXCEPT ![c] = l], l.billed = call[c].billed,
             l.pc \in Early, Pc(c) \in Early, UNCHANGED <<Books, logrow, callfaults>>
      PROVE  BooksStep
  BY <1>3, GoesOnUnlogged
<1>4. ASSUME NEW paid \in BOOLEAN, Admits(c, paid) PROVE BooksStep
  <2> PICK l : l = [call[c] EXCEPT !.pc = "route", !.paid = paid]
    OBVIOUS
  <2>1. l \in CallRecord /\ l.billed = call[c].billed /\ l.pc \in Early
    BY <1>1 DEF CallRecord, Early
  <2>2. call' = [call EXCEPT ![c] = l] /\ Pc(c) \in Early
    BY <1>1, <1>4 DEF Admits, Early
  <2> QED
    BY <1>3, <1>4, <2>1, <2>2 DEF Admits
<1>5. CASE RouterStreams(c)
  <2> PICK l : l = [call[c] EXCEPT !.pc = "streaming"]
    OBVIOUS
  <2>1. l \in CallRecord /\ l.billed = call[c].billed /\ l.pc \in Early
    BY <1>1 DEF CallRecord, Early
  <2>2. call' = [call EXCEPT ![c] = l] /\ Pc(c) \in Early
    BY <1>1, <1>5 DEF RouterStreams, Early
  <2> QED
    BY <1>3, <1>5, <2>1, <2>2 DEF RouterStreams
<1>6. ASSUME NEW told \in BOOLEAN, NEW t \in 0..MaxTokens, RouterAnswers(c, told, t) PROVE BooksStep
  <2> PICK l : l = [call[c] EXCEPT !.pc = "settle", !.told = told, !.mine = t, !.seen = t]
    OBVIOUS
  <2>1. l \in CallRecord /\ l.billed = call[c].billed /\ l.pc \in Early
    BY <1>1, <1>2 DEF CallRecord, Early
  <2>2. call' = [call EXCEPT ![c] = l] /\ Pc(c) \in Early
    BY <1>1, <1>6 DEF RouterAnswers, Early
  <2> QED
    BY <1>3, <1>6, <2>1, <2>2 DEF RouterAnswers
<1>7. ASSUME NEW l, Streams(c, l), l \in CallRecord, l.billed = call[c].billed, l.pc \in Early
      PROVE  BooksStep
  <2>1. call' = [call EXCEPT ![c] = l] /\ Pc(c) \in Early
    BY <1>7 DEF Streams, Early
  <2> QED
    BY <1>3, <1>7, <2>1 DEF Streams
<1>8. Pc(c) = "streaming" => call[c].pc \in Early /\ call[c].pc # "modalities"
  BY DEF Pc, Early
<1>9. ASSUME NEW t \in 0..MaxTokens, UsageChunk(c, t) PROVE BooksStep
  <2> PICK l : l = [call[c] EXCEPT !.mine = t, !.seen = t]
    OBVIOUS
  <2>1. Streams(c, l)
    BY <1>9 DEF UsageChunk
  <2>2. l \in CallRecord /\ l.billed = call[c].billed /\ l.pc \in Early
    BY <1>1, <1>2, <1>8, <2>1 DEF CallRecord, Streams
  <2> QED
    BY <1>7, <2>1, <2>2
<1>10. ASSUME NEW t \in 0..MaxTokens, Trailer(c, t) PROVE BooksStep
  <2> PICK u : u = IF call[c].asks THEN t ELSE call[c].seen
    OBVIOUS
  <2> PICK l : l = [call[c] EXCEPT !.mine = t, !.seen = u]
    OBVIOUS
  <2>1. Streams(c, l)
    BY <1>1, <1>10 DEF Trailer, CallRecord
  <2>2. l \in CallRecord /\ l.billed = call[c].billed /\ l.pc \in Early
    <3>1. u \in Nat
      BY <1>1, <1>2 DEF CallRecord
    <3> QED
      BY <1>1, <1>2, <1>8, <2>1, <3>1 DEF CallRecord, Streams
  <2> QED
    BY <1>7, <2>1, <2>2
<1>11. CASE NextAttempt(c)
  <2> PICK l : l = [call[c] EXCEPT !.mine = 0]
    OBVIOUS
  <2>1. Streams(c, l)
    BY <1>11 DEF NextAttempt
  <2>2. l \in CallRecord /\ l.billed = call[c].billed /\ l.pc \in Early
    BY <1>1, <1>8, <2>1 DEF CallRecord, Streams
  <2> QED
    BY <1>7, <2>1, <2>2
<1>12. CASE StreamItemFails(c)
  <2> PICK l : l = [call[c] EXCEPT !.failed = TRUE]
    OBVIOUS
  <2>1. Streams(c, l)
    BY <1>12 DEF StreamItemFails
  <2>2. l \in CallRecord /\ l.billed = call[c].billed /\ l.pc \in Early
    BY <1>1, <1>8, <2>1 DEF CallRecord, Streams
  <2> QED
    BY <1>7, <2>1, <2>2
<1>13. CASE StreamEnds(c)
  <2> PICK l : l = [call[c] EXCEPT !.pc = "settle"]
    OBVIOUS
  <2>1. Streams(c, l)
    BY <1>13 DEF StreamEnds
  <2>2. l \in CallRecord /\ l.billed = call[c].billed /\ l.pc \in Early
    BY <1>1, <2>1 DEF CallRecord, Early
  <2> QED
    BY <1>7, <2>1, <2>2
<1> QED
  BY <1>4, <1>5, <1>6, <1>9, <1>10, <1>11, <1>12, <1>13 DEF Works

LEMMA LeavesBooks == ASSUME BooksInv, NEW c \in Calls, ClientLeaves(c) PROVE BooksStep
<1>1. call \in [Calls -> CallRecord]
  BY DEF BooksInv, BooksTypeOK
<1>2. /\ Pc(c) \in Early \/ Pc(c) = "tell"
      /\ callfaults' = callfaults + 1 /\ UNCHANGED Books
  BY DEF ClientLeaves, Handling, CallFault, Early
<1>3. CASE FinishesOnDrop(c)
  <2> PICK l : l = [call[c] EXCEPT !.pc = "settle", !.failed = TRUE, !.detached = TRUE]
    OBVIOUS
  <2>1. l \in CallRecord /\ l.billed = call[c].billed /\ l.pc \in Early
    <3>1. call[c] \in CallRecord
      BY <1>1
    <3> QED
      BY <3>1 DEF CallRecord, Early
  <2>2. call' = [call EXCEPT ![c] = l] /\ Pc(c) \in Early /\ logrow' = logrow
    BY <1>1, <1>3 DEF ClientLeaves, FinishesOnDrop, Early
  <2> QED
    BY <1>2, <2>1, <2>2, GoesOnUnlogged
<1>4. CASE ~FinishesOnDrop(c)
  <2>1. call' = [call EXCEPT ![c].pc = "dropped", ![c].wants = Nothing] /\ Logs(c, "aborted", 0)
    BY <1>4 DEF ClientLeaves
  <2> QED
    BY <1>2, <2>1, EndsUnbilled
<1> QED
  BY <1>3, <1>4

-----------------------------------------------------------------------------
(* A row is booked.                                                        *)
LEMMA RowBooked ==
  ASSUME NEW R, ledger \in Seq(R), \A row \in R : row.amount \in Int,
         NEW type, NEW amount \in Int, NEW ref, ledger' = Booked(type, amount, ref)
  PROVE  /\ \E Q : ledger' \in Seq(Q) /\ \A row \in Q : row.amount \in Int
         /\ \A n \in DOMAIN ledger : n \in DOMAIN ledger' /\ ledger'[n] = ledger[n]
         /\ \A c : UsageRows(c)' = IF ref = c /\ type = "usage"
                                   THEN UsageRows(c) \cup {Len(ledger) + 1} ELSE UsageRows(c)
         /\ Len(ledger) + 1 \in DOMAIN ledger' /\ ledger'[Len(ledger) + 1].amount = amount
<1> PICK row : row = [type |-> type, amount |-> amount, ref |-> ref]
  OBVIOUS
<1> PICK k : k = Len(ledger)
  OBVIOUS
<1>1. k \in Nat /\ DOMAIN ledger = 1..k
  BY LenProperties
<1>2. PICK Q : Q = R \cup {row}
  OBVIOUS
<1>3. ledger \in Seq(Q)
  BY <1>2, SeqMonotonic
<1>4. ledger' = Append(ledger, row)
  BY DEF Booked
<1>5. /\ ledger' \in Seq(Q) /\ Len(ledger') = k + 1
      /\ \A i \in 1..k : ledger'[i] = ledger[i]
      /\ ledger'[k + 1] = row
  BY <1>2, <1>3, <1>4, AppendProperties
<1>6. DOMAIN ledger' = 1..(k + 1)
  BY <1>5, LenProperties
<1>7. \A x \in Q : x.amount \in Int
  BY <1>2
<1>8. ASSUME NEW c
      PROVE  UsageRows(c)' = IF ref = c /\ type = "usage"
                             THEN UsageRows(c) \cup {k + 1} ELSE UsageRows(c)
  <2>1. UsageRows(c)' = {n \in 1..(k + 1) : ledger'[n].ref = c /\ ledger'[n].type = "usage"}
    BY <1>6 DEF UsageRows
  <2>2. UsageRows(c) = {n \in 1..k : ledger[n].ref = c /\ ledger[n].type = "usage"}
    BY <1>1 DEF UsageRows
  <2>3. ledger'[k + 1].ref = ref /\ ledger'[k + 1].type = type
    BY <1>5
  <2>4. \A n \in 1..(k + 1) : n \in 1..k \/ n = k + 1
    BY <1>1
  <2>5. \A n \in 1..k : n \in 1..(k + 1) /\ n # k + 1
    BY <1>1
  <2>6. k + 1 \in 1..(k + 1)
    BY <1>1
  <2> QED
    BY <1>5, <2>1, <2>2, <2>3, <2>4, <2>5, <2>6
<1>9. /\ \A n \in DOMAIN ledger : n \in DOMAIN ledger' /\ ledger'[n] = ledger[n]
      /\ k + 1 \in DOMAIN ledger' /\ ledger'[k + 1].amount = amount
  BY <1>1, <1>5, <1>6
<1> QED
  BY <1>5, <1>7, <1>8, <1>9

LEMMA DueIsNat == ASSUME BooksTypeOK, NEW c \in Calls PROVE Due(c) \in Nat
<1>1. \A a, b \in Nat : a * b \in Nat
  OBVIOUS
<1>2. call[c].seen \in Nat
  BY DEF BooksTypeOK, CallRecord
<1>3. Rate * call[c].seen \in Nat
  BY <1>1, <1>2, EndpointsAssumption
<1> QED
  BY <1>3, EndpointsAssumption DEF Due, Price

(* The charge, and one that fails.                                         *)
LEMMA SettlesBooks ==
  ASSUME BooksInv, NEW c \in Calls, Charge(c) \/ ChargeFails(c)
  PROVE  BooksStep
<1> PICK b : b = IF Charge(c) THEN Due(c) ELSE 0
  OBVIOUS
<1>1. /\ b \in Nat /\ b \in {0, Due(c)} /\ Due(c) \in Nat
      /\ Pc(c) = "settle"
      /\ call' = [call EXCEPT ![c].pc = "tell", ![c].billed = b]
      /\ UNCHANGED <<usage, recording, recorded, hour, logrow>>
      /\ ledger' = IF b > 0 THEN Booked("usage", -b, c) ELSE ledger
      /\ callfaults' = callfaults \/ callfaults' = callfaults + 1
  BY DueIsNat DEF BooksInv, Charge, ChargeFails, CallFault, Books
<1>2. call \in [Calls -> CallRecord] /\ callfaults \in Nat
  BY DEF BooksInv, BooksTypeOK
<1>3. PICK R : ledger \in Seq(R) /\ \A row \in R : row.amount \in Int
  BY DEF BooksInv, BooksTypeOK
<1> PICK l : l = [call[c] EXCEPT !.pc = "tell", !.billed = b]
  OBVIOUS
<1>4. /\ l \in CallRecord /\ call' = [call EXCEPT ![c] = l]
      /\ l.pc = "tell" /\ l.billed = b
      /\ l.kind = call[c].kind /\ l.told = call[c].told /\ l.paid = call[c].paid
      /\ l.seen = call[c].seen
  BY <1>1, <1>2 DEF CallRecord
<1>5. /\ call' \in [Calls -> CallRecord] /\ call'[c] = l
      /\ \A d \in Calls \ {c} : call'[d] = call[d]
  BY <1>2, <1>4
<1>6. /\ \E Q : ledger' \in Seq(Q) /\ \A row \in Q : row.amount \in Int
      /\ \A n \in DOMAIN ledger : n \in DOMAIN ledger' /\ ledger'[n] = ledger[n]
      /\ \A d \in Calls \ {c} : UsageRows(d)' = UsageRows(d)
  <2>1. CASE b > 0
    <3> PICK a \in Int : a = -b
      BY <1>1
    <3>1. ledger' = Booked("usage", a, c)
      BY <1>1, <2>1
    <3> QED
      BY <1>3, <3>1, RowBooked
  <2>2. CASE ~(b > 0)
    BY <1>1, <1>3, <2>2 DEF UsageRows
  <2> QED
    BY <2>1, <2>2
<1>7. BooksTypeOK'
  BY <1>1, <1>2, <1>5, <1>6 DEF BooksInv, BooksTypeOK
<1>8. CallInv(c)'
  <2>1. CallInv(c) /\ call[c].billed = 0
    BY <1>1 DEF BooksInv, CallInv, Early
  <2>2. UsageRows(c) = {}
    BY <2>1 DEF CallInv, ChargedOnce
  <2>3. /\ Pc(c)' = "tell" /\ call'[c].billed = b /\ Due(c)' = Due(c)
        /\ logrow'[c].status \notin {"ok", "error"}
    <3>1. logrow'[c].status \notin {"ok", "error"}
      BY <1>1, <2>1 DEF CallInv, Early
    <3> QED
      BY <1>4, <1>5, <3>1 DEF Pc, Due, Chargeable
  <2>4. ChargedOnce(c)'
    <3>1. CASE b > 0
      <4> PICK a \in Int : a = -b
        BY <1>1
      <4>1. ledger' = Booked("usage", a, c)
        BY <1>1, <3>1
      <4>2. /\ UsageRows(c)' = UsageRows(c) \cup {Len(ledger) + 1}
            /\ Len(ledger) + 1 \in DOMAIN ledger' /\ ledger'[Len(ledger) + 1].amount = a
        BY <1>3, <4>1, RowBooked
      <4> QED
        BY <2>2, <2>3, <3>1, <4>2 DEF ChargedOnce
    <3>2. CASE ~(b > 0)
      <4>1. UsageRows(c)' = {} /\ b = 0
        BY <1>1, <2>2, <3>2 DEF UsageRows
      <4> QED
        BY <2>3, <4>1 DEF ChargedOnce
    <3> QED
      BY <3>1, <3>2
  <2> QED
    BY <1>1, <2>3, <2>4 DEF CallInv, Early
<1>9. ASSUME NEW d \in Calls \ {c} PROVE CallInv(d)'
  <2>1. CallInv(d) /\ (callfaults' = 0 => callfaults = 0)
    BY <1>1, <1>2 DEF BooksInv
  <2>2. ChargedOnce(d)'
    BY <1>5, <1>6, <2>1 DEF CallInv, ChargedOnce
  <2>3. Pc(d)' = Pc(d) /\ Due(d)' = Due(d) /\ TaskOf(d)' = TaskOf(d)
    BY <1>5 DEF Pc, Due, Chargeable, TaskOf
  <2> QED
    BY <1>1, <1>5, <2>1, <2>2, <2>3 DEF CallInv
<1>10. TaskInv'
  <2>1. \A d \in Finished : d # c
    BY <1>1 DEF Finished
  <2>2. Finished \subseteq Finished' /\ \A d \in Finished : TaskOf(d)' = TaskOf(d)
    BY <1>5, <2>1 DEF Finished, TaskOf, Pc
  <2> QED
    BY <1>1, <2>2 DEF BooksInv, TaskInv
<1>11. UsageInv'
  <2>1. \A d \in recorded : call'[d].billed = call[d].billed
    BY <1>1, <1>5 DEF BooksInv, TaskInv, Finished
  <2> QED
    BY <1>1, <2>1, UsageStays
<1>12. Grown
  <2>1. \A d \in Calls : call[d].billed \in Nat
    BY DEF BooksInv, BooksTypeOK, CallRecord
  <2>2. \A col \in Columns : usage[col].cost \in Nat
    BY DEF BooksInv, BooksTypeOK
  <2>3. call[c].billed = 0
    BY <1>1 DEF BooksInv, CallInv, Early
  <2> QED
    BY <1>1, <1>4, <1>5, <2>1, <2>2, <2>3 DEF Grown
<1> QED
  BY <1>7, <1>8, <1>9, <1>10, <1>11, <1>12 DEF BooksInv, BooksStep

(* What is told: the task that will record the usage, and the log.         *)
LEMMA TellBooks == ASSUME BooksInv, NEW c \in Calls, Tell(c) PROVE BooksStep
<1>1. /\ Pc(c) = "tell" /\ call' = [call EXCEPT ![c].pc = "done"]
      /\ recording' = IF Records(c) THEN recording \cup {TaskOf(c)} ELSE recording
      /\ UNCHANGED <<ledger, usage, recorded, hour, callfaults>>
  BY DEF Tell, TaskOf, Billed
<1>2. /\ call \in [Calls -> CallRecord] /\ call[c] \in CallRecord /\ callfaults \in Nat
      /\ call[c].billed \in Nat
  BY DEF BooksInv, BooksTypeOK, CallRecord
<1> PICK l : l = [call[c] EXCEPT !.pc = "done"]
  OBVIOUS
<1>3. l \in CallRecord /\ call' = [call EXCEPT ![c] = l] /\ l.pc = "done" /\ l.billed = call[c].billed
  BY <1>1, <1>2 DEF CallRecord
<1>4. /\ call' \in [Calls -> CallRecord] /\ call'[c] = l
      /\ \A d \in Calls \ {c} : call'[d] = call[d]
      /\ \A d \in Calls : call'[d].billed = call[d].billed
  BY <1>2, <1>3
<1> PICK row : row = IF call[c].logged
                     THEN [status |-> IF call[c].failed THEN "error" ELSE "ok", cost |-> call[c].billed]
                     ELSE NoRow
  OBVIOUS
<1>5. /\ row \in [status : {"none", "ok", "error", "rejected", "aborted"}, cost : Nat]
      /\ row.status \in {"ok", "error"} => row.cost = call[c].billed
      /\ logrow' = [logrow EXCEPT ![c] = row]
  BY <1>2 DEF NoRow, Tell, Logs, Billed
<1>6. /\ logrow' \in [Calls -> [status : {"none", "ok", "error", "rejected", "aborted"}, cost : Nat]]
      /\ logrow'[c] = row /\ \A d \in Calls \ {c} : logrow'[d] = logrow[d]
  BY <1>5 DEF BooksInv, BooksTypeOK
<1>7. BooksTypeOK'
  BY <1>1, <1>4, <1>6 DEF BooksInv, BooksTypeOK
<1>8. \A d \in Calls : UsageRows(d)' = UsageRows(d) /\ TaskOf(d)' = TaskOf(d) /\ ChargedOnce(d)'
  <2>1. \A d \in Calls : UsageRows(d)' = UsageRows(d)
    BY <1>1 DEF UsageRows
  <2>2. \A d \in Calls : TaskOf(d)' = TaskOf(d)
    BY <1>4 DEF TaskOf
  <2>3. ASSUME NEW d \in Calls PROVE ChargedOnce(d)'
    <3>1. ChargedOnce(d)
      BY DEF BooksInv, CallInv
    <3> QED
      BY <1>1, <1>4, <2>1, <3>1 DEF ChargedOnce
  <2> QED
    BY <2>1, <2>2, <2>3
<1>9. KeyOf[c] # NoKey /\ ~Records(c) => call[c].billed <= Fee
  <2> SUFFICES ASSUME KeyOf[c] # NoKey, ~Records(c) PROVE call[c].billed <= Fee
    OBVIOUS
  <2>1. call[c].billed = 0 \/ call[c].billed = Due(c)
    BY <1>1 DEF BooksInv, CallInv
  <2>2. \/ call[c].kind = "chat" /\ ~call[c].told
        \/ call[c].kind = "chat_stream" /\ ~(call[c].seen > 0)
    BY DEF Records
  <2>3. Due(c) = 0 \/ Due(c) = Fee
    <3>1. CASE call[c].kind = "chat" /\ ~call[c].told
      BY <3>1 DEF Due, Chargeable
    <3>2. CASE call[c].kind = "chat_stream" /\ ~(call[c].seen > 0)
      <4>1. call[c].seen = 0
        BY <1>2, <3>2 DEF CallRecord
      <4>2. Price(0) = Fee
        BY EndpointsAssumption DEF Price
      <4> QED
        BY <4>1, <4>2 DEF Due
    <3> QED
      BY <2>2, <3>1, <3>2
  <2> QED
    BY <2>1, <2>3, EndpointsAssumption
<1>10. CallInv(c)'
  <2>1. Pc(c)' = "done"
    BY <1>3, <1>4 DEF Pc
  <2>2. Records(c) => TaskOf(c)' \in recording'
    BY <1>1, <1>8
  <2> QED
    BY <1>4, <1>5, <1>6, <1>8, <1>9, <2>1, <2>2 DEF CallInv, Early
<1>11. ASSUME NEW d \in Calls \ {c} PROVE CallInv(d)'
  <2>1. CallInv(d)
    BY DEF BooksInv
  <2>2. Pc(d)' = Pc(d) /\ Due(d)' = Due(d)
    BY <1>4 DEF Pc, Due, Chargeable
  <2> QED
    BY <1>1, <1>4, <1>6, <1>8, <2>1, <2>2 DEF CallInv
<1>12. TaskInv'
  <2>1. \A d \in Finished : d # c
    BY <1>1 DEF Finished
  <2>2. Finished \subseteq Finished'
    BY <1>4, <2>1 DEF Finished, Pc
  <2>3. Records(c) => c \in Finished' /\ c \notin recorded'
    <3>1. c \notin recorded
      BY <1>1, <2>1 DEF BooksInv, TaskInv
    <3> QED
      BY <1>1, <1>3, <1>4, <3>1 DEF Finished, Pc, Records
  <2>4. ASSUME NEW task \in recording' PROVE \E d \in Finished' \ recorded' : task = TaskOf(d)'
    <3>1. CASE task \in recording
      <4>1. PICK d \in Finished \ recorded : task = TaskOf(d)
        BY <3>1 DEF BooksInv, TaskInv
      <4> QED
        BY <1>1, <1>8, <2>2, <4>1 DEF Finished
    <3>2. CASE task \notin recording
      BY <1>1, <1>8, <2>3, <2>4, <3>2
    <3> QED
      BY <3>1, <3>2
  <2>5. recorded' \subseteq Finished'
    BY <1>1, <2>2 DEF BooksInv, TaskInv
  <2> QED
    BY <2>4, <2>5 DEF TaskInv
<1>13. UsageInv'
  <2>1. \A d \in recorded : call'[d].billed = call[d].billed
    BY <1>4 DEF BooksInv, TaskInv, Finished
  <2> QED
    BY <1>1, <2>1, UsageStays
<1>14. Grown
  <2>1. \A d \in Calls : call[d].billed \in Nat
    BY DEF BooksInv, BooksTypeOK, CallRecord
  <2>2. \A col \in Columns : usage[col].cost \in Nat
    BY DEF BooksInv, BooksTypeOK
  <2> QED
    BY <1>1, <1>4, <2>1, <2>2 DEF Grown
<1> QED
  BY <1>7, <1>10, <1>11, <1>12, <1>13, <1>14 DEF BooksInv, BooksStep

(* A task records the usage.                                               *)
LEMMA RecordUsageInv ==
  ASSUME BooksInv, NEW c \in Finished \ recorded,
         usage' = [usage EXCEPT ![Column(c)] = Added(@, call[c].billed)],
         recorded' = recorded \cup {c}, UNCHANGED <<call, hour>>
  PROVE  UsageInv' /\ Grown /\ usage' \in [Columns -> [requests : Nat, cost : Nat]]
<1>1. /\ usage \in [Columns -> [requests : Nat, cost : Nat]] /\ hour \in 0..MaxHours
      /\ c \in Calls /\ recorded \subseteq Calls
      /\ \A d \in Calls : call[d].billed \in Nat
  BY DEF BooksInv, BooksTypeOK, CallRecord, TaskInv, Finished
<1> PICK col : col = <<KeyOf[c], hour, ModelOf[c]>>
  OBVIOUS
<1> PICK b : b = call[c].billed
  OBVIOUS
<1>2. col \in Columns /\ b \in Nat
  BY <1>1 DEF Columns
<1>3. /\ usage' \in [Columns -> [requests : Nat, cost : Nat]]
      /\ usage'[col].cost = usage[col].cost + b
      /\ \A x \in Columns \ {col} : usage'[x] = usage[x]
  <2>1. usage' = [usage EXCEPT ![col] = Added(usage[col], b)]
    BY <1>1, <1>2 DEF Column
  <2>2. Added(usage[col], b) \in [requests : Nat, cost : Nat]
    BY <1>1, <1>2 DEF Added
  <2>3. Added(usage[col], b).cost = usage[col].cost + b
    BY DEF Added
  <2> QED
    BY <1>1, <1>2, <2>1, <2>2, <2>3
<1> PICK f : f = CostMap
  OBVIOUS
<1> PICK e : e = CostMap'
  OBVIOUS
<1>4. /\ \A x \in Columns : f[x] \in Int /\ e[x] \in Int
      /\ e[col] = f[col] + b /\ \A x \in Columns \ {col} : e[x] = f[x]
  BY <1>1, <1>2, <1>3 DEF CostMap
<1> PICK g : g = Bills
  OBVIOUS
<1>5. g[c] = b /\ \A d \in Calls : g[d] \in Int
  BY <1>1 DEF Bills
<1>6. Bills' = g /\ \A P : Cells(P)' = Cells(P) /\ Under(P)' = Under(P)
  BY DEF Bills, Cells, Under
<1>7. ASSUME NEW P
      PROVE  Sum(e, Cells(P)) = Sum(g, (recorded \cup {c}) \cap Under(P))
  <2>1. Sum(f, Cells(P)) = Sum(g, recorded \cap Under(P))
    BY DEF BooksInv, UsageInv
  <2> PICK T : T = Cells(P)
    OBVIOUS
  <2> PICK R : R = recorded \cap Under(P)
    OBVIOUS
  <2>2. /\ T \subseteq Columns /\ R \subseteq Calls /\ c \notin R
        /\ IsFiniteSet(T) /\ IsFiniteSet(R)
    BY <1>1, ColumnsAreFinite, EndpointsAssumption, FS_Subset DEF Cells
  <2>3. CASE <<KeyOf[c], ModelOf[c]>> \in P
    <3>1. col \in T
      BY <1>2, <2>3 DEF Cells
    <3>2. Sum(e, T) = Sum(f, T) + b
      <4>1. /\ \A y \in T : f[y] \in Int
            /\ \A y \in T \ {col} : e[y] = f[y]
            /\ e[col] = f[col] + b /\ b \in Int
        BY <1>2, <1>4, <2>2
      <4> QED
        BY <2>2, <3>1, <4>1, SumBump
    <3>3. (recorded \cup {c}) \cap Under(P) = R \cup {c}
      BY <1>1, <2>3 DEF Under
    <3>4. Sum(g, R \cup {c}) = b + Sum(g, R)
      BY <1>1, <1>5, <2>2, SumAdds
    <3>5. Sum(g, R) \in Int
      BY <1>5, <2>2, SumIs
    <3>6. Sum(f, T) = Sum(g, R)
      BY <2>1
    <3>7. Sum(e, T) = Sum(g, R \cup {c})
      BY <1>2, <3>2, <3>4, <3>5, <3>6
    <3> QED
      BY <3>3, <3>7
  <2>4. CASE <<KeyOf[c], ModelOf[c]>> \notin P
    <3>1. col \notin T
      BY <2>4 DEF Cells
    <3>2. Sum(e, T) = Sum(f, T)
      BY <1>4, <2>2, <3>1, SumOf
    <3>3. (recorded \cup {c}) \cap Under(P) = R
      BY <2>4 DEF Under
    <3> QED
      BY <2>1, <3>2, <3>3
  <2> QED
    BY <2>3, <2>4
<1>8. Grown
  <2>1. \A x \in Columns : usage[x].cost \in Nat
    BY <1>1
  <2> QED
    BY <1>1, <1>2, <1>3, <2>1 DEF Grown
<1>9. UsageInv'
  BY <1>6, <1>7 DEF UsageInv
<1> QED
  BY <1>3, <1>8, <1>9

LEMMA TaskBooks ==
  ASSUME BooksInv, NEW task \in recording, RecordUsage(task) \/ RecordFails(task)
  PROVE  BooksStep
<1>1. PICK c \in Finished \ recorded : task = TaskOf(c)
  BY DEF BooksInv, TaskInv
<1>2. /\ c \in Calls /\ task.of = c /\ task.cost = call[c].billed
      /\ UNCHANGED <<call, ledger, logrow, hour>>
      /\ recording' = recording \ {task}
      /\ callfaults \in Nat
  BY <1>1 DEF Finished, TaskOf, RecordUsage, RecordFails, BooksInv, BooksTypeOK
<1>3. UNCHANGED Finished /\ \A d : /\ UsageRows(d)' = UsageRows(d) /\ TaskOf(d)' = TaskOf(d)
                                   /\ Pc(d)' = Pc(d) /\ Due(d)' = Due(d)
                                   /\ ChargedOnce(d)' = ChargedOnce(d)
  BY <1>2 DEF Finished, UsageRows, TaskOf, Pc, Due, Chargeable, ChargedOnce
<1>4. CASE RecordUsage(task)
  <2>1. /\ recorded' = recorded \cup {c} /\ callfaults' = callfaults
        /\ usage' = [usage EXCEPT ![Column(c)] = Added(@, call[c].billed)]
    BY <1>2, <1>4 DEF RecordUsage
  <2>2. UsageInv' /\ Grown /\ usage' \in [Columns -> [requests : Nat, cost : Nat]]
    BY <1>2, <2>1, RecordUsageInv
  <2>3. BooksTypeOK'
    BY <1>2, <2>1, <2>2 DEF BooksInv, BooksTypeOK
  <2>4. ASSUME NEW d \in Calls PROVE CallInv(d)'
    <3>1. CallInv(d)
      BY DEF BooksInv
    <3>2. TaskOf(d) = task => d = c
      BY <1>2 DEF TaskOf
    <3> QED
      BY <1>2, <1>3, <2>1, <3>1, <3>2 DEF CallInv
  <2>5. TaskInv'
    <3>1. ASSUME NEW t \in recording' PROVE \E d \in Finished \ recorded' : t = TaskOf(d)
      <4>1. t \in recording /\ t # task
        BY <1>2
      <4>2. PICK d \in Finished \ recorded : t = TaskOf(d)
        BY <4>1 DEF BooksInv, TaskInv
      <4>3. d # c
        BY <1>1, <4>1, <4>2
      <4> QED
        BY <2>1, <4>2, <4>3
    <3>2. recorded' \subseteq Finished
      BY <2>1 DEF BooksInv, TaskInv
    <3> QED
      BY <1>3, <3>1, <3>2 DEF TaskInv
  <2> QED
    BY <2>2, <2>3, <2>4, <2>5 DEF BooksInv, BooksStep
<1>5. CASE RecordFails(task)
  <2>1. /\ callfaults' = callfaults + 1 /\ UNCHANGED <<usage, recorded>>
    BY <1>5 DEF RecordFails, CallFault
  <2>2. BooksTypeOK'
    BY <1>2, <2>1 DEF BooksInv, BooksTypeOK
  <2>3. ASSUME NEW d \in Calls PROVE CallInv(d)'
    <3>1. CallInv(d) /\ callfaults' # 0
      BY <1>2, <2>1 DEF BooksInv
    <3> QED
      BY <1>2, <1>3, <2>1, <3>1 DEF CallInv
  <2>4. TaskInv'
    <3>1. TaskInv
      BY DEF BooksInv
    <3> QED
      BY <1>2, <1>3, <2>1, <3>1 DEF TaskInv
  <2>5. UsageInv'
    BY <1>2, <2>1, UsageStays
  <2>6. Grown
    <3>1. \A d \in Calls : call[d].billed \in Nat
      BY DEF BooksInv, BooksTypeOK, CallRecord
    <3>2. \A col \in Columns : usage[col].cost \in Nat
      BY DEF BooksInv, BooksTypeOK
    <3> QED
      BY <1>2, <2>1, <3>1, <3>2 DEF Grown
  <2> QED
    BY <2>2, <2>3, <2>4, <2>5, <2>6 DEF BooksInv, BooksStep
<1> QED
  BY <1>4, <1>5

(* The hour turns, or others book rows that are no request's.              *)
LEMMA OthersBooks ==
  ASSUME BooksInv, UNCHANGED <<call, usage, recording, recorded, logrow, callfaults>>,
         hour' \in 0..MaxHours,
         \/ UNCHANGED ledger
         \/ \E type, ref : \E amount \in Int : ref \notin Calls /\ ledger' = Booked(type, amount, ref)
  PROVE  BooksStep
<1>1. PICK R : ledger \in Seq(R) /\ \A row \in R : row.amount \in Int
  BY DEF BooksInv, BooksTypeOK
<1>2. /\ \E Q : ledger' \in Seq(Q) /\ \A row \in Q : row.amount \in Int
      /\ \A n \in DOMAIN ledger : n \in DOMAIN ledger' /\ ledger'[n] = ledger[n]
      /\ \A d \in Calls : UsageRows(d)' = UsageRows(d)
  <2>1. CASE UNCHANGED ledger
    BY <1>1, <2>1 DEF UsageRows
  <2>2. CASE \E type, ref : \E amount \in Int : ref \notin Calls /\ ledger' = Booked(type, amount, ref)
    <3>1. PICK type, ref, amount : /\ amount \in Int /\ ref \notin Calls
                                   /\ ledger' = Booked(type, amount, ref)
      BY <2>2
    <3>2. /\ \E Q : ledger' \in Seq(Q) /\ \A row \in Q : row.amount \in Int
          /\ \A n \in DOMAIN ledger : n \in DOMAIN ledger' /\ ledger'[n] = ledger[n]
          /\ \A c : UsageRows(c)' = IF ref = c /\ type = "usage"
                                    THEN UsageRows(c) \cup {Len(ledger) + 1} ELSE UsageRows(c)
      BY <1>1, <3>1, RowBooked
    <3> QED
      BY <3>1, <3>2
  <2> QED
    BY <2>1, <2>2
<1>3. BooksTypeOK'
  BY <1>2 DEF BooksInv, BooksTypeOK
<1>4. \A d : Pc(d)' = Pc(d) /\ Due(d)' = Due(d) /\ TaskOf(d)' = TaskOf(d) /\ UNCHANGED Finished
  BY DEF Pc, Due, Chargeable, TaskOf, Finished
<1>5. ASSUME NEW d \in Calls PROVE CallInv(d)'
  <2>1. CallInv(d)
    BY DEF BooksInv
  <2>2. ChargedOnce(d)'
    BY <1>2, <2>1 DEF CallInv, ChargedOnce
  <2> QED
    BY <1>4, <2>1, <2>2 DEF CallInv
<1>6. TaskInv'
  <2>1. TaskInv
    BY DEF BooksInv
  <2> QED
    BY <1>4, <2>1 DEF TaskInv
<1>7. UsageInv'
  BY UsageStays
<1>8. Grown
  <2>1. \A d \in Calls : call[d].billed \in Nat
    BY DEF BooksInv, BooksTypeOK, CallRecord
  <2>2. \A col \in Columns : usage[col].cost \in Nat
    BY DEF BooksInv, BooksTypeOK
  <2> QED
    BY <2>1, <2>2 DEF Grown
<1> QED
  BY <1>3, <1>5, <1>6, <1>7, <1>8 DEF BooksInv, BooksStep

LEMMA EndpointsBooks == BooksInv /\ [EndpointsNext]_endpoints => BooksStep
<1> SUFFICES ASSUME BooksInv, [EndpointsNext]_endpoints PROVE BooksStep
  OBVIOUS
<1>1. ASSUME NEW c \in Calls, Handler(c) PROVE BooksStep
  <2>1. CASE Parses(c)
    BY <2>1, ParsesBooks
  <2>2. CASE \/ \E enabled \in BOOLEAN : BeginLog(c, enabled)
             \/ Passes(c, "access")
             \/ Pc(c) = "modalities" /\ \E declared \in Declarations :
                  ~Rejection(declared, call[c].wants) /\ RequireModalities(c, declared)
    BY <2>2, PassesBooks DEF RequireModalities
  <2>3. CASE Refusal(c)
    BY <2>3, RefusalBooks
  <2>4. CASE Works(c)
    BY <2>4, WorksBooks
  <2>5. CASE Charge(c) \/ ChargeFails(c)
    BY <2>5, SettlesBooks
  <2>6. CASE Tell(c)
    BY <2>6, TellBooks
  <2>7. CASE ClientLeaves(c)
    BY <2>7, LeavesBooks
  <2> QED
    BY <1>1, <2>1, <2>2, <2>3, <2>4, <2>5, <2>6, <2>7
       DEF Handler, Parses, Refusal, Works, CheckAccess
<1>2. ASSUME NEW task \in recording, RecordUsage(task) \/ RecordFails(task) PROVE BooksStep
  BY <1>2, TaskBooks
<1>3. CASE HourTurns \/ UNCHANGED endpoints
  <2>1. hour' \in 0..MaxHours
    BY <1>3, EndpointsAssumption DEF BooksInv, BooksTypeOK, HourTurns, endpoints
  <2> QED
    BY <1>3, <2>1, OthersBooks DEF HourTurns, endpoints
<1> QED
  BY <1>1, <1>2, <1>3 DEF EndpointsNext

LEMMA InitBooks == EndpointsInit => BooksInv
<1> SUFFICES ASSUME EndpointsInit PROVE BooksInv
  OBVIOUS
<1>1. /\ call \in [Calls -> CallRecord]
      /\ \A c \in Calls : Pc(c) = "idle" /\ call[c].billed = 0
  BY DEF EndpointsInit, CallRecord, Early, Modal, Nothing, AllKinds, Chats, Pc
<1>2. /\ recording = {} /\ recorded = {} /\ hour = 0 /\ callfaults = 0
      /\ logrow = [c \in Calls |-> NoRow] /\ usage = [col \in Columns |-> Blank]
      /\ ledger \in Seq([type : STRING, amount : Int, ref : STRING \ Calls])
  BY EndpointsAssumption DEF EndpointsInit
<1>3. \A c \in Calls : UsageRows(c) = {}
  <2> PICK R : R = [type : STRING, amount : Int, ref : STRING \ Calls]
    OBVIOUS
  <2>0. ledger \in Seq(R)
    BY <1>2
  <2>1. \A n \in DOMAIN ledger : ledger[n] \in R
    <3>1. ASSUME NEW Q, ledger \in Seq(Q) PROVE \A n \in DOMAIN ledger : ledger[n] \in Q
      BY <3>1, LenProperties, ElementOfSeq
    <3> QED
      BY <2>0, <3>1
  <2> QED
    BY <2>1 DEF UsageRows
<1>4. BooksTypeOK
  <2> PICK R : R = [type : STRING, amount : Int, ref : STRING \ Calls]
    OBVIOUS
  <2>0. ledger \in Seq(R) /\ \A row \in R : row.amount \in Int
    BY <1>2
  <2>1. \E Q : ledger \in Seq(Q) /\ \A row \in Q : row.amount \in Int
    BY <2>0
  <2> QED
    BY <1>1, <1>2, <2>1, EndpointsAssumption DEF BooksTypeOK, NoRow, Blank
<1>5. \A c \in Calls : CallInv(c)
  BY <1>1, <1>2, <1>3 DEF CallInv, ChargedOnce, NoRow, Early
<1>6. UsageInv
  <2> PICK f : f = CostMap
    OBVIOUS
  <2>1. \A col \in Columns : f[col] = 0
    BY <1>2 DEF CostMap, Blank
  <2>2. ASSUME NEW P PROVE Sum(f, Cells(P)) = 0
    <3> PICK T : T = Cells(P) /\ T \subseteq Columns
      BY DEF Cells
    <3>1. IsFiniteSet(T) /\ \A x \in T : f[x] = 0
      BY <2>1, ColumnsAreFinite, FS_Subset
    <3> QED
      BY <3>1, SumOfZeros
  <2>3. \A P : recorded \cap Under(P) = {}
    BY <1>2
  <2> QED
    BY <2>2, <2>3, SumOfNone DEF UsageInv
<1> QED
  BY <1>2, <1>4, <1>5, <1>6 DEF BooksInv, TaskInv

-----------------------------------------------------------------------------
(* MapThenSumSet is the sum, of the amounts, costs and charges.            *)
LEMMA AmountsAddUp ==
  ASSUME NEW S, IsFiniteSet(S), NEW f, \A i \in S : f[i] = AmountOf(i) /\ f[i] \in Int
  PROVE  MapThenSumSet(AmountOf, S) = Sum(f, S)
<1> DEFINE It(h) == h = [s \in SUBSET S |->
                      IF s = {} THEN 0
                      ELSE AmountOf(CHOOSE x \in s : TRUE) + h[s \ {CHOOSE x \in s : TRUE}]]
<1>1. \A h : It(h) <=> Unfolds(f, S, h)
  <2>1. \A s \in SUBSET S : s # {} => (CHOOSE x \in s : TRUE) \in S
    OBVIOUS
  <2> QED
    BY <2>1 DEF Unfolds
<1>2. MapThenSumSet(AmountOf, S) = (CHOOSE h : It(h))[S]
  BY DEF MapThenSumSet, MapThenFoldSet
<1> HIDE DEF It
<1>3. PICK g : g = (CHOOSE h : It(h)) /\ It(g)
  BY <1>1, Unfolded
<1> QED
  BY <1>1, <1>2, <1>3, Unfolded

LEMMA CostsAddUp ==
  ASSUME NEW S, IsFiniteSet(S), NEW f, \A i \in S : f[i] = CostOf(i) /\ f[i] \in Int
  PROVE  Costs(S) = Sum(f, S)
<1> DEFINE It(h) == h = [s \in SUBSET S |->
                      IF s = {} THEN 0
                      ELSE CostOf(CHOOSE x \in s : TRUE) + h[s \ {CHOOSE x \in s : TRUE}]]
<1>1. \A h : It(h) <=> Unfolds(f, S, h)
  <2>1. \A s \in SUBSET S : s # {} => (CHOOSE x \in s : TRUE) \in S
    OBVIOUS
  <2> QED
    BY <2>1 DEF Unfolds
<1>2. Costs(S) = (CHOOSE h : It(h))[S]
  BY DEF MapThenSumSet, MapThenFoldSet, Costs
<1> HIDE DEF It
<1>3. PICK g : g = (CHOOSE h : It(h)) /\ It(g)
  BY <1>1, Unfolded
<1> QED
  BY <1>1, <1>2, <1>3, Unfolded

LEMMA ChargesAddUp ==
  ASSUME NEW S, IsFiniteSet(S), NEW f, \A i \in S : f[i] = Charged(i) /\ f[i] \in Int
  PROVE  ChargedFor(S) = Sum(f, S)
<1> DEFINE It(h) == h = [s \in SUBSET S |->
                      IF s = {} THEN 0
                      ELSE Charged(CHOOSE x \in s : TRUE) + h[s \ {CHOOSE x \in s : TRUE}]]
<1>1. \A h : It(h) <=> Unfolds(f, S, h)
  <2>1. \A s \in SUBSET S : s # {} => (CHOOSE x \in s : TRUE) \in S
    OBVIOUS
  <2> QED
    BY <2>1 DEF Unfolds
<1>2. ChargedFor(S) = (CHOOSE h : It(h))[S]
  BY DEF MapThenSumSet, MapThenFoldSet, ChargedFor
<1> HIDE DEF It
<1>3. PICK g : g = (CHOOSE h : It(h)) /\ It(g)
  BY <1>1, Unfolded
<1> QED
  BY <1>1, <1>2, <1>3, Unfolded

LEMMA ChargedIsBilled ==
  ASSUME BooksInv, NEW c \in Calls
  PROVE  Charged(c) = call[c].billed /\ call[c].billed \in Nat
<1>1. ChargedOnce(c) /\ call[c].billed \in Nat
  BY DEF BooksInv, BooksTypeOK, CallInv, CallRecord
<1>2. CASE call[c].billed = 0 /\ UsageRows(c) = {}
  <2>1. IsFiniteSet({})
    BY FS_EmptySet
  <2> PICK f : f = [n \in {} |-> 0]
    OBVIOUS
  <2>2. MapThenSumSet(AmountOf, {}) = Sum(f, {})
    BY <2>1, AmountsAddUp
  <2> QED
    BY <1>2, <2>2, SumOfNone DEF Charged
<1>3. CASE ~(call[c].billed = 0 /\ UsageRows(c) = {})
  <2>1. PICK n \in DOMAIN ledger : UsageRows(c) = {n} /\ ledger[n].amount = -call[c].billed
    BY <1>1, <1>3 DEF ChargedOnce
  <2> PICK f : f = [i \in {n} |-> AmountOf(i)]
    OBVIOUS
  <2>2. f[n] = AmountOf(n) /\ f[n] = -call[c].billed
    BY <2>1 DEF AmountOf
  <2>3. IsFiniteSet({n}) /\ f[n] \in Int
    <3>1. IsFiniteSet({n})
      BY FS_Singleton
    <3>2. -call[c].billed \in Int
      BY <1>1
    <3> QED
      BY <2>2, <3>1, <3>2
  <2>4. MapThenSumSet(AmountOf, {n}) = Sum(f, {n}) /\ Sum(f, {n}) = f[n]
    BY <2>2, <2>3, AmountsAddUp, SumOne
  <2>5. Charged(c) = -f[n]
    BY <2>1, <2>4 DEF Charged
  <2> QED
    BY <1>1, <2>2, <2>5
<1> QED
  BY <1>1, <1>2, <1>3

(* Sums over the books, as the modules write them and as the proofs do.    *)
LEMMA SumsOfBooks ==
  ASSUME BooksInv
  PROVE  /\ \A cols \in SUBSET Columns : Costs(cols) = Sum(CostMap, cols)
         /\ \A S \in SUBSET Calls : ChargedFor(S) = Sum(Bills, S)
<1>1. ASSUME NEW cols \in SUBSET Columns PROVE Costs(cols) = Sum(CostMap, cols)
  <2> PICK f : f = CostMap
    OBVIOUS
  <2>1. \A col \in cols : f[col] = CostOf(col) /\ f[col] \in Int
    BY DEF BooksInv, BooksTypeOK, CostMap, CostOf
  <2>2. IsFiniteSet(cols)
    BY ColumnsAreFinite, FS_Subset
  <2> QED
    BY <2>1, <2>2, CostsAddUp
<1>2. ASSUME NEW S \in SUBSET Calls PROVE ChargedFor(S) = Sum(Bills, S)
  <2> PICK f : f = Bills
    OBVIOUS
  <2>1. \A c \in S : f[c] = Charged(c) /\ f[c] \in Int
    BY ChargedIsBilled DEF Bills
  <2>2. IsFiniteSet(S)
    BY EndpointsAssumption, FS_Subset
  <2> QED
    BY <2>1, <2>2, ChargesAddUp
<1> QED
  BY <1>1, <1>2

LEMMA BooksInvAgree == BooksInv => BooksAgree
<1> SUFFICES ASSUME BooksInv PROVE BooksAgree
  OBVIOUS
<1>1. ASSUME NEW c \in Calls
      PROVE  /\ logrow[c].status \in {"ok", "error"} => logrow[c].cost = Charged(c)
             /\ Pc(c) = "refused" => Charged(c) = 0 /\ c \notin recorded
             /\ callfaults = 0 /\ recording = {} /\ Pc(c) = "done" /\ KeyOf[c] # NoKey
                => Charged(c) <= Fee \/ c \in recorded
  <2>1. CallInv(c) /\ Charged(c) = call[c].billed
    BY ChargedIsBilled DEF BooksInv
  <2>2. Pc(c) = "refused" => c \notin recorded
    BY DEF BooksInv, TaskInv, Finished
  <2> QED
    BY <2>1, <2>2 DEF CallInv
<1>2. ASSUME NEW c \in Calls
      PROVE  LET same == {other \in Calls : KeyOf[other] = KeyOf[c] /\ ModelOf[other] = ModelOf[c]}
             IN  Costs({<<KeyOf[c], h, ModelOf[c]>> : h \in 0..MaxHours})
                   = ChargedFor(same \cap recorded)
  <2> PICK P : P = {<<KeyOf[c], ModelOf[c]>>}
    OBVIOUS
  <2>1. {<<KeyOf[c], h, ModelOf[c]>> : h \in 0..MaxHours} = Cells(P)
    BY DEF Cells, Columns
  <2>2. {other \in Calls : KeyOf[other] = KeyOf[c] /\ ModelOf[other] = ModelOf[c]} \cap recorded
          = recorded \cap Under(P)
    BY DEF Under
  <2>3. Cells(P) \subseteq Columns /\ recorded \cap Under(P) \subseteq Calls
    BY DEF Cells, Under
  <2>4. Sum(CostMap, Cells(P)) = Sum(Bills, recorded \cap Under(P))
    BY DEF BooksInv, UsageInv
  <2> QED
    BY <2>1, <2>2, <2>3, <2>4, SumsOfBooks
<1> QED
  BY <1>1, <1>2 DEF BooksAgree

(* The endpoints keep the three books in agreement, for any number of      *)
(* calls, prices, tokens and hours.                                        *)
THEOREM EndpointsKeepTheBooks == EndpointsSpec => []BooksAgree
<1>1. BooksInv /\ [EndpointsNext]_endpoints => BooksInv'
  BY EndpointsBooks DEF BooksStep
<1> QED
  BY InitBooks, BooksInvAgree, <1>1, PTL DEF EndpointsSpec

-----------------------------------------------------------------------------
(* The reports.  What a part that is still to come will tell is no less    *)
(* than what the parts before it told, while the report is calm.           *)
Keyed == {c \in Calls : KeyOf[c] # NoKey}
OfKey(k) == {c \in Calls : KeyOf[c] = k}
InReport == {col \in Columns : col[1] \in InScope(report.scope) /\ col[2] \in Since}

ReportInv ==
  /\ report \in [pc : {"idle", "models", "hours", "done"}, scope : Scopes \cup {UserScope},
                 total : Nat, models : Nat, hours : Nat, calm : BOOLEAN]
  /\ \A n \in {report.total, report.models, report.hours} : n <= Sum(Bills, Keyed)
  /\ report.calm =>
       /\ report.pc = "models" => report.total <= Sum(CostMap, InReport)
       /\ report.pc = "hours" => /\ report.total <= report.models
                                 /\ report.models <= Sum(CostMap, InReport)
       /\ report.pc = "done" => /\ report.total <= report.models
                                /\ report.models <= report.hours

ListInv ==
  /\ list = [pc |-> list.pc, keys |-> list.keys, costs |-> list.costs]
  /\ list.pc = "done" =>
       \A k \in list.keys : list.costs[k] \in Nat /\ list.costs[k] <= Sum(Bills, OfKey(k))

StatementsInv == BooksInv /\ ReportInv /\ ListInv

(* What some of the usage comes to, the calls under its keys were billed.  *)
LEMMA Covered ==
  ASSUME BooksInv, NEW cols \in SUBSET Columns, NEW S \in SUBSET Calls,
         \A c \in recorded : \A h \in 0..MaxHours : <<KeyOf[c], h, ModelOf[c]>> \in cols => c \in S
  PROVE  Costs(cols) = Sum(CostMap, cols) /\ Costs(cols) \in Nat /\ Sum(Bills, S) \in Nat
         /\ Costs(cols) <= Sum(Bills, S)
<1> PICK P : P = {<<col[1], col[3]>> : col \in cols}
  OBVIOUS
<1> PICK f : f = CostMap
  OBVIOUS
<1> PICK g : g = Bills
  OBVIOUS
<1>1. cols \subseteq Cells(P) /\ Cells(P) \subseteq Columns
  BY DEF Cells
<1>2. /\ \A col \in Columns : f[col] \in Nat
      /\ \A c \in Calls : g[c] \in Nat
      /\ recorded \subseteq Calls
  BY DEF BooksInv, BooksTypeOK, CallRecord, CostMap, Bills, TaskInv, Finished
<1>3. Sum(f, cols) \in Nat /\ Sum(f, cols) <= Sum(f, Cells(P))
  <2> PICK T : T = Cells(P)
    OBVIOUS
  <2>1. IsFiniteSet(T) /\ \A x \in T : f[x] \in Nat
    BY <1>1, <1>2, ColumnsAreFinite, FS_Subset
  <2>2. cols \in SUBSET T
    BY <1>1
  <2> QED
    BY <2>1, <2>2, SumGrows
<1>4. Sum(f, Cells(P)) = Sum(g, recorded \cap Under(P))
  BY DEF BooksInv, UsageInv
<1>5. recorded \cap Under(P) \subseteq S
  <2>1. ASSUME NEW c \in recorded, <<KeyOf[c], ModelOf[c]>> \in P PROVE c \in S
    <3>1. PICK col \in cols : col[1] = KeyOf[c] /\ col[3] = ModelOf[c]
      BY <2>1
    <3>2. PICK h \in 0..MaxHours : col = <<KeyOf[c], h, ModelOf[c]>>
      BY <3>1 DEF Columns
    <3> QED
      BY <3>2
  <2> QED
    BY <2>1 DEF Under
<1>6. /\ Sum(g, recorded \cap Under(P)) \in Nat /\ Sum(g, S) \in Nat
      /\ Sum(g, recorded \cap Under(P)) <= Sum(g, S)
  <2> PICK R : R = recorded \cap Under(P)
    OBVIOUS
  <2>1. IsFiniteSet(S) /\ \A x \in S : g[x] \in Nat
    BY <1>2, EndpointsAssumption, FS_Subset
  <2>2. R \in SUBSET S /\ S \in SUBSET S
    BY <1>5
  <2> QED
    BY <2>1, <2>2, SumGrows
<1>7. Costs(cols) = Sum(f, cols)
  BY SumsOfBooks
<1> QED
  BY <1>3, <1>4, <1>6, <1>7

(* All of it, and the usage of one key.                                    *)
LEMMA CoveredByKeys ==
  ASSUME BooksInv
  PROVE  /\ \A cols \in SUBSET Columns :
              /\ Costs(cols) = Sum(CostMap, cols) /\ Costs(cols) \in Nat
              /\ Costs(cols) <= Sum(Bills, Keyed)
         /\ \A k : LET cols == {col \in Columns : col[1] = k} IN
              Costs(cols) \in Nat /\ Costs(cols) <= Sum(Bills, OfKey(k))
         /\ Sum(Bills, Keyed) \in Nat /\ \A k : Sum(Bills, OfKey(k)) \in Nat
<1>1. recorded \subseteq Keyed /\ Keyed \subseteq Calls
  BY DEF BooksInv, TaskInv, Finished, Keyed
<1>2. ASSUME NEW cols \in SUBSET Columns
      PROVE  /\ Costs(cols) = Sum(CostMap, cols) /\ Costs(cols) \in Nat
             /\ Costs(cols) <= Sum(Bills, Keyed) /\ Sum(Bills, Keyed) \in Nat
  BY <1>1, Covered
<1>3. ASSUME NEW k, NEW cols, cols = {col \in Columns : col[1] = k}
      PROVE  /\ Costs(cols) \in Nat /\ Costs(cols) <= Sum(Bills, OfKey(k))
             /\ Sum(Bills, OfKey(k)) \in Nat
  <2>1. cols \in SUBSET Columns /\ OfKey(k) \in SUBSET Calls
    BY <1>3 DEF OfKey
  <2>2. ASSUME NEW c \in recorded, NEW h \in 0..MaxHours, <<KeyOf[c], h, ModelOf[c]>> \in cols
        PROVE  c \in OfKey(k)
    BY <1>1, <1>3, <2>2 DEF OfKey
  <2> QED
    BY <2>1, <2>2, Covered
<1>4. {} \in SUBSET Columns
  OBVIOUS
<1> QED
  BY <1>2, <1>3, <1>4

(* Time and the other writers only let these grow.                         *)
LEMMA ReportsStay ==
  ASSUME BooksInv, BooksInv', Grown, ReportInv, ListInv,
         UNCHANGED list,
         \/ UNCHANGED report /\ hour' = hour /\ keys \subseteq keys'
         \/ Disturbs
  PROVE  ReportInv' /\ ListInv'
<1> PICK f : f = CostMap
  OBVIOUS
<1> PICK e : e = CostMap'
  OBVIOUS
<1> PICK g : g = Bills
  OBVIOUS
<1> PICK h : h = Bills'
  OBVIOUS
<1>1. /\ \A col \in Columns : f[col] \in Nat /\ e[col] \in Nat /\ f[col] <= e[col]
      /\ \A c \in Calls : g[c] \in Nat /\ h[c] \in Nat /\ g[c] <= h[c]
  <2>1. /\ \A col \in Columns : usage[col].cost \in Nat /\ usage'[col].cost \in Nat
        /\ \A c \in Calls : call[c].billed \in Nat /\ call'[c].billed \in Nat
    BY DEF BooksInv, BooksTypeOK, CallRecord
  <2> QED
    BY <2>1 DEF Grown, CostMap, Bills
<1>2. \A S \in SUBSET Calls : Sum(g, S) \in Nat /\ Sum(h, S) \in Nat /\ Sum(g, S) <= Sum(h, S)
  <2> SUFFICES ASSUME NEW S \in SUBSET Calls
               PROVE Sum(g, S) \in Nat /\ Sum(h, S) \in Nat /\ Sum(g, S) <= Sum(h, S)
    OBVIOUS
  <2>1. IsFiniteSet(S)
    BY EndpointsAssumption, FS_Subset
  <2> QED
    BY <1>1, <2>1, SumLeq
<1>3. /\ Keyed' = Keyed /\ Keyed \in SUBSET Calls
      /\ \A k : OfKey(k)' = OfKey(k) /\ OfKey(k) \in SUBSET Calls
  BY DEF Keyed, OfKey
<1>4. ListInv'
  <2>1. ASSUME NEW k \in list.keys, list.pc = "done"
        PROVE  list.costs[k] \in Nat /\ list.costs[k] <= Sum(h, OfKey(k))
    BY <1>2, <1>3, <2>1 DEF ListInv
  <2> QED
    BY <1>3, <2>1 DEF ListInv
<1>5. \A n \in {report.total, report.models, report.hours} : n <= Sum(h, Keyed)
  BY <1>2, <1>3 DEF ReportInv
<1>6. CASE Disturbs
  <2>1. /\ report' \in [pc : {"idle", "models", "hours", "done"}, scope : Scopes \cup {UserScope},
                        total : Nat, models : Nat, hours : Nat, calm : BOOLEAN]
        /\ ~report'.calm /\ report'.total = report.total /\ report'.models = report.models
        /\ report'.hours = report.hours
    BY <1>6 DEF Disturbs, ReportInv
  <2>2. \A n \in {report.total, report.models, report.hours}' : n <= Sum(h, Keyed)
    BY <1>5, <2>1
  <2> QED
    BY <1>3, <1>4, <2>1, <2>2 DEF ReportInv
<1>7. CASE UNCHANGED report /\ hour' = hour /\ keys \subseteq keys'
  <2> PICK T : T = InReport
    OBVIOUS
  <2> PICK U : U = InReport'
    OBVIOUS
  <2>1. T \subseteq U /\ U \subseteq Columns
    BY <1>7 DEF InReport, InScope, Since
  <2>2. IsFiniteSet(T) /\ IsFiniteSet(U)
    BY <2>1, ColumnsAreFinite, FS_Subset
  <2>3. Sum(f, T) \in Nat /\ Sum(e, T) \in Nat /\ Sum(f, T) <= Sum(e, T)
    BY <1>1, <2>1, <2>2, SumLeq
  <2>4. Sum(e, T) <= Sum(e, U) /\ Sum(e, U) \in Nat
    <3>1. \A x \in U : e[x] \in Nat
      BY <1>1, <2>1
    <3>2. T \in SUBSET U /\ U \in SUBSET U
      BY <2>1
    <3> QED
      BY <2>2, <3>1, <3>2, SumGrows
  <2>5. Sum(CostMap, InReport) <= Sum(CostMap, InReport)' /\ Sum(CostMap, InReport)' \in Nat
        /\ Sum(CostMap, InReport) \in Nat
    BY <2>3, <2>4
  <2>6. \A n \in Nat : n <= Sum(CostMap, InReport) => n <= Sum(CostMap, InReport)'
    BY <2>5
  <2>7. \A n \in {report.total, report.models, report.hours}' : n <= Sum(h, Keyed)
    BY <1>5, <1>7
  <2> QED
    BY <1>3, <1>4, <1>7, <2>6, <2>7 DEF ReportInv
<1> QED
  BY <1>4, <1>6, <1>7

(* The reports read.                                                       *)
LEMMA ReportReads ==
  ASSUME StatementsInv, UNCHANGED <<endpoints, keys, list>>,
         (\E scope \in Scopes : ReadTotal(scope)) \/ ReadByModel \/ ReadByHour
  PROVE  ReportInv'
<1>1. report \in [pc : {"idle", "models", "hours", "done"}, scope : Scopes \cup {UserScope},
                  total : Nat, models : Nat, hours : Nat, calm : BOOLEAN]
  BY DEF StatementsInv, ReportInv
<1>2. \A cols \in SUBSET Columns :
        /\ Costs(cols) = Sum(CostMap, cols) /\ Costs(cols) \in Nat
        /\ Costs(cols) <= Sum(Bills, Keyed)
  BY CoveredByKeys DEF StatementsInv
<1>3. /\ Sum(Bills, Keyed)' = Sum(Bills, Keyed) /\ CostMap' = CostMap
  BY DEF endpoints, Bills, Keyed, CostMap
<1>4. CASE \E scope \in Scopes : ReadTotal(scope)
  <2>1. PICK scope \in Scopes : ReadTotal(scope)
    BY <1>4
  <2> PICK cols : cols = {col \in Columns : col[1] \in InScope(scope) /\ col[2] \in Since}
    OBVIOUS
  <2> PICK n : n = Costs(cols)
    OBVIOUS
  <2>2. n \in Nat /\ n <= Sum(Bills, Keyed) /\ n = Sum(CostMap, cols)
    BY <1>2
  <2>3. report' = [report EXCEPT !.pc = "models", !.scope = scope, !.calm = TRUE, !.total = n]
    BY <2>1 DEF ReadTotal
  <2>4. /\ report' \in [pc : {"idle", "models", "hours", "done"}, scope : Scopes \cup {UserScope},
                        total : Nat, models : Nat, hours : Nat, calm : BOOLEAN]
        /\ report'.pc = "models" /\ report'.scope = scope /\ report'.total = n
        /\ report'.models = report.models /\ report'.hours = report.hours
    BY <1>1, <2>2, <2>3
  <2>5. InReport' = cols
    BY <2>4 DEF InReport, InScope, Since, endpoints
  <2>6. Sum(CostMap, InReport)' = n
    BY <1>3, <2>2, <2>5
  <2>7. \A m \in {report.total, report.models, report.hours}' : m <= Sum(Bills, Keyed)
    BY <2>2, <2>4 DEF StatementsInv, ReportInv
  <2> QED
    BY <1>3, <2>2, <2>4, <2>6, <2>7 DEF ReportInv
<1>5. CASE ReadByModel \/ ReadByHour
  <2> PICK cols : cols = InReport
    OBVIOUS
  <2> PICK n : n = Costs(cols)
    OBVIOUS
  <2>1. cols \subseteq Columns /\ Counted(Since) = n
    BY DEF InReport, Counted
  <2>2. n \in Nat /\ n <= Sum(Bills, Keyed) /\ n = Sum(CostMap, InReport)
    BY <1>2, <2>1
  <2>3. CASE ReadByModel
    <3>1. report' = [report EXCEPT !.pc = "hours", !.models = n] /\ report.pc = "models"
      BY <2>1, <2>3 DEF ReadByModel
    <3>2. /\ report' \in [pc : {"idle", "models", "hours", "done"}, scope : Scopes \cup {UserScope},
                          total : Nat, models : Nat, hours : Nat, calm : BOOLEAN]
          /\ report'.pc = "hours" /\ report'.scope = report.scope /\ report'.total = report.total
          /\ report'.models = n /\ report'.hours = report.hours /\ report'.calm = report.calm
      BY <1>1, <2>2, <3>1
    <3>3. InReport' = InReport
      BY <3>2 DEF InReport, InScope, Since, endpoints
    <3>4. Sum(CostMap, InReport)' = n
      BY <1>3, <2>2, <3>3
    <3>5. \A m \in {report.total, report.models, report.hours}' : m <= Sum(Bills, Keyed)
      BY <2>2, <3>2 DEF StatementsInv, ReportInv
    <3>6. report.calm => report.total <= n
      BY <2>2, <3>1 DEF StatementsInv, ReportInv
    <3> QED
      BY <1>3, <2>2, <3>2, <3>4, <3>5, <3>6 DEF ReportInv
  <2>4. CASE ReadByHour
    <3>1. report' = [report EXCEPT !.pc = "done", !.hours = n] /\ report.pc = "hours"
      BY <2>1, <2>4 DEF ReadByHour, HourRows
    <3>2. /\ report' \in [pc : {"idle", "models", "hours", "done"}, scope : Scopes \cup {UserScope},
                          total : Nat, models : Nat, hours : Nat, calm : BOOLEAN]
          /\ report'.pc = "done" /\ report'.total = report.total
          /\ report'.models = report.models /\ report'.hours = n /\ report'.calm = report.calm
      BY <1>1, <2>2, <3>1
    <3>3. \A m \in {report.total, report.models, report.hours}' : m <= Sum(Bills, Keyed)
      BY <2>2, <3>2 DEF StatementsInv, ReportInv
    <3>4. report.calm => report.total <= report.models /\ report.models <= n
      BY <2>2, <3>1 DEF StatementsInv, ReportInv
    <3> QED
      BY <1>3, <3>2, <3>3, <3>4 DEF ReportInv
  <2> QED
    BY <1>5, <2>3, <2>4
<1> QED
  BY <1>4, <1>5

(* The list of keys is read.                                               *)
LEMMA ListReads ==
  ASSUME StatementsInv, UNCHANGED <<endpoints, keys, report>>, ListKeys \/ ReadKeyUsage
  PROVE  ListInv' /\ ReportInv'
<1>1. /\ \A k : Sum(Bills, OfKey(k))' = Sum(Bills, OfKey(k))
      /\ ReportInv' = ReportInv
  BY DEF endpoints, Bills, OfKey, ReportInv, Keyed, CostMap, InReport, InScope, Since
<1>2. ASSUME NEW k PROVE UsageForUser(k) \in Nat /\ UsageForUser(k) <= Sum(Bills, OfKey(k))
  <2> PICK cols : cols = {col \in Columns : col[1] = k}
    OBVIOUS
  <2>1. Costs(cols) \in Nat /\ Costs(cols) <= Sum(Bills, OfKey(k)) /\ Sum(Bills, OfKey(k)) \in Nat
    BY CoveredByKeys DEF StatementsInv
  <2> QED
    BY <2>1 DEF UsageForUser
<1>3. CASE ListKeys
  <2>1. list' = [list EXCEPT !.pc = "usage", !.keys = keys]
    BY <1>3 DEF ListKeys
  <2>2. list = [pc |-> list.pc, keys |-> list.keys, costs |-> list.costs]
    BY DEF StatementsInv, ListInv
  <2>3. list' = [pc |-> "usage", keys |-> keys, costs |-> list.costs]
    BY <2>1, <2>2
  <2> QED
    BY <1>1, <2>3 DEF ListInv, StatementsInv
<1>4. CASE ReadKeyUsage
  <2> PICK costs : costs = [k \in list.keys |-> UsageForUser(k)]
    OBVIOUS
  <2>1. list' = [list EXCEPT !.pc = "done", !.costs = costs]
    BY <1>4 DEF ReadKeyUsage
  <2>2. list = [pc |-> list.pc, keys |-> list.keys, costs |-> list.costs]
    BY DEF StatementsInv, ListInv
  <2>3. list' = [pc |-> "done", keys |-> list.keys, costs |-> costs]
    BY <2>1, <2>2
  <2>4. \A k \in list.keys : costs[k] \in Nat /\ costs[k] <= Sum(Bills, OfKey(k))
    BY <1>2
  <2> QED
    BY <1>1, <2>3, <2>4 DEF ListInv, StatementsInv
<1> QED
  BY <1>3, <1>4

LEMMA StatementsStep == StatementsInv /\ [StatementsNext]_statements => StatementsInv'
<1> SUFFICES ASSUME StatementsInv, [StatementsNext]_statements PROVE StatementsInv'
  OBVIOUS
<1>0. BooksInv /\ ReportInv /\ ListInv
  BY DEF StatementsInv
<1>1. CASE Serving
  <2>1. BooksStep
    BY <1>0, <1>1, EndpointsBooks DEF Serving
  <2>2. ReportInv' /\ ListInv'
    BY <1>0, <1>1, <2>1, ReportsStay DEF Serving, BooksStep
  <2> QED
    BY <2>1, <2>2 DEF BooksStep, StatementsInv
<1>2. ASSUME NEW reason \in Reasons, NEW a \in Int, AdminBooks(reason, a) PROVE StatementsInv'
  <2>1. BooksStep
    <3>1. hour' \in 0..MaxHours
      BY <1>0, <1>2 DEF AdminBooks, BooksInv, BooksTypeOK
    <3> QED
      BY <1>0, <1>2, <3>1, OthersBooks, StatementsAssumption DEF AdminBooks
  <2>2. ReportInv' /\ ListInv'
    BY <1>0, <1>2, <2>1, ReportsStay DEF AdminBooks, Readers, BooksStep
  <2> QED
    BY <2>1, <2>2 DEF BooksStep, StatementsInv
<1>3. CASE UNCHANGED endpoints
  <2>1. BooksStep
    <3>1. [EndpointsNext]_endpoints
      BY <1>3
    <3> QED
      BY <1>0, <3>1, EndpointsBooks
  <2>2. CASE \/ \E k \in ApiKeys : CreateApiKey(k) \/ DeleteApiKey(k)
             \/ ReadBalance \/ ReadRows \/ ReadModels \/ ShowPage \/ UNCHANGED statements
    <3>1. /\ UNCHANGED list
          /\ (UNCHANGED report /\ hour' = hour /\ keys \subseteq keys') \/ Disturbs
      BY <1>3, <2>2 DEF CreateApiKey, DeleteApiKey, ReadBalance, ReadRows, ReadModels, ShowPage,
           statements, endpoints, Readers
    <3>2. ReportInv' /\ ListInv'
      BY <1>0, <2>1, <3>1, ReportsStay DEF BooksStep
    <3> QED
      BY <2>1, <3>2 DEF BooksStep, StatementsInv
  <2>3. CASE (\E scope \in Scopes : ReadTotal(scope)) \/ ReadByModel \/ ReadByHour
    <3>1. UNCHANGED <<keys, list>>
      BY <2>3 DEF ReadTotal, ReadByModel, ReadByHour
    <3>2. ReportInv'
      BY <1>3, <2>3, <3>1, ReportReads
    <3>3. ListInv'
      BY <1>0, <1>3, <3>1 DEF ListInv, endpoints, Bills, OfKey
    <3> QED
      BY <2>1, <3>2, <3>3 DEF BooksStep, StatementsInv
  <2>4. CASE ListKeys \/ ReadKeyUsage
    <3>1. UNCHANGED <<keys, report>>
      BY <2>4 DEF ListKeys, ReadKeyUsage
    <3> QED
      BY <1>3, <2>1, <2>4, <3>1, ListReads DEF BooksStep, StatementsInv
  <2>5. CASE Serving \/ \E reason \in Reasons : AdminCredits(reason) \/ AdminDebits(reason)
    BY <1>1, <1>2, <2>5 DEF AdminCredits, AdminDebits
  <2> QED
    BY <2>2, <2>3, <2>4, <2>5 DEF StatementsNext
<1>4. UNCHANGED endpoints \/ Serving
        \/ \E reason \in Reasons : AdminCredits(reason) \/ AdminDebits(reason)
  BY DEF StatementsNext, CreateApiKey, DeleteApiKey, ReadBalance, ReadRows, ReadModels, ShowPage,
         ReadTotal, ReadByModel, ReadByHour, ListKeys, ReadKeyUsage, statements
<1> QED
  BY <1>1, <1>2, <1>3, <1>4 DEF AdminCredits, AdminDebits

LEMMA StatementsStart == StatementsInit => StatementsInv
<1> SUFFICES ASSUME StatementsInit PROVE StatementsInv
  OBVIOUS
<1>1. BooksInv
  BY InitBooks DEF StatementsInit
<1>2. ReportInv
  <2>1. Sum(Bills, Keyed) \in Nat
    BY <1>1, CoveredByKeys
  <2>2. report = NoReport
    BY DEF StatementsInit
  <2> QED
    BY <2>1, <2>2 DEF NoReport, ReportInv
<1>3. ListInv
  BY DEF StatementsInit, ListInv, NoList
<1> QED
  BY <1>1, <1>2, <1>3 DEF StatementsInv

LEMMA LargestOf ==
  ASSUME NEW a \in Nat, NEW b \in Nat, NEW c \in Nat
  PROVE  Max({a, b, c}) \in {a, b, c}
<1> PICK S : S = {a, b, c}
  OBVIOUS
<1>1. \E x \in S : \A y \in S : x >= y
  <2>1. CASE a >= b /\ a >= c
    BY <2>1
  <2>2. CASE b >= a /\ b >= c
    BY <2>2
  <2>3. CASE c >= a /\ c >= b
    BY <2>3
  <2> QED
    BY <2>1, <2>2, <2>3
<1> QED
  BY <1>1 DEF Max

(* The books agree while administrators book and pages are read.           *)
THEOREM BooksStayInAgreement == StatementsSpec => []BooksAgree
<1>1. StatementsInv => BooksAgree
  BY BooksInvAgree DEF StatementsInv
<1> QED
  BY StatementsStart, StatementsStep, <1>1, PTL DEF StatementsSpec

(* The parts of a report, and the list of keys, tell no more than was      *)
(* charged, and later parts of a report that nothing disturbed no less     *)
(* than earlier ones; for any number of calls, keys, models and hours.     *)
THEOREM ReportsGrow == StatementsSpec => []ReportGrows
<1>1. StatementsInv => ReportGrows
  <2> SUFFICES ASSUME StatementsInv PROVE ReportGrows
    OBVIOUS
  <2>1. ChargedFor(Keyed) = Sum(Bills, Keyed) /\ \A k : ChargedFor(OfKey(k)) = Sum(Bills, OfKey(k))
    <3>1. Keyed \in SUBSET Calls /\ \A k : OfKey(k) \in SUBSET Calls
      BY DEF Keyed, OfKey
    <3> QED
      BY <3>1, SumsOfBooks DEF StatementsInv
  <2>2. Max({report.total, report.models, report.hours}) \in {report.total, report.models, report.hours}
    BY LargestOf DEF StatementsInv, ReportInv
  <2>3. Max({report.total, report.models, report.hours}) <= ChargedFor({c \in Calls : KeyOf[c] # NoKey})
    BY <2>1, <2>2 DEF StatementsInv, ReportInv, Keyed
  <2>4. report.pc = "done" /\ report.calm
          => report.total <= report.models /\ report.models <= report.hours
    BY DEF StatementsInv, ReportInv
  <2>5. list.pc = "done" =>
          \A k \in list.keys : list.costs[k] <= ChargedFor({c \in Calls : KeyOf[c] = k})
    BY <2>1 DEF StatementsInv, ListInv, OfKey
  <2> QED
    BY <2>3, <2>4, <2>5 DEF ReportGrows
<1> QED
  BY StatementsStart, StatementsStep, <1>1, PTL DEF StatementsSpec
-----------------------------------------------------------------------------
(* A sum is that of a part and of the rest.                                *)
LEMMA SumUnion ==
  ASSUME NEW S, IsFiniteSet(S), NEW f, \A x \in S : f[x] \in Int,
         NEW R \in SUBSET S
  PROVE  Sum(f, S) = Sum(f, R) + Sum(f, S \ R)
<1> DEFINE T == {n \in Nat : \A s \in SUBSET S : Cardinality(s) = n =>
                                Sum(f, s) = Sum(f, s \cap R) + Sum(f, s \ R)}
<1>0. \A s \in SUBSET S : Sum(f, s) \in Int
  <2>1. ASSUME NEW s \in SUBSET S PROVE IsFiniteSet(s) /\ \A x \in s : f[x] \in Int
    BY OneLess
  <2> QED
    BY <2>1, SumIs
<1>1. 0 \in T
  <2>1. ASSUME NEW s \in SUBSET S, Cardinality(s) = 0
        PROVE Sum(f, s) = Sum(f, s \cap R) + Sum(f, s \ R)
    <3>1. s = {} /\ s \cap R = {} /\ s \ R = {}
      BY <2>1, OneLess
    <3> QED
      BY <3>1, SumOfNone
  <2> QED
    BY <2>1
<1>2. ASSUME NEW n \in Nat, n \in T PROVE n + 1 \in T
  <2>1. ASSUME NEW s \in SUBSET S, Cardinality(s) = n + 1
        PROVE Sum(f, s) = Sum(f, s \cap R) + Sum(f, s \ R)
    <3>1. PICK x \in s : TRUE
      BY <2>1, OneLess
    <3>0. s \ {x} \in SUBSET S /\ Cardinality(s \ {x}) = n
      BY <2>1, OneLess
    <3>2. PICK r : r = s \ {x} /\ r \in SUBSET S /\ Cardinality(r) = n
      BY <3>0
    <3>3. Sum(f, r) = Sum(f, r \cap R) + Sum(f, r \ R)
      BY <1>2, <3>2
    <3>4. \A t \in SUBSET S : IsFiniteSet(t) /\ \A y \in t : f[y] \in Int
      BY OneLess
    <3>5. Sum(f, s) = f[x] + Sum(f, r)
      BY <3>2, <3>4, SumSplits
    <3>6. r \cap R \in SUBSET S /\ r \ R \in SUBSET S /\ f[x] \in Int
      BY <3>2
    <3>7. Sum(f, r \cap R) \in Int /\ Sum(f, r \ R) \in Int
      BY <1>0, <3>6
    <3>8. CASE x \in R
      <4>1. s \cap R \in SUBSET S /\ x \in s \cap R /\ (s \cap R) \ {x} = r \cap R /\ s \ R = r \ R
        BY <3>2, <3>8
      <4>2. Sum(f, s \cap R) = f[x] + Sum(f, r \cap R)
        BY <3>4, <4>1, SumSplits
      <4>3. Sum(f, s \ R) = Sum(f, r \ R)
        BY <4>1
      <4> QED
        BY <3>3, <3>5, <3>6, <3>7, <4>2, <4>3
    <3>9. CASE x \notin R
      <4>1. s \ R \in SUBSET S /\ x \in s \ R /\ (s \ R) \ {x} = r \ R /\ s \cap R = r \cap R
        BY <3>2, <3>9
      <4>2. Sum(f, s \ R) = f[x] + Sum(f, r \ R)
        BY <3>4, <4>1, SumSplits
      <4>3. Sum(f, s \cap R) = Sum(f, r \cap R)
        BY <4>1
      <4> QED
        BY <3>3, <3>5, <3>6, <3>7, <4>2, <4>3
    <3> QED
      BY <3>8, <3>9
  <2> QED
    BY <2>1
<1>3. \A n \in Nat : n \in T
  <2> HIDE DEF T
  <2> QED
    BY <1>1, <1>2, Induct
<1>4. Cardinality(S) \in Nat /\ S \in SUBSET S /\ S \cap R = R
  BY OneLess
<1> QED
  BY <1>3, <1>4

(* The elements of a sum may change their names.                           *)
LEMMA SumRenamed ==
  ASSUME NEW S, IsFiniteSet(S), NEW f, \A x \in S : f[x] \in Int,
         NEW e, NEW p, \A x \in S : e[p[x]] = f[x],
         \A x, y \in S : p[x] = p[y] => x = y
  PROVE  Sum(e, {p[x] : x \in S}) = Sum(f, S)
<1> DEFINE T == {n \in Nat : \A s \in SUBSET S : Cardinality(s) = n =>
                                /\ IsFiniteSet({p[x] : x \in s})
                                /\ Sum(e, {p[x] : x \in s}) = Sum(f, s)}
<1>1. 0 \in T
  <2>1. ASSUME NEW s \in SUBSET S, Cardinality(s) = 0
        PROVE IsFiniteSet({p[x] : x \in s}) /\ Sum(e, {p[x] : x \in s}) = Sum(f, s)
    <3>1. s = {} /\ {p[x] : x \in s} = {}
      BY <2>1, OneLess
    <3> QED
      BY <3>1, SumOfNone, FS_EmptySet
  <2> QED
    BY <2>1
<1>2. ASSUME NEW n \in Nat, n \in T PROVE n + 1 \in T
  <2>1. ASSUME NEW s \in SUBSET S, Cardinality(s) = n + 1
        PROVE IsFiniteSet({p[x] : x \in s}) /\ Sum(e, {p[x] : x \in s}) = Sum(f, s)
    <3>1. PICK x \in s : TRUE
      BY <2>1, OneLess
    <3>0. s \ {x} \in SUBSET S /\ Cardinality(s \ {x}) = n
      BY <2>1, OneLess
    <3>2. PICK r : r = s \ {x} /\ r \in SUBSET S /\ Cardinality(r) = n
      BY <3>0
    <3>3. PICK q : q = {p[y] : y \in r}
      OBVIOUS
    <3>4. IsFiniteSet(q) /\ Sum(e, q) = Sum(f, r)
      BY <1>2, <3>2, <3>3
    <3>5. {p[y] : y \in s} = q \cup {p[x]} /\ p[x] \notin q
      BY <3>1, <3>2, <3>3
    <3>6. \A y \in q \cup {p[x]} : e[y] \in Int
      BY <3>1, <3>2, <3>3
    <3>7. Sum(e, q \cup {p[x]}) = e[p[x]] + Sum(e, q)
      BY <3>4, <3>5, <3>6, SumAdds
    <3>8. IsFiniteSet(s) /\ \A y \in s : f[y] \in Int
      BY OneLess
    <3>9. Sum(f, s) = f[x] + Sum(f, r)
      BY <3>2, <3>8, SumSplits
    <3>10. IsFiniteSet(q \cup {p[x]})
      BY <3>4, FS_AddElement
    <3> QED
      BY <3>1, <3>4, <3>5, <3>7, <3>9, <3>10
  <2> QED
    BY <2>1
<1>3. \A n \in Nat : n \in T
  <2> HIDE DEF T
  <2> QED
    BY <1>1, <1>2, Induct
<1>4. Cardinality(S) \in Nat /\ S \in SUBSET S
  BY OneLess
<1> QED
  BY <1>3, <1>4

Moves(p, S, f, T, e) ==
  /\ \A x \in S : p[x] \in T /\ e[p[x]] = f[x]
  /\ \A y \in T : \E x \in S : p[x] = y
  /\ \A x, y \in S : p[x] = p[y] => x = y

LEMMA SumMoved ==
  ASSUME NEW S, IsFiniteSet(S), NEW f, \A x \in S : f[x] \in Int,
         NEW T, NEW e, NEW p, Moves(p, S, f, T, e)
  PROVE  Sum(e, T) = Sum(f, S)
<1> USE DEF Moves
<1>1. T = {p[x] : x \in S}
  OBVIOUS
<1>2. Sum(e, {p[x] : x \in S}) = Sum(f, S)
  <2>1. \A x \in S : e[p[x]] = f[x]
    OBVIOUS
  <2> QED
    BY <2>1, SumRenamed
<1> QED
  BY <1>1, <1>2

(* Over places: turned round, moved along, and cut in two.                 *)
LEMMA SumTurned ==
  ASSUME NEW n \in Nat, NEW f, \A i \in 1..n : f[i] \in Int,
         NEW e, \A i \in 1..n : e[i] = f[n + 1 - i]
  PROVE  Sum(e, 1..n) = Sum(f, 1..n)
<1> PICK S, p : S = 1..n /\ p = [i \in 1..n |-> n + 1 - i]
  OBVIOUS
<1>1. IsFiniteSet(S)
  BY FS_Interval
<1>2. \A i \in S : n + 1 - i \in S /\ n + 1 - (n + 1 - i) = i /\ p[i] = n + 1 - i
  OBVIOUS
<1>3. \A i \in S : p[i] \in S /\ p[p[i]] = i /\ e[i] = f[p[i]]
  BY <1>2
<1>4. \A i \in S : f[i] \in Int /\ e[p[i]] = f[i]
  BY <1>3
<1>5. \A i \in S : \E j \in S : p[j] = i
  BY <1>3
<1>6. \A i, j \in S : p[i] = p[j] => i = j
  BY <1>3
<1>7. Sum(e, S) = Sum(f, S)
  <2>1. Moves(p, S, f, S, e)
    BY <1>3, <1>4, <1>5, <1>6 DEF Moves
  <2> QED
    BY <1>1, <1>4, <2>1, SumMoved
<1> QED
  BY <1>7

Along(d, f, k, n) == (\A i \in 1..n : f[i] \in Int) /\ \A i \in 1..(n - k) : d[i] = f[k + i]
AddUp(d, f, k, n) == Sum(f, 1..n) = Sum(f, 1..k) + Sum(d, 1..(n - k))

LEMMA SumAlong ==
  ASSUME NEW k \in Nat, NEW n \in Nat, k <= n, NEW f, NEW d, Along(d, f, k, n)
  PROVE  AddUp(d, f, k, n)
<1> USE DEF Along, AddUp
<1> PICK S, A, B, C, q : /\ S = 1..n /\ A = 1..k /\ B = (k + 1)..n /\ C = 1..(n - k)
                         /\ q = [i \in 1..(n - k) |-> k + i]
  OBVIOUS
<1>1. IsFiniteSet(S) /\ IsFiniteSet(C)
  <2>1. IsFiniteSet(1..n) /\ IsFiniteSet(1..(n - k))
    BY FS_Interval
  <2> QED
    BY <2>1
<1>2. A \in SUBSET S /\ S \ A = B /\ \A i \in S : f[i] \in Int
  OBVIOUS
<1>3. Sum(f, S) = Sum(f, A) + Sum(f, B)
  BY <1>1, <1>2, SumUnion
<1>4. \A i \in C : q[i] = k + i /\ k + i \in B /\ k + i \in S
  OBVIOUS
<1>5. \A i \in C : q[i] \in B /\ f[q[i]] = d[i] /\ d[i] \in Int
  BY <1>2, <1>4
<1>6. \A j \in B : j - k \in C /\ q[j - k] = j
  OBVIOUS
<1>7. \A j \in B : \E i \in C : q[i] = j
  BY <1>6
<1>8. \A i, j \in C : q[i] = q[j] => i = j
  OBVIOUS
<1>9. Sum(f, B) = Sum(d, C)
  <2>1. Moves(q, C, d, B, f)
    BY <1>5, <1>7, <1>8 DEF Moves
  <2> QED
    BY <1>1, <1>5, <2>1, SumMoved
<1> QED
  BY <1>3, <1>9

-----------------------------------------------------------------------------
(* Sequences are folded from one end, by the least or the greatest place.  *)
LEMMA LeastOf ==
  ASSUME NEW s, s \subseteq Nat, s # {}
  PROVE  Min(s) \in s /\ \A m \in s : Min(s) <= m
BY LeastNatural DEF Min

LEMMA GreatestOf ==
  ASSUME NEW N \in Nat, NEW s \in SUBSET (1..N), s # {}
  PROVE  Max(s) \in s /\ \A m \in s : Max(s) >= m
<1> PICK d : d = {N - m : m \in s}
  OBVIOUS
<1>1. d \subseteq Nat /\ d # {}
  <2>1. PICK y \in s : TRUE
    OBVIOUS
  <2>2. N - y \in d
    OBVIOUS
  <2>3. \A m \in s : N - m \in Nat
    OBVIOUS
  <2> QED
    BY <2>2, <2>3
<1>2. PICK k \in d : \A m \in d : k <= m
  BY <1>1, LeastNatural
<1>3. PICK x \in s : k = N - x
  BY <1>2
<1>4. \A m \in s : x >= m
  <2>1. ASSUME NEW m \in s PROVE x >= m
    <3>1. N - m \in d /\ m \in Nat /\ x \in Nat
      OBVIOUS
    <3>2. N - x <= N - m
      BY <1>2, <1>3, <3>1
    <3> QED
      BY <3>1, <3>2
  <2> QED
    BY <2>1
<1>5. \E y \in s : \A m \in s : y >= m
  BY <1>4
<1> QED
  BY <1>5 DEF Max

LEMMA EndsOfInterval ==
  ASSUME NEW N \in Nat, NEW k \in 1..N
  PROVE  /\ k..N \in SUBSET (1..N) /\ k..N # {} /\ Min(k..N) = k /\ (k..N) \ {k} = (k + 1)..N
         /\ (N + 1)..N = {}
<1>1. k..N \in SUBSET (1..N) /\ k \in k..N /\ (k..N) \ {k} = (k + 1)..N /\ (N + 1)..N = {}
  OBVIOUS
<1>2. Min(k..N) \in k..N /\ Min(k..N) <= k
  <2>1. k..N \subseteq Nat /\ k..N # {}
    BY <1>1
  <2>2. Min(k..N) \in k..N /\ \A m \in k..N : Min(k..N) <= m
    BY <2>1, LeastOf
  <2> QED
    BY <1>1, <2>2
<1>3. Min(k..N) = k
  BY <1>2
<1> QED
  BY <1>1, <1>3

(* A total is the sum of the amounts over the places.                      *)
Amounts(rows) == [n \in 1..Len(rows) |-> rows[n].amount]

LEMMA TotalIsSum ==
  ASSUME NEW R, \A row \in R : row.amount \in Int, NEW rows \in Seq(R)
  PROVE  Total(rows) = Sum(Amounts(rows), 1..Len(rows)) /\ Total(rows) \in Int
<1> PICK N : N = Len(rows)
  OBVIOUS
<1>1. N \in Nat /\ DOMAIN rows = 1..N /\ \A n \in 1..N : rows[n].amount \in Int
  BY ElementOfSeq, LenProperties
<1> PICK f : f = Amounts(rows)
  OBVIOUS
<1>2. IsFiniteSet(1..N) /\ \A n \in 1..N : f[n] = rows[n].amount /\ f[n] \in Int
  BY <1>1, FS_Interval DEF Amounts
<1> DEFINE It(h) == h = [s \in SUBSET (1..N) |->
                      IF s = {} THEN 0 ELSE h[s \ {Max(s)}] + rows[Max(s)].amount]
<1>3. Total(rows) = (CHOOSE h : It(h))[1..N]
  BY <1>1 DEF Total, FoldLeft, MapThenFoldSet
<1> PICK c : c = [s \in (SUBSET (1..N)) \ {{}} |-> Max(s)]
  OBVIOUS
<1>4. Chooses(c, 1..N) /\ \A s \in SUBSET (1..N) : s # {} => c[s] = Max(s) /\ Max(s) \in 1..N
  <2>1. \A s \in SUBSET (1..N) : s # {} => Max(s) \in s
    BY <1>1, GreatestOf
  <2> QED
    BY <2>1 DEF Chooses
<1>5. ASSUME NEW g, IsFold(f, c, 1..N, g) PROVE It(g)
  <2>1. ASSUME NEW s \in SUBSET (1..N)
        PROVE g[s] = IF s = {} THEN 0 ELSE g[s \ {Max(s)}] + rows[Max(s)].amount
    <3>1. g[s] = Partial(f, c, g, s)
      BY <1>5 DEF IsFold
    <3>2. CASE s = {}
      BY <3>1, <3>2 DEF Partial
    <3>3. CASE s # {}
      <4>1. c[s] = Max(s) /\ Max(s) \in 1..N
        BY <1>4, <3>3
      <4>2. g[s] = f[Max(s)] + g[s \ {Max(s)}]
        BY <3>1, <3>3, <4>1 DEF Partial
      <4>3. PICK m, v : m = Max(s) /\ v = g[s \ {m}]
        OBVIOUS
      <4>4. \A r \in SUBSET (1..N) : g[r] \in Int
        BY <1>2, <1>4, <1>5, FoldIsInt
      <4>5. v \in Int /\ m \in 1..N /\ g[s] = f[m] + v
        BY <4>1, <4>2, <4>3, <4>4
      <4>6. g[s] = v + rows[m].amount
        BY <1>2, <4>5
      <4> QED
        BY <3>3, <4>3, <4>6
    <3> QED
      BY <3>2, <3>3
  <2>2. DOMAIN g = SUBSET (1..N) /\ g = [s \in SUBSET (1..N) |-> g[s]]
    BY <1>5 DEF IsFold
  <2> QED
    BY <2>1, <2>2
<1>6. ASSUME NEW g, It(g) PROVE g[1..N] = Sum(f, 1..N)
  <2>0. \A s \in SUBSET (1..N) : \A x \in s :
          s \ {x} \in SUBSET (1..N) /\ Cardinality(s \ {x}) = Cardinality(s) - 1
    <3>1. IsFiniteSet(1..N)
      BY <1>2
    <3> QED
      BY <3>1, OneLess
  <2>1. PICK e : IsFold(f, c, 1..N, e)
    BY <1>2, <1>4, FoldExists
  <2>2. \A s \in SUBSET (1..N) : e[s] = IF s = {} THEN 0 ELSE e[s \ {Max(s)}] + rows[Max(s)].amount
    BY <1>5, <2>1
  <2>3. \A s \in SUBSET (1..N) : g[s] = IF s = {} THEN 0 ELSE g[s \ {Max(s)}] + rows[Max(s)].amount
    BY <1>6
  <2> DEFINE T == {n \in Nat : \A s \in SUBSET (1..N) : Cardinality(s) = n => g[s] = e[s]}
  <2>4. 0 \in T
    <3>1. ASSUME NEW s \in SUBSET (1..N), Cardinality(s) = 0 PROVE g[s] = e[s]
      <4>1. s = {}
        BY <1>2, <3>1, OneLess
      <4> QED
        BY <2>2, <2>3, <4>1
    <3> QED
      BY <3>1
  <2>5. ASSUME NEW n \in Nat, n \in T PROVE n + 1 \in T
    <3>1. ASSUME NEW s \in SUBSET (1..N), Cardinality(s) = n + 1 PROVE g[s] = e[s]
      <4>1. s # {}
        BY <1>2, <3>1, OneLess
      <4>2. Max(s) \in s
        BY <1>1, <4>1, GreatestOf
      <4>3. \A x \in s : s \ {x} \in SUBSET (1..N) /\ Cardinality(s \ {x}) = n
        BY <2>0, <3>1
      <4>4. g[s \ {Max(s)}] = e[s \ {Max(s)}]
        BY <2>5, <4>2, <4>3
      <4> QED
        BY <2>2, <2>3, <4>1, <4>4
    <3> QED
      BY <3>1
  <2>6. \A n \in Nat : n \in T
    <3> HIDE DEF T
    <3> QED
      BY <2>4, <2>5, Induct
  <2>7. Cardinality(1..N) \in Nat /\ 1..N \in SUBSET (1..N)
    BY <1>2, OneLess
  <2>8. g[1..N] = e[1..N]
    BY <2>6, <2>7
  <2>9. IsSum(f, 1..N, e[1..N])
    BY <1>4, <2>1 DEF IsSum
  <2>10. e[1..N] = Sum(f, 1..N)
    BY <1>2, <2>9, SumSame
  <2> QED
    BY <2>8, <2>10
<1>7. \E h : It(h)
  <2>1. PICK e : IsFold(f, c, 1..N, e)
    BY <1>2, <1>4, FoldExists
  <2>2. It(e)
    BY <1>5, <2>1
  <2> QED
    BY <2>2
<1> HIDE DEF It
<1>8. PICK g : g = (CHOOSE h : It(h)) /\ It(g)
  BY <1>7
<1>9. Total(rows) = Sum(f, 1..N)
  BY <1>3, <1>6, <1>8
<1> QED
  BY <1>2, <1>9, SumIs

(* A fold from the right goes through the places from the last one on.     *)
IsRightFold(K, b, N, V, g) ==
  /\ g \in [SUBSET (1..N) -> V]
  /\ \A s \in SUBSET (1..N) : g[s] = IF s = {} THEN b ELSE K[Min(s)][g[s \ {Min(s)}]]

LEMMA RightFoldExists ==
  ASSUME NEW N \in Nat, NEW V, NEW b \in V, NEW K, Remains(K, 1..N, V)
  PROVE  \E g : IsRightFold(K, b, N, V, g)
<1> PICK c : c = [s \in (SUBSET (1..N)) \ {{}} |-> Min(s)]
  OBVIOUS
<1>1. Chooses(c, 1..N) /\ \A s \in SUBSET (1..N) : s # {} => c[s] = Min(s)
  <2>1. \A s \in SUBSET (1..N) : s # {} => Min(s) \in s
    <3>1. \A s \in SUBSET (1..N) : s \subseteq Nat
      OBVIOUS
    <3> QED
      BY <3>1, LeastOf
  <2> QED
    BY <2>1 DEF Chooses
<1>2. IsFiniteSet(1..N)
  BY FS_Interval
<1>3. PICK g : IsWalk(K, b, c, 1..N, V, g)
  BY <1>1, <1>2, WalkExists
<1>4. ASSUME NEW s \in SUBSET (1..N)
      PROVE g[s] = IF s = {} THEN b ELSE K[Min(s)][g[s \ {Min(s)}]]
  <2>1. g[s] = IF s = {} THEN b ELSE K[c[s]][g[s \ {c[s]}]]
    BY <1>3 DEF IsWalk, Step
  <2>2. CASE s = {}
    BY <2>1, <2>2
  <2>3. CASE s # {}
    BY <1>1, <2>1, <2>3
  <2> QED
    BY <2>2, <2>3
<1>5. IsRightFold(K, b, N, V, g)
  BY <1>3, <1>4 DEF IsWalk, IsRightFold
<1> QED
  BY <1>5

(* What holds of the whole fold is shown from the last place on.           *)
LEMMA Downward ==
  ASSUME NEW N \in Nat, NEW T, N + 1 \in T, \A k \in 1..N : k + 1 \in T => k \in T
  PROVE  1 \in T
<1> DEFINE D == {n \in Nat : n <= N => N + 1 - n \in T}
<1>1. 0 \in D
  OBVIOUS
<1>2. ASSUME NEW n \in Nat, n \in D PROVE n + 1 \in D
  <2>1. CASE n + 1 <= N
    <3>1. PICK k : k = N - n
      OBVIOUS
    <3>2. k \in 1..N /\ N + 1 - n = k + 1 /\ N + 1 - (n + 1) = k /\ n <= N
      BY <2>1, <3>1
    <3>3. k + 1 \in T
      BY <1>2, <3>2
    <3>4. k \in T
      BY <3>2, <3>3
    <3> QED
      BY <3>2, <3>4
  <2>2. CASE ~(n + 1 <= N)
    BY <2>2
  <2> QED
    BY <2>1, <2>2
<1>3. N \in D
  <2> HIDE DEF D
  <2> QED
    BY <1>1, <1>2, Induct
<1>4. N + 1 - N = 1
  OBVIOUS
<1> QED
  BY <1>3, <1>4

-----------------------------------------------------------------------------
(* One more row of the ledger, or one line of which the amount changes.    *)
SumOfRows(rows) == Sum(Amounts(rows), 1..Len(rows))

LEMMA RowsAppended ==
  ASSUME NEW R, \A row \in R : row.amount \in Int, NEW rows \in Seq(R), NEW row \in R
  PROVE  /\ Append(rows, row) \in Seq(R) /\ SumOfRows(rows) \in Int
         /\ SumOfRows(Append(rows, row)) = SumOfRows(rows) + row.amount
<1> PICK N, more : N = Len(rows) /\ more = Append(rows, row)
  OBVIOUS
<1>1. /\ N \in Nat /\ more \in Seq(R) /\ Len(more) = N + 1
      /\ more[N + 1] = row /\ \A n \in 1..N : more[n] = rows[n] /\ rows[n].amount \in Int
  BY ElementOfSeq, LenProperties, AppendProperties
<1> PICK f, e : f = Amounts(rows) /\ e = Amounts(more)
  OBVIOUS
<1>2. /\ \A n \in 1..N : f[n] \in Int /\ e[n] = f[n]
      /\ e[N + 1] = row.amount /\ row.amount \in Int
  BY <1>1 DEF Amounts
<1>3. IsFiniteSet(1..N) /\ 1..(N + 1) = (1..N) \cup {N + 1} /\ N + 1 \notin 1..N
  <2>1. IsFiniteSet(1..N)
    BY <1>1, FS_Interval
  <2>2. 1..(N + 1) = (1..N) \cup {N + 1} /\ N + 1 \notin 1..N
    BY <1>1
  <2> QED
    BY <2>1, <2>2
<1>4. Sum(f, 1..N) \in Int /\ Sum(e, 1..N) = Sum(f, 1..N)
  BY <1>2, <1>3, SumIs, SumOf
<1>5. Sum(e, (1..N) \cup {N + 1}) = e[N + 1] + Sum(e, 1..N)
  <2>1. \A n \in (1..N) \cup {N + 1} : e[n] \in Int
    BY <1>2
  <2> QED
    BY <1>3, <2>1, SumAdds
<1>6. SumOfRows(rows) = Sum(f, 1..N) /\ SumOfRows(more) = Sum(e, 1..(N + 1))
  BY <1>1 DEF SumOfRows
<1>7. Sum(e, 1..(N + 1)) = Sum(f, 1..N) + row.amount
  <2>1. Sum(e, 1..(N + 1)) = e[N + 1] + Sum(e, 1..N)
    BY <1>3, <1>5
  <2> QED
    BY <1>2, <1>4, <2>1
<1> QED
  BY <1>1, <1>4, <1>6, <1>7

LEMMA RowChanged ==
  ASSUME NEW R, \A row \in R : row.amount \in Int, NEW rows \in Seq(R),
         NEW k \in 1..Len(rows), NEW d \in Int, NEW changed \in Seq(R),
         Len(changed) = Len(rows), changed[k].amount = rows[k].amount + d,
         \A n \in 1..Len(rows) : n # k => changed[n] = rows[n]
  PROVE  SumOfRows(changed) = SumOfRows(rows) + d
<1> PICK N : N = Len(rows) /\ N \in Nat
  BY LenProperties
<1> PICK f, e : f = Amounts(rows) /\ e = Amounts(changed)
  OBVIOUS
<1>1. \A n \in 1..N : rows[n].amount \in Int
  BY ElementOfSeq
<1>2. /\ \A n \in 1..N : f[n] \in Int
      /\ e[k] = f[k] + d /\ \A n \in (1..N) \ {k} : e[n] = f[n]
  BY <1>1 DEF Amounts
<1>3. k \in 1..N /\ Len(changed) = N
  OBVIOUS
<1>4. IsFiniteSet(1..N)
  BY FS_Interval
<1>5. Sum(e, 1..N) = Sum(f, 1..N) + d
  BY <1>2, <1>3, <1>4, SumBump
<1> QED
  BY <1>3, <1>5 DEF SumOfRows

-----------------------------------------------------------------------------
(* The fold of the account page keeps the sum, and has one line for each   *)
(* request.                                                                *)
Single(lines) ==
  \A m, n \in 1..Len(lines) : lines[m].of = lines[n].of /\ lines[m].of # "none" => m = n

AreLines(R) == \E A, B, D : R = [kind : A, amount : Int, of : B, detail : D]

KeepsSum(R, lines, row, models) ==
  /\ Fold(lines, row, models) \in Seq(R)
  /\ SumOfRows(Fold(lines, row, models)) = SumOfRows(lines) + row.amount
  /\ Single(lines) => Single(Fold(lines, row, models))

LEMMA FoldKeeps ==
  ASSUME NEW R, AreLines(R), NEW lines \in Seq(R),
         NEW row, row.amount \in Int, NEW models, Line(row, models) \in R
  PROVE  KeepsSum(R, lines, row, models)
<1> USE DEF KeepsSum
<1> PICK A, B, D : R = [kind : A, amount : Int, of : B, detail : D]
  BY DEF AreLines
<1> PICK N : N = Len(lines) /\ N \in Nat
  BY LenProperties
<1>1. DOMAIN lines = 1..N /\ \A n \in 1..N : lines[n] \in R
  BY ElementOfSeq, LenProperties
<1>2. \A l \in R : l.amount \in Int
  OBVIOUS
<1>3. CASE LineOf(lines, row) = {}
  <2> PICK l : l = Line(row, models) /\ l \in R
    OBVIOUS
  <2>1. Fold(lines, row, models) = Append(lines, l)
    BY <1>3 DEF Fold
  <2>2. /\ Append(lines, l) \in Seq(R)
        /\ SumOfRows(Append(lines, l)) = SumOfRows(lines) + l.amount
    BY <1>2, RowsAppended
  <2>3. l.amount = row.amount /\ (l.of = "none" \/ (OfRequest(row) /\ l.of = row.ref))
    <3>1. /\ l.amount = row.amount
          /\ l.of = IF OfRequest(row) THEN row.ref ELSE "none"
      BY DEF Line
    <3> QED
      BY <3>1
  <2>4. ASSUME Single(lines) PROVE Single(Append(lines, l))
    <3>1. /\ Len(Append(lines, l)) = N + 1 /\ Append(lines, l)[N + 1] = l
          /\ \A n \in 1..N : Append(lines, l)[n] = lines[n]
      BY AppendProperties
    <3>2. \A n \in 1..N : l.of # "none" => lines[n].of # l.of
      BY <1>1, <1>3, <2>3 DEF LineOf
    <3> QED
      BY <2>4, <3>1, <3>2 DEF Single
  <2> QED
    BY <2>1, <2>2, <2>3, <2>4
<1>4. CASE LineOf(lines, row) # {}
  <2>1. PICK k : k = Min(LineOf(lines, row)) /\ k \in 1..N
    <3>1. LineOf(lines, row) \subseteq 1..N /\ LineOf(lines, row) \subseteq Nat
      BY <1>1 DEF LineOf
    <3>2. Min(LineOf(lines, row)) \in LineOf(lines, row)
      BY <1>4, <3>1, LeastOf
    <3> QED
      BY <3>1, <3>2
  <2>2. PICK t : t = [lines[k] EXCEPT !.amount = lines[k].amount + row.amount]
    OBVIOUS
  <2>3. t \in R /\ t.amount = lines[k].amount + row.amount /\ t.of = lines[k].of
    BY <1>1, <2>1, <2>2
  <2>4. PICK changed : changed = [lines EXCEPT ![k] = t]
    OBVIOUS
  <2>5. Fold(lines, row, models) = changed
    BY <1>1, <1>4, <2>1, <2>2, <2>4 DEF Fold
  <2>6. /\ changed \in Seq(R) /\ Len(changed) = N /\ changed[k] = t
        /\ \A n \in 1..N : n # k => changed[n] = lines[n]
    BY <1>1, <2>1, <2>3, <2>4, ExceptSeq
  <2>7. SumOfRows(changed) = SumOfRows(lines) + row.amount
    <3>1. /\ changed \in Seq(R) /\ k \in 1..Len(lines) /\ row.amount \in Int
          /\ Len(changed) = Len(lines) /\ changed[k].amount = lines[k].amount + row.amount
          /\ \A n \in 1..Len(lines) : n # k => changed[n] = lines[n]
      BY <2>1, <2>3, <2>6
    <3> QED
      BY <1>2, <3>1, RowChanged
  <2>8. Single(lines) => Single(changed)
    <3>1. \A n \in 1..N : changed[n].of = lines[n].of
      BY <2>1, <2>3, <2>6
    <3> QED
      BY <2>6, <3>1 DEF Single
  <2> QED
    BY <2>5, <2>6, <2>7, <2>8
<1> QED
  BY <1>3, <1>4

LEMMA FoldedKeeps ==
  ASSUME NEW R, \A row \in R : row.amount \in Int, NEW rows \in Seq(R), NEW models
  PROVE  \E L : /\ \A l \in L : l.amount \in Int
                /\ Folded(rows, models) \in Seq(L)
                /\ Single(Folded(rows, models))
                /\ SumOfRows(Folded(rows, models)) = SumOfRows(rows)
<1> PICK N : N = Len(rows)
  OBVIOUS
<1>1. N \in Nat /\ DOMAIN rows = 1..N /\ \A n \in 1..N : rows[n].amount \in Int
  BY ElementOfSeq, LenProperties
<1> PICK f : f = Amounts(rows)
  OBVIOUS
<1>2. IsFiniteSet(1..N) /\ \A n \in 1..N : f[n] = rows[n].amount /\ f[n] \in Int
  BY <1>1, FS_Interval DEF Amounts
<1> PICK A, B, D : /\ A = {Line(rows[n], models).kind : n \in 1..N}
                   /\ B = {Line(rows[n], models).of : n \in 1..N}
                   /\ D = {Line(rows[n], models).detail : n \in 1..N}
  OBVIOUS
<1> PICK L : L = [kind : A, amount : Int, of : B, detail : D]
  OBVIOUS
<1>3. \A n \in 1..N : Line(rows[n], models) \in L
  <2>1. ASSUME NEW n \in 1..N PROVE Line(rows[n], models) \in L
    <3>1. PICK l : l = Line(rows[n], models)
      OBVIOUS
    <3>2. l = [kind |-> l.kind, amount |-> rows[n].amount, of |-> l.of, detail |-> l.detail]
      BY <3>1 DEF Line
    <3>3. l.kind \in A /\ l.of \in B /\ l.detail \in D
      BY <3>1
    <3> QED
      BY <1>1, <3>1, <3>2, <3>3
  <2> QED
    BY <2>1
<1> PICK V, none : V = Seq(L) /\ none = << >>
  OBVIOUS
<1>4. ASSUME NEW v \in V, NEW n \in 1..N
      PROVE /\ Fold(v, rows[n], models) \in V
            /\ SumOfRows(Fold(v, rows[n], models)) = SumOfRows(v) + rows[n].amount
            /\ Single(v) => Single(Fold(v, rows[n], models))
  <2>1. PICK row : row = rows[n] /\ row.amount \in Int /\ Line(row, models) \in L
    BY <1>1, <1>3
  <2>2. v \in Seq(L) /\ AreLines(L)
    BY DEF AreLines
  <2>3. KeepsSum(L, v, row, models)
    BY <2>1, <2>2, FoldKeeps
  <2> QED
    BY <2>1, <2>3 DEF KeepsSum
<1> PICK K : K = [n \in 1..N |-> [v \in V |-> Fold(v, rows[n], models)]]
  OBVIOUS
<1>5. Remains(K, 1..N, V) /\ none \in V
  BY <1>4, EmptySeq DEF Remains
<1> DEFINE It(h) == h = [s \in SUBSET (1..N) |->
                      IF s = {} THEN << >> ELSE Fold(h[s \ {Min(s)}], rows[Min(s)], models)]
<1>6. Folded(rows, models) = (CHOOSE h : It(h))[1..N]
  BY <1>1 DEF Folded, FoldRight, MapThenFoldSet
<1>7. \E h : It(h)
  <2>1. PICK g : IsRightFold(K, none, N, V, g)
    BY <1>1, <1>5, RightFoldExists
  <2>2. ASSUME NEW s \in SUBSET (1..N)
        PROVE g[s] = IF s = {} THEN << >> ELSE Fold(g[s \ {Min(s)}], rows[Min(s)], models)
    <3>1. g[s] = IF s = {} THEN none ELSE K[Min(s)][g[s \ {Min(s)}]]
      BY <2>1 DEF IsRightFold
    <3>2. CASE s # {}
      <4>1. Min(s) \in 1..N
        <5>1. s \subseteq Nat
          OBVIOUS
        <5> QED
          BY <3>2, <5>1, LeastOf
      <4>2. g[s \ {Min(s)}] \in V
        BY <2>1 DEF IsRightFold
      <4> QED
        BY <3>1, <3>2, <4>1, <4>2
    <3> QED
      BY <3>1, <3>2
  <2>3. g = [s \in SUBSET (1..N) |-> g[s]]
    BY <2>1 DEF IsRightFold
  <2>4. It(g)
    BY <2>2, <2>3
  <2> QED
    BY <2>4
<1>8. PICK h : h = (CHOOSE g : It(g)) /\ It(h)
  <2> HIDE DEF It
  <2> QED
    BY <1>7
<1> DEFINE T == {k \in 1..(N + 1) : /\ h[k..N] \in V /\ Single(h[k..N])
                                    /\ SumOfRows(h[k..N]) = Sum(f, k..N)}
<1>9. N + 1 \in T
  <2>1. (N + 1)..N = {} /\ N + 1 \in 1..(N + 1)
    BY <1>1
  <2>2. h[{}] = << >>
    BY <1>8
  <2>3. << >> \in V /\ Len(<< >>) = 0
    BY EmptySeq
  <2>4. Single(<< >>)
    BY <2>3 DEF Single
  <2>5. SumOfRows(<< >>) = 0 /\ Sum(f, {}) = 0
    <3>1. 1..0 = {}
      OBVIOUS
    <3> QED
      BY <2>3, <3>1, SumOfNone DEF SumOfRows
  <2> QED
    BY <2>1, <2>2, <2>3, <2>4, <2>5
<1>10. ASSUME NEW k \in 1..N, k + 1 \in T PROVE k \in T
  <2>1. /\ k..N \in SUBSET (1..N) /\ k..N # {}
        /\ Min(k..N) = k /\ (k..N) \ {k} = (k + 1)..N
    BY <1>1, EndsOfInterval
  <2>2. h[k..N] = Fold(h[(k + 1)..N], rows[k], models)
    BY <1>8, <2>1
  <2>3. PICK v : v = h[(k + 1)..N] /\ v \in V /\ Single(v) /\ SumOfRows(v) = Sum(f, (k + 1)..N)
    BY <1>10
  <2>4. /\ h[k..N] \in V /\ Single(h[k..N])
        /\ SumOfRows(h[k..N]) = Sum(f, (k + 1)..N) + f[k]
    <3>1. /\ Fold(v, rows[k], models) \in V /\ Single(Fold(v, rows[k], models))
          /\ SumOfRows(Fold(v, rows[k], models)) = SumOfRows(v) + rows[k].amount
      BY <1>4, <2>3
    <3>2. h[k..N] = Fold(v, rows[k], models) /\ f[k] = rows[k].amount
      BY <1>2, <2>2, <2>3
    <3> QED
      BY <2>3, <3>1, <3>2
  <2>5. Sum(f, k..N) = f[k] + Sum(f, (k + 1)..N) /\ Sum(f, (k + 1)..N) \in Int
    <3>1. PICK J : J = k..N /\ IsFiniteSet(J)
      <4>1. k \in Int /\ N \in Int
        BY <1>1
      <4>2. IsFiniteSet(k..N)
        BY <4>1, FS_Interval
      <4> QED
        BY <4>2
    <3>2. k \in J /\ J \ {k} = (k + 1)..N /\ \A n \in J : f[n] \in Int
      BY <1>2, <2>1, <3>1
    <3>3. IsFiniteSet(J \ {k}) /\ \A n \in J \ {k} : f[n] \in Int
      BY <3>1, <3>2, FS_Subset
    <3>4. Sum(f, J) = f[k] + Sum(f, J \ {k})
      <4>1. IsFiniteSet(J) /\ k \in J /\ \A n \in J : f[n] \in Int
        BY <3>1, <3>2
      <4> QED
        BY <4>1, SumSplits
    <3>5. Sum(f, J \ {k}) \in Int
      BY <3>3, SumIs
    <3> QED
      BY <3>1, <3>2, <3>4, <3>5
  <2>6. k \in 1..(N + 1) /\ f[k] \in Int
    BY <1>1, <1>2
  <2>7. SumOfRows(h[k..N]) = Sum(f, k..N)
    BY <2>4, <2>5, <2>6
  <2> QED
    BY <2>4, <2>6, <2>7
<1>11. 1 \in T
  <2> HIDE DEF T
  <2> QED
    BY <1>1, <1>9, <1>10, Downward
<1>12. /\ Folded(rows, models) \in Seq(L) /\ Single(Folded(rows, models))
       /\ SumOfRows(Folded(rows, models)) = SumOfRows(rows)
  <2>1. Folded(rows, models) = h[1..N]
    BY <1>6, <1>8
  <2>2. SumOfRows(rows) = Sum(f, 1..N)
    BY DEF SumOfRows
  <2> QED
    BY <1>11, <2>1, <2>2
<1>13. \A l \in L : l.amount \in Int
  OBVIOUS
<1> QED
  BY <1>12, <1>13

(* Leaving out what comes to nothing changes neither.                      *)
LEMMA ShownKeeps ==
  ASSUME NEW L, \A l \in L : l.amount \in Int, NEW lines \in Seq(L)
  PROVE  /\ Shown(lines) \in Seq(L)
         /\ Single(lines) => Single(Shown(lines))
         /\ SumOfRows(Shown(lines)) = SumOfRows(lines)
<1> PICK N : N = Len(lines)
  OBVIOUS
<1>1. /\ N \in Nat /\ DOMAIN lines = 1..N
      /\ \A n \in 1..N : lines[n] \in L /\ lines[n].amount \in Int
  BY ElementOfSeq, LenProperties
<1> PICK f : f = Amounts(lines)
  OBVIOUS
<1>2. IsFiniteSet(1..N) /\ \A n \in 1..N : f[n] = lines[n].amount /\ f[n] \in Int
  <2>1. IsFiniteSet(1..N)
    BY <1>1, FS_Interval
  <2>2. \A n \in 1..N : f[n] = lines[n].amount
    BY DEF Amounts
  <2> QED
    BY <1>1, <2>1, <2>2
<1> PICK V, none : V = Seq(L) /\ none = << >>
  OBVIOUS
<1> DEFINE Add(l, v) == IF l.amount = 0 THEN v ELSE Append(v, l)
<1>3. ASSUME NEW v \in V, NEW n \in 1..N PROVE Add(lines[n], v) \in V
  BY <1>1, AppendProperties
<1> PICK K : K = [n \in 1..N |-> [v \in V |-> Add(lines[n], v)]]
  OBVIOUS
<1>4. Remains(K, 1..N, V) /\ none \in V
  BY <1>3, EmptySeq DEF Remains
<1> DEFINE It(h) == h = [s \in SUBSET (1..N) |->
                      IF s = {} THEN << >>
                      ELSE IF lines[Min(s)].amount = 0 THEN h[s \ {Min(s)}]
                           ELSE Append(h[s \ {Min(s)}], lines[Min(s)])]
<1>5. Shown(lines) = (CHOOSE h : It(h))[1..N]
  BY <1>1 DEF Shown, FoldRight, MapThenFoldSet
<1>6. \E h : It(h)
  <2>1. PICK g : IsRightFold(K, none, N, V, g)
    BY <1>1, <1>4, RightFoldExists
  <2>2. ASSUME NEW s \in SUBSET (1..N)
        PROVE g[s] = IF s = {} THEN << >>
                     ELSE IF lines[Min(s)].amount = 0 THEN g[s \ {Min(s)}]
                          ELSE Append(g[s \ {Min(s)}], lines[Min(s)])
    <3>1. g[s] = IF s = {} THEN none ELSE K[Min(s)][g[s \ {Min(s)}]]
      BY <2>1 DEF IsRightFold
    <3>2. CASE s # {}
      <4>1. Min(s) \in 1..N
        <5>1. s \subseteq Nat
          OBVIOUS
        <5> QED
          BY <3>2, <5>1, LeastOf
      <4>2. g[s \ {Min(s)}] \in V
        BY <2>1 DEF IsRightFold
      <4> QED
        BY <3>1, <3>2, <4>1, <4>2
    <3> QED
      BY <3>1, <3>2
  <2>3. g = [s \in SUBSET (1..N) |-> g[s]]
    BY <2>1 DEF IsRightFold
  <2>4. It(g)
    BY <2>2, <2>3
  <2> QED
    BY <2>4
<1>7. PICK h : h = (CHOOSE g : It(g)) /\ It(h)
  <2> HIDE DEF It
  <2> QED
    BY <1>6
<1> DEFINE Ours(k, v) == \A m \in 1..Len(v) : \E j \in k..N : v[m] = lines[j]
           T == {k \in 1..(N + 1) : /\ h[k..N] \in V /\ Ours(k, h[k..N])
                                    /\ Single(lines) => Single(h[k..N])
                                    /\ SumOfRows(h[k..N]) = Sum(f, k..N)}
<1>8. N + 1 \in T
  <2>1. (N + 1)..N = {} /\ N + 1 \in 1..(N + 1)
    BY <1>1
  <2>2. h[{}] = << >>
    BY <1>7
  <2>3. << >> \in V /\ Len(<< >>) = 0
    BY EmptySeq
  <2>4. Single(<< >>) /\ Ours(N + 1, << >>)
    BY <2>3 DEF Single
  <2>5. SumOfRows(<< >>) = 0 /\ Sum(f, {}) = 0
    <3>1. 1..0 = {}
      OBVIOUS
    <3> QED
      BY <2>3, <3>1, SumOfNone DEF SumOfRows
  <2> QED
    BY <2>1, <2>2, <2>3, <2>4, <2>5
<1>9. ASSUME NEW k \in 1..N, k + 1 \in T PROVE k \in T
  <2>1. /\ k..N \in SUBSET (1..N) /\ k..N # {}
        /\ Min(k..N) = k /\ (k..N) \ {k} = (k + 1)..N
    BY <1>1, EndsOfInterval
  <2>2. PICK v, w : v = h[(k + 1)..N] /\ w = h[k..N]
    OBVIOUS
  <2>3. w = IF lines[k].amount = 0 THEN v ELSE Append(v, lines[k])
    <3>1. PICK s : s = k..N /\ s \in SUBSET (1..N) /\ s # {} /\ Min(s) = k /\ s \ {Min(s)} = (k + 1)..N
      BY <2>1
    <3>2. h[s] = IF lines[Min(s)].amount = 0 THEN h[s \ {Min(s)}]
                 ELSE Append(h[s \ {Min(s)}], lines[Min(s)])
      BY <1>7, <3>1
    <3> QED
      BY <2>2, <3>1, <3>2
  <2>4. /\ v \in V /\ Ours(k + 1, v) /\ SumOfRows(v) = Sum(f, (k + 1)..N)
        /\ Single(lines) => Single(v)
    BY <1>9, <2>2
  <2>5. Sum(f, k..N) = f[k] + Sum(f, (k + 1)..N) /\ Sum(f, (k + 1)..N) \in Int
    <3>1. PICK J : J = k..N /\ IsFiniteSet(J)
      <4>1. k \in Int /\ N \in Int
        BY <1>1
      <4>2. IsFiniteSet(k..N)
        BY <4>1, FS_Interval
      <4> QED
        BY <4>2
    <3>2. k \in J /\ J \ {k} = (k + 1)..N /\ \A n \in J : f[n] \in Int
      BY <1>2, <2>1, <3>1
    <3>3. IsFiniteSet(J \ {k}) /\ \A n \in J \ {k} : f[n] \in Int
      BY <3>1, <3>2, FS_Subset
    <3>4. Sum(f, J) = f[k] + Sum(f, J \ {k})
      <4>1. IsFiniteSet(J) /\ k \in J /\ \A n \in J : f[n] \in Int
        BY <3>1, <3>2
      <4> QED
        BY <4>1, SumSplits
    <3>5. Sum(f, J \ {k}) \in Int
      BY <3>3, SumIs
    <3> QED
      BY <3>1, <3>2, <3>4, <3>5
  <2>6. k \in 1..(N + 1) /\ f[k] = lines[k].amount /\ f[k] \in Int /\ lines[k] \in L
    BY <1>1, <1>2
  <2>7. (k + 1)..N \subseteq k..N /\ k \in k..N /\ k \notin (k + 1)..N
    BY <2>1
  <2>8. CASE lines[k].amount = 0
    <3>1. w = v /\ Ours(k, v)
      BY <2>3, <2>4, <2>7, <2>8
    <3>2. SumOfRows(w) = Sum(f, k..N)
      BY <2>4, <2>5, <2>6, <2>8, <3>1
    <3>3. /\ h[k..N] \in V /\ Ours(k, h[k..N]) /\ SumOfRows(h[k..N]) = Sum(f, k..N)
          /\ Single(lines) => Single(h[k..N])
      <4> HIDE DEF Ours
      <4> QED
        BY <2>2, <2>4, <3>1, <3>2
    <3> QED
      BY <2>6, <3>3
  <2>9. CASE lines[k].amount # 0
    <3>1. PICK M : M = Len(v) /\ M \in Nat
      BY <2>4, LenProperties
    <3>2. /\ w = Append(v, lines[k]) /\ w \in V /\ Len(w) = M + 1 /\ w[M + 1] = lines[k]
          /\ \A m \in 1..M : w[m] = v[m]
      BY <2>3, <2>4, <2>6, <2>9, <3>1, AppendProperties
    <3>3. Ours(k, w)
      <4>1. ASSUME NEW m \in 1..Len(w) PROVE \E j \in k..N : w[m] = lines[j]
        <5>1. CASE m = M + 1
          BY <2>7, <3>2, <5>1
        <5>2. CASE m # M + 1
          <6>1. m \in 1..M
            BY <3>1, <3>2, <5>2
          <6>2. \E j \in (k + 1)..N : v[m] = lines[j]
            BY <2>4, <3>1, <6>1
          <6> QED
            BY <2>7, <3>2, <6>1, <6>2
        <5> QED
          BY <5>1, <5>2
      <4> QED
        BY <4>1
    <3>4. ASSUME Single(lines) PROVE Single(w)
      <4>1. \A m \in 1..M : v[m].of = lines[k].of => lines[k].of = "none"
        <5>1. ASSUME NEW m \in 1..M, v[m].of = lines[k].of PROVE lines[k].of = "none"
          <6>1. PICK j \in (k + 1)..N : v[m] = lines[j]
            BY <2>4, <3>1
          <6>2. j \in 1..N /\ j # k /\ lines[j].of = lines[k].of
            BY <2>1, <2>7, <5>1, <6>1
          <6> QED
            BY <3>4, <6>2 DEF Single
        <5> QED
          BY <5>1
      <4>2. Single(v)
        BY <2>4, <3>4
      <4> QED
        BY <3>1, <3>2, <4>1, <4>2 DEF Single
    <3>5. SumOfRows(w) = SumOfRows(v) + lines[k].amount
      BY <2>4, <2>6, <3>2, RowsAppended
    <3>6. SumOfRows(w) = Sum(f, k..N)
      BY <2>4, <2>5, <2>6, <3>5
    <3>7. /\ h[k..N] \in V /\ Ours(k, h[k..N]) /\ SumOfRows(h[k..N]) = Sum(f, k..N)
          /\ Single(lines) => Single(h[k..N])
      <4> HIDE DEF Ours
      <4> QED
        BY <2>2, <3>2, <3>3, <3>4, <3>6
    <3> QED
      BY <2>6, <3>7
  <2> QED
    BY <2>8, <2>9
<1>10. 1 \in T
  <2> HIDE DEF T
  <2> QED
    BY <1>1, <1>8, <1>9, Downward
<1>11. Shown(lines) = h[1..N]
  BY <1>5, <1>7
<1>12. SumOfRows(lines) = Sum(f, 1..N)
  BY DEF SumOfRows
<1> QED
  BY <1>10, <1>11, <1>12

-----------------------------------------------------------------------------
(* The account page.  The ledger only grows at its end; what has been read *)
(* of it is what it was up to there.                                       *)
Typed(rows) == \E R : rows \in Seq(R) /\ \A row \in R : row.amount \in Int
LedgerGrows ==
  /\ Len(ledger) \in Nat /\ Len(ledger') \in Nat /\ Len(ledger) <= Len(ledger')
  /\ \A n \in 1..Len(ledger) : ledger'[n] = ledger[n]

LEMMA RowsOnlyAdded ==
  ASSUME Typed(ledger), [StatementsNext]_statements
  PROVE  LedgerGrows
<1>1. CASE ledger' = ledger
  BY <1>1, LenProperties DEF Typed, LedgerGrows
<1>2. ASSUME NEW type, NEW amount, NEW ref, ledger' = Booked(type, amount, ref) PROVE LedgerGrows
  <2>1. PICK R : ledger \in Seq(R)
    BY DEF Typed
  <2>2. PICK row, Q : row = [type |-> type, amount |-> amount, ref |-> ref] /\ Q = R \cup {row}
    OBVIOUS
  <2>3. ledger \in Seq(Q) /\ row \in Q /\ ledger' = Append(ledger, row)
    BY <1>2, <2>1, <2>2, SeqMonotonic DEF Booked
  <2> QED
    BY <2>3, AppendProperties, LenProperties DEF LedgerGrows
<1>3. ASSUME NEW c \in Calls, Handler(c)
      PROVE ledger' = ledger \/ \E type, amount, ref : ledger' = Booked(type, amount, ref)
  <2>1. CASE Charge(c)
    BY <2>1 DEF Charge
  <2>2. CASE ~Charge(c)
    BY <1>3, <2>2 DEF Handler, ParseFails, Parse, BeginLog, RequireModalities, CheckAccess, AccessFails,
      Passes, Refuses, Admits, InsufficientFunds, AdmitFails, RouterFails, RouterStreams, RouterAnswers,
      UsageChunk, Trailer, Streams, NextAttempt, StreamItemFails, StreamEnds, ChargeFails, Tell,
      ClientLeaves, Books
  <2> QED
    BY <2>1, <2>2
<1>4. ledger' = ledger \/ \E type, amount, ref : ledger' = Booked(type, amount, ref)
  <2>1. CASE EndpointsNext
    BY <1>3, <2>1 DEF EndpointsNext, RecordUsage, RecordFails, HourTurns
  <2>2. CASE \E reason \in Reasons : AdminCredits(reason) \/ AdminDebits(reason)
    BY <2>2 DEF AdminCredits, AdminDebits, AdminBooks
  <2>3. CASE UNCHANGED endpoints
    BY <2>3 DEF endpoints
  <2> QED
    BY <2>1, <2>2, <2>3 DEF StatementsNext, Serving, CreateApiKey, DeleteApiKey, ReadBalance,
       ReadRows, ReadModels, ShowPage, ReadTotal, ReadByModel, ReadByHour, ListKeys, ReadKeyUsage,
       statements
<1> QED
  BY <1>1, <1>2, <1>4

PageShape ==
  page = [pc |-> page.pc, balance |-> page.balance, rows |-> page.rows, models |-> page.models,
          lines |-> page.lines, then |-> page.then, now |-> page.now]
BalanceRead ==
  page.then \in 0..Len(ledger) /\ page.balance = Sum(Amounts(ledger), 1..page.then)
RowsRead ==
  /\ page.now \in page.then..Len(ledger)
  /\ Typed(page.rows)
  /\ page.now <= 2 * Limit =>
       /\ Len(page.rows) = page.now
       /\ \A n \in 1..page.now : page.rows[n] = ledger[page.now + 1 - n]
LinesShown == page.lines = Truncated(FoldHistory(page.rows, page.models), Limit)

PageInv ==
  /\ PageShape
  /\ page.pc \in {"idle", "rows", "models", "fold", "done"}
  /\ page.pc # "idle" => BalanceRead
  /\ page.pc \in {"models", "fold", "done"} => RowsRead
  /\ page.pc = "done" => LinesShown

LEMMA BalanceStays ==
  ASSUME Typed(ledger), LedgerGrows, BalanceRead, page'.then = page.then, page'.balance = page.balance
  PROVE  BalanceRead'
<1>1. page.then \in Nat /\ page.then <= Len(ledger) /\ page.then \in 0..Len(ledger')
  BY DEF BalanceRead, LedgerGrows
<1>2. IsFiniteSet(1..page.then)
  <2>1. page.then \in Int
    BY <1>1
  <2> QED
    BY <2>1, FS_Interval
<1> PICK f, e : f = Amounts(ledger) /\ e = Amounts(ledger')
  OBVIOUS
<1>3. \A n \in 1..page.then : f[n] \in Int /\ e[n] = f[n]
  <2>1. \A n \in 1..page.then : n \in 1..Len(ledger) /\ n \in 1..Len(ledger')
    BY <1>1 DEF LedgerGrows
  <2>2. \A n \in 1..Len(ledger) : ledger[n].amount \in Int
    BY ElementOfSeq DEF Typed
  <2> QED
    BY <2>1, <2>2 DEF Amounts, LedgerGrows
<1>4. Sum(e, 1..page.then) = Sum(f, 1..page.then)
  BY <1>2, <1>3, SumOf
<1> QED
  BY <1>1, <1>4 DEF BalanceRead

LEMMA RowsStay ==
  ASSUME Typed(ledger), LedgerGrows, RowsRead, page.then \in Nat,
         page'.now = page.now, page'.then = page.then, page'.rows = page.rows
  PROVE  RowsRead'
<1>1. page.now \in page.then..Len(ledger') /\ page.now \in Nat /\ page.now <= Len(ledger)
  BY DEF RowsRead, LedgerGrows
<1>2. \A n \in 1..page.now : page.now + 1 - n \in 1..Len(ledger)
  BY <1>1 DEF LedgerGrows
<1>3. \A n \in 1..page.now : ledger'[page.now + 1 - n] = ledger[page.now + 1 - n]
  BY <1>2 DEF LedgerGrows
<1>4. Typed(page'.rows)
  BY DEF RowsRead
<1>5. page'.now <= 2 * Limit =>
        /\ Len(page'.rows) = page'.now
        /\ \A n \in 1..page'.now : page'.rows[n] = ledger'[page'.now + 1 - n]
  BY <1>3 DEF RowsRead
<1> QED
  BY <1>1, <1>4, <1>5 DEF RowsRead

LEMMA SequenceOf ==
  ASSUME NEW R, NEW M \in Nat, NEW s, DOMAIN s = 1..M, s = [i \in 1..M |-> s[i]],
         \A i \in 1..M : s[i] \in R
  PROVE  s \in Seq(R) /\ Len(s) = M
<1>1. s \in [1..M -> R]
  OBVIOUS
<1> QED
  BY <1>1

IsTurned(R, t, s) ==
  /\ t \in Seq(R) /\ Len(t) = Len(s)
  /\ \A i \in 1..Len(s) : t[i] = s[Len(s) + 1 - i]
IsPart(R, t, s, m, n) ==
  /\ t \in Seq(R) /\ Len(t) = IF m <= n THEN n - m + 1 ELSE 0
  /\ \A i \in 1..(n - m + 1) : t[i] = s[m + i - 1]

LEMMA TurnedRound ==
  ASSUME NEW R, NEW s \in Seq(R)
  PROVE  IsTurned(R, Reverse(s), s)
<1> PICK M : M = Len(s) /\ M \in Nat
  BY LenProperties
<1>1. \A i \in 1..M : (M - i) + 1 = M + 1 - i /\ M + 1 - i \in 1..Len(s)
  OBVIOUS
<1>2. \A i \in 1..M : s[M + 1 - i] \in R
  BY <1>1, ElementOfSeq
<1> PICK r : r = Reverse(s)
  OBVIOUS
<1>3. r = [i \in 1..M |-> s[(M - i) + 1]]
  BY DEF Reverse
<1>4. DOMAIN r = 1..M /\ (\A i \in 1..M : r[i] = s[M + 1 - i]) /\ r = [i \in 1..M |-> r[i]]
  BY <1>1, <1>3
<1>5. r \in Seq(R) /\ Len(r) = M
  BY <1>2, <1>4, SequenceOf
<1> QED
  BY <1>4, <1>5 DEF IsTurned

LEMMA PartOf ==
  ASSUME NEW R, NEW s \in Seq(R), NEW m \in Nat \ {0}, NEW n \in 0..Len(s)
  PROVE  IsPart(R, SubSeq(s, m, n), s, m, n)
<1>1. m \in Int /\ n \in Int /\ \A i \in m..n : i \in 1..Len(s)
  BY LenProperties
<1>2. \A i \in m..n : s[i] \in R
  BY <1>1, ElementOfSeq
<1> QED
  BY <1>1, <1>2, SubSeqProperties DEF IsPart
LEMMA NewestRows ==
  ASSUME Typed(ledger)
  PROVE  /\ Typed(Newest(2 * Limit))
         /\ Len(ledger) <= 2 * Limit =>
              /\ Len(Newest(2 * Limit)) = Len(ledger)
              /\ \A n \in 1..Len(ledger) : Newest(2 * Limit)[n] = ledger[Len(ledger) + 1 - n]
<1> PICK N : N = Len(ledger) /\ N \in Nat
  BY LenProperties DEF Typed
<1> PICK R : ledger \in Seq(R) /\ \A row \in R : row.amount \in Int
  BY DEF Typed
<1> PICK x : x = N - 2 * Limit + 1 /\ x \in Int
  BY StatementsAssumption
<1>1. Max({1, x}) \in {1, x} /\ Max({1, x}) >= 1 /\ (x <= 1 => Max({1, x}) = 1)
  <2> PICK S : S = {1, x}
    OBVIOUS
  <2>1. \E y \in S : \A z \in S : y >= z
    <3>1. CASE x <= 1
      BY <3>1
    <3>2. CASE x >= 1
      BY <3>2
    <3> QED
      BY <3>1, <3>2
  <2>2. Max(S) \in S /\ \A z \in S : Max(S) >= z
    BY <2>1 DEF Max
  <2> QED
    BY <2>2
<1> PICK m : m = Max({1, x}) /\ m \in Int /\ m >= 1
  BY <1>1
<1>2. N \in 0..Len(ledger) /\ m \in Nat \ {0}
  OBVIOUS
<1> PICK part : part = SubSeq(ledger, m, N)
  OBVIOUS
<1>3. /\ part \in Seq(R) /\ Len(part) = IF m <= N THEN N - m + 1 ELSE 0
      /\ \A i \in 1..(N - m + 1) : part[i] = ledger[m + i - 1]
  <2>1. IsPart(R, SubSeq(ledger, m, N), ledger, m, N)
    BY <1>2, PartOf
  <2> QED
    BY <2>1 DEF IsPart
<1> PICK rows : rows = Reverse(part)
  OBVIOUS
<1>4. Newest(2 * Limit) = rows
  BY DEF Newest
<1>5. /\ rows \in Seq(R) /\ Len(rows) = Len(part)
      /\ \A i \in 1..Len(part) : rows[i] = part[Len(part) + 1 - i]
  <2>1. part \in Seq(R)
    BY <1>3
  <2>2. IsTurned(R, Reverse(part), part)
    BY <2>1, TurnedRound
  <2> QED
    BY <2>2 DEF IsTurned
<1>7. ASSUME N <= 2 * Limit
      PROVE Len(rows) = N /\ \A n \in 1..N : rows[n] = ledger[N + 1 - n]
  <2>1. m = 1
    BY <1>1, <1>7, StatementsAssumption
  <2>2. Len(part) = N
    BY <1>3, <2>1
  <2>3. ASSUME NEW n \in 1..N PROVE rows[n] = ledger[N + 1 - n]
    <3>1. N + 1 - n \in 1..(N - m + 1) /\ m + (N + 1 - n) - 1 = N + 1 - n
      BY <2>1
    <3>2. part[N + 1 - n] = ledger[N + 1 - n]
      BY <1>3, <3>1
    <3> QED
      BY <1>5, <2>2, <3>2
  <2> QED
    BY <1>5, <2>2, <2>3
<1>8. Typed(rows)
  BY <1>5 DEF Typed
<1> QED
  BY <1>4, <1>7, <1>8

LEMMA PageStep ==
  ASSUME Typed(ledger), PageInv, [StatementsNext]_statements
  PROVE  PageInv'
<1>0. LedgerGrows
  BY RowsOnlyAdded
<1>1. CASE UNCHANGED page
  <2>1. page.pc # "idle" => BalanceRead'
    BY <1>0, <1>1, BalanceStays DEF PageInv
  <2>2. page.pc \in {"models", "fold", "done"} => RowsRead'
    <3>1. page.pc \in {"models", "fold", "done"} => page.then \in Nat
      BY DEF PageInv, BalanceRead
    <3> QED
      BY <1>0, <1>1, <3>1, RowsStay DEF PageInv
  <2>3. PageShape' /\ (page.pc = "done" => LinesShown')
    BY <1>1 DEF PageInv, PageShape, LinesShown
  <2> QED
    BY <1>1, <2>1, <2>2, <2>3 DEF PageInv
<1>2. CASE ReadBalance
  <2>1. /\ page'.pc = "rows" /\ page'.balance = Balance /\ page'.then = Len(ledger) /\ PageShape'
        /\ ledger' = ledger
    BY <1>2 DEF PageInv, PageShape, ReadBalance, endpoints
  <2>2. Balance = Sum(Amounts(ledger), 1..Len(ledger)) /\ Len(ledger) \in 0..Len(ledger)
    BY <1>0, TotalIsSum DEF Typed, Balance, LedgerGrows
  <2>3. BalanceRead'
    BY <2>1, <2>2 DEF BalanceRead
  <2> QED
    BY <2>1, <2>3 DEF PageInv
<1>3. CASE ReadRows
  <2>1. /\ page.pc = "rows" /\ page'.pc = "models" /\ page'.rows = Newest(2 * Limit)
        /\ page'.now = Len(ledger) /\ page'.then = page.then /\ page'.balance = page.balance
        /\ PageShape' /\ ledger' = ledger
    BY <1>3 DEF PageInv, PageShape, ReadRows, endpoints
  <2>2. BalanceRead'
    BY <1>0, <2>1, BalanceStays DEF PageInv
  <2>3. Len(ledger) \in page.then..Len(ledger)
    BY <1>0, <2>1 DEF PageInv, BalanceRead, LedgerGrows
  <2>4. RowsRead'
    BY <2>1, <2>3, NewestRows DEF RowsRead
  <2> QED
    BY <2>1, <2>2, <2>4 DEF PageInv
<1>4. CASE ReadModels \/ ShowPage
  <2>1. /\ page.pc \in {"models", "fold"} /\ page'.pc \in {"fold", "done"} /\ page'.rows = page.rows
        /\ page'.now = page.now /\ page'.then = page.then /\ page'.balance = page.balance
        /\ PageShape'
        /\ page'.pc = "done" => /\ page'.models = page.models
                                /\ page'.lines = Truncated(FoldHistory(page.rows, page.models), Limit)
    BY <1>4 DEF PageInv, PageShape, ReadModels, ShowPage
  <2>2. BalanceRead' /\ RowsRead'
    <3>1. BalanceRead /\ RowsRead /\ page.then \in Nat
      BY <2>1 DEF PageInv, BalanceRead
    <3> QED
      BY <1>0, <2>1, <3>1, BalanceStays, RowsStay
  <2>3. page'.pc = "done" => LinesShown'
    BY <2>1 DEF LinesShown
  <2> QED
    BY <2>1, <2>2, <2>3 DEF PageInv
<1> QED
  BY <1>1, <1>2, <1>3, <1>4 DEF StatementsNext, Serving, AdminCredits, AdminDebits, AdminBooks,
     CreateApiKey, DeleteApiKey, ReadTotal, ReadByModel, ReadByHour, ListKeys, ReadKeyUsage, Readers,
     statements

(* What a page shows that shows everything.                                *)
LEMMA ShowsEverything ==
  ASSUME Typed(ledger), BalanceRead, RowsRead, page.now <= 2 * Limit
  PROVE  SumOfRows(page.rows) = page.balance + Total(SubSeq(ledger, page.then + 1, page.now))
<1> PICK R : ledger \in Seq(R) /\ \A row \in R : row.amount \in Int
  BY DEF Typed
<1> PICK k, n : k = page.then /\ n = page.now
  OBVIOUS
<1>1. k \in Nat /\ n \in Nat /\ k <= n /\ n <= Len(ledger) /\ Len(ledger) \in Nat
  BY LenProperties DEF BalanceRead, RowsRead
<1>2. \A i \in 1..n : i \in 1..Len(ledger) /\ ledger[i].amount \in Int
  BY <1>1, ElementOfSeq
<1> PICK f : f = Amounts(ledger)
  OBVIOUS
<1>3. \A i \in 1..n : f[i] = ledger[i].amount /\ f[i] \in Int
  BY <1>2 DEF Amounts
<1> PICK e : e = Amounts(page.rows)
  OBVIOUS
<1>4. Len(page.rows) = n /\ \A i \in 1..n : e[i] = f[n + 1 - i]
  <2>1. Len(page.rows) = n /\ \A i \in 1..n : page.rows[i] = ledger[n + 1 - i]
    BY DEF RowsRead
  <2>2. \A i \in 1..n : n + 1 - i \in 1..n
    BY <1>1
  <2>3. \A i \in 1..n : e[i] = page.rows[i].amount
    BY <2>1 DEF Amounts
  <2>4. \A i \in 1..n : f[n + 1 - i] = ledger[n + 1 - i].amount
    BY <1>3, <2>2
  <2> QED
    BY <2>1, <2>3, <2>4
<1>5. Sum(e, 1..n) = Sum(f, 1..n)
  BY <1>1, <1>3, <1>4, SumTurned
<1> PICK part : part = SubSeq(ledger, k + 1, n)
  OBVIOUS
<1>6. part \in Seq(R) /\ Len(part) = n - k /\ \A i \in 1..(n - k) : part[i] = ledger[k + i]
  <2>1. k + 1 \in Nat \ {0} /\ n \in 0..Len(ledger)
    BY <1>1
  <2>2. /\ part \in Seq(R) /\ Len(part) = IF k + 1 <= n THEN n - (k + 1) + 1 ELSE 0
        /\ \A i \in 1..(n - (k + 1) + 1) : part[i] = ledger[(k + 1) + i - 1]
    <3>1. IsPart(R, SubSeq(ledger, k + 1, n), ledger, k + 1, n)
      BY <2>1, PartOf
    <3> QED
      BY <3>1 DEF IsPart
  <2>3. n - (k + 1) + 1 = n - k /\ (~(k + 1 <= n) => n - k = 0)
    BY <1>1
  <2>4. \A i \in 1..(n - k) : (k + 1) + i - 1 = k + i
    BY <1>1
  <2> QED
    BY <2>2, <2>3, <2>4
<1> PICK d : d = Amounts(part)
  OBVIOUS
<1>7. Total(part) = Sum(d, 1..(n - k))
  BY <1>6, TotalIsSum
<1>8. Sum(f, 1..n) = Sum(f, 1..k) + Sum(d, 1..(n - k))
  <2>1. \A i \in 1..(n - k) : k + i \in 1..n
    BY <1>1
  <2>2. \A i \in 1..(n - k) : d[i] = part[i].amount
    BY <1>6 DEF Amounts
  <2>3. ASSUME NEW i \in 1..(n - k) PROVE d[i] = f[k + i]
    <3>1. f[k + i] = ledger[k + i].amount
      BY <1>3, <2>1
    <3>2. part[i] = ledger[k + i] /\ d[i] = part[i].amount
      BY <1>6, <2>2
    <3> QED
      BY <3>1, <3>2
  <2>4. Along(d, f, k, n)
    BY <1>3, <2>3 DEF Along
  <2>5. AddUp(d, f, k, n)
    BY <1>1, <2>4, SumAlong
  <2> QED
    BY <2>5 DEF AddUp
<1>9. SumOfRows(page.rows) = Sum(e, 1..n) /\ page.balance = Sum(f, 1..k)
  BY <1>4 DEF SumOfRows, BalanceRead
<1> QED
  BY <1>5, <1>7, <1>8, <1>9

LEMMA PageAddsUp == Typed(ledger) /\ PageInv => HistoryAddsUp
<1> SUFFICES ASSUME Typed(ledger), PageInv, page.pc = "done" PROVE HistoryAddsUp
  BY DEF HistoryAddsUp
<1>1. BalanceRead /\ RowsRead /\ LinesShown
  BY DEF PageInv
<1> PICK R : page.rows \in Seq(R) /\ \A row \in R : row.amount \in Int
  BY <1>1 DEF RowsRead, Typed
<1> PICK models, folded : models = page.models /\ folded = Folded(page.rows, models)
  OBVIOUS
<1>2. PICK L : /\ \A l \in L : l.amount \in Int
               /\ folded \in Seq(L) /\ Single(folded) /\ SumOfRows(folded) = SumOfRows(page.rows)
  BY FoldedKeeps
<1> PICK shown : shown = Shown(folded)
  OBVIOUS
<1>3. shown \in Seq(L) /\ Single(shown) /\ SumOfRows(shown) = SumOfRows(page.rows)
  BY <1>2, ShownKeeps
<1> PICK N, n : N = Len(shown) /\ N \in Nat /\ n = Min({Limit, N})
  BY <1>3, LenProperties
<1>4. n \in 0..N /\ n \in {Limit, N} /\ n <= Limit
  <2> PICK S : S = {Limit, N}
    OBVIOUS
  <2>1. S \subseteq Nat /\ S # {} /\ Limit \in S /\ N \in S
    BY StatementsAssumption
  <2>2. Min(S) \in S /\ \A m \in S : Min(S) <= m
    BY <2>1, LeastOf
  <2> QED
    BY <2>1, <2>2
<1> PICK lines : lines = page.lines
  OBVIOUS
<1>5. lines = SubSeq(shown, 1, n)
  BY <1>1 DEF LinesShown, FoldHistory, Truncated
<1>6. lines \in Seq(L) /\ Len(lines) = n /\ \A i \in 1..n : lines[i] = shown[i]
  <2>1. 1 \in Nat \ {0} /\ n \in 0..Len(shown)
    BY <1>4
  <2>2. /\ lines \in Seq(L) /\ Len(lines) = IF 1 <= n THEN n - 1 + 1 ELSE 0
        /\ \A i \in 1..(n - 1 + 1) : lines[i] = shown[1 + i - 1]
    <3>1. shown \in Seq(L)
      BY <1>3
    <3>2. IsPart(L, SubSeq(shown, 1, n), shown, 1, n)
      BY <2>1, <3>1, PartOf
    <3> QED
      BY <1>5, <3>2 DEF IsPart
  <2>3. n \in Nat /\ n - 1 + 1 = n /\ (~(1 <= n) => n = 0)
    BY <1>4
  <2>4. Len(lines) = n
    BY <2>2, <2>3
  <2>5. ASSUME NEW i \in 1..n PROVE lines[i] = shown[i]
    <3>1. i \in 1..(n - 1 + 1) /\ 1 + i - 1 = i
      BY <2>3
    <3>2. lines[i] = shown[1 + i - 1]
      BY <2>2, <3>1
    <3> QED
      BY <3>1, <3>2
  <2> QED
    BY <2>2, <2>4, <2>5
<1>7. ASSUME NEW i \in DOMAIN lines, NEW j \in DOMAIN lines,
             lines[i].of = lines[j].of, lines[i].of # "none"
      PROVE  i = j
  <2>1. i \in 1..n /\ j \in 1..n
    BY <1>6, <1>7, LenProperties
  <2>2. i \in 1..Len(shown) /\ j \in 1..Len(shown)
    BY <1>4, <2>1
  <2>3. lines[i] = shown[i] /\ lines[j] = shown[j]
    BY <1>6, <2>1
  <2> QED
    BY <1>3, <1>7, <2>2, <2>3 DEF Single
<1>8. ASSUME page.now <= 2 * Limit, Len(lines) < Limit
      PROVE Total(lines) = page.balance + Total(SubSeq(ledger, page.then + 1, page.now))
  <2>1. n = N
    BY <1>4, <1>6, <1>8, StatementsAssumption
  <2>2. lines = shown
    BY <1>3, <1>6, <2>1, SeqEqual
  <2>3. Total(lines) = SumOfRows(lines)
    BY <1>2, <1>6, TotalIsSum DEF SumOfRows
  <2> QED
    BY <1>1, <1>3, <1>8, <2>2, <2>3, ShowsEverything
<1> QED
  BY <1>7, <1>8 DEF HistoryAddsUp

(* What the account page shows adds up to the balance it tells, whatever   *)
(* is booked between its reads; for any ledger, requests and length.       *)
THEOREM HistoryAlwaysAddsUp == StatementsSpec => []HistoryAddsUp
<1> DEFINE Inv == StatementsInv /\ PageInv
<1>0. StatementsInv => Typed(ledger)
  BY DEF StatementsInv, BooksInv, BooksTypeOK, Typed
<1>1. StatementsInit => Inv
  <2>1. StatementsInit => PageInv
    BY DEF StatementsInit, NoPage, PageInv, PageShape
  <2> QED
    BY <2>1, StatementsStart
<1>2. Inv /\ [StatementsNext]_statements => Inv'
  BY <1>0, StatementsStep, PageStep
<1>3. Inv => HistoryAddsUp
  BY <1>0, PageAddsUp
<1> QED
  BY <1>1, <1>2, <1>3, PTL DEF StatementsSpec
=============================================================================
