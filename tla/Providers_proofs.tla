-------------------------- MODULE Providers_proofs --------------------------
(***************************************************************************)
(* Theorems about the conversations a provider is sent, whatever its       *)
(* adapter: for any tools, routes, usages and length of a conversation.    *)
(*                                                                         *)
(* What the client has put together from the chunks is what the upstream   *)
(* has said so far, block by block, and what goes back to it in a request  *)
(* is what was said before.  A request begins as the one before it did, up *)
(* to where the cache that one filled may be used.                         *)
(***************************************************************************)
EXTENDS Adapters, FiniteSetTheorems, SequenceTheorems, WellFoundedInduction,
        TLAPS

-----------------------------------------------------------------------------
(* The operators on sequences that the conversations are told with: the    *)
(* places of a set of numbers in order, what a filter leaves of a longer   *)
(* sequence, functions defined by recursion on a length, flattening.       *)

(* A non-empty set of naturals has a least element.                        *)
LEMMA LeastNatural ==
  ASSUME NEW T, T \subseteq Nat, T # {}
  PROVE  \E n \in T : \A m \in T : n <= m
<1>1. \E x \in T : \A y \in T : ~(<<y, x>> \in OpToRel(<, Nat))
  BY NatLessThanWellFounded, WFMin
<1>2. PICK x \in T : \A y \in T : ~(<<y, x>> \in OpToRel(<, Nat))
  BY <1>1
<1>3. \A y \in T : ~(y < x)
  BY <1>2 DEF OpToRel
<1> QED
  BY <1>3

(* What n + 1 has if n has it, from 0 on, every natural number has.        *)
LEMMA Induct ==
  ASSUME NEW T, 0 \in T, \A n \in Nat : n \in T => n + 1 \in T
  PROVE  \A n \in Nat : n \in T
<1>1. SUFFICES ASSUME Nat \ T # {} PROVE FALSE
  OBVIOUS
<1>2. PICK n \in Nat \ T : \A m \in Nat \ T : n <= m
  BY <1>1, LeastNatural
<1>3. n - 1 \in Nat /\ n - 1 \in T
  BY <1>2
<1>4. (n - 1) + 1 \in T
  BY <1>3
<1> QED
  BY <1>2, <1>4

---------------------------------------------------------------------------
(* The k-th of a finite set of numbers is the one with k numbers up to it. *)

UpTo(I, i) == {j \in I : j <= i}

LEMMA UpToGrows ==
  ASSUME NEW I \in SUBSET Nat, IsFiniteSet(I)
  PROVE  /\ Cardinality(I) \in Nat
         /\ \A i \in Nat : Cardinality(UpTo(I, i)) \in 0..Cardinality(I)
         /\ \A i \in I : Cardinality(UpTo(I, i)) \in 1..Cardinality(I)
         /\ \A i, j \in I : i < j => Cardinality(UpTo(I, i)) < Cardinality(UpTo(I, j))
<1>1. Cardinality(I) \in Nat
  BY FS_CardinalityType
<1>2. ASSUME NEW i \in Nat
      PROVE  IsFiniteSet(UpTo(I, i)) /\ Cardinality(UpTo(I, i)) \in 0..Cardinality(I)
  <2>1. UpTo(I, i) \in SUBSET I
    BY DEF UpTo
  <2>2. IsFiniteSet(UpTo(I, i)) /\ Cardinality(UpTo(I, i)) <= Cardinality(I)
    BY <2>1, FS_Subset
  <2>3. Cardinality(UpTo(I, i)) \in Nat
    BY <2>2, FS_CardinalityType
  <2> QED
    BY <1>1, <2>2, <2>3
<1>3. ASSUME NEW i \in I PROVE Cardinality(UpTo(I, i)) # 0
  <2>1. i \in UpTo(I, i) /\ i \in Nat
    BY DEF UpTo
  <2> QED
    BY <1>2, <2>1, FS_EmptySet
<1>4. ASSUME NEW i \in I, NEW j \in I, i < j
      PROVE  Cardinality(UpTo(I, i)) < Cardinality(UpTo(I, j))
  <2>0. i \in Nat /\ j \in Nat
    OBVIOUS
  <2>1. UpTo(I, i) \in SUBSET UpTo(I, j)
    <3>1. ASSUME NEW x \in UpTo(I, i) PROVE x \in UpTo(I, j)
      <4>1. x \in I /\ x \in Nat /\ x <= i
        BY DEF UpTo
      <4>2. x <= j
        BY <2>0, <1>4, <4>1
      <4> QED
        BY <4>1, <4>2 DEF UpTo
    <3> QED
      BY <3>1
  <2>2. j \in UpTo(I, j) /\ j \notin UpTo(I, i)
    BY <2>0, <1>4 DEF UpTo
  <2>3. /\ Cardinality(UpTo(I, i)) <= Cardinality(UpTo(I, j))
        /\ Cardinality(UpTo(I, j)) = Cardinality(UpTo(I, i)) => UpTo(I, j) = UpTo(I, i)
    BY <1>2, <2>0, <2>1, FS_Subset
  <2>4. Cardinality(UpTo(I, i)) \in Nat /\ Cardinality(UpTo(I, j)) \in Nat
    BY <1>2, <2>0
  <2> QED
    BY <2>2, <2>3, <2>4
<1> QED
  BY <1>1, <1>2, <1>3, <1>4

LEMMA PlaceIsKth ==
  ASSUME NEW I \in SUBSET Nat, IsFiniteSet(I)
  PROVE  /\ \A k \in 1..Cardinality(I) :
              Place(I, k) \in I /\ Cardinality(UpTo(I, Place(I, k))) = k
         /\ \A i \in I : Place(I, Cardinality(UpTo(I, i))) = i
         /\ \A k, l \in 1..Cardinality(I) : k < l => Place(I, k) < Place(I, l)
<1> DEFINE N == Cardinality(I)
<1>0. N \in Nat
  BY UpToGrows
<1> PICK rank : rank = [i \in I |-> Cardinality(UpTo(I, i))]
  OBVIOUS
<1>1. rank \in [I -> 1..N]
  BY UpToGrows
<1>2. \A i, j \in I : rank[i] = rank[j] => i = j
  <2>1. SUFFICES ASSUME NEW i \in I, NEW j \in I, rank[i] = rank[j], i # j PROVE FALSE
    OBVIOUS
  <2>2. i \in Nat /\ j \in Nat /\ rank[i] \in 1..N /\ rank[j] \in 1..N
    BY <1>1
  <2>3. i < j => rank[i] < rank[j]
    BY UpToGrows
  <2>4. j < i => rank[j] < rank[i]
    BY UpToGrows
  <2> QED
    BY <2>1, <2>2, <2>3, <2>4
<1>3. rank \in Injection(I, 1..N)
  BY <1>1, <1>2 DEF Injection, IsInjective
<1>4. IsFiniteSet(1..N) /\ Cardinality(1..N) = N
  BY <1>0, FS_Interval
<1>5. rank \in Surjection(I, 1..N)
  BY <1>3, <1>4, FS_Injection
<1>6. \A k \in 1..N : \E i \in I : Cardinality(UpTo(I, i)) = k
  BY <1>5 DEF Surjection
<1>7. \A k : Place(I, k) = CHOOSE i \in I : Cardinality(UpTo(I, i)) = k
  BY DEF Place, UpTo
<1>8. ASSUME NEW k \in 1..N
      PROVE  Place(I, k) \in I /\ Cardinality(UpTo(I, Place(I, k))) = k
  BY <1>6, <1>7
<1>9. ASSUME NEW i \in I PROVE Place(I, Cardinality(UpTo(I, i))) = i
  <2>1. Cardinality(UpTo(I, i)) \in 1..N
    BY UpToGrows
  <2>2. /\ Place(I, Cardinality(UpTo(I, i))) \in I
        /\ rank[Place(I, Cardinality(UpTo(I, i)))] = rank[i]
    BY <1>8, <2>1
  <2> QED
    BY <1>2, <2>2
<1>10. ASSUME NEW k \in 1..N, NEW l \in 1..N, k < l PROVE Place(I, k) < Place(I, l)
  <2>1. /\ Place(I, k) \in I /\ Cardinality(UpTo(I, Place(I, k))) = k
        /\ Place(I, l) \in I /\ Cardinality(UpTo(I, Place(I, l))) = l
    BY <1>8
  <2>2. Place(I, l) < Place(I, k) => Cardinality(UpTo(I, Place(I, l))) < Cardinality(UpTo(I, Place(I, k)))
    BY <2>1, UpToGrows
  <2>3. Place(I, k) \in Nat /\ Place(I, l) \in Nat
    BY <2>1
  <2>4. k \in Nat /\ l \in Nat
    BY <1>0
  <2> QED
    BY <1>10, <2>1, <2>2, <2>3, <2>4
<1> QED
  BY <1>8, <1>9, <1>10

(* A set of numbers that gets a greater one keeps its order.               *)
LEMMA PlaceExtends ==
  ASSUME NEW I \in SUBSET Nat, IsFiniteSet(I), NEW n \in Nat, \A i \in I : i < n
  PROVE  /\ IsFiniteSet(I \cup {n}) /\ Cardinality(I \cup {n}) = Cardinality(I) + 1
         /\ \A k \in 1..Cardinality(I) : Place(I \cup {n}, k) = Place(I, k)
         /\ Place(I \cup {n}, Cardinality(I) + 1) = n
<1> DEFINE J == I \cup {n}
<1>1. n \notin I /\ J \in SUBSET Nat
  OBVIOUS
<1>2. IsFiniteSet(J) /\ Cardinality(J) = Cardinality(I) + 1
  BY <1>1, FS_AddElement
<1>3. ASSUME NEW i \in I PROVE UpTo(J, i) = UpTo(I, i)
  BY <1>3 DEF UpTo
<1>4. UpTo(J, n) = J
  <2>1. \A j \in J : j <= n
    OBVIOUS
  <2> QED
    BY <2>1 DEF UpTo
<1> HIDE DEF J
<1>5. ASSUME NEW k \in 1..Cardinality(I) PROVE Place(J, k) = Place(I, k)
  <2>1. Place(I, k) \in I /\ Cardinality(UpTo(I, Place(I, k))) = k
    BY PlaceIsKth
  <2>2. Place(I, k) \in J /\ Cardinality(UpTo(J, Place(I, k))) = k
    BY <1>3, <2>1 DEF J
  <2> QED
    BY <1>1, <1>2, <2>2, PlaceIsKth
<1>6. Place(J, Cardinality(I) + 1) = n
  <2>1. n \in J /\ Cardinality(UpTo(J, n)) = Cardinality(I) + 1
    BY <1>2, <1>4 DEF J
  <2> QED
    BY <1>1, <1>2, <2>1, PlaceIsKth
<1> QED
  BY <1>2, <1>5, <1>6 DEF J

(* The numbers from 1 on are each in its own place.                        *)
LEMMA PlaceOfAll ==
  ASSUME NEW n \in Nat
  PROVE  /\ IsFiniteSet(1..n) /\ Cardinality(1..n) = n
         /\ \A k \in 1..n : Place(1..n, k) = k
<1>1. IsFiniteSet(1..n) /\ Cardinality(1..n) = n
  BY FS_Interval
<1>2. ASSUME NEW k \in 1..n PROVE Place(1..n, k) = k
  <2>1. UpTo(1..n, k) = 1..k
    BY DEF UpTo
  <2>2. Cardinality(1..k) = k
    BY FS_Interval
  <2>3. 1..n \in SUBSET Nat
    OBVIOUS
  <2>4. Place(1..n, Cardinality(UpTo(1..n, k))) = k
    BY <1>1, <2>3, PlaceIsKth
  <2> QED
    BY <2>1, <2>2, <2>4
<1> QED
  BY <1>1, <1>2

---------------------------------------------------------------------------
(* What of a sequence stands at some places.                               *)

LEMMA OnlyIs ==
  ASSUME NEW S, NEW s \in Seq(S), NEW I \in SUBSET DOMAIN s
  PROVE  /\ IsFiniteSet(I) /\ I \in SUBSET Nat /\ Cardinality(I) \in Nat
         /\ Only(s, I) = [k \in 1..Cardinality(I) |-> s[Place(I, k)]]
         /\ Only(s, I) \in Seq(S) /\ Len(Only(s, I)) = Cardinality(I)
<1>1. IsFiniteSet(I) /\ I \in SUBSET Nat
  <2>1. DOMAIN s = 1..Len(s) /\ Len(s) \in Nat
    OBVIOUS
  <2>2. IsFiniteSet(1..Len(s))
    BY <2>1, FS_Interval
  <2> QED
    BY <2>1, <2>2, FS_Subset
<1>2. Cardinality(I) \in Nat
  BY <1>1, FS_CardinalityType
<1>3. \A k \in 1..Cardinality(I) : Place(I, k) \in I
  BY <1>1, PlaceIsKth
<1> PICK f : f = [i \in I |-> s[i]]
  OBVIOUS
<1>4. DOMAIN f = I /\ Only(s, I) = InOrder(f)
  BY DEF Only
<1>5. InOrder(f) = [k \in 1..Cardinality(I) |-> f[Place(I, k)]]
  BY <1>4 DEF InOrder
<1>6. Only(s, I) = [k \in 1..Cardinality(I) |-> s[Place(I, k)]]
  BY <1>3, <1>4, <1>5
<1>7. \A k \in 1..Cardinality(I) : s[Place(I, k)] \in S
  BY <1>3
<1> PICK t : t = [k \in 1..Cardinality(I) |-> s[Place(I, k)]]
  OBVIOUS
<1>8. t \in Seq(S) /\ Len(t) = Cardinality(I)
  BY <1>2, <1>7
<1> QED
  BY <1>1, <1>2, <1>6, <1>8

LEMMA OnlyNone ==
  ASSUME NEW s
  PROVE  Only(s, {}) = <<>>
<1> PICK f : f = [i \in {} |-> s[i]]
  OBVIOUS
<1>1. Only(s, {}) = InOrder(f) /\ DOMAIN f = {}
  BY DEF Only
<1>2. Cardinality({}) = 0
  BY FS_EmptySet
<1> QED
  BY <1>1, <1>2 DEF InOrder

LEMMA OnlyAll ==
  ASSUME NEW S, NEW s \in Seq(S)
  PROVE  Only(s, DOMAIN s) = s
<1>1. DOMAIN s = 1..Len(s) /\ Len(s) \in Nat
  OBVIOUS
<1>2. Cardinality(1..Len(s)) = Len(s) /\ \A k \in 1..Len(s) : Place(1..Len(s), k) = k
  BY <1>1, PlaceOfAll
<1>3. Only(s, DOMAIN s) = [k \in 1..Len(s) |-> s[k]]
  BY <1>1, <1>2, OnlyIs
<1> QED
  BY <1>1, <1>3

(* An element more at the end is there if its place is, after the rest.    *)
LEMMA OnlyOfMore ==
  ASSUME NEW S, NEW s \in Seq(S), NEW x \in S, NEW I \in SUBSET DOMAIN s
  PROVE  /\ Only(Append(s, x), I) = Only(s, I)
         /\ Only(Append(s, x), I \cup {Len(s) + 1}) = Append(Only(s, I), x)
<1>o. ASSUME NEW r \in Seq(S), NEW J \in SUBSET DOMAIN r
      PROVE  Only(r, J) = [k \in 1..Cardinality(J) |-> r[Place(J, k)]]
  BY OnlyIs
<1> PICK n : n = Len(s) + 1
  OBVIOUS
<1> PICK t : t = Append(s, x)
  OBVIOUS
<1>1. /\ n \in Nat /\ DOMAIN s = 1..Len(s) /\ t \in Seq(S) /\ DOMAIN t = 1..n
      /\ t[n] = x /\ \A i \in DOMAIN s : t[i] = s[i]
  OBVIOUS
<1>2. I \in SUBSET DOMAIN t /\ I \cup {n} \in SUBSET DOMAIN t /\ \A i \in I : i < n
  BY <1>1
<1>t. t \in Seq(S)
  BY <1>1
<1>u. \A J \in SUBSET DOMAIN t : Only(t, J) = [k \in 1..Cardinality(J) |-> t[Place(J, k)]]
  BY <1>o, <1>t
<1>3. /\ IsFiniteSet(I) /\ I \in SUBSET Nat /\ Cardinality(I) \in Nat
      /\ Only(s, I) = [k \in 1..Cardinality(I) |-> s[Place(I, k)]]
      /\ Only(s, I) \in Seq(S) /\ Len(Only(s, I)) = Cardinality(I)
  BY OnlyIs
<1>4. \A k \in 1..Cardinality(I) : Place(I, k) \in I
  BY <1>3, PlaceIsKth
<1>5. Only(t, I) = [k \in 1..Cardinality(I) |-> t[Place(I, k)]]
  BY <1>2, <1>u
<1>6. Only(t, I) = Only(s, I)
  BY <1>1, <1>3, <1>4, <1>5
<1>7. /\ Cardinality(I \cup {n}) = Cardinality(I) + 1
      /\ \A k \in 1..Cardinality(I) : Place(I \cup {n}, k) = Place(I, k)
      /\ Place(I \cup {n}, Cardinality(I) + 1) = n
  BY <1>1, <1>2, <1>3, PlaceExtends
<1>8. Only(t, I \cup {n}) = [k \in 1..Cardinality(I \cup {n}) |-> t[Place(I \cup {n}, k)]]
  BY <1>2, <1>u
<1>9. Only(t, I \cup {n}) = Append(Only(s, I), x)
  <2>1. DOMAIN Only(s, I) = 1..Cardinality(I)
    BY <1>3
  <2> PICK u : u = Only(s, I)
    OBVIOUS
  <2>2. Append(u, x) = [k \in 1..(Cardinality(I) + 1) |-> IF k = Cardinality(I) + 1 THEN x ELSE u[k]]
    BY <1>3
  <2>3. \A k \in 1..Cardinality(I) : u[k] = t[Place(I \cup {n}, k)]
    BY <1>1, <1>3, <1>4, <1>7
  <2>4. t[Place(I \cup {n}, Cardinality(I) + 1)] = x
    BY <1>1, <1>7
  <2>5. \A k \in 1..(Cardinality(I) + 1) : k = Cardinality(I) + 1 \/ k \in 1..Cardinality(I)
    BY <1>3
  <2>6. \A k \in 1..(Cardinality(I) + 1) :
          t[Place(I \cup {n}, k)] = IF k = Cardinality(I) + 1 THEN x ELSE u[k]
    BY <2>3, <2>4, <2>5
  <2> QED
    BY <1>7, <1>8, <2>2, <2>6
<1> QED
  BY <1>6, <1>9

---------------------------------------------------------------------------
(* A recursion over the first numbers: the value at i is K[i] of the one   *)
(* before.                                                                 *)

IsRecursion(K, b, n, V, g) ==
  g \in [0..n -> V] /\ g[0] = b /\ \A i \in 1..n : g[i] = K[i][g[i - 1]]

LEMMA RecursionExists ==
  ASSUME NEW n \in Nat, NEW V, NEW b \in V, NEW K,
         \A i \in 1..n : \A v \in V : K[i][v] \in V
  PROVE  \E g : IsRecursion(K, b, n, V, g)
<1> DEFINE T == {m \in Nat : m <= n => \E g : IsRecursion(K, b, m, V, g)}
<1>1. 0 \in T
  <2> PICK g : g = [i \in 0..0 |-> b]
    OBVIOUS
  <2>1. IsRecursion(K, b, 0, V, g)
    BY DEF IsRecursion
  <2> QED
    BY <2>1
<1>2. ASSUME NEW m \in Nat, m \in T PROVE m + 1 \in T
  <2>1. SUFFICES ASSUME m + 1 <= n PROVE \E h : IsRecursion(K, b, m + 1, V, h)
    OBVIOUS
  <2>2. PICK g : IsRecursion(K, b, m, V, g)
    BY <1>2, <2>1
  <2>3. g \in [0..m -> V] /\ g[0] = b /\ \A i \in 1..m : g[i] = K[i][g[i - 1]]
    BY <2>2 DEF IsRecursion
  <2>4. g[m] \in V /\ m + 1 \in 1..n
    BY <2>1, <2>3
  <2>5. K[m + 1][g[m]] \in V
    BY <2>4
  <2> PICK h : h = [i \in 0..(m + 1) |-> IF i = m + 1 THEN K[m + 1][g[m]] ELSE g[i]]
    OBVIOUS
  <2>6. h \in [0..(m + 1) -> V] /\ h[0] = b
    BY <2>3, <2>5
  <2>7. ASSUME NEW i \in 1..(m + 1) PROVE h[i] = K[i][h[i - 1]]
    <3>1. CASE i = m + 1
      BY <3>1
    <3>2. CASE i # m + 1
      <4>1. i \in 1..m /\ i - 1 \in 0..m /\ i - 1 # m + 1
        BY <3>2
      <4>2. h[i] = g[i] /\ h[i - 1] = g[i - 1]
        BY <4>1
      <4> QED
        BY <2>3, <4>1, <4>2
    <3> QED
      BY <3>1, <3>2
  <2> QED
    BY <2>6, <2>7 DEF IsRecursion
<1> HIDE DEF T
<1>3. \A m \in Nat : m \in T
  BY <1>1, <1>2, Induct
<1> QED
  BY <1>3 DEF T

(* Two recursions that do the same up to n are the same up to n.           *)
LEMMA RecursionsAgree ==
  ASSUME NEW n \in Nat, NEW m \in Nat, n <= m, NEW V, NEW b, NEW K, NEW L, NEW g, NEW h,
         IsRecursion(K, b, n, V, g), IsRecursion(L, b, m, V, h),
         \A i \in 1..n : \A v \in V : K[i][v] = L[i][v]
  PROVE  \A i \in 0..n : g[i] = h[i]
<1> DEFINE T == {i \in Nat : i <= n => g[i] = h[i]}
<1>0. /\ g \in [0..n -> V] /\ g[0] = b /\ \A i \in 1..n : g[i] = K[i][g[i - 1]]
      /\ h[0] = b /\ \A i \in 1..m : h[i] = L[i][h[i - 1]]
  BY DEF IsRecursion
<1>1. 0 \in T
  BY <1>0
<1>2. ASSUME NEW i \in Nat, i \in T PROVE i + 1 \in T
  <2>1. SUFFICES ASSUME i + 1 <= n PROVE g[i + 1] = h[i + 1]
    OBVIOUS
  <2>2. i + 1 \in 1..n /\ i + 1 \in 1..m /\ i \in 0..n /\ (i + 1) - 1 = i /\ g[i] = h[i]
    BY <1>2, <2>1
  <2>3. g[i] \in V
    BY <1>0, <2>2
  <2>4. g[i + 1] = K[i + 1][g[i]]
    BY <1>0, <2>2
  <2>5. h[i + 1] = L[i + 1][h[i]]
    BY <1>0, <2>2
  <2>6. K[i + 1][g[i]] = L[i + 1][g[i]]
    BY <2>2, <2>3
  <2> QED
    BY <2>2, <2>4, <2>5, <2>6
<1> HIDE DEF T
<1>3. \A i \in Nat : i \in T
  BY <1>1, <1>2, Induct
<1> QED
  BY <1>3 DEF T

---------------------------------------------------------------------------
(* Laws of concatenation, named so that a proof can cite them one by one.  *)
LongerJoin(s, t, x) == Append(s \o t, x) = s \o Append(t, x)
SameJoin(s, t, u) == (s \o t) \o u = s \o (t \o u)
EmptyJoin(s) == s \o <<>> = s /\ <<>> \o s = s
LEMMA JoinMore ==
  ASSUME NEW S, NEW s \in Seq(S), NEW t \in Seq(S), NEW x \in S
  PROVE  LongerJoin(s, t, x)
BY DEF LongerJoin

LEMMA JoinThree ==
  ASSUME NEW S, NEW s \in Seq(S), NEW t \in Seq(S), NEW u \in Seq(S)
  PROVE  SameJoin(s, t, u)
BY DEF SameJoin

LEMMA JoinNone ==
  ASSUME NEW S, NEW s \in Seq(S)
  PROVE  EmptyJoin(s)
BY DEF EmptyJoin

(* The elements of a sequence that are in X, in order; and F of each.      *)

Among(s, X) == Only(s, {i \in DOMAIN s : s[i] \in X})
Each(F, s) == [i \in DOMAIN s |-> F[s[i]]]

LEMMA AmongIs ==
  ASSUME NEW S, NEW s \in Seq(S), NEW X
  PROVE  /\ Among(s, X) \in Seq(S)
         /\ Len(Among(s, X)) = Cardinality({i \in DOMAIN s : s[i] \in X})
         /\ \A k \in DOMAIN Among(s, X) :
              /\ Among(s, X)[k] = s[Place({i \in DOMAIN s : s[i] \in X}, k)]
              /\ Among(s, X)[k] \in X
<1>0. PICK I : I = {i \in DOMAIN s : s[i] \in X}
  OBVIOUS
<1>1. I \in SUBSET DOMAIN s /\ Among(s, X) = Only(s, I)
  BY <1>0 DEF Among
<1>2. /\ IsFiniteSet(I) /\ I \in SUBSET Nat /\ Cardinality(I) \in Nat
      /\ Only(s, I) = [k \in 1..Cardinality(I) |-> s[Place(I, k)]]
      /\ Only(s, I) \in Seq(S) /\ Len(Only(s, I)) = Cardinality(I)
  BY <1>1, OnlyIs
<1>3. \A k \in 1..Cardinality(I) : Place(I, k) \in I
  BY <1>2, PlaceIsKth
<1> QED
  BY <1>0, <1>1, <1>2, <1>3

LEMMA AmongMore ==
  ASSUME NEW S, NEW X
  PROVE  /\ Among(<<>>, X) = <<>>
         /\ \A s \in Seq(S), x \in S :
              Among(Append(s, x), X) = IF x \in X THEN Append(Among(s, X), x) ELSE Among(s, X)
<1>1. Among(<<>>, X) = <<>>
  <2>1. {i \in DOMAIN <<>> : <<>>[i] \in X} = {}
    OBVIOUS
  <2> QED
    BY <2>1, OnlyNone DEF Among
<1>2. ASSUME NEW s \in Seq(S), NEW x \in S
      PROVE  Among(Append(s, x), X) = IF x \in X THEN Append(Among(s, X), x) ELSE Among(s, X)
  <2>0. PICK I : I = {i \in DOMAIN s : s[i] \in X}
    OBVIOUS
  <2>t. PICK t : t = Append(s, x)
    OBVIOUS
  <2>1. /\ DOMAIN t = DOMAIN s \cup {Len(s) + 1} /\ t[Len(s) + 1] = x
        /\ Len(s) + 1 \notin DOMAIN s /\ \A i \in DOMAIN s : t[i] = s[i]
    BY <2>t
  <2>2. {i \in DOMAIN t : t[i] \in X} = IF x \in X THEN I \cup {Len(s) + 1} ELSE I
    BY <2>0, <2>1
  <2>3. I \in SUBSET DOMAIN s
    BY <2>0
  <2>4. /\ Only(Append(s, x), I) = Only(s, I)
        /\ Only(Append(s, x), I \cup {Len(s) + 1}) = Append(Only(s, I), x)
    BY <2>3, OnlyOfMore
  <2> QED
    BY <2>0, <2>2, <2>4, <2>t DEF Among
<1> QED
  BY <1>1, <1>2

(* What the empty sequence has, and a longer one if what it is built of    *)
(* has it, every sequence has.                                             *)
LEMMA EverySequence ==
  ASSUME NEW S, NEW T, <<>> \in T, \A s \in Seq(S), x \in S : s \in T => Append(s, x) \in T
  PROVE  \A s \in Seq(S) : s \in T
<1> DEFINE N == {n \in Nat : \A s \in Seq(S) : Len(s) = n => s \in T}
<1>1. 0 \in N
  <2>1. \A s \in Seq(S) : Len(s) = 0 => s = <<>>
    OBVIOUS
  <2> QED
    BY <2>1
<1>2. ASSUME NEW n \in Nat, n \in N PROVE n + 1 \in N
  <2>1. ASSUME NEW s \in Seq(S), Len(s) = n + 1 PROVE s \in T
    <3> PICK r : r = SubSeq(s, 1, n)
      OBVIOUS
    <3>1. r \in Seq(S) /\ Len(r) = n /\ \A i \in 1..n : r[i] = s[i]
      BY <2>1
    <3>2. s[n + 1] \in S
      BY <2>1
    <3>3. s = Append(r, s[n + 1])
      BY <2>1, <3>1, <3>2
    <3>4. r \in T
      BY <1>2, <3>1
    <3> QED
      BY <3>1, <3>2, <3>3, <3>4
  <2> QED
    BY <2>1
<1> HIDE DEF N
<1>3. \A n \in Nat : n \in N
  BY <1>1, <1>2, Induct
<1> QED
  BY <1>3 DEF N

LEMMA AmongBoth ==
  ASSUME NEW S, NEW X, NEW s \in Seq(S)
  PROVE  \A t \in Seq(S) : Among(s \o t, X) = Among(s, X) \o Among(t, X)
<1> DEFINE T == {r \in Seq(S) : Among(s \o r, X) = Among(s, X) \o Among(r, X)}
<1>a. \A r \in Seq(S) : Among(r, X) \in Seq(S)
  BY AmongIs
<1>c. \A r \in Seq(S) : s \o r \in Seq(S)
  OBVIOUS
<1>0. \A r \in Seq(S) : Among(r, X) \in Seq(S) /\ s \o r \in Seq(S)
  BY <1>a, <1>c
<1>m. /\ Among(<<>>, X) = <<>>
      /\ \A r \in Seq(S), x \in S :
              Among(Append(r, x), X) = IF x \in X THEN Append(Among(r, X), x) ELSE Among(r, X)
  BY AmongMore
<1>1. <<>> \in T
  <2>1. Among(<<>>, X) = <<>> /\ s \o <<>> = s
    BY <1>m
  <2>2. Among(s, X) \o <<>> = Among(s, X)
    BY <1>0
  <2> QED
    BY <2>1, <2>2, <1>0
<1>2. ASSUME NEW r \in Seq(S), NEW x \in S, r \in T PROVE Append(r, x) \in T
  <2>1. s \o Append(r, x) = Append(s \o r, x)
    OBVIOUS
  <2>2. Among(Append(s \o r, x), X) = IF x \in X THEN Append(Among(s \o r, X), x) ELSE Among(s \o r, X)
    BY <1>0, <1>m
  <2>3. Among(Append(r, x), X) = IF x \in X THEN Append(Among(r, X), x) ELSE Among(r, X)
    BY <1>m
  <2>4. Among(s \o r, X) = Among(s, X) \o Among(r, X)
    BY <1>2
  <2>5. Append(Among(s, X) \o Among(r, X), x) = Among(s, X) \o Append(Among(r, X), x)
    <3>1. Among(s, X) \in Seq(S) /\ Among(r, X) \in Seq(S)
      BY <1>0
    <3>2. LongerJoin(Among(s, X), Among(r, X), x)
      BY <3>1, JoinMore
    <3> QED
      BY <3>2 DEF LongerJoin
  <2>6. Append(r, x) \in Seq(S)
    OBVIOUS
  <2> QED
    BY <2>1, <2>2, <2>3, <2>4, <2>5, <2>6
<1> HIDE DEF T
<1>3. \A r \in Seq(S) : r \in T
  BY <1>1, <1>2, EverySequence
<1> QED
  BY <1>3 DEF T

(* All of a sequence is in X, or none.                                     *)
LEMMA AmongAllOrNone ==
  ASSUME NEW S, NEW s \in Seq(S), NEW X
  PROVE  /\ (\A i \in DOMAIN s : s[i] \in X) => Among(s, X) = s
         /\ (\A i \in DOMAIN s : s[i] \notin X) => Among(s, X) = <<>>
<1>1. ASSUME \A i \in DOMAIN s : s[i] \in X PROVE Among(s, X) = s
  <2>1. {i \in DOMAIN s : s[i] \in X} = DOMAIN s
    BY <1>1
  <2> QED
    BY <2>1, OnlyAll DEF Among
<1>2. ASSUME \A i \in DOMAIN s : s[i] \notin X PROVE Among(s, X) = <<>>
  <2>1. {i \in DOMAIN s : s[i] \in X} = {}
    BY <1>2
  <2> QED
    BY <2>1, OnlyNone DEF Among
<1> QED
  BY <1>1, <1>2

LEMMA EachMore ==
  ASSUME NEW S, NEW F, NEW s \in Seq(S), NEW x \in S
  PROVE  /\ Each(F, <<>>) = <<>>
         /\ Each(F, Append(s, x)) = Append(Each(F, s), F[x])
<1> PICK t : t = Append(s, x)
  OBVIOUS
<1>1. /\ t \in Seq(S) /\ DOMAIN t = 1..(Len(s) + 1) /\ t[Len(s) + 1] = x
      /\ \A i \in 1..Len(s) : t[i] = s[i]
  OBVIOUS
<1> PICK m : m = Each(F, s)
  OBVIOUS
<1>2. m = [i \in 1..Len(s) |-> F[s[i]]]
  BY DEF Each
<1> PICK W : W = {F[s[i]] : i \in 1..Len(s)} \cup {F[x]}
  OBVIOUS
<1>3. m \in Seq(W) /\ F[x] \in W /\ Len(m) = Len(s)
  BY <1>2
<1>4. Append(m, F[x]) = [i \in 1..(Len(s) + 1) |-> IF i = Len(s) + 1 THEN F[x] ELSE m[i]]
  BY <1>3
<1>5. \A i \in 1..(Len(s) + 1) : F[t[i]] = IF i = Len(s) + 1 THEN F[x] ELSE m[i]
  BY <1>1, <1>2
<1>6. Each(F, t) = [i \in 1..(Len(s) + 1) |-> F[t[i]]]
  BY <1>1 DEF Each
<1>7. Each(F, <<>>) = <<>>
  BY DEF Each
<1> QED
  BY <1>4, <1>5, <1>6, <1>7

LEMMA EachIs ==
  ASSUME NEW S, NEW T, NEW F, \A x \in S : F[x] \in T, NEW s \in Seq(S)
  PROVE  Each(F, s) \in Seq(T) /\ Len(Each(F, s)) = Len(s) /\ DOMAIN Each(F, s) = DOMAIN s
<1>1. Each(F, s) = [i \in 1..Len(s) |-> F[s[i]]]
  BY DEF Each
<1> PICK m : m = [i \in 1..Len(s) |-> F[s[i]]]
  OBVIOUS
<1>2. m \in Seq(T) /\ Len(m) = Len(s)
  OBVIOUS
<1> QED
  BY <1>1, <1>2

---------------------------------------------------------------------------
(* FlattenSeq joins one sequence after the other.                          *)

Joins(S, ss, g) ==
  g \in [0..Len(ss) -> Seq(S)] /\ g[0] = <<>> /\ \A i \in 1..Len(ss) : g[i] = g[i - 1] \o ss[i]

LEMMA JoinsExists ==
  ASSUME NEW S, NEW ss \in Seq(Seq(S))
  PROVE  \E g : Joins(S, ss, g)
<1>0. PICK n : n = Len(ss)
  OBVIOUS
<1>k. PICK K : K = [i \in 1..n |-> [v \in Seq(S) |-> v \o ss[i]]]
  OBVIOUS
<1>1. n \in Nat /\ <<>> \in Seq(S)
  BY <1>0
<1>2. \A i \in 1..n : \A v \in Seq(S) : K[i][v] = v \o ss[i] /\ v \o ss[i] \in Seq(S)
  <2>1. ASSUME NEW i \in 1..n, NEW v \in Seq(S) PROVE v \o ss[i] \in Seq(S)
    <3>1. ss[i] \in Seq(S)
      BY <1>0
    <3> QED
      BY <3>1
  <2> QED
    BY <1>k, <2>1
<1>3. \A i \in 1..n : \A v \in Seq(S) : K[i][v] \in Seq(S)
  BY <1>2
<1>4. PICK g : IsRecursion(K, <<>>, n, Seq(S), g)
  BY <1>1, <1>3, RecursionExists
<1>5. /\ g \in [0..n -> Seq(S)] /\ g[0] = <<>>
      /\ \A i \in 1..n : g[i] = K[i][g[i - 1]]
  BY <1>4 DEF IsRecursion
<1>6. \A i \in 1..n : g[i - 1] \in Seq(S)
  BY <1>1, <1>5
<1>7. \A i \in 1..n : g[i] = g[i - 1] \o ss[i]
  BY <1>2, <1>5, <1>6
<1> QED
  BY <1>0, <1>5, <1>7 DEF Joins

LEMMA FlattenIs ==
  ASSUME NEW S, NEW ss \in Seq(Seq(S)), NEW g, Joins(S, ss, g)
  PROVE  FlattenSeq(ss) = g[Len(ss)] /\ FlattenSeq(ss) \in Seq(S)
<1>0. PICK n : n = Len(ss)
  OBVIOUS
<1>a. n \in Nat /\ \A i \in 1..n : ss[i] \in Seq(S)
  BY <1>0
<1>b. /\ g \in [0..n -> Seq(S)] /\ g[0] = <<>>
      /\ \A i \in 1..n : g[i] = g[i - 1] \o ss[i]
  BY <1>0 DEF Joins
<1>1. /\ n \in Nat /\ g \in [0..n -> Seq(S)] /\ g[0] = <<>>
      /\ \A i \in 1..n : g[i] = g[i - 1] \o ss[i] /\ ss[i] \in Seq(S)
  BY <1>a, <1>b
<1>2. CASE n = 0
  <2>0. Len(ss) = 0
    BY <1>0, <1>2
  <2>a. ss = <<>>
    BY <2>0
  <2>1. FlattenSeq(ss) = ss /\ ss = <<>>
    BY <2>0, <2>a DEF FlattenSeq
  <2> QED
    BY <1>0, <1>1, <1>2, <2>1
<1>3. CASE n # 0
  <2> DEFINE It(h) == h = [i \in 1..n |-> IF i = 1 THEN ss[i] ELSE h[i - 1] \o ss[i]]
  <2>1. FlattenSeq(ss) = (CHOOSE h : It(h))[n]
    BY <1>0, <1>3 DEF FlattenSeq
  <2>2. PICK f : f = [i \in 1..n |-> g[i]]
    OBVIOUS
  <2>3. g[1] = ss[1]
    <3>0. 1 \in 1..n /\ 1 - 1 = 0
      BY <1>1, <1>3
    <3>1. g[1] = <<>> \o ss[1] /\ ss[1] \in Seq(S)
      BY <1>1, <3>0
    <3>2. <<>> \o ss[1] = ss[1]
      BY <3>1, JoinNone DEF EmptyJoin
    <3> QED
      BY <3>1, <3>2
  <2>4. \A i \in 1..n : g[i] = IF i = 1 THEN ss[i] ELSE f[i - 1] \o ss[i]
    <3>1. ASSUME NEW i \in 1..n, i # 1 PROVE g[i] = f[i - 1] \o ss[i]
      <4>1. i - 1 \in 1..n
        BY <1>1, <3>1
      <4> QED
        BY <1>1, <2>2, <4>1
    <3> QED
      BY <2>3, <3>1
  <2>5. It(f)
    BY <2>2, <2>4
  <2>6. PICK h : h = (CHOOSE e : It(e)) /\ It(h)
    BY <2>5
  <2>7. /\ DOMAIN h = 1..n
        /\ \A i \in 1..n : h[i] = IF i = 1 THEN ss[i] ELSE h[i - 1] \o ss[i]
    BY <2>6
  <2> HIDE DEF It
  <2> DEFINE T == {i \in Nat : i + 1 <= n => h[i + 1] = g[i + 1]}
  <2>8. 0 \in T
    <3>1. 1 \in 1..n /\ 0 + 1 = 1
      BY <1>1, <1>3
    <3>2. h[1] = g[1]
      BY <2>3, <2>7, <3>1
    <3> QED
      BY <3>1, <3>2
  <2>9. ASSUME NEW i \in Nat, i \in T PROVE i + 1 \in T
    <3>1. SUFFICES ASSUME (i + 1) + 1 <= n PROVE h[(i + 1) + 1] = g[(i + 1) + 1]
      OBVIOUS
    <3>2. PICK j : j = (i + 1) + 1
      OBVIOUS
    <3>3. j \in 1..n /\ j # 1 /\ j - 1 = i + 1
      BY <1>1, <3>1, <3>2
    <3>4. h[i + 1] = g[i + 1]
      BY <1>1, <2>9, <3>1
    <3>5. h[j] = h[j - 1] \o ss[j] /\ g[j] = g[j - 1] \o ss[j]
      BY <1>1, <2>7, <3>3
    <3> QED
      BY <3>2, <3>3, <3>4, <3>5
  <2> HIDE DEF T
  <2>10. \A i \in Nat : i \in T
    BY <2>8, <2>9, Induct
  <2>11. n - 1 \in Nat /\ (n - 1) + 1 = n
    BY <1>1, <1>3
  <2>12. n - 1 \in T
    BY <2>10, <2>11
  <2>13. h[n] = g[n]
    BY <1>1, <2>11, <2>12 DEF T
  <2>14. g[n] \in Seq(S)
    BY <1>1
  <2> QED
    BY <1>0, <2>1, <2>6, <2>13, <2>14
<1> QED
  BY <1>2, <1>3

LongerFlat(ss, t) == FlattenSeq(Append(ss, t)) = FlattenSeq(ss) \o t

LEMMA FlattenMore ==
  ASSUME NEW S, NEW ss \in Seq(Seq(S)), NEW t \in Seq(S)
  PROVE  LongerFlat(ss, t) /\ FlattenSeq(ss) \in Seq(S)
<1>0. PICK n : n = Len(ss)
  OBVIOUS
<1>1. PICK tt : tt = Append(ss, t)
  OBVIOUS
<1>2. /\ n \in Nat /\ tt \in Seq(Seq(S)) /\ Len(tt) = n + 1 /\ tt[n + 1] = t
      /\ \A i \in 1..n : tt[i] = ss[i]
  BY <1>0, <1>1
<1>3. PICK g : Joins(S, tt, g)
  BY <1>2, JoinsExists
<1>4. PICK f : f = [i \in 0..n |-> g[i]]
  OBVIOUS
<1>5. /\ g \in [0..(n + 1) -> Seq(S)] /\ g[0] = <<>>
      /\ \A i \in 1..(n + 1) : g[i] = g[i - 1] \o tt[i]
  BY <1>2, <1>3 DEF Joins
<1>6. Joins(S, ss, f)
  <2>1. f \in [0..n -> Seq(S)] /\ f[0] = <<>>
    BY <1>2, <1>4, <1>5
  <2>2. ASSUME NEW i \in 1..n PROVE f[i] = f[i - 1] \o ss[i]
    <3>1. i \in 1..(n + 1) /\ i \in 0..n /\ i - 1 \in 0..n
      BY <1>2
    <3> QED
      BY <1>2, <1>4, <1>5, <3>1
  <2> QED
    BY <1>0, <2>1, <2>2 DEF Joins
<1>7. FlattenSeq(ss) = f[n] /\ FlattenSeq(ss) \in Seq(S)
  BY <1>0, <1>6, FlattenIs
<1>8. FlattenSeq(tt) = g[n + 1]
  <2>1. FlattenSeq(tt) = g[Len(tt)]
    BY <1>2, <1>3, FlattenIs
  <2> QED
    BY <1>2, <2>1
<1>9. g[n + 1] = f[n] \o t
  <2>1. n + 1 \in 1..(n + 1) /\ (n + 1) - 1 = n /\ n \in 0..n
    BY <1>2
  <2> QED
    BY <1>2, <1>4, <1>5, <2>1
<1> QED
  BY <1>1, <1>7, <1>8, <1>9 DEF LongerFlat

LEMMA FlattenNone == FlattenSeq(<<>>) = <<>>
BY DEF FlattenSeq

(* Nothing but empty sequences join to nothing.                            *)
LEMMA FlattenEmpty ==
  ASSUME NEW S
  PROVE  \A ss \in Seq(Seq(S)) : (\A i \in DOMAIN ss : ss[i] = <<>>) => FlattenSeq(ss) = <<>>
<1> DEFINE T == {ss \in Seq(Seq(S)) : (\A i \in DOMAIN ss : ss[i] = <<>>) => FlattenSeq(ss) = <<>>}
<1>1. <<>> \in T
  BY FlattenNone
<1>2. ASSUME NEW ss \in Seq(Seq(S)), NEW t \in Seq(S), ss \in T PROVE Append(ss, t) \in T
  <2>1. PICK tt : tt = Append(ss, t)
    OBVIOUS
  <2>2. /\ tt \in Seq(Seq(S)) /\ DOMAIN tt = 1..(Len(ss) + 1) /\ tt[Len(ss) + 1] = t
        /\ \A i \in DOMAIN ss : i \in DOMAIN tt /\ tt[i] = ss[i]
        /\ Len(ss) + 1 \in DOMAIN tt
    BY <2>1
  <2>3. ASSUME \A i \in DOMAIN tt : tt[i] = <<>> PROVE FlattenSeq(tt) = <<>>
    <3>1. FlattenSeq(ss) = <<>> /\ t = <<>>
      BY <1>2, <2>2, <2>3
    <3>2. LongerFlat(ss, t)
      BY FlattenMore
    <3>3. <<>> \o <<>> = <<>>
      OBVIOUS
    <3> QED
      BY <2>1, <3>1, <3>2, <3>3 DEF LongerFlat
  <2> QED
    BY <2>1, <2>2, <2>3
<1> HIDE DEF T
<1>3. \A ss \in Seq(Seq(S)) : ss \in T
  BY <1>1, <1>2, EverySequence
<1> QED
  BY <1>3 DEF T

-----------------------------------------------------------------------------
(* Conversations: what the variables hold, and what a step does to them.   *)
(* A step of either side is one of a few moves, whatever the adapter.      *)

---------------------------------------------------------------------------
(* What the variables hold.                                                *)

Fragments == {"x", "}", "note"}
Text == Seq(Fragments)
ToolNames == Registered \cup Offered \cup {""}
AnswerBlock == [kind : {"text", "tool_use", "thinking"}, of : Nat, name : ToolNames, text : Text]
Counts == [input : Nat, write : Nat, read : Nat]
Bill == [prompt : Nat, completion : Nat, cached : Nat, cache_write : Nat]
ToolCall == [id : Nat, name : ToolNames, arguments : Text]
Tooling == UNION {[D -> ToolCall] : D \in {I \in SUBSET Nat : IsFiniteSet(I)}}
Assembled == [text : Text, reasoning : Text, tools : Tooling,
              finish : {"", "stop", "length", "tool_calls"}, usage : {<<>>} \cup Bill]
Extras == {<<>>} \cup [reasoning_content : Text] \cup [reasoning : Text]
Msg == [role : {"system", "developer", "user", "assistant", "tool"}, text : Text,
        calls : Seq(ToolCall), of : Nat, extras : Extras]

StreamTypeOK ==
  /\ phase \in {"client", "waiting", "streaming", "stopped", "failed"}
  /\ answer \in [blocks : Seq(AnswerBlock), usage : Counts]
  /\ start_usage \in Counts
  /\ tool_block_indices \in Seq(Nat) /\ next_tool_index \in Nat
  /\ collected \in Assembled
  /\ deltas \in BOOLEAN /\ emitted_text \in BOOLEAN

TalkTypeOK ==
  /\ history \in Seq(Msg) /\ told \in Seq(Seq(AnswerBlock)) /\ thought \in Seq(Text)
  /\ sends \in Nat /\ sent \in Nat /\ route \in Routes

(* The steps of the model, one by one.                                     *)
Extra == UNCHANGED <<route, sent, cache_key, thought, failure>>
SaySomething ==
  \E m \in Msg : /\ m.role # "assistant" /\ m.calls = <<>> /\ m.extras = <<>>
                 /\ m.role = "developer" => route.adapter = "openai"
                 /\ \/ m.role = "tool" /\ Open # <<>> /\ m.of = Head(Open).id
                    \/ m.role = "user" /\ Open = <<>> /\ LastRole # "user"
                    \/ m.role \in {"system", "developer"} /\ m.text = <<"note">>
                 /\ Says(m) /\ UNCHANGED own
FailsNow == Fails /\ deltas' = TRUE /\ emitted_text' = FALSE /\ Extra
StartsStream ==
  \E usage \in Usages :
    \/ /\ route.adapter \in {"claude_code", "anthropic"}
       /\ message_start(usage) /\ UNCHANGED <<deltas, emitted_text>> /\ Extra
    \/ /\ route.adapter \in {"codex", "openai"}
       /\ \E streams \in BOOLEAN : (route.adapter = "openai" => streams) /\ Created(usage, streams)
       /\ Extra
StartsBlock ==
  \E kind \in {"thinking", "text"} :
    /\ kind = "thinking" => route.adapter \in {"claude_code", "openai"}
    /\ content_block_start(kind) /\ UNCHANGED <<deltas, emitted_text>> /\ Extra
StartsTool ==
  /\ route.adapter \in {"claude_code", "anthropic"}
  /\ \E name \in ToolNames : /\ name \in IF route.adapter = "claude_code" THEN Offered ELSE Registered
                             /\ tool_use_start(name)
  /\ UNCHANGED <<deltas, emitted_text>> /\ Extra
TellsPart ==
  /\ route.adapter # "codex"
  /\ \E part \in {"x", "}"} : Delta(part)
  /\ UNCHANGED <<deltas, emitted_text>> /\ Extra
CodexTellsPart == route.adapter = "codex" /\ OutputTextDelta /\ Extra
StopsStream ==
  /\ \E stop \in {"end_turn", "max_tokens", "tool_use"}, usage \in Counts :
       /\ route.adapter = "claude_code" =>
            \E u \in {NoUsage, answer.usage} : usage = Merged(start_usage, u)
       /\ route.adapter = "anthropic" =>
            \E u \in {NoUsage, answer.usage} : usage = MergedInput(start_usage, u)
       /\ Stops(stop, usage)
  /\ route.adapter # "codex"
  /\ UNCHANGED <<deltas, emitted_text>> /\ Extra
CodexStops == route.adapter = "codex" /\ Completed /\ Extra
RefusesNow ==
  \E cause \in Causes, how \in {"status", "number", "string", "event", "flat", "worded"} : Refuses(cause, how)

Moves ==
  \/ SaySomething \/ Ask \/ Finishes \/ Gives \/ FailsNow \/ RefusesNow
  \/ StartsStream \/ StartsBlock \/ StartsTool \/ TellsPart \/ CodexTellsPart
  \/ StopsStream \/ CodexStops

LEMMA Values ==
  /\ NoUsage \in Counts /\ NoAnswer \in [blocks : Seq(AnswerBlock), usage : Counts]
  /\ Nothing \in Assembled /\ NewCall \in ToolCall
  /\ <<>> \in Text /\ <<"x">> \in Text /\ <<"note">> \in Text /\ {"x", "}"} \subseteq Fragments
  /\ Usages \subseteq Counts
<1>1. NoUsage \in Counts /\ Usages \subseteq Counts
  BY ConversationAssumption DEF NoUsage, Counts
<1>2. NoAnswer \in [blocks : Seq(AnswerBlock), usage : Counts]
  BY <1>1 DEF NoAnswer
<1>3. <<>> \in Text /\ <<"x">> \in Text /\ <<"note">> \in Text /\ {"x", "}"} \subseteq Fragments
  <2>1. ASSUME NEW s \in Fragments PROVE <<s>> \in Seq(Fragments)
    OBVIOUS
  <2>2. {"x", "}", "note"} \subseteq Fragments
    BY DEF Fragments
  <2>3. <<>> \in Seq(Fragments)
    OBVIOUS
  <2> QED
    BY <2>1, <2>2, <2>3 DEF Text
<1>4. NewCall \in ToolCall
  BY <1>3 DEF NewCall, ToolCall, ToolNames
<1>5. Nothing \in Assembled
  <2>1. <<>> \in [{} -> ToolCall]
    OBVIOUS
  <2>2. <<>> \in Tooling
    <3>1. {} \in {I \in SUBSET Nat : IsFiniteSet(I)}
      BY FS_EmptySet
    <3> QED
      BY <2>1, <3>1 DEF Tooling
  <2>3. <<>> \in {<<>>} \cup Bill /\ "" \in {"", "stop", "length", "tool_calls"}
    OBVIOUS
  <2>4. PICK e : e = <<>>
    OBVIOUS
  <2>5. /\ e \in Text /\ e \in Tooling
        /\ e \in {<<>>} \cup Bill
    BY <1>3, <2>2, <2>3, <2>4
  <2>6. Nothing = [text |-> e, reasoning |-> e, tools |-> e, finish |-> "", usage |-> e]
    BY <2>4 DEF Nothing
  <2> QED
    BY <2>3, <2>5, <2>6 DEF Assembled
<1> QED
  BY <1>1, <1>2, <1>3, <1>4, <1>5

LEMMA Names ==
  /\ Registered \subseteq ToolNames /\ Offered \subseteq ToolNames /\ "" \in ToolNames
  /\ \A n \in Registered : \E i \in 1..Len(Tools) : Tools[i] = n
  /\ \A i \in 1..Len(Tools) : Tools[i] \in Registered
  /\ Len(Tools) \in Nat
<1>1. Tools \in Seq(STRING)
  BY ConversationAssumption
<1>2. Registered = {Tools[i] : i \in 1..Len(Tools)}
  BY <1>1 DEF Registered, ToSet
<1>3. Len(Tools) \in Nat
  BY <1>1
<1>4. Registered \subseteq ToolNames /\ Offered \subseteq ToolNames /\ "" \in ToolNames
  BY DEF ToolNames
<1> QED
  BY <1>2, <1>3, <1>4

(* A name is restored to one of a tool that differs in casing only, if     *)
(* there is one; of the registered names, and what is offered for them, to *)
(* the registered name.                                                    *)
LEMMA Restored ==
  /\ \A n : restore_tool_name(n) \in Registered \cup {n}
  /\ \A n \in Registered : restore_tool_name(n) = n /\ restore_tool_name(to_cc_name(n)) = n
  /\ \A n \in Offered \cup Registered : restore_tool_name(n) \in Registered
  /\ \A n \in Offered : to_cc_name(restore_tool_name(n)) = n
<1> DEFINE I(n) == {i \in 1..Len(Tools) : Folded[Tools[i]] = Folded[n]}
<1>0. Len(Tools) \in Nat
  BY Names
<1>1. ASSUME NEW n
      PROVE  /\ I(n) = {} => restore_tool_name(n) = n
             /\ I(n) # {} => \E i \in I(n) : restore_tool_name(n) = Tools[i]
  <2>1. CASE I(n) = {}
    <3>1. SelectInSeq(Tools, LAMBDA t : Folded[t] = Folded[n]) = 0
      BY <2>1 DEF SelectInSeq
    <3> QED
      BY <2>1, <3>1 DEF restore_tool_name
  <2>2. CASE I(n) # {}
    <3> HIDE DEF I
    <3>1. I(n) \subseteq Nat
      BY <1>0 DEF I
    <3>2. \E i \in I(n) : \A j \in I(n) : i <= j
      BY <2>2, <3>1, LeastNatural
    <3>3. Min(I(n)) \in I(n)
      BY <3>2 DEF Min
    <3>4. SelectInSeq(Tools, LAMBDA t : Folded[t] = Folded[n]) = Min(I(n))
      BY <2>2 DEF SelectInSeq, I
    <3>5. Min(I(n)) # 0
      BY <1>0, <3>3 DEF I
    <3>6. restore_tool_name(n) = Tools[Min(I(n))]
      BY <3>4, <3>5 DEF restore_tool_name
    <3> QED
      BY <3>3, <3>6
  <2> QED
    BY <2>1, <2>2
<1>2. ASSUME NEW n PROVE restore_tool_name(n) \in Registered \cup {n}
  BY <1>1, Names
<1>3. ASSUME NEW m \in Registered, NEW n, Folded[n] = Folded[m] PROVE restore_tool_name(n) = m
  <2>1. I(n) # {}
    BY <1>3, Names
  <2>2. PICK i \in I(n) : restore_tool_name(n) = Tools[i]
    BY <1>1, <2>1
  <2>3. Tools[i] \in Registered /\ Folded[Tools[i]] = Folded[m]
    BY <1>3, Names
  <2> QED
    BY <2>2, <2>3, ConversationAssumption
<1>4. ASSUME NEW n \in Registered
      PROVE  restore_tool_name(n) = n /\ restore_tool_name(to_cc_name(n)) = n
  BY <1>3, ConversationAssumption DEF to_cc_name
<1>5. ASSUME NEW n \in Offered \cup Registered PROVE restore_tool_name(n) \in Registered
  BY <1>4 DEF Offered
<1>6. ASSUME NEW n \in Offered PROVE to_cc_name(restore_tool_name(n)) = n
  BY <1>4 DEF Offered
<1> QED
  BY <1>2, <1>4, <1>5, <1>6

(* What the client may still answer.                                       *)
LastTurnIn(h) == SelectLastInSeq(h, LAMBDA m : m.role = "assistant")
GivenIn(h) == {i \in DOMAIN h : i > LastTurnIn(h) /\ h[i].role = "tool"}
OpenIn(h) ==
  IF LastTurnIn(h) = 0 THEN <<>>
  ELSE SubSeq(h[LastTurnIn(h)].calls, Cardinality(GivenIn(h)) + 1, Len(h[LastTurnIn(h)].calls))
LEMMA OpenInIs ==
  ASSUME NEW h \in Seq(Msg)
  PROVE  /\ LastTurnIn(h) \in 0..Len(h)
         /\ LastTurnIn(h) # 0 => h[LastTurnIn(h)].role = "assistant"
         /\ \A i \in 1..Len(h) : h[i].role = "assistant" => i <= LastTurnIn(h)
         /\ OpenIn(h) \in Seq(ToolCall)
<1>1. h \in Seq(Msg) /\ Len(h) \in Nat
  OBVIOUS
<1>2. PICK I : I = {i \in 1..Len(h) : h[i].role = "assistant"}
  OBVIOUS
<1>3. I \subseteq Nat /\ IsFiniteSet(I) /\ I \subseteq 1..Len(h)
  <2>1. IsFiniteSet(1..Len(h))
    BY <1>1, FS_Interval
  <2>2. I \in SUBSET (1..Len(h))
    BY <1>2
  <2>3. IsFiniteSet(I)
    BY <2>1, <2>2, FS_Subset
  <2> QED
    BY <1>1, <2>2, <2>3
<1>4. LastTurnIn(h) = IF I # {} THEN Max(I) ELSE 0
  BY <1>2 DEF LastTurnIn, SelectLastInSeq
<1>5. I # {} => \E x \in I : \A y \in I : y <= x
  <2>1. SUFFICES ASSUME I # {} PROVE \E x \in I : \A y \in I : y <= x
    OBVIOUS
  <2>2. PICK T : T = {n \in Nat : \A y \in I : y <= n}
    OBVIOUS
  <2>3. Len(h) \in T
    BY <1>1, <1>3, <2>2
  <2>4. PICK n \in T : \A m \in T : n <= m
    BY <2>2, <2>3, LeastNatural
  <2>5. n \in Nat /\ \A y \in I : y <= n
    BY <2>2, <2>4
  <2>6. n \in I
    <3>1. SUFFICES ASSUME n \notin I PROVE FALSE
      OBVIOUS
    <3>2. PICK y \in I : TRUE
      BY <2>1
    <3>3. y \in Nat /\ y >= 1
      BY <1>1, <1>3, <3>2
    <3>4. n - 1 \in Nat /\ \A z \in I : z <= n - 1
      <4>1. ASSUME NEW z \in I PROVE z <= n - 1
        BY <1>3, <2>5, <3>1
      <4>2. y <= n
        BY <2>5
      <4> QED
        BY <2>5, <3>3, <4>1, <4>2
    <3>5. n - 1 \in T
      BY <2>2, <3>4
    <3> QED
      BY <2>4, <2>5, <3>5
  <2> QED
    BY <2>5, <2>6
<1>6. I # {} => Max(I) \in I /\ \A y \in I : y <= Max(I)
  BY <1>3, <1>5 DEF Max
<1>7. LastTurnIn(h) \in 0..Len(h) /\ (LastTurnIn(h) # 0 => h[LastTurnIn(h)].role = "assistant")
  BY <1>1, <1>2, <1>3, <1>4, <1>6
<1>8. ASSUME NEW i \in 1..Len(h), h[i].role = "assistant" PROVE i <= LastTurnIn(h)
  BY <1>2, <1>4, <1>6, <1>8
<1>9. OpenIn(h) \in Seq(ToolCall)
  <2>1. CASE LastTurnIn(h) = 0
    BY <2>1 DEF OpenIn
  <2>2. CASE LastTurnIn(h) # 0
    <3>1. LastTurnIn(h) \in 1..Len(h)
      BY <1>1, <1>7, <2>2
    <3>2. h[LastTurnIn(h)] \in Msg
      BY <1>1, <3>1
    <3>3. PICK calls : calls = h[LastTurnIn(h)].calls
      OBVIOUS
    <3>4. calls \in Seq(ToolCall)
      BY <3>2, <3>3 DEF Msg
    <3>5. PICK given : given = GivenIn(h)
      OBVIOUS
    <3>6. Cardinality(given) \in Nat
      <4>1. IsFiniteSet(1..Len(h)) /\ DOMAIN h = 1..Len(h)
        BY <1>1, FS_Interval
      <4>2. given \in SUBSET (1..Len(h))
        BY <3>5, <4>1 DEF GivenIn
      <4>3. IsFiniteSet(given)
        BY <4>1, <4>2, FS_Subset
      <4> QED
        BY <4>3, FS_CardinalityType
    <3>7. OpenIn(h) = SubSeq(calls, Cardinality(given) + 1, Len(calls))
      BY <2>2, <3>3, <3>5 DEF OpenIn
    <3> QED
      BY <3>4, <3>6, <3>7
  <2> QED
    BY <2>1, <2>2
<1> QED
  BY <1>7, <1>8, <1>9

LEMMA OpenIs ==
  ASSUME TalkTypeOK
  PROVE  Open = OpenIn(history) /\ Open \in Seq(ToolCall)
<1>1. LastTurn = LastTurnIn(history)
  BY DEF LastTurn, LastTurnIn, SelectLastInSeq
<1>2. Open = OpenIn(history)
  BY <1>1 DEF Open, OpenIn, GivenIn
<1>3. OpenIn(history) \in Seq(ToolCall)
  BY OpenInIs DEF TalkTypeOK
<1> QED
  BY <1>2, <1>3

LEMMA UsageKept ==
  ASSUME StreamTypeOK, NEW delta \in {NoUsage, answer.usage}
  PROVE  /\ Merged(start_usage, delta) \in Counts /\ MergedInput(start_usage, delta) \in Counts
         /\ start_usage = answer.usage => /\ Merged(start_usage, delta) = answer.usage
                                          /\ MergedInput(start_usage, delta) = answer.usage
<1>1. start_usage \in Counts /\ delta \in Counts /\ answer.usage \in Counts
  BY Values DEF StreamTypeOK
<1>2. /\ DOMAIN start_usage = {"input", "write", "read"}
      /\ start_usage.input \in Nat /\ start_usage.write \in Nat /\ start_usage.read \in Nat
      /\ delta.input \in Nat /\ delta.write \in Nat /\ delta.read \in Nat
  BY <1>1 DEF Counts
<1>3. MergedInput(start_usage, delta) \in Counts
  BY <1>1, <1>2 DEF MergedInput, Counts
<1>4. PICK m : m = [k \in {"input", "write", "read"} |-> IF delta[k] > 0 THEN delta[k] ELSE start_usage[k]]
  OBVIOUS
<1>5. m = Merged(start_usage, delta)
  BY <1>2, <1>4 DEF Merged
<1>6. m = [input |-> IF delta.input > 0 THEN delta.input ELSE start_usage.input,
           write |-> IF delta.write > 0 THEN delta.write ELSE start_usage.write,
           read |-> IF delta.read > 0 THEN delta.read ELSE start_usage.read]
  BY <1>4
<1>7. m \in Counts
  BY <1>2, <1>6 DEF Counts
<1>8. ASSUME start_usage = answer.usage
      PROVE  m = answer.usage /\ MergedInput(start_usage, delta) = answer.usage
  <2>1. start_usage = [input |-> start_usage.input, write |-> start_usage.write, read |-> start_usage.read]
    BY <1>1 DEF Counts
  <2>2. \/ delta = start_usage
        \/ delta.input = 0 /\ delta.write = 0 /\ delta.read = 0
    BY <1>8 DEF NoUsage
  <2>3. m = start_usage
    BY <1>2, <1>6, <2>1, <2>2
  <2>4. MergedInput(start_usage, delta) = start_usage
    BY <1>1, <1>2, <2>1, <2>2 DEF MergedInput, Counts
  <2> QED
    BY <1>8, <2>3, <2>4
<1> QED
  BY <1>3, <1>5, <1>7, <1>8

(* Every step of the model is one of these.                                *)
LEMMA NextMoves ==
  ASSUME StreamTypeOK, TalkTypeOK, AdaptersNext
  PROVE  Moves
<1>0. route.adapter \in AllAdapters
  BY AdaptersAssumption DEF TalkTypeOK
<1>1. CASE Speak
  <2>1. ASSUME NEW role \in {"user", "system", "developer"},
               NEW text \in Text, NEW m, m = Message(role, text)
        PROVE  m \in Msg /\ m.role = role /\ m.calls = <<>> /\ m.extras = <<>> /\ m.text = text
    BY <2>1 DEF Message, Msg, Extras
  <2>2. ASSUME NEW text \in {<<>>, <<"x">>}, Say(text) PROVE SaySomething
    <3>1. text \in Text
      BY <2>2, Values
    <3>2. PICK m : m = Message("user", text)
      OBVIOUS
    <3>3. m \in Msg /\ m.role = "user" /\ m.calls = <<>> /\ m.extras = <<>>
      BY <2>1, <3>1, <3>2
    <3>4. Open = <<>> /\ LastRole # "user" /\ Says(m)
      BY <2>2, <3>2 DEF Say, User
    <3> QED
      BY <1>1, <3>3, <3>4 DEF SaySomething, Speak
  <2>3. ASSUME PostResult(<<>>) PROVE SaySomething
    <3>1. Open # <<>> /\ Says(Tool(Head(Open).id, <<>>))
      BY <2>3 DEF PostResult
    <3>2. Head(Open) \in ToolCall
      BY <3>1, OpenIs
    <3>3. PICK m : m = Tool(Head(Open).id, <<>>)
      OBVIOUS
    <3>a. PICK id : id = Head(Open).id
      OBVIOUS
    <3>4. id \in Nat /\ <<>> \in Text
      BY <3>2, <3>a, Values DEF ToolCall
    <3>b. m = [role |-> "tool", text |-> <<>>, calls |-> <<>>, of |-> id, extras |-> <<>>]
      BY <3>3, <3>a DEF Tool, Message
    <3>5. /\ m \in Msg /\ m.role = "tool" /\ m.calls = <<>> /\ m.extras = <<>>
          /\ m.of = Head(Open).id
      BY <3>4, <3>a, <3>b DEF Msg, Extras
    <3> QED
      BY <1>1, <3>1, <3>3, <3>5 DEF SaySomething, Speak
  <2>4. ASSUME Note PROVE SaySomething
    <3>1. System(<<"note">>) \in Msg /\ System(<<"note">>).role = "system"
          /\ System(<<"note">>).calls = <<>> /\ System(<<"note">>).extras = <<>>
          /\ System(<<"note">>).text = <<"note">>
      BY <2>1, Values DEF System
    <3> QED
      BY <1>1, <2>4, <3>1 DEF Note, SaySomething, Speak
  <2>5. ASSUME route.adapter = "openai", Says(Message("developer", <<"note">>)) PROVE SaySomething
    <3>1. PICK m : m = Message("developer", <<"note">>)
      OBVIOUS
    <3>2. m \in Msg /\ m.role = "developer" /\ m.calls = <<>> /\ m.extras = <<>> /\ m.text = <<"note">>
      BY <2>1, <3>1, Values
    <3> QED
      BY <1>1, <2>5, <3>1, <3>2 DEF SaySomething, Speak
  <2> QED
    BY <1>1, <2>2, <2>3, <2>4, <2>5 DEF Speak, Moves
<1>2. CASE Ask \/ Finishes \/ Gives
  BY <1>2 DEF Moves
<1>3. CASE Streams /\ UNCHANGED <<route, sent, cache_key, thought, failure>>
  <2>0. Extra
    BY <1>3 DEF Extra
  <2>1. CASE route.adapter = "claude_code" /\ Upstream /\ UNCHANGED <<deltas, emitted_text>>
    <3>1. ASSUME NEW usage \in Usages, message_start(usage) PROVE Moves
      BY <2>0, <2>1, <3>1 DEF Moves, StartsStream
    <3>2. ASSUME NEW kind \in {"thinking", "text"}, content_block_start(kind) PROVE Moves
      BY <2>0, <2>1, <3>2 DEF Moves, StartsBlock
    <3>3. ASSUME NEW name \in Offered, tool_use_start(name) PROVE Moves
      BY <2>0, <2>1, <3>3, Names DEF Moves, StartsTool
    <3>4. ASSUME NEW part \in {"x", "}"}, Delta(part) PROVE Moves
      BY <2>0, <2>1, <3>4 DEF Moves, TellsPart
    <3>5. ASSUME NEW stop \in {"end_turn", "max_tokens", "tool_use"},
                 NEW usage \in {NoUsage, answer.usage}, message_delta(stop, usage)
          PROVE  Moves
      <4>1. Merged(start_usage, usage) \in Counts
        BY UsageKept
      <4>2. Stops(stop, Merged(start_usage, usage))
        BY <3>5 DEF message_delta
      <4> QED
        BY <2>0, <2>1, <4>1, <4>2 DEF Moves, StopsStream
    <3> QED
      BY <2>1, <3>1, <3>2, <3>3, <3>4, <3>5 DEF Upstream
  <2>2. CASE route.adapter = "anthropic" /\ PlainStream /\ UNCHANGED <<deltas, emitted_text>>
    <3>1. ASSUME NEW usage \in Usages, message_start(usage) PROVE Moves
      BY <2>0, <2>2, <3>1 DEF Moves, StartsStream
    <3>2. ASSUME content_block_start("text") PROVE Moves
      BY <2>0, <2>2, <3>2 DEF Moves, StartsBlock
    <3>3. ASSUME NEW name \in Registered, tool_use_start(name) PROVE Moves
      BY <2>0, <2>2, <3>3, Names DEF Moves, StartsTool
    <3>4. ASSUME NEW part \in {"x", "}"}, Delta(part) PROVE Moves
      BY <2>0, <2>2, <3>4 DEF Moves, TellsPart
    <3>5. ASSUME NEW stop \in {"end_turn", "max_tokens", "tool_use"},
                 NEW usage \in {NoUsage, answer.usage}, Stops(stop, MergedInput(start_usage, usage))
          PROVE  Moves
      <4>1. MergedInput(start_usage, usage) \in Counts
        BY UsageKept
      <4> QED
        BY <2>0, <2>2, <3>5, <4>1 DEF Moves, StopsStream
    <3> QED
      BY <2>2, <3>1, <3>2, <3>3, <3>4, <3>5 DEF PlainStream
  <2>3. CASE route.adapter = "codex" /\ CodexStream
    <3>1. ASSUME NEW usage \in Usages, NEW streams \in BOOLEAN, Created(usage, streams) PROVE Moves
      BY <2>0, <2>3, <3>1 DEF Moves, StartsStream
    <3>2. ASSUME OutputItem PROVE Moves
      BY <2>0, <2>3, <3>2 DEF Moves, StartsBlock, OutputItem
    <3>3. ASSUME OutputTextDelta PROVE Moves
      BY <2>0, <2>3, <3>3 DEF Moves, CodexTellsPart
    <3>4. ASSUME Completed PROVE Moves
      BY <2>0, <2>3, <3>4 DEF Moves, CodexStops
    <3> QED
      BY <2>3, <3>1, <3>2, <3>3, <3>4 DEF CodexStream
  <2>4. CASE route.adapter = "openai" /\ OpenAIStream
    <3>1. ASSUME NEW usage \in Usages, Created(usage, TRUE) PROVE Moves
      BY <2>0, <2>4, <3>1 DEF Moves, StartsStream
    <3>2. ASSUME NEW kind \in {"thinking", "text"}, content_block_start(kind),
                 UNCHANGED <<deltas, emitted_text>>
          PROVE  Moves
      BY <2>0, <2>4, <3>2 DEF Moves, StartsBlock
    <3>3. ASSUME Delta("x"), UNCHANGED <<deltas, emitted_text>> PROVE Moves
      BY <2>0, <2>4, <3>3 DEF Moves, TellsPart
    <3>4. ASSUME NEW stop \in {"end_turn", "max_tokens"}, Stops(stop, answer.usage),
                 UNCHANGED <<deltas, emitted_text>>
          PROVE  Moves
      <4>1. answer.usage \in Counts
        BY DEF StreamTypeOK
      <4> QED
        BY <2>0, <2>4, <3>4, <4>1 DEF Moves, StopsStream
    <3> QED
      BY <2>4, <3>1, <3>2, <3>3, <3>4 DEF OpenAIStream
  <2> QED
    BY <1>3, <2>1, <2>2, <2>3, <2>4 DEF Streams
<1>4. CASE Fails /\ deltas' = TRUE /\ emitted_text' = FALSE
           /\ UNCHANGED <<route, sent, cache_key, thought, failure>>
  BY <1>4 DEF Moves, FailsNow, Extra
<1>5. CASE \E cause \in Causes, how \in {"status", "number", "string", "event", "flat", "worded"} :
             Refuses(cause, how)
  BY <1>5 DEF Moves, RefusesNow
<1> QED
  BY <1>1, <1>2, <1>3, <1>4, <1>5 DEF AdaptersNext

LEMMA LastIs ==
  ASSUME NEW S, NEW s \in Seq(S), Len(s) > 0
  PROVE  /\ Last(s) = s[Len(s)] /\ Last(s) \in S
         /\ Len(s) \in DOMAIN s /\ Len(s) \in Nat /\ Len(s) >= 1
<1>1. PICK n : n = Len(s)
  OBVIOUS
<1>2. n \in Nat /\ n > 0 /\ DOMAIN s = 1..n
  BY <1>1
<1>3. n \in 1..n
  BY <1>2
<1>4. s[n] \in S
  BY <1>2, <1>3
<1> QED
  BY <1>1, <1>2, <1>3, <1>4 DEF Last

LEMMA InOrderIs ==
  ASSUME NEW S, NEW D \in SUBSET Nat, IsFiniteSet(D), NEW f \in [D -> S]
  PROVE  /\ InOrder(f) = [k \in 1..Cardinality(D) |-> f[Place(D, k)]]
         /\ InOrder(f) \in Seq(S)
<1>1. InOrder(f) = [k \in 1..Cardinality(D) |-> f[Place(D, k)]]
  BY DEF InOrder
<1>2. Cardinality(D) \in Nat
  BY FS_CardinalityType
<1>3. \A k \in 1..Cardinality(D) : Place(D, k) \in D
  BY PlaceIsKth
<1>4. \A k \in 1..Cardinality(D) : f[Place(D, k)] \in S
  BY <1>3
<1> QED
  BY <1>1, <1>2, <1>4

LEMMA CallsAreTyped ==
  ASSUME NEW c \in Assembled
  PROVE  CallsOf(c) \in Seq(ToolCall)
<1>1. c.tools \in Tooling
  BY DEF Assembled
<1>2. PICK D \in SUBSET Nat : IsFiniteSet(D) /\ c.tools \in [D -> ToolCall]
  BY <1>1 DEF Tooling
<1> QED
  BY <1>2, InOrderIs DEF CallsOf

(* Of a sequence of blocks the last one changes its text.                  *)
Longer(b, part) == [kind |-> b.kind, of |-> b.of, name |-> b.name, text |-> Append(b.text, part)]
Grows(a, b, part, front, old) ==
  /\ front \in Seq(AnswerBlock) /\ old \in AnswerBlock
  /\ a.blocks = Append(front, old) /\ old = a.blocks[Len(a.blocks)]
  /\ Len(a.blocks) = Len(front) + 1
  /\ b.blocks = Append(front, Longer(old, part)) /\ Longer(old, part) \in AnswerBlock
  /\ b.usage = a.usage
  /\ b \in [blocks : Seq(AnswerBlock), usage : Counts]

LEMMA LastGrows ==
  ASSUME NEW a \in [blocks : Seq(AnswerBlock), usage : Counts], Len(a.blocks) > 0,
         NEW part \in Fragments, NEW b,
         b = [a EXCEPT !.blocks[Len(a.blocks)].text = Append(@, part)]
  PROVE  \E front, old : Grows(a, b, part, front, old)
<1>1. PICK bs : bs = a.blocks
  OBVIOUS
<1>2. PICK n : n = Len(bs)
  OBVIOUS
<1>3. bs \in Seq(AnswerBlock) /\ n \in Nat /\ n >= 1 /\ a.usage \in Counts
  BY <1>1, <1>2
<1>4. PICK old : old = bs[n]
  OBVIOUS
<1>5. old \in AnswerBlock
  BY <1>2, <1>3, <1>4
<1>6. Longer(old, part) \in AnswerBlock
  <2>1. Append(old.text, part) \in Text
    BY <1>5 DEF AnswerBlock, Text
  <2> QED
    BY <1>5, <2>1 DEF AnswerBlock, Longer
<1>7. [old EXCEPT !.text = Append(@, part)] = Longer(old, part)
  <2>1. PICK text : text = Append(old.text, part)
    OBVIOUS
  <2>2. old = [kind |-> old.kind, of |-> old.of, name |-> old.name, text |-> old.text]
    BY <1>5 DEF AnswerBlock
  <2>3. [old EXCEPT !.text = text] = [kind |-> old.kind, of |-> old.of, name |-> old.name, text |-> text]
    BY <2>2
  <2> QED
    BY <2>1, <2>3 DEF Longer
<1>8. PICK cs : cs = [bs EXCEPT ![n] = Longer(old, part)]
  OBVIOUS
<1>9. b = [blocks |-> cs, usage |-> a.usage]
  BY <1>1, <1>2, <1>4, <1>7, <1>8
<1>10. PICK front : front = SubSeq(bs, 1, n - 1)
  OBVIOUS
<1>11. front \in Seq(AnswerBlock) /\ Len(front) = n - 1 /\ \A i \in 1..(n - 1) : front[i] = bs[i]
  BY <1>2, <1>3, <1>10
<1>12. bs = Append(front, old)
  BY <1>2, <1>3, <1>4, <1>5, <1>11
<1>13. cs \in Seq(AnswerBlock) /\ Len(cs) = n
  BY <1>2, <1>3, <1>6, <1>8
<1>14. cs = Append(front, Longer(old, part))
  <2>1. \A i \in 1..n : cs[i] = IF i = n THEN Longer(old, part) ELSE front[i]
    BY <1>2, <1>3, <1>8, <1>11
  <2>2. PICK ds : ds = Append(front, Longer(old, part))
    OBVIOUS
  <2>3. ds \in Seq(AnswerBlock) /\ Len(ds) = n
    BY <1>3, <1>6, <1>11, <2>2
  <2>4. \A i \in 1..n : ds[i] = IF i = n THEN Longer(old, part) ELSE front[i]
    BY <1>3, <1>6, <1>11, <2>2
  <2>5. cs = [i \in 1..n |-> cs[i]] /\ ds = [i \in 1..n |-> ds[i]]
    BY <1>3, <1>13, <2>3
  <2>6. \A i \in 1..n : cs[i] = ds[i]
    BY <2>1, <2>4
  <2>7. [i \in 1..n |-> cs[i]] = [i \in 1..n |-> ds[i]]
    BY <2>6
  <2>8. cs = ds
    BY <2>5, <2>7
  <2> QED
    BY <2>2, <2>8
<1>15. a.blocks = Append(front, old) /\ old = a.blocks[Len(a.blocks)] /\ Len(a.blocks) = Len(front) + 1
  BY <1>1, <1>2, <1>3, <1>4, <1>11, <1>12
<1>16. /\ b.blocks = Append(front, Longer(old, part)) /\ b.usage = a.usage
       /\ b \in [blocks : Seq(AnswerBlock), usage : Counts]
  <2>1. b.blocks = cs /\ b.usage = a.usage
    BY <1>9
  <2>a. ASSUME NEW x \in Seq(AnswerBlock), NEW u \in Counts
        PROVE  [blocks |-> x, usage |-> u] \in [blocks : Seq(AnswerBlock), usage : Counts]
    OBVIOUS
  <2>2. b \in [blocks : Seq(AnswerBlock), usage : Counts]
    BY ONLY <1>3, <1>9, <1>13, <2>a
  <2> QED
    BY <1>14, <2>1, <2>2
<1> QED
  BY <1>5, <1>6, <1>11, <1>15, <1>16 DEF Grows

LEMMA StartsTyped ==
  ASSUME NEW a \in [blocks : Seq(AnswerBlock), usage : Counts], NEW block \in AnswerBlock, NEW b,
         b = [a EXCEPT !.blocks = Append(@, block)]
  PROVE  /\ b.blocks = Append(a.blocks, block) /\ b.usage = a.usage
         /\ b \in [blocks : Seq(AnswerBlock), usage : Counts]
<1>1. Append(a.blocks, block) \in Seq(AnswerBlock)
  OBVIOUS
<1> QED
  BY <1>1

(* The texts of some blocks, and the index of a tool's block.              *)
LEMMA TextsTyped ==
  ASSUME NEW bs \in Seq(AnswerBlock)
  PROVE  Texts(bs) \in Text
<1>1. PICK ss : ss = [i \in DOMAIN bs |-> bs[i].text]
  OBVIOUS
<1>2. ss = [i \in 1..Len(bs) |-> bs[i].text] /\ Len(bs) \in Nat
  BY <1>1
<1>3. ASSUME NEW i \in 1..Len(bs) PROVE bs[i].text \in Seq(Fragments)
  <2>1. bs[i] \in AnswerBlock
    OBVIOUS
  <2> QED
    BY <2>1 DEF AnswerBlock, Text
<1>4. ss \in Seq(Seq(Fragments))
  BY <1>2, <1>3
<1>5. FlattenSeq(ss) \in Seq(Fragments)
  <2>1. <<>> \in Seq(Fragments)
    OBVIOUS
  <2> QED
    BY <1>4, <2>1, FlattenMore
<1> QED
  BY <1>1, <1>5 DEF Texts, Text

LEMMA ToolIndexTyped ==
  ASSUME StreamTypeOK, NEW n
  PROVE  ToolIndex(n) \in Nat
<1>1. PICK t : t = tool_block_indices
  OBVIOUS
<1>2. t \in Seq(Nat) /\ DOMAIN t = 1..Len(t) /\ Len(t) \in Nat
  BY <1>1 DEF StreamTypeOK
<1>3. CASE n \in ToSet(t)
  <2>1. \E k \in DOMAIN t : t[k] = n
    BY <1>3 DEF ToSet
  <2>2. PICK k \in DOMAIN t : k = (CHOOSE j \in DOMAIN t : t[j] = n)
    BY <2>1
  <2>3. k \in Nat /\ k >= 1
    BY <1>2
  <2> QED
    BY <1>1, <1>3, <2>2, <2>3 DEF ToolIndex
<1>4. CASE n \notin ToSet(t)
  BY <1>1, <1>4 DEF ToolIndex
<1> QED
  BY <1>3, <1>4

LEMMA NextIdTyped ==
  ASSUME StreamTypeOK, TalkTypeOK
  PROVE  NextId \in Nat
<1>1. told \in Seq(Seq(AnswerBlock)) /\ answer.blocks \in Seq(AnswerBlock)
  BY DEF StreamTypeOK, TalkTypeOK
<1>2. FlattenSeq(told) \in Seq(AnswerBlock)
  BY <1>1, FlattenMore
<1>3. PICK all : all = FlattenSeq(told) \o answer.blocks
  OBVIOUS
<1>4. all \in Seq(AnswerBlock)
  BY <1>1, <1>2, <1>3
<1>5. PICK I : I = {i \in DOMAIN all : all[i].kind = "tool_use"}
  OBVIOUS
<1>6. I \in SUBSET DOMAIN all
  BY <1>5
<1>7. Cardinality(I) \in Nat
  BY <1>4, <1>6, OnlyIs
<1>8. NextId = Cardinality({i \in DOMAIN all : all[i].kind = "tool_use"}) + 1
  BY <1>3 DEF NextId
<1> QED
  BY <1>5, <1>7, <1>8

(* What the chunks make of what has been collected.                        *)
LEMMA ChunksTyped ==
  ASSUME NEW c \in Assembled
  PROVE  /\ \A part \in Fragments : text_chunk(c, part) \in Assembled /\ reasoning_chunk(c, part) \in Assembled
         /\ \A text \in Text : [c EXCEPT !.text = @ \o text] \in Assembled
         /\ \A usage \in Bill, finish \in {"stop", "length", "tool_calls"} :
              final_chunk(c, finish, usage) \in Assembled
         /\ \A index \in Nat, put \in ToolCall : WithEntry(c, index, put) \in Assembled
         /\ \A index \in Nat : Entry(c, index) \in ToolCall
<1>1. /\ c.text \in Text /\ c.reasoning \in Text /\ c.tools \in Tooling
      /\ c.finish \in {"", "stop", "length", "tool_calls"} /\ c.usage \in {<<>>} \cup Bill
      /\ c = [text |-> c.text, reasoning |-> c.reasoning, tools |-> c.tools,
              finish |-> c.finish, usage |-> c.usage]
  BY DEF Assembled
<1>2. ASSUME NEW part \in Fragments, NEW t \in Text PROVE Append(t, part) \in Text
  BY DEF Text
<1>3. ASSUME NEW s \in Text, NEW t \in Text PROVE s \o t \in Text
  BY DEF Text
<1>4. ASSUME NEW part \in Fragments
      PROVE  text_chunk(c, part) \in Assembled /\ reasoning_chunk(c, part) \in Assembled
  <2>1. PICK t, r : t = Append(c.text, part) /\ r = Append(c.reasoning, part)
    OBVIOUS
  <2>2. t \in Text /\ r \in Text
    BY <1>1, <1>2, <2>1
  <2>3. [c EXCEPT !.text = t] \in Assembled /\ [c EXCEPT !.reasoning = r] \in Assembled
    BY <1>1, <2>2 DEF Assembled
  <2> QED
    BY <2>1, <2>3 DEF text_chunk, reasoning_chunk
<1>5. ASSUME NEW text \in Text PROVE [c EXCEPT !.text = @ \o text] \in Assembled
  <2>1. PICK t : t = c.text \o text
    OBVIOUS
  <2>2. t \in Text
    BY <1>1, <1>3, <2>1
  <2>3. [c EXCEPT !.text = t] \in Assembled
    BY <1>1, <2>2 DEF Assembled
  <2> QED
    BY <2>1, <2>3
<1>6. ASSUME NEW usage \in Bill, NEW finish \in {"stop", "length", "tool_calls"}
      PROVE  final_chunk(c, finish, usage) \in Assembled
  BY <1>1 DEF final_chunk, Assembled
<1>7. PICK D \in SUBSET Nat : IsFiniteSet(D) /\ c.tools \in [D -> ToolCall]
  BY <1>1 DEF Tooling
<1>8. ASSUME NEW index \in Nat, NEW put \in ToolCall
      PROVE  WithEntry(c, index, put) \in Assembled
  <2>1. PICK E : E = D \cup {index}
    OBVIOUS
  <2>2. E \in SUBSET Nat /\ IsFiniteSet(E)
    BY <1>7, <2>1, FS_AddElement
  <2>3. PICK ts : ts = [i \in E |-> IF i = index THEN put ELSE c.tools[i]]
    OBVIOUS
  <2>4. ts \in [E -> ToolCall]
    BY <1>7, <2>1, <2>3
  <2>5. ts \in Tooling
    BY <2>2, <2>4 DEF Tooling
  <2>6. [c EXCEPT !.tools = ts] \in Assembled
    BY <1>1, <2>5 DEF Assembled
  <2>7. WithEntry(c, index, put) = [c EXCEPT !.tools = ts]
    BY <1>7, <2>1, <2>3 DEF WithEntry
  <2> QED
    BY <2>6, <2>7
<1>9. ASSUME NEW index \in Nat PROVE Entry(c, index) \in ToolCall
  BY <1>7, Values DEF Entry
<1> QED
  BY <1>4, <1>5, <1>6, <1>8, <1>9

LEMMA CallsChange ==
  ASSUME NEW put \in ToolCall
  PROVE  /\ \A id \in Nat, name \in ToolNames :
              [id |-> id, name |-> name, arguments |-> put.arguments] \in ToolCall
         /\ \A part \in Fragments :
              /\ [put EXCEPT !.arguments = Append(@, part)] \in ToolCall
              /\ [put EXCEPT !.arguments = Append(@, part)]
                   = [id |-> put.id, name |-> put.name, arguments |-> Append(put.arguments, part)]
<1>1. /\ put.id \in Nat /\ put.name \in ToolNames /\ put.arguments \in Text
      /\ put = [id |-> put.id, name |-> put.name, arguments |-> put.arguments]
  BY DEF ToolCall
<1>2. \A id \in Nat, name \in ToolNames :
        [id |-> id, name |-> name, arguments |-> put.arguments] \in ToolCall
  BY <1>1 DEF ToolCall
<1>3. ASSUME NEW part \in Fragments
      PROVE  /\ [put EXCEPT !.arguments = Append(@, part)] \in ToolCall
             /\ [put EXCEPT !.arguments = Append(@, part)]
                  = [id |-> put.id, name |-> put.name, arguments |-> Append(put.arguments, part)]
  <2>1. PICK t : t = Append(put.arguments, part)
    OBVIOUS
  <2>2. t \in Text
    BY <1>1, <2>1 DEF Text
  <2>3. [put EXCEPT !.arguments = t] = [id |-> put.id, name |-> put.name, arguments |-> t]
    BY <1>1
  <2>4. [id |-> put.id, name |-> put.name, arguments |-> t] \in ToolCall
    BY <1>1, <2>2 DEF ToolCall
  <2>5. [put EXCEPT !.arguments = Append(@, part)] = [put EXCEPT !.arguments = t]
    BY <2>1
  <2> QED
    BY <2>1, <2>3, <2>4, <2>5
<1> QED
  BY <1>2, <1>3

(* The state of a stream is given up.                                      *)
LEMMA ResetTyped ==
  ASSUME Reset, deltas' \in BOOLEAN, emitted_text' \in BOOLEAN
  PROVE  StreamTypeOK'
<1>1. /\ phase' = "client" /\ answer' = NoAnswer /\ start_usage' = NoUsage
      /\ tool_block_indices' = <<>> /\ next_tool_index' = 0 /\ collected' = Nothing
  BY DEF Reset
<1>2. tool_block_indices' \in Seq(Nat)
  BY <1>1
<1> QED
  BY <1>1, <1>2, Values DEF StreamTypeOK

LEMMA TypesBegin == AdaptersInit => StreamTypeOK /\ TalkTypeOK
<1> SUFFICES ASSUME AdaptersInit PROVE StreamTypeOK /\ TalkTypeOK
  OBVIOUS
<1>1. /\ history = <<>> /\ phase = "client" /\ answer = NoAnswer /\ told = <<>>
      /\ start_usage = NoUsage /\ tool_block_indices = <<>> /\ next_tool_index = 0
      /\ collected = Nothing /\ sends = 0 /\ route \in Routes /\ sent = 0 /\ thought = <<>>
      /\ deltas = TRUE /\ emitted_text = FALSE
  BY DEF AdaptersInit, ConversationInit
<1>2. /\ history \in Seq(Msg) /\ told \in Seq(Seq(AnswerBlock)) /\ thought \in Seq(Text)
      /\ tool_block_indices \in Seq(Nat)
  BY <1>1
<1>3. StreamTypeOK
  BY <1>1, <1>2, Values DEF StreamTypeOK
<1>4. TalkTypeOK
  BY <1>1, <1>2 DEF TalkTypeOK
<1> QED
  BY <1>3, <1>4

(* Of the messages, the answers and what the upstream was told.            *)
Quiet == UNCHANGED <<history, told, thought, sends, sent, route>>
LEMMA QuietTyped ==
  ASSUME TalkTypeOK, Quiet
  PROVE  TalkTypeOK'
BY DEF TalkTypeOK, Quiet

LEMMA TalkTyped ==
  ASSUME StreamTypeOK, TalkTypeOK, Moves
  PROVE  TalkTypeOK'
<1>1. CASE SaySomething
  <2>1. PICK m \in Msg : history' = Append(history, m) /\ UNCHANGED <<sends, told>> /\ UNCHANGED own
    BY <1>1 DEF SaySomething, Says
  <2> QED
    BY <2>1 DEF TalkTypeOK, own
<1>2. CASE Ask
  <2>1. UNCHANGED <<history, told, route, thought>> /\ sends' = sends + 1 /\ sent' = Len(history)
    BY <1>2 DEF Ask, Sends
  <2> QED
    BY <2>1 DEF TalkTypeOK
<1>3. CASE Finishes
  <2>1. PICK extras \in MayKeep : EndsKeeping(extras)
    BY <1>3 DEF Finishes
  <2>2. PICK m : m = Assistant(collected.text, CallsOf(collected), extras)
    OBVIOUS
  <2>3. /\ history' = Append(history, m) /\ told' = Append(told, Spoken(answer.blocks))
        /\ UNCHANGED sends
    BY <2>1, <2>2 DEF EndsKeeping
  <2>4. /\ thought' = thought \/ thought' = Append(thought, collected.reasoning)
        /\ UNCHANGED <<route, sent>>
    BY <1>3 DEF Finishes
  <2>5. collected.text \in Text /\ collected.reasoning \in Text /\ CallsOf(collected) \in Seq(ToolCall)
    BY CallsAreTyped DEF StreamTypeOK, Assembled
  <2>6. extras \in Extras
    BY <2>5 DEF MayKeep, Extras
  <2>7. m = [role |-> "assistant", text |-> collected.text, calls |-> CallsOf(collected), of |-> 0,
             extras |-> extras]
    BY <2>2 DEF Assistant, Message
  <2>8. m \in Msg
    BY <2>5, <2>6, <2>7 DEF Msg
  <2>9. Spoken(answer.blocks) \in Seq(AnswerBlock)
    <3>1. answer.blocks \in Seq(AnswerBlock)
      BY DEF StreamTypeOK
    <3>2. {i \in DOMAIN answer.blocks : answer.blocks[i].kind # "thinking"} \in SUBSET DOMAIN answer.blocks
      OBVIOUS
    <3> QED
      BY <3>1, <3>2, OnlyIs DEF Spoken
  <2>10. history' \in Seq(Msg) /\ told' \in Seq(Seq(AnswerBlock)) /\ thought' \in Seq(Text)
    <3>1. history \in Seq(Msg) /\ told \in Seq(Seq(AnswerBlock)) /\ thought \in Seq(Text)
      BY DEF TalkTypeOK
    <3>2. history' \in Seq(Msg)
      BY <2>3, <2>8, <3>1
    <3>3. told' \in Seq(Seq(AnswerBlock))
      BY <2>3, <2>9, <3>1
    <3>4. thought' \in Seq(Text)
      <4>1. Append(thought, collected.reasoning) \in Seq(Text)
        BY <2>5, <3>1
      <4> QED
        BY <2>4, <3>1, <4>1
    <3> QED
      BY <3>2, <3>3, <3>4
  <2> QED
    BY <2>3, <2>4, <2>10 DEF TalkTypeOK
<1>4. CASE Gives \/ FailsNow
  <2>1. Quiet
    BY <1>4 DEF Gives, FailsNow, Fails, Extra, Quiet
  <2> QED
    BY <2>1, QuietTyped
<1>5. CASE RefusesNow
  <2>1. Quiet
    BY <1>5 DEF RefusesNow, Refuses, Unchanged, Quiet
  <2> QED
    BY <2>1, QuietTyped
<1>6. CASE StartsStream
  <2>1. Quiet
    BY <1>6 DEF StartsStream, message_start, Created, Unchanged, Extra, Quiet
  <2> QED
    BY <2>1, QuietTyped
<1>7. CASE StartsBlock \/ StartsTool
  <2>1. Quiet
    BY <1>7 DEF StartsBlock, StartsTool, content_block_start, tool_use_start, Starts, Extra, Quiet
  <2> QED
    BY <2>1, QuietTyped
<1>8. CASE TellsPart
  <2>1. Quiet
    BY <1>8 DEF TellsPart, Delta, Extra, Quiet
  <2> QED
    BY <2>1, QuietTyped
<1>9. CASE CodexTellsPart \/ CodexStops
  <2>1. Quiet
    BY <1>9 DEF CodexTellsPart, CodexStops, OutputTextDelta, Completed, Unchanged, Extra, Quiet
  <2> QED
    BY <2>1, QuietTyped
<1>10. CASE StopsStream
  <2>1. Quiet
    BY <1>10 DEF StopsStream, Stops, Extra, Quiet
  <2> QED
    BY <2>1, QuietTyped
<1> QED
  BY <1>1, <1>2, <1>3, <1>4, <1>5, <1>6, <1>7, <1>8, <1>9, <1>10 DEF Moves

StreamVars == <<phase, answer, start_usage, tool_block_indices, next_tool_index, collected,
                deltas, emitted_text>>

LEMMA BillsTyped ==
  ASSUME StreamTypeOK
  PROVE  /\ Output \in Nat
         /\ \A usage \in Counts : /\ usage_to_openai(usage, Output) \in Bill
                                  /\ codex_usage(usage, Output) \in Bill
<1>1. Output \in Nat
  <2>1. Texts(answer.blocks) \in Text
    BY TextsTyped DEF StreamTypeOK
  <2> QED
    BY <2>1 DEF Output, Text
<1>2. ASSUME NEW usage \in Counts, NEW n \in Nat
      PROVE  usage_to_openai(usage, n) \in Bill /\ codex_usage(usage, n) \in Bill
  <2>1. usage.input \in Nat /\ usage.write \in Nat /\ usage.read \in Nat
    BY DEF Counts
  <2> QED
    BY <2>1 DEF usage_to_openai, codex_usage, Bill
<1> QED
  BY <1>1, <1>2

LEMMA BlocksTyped ==
  /\ \A kind \in {"text", "thinking"} : Block(kind, 0, "", <<>>) \in AnswerBlock
  /\ \A id \in Nat, name \in ToolNames : Block("tool_use", id, name, <<>>) \in AnswerBlock
BY Names, Values DEF Block, AnswerBlock

LEMMA StreamTyped ==
  ASSUME StreamTypeOK, TalkTypeOK, Moves
  PROVE  StreamTypeOK'
<1>0. /\ answer \in [blocks : Seq(AnswerBlock), usage : Counts] /\ answer.blocks \in Seq(AnswerBlock)
      /\ answer.usage \in Counts /\ collected \in Assembled
  BY DEF StreamTypeOK
<1>1. CASE SaySomething
  <2>1. UNCHANGED StreamVars
    BY <1>1 DEF SaySomething, Says, own, stream, StreamVars
  <2> QED
    BY <2>1 DEF StreamVars, StreamTypeOK
<1>2. CASE Ask
  <2>1. phase' = "waiting" /\ UNCHANGED <<answer, stream, collected, deltas, emitted_text>>
    BY <1>2 DEF Ask, Sends
  <2> QED
    BY <2>1 DEF stream, StreamTypeOK
<1>3. CASE Finishes
  <2>1. Reset /\ deltas' = TRUE /\ emitted_text' = FALSE
    BY <1>3 DEF Finishes, EndsKeeping
  <2> QED
    BY <2>1, ResetTyped
<1>4. CASE Gives
  <2>1. Reset /\ deltas' \in BOOLEAN /\ emitted_text' \in BOOLEAN
    BY <1>4 DEF Gives, StreamTypeOK
  <2> QED
    BY <2>1, ResetTyped
<1>5. CASE FailsNow
  <2>1. Reset /\ deltas' = TRUE /\ emitted_text' = FALSE
    BY <1>5 DEF FailsNow, Fails
  <2> QED
    BY <2>1, ResetTyped
<1>6. CASE RefusesNow
  <2>1. /\ phase' = "failed" /\ UNCHANGED <<answer, collected, deltas, emitted_text>>
        /\ UNCHANGED <<start_usage, tool_block_indices, next_tool_index>>
    BY <1>6 DEF RefusesNow, Refuses, Unchanged
  <2> QED
    BY <2>1 DEF StreamTypeOK
<1>7. CASE StartsStream
  <2>1. PICK usage \in Usages :
          \/ message_start(usage) /\ UNCHANGED <<deltas, emitted_text>>
          \/ \E streams \in BOOLEAN : Created(usage, streams)
    BY <1>7 DEF StartsStream
  <2>2. usage \in Counts
    BY Values
  <2>3. [NoAnswer EXCEPT !.usage = usage] \in [blocks : Seq(AnswerBlock), usage : Counts]
    BY <2>2, Values
  <2>4. /\ phase' = "streaming" /\ answer' = [NoAnswer EXCEPT !.usage = usage]
        /\ start_usage' = usage \/ UNCHANGED start_usage
        /\ UNCHANGED <<tool_block_indices, next_tool_index, collected>>
        /\ deltas' \in BOOLEAN /\ emitted_text' \in BOOLEAN
    BY <2>1 DEF message_start, Created, Unchanged, StreamTypeOK
  <2> QED
    BY <2>2, <2>3, <2>4 DEF StreamTypeOK
<1>8. CASE StartsBlock
  <2>1. PICK kind \in {"thinking", "text"} : content_block_start(kind) /\ UNCHANGED <<deltas, emitted_text>>
    BY <1>8 DEF StartsBlock
  <2>2. PICK block : block = Block(kind, 0, "", <<>>)
    OBVIOUS
  <2>3. block \in AnswerBlock
    BY <2>2, BlocksTyped
  <2>4. /\ answer' = [answer EXCEPT !.blocks = Append(@, block)]
        /\ UNCHANGED <<phase, start_usage, tool_block_indices, next_tool_index, collected>>
    BY <2>1, <2>2 DEF content_block_start, Starts
  <2>5. answer' \in [blocks : Seq(AnswerBlock), usage : Counts]
    BY <1>0, <2>3, <2>4, StartsTyped
  <2> QED
    BY <2>1, <2>4, <2>5 DEF StreamTypeOK
<1>9. CASE StartsTool
  <2>1. PICK name \in ToolNames : tool_use_start(name) /\ UNCHANGED <<deltas, emitted_text>>
    BY <1>9 DEF StartsTool
  <2>2. PICK block : block = Block("tool_use", NextId, name, <<>>)
    OBVIOUS
  <2>3. NextId \in Nat
    BY NextIdTyped
  <2>4. block \in AnswerBlock
    BY <2>2, <2>3, BlocksTyped
  <2>5. /\ answer' = [answer EXCEPT !.blocks = Append(@, block)]
        /\ UNCHANGED <<phase, start_usage>>
        /\ tool_block_indices' = Append(tool_block_indices, Len(answer.blocks) + 1)
        /\ next_tool_index' = next_tool_index + 1
        /\ collected' = tool_call_start_chunk(collected, next_tool_index, NextId, restore_tool_name(name))
    BY <2>1, <2>2 DEF tool_use_start, Starts
  <2>6. answer' \in [blocks : Seq(AnswerBlock), usage : Counts]
    BY <1>0, <2>4, <2>5, StartsTyped
  <2>7. tool_block_indices' \in Seq(Nat) /\ next_tool_index' \in Nat
    <3>1. tool_block_indices \in Seq(Nat) /\ next_tool_index \in Nat
      BY DEF StreamTypeOK
    <3>2. Len(answer.blocks) + 1 \in Nat
      BY <1>0
    <3> QED
      BY <2>5, <3>1, <3>2
  <2>8. collected' \in Assembled
    <3>1. next_tool_index \in Nat
      BY DEF StreamTypeOK
    <3>2. restore_tool_name(name) \in ToolNames
      BY Restored, Names
    <3>3. PICK put : put = [id |-> NextId, name |-> restore_tool_name(name),
                              arguments |-> Entry(collected, next_tool_index).arguments]
      OBVIOUS
    <3>4. Entry(collected, next_tool_index) \in ToolCall
      BY <1>0, <3>1, ChunksTyped
    <3>5. put \in ToolCall
      BY <2>3, <3>2, <3>3, <3>4, CallsChange
    <3>6. collected' = WithEntry(collected, next_tool_index, put)
      BY <2>5, <3>3 DEF tool_call_start_chunk
    <3> QED
      BY <1>0, <3>1, <3>5, <3>6, ChunksTyped
  <2> QED
    BY <2>1, <2>5, <2>6, <2>7, <2>8 DEF StreamTypeOK
<1>10. CASE TellsPart
  <2>1. PICK part \in {"x", "}"} : Delta(part) /\ UNCHANGED <<deltas, emitted_text>>
    BY <1>10 DEF TellsPart
  <2>2. part \in Fragments
    BY Values
  <2>3. PICK block : block = Last(answer.blocks)
    OBVIOUS
  <2>4. /\ Len(answer.blocks) > 0
        /\ answer' = [answer EXCEPT !.blocks[Len(answer.blocks)].text = Append(@, part)]
        /\ collected' = CASE block.kind = "text" -> text_chunk(collected, part)
                          [] block.kind = "tool_use" ->
                               tool_call_args_chunk(collected, ToolIndex(Len(answer.blocks)), part)
                          [] block.kind = "thinking" -> reasoning_chunk(collected, part)
        /\ UNCHANGED <<phase, start_usage, tool_block_indices, next_tool_index>>
    BY <2>1, <2>3 DEF Delta, stream
  <2>5. block = answer.blocks[Len(answer.blocks)] /\ block \in AnswerBlock
    BY <1>0, <2>3, <2>4, LastIs
  <2>6. block.kind \in {"text", "tool_use", "thinking"}
    BY <2>5 DEF AnswerBlock
  <2>7. answer' \in [blocks : Seq(AnswerBlock), usage : Counts]
    <3>1. \E front, old : Grows(answer, answer', part, front, old)
      BY <1>0, <2>2, <2>4, LastGrows
    <3> QED
      BY <3>1 DEF Grows
  <2>8. collected' \in Assembled
    <3>1. PICK n : n = ToolIndex(Len(answer.blocks))
      OBVIOUS
    <3>2. n \in Nat
      BY <3>1, ToolIndexTyped
    <3>3. PICK put : put = [Entry(collected, n) EXCEPT !.arguments = Append(@, part)]
      OBVIOUS
    <3>4. put \in ToolCall
      BY <1>0, <2>2, <3>2, <3>3, ChunksTyped, CallsChange
    <3>5. WithEntry(collected, n, put) \in Assembled
      BY <1>0, <3>2, <3>4, ChunksTyped
    <3>6. tool_call_args_chunk(collected, n, part) \in Assembled
      BY <3>3, <3>5 DEF tool_call_args_chunk
    <3>7. text_chunk(collected, part) \in Assembled /\ reasoning_chunk(collected, part) \in Assembled
      BY <1>0, <2>2, ChunksTyped
    <3> QED
      BY <2>4, <2>6, <3>1, <3>6, <3>7
  <2> QED
    BY <2>1, <2>4, <2>7, <2>8 DEF StreamTypeOK
<1>11. CASE CodexTellsPart
  <2>1. /\ Len(answer.blocks) > 0
        /\ answer' = [answer EXCEPT !.blocks[Len(answer.blocks)].text = Append(@, "x")]
        /\ collected' = IF deltas THEN text_chunk(collected, "x") ELSE collected
        /\ emitted_text' = deltas /\ UNCHANGED <<phase, deltas>>
        /\ UNCHANGED <<start_usage, tool_block_indices, next_tool_index>>
    BY <1>11 DEF CodexTellsPart, OutputTextDelta, Unchanged
  <2>2. "x" \in Fragments
    BY DEF Fragments
  <2>3. answer' \in [blocks : Seq(AnswerBlock), usage : Counts]
    <3>1. \E front, old : Grows(answer, answer', "x", front, old)
      BY <1>0, <2>1, <2>2, LastGrows
    <3> QED
      BY <3>1 DEF Grows
  <2>4. collected' \in Assembled
    BY <1>0, <2>1, <2>2, ChunksTyped
  <2> QED
    BY <2>1, <2>3, <2>4 DEF StreamTypeOK
<1>12. CASE StopsStream
  <2>1. PICK stop \in {"end_turn", "max_tokens", "tool_use"}, usage \in Counts : Stops(stop, usage)
    BY <1>12 DEF StopsStream
  <2>2. UNCHANGED <<deltas, emitted_text>>
    BY <1>12 DEF StopsStream
  <2>3. /\ phase' = "stopped"
        /\ collected' = final_chunk(collected, finish_reason(stop), usage_to_openai(usage, Output))
        /\ UNCHANGED <<answer, start_usage, tool_block_indices, next_tool_index>>
    BY <2>1 DEF Stops, stream
  <2>4. finish_reason(stop) \in {"stop", "length", "tool_calls"}
    BY DEF finish_reason
  <2>5. collected' \in Assembled
    BY <1>0, <2>3, <2>4, BillsTyped, ChunksTyped
  <2> QED
    BY <2>2, <2>3, <2>5 DEF StreamTypeOK
<1>13. CASE CodexStops
  <2>1. PICK all : all = IF FallsBack THEN [collected EXCEPT !.text = @ \o Texts(answer.blocks)] ELSE collected
    OBVIOUS
  <2>2. /\ phase' = "stopped"
        /\ collected' = final_chunk(all, "stop", codex_usage(answer.usage, Output))
        /\ UNCHANGED <<answer, deltas, emitted_text>>
        /\ UNCHANGED <<start_usage, tool_block_indices, next_tool_index>>
    BY <1>13, <2>1 DEF CodexStops, Completed, Unchanged
  <2>3. Texts(answer.blocks) \in Text
    BY <1>0, TextsTyped
  <2>4. all \in Assembled
    BY <1>0, <2>1, <2>3, ChunksTyped
  <2>5. codex_usage(answer.usage, Output) \in Bill
    BY <1>0, BillsTyped
  <2>6. collected' \in Assembled
    BY <2>2, <2>4, <2>5, ChunksTyped
  <2> QED
    BY <2>2, <2>6 DEF StreamTypeOK
<1> QED
  BY <1>1, <1>2, <1>3, <1>4, <1>5, <1>6, <1>7, <1>8, <1>9, <1>10, <1>11, <1>12, <1>13 DEF Moves

TypesHold == StreamTypeOK /\ TalkTypeOK

(* The variables hold what their names say, in every adapter.              *)
THEOREM AdaptersTypeCorrect == AdaptersSpec => []TypesHold
<1>1. AdaptersInit => TypesHold
  BY TypesBegin DEF TypesHold
<1>2. TypesHold /\ [AdaptersNext]_<<conversation, own>> => TypesHold'
  <2>1. ASSUME TypesHold, AdaptersNext PROVE TypesHold'
    BY <2>1, NextMoves, TalkTyped, StreamTyped DEF TypesHold
  <2>2. ASSUME TypesHold, UNCHANGED <<conversation, own>> PROVE TypesHold'
    BY <2>2 DEF TypesHold, StreamTypeOK, TalkTypeOK, conversation, own, stream
  <2> QED
    BY <2>1, <2>2
<1> QED
  BY <1>1, <1>2, PTL DEF AdaptersSpec

-----------------------------------------------------------------------------
(* What the upstream has said and what the client has put together.        *)

---------------------------------------------------------------------------
(* The blocks of an answer, seen by their kind.                            *)

OfkindMoreFor(bs, b, kind) ==
  Ofkind(Append(bs, b), kind)
    = IF b.kind = kind THEN Append(Ofkind(bs, kind), b) ELSE Ofkind(bs, kind)
LEMMA OfkindMore ==
  ASSUME NEW kind
  PROVE  /\ Ofkind(<<>>, kind) = <<>>
         /\ \A bs \in Seq(AnswerBlock) :
              /\ Ofkind(bs, kind) \in Seq(AnswerBlock)
              /\ \A b \in AnswerBlock : OfkindMoreFor(bs, b, kind)
<1>1. PICK X : X = {b \in AnswerBlock : b.kind = kind}
  OBVIOUS
<1>a. \A bs \in Seq(AnswerBlock), b \in AnswerBlock :
        Among(Append(bs, b), X) = IF b \in X THEN Append(Among(bs, X), b) ELSE Among(bs, X)
  BY AmongMore
<1>b. \A bs \in Seq(AnswerBlock) : Among(bs, X) \in Seq(AnswerBlock)
  BY AmongIs
<1>2. ASSUME NEW bs \in Seq(AnswerBlock) PROVE Ofkind(bs, kind) = Among(bs, X)
  <2>1. \A i \in DOMAIN bs : bs[i] \in AnswerBlock
    OBVIOUS
  <2>2. {i \in DOMAIN bs : bs[i].kind = kind} = {i \in DOMAIN bs : bs[i] \in X}
    BY <1>1, <2>1
  <2> QED
    BY <2>2 DEF Ofkind, Among
<1>3. <<>> \in Seq(AnswerBlock)
  OBVIOUS
<1>4. Ofkind(<<>>, kind) = <<>>
  BY <1>2, <1>3, AmongMore
<1>5. ASSUME NEW bs \in Seq(AnswerBlock) PROVE Ofkind(bs, kind) \in Seq(AnswerBlock)
  BY <1>2, <1>b
<1>6. ASSUME NEW bs \in Seq(AnswerBlock), NEW b \in AnswerBlock PROVE OfkindMoreFor(bs, b, kind)
  <2>1. Append(bs, b) \in Seq(AnswerBlock)
    OBVIOUS
  <2>2. Ofkind(Append(bs, b), kind) = Among(Append(bs, b), X) /\ Ofkind(bs, kind) = Among(bs, X)
    BY <1>2, <2>1
  <2>3. Among(Append(bs, b), X) = IF b \in X THEN Append(Among(bs, X), b) ELSE Among(bs, X)
    BY <1>a
  <2>4. b \in X <=> b.kind = kind
    BY <1>1
  <2> QED
    BY <2>2, <2>3, <2>4 DEF OfkindMoreFor
<1> QED
  BY <1>4, <1>5, <1>6

TextsMoreFor(bs, b) == Texts(Append(bs, b)) = Texts(bs) \o b.text
LEMMA TextsMore ==
  /\ Texts(<<>>) = <<>>
  /\ \A bs \in Seq(AnswerBlock), b \in AnswerBlock : TextsMoreFor(bs, b)
<1>1. Texts(<<>>) = <<>>
  <2>1. [i \in DOMAIN <<>> |-> <<>>[i].text] = <<>>
    OBVIOUS
  <2> QED
    BY <2>1, FlattenNone DEF Texts
<1>2. ASSUME NEW bs \in Seq(AnswerBlock), NEW b \in AnswerBlock PROVE TextsMoreFor(bs, b)
  <2>1. PICK F : F = [x \in AnswerBlock |-> x.text]
    OBVIOUS
  <2>2. \A x \in AnswerBlock : F[x] = x.text /\ F[x] \in Seq(Fragments)
    BY <2>1 DEF AnswerBlock, Text
  <2>3. ASSUME NEW cs \in Seq(AnswerBlock) PROVE Texts(cs) = FlattenSeq(Each(F, cs))
    <3>1. \A i \in DOMAIN cs : cs[i] \in AnswerBlock
      OBVIOUS
    <3>2. [i \in DOMAIN cs |-> cs[i].text] = Each(F, cs)
      BY <2>2, <3>1 DEF Each
    <3> QED
      BY <3>2 DEF Texts
  <2>4. Append(bs, b) \in Seq(AnswerBlock)
    OBVIOUS
  <2>5. Texts(Append(bs, b)) = FlattenSeq(Each(F, Append(bs, b))) /\ Texts(bs) = FlattenSeq(Each(F, bs))
    BY <2>3, <2>4
  <2>6. Each(F, Append(bs, b)) = Append(Each(F, bs), F[b])
    BY EachMore
  <2>7. Each(F, bs) \in Seq(Seq(Fragments)) /\ F[b] \in Seq(Fragments)
    BY <2>2, EachIs
  <2>8. LongerFlat(Each(F, bs), F[b])
    BY <2>7, FlattenMore
  <2>9. F[b] = b.text
    BY <2>2
  <2> QED
    BY <2>5, <2>6, <2>8, <2>9 DEF LongerFlat, TextsMoreFor
<1> QED
  BY <1>1, <1>2

Said(bs) == Texts(Ofkind(bs, "text"))
SaidMoreFor(bs, b) == Said(Append(bs, b)) = IF b.kind = "text" THEN Said(bs) \o b.text ELSE Said(bs)
LEMMA SaidMore ==
  /\ Said(<<>>) = <<>>
  /\ \A bs \in Seq(AnswerBlock) :
       Said(bs) \in Text /\ \A b \in AnswerBlock : SaidMoreFor(bs, b)
<1>1. Said(<<>>) = <<>>
  BY OfkindMore, TextsMore DEF Said
<1>2. ASSUME NEW bs \in Seq(AnswerBlock), NEW b \in AnswerBlock
      PROVE  SaidMoreFor(bs, b)
  <2>1. PICK cs : cs = Ofkind(bs, "text")
    OBVIOUS
  <2>2. cs \in Seq(AnswerBlock)
    BY <2>1, OfkindMore
  <2>3. OfkindMoreFor(bs, b, "text")
    BY OfkindMore
  <2>4. TextsMoreFor(cs, b)
    BY <2>2, TextsMore
  <2> QED
    BY <2>1, <2>3, <2>4 DEF OfkindMoreFor, TextsMoreFor, SaidMoreFor, Said
<1>3. ASSUME NEW bs \in Seq(AnswerBlock) PROVE Said(bs) \in Text
  BY OfkindMore, TextsTyped DEF Said
<1> QED
  BY <1>1, <1>2, <1>3

(* A block without text says nothing; a text that grows is said.           *)
LEMMA SaidStarts ==
  ASSUME NEW bs \in Seq(AnswerBlock), NEW b \in AnswerBlock, b.text = <<>>
  PROVE  Said(Append(bs, b)) = Said(bs) /\ Texts(Append(bs, b)) = Texts(bs)
<1>1. SaidMoreFor(bs, b) /\ Said(bs) \in Seq(Fragments) /\ TextsMoreFor(bs, b)
  BY SaidMore, TextsMore DEF Text
<1>2. EmptyJoin(Said(bs))
  BY <1>1, JoinNone
<1>3. Texts(bs) \in Seq(Fragments)
  BY TextsTyped DEF Text
<1>4. EmptyJoin(Texts(bs))
  BY <1>3, JoinNone
<1> QED
  BY <1>1, <1>2, <1>4 DEF SaidMoreFor, TextsMoreFor, EmptyJoin

LEMMA SaidGrows ==
  ASSUME NEW front \in Seq(AnswerBlock), NEW old \in AnswerBlock, NEW part \in Fragments,
         Longer(old, part) \in AnswerBlock
  PROVE  /\ Said(Append(front, Longer(old, part)))
              = IF old.kind = "text" THEN Append(Said(Append(front, old)), part)
                ELSE Said(Append(front, old))
         /\ Texts(Append(front, Longer(old, part))) = Append(Texts(Append(front, old)), part)
<1>1. PICK new : new = Longer(old, part)
  OBVIOUS
<1>2. new \in AnswerBlock /\ new.kind = old.kind /\ new.text = Append(old.text, part)
  BY <1>1 DEF Longer
<1>3. SaidMoreFor(front, new) /\ SaidMoreFor(front, old) /\ TextsMoreFor(front, new) /\ TextsMoreFor(front, old)
  BY <1>2, SaidMore, TextsMore
<1>4. PICK s, t : s = Said(front) /\ t = Texts(front)
  OBVIOUS
<1>5. s \in Seq(Fragments) /\ t \in Seq(Fragments) /\ old.text \in Seq(Fragments)
  BY <1>4, SaidMore, TextsTyped DEF Text, AnswerBlock
<1>6. LongerJoin(s, old.text, part) /\ LongerJoin(t, old.text, part)
  BY <1>5, JoinMore
<1>7. s \o Append(old.text, part) = Append(s \o old.text, part)
      /\ t \o Append(old.text, part) = Append(t \o old.text, part)
  BY <1>6 DEF LongerJoin
<1>8. Texts(Append(front, new)) = Append(Texts(Append(front, old)), part)
  BY <1>2, <1>3, <1>4, <1>7 DEF TextsMoreFor
<1>9. CASE old.kind = "text"
  BY <1>1, <1>2, <1>3, <1>4, <1>7, <1>8, <1>9 DEF SaidMoreFor
<1>10. CASE old.kind # "text"
  BY <1>1, <1>2, <1>3, <1>8, <1>10 DEF SaidMoreFor
<1> QED
  BY <1>9, <1>10

---------------------------------------------------------------------------
(* The calls that have been collected, and the blocks that they are of.    *)

AsCall(b) == [id |-> b.of, name |-> restore_tool_name(b.name), arguments |-> b.text]
Recorded(tools, uses) ==
  /\ DOMAIN tools = 0..(Len(uses) - 1)
  /\ \A k \in 1..Len(uses) : tools[k - 1] = AsCall(uses[k])
UsesAt(bs) == {i \in DOMAIN bs : bs[i].kind = "tool_use"}
Numbered(t, I) == Len(t) = Cardinality(I) /\ \A k \in 1..Cardinality(I) : t[k] = Place(I, k)

LEMMA PlaceFromZero ==
  ASSUME NEW n \in Nat
  PROVE  /\ IsFiniteSet(0..(n - 1)) /\ Cardinality(0..(n - 1)) = n
         /\ \A k \in 1..n : Place(0..(n - 1), k) = k - 1
<1>1. IsFiniteSet(0..(n - 1)) /\ Cardinality(0..(n - 1)) = n
  BY FS_Interval
<1>2. PICK I : I = 0..(n - 1)
  OBVIOUS
<1>3. I \in SUBSET Nat /\ IsFiniteSet(I)
  BY <1>1, <1>2
<1>4. ASSUME NEW k \in 1..n PROVE Place(I, k) = k - 1
  <2>1. k - 1 \in I /\ k - 1 \in Nat
    BY <1>2
  <2>2. UpTo(I, k - 1) = 0..(k - 1)
    BY <1>2 DEF UpTo
  <2>3. Cardinality(0..(k - 1)) = k
    BY FS_Interval
  <2>4. Place(I, Cardinality(UpTo(I, k - 1))) = k - 1
    BY <1>3, <2>1, PlaceIsKth
  <2> QED
    BY <2>2, <2>3, <2>4
<1> QED
  BY <1>1, <1>2, <1>4

LEMMA RecordedCalls ==
  ASSUME NEW tools, NEW uses, Len(uses) \in Nat, DOMAIN uses = 1..Len(uses), Recorded(tools, uses)
  PROVE  InOrder(tools) = [k \in DOMAIN uses |-> AsCall(uses[k])]
<1>1. PICK n : n = Len(uses)
  OBVIOUS
<1>2. InOrder(tools) = [k \in 1..n |-> tools[Place(0..(n - 1), k)]]
  BY <1>1, PlaceFromZero DEF InOrder, Recorded
<1>3. ASSUME NEW k \in 1..n PROVE tools[Place(0..(n - 1), k)] = AsCall(uses[k])
  <2>1. Place(0..(n - 1), k) = k - 1
    BY <1>1, PlaceFromZero
  <2> QED
    BY <1>1, <2>1 DEF Recorded
<1> QED
  BY <1>1, <1>2, <1>3

(* The calls of an answer as the stream has told them.                     *)
NamesOffered(bs) ==
  \A i \in DOMAIN bs : bs[i].kind = "tool_use" => bs[i].name \in Offered \cup Registered
CallsKept(bs, tools, t, n) ==
  /\ Recorded(tools, Ofkind(bs, "tool_use"))
  /\ Numbered(t, UsesAt(bs)) /\ n = Len(t)
  /\ NamesOffered(bs)

LEMMA UsesMore ==
  ASSUME NEW bs \in Seq(AnswerBlock), NEW b \in AnswerBlock
  PROVE  /\ UsesAt(bs) \in SUBSET Nat /\ IsFiniteSet(UsesAt(bs)) /\ \A i \in UsesAt(bs) : i < Len(bs) + 1
         /\ UsesAt(Append(bs, b))
              = IF b.kind = "tool_use" THEN UsesAt(bs) \cup {Len(bs) + 1} ELSE UsesAt(bs)
         /\ Cardinality(UsesAt(bs)) = Len(Ofkind(bs, "tool_use"))
         /\ Cardinality(UsesAt(bs)) \in Nat
<1>1. PICK cs : cs = Append(bs, b)
  OBVIOUS
<1>2. /\ Len(bs) \in Nat /\ DOMAIN bs = 1..Len(bs) /\ DOMAIN cs = 1..(Len(bs) + 1)
      /\ cs[Len(bs) + 1] = b /\ \A i \in 1..Len(bs) : cs[i] = bs[i]
  BY <1>1
<1>3. UsesAt(bs) \in SUBSET DOMAIN bs
  BY DEF UsesAt
<1>4. IsFiniteSet(UsesAt(bs)) /\ UsesAt(bs) \in SUBSET Nat /\ Cardinality(UsesAt(bs)) \in Nat
  BY <1>3, OnlyIs
<1>5. \A i \in UsesAt(bs) : i < Len(bs) + 1
  BY <1>2, <1>3
<1>6. UsesAt(cs) = IF b.kind = "tool_use" THEN UsesAt(bs) \cup {Len(bs) + 1} ELSE UsesAt(bs)
  <2>1. ASSUME NEW i
        PROVE  i \in UsesAt(cs) <=> i \in UsesAt(bs) \/ (i = Len(bs) + 1 /\ b.kind = "tool_use")
    <3>1. i \in 1..(Len(bs) + 1) <=> i \in 1..Len(bs) \/ i = Len(bs) + 1
      BY <1>2
    <3>2. ~(Len(bs) + 1 \in 1..Len(bs))
      BY <1>2
    <3> QED
      BY <1>2, <3>1, <3>2 DEF UsesAt
  <2> QED
    BY <2>1
<1>7. Len(Ofkind(bs, "tool_use")) = Cardinality(UsesAt(bs))
  BY <1>3, OnlyIs DEF Ofkind, UsesAt
<1> QED
  BY <1>1, <1>4, <1>5, <1>6, <1>7

LEMMA NamesMore ==
  ASSUME NEW bs \in Seq(AnswerBlock), NEW b \in AnswerBlock
  PROVE  NamesOffered(Append(bs, b))
           <=> NamesOffered(bs) /\ (b.kind = "tool_use" => b.name \in Offered \cup Registered)
<1>1. PICK cs : cs = Append(bs, b)
  OBVIOUS
<1>2. /\ Len(bs) \in Nat /\ DOMAIN bs = 1..Len(bs) /\ DOMAIN cs = 1..(Len(bs) + 1)
      /\ cs[Len(bs) + 1] = b /\ \A i \in 1..Len(bs) : cs[i] = bs[i]
  BY <1>1
<1>3. \A i : i \in 1..(Len(bs) + 1) <=> i \in 1..Len(bs) \/ i = Len(bs) + 1
  BY <1>2
<1>4. NamesOffered(cs)
        <=> NamesOffered(bs) /\ (b.kind = "tool_use" => b.name \in Offered \cup Registered)
  BY <1>2, <1>3 DEF NamesOffered
<1> QED
  BY <1>1, <1>4

LEMMA NoCalls == CallsKept(<<>>, <<>>, <<>>, 0)
<1>1. Ofkind(<<>>, "tool_use") = <<>>
  BY OfkindMore
<1>2. UsesAt(<<>>) = {} /\ NamesOffered(<<>>)
  BY DEF UsesAt, NamesOffered
<1>3. Cardinality({}) = 0
  BY FS_EmptySet
<1>4. Recorded(<<>>, <<>>) /\ Numbered(<<>>, {})
  BY <1>3 DEF Recorded, Numbered
<1> QED
  BY <1>1, <1>2, <1>4 DEF CallsKept

LEMMA CallsOfOther ==
  ASSUME NEW bs \in Seq(AnswerBlock), NEW b \in AnswerBlock, b.kind # "tool_use",
         NEW tools, NEW t, NEW n
  PROVE  CallsKept(Append(bs, b), tools, t, n) <=> CallsKept(bs, tools, t, n)
<1>1. Ofkind(Append(bs, b), "tool_use") = Ofkind(bs, "tool_use")
  <2>1. OfkindMoreFor(bs, b, "tool_use")
    BY OfkindMore
  <2> QED
    BY <2>1 DEF OfkindMoreFor
<1>2. UsesAt(Append(bs, b)) = UsesAt(bs)
  BY UsesMore
<1>3. NamesOffered(Append(bs, b)) <=> NamesOffered(bs)
  BY NamesMore
<1> QED
  BY <1>1, <1>2, <1>3 DEF CallsKept

LEMMA CallsStart ==
  ASSUME NEW bs \in Seq(AnswerBlock), NEW b \in AnswerBlock, b.kind = "tool_use",
         b.name \in Offered \cup Registered,
         NEW tools, NEW t \in Seq(Nat), NEW n, CallsKept(bs, tools, t, n),
         NEW more, more = [i \in DOMAIN tools \cup {n} |-> IF i = n THEN AsCall(b) ELSE tools[i]]
  PROVE  /\ CallsKept(Append(bs, b), more, Append(t, Len(bs) + 1), n + 1)
         /\ n \notin DOMAIN tools
<1>1. PICK uses : uses = Ofkind(bs, "tool_use")
  OBVIOUS
<1>2. uses \in Seq(AnswerBlock)
  BY <1>1, OfkindMore
<1>3. Ofkind(Append(bs, b), "tool_use") = Append(uses, b)
  <2>1. OfkindMoreFor(bs, b, "tool_use")
    BY OfkindMore
  <2> QED
    BY <1>1, <2>1 DEF OfkindMoreFor
<1>4. PICK I : I = UsesAt(bs)
  OBVIOUS
<1>5. /\ I \in SUBSET Nat /\ IsFiniteSet(I) /\ \A i \in I : i < Len(bs) + 1
      /\ UsesAt(Append(bs, b)) = I \cup {Len(bs) + 1}
      /\ Cardinality(I) = Len(uses) /\ Cardinality(I) \in Nat
  BY <1>1, <1>4, UsesMore
<1>6. /\ Recorded(tools, uses) /\ Numbered(t, I) /\ n = Len(t) /\ NamesOffered(bs)
  BY <1>1, <1>4 DEF CallsKept
<1>7. n \in Nat /\ n = Cardinality(I) /\ n = Len(uses)
  BY <1>5, <1>6 DEF Numbered
<1>8. DOMAIN tools = 0..(n - 1) /\ n \notin DOMAIN tools
  BY <1>6, <1>7 DEF Recorded
<1>9. Recorded(more, Append(uses, b))
  <2>1. PICK us : us = Append(uses, b)
    OBVIOUS
  <2>2. Len(us) = n + 1 /\ us[n + 1] = b /\ \A k \in 1..n : us[k] = uses[k]
    BY <1>2, <1>7, <2>1
  <2>3. DOMAIN more = 0..((n + 1) - 1)
    BY <1>7, <1>8
  <2>4. ASSUME NEW k \in 1..(n + 1) PROVE more[k - 1] = AsCall(us[k])
    <3>1. CASE k = n + 1
      BY <1>7, <2>2, <3>1
    <3>2. CASE k # n + 1
      <4>1. k \in 1..n /\ k - 1 \in 0..(n - 1) /\ k - 1 # n
        BY <1>7, <3>2
      <4>2. tools[k - 1] = AsCall(uses[k])
        BY <1>6, <1>7, <4>1 DEF Recorded
      <4> QED
        BY <1>8, <2>2, <4>1, <4>2
    <3> QED
      BY <3>1, <3>2
  <2>5. Recorded(more, us)
    BY <2>2, <2>3, <2>4 DEF Recorded
  <2> QED
    BY <2>1, <2>5
<1>10. Numbered(Append(t, Len(bs) + 1), I \cup {Len(bs) + 1})
  <2>1. PICK m : m = Len(bs) + 1
    OBVIOUS
  <2>2. m \in Nat
    BY <2>1
  <2>3. /\ Cardinality(I \cup {m}) = n + 1
        /\ \A k \in 1..n : Place(I \cup {m}, k) = Place(I, k)
        /\ Place(I \cup {m}, n + 1) = m
    <3>1. I \in SUBSET Nat /\ IsFiniteSet(I) /\ (\A i \in I : i < m) /\ m \in Nat
      BY <1>5, <2>1, <2>2
    <3>2. /\ Cardinality(I \cup {m}) = Cardinality(I) + 1
          /\ \A k \in 1..Cardinality(I) : Place(I \cup {m}, k) = Place(I, k)
          /\ Place(I \cup {m}, Cardinality(I) + 1) = m
      BY <3>1, PlaceExtends
    <3> QED
      BY <1>7, <3>2
  <2>4. PICK u : u = Append(t, m)
    OBVIOUS
  <2>5. Len(u) = n + 1 /\ u[n + 1] = m /\ \A k \in 1..n : u[k] = t[k]
    BY <1>6, <2>4
  <2>6. \A k \in 1..n : t[k] = Place(I, k)
    BY <1>6, <1>7 DEF Numbered
  <2>7. ASSUME NEW k \in 1..(n + 1) PROVE u[k] = Place(I \cup {m}, k)
    <3>1. k = n + 1 \/ k \in 1..n
      BY <1>7
    <3> QED
      BY <2>3, <2>5, <2>6, <3>1
  <2>8. Numbered(u, I \cup {m})
    BY <2>3, <2>5, <2>7 DEF Numbered
  <2> QED
    BY <2>1, <2>4, <2>8
<1>11. NamesOffered(Append(bs, b))
  BY <1>6, NamesMore
<1>12. Len(Append(t, Len(bs) + 1)) = n + 1
  BY <1>6
<1> QED
  BY <1>3, <1>5, <1>8, <1>9, <1>10, <1>11, <1>12 DEF CallsKept

GrownCalls(front, old, new, tools, t, n) ==
  /\ n \in Nat /\ n >= 1 /\ n - 1 \in DOMAIN tools /\ tools[n - 1] = AsCall(old)
  /\ n \in DOMAIN t /\ \A k \in DOMAIN t : t[k] = Len(front) + 1 <=> k = n
  /\ \A more : more = [i \in DOMAIN tools \cup {n - 1} |->
                         IF i = n - 1 THEN AsCall(new) ELSE tools[i]]
       => CallsKept(Append(front, new), more, t, n)
LEMMA CallsGrow ==
  ASSUME NEW front \in Seq(AnswerBlock), NEW old \in AnswerBlock, old.kind = "tool_use",
         NEW new \in AnswerBlock, new.kind = old.kind, new.name = old.name,
         NEW tools, NEW t \in Seq(Nat), NEW n, CallsKept(Append(front, old), tools, t, n)
  PROVE  GrownCalls(front, old, new, tools, t, n)
<1>1. PICK uses : uses = Ofkind(front, "tool_use")
  OBVIOUS
<1>2. uses \in Seq(AnswerBlock)
  BY <1>1, OfkindMore
<1>3. /\ Ofkind(Append(front, old), "tool_use") = Append(uses, old)
      /\ Ofkind(Append(front, new), "tool_use") = Append(uses, new)
  <2>1. OfkindMoreFor(front, old, "tool_use") /\ OfkindMoreFor(front, new, "tool_use")
    BY OfkindMore
  <2> QED
    BY <1>1, <2>1 DEF OfkindMoreFor
<1>4. PICK I, m : I = UsesAt(front) /\ m = Len(front) + 1
  OBVIOUS
<1>5. /\ I \in SUBSET Nat /\ IsFiniteSet(I) /\ \A i \in I : i < m
      /\ UsesAt(Append(front, old)) = I \cup {m} /\ UsesAt(Append(front, new)) = I \cup {m}
      /\ Cardinality(I) = Len(uses) /\ Cardinality(I) \in Nat /\ m \in Nat
  BY <1>1, <1>4, UsesMore
<1>6. PICK l : l = Len(uses)
  OBVIOUS
<1>7. /\ Cardinality(I \cup {m}) = l + 1
      /\ \A k \in 1..l : Place(I \cup {m}, k) = Place(I, k)
      /\ Place(I \cup {m}, l + 1) = m
  <2>1. I \in SUBSET Nat /\ IsFiniteSet(I) /\ (\A i \in I : i < m) /\ m \in Nat
    BY <1>5
  <2>2. /\ Cardinality(I \cup {m}) = Cardinality(I) + 1
        /\ \A k \in 1..Cardinality(I) : Place(I \cup {m}, k) = Place(I, k)
        /\ Place(I \cup {m}, Cardinality(I) + 1) = m
    BY <2>1, PlaceExtends
  <2> QED
    BY <1>5, <1>6, <2>2
<1>8. Recorded(tools, Append(uses, old)) /\ Numbered(t, I \cup {m}) /\ n = Len(t)
      /\ NamesOffered(Append(front, old))
  BY <1>3, <1>5 DEF CallsKept
<1>9. n = l + 1 /\ l \in Nat
  BY <1>5, <1>6, <1>7, <1>8 DEF Numbered
<1>10. PICK us, vs : us = Append(uses, old) /\ vs = Append(uses, new)
  OBVIOUS
<1>11. /\ Len(us) = n /\ us[n] = old /\ \A k \in 1..l : us[k] = uses[k]
       /\ Len(vs) = n /\ vs[n] = new /\ \A k \in 1..l : vs[k] = uses[k]
  BY <1>2, <1>6, <1>9, <1>10
<1>12. DOMAIN tools = 0..(n - 1) /\ \A k \in 1..n : tools[k - 1] = AsCall(us[k])
  BY <1>8, <1>10, <1>11 DEF Recorded
<1>13. n \in Nat /\ n >= 1 /\ n - 1 \in DOMAIN tools /\ n \in 1..n
  BY <1>9, <1>12
<1>14. tools[n - 1] = AsCall(old)
  BY <1>11, <1>12, <1>13
<1>15. n \in DOMAIN t /\ \A k \in DOMAIN t : t[k] = m <=> k = n
  <2>1. DOMAIN t = 1..n /\ \A k \in 1..n : t[k] = Place(I \cup {m}, k)
    <3>1. DOMAIN t = 1..Len(t)
      OBVIOUS
    <3>2. n = Cardinality(I \cup {m}) /\ Len(t) = n
      BY <1>7, <1>8, <1>9
    <3>3. \A k \in 1..Cardinality(I \cup {m}) : t[k] = Place(I \cup {m}, k)
      BY <1>8 DEF Numbered
    <3> QED
      BY <3>1, <3>2, <3>3
  <2>2. t[n] = m
    BY <1>7, <1>9, <1>13, <2>1
  <2>3. ASSUME NEW k \in 1..n, k # n PROVE t[k] # m
    <3>1. k \in 1..l
      BY <1>9, <2>3
    <3>2. Place(I, k) \in I
      BY <1>5, <1>6, <3>1, PlaceIsKth
    <3>3. Place(I, k) # m
      BY <1>5, <3>2
    <3> QED
      BY <1>7, <2>1, <3>1, <3>3
  <2> QED
    BY <1>13, <2>1, <2>2, <2>3
<1>16. ASSUME NEW more, more = [i \in DOMAIN tools \cup {n - 1} |-> IF i = n - 1 THEN AsCall(new) ELSE tools[i]]
       PROVE  CallsKept(Append(front, new), more, t, n)
  <2>1. DOMAIN more = 0..(n - 1)
    BY <1>12, <1>13, <1>16
  <2>2. ASSUME NEW k \in 1..n PROVE more[k - 1] = AsCall(vs[k])
    <3>1. CASE k = n
      BY <1>11, <1>13, <1>16, <3>1
    <3>2. CASE k # n
      <4>1. k \in 1..l /\ k - 1 \in 0..(n - 1) /\ k - 1 # n - 1
        BY <1>9, <3>2
      <4>2. tools[k - 1] = AsCall(uses[k])
        BY <1>11, <1>12, <4>1
      <4>3. vs[k] = uses[k]
        BY <1>11, <4>1
      <4>4. more[k - 1] = tools[k - 1]
        BY <1>12, <1>16, <4>1
      <4> QED
        BY <4>2, <4>3, <4>4
    <3> QED
      BY <3>1, <3>2
  <2>3. Recorded(more, vs)
    BY <1>11, <2>1, <2>2 DEF Recorded
  <2>4. NamesOffered(Append(front, new))
    BY <1>8, NamesMore
  <2> QED
    BY <1>3, <1>5, <1>8, <1>10, <2>3, <2>4 DEF CallsKept
<1> QED
  BY <1>4, <1>13, <1>14, <1>15, <1>16 DEF GrownCalls

---------------------------------------------------------------------------
(* What each step does to the stream.                                      *)

OwnNames == IF route.adapter = "claude_code" THEN Offered ELSE Registered
PlainOrClaude == route.adapter \in {"claude_code", "anthropic"}
Counters == <<start_usage, tool_block_indices, next_tool_index>>

Stays ==
  /\ UNCHANGED <<answer, Counters, collected, deltas, emitted_text>>
  /\ \/ phase' = phase
     \/ phase = "client" /\ phase' = "waiting"
     \/ phase \in {"waiting", "streaming"} /\ phase' = "failed"
Resets ==
  /\ Reset
  /\ \/ deltas' = TRUE /\ emitted_text' = FALSE
     \/ phase = "failed" /\ UNCHANGED <<deltas, emitted_text>>
Opens ==
  /\ phase = "waiting" /\ phase' = "streaming" /\ answer'.blocks = <<>>
  /\ UNCHANGED <<tool_block_indices, next_tool_index, collected>>
  /\ IF PlainOrClaude THEN start_usage' = answer'.usage ELSE route.adapter = "codex" => emitted_text' = FALSE
Adds(block) ==
  /\ phase = "streaming" /\ UNCHANGED <<phase, start_usage, deltas, emitted_text>>
  /\ block \in AnswerBlock /\ block.text = <<>>
  /\ answer'.blocks = Append(answer.blocks, block) /\ answer'.usage = answer.usage
  /\ IF block.kind # "tool_use"
     THEN /\ route.adapter = "codex" => block.kind = "text"
          /\ UNCHANGED <<tool_block_indices, next_tool_index, collected>>
     ELSE /\ PlainOrClaude /\ block.name \in Offered \cup Registered /\ block.name \in OwnNames
          /\ tool_block_indices' = Append(tool_block_indices, Len(answer.blocks) + 1)
          /\ next_tool_index' = next_tool_index + 1
          /\ collected' = tool_call_start_chunk(collected, next_tool_index, block.of,
                                                restore_tool_name(block.name))
Told(front, old, part) ==
  /\ part \in Fragments /\ Grows(answer, answer', part, front, old)
  /\ phase = "streaming" /\ UNCHANGED <<phase, Counters, deltas>>
  /\ IF route.adapter = "codex"
     THEN collected' = (IF deltas THEN text_chunk(collected, part) ELSE collected) /\ emitted_text' = deltas
     ELSE collected' = CASE old.kind = "text" -> text_chunk(collected, part)
                         [] old.kind = "tool_use" ->
                              tool_call_args_chunk(collected, ToolIndex(Len(front) + 1), part)
                         [] old.kind = "thinking" -> reasoning_chunk(collected, part)
Closes ==
  /\ phase = "streaming" /\ phase' = "stopped" /\ UNCHANGED <<answer, Counters, deltas, emitted_text>>
  /\ route.adapter # "codex"
  /\ \E finish, usage :
       /\ PlainOrClaude /\ start_usage = answer.usage => usage = answer.usage
       /\ collected' = final_chunk(collected, finish, usage_to_openai(usage, Output))
ClosesCodex ==
  /\ phase = "streaming" /\ phase' = "stopped" /\ UNCHANGED <<answer, Counters, deltas, emitted_text>>
  /\ route.adapter = "codex"
  /\ collected' = final_chunk(IF ~emitted_text
                              THEN [collected EXCEPT !.text = @ \o Texts(answer.blocks)] ELSE collected,
                              "stop", codex_usage(answer.usage, Output))

StreamMoves ==
  \/ Stays \/ Resets \/ Opens \/ Closes \/ ClosesCodex
  \/ \E block : Adds(block)
  \/ \E front, old, part : Told(front, old, part)

LEMMA MovesAreStreamMoves ==
  ASSUME StreamTypeOK, TalkTypeOK, Moves
  PROVE  StreamMoves
<1>0. /\ answer \in [blocks : Seq(AnswerBlock), usage : Counts] /\ answer.blocks \in Seq(AnswerBlock)
      /\ collected \in Assembled /\ route.adapter \in AllAdapters
  BY AdaptersAssumption DEF StreamTypeOK, TalkTypeOK
<1>1. CASE SaySomething
  <2>1. Stays
    BY <1>1 DEF SaySomething, Says, own, stream, Counters, Stays
  <2> QED
    BY <2>1 DEF StreamMoves
<1>2. CASE Ask
  <2>1. Stays
    BY <1>2 DEF Ask, Sends, stream, Counters, Stays
  <2> QED
    BY <2>1 DEF StreamMoves
<1>3. CASE Finishes \/ Gives \/ FailsNow
  <2>1. Resets
    BY <1>3 DEF Finishes, EndsKeeping, Gives, FailsNow, Fails, Resets
  <2> QED
    BY <2>1 DEF StreamMoves
<1>4. CASE RefusesNow
  <2>1. Stays
    BY <1>4 DEF RefusesNow, Refuses, Unchanged, Counters, Stays
  <2> QED
    BY <2>1 DEF StreamMoves
<1>5. CASE StartsStream
  <2>1. PICK usage \in Usages :
          \/ /\ PlainOrClaude
             /\ message_start(usage)
          \/ /\ route.adapter \in {"codex", "openai"}
             /\ \E streams \in BOOLEAN : Created(usage, streams)
    BY <1>5 DEF StartsStream, PlainOrClaude
  <2>2. [NoAnswer EXCEPT !.usage = usage] = [blocks |-> <<>>, usage |-> usage]
    BY DEF NoAnswer
  <2>3. CASE PlainOrClaude /\ message_start(usage)
    <3>1. Opens
      BY <2>2, <2>3 DEF message_start, Opens
    <3> QED
      BY <3>1 DEF StreamMoves
  <2>4. CASE /\ route.adapter \in {"codex", "openai"}
             /\ \E streams \in BOOLEAN : Created(usage, streams)
    <3>1. ~PlainOrClaude
      BY <2>4 DEF PlainOrClaude
    <3>2. Opens
      BY <2>2, <2>4, <3>1 DEF Created, Unchanged, Opens
    <3> QED
      BY <3>2 DEF StreamMoves
  <2> QED
    BY <2>1, <2>3, <2>4
<1>6. CASE StartsBlock
  <2>1. PICK kind \in {"thinking", "text"} :
          /\ kind = "thinking" => route.adapter \in {"claude_code", "openai"}
          /\ content_block_start(kind) /\ UNCHANGED <<deltas, emitted_text>>
    BY <1>6 DEF StartsBlock
  <2>2. PICK block : block = Block(kind, 0, "", <<>>)
    OBVIOUS
  <2>3. block \in AnswerBlock /\ block.text = <<>> /\ block.kind = kind
    BY <2>2, BlocksTyped DEF Block
  <2>4. /\ phase = "streaming" /\ answer' = [answer EXCEPT !.blocks = Append(@, block)]
        /\ UNCHANGED <<phase, start_usage, tool_block_indices, next_tool_index, collected>>
    BY <2>1, <2>2 DEF content_block_start, Starts
  <2>5. answer'.blocks = Append(answer.blocks, block) /\ answer'.usage = answer.usage
    BY <1>0, <2>3, <2>4, StartsTyped
  <2>6. Adds(block)
    BY <2>1, <2>3, <2>4, <2>5 DEF Adds
  <2> QED
    BY <2>6 DEF StreamMoves
<1>7. CASE StartsTool
  <2>1. PICK name \in ToolNames : /\ name \in IF route.adapter = "claude_code" THEN Offered ELSE Registered
                                  /\ tool_use_start(name) /\ UNCHANGED <<deltas, emitted_text>>
    BY <1>7 DEF StartsTool
  <2>2. PICK block : block = Block("tool_use", NextId, name, <<>>)
    OBVIOUS
  <2>3. NextId \in Nat
    BY NextIdTyped
  <2>4. /\ block \in AnswerBlock /\ block.text = <<>> /\ block.kind = "tool_use" /\ block.of = NextId
        /\ block.name = name
    BY <2>2, <2>3, BlocksTyped DEF Block
  <2>5. /\ phase = "streaming" /\ answer' = [answer EXCEPT !.blocks = Append(@, block)]
        /\ UNCHANGED <<phase, start_usage>>
        /\ tool_block_indices' = Append(tool_block_indices, Len(answer.blocks) + 1)
        /\ next_tool_index' = next_tool_index + 1
        /\ collected' = tool_call_start_chunk(collected, next_tool_index, NextId, restore_tool_name(name))
    BY <2>1, <2>2 DEF tool_use_start, Starts
  <2>6. answer'.blocks = Append(answer.blocks, block) /\ answer'.usage = answer.usage
    BY <1>0, <2>4, <2>5, StartsTyped
  <2>7. PlainOrClaude /\ name \in Offered \cup Registered /\ name \in OwnNames
    BY <1>7, <2>1 DEF StartsTool, PlainOrClaude, OwnNames
  <2>8. Adds(block)
    BY <2>1, <2>4, <2>5, <2>6, <2>7 DEF Adds
  <2> QED
    BY <2>8 DEF StreamMoves
<1>8. CASE TellsPart
  <2>1. PICK part \in {"x", "}"} : Delta(part) /\ UNCHANGED <<deltas, emitted_text>>
    BY <1>8 DEF TellsPart
  <2>2. part \in Fragments /\ route.adapter # "codex"
    BY <1>8, Values DEF TellsPart
  <2>3. PICK block : block = Last(answer.blocks)
    OBVIOUS
  <2>4. /\ Len(answer.blocks) > 0 /\ phase = "streaming"
        /\ answer' = [answer EXCEPT !.blocks[Len(answer.blocks)].text = Append(@, part)]
        /\ collected' = CASE block.kind = "text" -> text_chunk(collected, part)
                          [] block.kind = "tool_use" ->
                               tool_call_args_chunk(collected, ToolIndex(Len(answer.blocks)), part)
                          [] block.kind = "thinking" -> reasoning_chunk(collected, part)
        /\ UNCHANGED <<phase, start_usage, tool_block_indices, next_tool_index>>
    BY <2>1, <2>3 DEF Delta, stream
  <2>5. PICK front, old : Grows(answer, answer', part, front, old)
    BY <1>0, <2>2, <2>4, LastGrows
  <2>6. block = old /\ Len(answer.blocks) = Len(front) + 1
    BY <1>0, <2>3, <2>4, <2>5, LastIs DEF Grows
  <2>7. Told(front, old, part)
    BY <2>1, <2>2, <2>4, <2>5, <2>6 DEF Told, Counters
  <2> QED
    BY <2>7 DEF StreamMoves
<1>9. CASE CodexTellsPart
  <2>1. /\ Len(answer.blocks) > 0 /\ phase = "streaming" /\ route.adapter = "codex"
        /\ answer' = [answer EXCEPT !.blocks[Len(answer.blocks)].text = Append(@, "x")]
        /\ collected' = IF deltas THEN text_chunk(collected, "x") ELSE collected
        /\ emitted_text' = deltas /\ UNCHANGED <<phase, deltas>>
        /\ UNCHANGED <<start_usage, tool_block_indices, next_tool_index>>
    BY <1>9 DEF CodexTellsPart, OutputTextDelta, Unchanged
  <2>2. "x" \in Fragments
    BY DEF Fragments
  <2>3. PICK front, old : Grows(answer, answer', "x", front, old)
    BY <1>0, <2>1, <2>2, LastGrows
  <2>4. Told(front, old, "x")
    BY <2>1, <2>2, <2>3 DEF Told, Counters
  <2> QED
    BY <2>4 DEF StreamMoves
<1>10. CASE StopsStream
  <2>1. PICK stop \in {"end_turn", "max_tokens", "tool_use"}, usage \in Counts :
          /\ route.adapter = "claude_code" =>
               \E u \in {NoUsage, answer.usage} : usage = Merged(start_usage, u)
          /\ route.adapter = "anthropic" =>
               \E u \in {NoUsage, answer.usage} : usage = MergedInput(start_usage, u)
          /\ Stops(stop, usage)
    BY <1>10 DEF StopsStream
  <2>2. PlainOrClaude /\ start_usage = answer.usage => usage = answer.usage
    BY <2>1, UsageKept DEF PlainOrClaude
  <2>3. /\ phase = "streaming" /\ phase' = "stopped"
        /\ collected' = final_chunk(collected, finish_reason(stop), usage_to_openai(usage, Output))
        /\ UNCHANGED <<answer, start_usage, tool_block_indices, next_tool_index>>
    BY <2>1 DEF Stops, stream
  <2>4. route.adapter # "codex" /\ UNCHANGED <<deltas, emitted_text>>
    BY <1>10 DEF StopsStream
  <2>5. Closes
    BY <2>2, <2>3, <2>4 DEF Closes, Counters
  <2> QED
    BY <2>5 DEF StreamMoves
<1>11. CASE CodexStops
  <2>1. ClosesCodex
    BY <1>11 DEF CodexStops, Completed, FallsBack, Unchanged, ClosesCodex, Counters
  <2> QED
    BY <2>1 DEF StreamMoves
<1> QED
  BY <1>1, <1>2, <1>3, <1>4, <1>5, <1>6, <1>7, <1>8, <1>9, <1>10, <1>11 DEF Moves

(* The adapter of a conversation stays.                                    *)
LEMMA RouteStays == ASSUME Moves PROVE route' = route
<1>1. CASE SaySomething \/ Ask \/ Finishes \/ Gives \/ FailsNow
  BY <1>1 DEF SaySomething, own, Ask, Finishes, Gives, FailsNow, Extra
<1>2. CASE RefusesNow
  BY <1>2 DEF RefusesNow, Refuses
<1>3. CASE StartsStream \/ StartsBlock \/ StartsTool
  BY <1>3 DEF StartsStream, StartsBlock, StartsTool, Extra
<1>4. CASE TellsPart \/ CodexTellsPart \/ StopsStream \/ CodexStops
  BY <1>4 DEF TellsPart, CodexTellsPart, StopsStream, CodexStops, Extra
<1> QED
  BY <1>1, <1>2, <1>3, <1>4 DEF Moves

---------------------------------------------------------------------------
(* What a stream has told so far.                                          *)

NothingYet ==
  phase \in {"client", "waiting"} =>
    /\ answer.blocks = <<>> /\ collected = Nothing
    /\ tool_block_indices = <<>> /\ next_tool_index = 0
CallsAreKept == CallsKept(answer.blocks, collected.tools, tool_block_indices, next_tool_index)
CodexText ==
  /\ \A i \in DOMAIN answer.blocks : answer.blocks[i].kind = "text"
  /\ IF phase = "stopped"
     THEN /\ collected.text = Texts(answer.blocks)
          /\ collected.usage = codex_usage(answer.usage, Output)
     ELSE /\ deltas => collected.text = Texts(answer.blocks)
          /\ ~deltas \/ ~emitted_text => collected.text = <<>>
          /\ emitted_text => deltas
TextIsKept ==
  IF route.adapter = "codex" THEN CodexText ELSE collected.text = Said(answer.blocks)
UsageIsKept ==
  PlainOrClaude =>
    /\ phase = "streaming" => start_usage = answer.usage
    /\ phase = "stopped" => collected.usage = usage_to_openai(answer.usage, Output)
StreamKept == NothingYet /\ CallsAreKept /\ TextIsKept /\ UsageIsKept

ChunkKeeps(c, part) ==
  /\ text_chunk(c, part).text = Append(c.text, part) /\ text_chunk(c, part).tools = c.tools
  /\ reasoning_chunk(c, part).text = c.text /\ reasoning_chunk(c, part).tools = c.tools
EntryKeeps(c, index, put) ==
  /\ WithEntry(c, index, put).text = c.text
  /\ WithEntry(c, index, put).tools
       = [i \in DOMAIN c.tools \cup {index} |-> IF i = index THEN put ELSE c.tools[i]]
FinalKeeps(c, finish, usage) ==
  /\ final_chunk(c, finish, usage).text = c.text /\ final_chunk(c, finish, usage).tools = c.tools
  /\ final_chunk(c, finish, usage).usage = usage
LEMMA ChunkFields ==
  ASSUME NEW c \in Assembled
  PROVE  /\ \A part : ChunkKeeps(c, part)
         /\ \A index, put : EntryKeeps(c, index, put)
         /\ \A finish, usage : FinalKeeps(c, finish, usage)
<1>1. c = [text |-> c.text, reasoning |-> c.reasoning, tools |-> c.tools,
           finish |-> c.finish, usage |-> c.usage]
  BY DEF Assembled
<1>2. ASSUME NEW part PROVE ChunkKeeps(c, part)
  BY <1>1 DEF text_chunk, reasoning_chunk, ChunkKeeps
<1>3. ASSUME NEW index, NEW put PROVE EntryKeeps(c, index, put)
  BY <1>1 DEF WithEntry, EntryKeeps
<1>4. ASSUME NEW finish, NEW usage PROVE FinalKeeps(c, finish, usage)
  BY <1>1 DEF final_chunk, FinalKeeps
<1> QED
  BY <1>2, <1>3, <1>4

LEMMA KeptFromNothing ==
  /\ Nothing.text = <<>> /\ Nothing.tools = <<>>
  /\ Said(<<>>) = <<>> /\ Texts(<<>>) = <<>>
  /\ CallsKept(<<>>, Nothing.tools, <<>>, 0)
BY SaidMore, TextsMore, NoCalls DEF Nothing

LEMMA CallsAreKeptOn ==
  ASSUME StreamTypeOK, StreamMoves, StreamKept, route' = route
  PROVE  CallsAreKept'
<1>0. /\ answer.blocks \in Seq(AnswerBlock) /\ collected \in Assembled
      /\ tool_block_indices \in Seq(Nat) /\ next_tool_index \in Nat
      /\ CallsKept(answer.blocks, collected.tools, tool_block_indices, next_tool_index)
  BY DEF StreamTypeOK, StreamKept, CallsAreKept
<1>1. CASE Stays
  BY <1>0, <1>1 DEF Stays, Counters, CallsAreKept
<1>2. CASE Resets
  <2>1. /\ answer' = NoAnswer /\ collected' = Nothing /\ tool_block_indices' = <<>>
        /\ next_tool_index' = 0 /\ NoAnswer.blocks = <<>>
    BY <1>2 DEF Resets, Reset, NoAnswer
  <2> QED
    BY <2>1, KeptFromNothing DEF CallsAreKept
<1>3. CASE Opens
  <2>1. /\ answer'.blocks = <<>> /\ collected' = Nothing /\ tool_block_indices' = <<>>
        /\ next_tool_index' = 0
    BY <1>3 DEF Opens, StreamKept, NothingYet
  <2> QED
    BY <2>1, KeptFromNothing DEF CallsAreKept
<1>4. CASE Closes
  <2>1. UNCHANGED <<answer, tool_block_indices, next_tool_index>> /\ collected'.tools = collected.tools
    <3>1. PICK finish, usage : collected' = final_chunk(collected, finish, usage_to_openai(usage, Output))
      BY <1>4 DEF Closes
    <3>2. FinalKeeps(collected, finish, usage_to_openai(usage, Output))
      BY <1>0, ChunkFields
    <3> QED
      BY <1>4, <3>1, <3>2 DEF Closes, Counters, FinalKeeps
  <2> QED
    BY <1>0, <2>1 DEF CallsAreKept
<1>5. CASE ClosesCodex
  <2>1. PICK all : all = IF ~emitted_text THEN [collected EXCEPT !.text = @ \o Texts(answer.blocks)] ELSE collected
    OBVIOUS
  <2>2. Texts(answer.blocks) \in Text
    BY <1>0, TextsTyped
  <2>3. all \in Assembled
    BY <1>0, <2>1, <2>2, ChunksTyped
  <2>4. all.tools = collected.tools
    BY <1>0, <2>1 DEF Assembled
  <2>5. UNCHANGED <<answer, tool_block_indices, next_tool_index>> /\ collected'.tools = all.tools
    <3>1. FinalKeeps(all, "stop", codex_usage(answer.usage, Output))
      BY <2>3, ChunkFields
    <3> QED
      BY <1>5, <2>1, <3>1 DEF ClosesCodex, Counters, FinalKeeps
  <2> QED
    BY <1>0, <2>4, <2>5 DEF CallsAreKept
<1>6. ASSUME NEW block, Adds(block) PROVE CallsAreKept'
  <2>1. block \in AnswerBlock /\ answer'.blocks = Append(answer.blocks, block) /\ block.text = <<>>
    BY <1>6 DEF Adds
  <2>2. CASE block.kind # "tool_use"
    <3>1. UNCHANGED <<tool_block_indices, next_tool_index, collected>>
      BY <1>6, <2>2 DEF Adds
    <3> QED
      BY <1>0, <2>1, <2>2, <3>1, CallsOfOther DEF CallsAreKept
  <2>3. CASE block.kind = "tool_use"
    <3>1. /\ block.name \in Offered \cup Registered
          /\ tool_block_indices' = Append(tool_block_indices, Len(answer.blocks) + 1)
          /\ next_tool_index' = next_tool_index + 1
          /\ collected' = tool_call_start_chunk(collected, next_tool_index, block.of,
                                                restore_tool_name(block.name))
      BY <1>6, <2>3 DEF Adds
    <3>2. PICK more : more = [i \in DOMAIN collected.tools \cup {next_tool_index} |->
                                IF i = next_tool_index THEN AsCall(block) ELSE collected.tools[i]]
      OBVIOUS
    <3>3. /\ CallsKept(Append(answer.blocks, block), more,
                       Append(tool_block_indices, Len(answer.blocks) + 1), next_tool_index + 1)
          /\ next_tool_index \notin DOMAIN collected.tools
      BY <1>0, <2>1, <2>3, <3>1, <3>2, CallsStart
    <3>4. Entry(collected, next_tool_index).arguments = <<>>
      BY <3>3 DEF Entry, NewCall
    <3>5. [id |-> block.of, name |-> restore_tool_name(block.name),
           arguments |-> Entry(collected, next_tool_index).arguments] = AsCall(block)
      BY <2>1, <3>4 DEF AsCall
    <3>6. collected' = WithEntry(collected, next_tool_index, AsCall(block))
      BY <3>1, <3>5 DEF tool_call_start_chunk
    <3>7. collected'.tools = more
      <4>1. EntryKeeps(collected, next_tool_index, AsCall(block))
        BY <1>0, ChunkFields
      <4> QED
        BY <3>2, <3>6, <4>1 DEF EntryKeeps
    <3> QED
      BY <2>1, <3>1, <3>3, <3>7 DEF CallsAreKept
  <2> QED
    BY <2>2, <2>3
<1>7. ASSUME NEW front, NEW old, NEW part, Told(front, old, part) PROVE CallsAreKept'
  <2>1. PICK new : new = Longer(old, part)
    OBVIOUS
  <2>2. /\ front \in Seq(AnswerBlock) /\ old \in AnswerBlock /\ new \in AnswerBlock
        /\ answer.blocks = Append(front, old) /\ answer'.blocks = Append(front, new)
        /\ new.kind = old.kind /\ new.name = old.name /\ new.of = old.of
        /\ new.text = Append(old.text, part) /\ part \in Fragments
        /\ UNCHANGED <<tool_block_indices, next_tool_index>>
    BY <1>7, <2>1 DEF Told, Grows, Longer, Counters
  <2>3. CASE old.kind # "tool_use"
    <3>1. collected'.tools = collected.tools
      <4>1. \/ collected' = collected \/ collected' = text_chunk(collected, part)
            \/ collected' = reasoning_chunk(collected, part)
        <5>1. old.kind \in {"text", "thinking"}
          BY <2>2, <2>3 DEF AnswerBlock
        <5> QED
          BY <1>7, <5>1 DEF Told
      <4>2. ChunkKeeps(collected, part)
        BY <1>0, ChunkFields
      <4> QED
        BY <4>1, <4>2 DEF ChunkKeeps
    <3>2. CallsKept(front, collected.tools, tool_block_indices, next_tool_index)
      BY <1>0, <2>2, <2>3, CallsOfOther
    <3>3. CallsKept(Append(front, new), collected.tools, tool_block_indices, next_tool_index)
      BY <2>2, <2>3, <3>2, CallsOfOther
    <3> QED
      BY <2>2, <3>1, <3>3 DEF CallsAreKept
  <2>4. CASE old.kind = "tool_use"
    <3>0. CallsKept(Append(front, old), collected.tools, tool_block_indices, next_tool_index)
      BY <1>0, <2>2
    <3>1. PICK n, t, tools : n = next_tool_index /\ t = tool_block_indices /\ tools = collected.tools
      OBVIOUS
    <3>a. CallsKept(Append(front, old), tools, t, n) /\ t \in Seq(Nat)
      BY <1>0, <3>0, <3>1
    <3>b. GrownCalls(front, old, new, tools, t, n)
      BY <2>2, <2>4, <3>a, CallsGrow
    <3>2. /\ n \in Nat /\ n >= 1 /\ n - 1 \in DOMAIN tools /\ tools[n - 1] = AsCall(old)
          /\ n \in DOMAIN t /\ \A k \in DOMAIN t : t[k] = Len(front) + 1 <=> k = n
          /\ \A more : more = [i \in DOMAIN tools \cup {n - 1} |->
                                 IF i = n - 1 THEN AsCall(new) ELSE tools[i]]
               => CallsKept(Append(front, new), more, t, n)
      BY <3>b DEF GrownCalls
    <3>3. route.adapter # "codex"
      <4>1. SUFFICES ASSUME route.adapter = "codex" PROVE FALSE
        OBVIOUS
      <4>2. \A i \in DOMAIN answer.blocks : answer.blocks[i].kind = "text"
        BY <4>1 DEF StreamKept, TextIsKept, CodexText
      <4>3. Len(answer.blocks) \in DOMAIN answer.blocks /\ answer.blocks[Len(answer.blocks)] = old
        BY <2>2
      <4> QED
        BY <2>4, <4>2, <4>3
    <3>4. collected' = tool_call_args_chunk(collected, ToolIndex(Len(front) + 1), part)
      BY <1>7, <2>4, <3>3 DEF Told
    <3>5. ToolIndex(Len(front) + 1) = n - 1
      <4>1. Len(front) + 1 \in ToSet(t)
        BY <3>2 DEF ToSet
      <4>2. (CHOOSE k \in DOMAIN t : t[k] = Len(front) + 1) = n
        BY <3>2
      <4> QED
        BY <3>1, <4>1, <4>2 DEF ToolIndex
    <3>6. Entry(collected, n - 1) = AsCall(old)
      BY <3>1, <3>2 DEF Entry
    <3>7. AsCall(old) \in ToolCall
      <4>1. restore_tool_name(old.name) \in ToolNames
        BY <2>2, Restored, Names DEF AnswerBlock
      <4> QED
        BY <2>2, <4>1 DEF AsCall, AnswerBlock, ToolCall
    <3>8. [AsCall(old) EXCEPT !.arguments = Append(@, part)] = AsCall(new)
      <4>1. [AsCall(old) EXCEPT !.arguments = Append(@, part)]
              = [id |-> AsCall(old).id, name |-> AsCall(old).name,
                 arguments |-> Append(AsCall(old).arguments, part)]
        BY <2>2, <3>7, CallsChange
      <4> QED
        BY <2>2, <4>1 DEF AsCall
    <3>9. collected' = WithEntry(collected, n - 1, AsCall(new))
      BY <3>4, <3>5, <3>6, <3>8 DEF tool_call_args_chunk
    <3>10. collected'.tools = [i \in DOMAIN tools \cup {n - 1} |-> IF i = n - 1 THEN AsCall(new) ELSE tools[i]]
      <4>1. EntryKeeps(collected, n - 1, AsCall(new))
        BY <1>0, ChunkFields
      <4> QED
        BY <3>1, <3>9, <4>1 DEF EntryKeeps
    <3> QED
      BY <2>2, <3>1, <3>2, <3>10 DEF CallsAreKept
  <2> QED
    BY <2>3, <2>4
<1> QED
  BY <1>1, <1>2, <1>3, <1>4, <1>5, <1>6, <1>7 DEF StreamMoves

LEMMA NothingYetOn ==
  ASSUME StreamMoves, StreamKept
  PROVE  NothingYet'
<1>1. CASE Stays
  BY <1>1 DEF Stays, Counters, StreamKept, NothingYet
<1>2. CASE Resets
  BY <1>2 DEF Resets, Reset, NoAnswer, NothingYet
<1>3. CASE Opens \/ Closes \/ ClosesCodex
  BY <1>3 DEF Opens, Closes, ClosesCodex, NothingYet
<1>4. ASSUME NEW block, Adds(block) PROVE NothingYet'
  BY <1>4 DEF Adds, NothingYet
<1>5. ASSUME NEW front, NEW old, NEW part, Told(front, old, part) PROVE NothingYet'
  BY <1>5 DEF Told, NothingYet
<1> QED
  BY <1>1, <1>2, <1>3, <1>4, <1>5 DEF StreamMoves

LEMMA UsageIsKeptOn ==
  ASSUME StreamTypeOK, StreamMoves, StreamKept, route' = route
  PROVE  UsageIsKept'
<1>0. collected \in Assembled /\ UsageIsKept /\ (PlainOrClaude' <=> PlainOrClaude)
  BY DEF StreamTypeOK, StreamKept, PlainOrClaude
<1>1. CASE Stays
  BY <1>0, <1>1 DEF Stays, Counters, UsageIsKept, Output
<1>2. CASE Resets
  BY <1>2 DEF Resets, Reset, UsageIsKept
<1>3. CASE Opens
  BY <1>0, <1>3 DEF Opens, UsageIsKept
<1>4. CASE Closes
  <2>1. PICK finish, usage :
          /\ PlainOrClaude /\ start_usage = answer.usage => usage = answer.usage
          /\ collected' = final_chunk(collected, finish, usage_to_openai(usage, Output))
    BY <1>4 DEF Closes
  <2>2. FinalKeeps(collected, finish, usage_to_openai(usage, Output))
    BY <1>0, ChunkFields
  <2>3. PlainOrClaude => usage = answer.usage
    BY <1>0, <1>4, <2>1 DEF Closes, UsageIsKept
  <2>4. phase' = "stopped" /\ answer' = answer /\ Output' = Output
    BY <1>4 DEF Closes, Output
  <2> QED
    BY <1>0, <2>1, <2>2, <2>3, <2>4 DEF UsageIsKept, FinalKeeps
<1>5. CASE ClosesCodex
  BY <1>0, <1>5 DEF ClosesCodex, UsageIsKept, PlainOrClaude
<1>6. ASSUME NEW block, Adds(block) PROVE UsageIsKept'
  BY <1>0, <1>6 DEF Adds, UsageIsKept
<1>7. ASSUME NEW front, NEW old, NEW part, Told(front, old, part) PROVE UsageIsKept'
  BY <1>0, <1>7 DEF Told, Grows, Counters, UsageIsKept
<1> QED
  BY <1>1, <1>2, <1>3, <1>4, <1>5, <1>6, <1>7 DEF StreamMoves

LEMMA TextIsKeptOn ==
  ASSUME StreamTypeOK, StreamMoves, StreamKept, route' = route, route.adapter # "codex"
  PROVE  TextIsKept'
<1>0. /\ answer.blocks \in Seq(AnswerBlock) /\ collected \in Assembled
      /\ collected.text = Said(answer.blocks) /\ route'.adapter # "codex"
  BY DEF StreamTypeOK, StreamKept, TextIsKept
<1>a. SUFFICES collected'.text = Said(answer'.blocks)
  BY <1>0 DEF TextIsKept
<1>1. CASE Stays
  BY <1>0, <1>1 DEF Stays
<1>2. CASE Resets
  <2>1. answer' = NoAnswer /\ collected' = Nothing /\ NoAnswer.blocks = <<>>
    BY <1>2 DEF Resets, Reset, NoAnswer
  <2> QED
    BY <2>1, KeptFromNothing
<1>3. CASE Opens
  <2>1. answer'.blocks = <<>> /\ collected' = Nothing
    BY <1>3 DEF Opens, StreamKept, NothingYet
  <2> QED
    BY <2>1, KeptFromNothing
<1>4. CASE Closes
  <2>1. PICK finish, usage : collected' = final_chunk(collected, finish, usage_to_openai(usage, Output))
    BY <1>4 DEF Closes
  <2>2. FinalKeeps(collected, finish, usage_to_openai(usage, Output))
    BY <1>0, ChunkFields
  <2> QED
    BY <1>0, <1>4, <2>1, <2>2 DEF Closes, FinalKeeps
<1>5. CASE ClosesCodex
  BY <1>5 DEF ClosesCodex
<1>6. ASSUME NEW block, Adds(block) PROVE collected'.text = Said(answer'.blocks)
  <2>1. block \in AnswerBlock /\ answer'.blocks = Append(answer.blocks, block) /\ block.text = <<>>
    BY <1>6 DEF Adds
  <2>2. Said(answer'.blocks) = Said(answer.blocks)
    BY <1>0, <2>1, SaidStarts
  <2>3. collected'.text = collected.text
    <3>1. CASE block.kind # "tool_use"
      BY <1>6, <3>1 DEF Adds
    <3>2. CASE block.kind = "tool_use"
      <4>1. PICK put : collected' = WithEntry(collected, next_tool_index, put)
        BY <1>6, <3>2 DEF Adds, tool_call_start_chunk
      <4>2. EntryKeeps(collected, next_tool_index, put)
        BY <1>0, ChunkFields
      <4> QED
        BY <4>1, <4>2 DEF EntryKeeps
    <3> QED
      BY <3>1, <3>2
  <2> QED
    BY <1>0, <2>2, <2>3
<1>7. ASSUME NEW front, NEW old, NEW part, Told(front, old, part) PROVE collected'.text = Said(answer'.blocks)
  <2>1. /\ front \in Seq(AnswerBlock) /\ old \in AnswerBlock /\ Longer(old, part) \in AnswerBlock
        /\ answer.blocks = Append(front, old) /\ answer'.blocks = Append(front, Longer(old, part))
        /\ part \in Fragments /\ old.kind \in {"text", "tool_use", "thinking"}
    BY <1>7 DEF Told, Grows, AnswerBlock
  <2>2. Said(answer'.blocks) = IF old.kind = "text" THEN Append(Said(answer.blocks), part) ELSE Said(answer.blocks)
    BY <2>1, SaidGrows
  <2>3. collected' = CASE old.kind = "text" -> text_chunk(collected, part)
                       [] old.kind = "tool_use" ->
                            tool_call_args_chunk(collected, ToolIndex(Len(front) + 1), part)
                       [] old.kind = "thinking" -> reasoning_chunk(collected, part)
    BY <1>7 DEF Told
  <2>4. ChunkKeeps(collected, part)
    BY <1>0, ChunkFields
  <2>5. CASE old.kind = "text"
    BY <1>0, <2>2, <2>3, <2>4, <2>5 DEF ChunkKeeps
  <2>6. CASE old.kind = "thinking"
    BY <1>0, <2>2, <2>3, <2>4, <2>6 DEF ChunkKeeps
  <2>7. CASE old.kind = "tool_use"
    <3>1. PICK index, put : collected' = WithEntry(collected, index, put)
      BY <2>3, <2>7 DEF tool_call_args_chunk
    <3>2. EntryKeeps(collected, index, put)
      BY <1>0, ChunkFields
    <3> QED
      BY <1>0, <2>2, <2>7, <3>1, <3>2 DEF EntryKeeps
  <2> QED
    BY <2>1, <2>5, <2>6, <2>7
<1> QED
  BY <1>1, <1>2, <1>3, <1>4, <1>5, <1>6, <1>7 DEF StreamMoves

AllText(bs) == \A i \in DOMAIN bs : bs[i].kind = "text"
LEMMA AllTextMore ==
  ASSUME NEW bs \in Seq(AnswerBlock), NEW b \in AnswerBlock
  PROVE  AllText(Append(bs, b)) <=> AllText(bs) /\ b.kind = "text"
<1>1. PICK cs : cs = Append(bs, b)
  OBVIOUS
<1>2. /\ Len(bs) \in Nat /\ DOMAIN bs = 1..Len(bs) /\ DOMAIN cs = 1..(Len(bs) + 1)
      /\ cs[Len(bs) + 1] = b /\ \A i \in 1..Len(bs) : cs[i] = bs[i]
  BY <1>1
<1>3. \A i : i \in 1..(Len(bs) + 1) <=> i \in 1..Len(bs) \/ i = Len(bs) + 1
  BY <1>2
<1>4. AllText(cs) <=> AllText(bs) /\ b.kind = "text"
  BY <1>2, <1>3 DEF AllText
<1> QED
  BY <1>1, <1>4

LEMMA CodexTextOn ==
  ASSUME StreamTypeOK, StreamMoves, StreamKept, route' = route, route.adapter = "codex"
  PROVE  CodexText'
<1>0. /\ answer.blocks \in Seq(AnswerBlock) /\ collected \in Assembled /\ deltas \in BOOLEAN
      /\ emitted_text \in BOOLEAN /\ CodexText /\ AllText(answer.blocks) /\ route'.adapter = "codex"
      /\ ~PlainOrClaude
  BY DEF StreamTypeOK, StreamKept, TextIsKept, CodexText, AllText, PlainOrClaude
<1>1. CASE Stays
  <2>1. /\ UNCHANGED <<answer, collected, deltas, emitted_text>> /\ Output' = Output
        /\ phase' = "stopped" <=> phase = "stopped"
    BY <1>1 DEF Stays, Output
  <2> QED
    BY <1>0, <2>1 DEF CodexText
<1>2. CASE Resets
  <2>1. answer' = NoAnswer /\ collected' = Nothing /\ NoAnswer.blocks = <<>> /\ phase' = "client"
    BY <1>2 DEF Resets, Reset, NoAnswer
  <2>2. \A i \in DOMAIN answer'.blocks : answer'.blocks[i].kind = "text"
    BY <2>1
  <2>3. emitted_text' => deltas'
    <3>1. CASE emitted_text' = FALSE
      BY <3>1
    <3>2. CASE phase = "failed" /\ UNCHANGED <<deltas, emitted_text>>
      <4>1. emitted_text => deltas
        BY <1>0, <3>2 DEF CodexText
      <4> QED
        BY <3>2, <4>1
    <3> QED
      BY <1>2, <3>1, <3>2 DEF Resets
  <2> QED
    BY <2>1, <2>2, <2>3, KeptFromNothing DEF CodexText
<1>3. CASE Opens
  <2>1. answer'.blocks = <<>> /\ collected' = Nothing /\ phase' = "streaming" /\ emitted_text' = FALSE
    BY <1>0, <1>3 DEF Opens, StreamKept, NothingYet
  <2>2. \A i \in DOMAIN answer'.blocks : answer'.blocks[i].kind = "text"
    BY <2>1
  <2> QED
    BY <2>1, <2>2, KeptFromNothing DEF CodexText
<1>4. CASE Closes
  BY <1>0, <1>4 DEF Closes
<1>5. CASE ClosesCodex
  <2>1. PICK said : said = Texts(answer.blocks)
    OBVIOUS
  <2>2. said \in Seq(Fragments)
    BY <1>0, <2>1, TextsTyped DEF Text
  <2>3. PICK all : all = IF ~emitted_text THEN [collected EXCEPT !.text = @ \o said] ELSE collected
    OBVIOUS
  <2>4. all \in Assembled
    BY <1>0, <2>2, <2>3, ChunksTyped DEF Text
  <2>5. all.text = said
    <3>1. CASE emitted_text
      BY <1>0, <1>5, <2>1, <2>3, <3>1 DEF ClosesCodex, CodexText
    <3>2. CASE ~emitted_text
      <4>1. collected.text = <<>>
        BY <1>0, <1>5, <3>2 DEF ClosesCodex, CodexText
      <4>2. all.text = collected.text \o said
        BY <1>0, <2>3, <3>2 DEF Assembled
      <4>3. EmptyJoin(said)
        BY <2>2, JoinNone
      <4> QED
        BY <4>1, <4>2, <4>3 DEF EmptyJoin
    <3> QED
      BY <1>0, <3>1, <3>2
  <2>6. FinalKeeps(all, "stop", codex_usage(answer.usage, Output))
    BY <2>4, ChunkFields
  <2>7. collected'.text = said /\ collected'.usage = codex_usage(answer.usage, Output)
    BY <1>5, <2>1, <2>3, <2>5, <2>6 DEF ClosesCodex, FinalKeeps
  <2>8. phase' = "stopped" /\ answer' = answer /\ Output' = Output
    BY <1>5 DEF ClosesCodex, Output
  <2> QED
    BY <1>0, <2>1, <2>7, <2>8 DEF CodexText
<1>6. ASSUME NEW block, Adds(block) PROVE CodexText'
  <2>1. /\ block \in AnswerBlock /\ answer'.blocks = Append(answer.blocks, block) /\ block.text = <<>>
        /\ phase' = phase /\ phase = "streaming" /\ UNCHANGED <<deltas, emitted_text>>
    BY <1>6 DEF Adds
  <2>2. block.kind = "text" /\ collected' = collected
    BY <1>0, <1>6 DEF Adds
  <2>3. Texts(answer'.blocks) = Texts(answer.blocks)
    BY <1>0, <2>1, SaidStarts
  <2>4. AllText(answer'.blocks)
    BY <1>0, <2>1, <2>2, AllTextMore
  <2> QED
    BY <1>0, <2>1, <2>2, <2>3, <2>4 DEF CodexText, AllText
<1>7. ASSUME NEW front, NEW old, NEW part, Told(front, old, part) PROVE CodexText'
  <2>1. /\ front \in Seq(AnswerBlock) /\ old \in AnswerBlock /\ Longer(old, part) \in AnswerBlock
        /\ answer.blocks = Append(front, old) /\ answer'.blocks = Append(front, Longer(old, part))
        /\ part \in Fragments /\ Longer(old, part).kind = old.kind
    BY <1>7 DEF Told, Grows, Longer
  <2>2. /\ phase' = phase /\ phase = "streaming" /\ deltas' = deltas /\ emitted_text' = deltas
        /\ collected' = IF deltas THEN text_chunk(collected, part) ELSE collected
    BY <1>0, <1>7 DEF Told
  <2>3. Texts(answer'.blocks) = Append(Texts(answer.blocks), part)
    BY <2>1, SaidGrows
  <2>4. AllText(answer'.blocks)
    BY <1>0, <2>1, AllTextMore
  <2>5. ChunkKeeps(collected, part)
    BY <1>0, ChunkFields
  <2>6. deltas => collected'.text = Texts(answer'.blocks)
    BY <1>0, <2>2, <2>3, <2>5 DEF CodexText, ChunkKeeps
  <2>7. ~deltas => collected'.text = <<>>
    BY <1>0, <2>2 DEF CodexText
  <2> QED
    BY <1>0, <2>2, <2>4, <2>6, <2>7 DEF CodexText, AllText
<1> QED
  BY <1>1, <1>2, <1>3, <1>4, <1>5, <1>6, <1>7 DEF StreamMoves

LEMMA StreamKeptOn ==
  ASSUME StreamTypeOK, TalkTypeOK, Moves, StreamKept
  PROVE  StreamKept'
<1>1. StreamMoves /\ route' = route
  BY MovesAreStreamMoves, RouteStays
<1>2. CallsAreKept' /\ NothingYet' /\ UsageIsKept'
  BY <1>1, CallsAreKeptOn, NothingYetOn, UsageIsKeptOn
<1>3. TextIsKept'
  <2>1. CASE route.adapter = "codex"
    <3>1. CodexText'
      BY <1>1, <2>1, CodexTextOn
    <3> QED
      BY <1>1, <2>1, <3>1 DEF TextIsKept
  <2>2. CASE route.adapter # "codex"
    BY <1>1, <2>2, TextIsKeptOn
  <2> QED
    BY <2>1, <2>2
<1> QED
  BY <1>2, <1>3 DEF StreamKept

LEMMA StreamKeptBegins == AdaptersInit => StreamKept
<1> SUFFICES ASSUME AdaptersInit PROVE StreamKept
  OBVIOUS
<1>1. /\ phase = "client" /\ answer = NoAnswer /\ NoAnswer.blocks = <<>> /\ collected = Nothing
      /\ tool_block_indices = <<>> /\ next_tool_index = 0 /\ deltas = TRUE /\ emitted_text = FALSE
  BY DEF AdaptersInit, ConversationInit, NoAnswer
<1>2. NothingYet /\ CallsAreKept /\ UsageIsKept
  BY <1>1, KeptFromNothing DEF NothingYet, CallsAreKept, UsageIsKept
<1>3. TextIsKept
  <2>1. \A i \in DOMAIN answer.blocks : answer.blocks[i].kind = "text"
    BY <1>1
  <2> QED
    BY <1>1, <2>1, KeptFromNothing DEF TextIsKept, CodexText
<1> QED
  BY <1>2, <1>3 DEF StreamKept

---------------------------------------------------------------------------
(* What is read out of a fault.                                            *)

FaultIsKnown ==
  phase = "failed" =>
    /\ failure.cause \in AllCauses /\ failure.told \in Ways \cup EventWays
    /\ failure.error = ErrorOf(failure.cause, failure.told)

LEMMA FaultIsKnownOn ==
  ASSUME TalkTypeOK, Moves, FaultIsKnown
  PROVE  FaultIsKnown'
<1>0. route' = route
  BY RouteStays
<1>1. CASE RefusesNow
  <2>1. PICK cause \in Causes, how \in {"status", "number", "string", "event", "flat", "worded"} : Refuses(cause, how)
    BY <1>1 DEF RefusesNow
  <2>2. PICK f : f = [cause |-> cause, told |-> how, error |-> ErrorOf(cause, how)]
    OBVIOUS
  <2>3. f.cause = cause /\ f.told = how /\ f.error = ErrorOf(cause, how)
    BY <2>2
  <2>4. failure' = f /\ how \in Ways \cup EventWays /\ cause \in AllCauses
    BY <2>1, <2>2, AdaptersAssumption DEF Refuses
  <2>5. ErrorOf(cause, how)' = ErrorOf(cause, how) /\ Ways' = Ways /\ EventWays' = EventWays
    BY <1>0 DEF ErrorOf, Ways, EventWays
  <2> QED
    BY <2>3, <2>4, <2>5 DEF FaultIsKnown
<1>2. CASE phase' # "failed"
  BY <1>2 DEF FaultIsKnown
<1>3. CASE ~RefusesNow /\ phase' = "failed"
  <2>1. phase = "failed" /\ failure' = failure
    <3>1. CASE SaySomething \/ Ask \/ Finishes \/ Gives \/ FailsNow
      BY <1>3, <3>1 DEF SaySomething, Says, own, Ask, Sends, Finishes, EndsKeeping, Gives, FailsNow, Fails, Reset
    <3>2. CASE StartsStream \/ StartsBlock \/ StartsTool
      BY <1>3, <3>2 DEF StartsStream, message_start, Created, StartsBlock, content_block_start, StartsTool,
                        tool_use_start, Starts
    <3>3. CASE TellsPart \/ CodexTellsPart \/ StopsStream \/ CodexStops
      BY <1>3, <3>3 DEF TellsPart, Delta, CodexTellsPart, OutputTextDelta, StopsStream, Stops,
                        CodexStops, Completed
    <3> QED
      BY <1>3, <3>1, <3>2, <3>3 DEF Moves
  <2>2. /\ ErrorOf(failure.cause, failure.told)' = ErrorOf(failure.cause, failure.told)
        /\ Ways' = Ways /\ EventWays' = EventWays
    BY <1>0, <2>1 DEF ErrorOf, Ways, EventWays
  <2> QED
    BY <2>1, <2>2 DEF FaultIsKnown
<1> QED
  BY <1>1, <1>2, <1>3

LEMMA FaultsRead ==
  ASSUME TalkTypeOK, FaultIsKnown
  PROVE  FaultsAreTold
<1>0. route.adapter \in AllAdapters
  BY AdaptersAssumption DEF TalkTypeOK
<1> SUFFICES ASSUME phase = "failed"
             PROVE  /\ failure.cause \in {"throttled", "overloaded", "broke"} =>
                         LaidOnProvider(failure.error)
                    /\ failure.cause = "key" => ~is_client_error(failure.error)
                    /\ failure.cause = "invalid" =>
                         IF Readable(failure.told) THEN LaidOnClient(failure.error)
                         ELSE LaidOnProvider(failure.error)
  BY DEF FaultsAreTold
<1>1. PICK cause, how : cause = failure.cause /\ how = failure.told
  OBVIOUS
<1>2. cause \in AllCauses /\ how \in Ways \cup EventWays /\ failure.error = ErrorOf(cause, how)
  BY <1>1 DEF FaultIsKnown
<1>3. /\ StatusOf["throttled"] = 429 /\ StatusOf["overloaded"] = 529 /\ StatusOf["broke"] = 500
      /\ StatusOf["invalid"] = 400 /\ StatusOf["key"] = 401
  BY DEF StatusOf
<1>4. /\ map_status_error(429) = ProviderError("RateLimit", NoStatus)
      /\ map_status_error(529) = ProviderError("ServerError", 529)
      /\ map_status_error(500) = ProviderError("ServerError", 500)
      /\ map_status_error(400) = ProviderError("ServerError", 400)
      /\ map_status_error(401) = ProviderError("Authentication", NoStatus)
  BY DEF map_status_error
<1>5. /\ error_detail_to_provider_error(429) = ProviderError("RateLimit", NoStatus)
      /\ error_detail_to_provider_error(529) = ProviderError("ServerError", 529)
      /\ error_detail_to_provider_error(500) = ProviderError("ServerError", 500)
      /\ error_detail_to_provider_error(400) = ProviderError("ServerError", 400)
      /\ error_detail_to_provider_error(401) = ProviderError("ServerError", 401)
  BY DEF error_detail_to_provider_error
<1>6. /\ \A kind \in {"RateLimit", "ServerError", "OpenAIError", "Other"} :
           LaidOnProvider(ProviderError(kind, NoStatus))
      /\ LaidOnProvider(ProviderError("ServerError", 529)) /\ LaidOnProvider(ProviderError("ServerError", 500))
      /\ LaidOnClient(ProviderError("ServerError", 400))
      /\ ~is_client_error(ProviderError("ServerError", 401))
      /\ ~is_client_error(ProviderError("Authentication", NoStatus))
      /\ \A e : LaidOnProvider(e) => ~is_client_error(e)
  BY DEF LaidOnProvider, LaidOnClient, is_transient, is_client_error, ProviderError, NoStatus
<1>7. CASE route.adapter = "claude_code"
  <2>1. ErrorOf(cause, how) = map_status_error(StatusOf[cause]) /\ Readable(how)
    BY <1>7 DEF ErrorOf, stream_error, Readable
  <2> QED
    BY <1>1, <1>2, <1>3, <1>4, <1>6, <2>1
<1>8. CASE route.adapter = "codex"
  <2>1. ErrorOf(cause, how) = IF how = "event" THEN ProviderError("ServerError", NoStatus)
                              ELSE map_status_error(StatusOf[cause])
    BY <1>8 DEF ErrorOf
  <2>2. how \in {"status", "event"} /\ (Readable(how) <=> how = "status")
    BY <1>2, <1>8 DEF Ways, EventWays, Readable
  <2> QED
    BY <1>1, <1>2, <1>3, <1>4, <1>6, <2>1, <2>2
<1>9. CASE route.adapter = "openai"
  <2>1. how \in {"number", "string", "event", "worded"}
    BY <1>2, <1>9 DEF Ways, EventWays
  <2>2. ErrorOf(cause, how) = CASE how \in {"event", "number"} -> error_detail_to_provider_error(StatusOf[cause])
                                [] how = "worded" -> ProviderError("ServerError", NoStatus)
                                [] OTHER -> ProviderError("OpenAIError", NoStatus)
    BY <1>9, <2>1 DEF ErrorOf, map_openai_error, Reparsed, error_detail_to_provider_error, NoStatus
  <2>3. Readable(how) <=> how \in {"event", "number"}
    BY <2>1, <1>9 DEF Readable
  <2> QED
    BY <1>1, <1>2, <1>3, <1>5, <1>6, <2>1, <2>2, <2>3
<1>10. CASE route.adapter = "anthropic"
  <2>1. ErrorOf(cause, how) \in {ProviderError("Other", NoStatus), ProviderError("ServerError", NoStatus)}
    BY <1>10 DEF ErrorOf, map_anthropic_error
  <2>2. ~Readable(how)
    BY <1>10 DEF Readable
  <2> QED
    BY <1>1, <1>2, <1>6, <2>1, <2>2
<1> QED
  BY <1>0, <1>7, <1>8, <1>9, <1>10 DEF AllAdapters

LEMMA PrefixOfItself ==
  ASSUME NEW S, NEW s \in Seq(S)
  PROVE  IsPrefix(s, s) /\ IsPrefix(<<>>, s)
BY DEF IsPrefix

LEMMA AllTextSaid ==
  ASSUME NEW bs \in Seq(AnswerBlock), AllText(bs)
  PROVE  Said(bs) = Texts(bs)
<1>1. {i \in DOMAIN bs : bs[i].kind = "text"} = DOMAIN bs
  BY DEF AllText
<1>2. Only(bs, DOMAIN bs) = bs
  BY OnlyAll
<1> QED
  BY <1>1, <1>2 DEF Said, Ofkind

LEMMA WholeFromKept ==
  ASSUME StreamTypeOK, StreamKept, PlainOrClaude
  PROVE  StreamedIsWhole
<1>1. PICK bs, uses, tools : /\ bs = answer.blocks /\ uses = Ofkind(bs, "tool_use")
                             /\ tools = collected.tools
  OBVIOUS
<1>2. bs \in Seq(AnswerBlock) /\ uses \in Seq(AnswerBlock)
  BY <1>1, OfkindMore DEF StreamTypeOK
<1>3. Recorded(tools, uses) /\ NamesOffered(bs)
  BY <1>1 DEF StreamKept, CallsAreKept, CallsKept
<1>4. Len(uses) \in Nat /\ DOMAIN uses = 1..Len(uses)
  BY <1>2
<1>5. CallsOf(collected) = [k \in DOMAIN uses |-> AsCall(uses[k])]
  BY <1>1, <1>3, <1>4, RecordedCalls DEF CallsOf
<1>6. split_content_blocks(answer.blocks) = [text |-> Said(bs), calls |-> [k \in DOMAIN uses |-> AsCall(uses[k])]]
  BY <1>1 DEF split_content_blocks, Said, AsCall
<1>7. collected.text = Said(bs)
  BY <1>1 DEF StreamKept, TextIsKept, PlainOrClaude
<1>8. ASSUME NEW i \in DOMAIN tools PROVE tools[i].name \in Registered
  <2>1. i + 1 \in 1..Len(uses) /\ (i + 1) - 1 = i
    BY <1>3, <1>4 DEF Recorded
  <2>2. tools[i] = AsCall(uses[i + 1])
    <3>1. PICK k : k = i + 1
      OBVIOUS
    <3>2. k \in 1..Len(uses) /\ k - 1 = i
      BY <2>1, <3>1
    <3>3. tools[k - 1] = AsCall(uses[k])
      BY <1>3, <3>2 DEF Recorded
    <3> QED
      BY <3>1, <3>2, <3>3
  <2>3. UsesAt(bs) \in SUBSET DOMAIN bs
    BY DEF UsesAt
  <2>4. /\ uses = [k \in 1..Cardinality(UsesAt(bs)) |-> bs[Place(UsesAt(bs), k)]]
        /\ Len(uses) = Cardinality(UsesAt(bs))
        /\ IsFiniteSet(UsesAt(bs)) /\ UsesAt(bs) \in SUBSET Nat
    <3>1. uses = Only(bs, UsesAt(bs))
      BY <1>1 DEF Ofkind, UsesAt
    <3>2. /\ Only(bs, UsesAt(bs)) = [k \in 1..Cardinality(UsesAt(bs)) |-> bs[Place(UsesAt(bs), k)]]
          /\ Len(Only(bs, UsesAt(bs))) = Cardinality(UsesAt(bs))
          /\ IsFiniteSet(UsesAt(bs)) /\ UsesAt(bs) \in SUBSET Nat
      BY <1>2, <2>3, OnlyIs
    <3> QED
      BY <3>1, <3>2
  <2>5. PICK j : j = Place(UsesAt(bs), i + 1)
    OBVIOUS
  <2>6. j \in UsesAt(bs)
    BY <2>1, <2>4, <2>5, PlaceIsKth
  <2>7. uses[i + 1] = bs[j]
    BY <2>1, <2>4, <2>5
  <2>8. bs[j].name \in Offered \cup Registered
    BY <1>3, <2>6 DEF UsesAt, NamesOffered
  <2> QED
    BY <2>2, <2>7, <2>8, Restored DEF AsCall
<1>9. phase = "stopped" => collected.usage = usage_to_openai(answer.usage, Len(Texts(answer.blocks)))
  BY DEF StreamKept, UsageIsKept, Output
<1> QED
  BY <1>1, <1>5, <1>6, <1>7, <1>8, <1>9 DEF StreamedIsWhole

LEMMA ToldFromKept ==
  ASSUME StreamTypeOK, TalkTypeOK, StreamKept, FaultIsKnown
  PROVE  TellsTheAnswer
<1>0. route.adapter \in AllAdapters /\ answer.blocks \in Seq(AnswerBlock) /\ FaultsAreTold
  BY AdaptersAssumption, FaultsRead DEF StreamTypeOK, TalkTypeOK
<1>1. CASE PlainOrClaude
  BY <1>0, <1>1, WholeFromKept DEF TellsTheAnswer, PlainOrClaude
<1>2. CASE ~PlainOrClaude
  <2>1. Said(answer.blocks) \in Seq(Fragments)
    BY <1>0, SaidMore DEF Text
  <2>2. CASE route.adapter = "codex"
    <3>1. CodexText
      BY <2>2 DEF StreamKept, TextIsKept
    <3>2. Said(answer.blocks) = Texts(answer.blocks)
      BY <1>0, <3>1, AllTextSaid DEF CodexText, AllText
    <3>3. collected.text = Said(answer.blocks) \/ collected.text = <<>>
      BY <3>1, <3>2 DEF CodexText
    <3>4. IsPrefix(collected.text, Said(answer.blocks))
      BY <2>1, <3>3, PrefixOfItself
    <3>5. phase = "stopped" => /\ collected.text = Said(answer.blocks)
                               /\ collected.usage = codex_usage(answer.usage, Len(Texts(answer.blocks)))
      BY <3>1, <3>2 DEF CodexText, Output
    <3> QED
      BY <1>0, <1>2, <3>4, <3>5 DEF TellsTheAnswer, Said, PlainOrClaude
  <2>3. CASE route.adapter # "codex"
    <3>1. collected.text = Said(answer.blocks)
      BY <2>3 DEF StreamKept, TextIsKept
    <3>2. IsPrefix(collected.text, Said(answer.blocks))
      BY <2>1, <3>1, PrefixOfItself
    <3> QED
      BY <1>0, <1>2, <2>3, <3>1, <3>2 DEF TellsTheAnswer, Said, PlainOrClaude
  <2> QED
    BY <2>2, <2>3
<1> QED
  BY <1>1, <1>2

(* Whatever the adapter, a streamed answer ends as what the upstream has   *)
(* said, and its fault as what it was.                                     *)
THEOREM AnswersAreTold == AdaptersSpec => []TellsTheAnswer
<1> DEFINE IInvTold == TypesHold /\ StreamKept /\ FaultIsKnown
<1>1. AdaptersInit => IInvTold
  <2>1. AdaptersInit => FaultIsKnown
    BY DEF AdaptersInit, ConversationInit, FaultIsKnown
  <2> QED
    BY <2>1, TypesBegin, StreamKeptBegins DEF TypesHold
<1>2. IInvTold /\ [AdaptersNext]_<<conversation, own>> => IInvTold'
  <2>1. ASSUME IInvTold, AdaptersNext PROVE IInvTold'
    <3>1. Moves
      BY <2>1, NextMoves DEF TypesHold
    <3> QED
      BY <2>1, <3>1, TalkTyped, StreamTyped, StreamKeptOn, FaultIsKnownOn DEF TypesHold
  <2>2. ASSUME IInvTold, UNCHANGED <<conversation, own>> PROVE IInvTold'
    <3>1. UNCHANGED <<history, phase, answer, told, start_usage, tool_block_indices, next_tool_index,
                      collected, sends, route, sent, thought, deltas, emitted_text, failure>>
      BY <2>2 DEF conversation, own, stream
    <3>2. TypesHold'
      BY <2>2, <3>1 DEF TypesHold, StreamTypeOK, TalkTypeOK
    <3>3. StreamKept'
      BY <2>2, <3>1 DEF StreamKept, NothingYet, CallsAreKept, TextIsKept, CodexText, UsageIsKept,
                        PlainOrClaude, Output
    <3>4. FaultIsKnown'
      BY <2>2, <3>1 DEF FaultIsKnown, Ways, EventWays, ErrorOf
    <3> QED
      BY <3>2, <3>3, <3>4
  <2> QED
    BY <2>1, <2>2
<1>3. IInvTold => TellsTheAnswer
  BY ToldFromKept DEF TypesHold
<1> QED
  BY <1>1, <1>2, <1>3, PTL DEF AdaptersSpec

-----------------------------------------------------------------------------
(* Reasoning goes back with the turn it was thought for.                   *)

---------------------------------------------------------------------------
(* The assistant's messages, and the reasoning that comes with them.       *)

AssistantsMoreFor(s, m) ==
  Assistants(Append(s, m)) = IF m.role = "assistant" THEN Append(Assistants(s), m) ELSE Assistants(s)
LEMMA AssistantsMore ==
  /\ Assistants(<<>>) = <<>>
  /\ \A s \in Seq(Msg) : Assistants(s) \in Seq(Msg) /\ \A m \in Msg : AssistantsMoreFor(s, m)
<1>1. PICK X : X = {m \in Msg : m.role = "assistant"}
  OBVIOUS
<1>a. \A s \in Seq(Msg), m \in Msg :
        Among(Append(s, m), X) = IF m \in X THEN Append(Among(s, X), m) ELSE Among(s, X)
  BY AmongMore
<1>b. \A s \in Seq(Msg) : Among(s, X) \in Seq(Msg)
  BY AmongIs
<1>c. Among(<<>>, X) = <<>>
  BY AmongMore
<1>2. ASSUME NEW s \in Seq(Msg) PROVE Assistants(s) = Among(s, X)
  <2>1. \A i \in DOMAIN s : s[i] \in Msg
    OBVIOUS
  <2>2. {i \in DOMAIN s : s[i].role = "assistant"} = {i \in DOMAIN s : s[i] \in X}
    BY <1>1, <2>1
  <2> QED
    BY <2>2 DEF Assistants, Among
<1>3. <<>> \in Seq(Msg)
  OBVIOUS
<1>4. Assistants(<<>>) = <<>>
  BY <1>2, <1>3, <1>c
<1>5. ASSUME NEW s \in Seq(Msg), NEW m \in Msg PROVE AssistantsMoreFor(s, m)
  <2>1. Append(s, m) \in Seq(Msg)
    OBVIOUS
  <2>2. Assistants(Append(s, m)) = Among(Append(s, m), X) /\ Assistants(s) = Among(s, X)
    BY <1>2, <2>1
  <2>3. Among(Append(s, m), X) = IF m \in X THEN Append(Among(s, X), m) ELSE Among(s, X)
    BY <1>a
  <2>4. m \in X <=> m.role = "assistant"
    BY <1>1
  <2> QED
    BY <2>2, <2>3, <2>4 DEF AssistantsMoreFor
<1> QED
  BY <1>2, <1>4, <1>5, <1>b

Keeping(extras, t) == extras \in {<<>>, [reasoning_content |-> t], [reasoning |-> t]}
ThoughtsKept ==
  route.adapter = "openai" =>
    /\ Len(Assistants(history)) = Len(thought)
    /\ \A i \in 1..Len(thought) : Keeping(Assistants(history)[i].extras, thought[i])
RequestIsWired ==
  route.adapter = "openai" /\ phase = "waiting" =>
    request.messages = to_wire_value(history)

LEMMA KeptReasoning ==
  ASSUME NEW extras, NEW t, Keeping(extras, t)
  PROVE  Reasoning(extras) = IF extras = <<>> THEN <<>> ELSE t
<1>1. CASE extras = <<>>
  <2>1. DOMAIN extras = {}
    BY <1>1
  <2> QED
    BY <1>1, <2>1 DEF Reasoning
<1>2. CASE extras = [reasoning_content |-> t]
  <2>1. "reasoning_content" \in DOMAIN extras /\ extras.reasoning_content = t
    BY <1>2
  <2>2. extras # <<>>
    BY <2>1
  <2> QED
    BY <2>1, <2>2 DEF Reasoning
<1>3. CASE extras = [reasoning |-> t]
  <2>1. DOMAIN extras = {"reasoning"} /\ extras.reasoning = t
    BY <1>3
  <2>2. extras # <<>>
    BY <2>1
  <2>3. "reasoning_content" \notin DOMAIN extras /\ "reasoning" \in DOMAIN extras
    BY <2>1
  <2> QED
    BY <2>1, <2>2, <2>3 DEF Reasoning
<1> QED
  BY <1>1, <1>2, <1>3 DEF Keeping

LEMMA AppendIs ==
  ASSUME NEW S, NEW s \in Seq(S), NEW x \in S
  PROVE  /\ Append(s, x) \in Seq(S) /\ Len(Append(s, x)) = Len(s) + 1 /\ Len(s) \in Nat
         /\ Append(s, x)[Len(s) + 1] = x /\ \A i \in 1..Len(s) : Append(s, x)[i] = s[i]
OBVIOUS

LEMMA ThoughtsKeptOn ==
  ASSUME StreamTypeOK, TalkTypeOK, Moves, ThoughtsKept
  PROVE  ThoughtsKept'
<1>0. route' = route /\ history \in Seq(Msg) /\ thought \in Seq(Text)
  BY RouteStays DEF TalkTypeOK
<1>1. CASE Quiet
  BY <1>1 DEF Quiet, ThoughtsKept
<1>2. CASE SaySomething
  <2>1. PICK m \in Msg : m.role # "assistant" /\ history' = Append(history, m) /\ thought' = thought
    BY <1>2 DEF SaySomething, Says, own
  <2>2. AssistantsMoreFor(history, m)
    BY <1>0, AssistantsMore
  <2> QED
    BY <1>0, <2>1, <2>2 DEF AssistantsMoreFor, ThoughtsKept
<1>3. CASE Ask
  BY <1>3 DEF Ask, Sends, ThoughtsKept
<1>4. CASE Finishes
  <2>0. SUFFICES ASSUME route.adapter = "openai"
                 PROVE  /\ Len(Assistants(history')) = Len(thought')
                        /\ \A i \in 1..Len(thought') : Keeping(Assistants(history')[i].extras, thought'[i])
    BY <1>0 DEF ThoughtsKept
  <2>1. PICK extras \in MayKeep : EndsKeeping(extras)
    BY <1>4 DEF Finishes
  <2>2. PICK m : m = Assistant(collected.text, CallsOf(collected), extras)
    OBVIOUS
  <2>3. PICK t : t = collected.reasoning
    OBVIOUS
  <2>4. history' = Append(history, m) /\ thought' = Append(thought, t)
    BY <1>4, <2>0, <2>1, <2>2, <2>3 DEF EndsKeeping, Finishes
  <2>5. m = [role |-> "assistant", text |-> collected.text, calls |-> CallsOf(collected), of |-> 0,
             extras |-> extras]
    BY <2>2 DEF Assistant, Message
  <2>6. collected.text \in Text /\ t \in Text /\ CallsOf(collected) \in Seq(ToolCall)
    BY <2>3, CallsAreTyped DEF StreamTypeOK, Assembled
  <2>7. Keeping(extras, t) /\ extras \in Extras
    BY <2>3, <2>6 DEF MayKeep, Extras, Keeping
  <2>8. m \in Msg /\ m.extras = extras /\ m.role = "assistant"
    BY <2>5, <2>6, <2>7 DEF Msg
  <2>9. PICK as, bs : as = Assistants(history) /\ bs = Assistants(history')
    OBVIOUS
  <2>10. as \in Seq(Msg) /\ AssistantsMoreFor(history, m)
    BY <1>0, <2>8, <2>9, AssistantsMore
  <2>11. bs = Append(as, m)
    BY <2>4, <2>8, <2>9, <2>10 DEF AssistantsMoreFor
  <2>12. PICK n : n = Len(thought)
    OBVIOUS
  <2>13. n \in Nat /\ Len(as) = n /\ \A i \in 1..n : Keeping(as[i].extras, thought[i])
    BY <1>0, <2>0, <2>9, <2>12 DEF ThoughtsKept
  <2>14. /\ Len(bs) = n + 1 /\ bs[n + 1] = m /\ \A i \in 1..n : bs[i] = as[i]
    <3>1. /\ Len(Append(as, m)) = Len(as) + 1 /\ Append(as, m)[Len(as) + 1] = m
          /\ \A i \in 1..Len(as) : Append(as, m)[i] = as[i]
      BY <2>8, <2>10, AppendIs
    <3> QED
      BY <2>11, <2>13, <3>1
  <2>15. /\ Len(thought') = n + 1 /\ thought'[n + 1] = t /\ \A i \in 1..n : thought'[i] = thought[i]
    BY <1>0, <2>4, <2>12
  <2>16. ASSUME NEW i \in 1..(n + 1) PROVE Keeping(bs[i].extras, thought'[i])
    <3>1. i = n + 1 \/ i \in 1..n
      BY <2>13
    <3> QED
      BY <2>7, <2>8, <2>13, <2>14, <2>15, <3>1
  <2> QED
    BY <2>9, <2>14, <2>15, <2>16
<1>5. CASE ~SaySomething /\ ~Ask /\ ~Finishes
  <2>1. Quiet
    <3>1. CASE Gives \/ FailsNow
      BY <3>1 DEF Gives, FailsNow, Fails, Extra, Quiet
    <3>2. CASE RefusesNow
      BY <3>2 DEF RefusesNow, Refuses, Unchanged, Quiet
    <3>3. CASE StartsStream
      BY <3>3 DEF StartsStream, message_start, Created, Unchanged, Extra, Quiet
    <3>4. CASE StartsBlock \/ StartsTool
      BY <3>4 DEF StartsBlock, StartsTool, content_block_start, tool_use_start, Starts, Extra, Quiet
    <3>5. CASE TellsPart
      BY <3>5 DEF TellsPart, Delta, Extra, Quiet
    <3>6. CASE CodexTellsPart \/ CodexStops
      BY <3>6 DEF CodexTellsPart, CodexStops, OutputTextDelta, Completed, Unchanged, Extra, Quiet
    <3>7. CASE StopsStream
      BY <3>7 DEF StopsStream, Stops, Extra, Quiet
    <3> QED
      BY <1>5, <3>1, <3>2, <3>3, <3>4, <3>5, <3>6, <3>7 DEF Moves
  <2> QED
    BY <1>1, <2>1
<1> QED
  BY <1>2, <1>3, <1>4, <1>5

LEMMA OnlyAsksWait == ASSUME Moves, phase' = "waiting" PROVE Ask
<1>1. CASE SaySomething
  BY <1>1 DEF SaySomething, Says
<1>2. CASE Finishes \/ Gives \/ FailsNow
  BY <1>2 DEF Finishes, EndsKeeping, Gives, FailsNow, Fails, Reset
<1>3. CASE RefusesNow
  BY <1>3 DEF RefusesNow, Refuses
<1>4. CASE StartsStream \/ StartsBlock \/ StartsTool
  BY <1>4 DEF StartsStream, message_start, Created, StartsBlock, content_block_start, StartsTool,
              tool_use_start, Starts
<1>5. CASE TellsPart \/ CodexTellsPart \/ StopsStream \/ CodexStops
  BY <1>5 DEF TellsPart, Delta, CodexTellsPart, OutputTextDelta, StopsStream, Stops, CodexStops, Completed
<1> QED
  BY <1>1, <1>2, <1>3, <1>4, <1>5 DEF Moves

(* Of all the calls of SubSeq only what a prefix holds.                    *)
LEMMA PrefixIs ==
  ASSUME NEW S, NEW s \in Seq(S), NEW j \in 0..Len(s)
  PROVE  /\ SubSeq(s, 1, j) \in Seq(S) /\ Len(SubSeq(s, 1, j)) = j
         /\ \A i \in 1..j : SubSeq(s, 1, j)[i] = s[i]
OBVIOUS

LEMMA ReasoningFromKept ==
  ASSUME TalkTypeOK, ThoughtsKept, RequestIsWired
  PROVE  ReasoningReturns
<1> SUFFICES ASSUME route.adapter = "openai", phase = "waiting",
                    NEW k \in DOMAIN Assistants(request.messages)
             PROVE  Assistants(request.messages)[k].reasoning
                      = IF ~route.v4 THEN NoField
                        ELSE IF Assistants(history)[k].extras = <<>> THEN <<>> ELSE thought[k]
  BY DEF ReasoningReturns
<1>1. PICK hs : hs = history
  OBVIOUS
<1>2. hs \in Seq(Msg) /\ Len(hs) \in Nat /\ DOMAIN hs = 1..Len(hs)
  BY <1>1 DEF TalkTypeOK
<1>3. PICK normal : normal = Normalized(hs)
  OBVIOUS
<1>4. /\ DOMAIN normal = 1..Len(hs)
      /\ \A i \in 1..Len(hs) : normal[i].role = "assistant" <=> hs[i].role = "assistant"
  <2>1. DOMAIN normal = 1..Len(hs)
    BY <1>2, <1>3 DEF Normalized
  <2>2. ASSUME NEW i \in 1..Len(hs) PROVE normal[i].role = "assistant" <=> hs[i].role = "assistant"
    <3>1. normal[i] = IF hs[i].role = "developer" /\ ~route.named_openai
                      THEN [hs[i] EXCEPT !.role = "system"] ELSE hs[i]
      BY <1>2, <1>3 DEF Normalized
    <3>2. hs[i] \in Msg
      BY <1>2
    <3>3. [hs[i] EXCEPT !.role = "system"].role = "system"
      BY <3>2 DEF Msg
    <3> QED
      BY <3>1, <3>3
  <2> QED
    BY <2>1, <2>2
<1>5. PICK wire : wire = to_wire_value(hs)
  OBVIOUS
<1>6. PICK kept : kept = assistant_extras(hs)
  OBVIOUS
<1>7. /\ DOMAIN wire = 1..Len(hs)
      /\ \A i \in 1..Len(hs) :
           /\ wire[i].role = normal[i].role
           /\ wire[i].reasoning
                = IF route.v4 /\ normal[i].role = "assistant"
                  THEN IF Ordinal(normal, i) \in DOMAIN kept THEN Reasoning(kept[Ordinal(normal, i)]) ELSE <<>>
                  ELSE NoField
  <2>1. wire = [i \in DOMAIN normal |->
                  WireMessage(normal[i],
                    IF route.v4 /\ normal[i].role = "assistant"
                    THEN IF Ordinal(normal, i) \in DOMAIN kept THEN Reasoning(kept[Ordinal(normal, i)]) ELSE <<>>
                    ELSE NoField)]
    BY <1>3, <1>5, <1>6 DEF to_wire_value
  <2>2. \A m, r : WireMessage(m, r).role = m.role /\ WireMessage(m, r).reasoning = r
    BY DEF WireMessage
  <2> QED
    BY <1>4, <2>1, <2>2
<1>8. PICK J : J = {i \in 1..Len(hs) : hs[i].role = "assistant"}
  OBVIOUS
<1>9. J \in SUBSET DOMAIN hs
  BY <1>2, <1>8
<1>10. /\ IsFiniteSet(J) /\ J \in SUBSET Nat /\ Cardinality(J) \in Nat
       /\ Only(hs, J) = [i \in 1..Cardinality(J) |-> hs[Place(J, i)]]
  BY <1>2, <1>9, OnlyIs
<1>11. Assistants(hs) = [i \in 1..Cardinality(J) |-> hs[Place(J, i)]]
  <2>1. Assistants(hs) = Only(hs, J)
    BY <1>2, <1>8 DEF Assistants
  <2> QED
    BY <1>10, <2>1
<1>12. Assistants(wire) = [i \in 1..Cardinality(J) |-> wire[Place(J, i)]]
  <2>1. PICK S : S = {wire[i] : i \in 1..Len(hs)}
    OBVIOUS
  <2>2. wire \in Seq(S)
    <3>1. wire = [i \in 1..Len(hs) |-> wire[i]]
      BY <1>5, <1>7 DEF to_wire_value
    <3>2. \A i \in 1..Len(hs) : wire[i] \in S
      BY <2>1
    <3> QED
      BY <1>2, <3>1, <3>2
  <2>3. J \in SUBSET DOMAIN wire
    BY <1>7, <1>8
  <2>4. Only(wire, J) = [i \in 1..Cardinality(J) |-> wire[Place(J, i)]]
    BY <2>2, <2>3, OnlyIs
  <2>5. {i \in DOMAIN wire : wire[i].role = "assistant"} = J
    BY <1>4, <1>7, <1>8
  <2> QED
    BY <2>4, <2>5 DEF Assistants
<1>13. request.messages = wire
  BY <1>1, <1>5 DEF RequestIsWired
<1>14. k \in 1..Cardinality(J)
  BY <1>12, <1>13
<1>15. PICK j : j = Place(J, k)
  OBVIOUS
<1>16. j \in J /\ Cardinality(UpTo(J, j)) = k
  BY <1>10, <1>14, <1>15, PlaceIsKth
<1>17. j \in 1..Len(hs) /\ hs[j].role = "assistant" /\ normal[j].role = "assistant"
  BY <1>4, <1>8, <1>16
<1>18. Ordinal(normal, j) = k
  <2>1. PICK S : S = {normal[i] : i \in 1..Len(hs)}
    OBVIOUS
  <2>2. normal \in Seq(S) /\ Len(normal) = Len(hs)
    <3>1. normal = [i \in 1..Len(hs) |-> normal[i]]
      BY <1>2, <1>3 DEF Normalized
    <3>2. \A i \in 1..Len(hs) : normal[i] \in S
      BY <2>1
    <3> QED
      BY <1>2, <3>1, <3>2
  <2>3. PICK front : front = SubSeq(normal, 1, j)
    OBVIOUS
  <2>4. front \in Seq(S) /\ Len(front) = j /\ \A i \in 1..j : front[i] = normal[i]
    BY <1>2, <1>17, <2>2, <2>3, PrefixIs
  <2>5. PICK I : I = {i \in DOMAIN front : front[i].role = "assistant"}
    OBVIOUS
  <2>6. I \in SUBSET DOMAIN front
    BY <2>5
  <2>7. Len(Only(front, I)) = Cardinality(I)
    BY <2>4, <2>6, OnlyIs
  <2>8. I = UpTo(J, j)
    <3>1. DOMAIN front = 1..j
      BY <2>4
    <3>2. ASSUME NEW i PROVE i \in 1..j <=> i \in 1..Len(hs) /\ i <= j
      BY <1>2, <1>17
    <3>3. ASSUME NEW i PROVE i \in I <=> i \in UpTo(J, j)
      BY <1>4, <1>8, <2>4, <2>5, <3>1, <3>2 DEF UpTo
    <3> QED
      BY <3>3
  <2>9. Ordinal(normal, j) = Len(Only(front, I))
    BY <2>3, <2>5 DEF Ordinal, Assistants
  <2> QED
    BY <1>16, <2>7, <2>8, <2>9
<1>19. /\ DOMAIN kept = 1..Cardinality(J) /\ kept[k] = hs[j].extras
  <2>1. kept = [i \in 1..Cardinality(J) |-> Assistants(hs)[i].extras]
    BY <1>6, <1>11 DEF assistant_extras
  <2> QED
    BY <1>11, <1>14, <1>15, <2>1
<1>20. Assistants(hs)[k].extras = hs[j].extras
  BY <1>11, <1>14, <1>15
<1>21. Assistants(wire)[k] = wire[j]
  BY <1>12, <1>14, <1>15
<1>22. Keeping(hs[j].extras, thought[k])
  <2>1. Len(Assistants(hs)) = Cardinality(J)
    BY <1>10, <1>11
  <2>2. k \in 1..Len(thought)
    BY <1>1, <1>14, <2>1 DEF ThoughtsKept
  <2> QED
    BY <1>1, <1>20, <2>2 DEF ThoughtsKept
<1>23. Reasoning(hs[j].extras) = IF hs[j].extras = <<>> THEN <<>> ELSE thought[k]
  BY <1>22, KeptReasoning
<1> QED
  BY <1>1, <1>7, <1>13, <1>14, <1>17, <1>18, <1>19, <1>20, <1>21, <1>23

(* The reasoning that a client sends back goes with the turn it was        *)
(* thought for.                                                            *)
THEOREM ReasoningIsReturned == AdaptersSpec => []ReasoningReturns
<1> DEFINE IInvThought == ThoughtsKept /\ RequestIsWired
<1>1. AdaptersInit => IInvThought
  <2>1. ASSUME AdaptersInit PROVE IInvThought
    <3>1. history = <<>> /\ thought = <<>> /\ phase = "client"
      BY <2>1 DEF AdaptersInit, ConversationInit
    <3>2. Assistants(history) = <<>>
      BY <3>1, AssistantsMore
    <3> QED
      BY <3>1, <3>2 DEF ThoughtsKept, RequestIsWired
  <2> QED
    BY <2>1
<1>2. TypesHold /\ IInvThought /\ [AdaptersNext]_<<conversation, own>> => IInvThought'
  <2>1. ASSUME TypesHold, IInvThought, AdaptersNext PROVE IInvThought'
    <3>1. Moves
      BY <2>1, NextMoves DEF TypesHold
    <3>2. ThoughtsKept'
      BY <2>1, <3>1, ThoughtsKeptOn DEF TypesHold
    <3>3. RequestIsWired'
      <4>1. ASSUME route'.adapter = "openai", phase' = "waiting"
            PROVE  request'.messages = to_wire_value(history)'
        <5>1. Ask /\ route' = route
          BY <3>1, <4>1, OnlyAsksWait, RouteStays
        <5>2. request' = Request(<<>>, to_wire_value(history), {}) /\ history' = history
          BY <4>1, <5>1 DEF Ask, Sends, BuildRequest
        <5>3. to_wire_value(history)' = to_wire_value(history)
          BY <5>1, <5>2 DEF to_wire_value, Normalized, assistant_extras
        <5> QED
          BY <5>2, <5>3 DEF Request
      <4> QED
        BY <4>1 DEF RequestIsWired
    <3> QED
      BY <3>2, <3>3
  <2>2. ASSUME IInvThought, UNCHANGED <<conversation, own>> PROVE IInvThought'
    <3>1. UNCHANGED <<history, request, phase, route, thought>>
      BY <2>2 DEF conversation, own
    <3>2. to_wire_value(history)' = to_wire_value(history)
      BY <3>1 DEF to_wire_value, Normalized, assistant_extras
    <3> QED
      BY <2>2, <3>1, <3>2 DEF ThoughtsKept, RequestIsWired
  <2> QED
    BY <2>1, <2>2
<1>3. TypesHold /\ IInvThought => ReasoningReturns
  BY ReasoningFromKept DEF TypesHold
<1> QED
  BY <1>1, <1>2, <1>3, AdaptersTypeCorrect, PTL DEF AdaptersSpec

-----------------------------------------------------------------------------
(* What is asked of the upstream: every adapter tells the history again, in\nits own form of messages, and an answer comes back in the next request.*)

---------------------------------------------------------------------------
(* The blocks of a request: Raw as the history is converted, Piece after   *)
(* the names were remapped.                                                *)

CCNames == ToolNames \cup {to_cc_name(n) : n \in ToolNames}
Raw == [kind : {"text", "tool_use", "tool_result", "reminder"}, of : Nat, name : ToolNames, text : Text]
Piece == [kind : {"text", "tool_use", "tool_result", "reminder"}, of : Nat, name : CCNames, text : Text]

(* What is left of blocks when they are sent.                              *)
Wire(bs) == drop_blank_text([j \in DOMAIN bs |-> Remapped(bs[j])])
(* The ids in the blocks of a kind.                                        *)
Ofs(bs, kind) == LET of == Ofkind(bs, kind) IN [i \in DOMAIN of |-> of[i].of]

LEMMA OfkindIs ==
  ASSUME NEW S, NEW kind, NEW bs \in Seq(S)
  PROVE  Ofkind(bs, kind) = Among(bs, {b \in S : b.kind = kind})
<1>1. \A i \in DOMAIN bs : bs[i] \in S
  OBVIOUS
<1>2. {i \in DOMAIN bs : bs[i].kind = kind} = {i \in DOMAIN bs : bs[i] \in {b \in S : b.kind = kind}}
  BY <1>1
<1> QED
  BY <1>2 DEF Ofkind, Among

LEMMA DropIs ==
  ASSUME NEW S, NEW bs \in Seq(S)
  PROVE  drop_blank_text(bs) = Among(bs, {b \in S : ~IsBlankText(b)})
<1>1. \A i \in DOMAIN bs : bs[i] \in S
  OBVIOUS
<1>2. {i \in DOMAIN bs : ~IsBlankText(bs[i])} = {i \in DOMAIN bs : bs[i] \in {b \in S : ~IsBlankText(b)}}
  BY <1>1
<1> QED
  BY <1>2 DEF drop_blank_text, Among

EachJoins(F, s, t) == Each(F, s \o t) = Each(F, s) \o Each(F, t)
LEMMA EachBoth ==
  ASSUME NEW S, NEW F, NEW s \in Seq(S), NEW t \in Seq(S)
  PROVE  EachJoins(F, s, t)
<1>1. PICK m : m = [i \in 1..Len(s) |-> F[s[i]]]
  OBVIOUS
<1>2. PICK n : n = [i \in 1..Len(t) |-> F[t[i]]]
  OBVIOUS
<1>3. PICK u : u = s \o t
  OBVIOUS
<1>4. /\ Len(u) = Len(s) + Len(t) /\ Len(s) \in Nat /\ Len(t) \in Nat /\ DOMAIN u = 1..(Len(s) + Len(t))
      /\ \A i \in 1..Len(s) : u[i] = s[i]
      /\ \A i \in (Len(s) + 1)..(Len(s) + Len(t)) : u[i] = t[i - Len(s)]
  BY <1>3
<1>5. Each(F, s) = m /\ Each(F, t) = n
  BY <1>1, <1>2 DEF Each
<1>6. Each(F, u) = [i \in 1..(Len(s) + Len(t)) |-> F[u[i]]]
  BY <1>4 DEF Each
<1>7. m \in Seq({F[x] : x \in S}) /\ n \in Seq({F[x] : x \in S}) /\ Len(m) = Len(s) /\ Len(n) = Len(t)
  BY <1>1, <1>2
<1>8. m \o n = [i \in 1..(Len(s) + Len(t)) |-> IF i <= Len(s) THEN m[i] ELSE n[i - Len(s)]]
  <2>1. PICK V : V = {F[x] : x \in S}
    OBVIOUS
  <2>2. m \in Seq(V) /\ n \in Seq(V)
    BY <1>7, <2>1
  <2>3. PICK w : w = m \o n
    OBVIOUS
  <2>4. /\ w \in Seq(V) /\ Len(w) = Len(m) + Len(n)
        /\ \A i \in 1..(Len(m) + Len(n)) : w[i] = IF i <= Len(m) THEN m[i] ELSE n[i - Len(m)]
    BY ONLY <2>2, <2>3
  <2>5. w = [i \in 1..Len(w) |-> w[i]]
    BY ONLY <2>4
  <2> QED
    BY <1>7, <2>3, <2>4, <2>5
<1>9. \A i \in 1..(Len(s) + Len(t)) : F[u[i]] = IF i <= Len(s) THEN m[i] ELSE n[i - Len(s)]
  <2>1. ASSUME NEW i \in 1..(Len(s) + Len(t)), i <= Len(s) PROVE F[u[i]] = m[i]
    BY <1>1, <1>4, <2>1
  <2>2. ASSUME NEW i \in 1..(Len(s) + Len(t)), ~(i <= Len(s)) PROVE F[u[i]] = n[i - Len(s)]
    <3>1. i - Len(s) \in 1..Len(t) /\ i \in (Len(s) + 1)..(Len(s) + Len(t))
      BY <1>4, <2>2
    <3> QED
      BY <1>2, <1>4, <3>1
  <2> QED
    BY <2>1, <2>2
<1> QED
  BY <1>3, <1>5, <1>6, <1>8, <1>9 DEF EachJoins

RemapsTo(F) == \A b \in Raw : F[b] = Remapped(b) /\ F[b] \in Piece /\ F[b].kind = b.kind /\ F[b].of = b.of
                            /\ F[b].text = b.text
LEMMA RemapTyped == \E F : RemapsTo(F)
<1>1. PICK F : F = [b \in Raw |-> Remapped(b)]
  OBVIOUS
<1>2. ASSUME NEW b \in Raw
      PROVE  /\ Remapped(b) \in Piece /\ Remapped(b).kind = b.kind /\ Remapped(b).of = b.of
             /\ Remapped(b).text = b.text
  <2>1. to_cc_name(b.name) \in CCNames /\ b.name \in CCNames
    BY DEF Raw, CCNames
  <2>2. PICK name : name = to_cc_name(b.name)
    OBVIOUS
  <2>3. b = [kind |-> b.kind, of |-> b.of, name |-> b.name, text |-> b.text]
    BY DEF Raw
  <2>4. [b EXCEPT !.name = name] = [kind |-> b.kind, of |-> b.of, name |-> name, text |-> b.text]
    BY <2>3
  <2>5. [kind |-> b.kind, of |-> b.of, name |-> name, text |-> b.text] \in Piece
    BY <2>1, <2>2 DEF Raw, Piece
  <2>6. b \in Piece
    BY <2>1 DEF Raw, Piece
  <2>7. Remapped(b) = b \/ Remapped(b) = [b EXCEPT !.name = name]
    BY <2>2 DEF Remapped
  <2> QED
    BY <2>4, <2>5, <2>6, <2>7
<1>3. RemapsTo(F)
  BY <1>1, <1>2 DEF RemapsTo
<1> QED
  BY <1>3

(* Blocks are sent one by one.                                             *)
WireIsFor(F, bs) ==
  /\ Wire(bs) = Among(Each(F, bs), {b \in Piece : ~IsBlankText(b)})
  /\ Each(F, bs) \in Seq(Piece) /\ Wire(bs) \in Seq(Piece)
LEMMA WireIs ==
  ASSUME NEW F, RemapsTo(F), NEW bs \in Seq(Raw)
  PROVE  WireIsFor(F, bs)
<1>1. \A b \in Raw : F[b] \in Piece /\ F[b] = Remapped(b)
  BY DEF RemapsTo
<1>2. \A j \in DOMAIN bs : bs[j] \in Raw
  OBVIOUS
<1>3. [j \in DOMAIN bs |-> Remapped(bs[j])] = Each(F, bs)
  BY <1>1, <1>2 DEF Each
<1>4. Each(F, bs) \in Seq(Piece)
  BY <1>1, EachIs
<1>5. drop_blank_text(Each(F, bs)) = Among(Each(F, bs), {b \in Piece : ~IsBlankText(b)})
  BY <1>4, DropIs
<1>6. Among(Each(F, bs), {b \in Piece : ~IsBlankText(b)}) \in Seq(Piece)
  BY <1>4, AmongIs
<1> QED
  BY <1>3, <1>4, <1>5, <1>6 DEF Wire, WireIsFor

WireBothFor(bs, cs) == Wire(bs \o cs) = Wire(bs) \o Wire(cs)
LEMMA WireBoth ==
  ASSUME NEW bs \in Seq(Raw), NEW cs \in Seq(Raw)
  PROVE  WireBothFor(bs, cs) /\ Wire(bs) \in Seq(Piece)
<1>1. PICK F : RemapsTo(F)
  BY RemapTyped
<1>2. PICK X : X = {b \in Piece : ~IsBlankText(b)}
  OBVIOUS
<1>3. bs \o cs \in Seq(Raw)
  OBVIOUS
<1>4. WireIsFor(F, bs) /\ WireIsFor(F, cs) /\ WireIsFor(F, bs \o cs)
  BY <1>1, <1>3, WireIs
<1>5. \A b \in Raw : F[b] \in Piece
  BY <1>1 DEF RemapsTo
<1>6. Each(F, bs \o cs) = Each(F, bs) \o Each(F, cs)
  BY EachBoth DEF EachJoins
<1>7. Each(F, bs) \in Seq(Piece) /\ Each(F, cs) \in Seq(Piece)
  BY <1>4 DEF WireIsFor
<1>8. Among(Each(F, bs) \o Each(F, cs), X) = Among(Each(F, bs), X) \o Among(Each(F, cs), X)
  BY <1>7, AmongBoth
<1> QED
  BY <1>2, <1>4, <1>6, <1>8 DEF WireIsFor, WireBothFor

LEMMA WireMore ==
  /\ Wire(<<>>) = <<>>
  /\ \A bs \in Seq(Raw), b \in Raw :
       /\ Wire(bs) \in Seq(Piece) /\ Remapped(b) \in Piece
       /\ Wire(Append(bs, b)) = IF IsBlankText(b) THEN Wire(bs) ELSE Append(Wire(bs), Remapped(b))
<1>1. PICK F : RemapsTo(F)
  BY RemapTyped
<1>2. PICK X : X = {b \in Piece : ~IsBlankText(b)}
  OBVIOUS
<1>3. \A ps \in Seq(Piece), p \in Piece :
        Among(Append(ps, p), X) = IF p \in X THEN Append(Among(ps, X), p) ELSE Among(ps, X)
  BY AmongMore
<1>4. Among(<<>>, X) = <<>>
  BY AmongMore
<1>5. ASSUME NEW bs \in Seq(Raw), NEW b \in Raw
      PROVE  /\ Wire(bs) \in Seq(Piece) /\ Remapped(b) \in Piece
             /\ Wire(Append(bs, b)) = IF IsBlankText(b) THEN Wire(bs) ELSE Append(Wire(bs), Remapped(b))
  <2>1. Append(bs, b) \in Seq(Raw)
    OBVIOUS
  <2>2. WireIsFor(F, bs) /\ WireIsFor(F, Append(bs, b))
    BY <1>1, <2>1, WireIs
  <2>3. Each(F, Append(bs, b)) = Append(Each(F, bs), F[b])
    BY EachMore
  <2>4. F[b] = Remapped(b) /\ F[b] \in Piece /\ (F[b] \in X <=> ~IsBlankText(b))
    BY <1>1, <1>2 DEF RemapsTo, IsBlankText
  <2>5. Each(F, bs) \in Seq(Piece)
    BY <2>2 DEF WireIsFor
  <2>6. Among(Append(Each(F, bs), F[b]), X)
          = IF F[b] \in X THEN Append(Among(Each(F, bs), X), F[b]) ELSE Among(Each(F, bs), X)
    BY <1>3, <2>4, <2>5
  <2>7. Wire(bs) = Among(Each(F, bs), X) /\ Wire(Append(bs, b)) = Among(Append(Each(F, bs), F[b]), X)
    BY <1>2, <2>2, <2>3 DEF WireIsFor
  <2>8. Wire(bs) \in Seq(Piece)
    BY <2>2 DEF WireIsFor
  <2> QED
    BY <2>4, <2>6, <2>7, <2>8
<1>6. <<>> \in Seq(Raw)
  OBVIOUS
<1>7. Wire(<<>>) = <<>>
  <2>1. WireIsFor(F, <<>>)
    BY <1>1, <1>6, WireIs
  <2>2. Each(F, <<>>) = <<>>
    BY DEF Each
  <2> QED
    BY <1>2, <1>4, <2>1, <2>2 DEF WireIsFor
<1> QED
  BY <1>5, <1>7

(* The ids in a longer list of blocks, and in two lists.                   *)
IdsAre(kind, X, G) == \A bs \in Seq(Piece) : Ofs(bs, kind) = Each(G, Among(bs, X)) /\ Among(bs, X) \in Seq(Piece)
IdsFrom(kind, X, G) ==
  /\ X = {b \in Piece : b.kind = kind} /\ \A b \in Piece : G[b] = b.of /\ G[b] \in Nat
  /\ IdsAre(kind, X, G)
LEMMA OfsIs ==
  ASSUME NEW kind
  PROVE  \E X, G : IdsFrom(kind, X, G)
<1>1. PICK G : G = [b \in Piece |-> b.of]
  OBVIOUS
<1>2. PICK X : X = {b \in Piece : b.kind = kind}
  OBVIOUS
<1>3. \A b \in Piece : G[b] = b.of /\ G[b] \in Nat
  BY <1>1 DEF Piece
<1>4. ASSUME NEW bs \in Seq(Piece) PROVE Ofs(bs, kind) = Each(G, Among(bs, X)) /\ Among(bs, X) \in Seq(Piece)
  <2>1. PICK of : of = Ofkind(bs, kind)
    OBVIOUS
  <2>2. of = Among(bs, X) /\ of \in Seq(Piece)
    <3>1. Ofkind(bs, kind) = Among(bs, {b \in Piece : b.kind = kind})
      BY OfkindIs
    <3>2. Among(bs, X) \in Seq(Piece)
      BY AmongIs
    <3> QED
      BY <1>2, <2>1, <3>1, <3>2
  <2>3. \A i \in DOMAIN of : of[i] \in Piece
    BY <2>2
  <2>4. [i \in DOMAIN of |-> of[i].of] = Each(G, of)
    BY <1>3, <2>3 DEF Each
  <2> QED
    BY <2>1, <2>2, <2>4 DEF Ofs
<1>5. IdsAre(kind, X, G)
  BY <1>4 DEF IdsAre
<1>6. IdsFrom(kind, X, G)
  BY <1>2, <1>3, <1>5 DEF IdsFrom
<1> QED
  BY <1>6

OfsMoreFor(bs, b, kind) ==
  Ofs(Append(bs, b), kind) = IF b.kind = kind THEN Append(Ofs(bs, kind), b.of) ELSE Ofs(bs, kind)
OfsBothFor(bs, cs, kind) == Ofs(bs \o cs, kind) = Ofs(bs, kind) \o Ofs(cs, kind)
LEMMA OfsMore ==
  ASSUME NEW kind
  PROVE  /\ Ofs(<<>>, kind) = <<>>
         /\ \A bs \in Seq(Piece) :
              /\ Ofs(bs, kind) \in Seq(Nat)
              /\ \A b \in Piece : OfsMoreFor(bs, b, kind)
              /\ \A cs \in Seq(Piece) : OfsBothFor(bs, cs, kind)
<1>1. PICK X, G : IdsFrom(kind, X, G)
  BY OfsIs
<1>2. \A bs \in Seq(Piece) : Ofs(bs, kind) = Each(G, Among(bs, X)) /\ Among(bs, X) \in Seq(Piece)
  BY <1>1 DEF IdsFrom, IdsAre
<1>3. \A b \in Piece : (b \in X <=> b.kind = kind) /\ G[b] = b.of /\ G[b] \in Nat
  BY <1>1 DEF IdsFrom
<1>4. <<>> \in Seq(Piece) /\ Among(<<>>, X) = <<>>
  BY AmongMore
<1>5. Ofs(<<>>, kind) = <<>>
  <2>1. Each(G, <<>>) = <<>>
    BY DEF Each
  <2> QED
    BY <1>2, <1>4, <2>1
<1>a. \A b \in Piece : G[b] \in Nat
  BY <1>3
<1>b. \A es \in Seq(Piece) : Each(G, es) \in Seq(Nat)
  BY <1>a, EachIs
<1>c. \A es \in Seq(Piece), b \in Piece :
        Among(Append(es, b), X) = IF b \in X THEN Append(Among(es, X), b) ELSE Among(es, X)
  BY AmongMore
<1>d. ASSUME NEW es \in Seq(Piece), NEW ds \in Seq(Piece) PROVE EachJoins(G, es, ds)
  BY EachBoth
<1>6. ASSUME NEW bs \in Seq(Piece) PROVE Ofs(bs, kind) \in Seq(Nat)
  BY <1>2, <1>b
<1>7. ASSUME NEW bs \in Seq(Piece), NEW b \in Piece PROVE OfsMoreFor(bs, b, kind)
  <2>1. Append(bs, b) \in Seq(Piece)
    OBVIOUS
  <2>2. PICK es : es = Among(bs, X)
    OBVIOUS
  <2>3. es \in Seq(Piece) /\ Ofs(bs, kind) = Each(G, es)
    BY <1>2, <2>2
  <2>4. Ofs(Append(bs, b), kind) = Each(G, Among(Append(bs, b), X))
    BY <1>2, <2>1
  <2>5. Among(Append(bs, b), X) = IF b \in X THEN Append(es, b) ELSE es
    BY <1>c, <2>2
  <2>6. Each(G, Append(es, b)) = Append(Each(G, es), G[b])
    BY <2>3, EachMore
  <2> QED
    BY <1>3, <2>3, <2>4, <2>5, <2>6 DEF OfsMoreFor
<1>8. ASSUME NEW bs \in Seq(Piece), NEW cs \in Seq(Piece) PROVE OfsBothFor(bs, cs, kind)
  <2>1. bs \o cs \in Seq(Piece)
    OBVIOUS
  <2>2. PICK es : es = Among(bs, X)
    OBVIOUS
  <2>3. PICK ds : ds = Among(cs, X)
    OBVIOUS
  <2>4. es \in Seq(Piece) /\ Ofs(bs, kind) = Each(G, es)
    BY <1>2, <2>2
  <2>5. ds \in Seq(Piece) /\ Ofs(cs, kind) = Each(G, ds)
    BY <1>2, <2>3
  <2>6. Ofs(bs \o cs, kind) = Each(G, Among(bs \o cs, X))
    BY <1>2, <2>1
  <2>7. Among(bs \o cs, X) = es \o ds
    BY <2>2, <2>3, AmongBoth
  <2>8. Each(G, es \o ds) = Each(G, es) \o Each(G, ds)
    BY <1>d, <2>4, <2>5 DEF EachJoins
  <2> QED
    BY <2>4, <2>5, <2>6, <2>7, <2>8 DEF OfsBothFor
<1> QED
  BY <1>5, <1>6, <1>7, <1>8

LEMMA RawIsPiece == Raw \subseteq Piece /\ Seq(Raw) \subseteq Seq(Piece)
<1>1. Raw \subseteq Piece
  BY DEF Raw, Piece, CCNames
<1> QED
  BY <1>1

(* Calls and results are sent as they are; only blank texts are dropped.   *)
LEMMA OfsWire ==
  ASSUME NEW kind, kind # "text"
  PROVE  \A bs \in Seq(Raw) : Ofs(Wire(bs), kind) = Ofs(bs, kind)
<1> DEFINE T == {bs \in Seq(Raw) : Ofs(Wire(bs), kind) = Ofs(bs, kind)}
<1>1. <<>> \in T
  BY WireMore
<1>2. ASSUME NEW bs \in Seq(Raw), NEW b \in Raw, bs \in T PROVE Append(bs, b) \in T
  <2>1. Append(bs, b) \in Seq(Raw) /\ bs \in Seq(Piece) /\ b \in Piece
    BY RawIsPiece
  <2>2. Wire(bs) \in Seq(Piece) /\ Remapped(b) \in Piece
    BY WireMore
  <2>3. OfsMoreFor(bs, b, kind) /\ OfsMoreFor(Wire(bs), Remapped(b), kind)
    BY <2>1, <2>2, OfsMore
  <2>4. Wire(Append(bs, b)) = IF IsBlankText(b) THEN Wire(bs) ELSE Append(Wire(bs), Remapped(b))
    BY WireMore
  <2>5. Remapped(b).kind = b.kind /\ Remapped(b).of = b.of
    BY RemapTyped DEF RemapsTo
  <2>6. Ofs(Wire(bs), kind) = Ofs(bs, kind)
    BY <1>2
  <2>7. CASE IsBlankText(b)
    <3>1. b.kind # kind
      BY <2>7 DEF IsBlankText
    <3> QED
      BY <2>1, <2>3, <2>4, <2>6, <2>7, <3>1 DEF OfsMoreFor
  <2>8. CASE ~IsBlankText(b)
    <3>1. Wire(Append(bs, b)) = Append(Wire(bs), Remapped(b))
      BY <2>4, <2>8
    <3>2. Ofs(Wire(Append(bs, b)), kind) = Ofs(Append(bs, b), kind)
      BY <2>3, <2>5, <2>6, <3>1 DEF OfsMoreFor
    <3> QED
      BY <2>1, <3>2
  <2> QED
    BY <2>7, <2>8
<1> HIDE DEF T
<1>3. \A bs \in Seq(Raw) : bs \in T
  BY <1>1, <1>2, EverySequence
<1> QED
  BY <1>3 DEF T

---------------------------------------------------------------------------
(* The messages of a request, and what is left of them when they are sent. *)

RawTurn == [role : {"user", "assistant"}, blocks : Seq(Raw)]
Turn == [role : {"user", "assistant"}, blocks : Seq(Piece)]
AsTurn(x) == [role |-> x.role, blocks |-> Wire(x.blocks)]
AsSent(ms) == clean_messages(remap_tool_use_blocks(ms))

LEMMA TurnSent ==
  ASSUME NEW x \in RawTurn
  PROVE  /\ AsTurn(x) \in Turn
         /\ \A y : y = [x EXCEPT !.blocks = [j \in DOMAIN @ |-> Remapped(@[j])]]
                     => [y EXCEPT !.blocks = drop_blank_text(@)] = AsTurn(x)
<1>1. x.blocks \in Seq(Raw) /\ x.role \in {"user", "assistant"}
      /\ x = [role |-> x.role, blocks |-> x.blocks]
  BY DEF RawTurn
<1>2. Wire(x.blocks) \in Seq(Piece)
  BY <1>1, WireMore
<1>3. AsTurn(x) \in Turn
  BY <1>1, <1>2 DEF AsTurn, Turn
<1>4. ASSUME NEW y, y = [x EXCEPT !.blocks = [j \in DOMAIN @ |-> Remapped(@[j])]]
      PROVE  [y EXCEPT !.blocks = drop_blank_text(@)] = AsTurn(x)
  <2>1. PICK bs : bs = [j \in DOMAIN x.blocks |-> Remapped(x.blocks[j])]
    OBVIOUS
  <2>2. y = [x EXCEPT !.blocks = bs]
    BY <1>4, <2>1
  <2>3. y = [role |-> x.role, blocks |-> bs]
    BY <1>1, <2>2
  <2>4. PICK cs : cs = drop_blank_text(bs)
    OBVIOUS
  <2>5. [y EXCEPT !.blocks = drop_blank_text(@)] = [y EXCEPT !.blocks = cs]
    BY <2>3, <2>4
  <2>6. [y EXCEPT !.blocks = cs] = [role |-> x.role, blocks |-> cs]
    BY <2>3
  <2> QED
    BY <2>1, <2>4, <2>5, <2>6 DEF AsTurn, Wire
<1> QED
  BY <1>3, <1>4

SentMoreFor(ms, x) ==
  AsSent(Append(ms, x)) = IF Wire(x.blocks) = <<>> THEN AsSent(ms) ELSE Append(AsSent(ms), AsTurn(x))
LEMMA AsSentMore ==
  /\ AsSent(<<>>) = <<>>
  /\ \A ms \in Seq(RawTurn) : AsSent(ms) \in Seq(Turn) /\ \A x \in RawTurn : SentMoreFor(ms, x)
<1>1. PICK H : H = [x \in RawTurn |-> AsTurn(x)]
  OBVIOUS
<1>2. PICK X : X = {t \in Turn : t.blocks # <<>>}
  OBVIOUS
<1>3. \A x \in RawTurn : H[x] = AsTurn(x) /\ H[x] \in Turn
  BY <1>1, TurnSent
<1>a. \A x \in RawTurn : H[x] \in Turn
  BY <1>3
<1>b. \A ms \in Seq(RawTurn) : Each(H, ms) \in Seq(Turn)
  BY <1>a, EachIs
<1>4. ASSUME NEW ms \in Seq(RawTurn)
      PROVE  AsSent(ms) = Among(Each(H, ms), X) /\ Among(Each(H, ms), X) \in Seq(Turn)
  <2>1. PICK rs : rs = remap_tool_use_blocks(ms)
    OBVIOUS
  <2>2. DOMAIN rs = DOMAIN ms /\ \A i \in DOMAIN ms :
          rs[i] = [ms[i] EXCEPT !.blocks = [j \in DOMAIN @ |-> Remapped(@[j])]]
    BY <2>1 DEF remap_tool_use_blocks
  <2>3. PICK kept : kept = [i \in DOMAIN rs |-> [rs[i] EXCEPT !.blocks = drop_blank_text(@)]]
    OBVIOUS
  <2>4. \A i \in DOMAIN ms : ms[i] \in RawTurn
    OBVIOUS
  <2>5. ASSUME NEW i \in DOMAIN ms PROVE kept[i] = H[ms[i]]
    <3>1. ms[i] \in RawTurn /\ rs[i] = [ms[i] EXCEPT !.blocks = [j \in DOMAIN @ |-> Remapped(@[j])]]
      BY <2>2, <2>4
    <3>2. [rs[i] EXCEPT !.blocks = drop_blank_text(@)] = AsTurn(ms[i])
      BY <3>1, TurnSent
    <3> QED
      BY <1>3, <2>2, <2>3, <3>1, <3>2
  <2>6. kept = Each(H, ms)
    BY <2>2, <2>3, <2>5 DEF Each
  <2>7. kept \in Seq(Turn)
    BY <1>b, <2>6
  <2>8. \A i \in DOMAIN kept : kept[i] \in Turn
    BY <2>7
  <2>9. {i \in DOMAIN kept : kept[i].blocks # <<>>} = {i \in DOMAIN kept : kept[i] \in X}
    BY <1>2, <2>8
  <2>10. AsSent(ms) = Only(kept, {i \in DOMAIN kept : kept[i].blocks # <<>>})
    BY <2>1, <2>3 DEF AsSent, clean_messages
  <2>11. Among(kept, X) \in Seq(Turn)
    BY <2>7, AmongIs
  <2> QED
    BY <2>6, <2>9, <2>10, <2>11 DEF Among
<1>5. <<>> \in Seq(RawTurn) /\ Each(H, <<>>) = <<>>
  BY DEF Each
<1>6. Among(<<>>, X) = <<>>
  BY AmongMore
<1>c. \A ts \in Seq(Turn), t \in Turn :
        Among(Append(ts, t), X) = IF t \in X THEN Append(Among(ts, X), t) ELSE Among(ts, X)
  BY AmongMore
<1>d. \A ms \in Seq(RawTurn), x \in RawTurn : Each(H, Append(ms, x)) = Append(Each(H, ms), H[x])
  BY EachMore
<1>7. ASSUME NEW ms \in Seq(RawTurn), NEW x \in RawTurn PROVE SentMoreFor(ms, x)
  <2>1. Append(ms, x) \in Seq(RawTurn)
    OBVIOUS
  <2>2. AsSent(ms) = Among(Each(H, ms), X) /\ AsSent(Append(ms, x)) = Among(Each(H, Append(ms, x)), X)
    BY <1>4, <2>1
  <2>3. PICK ts : ts = Each(H, ms)
    OBVIOUS
  <2>4. ts \in Seq(Turn) /\ H[x] \in Turn /\ H[x] = AsTurn(x)
    BY <1>3, <1>b, <2>3
  <2>5. Each(H, Append(ms, x)) = Append(ts, H[x])
    BY <1>d, <2>3
  <2>6. Among(Append(ts, H[x]), X) = IF H[x] \in X THEN Append(Among(ts, X), H[x]) ELSE Among(ts, X)
    BY <1>c, <2>4
  <2>7. H[x] \in X <=> Wire(x.blocks) # <<>>
    BY <1>2, <2>4 DEF AsTurn
  <2> QED
    BY <2>2, <2>3, <2>4, <2>5, <2>6, <2>7 DEF SentMoreFor
<1>8. \A ms \in Seq(RawTurn) : AsSent(ms) \in Seq(Turn)
  BY <1>4
<1>9. AsSent(<<>>) = <<>>
  BY <1>4, <1>5, <1>6
<1> QED
  BY <1>7, <1>8, <1>9

(* What the upstream finds it has said in the messages of a request.       *)
SaidIn(ms) ==
  LET said == Assistants(ms) IN Sayings([i \in DOMAIN said |-> drop_blank_text(said[i].blocks)])
SaidInMoreFor(ms, x) ==
  SaidIn(Append(ms, x))
    = IF x.role = "assistant" /\ drop_blank_text(x.blocks) # <<>>
      THEN Append(SaidIn(ms), drop_blank_text(x.blocks)) ELSE SaidIn(ms)
LEMMA SaidInMore ==
  ASSUME NEW S, \A x \in S : x.blocks \in Seq(Piece)
  PROVE  SaidIn(<<>>) = <<>> /\ \A ms \in Seq(S), x \in S : SaidInMoreFor(ms, x)
<1>0. \A x \in S : x.blocks \in Seq(Piece)
  OBVIOUS
<1>1. PICK A : A = {x \in S : x.role = "assistant"}
  OBVIOUS
<1>2. PICK D : D = [x \in S |-> drop_blank_text(x.blocks)]
  OBVIOUS
<1>3. PICK N : N = {u \in Seq(Piece) : u # <<>>}
  OBVIOUS
<1>4. ASSUME NEW x \in S PROVE D[x] = drop_blank_text(x.blocks) /\ D[x] \in Seq(Piece)
  <2>1. x.blocks \in Seq(Piece)
    BY <1>0
  <2>2. drop_blank_text(x.blocks) = Among(x.blocks, {b \in Piece : ~IsBlankText(b)})
    BY <2>1, DropIs
  <2>3. Among(x.blocks, {b \in Piece : ~IsBlankText(b)}) \in Seq(Piece)
    BY <2>1, AmongIs
  <2> QED
    BY <1>2, <2>2, <2>3
<1>a. \A x \in S : D[x] \in Seq(Piece)
  BY <1>4
<1>b. \A ms \in Seq(S) : Each(D, ms) \in Seq(Seq(Piece))
  BY <1>a, EachIs
<1>c. \A ms \in Seq(S) : Among(ms, A) \in Seq(S)
  BY AmongIs
<1>5. ASSUME NEW ms \in Seq(S) PROVE SaidIn(ms) = Among(Each(D, Among(ms, A)), N)
  <2>1. PICK said : said = Assistants(ms)
    OBVIOUS
  <2>2. said = Among(ms, A)
    <3>1. \A i \in DOMAIN ms : ms[i] \in S
      OBVIOUS
    <3>2. {i \in DOMAIN ms : ms[i].role = "assistant"} = {i \in DOMAIN ms : ms[i] \in A}
      BY <1>1, <3>1
    <3> QED
      BY <2>1, <3>2 DEF Assistants, Among
  <2>3. said \in Seq(S)
    BY <1>c, <2>2
  <2>4. \A i \in DOMAIN said : said[i] \in S
    BY <2>3
  <2>5. PICK us : us = [i \in DOMAIN said |-> drop_blank_text(said[i].blocks)]
    OBVIOUS
  <2>6. us = Each(D, said)
    BY <1>4, <2>4, <2>5 DEF Each
  <2>7. us \in Seq(Seq(Piece))
    BY <1>b, <2>3, <2>6
  <2>8. \A i \in DOMAIN us : us[i] \in Seq(Piece)
    BY <2>7
  <2>9. {i \in DOMAIN us : us[i] # <<>>} = {i \in DOMAIN us : us[i] \in N}
    BY <1>3, <2>8
  <2>10. Sayings(us) = Among(us, N)
    BY <2>9 DEF Sayings, Among
  <2> QED
    BY <2>1, <2>2, <2>5, <2>6, <2>10 DEF SaidIn
<1>6. SaidIn(<<>>) = <<>>
  <2>1. <<>> \in Seq(S) /\ Among(<<>>, A) = <<>> /\ Among(<<>>, N) = <<>>
    BY AmongMore
  <2>2. Each(D, <<>>) = <<>>
    BY DEF Each
  <2> QED
    BY <1>5, <2>1, <2>2
<1>d. \A ms \in Seq(S), x \in S :
        Among(Append(ms, x), A) = IF x \in A THEN Append(Among(ms, A), x) ELSE Among(ms, A)
  BY AmongMore
<1>e. \A ms \in Seq(S), x \in S : Each(D, Append(ms, x)) = Append(Each(D, ms), D[x])
  BY EachMore
<1>f. \A us \in Seq(Seq(Piece)), u \in Seq(Piece) :
        Among(Append(us, u), N) = IF u \in N THEN Append(Among(us, N), u) ELSE Among(us, N)
  BY AmongMore
<1>7. ASSUME NEW ms \in Seq(S), NEW x \in S PROVE SaidInMoreFor(ms, x)
  <2>1. Append(ms, x) \in Seq(S)
    OBVIOUS
  <2>2. PICK said : said = Among(ms, A)
    OBVIOUS
  <2>3. said \in Seq(S) /\ SaidIn(ms) = Among(Each(D, said), N)
    BY <1>5, <1>c, <2>2
  <2>4. Among(Append(ms, x), A) = IF x \in A THEN Append(said, x) ELSE said
    BY <1>d, <2>2
  <2>5. SaidIn(Append(ms, x)) = Among(Each(D, Among(Append(ms, x), A)), N)
    BY <1>5, <2>1
  <2>6. CASE x.role # "assistant"
    BY <1>1, <2>3, <2>4, <2>5, <2>6 DEF SaidInMoreFor
  <2>7. CASE x.role = "assistant"
    <3>1. SaidIn(Append(ms, x)) = Among(Append(Each(D, said), D[x]), N)
      BY <1>1, <1>e, <2>3, <2>4, <2>5, <2>7
    <3>2. Each(D, said) \in Seq(Seq(Piece)) /\ D[x] \in Seq(Piece)
      BY <1>b, <1>4, <2>3
    <3>3. Among(Append(Each(D, said), D[x]), N)
            = IF D[x] \in N THEN Append(Among(Each(D, said), N), D[x]) ELSE Among(Each(D, said), N)
      BY <1>f, <3>2
    <3>4. D[x] \in N <=> drop_blank_text(x.blocks) # <<>>
      BY <1>3, <1>4
    <3> QED
      BY <1>4, <2>3, <2>7, <3>1, <3>3, <3>4 DEF SaidInMoreFor
  <2> QED
    BY <2>6, <2>7
<1> QED
  BY <1>6, <1>7

---------------------------------------------------------------------------
(* How a conversion grows: a message at its end, or more blocks in the     *)
(* user's message there.                                                   *)

Conv == [system : Text, pending : Seq(Text), messages : Seq(RawTurn)]
UserTurn(bs) == [role |-> "user", blocks |-> bs]
Added(ms, new, bs) == new = Append(ms, UserTurn(bs))
Merges(T, ms, new, bs) ==
  \E front \in Seq(T), l \in T :
    /\ ms = Append(front, l) /\ l.role = "user"
    /\ new = Append(front, UserTurn(l.blocks \o bs))
NoIds(bs) == Ofs(bs, "tool_result") = <<>> /\ Ofs(bs, "tool_use") = <<>>

LEMMA AppendEnds ==
  ASSUME NEW S, NEW s \in Seq(S), NEW t \in Seq(S), NEW x \in S, NEW y \in S
  PROVE  /\ Append(s, x) # <<>> /\ Last(Append(s, x)) = x
         /\ Append(s, x) = Append(t, y) => s = t /\ x = y
<1>1. /\ Append(s, x) \in Seq(S) /\ Len(Append(s, x)) = Len(s) + 1 /\ Len(s) \in Nat
      /\ Append(s, x)[Len(s) + 1] = x /\ \A i \in 1..Len(s) : Append(s, x)[i] = s[i]
  BY AppendIs
<1>2. /\ Append(t, y) \in Seq(S) /\ Len(Append(t, y)) = Len(t) + 1 /\ Len(t) \in Nat
      /\ Append(t, y)[Len(t) + 1] = y /\ \A i \in 1..Len(t) : Append(t, y)[i] = t[i]
  BY AppendIs
<1>3. Append(s, x) # <<>> /\ Last(Append(s, x)) = x
  BY <1>1 DEF Last
<1>4. ASSUME Append(s, x) = Append(t, y) PROVE s = t /\ x = y
  <2>1. Len(s) = Len(t)
    BY <1>1, <1>2, <1>4
  <2>2. \A i \in 1..Len(s) : s[i] = t[i]
    BY <1>1, <1>2, <1>4, <2>1
  <2>3. x = y
    BY <1>1, <1>2, <1>4, <2>1
  <2> QED
    BY <2>1, <2>2, <2>3
<1> QED
  BY <1>3, <1>4

(* A message that ends a sequence, and the rest.                           *)
LEMMA FrontIs ==
  ASSUME NEW S, NEW s \in Seq(S), s # <<>>
  PROVE  \E front \in Seq(S), l \in S : s = Append(front, l) /\ l = Last(s) /\ Len(front) + 1 = Len(s)
<1>1. Len(s) \in Nat /\ Len(s) >= 1
  OBVIOUS
<1>2. PICK front : front = SubSeq(s, 1, Len(s) - 1)
  OBVIOUS
<1>3. PICK l : l = s[Len(s)]
  OBVIOUS
<1>4. Len(s) - 1 \in 0..Len(s)
  BY <1>1
<1>5. front \in Seq(S) /\ Len(front) = Len(s) - 1 /\ \A i \in 1..(Len(s) - 1) : front[i] = s[i]
  BY <1>2, <1>4, PrefixIs
<1>6. l \in S /\ l = Last(s)
  BY <1>1, <1>3 DEF Last
<1>7. s = Append(front, l)
  <2>1. PICK u : u = Append(front, l)
    OBVIOUS
  <2>2. /\ u \in Seq(S) /\ Len(u) = Len(front) + 1 /\ u[Len(front) + 1] = l
        /\ \A i \in 1..Len(front) : u[i] = front[i]
    BY <1>5, <1>6, <2>1, AppendIs
  <2>3. Len(u) = Len(s) /\ \A i \in 1..Len(s) : u[i] = s[i]
    BY <1>1, <1>3, <1>5, <2>2
  <2>4. s \in Seq(S)
    OBVIOUS
  <2> QED
    BY ONLY <2>1, <2>2, <2>3, <2>4
<1> QED
  BY <1>1, <1>5, <1>6, <1>7

LEMMA AppendedIs ==
  ASSUME NEW c \in Conv, NEW role \in {"user", "assistant"}, NEW bs \in Seq(Raw)
  PROVE  /\ Appended(c, role, bs) \in Conv
         /\ Appended(c, role, bs).messages = Append(c.messages, [role |-> role, blocks |-> bs])
         /\ [role |-> role, blocks |-> bs] \in RawTurn
         /\ Appended(c, role, bs).pending = c.pending /\ Appended(c, role, bs).system = c.system
<1>1. [role |-> role, blocks |-> bs] \in RawTurn
  BY DEF RawTurn
<1>2. PICK ms : ms = Append(c.messages, [role |-> role, blocks |-> bs])
  OBVIOUS
<1>3. c.messages \in Seq(RawTurn) /\ c.pending \in Seq(Text) /\ c.system \in Text
      /\ c = [system |-> c.system, pending |-> c.pending, messages |-> c.messages]
  BY DEF Conv
<1>4. ms \in Seq(RawTurn)
  BY <1>1, <1>2, <1>3
<1>5. Appended(c, role, bs) = [c EXCEPT !.messages = ms]
  BY <1>2 DEF Appended
<1>6. [c EXCEPT !.messages = ms] = [system |-> c.system, pending |-> c.pending, messages |-> ms]
  BY <1>3
<1>7. [system |-> c.system, pending |-> c.pending, messages |-> ms] \in Conv
  BY <1>3, <1>4 DEF Conv
<1> QED
  BY <1>1, <1>2, <1>5, <1>6, <1>7

LEMMA ExtendedIs ==
  ASSUME NEW c \in Conv, EndsWithUser(c), NEW bs \in Seq(Raw)
  PROVE  /\ Extended(c, bs) \in Conv
         /\ Merges(RawTurn, c.messages, Extended(c, bs).messages, bs)
         /\ Extended(c, bs).pending = c.pending /\ Extended(c, bs).system = c.system
<1>1. PICK ms : ms = c.messages
  OBVIOUS
<1>2. ms \in Seq(RawTurn) /\ c.pending \in Seq(Text) /\ c.system \in Text
      /\ c = [system |-> c.system, pending |-> c.pending, messages |-> ms]
  BY <1>1 DEF Conv
<1>3. ms # <<>> /\ Last(ms).role = "user"
  BY <1>1 DEF EndsWithUser
<1>4. PICK front \in Seq(RawTurn), l \in RawTurn : ms = Append(front, l) /\ l = Last(ms) /\ Len(front) + 1 = Len(ms)
  BY <1>2, <1>3, FrontIs
<1>5. PICK n : n = Len(ms)
  OBVIOUS
<1>6. n = Len(front) + 1 /\ Len(front) \in Nat /\ ms[n] = l /\ DOMAIN ms = 1..n
  BY <1>2, <1>4, <1>5
<1>7. PICK more : more = l.blocks \o bs
  OBVIOUS
<1>8. l.blocks \in Seq(Raw) /\ l.role = "user" /\ l = [role |-> l.role, blocks |-> l.blocks]
  BY <1>3, <1>4 DEF RawTurn
<1>9. more \in Seq(Raw)
  BY <1>7, <1>8
<1>10. [l EXCEPT !.blocks = more] = UserTurn(more)
  <2>1. [l EXCEPT !.blocks = more] = [role |-> l.role, blocks |-> more]
    BY <1>8
  <2> QED
    BY <1>8, <2>1 DEF UserTurn
<1>11. UserTurn(more) \in RawTurn
  BY <1>9 DEF UserTurn, RawTurn
<1>12. PICK new : new = [ms EXCEPT ![n] = UserTurn(more)]
  OBVIOUS
<1>13. Extended(c, bs) = [system |-> c.system, pending |-> c.pending, messages |-> new]
  <2>1. Extended(c, bs) = [c EXCEPT !.messages = [ms EXCEPT ![n] = [l EXCEPT !.blocks = more]]]
    BY <1>1, <1>2, <1>5, <1>6, <1>7 DEF Extended
  <2>2. Extended(c, bs) = [c EXCEPT !.messages = new]
    BY <1>10, <1>12, <2>1
  <2> QED
    BY <1>2, <2>2
<1>14. new \in Seq(RawTurn) /\ Len(new) = n /\ new[n] = UserTurn(more) /\ \A i \in 1..Len(front) : new[i] = front[i]
  <2>1. \A i \in 1..Len(front) : ms[i] = front[i] /\ i # n /\ i \in 1..n
    <3>1. \A i \in 1..Len(front) : Append(front, l)[i] = front[i]
      BY <1>4, AppendIs
    <3> QED
      BY <1>4, <1>6, <3>1
  <2>2. n \in 1..n
    BY <1>6
  <2>3. new \in Seq(RawTurn) /\ Len(new) = n
    BY <1>2, <1>5, <1>6, <1>11, <1>12
  <2>4. new[n] = UserTurn(more) /\ \A i \in 1..n : i # n => new[i] = ms[i]
    BY <1>6, <1>12, <2>2
  <2> QED
    BY <2>1, <2>3, <2>4
<1>15. new = Append(front, UserTurn(more))
  BY <1>6, <1>11, <1>14
<1>16. Merges(RawTurn, ms, new, bs)
  BY <1>4, <1>7, <1>8, <1>15 DEF Merges
<1>17. Extended(c, bs) \in Conv
  BY <1>2, <1>13, <1>14 DEF Conv
<1> QED
  BY <1>1, <1>13, <1>16, <1>17

LEMMA NoneOf ==
  ASSUME NEW kind, NEW bs \in Seq(Piece), \A i \in DOMAIN bs : bs[i].kind # kind
  PROVE  Ofs(bs, kind) = <<>>
<1>1. PICK X, G : IdsFrom(kind, X, G)
  BY OfsIs
<1>2. X = {b \in Piece : b.kind = kind} /\ Ofs(bs, kind) = Each(G, Among(bs, X))
  BY <1>1 DEF IdsFrom, IdsAre
<1>3. \A i \in DOMAIN bs : bs[i] \notin X
  BY <1>2
<1>4. Among(bs, X) = <<>>
  BY <1>3, AmongAllOrNone
<1>5. Each(G, <<>>) = <<>>
  BY DEF Each
<1> QED
  BY <1>2, <1>4, <1>5

LEMMA TextRaw ==
  ASSUME NEW text \in Text
  PROVE  /\ TextBlock(text) \in Raw /\ Reminder(text) \in Raw
         /\ <<TextBlock(text)>> \in Seq(Raw) /\ NoIds(<<TextBlock(text)>>)
<1>1. "" \in ToolNames
  BY Names
<1>2. TextBlock(text) \in Raw /\ Reminder(text) \in Raw
  BY <1>1 DEF TextBlock, Reminder, Block, Raw
<1>3. PICK b : b = TextBlock(text)
  OBVIOUS
<1>4. b \in Raw /\ b.kind = "text"
  BY <1>2, <1>3 DEF TextBlock, Block
<1>5. <<b>> \in Seq(Raw) /\ \A i \in DOMAIN <<b>> : <<b>>[i] = b
  BY <1>4
<1>6. <<b>> \in Seq(Piece)
  BY <1>5, RawIsPiece
<1>7. \A i \in DOMAIN <<b>> : <<b>>[i].kind = "text"
  BY <1>4, <1>5
<1>8. Ofs(<<b>>, "tool_result") = <<>> /\ Ofs(<<b>>, "tool_use") = <<>>
  BY <1>6, <1>7, NoneOf
<1> QED
  BY <1>2, <1>3, <1>5, <1>8 DEF NoIds

LEMMA RemindersRaw ==
  ASSUME NEW words \in Seq(Text), NEW bs, bs = [i \in DOMAIN words |-> Reminder(words[i])]
  PROVE  bs \in Seq(Raw) /\ NoIds(bs) /\ (bs = <<>> <=> words = <<>>)
<1>1. \A i \in DOMAIN words : words[i] \in Text
  OBVIOUS
<1>2. \A i \in DOMAIN words : bs[i] \in Raw /\ bs[i].kind = "reminder"
  BY <1>1, TextRaw DEF Reminder, Block
<1>3. DOMAIN bs = DOMAIN words /\ DOMAIN words = 1..Len(words) /\ Len(words) \in Nat
  OBVIOUS
<1>4. bs = [i \in 1..Len(words) |-> bs[i]]
  BY <1>3
<1>5. bs \in Seq(Raw)
  BY <1>2, <1>3, <1>4
<1>6. bs = <<>> <=> words = <<>>
  BY <1>3, <1>5
<1>7. bs \in Seq(Piece)
  BY <1>5, RawIsPiece
<1>8. Ofs(bs, "tool_result") = <<>> /\ Ofs(bs, "tool_use") = <<>>
  BY <1>2, <1>3, <1>7, NoneOf
<1> QED
  BY <1>5, <1>6, <1>8 DEF NoIds

FlushesTo(c, d) ==
  \E bs \in Seq(Raw) :
    /\ NoIds(bs)
    /\ \/ bs = <<>> /\ d.messages = c.messages
       \/ EndsWithUser(c) /\ Merges(RawTurn, c.messages, d.messages, bs)
       \/ ~EndsWithUser(c) /\ Added(c.messages, d.messages, bs)
LEMMA FlushedIs ==
  ASSUME NEW c \in Conv
  PROVE  /\ Flushed(c) \in Conv /\ Flushed(c).pending = <<>> /\ Flushed(c).system = c.system
         /\ c.pending = <<>> => Flushed(c) = c
         /\ FlushesTo(c, Flushed(c))
<1>1. /\ c.messages \in Seq(RawTurn) /\ c.pending \in Seq(Text) /\ c.system \in Text
      /\ c = [system |-> c.system, pending |-> c.pending, messages |-> c.messages]
  BY DEF Conv
<1>2. PICK bs : bs = [i \in DOMAIN c.pending |-> Reminder(c.pending[i])]
  OBVIOUS
<1>3. bs \in Seq(Raw) /\ NoIds(bs) /\ (bs = <<>> <=> c.pending = <<>>)
  BY <1>1, <1>2, RemindersRaw
<1>4. PICK none : none = [c EXCEPT !.pending = <<>>]
  OBVIOUS
<1>5. none = [system |-> c.system, pending |-> <<>>, messages |-> c.messages]
  BY <1>1, <1>4
<1>6. none \in Conv /\ none.pending = <<>> /\ none.messages = c.messages /\ none.system = c.system
  BY <1>1, <1>5 DEF Conv
<1>7. EndsWithUser(none) <=> EndsWithUser(c)
  BY <1>6 DEF EndsWithUser
<1>8. Flushed(c) = IF bs = <<>> THEN c ELSE IF EndsWithUser(c) THEN Extended(none, bs)
                                            ELSE Appended(none, "user", bs)
  BY <1>2, <1>4 DEF Flushed
<1>9. CASE bs = <<>>
  <2>1. Flushed(c) = c /\ c.pending = <<>>
    BY <1>3, <1>8, <1>9
  <2>2. FlushesTo(c, c)
    BY <1>3, <1>9 DEF FlushesTo
  <2> QED
    BY <2>1, <2>2
<1>10. CASE bs # <<>> /\ EndsWithUser(c)
  <2>1. Flushed(c) = Extended(none, bs)
    BY <1>8, <1>10
  <2>2. /\ Extended(none, bs) \in Conv /\ Merges(RawTurn, none.messages, Extended(none, bs).messages, bs)
        /\ Extended(none, bs).pending = none.pending /\ Extended(none, bs).system = none.system
    BY <1>3, <1>6, <1>7, <1>10, ExtendedIs
  <2>3. FlushesTo(c, Flushed(c))
    BY <1>3, <1>6, <1>10, <2>1, <2>2 DEF FlushesTo
  <2> QED
    BY <1>3, <1>6, <1>10, <2>1, <2>2, <2>3
<1>11. CASE bs # <<>> /\ ~EndsWithUser(c)
  <2>1. Flushed(c) = Appended(none, "user", bs)
    BY <1>8, <1>11
  <2>2. /\ Appended(none, "user", bs) \in Conv
        /\ Appended(none, "user", bs).messages = Append(none.messages, [role |-> "user", blocks |-> bs])
        /\ Appended(none, "user", bs).pending = none.pending /\ Appended(none, "user", bs).system = none.system
    BY <1>3, <1>6, AppendedIs
  <2>3. Added(c.messages, Flushed(c).messages, bs)
    BY <1>6, <2>1, <2>2 DEF Added, UserTurn
  <2>4. FlushesTo(c, Flushed(c))
    BY <1>3, <1>11, <2>3 DEF FlushesTo
  <2> QED
    BY <1>3, <1>6, <1>11, <2>1, <2>2, <2>4
<1> QED
  BY <1>9, <1>10, <1>11

(* One growth after another.                                               *)
LEMMA UserIsLast ==
  ASSUME NEW ms \in Seq(RawTurn), NEW new, NEW bs \in Seq(Raw),
         Added(ms, new, bs) \/ Merges(RawTurn, ms, new, bs)
  PROVE  new \in Seq(RawTurn) /\ new # <<>> /\ Last(new).role = "user"
<1>1. ASSUME NEW front \in Seq(RawTurn), NEW cs \in Seq(Raw), new = Append(front, UserTurn(cs))
      PROVE  new \in Seq(RawTurn) /\ new # <<>> /\ Last(new).role = "user"
  <2>1. UserTurn(cs) \in RawTurn /\ UserTurn(cs).role = "user"
    BY DEF UserTurn, RawTurn
  <2> QED
    BY <1>1, <2>1, AppendEnds
<1>2. CASE Added(ms, new, bs)
  BY <1>1, <1>2 DEF Added
<1>3. CASE Merges(RawTurn, ms, new, bs)
  <2>1. PICK front \in Seq(RawTurn), l \in RawTurn :
          l.role = "user" /\ new = Append(front, UserTurn(l.blocks \o bs))
    BY <1>3 DEF Merges
  <2>2. l.blocks \in Seq(Raw)
    BY DEF RawTurn
  <2>3. l.blocks \o bs \in Seq(Raw)
    BY <2>2
  <2> QED
    BY <1>1, <2>1, <2>3
<1> QED
  BY <1>2, <1>3

LEMMA GrowthsCompose ==
  ASSUME NEW ms \in Seq(RawTurn), NEW m1, NEW m2, NEW b1 \in Seq(Raw), NEW b2 \in Seq(Raw),
         Merges(RawTurn, m1, m2, b2)
  PROVE  /\ Added(ms, m1, b1) => Added(ms, m2, b1 \o b2)
         /\ Merges(RawTurn, ms, m1, b1) => Merges(RawTurn, ms, m2, b1 \o b2)
<1>1. PICK f2 \in Seq(RawTurn), l2 \in RawTurn :
        m1 = Append(f2, l2) /\ l2.role = "user" /\ m2 = Append(f2, UserTurn(l2.blocks \o b2))
  BY DEF Merges
<1>a. \A s, t \in Seq(RawTurn), x, y \in RawTurn : Append(s, x) = Append(t, y) => s = t /\ x = y
  BY AppendEnds
<1>2. ASSUME Added(ms, m1, b1) PROVE Added(ms, m2, b1 \o b2)
  <2>1. m1 = Append(ms, UserTurn(b1)) /\ UserTurn(b1) \in RawTurn /\ UserTurn(b1).blocks = b1
    BY <1>2 DEF Added, UserTurn, RawTurn
  <2>2. f2 = ms /\ l2 = UserTurn(b1)
    BY <1>1, <1>a, <2>1
  <2> QED
    BY <1>1, <2>1, <2>2 DEF Added
<1>3. ASSUME Merges(RawTurn, ms, m1, b1) PROVE Merges(RawTurn, ms, m2, b1 \o b2)
  <2>1. PICK f1 \in Seq(RawTurn), l1 \in RawTurn :
          ms = Append(f1, l1) /\ l1.role = "user" /\ m1 = Append(f1, UserTurn(l1.blocks \o b1))
    BY <1>3 DEF Merges
  <2>2. l1.blocks \in Seq(Raw)
    BY DEF RawTurn
  <2>3. PICK bs : bs = l1.blocks \o b1
    OBVIOUS
  <2>4. bs \in Seq(Raw)
    BY <2>2, <2>3
  <2>5. UserTurn(bs) \in RawTurn /\ UserTurn(bs).blocks = bs
    BY <2>4 DEF UserTurn, RawTurn
  <2>6. f2 = f1 /\ l2 = UserTurn(bs)
    <3>1. Append(f2, l2) = Append(f1, UserTurn(bs)) /\ f2 \in Seq(RawTurn) /\ f1 \in Seq(RawTurn)
          /\ l2 \in RawTurn /\ UserTurn(bs) \in RawTurn
      BY <1>1, <2>1, <2>3, <2>5
    <3> QED
      BY ONLY <1>a, <3>1
  <2>7. SameJoin(l1.blocks, b1, b2)
    BY <2>2, JoinThree
  <2>8. l2.blocks \o b2 = l1.blocks \o (b1 \o b2)
    BY <2>3, <2>5, <2>6, <2>7 DEF SameJoin
  <2>9. m2 = Append(f1, UserTurn(l1.blocks \o (b1 \o b2)))
    BY <1>1, <2>6, <2>8
  <2> QED
    BY <2>1, <2>9 DEF Merges
<1> QED
  BY <1>2, <1>3

Ids(calls) == [i \in DOMAIN calls |-> calls[i].id]
AssistantBlocks(m) ==
  (IF Blank(m.text) THEN <<>> ELSE <<TextBlock(m.text)>>) \o ToolUses(m.calls)

LEMMA UsesRaw ==
  ASSUME NEW calls \in Seq(ToolCall)
  PROVE  /\ ToolUses(calls) \in Seq(Raw) /\ Ids(calls) \in Seq(Nat) /\ Len(Ids(calls)) = Len(calls)
         /\ Ofs(ToolUses(calls), "tool_use") = Ids(calls)
         /\ Ofs(ToolUses(calls), "tool_result") = <<>>
<1>1. PICK us : us = ToolUses(calls)
  OBVIOUS
<1>2. \A i \in DOMAIN calls : calls[i] \in ToolCall
  OBVIOUS
<1>3. ASSUME NEW i \in DOMAIN calls
      PROVE  us[i] \in Raw /\ us[i].kind = "tool_use" /\ us[i].of = calls[i].id /\ calls[i].id \in Nat
  <2>1. PICK args : args = Parsed(calls[i].arguments)
    OBVIOUS
  <2>2. /\ calls[i].id \in Nat /\ calls[i].name \in ToolNames /\ calls[i].arguments \in Text
    BY <1>2 DEF ToolCall
  <2>3. args \in Text
    BY <2>1, <2>2, Values DEF Parsed
  <2>4. us[i] = [kind |-> "tool_use", of |-> calls[i].id, name |-> calls[i].name, text |-> args]
    BY <1>1, <2>1 DEF ToolUses, Block
  <2> QED
    BY <2>2, <2>3, <2>4 DEF Raw
<1>4. DOMAIN us = DOMAIN calls /\ DOMAIN calls = 1..Len(calls) /\ Len(calls) \in Nat
  BY <1>1 DEF ToolUses
<1>5. us = [i \in 1..Len(calls) |-> us[i]]
  BY <1>1, <1>4 DEF ToolUses
<1>6. us \in Seq(Raw)
  BY <1>3, <1>4, <1>5
<1>7. us \in Seq(Piece)
  BY <1>6, RawIsPiece
<1>8. Ofs(us, "tool_result") = <<>>
  BY <1>3, <1>4, <1>7, NoneOf
<1>9. Ofkind(us, "tool_use") = us
  <2>1. Ofkind(us, "tool_use") = Among(us, {b \in Piece : b.kind = "tool_use"})
    BY <1>7, OfkindIs
  <2>2. \A i \in DOMAIN us : us[i] \in Piece
    BY <1>7
  <2>3. \A i \in DOMAIN us : us[i] \in {b \in Piece : b.kind = "tool_use"}
    BY <1>3, <1>4, <2>2
  <2> QED
    BY <1>7, <2>1, <2>3, AmongAllOrNone
<1>10. Ofs(us, "tool_use") = Ids(calls)
  BY <1>3, <1>4, <1>9 DEF Ofs, Ids
<1>11. PICK f : f = [i \in 1..Len(calls) |-> calls[i].id]
  OBVIOUS
<1>12. \A i \in 1..Len(calls) : f[i] \in Nat
  BY <1>3, <1>4, <1>11
<1>13. f \in Seq(Nat) /\ Len(f) = Len(calls)
  BY <1>4, <1>11, <1>12
<1>14. Ids(calls) = f
  BY <1>4, <1>11 DEF Ids
<1> QED
  BY <1>1, <1>6, <1>8, <1>10, <1>13, <1>14

LEMMA AssistantRaw ==
  ASSUME NEW m \in Msg
  PROVE  /\ AssistantBlocks(m) \in Seq(Raw)
         /\ Ofs(AssistantBlocks(m), "tool_use") = Ids(m.calls)
<1>1. m.text \in Text /\ m.calls \in Seq(ToolCall)
  BY DEF Msg
<1>2. PICK head : head = IF Blank(m.text) THEN <<>> ELSE <<TextBlock(m.text)>>
  OBVIOUS
<1>3. PICK us : us = ToolUses(m.calls)
  OBVIOUS
<1>4. us \in Seq(Raw) /\ Ofs(us, "tool_use") = Ids(m.calls) /\ Ids(m.calls) \in Seq(Nat)
  BY <1>1, <1>3, UsesRaw
<1>5. head \in Seq(Raw) /\ Ofs(head, "tool_use") = <<>>
  <2>1. CASE Blank(m.text)
    BY <1>2, <2>1, OfsMore
  <2>2. CASE ~Blank(m.text)
    BY <1>1, <1>2, <2>2, TextRaw DEF NoIds
  <2> QED
    BY <2>1, <2>2
<1>6. head \o us \in Seq(Raw)
  BY <1>4, <1>5
<1>7. head \in Seq(Piece) /\ us \in Seq(Piece)
  BY <1>4, <1>5, RawIsPiece
<1>8. OfsBothFor(head, us, "tool_use")
  BY <1>7, OfsMore
<1>9. EmptyJoin(Ids(m.calls))
  BY <1>4, JoinNone
<1>10. Ofs(head \o us, "tool_use") = Ids(m.calls)
  BY <1>4, <1>5, <1>8, <1>9 DEF OfsBothFor, EmptyJoin
<1> QED
  BY <1>2, <1>3, <1>6, <1>10 DEF AssistantBlocks

LEMMA IdsJoin ==
  ASSUME NEW bs \in Seq(Raw), NEW cs \in Seq(Raw), NoIds(cs), Ofs(bs, "tool_use") = <<>>
  PROVE  /\ bs \o cs \in Seq(Raw)
         /\ Ofs(bs \o cs, "tool_result") = Ofs(bs, "tool_result")
         /\ Ofs(bs \o cs, "tool_use") = <<>>
<1>1. bs \in Seq(Piece) /\ cs \in Seq(Piece) /\ bs \o cs \in Seq(Raw)
  BY RawIsPiece
<1>2. OfsBothFor(bs, cs, "tool_result") /\ OfsBothFor(bs, cs, "tool_use")
  BY <1>1, OfsMore
<1>3. Ofs(bs, "tool_result") \in Seq(Nat)
  BY <1>1, OfsMore
<1>4. EmptyJoin(Ofs(bs, "tool_result"))
  BY <1>3, JoinNone
<1>5. <<>> \o <<>> = <<>>
  OBVIOUS
<1> QED
  BY <1>1, <1>2, <1>4, <1>5 DEF OfsBothFor, NoIds, EmptyJoin

Grown(ms, new, bs) == Added(ms, new, bs) \/ Merges(RawTurn, ms, new, bs)
LEMMA FlushGrows ==
  ASSUME NEW c \in Conv, NEW ms \in Seq(RawTurn), NEW bs \in Seq(Raw), Grown(ms, c.messages, bs),
         Ofs(bs, "tool_use") = <<>>
  PROVE  \E all \in Seq(Raw) :
            /\ Ofs(all, "tool_use") = <<>> /\ Ofs(all, "tool_result") = Ofs(bs, "tool_result")
            /\ Added(ms, c.messages, bs) => Added(ms, Flushed(c).messages, all)
            /\ Grown(ms, Flushed(c).messages, all)
<1>1. EndsWithUser(c)
  BY UserIsLast DEF Grown, EndsWithUser
<1>2. FlushesTo(c, Flushed(c))
  BY FlushedIs
<1>3. PICK cs \in Seq(Raw) :
        /\ NoIds(cs)
        /\ \/ cs = <<>> /\ Flushed(c).messages = c.messages
           \/ Merges(RawTurn, c.messages, Flushed(c).messages, cs)
  BY <1>1, <1>2 DEF FlushesTo
<1>4. CASE Flushed(c).messages = c.messages
  BY <1>4
<1>5. CASE Merges(RawTurn, c.messages, Flushed(c).messages, cs)
  <2>1. PICK all : all = bs \o cs
    OBVIOUS
  <2>2. all \in Seq(Raw) /\ Ofs(all, "tool_use") = <<>> /\ Ofs(all, "tool_result") = Ofs(bs, "tool_result")
    BY <1>3, <2>1, IdsJoin
  <2>3. /\ Added(ms, c.messages, bs) => Added(ms, Flushed(c).messages, all)
        /\ Merges(RawTurn, ms, c.messages, bs) => Merges(RawTurn, ms, Flushed(c).messages, all)
    BY <1>5, <2>1, GrowthsCompose
  <2>4. Grown(ms, Flushed(c).messages, all)
    BY <2>3 DEF Grown
  <2> QED
    BY <2>2, <2>3, <2>4
<1> QED
  BY <1>3, <1>4, <1>5

UserConverts(c, d) ==
  /\ d \in Conv /\ d.pending = <<>> /\ d.system = c.system
  /\ \E bs \in Seq(Raw) : NoIds(bs) /\ Added(c.messages, d.messages, bs)
LEMMA ConvertUserIs ==
  ASSUME NEW c \in Conv, NEW m \in Msg
  PROVE  UserConverts(c, ConvertUser(c, m))
<1>1. m.text \in Text
  BY DEF Msg
<1>2. PICK bs : bs = <<TextBlock(m.text)>>
  OBVIOUS
<1>3. bs \in Seq(Raw) /\ NoIds(bs)
  BY <1>1, <1>2, TextRaw
<1>4. PICK e : e = Appended(c, "user", bs)
  OBVIOUS
<1>5. e \in Conv /\ e.messages = Append(c.messages, [role |-> "user", blocks |-> bs])
      /\ e.pending = c.pending /\ e.system = c.system
  BY <1>3, <1>4, AppendedIs
<1>6. Added(c.messages, e.messages, bs)
  BY <1>5 DEF Added, UserTurn
<1>7. c.messages \in Seq(RawTurn)
  BY DEF Conv
<1>8. PICK all \in Seq(Raw) :
        /\ Ofs(all, "tool_use") = <<>> /\ Ofs(all, "tool_result") = Ofs(bs, "tool_result")
        /\ Added(c.messages, Flushed(e).messages, all)
  BY <1>3, <1>5, <1>6, <1>7, FlushGrows DEF Grown, NoIds
<1>9. NoIds(all)
  BY <1>3, <1>8 DEF NoIds
<1>10. Flushed(e) \in Conv /\ Flushed(e).pending = <<>> /\ Flushed(e).system = e.system
  BY <1>5, FlushedIs
<1>11. ConvertUser(c, m) = Flushed(e)
  BY <1>2, <1>4 DEF ConvertUser
<1> QED
  BY <1>5, <1>8, <1>9, <1>10, <1>11 DEF UserConverts

ToolConverts(c, d, id) ==
  /\ d \in Conv /\ d.pending = <<>> /\ d.system = c.system
  /\ \E bs \in Seq(Raw) : /\ Ofs(bs, "tool_use") = <<>> /\ Ofs(bs, "tool_result") = <<id>>
                          /\ Grown(c.messages, d.messages, bs)
ResultOf(m) == <<Block("tool_result", m.of, "", m.text)>>
LEMMA ResultRaw ==
  ASSUME NEW m \in Msg
  PROVE  /\ ResultOf(m) \in Seq(Raw)
         /\ Ofs(ResultOf(m), "tool_use") = <<>> /\ Ofs(ResultOf(m), "tool_result") = <<m.of>>
<1>1. PICK b : b = Block("tool_result", m.of, "", m.text)
  OBVIOUS
<1>2. "" \in ToolNames /\ m.of \in Nat /\ m.text \in Text
  BY Names DEF Msg
<1>3. b \in Raw /\ b.kind = "tool_result" /\ b.of = m.of
  BY <1>1, <1>2 DEF Block, Raw
<1>4. b \in Piece /\ <<>> \in Seq(Piece)
  BY <1>3, RawIsPiece
<1>5. OfsMoreFor(<<>>, b, "tool_use") /\ OfsMoreFor(<<>>, b, "tool_result")
  BY <1>4, OfsMore
<1>6. Ofs(<<>>, "tool_use") = <<>> /\ Ofs(<<>>, "tool_result") = <<>>
  BY OfsMore
<1>7. Append(<<>>, b) = <<b>> /\ Append(<<>>, m.of) = <<m.of>> /\ <<b>> \in Seq(Raw)
  BY <1>3
<1>8. Ofs(<<b>>, "tool_use") = <<>> /\ Ofs(<<b>>, "tool_result") = <<m.of>>
  BY <1>3, <1>5, <1>6, <1>7 DEF OfsMoreFor
<1> QED
  BY <1>1, <1>7, <1>8 DEF ResultOf
LEMMA ConvertToolIs ==
  ASSUME NEW c \in Conv, NEW m \in Msg
  PROVE  ToolConverts(c, ConvertTool(c, m), m.of)
<1>1. PICK bs : bs = ResultOf(m)
  OBVIOUS
<1>2. bs \in Seq(Raw) /\ Ofs(bs, "tool_use") = <<>> /\ Ofs(bs, "tool_result") = <<m.of>>
  BY <1>1, ResultRaw
<1>3. PICK merges : merges = (EndsWithUser(c) /\ \A b \in ToSet(Last(c.messages).blocks) : b.kind = "tool_result")
  OBVIOUS
<1>4. PICK e : e = IF merges THEN Extended(c, bs) ELSE Appended(c, "user", bs)
  OBVIOUS
<1>5. e \in Conv /\ e.system = c.system /\ Grown(c.messages, e.messages, bs)
  <2>1. CASE merges
    BY <1>2, <1>3, <1>4, <2>1, ExtendedIs DEF Grown
  <2>2. CASE ~merges
    <3>1. e = Appended(c, "user", bs)
      BY <1>4, <2>2
    <3>2. e \in Conv /\ e.messages = Append(c.messages, [role |-> "user", blocks |-> bs]) /\ e.system = c.system
      BY <1>2, <3>1, AppendedIs
    <3> QED
      BY <3>2 DEF Grown, Added, UserTurn
  <2> QED
    BY <2>1, <2>2
<1>6. c.messages \in Seq(RawTurn)
  BY DEF Conv
<1>7. PICK all \in Seq(Raw) :
        /\ Ofs(all, "tool_use") = <<>> /\ Ofs(all, "tool_result") = Ofs(bs, "tool_result")
        /\ Grown(c.messages, Flushed(e).messages, all)
  BY <1>2, <1>5, <1>6, FlushGrows
<1>8. Flushed(e) \in Conv /\ Flushed(e).pending = <<>> /\ Flushed(e).system = e.system
  BY <1>5, FlushedIs
<1>9. ConvertTool(c, m) = Flushed(e)
  BY <1>1, <1>3, <1>4 DEF ConvertTool, ResultOf
<1> QED
  BY <1>2, <1>5, <1>7, <1>8, <1>9 DEF ToolConverts

---------------------------------------------------------------------------
(* A history is converted message by message.                              *)

ChatMsg == {m \in Msg : m.role # "developer"}
SystemConverts(c, d) ==
  /\ d \in Conv /\ d.messages = c.messages
  /\ IF c.messages = <<>> THEN d.pending = c.pending ELSE d.system = c.system
AssistantConverts(c, d, m) ==
  /\ d \in Conv /\ d.pending = c.pending /\ d.system = c.system
  /\ d.messages = Append(c.messages, [role |-> "assistant", blocks |-> AssistantBlocks(m)])
LEMMA ConvertSystemIs ==
  ASSUME NEW c \in Conv, NEW m \in Msg
  PROVE  SystemConverts(c, ConvertSystem(c, m))
<1>1. m.text \in Text
  BY DEF Msg
<1>2. /\ c.messages \in Seq(RawTurn) /\ c.pending \in Seq(Text) /\ c.system \in Text
      /\ c = [system |-> c.system, pending |-> c.pending, messages |-> c.messages]
  BY DEF Conv
<1>3. CASE c.messages = <<>>
  <2>1. PICK s : s = c.system \o m.text
    OBVIOUS
  <2>2. s \in Text
    BY <1>1, <1>2, <2>1 DEF Text
  <2>3. ConvertSystem(c, m) = [c EXCEPT !.system = s]
    BY <1>3, <2>1 DEF ConvertSystem
  <2>4. [c EXCEPT !.system = s] = [system |-> s, pending |-> c.pending, messages |-> c.messages]
    BY <1>2
  <2> QED
    BY <1>2, <1>3, <2>2, <2>3, <2>4 DEF SystemConverts, Conv
<1>4. CASE c.messages # <<>>
  <2>1. PICK p : p = Append(c.pending, m.text)
    OBVIOUS
  <2>2. p \in Seq(Text)
    BY <1>1, <1>2, <2>1
  <2>3. ConvertSystem(c, m) = [c EXCEPT !.pending = p]
    BY <1>4, <2>1 DEF ConvertSystem
  <2>4. [c EXCEPT !.pending = p] = [system |-> c.system, pending |-> p, messages |-> c.messages]
    BY <1>2
  <2> QED
    BY <1>2, <1>4, <2>2, <2>3, <2>4 DEF SystemConverts, Conv
<1> QED
  BY <1>3, <1>4

LEMMA ConvertAssistantIs ==
  ASSUME NEW c \in Conv, NEW m \in Msg
  PROVE  AssistantConverts(c, ConvertAssistant(c, m), m)
<1>1. PICK bs : bs = AssistantBlocks(m)
  OBVIOUS
<1>2. bs \in Seq(Raw)
  BY <1>1, AssistantRaw
<1>3. ConvertAssistant(c, m) = Appended(c, "assistant", bs)
  BY <1>1 DEF ConvertAssistant, AssistantBlocks
<1>4. /\ Appended(c, "assistant", bs) \in Conv
      /\ Appended(c, "assistant", bs).messages = Append(c.messages, [role |-> "assistant", blocks |-> bs])
      /\ Appended(c, "assistant", bs).pending = c.pending /\ Appended(c, "assistant", bs).system = c.system
  BY <1>2, AppendedIs
<1> QED
  BY <1>1, <1>3, <1>4 DEF AssistantConverts

ConvertsTo(c, m, d) ==
  \/ m.role = "system" /\ SystemConverts(c, d)
  \/ m.role = "user" /\ UserConverts(c, d)
  \/ m.role = "assistant" /\ AssistantConverts(c, d, m)
  \/ m.role = "tool" /\ ToolConverts(c, d, m.of)
LEMMA ConvertNextIs ==
  ASSUME NEW c \in Conv, NEW m \in ChatMsg
  PROVE  ConvertsTo(c, m, ConvertNext(c, m)) /\ ConvertNext(c, m) \in Conv
<1>1. m \in Msg /\ m.role \in {"system", "user", "assistant", "tool"}
  BY DEF ChatMsg, Msg
<1>2. CASE m.role = "system"
  BY <1>1, <1>2, ConvertSystemIs DEF ConvertNext, ConvertsTo, SystemConverts
<1>3. CASE m.role = "user"
  BY <1>1, <1>3, ConvertUserIs DEF ConvertNext, ConvertsTo, UserConverts
<1>4. CASE m.role = "assistant"
  BY <1>1, <1>4, ConvertAssistantIs DEF ConvertNext, ConvertsTo, AssistantConverts
<1>5. CASE m.role = "tool"
  BY <1>1, <1>5, ConvertToolIs DEF ConvertNext, ConvertsTo, ToolConverts
<1> QED
  BY <1>1, <1>2, <1>3, <1>4, <1>5

LEMMA NotYetTyped == NotYet \in Conv /\ NotYet.messages = <<>> /\ NotYet.pending = <<>>
<1>0. \A S : <<>> \in Seq(S)
  OBVIOUS
<1>1. <<>> \in Text /\ <<>> \in Seq(Text) /\ <<>> \in Seq(RawTurn)
  BY <1>0, Values
<1>2. NotYet = [system |-> <<>>, pending |-> <<>>, messages |-> <<>>]
  BY DEF NotYet
<1> QED
  BY ONLY <1>1, <1>2 DEF Conv

Loops(ms, g) ==
  /\ g \in [0..Len(ms) -> Conv] /\ g[0] = NotYet
  /\ \A i \in 1..Len(ms) : g[i] = ConvertNext(g[i - 1], ms[i])
LEMMA LoopExists ==
  ASSUME NEW ms \in Seq(ChatMsg)
  PROVE  \E g : Loops(ms, g)
<1>1. PICK n : n = Len(ms)
  OBVIOUS
<1>2. n \in Nat /\ \A i \in 1..n : ms[i] \in ChatMsg
  BY <1>1
<1>3. PICK K : K = [i \in 1..n |-> [c \in Conv |-> ConvertNext(c, ms[i])]]
  OBVIOUS
<1>4. \A i \in 1..n : \A c \in Conv : K[i][c] = ConvertNext(c, ms[i])
  BY <1>3
<1>5. \A i \in 1..n : \A c \in Conv : K[i][c] \in Conv
  BY <1>2, <1>4, ConvertNextIs
<1>6. NotYet \in Conv
  BY NotYetTyped
<1>7. \E g : IsRecursion(K, NotYet, n, Conv, g)
  BY <1>2, <1>5, <1>6, RecursionExists
<1>8. PICK g : IsRecursion(K, NotYet, n, Conv, g)
  BY <1>7
<1>9. g \in [0..n -> Conv] /\ g[0] = NotYet /\ \A i \in 1..n : g[i] = K[i][g[i - 1]]
  BY <1>8 DEF IsRecursion
<1>10. ASSUME NEW i \in 1..n PROVE g[i] = ConvertNext(g[i - 1], ms[i])
  <2>1. i - 1 \in 0..n
    BY <1>2
  <2>2. g[i - 1] \in Conv
    BY <1>9, <2>1
  <2> QED
    BY <1>4, <1>9, <2>2
<1>11. Loops(ms, g)
  BY <1>1, <1>9, <1>10 DEF Loops
<1> QED
  BY <1>11

LEMMA ConvertedIs ==
  ASSUME NEW ms \in Seq(ChatMsg), NEW g, Loops(ms, g)
  PROVE  Converted(ms) = g[Len(ms)] /\ Converted(ms) \in Conv
<1>1. PICK n : n = Len(ms)
  OBVIOUS
<1>2. /\ n \in Nat /\ g \in [0..n -> Conv] /\ g[0] = NotYet
      /\ \A i \in 1..n : g[i] = ConvertNext(g[i - 1], ms[i])
  BY <1>1 DEF Loops
<1> DEFINE It(h) == h = [i \in 0..n |-> IF i = 0 THEN NotYet ELSE ConvertNext(h[i - 1], ms[i])]
<1>3. Converted(ms) = (CHOOSE h : It(h))[n]
  BY <1>1 DEF Converted
<1>4. \A i \in 0..n : g[i] = IF i = 0 THEN NotYet ELSE ConvertNext(g[i - 1], ms[i])
  <2>1. ASSUME NEW i \in 0..n, i # 0 PROVE g[i] = ConvertNext(g[i - 1], ms[i])
    <3>1. i \in 1..n
      BY <1>2, <2>1
    <3> QED
      BY <1>2, <3>1
  <2> QED
    BY <1>2, <2>1
<1>5. It(g)
  BY <1>2, <1>4
<1>6. PICK h : h = (CHOOSE e : It(e)) /\ It(h)
  BY <1>5
<1>7. \A i \in 0..n : h[i] = IF i = 0 THEN NotYet ELSE ConvertNext(h[i - 1], ms[i])
  BY <1>6
<1> HIDE DEF It
<1> DEFINE T == {i \in Nat : i <= n => h[i] = g[i]}
<1>8. 0 \in T
  BY <1>2, <1>7
<1>9. ASSUME NEW i \in Nat, i \in T PROVE i + 1 \in T
  <2>1. SUFFICES ASSUME i + 1 <= n PROVE h[i + 1] = g[i + 1]
    OBVIOUS
  <2>2. PICK j : j = i + 1
    OBVIOUS
  <2>3. j \in 0..n /\ j # 0 /\ j - 1 = i
    BY <1>2, <2>1, <2>2
  <2>4. h[i] = g[i]
    BY <1>2, <1>9, <2>1
  <2>5. h[j] = ConvertNext(h[j - 1], ms[j]) /\ g[j] = ConvertNext(g[j - 1], ms[j])
    BY <1>4, <1>7, <2>3
  <2> QED
    BY <2>2, <2>3, <2>4, <2>5
<1> HIDE DEF T
<1>10. \A i \in Nat : i \in T
  BY <1>8, <1>9, Induct
<1>11. h[n] = g[n]
  BY <1>2, <1>10 DEF T
<1>12. g[n] \in Conv
  BY <1>2
<1> QED
  BY <1>1, <1>3, <1>6, <1>11, <1>12

ConvertedMoreFor(ms, m) ==
  Converted(Append(ms, m)) = ConvertNext(Converted(ms), m)
LEMMA ConvertedMore ==
  /\ Converted(<<>>) = NotYet
  /\ \A ms \in Seq(ChatMsg) : /\ Converted(ms) \in Conv
                              /\ \A m \in ChatMsg : ConvertedMoreFor(ms, m)
<1>1. Converted(<<>>) = NotYet
  <2>1. <<>> \in Seq(ChatMsg) /\ Len(<<>>) = 0
    OBVIOUS
  <2>2. PICK g : Loops(<<>>, g)
    BY <2>1, LoopExists
  <2> QED
    BY <2>1, <2>2, ConvertedIs DEF Loops
<1>2. ASSUME NEW ms \in Seq(ChatMsg) PROVE Converted(ms) \in Conv
  BY LoopExists, ConvertedIs
<1>3. ASSUME NEW ms \in Seq(ChatMsg), NEW m \in ChatMsg PROVE ConvertedMoreFor(ms, m)
  <2>1. PICK n : n = Len(ms)
    OBVIOUS
  <2>2. PICK ns : ns = Append(ms, m)
    OBVIOUS
  <2>3. n \in Nat /\ ns \in Seq(ChatMsg) /\ Len(ns) = n + 1 /\ ns[n + 1] = m /\ \A i \in 1..n : ns[i] = ms[i]
    BY <2>1, <2>2, AppendIs
  <2>4. PICK g : Loops(ns, g)
    BY <2>3, LoopExists
  <2>5. /\ g \in [0..(n + 1) -> Conv] /\ g[0] = NotYet
        /\ \A i \in 1..(n + 1) : g[i] = ConvertNext(g[i - 1], ns[i])
    BY <2>3, <2>4 DEF Loops
  <2>6. PICK f : f = [i \in 0..n |-> g[i]]
    OBVIOUS
  <2>7. Loops(ms, f)
    <3>1. f \in [0..n -> Conv] /\ f[0] = NotYet
      BY <2>3, <2>5, <2>6
    <3>2. ASSUME NEW i \in 1..n PROVE f[i] = ConvertNext(f[i - 1], ms[i])
      <4>1. i \in 1..(n + 1) /\ i \in 0..n /\ i - 1 \in 0..n
        BY <2>3
      <4> QED
        BY <2>3, <2>5, <2>6, <4>1
    <3> QED
      BY <2>1, <3>1, <3>2 DEF Loops
  <2>8. Converted(ms) = f[n]
    BY <2>1, <2>7, ConvertedIs
  <2>9. Converted(ns) = g[n + 1]
    BY <2>3, <2>4, ConvertedIs
  <2>10. g[n + 1] = ConvertNext(g[n], m) /\ f[n] = g[n]
    <3>1. n + 1 \in 1..(n + 1) /\ (n + 1) - 1 = n /\ n \in 0..n
      BY <2>3
    <3> QED
      BY <2>3, <2>5, <2>6, <3>1
  <2> QED
    BY <2>2, <2>8, <2>9, <2>10 DEF ConvertedMoreFor
<1> QED
  BY <1>1, <1>2, <1>3

---------------------------------------------------------------------------
(* What a message of the client does to the messages of the request.       *)

UserGrows(ms, new, bs) ==
  \/ bs = <<>> /\ new = ms
  \/ Added(ms, new, bs)
  \/ Merges(Turn, ms, new, bs)
AssistantTurn(bs) == [role |-> "assistant", blocks |-> bs]
TellsUser(ms, new) == \E bs \in Seq(Piece) : NoIds(bs) /\ UserGrows(ms, new, bs)
TellsResult(ms, new, id) ==
  \E bs \in Seq(Piece) : /\ Ofs(bs, "tool_use") = <<>> /\ Ofs(bs, "tool_result") = <<id>>
                         /\ UserGrows(ms, new, bs)
TellsAnswer(ms, new, m, shown) ==
  \E bs \in Seq(Piece) : /\ drop_blank_text(bs) = shown /\ Ofs(bs, "tool_use") = Ids(m.calls)
                         /\ \/ bs = <<>> /\ new = ms
                            \/ new = Append(ms, AssistantTurn(bs))
TurnsGrow(ms, new, m, shown) ==
  \/ m.role \in {"system", "developer"} /\ new = ms
  \/ m.role = "user" /\ TellsUser(ms, new)
  \/ m.role = "tool" /\ TellsResult(ms, new, m.of)
  \/ m.role = "assistant" /\ TellsAnswer(ms, new, m, shown)

LEMMA SentGrows ==
  ASSUME NEW ms \in Seq(RawTurn), NEW new, NEW bs \in Seq(Raw), Grown(ms, new, bs)
  PROVE  UserGrows(AsSent(ms), AsSent(new), Wire(bs))
<1>a. \A s \in Seq(RawTurn) : AsSent(s) \in Seq(Turn)
  BY AsSentMore
<1>b. \A s \in Seq(RawTurn), x \in RawTurn :
        AsSent(Append(s, x)) = IF Wire(x.blocks) = <<>> THEN AsSent(s) ELSE Append(AsSent(s), AsTurn(x))
  BY AsSentMore DEF SentMoreFor
<1>c. \A cs \in Seq(Raw) : UserTurn(cs) \in RawTurn /\ UserTurn(cs).blocks = cs /\ AsTurn(UserTurn(cs)) = UserTurn(Wire(cs))
  BY DEF UserTurn, RawTurn, AsTurn
<1>1. CASE Added(ms, new, bs)
  <2>1. new = Append(ms, UserTurn(bs))
    BY <1>1 DEF Added
  <2> QED
    BY <1>b, <1>c, <2>1 DEF UserGrows, Added
<1>2. CASE Merges(RawTurn, ms, new, bs)
  <2>1. PICK front \in Seq(RawTurn), l \in RawTurn :
          ms = Append(front, l) /\ l.role = "user" /\ new = Append(front, UserTurn(l.blocks \o bs))
    BY <1>2 DEF Merges
  <2>2. l.blocks \in Seq(Raw) /\ AsTurn(l) = UserTurn(Wire(l.blocks)) /\ AsTurn(l) \in Turn
    BY <2>1, TurnSent DEF RawTurn, AsTurn, UserTurn
  <2>3. PICK u, w : u = Wire(l.blocks) /\ w = Wire(bs)
    OBVIOUS
  <2>4. u \in Seq(Piece) /\ w \in Seq(Piece)
    BY <2>2, <2>3, WireBoth
  <2>5. l.blocks \o bs \in Seq(Raw)
    BY <2>2
  <2>6. Wire(l.blocks \o bs) = u \o w
    BY <2>2, <2>3, WireBoth DEF WireBothFor
  <2>7. AsSent(ms) = IF u = <<>> THEN AsSent(front) ELSE Append(AsSent(front), UserTurn(u))
    BY <1>b, <2>1, <2>2, <2>3
  <2>8. AsSent(new) = IF u \o w = <<>> THEN AsSent(front) ELSE Append(AsSent(front), UserTurn(u \o w))
    BY <1>b, <1>c, <2>1, <2>5, <2>6
  <2>9. (u = <<>> => u \o w = w) /\ (w = <<>> => u \o w = u)
    BY <2>4
  <2>10. AsSent(front) \in Seq(Turn)
    BY <1>a, <2>1
  <2>11. CASE w = <<>>
    BY <2>3, <2>7, <2>8, <2>9, <2>11 DEF UserGrows
  <2>12. CASE w # <<>> /\ u = <<>>
    BY <2>3, <2>7, <2>8, <2>9, <2>12 DEF UserGrows, Added
  <2>13. CASE w # <<>> /\ u # <<>>
    <3>1. u \o w # <<>>
      BY <2>4, <2>13
    <3>2. UserTurn(u) \in Turn /\ UserTurn(u).role = "user" /\ UserTurn(u).blocks = u
      BY <2>4 DEF UserTurn, Turn
    <3>3. Merges(Turn, AsSent(ms), AsSent(new), w)
      BY <2>7, <2>8, <2>10, <2>13, <3>1, <3>2 DEF Merges
    <3> QED
      BY <2>3, <3>3 DEF UserGrows
  <2> QED
    BY <2>11, <2>12, <2>13
<1> QED
  BY <1>1, <1>2 DEF Grown

(* Dropping blank texts twice drops no more.                               *)
LEMMA DropTwice ==
  ASSUME NEW bs \in Seq(Raw)
  PROVE  drop_blank_text(Wire(bs)) = Wire(bs)
<1>1. PICK F : RemapsTo(F)
  BY RemapTyped
<1>2. WireIsFor(F, bs)
  BY <1>1, WireIs
<1>3. PICK X : X = {b \in Piece : ~IsBlankText(b)}
  OBVIOUS
<1>4. PICK cs : cs = Each(F, bs)
  OBVIOUS
<1>5. Wire(bs) = Among(cs, X) /\ cs \in Seq(Piece) /\ Wire(bs) \in Seq(Piece)
  BY <1>2, <1>3, <1>4 DEF WireIsFor
<1>6. \A k \in DOMAIN Among(cs, X) : Among(cs, X)[k] \in X
  BY <1>5, AmongIs
<1>7. Among(Among(cs, X), X) = Among(cs, X)
  BY <1>5, <1>6, AmongAllOrNone
<1>8. drop_blank_text(Wire(bs)) = Among(Wire(bs), X)
  BY <1>3, <1>5, DropIs
<1> QED
  BY <1>5, <1>7, <1>8

LEMMA ClaudeGrows ==
  ASSUME NEW c \in Conv, NEW m \in ChatMsg, NEW d, ConvertsTo(c, m, d)
  PROVE  TurnsGrow(AsSent(c.messages), AsSent(d.messages), m, Wire(AssistantBlocks(m)))
<1>1. c.messages \in Seq(RawTurn)
  BY DEF Conv
<1>2. \A bs \in Seq(Raw) : /\ Wire(bs) \in Seq(Piece)
                           /\ Ofs(Wire(bs), "tool_use") = Ofs(bs, "tool_use")
                           /\ Ofs(Wire(bs), "tool_result") = Ofs(bs, "tool_result")
  BY WireBoth, OfsWire
<1>3. \A new : \A bs \in Seq(Raw) : Grown(c.messages, new, bs) => UserGrows(AsSent(c.messages), AsSent(new), Wire(bs))
  BY <1>1, SentGrows
<1>4. CASE m.role = "system" /\ SystemConverts(c, d)
  BY <1>4 DEF TurnsGrow, SystemConverts
<1>5. CASE m.role = "user" /\ UserConverts(c, d)
  <2>1. PICK bs \in Seq(Raw) : NoIds(bs) /\ Added(c.messages, d.messages, bs)
    BY <1>5 DEF UserConverts
  <2>2. UserGrows(AsSent(c.messages), AsSent(d.messages), Wire(bs))
    BY <1>3, <2>1 DEF Grown
  <2>3. Wire(bs) \in Seq(Piece) /\ NoIds(Wire(bs))
    BY <1>2, <2>1 DEF NoIds
  <2>4. TellsUser(AsSent(c.messages), AsSent(d.messages))
    BY <2>2, <2>3 DEF TellsUser
  <2> QED
    BY <1>5, <2>4 DEF TurnsGrow
<1>6. CASE m.role = "tool" /\ ToolConverts(c, d, m.of)
  <2>1. PICK bs \in Seq(Raw) : Ofs(bs, "tool_use") = <<>> /\ Ofs(bs, "tool_result") = <<m.of>>
                               /\ Grown(c.messages, d.messages, bs)
    BY <1>6 DEF ToolConverts
  <2>2. UserGrows(AsSent(c.messages), AsSent(d.messages), Wire(bs))
    BY <1>3, <2>1
  <2>3. Wire(bs) \in Seq(Piece) /\ Ofs(Wire(bs), "tool_use") = <<>> /\ Ofs(Wire(bs), "tool_result") = <<m.of>>
    BY <1>2, <2>1
  <2>4. TellsResult(AsSent(c.messages), AsSent(d.messages), m.of)
    BY <2>2, <2>3 DEF TellsResult
  <2> QED
    BY <1>6, <2>4 DEF TurnsGrow
<1>7. CASE m.role = "assistant" /\ AssistantConverts(c, d, m)
  <2>1. m \in Msg
    BY DEF ChatMsg
  <2>2. PICK bs : bs = AssistantBlocks(m)
    OBVIOUS
  <2>3. bs \in Seq(Raw) /\ Ofs(bs, "tool_use") = Ids(m.calls)
    BY <2>1, <2>2, AssistantRaw
  <2>4. d.messages = Append(c.messages, AssistantTurn(bs))
    BY <1>7, <2>2 DEF AssistantConverts, AssistantTurn
  <2>5. AssistantTurn(bs) \in RawTurn /\ AssistantTurn(bs).blocks = bs
        /\ AsTurn(AssistantTurn(bs)) = AssistantTurn(Wire(bs))
    BY <2>3 DEF AssistantTurn, RawTurn, AsTurn
  <2>6. AsSent(d.messages) = IF Wire(bs) = <<>> THEN AsSent(c.messages)
                             ELSE Append(AsSent(c.messages), AssistantTurn(Wire(bs)))
    <3>1. SentMoreFor(c.messages, AssistantTurn(bs))
      BY <1>1, <2>5, AsSentMore
    <3> QED
      BY <2>4, <2>5, <3>1 DEF SentMoreFor
  <2>7. Wire(bs) \in Seq(Piece) /\ Ofs(Wire(bs), "tool_use") = Ids(m.calls) /\ drop_blank_text(Wire(bs)) = Wire(bs)
    BY <1>2, <2>3, DropTwice
  <2>8. TellsAnswer(AsSent(c.messages), AsSent(d.messages), m, Wire(bs))
    BY <2>6, <2>7 DEF TellsAnswer
  <2> QED
    BY <1>7, <2>2, <2>8 DEF TurnsGrow
<1> QED
  BY <1>4, <1>5, <1>6, <1>7 DEF ConvertsTo

(* What the assistant is shown to have said grows with its answers only.   *)
SaysMore(ms, new, m, shown) ==
  SaidIn(new) = IF m.role = "assistant" /\ shown # <<>> THEN Append(SaidIn(ms), shown) ELSE SaidIn(ms)
LEMMA UsersSayNothing ==
  ASSUME NEW ms \in Seq(Turn), NEW new, NEW bs \in Seq(Piece), UserGrows(ms, new, bs)
  PROVE  SaidIn(new) = SaidIn(ms) /\ new \in Seq(Turn)
<1>1. \A x \in Turn : x.blocks \in Seq(Piece)
  BY DEF Turn
<1>2. \A s \in Seq(Turn), x \in Turn : SaidInMoreFor(s, x)
  BY <1>1, SaidInMore
<1>3. \A s \in Seq(Turn), x \in Turn : x.role = "user" => SaidIn(Append(s, x)) = SaidIn(s)
  BY <1>2 DEF SaidInMoreFor
<1>4. \A cs \in Seq(Piece) : UserTurn(cs) \in Turn /\ UserTurn(cs).role = "user"
  BY DEF UserTurn, Turn
<1>5. CASE new = ms
  BY <1>5
<1>6. CASE Added(ms, new, bs)
  BY <1>3, <1>4, <1>6 DEF Added
<1>7. CASE Merges(Turn, ms, new, bs)
  <2>1. PICK front \in Seq(Turn), l \in Turn :
          ms = Append(front, l) /\ l.role = "user" /\ new = Append(front, UserTurn(l.blocks \o bs))
    BY <1>7 DEF Merges
  <2>2. l.blocks \o bs \in Seq(Piece)
    BY <1>1, <2>1
  <2>3. PICK t : t = UserTurn(l.blocks \o bs)
    OBVIOUS
  <2>4. t \in Turn /\ t.role = "user" /\ new = Append(front, t)
    BY <1>4, <2>1, <2>2, <2>3
  <2>5. SaidIn(ms) = SaidIn(front)
    BY ONLY <1>3, <2>1
  <2>6. SaidIn(new) = SaidIn(front)
    BY ONLY <1>3, <2>4
  <2> QED
    BY <2>4, <2>5, <2>6
<1> QED
  BY <1>5, <1>6, <1>7 DEF UserGrows

LEMMA SaidGrowsWithTurns ==
  ASSUME NEW ms \in Seq(Turn), NEW new, NEW m, NEW shown, TurnsGrow(ms, new, m, shown)
  PROVE  SaysMore(ms, new, m, shown) /\ new \in Seq(Turn)
<1>1. \A x \in Turn : x.blocks \in Seq(Piece)
  BY DEF Turn
<1>2. \A s \in Seq(Turn), x \in Turn : SaidInMoreFor(s, x)
  BY <1>1, SaidInMore
<1>3. CASE m.role \in {"system", "developer"} /\ new = ms
  BY <1>3 DEF SaysMore
<1>4. CASE m.role = "user" /\ TellsUser(ms, new)
  BY <1>4, UsersSayNothing DEF SaysMore, TellsUser
<1>5. CASE m.role = "tool" /\ TellsResult(ms, new, m.of)
  BY <1>5, UsersSayNothing DEF SaysMore, TellsResult
<1>6. CASE m.role = "assistant" /\ TellsAnswer(ms, new, m, shown)
  <2>1. PICK bs \in Seq(Piece) : /\ drop_blank_text(bs) = shown
                                 /\ (bs = <<>> /\ new = ms) \/ new = Append(ms, AssistantTurn(bs))
    BY <1>6 DEF TellsAnswer
  <2>2. AssistantTurn(bs) \in Turn /\ AssistantTurn(bs).role = "assistant" /\ AssistantTurn(bs).blocks = bs
    BY DEF AssistantTurn, Turn
  <2>3. CASE bs = <<>> /\ new = ms
    <3>1. drop_blank_text(<<>>) = <<>>
      <4>1. <<>> \in Seq(Piece)
        OBVIOUS
      <4>2. Among(<<>>, {b \in Piece : ~IsBlankText(b)}) = <<>>
        BY AmongMore
      <4> QED
        BY <4>1, <4>2, DropIs
    <3> QED
      BY <2>1, <2>3, <3>1 DEF SaysMore
  <2>4. CASE new = Append(ms, AssistantTurn(bs))
    <3>1. SaidInMoreFor(ms, AssistantTurn(bs))
      BY <1>2, <2>2
    <3>2. new \in Seq(Turn)
      BY <2>2, <2>4
    <3> QED
      BY <1>6, <2>1, <2>2, <2>4, <3>1, <3>2 DEF SaysMore, SaidInMoreFor
  <2> QED
    BY <2>1, <2>3, <2>4
<1> QED
  BY <1>3, <1>4, <1>5, <1>6 DEF TurnsGrow

---------------------------------------------------------------------------
(* What a request shows of the answers in the client's history.            *)

ShownIn(F, h) == Sayings(Each(F, Assistants(h)))
ShownMoreFor(F, h, m) ==
  ShownIn(F, Append(h, m))
    = IF m.role = "assistant" /\ F[m] # <<>> THEN Append(ShownIn(F, h), F[m]) ELSE ShownIn(F, h)
LEMMA SayingsMore ==
  ASSUME NEW us \in Seq(Seq(Piece))
  PROVE  /\ Sayings(<<>>) = <<>>
         /\ \A u \in Seq(Piece) :
              Sayings(Append(us, u)) = IF u # <<>> THEN Append(Sayings(us), u) ELSE Sayings(us)
<1>1. PICK N : N = {u \in Seq(Piece) : u # <<>>}
  OBVIOUS
<1>2. ASSUME NEW vs \in Seq(Seq(Piece)) PROVE Sayings(vs) = Among(vs, N)
  <2>1. \A i \in DOMAIN vs : vs[i] \in Seq(Piece)
    OBVIOUS
  <2>2. {i \in DOMAIN vs : vs[i] # <<>>} = {i \in DOMAIN vs : vs[i] \in N}
    BY <1>1, <2>1
  <2> QED
    BY <2>2 DEF Sayings, Among
<1>3. <<>> \in Seq(Seq(Piece)) /\ Among(<<>>, N) = <<>>
  BY AmongMore
<1>4. \A vs \in Seq(Seq(Piece)), u \in Seq(Piece) :
        Among(Append(vs, u), N) = IF u \in N THEN Append(Among(vs, N), u) ELSE Among(vs, N)
  BY AmongMore
<1>5. \A u \in Seq(Piece) : Append(us, u) \in Seq(Seq(Piece)) /\ (u \in N <=> u # <<>>)
  BY <1>1
<1>6. Sayings(<<>>) = <<>>
  BY <1>2, <1>3
<1>7. \A u \in Seq(Piece) : Sayings(Append(us, u)) = Among(Append(us, u), N)
  BY <1>2, <1>5
<1> QED
  BY <1>2, <1>4, <1>5, <1>6, <1>7

LEMMA ShownMore ==
  ASSUME NEW F, \A m \in Msg : F[m] \in Seq(Piece)
  PROVE  ShownIn(F, <<>>) = <<>> /\ \A h \in Seq(Msg), m \in Msg : ShownMoreFor(F, h, m)
<1>0. \A m \in Msg : F[m] \in Seq(Piece)
  OBVIOUS
<1>1. \A s \in Seq(Msg) : Each(F, s) \in Seq(Seq(Piece))
  BY <1>0, EachIs
<1>2. \A s \in Seq(Msg), m \in Msg : Each(F, Append(s, m)) = Append(Each(F, s), F[m])
  BY EachMore
<1>3. ASSUME NEW h \in Seq(Msg), NEW m \in Msg PROVE ShownMoreFor(F, h, m)
  <2>1. AssistantsMoreFor(h, m) /\ Assistants(h) \in Seq(Msg)
    BY AssistantsMore
  <2>2. CASE m.role # "assistant"
    BY <2>1, <2>2 DEF AssistantsMoreFor, ShownMoreFor, ShownIn
  <2>3. CASE m.role = "assistant"
    <3>1. PICK us : us = Each(F, Assistants(h))
      OBVIOUS
    <3>2. us \in Seq(Seq(Piece)) /\ Each(F, Assistants(Append(h, m))) = Append(us, F[m])
      BY <1>1, <1>2, <2>1, <2>3, <3>1 DEF AssistantsMoreFor
    <3>3. Sayings(Append(us, F[m])) = IF F[m] # <<>> THEN Append(Sayings(us), F[m]) ELSE Sayings(us)
      BY <1>0, <3>2, SayingsMore
    <3> QED
      BY <2>3, <3>1, <3>2, <3>3 DEF ShownMoreFor, ShownIn
  <2> QED
    BY <2>2, <2>3
<1>4. ShownIn(F, <<>>) = <<>>
  <2>1. Assistants(<<>>) = <<>> /\ Each(F, <<>>) = <<>>
    BY AssistantsMore DEF Each
  <2>2. Sayings(<<>>) = <<>>
    <3>1. <<>> \in Seq(Seq(Piece))
      OBVIOUS
    <3> QED
      BY <3>1, SayingsMore
  <2> QED
    BY <2>1, <2>2 DEF ShownIn
<1> QED
  BY <1>3, <1>4

(* A request that grows turn by turn shows what the answers become.        *)
Follows(F, W) ==
  /\ \A m \in Msg : F[m] \in Seq(Piece)
  /\ W[<<>>] = <<>>
  /\ \A h \in Seq(ChatMsg), m \in ChatMsg : TurnsGrow(W[h], W[Append(h, m)], m, F[m])
LEMMA ShowsAll ==
  ASSUME NEW F, NEW W, Follows(F, W)
  PROVE  \A h \in Seq(ChatMsg) : W[h] \in Seq(Turn) /\ SaidIn(W[h]) = ShownIn(F, h)
<1> DEFINE T == {h \in Seq(ChatMsg) : W[h] \in Seq(Turn) /\ SaidIn(W[h]) = ShownIn(F, h)}
<1>a. \A m \in Msg : F[m] \in Seq(Piece)
  BY DEF Follows
<1>b. \A h \in Seq(ChatMsg), m \in ChatMsg : TurnsGrow(W[h], W[Append(h, m)], m, F[m])
  BY DEF Follows
<1>c. ChatMsg \subseteq Msg /\ \A s \in Seq(ChatMsg) : s \in Seq(Msg)
  BY DEF ChatMsg
<1>1. <<>> \in T
  <2>1. \A x \in Turn : x.blocks \in Seq(Piece)
    BY DEF Turn
  <2>2. SaidIn(<<>>) = <<>>
    BY <2>1, SaidInMore
  <2>3. ShownIn(F, <<>>) = <<>>
    BY <1>a, ShownMore
  <2>4. \A S : <<>> \in Seq(S)
    OBVIOUS
  <2>5. W[<<>>] = <<>>
    BY DEF Follows
  <2> QED
    BY <2>2, <2>3, <2>4, <2>5
<1>2. ASSUME NEW h \in Seq(ChatMsg), NEW m \in ChatMsg, h \in T PROVE Append(h, m) \in T
  <2>1. PICK ms, new : ms = W[h] /\ new = W[Append(h, m)]
    OBVIOUS
  <2>2. ms \in Seq(Turn) /\ SaidIn(ms) = ShownIn(F, h)
    BY <1>2, <2>1
  <2>3. TurnsGrow(ms, new, m, F[m])
    BY <1>b, <2>1
  <2>4. SaysMore(ms, new, m, F[m]) /\ new \in Seq(Turn)
    BY <2>2, <2>3, SaidGrowsWithTurns
  <2>5. \A s \in Seq(Msg), x \in Msg : ShownMoreFor(F, s, x)
    BY <1>a, ShownMore
  <2>6. ShownMoreFor(F, h, m)
    BY <1>c, <2>5
  <2>7. SaidIn(new) = ShownIn(F, Append(h, m))
    BY <2>2, <2>4, <2>6 DEF SaysMore, ShownMoreFor
  <2>8. Append(h, m) \in Seq(ChatMsg)
    OBVIOUS
  <2> QED
    BY <2>1, <2>4, <2>7, <2>8
<1> HIDE DEF T
<1>3. \A h \in Seq(ChatMsg) : h \in T
  BY <1>1, <1>2, EverySequence
<1> QED
  BY <1>3 DEF T

---------------------------------------------------------------------------
(* The OAuth adapter.                                                      *)

ClaudeShows(F) == \A m \in Msg : F[m] = Wire(AssistantBlocks(m)) /\ F[m] \in Seq(Piece)
SentTurns(h) == AsSent(Converted(h).messages)
LEMMA ClaudeShowsSome == \E F : ClaudeShows(F)
<1>1. \A m \in Msg : Wire(AssistantBlocks(m)) \in Seq(Piece)
  BY AssistantRaw, WireBoth
<1>2. PICK F : F = [m \in Msg |-> Wire(AssistantBlocks(m))]
  OBVIOUS
<1> QED
  BY <1>1, <1>2 DEF ClaudeShows

LEMMA ClaudeFollows ==
  ASSUME NEW F, ClaudeShows(F), NEW W, W = [h \in Seq(ChatMsg) |-> SentTurns(h)]
  PROVE  Follows(F, W)
<1>1. \A m \in Msg : F[m] \in Seq(Piece)
  BY DEF ClaudeShows
<1>2. W[<<>>] = <<>>
  <2>1. <<>> \in Seq(ChatMsg)
    OBVIOUS
  <2> QED
    BY <2>1, ConvertedMore, NotYetTyped, AsSentMore DEF SentTurns
<1>3. ASSUME NEW h \in Seq(ChatMsg), NEW m \in ChatMsg PROVE TurnsGrow(W[h], W[Append(h, m)], m, F[m])
  <2>1. PICK c, d : c = Converted(h) /\ d = Converted(Append(h, m))
    OBVIOUS
  <2>2. c \in Conv /\ d = ConvertNext(c, m)
    BY <2>1, ConvertedMore DEF ConvertedMoreFor
  <2>3. ConvertsTo(c, m, d)
    BY <2>2, ConvertNextIs
  <2>4. TurnsGrow(AsSent(c.messages), AsSent(d.messages), m, Wire(AssistantBlocks(m)))
    BY <2>2, <2>3, ClaudeGrows
  <2>5. m \in Msg /\ Append(h, m) \in Seq(ChatMsg)
    BY DEF ChatMsg
  <2>6. W[h] = AsSent(c.messages) /\ W[Append(h, m)] = AsSent(d.messages)
    BY <2>1, <2>5 DEF SentTurns
  <2>7. F[m] = Wire(AssistantBlocks(m))
    BY <2>5 DEF ClaudeShows
  <2> QED
    BY <2>4, <2>6, <2>7
<1> QED
  BY <1>1, <1>2, <1>3 DEF Follows

(* What is left to flush at the end is the user's.                         *)
ClaudeRequest(h) ==
  /\ SentTurns(h) \in Seq(Turn) /\ build_request(h).messages \in Seq(Turn)
  /\ TellsUser(SentTurns(h), build_request(h).messages)
  /\ build_request(h).system = Converted(h).system
  /\ build_request(h).marked = Marked(build_request(h).messages)
LEMMA ClaudeRequestIs ==
  ASSUME NEW h \in Seq(ChatMsg)
  PROVE  ClaudeRequest(h)
<1>1. PICK c, d : c = Converted(h) /\ d = Flushed(c)
  OBVIOUS
<1>2. c \in Conv /\ c.messages \in Seq(RawTurn)
  BY <1>1, ConvertedMore DEF Conv
<1>3. d \in Conv /\ d.system = c.system /\ FlushesTo(c, d)
  BY <1>1, <1>2, FlushedIs
<1>4. PICK bs \in Seq(Raw) :
        /\ NoIds(bs)
        /\ (bs = <<>> /\ d.messages = c.messages) \/ Grown(c.messages, d.messages, bs)
  BY <1>3 DEF FlushesTo, Grown
<1>5. d.messages \in Seq(RawTurn)
  BY <1>3 DEF Conv
<1>6. \A ms \in Seq(RawTurn) : AsSent(ms) \in Seq(Turn)
  BY AsSentMore
<1>7. Wire(bs) \in Seq(Piece) /\ NoIds(Wire(bs))
  BY <1>4, WireBoth, OfsWire DEF NoIds
<1>8. \/ Wire(bs) = <<>> /\ AsSent(d.messages) = AsSent(c.messages)
      \/ UserGrows(AsSent(c.messages), AsSent(d.messages), Wire(bs))
  <2>1. CASE bs = <<>> /\ d.messages = c.messages
    BY <2>1, WireMore
  <2>2. CASE Grown(c.messages, d.messages, bs)
    BY <1>2, <2>2, SentGrows
  <2> QED
    BY <1>4, <2>1, <2>2
<1>9. TellsUser(AsSent(c.messages), AsSent(d.messages))
  BY <1>7, <1>8 DEF TellsUser, UserGrows
<1>10. PICK out : out = AsSent(d.messages)
  OBVIOUS
<1>11. build_request(h) = [system |-> d.system, messages |-> out, marked |-> Marked(out)]
  BY <1>1, <1>10 DEF build_request, Convert, AsSent
<1> QED
  BY <1>1, <1>2, <1>3, <1>5, <1>6, <1>9, <1>10, <1>11 DEF ClaudeRequest, SentTurns

LEMMA ClaudeSays ==
  ASSUME NEW F, ClaudeShows(F), NEW h \in Seq(ChatMsg)
  PROVE  SaidIn(build_request(h).messages) = ShownIn(F, h)
<1>1. PICK W : W = [e \in Seq(ChatMsg) |-> SentTurns(e)]
  OBVIOUS
<1>2. Follows(F, W)
  BY <1>1, ClaudeFollows
<1>3. SaidIn(W[h]) = ShownIn(F, h)
  BY <1>2, ShowsAll
<1>4. W[h] = SentTurns(h)
  BY <1>1
<1>5. SentTurns(h) \in Seq(Turn) /\ TellsUser(SentTurns(h), build_request(h).messages)
  BY ClaudeRequestIs DEF ClaudeRequest
<1>6. SaidIn(build_request(h).messages) = SaidIn(SentTurns(h))
  BY <1>5, UsersSayNothing DEF TellsUser
<1> QED
  BY <1>3, <1>4, <1>6

---------------------------------------------------------------------------
(* The adapter with an API key: nothing is ever pending.                   *)

PlainConv == {c \in Conv : c.pending = <<>>}
PlainBlocks(m) == IF AssistantBlocks(m) = <<>> THEN <<TextBlock(<<>>)>> ELSE AssistantBlocks(m)
EndsWithResults(ms) ==
  /\ ms # <<>> /\ Last(ms).role = "user"
  /\ \A b \in ToSet(Last(ms).blocks) : b.kind = "tool_result"
PlainTurn(ms, new, m) ==
  \/ m.role = "system" /\ new = ms
  \/ m.role = "user" /\ Added(ms, new, <<TextBlock(m.text)>>)
  \/ m.role = "assistant" /\ new = Append(ms, AssistantTurn(PlainBlocks(m)))
  \/ m.role = "tool" /\ IF EndsWithResults(ms) THEN Merges(RawTurn, ms, new, ResultOf(m))
                        ELSE Added(ms, new, ResultOf(m))
PlainConverts(c, m, d) ==
  /\ d \in PlainConv
  /\ m.role # "system" => d.system = c.system
  /\ PlainTurn(c.messages, d.messages, m)
LEMMA PlainSystemIs ==
  ASSUME NEW c \in PlainConv, NEW m \in Msg
  PROVE  PlainSystem(c, m) \in PlainConv /\ PlainSystem(c, m).messages = c.messages
<1>1. m.text \in Text
  BY DEF Msg
<1>2. /\ c.messages \in Seq(RawTurn) /\ c.pending = <<>> /\ c.pending \in Seq(Text) /\ c.system \in Text
      /\ c = [system |-> c.system, pending |-> c.pending, messages |-> c.messages]
  BY DEF Conv, PlainConv
<1>3. PICK s : s = c.system \o m.text
  OBVIOUS
<1>4. s \in Text
  BY <1>1, <1>2, <1>3 DEF Text
<1>5. PlainSystem(c, m) = [c EXCEPT !.system = s]
  BY <1>3 DEF PlainSystem
<1>6. [c EXCEPT !.system = s] = [system |-> s, pending |-> c.pending, messages |-> c.messages]
  BY <1>2
<1> QED
  BY <1>2, <1>4, <1>5, <1>6 DEF PlainConv, Conv

LEMMA PlainBlocksRaw ==
  ASSUME NEW m \in Msg
  PROVE  /\ PlainBlocks(m) \in Seq(Raw) /\ AssistantBlocks(m) \in Seq(Raw)
         /\ Ofs(PlainBlocks(m), "tool_use") = Ids(m.calls)
         /\ drop_blank_text(PlainBlocks(m)) = AssistantBlocks(m)
<1>1. PICK bs : bs = AssistantBlocks(m)
  OBVIOUS
<1>2. bs \in Seq(Raw) /\ Ofs(bs, "tool_use") = Ids(m.calls) /\ bs \in Seq(Piece)
  BY <1>1, AssistantRaw, RawIsPiece
<1>3. PICK X : X = {b \in Piece : ~IsBlankText(b)}
  OBVIOUS
<1>4. \A i \in DOMAIN bs : bs[i] \in X
  <2>1. PICK t, u : t = (IF Blank(m.text) THEN <<>> ELSE <<TextBlock(m.text)>>) /\ u = ToolUses(m.calls)
    OBVIOUS
  <2>2. bs = t \o u
    BY <1>1, <2>1 DEF AssistantBlocks
  <2>3. m.text \in Text /\ m.calls \in Seq(ToolCall)
    BY DEF Msg
  <2>4. t \in Seq(Raw) /\ u \in Seq(Raw)
    BY <2>1, <2>3, TextRaw, UsesRaw
  <2>5. \A i \in DOMAIN t : ~IsBlankText(t[i])
    <3>1. CASE Blank(m.text)
      BY <2>1, <3>1
    <3>2. CASE ~Blank(m.text)
      <4>1. t = <<TextBlock(m.text)>>
        BY <2>1, <3>2
      <4>2. \A i \in DOMAIN t : t[i] = TextBlock(m.text)
        BY <4>1
      <4>3. TextBlock(m.text).text = m.text
        BY DEF TextBlock, Block
      <4>4. ~IsBlankText(TextBlock(m.text))
        BY <3>2, <4>3 DEF IsBlankText
      <4> QED
        BY <4>2, <4>4
    <3> QED
      BY <3>1, <3>2
  <2>6. \A i \in DOMAIN u : ~IsBlankText(u[i])
    BY <2>1 DEF IsBlankText, ToolUses, Block
  <2>7. ASSUME NEW i \in DOMAIN bs PROVE ~IsBlankText(bs[i])
    <3>1. i \in 1..(Len(t) + Len(u)) /\ Len(t) \in Nat /\ Len(u) \in Nat
      BY <2>2, <2>4, <2>7
    <3>2. CASE i <= Len(t)
      BY <2>2, <2>4, <2>5, <3>1, <3>2
    <3>3. CASE i > Len(t)
      <4>1. i - Len(t) \in DOMAIN u /\ bs[i] = u[i - Len(t)]
        BY <2>2, <2>4, <3>1, <3>3
      <4> QED
        BY <2>6, <4>1
    <3> QED
      BY <3>1, <3>2, <3>3
  <2> QED
    BY <1>2, <1>3, <2>7
<1>5. Among(bs, X) = bs
  BY <1>2, <1>4, AmongAllOrNone
<1>6. drop_blank_text(bs) = bs
  BY <1>2, <1>3, <1>5, DropIs
<1>7. CASE bs # <<>>
  BY <1>1, <1>2, <1>6, <1>7 DEF PlainBlocks
<1>8. CASE bs = <<>>
  <2>1. PICK cs : cs = <<TextBlock(<<>>)>>
    OBVIOUS
  <2>2. <<>> \in Text /\ cs \in Seq(Raw) /\ NoIds(cs) /\ cs \in Seq(Piece)
    BY <2>1, Values, TextRaw, RawIsPiece
  <2>3. PlainBlocks(m) = cs
    BY <1>1, <1>8, <2>1 DEF PlainBlocks
  <2>4. \A i \in DOMAIN cs : cs[i] \notin X
    <3>1. \A i \in DOMAIN cs : cs[i] = TextBlock(<<>>)
      BY <2>1
    <3>2. TextBlock(<<>>).kind = "text" /\ TextBlock(<<>>).text = <<>>
      BY DEF TextBlock, Block
    <3>3. IsBlankText(TextBlock(<<>>))
      BY <3>2 DEF IsBlankText, Blank
    <3> QED
      BY <1>3, <3>1, <3>3
  <2>5. Among(cs, X) = <<>>
    BY <2>2, <2>4, AmongAllOrNone
  <2>6. drop_blank_text(cs) = <<>>
    BY <1>3, <2>2, <2>5, DropIs
  <2>7. Ofs(<<>>, "tool_use") = <<>>
    BY OfsMore
  <2> QED
    BY <1>1, <1>2, <1>8, <2>2, <2>3, <2>6, <2>7 DEF NoIds
<1> QED
  BY <1>7, <1>8

LEMMA PlainAssistantIs ==
  ASSUME NEW c \in PlainConv, NEW m \in Msg
  PROVE  /\ PlainAssistant(c, m) \in PlainConv /\ PlainAssistant(c, m).system = c.system
         /\ PlainAssistant(c, m).messages = Append(c.messages, AssistantTurn(PlainBlocks(m)))
<1>1. PICK bs : bs = AssistantBlocks(m)
  OBVIOUS
<1>2. bs \in Seq(Raw) /\ c \in Conv /\ c.pending = <<>> /\ c.messages \in Seq(RawTurn)
  BY <1>1, AssistantRaw DEF PlainConv, Conv
<1>3. PICK e : e = ConvertAssistant(c, m)
  OBVIOUS
<1>4. e \in Conv /\ e.pending = c.pending /\ e.system = c.system
      /\ e.messages = Append(c.messages, AssistantTurn(bs))
  BY <1>1, <1>2, <1>3, ConvertAssistantIs DEF AssistantConverts, AssistantTurn
<1>5. Last(e.messages).blocks = bs
  <2>1. AssistantTurn(bs) \in RawTurn /\ AssistantTurn(bs).blocks = bs
    BY <1>2 DEF AssistantTurn, RawTurn
  <2>2. Last(Append(c.messages, AssistantTurn(bs))) = AssistantTurn(bs)
    BY <1>2, <2>1, AppendEnds
  <2> QED
    BY <1>4, <2>1, <2>2
<1>6. CASE bs # <<>>
  <2>1. PlainAssistant(c, m) = e
    BY <1>3, <1>5, <1>6 DEF PlainAssistant
  <2> QED
    BY <1>1, <1>2, <1>4, <1>6, <2>1 DEF PlainBlocks, PlainConv
<1>7. CASE bs = <<>>
  <2>1. PICK cs : cs = <<TextBlock(<<>>)>>
    OBVIOUS
  <2>2. PlainAssistant(c, m) = Appended(c, "assistant", cs)
    BY <1>3, <1>5, <1>7, <2>1 DEF PlainAssistant
  <2>3. cs \in Seq(Raw)
    BY <2>1, Values, TextRaw
  <2>4. /\ Appended(c, "assistant", cs) \in Conv
        /\ Appended(c, "assistant", cs).messages = Append(c.messages, [role |-> "assistant", blocks |-> cs])
        /\ Appended(c, "assistant", cs).pending = c.pending /\ Appended(c, "assistant", cs).system = c.system
    BY <1>2, <2>3, AppendedIs
  <2> QED
    BY <1>1, <1>2, <1>7, <2>1, <2>2, <2>4 DEF PlainBlocks, PlainConv, AssistantTurn
<1> QED
  BY <1>6, <1>7

LEMMA PlainToolIs ==
  ASSUME NEW c \in PlainConv, NEW m \in Msg
  PROVE  /\ ConvertTool(c, m) \in PlainConv /\ ConvertTool(c, m).system = c.system
         /\ IF EndsWithResults(c.messages) THEN Merges(RawTurn, c.messages, ConvertTool(c, m).messages, ResultOf(m))
            ELSE Added(c.messages, ConvertTool(c, m).messages, ResultOf(m))
<1>1. PICK bs : bs = ResultOf(m)
  OBVIOUS
<1>2. bs \in Seq(Raw) /\ c \in Conv /\ c.pending = <<>>
  BY <1>1, ResultRaw DEF PlainConv
<1>3. PICK merges : merges = EndsWithResults(c.messages)
  OBVIOUS
<1>4. PICK e : e = IF merges THEN Extended(c, bs) ELSE Appended(c, "user", bs)
  OBVIOUS
<1>5. e \in Conv /\ e.system = c.system /\ e.pending = <<>>
      /\ IF merges THEN Merges(RawTurn, c.messages, e.messages, bs) ELSE Added(c.messages, e.messages, bs)
  <2>1. CASE merges
    <3>1. EndsWithUser(c) /\ e = Extended(c, bs)
      BY <1>3, <1>4, <2>1 DEF EndsWithUser, EndsWithResults
    <3> QED
      BY <1>2, <2>1, <3>1, ExtendedIs
  <2>2. CASE ~merges
    <3>1. e = Appended(c, "user", bs)
      BY <1>4, <2>2
    <3>2. e \in Conv /\ e.messages = Append(c.messages, [role |-> "user", blocks |-> bs])
          /\ e.system = c.system /\ e.pending = c.pending
      BY <1>2, <3>1, AppendedIs
    <3> QED
      BY <1>2, <2>2, <3>2 DEF Added, UserTurn
  <2> QED
    BY <2>1, <2>2
<1>6. Flushed(e) = e
  BY <1>5, FlushedIs
<1>7. ConvertTool(c, m) = Flushed(e)
  BY <1>1, <1>3, <1>4 DEF ConvertTool, ResultOf, EndsWithResults, EndsWithUser
<1> QED
  BY <1>1, <1>3, <1>5, <1>6, <1>7 DEF PlainConv

LEMMA PlainNextIs ==
  ASSUME NEW c \in PlainConv, NEW m \in ChatMsg
  PROVE  PlainConverts(c, m, PlainNext(c, m)) /\ PlainNext(c, m) \in PlainConv
<1>1. m \in Msg /\ m.role \in {"system", "user", "assistant", "tool"} /\ m.text \in Text
  BY DEF ChatMsg, Msg
<1>2. CASE m.role = "system"
  <2>1. PlainNext(c, m) = PlainSystem(c, m)
    BY <1>2 DEF PlainNext, IsInstruction
  <2> QED
    BY <1>1, <1>2, <2>1, PlainSystemIs DEF PlainConverts, PlainTurn
<1>3. CASE m.role = "user"
  <2>1. PICK bs : bs = <<TextBlock(m.text)>>
    OBVIOUS
  <2>2. PlainNext(c, m) = Appended(c, "user", bs)
    BY <1>3, <2>1 DEF PlainNext, IsInstruction, AsUser
  <2>3. bs \in Seq(Raw) /\ c \in Conv /\ c.pending = <<>>
    BY <1>1, <2>1, TextRaw DEF PlainConv
  <2>4. /\ Appended(c, "user", bs) \in Conv
        /\ Appended(c, "user", bs).messages = Append(c.messages, [role |-> "user", blocks |-> bs])
        /\ Appended(c, "user", bs).pending = c.pending /\ Appended(c, "user", bs).system = c.system
    BY <2>3, AppendedIs
  <2> QED
    BY <1>3, <2>1, <2>2, <2>3, <2>4 DEF PlainConverts, PlainTurn, PlainConv, Added, UserTurn
<1>4. CASE m.role = "assistant"
  <2>1. PlainNext(c, m) = PlainAssistant(c, m)
    BY <1>4 DEF PlainNext, IsInstruction
  <2> QED
    BY <1>1, <1>4, <2>1, PlainAssistantIs DEF PlainConverts, PlainTurn
<1>5. CASE m.role = "tool"
  <2>1. PlainNext(c, m) = ConvertTool(c, m)
    BY <1>5 DEF PlainNext, IsInstruction
  <2> QED
    BY <1>1, <1>5, <2>1, PlainToolIs DEF PlainConverts, PlainTurn
<1> QED
  BY <1>1, <1>2, <1>3, <1>4, <1>5

---------------------------------------------------------------------------
(* convert_messages, message by message.                                   *)

LEMMA PlainNotYet == NotYet \in PlainConv /\ NotYet.messages = <<>>
BY NotYetTyped DEF PlainConv

PlainLoops(ms, g) ==
  /\ g \in [0..Len(ms) -> PlainConv] /\ g[0] = NotYet
  /\ \A i \in 1..Len(ms) : g[i] = PlainNext(g[i - 1], ms[i])
LEMMA PlainLoopExists ==
  ASSUME NEW ms \in Seq(ChatMsg)
  PROVE  \E g : PlainLoops(ms, g)
<1>1. PICK n : n = Len(ms)
  OBVIOUS
<1>2. n \in Nat /\ \A i \in 1..n : ms[i] \in ChatMsg
  BY <1>1
<1>3. PICK K : K = [i \in 1..n |-> [c \in PlainConv |-> PlainNext(c, ms[i])]]
  OBVIOUS
<1>4. \A i \in 1..n : \A c \in PlainConv : K[i][c] = PlainNext(c, ms[i])
  BY <1>3
<1>5. \A i \in 1..n : \A c \in PlainConv : K[i][c] \in PlainConv
  BY <1>2, <1>4, PlainNextIs
<1>6. NotYet \in PlainConv
  BY PlainNotYet
<1>7. \E g : IsRecursion(K, NotYet, n, PlainConv, g)
  BY <1>2, <1>5, <1>6, RecursionExists
<1>8. PICK g : IsRecursion(K, NotYet, n, PlainConv, g)
  BY <1>7
<1>9. g \in [0..n -> PlainConv] /\ g[0] = NotYet /\ \A i \in 1..n : g[i] = K[i][g[i - 1]]
  BY <1>8 DEF IsRecursion
<1>10. ASSUME NEW i \in 1..n PROVE g[i] = PlainNext(g[i - 1], ms[i])
  <2>1. i - 1 \in 0..n
    BY <1>2
  <2>2. g[i - 1] \in PlainConv
    BY <1>9, <2>1
  <2> QED
    BY <1>4, <1>9, <2>2
<1>11. PlainLoops(ms, g)
  BY <1>1, <1>9, <1>10 DEF PlainLoops
<1> QED
  BY <1>11

LEMMA PlainConvertedIs ==
  ASSUME NEW ms \in Seq(ChatMsg), NEW g, PlainLoops(ms, g)
  PROVE  convert_messages(ms) = g[Len(ms)] /\ convert_messages(ms) \in PlainConv
<1>1. PICK n : n = Len(ms)
  OBVIOUS
<1>2. /\ n \in Nat /\ g \in [0..n -> PlainConv] /\ g[0] = NotYet
      /\ \A i \in 1..n : g[i] = PlainNext(g[i - 1], ms[i])
  BY <1>1 DEF PlainLoops
<1> DEFINE It(h) == h = [i \in 0..n |-> IF i = 0 THEN NotYet ELSE PlainNext(h[i - 1], ms[i])]
<1>3. convert_messages(ms) = (CHOOSE h : It(h))[n]
  BY <1>1 DEF convert_messages
<1>4. \A i \in 0..n : g[i] = IF i = 0 THEN NotYet ELSE PlainNext(g[i - 1], ms[i])
  <2>1. ASSUME NEW i \in 0..n, i # 0 PROVE g[i] = PlainNext(g[i - 1], ms[i])
    <3>1. i \in 1..n
      BY <1>2, <2>1
    <3> QED
      BY <1>2, <3>1
  <2> QED
    BY <1>2, <2>1
<1>5. It(g)
  BY <1>2, <1>4
<1>6. PICK h : h = (CHOOSE e : It(e)) /\ It(h)
  BY <1>5
<1>7. \A i \in 0..n : h[i] = IF i = 0 THEN NotYet ELSE PlainNext(h[i - 1], ms[i])
  BY <1>6
<1> HIDE DEF It
<1> DEFINE T == {i \in Nat : i <= n => h[i] = g[i]}
<1>8. 0 \in T
  BY <1>2, <1>7
<1>9. ASSUME NEW i \in Nat, i \in T PROVE i + 1 \in T
  <2>1. SUFFICES ASSUME i + 1 <= n PROVE h[i + 1] = g[i + 1]
    OBVIOUS
  <2>2. PICK j : j = i + 1
    OBVIOUS
  <2>3. j \in 0..n /\ j # 0 /\ j - 1 = i
    BY <1>2, <2>1, <2>2
  <2>4. h[i] = g[i]
    BY <1>2, <1>9, <2>1
  <2>5. h[j] = PlainNext(h[j - 1], ms[j]) /\ g[j] = PlainNext(g[j - 1], ms[j])
    BY <1>4, <1>7, <2>3
  <2> QED
    BY <2>2, <2>3, <2>4, <2>5
<1> HIDE DEF T
<1>10. \A i \in Nat : i \in T
  BY <1>8, <1>9, Induct
<1>11. h[n] = g[n]
  BY <1>2, <1>10 DEF T
<1>12. g[n] \in PlainConv
  BY <1>2
<1> QED
  BY <1>1, <1>3, <1>6, <1>11, <1>12

PlainMoreFor(ms, m) ==
  convert_messages(Append(ms, m)) = PlainNext(convert_messages(ms), m)
LEMMA PlainMore ==
  /\ convert_messages(<<>>) = NotYet
  /\ \A ms \in Seq(ChatMsg) : /\ convert_messages(ms) \in PlainConv
                              /\ \A m \in ChatMsg : PlainMoreFor(ms, m)
<1>1. convert_messages(<<>>) = NotYet
  <2>1. <<>> \in Seq(ChatMsg) /\ Len(<<>>) = 0
    OBVIOUS
  <2>2. PICK g : PlainLoops(<<>>, g)
    BY <2>1, PlainLoopExists
  <2> QED
    BY <2>1, <2>2, PlainConvertedIs DEF PlainLoops
<1>2. ASSUME NEW ms \in Seq(ChatMsg) PROVE convert_messages(ms) \in PlainConv
  BY PlainLoopExists, PlainConvertedIs
<1>3. ASSUME NEW ms \in Seq(ChatMsg), NEW m \in ChatMsg PROVE PlainMoreFor(ms, m)
  <2>1. PICK n : n = Len(ms)
    OBVIOUS
  <2>2. PICK ns : ns = Append(ms, m)
    OBVIOUS
  <2>3. n \in Nat /\ ns \in Seq(ChatMsg) /\ Len(ns) = n + 1 /\ ns[n + 1] = m /\ \A i \in 1..n : ns[i] = ms[i]
    BY <2>1, <2>2, AppendIs
  <2>4. PICK g : PlainLoops(ns, g)
    BY <2>3, PlainLoopExists
  <2>5. /\ g \in [0..(n + 1) -> PlainConv] /\ g[0] = NotYet
        /\ \A i \in 1..(n + 1) : g[i] = PlainNext(g[i - 1], ns[i])
    BY <2>3, <2>4 DEF PlainLoops
  <2>6. PICK f : f = [i \in 0..n |-> g[i]]
    OBVIOUS
  <2>7. PlainLoops(ms, f)
    <3>1. f \in [0..n -> PlainConv] /\ f[0] = NotYet
      BY <2>3, <2>5, <2>6
    <3>2. ASSUME NEW i \in 1..n PROVE f[i] = PlainNext(f[i - 1], ms[i])
      <4>1. i \in 1..(n + 1) /\ i \in 0..n /\ i - 1 \in 0..n
        BY <2>3
      <4> QED
        BY <2>3, <2>5, <2>6, <4>1
    <3> QED
      BY <2>1, <3>1, <3>2 DEF PlainLoops
  <2>8. convert_messages(ms) = f[n]
    BY <2>1, <2>7, PlainConvertedIs
  <2>9. convert_messages(ns) = g[n + 1]
    BY <2>3, <2>4, PlainConvertedIs
  <2>10. g[n + 1] = PlainNext(g[n], m) /\ f[n] = g[n]
    <3>1. n + 1 \in 1..(n + 1) /\ (n + 1) - 1 = n /\ n \in 0..n
      BY <2>3
    <3> QED
      BY <2>3, <2>5, <2>6, <3>1
  <2> QED
    BY <2>2, <2>8, <2>9, <2>10 DEF PlainMoreFor
<1> QED
  BY <1>1, <1>2, <1>3

LEMMA PlainGrows ==
  ASSUME NEW c \in PlainConv, NEW m \in ChatMsg, NEW d, PlainConverts(c, m, d)
  PROVE  TurnsGrow(c.messages, d.messages, m, AssistantBlocks(m))
<1>1. PICK ms, new : ms = c.messages /\ new = d.messages
  OBVIOUS
<1>2. ms \in Seq(RawTurn) /\ m \in Msg /\ m.text \in Text /\ PlainTurn(ms, new, m)
  BY <1>1 DEF PlainConv, Conv, ChatMsg, Msg, PlainConverts
<1>3. RawTurn \subseteq Turn /\ \A s \in Seq(RawTurn) : s \in Seq(Turn)
  <2>1. RawTurn \subseteq Turn
    BY RawIsPiece DEF RawTurn, Turn
  <2> QED
    BY <2>1
<1>4. CASE m.role = "system" /\ new = ms
  BY <1>1, <1>4 DEF TurnsGrow
<1>5. CASE m.role = "user" /\ Added(ms, new, <<TextBlock(m.text)>>)
  <2>1. PICK bs : bs = <<TextBlock(m.text)>>
    OBVIOUS
  <2>2. bs \in Seq(Piece) /\ NoIds(bs)
    BY <1>2, <2>1, TextRaw, RawIsPiece
  <2>3. TellsUser(ms, new)
    BY <1>5, <2>1, <2>2 DEF TellsUser, UserGrows
  <2> QED
    BY <1>1, <1>5, <2>3 DEF TurnsGrow
<1>6. CASE m.role = "assistant" /\ new = Append(ms, AssistantTurn(PlainBlocks(m)))
  <2>1. PICK bs : bs = PlainBlocks(m)
    OBVIOUS
  <2>2. bs \in Seq(Piece) /\ Ofs(bs, "tool_use") = Ids(m.calls) /\ drop_blank_text(bs) = AssistantBlocks(m)
    BY <1>2, <2>1, PlainBlocksRaw, RawIsPiece
  <2>3. TellsAnswer(ms, new, m, AssistantBlocks(m))
    BY <1>6, <2>1, <2>2 DEF TellsAnswer
  <2> QED
    BY <1>1, <1>6, <2>3 DEF TurnsGrow
<1>7. CASE /\ m.role = "tool"
           /\ IF EndsWithResults(ms) THEN Merges(RawTurn, ms, new, ResultOf(m))
              ELSE Added(ms, new, ResultOf(m))
  <2>1. PICK bs : bs = ResultOf(m)
    OBVIOUS
  <2>2. bs \in Seq(Piece) /\ Ofs(bs, "tool_use") = <<>> /\ Ofs(bs, "tool_result") = <<m.of>>
    BY <1>2, <2>1, ResultRaw, RawIsPiece
  <2>3. Merges(RawTurn, ms, new, bs) => Merges(Turn, ms, new, bs)
    BY <1>3 DEF Merges
  <2>4. UserGrows(ms, new, bs)
    BY <1>7, <2>1, <2>3 DEF UserGrows
  <2>5. TellsResult(ms, new, m.of)
    BY <2>2, <2>4 DEF TellsResult
  <2> QED
    BY <1>1, <1>7, <2>5 DEF TurnsGrow
<1> QED
  BY <1>2, <1>4, <1>5, <1>6, <1>7 DEF PlainTurn

PlainShows(F) == \A m \in Msg : F[m] = AssistantBlocks(m) /\ F[m] \in Seq(Piece)
LEMMA PlainShowsSome == \E F : PlainShows(F)
<1>1. \A m \in Msg : AssistantBlocks(m) \in Seq(Piece)
  BY AssistantRaw, RawIsPiece
<1>2. PICK F : F = [m \in Msg |-> AssistantBlocks(m)]
  OBVIOUS
<1> QED
  BY <1>1, <1>2 DEF PlainShows

PlainTurns(h) == convert_messages(h).messages
LEMMA PlainFollows ==
  ASSUME NEW F, PlainShows(F), NEW W, W = [h \in Seq(ChatMsg) |-> PlainTurns(h)]
  PROVE  Follows(F, W)
<1>1. \A m \in Msg : F[m] \in Seq(Piece)
  BY DEF PlainShows
<1>2. W[<<>>] = <<>>
  <2>1. <<>> \in Seq(ChatMsg)
    OBVIOUS
  <2> QED
    BY <2>1, PlainMore, PlainNotYet DEF PlainTurns
<1>3. ASSUME NEW h \in Seq(ChatMsg), NEW m \in ChatMsg PROVE TurnsGrow(W[h], W[Append(h, m)], m, F[m])
  <2>1. PICK c, d : c = convert_messages(h) /\ d = convert_messages(Append(h, m))
    OBVIOUS
  <2>2. c \in PlainConv /\ d = PlainNext(c, m)
    BY <2>1, PlainMore DEF PlainMoreFor
  <2>3. PlainConverts(c, m, d)
    BY <2>2, PlainNextIs
  <2>4. TurnsGrow(c.messages, d.messages, m, AssistantBlocks(m))
    BY <2>2, <2>3, PlainGrows
  <2>5. m \in Msg /\ Append(h, m) \in Seq(ChatMsg)
    BY DEF ChatMsg
  <2>6. W[h] = c.messages /\ W[Append(h, m)] = d.messages
    BY <2>1, <2>5 DEF PlainTurns
  <2>7. F[m] = AssistantBlocks(m)
    BY <2>5 DEF PlainShows
  <2> QED
    BY <2>4, <2>6, <2>7
<1> QED
  BY <1>1, <1>2, <1>3 DEF Follows

LEMMA PlainSays ==
  ASSUME NEW F, PlainShows(F), NEW h \in Seq(ChatMsg)
  PROVE  SaidIn(build_anthropic_request(h).messages) = ShownIn(F, h)
<1>1. PICK W : W = [e \in Seq(ChatMsg) |-> PlainTurns(e)]
  OBVIOUS
<1>2. Follows(F, W)
  BY <1>1, PlainFollows
<1>3. SaidIn(W[h]) = ShownIn(F, h)
  BY <1>2, ShowsAll
<1>4. build_anthropic_request(h).messages = W[h]
  BY <1>1 DEF PlainTurns, build_anthropic_request, Request
<1> QED
  BY <1>3, <1>4

---------------------------------------------------------------------------
(* Codex and OpenAI's protocol send a text for each message, if any.       *)

TextTurn == [role : {"system", "developer", "user", "assistant", "tool"}, blocks : Seq(Piece)]
TextShows(F) == \A m \in Msg : F[m] = drop_blank_text(<<TextBlock(m.text)>>) /\ F[m] \in Seq(Piece)
LEMMA TextShowsSome == \E F : TextShows(F)
<1>1. ASSUME NEW m \in Msg PROVE drop_blank_text(<<TextBlock(m.text)>>) \in Seq(Piece)
  <2>1. PICK bs : bs = <<TextBlock(m.text)>>
    OBVIOUS
  <2>2. bs \in Seq(Piece)
    BY <2>1, TextRaw, RawIsPiece DEF Msg
  <2>3. Among(bs, {b \in Piece : ~IsBlankText(b)}) \in Seq(Piece)
    BY <2>2, AmongIs
  <2> QED
    BY <2>1, <2>2, <2>3, DropIs
<1>2. PICK F : F = [m \in Msg |-> drop_blank_text(<<TextBlock(m.text)>>)]
  OBVIOUS
<1>3. \A m \in Msg : F[m] = drop_blank_text(<<TextBlock(m.text)>>)
  BY <1>2
<1> QED
  BY <1>1, <1>3 DEF TextShows

TextTurns(P, X) ==
  \A m \in Msg : /\ P[m] \in TextTurn /\ P[m].blocks = <<TextBlock(m.text)>>
                 /\ m \in X /\ P[m].role = "assistant" <=> m.role = "assistant"
LEMMA TextsShow ==
  ASSUME NEW F, TextShows(F), NEW P, NEW X, TextTurns(P, X)
  PROVE  \A h \in Seq(Msg) : SaidIn(Each(P, Among(h, X))) = ShownIn(F, h)
<1> DEFINE T == {h \in Seq(Msg) : SaidIn(Each(P, Among(h, X))) = ShownIn(F, h)}
<1>a. \A m \in Msg : F[m] \in Seq(Piece)
  BY DEF TextShows
<1>b. \A x \in TextTurn : x.blocks \in Seq(Piece)
  BY DEF TextTurn
<1>c. \A ts \in Seq(TextTurn), x \in TextTurn : SaidInMoreFor(ts, x)
  BY <1>b, SaidInMore
<1>d. \A m \in Msg : P[m] \in TextTurn
  BY DEF TextTurns
<1>e. \A s \in Seq(Msg) : Each(P, s) \in Seq(TextTurn)
  BY <1>d, EachIs
<1>f. \A s \in Seq(Msg), m \in Msg : Each(P, Append(s, m)) = Append(Each(P, s), P[m])
  BY EachMore
<1>g. \A s \in Seq(Msg), m \in Msg :
        Among(Append(s, m), X) = IF m \in X THEN Append(Among(s, X), m) ELSE Among(s, X)
  BY AmongMore
<1>h. \A s \in Seq(Msg) : Among(s, X) \in Seq(Msg)
  BY AmongIs
<1>i. \A s \in Seq(Msg), m \in Msg : ShownMoreFor(F, s, m)
  BY <1>a, ShownMore
<1>1. <<>> \in T
  <2>1. Among(<<>>, X) = <<>> /\ Each(P, <<>>) = <<>>
    BY AmongMore DEF Each
  <2>2. SaidIn(<<>>) = <<>>
    BY <1>b, SaidInMore
  <2>3. ShownIn(F, <<>>) = <<>>
    BY <1>a, ShownMore
  <2>4. \A S : <<>> \in Seq(S)
    OBVIOUS
  <2> QED
    BY <2>1, <2>2, <2>3, <2>4
<1>2. ASSUME NEW h \in Seq(Msg), NEW m \in Msg, h \in T PROVE Append(h, m) \in T
  <2>1. PICK s : s = Among(h, X)
    OBVIOUS
  <2>2. s \in Seq(Msg) /\ SaidIn(Each(P, s)) = ShownIn(F, h)
    BY <1>2, <1>h, <2>1
  <2>3. Among(Append(h, m), X) = IF m \in X THEN Append(s, m) ELSE s
    BY <1>g, <2>1
  <2>4. PICK ts : ts = Each(P, s)
    OBVIOUS
  <2>5. ts \in Seq(TextTurn) /\ Each(P, Append(s, m)) = Append(ts, P[m])
    BY <1>e, <1>f, <2>2, <2>4
  <2>6. P[m] \in TextTurn /\ P[m].blocks = <<TextBlock(m.text)>>
        /\ (m \in X /\ P[m].role = "assistant" <=> m.role = "assistant")
    BY DEF TextTurns
  <2>7. F[m] = drop_blank_text(P[m].blocks)
    BY <2>6 DEF TextShows
  <2>8. SaidInMoreFor(ts, P[m])
    BY <1>c, <2>5, <2>6
  <2>9. ShownMoreFor(F, h, m)
    BY <1>i
  <2>10. CASE m \in X
    <3>1. Each(P, Among(Append(h, m), X)) = Append(ts, P[m])
      BY <2>3, <2>5, <2>10
    <3>2. SaidIn(Append(ts, P[m])) = ShownIn(F, Append(h, m))
      BY <2>2, <2>4, <2>6, <2>7, <2>8, <2>9, <2>10 DEF SaidInMoreFor, ShownMoreFor
    <3>3. SaidIn(Each(P, Among(Append(h, m), X))) = ShownIn(F, Append(h, m))
      BY ONLY <3>1, <3>2
    <3>4. Append(h, m) \in Seq(Msg)
      OBVIOUS
    <3> QED
      BY <3>3, <3>4
  <2>11. CASE m \notin X
    BY <2>2, <2>3, <2>6, <2>9, <2>11 DEF ShownMoreFor
  <2> QED
    BY <2>10, <2>11
<1> HIDE DEF T
<1>3. \A h \in Seq(Msg) : h \in T
  BY <1>1, <1>2, EverySequence
<1> QED
  BY <1>3 DEF T

(* Codex.                                                                  *)
CodexTurn(P, X) ==
  /\ P = [m \in Msg |-> InputItem(m)] /\ X = {m \in Msg : ~IsInstruction(m)}
LEMMA InputIsText ==
  ASSUME NEW P, NEW X, CodexTurn(P, X)
  PROVE  TextTurns(P, X)
<1>1. ASSUME NEW m \in Msg
      PROVE  /\ P[m] \in TextTurn /\ P[m].blocks = <<TextBlock(m.text)>>
             /\ m \in X /\ P[m].role = "assistant" <=> m.role = "assistant"
  <2>1. PICK bs : bs = <<TextBlock(m.text)>>
    OBVIOUS
  <2>2. bs \in Seq(Piece)
    BY <2>1, TextRaw, RawIsPiece DEF Msg
  <2>3. P[m] = [role |-> IF m.role = "assistant" THEN "assistant" ELSE "user", blocks |-> bs]
    BY <2>1 DEF CodexTurn, InputItem
  <2>4. m \in X <=> m.role \notin {"system", "developer"}
    BY DEF CodexTurn, IsInstruction
  <2> QED
    BY <2>1, <2>2, <2>3, <2>4 DEF TextTurn
<1> QED
  BY <1>1 DEF TextTurns

LEMMA CodexTurnsAre ==
  ASSUME NEW P, NEW X, CodexTurn(P, X), NEW h \in Seq(Msg)
  PROVE  CodexRequest(h).messages = Each(P, Among(h, X))
<1>1. \A i \in DOMAIN h : h[i] \in Msg
  OBVIOUS
<1>2. DOMAIN h \ {i \in DOMAIN h : IsInstruction(h[i])} = {i \in DOMAIN h : h[i] \in X}
  BY <1>1 DEF CodexTurn
<1>3. PICK others : others = Only(h, DOMAIN h \ {i \in DOMAIN h : IsInstruction(h[i])})
  OBVIOUS
<1>4. others = Among(h, X)
  BY <1>2, <1>3 DEF Among
<1>5. others \in Seq(Msg)
  BY <1>4, AmongIs
<1>6. \A i \in DOMAIN others : others[i] \in Msg
  BY <1>5
<1>7. [i \in DOMAIN others |-> InputItem(others[i])] = Each(P, others)
  BY <1>6 DEF CodexTurn, Each
<1>8. CodexRequest(h).messages = [i \in DOMAIN others |-> InputItem(others[i])]
  BY <1>3 DEF CodexRequest, Request
<1> QED
  BY <1>4, <1>7, <1>8

LEMMA CodexSays ==
  ASSUME NEW F, TextShows(F), NEW h \in Seq(Msg)
  PROVE  SaidIn(CodexRequest(h).messages) = ShownIn(F, h)
<1>1. PICK X : X = {m \in Msg : ~IsInstruction(m)}
  OBVIOUS
<1>2. PICK P : P = [m \in Msg |-> InputItem(m)]
  OBVIOUS
<1>3. CodexTurn(P, X)
  BY <1>1, <1>2 DEF CodexTurn
<1>4. TextTurns(P, X)
  BY <1>3, InputIsText
<1>5. SaidIn(Each(P, Among(h, X))) = ShownIn(F, h)
  BY <1>4, TextsShow
<1> QED
  BY <1>3, <1>5, CodexTurnsAre

(* OpenAI's protocol: who speaks and the text are all that counts.         *)
LEMMA SaysTheSame ==
  ASSUME NEW S, NEW R, NEW ms \in Seq(S), NEW ns \in Seq(R), Len(ms) = Len(ns),
         \A i \in 1..Len(ms) : /\ ms[i].role = "assistant" <=> ns[i].role = "assistant"
                               /\ ms[i].blocks = ns[i].blocks
  PROVE  SaidIn(ms) = SaidIn(ns)
<1>1. PICK I : I = {i \in DOMAIN ms : ms[i].role = "assistant"}
  OBVIOUS
<1>2. DOMAIN ms = 1..Len(ms) /\ DOMAIN ns = DOMAIN ms /\ I \in SUBSET DOMAIN ms
  BY <1>1
<1>3. {i \in DOMAIN ns : ns[i].role = "assistant"} = I
  BY <1>1, <1>2
<1>4. Assistants(ms) = Only(ms, I) /\ Assistants(ns) = Only(ns, I)
  BY <1>1, <1>3 DEF Assistants
<1>5. PICK n : n = Cardinality(I)
  OBVIOUS
<1>6. Only(ms, I) = [k \in 1..n |-> ms[Place(I, k)]] /\ I \in SUBSET Nat /\ IsFiniteSet(I)
  BY <1>2, <1>5, OnlyIs
<1>7. Only(ns, I) = [k \in 1..n |-> ns[Place(I, k)]]
  BY <1>2, <1>5, OnlyIs
<1>8. \A k \in 1..n : Place(I, k) \in I
  BY <1>5, <1>6, PlaceIsKth
<1>9. \A k \in 1..n : ms[Place(I, k)].blocks = ns[Place(I, k)].blocks
  BY <1>2, <1>8
<1>10. PICK a, b : a = Only(ms, I) /\ b = Only(ns, I)
  OBVIOUS
<1>11. DOMAIN a = DOMAIN b /\ \A k \in DOMAIN a : a[k].blocks = b[k].blocks
  BY <1>6, <1>7, <1>9, <1>10
<1>12. [k \in DOMAIN a |-> drop_blank_text(a[k].blocks)] = [k \in DOMAIN b |-> drop_blank_text(b[k].blocks)]
  BY <1>11
<1> QED
  BY <1>4, <1>10, <1>12 DEF SaidIn

LEMMA WireSays ==
  ASSUME NEW F, TextShows(F), NEW h \in Seq(Msg)
  PROVE  SaidIn(to_wire_value(h)) = ShownIn(F, h)
<1>1. PICK P : P = [m \in Msg |-> [role |-> m.role, blocks |-> <<TextBlock(m.text)>>]]
  OBVIOUS
<1>2. ASSUME NEW m \in Msg
      PROVE  /\ P[m] \in TextTurn /\ P[m].blocks = <<TextBlock(m.text)>>
             /\ m \in Msg /\ P[m].role = "assistant" <=> m.role = "assistant"
             /\ P[m].role = m.role
  <2>1. PICK bs : bs = <<TextBlock(m.text)>>
    OBVIOUS
  <2>2. bs \in Seq(Piece) /\ m.role \in {"system", "developer", "user", "assistant", "tool"}
    BY <2>1, TextRaw, RawIsPiece DEF Msg
  <2>3. P[m] = [role |-> m.role, blocks |-> bs]
    BY <1>1, <2>1
  <2> QED
    BY <2>1, <2>2, <2>3 DEF TextTurn
<1>3. TextTurns(P, Msg)
  BY <1>2 DEF TextTurns
<1>4. SaidIn(Each(P, Among(h, Msg))) = ShownIn(F, h)
  BY <1>3, TextsShow
<1>5. \A i \in DOMAIN h : h[i] \in Msg
  OBVIOUS
<1>6. Among(h, Msg) = h
  BY <1>5, AmongAllOrNone
<1>7. PICK ns : ns = Each(P, h)
  OBVIOUS
<1>8. \A m \in Msg : P[m] \in TextTurn
  BY <1>2
<1>a. \A s \in Seq(Msg) : Each(P, s) \in Seq(TextTurn)
  BY <1>8, EachIs
<1>b. DOMAIN ns = DOMAIN h
  BY <1>7 DEF Each
<1>9. ns \in Seq(TextTurn) /\ Len(ns) = Len(h)
  BY <1>7, <1>a, <1>b
<1>10. PICK normal : normal = Normalized(h)
  OBVIOUS
<1>11. DOMAIN normal = DOMAIN h /\ \A i \in DOMAIN h :
         normal[i] = IF h[i].role = "developer" /\ ~route.named_openai
                     THEN [h[i] EXCEPT !.role = "system"] ELSE h[i]
  BY <1>10 DEF Normalized
<1>12. \A i \in DOMAIN h : normal[i].text = h[i].text
                           /\ (normal[i].role = "assistant" <=> h[i].role = "assistant")
  BY <1>5, <1>11 DEF Msg
<1>13. PICK ms : ms = to_wire_value(h)
  OBVIOUS
<1>14. DOMAIN ms = DOMAIN h /\ \A i \in DOMAIN h :
         ms[i].role = normal[i].role /\ ms[i].blocks = <<TextBlock(normal[i].text)>>
  BY <1>10, <1>11, <1>13 DEF to_wire_value, WireMessage
<1>15. PICK R : R = {ms[i] : i \in DOMAIN ms}
  OBVIOUS
<1>16. ms \in Seq(R) /\ Len(ms) = Len(h)
  <2>1. DOMAIN ms = 1..Len(h) /\ Len(h) \in Nat
    BY <1>14
  <2>2. ms = [i \in 1..Len(h) |-> ms[i]]
    BY <1>13, <2>1 DEF to_wire_value
  <2>3. \A i \in 1..Len(h) : ms[i] \in R
    BY <1>15, <2>1
  <2> QED
    BY <2>1, <2>2, <2>3
<1>17. ASSUME NEW i \in 1..Len(ms)
       PROVE  (ms[i].role = "assistant" <=> ns[i].role = "assistant") /\ ms[i].blocks = ns[i].blocks
  <2>1. i \in DOMAIN h /\ h[i] \in Msg
    BY <1>5, <1>16
  <2>2. ns[i] = P[h[i]]
    BY <1>7, <2>1 DEF Each
  <2>3. ns[i].role = h[i].role /\ ns[i].blocks = <<TextBlock(h[i].text)>>
    BY <1>2, <2>1, <2>2
  <2> QED
    BY <1>12, <1>14, <2>1, <2>3
<1>18. SaidIn(ms) = SaidIn(ns)
  BY <1>9, <1>16, <1>17, SaysTheSame
<1> QED
  BY <1>4, <1>6, <1>7, <1>13, <1>18

---------------------------------------------------------------------------
(* An upstream calls tools by the names that its adapter gave it.          *)

FitBlock == {b \in AnswerBlock : b.kind = "tool_use" => PlainOrClaude /\ b.name \in OwnNames}
NamesAreFit == answer.blocks \in Seq(FitBlock)
LEMMA NamesAreFitOn ==
  ASSUME StreamTypeOK, StreamMoves, NamesAreFit, route' = route
  PROVE  NamesAreFit'
<1>1. FitBlock' = FitBlock
  BY DEF FitBlock, PlainOrClaude, OwnNames
<1>2. answer.blocks \in Seq(FitBlock) /\ <<>> \in Seq(FitBlock)
  BY DEF NamesAreFit
<1>3. CASE Stays \/ Closes \/ ClosesCodex
  <2>1. answer' = answer
    BY <1>3 DEF Stays, Closes, ClosesCodex
  <2> QED
    BY <1>1, <1>2, <2>1 DEF NamesAreFit
<1>4. CASE Resets \/ Opens
  <2>1. answer'.blocks = <<>>
    BY <1>4 DEF Resets, Reset, NoAnswer, Opens
  <2> QED
    BY <1>1, <1>2, <2>1 DEF NamesAreFit
<1>5. ASSUME NEW block, Adds(block) PROVE NamesAreFit'
  <2>1. answer'.blocks = Append(answer.blocks, block) /\ block \in FitBlock
    BY <1>5 DEF Adds, FitBlock
  <2>2. Append(answer.blocks, block) \in Seq(FitBlock)
    BY <1>2, <2>1
  <2> QED
    BY <1>1, <2>1, <2>2 DEF NamesAreFit
<1>6. ASSUME NEW front, NEW old, NEW part, Told(front, old, part) PROVE NamesAreFit'
  <2>1. /\ front \in Seq(AnswerBlock) /\ old \in AnswerBlock
        /\ answer.blocks = Append(front, old) /\ answer'.blocks = Append(front, Longer(old, part))
        /\ Longer(old, part) \in AnswerBlock
    BY <1>6 DEF Told, Grows
  <2>2. PICK bs : bs = Append(front, old)
    OBVIOUS
  <2>3. Len(front) \in Nat /\ Len(bs) = Len(front) + 1 /\ bs[Len(front) + 1] = old
        /\ \A i \in 1..Len(front) : bs[i] = front[i]
    BY <2>1, <2>2, AppendIs
  <2>4. \A i \in 1..Len(bs) : bs[i] \in FitBlock
    BY <1>2, <2>1, <2>2
  <2>5. old \in FitBlock /\ \A i \in 1..Len(front) : front[i] \in FitBlock
    BY <2>3, <2>4
  <2>6. front \in Seq(FitBlock)
    BY <2>1, <2>5
  <2>7. Longer(old, part) \in FitBlock
    BY <2>1, <2>5 DEF FitBlock, Longer
  <2>8. Append(front, Longer(old, part)) \in Seq(FitBlock)
    BY <2>6, <2>7
  <2> QED
    BY <1>1, <2>1, <2>8 DEF NamesAreFit
<1> QED
  BY <1>3, <1>4, <1>5, <1>6 DEF StreamMoves

(* The blocks of a kind are there without the thinking, too.               *)
LEMMA SpokenKeeps ==
  ASSUME NEW kind, kind # "thinking"
  PROVE  \A bs \in Seq(AnswerBlock) :
           Ofkind(Spoken(bs), kind) = Ofkind(bs, kind) /\ Spoken(bs) \in Seq(AnswerBlock)
<1>1. PICK X : X = {b \in AnswerBlock : b.kind # "thinking"}
  OBVIOUS
<1>2. ASSUME NEW bs \in Seq(AnswerBlock) PROVE Spoken(bs) = Among(bs, X)
  <2>1. \A i \in DOMAIN bs : bs[i] \in AnswerBlock
    OBVIOUS
  <2>2. {i \in DOMAIN bs : bs[i].kind # "thinking"} = {i \in DOMAIN bs : bs[i] \in X}
    BY <1>1, <2>1
  <2> QED
    BY <2>2 DEF Spoken, Among
<1>3. \A bs \in Seq(AnswerBlock) : Among(bs, X) \in Seq(AnswerBlock)
  BY AmongIs
<1>4. \A bs \in Seq(AnswerBlock), b \in AnswerBlock :
        Among(Append(bs, b), X) = IF b \in X THEN Append(Among(bs, X), b) ELSE Among(bs, X)
  BY AmongMore
<1>5. \A bs \in Seq(AnswerBlock), b \in AnswerBlock :
        Ofkind(Append(bs, b), kind) = IF b.kind = kind THEN Append(Ofkind(bs, kind), b) ELSE Ofkind(bs, kind)
  BY OfkindMore DEF OfkindMoreFor
<1> DEFINE T == {bs \in Seq(AnswerBlock) : Ofkind(Among(bs, X), kind) = Ofkind(bs, kind)}
<1>6. <<>> \in T
  <2>1. Among(<<>>, X) = <<>> /\ <<>> \in Seq(AnswerBlock)
    BY AmongMore
  <2> QED
    BY <2>1
<1>7. ASSUME NEW bs \in Seq(AnswerBlock), NEW b \in AnswerBlock, bs \in T PROVE Append(bs, b) \in T
  <2>1. PICK cs : cs = Among(bs, X)
    OBVIOUS
  <2>2. cs \in Seq(AnswerBlock) /\ Ofkind(cs, kind) = Ofkind(bs, kind)
    BY <1>3, <1>7, <2>1
  <2>3. Among(Append(bs, b), X) = IF b \in X THEN Append(cs, b) ELSE cs
    BY <1>4, <2>1
  <2>4. Ofkind(Append(cs, b), kind) = IF b.kind = kind THEN Append(Ofkind(bs, kind), b) ELSE Ofkind(bs, kind)
    BY <1>5, <2>2
  <2>5. Ofkind(Append(bs, b), kind) = IF b.kind = kind THEN Append(Ofkind(bs, kind), b) ELSE Ofkind(bs, kind)
    BY <1>5
  <2>6. b \notin X => b.kind # kind
    BY <1>1
  <2>7. Ofkind(Among(Append(bs, b), X), kind) = Ofkind(Append(bs, b), kind)
    <3>1. CASE b \in X
      <4>1. Among(Append(bs, b), X) = Append(cs, b)
        BY ONLY <2>3, <3>1
      <4>2. Ofkind(Append(cs, b), kind) = Ofkind(Append(bs, b), kind)
        BY ONLY <2>4, <2>5
      <4> QED
        BY ONLY <4>1, <4>2
    <3>2. CASE b \notin X
      <4>1. Among(Append(bs, b), X) = cs
        BY ONLY <2>3, <3>2
      <4>2. Ofkind(Append(bs, b), kind) = Ofkind(bs, kind)
        BY ONLY <2>5, <2>6, <3>2
      <4> QED
        BY ONLY <2>2, <4>1, <4>2
    <3> QED
      BY <3>1, <3>2
  <2>8. Append(bs, b) \in Seq(AnswerBlock)
    OBVIOUS
  <2> QED
    BY <2>7, <2>8
<1> HIDE DEF T
<1>8. \A bs \in Seq(AnswerBlock) : bs \in T
  BY <1>6, <1>7, EverySequence
<1> QED
  BY <1>2, <1>3, <1>8 DEF T

---------------------------------------------------------------------------
(* An answer as its adapter shows it in the requests that follow.          *)

ShownBy(adapter, m) ==
  CASE adapter = "claude_code" -> Wire(AssistantBlocks(m))
    [] adapter = "anthropic" -> AssistantBlocks(m)
    [] OTHER -> drop_blank_text(<<TextBlock(m.text)>>)
Shown(m) == ShownBy(route.adapter, m)
Opening(text) == IF Blank(text) THEN <<>> ELSE <<TextBlock(text)>>
Finished(b) == [b EXCEPT !.text = Parsed(@)]
LEMMA AsSaidSpoken ==
  ASSUME NEW bs \in Seq(AnswerBlock), NEW uses, uses = Ofkind(bs, "tool_use")
  PROVE  AsSaid(Spoken(bs)) = Opening(Said(bs)) \o [i \in DOMAIN uses |-> Finished(uses[i])]
<1>1. Ofkind(Spoken(bs), "text") = Ofkind(bs, "text") /\ Ofkind(Spoken(bs), "tool_use") = uses
  BY SpokenKeeps
<1>2. PICK sp : sp = Spoken(bs)
  OBVIOUS
<1>3. AsSaid(sp) = Opening(Texts(Ofkind(sp, "text")))
                     \o [i \in DOMAIN Ofkind(sp, "tool_use") |-> Finished(Ofkind(sp, "tool_use")[i])]
  BY DEF AsSaid, Opening, Finished
<1>4. Texts(Ofkind(sp, "text")) = Said(bs)
  BY <1>1, <1>2 DEF Said
<1> QED
  BY <1>1, <1>2, <1>3, <1>4

Solid == {b \in AnswerBlock : ~IsBlankText(b)}
LEMMA DropNone ==
  ASSUME NEW bs \in Seq(Solid)
  PROVE  drop_blank_text(bs) = bs
<1>1. \A b \in Solid : ~IsBlankText(b)
  BY DEF Solid
<1>2. PICK X : X = {b \in Solid : ~IsBlankText(b)}
  OBVIOUS
<1>3. \A i \in DOMAIN bs : bs[i] \in X
  BY <1>1, <1>2
<1>4. Among(bs, X) = bs
  BY <1>3, AmongAllOrNone
<1> QED
  BY <1>2, <1>4, DropIs
LEMMA OpeningSolid ==
  ASSUME NEW text \in Text
  PROVE  Opening(text) \in Seq(Solid) /\ drop_blank_text(<<TextBlock(text)>>) = Opening(text)
<1>1. TextBlock(text) \in AnswerBlock /\ TextBlock(text).kind = "text" /\ TextBlock(text).text = text
  BY Names DEF TextBlock, Block, AnswerBlock
<1>2. CASE ~Blank(text)
  <2>1. TextBlock(text) \in Solid
    BY <1>1, <1>2 DEF Solid, IsBlankText
  <2>2. <<TextBlock(text)>> \in Seq(Solid)
    BY <2>1
  <2>3. Opening(text) = <<TextBlock(text)>>
    BY <1>2 DEF Opening
  <2> QED
    BY <2>2, <2>3, DropNone
<1>3. CASE Blank(text)
  <2>1. PICK X : X = {b \in AnswerBlock : ~IsBlankText(b)}
    OBVIOUS
  <2>2. PICK cs : cs = <<TextBlock(text)>>
    OBVIOUS
  <2>3. cs \in Seq(AnswerBlock) /\ \A i \in DOMAIN cs : cs[i] = TextBlock(text)
    BY <1>1, <2>2
  <2>4. IsBlankText(TextBlock(text))
    BY <1>1, <1>3 DEF IsBlankText
  <2>5. \A i \in DOMAIN cs : cs[i] \notin X
    BY <2>1, <2>3, <2>4
  <2>6. Among(cs, X) = <<>>
    BY <2>3, <2>5, AmongAllOrNone
  <2>7. drop_blank_text(cs) = <<>>
    BY <2>1, <2>3, <2>6, DropIs
  <2>8. Opening(text) = <<>>
    BY <1>3 DEF Opening
  <2> QED
    BY <2>2, <2>7, <2>8
<1> QED
  BY <1>2, <1>3
LEMMA FinishedSolid ==
  ASSUME NEW b \in AnswerBlock, b.kind = "tool_use"
  PROVE  /\ Finished(b) \in Solid
         /\ Finished(b) = Block("tool_use", b.of, b.name, Parsed(b.text))
<1>1. b = [kind |-> b.kind, of |-> b.of, name |-> b.name, text |-> b.text]
      /\ b.of \in Nat /\ b.name \in ToolNames /\ b.text \in Text
  BY DEF AnswerBlock
<1>2. PICK t : t = Parsed(b.text)
  OBVIOUS
<1>3. t \in Text
  BY <1>1, <1>2, Values DEF Parsed
<1>4. Finished(b) = [b EXCEPT !.text = t]
  BY <1>2 DEF Finished
<1>5. [b EXCEPT !.text = t] = [kind |-> b.kind, of |-> b.of, name |-> b.name, text |-> t]
  BY <1>1
<1>6. Finished(b) = Block("tool_use", b.of, b.name, t)
  BY <1>4, <1>5 DEF Block
<1>7. Block("tool_use", b.of, b.name, t) \in AnswerBlock
  BY <1>1, <1>3 DEF Block, AnswerBlock
<1>8. ~IsBlankText(Block("tool_use", b.of, b.name, t))
  BY DEF IsBlankText, Block
<1> QED
  BY <1>2, <1>6, <1>7, <1>8 DEF Solid

LEMMA JoinIs ==
  ASSUME NEW S, NEW s \in Seq(S), NEW t \in Seq(S)
  PROVE  /\ DOMAIN (s \o t) = 1..(Len(s) + Len(t))
         /\ \A i \in 1..Len(s) : (s \o t)[i] = s[i]
         /\ \A i \in 1..Len(t) : (s \o t)[Len(s) + i] = t[i]
OBVIOUS

LEMMA AnswerShown ==
  ASSUME StreamTypeOK, TalkTypeOK, StreamKept, NamesAreFit, phase = "stopped",
         NEW extras \in Extras, NEW m, m = Assistant(collected.text, CallsOf(collected), extras)
  PROVE  m \in Msg /\ m.role = "assistant" /\ Shown(m) = AsSaid(Spoken(answer.blocks))
<1>1. PICK bs, uses, text : bs = answer.blocks /\ uses = Ofkind(bs, "tool_use") /\ text = Said(bs)
  OBVIOUS
<1>2. bs \in Seq(AnswerBlock) /\ bs \in Seq(FitBlock) /\ text \in Text
  BY <1>1, SaidMore DEF StreamTypeOK, NamesAreFit
<1>3. uses \in Seq(FitBlock) /\ \A k \in DOMAIN uses : uses[k] \in FitBlock /\ uses[k].kind = "tool_use"
  <2>1. PICK X : X = {b \in FitBlock : b.kind = "tool_use"}
    OBVIOUS
  <2>2. uses = Among(bs, X)
    BY <1>1, <1>2, <2>1, OfkindIs
  <2>3. Among(bs, X) \in Seq(FitBlock) /\ \A k \in DOMAIN Among(bs, X) : Among(bs, X)[k] \in X
    BY <1>2, AmongIs
  <2> QED
    BY <2>1, <2>2, <2>3
<1>4. \A k \in DOMAIN uses : /\ uses[k] \in AnswerBlock /\ uses[k].kind = "tool_use"
                             /\ PlainOrClaude /\ uses[k].name \in OwnNames
  BY <1>3 DEF FitBlock
<1>5. Len(uses) \in Nat /\ DOMAIN uses = 1..Len(uses)
  BY <1>3
<1>6. CallsOf(collected) = [k \in DOMAIN uses |-> AsCall(uses[k])]
  <2>1. Recorded(collected.tools, uses)
    BY <1>1 DEF StreamKept, CallsAreKept, CallsKept
  <2> QED
    BY <1>5, <2>1, RecordedCalls DEF CallsOf
<1>7. collected.text = text
  <2>1. CASE route.adapter = "codex"
    <3>1. CodexText
      BY <2>1 DEF StreamKept, TextIsKept
    <3>2. collected.text = Texts(bs) /\ AllText(bs)
      BY <1>1, <3>1 DEF CodexText, AllText
    <3> QED
      BY <1>1, <1>2, <3>2, AllTextSaid
  <2>2. CASE route.adapter # "codex"
    BY <1>1, <2>2 DEF StreamKept, TextIsKept
  <2> QED
    BY <2>1, <2>2
<1>8. PICK calls : calls = CallsOf(collected)
  OBVIOUS
<1>9. m = [role |-> "assistant", text |-> text, calls |-> calls, of |-> 0, extras |-> extras]
  BY <1>7, <1>8 DEF Assistant, Message
<1>10. m \in Msg /\ m.role = "assistant" /\ m.text = text /\ m.calls = calls
  <2>1. calls \in Seq(ToolCall)
    BY <1>8, CallsAreTyped DEF StreamTypeOK
  <2> QED
    BY <1>2, <1>9, <2>1 DEF Msg
<1>11. PICK told_uses : told_uses = ToolUses(calls)
  OBVIOUS
<1>12. /\ DOMAIN told_uses = DOMAIN uses
       /\ \A k \in DOMAIN uses : told_uses[k] = Block("tool_use", uses[k].of, restore_tool_name(uses[k].name),
                                                      Parsed(uses[k].text))
  BY <1>6, <1>8, <1>11 DEF ToolUses, AsCall
<1>13. PICK fin, pre : fin = [i \in DOMAIN uses |-> Finished(uses[i])] /\ pre = Opening(text)
  OBVIOUS
<1>14. /\ fin \in Seq(Solid) /\ pre \in Seq(Solid) /\ DOMAIN fin = DOMAIN uses /\ Len(fin) = Len(uses)
       /\ \A k \in DOMAIN uses : fin[k] = Block("tool_use", uses[k].of, uses[k].name, Parsed(uses[k].text))
  <2>1. \A k \in DOMAIN uses : fin[k] = Finished(uses[k])
    BY <1>13
  <2>2. \A k \in DOMAIN uses : Finished(uses[k]) \in Solid
    BY <1>4, FinishedSolid
  <2>3. \A k \in DOMAIN uses : Finished(uses[k]) = Block("tool_use", uses[k].of, uses[k].name, Parsed(uses[k].text))
    BY <1>4, FinishedSolid
  <2>4. pre \in Seq(Solid)
    BY <1>2, <1>13, OpeningSolid
  <2>5. fin \in Seq(Solid)
    BY <1>5, <1>13, <2>1, <2>2
  <2> QED
    BY <1>5, <1>13, <2>1, <2>3, <2>4, <2>5
<1>15. AsSaid(Spoken(bs)) = pre \o fin
  BY <1>1, <1>2, <1>13, AsSaidSpoken
<1>16. AssistantBlocks(m) = pre \o told_uses
  BY <1>10, <1>11, <1>13 DEF AssistantBlocks, Opening
<1>17. CASE route.adapter = "anthropic"
  <2>1. \A k \in DOMAIN uses : restore_tool_name(uses[k].name) = uses[k].name
    BY <1>4, <1>17, Restored DEF OwnNames
  <2>2. told_uses = fin
    <3>1. \A k \in DOMAIN uses : told_uses[k] = fin[k]
      BY <1>12, <1>14, <2>1
    <3>2. told_uses = [k \in DOMAIN uses |-> told_uses[k]] /\ fin = [k \in DOMAIN uses |-> fin[k]]
      BY <1>11, <1>12, <1>13, <1>14 DEF ToolUses
    <3> QED
      BY <3>1, <3>2
  <2>3. Shown(m) = AssistantBlocks(m)
    BY <1>17 DEF Shown, ShownBy
  <2> QED
    BY <1>1, <1>10, <1>15, <1>16, <2>2, <2>3
<1>18. CASE route.adapter = "claude_code"
  <2>1. \A k \in DOMAIN uses : to_cc_name(restore_tool_name(uses[k].name)) = uses[k].name
    BY <1>4, <1>18, Restored DEF OwnNames
  <2>2. ASSUME NEW k \in DOMAIN uses PROVE Remapped(told_uses[k]) = fin[k]
    <3>1. \A of, name, t : /\ Block("tool_use", of, name, t).kind = "tool_use"
                           /\ [Block("tool_use", of, name, t) EXCEPT !.name = to_cc_name(@)]
                                = Block("tool_use", of, to_cc_name(name), t)
      BY DEF Block
    <3> QED
      BY <1>12, <1>14, <2>1, <3>1 DEF Remapped
  <2>3. \A b \in Solid : b.kind = "text" => Remapped(b) = b
    BY DEF Remapped
  <2>4. \A i \in DOMAIN pre : pre[i] \in Solid /\ pre[i].kind = "text"
    <3>1. \A i \in DOMAIN pre : pre[i] = TextBlock(text)
      BY <1>13 DEF Opening
    <3>2. TextBlock(text).kind = "text"
      BY DEF TextBlock, Block
    <3> QED
      BY <1>14, <3>1, <3>2
  <2>5. PICK all : all = pre \o told_uses
    OBVIOUS
  <2>6. PICK p, n : p = Len(pre) /\ n = Len(uses)
    OBVIOUS
  <2>7. p \in Nat /\ n \in Nat /\ DOMAIN pre = 1..p /\ DOMAIN uses = 1..n /\ Len(told_uses) = n
    <3>1. DOMAIN told_uses = 1..Len(uses)
      BY <1>5, <1>12
    <3>2. told_uses \in Seq(Raw)
      BY <1>8, <1>10, <1>11, UsesRaw DEF Msg
    <3> QED
      BY <1>5, <1>14, <2>6, <3>1, <3>2
  <2>8. told_uses \in Seq(Raw)
    BY <1>8, <1>10, <1>11, UsesRaw DEF Msg
  <2>9. /\ DOMAIN all = 1..(p + n)
        /\ \A i \in 1..p : all[i] = pre[i]
        /\ \A i \in 1..n : all[p + i] = told_uses[i]
    <3>1. pre \in Seq(Solid \cup Raw) /\ told_uses \in Seq(Solid \cup Raw)
      BY <1>14, <2>8
    <3>2. /\ DOMAIN (pre \o told_uses) = 1..(Len(pre) + Len(told_uses))
          /\ \A i \in 1..Len(pre) : (pre \o told_uses)[i] = pre[i]
          /\ \A i \in 1..Len(told_uses) : (pre \o told_uses)[Len(pre) + i] = told_uses[i]
      BY ONLY <3>1, JoinIs
    <3> QED
      BY ONLY <2>5, <2>6, <2>7, <3>2
  <2>10. PICK whole : whole = pre \o fin
    OBVIOUS
  <2>11. /\ DOMAIN whole = 1..(p + n)
         /\ \A i \in 1..p : whole[i] = pre[i]
         /\ \A i \in 1..n : whole[p + i] = fin[i]
         /\ whole \in Seq(Solid)
    BY <1>14, <2>6, <2>7, <2>10
  <2>12. ASSUME NEW i \in 1..(p + n) PROVE Remapped(all[i]) = whole[i]
    <3>1. CASE i \in 1..p
      BY <2>3, <2>4, <2>7, <2>9, <2>11, <3>1
    <3>2. CASE i \notin 1..p
      <4>1. PICK k : k = i - p
        OBVIOUS
      <4>2. k \in 1..n /\ i = p + k
        BY <2>7, <3>2, <4>1
      <4> QED
        BY <2>2, <2>7, <2>9, <2>11, <4>2
    <3> QED
      BY <3>1, <3>2
  <2>13. [i \in DOMAIN all |-> Remapped(all[i])] = whole
    <3>1. whole = [i \in 1..(p + n) |-> whole[i]]
      BY <2>11
    <3> QED
      BY <2>9, <2>12, <3>1
  <2>14. drop_blank_text(whole) = whole
    BY <2>11, DropNone
  <2>15. Wire(all) = whole
    BY <2>13, <2>14 DEF Wire
  <2>16. Shown(m) = Wire(AssistantBlocks(m))
    BY <1>18 DEF Shown, ShownBy
  <2> QED
    BY <1>1, <1>10, <1>15, <1>16, <2>5, <2>10, <2>15, <2>16
<1>19. CASE ~PlainOrClaude
  <2>1. DOMAIN uses = {}
    BY <1>4, <1>19
  <2>2. Len(uses) = 0
    BY <1>5, <2>1
  <2>3. fin = <<>>
    BY <1>14, <2>2
  <2>4. EmptyJoin(pre)
    BY <1>14, JoinNone
  <2>5. Shown(m) = drop_blank_text(<<TextBlock(text)>>)
    BY <1>10, <1>19 DEF Shown, ShownBy, PlainOrClaude
  <2>6. drop_blank_text(<<TextBlock(text)>>) = pre
    BY <1>2, <1>13, OpeningSolid
  <2> QED
    BY <1>1, <1>10, <1>15, <2>3, <2>4, <2>5, <2>6 DEF EmptyJoin
<1> QED
  BY <1>17, <1>18, <1>19 DEF PlainOrClaude

---------------------------------------------------------------------------
(* What has been told is what the client's history shows.                  *)

Rests ==
  /\ UNCHANGED <<history, told, thought, sends, sent, route, request, cache_key>>
  /\ phase # "client" /\ phase' # "waiting"
LEMMA TalkMoves ==
  ASSUME Moves
  PROVE  SaySomething \/ Ask \/ Finishes \/ Rests
<1>1. SUFFICES ASSUME ~SaySomething, ~Ask, ~Finishes PROVE Rests
  OBVIOUS
<1>2. phase' # "waiting"
  BY <1>1, OnlyAsksWait
<1>3. CASE Gives \/ FailsNow
  BY <1>2, <1>3 DEF Gives, FailsNow, Fails, Extra, Rests
<1>4. CASE RefusesNow
  BY <1>2, <1>4 DEF RefusesNow, Refuses, Unchanged, Rests
<1>5. CASE StartsStream
  BY <1>2, <1>5 DEF StartsStream, message_start, Created, Unchanged, Extra, Rests
<1>6. CASE StartsBlock \/ StartsTool
  BY <1>2, <1>6 DEF StartsBlock, StartsTool, content_block_start, tool_use_start, Starts, Extra, Rests
<1>7. CASE TellsPart
  BY <1>2, <1>7 DEF TellsPart, Delta, Extra, Rests
<1>8. CASE CodexTellsPart \/ CodexStops
  BY <1>2, <1>8 DEF CodexTellsPart, CodexStops, OutputTextDelta, Completed, Unchanged, Extra, Rests
<1>9. CASE StopsStream
  BY <1>2, <1>9 DEF StopsStream, Stops, Extra, Rests
<1> QED
  BY <1>1, <1>3, <1>4, <1>5, <1>6, <1>7, <1>8, <1>9 DEF Moves

LEMMA FinishTells ==
  ASSUME StreamTypeOK, TalkTypeOK, StreamKept, NamesAreFit, Finishes
  PROVE  \E m \in Msg :
           /\ m.role = "assistant" /\ history' = Append(history, m) /\ m.calls = CallsOf(collected)
           /\ told' = Append(told, Spoken(answer.blocks))
           /\ Shown(m) = AsSaid(Spoken(answer.blocks))
           /\ phase = "stopped" /\ phase' = "client" /\ route' = route
           /\ UNCHANGED <<request, sends, sent, cache_key>>
<1>1. PICK extras \in MayKeep : EndsKeeping(extras)
  BY DEF Finishes
<1>2. PICK m : m = Assistant(collected.text, CallsOf(collected), extras)
  OBVIOUS
<1>3. /\ history' = Append(history, m) /\ told' = Append(told, Spoken(answer.blocks))
      /\ phase = "stopped" /\ phase' = "client" /\ UNCHANGED <<request, sends>>
  BY <1>1, <1>2 DEF EndsKeeping, Reset
<1>4. extras \in Extras
  <2>1. PICK t : t = collected.reasoning
    OBVIOUS
  <2>2. t \in Text
    BY <2>1 DEF StreamTypeOK, Assembled
  <2>3. extras \in {<<>>, [reasoning_content |-> t], [reasoning |-> t]}
    BY <1>1, <2>1 DEF MayKeep
  <2> QED
    BY <2>2, <2>3 DEF Extras
<1>5. m \in Msg /\ m.role = "assistant" /\ Shown(m) = AsSaid(Spoken(answer.blocks))
  BY <1>2, <1>3, <1>4, AnswerShown
<1>6. m.calls = CallsOf(collected)
  BY <1>2 DEF Assistant, Message
<1>7. UNCHANGED <<route, sent, cache_key>>
  BY DEF Finishes
<1> QED
  BY <1>3, <1>5, <1>6, <1>7

HistoryTold ==
  /\ Len(Assistants(history)) = Len(told)
  /\ \A i \in 1..Len(told) : ShownBy(route.adapter, Assistants(history)[i]) = AsSaid(told[i])
LEMMA HistoryToldOn ==
  ASSUME StreamTypeOK, TalkTypeOK, StreamKept, NamesAreFit, Moves, HistoryTold
  PROVE  HistoryTold'
<1>0. history \in Seq(Msg) /\ told \in Seq(Seq(AnswerBlock))
  BY DEF TalkTypeOK
<1>a. route' = route
  BY RouteStays
<1>1. CASE SaySomething
  <2>1. PICK m \in Msg : m.role # "assistant" /\ history' = Append(history, m) /\ told' = told
    BY <1>1 DEF SaySomething, Says, own
  <2>2. AssistantsMoreFor(history, m)
    BY <1>0, AssistantsMore
  <2>3. Assistants(history') = Assistants(history)
    BY <2>1, <2>2 DEF AssistantsMoreFor
  <2> QED
    BY <1>a, <2>1, <2>3 DEF HistoryTold
<1>2. CASE Ask \/ Rests
  <2>1. history' = history /\ told' = told
    BY <1>2 DEF Ask, Sends, Rests
  <2> QED
    BY <1>a, <2>1 DEF HistoryTold
<1>3. CASE Finishes
  <2>1. PICK m \in Msg :
          /\ m.role = "assistant" /\ history' = Append(history, m)
          /\ told' = Append(told, Spoken(answer.blocks))
          /\ Shown(m) = AsSaid(Spoken(answer.blocks))
    BY <1>3, FinishTells
  <2>2. PICK olds, news, t : /\ olds = Assistants(history) /\ news = Assistants(history')
                             /\ t = Spoken(answer.blocks)
    OBVIOUS
  <2>3. olds \in Seq(Msg) /\ AssistantsMoreFor(history, m)
    BY <1>0, <2>2, AssistantsMore
  <2>4. news = Append(olds, m)
    BY <2>1, <2>2, <2>3 DEF AssistantsMoreFor
  <2>5. t \in Seq(AnswerBlock)
    BY <2>2, SpokenKeeps DEF StreamTypeOK
  <2>6. PICK n : n = Len(told)
    OBVIOUS
  <2>7. n \in Nat /\ Len(olds) = n /\ \A i \in 1..n : ShownBy(route.adapter, olds[i]) = AsSaid(told[i])
    BY <1>0, <2>2, <2>6 DEF HistoryTold
  <2>8. /\ Len(Append(olds, m)) = Len(olds) + 1 /\ Append(olds, m)[Len(olds) + 1] = m
        /\ \A i \in 1..Len(olds) : Append(olds, m)[i] = olds[i]
    BY <2>3, AppendIs
  <2>9. /\ Len(Append(told, t)) = n + 1 /\ Append(told, t)[n + 1] = t
        /\ \A i \in 1..n : Append(told, t)[i] = told[i]
    BY <1>0, <2>5, <2>6, AppendIs
  <2>10. PICK tells : tells = told'
    OBVIOUS
  <2>11. /\ Len(news) = n + 1 /\ news[n + 1] = m /\ \A i \in 1..n : news[i] = olds[i]
         /\ Len(tells) = n + 1 /\ tells[n + 1] = t /\ \A i \in 1..n : tells[i] = told[i]
    BY <2>1, <2>2, <2>4, <2>7, <2>8, <2>9, <2>10
  <2>12. ASSUME NEW i \in 1..(n + 1) PROVE ShownBy(route.adapter, news[i]) = AsSaid(tells[i])
    <3>1. CASE i = n + 1
      <4>1. ShownBy(route.adapter, m) = AsSaid(t)
        BY <2>1, <2>2 DEF Shown
      <4> QED
        BY <2>11, <3>1, <4>1
    <3>2. CASE i # n + 1
      <4>1. i \in 1..n
        BY <2>7, <3>2
      <4> QED
        BY <2>7, <2>11, <4>1
    <3> QED
      BY <3>1, <3>2
  <2> QED
    BY <1>a, <2>2, <2>10, <2>11, <2>12 DEF HistoryTold
<1> QED
  BY <1>1, <1>2, <1>3, TalkMoves

(* Developer messages are of OpenAI's protocol.                            *)
ChatOnly == route.adapter # "openai" => history \in Seq(ChatMsg)
LEMMA ChatOnlyOn ==
  ASSUME StreamTypeOK, TalkTypeOK, StreamKept, NamesAreFit, Moves, ChatOnly
  PROVE  ChatOnly'
<1>a. route' = route
  BY RouteStays
<1> SUFFICES ASSUME route.adapter # "openai" PROVE history' \in Seq(ChatMsg)
  BY <1>a DEF ChatOnly
<1>0. history \in Seq(ChatMsg)
  BY DEF ChatOnly
<1>1. CASE SaySomething
  <2>1. PICK m \in Msg : m.role # "developer" /\ history' = Append(history, m)
    BY <1>1 DEF SaySomething, Says
  <2>2. m \in ChatMsg
    BY <2>1 DEF ChatMsg
  <2> QED
    BY <1>0, <2>1, <2>2
<1>2. CASE Ask \/ Rests
  BY <1>0, <1>2 DEF Ask, Sends, Rests
<1>3. CASE Finishes
  <2>1. PICK m \in Msg : m.role = "assistant" /\ history' = Append(history, m)
    BY <1>3, FinishTells
  <2>2. m \in ChatMsg
    BY <2>1 DEF ChatMsg
  <2> QED
    BY <1>0, <2>1, <2>2
<1> QED
  BY <1>1, <1>2, <1>3, TalkMoves

RequestIsBuilt == phase = "waiting" => request = BuildRequest
LEMMA RequestIsBuiltOn ==
  ASSUME Moves, RequestIsBuilt
  PROVE  RequestIsBuilt'
<1>1. CASE Ask
  <2>1. request' = BuildRequest /\ history' = history /\ route' = route
    BY <1>1 DEF Ask, Sends
  <2>2. BuildRequest' = BuildRequest
    BY <2>1 DEF BuildRequest, to_wire_value, Normalized, assistant_extras
  <2> QED
    BY <2>1, <2>2 DEF RequestIsBuilt
<1>2. CASE phase' # "waiting"
  BY <1>2 DEF RequestIsBuilt
<1> QED
  BY <1>1, <1>2, OnlyAsksWait

LEMMA RoundTripFromTold ==
  ASSUME TalkTypeOK, HistoryTold, ChatOnly, RequestIsBuilt
  PROVE  RoundTrip
<1> SUFFICES ASSUME phase = "waiting"
             PROVE  Sayings([i \in DOMAIN told |-> AsSaid(told[i])]) = SaidIn(request.messages)
  BY DEF RoundTrip, SaidIn
<1>0. history \in Seq(Msg) /\ told \in Seq(Seq(AnswerBlock)) /\ route.adapter \in AllAdapters
  BY AdaptersAssumption DEF TalkTypeOK
<1>1. request = BuildRequest
  BY DEF RequestIsBuilt
<1>2. \E F : /\ SaidIn(request.messages) = ShownIn(F, history)
             /\ \A m \in Msg : F[m] = Shown(m)
  <2>1. CASE route.adapter = "claude_code"
    <3>1. PICK F : ClaudeShows(F)
      BY ClaudeShowsSome
    <3>2. request = build_request(history) /\ history \in Seq(ChatMsg)
      BY <1>1, <2>1 DEF BuildRequest, ChatOnly
    <3>3. SaidIn(build_request(history).messages) = ShownIn(F, history)
      BY <3>1, <3>2, ClaudeSays
    <3>4. \A m \in Msg : F[m] = Shown(m)
      BY <2>1, <3>1 DEF ClaudeShows, Shown, ShownBy
    <3> QED
      BY <3>2, <3>3, <3>4
  <2>2. CASE route.adapter = "anthropic"
    <3>1. PICK F : PlainShows(F)
      BY PlainShowsSome
    <3>2. request = build_anthropic_request(history) /\ history \in Seq(ChatMsg)
      BY <1>1, <2>2 DEF BuildRequest, ChatOnly
    <3>3. SaidIn(build_anthropic_request(history).messages) = ShownIn(F, history)
      BY <3>1, <3>2, PlainSays
    <3>4. \A m \in Msg : F[m] = Shown(m)
      BY <2>2, <3>1 DEF PlainShows, Shown, ShownBy
    <3> QED
      BY <3>2, <3>3, <3>4
  <2>3. CASE route.adapter = "codex"
    <3>1. PICK F : TextShows(F)
      BY TextShowsSome
    <3>2. request = CodexRequest(history)
      BY <1>1, <2>3 DEF BuildRequest
    <3>3. SaidIn(CodexRequest(history).messages) = ShownIn(F, history)
      BY <1>0, <3>1, CodexSays
    <3>4. \A m \in Msg : F[m] = Shown(m)
      BY <2>3, <3>1 DEF TextShows, Shown, ShownBy
    <3> QED
      BY <3>2, <3>3, <3>4
  <2>4. CASE route.adapter = "openai"
    <3>1. PICK F : TextShows(F)
      BY TextShowsSome
    <3>2. request.messages = to_wire_value(history)
      BY <1>1, <2>4 DEF BuildRequest, Request
    <3>3. SaidIn(to_wire_value(history)) = ShownIn(F, history)
      BY <1>0, <3>1, WireSays
    <3>4. \A m \in Msg : F[m] = Shown(m)
      BY <2>4, <3>1 DEF TextShows, Shown, ShownBy
    <3> QED
      BY <3>2, <3>3, <3>4
  <2> QED
    BY <1>0, <2>1, <2>2, <2>3, <2>4 DEF AllAdapters
<1>3. PICK F : SaidIn(request.messages) = ShownIn(F, history) /\ \A m \in Msg : F[m] = Shown(m)
  BY <1>2
<1>4. PICK olds : olds = Assistants(history)
  OBVIOUS
<1>5. olds \in Seq(Msg) /\ Len(olds) = Len(told) /\ DOMAIN olds = DOMAIN told
      /\ \A i \in DOMAIN told : olds[i] \in Msg /\ ShownBy(route.adapter, olds[i]) = AsSaid(told[i])
  <2>1. olds \in Seq(Msg) /\ Len(olds) = Len(told)
    BY <1>0, <1>4, AssistantsMore DEF HistoryTold
  <2>2. DOMAIN olds = 1..Len(told) /\ DOMAIN told = 1..Len(told)
    BY <1>0, <2>1
  <2> QED
    BY <1>4, <2>1, <2>2 DEF HistoryTold
<1>6. Each(F, olds) = [i \in DOMAIN told |-> AsSaid(told[i])]
  <2>1. \A i \in DOMAIN told : F[olds[i]] = AsSaid(told[i])
    BY <1>3, <1>5 DEF Shown
  <2> QED
    BY <1>5, <2>1 DEF Each
<1> QED
  BY <1>3, <1>4, <1>6 DEF ShownIn

(* What all that follows rests on.                                         *)
TalkKept == TypesHold /\ StreamKept /\ NamesAreFit /\ ChatOnly /\ RequestIsBuilt
LEMMA TalkKeptBegins == AdaptersInit => TalkKept
<1> SUFFICES ASSUME AdaptersInit PROVE TalkKept
  OBVIOUS
<1>1. TypesHold /\ StreamKept
  BY TypesBegin, StreamKeptBegins DEF TypesHold
<1>2. history = <<>> /\ answer.blocks = <<>> /\ phase = "client"
  BY DEF AdaptersInit, ConversationInit, NoAnswer
<1>3. \A S : <<>> \in Seq(S)
  OBVIOUS
<1> QED
  BY <1>1, <1>2, <1>3 DEF TalkKept, NamesAreFit, ChatOnly, RequestIsBuilt

LEMMA TalkKeptOn ==
  ASSUME TalkKept, [AdaptersNext]_<<conversation, own>>
  PROVE  TalkKept'
<1>1. ASSUME AdaptersNext PROVE TalkKept'
  <2>1. TypesHold /\ StreamTypeOK /\ TalkTypeOK /\ StreamKept /\ NamesAreFit /\ ChatOnly /\ RequestIsBuilt
    BY DEF TalkKept, TypesHold
  <2>2. Moves
    BY <1>1, <2>1, NextMoves
  <2>3. StreamMoves /\ route' = route
    BY <2>1, <2>2, MovesAreStreamMoves, RouteStays
  <2>4. TypesHold' /\ StreamKept'
    BY <2>1, <2>2, TalkTyped, StreamTyped, StreamKeptOn DEF TypesHold
  <2>5. NamesAreFit' /\ ChatOnly' /\ RequestIsBuilt'
    BY <2>1, <2>2, <2>3, NamesAreFitOn, ChatOnlyOn, RequestIsBuiltOn
  <2> QED
    BY <2>4, <2>5 DEF TalkKept
<1>2. ASSUME UNCHANGED <<conversation, own>> PROVE TalkKept'
  <2>1. UNCHANGED <<history, request, phase, answer, told, start_usage, tool_block_indices, next_tool_index,
                    collected, sends, route, sent, thought, deltas, emitted_text, failure>>
    BY <1>2 DEF conversation, own, stream
  <2>2. TypesHold'
    BY <2>1 DEF TalkKept, TypesHold, StreamTypeOK, TalkTypeOK
  <2>3. StreamKept'
    BY <2>1 DEF TalkKept, StreamKept, NothingYet, CallsAreKept, TextIsKept, CodexText, UsageIsKept,
                PlainOrClaude, Output
  <2>4. NamesAreFit' /\ ChatOnly'
    BY <2>1 DEF TalkKept, NamesAreFit, FitBlock, PlainOrClaude, OwnNames, ChatOnly
  <2>5. RequestIsBuilt'
    <3>1. BuildRequest' = BuildRequest
      BY <2>1 DEF BuildRequest, to_wire_value, Normalized, assistant_extras
    <3> QED
      BY <2>1, <3>1 DEF TalkKept, RequestIsBuilt
  <2> QED
    BY <2>2, <2>3, <2>4, <2>5 DEF TalkKept
<1> QED
  BY <1>1, <1>2

(* Whatever the adapter, every request tells the upstream what it has      *)
(* answered as it said it.                                                 *)
THEOREM AnswersAreRetold == AdaptersSpec => []RoundTrip
<1> DEFINE IInvReturn == TalkKept /\ HistoryTold
<1>1. AdaptersInit => IInvReturn
  <2>1. ASSUME AdaptersInit PROVE HistoryTold
    <3>1. history = <<>> /\ told = <<>>
      BY <2>1 DEF AdaptersInit, ConversationInit
    <3>2. Assistants(history) = <<>>
      BY <3>1, AssistantsMore
    <3> QED
      BY <3>1, <3>2 DEF HistoryTold
  <2> QED
    BY <2>1, TalkKeptBegins
<1>2. IInvReturn /\ [AdaptersNext]_<<conversation, own>> => IInvReturn'
  <2>1. ASSUME IInvReturn, AdaptersNext PROVE HistoryTold'
    <3>1. StreamTypeOK /\ TalkTypeOK /\ StreamKept /\ NamesAreFit /\ HistoryTold
      BY <2>1 DEF TalkKept, TypesHold
    <3>2. Moves
      BY <2>1, <3>1, NextMoves
    <3> QED
      BY <3>1, <3>2, HistoryToldOn
  <2>2. ASSUME IInvReturn, UNCHANGED <<conversation, own>> PROVE HistoryTold'
    <3>1. UNCHANGED <<history, told, route>>
      BY <2>2 DEF conversation, own
    <3> QED
      BY <2>2, <3>1 DEF HistoryTold
  <2> QED
    BY <2>1, <2>2, TalkKeptOn
<1>3. IInvReturn => RoundTrip
  BY RoundTripFromTold DEF TalkKept, TypesHold
<1> QED
  BY <1>1, <1>2, <1>3, PTL DEF AdaptersSpec

---------------------------------------------------------------------------
(* What answers the calls of a message.                                    *)

ReplyBlocks(ms, i) == [j \in 1..Cardinality(After(ms, i)) |-> ms[i + j].blocks]
Reply(ms, i) == Ofs(FlattenSeq(ReplyBlocks(ms, i)), "tool_result")
Current(ms, i) == \A k \in (i + 1)..Len(ms) : ms[k].role # "assistant"

LEMMA AfterIs ==
  ASSUME NEW S, NEW ms \in Seq(S), NEW i \in Nat, i <= Len(ms)
  PROVE  /\ After(ms, i) \subseteq (i + 1)..Len(ms)
         /\ IsFiniteSet(After(ms, i))
         /\ Cardinality(After(ms, i)) \in Nat /\ i + Cardinality(After(ms, i)) <= Len(ms)
         /\ Current(ms, i) => /\ After(ms, i) = (i + 1)..Len(ms)
                              /\ Cardinality(After(ms, i)) = Len(ms) - i
<1>1. PICK n : n = Len(ms)
  OBVIOUS
<1>2. n \in Nat /\ DOMAIN ms = 1..n /\ i <= n
  BY <1>1
<1>3. PICK A : A = After(ms, i)
  OBVIOUS
<1>4. A = {j \in 1..n : j > i /\ \A k \in i+1..j : ms[k].role # "assistant"}
  BY <1>2, <1>3 DEF After
<1>5. A \in SUBSET ((i + 1)..n)
  <2>1. \A j \in 1..n : j > i => j \in (i + 1)..n
    BY <1>2
  <2> QED
    BY <1>4, <2>1
<1>6. IsFiniteSet((i + 1)..n) /\ Cardinality((i + 1)..n) = n - i
  <2>1. PICK a : a = i + 1
    OBVIOUS
  <2>2. a \in Int /\ n \in Int
    BY <1>2, <2>1
  <2>3. IsFiniteSet(a..n) /\ Cardinality(a..n) = IF a > n THEN 0 ELSE n - a + 1
    BY <2>2, FS_Interval
  <2>4. (IF a > n THEN 0 ELSE n - a + 1) = n - i
    BY <1>2, <2>1
  <2> QED
    BY <2>1, <2>3, <2>4
<1>7. IsFiniteSet(A) /\ Cardinality(A) <= n - i
  BY <1>5, <1>6, FS_Subset
<1>8. Cardinality(A) \in Nat
  BY <1>7, FS_CardinalityType
<1>9. ASSUME Current(ms, i) PROVE A = (i + 1)..n
  <2>1. \A k \in (i + 1)..n : ms[k].role # "assistant"
    BY <1>1, <1>9 DEF Current
  <2>2. ASSUME NEW j \in (i + 1)..n PROVE j \in A
    <3>1. j \in 1..n /\ j > i /\ \A k \in (i + 1)..j : k \in (i + 1)..n
      BY <1>2
    <3> QED
      BY <1>4, <2>1, <3>1
  <2> QED
    BY <1>5, <2>2
<1> QED
  BY <1>1, <1>2, <1>3, <1>5, <1>6, <1>7, <1>8, <1>9

BlocksIn(S) == \A x \in S : x.blocks \in Seq(Piece)
LEMMA ReplyIs ==
  ASSUME NEW S, BlocksIn(S), NEW ms \in Seq(S), NEW i \in Nat, i <= Len(ms)
  PROVE  /\ ReplyBlocks(ms, i) \in Seq(Seq(Piece)) /\ FlattenSeq(ReplyBlocks(ms, i)) \in Seq(Piece)
         /\ Reply(ms, i) \in Seq(Nat)
<1>1. PICK c : c = Cardinality(After(ms, i))
  OBVIOUS
<1>2. c \in Nat /\ i + c <= Len(ms) /\ Len(ms) \in Nat
  BY <1>1, AfterIs
<1>3. \A j \in 1..c : i + j \in 1..Len(ms)
  BY <1>2
<1>4. \A j \in 1..c : ms[i + j].blocks \in Seq(Piece)
  BY <1>3 DEF BlocksIn
<1>5. PICK ss : ss = ReplyBlocks(ms, i)
  OBVIOUS
<1>6. ss = [j \in 1..c |-> ms[i + j].blocks]
  BY <1>1, <1>5 DEF ReplyBlocks
<1>7. ss \in Seq(Seq(Piece))
  BY <1>2, <1>4, <1>6
<1>8. FlattenSeq(ss) \in Seq(Piece)
  <2>1. <<>> \in Seq(Piece)
    OBVIOUS
  <2> QED
    BY <1>7, <2>1, FlattenMore
<1>9. Ofs(FlattenSeq(ss), "tool_result") \in Seq(Nat)
  BY <1>8, OfsMore
<1> QED
  BY <1>5, <1>7, <1>8, <1>9 DEF Reply

RepliesMoreFor(ms, x, i) ==
  /\ Current(Append(ms, x), i) <=> Current(ms, i) /\ x.role # "assistant"
  /\ Reply(Append(ms, x), i)
       = IF Current(ms, i) /\ x.role # "assistant"
         THEN Reply(ms, i) \o Ofs(x.blocks, "tool_result") ELSE Reply(ms, i)
LEMMA RepliesMore ==
  ASSUME NEW S, BlocksIn(S), NEW ms \in Seq(S), NEW x \in S, NEW i \in Nat, i <= Len(ms)
  PROVE  RepliesMoreFor(ms, x, i)
<1>1. PICK n, ns : n = Len(ms) /\ ns = Append(ms, x)
  OBVIOUS
<1>2. /\ n \in Nat /\ ns \in Seq(S) /\ Len(ns) = n + 1 /\ ns[n + 1] = x /\ i <= n
      /\ DOMAIN ms = 1..n /\ DOMAIN ns = 1..(n + 1)
      /\ \A k \in 1..n : ns[k] = ms[k]
  BY <1>1, AppendIs
<1>3. Current(ns, i) <=> Current(ms, i) /\ x.role # "assistant"
  <2>1. \A k \in (i + 1)..n : k \in 1..n /\ k \in (i + 1)..(n + 1)
    BY <1>2
  <2>2. \A k \in (i + 1)..(n + 1) : k \in (i + 1)..n \/ k = n + 1
    BY <1>2
  <2>3. n + 1 \in (i + 1)..(n + 1)
    BY <1>2
  <2> QED
    BY <1>1, <1>2, <2>1, <2>2, <2>3 DEF Current
<1>4. x.blocks \in Seq(Piece)
  BY DEF BlocksIn
<1>5. PICK ss, ts : ss = ReplyBlocks(ms, i) /\ ts = ReplyBlocks(ns, i)
  OBVIOUS
<1>6. ss \in Seq(Seq(Piece)) /\ FlattenSeq(ss) \in Seq(Piece)
  BY <1>1, <1>2, <1>5, ReplyIs
<1>7. CASE Current(ms, i) /\ x.role # "assistant"
  <2>1. Cardinality(After(ms, i)) = n - i
    BY <1>1, <1>2, <1>7, AfterIs
  <2>2. Cardinality(After(ns, i)) = (n + 1) - i
    <3>1. Current(ns, i) /\ i <= Len(ns)
      BY <1>2, <1>3, <1>7
    <3> QED
      BY <1>2, <3>1, AfterIs
  <2>3. PICK d : d = n - i
    OBVIOUS
  <2>4. d \in Nat /\ (n + 1) - i = d + 1 /\ i + (d + 1) = n + 1
    BY <1>2, <2>3
  <2>5. ss = [j \in 1..d |-> ms[i + j].blocks] /\ ts = [j \in 1..(d + 1) |-> ns[i + j].blocks]
    BY <1>5, <2>1, <2>2, <2>3, <2>4 DEF ReplyBlocks
  <2>6. \A j \in 1..d : ns[i + j] = ms[i + j]
    <3>1. \A j \in 1..d : i + j \in 1..n
      BY <1>2, <2>3
    <3> QED
      BY <1>2, <3>1
  <2>7. ts = Append(ss, x.blocks)
    <3>1. Len(ss) = d /\ Append(ss, x.blocks) \in Seq(Seq(Piece)) /\ Len(Append(ss, x.blocks)) = d + 1
          /\ Append(ss, x.blocks)[d + 1] = x.blocks /\ \A j \in 1..d : Append(ss, x.blocks)[j] = ss[j]
      <4>1. Len(ss) = d
        BY <2>4, <2>5
      <4> QED
        BY <1>4, <1>6, <4>1, AppendIs
    <3>2. \A j \in 1..(d + 1) : ts[j] = Append(ss, x.blocks)[j]
      <4>1. ts[d + 1] = x.blocks
        <5>1. d + 1 \in 1..(d + 1)
          BY <2>4
        <5>2. ts[d + 1] = ns[i + (d + 1)].blocks
          BY <2>5, <5>1
        <5> QED
          BY <1>2, <2>4, <5>2
      <4>2. \A j \in 1..d : ts[j] = ss[j]
        <5>1. \A j \in 1..d : j \in 1..(d + 1)
          BY <2>4
        <5> QED
          BY <2>5, <2>6, <5>1
      <4>3. \A j \in 1..(d + 1) : j \in 1..d \/ j = d + 1
        BY <2>4
      <4> QED
        BY <3>1, <4>1, <4>2, <4>3
    <3>3. DOMAIN ts = 1..(d + 1) /\ ts = [j \in 1..(d + 1) |-> ts[j]]
      BY <2>5
    <3>4. Append(ss, x.blocks) = [j \in 1..(d + 1) |-> Append(ss, x.blocks)[j]]
      BY <3>1
    <3> QED
      BY <3>2, <3>3, <3>4
  <2>8. LongerFlat(ss, x.blocks)
    BY <1>4, <1>6, FlattenMore
  <2>9. FlattenSeq(ts) = FlattenSeq(ss) \o x.blocks
    BY <2>7, <2>8 DEF LongerFlat
  <2>10. PICK fl, bs : fl = FlattenSeq(ss) /\ bs = x.blocks
    OBVIOUS
  <2>11. OfsBothFor(fl, bs, "tool_result")
    BY <1>4, <1>6, <2>10, OfsMore
  <2> QED
    BY <1>1, <1>3, <1>5, <1>7, <2>9, <2>10, <2>11 DEF RepliesMoreFor, Reply, OfsBothFor
<1>8. CASE ~(Current(ms, i) /\ x.role # "assistant")
  <2>1. After(ns, i) = After(ms, i)
    <3>1. After(ms, i) = {j \in 1..n : j > i /\ \A k \in i+1..j : ms[k].role # "assistant"}
      BY <1>2 DEF After
    <3>2. After(ns, i) = {j \in 1..(n + 1) : j > i /\ \A k \in i+1..j : ns[k].role # "assistant"}
      BY <1>2 DEF After
    <3>3. ~\A k \in i+1..(n + 1) : ns[k].role # "assistant"
      BY <1>2, <1>3, <1>8 DEF Current
    <3>4. \A j \in 1..n : \A k \in i+1..j : k \in 1..n
      BY <1>2
    <3>5. \A j \in 1..n : (\A k \in i+1..j : ns[k].role # "assistant") <=> (\A k \in i+1..j : ms[k].role # "assistant")
      BY <1>2, <3>4
    <3>6. \A j \in 1..(n + 1) : j \in 1..n \/ j = n + 1
      BY <1>2
    <3>7. \A j \in 1..n : j \in 1..(n + 1)
      BY <1>2
    <3>8. \A j : j \in After(ms, i) <=> j \in After(ns, i)
      BY <3>1, <3>2, <3>3, <3>5, <3>6, <3>7
    <3> QED
      BY <3>8
  <2>2. PICK c : c = Cardinality(After(ms, i))
    OBVIOUS
  <2>3. c \in Nat /\ i + c <= n
    BY <1>1, <1>2, <2>2, AfterIs
  <2>4. \A j \in 1..c : i + j \in 1..n
    BY <1>2, <2>3
  <2>5. \A j \in 1..c : ns[i + j].blocks = ms[i + j].blocks
    BY <1>2, <2>4
  <2>6. ts = ss
    BY <1>5, <2>1, <2>2, <2>5 DEF ReplyBlocks
  <2> QED
    BY <1>1, <1>3, <1>5, <1>8, <2>6 DEF RepliesMoreFor, Reply
<1> QED
  BY <1>7, <1>8

LEMMA NoReplyYet ==
  ASSUME NEW S, NEW ms \in Seq(S)
  PROVE  Reply(ms, Len(ms)) = <<>> /\ Current(ms, Len(ms))
<1>1. PICK n : n = Len(ms)
  OBVIOUS
<1>2. n \in Nat
  BY <1>1
<1>3. Current(ms, n)
  BY <1>1, <1>2 DEF Current
<1>4. Cardinality(After(ms, n)) = 0
  <2>1. Cardinality(After(ms, n)) = n - n
    BY <1>1, <1>2, <1>3, AfterIs
  <2> QED
    BY <1>2, <2>1
<1>5. ReplyBlocks(ms, n) = <<>>
  BY <1>4 DEF ReplyBlocks
<1>6. Ofs(<<>>, "tool_result") = <<>>
  BY OfsMore
<1> QED
  BY <1>1, <1>3, <1>5, <1>6, FlattenNone DEF Reply

(* The calls of every answer have their results, but for those still open. *)
Answers(ms, i, open) == IF Current(ms, i) THEN Reply(ms, i) \o open ELSE Reply(ms, i)
RepliedTo(ms, open) ==
  \A i \in DOMAIN ms : ms[i].role = "assistant" => Answers(ms, i, open) = Ofs(ms[i].blocks, "tool_use")
KeepsTurn(ms, new, i, given) ==
  /\ i \in DOMAIN ms /\ new[i] = ms[i]
  /\ Current(new, i) <=> Current(ms, i)
  /\ Reply(new, i) = IF Current(ms, i) THEN Reply(ms, i) \o given ELSE Reply(ms, i)

LEMMA TurnsHaveBlocks == BlocksIn(Turn)
BY DEF BlocksIn, Turn

LEMMA UserTurnIs ==
  ASSUME NEW bs \in Seq(Piece)
  PROVE  UserTurn(bs) \in Turn /\ UserTurn(bs).role = "user" /\ UserTurn(bs).blocks = bs
BY DEF UserTurn, Turn

LEMMA TurnAdded ==
  ASSUME NEW ms \in Seq(Turn), NEW bs \in Seq(Piece), NEW i \in DOMAIN ms
  PROVE  KeepsTurn(ms, Append(ms, UserTurn(bs)), i, Ofs(bs, "tool_result"))
<1>1. PICK x : x = UserTurn(bs)
  OBVIOUS
<1>2. x \in Turn /\ x.role = "user" /\ x.blocks = bs
  BY <1>1, UserTurnIs
<1>3. i \in Nat /\ i <= Len(ms) /\ i \in 1..Len(ms)
  OBVIOUS
<1>4. RepliesMoreFor(ms, x, i)
  BY <1>2, <1>3, TurnsHaveBlocks, RepliesMore
<1>5. Append(ms, x)[i] = ms[i]
  BY <1>2, <1>3, AppendIs
<1>6. x.role # "assistant"
  BY <1>2
<1> QED
  BY <1>1, <1>2, <1>4, <1>5, <1>6 DEF KeepsTurn, RepliesMoreFor

LEMMA TurnMerged ==
  ASSUME NEW front \in Seq(Turn), NEW l \in Turn, NEW bs \in Seq(Piece), l.role = "user",
         NEW i \in DOMAIN front
  PROVE  KeepsTurn(Append(front, l), Append(front, UserTurn(l.blocks \o bs)), i, Ofs(bs, "tool_result"))
<1>1. l.blocks \in Seq(Piece) /\ l.blocks \o bs \in Seq(Piece)
  BY DEF Turn
<1>2. PICK x : x = UserTurn(l.blocks \o bs)
  OBVIOUS
<1>3. x \in Turn /\ x.role = "user" /\ x.blocks = l.blocks \o bs
  BY <1>1, <1>2, UserTurnIs
<1>4. i \in Nat /\ i <= Len(front) /\ i \in 1..Len(front)
  OBVIOUS
<1>5. RepliesMoreFor(front, x, i) /\ RepliesMoreFor(front, l, i)
  BY <1>3, <1>4, TurnsHaveBlocks, RepliesMore
<1>6. Append(front, x)[i] = front[i] /\ Append(front, l)[i] = front[i] /\ i \in DOMAIN Append(front, l)
  BY <1>3, <1>4, AppendIs
<1>7. PICK old, given, all, r : /\ old = Ofs(l.blocks, "tool_result") /\ given = Ofs(bs, "tool_result")
                                /\ all = Ofs(x.blocks, "tool_result") /\ r = Reply(front, i)
  OBVIOUS
<1>8. all = old \o given
  <2>1. OfsBothFor(l.blocks, bs, "tool_result")
    BY <1>1, OfsMore
  <2> QED
    BY <1>3, <1>7, <2>1 DEF OfsBothFor
<1>9. old \in Seq(Nat) /\ given \in Seq(Nat) /\ r \in Seq(Nat)
  <2>1. old \in Seq(Nat) /\ given \in Seq(Nat)
    BY <1>1, <1>7, OfsMore
  <2>2. r \in Seq(Nat)
    BY <1>4, <1>7, TurnsHaveBlocks, ReplyIs
  <2> QED
    BY <2>1, <2>2
<1>10. SameJoin(r, old, given)
  BY <1>9, JoinThree
<1>11. l.role # "assistant" /\ x.role # "assistant"
  BY <1>3
<1>12. CASE Current(front, i)
  <2>1. Current(Append(front, l), i) /\ Reply(Append(front, l), i) = r \o old
    BY <1>5, <1>7, <1>11, <1>12 DEF RepliesMoreFor
  <2>2. Current(Append(front, x), i) /\ Reply(Append(front, x), i) = r \o all
    BY <1>5, <1>7, <1>11, <1>12 DEF RepliesMoreFor
  <2> QED
    BY <1>2, <1>6, <1>7, <1>8, <1>10, <2>1, <2>2 DEF KeepsTurn, SameJoin
<1>13. CASE ~Current(front, i)
  <2>1. ~Current(Append(front, l), i) /\ Reply(Append(front, l), i) = r
    BY <1>5, <1>7, <1>11, <1>13 DEF RepliesMoreFor
  <2>2. ~Current(Append(front, x), i) /\ Reply(Append(front, x), i) = r
    BY <1>5, <1>7, <1>11, <1>13 DEF RepliesMoreFor
  <2> QED
    BY <1>2, <1>6, <2>1, <2>2 DEF KeepsTurn
<1> QED
  BY <1>12, <1>13

LEMMA UserKeepsTurns ==
  ASSUME NEW ms \in Seq(Turn), NEW new, NEW bs \in Seq(Piece), UserGrows(ms, new, bs),
         NEW i \in DOMAIN new, new[i].role = "assistant"
  PROVE  KeepsTurn(ms, new, i, Ofs(bs, "tool_result"))
<1>1. CASE bs = <<>> /\ new = ms
  <2>1. Ofs(<<>>, "tool_result") = <<>>
    BY OfsMore
  <2>2. i \in Nat /\ i <= Len(ms) /\ i \in DOMAIN ms
    BY <1>1
  <2>3. Reply(ms, i) \in Seq(Nat)
    BY <2>2, TurnsHaveBlocks, ReplyIs
  <2>4. EmptyJoin(Reply(ms, i))
    BY <2>3, JoinNone
  <2> QED
    BY <1>1, <2>1, <2>2, <2>4 DEF KeepsTurn, EmptyJoin
<1>2. CASE Added(ms, new, bs)
  <2>1. PICK x : x = UserTurn(bs)
    OBVIOUS
  <2>2. x \in Turn /\ x.role = "user" /\ new = Append(ms, x)
    BY <1>2, <2>1, UserTurnIs DEF Added
  <2>3. /\ new \in Seq(Turn) /\ Len(new) = Len(ms) + 1 /\ Len(ms) \in Nat /\ new[Len(ms) + 1] = x
    BY <2>2, AppendIs
  <2>4. i # Len(ms) + 1
    BY <2>2, <2>3
  <2>5. i \in DOMAIN ms
    BY <2>3, <2>4
  <2> QED
    BY <1>2, <2>5, TurnAdded DEF Added
<1>3. CASE Merges(Turn, ms, new, bs)
  <2>1. PICK front \in Seq(Turn), l \in Turn :
          ms = Append(front, l) /\ l.role = "user" /\ new = Append(front, UserTurn(l.blocks \o bs))
    BY <1>3 DEF Merges
  <2>2. l.blocks \o bs \in Seq(Piece)
    BY <2>1 DEF Turn
  <2>3. PICK x : x = UserTurn(l.blocks \o bs)
    OBVIOUS
  <2>4. x \in Turn /\ x.role = "user" /\ new = Append(front, x)
    BY <2>1, <2>2, <2>3, UserTurnIs
  <2>5. /\ new \in Seq(Turn) /\ Len(new) = Len(front) + 1 /\ Len(front) \in Nat /\ new[Len(front) + 1] = x
    BY <2>4, AppendIs
  <2>6. i # Len(front) + 1
    BY <2>4, <2>5
  <2>7. i \in DOMAIN front
    BY <2>5, <2>6
  <2> QED
    BY <2>1, <2>7, TurnMerged
<1> QED
  BY <1>1, <1>2, <1>3 DEF UserGrows

(* Some of the open calls get their results in a message of the user.      *)
LEMMA AnsweredByUser ==
  ASSUME NEW ms \in Seq(Turn), NEW new, NEW bs \in Seq(Piece), UserGrows(ms, new, bs),
         NEW ids \in Seq(Nat), RepliedTo(ms, Ofs(bs, "tool_result") \o ids)
  PROVE  RepliedTo(new, ids)
<1> SUFFICES ASSUME NEW i \in DOMAIN new, new[i].role = "assistant"
             PROVE  Answers(new, i, ids) = Ofs(new[i].blocks, "tool_use")
  BY DEF RepliedTo
<1>1. PICK given : given = Ofs(bs, "tool_result")
  OBVIOUS
<1>2. KeepsTurn(ms, new, i, given)
  BY <1>1, UserKeepsTurns
<1>3. i \in DOMAIN ms /\ new[i] = ms[i]
  BY <1>2 DEF KeepsTurn
<1>4. Answers(ms, i, given \o ids) = Ofs(ms[i].blocks, "tool_use")
  BY <1>1, <1>3 DEF RepliedTo
<1>5. SameJoin(Reply(ms, i), given, ids)
  <2>1. i \in Nat /\ i <= Len(ms)
    BY <1>3
  <2>2. Reply(ms, i) \in Seq(Nat)
    BY <2>1, TurnsHaveBlocks, ReplyIs
  <2>3. given \in Seq(Nat)
    BY <1>1, OfsMore
  <2> QED
    BY <2>2, <2>3, JoinThree
<1>6. Answers(new, i, ids) = Answers(ms, i, given \o ids)
  <2>1. CASE Current(ms, i)
    BY <1>2, <1>5, <2>1 DEF Answers, KeepsTurn, SameJoin
  <2>2. CASE ~Current(ms, i)
    BY <1>2, <2>2 DEF Answers, KeepsTurn
  <2> QED
    BY <2>1, <2>2
<1> QED
  BY <1>3, <1>4, <1>6

(* The next answer comes when none is open.                                *)
LEMMA AnsweredByAnswer ==
  ASSUME NEW ms \in Seq(Turn), NEW bs \in Seq(Piece), RepliedTo(ms, <<>>)
  PROVE  RepliedTo(Append(ms, AssistantTurn(bs)), Ofs(bs, "tool_use"))
<1>1. PICK x, new : x = AssistantTurn(bs) /\ new = Append(ms, x)
  OBVIOUS
<1>2. x \in Turn /\ x.role = "assistant" /\ x.blocks = bs
  BY <1>1 DEF AssistantTurn, Turn
<1>3. /\ new \in Seq(Turn) /\ Len(new) = Len(ms) + 1 /\ Len(ms) \in Nat
      /\ new[Len(ms) + 1] = x /\ \A i \in 1..Len(ms) : new[i] = ms[i]
  BY <1>1, <1>2, AppendIs
<1>4. Ofs(bs, "tool_use") \in Seq(Nat)
  BY OfsMore
<1>5. ASSUME NEW i \in DOMAIN new, new[i].role = "assistant"
      PROVE  Answers(new, i, Ofs(bs, "tool_use")) = Ofs(new[i].blocks, "tool_use")
  <2>1. CASE i = Len(new)
    <3>1. Reply(new, i) = <<>> /\ Current(new, i)
      BY <1>3, <2>1, NoReplyYet
    <3>2. EmptyJoin(Ofs(bs, "tool_use"))
      BY <1>4, JoinNone
    <3>3. new[i].blocks = bs
      BY <1>2, <1>3, <2>1
    <3> QED
      BY <3>1, <3>2, <3>3 DEF Answers, EmptyJoin
  <2>2. CASE i # Len(new)
    <3>1. i \in 1..Len(ms) /\ i \in Nat /\ i <= Len(ms) /\ i \in DOMAIN ms
      BY <1>3, <2>2
    <3>2. RepliesMoreFor(ms, x, i)
      BY <1>2, <3>1, TurnsHaveBlocks, RepliesMore
    <3>3. ~Current(new, i) /\ Reply(new, i) = Reply(ms, i)
      BY <1>1, <1>2, <3>2 DEF RepliesMoreFor
    <3>4. Reply(ms, i) \in Seq(Nat)
      BY <3>1, TurnsHaveBlocks, ReplyIs
    <3>5. EmptyJoin(Reply(ms, i))
      BY <3>4, JoinNone
    <3>6. Answers(ms, i, <<>>) = Reply(ms, i)
      BY <3>5 DEF Answers, EmptyJoin
    <3>7. new[i] = ms[i]
      BY <1>3, <3>1
    <3>8. Answers(ms, i, <<>>) = Ofs(ms[i].blocks, "tool_use")
      BY <1>5, <3>1, <3>7 DEF RepliedTo
    <3> QED
      BY <3>3, <3>6, <3>7, <3>8 DEF Answers
  <2> QED
    BY <2>1, <2>2
<1> QED
  BY <1>1, <1>5 DEF RepliedTo

(* What a message of the client leaves open.                               *)
Leaves(open, m, next) ==
  \/ m.role \in {"system", "developer", "user"} /\ next = open
  \/ m.role = "tool" /\ open = <<m.of>> \o next
  \/ m.role = "assistant" /\ open = <<>> /\ next = Ids(m.calls)
LEMMA AnsweredOn ==
  ASSUME NEW ms \in Seq(Turn), NEW new, NEW m, NEW shown, TurnsGrow(ms, new, m, shown),
         NEW open \in Seq(Nat), NEW next \in Seq(Nat), Leaves(open, m, next), RepliedTo(ms, open)
  PROVE  RepliedTo(new, next)
<1>1. CASE m.role \in {"system", "developer"} /\ new = ms
  BY <1>1 DEF Leaves
<1>2. CASE m.role = "user" /\ TellsUser(ms, new)
  <2>1. PICK bs \in Seq(Piece) : NoIds(bs) /\ UserGrows(ms, new, bs)
    BY <1>2 DEF TellsUser
  <2>2. Ofs(bs, "tool_result") \o next = open
    <3>1. Ofs(bs, "tool_result") = <<>> /\ next = open
      BY <1>2, <2>1 DEF NoIds, Leaves
    <3>2. EmptyJoin(next)
      BY JoinNone
    <3> QED
      BY <3>1, <3>2 DEF EmptyJoin
  <2> QED
    BY <2>1, <2>2, AnsweredByUser
<1>3. CASE m.role = "tool" /\ TellsResult(ms, new, m.of)
  <2>1. PICK bs \in Seq(Piece) : Ofs(bs, "tool_result") = <<m.of>> /\ UserGrows(ms, new, bs)
    BY <1>3 DEF TellsResult
  <2>2. Ofs(bs, "tool_result") \o next = open
    BY <1>3, <2>1 DEF Leaves
  <2> QED
    BY <2>1, <2>2, AnsweredByUser
<1>4. CASE m.role = "assistant" /\ TellsAnswer(ms, new, m, shown)
  <2>1. PICK bs \in Seq(Piece) : /\ Ofs(bs, "tool_use") = Ids(m.calls)
                                 /\ (bs = <<>> /\ new = ms) \/ new = Append(ms, AssistantTurn(bs))
    BY <1>4 DEF TellsAnswer
  <2>2. open = <<>> /\ next = Ids(m.calls)
    BY <1>4 DEF Leaves
  <2>3. CASE bs = <<>> /\ new = ms
    <3>1. Ofs(<<>>, "tool_use") = <<>>
      BY OfsMore
    <3> QED
      BY <2>1, <2>2, <2>3, <3>1
  <2>4. CASE new = Append(ms, AssistantTurn(bs))
    BY <2>1, <2>2, <2>4, AnsweredByAnswer
  <2> QED
    BY <2>1, <2>3, <2>4
<1> QED
  BY <1>1, <1>2, <1>3, <1>4 DEF TurnsGrow

(* And the reminders that a request ends with answer nothing.              *)
LEMMA AnsweredAtLast ==
  ASSUME NEW ms \in Seq(Turn), NEW new, TellsUser(ms, new), RepliedTo(ms, <<>>)
  PROVE  RepliedTo(new, <<>>)
<1>1. PICK bs \in Seq(Piece) : NoIds(bs) /\ UserGrows(ms, new, bs)
  BY DEF TellsUser
<1>2. Ofs(bs, "tool_result") \o <<>> = <<>>
  BY <1>1 DEF NoIds
<1>3. <<>> \in Seq(Nat)
  OBVIOUS
<1> QED
  BY <1>1, <1>2, <1>3, AnsweredByUser

LEMMA AllAnswered ==
  ASSUME NEW ms \in Seq(Turn), RepliedTo(ms, <<>>)
  PROVE  \A i \in DOMAIN ms : ms[i].role = "assistant" => Reply(ms, i) = Ofs(ms[i].blocks, "tool_use")
<1> SUFFICES ASSUME NEW i \in DOMAIN ms, ms[i].role = "assistant"
             PROVE  Reply(ms, i) = Ofs(ms[i].blocks, "tool_use")
  OBVIOUS
<1>1. Answers(ms, i, <<>>) = Ofs(ms[i].blocks, "tool_use")
  BY DEF RepliedTo
<1>2. Reply(ms, i) \in Seq(Nat)
  <2>1. i \in Nat /\ i <= Len(ms)
    OBVIOUS
  <2> QED
    BY <2>1, TurnsHaveBlocks, ReplyIs
<1>3. EmptyJoin(Reply(ms, i))
  BY <1>2, JoinNone
<1> QED
  BY <1>1, <1>3 DEF Answers, EmptyJoin

(* The calls that a message of the client leaves open.                     *)
LEMMA AnswerOpens ==
  ASSUME NEW h \in Seq(Msg), NEW m \in Msg, m.role = "assistant"
  PROVE  OpenIn(Append(h, m)) = m.calls
<1>1. PICK g, n, t, calls : g = Append(h, m) /\ n = Len(h) /\ t = LastTurnIn(g) /\ calls = m.calls
  OBVIOUS
<1>2. n \in Nat /\ g \in Seq(Msg) /\ Len(g) = n + 1 /\ g[n + 1] = m /\ DOMAIN g = 1..(n + 1)
  BY <1>1, AppendIs
<1>3. t = n + 1
  <2>1. t \in 0..(n + 1) /\ \A i \in 1..(n + 1) : g[i].role = "assistant" => i <= t
    BY <1>1, <1>2, OpenInIs
  <2>2. n + 1 \in 1..(n + 1)
    BY <1>2
  <2> QED
    BY <1>2, <2>1, <2>2
<1>4. GivenIn(g) = {}
  <2>1. \A i \in DOMAIN g : ~(i > t)
    BY <1>2, <1>3
  <2> QED
    BY <1>1, <2>1 DEF GivenIn
<1>5. Cardinality(GivenIn(g)) + 1 = 1
  BY <1>4, FS_EmptySet
<1>6. calls \in Seq(ToolCall)
  BY <1>1 DEF Msg
<1>7. SubSeq(calls, 1, Len(calls)) = calls
  BY <1>6
<1>8. t # 0
  BY <1>2, <1>3
<1> QED
  BY <1>1, <1>2, <1>3, <1>5, <1>7, <1>8 DEF OpenIn

LEMMA SameTurn ==
  ASSUME NEW h \in Seq(Msg), NEW m \in Msg, m.role # "assistant"
  PROVE  /\ LastTurnIn(Append(h, m)) = LastTurnIn(h) /\ LastTurnIn(h) \in 0..Len(h)
         /\ LastTurnIn(h) # 0 => Append(h, m)[LastTurnIn(h)] = h[LastTurnIn(h)]
<1>1. PICK g, n, t, u : g = Append(h, m) /\ n = Len(h) /\ t = LastTurnIn(h) /\ u = LastTurnIn(g)
  OBVIOUS
<1>2. /\ n \in Nat /\ g \in Seq(Msg) /\ Len(g) = n + 1 /\ g[n + 1] = m
      /\ \A i \in 1..n : g[i] = h[i]
  BY <1>1, AppendIs
<1>3. /\ t \in 0..n /\ (t # 0 => h[t].role = "assistant")
      /\ \A i \in 1..n : h[i].role = "assistant" => i <= t
  BY <1>1, OpenInIs
<1>4. /\ u \in 0..(n + 1) /\ (u # 0 => g[u].role = "assistant")
      /\ \A i \in 1..(n + 1) : g[i].role = "assistant" => i <= u
  BY <1>1, <1>2, OpenInIs
<1>5. u \in 0..n
  <2>1. u # n + 1
    BY <1>2, <1>4
  <2> QED
    BY <1>2, <1>4, <2>1
<1>6. u <= t
  <2>1. u \in 1..n => h[u].role = "assistant"
    BY <1>2, <1>4
  <2> QED
    BY <1>2, <1>3, <1>5, <2>1
<1>7. t <= u
  <2>1. t \in 1..n => g[t].role = "assistant" /\ t \in 1..(n + 1)
    BY <1>2, <1>3
  <2> QED
    BY <1>2, <1>3, <1>4, <2>1
<1>8. t # 0 => g[t] = h[t]
  BY <1>2, <1>3
<1> QED
  BY <1>1, <1>2, <1>3, <1>5, <1>6, <1>7, <1>8

LEMMA AsideKeepsOpen ==
  ASSUME NEW h \in Seq(Msg), NEW m \in Msg, m.role \notin {"assistant", "tool"}
  PROVE  OpenIn(Append(h, m)) = OpenIn(h)
<1>1. PICK g, n, t : g = Append(h, m) /\ n = Len(h) /\ t = LastTurnIn(h)
  OBVIOUS
<1>2. LastTurnIn(g) = t /\ t \in 0..n /\ (t # 0 => g[t] = h[t])
  BY <1>1, SameTurn
<1>3. /\ n \in Nat /\ DOMAIN g = 1..(n + 1) /\ DOMAIN h = 1..n /\ g[n + 1] = m
      /\ \A i \in 1..n : g[i] = h[i]
  BY <1>1, AppendIs
<1>4. GivenIn(g) = GivenIn(h)
  <2>1. \A i \in 1..(n + 1) : i \in 1..n \/ i = n + 1
    BY <1>3
  <2>2. \A i \in 1..n : i \in 1..(n + 1)
    BY <1>3
  <2>3. \A i : i \in GivenIn(g) <=> i \in GivenIn(h)
    BY <1>1, <1>2, <1>3, <2>1, <2>2 DEF GivenIn
  <2> QED
    BY <2>3
<1> QED
  BY <1>1, <1>2, <1>4 DEF OpenIn

LEMMA ResultCloses ==
  ASSUME NEW h \in Seq(Msg), NEW m \in Msg, m.role = "tool", OpenIn(h) # <<>>
  PROVE  OpenIn(Append(h, m)) = Tail(OpenIn(h))
<1>1. PICK g, n, t : g = Append(h, m) /\ n = Len(h) /\ t = LastTurnIn(h)
  OBVIOUS
<1>2. LastTurnIn(g) = t /\ t \in 0..n /\ (t # 0 => g[t] = h[t])
  BY <1>1, SameTurn
<1>3. /\ n \in Nat /\ DOMAIN g = 1..(n + 1) /\ DOMAIN h = 1..n /\ g[n + 1] = m
      /\ \A i \in 1..n : g[i] = h[i]
  BY <1>1, AppendIs
<1>4. GivenIn(g) = GivenIn(h) \cup {n + 1}
  <2>1. \A i \in 1..(n + 1) : i \in 1..n \/ i = n + 1
    BY <1>3
  <2>2. \A i \in 1..n : i \in 1..(n + 1)
    BY <1>3
  <2>3. n + 1 > t /\ n + 1 \in 1..(n + 1)
    BY <1>2, <1>3
  <2>4. \A i : i \in GivenIn(g) <=> i \in GivenIn(h) \/ i = n + 1
    BY <1>1, <1>2, <1>3, <2>1, <2>2, <2>3 DEF GivenIn
  <2> QED
    BY <2>4
<1>5. PICK c : c = Cardinality(GivenIn(h))
  OBVIOUS
<1>6. c \in Nat /\ Cardinality(GivenIn(g)) = c + 1
  <2>1. GivenIn(h) \in SUBSET (1..n)
    BY <1>3 DEF GivenIn
  <2>2. IsFiniteSet(1..n)
    <3>1. 1 \in Int /\ n \in Int
      BY <1>3
    <3> QED
      BY <3>1, FS_Interval
  <2>3. IsFiniteSet(GivenIn(h))
    BY <2>1, <2>2, FS_Subset
  <2>4. n + 1 \notin GivenIn(h)
    BY <1>3, <2>1
  <2> QED
    BY <1>4, <1>5, <2>3, <2>4, FS_AddElement, FS_CardinalityType
<1>7. t # 0
  BY <1>1 DEF OpenIn
<1>8. PICK calls : calls = h[t].calls
  OBVIOUS
<1>9. calls \in Seq(ToolCall)
  <2>1. h[t] \in Msg
    BY <1>2, <1>3, <1>7
  <2> QED
    BY <1>8, <2>1 DEF Msg
<1>10. OpenIn(h) = SubSeq(calls, c + 1, Len(calls))
  BY <1>1, <1>5, <1>7, <1>8 DEF OpenIn
<1>11. OpenIn(g) = SubSeq(calls, (c + 1) + 1, Len(calls))
  BY <1>2, <1>6, <1>7, <1>8 DEF OpenIn
<1>12. SubSeq(calls, (c + 1) + 1, Len(calls)) = Tail(SubSeq(calls, c + 1, Len(calls)))
  <2>1. PICK len, s, r : len = Len(calls) /\ s = SubSeq(calls, c + 1, len) /\ r = SubSeq(calls, (c + 1) + 1, len)
    OBVIOUS
  <2>2. len \in Nat /\ DOMAIN calls = 1..len
    BY <1>9, <2>1
  <2>3. c + 1 <= len
    <3>1. SUFFICES ASSUME ~(c + 1 <= len) PROVE FALSE
      OBVIOUS
    <3>2. s = <<>>
      BY <1>6, <1>9, <2>1, <2>2, <3>1
    <3> QED
      BY <1>10, <2>1, <3>2
  <2>4. s \in Seq(ToolCall) /\ Len(s) = len - c /\ \A i \in 1..(len - c) : s[i] = calls[c + i]
    BY <1>6, <1>9, <2>1, <2>2, <2>3
  <2>5. r \in Seq(ToolCall) /\ Len(r) = len - c - 1 /\ \A i \in 1..(len - c - 1) : r[i] = calls[c + 1 + i]
    BY <1>6, <1>9, <2>1, <2>2, <2>3
  <2>6. Tail(s) \in Seq(ToolCall) /\ Len(Tail(s)) = len - c - 1 /\ \A i \in 1..(len - c - 1) : Tail(s)[i] = s[i + 1]
    BY <1>6, <2>2, <2>3, <2>4
  <2>7. \A i \in 1..(len - c - 1) : i + 1 \in 1..(len - c) /\ c + (i + 1) = c + 1 + i
    BY <1>6, <2>2
  <2>8. \A i \in 1..(len - c - 1) : Tail(s)[i] = r[i]
    BY <2>4, <2>5, <2>6, <2>7
  <2>9. Tail(s) = r
    BY ONLY <2>5, <2>6, <2>8
  <2> QED
    BY <2>1, <2>9
<1> QED
  BY <1>1, <1>10, <1>11, <1>12

LEMMA IdsTyped == ASSUME NEW s \in Seq(ToolCall) PROVE Ids(s) \in Seq(Nat)
<1>1. \A i \in DOMAIN s : s[i].id \in Nat
  <2>1. \A i \in DOMAIN s : s[i] \in ToolCall
    OBVIOUS
  <2> QED
    BY <2>1 DEF ToolCall
<1>2. DOMAIN s = 1..Len(s) /\ Len(s) \in Nat
  OBVIOUS
<1> QED
  BY <1>1, <1>2 DEF Ids

LEMMA IdsTail ==
  ASSUME NEW s \in Seq(ToolCall), s # <<>>
  PROVE  Ids(s) = <<Head(s).id>> \o Ids(Tail(s))
<1>1. PICK n : n = Len(s)
  OBVIOUS
<1>2. n \in Nat /\ n >= 1 /\ DOMAIN s = 1..n /\ Head(s) = s[1]
  BY <1>1
<1>3. PICK t, a, b : t = Tail(s) /\ a = Ids(s) /\ b = Ids(t)
  OBVIOUS
<1>4. t \in Seq(ToolCall) /\ Len(t) = n - 1 /\ DOMAIN t = 1..(n - 1) /\ \A i \in 1..(n - 1) : t[i] = s[i + 1]
  BY <1>1, <1>2, <1>3
<1>5. a = [i \in 1..n |-> s[i].id] /\ a \in Seq(Nat)
  BY <1>2, <1>3, IdsTyped DEF Ids
<1>6. b = [i \in 1..(n - 1) |-> t[i].id] /\ b \in Seq(Nat)
  BY <1>3, <1>4, IdsTyped DEF Ids
<1>7. PICK one : one = <<Head(s).id>>
  OBVIOUS
<1>8. one \in Seq(Nat) /\ Len(one) = 1 /\ one[1] = s[1].id
  <2>1. s[1] \in ToolCall
    BY <1>2
  <2>2. s[1].id \in Nat
    BY <2>1 DEF ToolCall
  <2> QED
    BY <1>2, <1>7, <2>2
<1>9. Len(b) = n - 1
  BY <1>2, <1>6
<1>10. DOMAIN (one \o b) = 1..n /\ (one \o b)[1] = s[1].id /\ \A j \in 1..(n - 1) : (one \o b)[1 + j] = b[j]
  <2>a. \A u \in Seq(Nat), v \in Seq(Nat) :
          /\ DOMAIN (u \o v) = 1..(Len(u) + Len(v))
          /\ \A i \in 1..Len(u) : (u \o v)[i] = u[i]
          /\ \A i \in 1..Len(v) : (u \o v)[Len(u) + i] = v[i]
    BY JoinIs
  <2>1. /\ DOMAIN (one \o b) = 1..(Len(one) + Len(b))
        /\ \A i \in 1..Len(one) : (one \o b)[i] = one[i]
        /\ \A i \in 1..Len(b) : (one \o b)[Len(one) + i] = b[i]
    BY ONLY <1>6, <1>8, <2>a
  <2>2. 1 + (n - 1) = n /\ 1 \in 1..1
    BY <1>2
  <2>3. DOMAIN (one \o b) = 1..(1 + (n - 1))
    BY <1>8, <1>9, <2>1
  <2>4. (one \o b)[1] = one[1]
    BY <1>8, <2>1, <2>2
  <2>5. \A j \in 1..(n - 1) : (one \o b)[1 + j] = b[j]
    BY <1>8, <1>9, <2>1
  <2> QED
    BY <1>8, <2>2, <2>3, <2>4, <2>5
<1>11. \A i \in 1..n : (one \o b)[i] = s[i].id
  <2> SUFFICES ASSUME NEW i \in 1..n, i # 1 PROVE (one \o b)[i] = s[i].id
    BY <1>10
  <2>1. PICK j : j = i - 1
    OBVIOUS
  <2>2. j \in 1..(n - 1) /\ 1 + j = i /\ j + 1 = i
    BY <1>2, <2>1
  <2>3. (one \o b)[i] = b[j] /\ b[j] = t[j].id /\ t[j] = s[i]
    BY <1>4, <1>6, <1>10, <2>2
  <2> QED
    BY <2>3
<1>12. one \o b = [i \in 1..n |-> (one \o b)[i]]
  <2>1. one \o b \in Seq(Nat)
    BY <1>6, <1>8
  <2>2. PICK u : u = one \o b
    OBVIOUS
  <2>3. u \in Seq(Nat) /\ DOMAIN u = 1..n
    BY <1>10, <2>1, <2>2
  <2>4. u = [i \in 1..n |-> u[i]]
    BY ONLY <2>3
  <2> QED
    BY <2>2, <2>4
<1>13. a = one \o b
  BY ONLY <1>5, <1>11, <1>12
<1> QED
  BY <1>3, <1>7, <1>13

(* What is open of a history, and the calls of its requests.               *)
OpenIds(h) == Ids(OpenIn(h))
LEMMA OpenIdsTyped == ASSUME NEW h \in Seq(Msg) PROVE OpenIds(h) \in Seq(Nat)
BY OpenInIs, IdsTyped DEF OpenIds

LEMMA SayingLeaves ==
  ASSUME TalkTypeOK, SaySomething
  PROVE  \E m \in Msg : /\ history' = Append(history, m) /\ m.role # "assistant"
                        /\ m.role = "developer" => route.adapter = "openai"
                        /\ m.role = "user" => OpenIds(history) = <<>>
                        /\ Leaves(OpenIds(history), m, OpenIds(history'))
                        /\ phase = "client" /\ UNCHANGED <<phase, route>>
<1>1. PICK m \in Msg :
        /\ m.role # "assistant"
        /\ m.role = "developer" => route.adapter = "openai"
        /\ \/ m.role = "tool" /\ Open # <<>> /\ m.of = Head(Open).id
           \/ m.role = "user" /\ Open = <<>>
           \/ m.role \in {"system", "developer"}
        /\ Says(m) /\ UNCHANGED own
  BY DEF SaySomething
<1>2. history' = Append(history, m) /\ phase = "client" /\ UNCHANGED <<phase, route>>
  BY <1>1 DEF Says, own
<1>3. history \in Seq(Msg)
  BY DEF TalkTypeOK
<1>4. Open = OpenIn(history) /\ Open \in Seq(ToolCall)
  BY OpenIs
<1>5. CASE m.role = "tool" /\ Open # <<>> /\ m.of = Head(Open).id
  <2>1. OpenIn(history') = Tail(Open)
    BY <1>2, <1>3, <1>4, <1>5, ResultCloses
  <2>2. Ids(Open) = <<m.of>> \o Ids(Tail(Open))
    BY <1>4, <1>5, IdsTail
  <2>3. Leaves(OpenIds(history), m, OpenIds(history'))
    BY <1>4, <1>5, <2>1, <2>2 DEF Leaves, OpenIds
  <2> QED
    BY <1>1, <1>2, <1>5, <2>3
<1>6. CASE m.role \in {"user", "system", "developer"}
  <2>1. OpenIn(history') = OpenIn(history)
    BY <1>2, <1>3, <1>6, AsideKeepsOpen
  <2>2. Leaves(OpenIds(history), m, OpenIds(history'))
    BY <1>6, <2>1 DEF Leaves, OpenIds
  <2>3. m.role = "user" => OpenIds(history) = <<>>
    BY <1>1, <1>4 DEF OpenIds, Ids
  <2> QED
    BY <1>1, <1>2, <2>2, <2>3
<1> QED
  BY <1>1, <1>5, <1>6

NoneOpen == phase # "client" => OpenIn(history) = <<>>
LEMMA NoneOpenOn ==
  ASSUME StreamTypeOK, TalkTypeOK, StreamKept, NamesAreFit, Moves, NoneOpen
  PROVE  NoneOpen'
<1>1. CASE SaySomething
  BY <1>1, SayingLeaves DEF NoneOpen
<1>2. CASE Ask
  <2>1. Open = <<>> /\ history' = history
    BY <1>2 DEF Ask, Sends
  <2> QED
    BY <2>1, OpenIs DEF NoneOpen
<1>3. CASE Finishes
  BY <1>3, FinishTells DEF NoneOpen
<1>4. CASE Rests
  BY <1>4 DEF Rests, NoneOpen
<1> QED
  BY <1>1, <1>2, <1>3, <1>4, TalkMoves

LEMMA FinishLeaves ==
  ASSUME StreamTypeOK, TalkTypeOK, StreamKept, NamesAreFit, NoneOpen, Finishes
  PROVE  \E m \in Msg : /\ m.role = "assistant" /\ history' = Append(history, m) /\ route' = route
                        /\ Leaves(OpenIds(history), m, OpenIds(history'))
<1>1. PICK m \in Msg : /\ m.role = "assistant" /\ history' = Append(history, m)
                       /\ phase = "stopped" /\ route' = route
  BY FinishTells
<1>2. history \in Seq(Msg)
  BY DEF TalkTypeOK
<1>3. OpenIn(history') = m.calls
  BY <1>1, <1>2, AnswerOpens
<1>4. OpenIds(history) = <<>>
  BY <1>1 DEF NoneOpen, OpenIds, Ids
<1>5. Leaves(OpenIds(history), m, OpenIds(history'))
  BY <1>1, <1>3, <1>4 DEF Leaves, OpenIds
<1> QED
  BY <1>1, <1>5

(* Texts put nothing and answer nothing.                                  *)
LEMMA NoResultsJoined ==
  ASSUME NEW Q, Q = {bs \in Seq(Piece) : Ofs(bs, "tool_result") = <<>>}
  PROVE  \A ss \in Seq(Q) : Ofs(FlattenSeq(ss), "tool_result") = <<>>
<1> DEFINE T == {ss \in Seq(Seq(Piece)) : Ofs(FlattenSeq(ss), "tool_result") = <<>>}
<1>1. <<>> \in T
  <2>1. <<>> \in Seq(Seq(Piece))
    OBVIOUS
  <2>2. Ofs(FlattenSeq(<<>>), "tool_result") = <<>>
    BY FlattenNone, OfsMore
  <2> QED
    BY <2>1, <2>2
<1>2. ASSUME NEW ss \in Seq(Q), NEW t \in Q, ss \in T PROVE Append(ss, t) \in T
  <2>1. /\ ss \in Seq(Seq(Piece)) /\ t \in Seq(Piece) /\ Ofs(t, "tool_result") = <<>>
        /\ Ofs(FlattenSeq(ss), "tool_result") = <<>>
    BY <1>2
  <2>2. LongerFlat(ss, t) /\ FlattenSeq(ss) \in Seq(Piece)
    BY <2>1, FlattenMore
  <2>3. OfsBothFor(FlattenSeq(ss), t, "tool_result")
    BY <2>1, <2>2, OfsMore
  <2>4. Ofs(FlattenSeq(Append(ss, t)), "tool_result") = <<>> \o <<>>
    BY <2>1, <2>2, <2>3 DEF LongerFlat, OfsBothFor
  <2>5. Append(ss, t) \in Seq(Seq(Piece))
    BY <2>1
  <2> QED
    BY <2>4, <2>5
<1> HIDE DEF T
<1>3. \A ss \in Seq(Q) : ss \in T
  BY <1>1, <1>2, EverySequence
<1> QED
  BY <1>3 DEF T

TextsOnly(ms) ==
  /\ \E n \in Nat : ms = [i \in 1..n |-> ms[i]]
  /\ \A i \in DOMAIN ms : ms[i].blocks \in Seq(Piece) /\ NoIds(ms[i].blocks)
LEMMA NothingToAnswer ==
  ASSUME NEW ms, TextsOnly(ms), NEW i \in DOMAIN ms
  PROVE  Reply(ms, i) = <<>> /\ Ofs(ms[i].blocks, "tool_use") = <<>>
<1>1. PICK n \in Nat : ms = [k \in 1..n |-> ms[k]]
  BY DEF TextsOnly
<1>2. PICK S : S = {ms[k] : k \in 1..n}
  OBVIOUS
<1>3. DOMAIN ms = 1..n /\ ms \in Seq(S) /\ Len(ms) = n
  BY <1>1, <1>2
<1>4. \A k \in 1..n : ms[k].blocks \in Seq(Piece) /\ NoIds(ms[k].blocks)
  BY <1>3 DEF TextsOnly
<1>5. BlocksIn(S)
  BY <1>2, <1>4 DEF BlocksIn
<1>6. i \in Nat /\ i <= Len(ms)
  BY <1>3
<1>7. PICK c, ss, Q : /\ c = Cardinality(After(ms, i)) /\ ss = ReplyBlocks(ms, i)
                      /\ Q = {bs \in Seq(Piece) : Ofs(bs, "tool_result") = <<>>}
  OBVIOUS
<1>8. c \in Nat /\ i + c <= n
  BY <1>3, <1>6, <1>7, AfterIs
<1>9. \A j \in 1..c : i + j \in 1..n
  BY <1>6, <1>8
<1>10. ss = [j \in 1..c |-> ms[i + j].blocks]
  BY <1>7 DEF ReplyBlocks
<1>11. \A j \in 1..c : ms[i + j].blocks \in Q
  BY <1>4, <1>7, <1>9 DEF NoIds
<1>12. ss \in Seq(Q)
  BY <1>8, <1>10, <1>11
<1>13. Ofs(FlattenSeq(ss), "tool_result") = <<>>
  BY <1>7, <1>12, NoResultsJoined
<1> QED
  BY <1>3, <1>4, <1>7, <1>13 DEF Reply, NoIds

LEMMA CodexTextsOnly ==
  ASSUME NEW h \in Seq(Msg)
  PROVE  TextsOnly(CodexRequest(h).messages)
<1>1. PICK P, X : CodexTurn(P, X)
  BY DEF CodexTurn
<1>2. TextTurns(P, X) /\ CodexRequest(h).messages = Each(P, Among(h, X))
  BY <1>1, InputIsText, CodexTurnsAre
<1>3. PICK s : s = Among(h, X)
  OBVIOUS
<1>4. s \in Seq(Msg)
  BY <1>3, AmongIs
<1>5. PICK n : n = Len(s)
  OBVIOUS
<1>6. n \in Nat /\ DOMAIN s = 1..n /\ \A i \in 1..n : s[i] \in Msg
  BY <1>4, <1>5
<1>7. PICK ms : ms = Each(P, s)
  OBVIOUS
<1>8. DOMAIN ms = 1..n /\ ms = [i \in 1..n |-> P[s[i]]]
  BY <1>6, <1>7 DEF Each
<1>9. ASSUME NEW i \in 1..n PROVE ms[i].blocks \in Seq(Piece) /\ NoIds(ms[i].blocks)
  <2>1. s[i] \in Msg /\ ms[i] = P[s[i]]
    BY <1>6, <1>8
  <2>2. ms[i].blocks = <<TextBlock(s[i].text)>> /\ s[i].text \in Text
    BY <1>2, <2>1 DEF TextTurns, Msg
  <2> QED
    BY <2>2, TextRaw, RawIsPiece
<1>10. ms = [i \in 1..n |-> ms[i]]
  BY <1>8
<1> QED
  BY <1>2, <1>3, <1>6, <1>7, <1>8, <1>9, <1>10 DEF TextsOnly

LEMMA WireTextsOnly ==
  ASSUME NEW h \in Seq(Msg)
  PROVE  TextsOnly(to_wire_value(h))
<1>1. PICK n, ms : n = Len(h) /\ ms = to_wire_value(h)
  OBVIOUS
<1>2. n \in Nat /\ DOMAIN h = 1..n /\ \A i \in 1..n : h[i] \in Msg
  BY <1>1
<1>3. DOMAIN Normalized(h) = 1..n /\ \A i \in 1..n : Normalized(h)[i].text = h[i].text
  BY <1>2 DEF Normalized, Msg
<1>4. DOMAIN ms = 1..n /\ ms = [i \in 1..n |-> ms[i]]
  BY <1>1, <1>3 DEF to_wire_value
<1>5. ASSUME NEW i \in 1..n PROVE ms[i].blocks = <<TextBlock(h[i].text)>>
  BY <1>1, <1>3 DEF to_wire_value, WireMessage
<1>6. \A i \in 1..n : h[i].text \in Text
  BY <1>2 DEF Msg
<1>7. \A i \in 1..n : ms[i].blocks \in Seq(Piece) /\ NoIds(ms[i].blocks)
  BY <1>5, <1>6, TextRaw, RawIsPiece
<1> QED
  BY <1>1, <1>2, <1>4, <1>7 DEF TextsOnly

(* The calls of a conversation, in either form of its messages.            *)
AnsweredIn(W, h) == RepliedTo(W[h], OpenIds(h))
LEMMA AnsweredInMore ==
  ASSUME NEW F, NEW W, Follows(F, W), NEW h \in Seq(ChatMsg), NEW m \in ChatMsg,
         AnsweredIn(W, h), Leaves(OpenIds(h), m, OpenIds(Append(h, m)))
  PROVE  AnsweredIn(W, Append(h, m))
<1>1. W[h] \in Seq(Turn)
  BY ShowsAll
<1>2. TurnsGrow(W[h], W[Append(h, m)], m, F[m])
  BY DEF Follows
<1>3. h \in Seq(Msg) /\ Append(h, m) \in Seq(Msg)
  BY DEF ChatMsg
<1>4. OpenIds(h) \in Seq(Nat) /\ OpenIds(Append(h, m)) \in Seq(Nat)
  BY <1>3, OpenIdsTyped
<1> QED
  BY <1>1, <1>2, <1>4, AnsweredOn DEF AnsweredIn

ClaudeTurnsAre(W) == W = [h \in Seq(ChatMsg) |-> SentTurns(h)]
PlainTurnsAre(W) == W = [h \in Seq(ChatMsg) |-> PlainTurns(h)]
TurnsOf(adapter, W) ==
  \/ adapter = "claude_code" /\ ClaudeTurnsAre(W)
  \/ adapter = "anthropic" /\ PlainTurnsAre(W)
LEMMA TurnsFollow ==
  ASSUME NEW adapter, NEW W, TurnsOf(adapter, W)
  PROVE  \E F : Follows(F, W)
<1>1. CASE ClaudeTurnsAre(W)
  BY <1>1, ClaudeShowsSome, ClaudeFollows DEF ClaudeTurnsAre
<1>2. CASE PlainTurnsAre(W)
  BY <1>2, PlainShowsSome, PlainFollows DEF PlainTurnsAre
<1> QED
  BY <1>1, <1>2 DEF TurnsOf

TurnsAnswered == \A W : TurnsOf(route.adapter, W) => AnsweredIn(W, history)
LEMMA TurnsAnsweredBegin == AdaptersInit => TurnsAnswered
<1> SUFFICES ASSUME AdaptersInit, NEW W, TurnsOf(route.adapter, W)
             PROVE  AnsweredIn(W, history)
  BY DEF TurnsAnswered
<1>1. history = <<>>
  BY DEF AdaptersInit, ConversationInit
<1>2. PICK F : Follows(F, W)
  BY TurnsFollow
<1>3. W[<<>>] = <<>>
  BY <1>2 DEF Follows
<1> QED
  BY <1>1, <1>3 DEF AnsweredIn, RepliedTo

LEMMA TurnsAnsweredOn ==
  ASSUME StreamTypeOK, TalkTypeOK, StreamKept, NamesAreFit, ChatOnly, NoneOpen, Moves, TurnsAnswered
  PROVE  TurnsAnswered'
<1> SUFFICES ASSUME NEW W, TurnsOf(route'.adapter, W)
             PROVE  AnsweredIn(W, history')
  BY DEF TurnsAnswered
<1>1. route' = route
  BY RouteStays
<1>2. AnsweredIn(W, history)
  BY <1>1 DEF TurnsAnswered
<1>3. PICK F : Follows(F, W)
  BY TurnsFollow
<1>4. route.adapter # "openai"
  BY <1>1 DEF TurnsOf
<1>5. history \in Seq(ChatMsg)
  BY <1>4 DEF ChatOnly
<1>6. CASE SaySomething
  <2>1. PICK m \in Msg : /\ history' = Append(history, m) /\ m.role # "developer"
                         /\ Leaves(OpenIds(history), m, OpenIds(history'))
    BY <1>4, <1>6, SayingLeaves
  <2>2. m \in ChatMsg
    BY <2>1 DEF ChatMsg
  <2> QED
    BY <1>2, <1>3, <1>5, <2>1, <2>2, AnsweredInMore
<1>7. CASE Finishes
  <2>1. PICK m \in Msg : /\ m.role = "assistant" /\ history' = Append(history, m)
                         /\ Leaves(OpenIds(history), m, OpenIds(history'))
    BY <1>7, FinishLeaves
  <2>2. m \in ChatMsg
    BY <2>1 DEF ChatMsg
  <2> QED
    BY <1>2, <1>3, <1>5, <2>1, <2>2, AnsweredInMore
<1>8. CASE history' = history
  BY <1>2, <1>8
<1> QED
  BY <1>6, <1>7, <1>8, TalkMoves DEF Ask, Sends, Rests

(* The turns of a request are those of the history, and none is open.      *)
LEMMA RequestTurns ==
  ASSUME NoneOpen, TurnsAnswered, phase = "waiting", NEW W, TurnsOf(route.adapter, W)
  PROVE  RepliedTo(W[history], <<>>)
<1>1. OpenIds(history) = <<>>
  BY DEF NoneOpen, OpenIds, Ids
<1> QED
  BY <1>1 DEF TurnsAnswered, AnsweredIn

LEMMA ResultsFollowFromTurns ==
  ASSUME TalkTypeOK, ChatOnly, RequestIsBuilt, NoneOpen, TurnsAnswered
  PROVE  ResultsFollow
<1> SUFFICES ASSUME phase = "waiting", NEW i \in DOMAIN request.messages,
                    request.messages[i].role = "assistant"
             PROVE  Reply(request.messages, i) = Ofs(request.messages[i].blocks, "tool_use")
  BY DEF ResultsFollow, Reply, ReplyBlocks, Ofs, Results, Called
<1>0. history \in Seq(Msg) /\ route.adapter \in AllAdapters
  BY AdaptersAssumption DEF TalkTypeOK
<1>1. request = BuildRequest
  BY DEF RequestIsBuilt
<1>2. CASE route.adapter = "claude_code"
  <2>1. request = build_request(history) /\ history \in Seq(ChatMsg)
    BY <1>1, <1>2 DEF BuildRequest, ChatOnly
  <2>2. PICK W : ClaudeTurnsAre(W)
    BY DEF ClaudeTurnsAre
  <2>3. W[history] = SentTurns(history)
    BY <2>1, <2>2 DEF ClaudeTurnsAre
  <2>4. RepliedTo(SentTurns(history), <<>>)
    BY <1>2, <2>2, <2>3, RequestTurns DEF TurnsOf
  <2>5. ClaudeRequest(history)
    BY <2>1, ClaudeRequestIs
  <2>6. /\ SentTurns(history) \in Seq(Turn) /\ request.messages \in Seq(Turn)
        /\ TellsUser(SentTurns(history), request.messages)
    BY <2>1, <2>5 DEF ClaudeRequest
  <2>7. RepliedTo(request.messages, <<>>)
    BY <2>4, <2>6, AnsweredAtLast
  <2> QED
    BY <2>6, <2>7, AllAnswered
<1>3. CASE route.adapter = "anthropic"
  <2>1. request.messages = PlainTurns(history) /\ history \in Seq(ChatMsg)
    BY <1>1, <1>3 DEF BuildRequest, ChatOnly, build_anthropic_request, Request, PlainTurns
  <2>2. PICK W : PlainTurnsAre(W)
    BY DEF PlainTurnsAre
  <2>3. W[history] = PlainTurns(history)
    BY <2>1, <2>2 DEF PlainTurnsAre
  <2>4. RepliedTo(request.messages, <<>>)
    BY <1>3, <2>1, <2>2, <2>3, RequestTurns DEF TurnsOf
  <2>5. W[history] \in Seq(Turn)
    <3>1. PICK F : Follows(F, W)
      BY <1>3, <2>2, TurnsFollow DEF TurnsOf
    <3> QED
      BY <2>1, <3>1, ShowsAll
  <2> QED
    BY <2>1, <2>3, <2>4, <2>5, AllAnswered
<1>4. CASE route.adapter = "codex"
  <2>1. TextsOnly(request.messages)
    BY <1>0, <1>1, <1>4, CodexTextsOnly DEF BuildRequest
  <2> QED
    BY <2>1, NothingToAnswer
<1>5. CASE route.adapter = "openai"
  <2>1. request.messages = to_wire_value(history)
    BY <1>1, <1>5 DEF BuildRequest, Request
  <2>2. TextsOnly(request.messages)
    BY <1>0, <2>1, WireTextsOnly
  <2> QED
    BY <2>2, NothingToAnswer
<1> QED
  BY <1>0, <1>2, <1>3, <1>4, <1>5 DEF AllAdapters

---------------------------------------------------------------------------
(* With an API key the results of an answer are in the one message after   *)
(* it: the last message, as long as some are open.                         *)

CallsAt(ms, i) == Ofs(ms[i].blocks, "tool_use")
GivenAt(ms, i) == Ofs(ms[i].blocks, "tool_result")
TogetherAt(ms, i, open) ==
  CallsAt(ms, i) # <<>> =>
    IF i = Len(ms) THEN open = CallsAt(ms, i)
    ELSE IF i + 1 = Len(ms)
    THEN GivenAt(ms, i + 1) \o open = CallsAt(ms, i) /\ (open # <<>> => EndsWithResults(ms))
    ELSE GivenAt(ms, i + 1) = CallsAt(ms, i)
Together(ms, open) == \A i \in DOMAIN ms : TogetherAt(ms, i, open)

LEMMA RawTurnIds ==
  ASSUME NEW x \in RawTurn, NEW kind
  PROVE  x.blocks \in Seq(Raw) /\ x.blocks \in Seq(Piece) /\ Ofs(x.blocks, kind) \in Seq(Nat)
<1>1. x.blocks \in Seq(Raw)
  BY DEF RawTurn
<1>2. x.blocks \in Seq(Piece)
  BY <1>1, RawIsPiece
<1> QED
  BY <1>1, <1>2, OfsMore

LEMMA ResultsCallNothing ==
  ASSUME NEW x \in RawTurn, \A b \in ToSet(x.blocks) : b.kind = "tool_result"
  PROVE  Ofs(x.blocks, "tool_use") = <<>>
<1>1. x.blocks \in Seq(Piece)
  BY RawTurnIds
<1>2. \A j \in DOMAIN x.blocks : x.blocks[j].kind = "tool_result"
  BY DEF ToSet
<1>3. \A j \in DOMAIN x.blocks : x.blocks[j].kind # "tool_use"
  BY <1>2
<1> QED
  BY <1>1, <1>3, NoneOf

(* A message is added when no put is open.                                *)
LEMMA TogetherAdded ==
  ASSUME NEW ms \in Seq(RawTurn), NEW x \in RawTurn, NEW next, Together(ms, <<>>),
         next = Ofs(x.blocks, "tool_use")
  PROVE  Together(Append(ms, x), next)
<1>1. PICK n, new : n = Len(ms) /\ new = Append(ms, x)
  OBVIOUS
<1>2. /\ n \in Nat /\ new \in Seq(RawTurn) /\ Len(new) = n + 1 /\ new[n + 1] = x
      /\ DOMAIN ms = 1..n /\ DOMAIN new = 1..(n + 1) /\ \A i \in 1..n : new[i] = ms[i]
  BY <1>1, AppendIs
<1>3. ASSUME NEW i \in 1..(n + 1) PROVE TogetherAt(new, i, next)
  <2>1. CASE i = n + 1
    BY <1>2, <2>1 DEF TogetherAt, CallsAt
  <2>2. CASE i # n + 1
    <3>1. i \in 1..n /\ i # Len(new)
      BY <1>2, <2>2
    <3>2. TogetherAt(ms, i, <<>>) /\ CallsAt(new, i) = CallsAt(ms, i)
      BY <1>2, <3>1 DEF Together, CallsAt
    <3>3. CASE i = n
      BY <1>1, <3>2, <3>3 DEF TogetherAt
    <3>4. CASE i # n
      <4>1. i + 1 \in 1..n /\ i + 1 # Len(new) /\ i # Len(ms)
        BY <1>1, <1>2, <3>1, <3>4
      <4>2. GivenAt(new, i + 1) = GivenAt(ms, i + 1) /\ GivenAt(ms, i + 1) \in Seq(Nat)
        <5>1. ms[i + 1] \in RawTurn /\ new[i + 1] = ms[i + 1]
          BY <1>2, <4>1
        <5> QED
          BY <5>1, RawTurnIds DEF GivenAt
      <4>3. GivenAt(ms, i + 1) \o <<>> = GivenAt(ms, i + 1)
        BY <4>2, JoinNone DEF EmptyJoin
      <4>4. CallsAt(ms, i) # <<>> => GivenAt(ms, i + 1) = CallsAt(ms, i)
        BY <3>2, <4>1, <4>3 DEF TogetherAt
      <4> QED
        BY <3>1, <3>2, <4>1, <4>2, <4>4 DEF TogetherAt
    <3> QED
      BY <3>3, <3>4
  <2> QED
    BY <2>1, <2>2
<1> QED
  BY <1>1, <1>2, <1>3 DEF Together

LEMMA ResultIs ==
  ASSUME NEW m \in Msg
  PROVE  /\ ResultOf(m) \in Seq(Raw) /\ ResultOf(m) \in Seq(Piece)
         /\ Ofs(ResultOf(m), "tool_result") = <<m.of>> /\ m.of \in Nat
         /\ \A b \in ToSet(ResultOf(m)) : b.kind = "tool_result"
<1>1. ResultOf(m) \in Seq(Raw) /\ Ofs(ResultOf(m), "tool_result") = <<m.of>>
  BY ResultRaw
<1>2. ResultOf(m) \in Seq(Piece) /\ m.of \in Nat
  BY <1>1, RawIsPiece DEF Msg
<1>3. \A b \in ToSet(ResultOf(m)) : b.kind = "tool_result"
  <2>1. PICK b : b = Block("tool_result", m.of, "", m.text)
    OBVIOUS
  <2>2. b.kind = "tool_result"
    BY <2>1 DEF Block
  <2>3. \A j \in DOMAIN <<b>> : <<b>>[j] = b
    OBVIOUS
  <2> QED
    BY <2>1, <2>2, <2>3 DEF ToSet, ResultOf
<1> QED
  BY <1>1, <1>2, <1>3

(* The first result begins the message.                                    *)
LEMMA TogetherBegun ==
  ASSUME NEW ms \in Seq(RawTurn), NEW m \in Msg, NEW next \in Seq(Nat),
         Together(ms, <<m.of>> \o next), ~EndsWithResults(ms)
  PROVE  Together(Append(ms, UserTurn(ResultOf(m))), next)
<1>1. PICK n, x, new, open : /\ n = Len(ms) /\ x = UserTurn(ResultOf(m)) /\ new = Append(ms, x)
                             /\ open = <<m.of>> \o next
  OBVIOUS
<1>2. x \in RawTurn /\ x.role = "user" /\ x.blocks = ResultOf(m)
  BY <1>1, ResultIs DEF UserTurn, RawTurn
<1>3. /\ n \in Nat /\ new \in Seq(RawTurn) /\ Len(new) = n + 1 /\ new[n + 1] = x
      /\ DOMAIN ms = 1..n /\ DOMAIN new = 1..(n + 1) /\ \A i \in 1..n : new[i] = ms[i]
  BY <1>1, <1>2, AppendIs
<1>4. EndsWithResults(new)
  <2>1. new # <<>> /\ Last(new) = x
    BY <1>1, <1>2, AppendEnds
  <2> QED
    BY <1>2, <2>1, ResultIs DEF EndsWithResults
<1>5. open # <<>>
  <2>1. m.of \in Nat
    BY ResultIs
  <2>2. Len(open) = Len(next) + 1
    BY <1>1, <2>1
  <2> QED
    BY <2>2
<1>6. ASSUME NEW i \in 1..(n + 1) PROVE TogetherAt(new, i, next)
  <2>1. CASE i = n + 1
    <3>1. CallsAt(new, i) = <<>>
      BY <1>2, <1>3, <2>1, ResultsCallNothing, ResultIs DEF CallsAt
    <3> QED
      BY <3>1 DEF TogetherAt
  <2>2. CASE i # n + 1
    <3>1. i \in 1..n /\ i # Len(new)
      BY <1>3, <2>2
    <3>2. TogetherAt(ms, i, open) /\ CallsAt(new, i) = CallsAt(ms, i)
      BY <1>1, <1>3, <3>1 DEF Together, CallsAt
    <3>3. CASE i = n
      <4>1. GivenAt(new, n + 1) = <<m.of>>
        BY <1>2, <1>3, ResultIs DEF GivenAt
      <4>2. CallsAt(ms, i) # <<>> => open = CallsAt(ms, i)
        BY <1>1, <3>2, <3>3 DEF TogetherAt
      <4> QED
        BY <1>1, <1>3, <1>4, <3>1, <3>2, <3>3, <4>1, <4>2 DEF TogetherAt
    <3>4. CASE i # n
      <4>1. i + 1 \in 1..n /\ i + 1 # Len(new) /\ i # Len(ms)
        BY <1>1, <1>3, <3>1, <3>4
      <4>2. GivenAt(new, i + 1) = GivenAt(ms, i + 1)
        BY <1>3, <4>1 DEF GivenAt
      <4>3. CallsAt(ms, i) # <<>> => GivenAt(ms, i + 1) = CallsAt(ms, i)
        BY <1>5, <3>2, <4>1 DEF TogetherAt
      <4> QED
        BY <3>1, <3>2, <4>1, <4>2, <4>3 DEF TogetherAt
    <3> QED
      BY <3>3, <3>4
  <2> QED
    BY <2>1, <2>2
<1> QED
  BY <1>1, <1>3, <1>6 DEF Together

(* A further result joins the message of the others.                       *)
LEMMA TogetherMerged ==
  ASSUME NEW front \in Seq(RawTurn), NEW l \in RawTurn, NEW m \in Msg, NEW next \in Seq(Nat),
         Together(Append(front, l), <<m.of>> \o next), EndsWithResults(Append(front, l))
  PROVE  Together(Append(front, UserTurn(l.blocks \o ResultOf(m))), next)
<1>1. PICK n, ms, x, new : /\ n = Len(front) /\ ms = Append(front, l)
                           /\ x = UserTurn(l.blocks \o ResultOf(m)) /\ new = Append(front, x)
  OBVIOUS
<1>2. l.blocks \in Seq(Raw) /\ l.blocks \in Seq(Piece)
  BY RawTurnIds
<1>3. /\ ResultOf(m) \in Seq(Raw) /\ ResultOf(m) \in Seq(Piece)
      /\ Ofs(ResultOf(m), "tool_result") = <<m.of>> /\ m.of \in Nat
      /\ \A b \in ToSet(ResultOf(m)) : b.kind = "tool_result"
  BY ResultIs
<1>4. x \in RawTurn /\ x.role = "user" /\ x.blocks = l.blocks \o ResultOf(m)
  BY <1>1, <1>2, <1>3 DEF UserTurn, RawTurn
<1>5. \A b \in ToSet(l.blocks) : b.kind = "tool_result"
  <2>1. Last(ms) = l
    BY <1>1, AppendEnds
  <2> QED
    BY <1>1, <2>1 DEF EndsWithResults
<1>6. \A b \in ToSet(x.blocks) : b.kind = "tool_result"
  <2>1. PICK bs, cs : bs = l.blocks /\ cs = ResultOf(m)
    OBVIOUS
  <2>2. bs \in Seq(Raw) /\ cs \in Seq(Raw)
    BY <1>2, <1>3, <2>1
  <2>3. /\ DOMAIN (bs \o cs) = 1..(Len(bs) + Len(cs))
        /\ \A i \in 1..Len(bs) : (bs \o cs)[i] = bs[i]
        /\ \A i \in 1..Len(cs) : (bs \o cs)[Len(bs) + i] = cs[i]
    BY <2>2, JoinIs
  <2>4. Len(bs) \in Nat /\ DOMAIN bs = 1..Len(bs) /\ Len(cs) \in Nat /\ DOMAIN cs = 1..Len(cs)
    BY <2>2
  <2>5. \A i \in DOMAIN bs : bs[i].kind = "tool_result"
    BY <1>5, <2>1 DEF ToSet
  <2>6. \A i \in DOMAIN cs : cs[i].kind = "tool_result"
    BY <1>3, <2>1 DEF ToSet
  <2>7. ASSUME NEW i \in DOMAIN (bs \o cs) PROVE (bs \o cs)[i].kind = "tool_result"
    <3>1. CASE i <= Len(bs)
      BY <2>3, <2>4, <2>5, <3>1
    <3>2. CASE ~(i <= Len(bs))
      <4>1. PICK j : j = i - Len(bs)
        OBVIOUS
      <4>2. j \in 1..Len(cs) /\ i = Len(bs) + j
        BY <2>3, <2>4, <3>2, <4>1
      <4>3. (bs \o cs)[i] = cs[j]
        BY <2>3, <4>2
      <4> QED
        BY <2>4, <2>6, <4>2, <4>3
    <3> QED
      BY <3>1, <3>2
  <2> QED
    BY <1>4, <2>1, <2>7 DEF ToSet
<1>7. EndsWithResults(new)
  <2>1. new # <<>> /\ Last(new) = x
    BY <1>1, <1>4, AppendEnds
  <2> QED
    BY <1>4, <1>6, <2>1 DEF EndsWithResults
<1>8. /\ n \in Nat /\ new \in Seq(RawTurn) /\ Len(new) = n + 1 /\ new[n + 1] = x
      /\ \A i \in 1..n : new[i] = front[i]
  BY <1>1, <1>4, AppendIs
<1>9. ms \in Seq(RawTurn) /\ Len(ms) = n + 1 /\ ms[n + 1] = l /\ \A i \in 1..n : ms[i] = front[i]
  BY <1>1, AppendIs
<1>10. DOMAIN new = 1..(n + 1) /\ DOMAIN ms = 1..(n + 1)
  BY <1>8, <1>9
<1>11. GivenAt(new, n + 1) \o next = GivenAt(ms, n + 1) \o (<<m.of>> \o next)
  <2>1. OfsBothFor(l.blocks, ResultOf(m), "tool_result")
    BY <1>2, <1>3, OfsMore
  <2>2. GivenAt(new, n + 1) = GivenAt(ms, n + 1) \o <<m.of>>
    BY <1>3, <1>4, <1>8, <1>9, <2>1 DEF GivenAt, OfsBothFor
  <2>3. GivenAt(ms, n + 1) \in Seq(Nat)
    BY <1>9, RawTurnIds DEF GivenAt
  <2>4. <<m.of>> \in Seq(Nat)
    BY <1>3
  <2>5. SameJoin(GivenAt(ms, n + 1), <<m.of>>, next)
    BY <2>3, <2>4, JoinThree
  <2> QED
    BY <2>2, <2>5 DEF SameJoin
<1>12. ASSUME NEW i \in 1..(n + 1) PROVE TogetherAt(new, i, next)
  <2>1. CASE i = n + 1
    <3>1. CallsAt(new, i) = <<>>
      BY <1>4, <1>6, <1>8, <2>1, ResultsCallNothing DEF CallsAt
    <3> QED
      BY <3>1 DEF TogetherAt
  <2>2. CASE i # n + 1
    <3>1. i \in 1..n /\ i # Len(new) /\ i # Len(ms)
      BY <1>8, <1>9, <2>2
    <3>2. TogetherAt(ms, i, <<m.of>> \o next)
      BY <1>1, <1>10 DEF Together
    <3>3. CallsAt(new, i) = CallsAt(ms, i)
      BY <1>8, <1>9, <3>1 DEF CallsAt
    <3>4. CASE i = n
      <4>1. i + 1 = Len(ms) /\ i + 1 = Len(new)
        BY <1>8, <1>9, <3>4
      <4>2. CallsAt(ms, i) # <<>> => GivenAt(ms, n + 1) \o (<<m.of>> \o next) = CallsAt(ms, i)
        BY <3>1, <3>2, <3>4, <4>1 DEF TogetherAt
      <4> QED
        BY <1>7, <1>11, <3>1, <3>3, <3>4, <4>1, <4>2 DEF TogetherAt
    <3>5. CASE i # n
      <4>1. i + 1 \in 1..n /\ i + 1 # Len(new) /\ i + 1 # Len(ms)
        BY <1>8, <1>9, <3>1, <3>5
      <4>2. GivenAt(new, i + 1) = GivenAt(ms, i + 1)
        BY <1>8, <1>9, <4>1 DEF GivenAt
      <4>3. CallsAt(ms, i) # <<>> => GivenAt(ms, i + 1) = CallsAt(ms, i)
        BY <3>1, <3>2, <4>1 DEF TogetherAt
      <4> QED
        BY <3>1, <3>3, <4>1, <4>2, <4>3 DEF TogetherAt
    <3> QED
      BY <3>4, <3>5
  <2> QED
    BY <2>1, <2>2
<1> QED
  BY <1>1, <1>10, <1>12 DEF Together

LEMMA TogetherOn ==
  ASSUME NEW ms \in Seq(RawTurn), NEW new, NEW m \in Msg, PlainTurn(ms, new, m),
         NEW open \in Seq(Nat), NEW next \in Seq(Nat), Leaves(open, m, next),
         m.role = "user" => open = <<>>, Together(ms, open)
  PROVE  Together(new, next)
<1>1. CASE m.role = "system" /\ new = ms
  BY <1>1 DEF Leaves
<1>2. CASE m.role = "user" /\ Added(ms, new, <<TextBlock(m.text)>>)
  <2>1. PICK x : x = UserTurn(<<TextBlock(m.text)>>)
    OBVIOUS
  <2>2. x \in RawTurn /\ Ofs(x.blocks, "tool_use") = <<>>
    BY <2>1, TextRaw DEF UserTurn, RawTurn, Msg, NoIds
  <2>3. open = <<>> /\ next = <<>> /\ new = Append(ms, x)
    BY <1>2, <2>1 DEF Leaves, Added
  <2> QED
    BY <2>2, <2>3, TogetherAdded
<1>3. CASE m.role = "assistant" /\ new = Append(ms, AssistantTurn(PlainBlocks(m)))
  <2>1. PICK x : x = AssistantTurn(PlainBlocks(m))
    OBVIOUS
  <2>2. x \in RawTurn /\ Ofs(x.blocks, "tool_use") = Ids(m.calls)
    BY <2>1, PlainBlocksRaw DEF AssistantTurn, RawTurn
  <2>3. open = <<>> /\ next = Ids(m.calls) /\ new = Append(ms, x)
    BY <1>3, <2>1 DEF Leaves
  <2> QED
    BY <2>2, <2>3, TogetherAdded
<1>4. CASE m.role = "tool" /\ EndsWithResults(ms) /\ Merges(RawTurn, ms, new, ResultOf(m))
  <2>1. PICK front \in Seq(RawTurn), l \in RawTurn :
          ms = Append(front, l) /\ new = Append(front, UserTurn(l.blocks \o ResultOf(m)))
    BY <1>4 DEF Merges
  <2>2. open = <<m.of>> \o next
    BY <1>4 DEF Leaves
  <2> QED
    BY <1>4, <2>1, <2>2, TogetherMerged
<1>5. CASE m.role = "tool" /\ ~EndsWithResults(ms) /\ Added(ms, new, ResultOf(m))
  <2>1. open = <<m.of>> \o next
    BY <1>5 DEF Leaves
  <2> QED
    BY <1>5, <2>1, TogetherBegun DEF Added
<1> QED
  BY <1>1, <1>2, <1>3, <1>4, <1>5 DEF PlainTurn

LEMMA PlainStep ==
  ASSUME NEW h \in Seq(ChatMsg)
  PROVE  /\ PlainTurns(h) \in Seq(RawTurn) /\ PlainTurns(<<>>) = <<>>
         /\ \A m \in ChatMsg : PlainTurn(PlainTurns(h), PlainTurns(Append(h, m)), m)
<1>1. convert_messages(h) \in PlainConv /\ PlainTurns(<<>>) = <<>>
  BY PlainMore, PlainNotYet DEF PlainTurns
<1>2. PlainTurns(h) \in Seq(RawTurn)
  BY <1>1 DEF PlainTurns, PlainConv, Conv
<1>3. ASSUME NEW m \in ChatMsg PROVE PlainTurn(PlainTurns(h), PlainTurns(Append(h, m)), m)
  <2>1. PlainMoreFor(h, m)
    BY PlainMore
  <2>2. PlainConverts(convert_messages(h), m, PlainNext(convert_messages(h), m))
    BY <1>1, PlainNextIs
  <2> QED
    BY <2>1, <2>2 DEF PlainMoreFor, PlainConverts, PlainTurns
<1> QED
  BY <1>1, <1>2, <1>3

ResultsKept == route.adapter = "anthropic" => Together(PlainTurns(history), OpenIds(history))
LEMMA ResultsKeptOn ==
  ASSUME StreamTypeOK, TalkTypeOK, StreamKept, NamesAreFit, ChatOnly, NoneOpen, Moves, ResultsKept
  PROVE  ResultsKept'
<1> SUFFICES ASSUME route.adapter = "anthropic"
             PROVE  Together(PlainTurns(history'), OpenIds(history'))
  BY RouteStays DEF ResultsKept
<1>1. history \in Seq(ChatMsg) /\ history \in Seq(Msg)
  BY DEF ChatOnly, TalkTypeOK
<1>2. Together(PlainTurns(history), OpenIds(history))
  BY DEF ResultsKept
<1>3. ASSUME NEW m \in Msg, history' = Append(history, m), m.role # "developer",
             m.role = "user" => OpenIds(history) = <<>>, Leaves(OpenIds(history), m, OpenIds(history'))
      PROVE  Together(PlainTurns(history'), OpenIds(history'))
  <2>1. m \in ChatMsg
    BY <1>3 DEF ChatMsg
  <2>2. /\ PlainTurns(history) \in Seq(RawTurn)
        /\ PlainTurn(PlainTurns(history), PlainTurns(history'), m)
    BY <1>1, <1>3, <2>1, PlainStep
  <2>3. history' \in Seq(Msg)
    BY <1>1, <1>3
  <2>4. OpenIds(history) \in Seq(Nat) /\ OpenIds(history') \in Seq(Nat)
    BY <1>1, <2>3, OpenIdsTyped
  <2> QED
    BY <1>2, <1>3, <2>2, <2>4, TogetherOn
<1>4. CASE SaySomething
  <2>1. PICK m \in Msg : /\ history' = Append(history, m)
                         /\ m.role = "developer" => route.adapter = "openai"
                         /\ m.role = "user" => OpenIds(history) = <<>>
                         /\ Leaves(OpenIds(history), m, OpenIds(history'))
    BY <1>4, SayingLeaves
  <2>2. m.role # "developer"
    BY <2>1
  <2> QED
    BY ONLY <1>3, <2>1, <2>2
<1>5. CASE Finishes
  <2>1. PICK m \in Msg : /\ m.role = "assistant" /\ history' = Append(history, m)
                         /\ Leaves(OpenIds(history), m, OpenIds(history'))
    BY <1>5, FinishLeaves
  <2> QED
    BY <1>3, <2>1
<1>6. CASE history' = history
  BY <1>2, <1>6
<1> QED
  BY <1>4, <1>5, <1>6, TalkMoves DEF Ask, Sends, Rests

LEMMA ResultsTogetherFromKept ==
  ASSUME ChatOnly, RequestIsBuilt, NoneOpen, ResultsKept, route.adapter = "anthropic"
  PROVE  ResultsTogether
<1> SUFFICES ASSUME phase = "waiting", NEW i \in DOMAIN request.messages, CallsAt(request.messages, i) # <<>>
             PROVE  /\ i + 1 \in DOMAIN request.messages
                    /\ GivenAt(request.messages, i + 1) = CallsAt(request.messages, i)
  BY DEF ResultsTogether, Results, Called, Ofs, CallsAt, GivenAt
<1>1. history \in Seq(ChatMsg) /\ request = BuildRequest
  BY DEF ChatOnly, RequestIsBuilt
<1>2. PICK ms : ms = PlainTurns(history)
  OBVIOUS
<1>3. request.messages = ms
  BY <1>1, <1>2 DEF BuildRequest, build_anthropic_request, Request, PlainTurns
<1>4. ms \in Seq(RawTurn)
  BY <1>1, <1>2, PlainStep
<1>5. TogetherAt(ms, i, <<>>)
  BY <1>2, <1>3 DEF NoneOpen, ResultsKept, Together, OpenIds, Ids
<1>6. i \in 1..Len(ms) /\ Len(ms) \in Nat /\ DOMAIN ms = 1..Len(ms) /\ i # Len(ms)
  BY <1>3, <1>4, <1>5 DEF TogetherAt
<1>7. i + 1 \in 1..Len(ms)
  BY <1>6
<1>8. GivenAt(ms, i + 1) \in Seq(Nat)
  <2>1. ms[i + 1] \in RawTurn
    BY <1>4, <1>7
  <2> QED
    BY <2>1, RawTurnIds DEF GivenAt
<1>9. GivenAt(ms, i + 1) \o <<>> = GivenAt(ms, i + 1)
  BY <1>8, JoinNone DEF EmptyJoin
<1>10. GivenAt(ms, i + 1) = CallsAt(ms, i)
  BY <1>3, <1>5, <1>6, <1>9 DEF TogetherAt
<1> QED
  BY <1>3, <1>6, <1>7, <1>10

(* Whatever the adapter and whatever stands among the results, a request   *)
(* answers every put of every turn before the next one, and with an API   *)
(* key in one message.                                                     *)
THEOREM CallsGetAnswered == AdaptersSpec => []CallsAreAnswered
<1> DEFINE IInvCalls == TalkKept /\ NoneOpen /\ TurnsAnswered /\ ResultsKept
<1>1. AdaptersInit => IInvCalls
  <2>1. ASSUME AdaptersInit PROVE NoneOpen /\ ResultsKept
    <3>1. history = <<>> /\ phase = "client"
      BY <2>1 DEF AdaptersInit, ConversationInit
    <3>2. <<>> \in Seq(ChatMsg)
      OBVIOUS
    <3>3. PlainTurns(<<>>) = <<>>
      BY <3>2, PlainStep
    <3> QED
      BY <3>1, <3>3 DEF NoneOpen, ResultsKept, Together
  <2> QED
    BY <2>1, TalkKeptBegins, TurnsAnsweredBegin
<1>2. IInvCalls /\ [AdaptersNext]_<<conversation, own>> => IInvCalls'
  <2>1. ASSUME IInvCalls, AdaptersNext PROVE NoneOpen' /\ TurnsAnswered' /\ ResultsKept'
    <3>1. StreamTypeOK /\ TalkTypeOK /\ StreamKept /\ NamesAreFit /\ ChatOnly
      BY <2>1 DEF TalkKept, TypesHold
    <3>2. Moves
      BY <2>1, <3>1, NextMoves
    <3> QED
      BY <2>1, <3>1, <3>2, NoneOpenOn, TurnsAnsweredOn, ResultsKeptOn
  <2>2. ASSUME IInvCalls, UNCHANGED <<conversation, own>> PROVE NoneOpen' /\ TurnsAnswered' /\ ResultsKept'
    <3>1. UNCHANGED <<history, phase, route>>
      BY <2>2 DEF conversation, own
    <3> QED
      BY <2>2, <3>1 DEF NoneOpen, TurnsAnswered, ResultsKept
  <2> QED
    BY <2>1, <2>2, TalkKeptOn
<1>3. IInvCalls => CallsAreAnswered
  BY ResultsFollowFromTurns, ResultsTogetherFromKept DEF TalkKept, TypesHold, CallsAreAnswered
<1> QED
  BY <1>1, <1>2, <1>3, PTL DEF AdaptersSpec

---------------------------------------------------------------------------
(* A request finds the prompt cache: what the last one had is the          *)
(* beginning of what a request of the history would have now.              *)

StartsAs(s, t) == Len(s) <= Len(t) /\ \A i \in 1..Len(s) : s[i] = t[i]
LEMMA StartsAsLaws ==
  ASSUME NEW S, NEW s \in Seq(S), NEW t \in Seq(S)
  PROVE  /\ StartsAs(s, s)
         /\ StartsAs(s, t) => IsPrefix(s, t)
         /\ \A x \in S : StartsAs(s, t) => StartsAs(s, Append(t, x))
         /\ \A x \in S : StartsAs(t, Append(t, x))
         /\ \A x \in S : StartsAs(s, Append(t, x)) /\ Len(s) <= Len(t) => StartsAs(s, t)
         /\ \A u \in Seq(S) : StartsAs(s, t) /\ StartsAs(t, u) => StartsAs(s, u)
<1>1. PICK n, k : n = Len(s) /\ k = Len(t)
  OBVIOUS
<1>2. n \in Nat /\ k \in Nat
  BY <1>1
<1>3. StartsAs(s, s)
  BY <1>1, <1>2 DEF StartsAs
<1>4. ASSUME StartsAs(s, t) PROVE IsPrefix(s, t)
  <2>1. n <= k /\ \A i \in 1..n : s[i] = t[i]
    BY <1>1, <1>4 DEF StartsAs
  <2>2. n \in 0..n /\ n \in 0..k
    BY <1>2, <2>1
  <2>3. /\ SubSeq(s, 1, n) \in Seq(S) /\ Len(SubSeq(s, 1, n)) = n /\ \A i \in 1..n : SubSeq(s, 1, n)[i] = s[i]
    BY <1>1, <2>2, PrefixIs
  <2>4. /\ SubSeq(t, 1, n) \in Seq(S) /\ Len(SubSeq(t, 1, n)) = n /\ \A i \in 1..n : SubSeq(t, 1, n)[i] = t[i]
    BY <1>1, <2>2, PrefixIs
  <2>5. PICK a, b : a = SubSeq(s, 1, n) /\ b = SubSeq(t, 1, n)
    OBVIOUS
  <2>6. a \in Seq(S) /\ b \in Seq(S) /\ Len(a) = n /\ Len(b) = n /\ \A i \in 1..n : a[i] = b[i]
    BY <2>1, <2>3, <2>4, <2>5
  <2>7. a = b
    BY ONLY <2>6
  <2> QED
    BY <1>1, <2>1, <2>5, <2>7 DEF IsPrefix
<1>5. ASSUME NEW x \in S
      PROVE  /\ Len(Append(t, x)) = k + 1 /\ \A i \in 1..k : Append(t, x)[i] = t[i]
  BY <1>1, AppendIs
<1>6. \A x \in S : StartsAs(t, Append(t, x))
  BY <1>1, <1>2, <1>5 DEF StartsAs
<1>7. \A x \in S : StartsAs(s, t) => StartsAs(s, Append(t, x))
  <2> SUFFICES ASSUME NEW x \in S, StartsAs(s, t) PROVE StartsAs(s, Append(t, x))
    OBVIOUS
  <2>1. n <= k /\ (\A i \in 1..n : s[i] = t[i]) /\ (\A i \in 1..n : i \in 1..k)
    BY <1>1, <1>2 DEF StartsAs
  <2> QED
    BY <1>1, <1>2, <1>5, <2>1 DEF StartsAs
<1>8. \A x \in S : StartsAs(s, Append(t, x)) /\ Len(s) <= Len(t) => StartsAs(s, t)
  <2> SUFFICES ASSUME NEW x \in S, StartsAs(s, Append(t, x)), n <= k PROVE StartsAs(s, t)
    BY <1>1
  <2>1. (\A i \in 1..n : s[i] = Append(t, x)[i]) /\ (\A i \in 1..n : i \in 1..k)
    BY <1>1, <1>2 DEF StartsAs
  <2> QED
    BY <1>1, <1>2, <1>5, <2>1 DEF StartsAs
<1>9. \A u \in Seq(S) : StartsAs(s, t) /\ StartsAs(t, u) => StartsAs(s, u)
  <2> SUFFICES ASSUME NEW u \in Seq(S), StartsAs(s, t), StartsAs(t, u) PROVE StartsAs(s, u)
    OBVIOUS
  <2>1. n <= k /\ (\A i \in 1..n : s[i] = t[i] /\ i \in 1..k)
    BY <1>1, <1>2 DEF StartsAs
  <2>2. Len(u) \in Nat /\ k <= Len(u) /\ \A i \in 1..k : t[i] = u[i]
    BY <1>1 DEF StartsAs
  <2> QED
    BY <1>1, <1>2, <2>1, <2>2 DEF StartsAs
<1> QED
  BY <1>3, <1>4, <1>6, <1>7, <1>8, <1>9

(* With an API key only the message of open results may still grow.        *)
Extends(old, ms, open) == StartsAs(old, ms) /\ (open # <<>> => Len(old) < Len(ms))
LEMMA PlainExtends ==
  ASSUME NEW old \in Seq(RawTurn), NEW ms \in Seq(RawTurn), NEW new, NEW m \in Msg, PlainTurn(ms, new, m),
         NEW open, NEW next, Leaves(open, m, next), m.role = "user" => open = <<>>,
         m.role = "tool" => open # <<>>, Extends(old, ms, open)
  PROVE  Extends(old, new, next)
<1>1. Len(old) \in Nat /\ Len(ms) \in Nat
  OBVIOUS
<1>2. StartsAs(old, ms)
  BY DEF Extends
<1>3. ASSUME NEW x \in RawTurn, new = Append(ms, x) PROVE StartsAs(old, new) /\ Len(old) < Len(new)
  <2>1. StartsAs(old, new)
    BY <1>2, <1>3, StartsAsLaws
  <2>2. Len(new) = Len(ms) + 1
    BY <1>3, AppendIs
  <2> QED
    BY <1>1, <1>2, <2>1, <2>2 DEF StartsAs
<1>4. CASE m.role = "system" /\ new = ms
  BY <1>4 DEF Leaves, Extends
<1>5. CASE m.role = "user" /\ Added(ms, new, <<TextBlock(m.text)>>)
  <2>1. UserTurn(<<TextBlock(m.text)>>) \in RawTurn
    BY TextRaw DEF UserTurn, RawTurn, Msg
  <2> QED
    BY <1>3, <1>5, <2>1 DEF Added, Extends
<1>6. CASE m.role = "assistant" /\ new = Append(ms, AssistantTurn(PlainBlocks(m)))
  <2>1. AssistantTurn(PlainBlocks(m)) \in RawTurn
    BY PlainBlocksRaw DEF AssistantTurn, RawTurn
  <2> QED
    BY <1>3, <1>6, <2>1 DEF Extends
<1>7. CASE m.role = "tool" /\ Merges(RawTurn, ms, new, ResultOf(m))
  <2>1. PICK front \in Seq(RawTurn), l \in RawTurn :
          ms = Append(front, l) /\ new = Append(front, UserTurn(l.blocks \o ResultOf(m)))
    BY <1>7 DEF Merges
  <2>2. PICK x : x = UserTurn(l.blocks \o ResultOf(m))
    OBVIOUS
  <2>3. l.blocks \in Seq(Raw) /\ ResultOf(m) \in Seq(Raw)
    BY RawTurnIds, ResultIs
  <2>4. l.blocks \o ResultOf(m) \in Seq(Raw)
    BY <2>3
  <2>5. x \in RawTurn
    BY <2>2, <2>4 DEF UserTurn, RawTurn
  <2>6. Len(front) \in Nat /\ Len(ms) = Len(front) + 1 /\ Len(new) = Len(front) + 1
    BY <2>1, <2>2, <2>5, AppendIs
  <2>7. Len(old) < Len(ms)
    BY <1>7 DEF Extends
  <2>8. Len(old) <= Len(front)
    BY <1>1, <2>6, <2>7
  <2>9. StartsAs(old, front)
    BY <1>2, <2>1, <2>8, StartsAsLaws
  <2>10. StartsAs(old, new)
    BY <2>1, <2>2, <2>5, <2>9, StartsAsLaws
  <2> QED
    BY <2>6, <2>7, <2>10 DEF Extends
<1>8. CASE m.role = "tool" /\ Added(ms, new, ResultOf(m))
  <2>1. UserTurn(ResultOf(m)) \in RawTurn
    BY ResultIs DEF UserTurn, RawTurn
  <2> QED
    BY <1>3, <1>8, <2>1 DEF Added, Extends
<1> QED
  BY <1>4, <1>5, <1>6, <1>7, <1>8 DEF PlainTurn

NoNewSince(h, n) == \A i \in DOMAIN h : i > n => ~IsInstruction(h[i])
LEMMA NoNewMore ==
  ASSUME NEW h \in Seq(Msg), NEW m \in Msg, NEW n \in 0..Len(h), NoNewSince(Append(h, m), n)
  PROVE  NoNewSince(h, n) /\ ~IsInstruction(m)
<1>1. /\ Len(Append(h, m)) = Len(h) + 1 /\ Len(h) \in Nat /\ Append(h, m)[Len(h) + 1] = m
      /\ (\A i \in 1..Len(h) : Append(h, m)[i] = h[i]) /\ Append(h, m) \in Seq(Msg)
  BY AppendIs
<1>2. DOMAIN Append(h, m) = 1..Len(h) + 1 /\ DOMAIN h = 1..Len(h)
  BY <1>1
<1>3. Len(h) + 1 \in 1..Len(h) + 1 /\ Len(h) + 1 > n /\ 1..Len(h) \subseteq 1..Len(h) + 1
  BY <1>1
<1> QED
  BY <1>1, <1>2, <1>3 DEF NoNewSince

(* With an API key.                                                        *)
PlainCached(r, h, n) ==
  /\ r.messages \in Seq(RawTurn) /\ Extends(r.messages, PlainTurns(h), OpenIds(h))
  /\ NoNewSince(h, n) => r.system = convert_messages(h).system
LEMMA PlainCachedMore ==
  ASSUME NEW h \in Seq(ChatMsg), NEW m \in ChatMsg, NEW n \in 0..Len(h), NEW r, PlainCached(r, h, n),
         Leaves(OpenIds(h), m, OpenIds(Append(h, m))), m.role = "user" => OpenIds(h) = <<>>
  PROVE  PlainCached(r, Append(h, m), n)
<1>1. /\ PlainTurns(h) \in Seq(RawTurn) /\ PlainTurn(PlainTurns(h), PlainTurns(Append(h, m)), m)
      /\ m \in Msg /\ h \in Seq(Msg)
  BY PlainStep DEF ChatMsg
<1>2. m.role = "tool" => OpenIds(h) # <<>>
  <2>1. ASSUME m.role = "tool", OpenIds(h) = <<>> PROVE FALSE
    <3>1. OpenIds(Append(h, m)) \in Seq(Nat)
      <4>1. Append(h, m) \in Seq(Msg)
        BY <1>1
      <4> QED
        BY <4>1, OpenIdsTyped
    <3>2. OpenIds(h) = <<m.of>> \o OpenIds(Append(h, m))
      BY <2>1 DEF Leaves
    <3>3. m.of \in Nat
      BY <1>1 DEF Msg
    <3>4. <<m.of>> \in Seq(Nat) /\ Len(<<m.of>>) = 1
      BY <3>3
    <3>5. Len(<<m.of>> \o OpenIds(Append(h, m))) = 1 + Len(OpenIds(Append(h, m)))
      BY <3>1, <3>4
    <3>6. Len(OpenIds(Append(h, m))) \in Nat
      BY <3>1
    <3> QED
      BY <2>1, <3>2, <3>5, <3>6
  <2> QED
    BY <2>1
<1>3. Extends(r.messages, PlainTurns(Append(h, m)), OpenIds(Append(h, m)))
  BY <1>1, <1>2, PlainExtends DEF PlainCached
<1>4. ASSUME NoNewSince(Append(h, m), n) PROVE r.system = convert_messages(Append(h, m)).system
  <2>1. NoNewSince(h, n) /\ ~IsInstruction(m)
    BY <1>1, <1>4, NoNewMore
  <2>2. convert_messages(h) \in PlainConv /\ PlainMoreFor(h, m)
    BY PlainMore
  <2>3. PlainConverts(convert_messages(h), m, convert_messages(Append(h, m)))
    BY <2>2, PlainNextIs DEF PlainMoreFor
  <2> QED
    BY <2>1, <2>3 DEF PlainConverts, PlainCached, IsInstruction
<1> QED
  BY <1>3, <1>4 DEF PlainCached
LEMMA PlainCachedNow ==
  ASSUME NEW h \in Seq(ChatMsg), OpenIds(h) = <<>>
  PROVE  PlainCached(build_anthropic_request(h), h, Len(h))
<1>1. PlainTurns(h) \in Seq(RawTurn)
  BY PlainStep
<1>2. StartsAs(PlainTurns(h), PlainTurns(h))
  BY <1>1, StartsAsLaws
<1> QED
  BY <1>1, <1>2 DEF PlainCached, Extends, build_anthropic_request, Request, PlainTurns

(* Codex.                                                                  *)
CodexMoreFor(h, m) ==
  /\ CodexRequest(Append(h, m)).messages
       = IF IsInstruction(m) THEN CodexRequest(h).messages ELSE Append(CodexRequest(h).messages, InputItem(m))
  /\ ~IsInstruction(m) => CodexRequest(Append(h, m)).system = CodexRequest(h).system
LEMMA CodexTyped ==
  ASSUME NEW h \in Seq(Msg)
  PROVE  CodexRequest(h).messages \in Seq(TextTurn)
<1>1. PICK P, X : CodexTurn(P, X)
  BY DEF CodexTurn
<1>2. \A x \in Msg : P[x] \in TextTurn
  BY <1>1, InputIsText DEF TextTurns
<1>3. Among(h, X) \in Seq(Msg)
  BY AmongIs
<1>4. Each(P, Among(h, X)) \in Seq(TextTurn)
  BY <1>2, <1>3, EachIs
<1> QED
  BY <1>1, <1>4, CodexTurnsAre
LEMMA CodexMore ==
  ASSUME NEW h \in Seq(Msg), NEW m \in Msg
  PROVE  CodexMoreFor(h, m) /\ InputItem(m) \in TextTurn
<1>1. PICK P, X : CodexTurn(P, X)
  BY DEF CodexTurn
<1>2. TextTurns(P, X)
  BY <1>1, InputIsText
<1>3. Append(h, m) \in Seq(Msg) /\ P[m] = InputItem(m) /\ (m \in X <=> ~IsInstruction(m))
  BY <1>1 DEF CodexTurn
<1>4. /\ CodexRequest(h).messages = Each(P, Among(h, X))
      /\ CodexRequest(Append(h, m)).messages = Each(P, Among(Append(h, m), X))
  BY <1>1, <1>3, CodexTurnsAre
<1>5. Among(h, X) \in Seq(Msg)
  BY AmongIs
<1>8. \A s \in Seq(Msg), x \in Msg : Among(Append(s, x), X) = IF x \in X THEN Append(Among(s, X), x) ELSE Among(s, X)
  BY AmongMore
<1>6. Each(P, Append(Among(h, X), m)) = Append(Each(P, Among(h, X)), P[m])
  BY <1>5, EachMore
<1>7. \A x \in Msg : P[x] \in TextTurn
  BY <1>2 DEF TextTurns
<1>9. ASSUME ~IsInstruction(m) PROVE CodexRequest(Append(h, m)).system = CodexRequest(h).system
  <2>1. PICK I : I = {i \in DOMAIN h : IsInstruction(h[i])}
    OBVIOUS
  <2>2. {i \in DOMAIN Append(h, m) : IsInstruction(Append(h, m)[i])} = I
    <3>1. /\ Len(Append(h, m)) = Len(h) + 1 /\ Len(h) \in Nat /\ Append(h, m)[Len(h) + 1] = m
          /\ \A i \in 1..Len(h) : Append(h, m)[i] = h[i]
      BY AppendIs
    <3>2. DOMAIN Append(h, m) = 1..Len(h) + 1 /\ DOMAIN h = 1..Len(h)
      BY <1>3, <3>1
    <3>3. \A i : i \in 1..Len(h) + 1 <=> i \in 1..Len(h) \/ i = Len(h) + 1
      BY <3>1
    <3> QED
      BY <1>9, <2>1, <3>1, <3>2, <3>3
  <2>3. I \in SUBSET DOMAIN h
    BY <2>1
  <2>4. \A J \in SUBSET DOMAIN h : Only(Append(h, m), J) = Only(h, J)
    BY OnlyOfMore
  <2>5. Only(Append(h, m), I) = Only(h, I)
    BY <2>3, <2>4
  <2> QED
    BY <2>1, <2>2, <2>5 DEF CodexRequest, Request
<1>10. InputItem(m) \in TextTurn
  BY <1>3, <1>7
<1> QED
  BY <1>3, <1>4, <1>6, <1>8, <1>9, <1>10 DEF CodexMoreFor

CodexCached(r, h, n) ==
  /\ r.messages \in Seq(TextTurn) /\ StartsAs(r.messages, CodexRequest(h).messages)
  /\ NoNewSince(h, n) => r.system = CodexRequest(h).system
LEMMA CodexCachedMore ==
  ASSUME NEW h \in Seq(Msg), NEW m \in Msg, NEW n \in 0..Len(h), NEW r, CodexCached(r, h, n)
  PROVE  CodexCached(r, Append(h, m), n)
<1>1. CodexMoreFor(h, m) /\ CodexRequest(h).messages \in Seq(TextTurn) /\ InputItem(m) \in TextTurn
  BY CodexMore, CodexTyped
<1>2. r.messages \in Seq(TextTurn) /\ StartsAs(r.messages, CodexRequest(h).messages)
  BY DEF CodexCached
<1>3. StartsAs(r.messages, Append(CodexRequest(h).messages, InputItem(m)))
  BY <1>1, <1>2, StartsAsLaws
<1>4. StartsAs(r.messages, CodexRequest(Append(h, m)).messages)
  BY <1>1, <1>2, <1>3 DEF CodexMoreFor
<1>5. ASSUME NoNewSince(Append(h, m), n) PROVE r.system = CodexRequest(Append(h, m)).system
  BY <1>1, <1>5, NoNewMore DEF CodexMoreFor, CodexCached
<1> QED
  BY <1>2, <1>4, <1>5 DEF CodexCached
LEMMA CodexCachedNow ==
  ASSUME NEW h \in Seq(Msg)
  PROVE  CodexCached(CodexRequest(h), h, Len(h))
<1>1. CodexRequest(h).messages \in Seq(TextTurn)
  BY CodexTyped
<1> QED
  BY <1>1, StartsAsLaws DEF CodexCached

(* OpenAI's protocol: each message is told on its own, for the extras that *)
(* are counted out to the turns are their own.                             *)
Norm(m) == IF m.role = "developer" /\ ~route.named_openai THEN [m EXCEPT !.role = "system"] ELSE m
WireOf(m) ==
  WireMessage(Norm(m), IF route.v4 /\ m.role = "assistant" THEN Reasoning(m.extras) ELSE NoField)
LEMMA OrdinalIs ==
  ASSUME NEW hs \in Seq(Msg), NEW j \in 1..Len(hs), NEW J, J = {i \in 1..Len(hs) : hs[i].role = "assistant"}
  PROVE  Ordinal(Normalized(hs), j) = Cardinality(UpTo(J, j))
<1>1. PICK normal : normal = Normalized(hs)
  OBVIOUS
<1>2. Len(hs) \in Nat /\ DOMAIN hs = 1..Len(hs) /\ \A i \in 1..Len(hs) : hs[i] \in Msg
  OBVIOUS
<1>3. normal = [i \in 1..Len(hs) |-> Norm(hs[i])]
  BY <1>1, <1>2 DEF Normalized, Norm
<1>4. \A i \in 1..Len(hs) : /\ normal[i] \in Msg
                            /\ normal[i].role = "assistant" <=> hs[i].role = "assistant"
  <2>1. ASSUME NEW x \in Msg PROVE Norm(x) \in Msg /\ (Norm(x).role = "assistant" <=> x.role = "assistant")
    BY <2>1 DEF Norm, Msg
  <2> QED
    BY <1>2, <1>3, <2>1
<1>5. normal \in Seq(Msg) /\ Len(normal) = Len(hs)
  <2>1. \A i \in 1..Len(hs) : Norm(hs[i]) \in Msg
    BY <1>3, <1>4
  <2> QED
    BY <1>2, <1>3, <2>1
<1>6. PICK front : front = SubSeq(normal, 1, j)
  OBVIOUS
<1>7. front \in Seq(Msg) /\ Len(front) = j /\ \A i \in 1..j : front[i] = normal[i]
  BY <1>5, <1>6, PrefixIs
<1>8. PICK I : I = {i \in DOMAIN front : front[i].role = "assistant"}
  OBVIOUS
<1>9. I \in SUBSET DOMAIN front
  BY <1>8
<1>10. Len(Only(front, I)) = Cardinality(I)
  BY <1>7, <1>9, OnlyIs
<1>11. I = UpTo(J, j)
  <2>1. DOMAIN front = 1..j
    BY <1>7
  <2>2. ASSUME NEW i PROVE i \in 1..j <=> i \in 1..Len(hs) /\ i <= j
    BY <1>2
  <2>3. ASSUME NEW i PROVE i \in I <=> i \in UpTo(J, j)
    BY <1>4, <1>7, <1>8, <2>1, <2>2 DEF UpTo
  <2> QED
    BY <2>3
<1>12. Ordinal(normal, j) = Len(Only(front, I))
  BY <1>6, <1>8 DEF Ordinal, Assistants
<1> QED
  BY <1>1, <1>10, <1>11, <1>12
LEMMA WireAt ==
  ASSUME NEW hs \in Seq(Msg)
  PROVE  to_wire_value(hs) = [i \in 1..Len(hs) |-> WireOf(hs[i])]
<1>2. Len(hs) \in Nat /\ DOMAIN hs = 1..Len(hs) /\ \A i \in 1..Len(hs) : hs[i] \in Msg
  OBVIOUS
<1>3. PICK normal : normal = Normalized(hs)
  OBVIOUS
<1>4. /\ DOMAIN normal = 1..Len(hs)
      /\ \A i \in 1..Len(hs) : normal[i] = Norm(hs[i]) /\ (normal[i].role = "assistant" <=> hs[i].role = "assistant")
  <2>1. normal = [i \in 1..Len(hs) |-> Norm(hs[i])]
    BY <1>2, <1>3 DEF Normalized, Norm
  <2>2. ASSUME NEW x \in Msg PROVE Norm(x).role = "assistant" <=> x.role = "assistant"
    BY <2>2 DEF Norm, Msg
  <2> QED
    BY <1>2, <2>1, <2>2
<1>5. PICK kept : kept = assistant_extras(hs)
  OBVIOUS
<1>6. PICK wire : wire = to_wire_value(hs)
  OBVIOUS
<1>7. wire = [i \in 1..Len(hs) |->
                WireMessage(normal[i],
                  IF route.v4 /\ normal[i].role = "assistant"
                  THEN IF Ordinal(normal, i) \in DOMAIN kept THEN Reasoning(kept[Ordinal(normal, i)]) ELSE <<>>
                  ELSE NoField)]
  BY <1>3, <1>4, <1>5, <1>6 DEF to_wire_value
<1>8. PICK J : J = {i \in 1..Len(hs) : hs[i].role = "assistant"}
  OBVIOUS
<1>9. J \in SUBSET DOMAIN hs
  BY <1>2, <1>8
<1>10. /\ IsFiniteSet(J) /\ J \in SUBSET Nat /\ Cardinality(J) \in Nat
       /\ Only(hs, J) = [i \in 1..Cardinality(J) |-> hs[Place(J, i)]]
  BY <1>9, OnlyIs
<1>11. Assistants(hs) = [i \in 1..Cardinality(J) |-> hs[Place(J, i)]]
  <2>1. Assistants(hs) = Only(hs, J)
    BY <1>2, <1>8 DEF Assistants
  <2> QED
    BY <1>10, <2>1
<1>12. kept = [i \in 1..Cardinality(J) |-> hs[Place(J, i)].extras]
  BY <1>5, <1>11 DEF assistant_extras
<1>13. ASSUME NEW j \in 1..Len(hs), hs[j].role = "assistant"
       PROVE  Ordinal(normal, j) \in DOMAIN kept /\ kept[Ordinal(normal, j)] = hs[j].extras
  <2>1. j \in J
    BY <1>8, <1>13
  <2>2. Ordinal(normal, j) = Cardinality(UpTo(J, j))
    BY <1>3, <1>8, OrdinalIs
  <2>3. Cardinality(UpTo(J, j)) \in 1..Cardinality(J)
    BY <1>10, <2>1, UpToGrows
  <2>4. Place(J, Cardinality(UpTo(J, j))) = j
    BY <1>10, <2>1, PlaceIsKth
  <2> QED
    BY <1>12, <2>2, <2>3, <2>4
<1>14. ASSUME NEW j \in 1..Len(hs) PROVE wire[j] = WireOf(hs[j])
  <2>1. wire[j] = WireMessage(normal[j],
                    IF route.v4 /\ hs[j].role = "assistant"
                    THEN IF Ordinal(normal, j) \in DOMAIN kept THEN Reasoning(kept[Ordinal(normal, j)]) ELSE <<>>
                    ELSE NoField)
    BY <1>4, <1>7
  <2> QED
    BY <1>4, <1>13, <2>1 DEF WireOf
<1> QED
  BY ONLY <1>6, <1>7, <1>14

WireTurn == {WireOf(m) : m \in Msg}
LEMMA WireMoreIs ==
  ASSUME NEW h \in Seq(Msg)
  PROVE  /\ to_wire_value(h) \in Seq(WireTurn)
         /\ \A m \in Msg : /\ WireOf(m) \in WireTurn
                           /\ to_wire_value(Append(h, m)) = Append(to_wire_value(h), WireOf(m))
<1>1. PICK F : F = [m \in Msg |-> WireOf(m)]
  OBVIOUS
<1>2. \A m \in Msg : F[m] = WireOf(m) /\ F[m] \in WireTurn
  BY <1>1 DEF WireTurn
<1>3. ASSUME NEW s \in Seq(Msg) PROVE to_wire_value(s) = Each(F, s)
  <2>1. to_wire_value(s) = [i \in 1..Len(s) |-> WireOf(s[i])]
    BY WireAt
  <2>2. DOMAIN s = 1..Len(s) /\ \A i \in 1..Len(s) : s[i] \in Msg
    OBVIOUS
  <2>3. Each(F, s) = [i \in 1..Len(s) |-> F[s[i]]]
    BY <2>2 DEF Each
  <2> QED
    BY <1>2, <2>1, <2>2, <2>3
<1>4. Each(F, h) \in Seq(WireTurn)
  BY <1>2, EachIs
<1>5. ASSUME NEW m \in Msg PROVE Each(F, Append(h, m)) = Append(Each(F, h), F[m])
  BY EachMore
<1>6. ASSUME NEW m \in Msg PROVE to_wire_value(Append(h, m)) = Append(to_wire_value(h), WireOf(m))
  <2>1. Append(h, m) \in Seq(Msg)
    OBVIOUS
  <2>2. to_wire_value(Append(h, m)) = Each(F, Append(h, m)) /\ to_wire_value(h) = Each(F, h)
    BY <1>3, <2>1
  <2> QED
    BY <1>2, <1>5, <2>2
<1> QED
  BY <1>2, <1>3, <1>4, <1>6

WireCached(r, h) ==
  r.system = <<>> /\ r.messages \in Seq(WireTurn) /\ StartsAs(r.messages, to_wire_value(h))
LEMMA WireCachedMore ==
  ASSUME NEW h \in Seq(Msg), NEW m \in Msg, NEW r, WireCached(r, h)
  PROVE  WireCached(r, Append(h, m))
<1>1. /\ to_wire_value(h) \in Seq(WireTurn) /\ WireOf(m) \in WireTurn
      /\ to_wire_value(Append(h, m)) = Append(to_wire_value(h), WireOf(m))
  BY WireMoreIs
<1>2. r.messages \in Seq(WireTurn) /\ StartsAs(r.messages, to_wire_value(h))
  BY DEF WireCached
<1>3. StartsAs(r.messages, Append(to_wire_value(h), WireOf(m)))
  BY <1>1, <1>2, StartsAsLaws
<1> QED
  BY <1>1, <1>3 DEF WireCached
LEMMA WireCachedNow ==
  ASSUME NEW h \in Seq(Msg)
  PROVE  WireCached(Request(<<>>, to_wire_value(h), {}), h)
<1>1. to_wire_value(h) \in Seq(WireTurn)
  BY WireMoreIs
<1> QED
  BY <1>1, StartsAsLaws DEF WireCached, Request

(* The key that ties the requests together.                                *)
LEMMA MinStays ==
  ASSUME NEW I \in SUBSET Nat, NEW J \in SUBSET Nat, I # {}, I \subseteq J,
         \A j \in J \ I : \A i \in I : i <= j
  PROVE  Min(J) = Min(I) /\ Min(I) \in I
<1>1. PICK a \in I : \A y \in I : a <= y
  BY LeastNatural
<1>2. \A y \in J : a <= y
  BY <1>1
<1>3. \A x \in I : (\A y \in I : x <= y) => x = a
  BY <1>1
<1>4. \A x \in J : (\A y \in J : x <= y) => x = a
  BY <1>1, <1>2
<1>5. Min(I) = a
  BY <1>1, <1>3 DEF Min
<1>6. Min(J) = a
  BY <1>1, <1>2, <1>4 DEF Min
<1> QED
  BY <1>1, <1>5, <1>6
InstructionsIn(h) == {i \in 1..Len(h) : IsInstruction(h[i])}
UsersIn(h) == {i \in 1..Len(h) : h[i].role = "user"}
LEMMA FirstTexts ==
  ASSUME NEW h
  PROVE  /\ leading_system_text(h) = IF InstructionsIn(h) = {} THEN <<>>
                                     ELSE IF Min(InstructionsIn(h)) = 0 THEN <<>> ELSE h[Min(InstructionsIn(h))].text
         /\ first_user_text(h) = IF UsersIn(h) = {} THEN <<>>
                                 ELSE IF Min(UsersIn(h)) = 0 THEN <<>> ELSE h[Min(UsersIn(h))].text
<1>1. leading_system_text(h) = IF InstructionsIn(h) = {} THEN <<>>
                               ELSE IF Min(InstructionsIn(h)) = 0 THEN <<>> ELSE h[Min(InstructionsIn(h))].text
  BY DEF leading_system_text, FirstText, SelectInSeq, InstructionsIn
<1>2. first_user_text(h) = IF UsersIn(h) = {} THEN <<>>
                           ELSE IF Min(UsersIn(h)) = 0 THEN <<>> ELSE h[Min(UsersIn(h))].text
  BY DEF first_user_text, FirstText, SelectInSeq, UsersIn
<1> QED
  BY <1>1, <1>2
LEMMA KeyStays ==
  ASSUME NEW h \in Seq(Msg), NEW m \in Msg, ~IsInstruction(m), NEW own_key,
         conversation_key(h, own_key) # NoKey
  PROVE  conversation_key(Append(h, m), own_key) = conversation_key(h, own_key)
<1>1. /\ Len(Append(h, m)) = Len(h) + 1 /\ Len(h) \in Nat /\ Append(h, m)[Len(h) + 1] = m
      /\ \A i \in 1..Len(h) : Append(h, m)[i] = h[i]
  BY AppendIs
<1>2. \A i : i \in 1..Len(h) + 1 <=> i \in 1..Len(h) \/ i = Len(h) + 1
  BY <1>1
<1>3. DOMAIN h = 1..Len(h) /\ DOMAIN Append(h, m) = 1..Len(h) + 1
  <2>1. Append(h, m) \in Seq(Msg)
    OBVIOUS
  <2> QED
    BY <1>1, <2>1
<1>4. InstructionsIn(Append(h, m)) = InstructionsIn(h)
  BY <1>1, <1>2 DEF InstructionsIn
<1>5. CASE own_key
  BY <1>5 DEF conversation_key
<1>6. CASE ~own_key
  <2>1. \E x \in ToSet(h) : x.role = "user"
    BY <1>6 DEF conversation_key
  <2>2. PICK u \in 1..Len(h) : h[u].role = "user"
    BY <1>3, <2>1 DEF ToSet
  <2>3. \E x \in ToSet(Append(h, m)) : x.role = "user"
    <3>1. u \in DOMAIN Append(h, m) /\ Append(h, m)[u].role = "user"
      BY <1>1, <1>2, <1>3, <2>2
    <3> QED
      BY <3>1 DEF ToSet
  <2>4. UsersIn(h) \in SUBSET Nat /\ UsersIn(Append(h, m)) \in SUBSET Nat
    BY <1>1 DEF UsersIn
  <2>5. u \in UsersIn(h) /\ u \in UsersIn(Append(h, m))
    BY <1>1, <1>2, <2>2 DEF UsersIn
  <2>6. UsersIn(h) \subseteq UsersIn(Append(h, m))
    BY <1>1, <1>2 DEF UsersIn
  <2>7. \A j \in UsersIn(Append(h, m)) \ UsersIn(h) : \A i \in UsersIn(h) : i <= j
    <3>1. \A j \in UsersIn(Append(h, m)) \ UsersIn(h) : j = Len(h) + 1
      BY <1>1, <1>2 DEF UsersIn
    <3> QED
      BY <1>1, <3>1 DEF UsersIn
  <2>8. Min(UsersIn(Append(h, m))) = Min(UsersIn(h)) /\ Min(UsersIn(h)) \in UsersIn(h)
    BY <2>4, <2>5, <2>6, <2>7, MinStays
  <2>9. first_user_text(Append(h, m)) = first_user_text(h)
    <3>1. Append(h, m)[Min(UsersIn(h))] = h[Min(UsersIn(h))]
      BY <1>1, <2>8 DEF UsersIn
    <3> QED
      BY <2>5, <2>8, <3>1, FirstTexts
  <2>10. leading_system_text(Append(h, m)) = leading_system_text(h)
    <3>1. CASE InstructionsIn(h) = {}
      BY <1>4, <3>1, FirstTexts
    <3>2. CASE InstructionsIn(h) # {}
      <4>1. InstructionsIn(h) \in SUBSET Nat
        BY <1>1 DEF InstructionsIn
      <4>2. Min(InstructionsIn(h)) \in InstructionsIn(h)
        BY <3>2, <4>1, MinStays
      <4>3. Append(h, m)[Min(InstructionsIn(h))] = h[Min(InstructionsIn(h))]
        BY <1>1, <4>2 DEF InstructionsIn
      <4> QED
        BY <1>4, <4>3, FirstTexts
    <3> QED
      BY <3>1, <3>2
  <2> QED
    BY <1>6, <2>1, <2>3, <2>9, <2>10 DEF conversation_key
<1> QED
  BY <1>5, <1>6

KeyOf(h) ==
  IF route.adapter = "codex" \/ route.hint THEN conversation_key(h, route.client_key) ELSE NoKey
KeyCached(key, h, n) == key # NoKey /\ NoNewSince(h, n) => KeyOf(h) = key
LEMMA KeyCachedMore ==
  ASSUME NEW h \in Seq(Msg), NEW m \in Msg, NEW n \in 0..Len(h), NEW key, KeyCached(key, h, n)
  PROVE  KeyCached(key, Append(h, m), n)
<1> SUFFICES ASSUME key # NoKey, NoNewSince(Append(h, m), n) PROVE KeyOf(Append(h, m)) = key
  BY DEF KeyCached
<1>1. NoNewSince(h, n) /\ ~IsInstruction(m)
  BY NoNewMore
<1>2. KeyOf(h) = key
  BY <1>1 DEF KeyCached
<1> QED
  BY <1>1, <1>2, KeyStays DEF KeyOf

(* The OAuth adapter: only the last message of a request may still grow,   *)
(* and what comes before it is what was converted without it.              *)
LEMMA FrontOfMore ==
  ASSUME NEW S, NEW s \in Seq(S), NEW x \in S
  PROVE  Front(Append(s, x)) = s
<1>1. PICK t : t = Append(s, x)
  OBVIOUS
<1>2. t \in Seq(S) /\ Len(t) = Len(s) + 1 /\ Len(s) \in Nat /\ \A i \in 1..Len(s) : t[i] = s[i]
  BY <1>1, AppendIs
<1>3. Len(t) - 1 = Len(s) /\ Len(s) \in 0..Len(t)
  BY <1>2
<1>4. PICK f : f = SubSeq(t, 1, Len(s))
  OBVIOUS
<1>5. f \in Seq(S) /\ Len(f) = Len(s) /\ \A i \in 1..Len(s) : f[i] = t[i]
  BY <1>2, <1>3, <1>4, PrefixIs
<1>6. f \in Seq(S) /\ s \in Seq(S) /\ Len(f) = Len(s) /\ \A i \in 1..Len(s) : f[i] = s[i]
  BY <1>2, <1>5
<1>7. f = s
  BY ONLY <1>6
<1> QED
  BY <1>1, <1>3, <1>4, <1>7 DEF Front
OneMore(f, ms) == ms = f \/ \E x \in RawTurn : ms = Append(f, x)
LEMMA SentOneMore ==
  ASSUME NEW f \in Seq(RawTurn), NEW ms, OneMore(f, ms)
  PROVE  /\ ms \in Seq(RawTurn) /\ AsSent(ms) \in Seq(Turn) /\ AsSent(f) \in Seq(Turn)
         /\ StartsAs(AsSent(f), AsSent(ms))
         /\ AsSent(ms) # <<>> => /\ Front(AsSent(ms)) \in Seq(Turn)
                                 /\ StartsAs(Front(AsSent(ms)), AsSent(f))
<1>1. AsSent(f) \in Seq(Turn) /\ StartsAs(AsSent(f), AsSent(f))
  BY AsSentMore, StartsAsLaws
<1>2. CASE AsSent(ms) = AsSent(f) /\ ms \in Seq(RawTurn)
  <2>1. ASSUME AsSent(f) # <<>>
        PROVE  Front(AsSent(f)) \in Seq(Turn) /\ StartsAs(Front(AsSent(f)), AsSent(f))
    <3>1. PICK front \in Seq(Turn), l \in Turn : AsSent(f) = Append(front, l)
      BY <1>1, <2>1, FrontIs
    <3>2. Front(AsSent(f)) = front
      BY <3>1, FrontOfMore
    <3> QED
      BY <3>1, <3>2, StartsAsLaws
  <2> QED
    BY <1>1, <1>2, <2>1
<1>3. ASSUME NEW x \in RawTurn, ms = Append(f, x), AsSent(ms) = Append(AsSent(f), AsTurn(x))
      PROVE  /\ AsSent(ms) \in Seq(Turn) /\ StartsAs(AsSent(f), AsSent(ms))
             /\ Front(AsSent(ms)) = AsSent(f)
  <2>1. AsTurn(x) \in Turn
    BY TurnSent
  <2> QED
    BY <1>1, <1>3, <2>1, AppendIs, StartsAsLaws, FrontOfMore
<1>4. CASE \E x \in RawTurn : ms = Append(f, x)
  <2>1. PICK x \in RawTurn : ms = Append(f, x)
    BY <1>4
  <2>2. ms \in Seq(RawTurn)
    BY <2>1
  <2>3. SentMoreFor(f, x)
    BY AsSentMore
  <2>4. CASE AsSent(ms) = AsSent(f)
    BY <1>2, <2>2, <2>4
  <2>5. CASE AsSent(ms) = Append(AsSent(f), AsTurn(x))
    BY <1>1, <1>3, <2>1, <2>2, <2>5
  <2> QED
    BY <2>1, <2>3, <2>4, <2>5 DEF SentMoreFor
<1> QED
  BY <1>2, <1>4 DEF OneMore

Firm(ms) == IF ms # <<>> /\ Last(ms).role = "user" THEN Front(ms) ELSE ms
LEMMA FirmIs ==
  ASSUME NEW ms \in Seq(RawTurn)
  PROVE  /\ Firm(ms) \in Seq(RawTurn) /\ OneMore(Firm(ms), ms)
         /\ \A x \in RawTurn : Firm(Append(ms, x)) = IF x.role = "user" THEN ms ELSE Append(ms, x)
<1>1. ASSUME NEW x \in RawTurn PROVE Firm(Append(ms, x)) = IF x.role = "user" THEN ms ELSE Append(ms, x)
  <2>1. Append(ms, x) # <<>> /\ Last(Append(ms, x)) = x
    BY AppendEnds
  <2>2. Front(Append(ms, x)) = ms
    BY FrontOfMore
  <2> QED
    BY <2>1, <2>2 DEF Firm
<1>2. CASE ms # <<>> /\ Last(ms).role = "user"
  <2>1. PICK front \in Seq(RawTurn), l \in RawTurn : ms = Append(front, l)
    BY <1>2, FrontIs
  <2>2. Front(ms) = front
    BY <2>1, FrontOfMore
  <2> QED
    BY <1>1, <1>2, <2>1, <2>2 DEF Firm, OneMore
<1>3. CASE ~(ms # <<>> /\ Last(ms).role = "user")
  BY <1>1, <1>3 DEF Firm, OneMore
<1> QED
  BY <1>2, <1>3
LEMMA UserTurnRaw ==
  ASSUME NEW bs \in Seq(Raw)
  PROVE  UserTurn(bs) \in RawTurn /\ UserTurn(bs).role = "user" /\ AssistantTurn(bs) \in RawTurn
         /\ AssistantTurn(bs).role = "assistant"
BY DEF UserTurn, RawTurn, AssistantTurn
LEMMA FirmOfGrown ==
  ASSUME NEW ms \in Seq(RawTurn), NEW new, NEW bs \in Seq(Raw)
  PROVE  /\ Added(ms, new, bs) => Firm(new) = ms /\ OneMore(ms, new) /\ new # <<>>
         /\ Merges(RawTurn, ms, new, bs) => Firm(new) = Firm(ms) /\ OneMore(Firm(ms), new) /\ new # <<>>
<1>1. ASSUME Added(ms, new, bs) PROVE Firm(new) = ms /\ OneMore(ms, new) /\ new # <<>>
  <2>1. UserTurn(bs) \in RawTurn /\ UserTurn(bs).role = "user" /\ new = Append(ms, UserTurn(bs))
    BY <1>1, UserTurnRaw DEF Added
  <2>2. new # <<>>
    BY <2>1, AppendEnds
  <2> QED
    BY <2>1, <2>2, FirmIs DEF OneMore
<1>2. ASSUME Merges(RawTurn, ms, new, bs)
      PROVE  Firm(new) = Firm(ms) /\ OneMore(Firm(ms), new) /\ new # <<>>
  <2>1. PICK front \in Seq(RawTurn), l \in RawTurn :
          ms = Append(front, l) /\ l.role = "user" /\ new = Append(front, UserTurn(l.blocks \o bs))
    BY <1>2 DEF Merges
  <2>2. l.blocks \in Seq(Raw)
    BY RawTurnIds
  <2>3. l.blocks \o bs \in Seq(Raw)
    BY <2>2
  <2>4. UserTurn(l.blocks \o bs) \in RawTurn /\ UserTurn(l.blocks \o bs).role = "user"
    BY <2>3, UserTurnRaw
  <2>5. new # <<>>
    BY <2>1, <2>4, AppendEnds
  <2>6. Firm(ms) = front /\ Firm(new) = front
    BY <2>1, <2>4, FirmIs
  <2> QED
    BY <2>1, <2>4, <2>5, <2>6 DEF OneMore
<1> QED
  BY <1>1, <1>2

FirmGrowsFor(c, d) ==
  /\ StartsAs(AsSent(Firm(c.messages)), AsSent(Firm(d.messages)))
  /\ c.messages # <<>> => d.messages # <<>> /\ d.system = c.system
  /\ (c.messages = <<>> => c.pending = <<>>) => (d.messages = <<>> => d.pending = <<>>)
LEMMA FirmGrows ==
  ASSUME NEW c \in Conv, NEW m \in ChatMsg, NEW d, ConvertsTo(c, m, d)
  PROVE  FirmGrowsFor(c, d)
<1>1. PICK ms, f : ms = c.messages /\ f = Firm(ms)
  OBVIOUS
<1>2. ms \in Seq(RawTurn) /\ f \in Seq(RawTurn) /\ OneMore(f, ms)
  BY <1>1, FirmIs DEF Conv
<1>3. AsSent(f) \in Seq(Turn) /\ AsSent(ms) \in Seq(Turn) /\ StartsAs(AsSent(f), AsSent(ms))
  BY <1>2, SentOneMore
<1>4. StartsAs(AsSent(f), AsSent(f))
  BY <1>3, StartsAsLaws
<1>5. ASSUME NEW bs \in Seq(Raw), Grown(ms, d.messages, bs)
      PROVE  StartsAs(AsSent(f), AsSent(Firm(d.messages))) /\ d.messages # <<>>
  <2>1. CASE Added(ms, d.messages, bs)
    BY <1>2, <1>3, <2>1, FirmOfGrown
  <2>2. CASE Merges(RawTurn, ms, d.messages, bs)
    BY <1>1, <1>2, <1>4, <2>2, FirmOfGrown
  <2> QED
    BY <1>5, <2>1, <2>2 DEF Grown
<1>6. CASE m.role = "system" /\ SystemConverts(c, d)
  BY <1>1, <1>4, <1>6 DEF SystemConverts, FirmGrowsFor
<1>7. CASE m.role = "user" /\ UserConverts(c, d)
  <2>1. d.system = c.system
    BY <1>7 DEF UserConverts
  <2>2. PICK bs \in Seq(Raw) : Added(ms, d.messages, bs)
    BY <1>1, <1>7 DEF UserConverts
  <2>3. Grown(ms, d.messages, bs)
    BY <2>2 DEF Grown
  <2> QED
    BY <1>1, <1>5, <2>1, <2>3 DEF FirmGrowsFor
<1>8. CASE m.role = "tool" /\ ToolConverts(c, d, m.of)
  <2>1. d.system = c.system
    BY <1>8 DEF ToolConverts
  <2>2. PICK bs \in Seq(Raw) : Grown(ms, d.messages, bs)
    BY <1>1, <1>8 DEF ToolConverts
  <2> QED
    BY <1>1, <1>5, <2>1, <2>2 DEF FirmGrowsFor
<1>9. CASE m.role = "assistant" /\ AssistantConverts(c, d, m)
  <2>1. d.system = c.system /\ d.messages = Append(ms, AssistantTurn(AssistantBlocks(m)))
    BY <1>1, <1>9 DEF AssistantConverts, AssistantTurn
  <2>2. m \in Msg
    BY DEF ChatMsg
  <2>3. AssistantBlocks(m) \in Seq(Raw)
    BY <2>2, AssistantRaw
  <2>4. AssistantTurn(AssistantBlocks(m)) \in RawTurn /\ AssistantTurn(AssistantBlocks(m)).role = "assistant"
    BY <2>3, UserTurnRaw
  <2>5. Firm(d.messages) = d.messages
    BY <1>2, <2>1, <2>4, FirmIs
  <2>6. d.messages # <<>>
    BY <1>2, <2>1, <2>4, AppendEnds
  <2>7. OneMore(ms, d.messages)
    BY <2>1, <2>4 DEF OneMore
  <2>8. AsSent(d.messages) \in Seq(Turn) /\ StartsAs(AsSent(ms), AsSent(d.messages))
    BY <1>2, <2>7, SentOneMore
  <2>9. StartsAs(AsSent(f), AsSent(d.messages))
    BY <1>3, <2>8, StartsAsLaws
  <2> QED
    BY <1>1, <2>1, <2>5, <2>6, <2>9 DEF FirmGrowsFor
<1> QED
  BY <1>6, <1>7, <1>8, <1>9 DEF ConvertsTo
LEMMA FirmOfFlushed ==
  ASSUME NEW c \in Conv
  PROVE  OneMore(Firm(c.messages), Flushed(c).messages)
<1>1. PICK d : d = Flushed(c)
  OBVIOUS
<1>2. c.messages \in Seq(RawTurn) /\ FlushesTo(c, d)
  BY <1>1, FlushedIs DEF Conv
<1>3. PICK bs \in Seq(Raw) :
        \/ bs = <<>> /\ d.messages = c.messages
        \/ EndsWithUser(c) /\ Merges(RawTurn, c.messages, d.messages, bs)
        \/ ~EndsWithUser(c) /\ Added(c.messages, d.messages, bs)
  BY <1>2 DEF FlushesTo
<1>4. CASE d.messages = c.messages
  BY <1>1, <1>2, <1>4, FirmIs
<1>5. CASE Merges(RawTurn, c.messages, d.messages, bs)
  BY <1>1, <1>2, <1>5, FirmOfGrown
<1>6. CASE ~EndsWithUser(c) /\ Added(c.messages, d.messages, bs)
  <2>1. Firm(c.messages) = c.messages
    BY <1>6 DEF Firm, EndsWithUser
  <2> QED
    BY <1>1, <1>2, <1>6, <2>1, FirmOfGrown
<1> QED
  BY <1>3, <1>4, <1>5, <1>6

FirmTurns(h) == AsSent(Firm(Converted(h).messages))
LEMMA NothingPending ==
  ASSUME NEW h \in Seq(ChatMsg)
  PROVE  Converted(h).messages = <<>> => Converted(h).pending = <<>>
<1> DEFINE T == {s \in Seq(ChatMsg) : Converted(s).messages = <<>> => Converted(s).pending = <<>>}
<1>1. <<>> \in T
  BY ConvertedMore, NotYetTyped
<1>2. ASSUME NEW s \in Seq(ChatMsg), NEW m \in ChatMsg, s \in T PROVE Append(s, m) \in T
  <2>1. Converted(s) \in Conv /\ ConvertedMoreFor(s, m)
    BY ConvertedMore
  <2>2. ConvertsTo(Converted(s), m, Converted(Append(s, m)))
    BY <2>1, ConvertNextIs DEF ConvertedMoreFor
  <2>3. FirmGrowsFor(Converted(s), Converted(Append(s, m)))
    BY <2>1, <2>2, FirmGrows
  <2> QED
    BY <1>2, <2>3 DEF FirmGrowsFor
<1>3. \A s \in Seq(ChatMsg), m \in ChatMsg : s \in T => Append(s, m) \in T
  BY <1>2
<1> HIDE DEF T
<1>4. \A s \in Seq(ChatMsg) : s \in T
  BY <1>1, <1>3, EverySequence
<1> QED
  BY <1>4 DEF T
ClaudeCached(r, h) ==
  /\ r.messages \in Seq(Turn) /\ r.messages # <<>>
  /\ Front(r.messages) \in Seq(Turn) /\ StartsAs(Front(r.messages), FirmTurns(h))
  /\ Converted(h).messages # <<>> /\ r.system = Converted(h).system
  /\ r.marked = Marked(r.messages)
LEMMA ClaudeCachedMore ==
  ASSUME NEW h \in Seq(ChatMsg), NEW m \in ChatMsg, NEW r, ClaudeCached(r, h)
  PROVE  ClaudeCached(r, Append(h, m))
<1>1. Converted(h) \in Conv /\ ConvertedMoreFor(h, m)
  BY ConvertedMore
<1>2. ConvertsTo(Converted(h), m, Converted(Append(h, m))) /\ Converted(Append(h, m)) \in Conv
  BY <1>1, ConvertNextIs DEF ConvertedMoreFor
<1>3. FirmGrowsFor(Converted(h), Converted(Append(h, m)))
  BY <1>1, <1>2, FirmGrows
<1>4. ASSUME NEW c \in Conv PROVE AsSent(Firm(c.messages)) \in Seq(Turn)
  BY FirmIs, AsSentMore DEF Conv
<1>5. FirmTurns(h) \in Seq(Turn) /\ FirmTurns(Append(h, m)) \in Seq(Turn)
  BY <1>1, <1>2, <1>4 DEF FirmTurns
<1>6. StartsAs(Front(r.messages), FirmTurns(Append(h, m)))
  <2>1. StartsAs(FirmTurns(h), FirmTurns(Append(h, m)))
    BY <1>3 DEF FirmGrowsFor, FirmTurns
  <2>2. Front(r.messages) \in Seq(Turn) /\ StartsAs(Front(r.messages), FirmTurns(h))
    BY DEF ClaudeCached
  <2> QED
    BY <1>5, <2>1, <2>2, StartsAsLaws
<1> QED
  BY <1>3, <1>6 DEF FirmGrowsFor, ClaudeCached
LEMMA ClaudeTurns ==
  ASSUME NEW h \in Seq(ChatMsg)
  PROVE  /\ OneMore(Firm(Converted(h).messages), Convert(h).messages)
         /\ Firm(Converted(h).messages) \in Seq(RawTurn)
         /\ build_request(h).messages = AsSent(Convert(h).messages)
<1>1. Converted(h) \in Conv
  BY ConvertedMore
<1> QED
  BY <1>1, FirmOfFlushed, FirmIs DEF Convert, Conv, build_request, AsSent
LEMMA ClaudeCachedNow ==
  ASSUME NEW h \in Seq(ChatMsg), build_request(h).messages # <<>>
  PROVE  ClaudeCached(build_request(h), h)
<1>1. PICK f, ms, r : f = Firm(Converted(h).messages) /\ ms = Convert(h).messages /\ r = build_request(h)
  OBVIOUS
<1>2. f \in Seq(RawTurn) /\ OneMore(f, ms) /\ r.messages = AsSent(ms) /\ r.messages # <<>>
  BY <1>1, ClaudeTurns
<1>3. /\ r.messages \in Seq(Turn) /\ Front(r.messages) \in Seq(Turn)
      /\ StartsAs(Front(r.messages), AsSent(f))
  BY <1>2, SentOneMore
<1>4. r.system = Converted(h).system /\ r.marked = Marked(r.messages)
  BY <1>1, ClaudeRequestIs DEF ClaudeRequest
<1>5. Converted(h).messages # <<>>
  <2>1. ASSUME Converted(h).messages = <<>> PROVE FALSE
    <3>1. Converted(h) \in Conv /\ Converted(h).pending = <<>>
      BY <2>1, ConvertedMore, NothingPending
    <3>2. Flushed(Converted(h)) = Converted(h)
      BY <3>1, FlushedIs
    <3>3. ms = <<>>
      BY <1>1, <2>1, <3>2 DEF Convert
    <3> QED
      BY <1>2, <3>3, AsSentMore
  <2> QED
    BY <2>1
<1> QED
  BY <1>1, <1>2, <1>3, <1>4, <1>5 DEF ClaudeCached, FirmTurns

(* The message before the last carries a breakpoint, and is there.         *)
LEMMA CacheIsFound ==
  ASSUME NEW h \in Seq(ChatMsg), NEW r, ClaudeCached(r, h), Len(r.messages) > 1
  PROVE  /\ build_request(h).system = r.system
         /\ \E i \in r.marked : IsPrefix(SubSeq(r.messages, 1, i), build_request(h).messages)
<1>1. build_request(h).system = r.system
  BY ClaudeRequestIs DEF ClaudeRequest, ClaudeCached
<1>2. PICK f, ms : f = Firm(Converted(h).messages) /\ ms = Convert(h).messages
  OBVIOUS
<1>3. f \in Seq(RawTurn) /\ OneMore(f, ms) /\ build_request(h).messages = AsSent(ms)
  BY <1>2, ClaudeTurns
<1>4. AsSent(f) \in Seq(Turn) /\ AsSent(ms) \in Seq(Turn) /\ StartsAs(AsSent(f), AsSent(ms))
  BY <1>3, SentOneMore
<1>5. Front(r.messages) \in Seq(Turn) /\ StartsAs(Front(r.messages), AsSent(f))
  BY <1>2 DEF ClaudeCached, FirmTurns
<1>6. StartsAs(Front(r.messages), AsSent(ms))
  BY <1>4, <1>5, StartsAsLaws
<1>7. IsPrefix(Front(r.messages), AsSent(ms))
  BY <1>4, <1>5, <1>6, StartsAsLaws
<1>8. Len(r.messages) - 1 \in r.marked
  <2>1. r.messages \in Seq(Turn) /\ r.marked = Marked(r.messages)
    BY DEF ClaudeCached
  <2>2. Len(r.messages) \in Nat /\ DOMAIN r.messages = 1..Len(r.messages)
    BY <2>1
  <2>3. Len(r.messages) - 1 \in 1..Len(r.messages) /\ Len(r.messages) - 1 > Len(r.messages) - 2
    BY <2>2
  <2> QED
    BY <2>1, <2>2, <2>3 DEF Marked
<1> QED
  BY <1>1, <1>3, <1>7, <1>8 DEF Front

CachedIn(h, r, n, key) ==
  /\ n \in 0..Len(h) /\ KeyCached(key, h, n)
  /\ route.adapter = "claude_code" => ClaudeCached(r, h)
  /\ route.adapter = "anthropic" => PlainCached(r, h, n)
  /\ route.adapter = "codex" => CodexCached(r, h, n)
  /\ route.adapter = "openai" => WireCached(r, h)
CacheKept == sends > 0 => CachedIn(history, request, sent, cache_key)

LEMMA CachedMore ==
  ASSUME NEW h \in Seq(Msg), NEW m \in Msg, NEW r, NEW n, NEW key, CachedIn(h, r, n, key),
         route.adapter # "openai" => h \in Seq(ChatMsg) /\ m \in ChatMsg,
         m.role = "user" => OpenIds(h) = <<>>, Leaves(OpenIds(h), m, OpenIds(Append(h, m)))
  PROVE  CachedIn(Append(h, m), r, n, key)
<1>1. n \in 0..Len(h) /\ KeyCached(key, h, n)
  BY DEF CachedIn
<1>2. n \in 0..Len(Append(h, m))
  BY <1>1, AppendIs
<1>3. KeyCached(key, Append(h, m), n)
  BY <1>1, KeyCachedMore
<1>4. ASSUME route.adapter = "claude_code" PROVE ClaudeCached(r, Append(h, m))
  BY <1>4, ClaudeCachedMore DEF CachedIn
<1>5. ASSUME route.adapter = "anthropic" PROVE PlainCached(r, Append(h, m), n)
  BY <1>1, <1>5, PlainCachedMore DEF CachedIn
<1>6. ASSUME route.adapter = "codex" PROVE CodexCached(r, Append(h, m), n)
  BY <1>1, <1>6, CodexCachedMore DEF CachedIn
<1>7. ASSUME route.adapter = "openai" PROVE WireCached(r, Append(h, m))
  BY <1>7, WireCachedMore DEF CachedIn
<1> QED
  BY <1>2, <1>3, <1>4, <1>5, <1>6, <1>7 DEF CachedIn
LEMMA CachedNow ==
  ASSUME TalkTypeOK, ChatOnly, OpenIds(history) = <<>>, BuildRequest.messages # <<>>
  PROVE  CachedIn(history, BuildRequest, Len(history), CacheKey)
<1>1. history \in Seq(Msg) /\ Len(history) \in Nat
  BY DEF TalkTypeOK
<1>2. Len(history) \in 0..Len(history)
  BY <1>1
<1>3. KeyCached(CacheKey, history, Len(history))
  BY DEF KeyCached, KeyOf, CacheKey
<1>4. ASSUME route.adapter = "claude_code" PROVE ClaudeCached(BuildRequest, history)
  BY <1>4, ClaudeCachedNow DEF BuildRequest, ChatOnly
<1>5. ASSUME route.adapter = "anthropic" PROVE PlainCached(BuildRequest, history, Len(history))
  BY <1>5, PlainCachedNow DEF BuildRequest, ChatOnly
<1>6. ASSUME route.adapter = "codex" PROVE CodexCached(BuildRequest, history, Len(history))
  BY <1>1, <1>6, CodexCachedNow DEF BuildRequest
<1>7. ASSUME route.adapter = "openai" PROVE WireCached(BuildRequest, history)
  BY <1>1, <1>7, WireCachedNow DEF BuildRequest
<1> QED
  BY <1>2, <1>3, <1>4, <1>5, <1>6, <1>7 DEF CachedIn
LEMMA CacheKeptIsNext ==
  ASSUME route' = route, sends' > 0 => CachedIn(history', request', sent', cache_key')
  PROVE  CacheKept'
<1>1. KeyOf(history)' = KeyOf(history')
  BY DEF KeyOf
<1>2. to_wire_value(history)' = to_wire_value(history')
  BY DEF to_wire_value, Normalized, assistant_extras
<1>3. WireTurn' = WireTurn
  BY DEF WireTurn, WireOf, Norm
<1> QED
  BY <1>1, <1>2, <1>3 DEF CacheKept, CachedIn, KeyCached, WireCached
LEMMA CacheKeptOn ==
  ASSUME StreamTypeOK, TalkTypeOK, StreamKept, NamesAreFit, ChatOnly, NoneOpen, Moves, CacheKept
  PROVE  CacheKept'
<1>1. route' = route /\ history \in Seq(Msg) /\ sends \in Nat
  BY RouteStays DEF TalkTypeOK
<1>2. ASSUME UNCHANGED <<request, sends, sent, cache_key>>, NEW m \in Msg, history' = Append(history, m),
             m.role = "developer" => route.adapter = "openai", m.role = "user" => OpenIds(history) = <<>>,
             Leaves(OpenIds(history), m, OpenIds(history'))
      PROVE  CacheKept'
  <2>1. route.adapter # "openai" => history \in Seq(ChatMsg) /\ m \in ChatMsg
    BY <1>2 DEF ChatOnly, ChatMsg
  <2>2. sends > 0 => CachedIn(Append(history, m), request, sent, cache_key)
    BY <1>1, <1>2, <2>1, CachedMore DEF CacheKept
  <2> QED
    BY <1>1, <1>2, <2>2, CacheKeptIsNext
<1>3. CASE SaySomething
  <2>1. UNCHANGED <<request, sends, sent, cache_key>>
    BY <1>3 DEF SaySomething, Says, own
  <2>2. PICK m \in Msg : /\ history' = Append(history, m)
                         /\ m.role = "developer" => route.adapter = "openai"
                         /\ m.role = "user" => OpenIds(history) = <<>>
                         /\ Leaves(OpenIds(history), m, OpenIds(history'))
    BY <1>3, SayingLeaves
  <2> QED
    BY <1>2, <2>1, <2>2
<1>4. CASE Finishes
  <2>1. UNCHANGED <<request, sends, sent, cache_key>>
    BY <1>4, FinishTells
  <2>2. PICK m \in Msg : /\ m.role = "assistant" /\ history' = Append(history, m)
                         /\ Leaves(OpenIds(history), m, OpenIds(history'))
    BY <1>4, FinishLeaves
  <2> QED
    BY <1>2, <2>1, <2>2
<1>5. CASE Ask
  <2>1. /\ request' = BuildRequest /\ BuildRequest.messages # <<>> /\ history' = history
        /\ sent' = Len(history) /\ cache_key' = CacheKey /\ phase' = "waiting"
    BY <1>5 DEF Ask, Sends
  <2>2. OpenIn(history) = <<>>
    <3>1. NoneOpen'
      BY NoneOpenOn
    <3> QED
      BY <2>1, <3>1 DEF NoneOpen
  <2>3. OpenIds(history) = <<>>
    BY <2>2 DEF OpenIds, Ids
  <2>4. CachedIn(history, BuildRequest, Len(history), CacheKey)
    BY <2>1, <2>3, CachedNow
  <2> QED
    BY <1>1, <2>1, <2>4, CacheKeptIsNext
<1>6. CASE UNCHANGED <<history, request, sends, sent, cache_key>>
  BY <1>1, <1>6, CacheKeptIsNext DEF CacheKept
<1> QED
  BY <1>3, <1>4, <1>5, <1>6, TalkMoves DEF Rests

LEMMA AskReuses ==
  ASSUME TalkTypeOK, ChatOnly, CacheKept, Ask, sends > 0
  PROVE  IF route.adapter = "claude_code" THEN ReusesCache
         ELSE NoNewInstruction =>
                /\ request'.system = request.system
                /\ cache_key # NoKey => cache_key' = cache_key
                /\ IsPrefix(request.messages, request'.messages)
<1>1. request' = BuildRequest /\ cache_key' = CacheKey
  BY DEF Ask, Sends
<1>2. CachedIn(history, request, sent, cache_key) /\ history \in Seq(Msg)
  BY DEF CacheKept, TalkTypeOK
<1>3. CASE route.adapter = "claude_code"
  <2>1. history \in Seq(ChatMsg) /\ ClaudeCached(request, history) /\ request' = build_request(history)
    BY <1>1, <1>2, <1>3 DEF ChatOnly, CachedIn, BuildRequest
  <2> QED
    BY <1>3, <2>1, CacheIsFound DEF ReusesCache
<1>4. ASSUME NoNewInstruction PROVE NoNewSince(history, sent)
  BY <1>4 DEF NoNewInstruction, NoNewSince
<1>5. ASSUME NoNewInstruction, cache_key # NoKey PROVE cache_key' = cache_key
  BY <1>1, <1>2, <1>4, <1>5 DEF CachedIn, KeyCached, KeyOf, CacheKey
<1>6. CASE route.adapter = "anthropic"
  <2>1. history \in Seq(ChatMsg) /\ PlainCached(request, history, sent)
    BY <1>2, <1>6 DEF ChatOnly, CachedIn
  <2>2. request'.system = convert_messages(history).system /\ request'.messages = PlainTurns(history)
    BY <1>1, <1>6 DEF BuildRequest, build_anthropic_request, Request, PlainTurns
  <2>3. PlainTurns(history) \in Seq(RawTurn)
    BY <2>1, PlainStep
  <2>4. IsPrefix(request.messages, PlainTurns(history))
    BY <2>1, <2>3, StartsAsLaws DEF PlainCached, Extends
  <2> QED
    BY <1>4, <1>5, <1>6, <2>1, <2>2, <2>4 DEF PlainCached
<1>7. CASE route.adapter = "codex"
  <2>1. CodexCached(request, history, sent) /\ request' = CodexRequest(history)
    BY <1>1, <1>2, <1>7 DEF CachedIn, BuildRequest
  <2>2. CodexRequest(history).messages \in Seq(TextTurn)
    BY <1>2, CodexTyped
  <2>3. IsPrefix(request.messages, CodexRequest(history).messages)
    BY <2>1, <2>2, StartsAsLaws DEF CodexCached
  <2> QED
    BY <1>4, <1>5, <1>7, <2>1, <2>3 DEF CodexCached
<1>8. CASE route.adapter = "openai"
  <2>1. WireCached(request, history)
    BY <1>2, <1>8 DEF CachedIn
  <2>2. request'.system = <<>> /\ request'.messages = to_wire_value(history)
    BY <1>1, <1>8 DEF BuildRequest, Request
  <2>3. to_wire_value(history) \in Seq(WireTurn)
    BY <1>2, WireMoreIs
  <2>4. IsPrefix(request.messages, to_wire_value(history))
    BY <2>1, <2>3, StartsAsLaws DEF WireCached
  <2> QED
    BY <1>5, <1>8, <2>1, <2>2, <2>4 DEF WireCached
<1>9. route.adapter \in {"claude_code", "anthropic", "codex", "openai"}
  BY AdaptersAssumption DEF TalkTypeOK, AllAdapters
<1> QED
  BY <1>3, <1>6, <1>7, <1>8, <1>9

(* Every request finds the prompt cache that the one before has filled:    *)
(* the prompt, the key and the messages up to a breakpoint are as they     *)
(* were, whatever was said meanwhile.                                      *)
THEOREM RequestsReuseTheCache == AdaptersSpec => CacheIsReused
<1> DEFINE IInvCache == TalkKept /\ NoneOpen /\ CacheKept
           Reused == sends' > sends /\ sends > 0 =>
                       IF route.adapter = "claude_code" THEN ReusesCache
                       ELSE NoNewInstruction =>
                              /\ request'.system = request.system
                              /\ cache_key # NoKey => cache_key' = cache_key
                              /\ IsPrefix(request.messages, request'.messages)
<1>1. AdaptersInit => IInvCache
  <2>1. ASSUME AdaptersInit PROVE NoneOpen /\ CacheKept
    BY <2>1 DEF AdaptersInit, ConversationInit, NoneOpen, CacheKept
  <2> QED
    BY <2>1, TalkKeptBegins
<1>2. IInvCache /\ [AdaptersNext]_<<conversation, own>> => IInvCache'
  <2>1. ASSUME IInvCache, AdaptersNext PROVE NoneOpen' /\ CacheKept'
    <3>1. StreamTypeOK /\ TalkTypeOK /\ StreamKept /\ NamesAreFit /\ ChatOnly
      BY <2>1 DEF TalkKept, TypesHold
    <3>2. Moves
      BY <2>1, <3>1, NextMoves
    <3> QED
      BY <2>1, <3>1, <3>2, NoneOpenOn, CacheKeptOn
  <2>2. ASSUME IInvCache, UNCHANGED <<conversation, own>> PROVE NoneOpen' /\ CacheKept'
    <3>1. UNCHANGED <<history, phase, route, request, sends, sent, cache_key>>
      BY <2>2 DEF conversation, own
    <3> QED
      BY <2>2, <3>1, CacheKeptIsNext DEF NoneOpen, CacheKept
  <2> QED
    BY <2>1, <2>2, TalkKeptOn
<1>3. IInvCache /\ [AdaptersNext]_<<conversation, own>> => [Reused]_<<conversation, own>>
  <2>1. ASSUME IInvCache, AdaptersNext, sends' > sends, sends > 0 PROVE Reused
    <3>1. StreamTypeOK /\ TalkTypeOK /\ ChatOnly /\ sends \in Nat
      BY <2>1 DEF TalkKept, TypesHold, TalkTypeOK
    <3>2. Moves
      BY <2>1, <3>1, NextMoves
    <3>3. Ask
      <4>1. ASSUME ~Ask PROVE sends' = sends
        BY <3>2, <4>1, TalkMoves, FinishTells DEF SaySomething, Says, Finishes, EndsKeeping, Rests
      <4> QED
        BY <2>1, <3>1, <4>1
    <3> QED
      BY <2>1, <3>1, <3>3, AskReuses
  <2> QED
    BY <2>1
<1> QED
  BY <1>1, <1>2, <1>3, PTL DEF AdaptersSpec, CacheIsReused
=============================================================================
