---------------------------- MODULE Users_proofs ----------------------------
(***************************************************************************)
(* Proofs about the users of the server, for any numbers of them and of    *)
(* requests, whatever the bounds on writes and time:                       *)
(*   - AuthCache: a write that has been answered is seen by every later    *)
(*     lookup of the key;                                                  *)
(*   - Access: a check of a model answers as one moment of it would, and   *)
(*     the listing agrees with it;                                         *)
(*   - Accounts: a request acts as the user it is of.                      *)
(* The three share no variable; each has its inductive invariant.          *)
(***************************************************************************)
EXTENDS AuthCache, Access, Accounts, FiniteSetTheorems, TLAPS

---------------------------------------------------------------------------
(* AuthCache: the keys and the cache in front of them.                     *)

(* MakeRoom keeps some of the entries, and leaves room for one more.       *)
LEMMA RoomForOne ==
  ASSUME IsFiniteSet(cached), Cardinality(cached) <= MaxEntries, NEW k
  PROVE  /\ MakeRoom \subseteq cached
         /\ IsFiniteSet(MakeRoom \cup {k})
         /\ Cardinality(MakeRoom \cup {k}) <= MaxEntries
<1> MaxEntries \in Nat \ {0}
  BY AuthCacheAssumption
<1>1. FreshOnly \subseteq cached /\ IsFiniteSet(FreshOnly)
  BY FS_Subset DEF FreshOnly
<1>2. IsFiniteSet({}) /\ Cardinality({}) = 0
  BY FS_EmptySet
<1>3. MakeRoom \subseteq cached /\ IsFiniteSet(MakeRoom) /\ Cardinality(MakeRoom) < MaxEntries
  BY <1>1, <1>2 DEF MakeRoom
<1>4. Cardinality(MakeRoom) \in Nat
  BY <1>3, FS_CardinalityType
<1>5. /\ IsFiniteSet(MakeRoom \cup {k})
      /\ Cardinality(MakeRoom \cup {k}) = Cardinality(MakeRoom)
           \/ Cardinality(MakeRoom \cup {k}) = Cardinality(MakeRoom) + 1
  BY <1>3, FS_AddElement
<1> QED
  BY <1>3, <1>4, <1>5

Finite == IsFiniteSet(cached)

(* A lookup that is under way knows a key; what it has read is no older    *)
(* than the answered writes it began after and, if no flush has overtaken  *)
(* it, than those answered since.                                          *)
LookupInv(l) ==
  lookup[l].pc # "idle" =>
    LET L == lookup[l] IN
    /\ L.of \in Keys
    /\ L.since <= acked[L.of]
    /\ L.gen <= generation
    /\ L.pc \in {"expiry", "user", "put"} =>
         L.since <= L.key /\ (L.gen = generation => acked[L.of] <= L.key)
    /\ L.pc = "put" =>
         L.since <= L.user /\ (L.gen = generation => acked[L.of] <= L.user)

(* Only versions that were committed are ever answered.                    *)
WriterInv(w) ==
  writer[w] # NoWrite =>
    writer[w].of \in Keys /\ writer[w].version <= version[writer[w].of]

AckedInv == \A k \in Keys : acked[k] <= version[k]

IInv ==
  /\ TypeOK
  /\ Finite
  /\ \A l \in Lookups : LookupInv(l)
  /\ \A w \in Writers : WriterInv(w)
  /\ AckedInv
  /\ CacheIsCurrent
  /\ AnsweredWritesAreSeen

LEMMA InitIInv == Init => IInv
<1> SUFFICES ASSUME Init PROVE IInv
  OBVIOUS
<1> USE AuthCacheAssumption DEF Init
<1>1. TypeOK /\ Finite
  <2>1. IsFiniteSet({}) /\ Cardinality({}) = 0
    BY FS_EmptySet
  <2> QED
    BY <2>1 DEF TypeOK, Finite, Entry, Nothing, Locals, Done, NoWrite, NoAnswer
<1>2. \A l \in Lookups : LookupInv(l)
  BY DEF LookupInv, Done
<1>3. \A w \in Writers : WriterInv(w)
  BY DEF WriterInv
<1>4. AckedInv /\ CacheIsCurrent /\ AnsweredWritesAreSeen
  BY DEF AckedInv, CacheIsCurrent, AnsweredWritesAreSeen, NoAnswer
<1> QED
  BY <1>1, <1>2, <1>3, <1>4 DEF IInv

(* A step that leaves the cache, the database and the lookups alone.       *)
LEMMA TickIInv == IInv /\ Tick => IInv'
<1> SUFFICES ASSUME IInv, Tick PROVE IInv'
  OBVIOUS
<1> USE AuthCacheAssumption
<1> USE DEF Tick, Silent, NoAnswer, database, store
<1>1. TypeOK' /\ Finite'
  BY DEF IInv, TypeOK, Finite
<1>2. (\A l \in Lookups : LookupInv(l))'
  BY DEF IInv, LookupInv
<1>3. (\A w \in Writers : WriterInv(w))'
  BY DEF IInv, WriterInv, NoWrite
<1>4. AckedInv' /\ CacheIsCurrent' /\ AnsweredWritesAreSeen'
  BY DEF IInv, AckedInv, CacheIsCurrent, AnsweredWritesAreSeen
<1> QED
  BY <1>1, <1>2, <1>3, <1>4 DEF IInv

(* The steps of a lookup l.                                                *)
LEMMA LookupIInv == IInv /\ (\E l \in Lookups : Authenticate(l)) => IInv'
<1> SUFFICES ASSUME IInv, NEW l \in Lookups, Authenticate(l) PROVE IInv'
  OBVIOUS
<1> USE AuthCacheAssumption
<1> USE DEF database, store
<1>t. TypeOK /\ Finite /\ LookupInv(l) /\ AckedInv /\ CacheIsCurrent
  BY DEF IInv
<1>w. (\A w \in Writers : WriterInv(w))'
  <2>1. UNCHANGED <<writer, version>>
    BY DEF Authenticate, Hit, Miss, ReadKey, CheckExpiry, ReadUser, Put, LookupFails
  <2> QED
    BY <2>1 DEF IInv, WriterInv, NoWrite
<1>a. AckedInv'
  <2>1. UNCHANGED <<acked, version>>
    BY DEF Authenticate, Hit, Miss, ReadKey, CheckExpiry, ReadUser, Put, LookupFails
  <2> QED
    BY <1>t, <2>1 DEF AckedInv
<1>o. ASSUME NEW m \in Lookups, m # l PROVE LookupInv(m)'
  <2>1. lookup'[m] = lookup[m]
    BY <1>o, <1>t DEF TypeOK, Authenticate, Hit, Miss, ReadKey, CheckExpiry, ReadUser, Put, LookupFails, Goes
  <2>2. UNCHANGED <<acked, generation>>
    BY DEF Authenticate, Hit, Miss, ReadKey, CheckExpiry, ReadUser, Put, LookupFails
  <2> QED
    BY <2>1, <2>2 DEF IInv, LookupInv
<1>1. ASSUME NEW k \in Keys, Hit(l, k) PROVE IInv'
  <2> USE <1>1 DEF Hit
  <2>1. TypeOK' /\ Finite'
    BY <1>t DEF TypeOK, Finite, Returns, Late, Entry
  <2>2. LookupInv(l)' /\ CacheIsCurrent'
    BY <1>t DEF LookupInv, CacheIsCurrent
  <2>3. AnsweredWritesAreSeen'
    BY <1>t DEF CacheIsCurrent, AnsweredWritesAreSeen, Returns
  <2> QED
    BY <1>w, <1>a, <1>o, <2>1, <2>2, <2>3 DEF IInv
<1>2. ASSUME NEW k \in Keys, Miss(l, k) PROVE IInv'
  <2> USE <1>2 DEF Miss, Keeps, Goes, Silent
  <2>1. TypeOK' /\ Finite'
    <3>1. /\ IsFiniteSet(cached \ {k})
          /\ Cardinality(cached \ {k}) \in Nat
          /\ Cardinality(cached) \in Nat
          /\ Cardinality(cached \ {k}) <= Cardinality(cached)
      BY <1>t, FS_Subset, FS_CardinalityType, cached \ {k} \subseteq cached DEF Finite
    <3>2. cache' \in [Keys -> Entry]
      BY <1>t DEF TypeOK, Entry, Nothing
    <3>3. [Done EXCEPT !.pc = "key", !.of = k, !.since = acked[k], !.gen = generation]
            \in Locals
      BY <1>t DEF TypeOK, Done, Locals
    <3> QED
      BY <1>t, <3>1, <3>2, <3>3 DEF TypeOK, Finite, NoAnswer
  <2>2. LookupInv(l)'
    BY <1>t DEF TypeOK, Locals, LookupInv, Done
  <2>3. CacheIsCurrent' /\ AnsweredWritesAreSeen'
    BY <1>t DEF TypeOK, CacheIsCurrent, AnsweredWritesAreSeen, NoAnswer
  <2> QED
    BY <1>w, <1>a, <1>o, <2>1, <2>2, <2>3 DEF IInv
<1>3. CASE ReadKey(l)
  <2> USE <1>3 DEF ReadKey, Goes, Silent
  <2>1. TypeOK' /\ Finite'
    <3>1. lookup[l] \in Locals /\ version[lookup[l].of] \in Nat
      BY <1>t DEF TypeOK, LookupInv
    <3>2. Done \in Locals
      BY DEF Done, Locals
    <3>3. [lookup[l] EXCEPT !.pc = "expiry", !.key = version[lookup[l].of]] \in Locals
      BY <3>1 DEF Locals
    <3>4. \E locals \in Locals : lookup' = [lookup EXCEPT ![l] = locals]
      BY <3>2, <3>3
    <3>5. lookup' \in [Lookups -> Locals]
      BY <1>t, <3>4 DEF TypeOK
    <3> QED
      BY <1>t, <3>5 DEF TypeOK, Finite, NoAnswer
  <2>2. LookupInv(l)'
    BY <1>t DEF TypeOK, Locals, LookupInv, AckedInv, Done
  <2>3. CacheIsCurrent' /\ AnsweredWritesAreSeen'
    BY <1>t DEF CacheIsCurrent, AnsweredWritesAreSeen, NoAnswer
  <2> QED
    BY <1>w, <1>a, <1>o, <2>1, <2>2, <2>3 DEF IInv
<1>4. CASE CheckExpiry(l)
  <2> USE <1>4 DEF CheckExpiry, Goes, Silent
  <2>1. TypeOK' /\ Finite'
    BY <1>t DEF TypeOK, Finite, Locals, Done, NoAnswer
  <2>2. LookupInv(l)'
    BY <1>t DEF TypeOK, Locals, LookupInv, Done
  <2>3. CacheIsCurrent' /\ AnsweredWritesAreSeen'
    BY <1>t DEF CacheIsCurrent, AnsweredWritesAreSeen, NoAnswer
  <2> QED
    BY <1>w, <1>a, <1>o, <2>1, <2>2, <2>3 DEF IInv
<1>5. CASE ReadUser(l)
  <2> USE <1>5 DEF ReadUser, Goes, Silent
  <2>1. TypeOK' /\ Finite'
    <3>1. lookup[l] \in Locals /\ version[lookup[l].of] \in Nat
      BY <1>t DEF TypeOK, LookupInv
    <3>2. Done \in Locals
      BY DEF Done, Locals
    <3>3. [lookup[l] EXCEPT !.pc = "put", !.user = version[lookup[l].of]] \in Locals
      BY <3>1 DEF Locals
    <3>4. \E locals \in Locals : lookup' = [lookup EXCEPT ![l] = locals]
      BY <3>2, <3>3
    <3>5. lookup' \in [Lookups -> Locals]
      BY <1>t, <3>4 DEF TypeOK
    <3> QED
      BY <1>t, <3>5 DEF TypeOK, Finite, NoAnswer
  <2>2. LookupInv(l)'
    BY <1>t DEF TypeOK, Locals, LookupInv, AckedInv, Done
  <2>3. CacheIsCurrent' /\ AnsweredWritesAreSeen'
    BY <1>t DEF CacheIsCurrent, AnsweredWritesAreSeen, NoAnswer
  <2> QED
    BY <1>w, <1>a, <1>o, <2>1, <2>2, <2>3 DEF IInv
<1>6. CASE Put(l)
  <2> DEFINE k == lookup[l].of
  <2> USE <1>6 DEF Put, Goes, Returns
  <2>1. k \in Keys /\ MakeRoom \subseteq cached /\ IsFiniteSet(MakeRoom \cup {k})
        /\ Cardinality(MakeRoom \cup {k}) <= MaxEntries
    BY <1>t, RoomForOne DEF TypeOK, Finite, LookupInv
  <2>2. cache' \in [Keys -> Entry]
    <3>1. /\ [key |-> lookup[l].key, user |-> lookup[l].user, at |-> now] \in Entry
          /\ Nothing \in Entry
      BY <1>t, AuthCacheAssumption DEF TypeOK, Locals, Entry, Nothing
    <3> DEFINE kept(j) ==
          IF j = k THEN [key |-> lookup[l].key, user |-> lookup[l].user, at |-> now]
          ELSE IF j \in MakeRoom THEN cache[j] ELSE Nothing
    <3>2. cache' = cache \/ cache' = [j \in Keys |-> kept(j)]
      OBVIOUS
    <3>3. \A j \in Keys : kept(j) \in Entry
      BY <1>t, <3>1 DEF TypeOK
    <3> HIDE DEF kept
    <3> QED
      BY <1>t, <3>2, <3>3 DEF TypeOK
  <2>3. TypeOK' /\ Finite'
    <3>1. Done \in Locals
      BY DEF Done, Locals
    <3>2. lookup' \in [Lookups -> Locals]
      BY <1>t, <3>1 DEF TypeOK
    <3>3. answer' \in [ok : BOOLEAN, since : Nat, key : Nat, user : Nat, late : Nat]
      BY <1>t DEF TypeOK, Locals
    <3>4. Finite' /\ cached' \in SUBSET Keys /\ Cardinality(cached') <= MaxEntries
      BY <1>t, <2>1 DEF TypeOK, Finite
    <3> QED
      BY <1>t, <2>2, <3>2, <3>3, <3>4 DEF TypeOK
  <2>4. LookupInv(l)'
    BY <1>t DEF TypeOK, Locals, LookupInv, Done
  <2>5. CacheIsCurrent'
    BY <1>t, <2>1 DEF TypeOK, CacheIsCurrent, LookupInv, Overtaken
  <2>6. AnsweredWritesAreSeen'
    BY <1>t DEF TypeOK, AnsweredWritesAreSeen, LookupInv
  <2> QED
    BY <1>w, <1>a, <1>o, <2>3, <2>4, <2>5, <2>6 DEF IInv
<1>7. CASE LookupFails(l)
  <2> USE <1>7 DEF LookupFails, Goes, Silent
  <2>1. TypeOK' /\ Finite'
    <3>1. Done \in Locals
      BY DEF Done, Locals
    <3> QED
      BY <1>t, <3>1 DEF TypeOK, Finite, NoAnswer
  <2>2. LookupInv(l)'
    BY <1>t DEF TypeOK, LookupInv, Done
  <2>3. CacheIsCurrent' /\ AnsweredWritesAreSeen'
    BY <1>t DEF CacheIsCurrent, AnsweredWritesAreSeen, NoAnswer
  <2> QED
    BY <1>w, <1>a, <1>o, <2>1, <2>2, <2>3 DEF IInv
<1> QED
  BY <1>1, <1>2, <1>3, <1>4, <1>5, <1>6, <1>7 DEF Authenticate

(* What the four writes have in common.                                    *)
LEMMA CommitIInv ==
  ASSUME IInv, NEW w \in Writers, NEW k \in Keys, Writes(w, k),
         row' \in [Keys -> {"active", "inactive", "gone"}],
         owner' \in [Keys -> {"live", "gone"}]
  PROVE  IInv'
<1> USE AuthCacheAssumption
<1> USE DEF Writes, Silent, store
<1>t. TypeOK /\ Finite /\ AckedInv /\ CacheIsCurrent
  BY DEF IInv
<1>1. TypeOK' /\ Finite'
  BY <1>t DEF TypeOK, Finite, NoAnswer
<1>2. (\A l \in Lookups : LookupInv(l))'
  BY DEF IInv, LookupInv
<1>3. \A j \in Keys : version[j] \in Nat /\ version'[j] \in Nat /\ version[j] <= version'[j]
  BY <1>t DEF TypeOK
<1>4. ASSUME NEW v \in Writers PROVE WriterInv(v)'
  <2>1. CASE v = w
    BY <1>t, <2>1 DEF TypeOK, WriterInv
  <2>2. CASE v # w
    <3>1. writer'[v] = writer[v] /\ WriterInv(v) /\ writer[v].version \in Nat
      BY <1>t, <2>2 DEF IInv, TypeOK, Locals
    <3> QED
      BY <1>3, <3>1 DEF WriterInv, NoWrite
  <2> QED
    BY <2>1, <2>2
<1>5. AckedInv'
  BY <1>t, <1>3 DEF TypeOK, AckedInv
<1>6. CacheIsCurrent' /\ AnsweredWritesAreSeen'
  BY <1>t DEF CacheIsCurrent, AnsweredWritesAreSeen, NoAnswer
<1> QED
  BY <1>1, <1>2, <1>4, <1>5, <1>6 DEF IInv

(* The steps of a writer w.                                                *)
LEMMA WriterIInv == IInv /\ (\E w \in Writers : Write(w)) => IInv'
<1> SUFFICES ASSUME IInv, NEW w \in Writers, Write(w) PROVE IInv'
  OBVIOUS
<1> USE AuthCacheAssumption
<1>t. TypeOK /\ Finite /\ AckedInv /\ CacheIsCurrent /\ WriterInv(w)
  BY DEF IInv
<1>1. ASSUME NEW k \in Keys,
             \/ \E status \in {"active", "inactive"} : SetActive(w, k, status)
             \/ DeleteKey(w, k) \/ UpdateUser(w, k) \/ DeleteUser(w, k)
      PROVE  IInv'
  <2>1. Writes(w, k)
    BY <1>1 DEF SetActive, DeleteKey, UpdateUser, DeleteUser
  <2>2. /\ row' \in [Keys -> {"active", "inactive", "gone"}]
        /\ owner' \in [Keys -> {"live", "gone"}]
    BY <1>1, <1>t, ZenonT(60) DEF SetActive, DeleteKey, UpdateUser, DeleteUser, TypeOK
  <2> QED
    BY <2>1, <2>2, CommitIInv
<1>2. CASE Flush(w)
  <2> USE <1>2 DEF Flush, Keeps, Silent
  <2>1. /\ writer[w].of \in Keys /\ writer[w].version \in Nat
        /\ writer[w].version <= version[writer[w].of]
    BY <1>t DEF WriterInv, TypeOK
  <2>2. TypeOK' /\ Finite'
    <3>1. IsFiniteSet({}) /\ Cardinality({}) = 0
      BY FS_EmptySet
    <3>2. acked' \in [Keys -> Nat]
      BY <1>t, <2>1 DEF TypeOK, Newest
    <3>3. cache' \in [Keys -> Entry]
      BY DEF Entry, Nothing
    <3> QED
      BY <1>t, <3>1, <3>2, <3>3 DEF TypeOK, Finite, NoWrite, NoAnswer
  <2>3. \A k \in Keys : acked[k] \in Nat /\ acked'[k] \in Nat /\ acked[k] <= acked'[k]
    BY <1>t, <2>1 DEF TypeOK, Newest
  <2>4. ASSUME NEW l \in Lookups PROVE LookupInv(l)'
    <3>1. /\ LookupInv(l) /\ lookup[l].since \in Nat /\ lookup[l].gen \in Nat
          /\ generation \in Nat /\ generation' = generation + 1 /\ lookup' = lookup
      BY <1>t DEF IInv, TypeOK, Locals
    <3> QED
      BY <2>3, <3>1 DEF LookupInv
  <2>5. (\A v \in Writers : WriterInv(v))'
    BY <1>t DEF IInv, TypeOK, WriterInv, NoWrite
  <2>6. AckedInv'
    BY <1>t, <2>1 DEF TypeOK, AckedInv, Newest
  <2>7. CacheIsCurrent' /\ AnsweredWritesAreSeen'
    BY DEF CacheIsCurrent, AnsweredWritesAreSeen, NoAnswer
  <2> QED
    BY <2>2, <2>4, <2>5, <2>6, <2>7 DEF IInv
<1>3. CASE Abandon(w)
  <2> USE <1>3 DEF Abandon, Silent, store
  <2>1. TypeOK' /\ Finite'
    BY <1>t DEF TypeOK, Finite, NoWrite, NoAnswer
  <2>2. (\A l \in Lookups : LookupInv(l))' /\ AckedInv' /\ CacheIsCurrent'
    BY DEF IInv, LookupInv, AckedInv, CacheIsCurrent
  <2>3. (\A v \in Writers : WriterInv(v))'
    BY <1>t DEF IInv, TypeOK, WriterInv, NoWrite
  <2>4. AnsweredWritesAreSeen'
    BY DEF AnsweredWritesAreSeen, NoAnswer
  <2> QED
    BY <2>1, <2>2, <2>3, <2>4 DEF IInv
<1> QED
  BY <1>1, <1>2, <1>3 DEF Write

LEMMA StutterIInv == IInv /\ UNCHANGED vars => IInv'
BY DEF IInv, vars, TypeOK, Finite, LookupInv, WriterInv, AckedInv, CacheIsCurrent,
       AnsweredWritesAreSeen, NoWrite

(* The inductive invariant of the authentication cache, which the three    *)
(* theorems after it read off.                                             *)
THEOREM Invariance == Spec => []IInv
<1>1. IInv /\ [Next]_vars => IInv'
  BY TickIInv, LookupIInv, WriterIInv, StutterIInv DEF Next
<1> QED
  BY InitIInv, <1>1, PTL DEF Spec

(* The variables keep their types, and the cache its bound.                *)
THEOREM TypeCorrect == Spec => []TypeOK
<1>1. IInv => TypeOK
  BY DEF IInv
<1> QED
  BY Invariance, <1>1, PTL

(* No lookup returns what a write that was answered before it began has    *)
(* outdated: disabling or deleting a key takes effect at once, however the *)
(* lookups and flushes interleave.                                         *)
THEOREM NoStaleAnswer == Spec => []AnsweredWritesAreSeen
<1>1. IInv => AnsweredWritesAreSeen
  BY DEF IInv
<1> QED
  BY Invariance, <1>1, PTL

(* The cache itself never holds it.                                        *)
THEOREM NoStaleEntry == Spec => []CacheIsCurrent
<1>1. IInv => CacheIsCurrent
  BY DEF IInv
<1> QED
  BY Invariance, <1>1, PTL

-----------------------------------------------------------------------------
(* An entry whose key runs out after its lifetime, compared in seconds,    *)
(* is at most a second late.                                               *)
LEMMA Rounding ==
  ASSUME NEW s \in Nat \ {0}, NEW e \in Nat, NEW a \in Nat, NEW n \in Nat, NEW t \in Nat,
         a \div s + t <= e \div s, n < a + t * s
  PROVE  n < e + s
<1> DEFINE q == a \div s
           p == e \div s
<1>1. q \in Nat /\ p \in Nat
  OBVIOUS
<1>2. a < s * q + s
  <2>1. a = s * (a \div s) + (a % s) /\ (a % s) < s
    OBVIOUS
  <2> QED
    BY <2>1
<1>3. s * p <= e
  <2>1. e = s * (e \div s) + (e % s) /\ (e % s) \in Nat
    OBVIOUS
  <2> QED
    BY <2>1
<1>4. s * (q + t) <= s * p
  BY <1>1
<1>5. s * (q + t) = s * q + t * s
  BY <1>1
<1> QED
  BY <1>1, <1>2, <1>3, <1>4, <1>5

ExpiryInv ==
  \A k \in cached : cache[k].at \div Second + TTL <= Expires[k] \div Second

InTime == ExpiryInv /\ NotLongExpired

LEMMA InitInTime == Init => InTime
BY AuthCacheAssumption DEF Init, InTime, ExpiryInv, NotLongExpired, NoAnswer

(* A hit is the only step that answers from the cache, and Put the only    *)
(* one that adds to it.                                                    *)
LEMMA HitInTime ==
  ASSUME TypeOK, InTime, NEW l \in Lookups, NEW k \in Keys, Hit(l, k)
  PROVE  InTime'
<1> USE AuthCacheAssumption
<1>1. ExpiryInv'
  BY DEF Hit, InTime, ExpiryInv, store
<1>2. /\ now \in Nat /\ Expires[k] \in Nat /\ cache[k].at \in Nat
      /\ cache[k].at \div Second + TTL <= Expires[k] \div Second
  BY DEF TypeOK, Entry, Hit, InTime, ExpiryInv
<1>3. now - cache[k].at < TTL * Second
  BY DEF Hit, Fresh
<1>4. now < cache[k].at + TTL * Second
  BY <1>2, <1>3
<1>5. now < Expires[k] + Second
  BY <1>2, <1>4, Rounding
<1>6. Late(k) < Second
  BY <1>2, <1>5 DEF Late
<1>7. answer'.late = Late(k)
  BY DEF Hit, Returns
<1> QED
  BY <1>1, <1>6, <1>7 DEF InTime, NotLongExpired

LEMMA PutInTime ==
  ASSUME TypeOK, Finite, InTime, NEW l \in Lookups, LookupInv(l), Put(l)
  PROVE  InTime'
<1> USE AuthCacheAssumption
<1> DEFINE of == lookup[l].of
<1>1. of \in Keys /\ MakeRoom \subseteq cached
  BY RoomForOne DEF LookupInv, Put, TypeOK, Finite
<1>2. NotLongExpired'
  BY DEF Put, Returns, NotLongExpired
<1>3. CASE UNCHANGED <<cache, cached>>
  BY <1>2, <1>3 DEF InTime, ExpiryInv
<1>4. CASE ~ExpiresWithinTTL(of)
           /\ (\A j \in Keys : j = of => cache'[j].at = now)
           /\ (\A j \in Keys : j # of /\ j \in MakeRoom => cache'[j] = cache[j])
           /\ cached' = MakeRoom \cup {of}
  <2>1. now \div Second + TTL <= Expires[of] \div Second
    <3>1. now \in Nat /\ Expires[of] \in Nat
      BY <1>1 DEF TypeOK
    <3>2. now \div Second \in Nat /\ Expires[of] \div Second \in Nat
      BY <3>1
    <3> QED
      BY <1>4, <3>2 DEF ExpiresWithinTTL
  <2>2. ASSUME NEW j \in cached'
        PROVE  cache'[j].at \div Second + TTL <= Expires[j] \div Second
    <3>1. j \in Keys /\ j \in MakeRoom \cup {of}
      BY <1>1, <1>4 DEF TypeOK
    <3>2. CASE j = of
      BY <1>4, <2>1, <3>1, <3>2
    <3>3. CASE j # of
      BY <1>1, <1>4, <3>1, <3>3 DEF InTime, ExpiryInv
    <3> QED
      BY <3>2, <3>3
  <2> QED
    BY <1>2, <2>2 DEF InTime, ExpiryInv
<1>5. UNCHANGED <<cache, cached>>
      \/ /\ ~ExpiresWithinTTL(of)
         /\ \A j \in Keys : j = of => cache'[j].at = now
         /\ \A j \in Keys : j # of /\ j \in MakeRoom => cache'[j] = cache[j]
         /\ cached' = MakeRoom \cup {of}
  BY DEF Put
<1> QED
  BY <1>3, <1>4, <1>5

(* Every other step answers nobody, and keeps some of the entries as they  *)
(* are.                                                                    *)
LEMMA QuietInTime ==
  ASSUME InTime, cached' \subseteq cached, \A k \in cached' : cache'[k] = cache[k],
         answer' = NoAnswer \/ answer' = answer
  PROVE  InTime'
BY AuthCacheAssumption DEF InTime, ExpiryInv, NotLongExpired, NoAnswer

LEMMA StepInTime == IInv /\ InTime /\ [Next]_vars => InTime'
<1> SUFFICES ASSUME IInv, InTime, [Next]_vars PROVE InTime'
  OBVIOUS
<1>t. TypeOK /\ Finite
  BY DEF IInv
<1>1. CASE Tick \/ UNCHANGED vars
  BY <1>1, QuietInTime DEF Tick, vars, store, Silent
<1>2. ASSUME NEW l \in Lookups, Authenticate(l) PROVE InTime'
  <2>1. ASSUME NEW k \in Keys, Hit(l, k) PROVE InTime'
    BY <1>t, <2>1, HitInTime
  <2>2. ASSUME NEW k \in Keys, Miss(l, k) PROVE InTime'
    <3>1. cached' = cached \ {k} /\ \A j \in cached' : cache'[j] = cache[j]
      BY <1>t, <2>2 DEF Miss, Keeps, TypeOK
    <3> QED
      BY <2>2, <3>1, QuietInTime DEF Miss, Silent
  <2>3. CASE ReadKey(l) \/ CheckExpiry(l) \/ ReadUser(l) \/ LookupFails(l)
    BY <2>3, QuietInTime DEF ReadKey, CheckExpiry, ReadUser, LookupFails, Silent, store
  <2>4. CASE Put(l)
    BY <1>t, <2>4, PutInTime DEF IInv
  <2> QED
    BY <1>2, <2>1, <2>2, <2>3, <2>4 DEF Authenticate
<1>3. ASSUME NEW w \in Writers, Write(w) PROVE InTime'
  <2>1. answer' = NoAnswer /\ (UNCHANGED store \/ cached' = {})
    BY <1>3 DEF Write, SetActive, DeleteKey, UpdateUser, DeleteUser, Writes, Flush, Keeps,
                Abandon, Silent
  <2> QED
    BY <2>1, QuietInTime DEF store
<1> QED
  BY <1>1, <1>2, <1>3 DEF Next

(* No key is accepted a second or more after it expired, although entries  *)
(* live for TTL seconds and both clocks are compared in whole seconds.     *)
THEOREM ExpiredKeysRunOut == Spec => []NotLongExpired
<1>1. IInv /\ IInv' /\ InTime /\ [Next]_vars => InTime'
  BY StepInTime
<1>2. InTime => NotLongExpired
  BY DEF InTime
<1> QED
  BY Invariance, InitInTime, <1>1, <1>2, PTL DEF Spec

---------------------------------------------------------------------------
(* Access: two implementations of the rules for models.                   *)

Says == {"none", "allow", "deny"}
Rules == [Served \cup {Star} -> Says]
Databases == [rule : [Users -> Rules], trusted : SUBSET Users,
              sale : [Priced -> {"none", "advertised", "hidden"}]]
Checks == [pc : {"idle", "first", "exempt", "sale", "rules", "done"},
           user : Users \cup {"nobody"}, model : Served \cup {Star}, answer : Says,
           right : SUBSET Says, writes : Nat, emptied : BOOLEAN]
Listings == [pc : {"idle", "exempt", "sale", "build", "offers", "done"},
             user : Users \cup {"nobody"}, rules : Rules \cup {<<>>}, saleOnly : BOOLEAN,
             sale : SUBSET Priced, left : SUBSET Offers, shown : SUBSET Served,
             undisturbed : BOOLEAN]

AccessTypeOK ==
  /\ payments \in BOOLEAN
  /\ Tables \in Databases
  /\ check \in [Checkers -> Checks]
  /\ list \in [Listers -> Listings]

(* Entitled, of tables and payments that are given.                        *)
Grants(db, paid, u, m) ==
  \/ db.rule[u][m] = "allow"
  \/ db.rule[u][m] = "none" /\ db.rule[u][Star] = "allow"
  \/ Empty(db.rule[u]) /\ (paid => u \in db.trusted \/ db.sale[m] = "advertised")

(* What a check under way rests on, given the tables.                      *)
Asked(k, db, paid) == Answer(Grants(db, paid, k.user, k.model))

CheckInv(k, db, paid) ==
  k.pc # "idle" =>
    /\ k.user \in Users /\ k.model \in Served
    /\ k.writes = 0 => ~k.emptied /\ k.right = {Asked(k, db, paid)}
    /\ k.pc # "done" => Asked(k, db, paid) \in k.right
    /\ k.pc \in {"first", "exempt", "sale"} => paid
    /\ k.pc = "rules" /\ paid /\ ~k.emptied => ~Empty(db.rule[k.user]) \/ "allow" \in k.right
    /\ k.pc \in {"exempt", "sale"} /\ k.writes = 0 => Empty(db.rule[k.user])
    /\ k.pc = "exempt" /\ k.writes = 1 =>
         Empty(db.rule[k.user]) \/ (db.sale[k.model] = "advertised" => "allow" \in k.right)
    /\ k.pc = "sale" /\ k.writes = 0 => k.user \notin db.trusted
    /\ k.pc = "sale" /\ k.writes = 1 => Answer(db.sale[k.model] = "advertised") \in k.right
    /\ k.pc = "done" /\ k.answer # "none" /\ k.writes <= 1 /\ ~k.emptied => k.answer \in k.right

Trusts(db, u) == u \in db.trusted \/ \E m \in DOMAIN db.rule[u] : db.rule[u][m] = "allow"

Seen(h, m) ==
  \/ h.rules[m] = "allow"
  \/ h.rules[m] = "none" /\ h.rules[Star] = "allow"
  \/ Empty(h.rules) /\ (h.saleOnly => m \in h.sale)
Hides(db, paid, o) == paid /\ db.sale[Bare[o]] = "hidden"

ListInv(h, db, paid) ==
  h.pc # "idle" =>
    /\ h.user \in Users /\ h.rules \in Rules
    /\ h.rules[Star] = "deny" => h.pc = "done" /\ h.shown = {}
    /\ h.undisturbed =>
       /\ h.rules = db.rule[h.user]
       /\ h.pc \in {"exempt", "sale"} => paid
       /\ h.pc = "sale" => h.saleOnly /\ ~Trusts(db, h.user)
       /\ h.pc \in {"build", "offers", "done"} /\ h.rules[Star] # "deny" =>
            /\ h.saleOnly <=> paid /\ ~Trusts(db, h.user)
            /\ h.saleOnly => h.sale = {n \in Priced : db.sale[n] = "advertised"}
       /\ h.pc \in {"offers", "done"} /\ h.rules[Star] # "deny" =>
            /\ \A m \in h.left : Seen(h, m) /\ m \in Offers
            /\ h.pc = "done" => h.left = {}
            /\ h.shown = {m \in Routes : Seen(h, m)} \cup
                         {o \in Offers \ h.left : Seen(h, o) /\ ~Hides(db, paid, o)}

AccessInv ==
  /\ AccessTypeOK
  /\ \A c \in Checkers : CheckInv(check[c], Tables, payments)
  /\ \A l \in Listers : ListInv(list[l], Tables, payments)

LEMMA AccessInitInv == AccessInit => AccessInv
<1> SUFFICES ASSUME AccessInit PROVE AccessInv
  OBVIOUS
<1>1. NoCheck \in Checks /\ NoCheck.pc = "idle"
  BY DEF NoCheck, Checks, Says
<1>2. NoList \in Listings /\ NoList.pc = "idle"
  BY DEF NoList, Listings
<1>3. Tables \in Databases
  BY DEF AccessInit, Tables, Databases, Rules, Says
<1>4. AccessTypeOK
  BY <1>1, <1>2, <1>3 DEF AccessInit, AccessTypeOK
<1>5. \A c \in Checkers : check[c].pc = "idle"
  BY <1>1 DEF AccessInit
<1>6. \A l \in Listers : list[l].pc = "idle"
  BY <1>2 DEF AccessInit
<1> QED
  BY <1>4, <1>5, <1>6 DEF AccessInv, CheckInv, ListInv

LEMMA CheckStep ==
  ASSUME AccessInv, NEW c \in Checkers, NEW k \in Checks, Becomes(c, k),
         CheckInv(k, Tables, payments)
  PROVE  AccessInv'
<1>1. /\ check' = [check EXCEPT ![c] = k] /\ check \in [Checkers -> Checks]
      /\ UNCHANGED <<payments, rule, trusted, sale, list>>
  BY DEF Becomes, tables, AccessInv, AccessTypeOK
<1>2. Tables' = Tables
  BY <1>1 DEF Tables
<1>3. AccessTypeOK'
  BY <1>1, <1>2 DEF AccessInv, AccessTypeOK
<1>4. ASSUME NEW d \in Checkers PROVE CheckInv(check'[d], Tables', payments')
  BY <1>1, <1>2 DEF AccessInv
<1>5. ASSUME NEW l \in Listers PROVE ListInv(list'[l], Tables', payments')
  BY <1>1, <1>2 DEF AccessInv
<1> QED
  BY <1>3, <1>4, <1>5 DEF AccessInv

LEMMA ListStep ==
  ASSUME AccessInv, NEW l \in Listers, NEW h \in Listings, Turns(l, h),
         ListInv(h, Tables, payments)
  PROVE  AccessInv'
<1>1. /\ list' = [list EXCEPT ![l] = h] /\ list \in [Listers -> Listings]
      /\ UNCHANGED <<payments, rule, trusted, sale, check>>
  BY DEF Turns, tables, AccessInv, AccessTypeOK
<1>2. Tables' = Tables
  BY <1>1 DEF Tables
<1>3. AccessTypeOK'
  BY <1>1, <1>2 DEF AccessInv, AccessTypeOK
<1>4. ASSUME NEW c \in Checkers PROVE CheckInv(check'[c], Tables', payments')
  BY <1>1, <1>2 DEF AccessInv
<1>5. ASSUME NEW d \in Listers PROVE ListInv(list'[d], Tables', payments')
  BY <1>1, <1>2 DEF AccessInv
<1> QED
  BY <1>3, <1>4, <1>5 DEF AccessInv

(* Two sayings of one rule.                                                *)
LEMMA RuleOfRules ==
  ASSUME NEW db \in Databases, NEW paid \in BOOLEAN, NEW u \in Users, NEW m \in Served
  PROVE  /\ DOMAIN db.rule[u] = Served \cup {Star} /\ db.rule[u] \in Rules
         /\ db.rule[u][m] \in Says /\ db.rule[u][Star] \in Says
         /\ db.sale[m] \in {"none", "advertised", "hidden"}
         /\ ~Empty(db.rule[u]) =>
              (Grants(db, paid, u, m) <=> Matching(db.rule[u], m) = "allow")
         /\ Empty(db.rule[u]) =>
              /\ Trusts(db, u) <=> u \in db.trusted
              /\ ~Grants(db, paid, u, m) <=>
                   paid /\ u \notin db.trusted /\ db.sale[m] # "advertised"
         /\ ~Empty(db.rule[u]) /\ ~Trusts(db, u) => ~Grants(db, paid, u, m)
<1>1. /\ db.rule[u] \in Rules /\ DOMAIN db.rule[u] = Served \cup {Star}
      /\ db.rule[u][m] \in Says /\ db.rule[u][Star] \in Says
      /\ db.sale[m] \in {"none", "advertised", "hidden"}
  BY DEF Databases, Rules, Priced
<1>2. ~Empty(db.rule[u]) => (Grants(db, paid, u, m) <=> Matching(db.rule[u], m) = "allow")
  BY <1>1 DEF Grants, Matching, Says
<1>3. Empty(db.rule[u]) => db.rule[u][m] = "none" /\ db.rule[u][Star] = "none"
  BY <1>1 DEF Empty
<1>4. Empty(db.rule[u]) => (Trusts(db, u) <=> u \in db.trusted)
  BY DEF Empty, Trusts
<1>5. Empty(db.rule[u]) => (~Grants(db, paid, u, m) <=>
                             paid /\ u \notin db.trusted /\ db.sale[m] # "advertised")
  BY <1>3 DEF Grants
<1>6. ~Empty(db.rule[u]) /\ ~Trusts(db, u) => ~Grants(db, paid, u, m)
  BY <1>1 DEF Grants, Trusts
<1> QED
  BY <1>1, <1>2, <1>4, <1>5, <1>6

LEMMA TablesAre ==
  ASSUME AccessInv
  PROVE  /\ Tables \in Databases /\ payments \in BOOLEAN
         /\ Tables.rule = rule /\ Tables.trusted = trusted /\ Tables.sale = sale
BY DEF AccessInv, AccessTypeOK, Tables

LEMMA BeginCheckStep ==
  ASSUME AccessInv, NEW c \in Checkers, NEW u \in Users, NEW m \in Served,
         BeginCheck(c, u, m)
  PROVE  AccessInv'
<1> PICK k : k = [NoCheck EXCEPT !.pc = IF payments THEN "first" ELSE "rules",
                    !.user = u, !.model = m, !.right = {Answer(Entitled(Tables, u, m))}]
  OBVIOUS
<1>1. Answer(Entitled(Tables, u, m)) \in Says
  BY DEF Answer, Says
<1>2. /\ k \in Checks /\ k.user = u /\ k.model = m /\ k.writes = 0 /\ ~k.emptied
      /\ k.right = {Answer(Entitled(Tables, u, m))}
      /\ k.pc = (IF payments THEN "first" ELSE "rules") /\ k.answer = "none"
  BY <1>1 DEF NoCheck, Checks, Says
<1>3. Asked(k, Tables, payments) = Answer(Entitled(Tables, u, m))
  BY <1>2 DEF Asked, Grants, Entitled
<1>4. CheckInv(k, Tables, payments)
  BY <1>2, <1>3 DEF CheckInv
<1>5. Becomes(c, k)
  BY DEF BeginCheck
<1> QED
  BY <1>2, <1>4, <1>5, CheckStep

(* A check goes on to another query.                                       *)
LEMMA CheckGoesOn ==
  ASSUME AccessInv, NEW c \in Checkers, NEW pc, check[c].pc # "idle",
         pc \in {"exempt", "sale", "rules"},
         Becomes(c, [check[c] EXCEPT !.pc = pc]),
         pc \in {"exempt", "sale"} => payments,
         LET k == check[c] IN
           /\ k.pc # "done"
           /\ pc = "rules" /\ payments /\ ~k.emptied =>
                ~Empty(rule[k.user]) \/ "allow" \in k.right
           /\ pc \in {"exempt", "sale"} /\ k.writes = 0 => Empty(rule[k.user])
           /\ pc = "exempt" /\ k.writes = 1 => Empty(rule[k.user])
           /\ pc = "sale" /\ k.writes = 0 => k.user \notin trusted
           /\ pc = "sale" /\ k.writes = 1 => Answer(ForSale(k.model)) \in k.right
  PROVE  AccessInv'
<1> PICK k, new : k = check[c] /\ new = [check[c] EXCEPT !.pc = pc]
  OBVIOUS
<1>1. k \in Checks /\ CheckInv(k, Tables, payments)
  BY DEF AccessInv, AccessTypeOK
<1>2. /\ new \in Checks /\ new.pc = pc /\ new.user = k.user /\ new.model = k.model
      /\ new.writes = k.writes /\ new.right = k.right /\ new.emptied = k.emptied
      /\ new.answer = k.answer
  BY <1>1 DEF Checks
<1>3. Asked(new, Tables, payments) = Asked(k, Tables, payments)
  BY <1>2 DEF Asked
<1>4. CheckInv(new, Tables, payments)
  BY <1>1, <1>2, <1>3, TablesAre DEF CheckInv, ForSale
<1> QED
  BY <1>2, <1>4, CheckStep

LEMMA CheckAnswers ==
  ASSUME AccessInv, NEW c \in Checkers, check[c].pc \notin {"idle", "done"},
         NEW said \in Says,
         Becomes(c, [check[c] EXCEPT !.pc = "done", !.answer = said]),
         said # "none" /\ check[c].writes <= 1 /\ ~check[c].emptied
           => said \in check[c].right
  PROVE  AccessInv'
<1> PICK k, new : k = check[c] /\ new = [check[c] EXCEPT !.pc = "done", !.answer = said]
  OBVIOUS
<1>1. k \in Checks /\ CheckInv(k, Tables, payments)
  BY DEF AccessInv, AccessTypeOK
<1>2. /\ new \in Checks /\ new.pc = "done" /\ new.user = k.user /\ new.model = k.model
      /\ new.writes = k.writes /\ new.right = k.right /\ new.emptied = k.emptied
      /\ new.answer = said
  BY <1>1 DEF Checks
<1>3. Asked(new, Tables, payments) = Asked(k, Tables, payments)
  BY <1>2 DEF Asked
<1>4. CheckInv(new, Tables, payments)
  BY <1>1, <1>2, <1>3 DEF CheckInv
<1> QED
  BY <1>2, <1>4, CheckStep

LEMMA FindNoRulesStep ==
  ASSUME AccessInv, NEW c \in Checkers, FindNoRules(c)
  PROVE  AccessInv'
<1> PICK k, pc : k = check[c] /\ pc = IF Empty(rule[check[c].user]) THEN "exempt" ELSE "rules"
  OBVIOUS
<1>1. k \in Checks /\ CheckInv(k, Tables, payments) /\ k.pc = "first"
  BY DEF AccessInv, AccessTypeOK, FindNoRules
<1>2. payments
  BY <1>1 DEF CheckInv
<1>3. Becomes(c, [k EXCEPT !.pc = pc])
  BY DEF FindNoRules
<1> QED
  BY <1>1, <1>2, <1>3, CheckGoesOn

LEMMA AskExemptStep ==
  ASSUME AccessInv, NEW c \in Checkers, AskExempt(c)
  PROVE  AccessInv'
<1> PICK k, pc : k = check[c] /\ pc = IF Exempt(check[c].user) THEN "rules" ELSE "sale"
  OBVIOUS
<1>1. k \in Checks /\ CheckInv(k, Tables, payments) /\ k.pc = "exempt"
  BY DEF AccessInv, AccessTypeOK, AskExempt
<1>2. payments /\ k.user \in Users /\ k.model \in Served
  BY <1>1 DEF CheckInv
<1> PICK u, m, yes : u = k.user /\ m = k.model /\ yes = Asked(k, Tables, payments)
  OBVIOUS
<1>3. Becomes(c, [k EXCEPT !.pc = pc])
  BY DEF AskExempt
<1>4. Exempt(u) <=> Trusts(Tables, u)
  BY TablesAre DEF Exempt, Trusts
<1>5. yes \in k.right
  BY <1>1 DEF CheckInv
<1>6. yes = Answer(Grants(Tables, payments, u, m))
  BY DEF Asked
<1>7. Trusts(Tables, u) => ~Empty(rule[u]) \/ "allow" \in k.right
  <2> SUFFICES ASSUME Trusts(Tables, u), Empty(rule[u]) PROVE "allow" \in k.right
    OBVIOUS
  <2>1. Grants(Tables, payments, u, m)
    BY <1>2, TablesAre, RuleOfRules
  <2> QED
    BY <1>5, <1>6, <2>1 DEF Answer
<1>8. k.writes = 0 => Empty(rule[u])
  BY <1>1, TablesAre DEF CheckInv
<1>9. ~Trusts(Tables, u) /\ Empty(rule[u]) => u \notin trusted
  BY <1>2, TablesAre, RuleOfRules
<1>10. ~Trusts(Tables, u) /\ k.writes = 1 => Answer(ForSale(m)) \in k.right
  <2> SUFFICES ASSUME ~Trusts(Tables, u), k.writes = 1 PROVE Answer(ForSale(m)) \in k.right
    OBVIOUS
  <2>1. CASE Empty(rule[u])
    <3>1. Grants(Tables, payments, u, m) <=> ForSale(m)
      BY <1>2, <1>9, <2>1, TablesAre, RuleOfRules, ZenonT(60) DEF ForSale
    <3> QED
      BY <1>5, <1>6, <3>1 DEF Answer
  <2>2. CASE ~Empty(rule[u])
    <3>1. ForSale(m) => "allow" \in k.right
      BY <1>1, <2>2, TablesAre DEF CheckInv, ForSale
    <3>2. ~Grants(Tables, payments, u, m)
      BY <1>2, <2>2, TablesAre, RuleOfRules
    <3> QED
      BY <1>5, <1>6, <3>1, <3>2 DEF Answer
  <2> QED
    BY <2>1, <2>2
<1> QED
  BY <1>1, <1>2, <1>3, <1>4, <1>7, <1>8, <1>9, <1>10, CheckGoesOn

LEMMA AskForSaleStep ==
  ASSUME AccessInv, NEW c \in Checkers, AskForSale(c)
  PROVE  AccessInv'
<1> PICK k, u, m, said : /\ k = check[c] /\ u = k.user /\ m = k.model
                           /\ said = Answer(ForSale(m))
  OBVIOUS
<1>1. k \in Checks /\ CheckInv(k, Tables, payments) /\ k.pc = "sale"
  BY DEF AccessInv, AccessTypeOK, AskForSale
<1>2. /\ payments /\ u \in Users /\ m \in Served
      /\ Asked(k, Tables, payments) \in k.right
  BY <1>1 DEF CheckInv
<1>3. Becomes(c, [k EXCEPT !.pc = "done", !.answer = said])
  BY DEF AskForSale, Answers
<1>4. k.writes = 1 => said \in k.right
  BY <1>1, TablesAre DEF CheckInv, ForSale
<1>5. k.writes = 0 => said \in k.right
  <2> SUFFICES ASSUME k.writes = 0 PROVE said \in k.right
    OBVIOUS
  <2>1. Empty(rule[u]) /\ u \notin trusted
    BY <1>1, TablesAre DEF CheckInv
  <2>2. Grants(Tables, payments, u, m) <=> ForSale(m)
    BY <1>2, <2>1, TablesAre, RuleOfRules DEF ForSale
  <2> QED
    BY <1>2, <2>2 DEF Asked, Answer
<1>6. k.writes <= 1 => said \in k.right
  BY <1>1, <1>4, <1>5 DEF Checks
<1>7. said \in Says
  BY DEF Answer, Says
<1> QED
  BY <1>1, <1>3, <1>6, <1>7, CheckAnswers

LEMMA ApplyRulesStep ==
  ASSUME AccessInv, NEW c \in Checkers, ApplyRules(c)
  PROVE  AccessInv'
<1> PICK k, u, m, rules, said :
      /\ k = check[c] /\ u = k.user /\ m = k.model /\ rules = rule[check[c].user]
      /\ said = Answer(Empty(rules) \/ Matching(rules, m) = "allow")
  OBVIOUS
<1>1. k \in Checks /\ CheckInv(k, Tables, payments) /\ k.pc = "rules"
  BY DEF AccessInv, AccessTypeOK, ApplyRules
<1>2. u \in Users /\ m \in Served /\ Asked(k, Tables, payments) \in k.right
  BY <1>1 DEF CheckInv
<1>3. Becomes(c, [k EXCEPT !.pc = "done", !.answer = said])
  BY SMTT(40) DEF ApplyRules, Answers
<1>4. CASE ~Empty(rules)
  <2>1. Grants(Tables, payments, u, m) <=> Matching(rules, m) = "allow"
    BY <1>2, <1>4, TablesAre, RuleOfRules, SMTT(40)
  <2> QED
    BY <1>1, <1>2, <1>3, <1>4, <2>1, CheckAnswers DEF Asked, Answer, Says
<1>5. CASE Empty(rules)
  <2>1. said = "allow"
    BY <1>5 DEF Answer
  <2>2. ~k.emptied => "allow" \in k.right
    <3>1. CASE payments
      BY <1>1, <1>5, <3>1, TablesAre DEF CheckInv
    <3>2. CASE ~payments
      <4>1. Grants(Tables, payments, u, m)
        BY <1>2, <1>5, <3>2, TablesAre, RuleOfRules, SMTT(40)
      <4> QED
        BY <1>2, <4>1 DEF Asked, Answer
    <3> QED
      BY <3>1, <3>2
  <2> QED
    BY <1>1, <1>3, <2>1, <2>2, CheckAnswers DEF Says
<1> QED
  BY <1>4, <1>5

LEMMA CheckFailsStep ==
  ASSUME AccessInv, NEW c \in Checkers, CheckFails(c)
  PROVE  AccessInv'
BY CheckAnswers DEF CheckFails, Says

---------------------------------------------------------------------------
(* Listings.                                                               *)

LEMMA QueryStep ==
  ASSUME AccessInv, NEW l \in Listers, NEW at, NEW found \in Listings, NEW missed \in Listings,
         Query(l, at, found, missed), ListInv(found, Tables, payments),
         missed.pc # "idle", missed.user \in Users, missed.rules \in Rules,
         missed.rules[Star] # "deny"
  PROVE  AccessInv'
<1> PICK h : h = [missed EXCEPT !.undisturbed = FALSE]
  OBVIOUS
<1>1. h \in Listings /\ ListInv(h, Tables, payments)
  BY DEF ListInv, Listings
<1> QED
  BY <1>1, ListStep DEF Query

LEMMA ReadRulesStep ==
  ASSUME AccessInv, NEW l \in Listers, NEW u \in Users, ReadRules(l, u)
  PROVE  AccessInv'
<1> DEFINE read(rules) ==
             [NoList EXCEPT !.user = u, !.rules = rules,
                !.pc = IF rules[Star] = "deny" THEN "done"
                       ELSE IF payments THEN "exempt" ELSE "build"]
<1> PICK none : none = [m \in DOMAIN rule[u] |-> "none"]
  OBVIOUS
<1>1. rule[u] \in Rules /\ rule \in [Users -> Rules] /\ trusted \subseteq Users
      /\ sale \in [Priced -> {"none", "advertised", "hidden"}]
  BY TablesAre DEF Databases
<1>2. none \in Rules /\ none[Star] = "none"
  BY <1>1 DEF Rules, Says
<1>3. ASSUME NEW rules \in Rules
      PROVE  /\ read(rules) \in Listings /\ read(rules).user = u /\ read(rules).rules = rules
             /\ rules[Star] = "deny" => read(rules).pc = "done"
             /\ rules[Star] # "deny" => read(rules).pc = IF payments THEN "exempt" ELSE "build"
             /\ read(rules).pc # "idle" /\ read(rules).shown = {} /\ ~read(rules).saleOnly
  BY DEF NoList, Listings
<1> HIDE DEF read
<1>4. ListInv(read(rule[u]), Tables, payments)
  <2> PICK h : h = read(rule[u])
    OBVIOUS
  <2>1. /\ h.user = u /\ h.rules = rule[u] /\ h.shown = {} /\ ~h.saleOnly
        /\ h.rules[Star] = "deny" => h.pc = "done"
        /\ h.rules[Star] # "deny" => h.pc = IF payments THEN "exempt" ELSE "build"
    BY <1>1, <1>3
  <2> QED
    BY <1>1, <2>1, TablesAre DEF ListInv
<1>5. Query(l, "idle", read(rule[u]), read(none))
  BY DEF ReadRules, read
<1> QED
  BY <1>1, <1>2, <1>3, <1>4, <1>5, QueryStep

LEMMA ListerIs ==
  ASSUME AccessInv, NEW l \in Listers, list[l].pc # "idle"
  PROVE  /\ list[l] \in Listings /\ ListInv(list[l], Tables, payments)
         /\ list[l].user \in Users /\ list[l].rules \in Rules
         /\ list[l].rules[Star] = "deny" => list[l].pc = "done" /\ list[l].shown = {}
BY DEF AccessInv, AccessTypeOK, ListInv

LEMMA ReadExemptStep ==
  ASSUME AccessInv, NEW l \in Listers, ReadExempt(l)
  PROVE  AccessInv'
<1> PICK h : h = list[l]
  OBVIOUS
<1> DEFINE read(exempt) == [h EXCEPT !.saleOnly = ~exempt,
                                     !.pc = IF exempt THEN "build" ELSE "sale"]
<1>1. h.pc = "exempt"
  BY DEF ReadExempt, Query
<1>2. /\ h \in Listings /\ ListInv(h, Tables, payments)
      /\ h.user \in Users /\ h.rules \in Rules /\ h.rules[Star] # "deny"
  BY <1>1, ListerIs
<1>3. ASSUME NEW exempt \in BOOLEAN
      PROVE  /\ read(exempt) \in Listings /\ read(exempt).user = h.user
             /\ read(exempt).rules = h.rules
             /\ read(exempt).pc = IF exempt THEN "build" ELSE "sale"
             /\ read(exempt).saleOnly <=> ~exempt
             /\ read(exempt).undisturbed <=> h.undisturbed
  BY <1>2 DEF Listings
<1>4. PICK yes \in BOOLEAN : yes <=> Exempt(h.user)
  OBVIOUS
<1>5. yes <=> Trusts(Tables, h.user)
  BY <1>4, TablesAre DEF Exempt, Trusts
<1>6. Query(l, "exempt", read(yes), read(FALSE))
  BY <1>4 DEF ReadExempt
<1>7. ListInv(read(yes), Tables, payments)
  <2> PICK g : g = read(yes)
    OBVIOUS
  <2>1. /\ g.user = h.user /\ g.rules = h.rules /\ g.pc = (IF yes THEN "build" ELSE "sale")
        /\ g.saleOnly <=> ~yes
        /\ g.undisturbed <=> h.undisturbed
    BY <1>3
  <2> QED
    BY <1>1, <1>2, <1>5, <2>1 DEF ListInv
<1> HIDE DEF read
<1> QED
  BY <1>2, <1>3, <1>6, <1>7, QueryStep

LEMMA ReadForSaleStep ==
  ASSUME AccessInv, NEW l \in Listers, ReadForSale(l)
  PROVE  AccessInv'
<1> PICK h : h = list[l]
  OBVIOUS
<1> DEFINE read(names) == [h EXCEPT !.sale = names, !.pc = "build"]
<1>1. h.pc = "sale"
  BY DEF ReadForSale, Query
<1>2. /\ h \in Listings /\ ListInv(h, Tables, payments)
      /\ h.user \in Users /\ h.rules \in Rules /\ h.rules[Star] # "deny"
  BY <1>1, ListerIs
<1>3. ASSUME NEW names \in SUBSET Priced
      PROVE  /\ read(names) \in Listings /\ read(names).user = h.user
             /\ read(names).rules = h.rules /\ read(names).pc = "build"
             /\ read(names).saleOnly = h.saleOnly /\ read(names).sale = names
             /\ read(names).undisturbed = h.undisturbed
  BY <1>2 DEF Listings
<1>4. PICK names \in SUBSET Priced : names = {n \in Priced : sale[n] = "advertised"}
  OBVIOUS
<1>5. Query(l, "sale", read(names), read({}))
  BY <1>4 DEF ReadForSale
<1>6. ListInv(read(names), Tables, payments)
  <2> PICK g : g = read(names)
    OBVIOUS
  <2>1. /\ g.user = h.user /\ g.rules = h.rules /\ g.pc = "build"
        /\ g.saleOnly = h.saleOnly /\ g.sale = names
        /\ g.undisturbed = h.undisturbed
    BY <1>3
  <2> QED
    BY <1>1, <1>2, <1>4, <2>1, TablesAre DEF ListInv
<1> HIDE DEF read
<1> QED
  BY <1>2, <1>3, <1>5, <1>6, QueryStep

LEMMA ListRoutesStep ==
  ASSUME AccessInv, NEW l \in Listers, ListRoutes(l)
  PROVE  AccessInv'
<1> PICK h : h = list[l]
  OBVIOUS
<1> PICK routes, offers : /\ routes = {m \in Routes : Seen(h, m)}
                          /\ offers = {o \in Offers : Seen(h, o)}
  OBVIOUS
<1> PICK g : g = [h EXCEPT !.pc = "offers", !.shown = routes, !.left = offers]
  OBVIOUS
<1>1. h.pc = "build"
  BY DEF ListRoutes
<1>2. /\ h \in Listings /\ ListInv(h, Tables, payments)
      /\ h.user \in Users /\ h.rules \in Rules /\ h.rules[Star] # "deny"
  BY <1>1, ListerIs
<1>3. Turns(l, g)
  BY DEF ListRoutes, Visible, Seen
<1>4. /\ g \in Listings /\ g.user = h.user /\ g.rules = h.rules /\ g.pc = "offers"
      /\ g.saleOnly = h.saleOnly /\ g.sale = h.sale /\ g.undisturbed = h.undisturbed
      /\ g.shown = routes /\ g.left = offers
  BY <1>2 DEF Listings, Served
<1>5. \A m : Seen(g, m) <=> Seen(h, m)
  BY <1>4 DEF Seen
<1>6. /\ \A m \in g.left : Seen(g, m) /\ m \in Offers
      /\ g.shown = {m \in Routes : Seen(g, m)} \cup
                   {o \in Offers \ g.left : Seen(g, o) /\ ~Hides(Tables, payments, o)}
  BY <1>4, <1>5
<1>7. ListInv(g, Tables, payments)
  BY <1>1, <1>2, <1>4, <1>6 DEF ListInv
<1> QED
  BY <1>3, <1>4, <1>7, ListStep

LEMMA ListOfferStep ==
  ASSUME AccessInv, NEW l \in Listers, NEW o \in Offers, ListOffer(l, o)
  PROVE  AccessInv'
<1> PICK h : h = list[l]
  OBVIOUS
<1> DEFINE read(hidden) == [h EXCEPT !.left = @ \ {o},
                                     !.shown = IF hidden THEN @ ELSE @ \cup {o}]
<1>1. h.pc = "offers" /\ o \in h.left
  BY DEF ListOffer, Query
<1>2. /\ h \in Listings /\ ListInv(h, Tables, payments)
      /\ h.user \in Users /\ h.rules \in Rules /\ h.rules[Star] # "deny"
  BY <1>1, ListerIs
<1>3. ASSUME NEW hidden \in BOOLEAN
      PROVE  /\ read(hidden) \in Listings /\ read(hidden).user = h.user
             /\ read(hidden).rules = h.rules /\ read(hidden).pc = h.pc
             /\ read(hidden).saleOnly = h.saleOnly /\ read(hidden).sale = h.sale
             /\ read(hidden).undisturbed = h.undisturbed
             /\ read(hidden).left = h.left \ {o}
             /\ read(hidden).shown = IF hidden THEN h.shown ELSE h.shown \cup {o}
  <2>1. h.shown \cup {o} \in SUBSET Served
    BY <1>2 DEF Listings, Served
  <2> QED
    BY <1>2, <2>1 DEF Listings
<1>4. PICK hidden \in BOOLEAN : hidden <=> payments /\ sale[Bare[o]] = "hidden"
  OBVIOUS
<1>5. Query(l, "offers", read(hidden), read(FALSE))
  BY <1>4 DEF ListOffer
<1>6. ListInv(read(hidden), Tables, payments)
  <2> PICK g : g = read(hidden)
    OBVIOUS
  <2>1. /\ g.user = h.user /\ g.rules = h.rules /\ g.pc = h.pc
        /\ g.saleOnly = h.saleOnly /\ g.sale = h.sale /\ g.undisturbed = h.undisturbed
        /\ g.left = h.left \ {o}
        /\ g.shown = IF hidden THEN h.shown ELSE h.shown \cup {o}
    BY <1>3
  <2>2. \A m : Seen(g, m) <=> Seen(h, m)
    BY <2>1 DEF Seen
  <2>3. hidden <=> Hides(Tables, payments, o)
    BY <1>4, TablesAre DEF Hides
  <2>4. SUFFICES ASSUME g.undisturbed
                 PROVE  /\ \A m \in g.left : Seen(g, m) /\ m \in Offers
                        /\ g.shown = {m \in Routes : Seen(g, m)} \cup
                             {x \in Offers \ g.left : Seen(g, x) /\ ~Hides(Tables, payments, x)}
    BY <1>1, <1>2, <2>1 DEF ListInv
  <2>5. /\ \A m \in h.left : Seen(h, m) /\ m \in Offers
        /\ h.shown = {m \in Routes : Seen(h, m)} \cup
             {x \in Offers \ h.left : Seen(h, x) /\ ~Hides(Tables, payments, x)}
    BY <1>1, <1>2, <2>1, <2>4 DEF ListInv
  <2>6. Seen(h, o)
    BY <1>1, <2>5
  <2>7. g.shown = {m \in Routes : Seen(h, m)} \cup
             {x \in Offers \ g.left : Seen(h, x) /\ ~Hides(Tables, payments, x)}
    BY <1>1, <2>1, <2>3, <2>5, <2>6
  <2> QED
    BY <2>1, <2>2, <2>5, <2>7
<1> HIDE DEF read
<1> QED
  BY <1>1, <1>2, <1>3, <1>5, <1>6, QueryStep

LEMMA ListedStep ==
  ASSUME AccessInv, NEW l \in Listers, Listed(l)
  PROVE  AccessInv'
<1> PICK h, g : h = list[l] /\ g = [h EXCEPT !.pc = "done"]
  OBVIOUS
<1>1. h.pc = "offers" /\ h.left = {} /\ Turns(l, g)
  BY DEF Listed
<1>2. /\ h \in Listings /\ ListInv(h, Tables, payments)
      /\ h.user \in Users /\ h.rules \in Rules /\ h.rules[Star] # "deny"
  BY <1>1, ListerIs
<1>3. /\ g \in Listings /\ g.user = h.user /\ g.rules = h.rules /\ g.pc = "done"
      /\ g.saleOnly = h.saleOnly /\ g.sale = h.sale /\ g.undisturbed = h.undisturbed
      /\ g.shown = h.shown /\ g.left = h.left
  BY <1>2 DEF Listings
<1>4. \A m : Seen(g, m) <=> Seen(h, m)
  BY <1>3 DEF Seen
<1>5. ListInv(g, Tables, payments)
  BY <1>1, <1>2, <1>3, <1>4 DEF ListInv
<1> QED
  BY <1>1, <1>3, <1>5, ListStep

---------------------------------------------------------------------------
(* A write changes what is for sale, or whom the rules are for, not both:  *)
(* a check that saw one of them may mix the two and still answers as of    *)
(* before or as of after.                                                  *)
OneKind(db, new) == new.sale = db.sale \/ (new.rule = db.rule /\ new.trusted = db.trusted)

Sees(k, g, db, new, paid) ==
  /\ k.pc \notin {"idle", "done"}
  /\ g.pc = k.pc /\ g.user = k.user /\ g.model = k.model /\ g.answer = k.answer
  /\ g.writes = k.writes + 1
  /\ g.right = k.right \cup {Answer(Grants(new, paid, k.user, k.model))}
  /\ g.emptied <=> k.emptied \/ (Empty(new.rule[k.user]) /\ ~Empty(db.rule[k.user]))

LEMMA WriteSeen ==
  ASSUME NEW db \in Databases, NEW new \in Databases, NEW paid \in BOOLEAN, OneKind(db, new),
         NEW k \in Checks, NEW g \in Checks, CheckInv(k, db, paid), Sees(k, g, db, new, paid)
  PROVE  CheckInv(g, new, paid)
<1> USE DEF Sees
<1> PICK u, m : u = k.user /\ m = k.model
  OBVIOUS
<1>1. u \in Users /\ m \in Served /\ k.writes \in Nat
  BY DEF CheckInv, Checks
<1>2. g.writes # 0 /\ (g.writes = 1 => k.writes = 0)
  BY <1>1
<1>3. Asked(g, new, paid) = Answer(Grants(new, paid, u, m)) /\ Asked(g, new, paid) \in g.right
  BY DEF Asked
<1>4. k.pc = "rules" /\ paid /\ ~g.emptied => ~Empty(new.rule[u]) \/ "allow" \in g.right
  BY DEF CheckInv
<1>5. Asked(k, db, paid) = Answer(Grants(db, paid, u, m)) /\ Asked(k, db, paid) \in g.right
  BY DEF CheckInv, Asked
<1>6. k.pc \in {"exempt", "sale"} /\ k.writes = 0 => Empty(db.rule[u]) /\ paid
  BY DEF CheckInv
<1>7. k.pc = "exempt" /\ k.writes = 0 =>
        Empty(new.rule[u]) \/ (new.sale[m] = "advertised" => "allow" \in g.right)
  <2> SUFFICES ASSUME k.pc = "exempt", k.writes = 0, ~Empty(new.rule[u]),
                      new.sale[m] = "advertised"
               PROVE  "allow" \in g.right
    OBVIOUS
  <2>1. db.sale[m] = "advertised" /\ Empty(db.rule[u])
    BY <1>6 DEF OneKind
  <2>2. Grants(db, paid, u, m)
    BY <1>1, <2>1, RuleOfRules
  <2> QED
    BY <1>5, <2>2 DEF Answer
<1>8. k.pc = "sale" /\ k.writes = 0 => Answer(new.sale[m] = "advertised") \in g.right
  <2> SUFFICES ASSUME k.pc = "sale", k.writes = 0
               PROVE  Answer(new.sale[m] = "advertised") \in g.right
    OBVIOUS
  <2>1. Empty(db.rule[u]) /\ u \notin db.trusted /\ paid
    BY <1>6 DEF CheckInv
  <2>2. CASE new.sale = db.sale
    <3>1. Grants(db, paid, u, m) <=> new.sale[m] = "advertised"
      BY <1>1, <2>1, <2>2, RuleOfRules, ZenonT(60)
    <3> QED
      BY <1>5, <3>1 DEF Answer
  <2>3. CASE new.rule = db.rule /\ new.trusted = db.trusted
    <3>1. Empty(new.rule[u]) /\ u \notin new.trusted
      BY <2>1, <2>3
    <3>2. ~Grants(new, paid, u, m) <=>
            paid /\ u \notin new.trusted /\ new.sale[m] # "advertised"
      BY <1>1, <3>1, RuleOfRules
    <3>3. Grants(new, paid, u, m) <=> new.sale[m] = "advertised"
      BY <2>1, <3>1, <3>2
    <3> QED
      BY <1>3, <3>3 DEF Answer
  <2> QED
    BY <2>2, <2>3 DEF OneKind
<1>9. k.pc \in {"first", "exempt", "sale"} => paid
  BY DEF CheckInv
<1> QED
  BY <1>1, <1>2, <1>3, <1>4, <1>7, <1>8, <1>9 DEF CheckInv

LEMMA WrittenStep ==
  ASSUME AccessInv, NEW new \in Databases, OneKind(Tables, new), Written(new)
  PROVE  AccessInv'
<1>1. /\ Tables \in Databases /\ payments \in BOOLEAN /\ Tables.rule = rule
      /\ check \in [Checkers -> Checks] /\ list \in [Listers -> Listings]
  BY TablesAre DEF AccessInv, AccessTypeOK
<1>2. Tables' = new /\ payments' = payments
  <2>1. /\ rule' = new.rule /\ trusted' = new.trusted /\ sale' = new.sale
        /\ payments' = payments
    BY DEF Written
  <2> QED
    BY <2>1 DEF Tables, Databases
<1>3. ASSUME NEW l \in Listers
      PROVE  list'[l] \in Listings /\ ListInv(list'[l], new, payments)
  <2> PICK h, g : h = list[l] /\ g = [h EXCEPT !.undisturbed = FALSE]
    OBVIOUS
  <2>1. h \in Listings /\ ListInv(h, Tables, payments) /\ list'[l] = g
    BY <1>1 DEF AccessInv, Written
  <2>2. /\ g \in Listings /\ g.pc = h.pc /\ g.user = h.user /\ g.rules = h.rules
        /\ g.shown = h.shown /\ ~g.undisturbed
    BY <2>1 DEF Listings
  <2> QED
    BY <2>1, <2>2 DEF ListInv
<1>4. ASSUME NEW c \in Checkers
      PROVE  check'[c] \in Checks /\ CheckInv(check'[c], new, payments)
  <2> PICK k : k = check[c]
    OBVIOUS
  <2>1. k \in Checks /\ CheckInv(k, Tables, payments)
    BY <1>1 DEF AccessInv
  <2>2. CASE k.pc = "idle"
    <3>1. check'[c] = k
      BY <2>2 DEF Written
    <3> QED
      BY <2>1, <2>2, <3>1 DEF CheckInv
  <2>3. CASE k.pc = "done"
    <3> PICK g : g = [k EXCEPT !.writes = @ + 1]
      OBVIOUS
    <3>1. check'[c] = g
      BY <2>3 DEF Written
    <3>2. /\ g \in Checks /\ g.pc = k.pc /\ g.user = k.user /\ g.model = k.model
          /\ g.answer = k.answer /\ g.writes = k.writes + 1 /\ g.right = k.right
          /\ g.emptied = k.emptied /\ k.writes \in Nat
      BY <2>1 DEF Checks
    <3>3. g.writes # 0 /\ (g.writes <= 1 => k.writes <= 1)
      BY <3>2
    <3> QED
      BY <2>1, <2>3, <3>1, <3>2, <3>3 DEF CheckInv
  <2>4. CASE k.pc \notin {"idle", "done"}
    <3> PICK yes : yes = Answer(Entitled(new, k.user, k.model))
      OBVIOUS
    <3> PICK gone \in BOOLEAN :
          gone <=> k.emptied \/ (Empty(new.rule[k.user]) /\ ~Empty(rule[k.user]))
      OBVIOUS
    <3> PICK g : g = [k EXCEPT !.writes = @ + 1, !.right = @ \cup {yes}, !.emptied = gone]
      OBVIOUS
    <3>1. yes = Answer(Grants(new, payments, k.user, k.model)) /\ yes \in Says
      BY DEF Entitled, Grants, Answer, Says
    <3> PICK right \in SUBSET Says : right = k.right \cup {yes}
      BY <2>1, <3>1 DEF Checks
    <3>2. /\ g \in Checks /\ g.pc = k.pc /\ g.user = k.user /\ g.model = k.model
          /\ g.answer = k.answer /\ g.writes = k.writes + 1
          /\ g.right = right /\ g.emptied = gone
      <4> PICK n \in Nat : n = k.writes + 1
        BY <2>1 DEF Checks
      <4>1. g = [k EXCEPT !.writes = n, !.right = right, !.emptied = gone]
        BY <2>1 DEF Checks
      <4>2. k \in Checks
        BY <2>1
      <4>3. g \in Checks
        BY <4>1, <4>2 DEF Checks
      <4> QED
        BY <4>1, <4>2 DEF Checks
    <3>3. check'[c] = [k EXCEPT !.writes = @ + 1, !.right = @ \cup {yes},
                         !.emptied = @ \/ (Empty(new.rule[k.user]) /\ ~Empty(rule[k.user]))]
      BY <2>4 DEF Written
    <3>4. check'[c] = g
      BY <2>1, <3>3 DEF Checks
    <3>5. g.emptied <=> k.emptied \/ (Empty(new.rule[k.user]) /\ ~Empty(Tables.rule[k.user]))
      BY <1>1, <3>2
    <3>6. g.right = k.right \cup {Answer(Grants(new, payments, k.user, k.model))}
      BY <3>1, <3>2
    <3>7. Sees(k, g, Tables, new, payments)
      BY <2>4, <3>2, <3>5, <3>6 DEF Sees
    <3>8. CheckInv(g, new, payments)
      BY <1>1, <2>1, <3>2, <3>7, WriteSeen
    <3> QED
      BY <3>2, <3>4, <3>8
  <2> QED
    BY <2>2, <2>3, <2>4
<1>5. AccessTypeOK'
  <2>1. check' = [c \in Checkers |-> check'[c]] /\ list' = [l \in Listers |-> list'[l]]
    BY DEF Written
  <2>2. check' \in [Checkers -> Checks] /\ list' \in [Listers -> Listings]
    BY <1>3, <1>4, <2>1
  <2> QED
    BY <1>1, <1>2, <2>2 DEF AccessTypeOK
<1> QED
  BY <1>2, <1>3, <1>4, <1>5 DEF AccessInv

LEMMA AdministerStep ==
  ASSUME AccessInv, Administer
  PROVE  AccessInv'
<1>1. /\ Tables \in Databases /\ Tables.rule = rule /\ Tables.trusted = trusted
      /\ Tables.sale = sale
  BY TablesAre
<1>2. ASSUME NEW u \in Users, NEW m \in Served \cup {Star}, NEW to \in Says
      PROVE  LET new == [Tables EXCEPT !.rule[u][m] = to]
             IN  new \in Databases /\ OneKind(Tables, new)
  BY <1>1 DEF Databases, Rules, OneKind
<1>3. ASSUME NEW u \in Users, NEW trusts \in SUBSET Users
      PROVE  LET new == [Tables EXCEPT !.trusted = trusts]
             IN  new \in Databases /\ OneKind(Tables, new)
  BY <1>1 DEF Databases, OneKind
<1>4. ASSUME NEW u \in Users
      PROVE  LET new == [Tables EXCEPT !.rule[u] = [m \in DOMAIN @ |-> "none"],
                                       !.trusted = @ \ {u}]
             IN  new \in Databases /\ OneKind(Tables, new)
  BY <1>1 DEF Databases, Rules, Says, OneKind
<1>5. ASSUME NEW n \in Priced, NEW status \in {"none", "advertised", "hidden"}
      PROVE  LET new == [Tables EXCEPT !.sale[n] = status]
             IN  new \in Databases /\ OneKind(Tables, new)
  BY <1>1 DEF Databases, OneKind
<1>6. ASSUME NEW u \in Users, NEW m \in Served \cup {Star}, NEW to \in {"allow", "deny"},
             UpsertRule(u, m, to)
      PROVE  AccessInv'
  BY <1>2, <1>6, WrittenStep DEF UpsertRule, Says
<1>7. ASSUME NEW u \in Users, NEW m \in Served \cup {Star}, DeleteRule(u, m)
      PROVE  AccessInv'
  BY <1>2, <1>7, WrittenStep DEF DeleteRule, Says
<1>8. ASSUME NEW u \in Users, NEW yes \in BOOLEAN, SetAdmin(u, yes)
      PROVE  AccessInv'
  <2> PICK trusts \in SUBSET Users : trusts = IF yes THEN trusted \cup {u} ELSE trusted \ {u}
    BY <1>1 DEF Databases
  <2>1. Written([Tables EXCEPT !.trusted = trusts])
    BY <1>1, <1>8 DEF SetAdmin
  <2> QED
    BY <1>3, <2>1, WrittenStep
<1>9. ASSUME NEW u \in Users, DeleteUserRow(u)
      PROVE  AccessInv'
  BY <1>4, <1>9, WrittenStep DEF DeleteUserRow
<1>10. ASSUME NEW n \in Priced, NEW status \in {"advertised", "hidden"},
              CreatePricing(n, status) \/ UpdatePricing(n, status)
       PROVE  AccessInv'
  BY <1>5, <1>10, WrittenStep DEF CreatePricing, UpdatePricing
<1>11. ASSUME NEW n \in Priced, DeletePricing(n)
       PROVE  AccessInv'
  BY <1>5, <1>11, WrittenStep DEF DeletePricing
<1> QED
  BY <1>6, <1>7, <1>8, <1>9, <1>10, <1>11 DEF Administer

LEMMA AccessNextInv ==
  ASSUME AccessInv, [AccessNext]_access
  PROVE  AccessInv'
<1>1. ASSUME NEW c \in Checkers, Check(c) PROVE AccessInv'
  BY <1>1, BeginCheckStep, FindNoRulesStep, AskExemptStep, AskForSaleStep, ApplyRulesStep,
     CheckFailsStep DEF Check
<1>2. ASSUME NEW l \in Listers, List(l) PROVE AccessInv'
  BY <1>2, ReadRulesStep, ReadExemptStep, ReadForSaleStep, ListRoutesStep, ListOfferStep,
     ListedStep DEF List
<1>3. CASE UNCHANGED access
  <2>1. Tables' = Tables /\ UNCHANGED <<payments, check, list>>
    BY <1>3 DEF access, Tables
  <2> QED
    BY <2>1 DEF AccessInv, AccessTypeOK
<1> QED
  BY <1>1, <1>2, <1>3, AdministerStep DEF AccessNext

(* The three queries of effective_model_access answer, of a check that     *)
(* meets one write of the administrator, as before it or as after it.      *)
THEOREM ChecksAnswerOneMoment == AccessSpec => []AnswerOfOneMoment
<1>1. AccessInv => AnswerOfOneMoment
  BY DEF AccessInv, AccessTypeOK, CheckInv, AnswerOfOneMoment
<1> QED
  BY <1>1, AccessInitInv, AccessNextInv, PTL DEF AccessSpec

(* A listing that met no write sees what a check that met none grants.     *)
LEMMA SightIsGrant ==
  ASSUME NEW db \in Databases, NEW paid \in BOOLEAN, NEW u \in Users, NEW m \in Served,
         NEW h, h.rules = db.rule[u], h.saleOnly <=> paid /\ ~Trusts(db, u),
         h.saleOnly => h.sale = {n \in Priced : db.sale[n] = "advertised"}
  PROVE  Seen(h, m) <=> Grants(db, paid, u, m)
<1>1. m \in Priced
  BY DEF Priced
<1>2. CASE Empty(db.rule[u])
  <2>1. Trusts(db, u) <=> u \in db.trusted
    BY <1>2, RuleOfRules
  <2>2. h.rules[m] = "none" /\ h.rules[Star] = "none"
    <3>1. DOMAIN db.rule[u] = Served \cup {Star}
      BY RuleOfRules
    <3> QED
      BY <1>2, <3>1 DEF Empty
  <2>3. Seen(h, m) <=> (h.saleOnly => m \in h.sale)
    BY <1>2, <2>2 DEF Seen
  <2>4. Grants(db, paid, u, m) <=> (paid => u \in db.trusted \/ db.sale[m] = "advertised")
    BY <1>2, <2>2 DEF Grants
  <2> QED
    BY <1>1, <2>1, <2>3, <2>4
<1>3. CASE ~Empty(db.rule[u])
  BY <1>3 DEF Seen, Grants
<1> QED
  BY <1>2, <1>3

(* What GET /v1/models shows and what the endpoints serve are one rule,    *)
(* for any tables, whatever the names of routes and offers have in common. *)
THEOREM ListingsAgreeWithChecks == AccessSpec => []ListingAgrees
<1>1. AccessInv => ListingAgrees
  <2> SUFFICES ASSUME AccessInv, NEW c \in Checkers, NEW l \in Listers,
                      check[c].pc = "done", check[c].answer # "none", check[c].writes = 0,
                      list[l].pc = "done", list[l].undisturbed, check[c].user = list[l].user
               PROVE  IF list[l].rules[Star] = "deny" THEN list[l].shown = {}
                      ELSE check[c].model \in list[l].shown <=>
                             /\ check[c].answer = "allow"
                             /\ ~(/\ payments /\ check[c].model \in Offers \ Routes
                                  /\ sale[Bare[check[c].model]] = "hidden")
    BY DEF ListingAgrees
  <2> PICK k, h, u, m : k = check[c] /\ h = list[l] /\ u = k.user /\ m = k.model
    OBVIOUS
  <2>1. k \in Checks /\ CheckInv(k, Tables, payments) /\ ListInv(h, Tables, payments)
    BY DEF AccessInv, AccessTypeOK
  <2>2. /\ u \in Users /\ m \in Served /\ ~k.emptied /\ k.right = {Asked(k, Tables, payments)}
        /\ k.answer \in k.right
    BY <2>1 DEF CheckInv
  <2>3. k.answer = "allow" <=> Grants(Tables, payments, u, m)
    BY <2>2 DEF Asked, Answer
  <2>4. CASE h.rules[Star] = "deny"
    BY <2>1, <2>4 DEF ListInv
  <2>5. CASE h.rules[Star] # "deny"
    <3>1. /\ h.rules = Tables.rule[u]
          /\ h.saleOnly <=> payments /\ ~Trusts(Tables, u)
          /\ h.saleOnly => h.sale = {n \in Priced : Tables.sale[n] = "advertised"}
          /\ h.left = {}
          /\ h.shown = {x \in Routes : Seen(h, x)} \cup
                       {o \in Offers \ h.left : Seen(h, o) /\ ~Hides(Tables, payments, o)}
      BY <2>1, <2>5 DEF ListInv
    <3>2. Seen(h, m) <=> Grants(Tables, payments, u, m)
      BY <2>2, <3>1, TablesAre, SightIsGrant
    <3>3. Hides(Tables, payments, m) <=> payments /\ sale[Bare[m]] = "hidden"
      BY TablesAre DEF Hides
    <3>4. m \in h.shown <=> Seen(h, m) /\ (m \in Routes \/ ~Hides(Tables, payments, m))
      BY <2>2, <3>1 DEF Served
    <3> QED
      BY <2>2, <2>3, <2>5, <3>2, <3>3, <3>4 DEF Served
  <2> QED
    BY <2>4, <2>5
<1> QED
  BY <1>1, AccessInitInv, AccessNextInv, PTL DEF AccessSpec

---------------------------------------------------------------------------
(* Accounts: rows, sessions and the requests that act as them.             *)

People == [live : BOOLEAN, name : Names \cup {NoName}, key : Pubkeys \cup {NoKey},
           admin : BOOLEAN, password : BOOLEAN]
Sessions == [name : Names \cup {NoName}, admin : BOOLEAN, expires : Nat,
             owner : Ids \cup {0}, own : BOOLEAN]
Moments == {"idle", "setup", "login", "find", "acts", "in", "insert", "select", "refused",
            "create", "update"}
Handlers == [at : Moments, name : Names \cup {NoName}, key : Pubkeys \cup {NoKey},
             token : Tokens \cup {0}, id : Ids \cup {0}, admin : BOOLEAN,
             acts : Ids \cup {0}, excused : BOOLEAN]

AccountsTypeOK ==
  /\ user \in [Ids -> People]
  /\ created \in 0..MaxUsers
  /\ session \in [Tokens -> Sessions]
  /\ logins \in 0..MaxLogins
  /\ clock \in 0..MaxDays
  /\ call \in [Calls -> Handlers]

(* A row is used once, and no two rows have one name.                      *)
UsersInv ==
  /\ \A i \in Ids : ~user[i].live \/ i > created => user[i] = Gone
  /\ \A i, j \in Ids : user[i].live /\ user[j].live /\ user[i].name = user[j].name
                         /\ user[i].name # NoName => i = j

(* A session that is still its owner's has its owner's name.               *)
SessionsInv ==
  \A t \in Tokens :
    /\ t > logins => session[t] = NoSession
    /\ session[t].own =>
         /\ session[t].owner \in Ids /\ session[t].name # NoName
         /\ user[session[t].owner].live
         /\ user[session[t].owner].name = session[t].name

HandlerInv(c) ==
  LET h == call[c] IN
  /\ h.at \in {"setup", "login", "update"} => h.name # NoName
  /\ h.at \in {"login", "update"} => h.id \in Ids
  /\ h.at = "login" => h.id <= created
  /\ h.at \in {"find", "acts"} =>
       /\ h.token \in Tokens /\ h.token <= logins
       /\ session[h.token] # NoSession => session[h.token].name = h.name
  /\ h.at = "acts" /\ session[h.token].own => h.acts = session[h.token].owner
  /\ h.at \in {"in", "insert", "select"} => h.key # NoKey
  /\ h.at = "in" => /\ h.acts \in Ids /\ h.acts <= created
                    /\ user[h.acts] = Gone \/ user[h.acts].key = h.key
  /\ h.at = "select" => h.excused \/ HasKey(h.key) # {}
  /\ h.at = "refused" => h.excused

AccountsInv ==
  /\ AccountsTypeOK
  /\ UsersInv
  /\ SessionsInv
  /\ \A c \in Calls : HandlerInv(c)

LEMMA AccountsValues ==
  /\ NoName \notin Names /\ NoKey \notin Pubkeys
  /\ Short \in [Pubkeys -> Names]
  /\ MaxUsers \in Nat /\ MaxLogins \in Nat /\ Day \in Nat /\ MaxDays \in Nat
  /\ Gone \in People /\ NoSession \in Sessions /\ Quiet \in Handlers
BY AccountsAssumption DEF Gone, People, NoSession, Sessions, Quiet, Handlers, Moments

LEMMA AccountsInitInv == AccountsInit => AccountsInv
<1> SUFFICES ASSUME AccountsInit PROVE AccountsInv
  OBVIOUS
<1> USE AccountsValues DEF AccountsInit
<1>1. AccountsTypeOK
  BY DEF AccountsTypeOK
<1>2. UsersInv /\ SessionsInv
  BY DEF UsersInv, SessionsInv, Gone, NoSession, Ids
<1>3. ASSUME NEW c \in Calls PROVE HandlerInv(c)
  BY DEF HandlerInv, Quiet
<1> QED
  BY <1>1, <1>2, <1>3 DEF AccountsInv

(* What a call knows outlives the steps of others: rows and sessions go or *)
(* keep their keys, names and owners.                                      *)
Outlives ==
  /\ created' \in Nat /\ created <= created' /\ logins' \in Nat /\ logins <= logins'
  /\ \A i \in Ids : i <= created =>
       user'[i] = Gone \/ (user[i] # Gone /\ user'[i].key = user[i].key)
  /\ \A t \in Tokens : t <= logins =>
       \/ session'[t] = NoSession
       \/ /\ session[t] # NoSession
          /\ session'[t].name = session[t].name /\ session'[t].owner = session[t].owner
          /\ session'[t].own => session[t].own

LEMMA NoLater ==
  ASSUME NEW x \in Nat, NEW m \in Nat, NEW n \in Nat, x <= m, m <= n
  PROVE  x <= n
OBVIOUS

LEMMA OthersKeep ==
  ASSUME AccountsInv, Outlives, NEW c \in Calls, call'[c] = call[c],
         call[c].at = "select" /\ HasKey(call[c].key) # {} => HasKey(call[c].key)' # {}
  PROVE  HandlerInv(c)'
<1> PICK h : h = call[c]
  OBVIOUS
<1>1. HandlerInv(c)
  BY DEF AccountsInv
<1>2. /\ created \in Nat /\ logins \in Nat /\ h \in Handlers
      /\ Ids \subseteq Nat /\ Tokens \subseteq Nat
  BY AccountsValues DEF AccountsInv, AccountsTypeOK, Ids, Tokens
<1>3. ~NoSession.own
  BY DEF NoSession
<1>4. h.at = "login" => h.id \in Ids /\ h.id <= created'
  BY <1>1, <1>2, NoLater DEF HandlerInv, Outlives
<1>5. h.at \in {"find", "acts"} =>
        /\ h.token \in Tokens /\ h.token <= logins /\ h.token <= logins'
        /\ session[h.token] # NoSession => session[h.token].name = h.name
  BY <1>1, <1>2, NoLater DEF HandlerInv, Outlives
<1>6. h.at \in {"find", "acts"} /\ session'[h.token] # NoSession
        => session'[h.token].name = h.name
  BY <1>5 DEF Outlives
<1>7. h.at = "acts" /\ session'[h.token].own => h.acts = session'[h.token].owner
  BY <1>1, <1>2, <1>3 DEF HandlerInv, Outlives
<1>8. h.at = "in" => /\ h.acts \in Ids /\ h.acts <= created /\ h.acts <= created'
                     /\ user[h.acts] = Gone \/ user[h.acts].key = h.key
  BY <1>1, <1>2, NoLater DEF HandlerInv, Outlives
<1>9. h.at = "in" => user'[h.acts] = Gone \/ user'[h.acts].key = h.key
  BY <1>8 DEF Outlives
<1>10. h.at = "select" => h.excused \/ HasKey(h.key)' # {}
  BY <1>1 DEF HandlerInv
<1>11. HasKey(h.key)' = {i \in Ids : user'[i].key = h.key /\ user'[i].live}
  BY DEF HasKey, Exists
<1> QED
  BY <1>1, <1>4, <1>5, <1>6, <1>7, <1>8, <1>9, <1>10, <1>11 DEF HandlerInv, HasKey, Exists

(* One call's step: its own part is to be shown, the others keep theirs.   *)
LEMMA CallStep ==
  ASSUME AccountsInv, NEW c \in Calls, NEW h \in Handlers, To(c, h), Outlives,
         user' \in [Ids -> People], created' \in 0..MaxUsers, clock' = clock,
         session' \in [Tokens -> Sessions], logins' \in 0..MaxLogins,
         UsersInv', SessionsInv', HandlerInv(c)',
         \A p : HasKey(p) # {} => HasKey(p)' # {}
  PROVE  AccountsInv'
<1>1. call' = [call EXCEPT ![c] = h] /\ call \in [Calls -> Handlers]
  BY DEF To, AccountsInv, AccountsTypeOK
<1>2. AccountsTypeOK'
  BY <1>1 DEF AccountsInv, AccountsTypeOK
<1>3. ASSUME NEW d \in Calls PROVE HandlerInv(d)'
  <2>1. CASE d = c
    BY <2>1
  <2>2. CASE d # c
    <3>1. call'[d] = call[d]
      BY <1>1, <2>2
    <3>2. HasKey(call[d].key) # {} => HasKey(call[d].key)' # {}
      BY <3>1 DEF HasKey, Exists
    <3> QED
      BY <3>1, <3>2, OthersKeep
  <2> QED
    BY <2>1, <2>2
<1> QED
  BY <1>2, <1>3 DEF AccountsInv

LEMMA QuietHandler ==
  ASSUME NEW c \in Calls, call'[c] = Quiet
  PROVE  HandlerInv(c)'
BY DEF HandlerInv, Quiet

(* A step that only reads the tables.                                      *)
LEMMA ReadStep ==
  ASSUME AccountsInv, NEW c \in Calls, NEW h \in Handlers, To(c, h), Reads, HandlerInv(c)'
  PROVE  AccountsInv'
<1>1. call' = [call EXCEPT ![c] = h] /\ call \in [Calls -> Handlers]
  BY DEF To, AccountsInv, AccountsTypeOK
<1>2. UNCHANGED <<user, created, session, logins, clock>>
  BY DEF Reads, Rests
<1>3. AccountsTypeOK' /\ UsersInv' /\ SessionsInv'
  BY <1>1, <1>2 DEF AccountsInv, AccountsTypeOK, UsersInv, SessionsInv
<1>4. ASSUME NEW d \in Calls PROVE HandlerInv(d)'
  <2>1. CASE d = c
    BY <2>1
  <2>2. CASE d # c
    <3>1. call'[d] = call[d] /\ HandlerInv(d)
      BY <1>1, <2>2 DEF AccountsInv
    <3> QED
      BY <1>2, <3>1 DEF HandlerInv, HasKey, Exists
  <2> QED
    BY <2>1, <2>2
<1> QED
  BY <1>3, <1>4 DEF AccountsInv

(* An insert under the two UNIQUE keys.                                    *)
LEMMA InsertStep ==
  ASSUME AccountsInv, NEW new \in People, new.live, Inserts(new), Rests
  PROVE  /\ user' \in [Ids -> People] /\ created' \in 0..MaxUsers
         /\ UsersInv' /\ SessionsInv' /\ Outlives
         /\ \A p : HasKey(p) # {} => HasKey(p)' # {}
         /\ HasKey(new.key)' # {}
<1> DEFINE n == created + 1
<1>1. /\ user \in [Ids -> People] /\ created \in 0..MaxUsers /\ n \in Ids /\ created < MaxUsers
      /\ logins \in Nat /\ Ids \subseteq Nat /\ created' = n
      /\ \A i \in Ids : user'[i] = IF i = n THEN new ELSE user[i]
      /\ user' \in [Ids -> People] /\ created' \in 0..MaxUsers
  BY AccountsValues DEF AccountsInv, AccountsTypeOK, Inserts, Ids
<1>2. user[n] = Gone /\ ~user[n].live
  <2>1. n > created
    BY <1>1
  <2>2. user[n] = Gone
    BY <1>1, <2>1 DEF AccountsInv, UsersInv
  <2> QED
    BY <2>2 DEF Gone
<1>3. UNCHANGED <<session, logins>>
  BY DEF Rests
<1>4. \A i \in Ids : user[i].live /\ user[i].name = new.name => new.name = NoName
  BY DEF Inserts, Fits, HasName, Exists
<1>5. UsersInv'
  BY <1>1, <1>4 DEF AccountsInv, UsersInv
<1>6. SessionsInv'
  BY <1>1, <1>2, <1>3 DEF AccountsInv, SessionsInv
<1>7. Outlives
  BY <1>1, <1>2, <1>3 DEF Outlives
<1>8. \A p : HasKey(p) # {} => HasKey(p)' # {}
  BY <1>1, <1>2 DEF HasKey, Exists
<1>9. HasKey(new.key)' # {}
  BY <1>1 DEF HasKey, Exists
<1> QED
  BY <1>1, <1>5, <1>6, <1>7, <1>8, <1>9

(* A handler whose step may write: the rest of the table is as it was, or  *)
(* has one row more.                                                       *)
LEMMA WriteStep ==
  ASSUME AccountsInv, NEW c \in Calls, NEW h \in Handlers, To(c, h), Rests,
         NEW new \in People, new.live,
         Inserts(new) \/ UNCHANGED <<user, created>>, HandlerInv(c)'
  PROVE  AccountsInv'
<1>1. CASE UNCHANGED <<user, created>>
  BY <1>1, ReadStep DEF Reads
<1>2. CASE Inserts(new)
  <2>1. /\ user' \in [Ids -> People] /\ created' \in 0..MaxUsers
        /\ UsersInv' /\ SessionsInv' /\ Outlives
        /\ \A p : HasKey(p) # {} => HasKey(p)' # {}
    BY <1>2, InsertStep
  <2>2. session' \in [Tokens -> Sessions] /\ logins' \in 0..MaxLogins /\ clock' = clock
    BY DEF Rests, AccountsInv, AccountsTypeOK
  <2> QED
    BY <2>1, <2>2, CallStep
<1> QED
  BY <1>1, <1>2

LEMMA QuietCall ==
  ASSUME AccountsInv, NEW c \in Calls, To(c, Quiet)
  PROVE  HandlerInv(c)'
BY QuietHandler DEF To, AccountsInv, AccountsTypeOK

(* The handlers that read only.                                            *)
LEMMA Shape ==
  ASSUME NEW c \in Calls, NEW h, To(c, h), AccountsInv
  PROVE  call'[c] = h
BY DEF To, AccountsInv, AccountsTypeOK

LEMMA Beginnings ==
  ASSUME AccountsInv, NEW c \in Calls, NEW n \in Names,
         \/ BeginSetup(c, n)
         \/ BeginLogin(c, n)
         \/ \E i \in Ids : BeginUpdate(c, i, n)
  PROVE  AccountsInv'
<1> USE AccountsValues
<1>1. CASE BeginSetup(c, n)
  <2> PICK h : h = [Quiet EXCEPT !.at = "setup", !.name = n]
    OBVIOUS
  <2>1. h \in Handlers /\ h.at = "setup" /\ h.name = n
    BY DEF Quiet, Handlers, Moments
  <2>2. To(c, h) /\ Reads
    BY <1>1 DEF BeginSetup
  <2>3. HandlerInv(c)'
    BY <2>1, <2>2, Shape DEF HandlerInv
  <2> QED
    BY <2>1, <2>2, <2>3, ReadStep
<1>2. CASE BeginLogin(c, n)
  <2>1. PICK i \in HasName(n) :
          To(c, [Quiet EXCEPT !.at = "login", !.name = n, !.id = i, !.admin = user[i].admin])
    BY <1>2 DEF BeginLogin
  <2> PICK h : h = [Quiet EXCEPT !.at = "login", !.name = n, !.id = i, !.admin = user[i].admin]
    OBVIOUS
  <2>2. i \in Ids /\ user[i].live /\ user[i] \in People /\ user \in [Ids -> People]
        /\ created \in Nat /\ Ids \subseteq Nat
    BY DEF HasName, Exists, AccountsInv, AccountsTypeOK, Ids
  <2>3. i <= created
    BY <2>2 DEF AccountsInv, UsersInv, Gone, Ids
  <2>4. h \in Handlers /\ h.at = "login" /\ h.name = n /\ h.id = i
    BY <2>2 DEF Quiet, Handlers, Moments, People
  <2>5. To(c, h) /\ Reads
    BY <1>2, <2>1 DEF BeginLogin
  <2>6. created' = created
    BY <2>5 DEF Reads
  <2>7. HandlerInv(c)'
    BY <2>2, <2>3, <2>4, <2>5, <2>6, Shape, ZenonT(60) DEF HandlerInv
  <2> QED
    BY <2>4, <2>5, <2>7, ReadStep
<1>3. ASSUME NEW i \in Ids, BeginUpdate(c, i, n) PROVE AccountsInv'
  <2> PICK h : h = [Quiet EXCEPT !.at = "update", !.name = n, !.id = i]
    OBVIOUS
  <2>1. h \in Handlers /\ h.at = "update" /\ h.name = n /\ h.id = i
    BY DEF Quiet, Handlers, Moments
  <2>2. To(c, h) /\ Reads
    BY <1>3 DEF BeginUpdate
  <2>3. HandlerInv(c)'
    BY <2>1, <2>2, Shape DEF HandlerInv
  <2> QED
    BY <2>1, <2>2, <2>3, ReadStep
<1> QED
  BY <1>1, <1>2, <1>3

LEMMA BeginCreateStep ==
  ASSUME AccountsInv, NEW c \in Calls, NEW n \in Names \cup {NoName},
         NEW p \in Pubkeys \cup {NoKey}, BeginCreate(c, n, p)
  PROVE  AccountsInv'
<1> PICK h : h = [Quiet EXCEPT !.at = "create", !.name = n, !.key = p]
  OBVIOUS
<1>1. h \in Handlers /\ h.at = "create"
  BY AccountsValues DEF Quiet, Handlers, Moments
<1>2. To(c, h) /\ Reads
  BY DEF BeginCreate
<1>3. HandlerInv(c)'
  BY <1>1, <1>2, Shape DEF HandlerInv
<1> QED
  BY <1>1, <1>2, <1>3, ReadStep

LEMMA PresentStep ==
  ASSUME AccountsInv, NEW c \in Calls, NEW t \in Tokens, NEW asAdmin \in BOOLEAN,
         Present(c, t, asAdmin)
  PROVE  AccountsInv'
<1> PICK h : h = [Quiet EXCEPT !.at = "find", !.name = session[t].name, !.token = t]
  OBVIOUS
<1>1. session[t] # NoSession /\ session[t] \in Sessions
  BY DEF Present, Valid, AccountsInv, AccountsTypeOK
<1>2. t <= logins
  <2>1. t \in Nat /\ logins \in Nat
    BY AccountsValues DEF Tokens, AccountsInv, AccountsTypeOK
  <2>2. ~(t > logins)
    BY <1>1 DEF AccountsInv, SessionsInv
  <2> QED
    BY <2>1, <2>2
<1>3. h \in Handlers /\ h.at = "find" /\ h.name = session[t].name /\ h.token = t
  BY <1>1, AccountsValues DEF Quiet, Handlers, Moments, Sessions
<1>4. To(c, h) /\ Reads
  BY DEF Present
<1>5. session' = session /\ logins' = logins
  BY <1>4 DEF Reads, Rests
<1>6. HandlerInv(c)'
  BY <1>2, <1>3, <1>4, <1>5, Shape DEF HandlerInv
<1> QED
  BY <1>3, <1>4, <1>6, ReadStep

(* The one with the name is the one who logged in, if that one still has   *)
(* it: names are unique.                                                   *)
LEMMA FindStep ==
  ASSUME AccountsInv, NEW c \in Calls, Find(c)
  PROVE  AccountsInv'
<1>1. CASE Ends(c) /\ Reads
  BY <1>1, QuietCall, ReadStep, AccountsValues DEF Ends
<1>2. ASSUME NEW i \in ByName(call[c].name),
             To(c, [call[c] EXCEPT !.at = "acts", !.acts = i]), Reads, call[c].at = "find"
      PROVE  AccountsInv'
  <2> PICK g : g = call[c]
    OBVIOUS
  <2> PICK h : h = [g EXCEPT !.at = "acts", !.acts = i]
    OBVIOUS
  <2>1. /\ g \in Handlers /\ g.at = "find" /\ i \in Ids
        /\ user[i].live /\ user[i].name = g.name
    BY <1>2 DEF ByName, HasName, Exists, AccountsInv, AccountsTypeOK
  <2>2. /\ h \in Handlers /\ h.at = "acts" /\ h.name = g.name /\ h.token = g.token
        /\ h.acts = i
    BY <2>1 DEF Handlers, Moments
  <2>3. /\ g.token \in Tokens /\ g.token <= logins
        /\ session[g.token] # NoSession => session[g.token].name = g.name
    BY <2>1 DEF HandlerInv, AccountsInv
  <2>4. session[g.token].own => i = session[g.token].owner
    <3> PICK s, j : s = session[g.token] /\ j = session[g.token].owner
      OBVIOUS
    <3> SUFFICES ASSUME s.own PROVE i = j
      OBVIOUS
    <3>1. s # NoSession
      BY DEF NoSession
    <3>2. /\ j \in Ids /\ s.name # NoName /\ user[j].live /\ user[j].name = s.name
      BY <2>3 DEF AccountsInv, SessionsInv
    <3>3. user[i].name = user[j].name /\ user[i].name # NoName
      BY <2>1, <2>3, <3>1, <3>2
    <3> QED
      BY <2>1, <3>2, <3>3 DEF AccountsInv, UsersInv
  <2>5. To(c, h)
    BY <1>2
  <2>6. session' = session /\ logins' = logins
    BY <1>2 DEF Reads, Rests
  <2>7. HandlerInv(c)'
    BY <2>2, <2>3, <2>4, <2>5, <2>6, Shape DEF HandlerInv
  <2> QED
    BY <1>2, <2>2, <2>5, <2>7, ReadStep
<1> QED
  BY <1>1, <1>2 DEF Find

LEMMA EndStep ==
  ASSUME AccountsInv, NEW c \in Calls, Ends(c), Reads
  PROVE  AccountsInv'
BY QuietCall, ReadStep, AccountsValues DEF Ends

LEMMA KeyIsThere ==
  ASSUME AccountsInv, NEW p, NEW i \in HasKey(p)
  PROVE  i \in Ids /\ i <= created /\ user[i].key = p
<1>1. i \in Ids /\ user[i].live /\ user[i].key = p /\ created \in Nat /\ i \in Nat
  BY AccountsValues DEF HasKey, Exists, Ids, AccountsInv, AccountsTypeOK
<1>2. ~(i > created)
  BY <1>1 DEF AccountsInv, UsersInv, Gone
<1> QED
  BY <1>1, <1>2

LEMMA BeginNostrStep ==
  ASSUME AccountsInv, NEW c \in Calls, NEW p \in Pubkeys, BeginNostr(c, p)
  PROVE  AccountsInv'
<1>1. ASSUME NEW i \in HasKey(p), To(c, [Quiet EXCEPT !.at = "in", !.key = p, !.acts = i])
      PROVE  AccountsInv'
  <2> PICK h : h = [Quiet EXCEPT !.at = "in", !.key = p, !.acts = i]
    OBVIOUS
  <2>1. i \in Ids /\ i <= created /\ user[i].key = p
    BY KeyIsThere
  <2>2. h \in Handlers /\ h.at = "in" /\ h.key = p /\ h.acts = i
    BY <2>1, AccountsValues DEF Quiet, Handlers, Moments
  <2>3. To(c, h) /\ Reads /\ user' = user /\ created' = created
    BY <1>1 DEF BeginNostr, Reads
  <2>4. HandlerInv(c)'
    BY <2>1, <2>2, <2>3, Shape, AccountsValues DEF HandlerInv
  <2> QED
    BY <2>2, <2>3, <2>4, ReadStep
<1>2. ASSUME To(c, [Quiet EXCEPT !.at = "insert", !.key = p]) PROVE AccountsInv'
  <2> PICK h : h = [Quiet EXCEPT !.at = "insert", !.key = p]
    OBVIOUS
  <2>1. h \in Handlers /\ h.at = "insert" /\ h.key = p
    BY AccountsValues DEF Quiet, Handlers, Moments
  <2>2. To(c, h) /\ Reads
    BY <1>2 DEF BeginNostr
  <2>3. HandlerInv(c)'
    BY <2>1, <2>2, Shape, AccountsValues DEF HandlerInv
  <2> QED
    BY <2>1, <2>2, <2>3, ReadStep
<1> QED
  BY <1>1, <1>2 DEF BeginNostr

(* INSERT IGNORE leaves a row of the key, unless the name of it is taken.  *)
LEMMA InsertNostrStep ==
  ASSUME AccountsInv, NEW c \in Calls, InsertNostr(c)
  PROVE  AccountsInv'
<1> PICK g, p : g = call[c] /\ p = call[c].key
  OBVIOUS
<1> PICK new : new = NostrUser(p)
  OBVIOUS
<1>1. g \in Handlers /\ g.at = "insert" /\ p = g.key /\ p \in Pubkeys
  BY DEF InsertNostr, AccountsInv, AccountsTypeOK, HandlerInv, Handlers
<1>2. /\ new \in People /\ new.live /\ new.key = p /\ new.name = Short[p]
      /\ Short[p] # NoName /\ p # NoKey
  BY <1>1, AccountsValues DEF NostrUser, Person, People
<1> PICK h : h = [g EXCEPT !.at = "select", !.excused = HasName(Short[p]) # HasKey(p)]
  OBVIOUS
<1>3. h \in Handlers /\ h.at = "select" /\ h.key = p
  BY <1>1 DEF Handlers, Moments
<1>4. h.excused <=> HasName(Short[p]) # HasKey(p)
  BY <1>1 DEF Handlers
<1>5. To(c, h) /\ Rests
  BY DEF InsertNostr, Ignores
<1>6. call'[c] = h
  BY <1>5, Shape
<1>7. HasKey(p)' = {i \in Ids : user'[i].key = p /\ user'[i].live}
  BY DEF HasKey, Exists
<1>8. CASE Inserts(new)
  <2>1. HasKey(new.key)' # {}
    BY <1>2, <1>5, <1>8, InsertStep
  <2>2. HasKey(p)' # {}
    BY <1>2, <1>7, <2>1 DEF HasKey, Exists
  <2>3. HandlerInv(c)'
    BY <1>2, <1>3, <1>6, <1>7, <2>2 DEF HandlerInv, HasKey, Exists
  <2> QED
    BY <1>2, <1>3, <1>5, <1>8, <2>3, WriteStep
<1>9. CASE ~Fits(new) /\ UNCHANGED <<user, created>>
  <2>1. HasName(Short[p]) # {} \/ HasKey(p) # {}
    BY <1>2, <1>9 DEF Fits
  <2>2. h.excused \/ HasKey(p) # {}
    BY <1>4, <2>1
  <2>3. HasKey(p)' = HasKey(p)
    BY <1>9 DEF HasKey, Exists
  <2>4. HandlerInv(c)'
    BY <1>2, <1>3, <1>6, <1>7, <2>2, <2>3 DEF HandlerInv, HasKey, Exists
  <2> QED
    BY <1>2, <1>3, <1>5, <1>9, <2>4, WriteStep
<1> QED
  BY <1>8, <1>9 DEF InsertNostr

LEMMA SelectNostrStep ==
  ASSUME AccountsInv, NEW c \in Calls, SelectNostr(c)
  PROVE  AccountsInv'
<1> PICK g, p : g = call[c] /\ p = call[c].key
  OBVIOUS
<1>1. /\ g \in Handlers /\ g.at = "select" /\ p = g.key /\ p # NoKey
      /\ g.excused \/ HasKey(p) # {}
  BY DEF SelectNostr, AccountsInv, AccountsTypeOK, HandlerInv
<1>2. Reads /\ user' = user /\ created' = created
  BY DEF SelectNostr, Reads
<1>3. ASSUME NEW i \in HasKey(p), To(c, [g EXCEPT !.at = "in", !.acts = i])
      PROVE  AccountsInv'
  <2> PICK h : h = [g EXCEPT !.at = "in", !.acts = i]
    OBVIOUS
  <2>1. i \in Ids /\ i <= created /\ user[i].key = p
    BY KeyIsThere
  <2>2. h \in Handlers /\ h.at = "in" /\ h.key = p /\ h.acts = i
    BY <1>1, <2>1 DEF Handlers, Moments
  <2>3. To(c, h)
    BY <1>3
  <2>4. HandlerInv(c)'
    BY <1>1, <1>2, <2>1, <2>2, <2>3, Shape DEF HandlerInv
  <2> QED
    BY <1>2, <2>2, <2>3, <2>4, ReadStep
<1>4. ASSUME HasKey(p) = {}, To(c, [g EXCEPT !.at = "refused"]) PROVE AccountsInv'
  <2> PICK h : h = [g EXCEPT !.at = "refused"]
    OBVIOUS
  <2>1. h \in Handlers /\ h.at = "refused" /\ h.excused
    BY <1>1, <1>4 DEF Handlers, Moments
  <2>2. To(c, h)
    BY <1>4
  <2>3. HandlerInv(c)'
    BY <2>1, <2>2, Shape DEF HandlerInv
  <2> QED
    BY <1>2, <2>1, <2>2, <2>3, ReadStep
<1> QED
  BY <1>3, <1>4 DEF SelectNostr

LEMMA InsertingSteps ==
  ASSUME AccountsInv, NEW c \in Calls,
         FinishSetup(c) \/ \E admin \in BOOLEAN : FinishCreate(c, admin)
  PROVE  AccountsInv'
<1> PICK g : g = call[c]
  OBVIOUS
<1>1. g \in Handlers
  BY DEF AccountsInv, AccountsTypeOK
<1>2. \A admin \in BOOLEAN : \A p \in Pubkeys \cup {NoKey} :
        /\ Person(g.name, p, admin) \in People
        /\ Person(g.name, p, admin).live
  BY <1>1, AccountsValues DEF Person, People, Handlers
<1>3. Rests /\ To(c, Quiet) /\ HandlerInv(c)'
  BY QuietCall DEF FinishSetup, FinishCreate, Ends
<1>4. PICK new \in People : new.live /\ (Inserts(new) \/ UNCHANGED <<user, created>>)
  BY <1>1, <1>2 DEF FinishSetup, FinishCreate, Handlers
<1> QED
  BY <1>3, <1>4, WriteStep, AccountsValues

LEMMA FinishLoginStep ==
  ASSUME AccountsInv, NEW c \in Calls, FinishLogin(c)
  PROVE  AccountsInv'
<1> PICK g, i, n : g = call[c] /\ i = call[c].id /\ n = logins + 1
  OBVIOUS
<1> PICK s : s = [name |-> g.name, admin |-> g.admin, expires |-> clock + Day,
                  owner |-> i, own |-> user[i].name = g.name]
  OBVIOUS
<1>1. /\ g \in Handlers /\ g.name # NoName /\ i \in Ids
      /\ user \in [Ids -> People] /\ session \in [Tokens -> Sessions]
      /\ created \in 0..MaxUsers /\ logins \in 0..MaxLogins /\ clock \in Nat
      /\ created \in Nat /\ logins \in Nat /\ MaxLogins \in Nat /\ Day \in Nat
      /\ Tokens \subseteq Nat
  BY AccountsValues DEF FinishLogin, AccountsInv, AccountsTypeOK, HandlerInv, Tokens
<1>2. /\ n \in Tokens /\ n > logins /\ n \in 0..MaxLogins
      /\ logins' = n /\ To(c, Quiet) /\ UNCHANGED <<user, created, clock>>
      /\ session' = [session EXCEPT ![n] = s]
  BY <1>1 DEF FinishLogin, Ends, Tokens
<1>3. /\ s \in Sessions /\ s.name = g.name /\ s.owner = i
      /\ s.own <=> user[i].name = g.name
  <2> PICK b \in BOOLEAN : b <=> user[i].name = g.name
    OBVIOUS
  <2>1. s = [name |-> g.name, admin |-> g.admin, expires |-> clock + Day,
             owner |-> i, own |-> b]
    OBVIOUS
  <2> QED
    BY <1>1, <2>1 DEF Sessions, Handlers
<1>4. s.own => user[i].live
  BY <1>1, <1>3 DEF AccountsInv, UsersInv, Gone
<1>5. session' \in [Tokens -> Sessions]
  BY <1>1, <1>2, <1>3
<1>6. UsersInv'
  BY <1>2 DEF AccountsInv, UsersInv
<1>7. SessionsInv'
  <2> SUFFICES ASSUME NEW t \in Tokens
               PROVE  /\ t > logins' => session'[t] = NoSession
                      /\ session'[t].own =>
                           /\ session'[t].owner \in Ids /\ session'[t].name # NoName
                           /\ user'[session'[t].owner].live
                           /\ user'[session'[t].owner].name = session'[t].name
    BY DEF SessionsInv
  <2>1. CASE t = n
    BY <1>1, <1>2, <1>3, <1>4, <2>1
  <2>2. CASE t # n
    <3>1. session'[t] = session[t] /\ user' = user
      BY <1>1, <1>2, <2>2
    <3>2. t > logins' => t > logins
      BY <1>1, <1>2
    <3> QED
      BY <3>1, <3>2 DEF AccountsInv, SessionsInv
  <2> QED
    BY <2>1, <2>2
<1>8. Outlives
  <2>1. \A t \in Tokens : t <= logins => t # n
    BY <1>1, <1>2
  <2>2. \A t \in Tokens : t <= logins => session'[t] = session[t]
    BY <1>1, <1>2, <2>1
  <2>3. created' = created /\ logins' \in Nat /\ logins <= logins' /\ user' = user
    BY <1>1, <1>2
  <2> QED
    BY <1>1, <2>2, <2>3 DEF Outlives
<1>9. \A p : HasKey(p) # {} => HasKey(p)' # {}
  BY <1>2 DEF HasKey, Exists
<1>10. HandlerInv(c)'
  BY <1>2, QuietCall
<1>11. user' \in [Ids -> People] /\ created' \in 0..MaxUsers /\ clock' = clock
  BY <1>1, <1>2
<1> QED
  BY <1>2, <1>5, <1>6, <1>7, <1>8, <1>9, <1>10, <1>11, CallStep, AccountsValues

(* A rename or a deletion: the sessions of the row are no longer its own.  *)
LEMMA RenamedKeeps ==
  ASSUME AccountsInv, NEW i \in Ids, Renamed({i}), logins' = logins,
         \A j \in Ids \ {i} : user'[j] = user[j]
  PROVE  /\ session' \in [Tokens -> Sessions] /\ SessionsInv'
         /\ \A t \in Tokens : /\ session'[t].name = session[t].name
                              /\ session'[t].owner = session[t].owner
                              /\ session'[t].own => session[t].own
                              /\ session[t] = NoSession => session'[t] = NoSession
<1>1. session \in [Tokens -> Sessions] /\ SessionsInv
  BY DEF AccountsInv, AccountsTypeOK
<1>2. \A t \in Tokens : session'[t] =
        IF session[t].owner = i THEN [session[t] EXCEPT !.own = FALSE] ELSE session[t]
  BY DEF Renamed
<1>3. session' \in [Tokens -> Sessions]
  <2>1. session' = [t \in Tokens |-> session'[t]]
    BY DEF Renamed
  <2>2. \A t \in Tokens : session'[t] \in Sessions
    BY <1>1, <1>2 DEF Sessions
  <2> QED
    BY <2>1, <2>2
<1>4. \A t \in Tokens : /\ session'[t].name = session[t].name
                        /\ session'[t].owner = session[t].owner
                        /\ session'[t].own => session[t].own
  BY <1>1, <1>2 DEF Sessions
<1>5. \A t \in Tokens : session'[t].own => session[t].owner # i
  BY <1>1, <1>2 DEF Sessions
<1>6. 0 \notin Ids
  BY DEF Ids
<1>7. \A t \in Tokens : session[t] = NoSession => session'[t] = NoSession
  BY <1>2, <1>6 DEF NoSession
<1>8. SessionsInv'
  <2> SUFFICES ASSUME NEW t \in Tokens
               PROVE  /\ t > logins' => session'[t] = NoSession
                      /\ session'[t].own =>
                           /\ session'[t].owner \in Ids /\ session'[t].name # NoName
                           /\ user'[session'[t].owner].live
                           /\ user'[session'[t].owner].name = session'[t].name
    BY DEF SessionsInv
  <2>1. t > logins => session[t] = NoSession
    BY <1>1 DEF SessionsInv
  <2>2. session[t].own =>
          /\ session[t].owner \in Ids /\ session[t].name # NoName
          /\ user[session[t].owner].live
          /\ user[session[t].owner].name = session[t].name
    BY <1>1 DEF SessionsInv
  <2> PICK o : o = session[t].owner
    OBVIOUS
  <2>3. session'[t].own => /\ o \in Ids /\ o # i /\ session[t].name # NoName
                           /\ user[o].live /\ user[o].name = session[t].name
    <3>1. session'[t].own => session[t].own
      BY <1>4
    <3>2. session'[t].own => o # i
      BY <1>5
    <3> QED
      BY <2>2, <3>1, <3>2
  <2>4. session'[t].own => user'[o] = user[o]
    BY <2>3
  <2> QED
    BY <1>4, <1>7, <2>1, <2>3, <2>4
<1> QED
  BY <1>3, <1>4, <1>7, <1>8

LEMMA FinishUpdateStep ==
  ASSUME AccountsInv, NEW c \in Calls, NEW admin \in BOOLEAN, FinishUpdate(c, admin)
  PROVE  AccountsInv'
<1> PICK i, n, g : i = call[c].id /\ n = call[c].name /\ g = call[c]
  OBVIOUS
<1>1. /\ g \in Handlers /\ n # NoName /\ n \in Names /\ i \in Ids
      /\ user \in [Ids -> People] /\ session \in [Tokens -> Sessions]
      /\ created \in 0..MaxUsers /\ logins \in 0..MaxLogins
      /\ created \in Nat /\ logins \in Nat
  BY AccountsValues DEF FinishUpdate, AccountsInv, AccountsTypeOK, HandlerInv, Handlers
<1>2. To(c, Quiet) /\ UNCHANGED <<created, logins, clock>> /\ HandlerInv(c)'
  BY QuietCall DEF FinishUpdate, Ends
<1>3. CASE UNCHANGED <<user, session>>
  BY <1>2, <1>3, QuietCall, ReadStep, AccountsValues DEF Reads, Rests
<1>4. CASE /\ user[i].live /\ HasName(n) \subseteq {i}
           /\ user' = [user EXCEPT ![i].name = n, ![i].admin = admin]
           /\ IF user[i].name = n THEN UNCHANGED session ELSE Renamed({i})
  <2>1. /\ user' \in [Ids -> People]
        /\ \A j \in Ids \ {i} : user'[j] = user[j]
        /\ user'[i].name = n /\ user'[i].key = user[i].key /\ user'[i].live
    BY <1>1, <1>4 DEF People
  <2>2. UsersInv'
    <3>1. \A j \in Ids : ~user'[j].live \/ j > created' => user'[j] = Gone
      <4>1. ~(i > created)
        BY <1>1, <1>4 DEF AccountsInv, UsersInv, Gone
      <4> QED
        BY <1>2, <2>1, <4>1 DEF AccountsInv, UsersInv
    <3>2. \A j \in Ids \ {i} : user[j].live => user[j].name # n
      BY <1>4 DEF HasName, Exists
    <3> QED
      BY <2>1, <3>1, <3>2 DEF AccountsInv, UsersInv
  <2>3. /\ session' \in [Tokens -> Sessions] /\ SessionsInv'
        /\ \A t \in Tokens : /\ session'[t].name = session[t].name
                             /\ session'[t].owner = session[t].owner
                             /\ session'[t].own => session[t].own
                             /\ session[t] = NoSession => session'[t] = NoSession
    <3>1. CASE user[i].name = n
      <4>1. session' = session /\ logins' = logins
        BY <1>2, <1>4, <3>1
      <4>2. \A j \in Ids : /\ user'[j].name = user[j].name
                           /\ user[j].live => user'[j].live
        BY <2>1, <3>1
      <4> QED
        BY <1>1, <4>1, <4>2 DEF AccountsInv, SessionsInv
    <3>2. CASE user[i].name # n
      BY <1>1, <1>2, <1>4, <2>1, <3>2, RenamedKeeps
    <3> QED
      BY <3>1, <3>2
  <2>4. Outlives
    <3>1. \A j \in Ids : user[j] = Gone => j # i
      BY <1>4 DEF Gone
    <3> QED
      BY <1>1, <1>2, <2>1, <2>3, <3>1 DEF Outlives
  <2>5. \A p : HasKey(p) # {} => HasKey(p)' # {}
    BY <1>1, <2>1 DEF HasKey, Exists
  <2>6. logins' \in 0..MaxLogins /\ created' \in 0..MaxUsers /\ clock' = clock
    BY <1>1, <1>2
  <2> QED
    BY <1>2, <2>1, <2>2, <2>3, <2>4, <2>5, <2>6, CallStep, AccountsValues
<1> QED
  BY <1>3, <1>4 DEF FinishUpdate, Exists

(* A deletion takes a row from the calls that select it, and excuses them. *)
LEMMA DeleteStep ==
  ASSUME AccountsInv, NEW i \in Ids, DeleteAccount(i)
  PROVE  AccountsInv'
<1>1. /\ user \in [Ids -> People] /\ call \in [Calls -> Handlers]
      /\ created \in 0..MaxUsers /\ logins \in 0..MaxLogins /\ clock \in 0..MaxDays
      /\ created \in Nat /\ logins \in Nat /\ user[i].live
  BY AccountsValues DEF DeleteAccount, Exists, AccountsInv, AccountsTypeOK
<1>2. /\ user' \in [Ids -> People]
      /\ \A j \in Ids \ {i} : user'[j] = user[j]
      /\ user'[i] = Gone /\ ~user'[i].live
  BY <1>1, AccountsValues DEF DeleteAccount, Gone
<1>3. UNCHANGED <<created, logins, clock>> /\ Renamed({i})
  BY DEF DeleteAccount
<1>4. UsersInv'
  BY <1>2, <1>3 DEF AccountsInv, UsersInv
<1>5. /\ session' \in [Tokens -> Sessions] /\ SessionsInv'
      /\ \A t \in Tokens : /\ session'[t].name = session[t].name
                           /\ session'[t].owner = session[t].owner
                           /\ session'[t].own => session[t].own
                           /\ session[t] = NoSession => session'[t] = NoSession
  BY <1>2, <1>3, RenamedKeeps
<1>6. Outlives
  BY <1>1, <1>2, <1>3, <1>5 DEF Outlives
<1>7. \A c \in Calls : call'[c] =
        IF call[c].key = user[i].key /\ call[c].at = "select"
        THEN [call[c] EXCEPT !.excused = TRUE] ELSE call[c]
  BY DEF DeleteAccount
<1>8. call' \in [Calls -> Handlers]
  <2>1. ASSUME NEW c \in Calls PROVE call'[c] \in Handlers
    <3>1. call[c] \in Handlers /\ [call[c] EXCEPT !.excused = TRUE] \in Handlers
      BY <1>1 DEF Handlers
    <3> QED
      BY <1>7, <3>1
  <2>2. call' = [c \in Calls |-> call'[c]]
    BY DEF DeleteAccount
  <2> QED
    BY <2>1, <2>2
<1>9. AccountsTypeOK'
  BY <1>1, <1>2, <1>3, <1>5, <1>8 DEF AccountsTypeOK
<1>10. ASSUME NEW c \in Calls PROVE HandlerInv(c)'
  <2>1. CASE call[c].key = user[i].key /\ call[c].at = "select"
    <3>1. call[c] \in Handlers /\ call[c].key # NoKey
      BY <1>1, <2>1 DEF AccountsInv, HandlerInv
    <3>2. call'[c].at = "select" /\ call'[c].excused /\ call'[c].key # NoKey
      BY <1>7, <2>1, <3>1 DEF Handlers
    <3> QED
      BY <3>2 DEF HandlerInv
  <2>2. CASE ~(call[c].key = user[i].key /\ call[c].at = "select")
    <3>1. call'[c] = call[c]
      BY <1>7, <2>2
    <3>2. call[c].at = "select" /\ HasKey(call[c].key) # {} => HasKey(call[c].key)' # {}
      BY <1>2, <2>2, <3>1 DEF HasKey, Exists
    <3> QED
      BY <1>6, <3>1, <3>2, OthersKeep
  <2> QED
    BY <2>1, <2>2
<1> QED
  BY <1>4, <1>5, <1>9, <1>10 DEF AccountsInv

LEMMA LogoutStep ==
  ASSUME AccountsInv, NEW t \in Tokens, Logout(t)
  PROVE  AccountsInv'
<1>1. /\ session' \in [Tokens -> Sessions] /\ session'[t] = NoSession
      /\ \A x \in Tokens \ {t} : session'[x] = session[x]
      /\ UNCHANGED <<user, created, logins, clock, call>>
  BY AccountsValues DEF Logout, AccountsInv, AccountsTypeOK
<1>2. AccountsTypeOK' /\ UsersInv'
  BY <1>1 DEF AccountsInv, AccountsTypeOK, UsersInv
<1>3. SessionsInv'
  <2>1. ~NoSession.own
    BY DEF NoSession
  <2> QED
    BY <1>1, <2>1 DEF AccountsInv, SessionsInv
<1>4. Outlives
  BY <1>1, AccountsValues DEF Outlives, AccountsInv, AccountsTypeOK
<1>5. ASSUME NEW c \in Calls PROVE HandlerInv(c)'
  <2>1. call'[c] = call[c] /\ (HasKey(call[c].key) # {} => HasKey(call[c].key)' # {})
    BY <1>1 DEF HasKey, Exists
  <2> QED
    BY <1>4, <2>1, OthersKeep
<1> QED
  BY <1>2, <1>3, <1>5 DEF AccountsInv

LEMMA AccountsKept ==
  ASSUME AccountsInv, UNCHANGED <<user, created, session, logins, call>>,
         clock' \in 0..MaxDays
  PROVE  AccountsInv'
BY DEF AccountsInv, AccountsTypeOK, UsersInv, SessionsInv, HandlerInv, HasKey, Exists

LEMMA AccountsNextInv ==
  ASSUME AccountsInv, [AccountsNext]_accounts
  PROVE  AccountsInv'
<1>1. ASSUME NEW c \in Calls, Handler(c) PROVE AccountsInv'
  <2>1. CASE \E n \in Names : BeginSetup(c, n) \/ BeginLogin(c, n)
                              \/ \E i \in Ids : BeginUpdate(c, i, n)
    BY <2>1, Beginnings
  <2>2. CASE \E n \in Names \cup {NoName}, p \in Pubkeys \cup {NoKey} : BeginCreate(c, n, p)
    BY <2>2, BeginCreateStep
  <2>3. CASE \E t \in Tokens, asAdmin \in BOOLEAN : Present(c, t, asAdmin)
    BY <2>3, PresentStep
  <2>4. CASE \E p \in Pubkeys : BeginNostr(c, p)
    BY <2>4, BeginNostrStep
  <2>5. CASE FinishSetup(c) \/ \E admin \in BOOLEAN : FinishCreate(c, admin)
    BY <2>5, InsertingSteps
  <2>6. CASE FinishLogin(c)
    BY <2>6, FinishLoginStep
  <2>7. CASE Find(c)
    BY <2>7, FindStep
  <2>8. CASE Leave(c) \/ CallFails(c)
    BY <2>8, EndStep DEF Leave, CallFails
  <2>9. CASE InsertNostr(c)
    BY <2>9, InsertNostrStep
  <2>10. CASE SelectNostr(c)
    BY <2>10, SelectNostrStep
  <2>11. CASE \E admin \in BOOLEAN : FinishUpdate(c, admin)
    BY <2>11, FinishUpdateStep
  <2> QED
    BY <1>1, <2>1, <2>2, <2>3, <2>4, <2>5, <2>6, <2>7, <2>8, <2>9, <2>10, <2>11 DEF Handler
<1>2. CASE DayPasses
  <2>1. clock' \in 0..MaxDays
    BY <1>2, AccountsValues DEF DayPasses, AccountsInv, AccountsTypeOK
  <2> QED
    BY <1>2, <2>1, AccountsKept DEF DayPasses
<1>3. CASE UNCHANGED accounts
  BY <1>3, AccountsKept DEF accounts, AccountsInv, AccountsTypeOK
<1> QED
  BY <1>1, <1>2, <1>3, LogoutStep, DeleteStep DEF AccountsNext

(* A session acts for the user who logged in, and a Nostr key is let in as *)
(* its own user, over any number of requests, rows and logins.             *)
THEOREM RequestsActForThemselves == AccountsSpec => []ActsForItself
<1>1. AccountsInv => ActsForItself
  BY DEF AccountsInv, HandlerInv, ActsForItself
<1> QED
  BY <1>1, AccountsInitInv, AccountsNextInv, PTL DEF AccountsSpec
=============================================================================
