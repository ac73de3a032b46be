---------------------------- MODULE Router_proofs ----------------------------
(***************************************************************************)
(* Proofs about the router's two components.  Routing first: a stable sort *)
(* lists what it is given, so a request asks somebody, nobody worse than   *)
(* need be, and its pin first, which is why a pin moves for a cause only.  *)
(* Then Reload: the latest reader of the providers has read what the rows  *)
(* say, as a write is followed by a reload that has yet to read; and the   *)
(* handler under the lock watches what is loaded, unless another handler   *)
(* has yet to take the lock.                                               *)
(***************************************************************************)
EXTENDS Routing, Reload, FiniteSetTheorems, SequenceTheorems,
        WellFoundedInduction, TLAPS

(* Relations are sets of pairs: before puts the elements of S in one row.  *)
StrictTotal(before, S) ==
  /\ \A x \in S : <<x, x>> \notin before
  /\ \A x, y, z \in S : <<x, y>> \in before /\ <<y, z>> \in before => <<x, z>> \in before
  /\ \A x, y \in S : x = y \/ <<x, y>> \in before \/ <<y, x>> \in before

(* sorted lists the elements of S, each of them somewhere.                 *)
Lists(sorted, S) ==
  /\ sorted \in [1..Cardinality(S) -> S]
  /\ \A x \in S : \E n \in 1..Cardinality(S) : sorted[n] = x

LEMMA ArrangeLists ==
  ASSUME NEW S, IsFiniteSet(S), NEW before, StrictTotal(before, S)
  PROVE  Lists(Arrange(S, before), S)
<1> DEFINE below(x) == {y \in S : <<y, x>> \in before}
           N == Cardinality(S)
           place == [x \in S |-> Cardinality(below(x)) + 1]
<1>1. N \in Nat
  BY FS_CardinalityType
<1>2. ASSUME NEW x \in S
      PROVE  /\ IsFiniteSet(below(x)) /\ Cardinality(below(x)) \in Nat
             /\ Cardinality(below(x)) < N
  <2>1. below(x) \in SUBSET S /\ x \notin below(x)
    BY DEF StrictTotal
  <2>2. /\ IsFiniteSet(below(x)) /\ Cardinality(below(x)) <= N
        /\ N = Cardinality(below(x)) => S = below(x)
    BY <2>1, FS_Subset
  <2>3. Cardinality(below(x)) \in Nat
    BY <2>2, FS_CardinalityType
  <2> QED
    BY <1>1, <2>1, <2>2, <2>3
<1>3. ASSUME NEW x \in S, NEW y \in S, <<x, y>> \in before
      PROVE  Cardinality(below(x)) < Cardinality(below(y))
  <2>1. below(x) \in SUBSET below(y) /\ x \in below(y) /\ x \notin below(x)
    BY <1>3 DEF StrictTotal
  <2>2. /\ Cardinality(below(x)) <= Cardinality(below(y))
        /\ Cardinality(below(y)) = Cardinality(below(x)) => below(y) = below(x)
    BY <1>2, <2>1, FS_Subset
  <2> HIDE DEF below
  <2> QED
    BY <1>2, <2>1, <2>2
<1>4. place \in [S -> 1..N]
  <2> HIDE DEF below
  <2> QED
    BY <1>1, <1>2
<1>5. place \in Injection(S, 1..N)
  <2>1. ASSUME NEW x \in S, NEW y \in S, place[x] = place[y] PROVE x = y
    <3>1. Cardinality(below(x)) = Cardinality(below(y))
      <4> HIDE DEF below
      <4> QED
        BY <1>2, <2>1
    <3>2. <<x, y>> \notin before /\ <<y, x>> \notin before
      <4> HIDE DEF below
      <4> QED
        BY <1>2, <1>3, <3>1
    <3> QED
      BY <3>2 DEF StrictTotal
  <2> HIDE DEF place
  <2> QED
    BY <1>4, <2>1 DEF Injection, IsInjective
<1>6. place \in Surjection(S, 1..N)
  <2>1. IsFiniteSet(1..N) /\ Cardinality(1..N) = N
    BY <1>1, FS_Interval
  <2> HIDE DEF place
  <2> QED
    BY <1>5, <2>1, FS_Injection
<1>7. \A n \in 1..N : \E x \in S : place[x] = n
  <2> HIDE DEF place
  <2> QED
    BY <1>6 DEF Surjection
<1>8. ASSUME NEW n \in 1..N
      PROVE  Arrange(S, before)[n] \in S /\ place[Arrange(S, before)[n]] = n
  <2>1. PICK x \in S : Cardinality(below(x)) + 1 = n
    BY <1>7
  <2>2. Cardinality(below(x)) = n - 1
    <3> HIDE DEF below
    <3> QED
      BY <1>1, <1>2, <2>1
  <2>3. Arrange(S, before)[n] = CHOOSE y \in S : Cardinality(below(y)) = n - 1
    BY DEF Arrange
  <2> HIDE DEF below
  <2>4. Arrange(S, before)[n] \in S /\ Cardinality(below(Arrange(S, before)[n])) = n - 1
    BY <2>2, <2>3
  <2> QED
    BY <1>1, <2>4
<1>9. Arrange(S, before) \in [1..N -> S]
  <2> DEFINE e(n) == CHOOSE x \in S : Cardinality(below(x)) = n - 1
  <2>1. Arrange(S, before) = [n \in 1..N |-> e(n)]
    BY DEF Arrange
  <2> HIDE DEF e
  <2>2. \A n \in 1..N : e(n) \in S
    BY <1>8, <2>1
  <2> QED
    BY <2>1, <2>2
<1>10. ASSUME NEW x \in S PROVE \E n \in 1..N : Arrange(S, before)[n] = x
  <2>1. place[x] \in 1..N
    BY <1>4
  <2>2. /\ Arrange(S, before)[place[x]] \in S
        /\ place[Arrange(S, before)[place[x]]] = place[x]
    BY <1>8, <2>1
  <2>3. Arrange(S, before)[place[x]] = x
    <3> HIDE DEF place
    <3> QED
      BY <1>5, <2>2 DEF Injection, IsInjective
  <2> QED
    BY <2>1, <2>3
<1> QED
  BY <1>9, <1>10 DEF Lists

(* What a comparator of sort_by is: an order of classes of equals.         *)
WeakOrder(precedes, S) ==
  /\ \A x \in S : <<x, x>> \notin precedes
  /\ \A x, y, z \in S : <<x, y>> \in precedes /\ <<y, z>> \in precedes => <<x, z>> \in precedes
  /\ \A x, y, z \in S : <<x, z>> \in precedes => <<x, y>> \in precedes \/ <<y, z>> \in precedes

Holds(order, S) == order \in Seq(Places) /\ \A x \in S : \E n \in 1..Len(order) : order[n] = x

LEMMA IndexFinds ==
  ASSUME NEW order, NEW S, Holds(order, S), NEW x \in S
  PROVE  /\ IndexIn(order, x) \in 1..Len(order) /\ order[IndexIn(order, x)] = x
         /\ IndexIn(order, x) \in Nat
  BY DEF Holds, IndexIn

LEMMA StableSortLists ==
  ASSUME NEW S, IsFiniteSet(S), NEW order, Holds(order, S),
         NEW precedes, WeakOrder(precedes, S)
  PROVE  Lists(StableSort(order, S, precedes), S)
<1>1. \A x \in S : order[IndexIn(order, x)] = x /\ IndexIn(order, x) \in Nat
  BY IndexFinds
<1>2. \A x, y \in S : <<x, y>> \in Stably(order, S, precedes) <=>
        \/ <<x, y>> \in precedes
        \/ <<y, x>> \notin precedes /\ IndexIn(order, x) < IndexIn(order, y)
  BY DEF Stably
<1>3. StrictTotal(Stably(order, S, precedes), S)
  <2>1. ASSUME NEW x \in S PROVE <<x, x>> \notin Stably(order, S, precedes)
    BY <1>1, <1>2 DEF WeakOrder
  <2>2. ASSUME NEW x \in S, NEW y \in S, NEW z \in S,
               <<x, y>> \in Stably(order, S, precedes), <<y, z>> \in Stably(order, S, precedes)
        PROVE  <<x, z>> \in Stably(order, S, precedes)
    <3>1. \/ <<x, y>> \in precedes
          \/ <<y, x>> \notin precedes /\ IndexIn(order, x) < IndexIn(order, y)
      BY <1>2, <2>2
    <3>2. \/ <<y, z>> \in precedes
          \/ <<z, y>> \notin precedes /\ IndexIn(order, y) < IndexIn(order, z)
      BY <1>2, <2>2
    <3>3. IndexIn(order, x) < IndexIn(order, y) /\ IndexIn(order, y) < IndexIn(order, z)
            => IndexIn(order, x) < IndexIn(order, z)
      BY <1>1
    <3> QED
      BY <1>2, <3>1, <3>2, <3>3 DEF WeakOrder
  <2>3. ASSUME NEW x \in S, NEW y \in S
        PROVE  x = y \/ <<x, y>> \in Stably(order, S, precedes)
                     \/ <<y, x>> \in Stably(order, S, precedes)
    BY <1>1, <1>2
  <2> QED
    BY <2>1, <2>2, <2>3 DEF StrictTotal
<1> QED
  BY <1>3, ArrangeLists DEF StableSort

---------------------------------------------------------------------------
(* The comparators.                                                        *)
LEMMA LoadsCompare ==
  ASSUME NEW a \in Nat, NEW b \in Nat, NEW c \in Nat,
         NEW u \in Nat \ {0}, NEW v \in Nat \ {0}, NEW w \in Nat \ {0}
  PROVE  /\ a * v < b * u /\ b * w < c * v => a * w < c * u
         /\ a * v >= b * u /\ b * w >= c * v => a * w >= c * u
  OBVIOUS

LEMMA PlacesAreFew ==
  /\ Len(Entries) \in Nat \ {0} /\ IsFiniteSet(Places) /\ Places # {}
  /\ Holds(InTable, Places) /\ InTable \in [Places -> Places]
  /\ Entries \in [Places -> Routed] /\ Routed \subseteq Providers
  /\ \A p \in Routed : \E m \in Places : Entries[m] = p
  /\ \A m \in Places : Weight[m] \in Int /\ Share(m) \in Nat \ {0}
<1>1. /\ Entries \in Seq(Providers) /\ Len(Entries) \in Nat \ {0}
      /\ Entries \in [1..Len(Entries) -> Providers]
      /\ Weight \in [1..Len(Entries) -> Int]
  BY RoutingAssumption, EmptySeq, LenProperties
<1>2. IsFiniteSet(Places) /\ Places # {}
  <2>1. PICK L \in Nat \ {0} : L = Len(Entries) /\ Places = 1..L
    BY <1>1 DEF Places
  <2>2. IsFiniteSet(1..L) /\ 1 \in 1..L
    BY <2>1, FS_Interval
  <2> QED
    BY <2>1, <2>2
<1>3. InTable \in Seq(Places) /\ Len(InTable) = Len(Entries)
  BY <1>1 DEF InTable, Places
<1>4. Holds(InTable, Places) /\ InTable \in [Places -> Places]
  BY <1>1, <1>3 DEF InTable, Places, Holds
<1> QED
  BY <1>1, <1>2, <1>4 DEF Routed, Places, Share

LEMMA ComparatorsAreOrders ==
  ASSUME NEW S \in SUBSET Places
  PROVE  /\ WeakOrder({}, S)
         /\ WeakOrder(Heavier, S)
         /\ \A strategy, load : load \in [Places -> Nat] => WeakOrder(LessLoaded(strategy, load), S)
         /\ \A view : view.wait \in [Routed -> Nat] => WeakOrder(Sooner(view), S)
<1>1. WeakOrder({}, S)
  BY DEF WeakOrder
<1>2. WeakOrder(Heavier, S)
  <2>1. PICK weight \in [Places -> Int] : \A x \in Places : weight[x] = Weight[x]
    <3>1. [x \in Places |-> Weight[x]] \in [Places -> Int]
      BY PlacesAreFew
    <3> QED
      BY <3>1
  <2>2. \A x, y \in S : <<x, y>> \in Heavier <=> weight[x] > weight[y]
    BY <2>1 DEF Heavier
  <2> QED
    BY <2>1, <2>2 DEF WeakOrder
<1>3. ASSUME NEW view, view.wait \in [Routed -> Nat]
      PROVE  WeakOrder(Sooner(view), S)
  <2>1. \A x \in S : view.wait[Entries[x]] \in Nat
    BY <1>3, PlacesAreFew
  <2>2. \A x, y \in S :
          <<x, y>> \in Sooner(view) <=> view.wait[Entries[x]] < view.wait[Entries[y]]
    BY DEF Sooner
  <2> QED
    BY <2>1, <2>2 DEF WeakOrder
<1>4. ASSUME NEW strategy, NEW load \in [Places -> Nat]
      PROVE  WeakOrder(LessLoaded(strategy, load), S)
  <2>1. CASE strategy # "RoundRobin"
    BY <2>1 DEF WeakOrder, LessLoaded
  <2>2. CASE strategy = "RoundRobin"
    <3>1. \A x, y \in S : <<x, y>> \in LessLoaded(strategy, load)
                            <=> load[x] * Share(y) < load[y] * Share(x)
      BY <2>2 DEF LessLoaded
    <3>2. ASSUME NEW x \in S, NEW y \in S, NEW z \in S
          PROVE  /\ ~(load[x] * Share(x) < load[x] * Share(x))
                 /\ /\ load[x] * Share(y) < load[y] * Share(x)
                    /\ load[y] * Share(z) < load[z] * Share(y)
                   => load[x] * Share(z) < load[z] * Share(x)
                 /\ load[x] * Share(z) < load[z] * Share(x) =>
                      \/ load[x] * Share(y) < load[y] * Share(x)
                      \/ load[y] * Share(z) < load[z] * Share(y)
      <4>1. PICK a \in Nat, b \in Nat, c \in Nat : a = load[x] /\ b = load[y] /\ c = load[z]
        OBVIOUS
      <4>2. PICK u \in Nat \ {0}, v \in Nat \ {0}, w \in Nat \ {0} :
              u = Share(x) /\ v = Share(y) /\ w = Share(z)
        BY PlacesAreFew
      <4>3. /\ a * v < b * u /\ b * w < c * v => a * w < c * u
            /\ a * v >= b * u /\ b * w >= c * v => a * w >= c * u
        BY LoadsCompare
      <4>4. /\ a * v \in Nat /\ b * u \in Nat /\ b * w \in Nat /\ c * v \in Nat
            /\ a * w \in Nat /\ c * u \in Nat /\ a * u \in Nat
        OBVIOUS
      <4> QED
        BY <4>1, <4>2, <4>3, <4>4
    <3> QED
      BY <3>1, <3>2 DEF WeakOrder
  <2> QED
    BY <2>1, <2>2
<1> QED
  BY <1>1, <1>2, <1>3, <1>4

---------------------------------------------------------------------------
(* Both strategies list every entry of the table.                          *)
LEMMA ListsHold ==
  ASSUME NEW S, IsFiniteSet(S), S \subseteq Places, NEW sorted, Lists(sorted, S)
  PROVE  Holds(sorted, S) /\ sorted \in Seq(S) /\ Len(sorted) = Cardinality(S)
<1>1. Cardinality(S) \in Nat
  BY FS_CardinalityType
<1>2. sorted \in Seq(S) /\ Len(sorted) = Cardinality(S)
  BY <1>1 DEF Lists
<1>3. sorted \in Seq(Places)
  BY <1>2, SeqMonotonic
<1> QED
  BY <1>2, <1>3 DEF Holds, Lists

LEMMA PriorityHolds == Holds(priority_order, Places)
<1>1. WeakOrder(Heavier, Places)
  BY ComparatorsAreOrders
<1> QED
  BY <1>1, PlacesAreFew, StableSortLists, ListsHold DEF priority_order

LEMMA RotatedHolds ==
  ASSUME NEW k \in 0..(Len(Entries) - 1)
  PROVE  Holds(RotateLeft(InTable, k), Places)
<1>1. PICK L \in Nat \ {0} : L = Len(Entries)
  BY PlacesAreFew
<1>2. /\ InTable \in [1..L -> Places] /\ Len(InTable) = L /\ Places = 1..L
      /\ \A m \in 1..L : InTable[m] = m
  BY <1>1 DEF InTable, Places
<1>3. ASSUME NEW n \in 1..L PROVE ((n - 1 + k) % L) + 1 \in 1..L
  BY <1>1, <1>3
<1>4. RotateLeft(InTable, k) \in [1..L -> Places]
  BY <1>1, <1>2, <1>3 DEF RotateLeft
<1>5. ASSUME NEW m \in 1..L
      PROVE  \E n \in 1..L : ((n - 1 + k) % L) + 1 = m
  <2>1. CASE m > k
    <3>1. PICK n \in 1..L : n = m - k
      BY <1>1, <2>1
    <3>2. n - 1 + k = m - 1
      BY <1>1, <3>1
    <3>3. (m - 1) % L = m - 1
      BY <1>1
    <3>4. ((n - 1 + k) % L) + 1 = m
      BY <1>1, <3>2, <3>3
    <3> QED
      BY <3>4
  <2>2. CASE m <= k
    <3>1. PICK n \in 1..L : n = m - k + L
      BY <1>1, <2>2
    <3>2. n - 1 + k = (m - 1) + L
      BY <1>1, <3>1
    <3>3. ((m - 1) + L) % L = m - 1
      BY <1>1
    <3>4. ((n - 1 + k) % L) + 1 = m
      BY <1>1, <3>2, <3>3
    <3> QED
      BY <3>4
  <2> QED
    BY <1>1, <2>1, <2>2
<1>6. ASSUME NEW m \in Places PROVE \E n \in 1..L : RotateLeft(InTable, k)[n] = m
  <2>1. PICK n \in 1..L : ((n - 1 + k) % L) + 1 = m
    BY <1>2, <1>5
  <2>2. RotateLeft(InTable, k)[n] = InTable[m]
    BY <1>2, <2>1 DEF RotateLeft
  <2> QED
    BY <1>2, <2>2
<1>7. Len(RotateLeft(InTable, k)) = L /\ RotateLeft(InTable, k) \in Seq(Places)
  BY <1>4
<1> QED
  BY <1>6, <1>7 DEF Holds

LEMMA SlotsAreFew == IsFiniteSet(Slots) /\ Cardinality(Slots) \in Nat \ {0}
<1>1. PICK L \in Nat \ {0} : L = Len(Entries) /\ Places = 1..L
  BY PlacesAreFew DEF Places
<1>2. \A m \in 1..L : SlotsOf(m) \in Nat \ {0}
  BY <1>1, PlacesAreFew DEF SlotsOf
<1>3. PICK f : f = [m \in 1..L |-> {m} \X (1..SlotsOf(m))]
  OBVIOUS
<1>4. PICK sets : sets = {{m} \X (1..SlotsOf(m)) : m \in 1..L}
  OBVIOUS
<1>5. f \in Surjection(1..L, sets)
  BY <1>3, <1>4 DEF Surjection
<1>6. IsFiniteSet(sets)
  BY <1>1, <1>5, FS_Interval, FS_Surjection
<1>7. ASSUME NEW m \in 1..L PROVE IsFiniteSet({m} \X (1..SlotsOf(m)))
  <2>1. IsFiniteSet({m})
    BY FS_Singleton
  <2>2. IsFiniteSet(1..SlotsOf(m))
    BY <1>2, FS_Interval
  <2> QED
    BY <2>1, <2>2, FS_Product
<1>8. \A T \in sets : IsFiniteSet(T)
  BY <1>4, <1>7
<1>9. IsFiniteSet(UNION sets)
  BY <1>6, <1>8, FS_UNION
<1>10. Slots = UNION sets
  BY <1>1, <1>4 DEF Slots
<1>11. <<1, 1>> \in Slots
  BY <1>1, <1>2 DEF Slots
<1> QED
  BY <1>9, <1>10, <1>11, FS_EmptySet, FS_CardinalityType

LEMMA WeightedHolds ==
  ASSUME NEW slot \in 0..(Cardinality(Slots) - 1)
  PROVE  Holds(weighted_rr_order(slot), Places)
<1>1. PICK L \in Nat \ {0} : L = Len(Entries) /\ Places = 1..L
  BY PlacesAreFew DEF Places
<1>2. \A m \in 1..L : SlotsOf(m) \in Nat \ {0}
  BY <1>1, PlacesAreFew DEF SlotsOf
<1>3. ASSUME NEW s \in Slots PROVE s[1] \in 1..L /\ s[2] \in Nat /\ s = <<s[1], s[2]>>
  BY <1>1, <1>2 DEF Slots
<1>4. StrictTotal(InTurn, Slots)
  <2>1. \A s, t \in Slots : <<s, t>> \in InTurn <=>
          s[1] < t[1] \/ (s[1] = t[1] /\ s[2] < t[2])
    BY DEF InTurn
  <2> QED
    BY <1>1, <1>3, <2>1 DEF StrictTotal
<1>5. Lists(Arrange(Slots, InTurn), Slots)
  BY <1>4, SlotsAreFew, ArrangeLists
<1>6. Arrange(Slots, InTurn)[slot + 1] \in Slots
  BY <1>5, SlotsAreFew DEF Lists
<1>7. Arrange(Slots, InTurn)[slot + 1][1] - 1 \in 0..(L - 1)
  BY <1>1, <1>3, <1>6
<1> QED
  BY <1>1, <1>7, RotatedHolds DEF weighted_rr_order

---------------------------------------------------------------------------
(* What a request chooses.                                                 *)
Views == [order : {o \in Seq(Places) : Holds(o, Places)},
          health : [Routed -> States], wait : [Routed -> Nat]]
Choosing == [pc : {"choosing"}, strategy : Strategies, session : Sessions \cup {NoSession},
             view : Views]
Serving == [pc : {"serving"}, session : Sessions \cup {NoSession},
            todo : Seq(Places), excused : SUBSET Routed]
Pins == [provider : Routed, last_used : Nat]

RoutingTypeOK ==
  /\ turn \in 0..(Cardinality(Slots) - 1) /\ now \in Nat /\ begun \in Nat
  /\ pins \in [DOMAIN pins -> Pins]
  /\ req \in [Requests -> {Idle} \cup Choosing \cup Serving]

(* Whom a request has not excused it asks next: the provider of the pin.   *)
PinIsNext ==
  \A r \in Requests : req[r].pc = "serving" =>
    \A p \in Routed \ req[r].excused : req[r].todo # << >> /\ Entries[req[r].todo[1]] = p

RoutingInv == RoutingTypeOK /\ PinIsNext

(* The first of the classes that has anybody in it is listed, pin first.   *)
Eligible(view) == IF Ready(view, "healthy") # {} THEN Ready(view, "healthy")
                  ELSE Ready(view, "degraded")
LastResort(view) == IF Cooling(view) # {} THEN Cooling(view) ELSE Ready(view, "unhealthy")

LEMMA ListOfSome ==
  ASSUME NEW S \in SUBSET Places, NEW order, Holds(order, Places), NEW precedes,
         WeakOrder(precedes, S)
  PROVE  /\ Lists(StableSort(order, S, precedes), S) /\ IsFiniteSet(S)
         /\ StableSort(order, S, precedes) \in Seq(S)
         /\ Len(StableSort(order, S, precedes)) = Cardinality(S)
<1>1. IsFiniteSet(S) /\ S \subseteq Places /\ Holds(order, S)
  BY PlacesAreFew, FS_Subset DEF Holds
<1>2. Lists(StableSort(order, S, precedes), S)
  BY <1>1, StableSortLists
<1> QED
  BY <1>1, <1>2, ListsHold

LEMMA ChoiceLists ==
  ASSUME NEW r \in Requests, req[r] \in Choosing, NEW load \in [Places -> Nat]
  PROVE  /\ Lists(Selected(r, load), Eligible(req[r].view))
         /\ Selected(r, load) \in Seq(Eligible(req[r].view))
         /\ Len(Selected(r, load)) = Cardinality(Eligible(req[r].view))
         /\ Fallback(req[r].view) \in Seq(LastResort(req[r].view))
         /\ Len(Fallback(req[r].view)) = Cardinality(LastResort(req[r].view))
         /\ IsFiniteSet(Eligible(req[r].view)) /\ IsFiniteSet(LastResort(req[r].view))
<1>1. PICK view : view = req[r].view
  OBVIOUS
<1>2. /\ view.wait \in [Routed -> Nat] /\ Holds(view.order, Places)
      /\ view.health \in [Routed -> States]
  BY <1>1 DEF Choosing, Views
<1>3. \A state : Ready(view, state) \in SUBSET Places
  BY DEF Ready
<1>4. Cooling(view) \in SUBSET Places
  BY DEF Cooling
<1>5. ASSUME NEW S \in SUBSET Places
      PROVE  /\ WeakOrder({}, S) /\ WeakOrder(Sooner(view), S)
             /\ WeakOrder(LessLoaded(req[r].strategy, load), S)
  BY <1>2, ComparatorsAreOrders
<1>6. PICK chosen : chosen = Selected(r, load)
  OBVIOUS
<1>7. chosen = IF Ready(view, "healthy") # {}
               THEN StableSort(view.order, Ready(view, "healthy"),
                               LessLoaded(req[r].strategy, load))
               ELSE StableSort(view.order, Ready(view, "degraded"), {})
  BY <1>1, <1>6 DEF Selected
<1>8. /\ Lists(chosen, Eligible(view)) /\ chosen \in Seq(Eligible(view))
      /\ Len(chosen) = Cardinality(Eligible(view)) /\ IsFiniteSet(Eligible(view))
  <2>1. CASE Ready(view, "healthy") # {}
    <3>1. chosen = StableSort(view.order, Ready(view, "healthy"),
                              LessLoaded(req[r].strategy, load))
          /\ Eligible(view) = Ready(view, "healthy")
      BY <1>7, <2>1 DEF Eligible
    <3> QED
      BY <1>2, <1>3, <1>5, <3>1, ListOfSome
  <2>2. CASE Ready(view, "healthy") = {}
    <3>1. chosen = StableSort(view.order, Ready(view, "degraded"), {})
          /\ Eligible(view) = Ready(view, "degraded")
      BY <1>7, <2>2 DEF Eligible
    <3> QED
      BY <1>2, <1>3, <1>5, <3>1, ListOfSome
  <2> QED
    BY <2>1, <2>2
<1>9. /\ Fallback(view) \in Seq(LastResort(view))
      /\ Len(Fallback(view)) = Cardinality(LastResort(view)) /\ IsFiniteSet(LastResort(view))
  <2>1. CASE Cooling(view) # {}
    <3>1. Fallback(view) = StableSort(view.order, Cooling(view), Sooner(view))
          /\ LastResort(view) = Cooling(view)
      BY <2>1 DEF Fallback, LastResort
    <3> QED
      BY <1>2, <1>4, <1>5, <3>1, ListOfSome
  <2>2. CASE Cooling(view) = {}
    <3>1. Fallback(view) = StableSort(view.order, Ready(view, "unhealthy"), {})
          /\ LastResort(view) = Ready(view, "unhealthy")
      BY <2>2 DEF Fallback, LastResort
    <3> QED
      BY <1>2, <1>3, <1>5, <3>1, ListOfSome
  <2> QED
    BY <2>1, <2>2
<1> QED
  BY <1>1, <1>6, <1>8, <1>9

(* The first place of a provider that has any.                             *)
LEMMA PositionFinds ==
  ASSUME NEW order \in Seq(Places), NEW p, PlacesIn(order, p) # {}
  PROVE  position(order, p) \in 1..Len(order) /\ Entries[order[position(order, p)]] = p
<1>1. PlacesIn(order, p) \subseteq Nat
  BY DEF PlacesIn
<1>2. \E x \in PlacesIn(order, p) :
        \A y \in PlacesIn(order, p) : ~(<<y, x>> \in OpToRel(<, Nat))
  BY <1>1, NatLessThanWellFounded, WFMin
<1>3. \E x \in PlacesIn(order, p) : \A y \in PlacesIn(order, p) : x <= y
  <2>1. PICK x \in PlacesIn(order, p) :
          \A y \in PlacesIn(order, p) : ~(<<y, x>> \in OpToRel(<, Nat))
    BY <1>2
  <2>2. \A y \in PlacesIn(order, p) : ~(y < x)
    BY <1>1, <2>1 DEF OpToRel
  <2> QED
    BY <1>1, <2>2
<1>4. position(order, p) \in PlacesIn(order, p)
  BY <1>3 DEF position
<1> QED
  BY <1>4 DEF PlacesIn

LEMMA MovedFirst ==
  ASSUME NEW S \in SUBSET Places, NEW order \in Seq(S), NEW p
  PROVE  /\ move_pinned_first(p, order) \in Seq(S)
         /\ Len(move_pinned_first(p, order)) = Len(order)
         /\ PlacesIn(order, p) # {} => /\ move_pinned_first(p, order) # << >>
                                       /\ Entries[move_pinned_first(p, order)[1]] = p
<1>1. PICK L \in Nat : L = Len(order) /\ order \in [1..L -> S]
  BY LenProperties
<1>2. CASE PlacesIn(order, p) = {}
  BY <1>2 DEF move_pinned_first
<1>3. CASE PlacesIn(order, p) # {}
  <2>1. PICK k : k = position(order, p)
    OBVIOUS
  <2>2. k \in 1..L /\ Entries[order[k]] = p
    <3>1. order \in Seq(Places)
      BY SeqMonotonic
    <3> QED
      BY <1>1, <1>3, <2>1, <3>1, PositionFinds
  <2>3. PICK moved : moved = MoveFirst(order, k)
    OBVIOUS
  <2>4. move_pinned_first(p, order) = moved
    BY <1>3, <2>1, <2>3 DEF move_pinned_first
  <2>5. moved \in [1..L -> S] /\ moved[1] = order[k]
    BY <1>1, <2>2, <2>3 DEF MoveFirst
  <2>6. moved \in Seq(S) /\ Len(moved) = L /\ L # 0
    BY <2>2, <2>5
  <2>7. moved # << >>
    BY <2>6
  <2> QED
    BY <1>1, <2>2, <2>4, <2>5, <2>6, <2>7
<1> QED
  BY <1>2, <1>3

LEMMA RanksOfView ==
  ASSUME NEW view, view.wait \in [Routed -> Nat], view.health \in [Routed -> States],
         NEW m \in Places
  PROVE  /\ Rank(view, Entries[m]) = 0 <=> m \in Ready(view, "healthy")
         /\ Rank(view, Entries[m]) = 1 <=> m \in Ready(view, "degraded")
         /\ Rank(view, Entries[m]) = 2 <=> m \in Cooling(view)
         /\ Rank(view, Entries[m]) = 3 <=> m \in Ready(view, "unhealthy")
         /\ Rank(view, Entries[m]) \in 0..3
<1>1. Entries[m] \in Routed
  BY PlacesAreFew
<1> QED
  BY <1>1 DEF Rank, Ready, Cooling, States

(* Somebody is asked, nobody worse than need be, the pin first.            *)
LEMMA CandidatesAreBest ==
  ASSUME NEW r \in Requests, req[r] \in Choosing, NEW load \in [Places -> Nat]
  PROVE  /\ Candidates(r, load) \in Seq(Places) /\ Candidates(r, load) # << >>
         /\ \A n \in 1..Len(Candidates(r, load)), p \in Routed :
              Rank(req[r].view, Entries[Candidates(r, load)[n]]) <= Rank(req[r].view, p)
         /\ PinnedOf(r) \in Routed \ PassedOver(req[r].view) =>
              Entries[Candidates(r, load)[1]] = PinnedOf(r)
<1>1. PICK view : view = req[r].view
  OBVIOUS
<1>2. view.wait \in [Routed -> Nat] /\ view.health \in [Routed -> States]
  BY <1>1 DEF Choosing, Views
<1>3. PICK selected : selected = Selected(r, load)
  OBVIOUS
<1>4. PICK moved : moved = move_pinned_first(PinnedOf(r), selected)
  OBVIOUS
<1>5. /\ Lists(selected, Eligible(view)) /\ selected \in Seq(Eligible(view))
      /\ Len(selected) = Cardinality(Eligible(view))
      /\ Fallback(view) \in Seq(LastResort(view))
      /\ Len(Fallback(view)) = Cardinality(LastResort(view))
      /\ IsFiniteSet(Eligible(view)) /\ IsFiniteSet(LastResort(view))
  BY <1>1, <1>3, ChoiceLists
<1>8. Eligible(view) \subseteq Places /\ LastResort(view) \subseteq Places
  BY DEF Eligible, LastResort, Ready, Cooling
<1>6. /\ moved \in Seq(Eligible(view)) /\ Len(moved) = Cardinality(Eligible(view))
      /\ PlacesIn(selected, PinnedOf(r)) # {} =>
           moved # << >> /\ Entries[moved[1]] = PinnedOf(r)
  BY <1>4, <1>5, <1>8, MovedFirst
<1>7. Candidates(r, load) = IF moved = << >> THEN Fallback(view) ELSE moved
  BY <1>1, <1>3, <1>4 DEF Candidates
<1>9. \A m \in Places : /\ Rank(view, Entries[m]) = 0 <=> m \in Ready(view, "healthy")
                        /\ Rank(view, Entries[m]) = 1 <=> m \in Ready(view, "degraded")
                        /\ Rank(view, Entries[m]) = 2 <=> m \in Cooling(view)
                        /\ Rank(view, Entries[m]) = 3 <=> m \in Ready(view, "unhealthy")
                        /\ Rank(view, Entries[m]) \in 0..3
  BY <1>2, RanksOfView
<1>10. CASE Eligible(view) # {}
  <2>1. Cardinality(Eligible(view)) # 0
    BY <1>5, <1>10, FS_EmptySet
  <2>2. moved # << >>
    BY <1>6, <2>1
  <2>3. Candidates(r, load) = moved /\ moved \in Seq(Places)
    BY <1>6, <1>7, <1>8, <2>2, SeqMonotonic
  <2>4. ASSUME NEW n \in 1..Len(moved), NEW p \in Routed
        PROVE  Rank(view, Entries[moved[n]]) <= Rank(view, p)
    <3>1. moved[n] \in Eligible(view)
      BY <1>6, ElementOfSeq
    <3>2. PICK m \in Places : Entries[m] = p
      BY PlacesAreFew
    <3> QED
      BY <1>8, <1>9, <3>1, <3>2 DEF Eligible
  <2>5. ASSUME PinnedOf(r) \in Routed \ PassedOver(view) PROVE Entries[moved[1]] = PinnedOf(r)
    <3>1. /\ ~(Rank(view, PinnedOf(r)) > 1)
          /\ \A q \in Routed : ~(Rank(view, q) < Rank(view, PinnedOf(r)))
      BY <2>5 DEF PassedOver
    <3>2. PICK m \in Places : Entries[m] = PinnedOf(r)
      BY <2>5, PlacesAreFew
    <3>3. \A k \in Places : ~(Rank(view, Entries[k]) < Rank(view, Entries[m]))
      BY <3>1, <3>2, PlacesAreFew
    <3>4. \A k \in Ready(view, "healthy") : k \in Places
      BY DEF Ready
    <3>5. m \in Eligible(view)
      BY <1>9, <3>1, <3>2, <3>3, <3>4 DEF Eligible
    <3>6. PICK n \in 1..Cardinality(Eligible(view)) : selected[n] = m
      BY <1>5, <3>5 DEF Lists
    <3>7. n \in PlacesIn(selected, PinnedOf(r))
      BY <1>5, <3>2, <3>6 DEF PlacesIn
    <3> QED
      BY <1>6, <3>7
  <2> QED
    BY <1>1, <2>2, <2>3, <2>4, <2>5
<1>11. CASE Eligible(view) = {}
  <2>1. moved = << >>
    BY <1>6, <1>11, FS_EmptySet
  <2>2. Candidates(r, load) = Fallback(view) /\ Fallback(view) \in Seq(Places)
    BY <1>5, <1>7, <1>8, <2>1, SeqMonotonic
  <2>3. Ready(view, "healthy") = {} /\ Ready(view, "degraded") = {}
    BY <1>11 DEF Eligible
  <2>4. LastResort(view) # {}
    BY <1>9, <2>3, PlacesAreFew DEF LastResort
  <2>5. Cardinality(LastResort(view)) # 0
    BY <1>5, <2>4, FS_EmptySet
  <2>6. Fallback(view) # << >>
    BY <1>5, <2>5
  <2>7. ASSUME NEW n \in 1..Len(Fallback(view)), NEW p \in Routed
        PROVE  Rank(view, Entries[Fallback(view)[n]]) <= Rank(view, p)
    <3>1. Fallback(view)[n] \in LastResort(view)
      BY <1>5, ElementOfSeq
    <3>2. PICK m \in Places : Entries[m] = p
      BY PlacesAreFew
    <3> QED
      BY <1>8, <1>9, <2>3, <3>1, <3>2 DEF LastResort
  <2>8. PinnedOf(r) \in Routed => PinnedOf(r) \in PassedOver(view)
    <3>1. ASSUME PinnedOf(r) \in Routed PROVE Rank(view, PinnedOf(r)) > 1
      <4>1. PICK m \in Places : Entries[m] = PinnedOf(r)
        BY <3>1, PlacesAreFew
      <4> QED
        BY <1>9, <2>3, <4>1
    <3> QED
      BY <3>1 DEF PassedOver
  <2> QED
    BY <1>1, <2>2, <2>6, <2>7, <2>8
<1> QED
  BY <1>10, <1>11

---------------------------------------------------------------------------
(* The steps of a request.                                                 *)
LEMMA PinningMoves ==
  ASSUME pins \in [DOMAIN pins -> Pins], now \in Nat, NEW s, NEW p \in Routed, Pinning(s, p)
  PROVE  /\ pins' \in [DOMAIN pins' -> Pins]
         /\ s \in DOMAIN pins' /\ pins'[s].provider = p
         /\ \A t \in DOMAIN pins \cap DOMAIN pins' : t # s => pins'[t] = pins[t]
<1>1. PICK left \in SUBSET DOMAIN pins :
        pins' = [t \in left \cup {s} |->
                   IF t = s THEN [provider |-> p, last_used |-> now] ELSE pins[t]]
  BY DEF Pinning
<1>2. PICK pin : pin = [provider |-> p, last_used |-> now]
  OBVIOUS
<1>3. pin \in Pins /\ pin.provider = p
  BY <1>2 DEF Pins
<1>4. pins' = [t \in left \cup {s} |-> IF t = s THEN pin ELSE pins[t]]
  BY <1>1, <1>2
<1>5. DOMAIN pins' = left \cup {s} /\ \A t \in left \cup {s} :
        pins'[t] = IF t = s THEN pin ELSE pins[t]
  BY <1>4
<1> QED
  BY <1>3, <1>4, <1>5

LEMMA OneMoves ==
  ASSUME req \in [Requests -> {Idle} \cup Choosing \cup Serving],
         NEW r \in Requests, NEW t \in {Idle} \cup Choosing \cup Serving,
         req' = [req EXCEPT ![r] = t]
  PROVE  /\ req' \in [Requests -> {Idle} \cup Choosing \cup Serving]
         /\ req'[r] = t /\ \A q \in Requests : q # r => req'[q] = req[q]
  OBVIOUS

(* What a step of a request leaves: its new locals, nothing else's, and a  *)
(* pin that it moves only as it may.                                       *)
MovesPin(r) ==
  \A s \in DOMAIN pins \cap DOMAIN pins' :
    \/ pins'[s].provider = pins[s].provider
    \/ /\ req[r].pc = "serving" /\ req[r].session = s /\ req'[r] # req[r]
       /\ pins[s].provider \in req[r].excused

StepOK(r) ==
  /\ RoutingTypeOK' /\ MovesPin(r)
  /\ \A q \in Requests : q # r => req'[q] = req[q]
  /\ req'[r].pc = "serving" =>
       \A p \in Routed \ req'[r].excused : req'[r].todo # << >> /\ Entries[req'[r].todo[1]] = p
  /\ req[r].pc = "choosing" /\ req'[r].pc = "serving" =>
       /\ req'[r].todo # << >>
       /\ \A n \in 1..Len(req'[r].todo), p \in Routed :
            Rank(req[r].view, Entries[req'[r].todo[n]]) <= Rank(req[r].view, p)

LEMMA PcsDiffer ==
  /\ Idle.pc = "idle" /\ \A t \in Choosing : t.pc = "choosing"
  /\ \A t \in Serving : t.pc = "serving"
  BY DEF Idle, Choosing, Serving

LEMMA SnapshotOK ==
  ASSUME RoutingInv, NEW r \in Requests, NEW strategy \in Strategies,
         NEW session \in Sessions \cup {NoSession},
         NEW known \in [Routed -> States], NEW wait \in [Routed -> Remaining],
         Snapshot(r, strategy, session, known, wait)
  PROVE  StepOK(r)
<1>1. PICK order : order = IF strategy = "RoundRobin" THEN weighted_rr_order(turn)
                           ELSE priority_order
  OBVIOUS
<1>2. Holds(order, Places)
  BY <1>1, WeightedHolds, PriorityHolds DEF RoutingInv, RoutingTypeOK
<1>3. wait \in [Routed -> Nat]
  BY RoutingAssumption
<1>4. PICK view : view = [order |-> order, health |-> known, wait |-> wait]
  OBVIOUS
<1>5. view \in Views
  BY <1>2, <1>3, <1>4 DEF Views, Holds
<1>6. PICK t : t = [pc |-> "choosing", strategy |-> strategy, session |-> session, view |-> view]
  OBVIOUS
<1>7. t \in Choosing
  BY <1>5, <1>6 DEF Choosing
<1>8. req' = [req EXCEPT ![r] = t] /\ UNCHANGED <<now, pins>> /\ begun' = begun + 1
  BY <1>1, <1>4, <1>6 DEF Snapshot
<1>9. turn' \in 0..(Cardinality(Slots) - 1)
  BY SlotsAreFew DEF Snapshot, RoutingInv, RoutingTypeOK
<1>10. /\ req' \in [Requests -> {Idle} \cup Choosing \cup Serving]
       /\ req'[r] = t /\ \A q \in Requests : q # r => req'[q] = req[q]
  BY <1>7, <1>8, OneMoves DEF RoutingInv, RoutingTypeOK
<1>11. RoutingTypeOK'
  BY <1>8, <1>9, <1>10 DEF RoutingInv, RoutingTypeOK
<1>12. req'[r].pc # "serving" /\ MovesPin(r)
  BY <1>7, <1>8, <1>10, PcsDiffer DEF MovesPin
<1> QED
  BY <1>10, <1>11, <1>12 DEF StepOK

LEMMA ChooseOK ==
  ASSUME RoutingInv, NEW r \in Requests, NEW load \in [Places -> Loads], Choose(r, load)
  PROVE  StepOK(r)
<1>1. load \in [Places -> Nat]
  BY RoutingAssumption
<1>2. req[r] \in Choosing
  BY PcsDiffer DEF Choose, RoutingInv, RoutingTypeOK
<1>3. PICK todo : todo = Candidates(r, load)
  OBVIOUS
<1>4. /\ todo \in Seq(Places) /\ todo # << >>
      /\ \A n \in 1..Len(todo), p \in Routed :
           Rank(req[r].view, Entries[todo[n]]) <= Rank(req[r].view, p)
      /\ PinnedOf(r) \in Routed \ PassedOver(req[r].view) => Entries[todo[1]] = PinnedOf(r)
  BY <1>1, <1>2, <1>3, CandidatesAreBest
<1>5. PICK excused : excused = (Routed \ {PinnedOf(r)}) \cup PassedOver(req[r].view)
  OBVIOUS
<1>6. excused \in SUBSET Routed
  BY <1>5 DEF PassedOver
<1>7. \A p \in Routed \ excused : p = PinnedOf(r) /\ p \notin PassedOver(req[r].view)
  BY <1>5
<1>8. PICK t : t = [pc |-> "serving", session |-> req[r].session, todo |-> todo,
                    excused |-> excused]
  OBVIOUS
<1>9. /\ t \in Serving /\ t.todo = todo /\ t.excused = excused
  BY <1>2, <1>4, <1>6, <1>8 DEF Serving, Choosing
<1>10. /\ req' = [req EXCEPT ![r] = t]
       /\ UNCHANGED <<now, turn, begun>>
       /\ pins' = pins \/ pins' = Without(req[r].session)
  BY <1>3, <1>5, <1>8 DEF Choose
<1>11. /\ req' \in [Requests -> {Idle} \cup Choosing \cup Serving]
       /\ req'[r] = t /\ \A q \in Requests : q # r => req'[q] = req[q]
  BY <1>9, <1>10, OneMoves DEF RoutingInv, RoutingTypeOK
<1>12. /\ pins' \in [DOMAIN pins' -> Pins]
       /\ \A s \in DOMAIN pins \cap DOMAIN pins' : pins'[s] = pins[s]
  BY <1>10 DEF RoutingInv, RoutingTypeOK, Without
<1>13. RoutingTypeOK'
  BY <1>10, <1>11, <1>12 DEF RoutingInv, RoutingTypeOK
<1>14. MovesPin(r)
  BY <1>12 DEF MovesPin
<1> QED
  BY <1>4, <1>7, <1>9, <1>11, <1>13, <1>14 DEF StepOK

(* A candidate that fails or proves empty is excused; the pin may move to  *)
(* it only from one that was.                                              *)
LEMMA NextCandidate ==
  ASSUME RoutingInv, NEW r \in Requests, req[r].pc = "serving", req[r].todo # << >>,
         req' = [req EXCEPT ![r].todo = Tail(@), ![r].excused = @ \cup {Asked(r)}],
         UNCHANGED <<now, turn, begun>>,
         UNCHANGED pins \/ Pinning(req[r].session, Asked(r))
  PROVE  StepOK(r)
<1>1. req[r] \in Serving
  BY PcsDiffer DEF RoutingInv, RoutingTypeOK
<1>2. PICK todo \in Seq(Places), excused \in SUBSET Routed :
        todo = req[r].todo /\ excused = req[r].excused /\ Asked(r) = Entries[Head(todo)]
  BY <1>1 DEF Serving, Asked
<1>3. /\ Head(todo) = todo[1] /\ Head(todo) \in Places /\ Tail(todo) \in Seq(Places)
      /\ Entries[Head(todo)] \in Routed
  BY <1>2, PlacesAreFew
<1>4. PICK new \in SUBSET Routed, rest \in Seq(Places) :
        new = excused \cup {Entries[Head(todo)]} /\ rest = Tail(todo)
  BY <1>3
<1>5. PICK t : t = [req[r] EXCEPT !.todo = rest, !.excused = new]
  OBVIOUS
<1>6. t \in Serving /\ t.excused = new /\ t.todo = rest
  BY <1>1, <1>5 DEF Serving
<1>7. req' = [req EXCEPT ![r] = t]
  BY <1>2, <1>4, <1>5 DEF RoutingInv, RoutingTypeOK
<1>8. /\ req' \in [Requests -> {Idle} \cup Choosing \cup Serving]
      /\ req'[r] = t /\ \A q \in Requests : q # r => req'[q] = req[q]
  BY <1>6, <1>7, OneMoves DEF RoutingInv, RoutingTypeOK
<1>9. \A p \in Routed \ excused : p = Entries[Head(todo)]
  BY <1>2, <1>3 DEF RoutingInv, PinIsNext
<1>10. Routed \ new = {}
  BY <1>4, <1>9
<1>11. /\ pins \in [DOMAIN pins -> Pins] /\ now \in Nat
       /\ \A s \in DOMAIN pins : pins[s].provider \in Routed
  BY DEF RoutingInv, RoutingTypeOK, Pins
<1>12. t # req[r]
  <2>1. Len(rest) # Len(todo)
    BY <1>2, <1>4
  <2> QED
    BY <1>2, <1>6, <2>1
<1>13. pins' \in [DOMAIN pins' -> Pins] /\ MovesPin(r)
  <2>1. CASE UNCHANGED pins
    BY <1>11, <2>1 DEF MovesPin
  <2>2. CASE Pinning(req[r].session, Entries[Head(todo)])
    <3>1. /\ pins' \in [DOMAIN pins' -> Pins]
          /\ pins'[req[r].session].provider = Entries[Head(todo)]
          /\ \A s \in DOMAIN pins \cap DOMAIN pins' : s # req[r].session => pins'[s] = pins[s]
      BY <1>3, <1>11, <2>2, PinningMoves
    <3> QED
      BY <1>2, <1>8, <1>9, <1>11, <1>12, <3>1 DEF MovesPin
  <2> QED
    BY <1>2, <2>1, <2>2
<1>14. RoutingTypeOK'
  BY <1>8, <1>13 DEF RoutingInv, RoutingTypeOK
<1> QED
  BY <1>6, <1>8, <1>10, <1>13, <1>14 DEF StepOK

LEMMA RequestEnds ==
  ASSUME RoutingInv, NEW r \in Requests, req[r].pc = "serving",
         req' = [req EXCEPT ![r] = Idle], UNCHANGED <<now, turn, begun>>,
         \/ UNCHANGED pins
         \/ req[r].todo # << >> /\ Pinning(req[r].session, Asked(r))
  PROVE  StepOK(r)
<1>1. req[r] \in Serving
  BY PcsDiffer DEF RoutingInv, RoutingTypeOK
<1>2. PICK todo \in Seq(Places), excused \in SUBSET Routed :
        todo = req[r].todo /\ excused = req[r].excused /\ Asked(r) = Entries[Head(todo)]
  BY <1>1 DEF Serving, Asked
<1>3. /\ req' \in [Requests -> {Idle} \cup Choosing \cup Serving]
      /\ req'[r] = Idle /\ \A q \in Requests : q # r => req'[q] = req[q]
  BY OneMoves DEF RoutingInv, RoutingTypeOK
<1>4. req'[r].pc = "idle" /\ req'[r] # req[r]
  BY <1>3, PcsDiffer
<1>5. /\ pins \in [DOMAIN pins -> Pins] /\ now \in Nat
      /\ \A s \in DOMAIN pins : pins[s].provider \in Routed
  BY DEF RoutingInv, RoutingTypeOK, Pins
<1>6. pins' \in [DOMAIN pins' -> Pins] /\ MovesPin(r)
  <2>1. CASE UNCHANGED pins
    BY <1>5, <2>1 DEF MovesPin
  <2>2. CASE todo # << >> /\ Pinning(req[r].session, Entries[Head(todo)])
    <3>1. Entries[Head(todo)] \in Routed /\ Head(todo) = todo[1]
      BY <1>2, <2>2, PlacesAreFew
    <3>2. \A p \in Routed \ excused : p = Entries[Head(todo)]
      BY <1>2, <3>1 DEF RoutingInv, PinIsNext
    <3>3. /\ pins' \in [DOMAIN pins' -> Pins]
          /\ pins'[req[r].session].provider = Entries[Head(todo)]
          /\ \A s \in DOMAIN pins \cap DOMAIN pins' : s # req[r].session => pins'[s] = pins[s]
      BY <1>5, <2>2, <3>1, PinningMoves
    <3> QED
      BY <1>2, <1>4, <1>5, <3>2, <3>3 DEF MovesPin
  <2> QED
    BY <1>2, <2>1, <2>2
<1>7. RoutingTypeOK'
  BY <1>3, <1>6 DEF RoutingInv, RoutingTypeOK
<1> QED
  BY <1>3, <1>4, <1>6, <1>7 DEF StepOK

LEMMA RequestOK ==
  ASSUME RoutingInv, NEW r \in Requests, Request(r)
  PROVE  StepOK(r)
<1>1. ASSUME NEW strategy \in Strategies, NEW session \in Sessions \cup {NoSession},
             NEW known \in [Routed -> States], NEW wait \in [Routed -> Remaining],
             Snapshot(r, strategy, session, known, wait)
      PROVE  StepOK(r)
  BY <1>1, SnapshotOK
<1>2. ASSUME NEW load \in [Places -> Loads], Choose(r, load) PROVE StepOK(r)
  BY <1>2, ChooseOK
<1>3. CASE ProviderFails(r)
  BY <1>3, NextCandidate DEF ProviderFails
<1>4. CASE ProviderServes(r)
  BY <1>4, RequestEnds DEF ProviderServes
<1>5. CASE StreamsEmpty(r)
  BY <1>5, NextCandidate DEF StreamsEmpty
<1>6. CASE GivesUp(r)
  BY <1>6, RequestEnds DEF GivesUp
<1> QED
  BY <1>1, <1>2, <1>3, <1>4, <1>5, <1>6 DEF Request

LEMMA RoutingInit == Init => RoutingInv
<1> SUFFICES ASSUME Init PROVE RoutingInv
  OBVIOUS
<1>1. pins = << >> /\ DOMAIN << >> = {}
  BY DEF Init
<1>2. RoutingTypeOK
  BY <1>1, SlotsAreFew DEF Init, RoutingTypeOK
<1>3. PinIsNext
  BY PcsDiffer DEF Init, PinIsNext
<1> QED
  BY <1>2, <1>3 DEF RoutingInv

LEMMA RoutingNext == RoutingInv /\ [Next]_vars => RoutingInv'
<1> SUFFICES ASSUME RoutingInv, [Next]_vars PROVE RoutingInv'
  OBVIOUS
<1>1. ASSUME NEW r \in Requests, Request(r) PROVE RoutingInv'
  <2>1. StepOK(r)
    BY <1>1, RequestOK
  <2>2. PinIsNext'
    BY <2>1 DEF StepOK, RoutingInv, PinIsNext
  <2> QED
    BY <2>1, <2>2 DEF StepOK, RoutingInv
<1>2. CASE TimePasses
  BY <1>2 DEF TimePasses, RoutingInv, RoutingTypeOK, PinIsNext
<1>3. CASE UNCHANGED vars
  BY <1>3 DEF vars, RoutingInv, RoutingTypeOK, PinIsNext
<1> QED
  BY <1>1, <1>2, <1>3 DEF Next

(* The variables of the choice keep their types: the counter of the        *)
(* round-robin stays within the virtual slots, pins name routed providers. *)
THEOREM RoutingTypeCorrect == Spec => []RoutingTypeOK
<1>1. RoutingInv => RoutingTypeOK
  BY DEF RoutingInv
<1> QED
  BY <1>1, RoutingInit, RoutingNext, PTL DEF Spec

(* Somebody is asked, and nobody worse than need be, for any table,        *)
(* weights, loads, health and waits.                                       *)
THEOREM NobodyWorseIsAsked == Spec => NoWorseThanNeeded
<1>1. RoutingInv /\ [Next]_vars =>
        [\A r \in Requests : req[r].pc = "choosing" /\ req'[r].pc = "serving" =>
           /\ req'[r].todo # << >>
           /\ \A n \in 1..Len(req'[r].todo), p \in Routed :
                Rank(req[r].view, Entries[req'[r].todo[n]]) <= Rank(req[r].view, p)]_vars
  <2> SUFFICES ASSUME RoutingInv, [Next]_vars, NEW r \in Requests,
                      req[r].pc = "choosing", req'[r].pc = "serving"
               PROVE  /\ req'[r].todo # << >>
                      /\ \A n \in 1..Len(req'[r].todo), p \in Routed :
                           Rank(req[r].view, Entries[req'[r].todo[n]]) <= Rank(req[r].view, p)
    OBVIOUS
  <2>1. PICK q \in Requests : Request(q)
    BY DEF Next, TimePasses, vars
  <2>2. q = r
    BY <2>1, RequestOK DEF StepOK
  <2> QED
    BY <2>1, <2>2, RequestOK DEF StepOK
<1> QED
  BY <1>1, RoutingInit, RoutingNext, PTL DEF Spec, NoWorseThanNeeded

(* A pin leaves a provider only by a request that was not pinned to it,    *)
(* had passed it over or saw it fail, for any sessions and requests.       *)
THEOREM PinsMoveForCause == Spec => PinMovesForCause
<1>1. RoutingInv /\ [Next]_vars =>
        [\A s \in DOMAIN pins \cap DOMAIN pins' :
           \/ pins'[s].provider = pins[s].provider
           \/ \E r \in Requests : /\ req[r].pc = "serving" /\ req[r].session = s
                                  /\ req'[r] # req[r]
                                  /\ pins[s].provider \in req[r].excused]_vars
  <2> SUFFICES ASSUME RoutingInv, [Next]_vars, NEW s \in DOMAIN pins \cap DOMAIN pins',
                      pins'[s].provider # pins[s].provider
               PROVE  \E r \in Requests : /\ req[r].pc = "serving" /\ req[r].session = s
                                          /\ req'[r] # req[r]
                                          /\ pins[s].provider \in req[r].excused
    OBVIOUS
  <2>1. PICK q \in Requests : Request(q)
    BY DEF Next, TimePasses, vars
  <2>2. MovesPin(q)
    BY <2>1, RequestOK DEF StepOK
  <2> QED
    BY <2>2 DEF MovesPin
<1> QED
  BY <1>1, RoutingInit, RoutingNext, PTL DEF Spec, PinMovesForCause

---------------------------------------------------------------------------
(* Reload: types.                                                          *)
RowRecs == [version : Nat, builds : BOOLEAN]
ConfigRecs == [exists : BOOLEAN, name : Names \cup {NeverUsed}, members : SUBSET ProviderIds]
Builds == [by : Nat, version : [ProviderIds -> Nat]]
Table == [exists : BOOLEAN, entries : SUBSET ProviderIds]
Steps == {"signal", "providers", "configs", "members", "models", "install", "tables", "stop",
          "start"}
Listed == ConfigIds \X Names
Tasks == [pc : Steps \cup {"idle"}, built : Builds, todo : SUBSET Listed, table : [Names -> Table]]

Loops == [id : Nat, watches : Builds, told : BOOLEAN]

ReloadTypeOK ==
  /\ row \in [ProviderIds -> RowRecs]
  /\ \A p \in ProviderIds : row[p].version = 0 => ~row[p].builds
  /\ config \in [ConfigIds -> ConfigRecs]
  /\ task \in [Handlers -> Tasks]
  /\ loaded \in Builds
  /\ tables \in [by : Nat, of : [Names -> Table]]
  /\ reads \in Nat /\ writes \in Nat /\ faults \in Nat /\ started \in Nat
  /\ handle \in Nat /\ channel \in Nat /\ lock \in Handlers \cup {Unheld}
  /\ loops \in SUBSET Loops
  /\ loaded.by <= reads /\ tables.by <= reads
  /\ \A h \in Handlers : task[h].built.by <= reads

In(h, pcs) == task[h].pc \in pcs
Pending == \E h \in Handlers : In(h, {"signal", "providers"})
Reading == {"configs", "members", "models", "install", "tables"}
Latest(h) == task[h].built.by = reads

(* The table that some configs of one name leave when they have been read  *)
(* in the order of their ids, and those of a name yet to be read.          *)
TableOf(cs) ==
  IF cs = {} THEN NoTable
  ELSE [exists |-> TRUE, entries |-> Able(UNION {config[c].members : c \in Last(cs)})]
Left(h, n) == {c \in ConfigIds : <<c, n>> \in task[h].todo}

ReadInv(h, n) ==
  /\ In(h, {"configs"}) => task[h].table[n] = NoTable
  /\ In(h, {"members"}) =>
       /\ Left(h, n) \subseteq Named(n)
       /\ \A c \in Named(n) \ Left(h, n), d \in Left(h, n) : c < d
       /\ task[h].table[n] = TableOf(Named(n) \ Left(h, n))
  /\ In(h, {"models"}) => task[h].table[n] = TableOf(Named(n))
  /\ In(h, {"install", "tables"}) => task[h].table[n] = TableFrom(n)

TablesInv ==
  \A h \in Handlers : In(h, {"signal", "providers", "configs"}) => task[h].table = NoTables.of

CurrentInv ==
  ~Pending =>
    /\ loaded.by = reads => loaded.version = Built(row)
    /\ tables.by = reads => \A n \in Names \ unloaded : tables.of[n] = TableFrom(n)
    /\ \A h \in Handlers : In(h, Reading) /\ Latest(h) =>
         /\ task[h].built.version = Built(row)
         /\ \A n \in Names \ unloaded : ReadInv(h, n)

ReachesInv ==
  /\ "providers" \notin overtaken =>
       loaded.by = reads \/ \E h \in Handlers : In(h, Reading \ {"tables"}) /\ Latest(h)
  /\ "tables" \notin overtaken =>
       tables.by = reads \/ \E h \in Handlers : In(h, Reading) /\ Latest(h)

Watched == {l.watches : l \in {m \in loops : ~m.told}}

LoopsInv ==
  /\ \A l \in loops : ~l.told => l.id = handle
  /\ \A h \in Handlers : In(h, {"start"}) =>
       /\ lock = h /\ \A l \in loops : l.told
       /\ ~NothingToWatch(task[h].built)
       /\ task[h].built = loaded \/ \E g \in Handlers : In(g, {"tables", "stop"})

WatchedInv ==
  \/ \E h \in Handlers : In(h, Steps \ {"signal"})
  \/ Watched = IF NothingToWatch(loaded) THEN {} ELSE {loaded}

Sound == TablesInv /\ CurrentInv /\ ReachesInv /\ LoopsInv /\ WatchedInv

ReloadInv == ReloadTypeOK /\ (faults = 0 => Sound)

---------------------------------------------------------------------------
LEMMA TasksOfReloads ==
  /\ NoTable \in Table /\ NoTables.of \in [Names -> Table] /\ NoneLoaded \in Builds
  /\ Done \in Tasks /\ Done.pc = "idle" /\ Done.built = NoneLoaded
  /\ Reloads \in Tasks /\ Reloads.pc = "signal" /\ Reloads.built = NoneLoaded
  /\ Reloads.table = NoTables.of
<1>1. NoTable \in Table /\ NoTables.of \in [Names -> Table] /\ NoneLoaded \in Builds
  BY DEF NoTable, Table, NoTables, NoneLoaded, Builds
<1>2. PICK none, no : none = NoneLoaded /\ no = NoTables.of
  OBVIOUS
<1>3. Done = [pc |-> "idle", built |-> none, todo |-> {}, table |-> no]
  BY <1>2 DEF Done
<1>4. Reloads = [pc |-> "signal", built |-> none, todo |-> {}, table |-> no]
  BY <1>3 DEF Reloads
<1> QED
  BY <1>1, <1>2, <1>3, <1>4 DEF Tasks, Steps

(* What a handler stores types, and it either reloads or has written       *)
(* configs of one name only.                                               *)
Stays(m) == Named(m)' = Named(m) /\ \A c \in Named(m) : config'[c].members = config[c].members
Saved(h) ==
  \/ Write(h, Reloads)
  \/ /\ Write(h, Done)
     /\ row' = row
     /\ \E n : unloaded' = unloaded \cup {n} /\ \A m \in Names \ {n} : Stays(m)

RowsOK(rows) == rows \in [ProviderIds -> RowRecs]
                /\ \A p \in ProviderIds : rows[p].version = 0 => ~rows[p].builds

LEMMA WritesAreSaved ==
  ASSUME ReloadTypeOK, NEW h \in Admins, Administers(h)
  PROVE  /\ RowsOK(row') /\ config' \in [ConfigIds -> ConfigRecs]
         /\ Saved(h)
<1> USE DEF RowsOK
<1>1. /\ RowsOK(row) /\ config \in [ConfigIds -> ConfigRecs] /\ writes \in Nat
  BY DEF ReloadTypeOK
<1>2. ASSUME NEW p \in ProviderIds, NEW builds \in BOOLEAN, StoreRow(h, p, builds)
      PROVE  /\ RowsOK(row') /\ config' \in [ConfigIds -> ConfigRecs] /\ Saved(h)
  <2>1. PICK r : r = [version |-> writes + 1, builds |-> builds]
    OBVIOUS
  <2>2. r \in RowRecs /\ r.version # 0
    BY <1>1, <2>1 DEF RowRecs
  <2>3. row' = [row EXCEPT ![p] = r] /\ config' = config /\ Write(h, Reloads)
    BY <1>2, <2>1 DEF StoreRow
  <2> QED
    BY <1>1, <2>2, <2>3 DEF Saved
<1>3. ASSUME NEW p \in ProviderIds, DeleteProvider(h, p)
      PROVE  /\ RowsOK(row') /\ config' \in [ConfigIds -> ConfigRecs] /\ Saved(h)
  <2>1. PICK r : r = NoRow
    OBVIOUS
  <2>2. r \in RowRecs /\ ~r.builds
    BY <2>1 DEF RowRecs, NoRow
  <2>3. row' = [row EXCEPT ![p] = r] /\ Write(h, Reloads)
    BY <1>3, <2>1 DEF DeleteProvider
  <2>4. RowsOK(row')
    BY <1>1, <2>2, <2>3
  <2>5. config' \in [ConfigIds -> ConfigRecs]
    BY <1>1, <1>3 DEF DeleteProvider, ConfigRecs
  <2> QED
    BY <2>3, <2>4, <2>5 DEF Saved
<1>4. ASSUME NEW c \in ConfigIds, NEW p \in ProviderIds, SetMember(h, c, p)
      PROVE  /\ RowsOK(row') /\ config' \in [ConfigIds -> ConfigRecs] /\ Saved(h)
  <2>1. PICK r \in ConfigRecs : config' = [config EXCEPT ![c] = r]
    <3>1. PICK ms \in SUBSET ProviderIds :
            config' = [config EXCEPT ![c] = [config[c] EXCEPT !.members = ms]]
      BY <1>1, <1>4 DEF SetMember, ConfigRecs
    <3> QED
      BY <1>1, <3>1 DEF ConfigRecs
  <2> QED
    BY <1>1, <1>4, <2>1 DEF SetMember, Saved
<1>5. ASSUME NEW c \in ConfigIds, NEW n \in Names, UpdateConfig(h, c, n)
      PROVE  /\ RowsOK(row') /\ config' \in [ConfigIds -> ConfigRecs] /\ Saved(h)
  <2>1. config' = [config EXCEPT ![c] = [config[c] EXCEPT !.name = n]]
    BY <1>1, <1>5 DEF UpdateConfig
  <2>2. config' \in [ConfigIds -> ConfigRecs]
    BY <1>1, <2>1 DEF ConfigRecs
  <2> QED
    BY <1>1, <1>5, <2>2 DEF UpdateConfig, Saved
<1>6. ASSUME NEW c \in ConfigIds, NEW n \in Names, CreateConfig(h, c, n)
      PROVE  /\ RowsOK(row') /\ config' \in [ConfigIds -> ConfigRecs] /\ Saved(h)
  <2>1. PICK r \in ConfigRecs : r.exists /\ r.name = n /\ config' = [config EXCEPT ![c] = r]
    <3>1. [exists |-> TRUE, name |-> n, members |-> {}] \in ConfigRecs
      BY DEF ConfigRecs
    <3> QED
      BY <1>6, <3>1 DEF CreateConfig
  <2>2. ~config[c].exists
    BY <1>6 DEF CreateConfig, NoConfig
  <2>3. ASSUME NEW m \in Names \ {n} PROVE Stays(m)
    <3>1. \A d \in ConfigIds : config'[d] = IF d = c THEN r ELSE config[d]
      BY <1>1, <2>1
    <3> QED
      BY <2>1, <2>2, <3>1 DEF Stays, Named
  <2> QED
    BY <1>1, <1>6, <2>1, <2>3 DEF CreateConfig, Saved
<1>9. ASSUME NEW c \in ConfigIds, DeleteConfig(h, c)
      PROVE  /\ RowsOK(row') /\ config' \in [ConfigIds -> ConfigRecs] /\ Saved(h)
  <2>1. PICK r \in ConfigRecs : ~r.exists /\ config' = [config EXCEPT ![c] = r]
    <3>1. PICK r : r = [config[c] EXCEPT !.exists = FALSE, !.members = {}]
      OBVIOUS
    <3>2. r \in ConfigRecs /\ ~r.exists
      BY <1>1, <3>1 DEF ConfigRecs
    <3>3. config' = [config EXCEPT ![c] = r]
      BY <1>1, <1>9, <3>1 DEF DeleteConfig
    <3> QED
      BY <3>2, <3>3
  <2>2. ASSUME NEW m \in Names \ {config[c].name} PROVE Stays(m)
    <3>1. \A d \in ConfigIds : config'[d] = IF d = c THEN r ELSE config[d]
      BY <1>1, <2>1
    <3> QED
      BY <2>1, <3>1 DEF Stays, Named
  <2> QED
    BY <1>1, <1>9, <2>1, <2>2 DEF DeleteConfig, Saved
<1>7. ASSUME ReloadOnly(h)
      PROVE  /\ RowsOK(row') /\ config' \in [ConfigIds -> ConfigRecs] /\ Saved(h)
  BY <1>1, <1>7 DEF ReloadOnly, Saved
<1>8. ASSUME NEW p \in ProviderIds, GenerateKey(h, p)
      PROVE  /\ RowsOK(row') /\ config' \in [ConfigIds -> ConfigRecs] /\ Saved(h)
  <2>1. row[p].builds \in BOOLEAN /\ StoreRow(h, p, row[p].builds)
    BY <1>1, <1>8 DEF GenerateKey, RowRecs
  <2> QED
    BY <1>2, <2>1
<1> QED
  BY <1>2, <1>3, <1>4, <1>5, <1>6, <1>7, <1>8, <1>9 DEF Administers, CreateProvider, UpdateProvider

LEMMA LocalsOfOne ==
  ASSUME task \in [Handlers -> Tasks], NEW h \in Handlers, NEW t \in Tasks, Goes(h, t)
  PROVE  /\ task' \in [Handlers -> Tasks]
         /\ task'[h] = t
         /\ \A g \in Handlers : g # h => task'[g] = task[g]
  BY DEF Goes

(* What each step of a reload leaves in the locals of its handler.         *)
LEMMA LocalsOfReader ==
  ASSUME ReloadTypeOK, NEW h \in Handlers
  PROVE  /\ Signal(h) => \E t \in Tasks : /\ Goes(h, t) /\ t.pc = "providers"
                                          /\ t.built = task[h].built /\ t.table = task[h].table
         /\ ListProviders(h) => \E t \in Tasks :
              /\ Goes(h, t) /\ t.pc = "configs" /\ t.table = task[h].table
              /\ t.built.by = reads + 1 /\ t.built.version = Built(row)
         /\ ListConfigs(h) => \E t \in Tasks :
              /\ Goes(h, t) /\ t.pc = "members"
              /\ t.built = task[h].built /\ t.table = task[h].table
              /\ t.todo = {cn \in Listed : cn[1] \in Named(cn[2])}
         /\ \A c \in ConfigIds, n \in Names : ReadMembers(h, c, n) => \E t \in Tasks :
              /\ Goes(h, t) /\ t.pc = "members"
              /\ t.built = task[h].built /\ t.todo = task[h].todo \ {<<c, n>>}
              /\ \A m \in Names : t.table[m] =
                   IF m = n THEN [exists |-> TRUE,
                                  entries |-> EntriesOf(task[h].built, config[c].members)]
                   ELSE task[h].table[m]
         /\ MembersRead(h) => \E t \in Tasks :
              /\ Goes(h, t) /\ t.pc = "models"
              /\ t.built = task[h].built /\ t.table = task[h].table
         /\ ListModels(h) => \E t \in Tasks :
              /\ Goes(h, t) /\ t.pc = "install" /\ t.built = task[h].built
              /\ \A n \in Names :
                   t.table[n] = ModelTable(task[h].built, row, task[h].table[n], n)
         /\ InstallProviders(h) => \E t \in Tasks :
              /\ Goes(h, t) /\ t.pc = "tables"
              /\ t.built = task[h].built /\ t.table = task[h].table
         /\ InstallTables(h) => \E t \in Tasks :
              /\ Goes(h, t) /\ t.pc = "stop"
              /\ t.built = task[h].built /\ t.table = task[h].table
         /\ StopOld(h) => \E t \in Tasks :
              /\ Goes(h, t)
              /\ t.built = loaded \/ t.built = NoneLoaded
              /\ IF NothingToWatch(loaded) THEN t.pc = "idle" /\ lock' = Unheld
                 ELSE t.pc = "start" /\ t.built = loaded /\ lock' = h
         /\ StartNew(h) => \E t \in Tasks : Goes(h, t) /\ t.pc = "idle" /\ t.built = NoneLoaded
<1>1. PICK pc, built, todo, table : task[h] = [pc |-> pc, built |-> built, todo |-> todo,
                                               table |-> table]
  BY DEF ReloadTypeOK, Tasks
<1>2. /\ pc \in Steps \cup {"idle"} /\ built \in Builds /\ todo \in SUBSET Listed
      /\ table \in [Names -> Table]
  BY <1>1 DEF ReloadTypeOK, Tasks
<1>3. /\ task[h].pc = pc /\ task[h].built = built /\ task[h].todo = todo
      /\ task[h].table = table
  BY <1>1
<1>b. task[h] \in Tasks
  BY DEF ReloadTypeOK
<1>a. Built(row) \in [ProviderIds -> Nat]
  BY DEF ReloadTypeOK, Built, RowRecs
<1> DEFINE T(p, b, d, tb) == [pc |-> p, built |-> b, todo |-> d, table |-> tb]
<1>4. ASSUME NEW p \in Steps \cup {"idle"}, NEW b \in Builds, NEW d \in SUBSET Listed,
             NEW tb \in [Names -> Table]
      PROVE  /\ T(p, b, d, tb) \in Tasks /\ T(p, b, d, tb).pc = p /\ T(p, b, d, tb).built = b
             /\ T(p, b, d, tb).todo = d /\ T(p, b, d, tb).table = tb
  BY DEF Tasks
<1> HIDE DEF T
<1>6. Signal(h) => \E t \in Tasks : /\ Goes(h, t) /\ t.pc = "providers"
                                    /\ t.built = task[h].built /\ t.table = task[h].table
  <2>1. PICK t : t = [task[h] EXCEPT !.pc = "providers"]
    OBVIOUS
  <2>2. t = T("providers", built, todo, table)
    BY <1>1, <2>1 DEF T
  <2>3. Signal(h) => Goes(h, t)
    BY <2>1 DEF Signal
  <2>4. "providers" \in Steps \cup {"idle"}
    BY DEF Steps
  <2> QED
    BY <1>2, <1>3, <1>4, <2>2, <2>3, <2>4
<1>7. ListProviders(h) => \E t \in Tasks :
              /\ Goes(h, t) /\ t.pc = "configs" /\ t.table = task[h].table
              /\ t.built.by = reads + 1 /\ t.built.version = Built(row)
  <2>1. PICK b : b = [by |-> reads + 1, version |-> Built(row)]
    OBVIOUS
  <2>2. b \in Builds /\ b.by = reads + 1 /\ b.version = Built(row)
    BY <1>a, <2>1 DEF Builds, ReloadTypeOK
  <2>3. PICK t : t = [task[h] EXCEPT !.pc = "configs", !.built = b]
    OBVIOUS
  <2>4. t \in Tasks /\ t.pc = "configs" /\ t.built = b /\ t.table = task[h].table
    BY <1>b, <2>2, <2>3 DEF Tasks, Steps
  <2>5. ListProviders(h) => Goes(h, t)
    BY <2>1, <2>3 DEF ListProviders
  <2> QED
    BY <2>2, <2>4, <2>5
<1>8. ListConfigs(h) => \E t \in Tasks :
              /\ Goes(h, t) /\ t.pc = "members"
              /\ t.built = task[h].built /\ t.table = task[h].table
              /\ t.todo = {cn \in Listed : cn[1] \in Named(cn[2])}
  <2>1. PICK d, t : d = {cn \in Listed : cn[1] \in Named(cn[2])}
                    /\ t = [task[h] EXCEPT !.pc = "members", !.todo = d]
    OBVIOUS
  <2>2. d \in SUBSET Listed
    BY <2>1
  <2>3. /\ t \in Tasks /\ t.pc = "members" /\ t.built = task[h].built
        /\ t.table = task[h].table /\ t.todo = d
    BY <1>b, <2>1, <2>2 DEF Tasks, Steps
  <2>4. ListConfigs(h) => Goes(h, t)
    BY <2>1 DEF ListConfigs, Listed
  <2> QED
    BY <2>1, <2>3, <2>4
<1>9. ASSUME NEW c \in ConfigIds, NEW n \in Names, ReadMembers(h, c, n)
      PROVE  \E t \in Tasks :
              /\ Goes(h, t) /\ t.pc = "members"
              /\ t.built = task[h].built /\ t.todo = task[h].todo \ {<<c, n>>}
              /\ \A m \in Names : t.table[m] =
                   IF m = n THEN [exists |-> TRUE,
                                  entries |-> EntriesOf(task[h].built, config[c].members)]
                   ELSE task[h].table[m]
  <2>1. PICK e : e = [exists |-> TRUE, entries |-> EntriesOf(built, config[c].members)]
    OBVIOUS
  <2>2. e \in Table
    BY <2>1 DEF Table, EntriesOf, ReloadTypeOK, ConfigRecs
  <2>3. PICK tb : tb = [table EXCEPT ![n] = e]
    OBVIOUS
  <2>4. tb \in [Names -> Table] /\ \A m \in Names : tb[m] = IF m = n THEN e ELSE table[m]
    BY <1>2, <2>2, <2>3
  <2>5. PICK t : t = [task[h] EXCEPT !.todo = @ \ {<<c, n>>}, !.table[n] = e]
    OBVIOUS
  <2>6. /\ t \in Tasks /\ t.pc = pc /\ t.built = built /\ t.todo = todo \ {<<c, n>>} /\ t.table = tb
    <3>1. todo \ {<<c, n>>} \in SUBSET Listed
      BY <1>2
    <3>2. /\ t.pc = pc /\ t.built = built /\ t.todo = todo \ {<<c, n>>} /\ t.table = tb
      BY <1>1, <2>3, <2>5
    <3>3. t = [task[h] EXCEPT !.todo = todo \ {<<c, n>>}, !.table = tb]
      BY <1>1, <2>3, <2>5
    <3> QED
      BY <1>b, <2>4, <3>1, <3>2, <3>3 DEF Tasks
  <2>7. Goes(h, t) /\ pc = "members"
    BY <1>3, <1>9, <2>1, <2>5 DEF ReadMembers, At
  <2> QED
    BY <1>3, <2>1, <2>4, <2>6, <2>7, ZenonT(40)
<1>10. MembersRead(h) => \E t \in Tasks :
              /\ Goes(h, t) /\ t.pc = "models"
              /\ t.built = task[h].built /\ t.table = task[h].table
  <2>1. PICK t : t = [task[h] EXCEPT !.pc = "models"]
    OBVIOUS
  <2>2. t = T("models", built, todo, table)
    BY <1>1, <2>1 DEF T
  <2>3. MembersRead(h) => Goes(h, t)
    BY <2>1 DEF MembersRead
  <2>4. "models" \in Steps \cup {"idle"}
    BY DEF Steps
  <2> QED
    BY <1>2, <1>3, <1>4, <2>2, <2>3, <2>4
<1>11. ListModels(h) => \E t \in Tasks :
              /\ Goes(h, t) /\ t.pc = "install" /\ t.built = task[h].built
              /\ \A n \in Names :
                   t.table[n] = ModelTable(task[h].built, row, task[h].table[n], n)
  <2>1. PICK tb : tb = [n \in Names |-> ModelTable(built, row, table[n], n)]
    OBVIOUS
  <2>2. ASSUME NEW n \in Names
        PROVE  ModelTable(built, row, table[n], n) \in Table
    <3>1. table[n] \in Table
      BY <1>2
    <3>2. PICK able \in SUBSET ProviderIds :
            able = {p \in Offered[n] : row[p].version > 0 /\ Has(built, p)}
      BY ReloadAssumption
    <3>3. ModelTable(built, row, table[n], n)
            = IF table[n].exists THEN table[n] ELSE [exists |-> able # {}, entries |-> First(able)]
      BY <3>2 DEF ModelTable
    <3> QED
      BY <3>1, <3>2, <3>3 DEF Table, First
  <2>3. tb \in [Names -> Table] /\ \A n \in Names : tb[n] = ModelTable(built, row, table[n], n)
    BY <2>1, <2>2
  <2>4. PICK t : t = [task[h] EXCEPT !.pc = "install", !.table = tb]
    OBVIOUS
  <2>5. t \in Tasks /\ t.pc = "install" /\ t.built = task[h].built /\ t.table = tb
    BY <1>b, <2>3, <2>4 DEF Tasks, Steps
  <2>6. ListModels(h) => Goes(h, t)
    BY <1>3, <2>1, <2>4 DEF ListModels
  <2> QED
    BY <1>3, <2>3, <2>5, <2>6
<1>12. InstallProviders(h) => \E t \in Tasks :
              /\ Goes(h, t) /\ t.pc = "tables"
              /\ t.built = task[h].built /\ t.table = task[h].table
  <2>1. PICK t : t = [task[h] EXCEPT !.pc = "tables"]
    OBVIOUS
  <2>2. t = T("tables", built, todo, table)
    BY <1>1, <2>1 DEF T
  <2>3. InstallProviders(h) => Goes(h, t)
    BY <2>1 DEF InstallProviders
  <2>4. "tables" \in Steps \cup {"idle"}
    BY DEF Steps
  <2> QED
    BY <1>2, <1>3, <1>4, <2>2, <2>3, <2>4
<1>13. InstallTables(h) => \E t \in Tasks :
              /\ Goes(h, t) /\ t.pc = "stop"
              /\ t.built = task[h].built /\ t.table = task[h].table
  <2>1. PICK t : t = [task[h] EXCEPT !.pc = "stop"]
    OBVIOUS
  <2>2. t = T("stop", built, todo, table)
    BY <1>1, <2>1 DEF T
  <2>3. InstallTables(h) => Goes(h, t)
    BY <2>1 DEF InstallTables
  <2>4. "stop" \in Steps \cup {"idle"}
    BY DEF Steps
  <2> QED
    BY <1>2, <1>3, <1>4, <2>2, <2>3, <2>4
<1>14. StopOld(h) => \E t \in Tasks :
              /\ Goes(h, t)
              /\ t.built = loaded \/ t.built = NoneLoaded
              /\ IF NothingToWatch(loaded) THEN t.pc = "idle" /\ lock' = Unheld
                 ELSE t.pc = "start" /\ t.built = loaded /\ lock' = h
  <2>1. loaded \in Builds
    BY DEF ReloadTypeOK
  <2>2. PICK t : t = [task[h] EXCEPT !.pc = "start", !.built = loaded]
    OBVIOUS
  <2>4. t \in Tasks /\ t.pc = "start" /\ t.built = loaded
    BY <1>b, <2>1, <2>2 DEF Tasks, Steps
  <2>5. StopOld(h) => IF NothingToWatch(loaded) THEN Goes(h, Done) /\ lock' = Unheld
                      ELSE Goes(h, t) /\ lock' = h
    BY <2>2 DEF StopOld, Watches
  <2> QED
    BY <2>4, <2>5, TasksOfReloads
<1>15. StartNew(h) => \E t \in Tasks : Goes(h, t) /\ t.pc = "idle" /\ t.built = NoneLoaded
  BY TasksOfReloads DEF StartNew
<1> QED
  BY <1>6, <1>7, <1>8, <1>9, <1>10, <1>11, <1>12, <1>13, <1>14, <1>15

TasksOK(tasks, last) ==
  tasks \in [Handlers -> Tasks] /\ \A h \in Handlers : tasks[h].built.by <= last

LEMMA TasksOfOne ==
  ASSUME TasksOK(task, reads), reads \in Nat, reads' \in Nat, reads <= reads',
         NEW h \in Handlers, NEW t \in Tasks, Goes(h, t), t.built.by <= reads'
  PROVE  TasksOK(task', reads')
<1>1. ASSUME NEW g \in Handlers
      PROVE  task'[g].built.by <= reads'
  <2>1. task[g].built.by \in Nat
    BY DEF TasksOK, Tasks, Builds
  <2> QED
    BY <2>1, LocalsOfOne DEF TasksOK
<1> QED
  BY <1>1, LocalsOfOne DEF TasksOK

(* The types of what a reader's step leaves to the router and the loops.   *)
LoopsOK(ls, hd, ch, st, lk) ==
  /\ ls \in SUBSET Loops /\ hd \in Nat /\ ch \in Nat /\ st \in Nat
  /\ lk \in Handlers \cup {Unheld}
RouterOK(ld, tb, last) ==
  /\ ld \in Builds /\ tb \in [by : Nat, of : [Names -> Table]]
  /\ ld.by <= last /\ tb.by <= last

LEMMA TypesInParts ==
  ReloadTypeOK <=> /\ RowsOK(row) /\ config \in [ConfigIds -> ConfigRecs]
                   /\ TasksOK(task, reads) /\ RouterOK(loaded, tables, reads)
                   /\ reads \in Nat /\ writes \in Nat /\ faults \in Nat
                   /\ LoopsOK(loops, handle, channel, started, lock)
  BY DEF ReloadTypeOK, RowsOK, TasksOK, RouterOK, LoopsOK

LEMMA ReloadTypeInit == ReloadInit => ReloadTypeOK
<1> SUFFICES ASSUME ReloadInit PROVE ReloadTypeOK
  OBVIOUS
<1>1. RowsOK(row) /\ config \in [ConfigIds -> ConfigRecs]
  BY ReloadAssumption DEF ReloadInit, RowsOK, RowRecs, ConfigRecs
<1>2. NoneLoaded.by = 0 /\ NoTables.by = 0 /\ NoTables \in [by : Nat, of : [Names -> Table]]
  BY TasksOfReloads DEF NoneLoaded, NoTables
<1>3. TasksOK(task, reads)
  BY <1>2, TasksOfReloads DEF ReloadInit, TasksOK
<1>4. RouterOK(loaded, tables, reads)
  BY <1>2, TasksOfReloads DEF ReloadInit, RouterOK
<1>5. LoopsOK(loops, handle, channel, started, lock)
  BY DEF ReloadInit, LoopsOK, None
<1> QED
  BY <1>1, <1>3, <1>4, <1>5, TypesInParts DEF ReloadInit

LEMMA ReloadTypeStep ==
  ASSUME ReloadTypeOK, NEW h \in Handlers, Step(h)
  PROVE  ReloadTypeOK'
<1>1. /\ RowsOK(row) /\ config \in [ConfigIds -> ConfigRecs]
      /\ TasksOK(task, reads) /\ RouterOK(loaded, tables, reads)
      /\ reads \in Nat /\ writes \in Nat /\ faults \in Nat
      /\ LoopsOK(loops, handle, channel, started, lock)
  BY TypesInParts
<1>2. /\ task \in [Handlers -> Tasks] /\ task[h] \in Tasks /\ task[h].built \in Builds
      /\ task[h].built.by <= reads
  BY <1>1 DEF TasksOK, Tasks
<1>3. NoneLoaded.by = 0 /\ loaded.by <= reads
  BY <1>1 DEF NoneLoaded, RouterOK
<1>4. ReloadTypeOK' <=> /\ RowsOK(row') /\ config' \in [ConfigIds -> ConfigRecs]
                        /\ TasksOK(task', reads') /\ RouterOK(loaded', tables', reads')
                        /\ reads' \in Nat /\ writes' \in Nat /\ faults' \in Nat
                        /\ LoopsOK(loops', handle', channel', started', lock')
  BY DEF ReloadTypeOK, RowsOK, TasksOK, RouterOK, LoopsOK
<1>5. row' = row /\ config' = config /\ writes' = writes /\ faults' = faults
  BY DEF Step, Signal, ListProviders, ListConfigs, ReadMembers, MembersRead, ListModels,
         InstallProviders, InstallTables, StopOld, StartNew, database
<1>6. ASSUME Signal(h) PROVE ReloadTypeOK'
  <2>1. LoopsOK(loops', handle', channel', started', lock')
    <3>1. \A l \in loops : [l EXCEPT !.told = TRUE] \in Loops
      BY <1>1 DEF LoopsOK, Loops
    <3> QED
      BY <1>1, <1>6, <3>1 DEF LoopsOK, Signal
  <2>2. PICK t \in Tasks : Goes(h, t) /\ t.built = task[h].built
    BY <1>6, LocalsOfReader
  <2>3. reads' = reads /\ loaded' = loaded /\ tables' = tables
    BY <1>6 DEF Signal, router
  <2>4. TasksOK(task', reads')
    BY <1>1, <1>2, <2>2, <2>3, TasksOfOne
  <2> QED
    BY <1>1, <1>4, <1>5, <2>1, <2>3, <2>4
<1>7. ASSUME ListProviders(h) PROVE ReloadTypeOK'
  <2>1. /\ reads' = reads + 1 /\ loaded' = loaded /\ tables' = tables
        /\ UNCHANGED <<handle, channel, loops, started, lock>>
    BY <1>7 DEF ListProviders, router, health
  <2>2. PICK t \in Tasks : Goes(h, t) /\ t.built.by = reads + 1
    BY <1>7, LocalsOfReader
  <2>3. TasksOK(task', reads')
    BY <1>1, <2>1, <2>2, TasksOfOne
  <2>4. RouterOK(loaded', tables', reads')
    BY <1>1, <2>1 DEF RouterOK, Builds
  <2> QED
    BY <1>1, <1>4, <1>5, <2>1, <2>3, <2>4
<1>8. ASSUME ListConfigs(h) \/ (\E c \in ConfigIds, n \in Names : ReadMembers(h, c, n)) \/ MembersRead(h)
               \/ ListModels(h)
      PROVE  ReloadTypeOK'
  <2>1. UNCHANGED <<reads, loaded, tables, handle, channel, loops, started, lock>>
    BY <1>8 DEF ListConfigs, ReadMembers, MembersRead, ListModels, router, health
  <2>2. PICK t \in Tasks : Goes(h, t) /\ t.built = task[h].built
    <3>1. CASE ListConfigs(h)
      BY <3>1, LocalsOfReader
    <3>2. CASE \E c \in ConfigIds, n \in Names : ReadMembers(h, c, n)
      <4>1. PICK c \in ConfigIds, n \in Names : ReadMembers(h, c, n)
        BY <3>2
      <4>2. PICK t \in Tasks :
              /\ Goes(h, t) /\ t.pc = "members"
              /\ t.built = task[h].built /\ t.todo = task[h].todo \ {<<c, n>>}
              /\ \A m \in Names : t.table[m] =
                   IF m = n THEN [exists |-> TRUE,
                                  entries |-> EntriesOf(task[h].built, config[c].members)]
                   ELSE task[h].table[m]
        BY <4>1, LocalsOfReader
      <4> QED
        BY <4>2
    <3>3. CASE MembersRead(h)
      BY <3>3, LocalsOfReader
    <3>4. CASE ListModels(h)
      BY <3>4, LocalsOfReader
    <3> QED
      BY <1>8, <3>1, <3>2, <3>3, <3>4
  <2>3. TasksOK(task', reads')
    BY <1>1, <1>2, <2>1, <2>2, TasksOfOne
  <2> QED
    BY <1>1, <1>4, <1>5, <2>1, <2>3
<1>9. ASSUME InstallProviders(h) PROVE ReloadTypeOK'
  <2>1. /\ UNCHANGED <<reads, tables, handle, channel, loops, started, lock>>
        /\ loaded' = task[h].built
    BY <1>9 DEF InstallProviders, health
  <2>2. PICK t \in Tasks : Goes(h, t) /\ t.built = task[h].built
    BY <1>9, LocalsOfReader
  <2>3. TasksOK(task', reads')
    BY <1>1, <1>2, <2>1, <2>2, TasksOfOne
  <2>4. RouterOK(loaded', tables', reads')
    BY <1>1, <1>2, <2>1 DEF RouterOK
  <2> QED
    BY <1>1, <1>4, <1>5, <2>1, <2>3, <2>4
<1>10. ASSUME InstallTables(h) PROVE ReloadTypeOK'
  <2>1. /\ UNCHANGED <<reads, loaded, handle, channel, loops, started, lock>>
        /\ tables' = [by |-> task[h].built.by, of |-> task[h].table]
    BY <1>10 DEF InstallTables, health
  <2>2. PICK t \in Tasks : Goes(h, t) /\ t.built = task[h].built
    BY <1>10, LocalsOfReader
  <2>3. TasksOK(task', reads')
    BY <1>1, <1>2, <2>1, <2>2, TasksOfOne
  <2>4. RouterOK(loaded', tables', reads')
    <3>1. task[h].built.by \in Nat /\ task[h].table \in [Names -> Table]
      BY <1>2 DEF Tasks, Builds
    <3> QED
      BY <1>1, <1>2, <2>1, <3>1 DEF RouterOK
  <2> QED
    BY <1>1, <1>4, <1>5, <2>1, <2>3, <2>4
<1>11. ASSUME StopOld(h) PROVE ReloadTypeOK'
  <2>1. /\ UNCHANGED <<reads, loaded, tables, channel, started>>
        /\ loops' \subseteq loops /\ handle' = 0
    BY <1>11 DEF StopOld, router, Drained, None
  <2>2. PICK t \in Tasks : /\ Goes(h, t)
                           /\ t.built = loaded \/ t.built = NoneLoaded
                           /\ lock' = Unheld \/ lock' = h
    BY <1>11, LocalsOfReader
  <2>3. TasksOK(task', reads')
    BY <1>1, <1>3, <2>1, <2>2, TasksOfOne
  <2>4. LoopsOK(loops', handle', channel', started', lock')
    BY <1>1, <2>1, <2>2 DEF LoopsOK
  <2> QED
    BY <1>1, <1>4, <1>5, <2>1, <2>3, <2>4
<1>12. ASSUME StartNew(h) PROVE ReloadTypeOK'
  <2>1. /\ UNCHANGED <<reads, loaded, tables>> /\ lock' = Unheld
        /\ handle' = started + 1 /\ channel' = started + 1 /\ started' = started + 1
        /\ loops' = loops \cup {[id |-> started + 1, watches |-> task[h].built, told |-> FALSE]}
    BY <1>12 DEF StartNew, router
  <2>2. PICK t \in Tasks : Goes(h, t) /\ t.built = NoneLoaded
    BY <1>12, LocalsOfReader
  <2>3. TasksOK(task', reads')
    BY <1>1, <1>3, <2>1, <2>2, TasksOfOne
  <2>4. LoopsOK(loops', handle', channel', started', lock')
    <3>1. [id |-> started + 1, watches |-> task[h].built, told |-> FALSE] \in Loops
      BY <1>1, <1>2 DEF LoopsOK, Loops
    <3>2. started + 1 \in Nat
      BY <1>1 DEF LoopsOK
    <3> QED
      BY <1>1, <2>1, <3>1, <3>2 DEF LoopsOK
  <2> QED
    BY <1>1, <1>4, <1>5, <2>1, <2>3, <2>4
<1> QED
  BY <1>6, <1>7, <1>8, <1>9, <1>10, <1>11, <1>12 DEF Step

LEMMA ReloadTypeNext ==
  ReloadTypeOK /\ [ReloadNext]_reloading => ReloadTypeOK'
<1> SUFFICES ASSUME ReloadTypeOK, [ReloadNext]_reloading PROVE ReloadTypeOK'
  OBVIOUS
<1>1. /\ RowsOK(row) /\ config \in [ConfigIds -> ConfigRecs]
      /\ TasksOK(task, reads) /\ RouterOK(loaded, tables, reads)
      /\ reads \in Nat /\ writes \in Nat /\ faults \in Nat
      /\ LoopsOK(loops, handle, channel, started, lock)
  BY TypesInParts
<1>2. ReloadTypeOK' <=> /\ RowsOK(row') /\ config' \in [ConfigIds -> ConfigRecs]
                        /\ TasksOK(task', reads') /\ RouterOK(loaded', tables', reads')
                        /\ reads' \in Nat /\ writes' \in Nat /\ faults' \in Nat
                        /\ LoopsOK(loops', handle', channel', started', lock')
  BY DEF ReloadTypeOK, RowsOK, TasksOK, RouterOK, LoopsOK
<1>3. ASSUME NEW h \in Admins, Administers(h) PROVE ReloadTypeOK'
  <2>1. RowsOK(row') /\ config' \in [ConfigIds -> ConfigRecs] /\ Saved(h)
    BY <1>3, WritesAreSaved
  <2>2. PICK t \in Tasks : Write(h, t) /\ t.built = NoneLoaded
    BY <2>1, TasksOfReloads DEF Saved
  <2>3. /\ UNCHANGED <<loaded, tables, handle, channel, loops, started, lock, reads, faults>>
        /\ writes' = writes + 1 /\ Goes(h, t)
    BY <2>2 DEF Write, router, health
  <2>4. NoneLoaded.by = 0
    BY DEF NoneLoaded
  <2>5. TasksOK(task', reads')
    BY <1>1, <2>2, <2>3, <2>4, TasksOfOne DEF Handlers
  <2> QED
    BY <1>1, <1>2, <2>1, <2>3, <2>5
<1>4. ASSUME NEW h \in Handlers, HandlerEnds(h) PROVE ReloadTypeOK'
  <2>1. /\ UNCHANGED <<row, config, writes, loaded, tables, handle, channel, loops, started, reads>>
        /\ faults' = faults + 1 /\ Goes(h, Done) /\ lock' \in {lock, Unheld}
    BY <1>4 DEF HandlerEnds, router, health, database
  <2>2. NoneLoaded.by = 0
    BY DEF NoneLoaded
  <2>3. TasksOK(task', reads')
    BY <1>1, <2>1, <2>2, TasksOfReloads, TasksOfOne
  <2>4. LoopsOK(loops', handle', channel', started', lock')
    BY <1>1, <2>1 DEF LoopsOK
  <2> QED
    BY <1>1, <1>2, <2>1, <2>3, <2>4
<1>5. ASSUME LoopEnds PROVE ReloadTypeOK'
  <2>1. /\ UNCHANGED <<row, config, writes, task, loaded, tables, handle, channel, started, reads,
                       faults, lock>>
        /\ loops' \subseteq loops
    BY <1>5 DEF LoopEnds, router, database
  <2>2. LoopsOK(loops', handle', channel', started', lock')
    BY <1>1, <2>1 DEF LoopsOK
  <2> QED
    BY <1>1, <1>2, <2>1, <2>2
<1>6. ASSUME UNCHANGED reloading PROVE ReloadTypeOK'
  BY <1>1, <1>2, <1>6 DEF reloading, database, router, health
<1> QED
  BY <1>3, <1>4, <1>5, <1>6, ReloadTypeStep DEF ReloadNext

---------------------------------------------------------------------------
(* The handlers' writes.                                                   *)
LEMMA MovesOfOne ==
  ASSUME ReloadTypeOK, NEW h \in Handlers, NEW t \in Tasks, Goes(h, t)
  PROVE  task'[h] = t /\ \A g \in Handlers : g # h => task'[g] = task[g]
  BY LocalsOfOne DEF ReloadTypeOK

LEMMA SoundWrite ==
  ASSUME ReloadTypeOK, Sound, NEW h \in Admins, Administers(h)
  PROVE  Sound'
<1>1. RowsOK(row') /\ Saved(h) /\ h \in Handlers
  BY WritesAreSaved DEF Handlers
<1>2. PICK t \in {Done, Reloads} :
        /\ Write(h, t)
        /\ t = Done => /\ row' = row
                       /\ \E n : unloaded' = unloaded \cup {n} /\ \A m \in Names \ {n} : Stays(m)
  BY <1>1, TasksOfReloads DEF Saved
<1>3. /\ UNCHANGED <<loaded, tables, overtaken, handle, channel, loops, started, lock, reads>>
      /\ Goes(h, t) /\ task[h].pc = "idle"
  BY <1>2 DEF Write, router, health, At
<1>4. /\ t \in Tasks /\ t.pc \in {"idle", "signal"} /\ (t.pc = "idle" <=> t = Done)
      /\ t.pc = "signal" => t.table = NoTables.of
  BY TasksOfReloads
<1>5. task'[h] = t /\ \A g \in Handlers : g # h => task'[g] = task[g]
  BY <1>1, <1>3, <1>4, MovesOfOne
<1>6. TablesInv'
  BY <1>4, <1>5 DEF Sound, TablesInv, In
<1>7. CurrentInv'
  <2> SUFFICES ASSUME ~Pending' PROVE CurrentInv'
    BY DEF CurrentInv
  <2>1. t = Done /\ ~Pending
    BY <1>1, <1>3, <1>4, <1>5 DEF Pending, In
  <2>2. PICK n : unloaded' = unloaded \cup {n} /\ \A m \in Names \ {n} : Stays(m)
    BY <1>2, <2>1
  <2>3. row' = row /\ \A m \in Names \ unloaded' : m \in Names \ unloaded /\ Stays(m)
    BY <1>2, <2>1, <2>2
  <2>4. ASSUME NEW m \in Names \ unloaded'
        PROVE  /\ TableFrom(m)' = TableFrom(m) /\ Named(m)' = Named(m)
               /\ \A cs \in SUBSET Named(m) : TableOf(cs)' = TableOf(cs)
    <3>1. Stays(m)
      BY <2>3
    <3>2. \A ps : Able(ps)' = Able(ps)
      BY <2>3 DEF Able
    <3>3. ASSUME NEW cs \in SUBSET Named(m)
          PROVE  UNION {config'[c].members : c \in Last(cs)}
                   = UNION {config[c].members : c \in Last(cs)}
      <4>1. \A c \in Last(cs) : config'[c].members = config[c].members
        BY <3>1 DEF Stays, Last
      <4> QED
        BY <4>1
    <3>4. \A cs \in SUBSET Named(m) : TableOf(cs)' = TableOf(cs)
      BY <3>2, <3>3 DEF TableOf, Last
    <3>5. TableFrom(m)' = TableFrom(m)
      <4>1. Named(m)' = Named(m) /\ Named(m) \in SUBSET Named(m)
        BY <3>1 DEF Stays
      <4>2. PICK old : old = UNION {config[c].members : c \in Last(Named(m))}
        OBVIOUS
      <4>3. UNION {config'[c].members : c \in Last(Named(m)')} = old
        BY <3>3, <4>1, <4>2
      <4>4. Able(old)' = Able(old) /\ Able(Offered[m])' = Able(Offered[m])
        BY <2>3 DEF Able
      <4>5. CASE Named(m) = {}
        BY <4>1, <4>4, <4>5 DEF TableFrom
      <4>6. CASE Named(m) # {}
        <5>1. TableFrom(m) = [exists |-> TRUE, entries |-> Able(old)]
          BY <4>2, <4>6 DEF TableFrom
        <5>2. TableFrom(m)' = [exists |-> TRUE, entries |-> {p \in old : row'[p].builds}]
          BY <4>1, <4>3, <4>6 DEF TableFrom, Able, Last
        <5> QED
          BY <2>3, <5>1, <5>2 DEF Able
      <4> QED
        BY <4>5, <4>6
    <3> QED
      BY <3>1, <3>4, <3>5 DEF Stays
  <2>5. loaded.by = reads => loaded.version = Built(row)
    BY <2>1 DEF Sound, CurrentInv
  <2>6. tables.by = reads => \A m \in Names \ unloaded : tables.of[m] = TableFrom(m)
    BY <2>1 DEF Sound, CurrentInv
  <2>7. ASSUME NEW g \in Handlers, In(g, Reading)', Latest(g)'
        PROVE  /\ task'[g].built.version = Built(row')
               /\ \A m \in Names \ unloaded' : ReadInv(g, m)'
    <3>1. g # h /\ task'[g] = task[g] /\ In(g, Reading) /\ Latest(g)
      BY <1>3, <1>4, <1>5, <2>7 DEF In, Latest, Reading
    <3>2. task[g].built.version = Built(row) /\ \A m \in Names \ unloaded : ReadInv(g, m)
      BY <2>1, <3>1 DEF Sound, CurrentInv
    <3>3. ASSUME NEW m \in Names \ unloaded' PROVE ReadInv(g, m)'
      <4>1. ReadInv(g, m) /\ Left(g, m)' = Left(g, m)
        BY <2>3, <3>1, <3>2 DEF Left
      <4>2. Named(m) \ Left(g, m) \in SUBSET Named(m) /\ Named(m) \in SUBSET Named(m)
        OBVIOUS
      <4> QED
        BY <2>4, <3>1, <4>1, <4>2 DEF ReadInv, In
    <3> QED
      BY <2>3, <3>1, <3>2, <3>3
  <2> QED
    BY <1>3, <2>3, <2>4, <2>5, <2>6, <2>7 DEF CurrentInv, Built
<1>8. ReachesInv'
  <2>1. \A g \in Handlers : In(g, Reading) => task'[g] = task[g]
    BY <1>3, <1>5 DEF In, Reading
  <2> QED
    BY <1>3, <2>1 DEF Sound, ReachesInv, In, Latest, Reading
<1>9. LoopsInv'
  <2>1. \A g \in Handlers :
          In(g, {"start", "tables", "stop"}) <=> In(g, {"start", "tables", "stop"})'
    BY <1>3, <1>4, <1>5 DEF In
  <2>2. \A g \in Handlers : In(g, {"start", "tables", "stop"}) => task'[g] = task[g]
    BY <1>3, <1>5 DEF In
  <2> QED
    BY <1>3, <2>1, <2>2 DEF Sound, LoopsInv, In
<1>10. WatchedInv'
  <2>1. \A g \in Handlers : In(g, Steps \ {"signal"}) => In(g, Steps \ {"signal"})'
    BY <1>3, <1>5 DEF In, Steps
  <2> QED
    BY <1>3, <2>1 DEF Sound, WatchedInv, Watched
<1> QED
  BY <1>6, <1>7, <1>8, <1>9, <1>10 DEF Sound

---------------------------------------------------------------------------
(* The steps of a reload.                                                  *)
Queries == {"providers", "configs", "members", "models", "install", "tables"}

LEMMA QueriesLeaveLoops ==
  ASSUME ReloadTypeOK, Sound, NEW h \in Handlers, NEW t \in Tasks, Goes(h, t),
         In(h, Queries), t.pc \in Queries \cup {"stop"}, In(h, {"tables"}) => t.pc = "stop",
         UNCHANGED <<loaded, loops, handle, lock>>
  PROVE  LoopsInv' /\ WatchedInv'
<1>1. task'[h] = t /\ \A g \in Handlers : g # h => task'[g] = task[g]
  BY MovesOfOne
<1>2. WatchedInv'
  BY <1>1 DEF WatchedInv, In, Steps, Queries
<1>3. \A g \in Handlers : In(g, {"start"})' => In(g, {"start"}) /\ task'[g] = task[g]
  BY <1>1 DEF In, Queries
<1>4. \A g \in Handlers : In(g, {"tables", "stop"}) => In(g, {"tables", "stop"})'
  BY <1>1 DEF In, Queries
<1> QED
  BY <1>2, <1>3, <1>4 DEF Sound, LoopsInv

(* What the rows describe stays while they do.                             *)
TablesStay ==
  /\ \A n \in Names : TableFrom(n)' = TableFrom(n) /\ Named(n)' = Named(n)
  /\ \A cs \in SUBSET ConfigIds : TableOf(cs)' = TableOf(cs)

LEMMA SameConfigs ==
  ASSUME UNCHANGED <<row, config>>
  PROVE  TablesStay
<1>1. /\ \A n \in Names : Named(n)' = Named(n)
      /\ \A ps : Able(ps)' = Able(ps)
  BY DEF Named, Able
<1>2. \A cs : TableOf(cs)' = TableOf(cs)
  BY <1>1 DEF TableOf, Last
<1>3. \A n \in Names : TableFrom(n)' = TableFrom(n)
  BY <1>1 DEF TableFrom, Last
<1> QED
  BY <1>1, <1>2, <1>3 DEF TablesStay

LEMMA ReadersStay ==
  ASSUME TablesStay, NEW g, task'[g] = task[g], NEW n \in Names, ReadInv(g, n)
  PROVE  ReadInv(g, n)'
<1>1. Left(g, n)' = Left(g, n) /\ Named(n) \in SUBSET ConfigIds
      /\ Named(n) \ Left(g, n) \in SUBSET ConfigIds
  BY DEF Left, Named
<1> QED
  BY <1>1 DEF TablesStay, ReadInv, In

LEMMA ReaderKeeps ==
  ASSUME ReloadTypeOK, Sound, NEW h \in Handlers, NEW t \in Tasks, Goes(h, t),
         t.built = task[h].built,
         In(h, {"configs", "members", "models"}), t.pc \in {"members", "models", "install"},
         UNCHANGED <<row, config, unloaded, loaded, tables, overtaken, reads, loops, handle, lock>>,
         \A n \in Names : ReadInv(h, n) /\ task[h].built.version = Built(row) => ReadInv(h, n)'
  PROVE  Sound'
<1>1. task'[h] = t /\ \A g \in Handlers : g # h => task'[g] = task[g]
  BY MovesOfOne
<1>2. LoopsInv' /\ WatchedInv'
  BY QueriesLeaveLoops DEF In, Queries
<1>3. TablesInv'
  BY <1>1 DEF Sound, TablesInv, In
<1>4. \A g \in Handlers : /\ In(g, Reading) <=> In(g, Reading)'
                          /\ In(g, Reading \ {"tables"}) <=> In(g, Reading \ {"tables"})'
                          /\ task'[g].built = task[g].built
                          /\ Latest(g) <=> Latest(g)'
  BY <1>1 DEF In, Reading, Latest
<1>5. ReachesInv'
  BY <1>4 DEF Sound, ReachesInv
<1>6. CurrentInv'
  <2> SUFFICES ASSUME ~Pending' PROVE CurrentInv'
    BY DEF CurrentInv
  <2>1. ~Pending
    BY <1>1 DEF Pending, In
  <2>2. /\ loaded.by = reads => loaded.version = Built(row)
        /\ tables.by = reads => \A n \in Names \ unloaded : tables.of[n] = TableFrom(n)
    BY <2>1 DEF Sound, CurrentInv
  <2>3. TablesStay
    BY SameConfigs
  <2>4. ASSUME NEW g \in Handlers, In(g, Reading)', Latest(g)'
        PROVE  /\ task'[g].built.version = Built(row')
               /\ \A n \in Names \ unloaded' : ReadInv(g, n)'
    <3>1. task[g].built.version = Built(row) /\ \A n \in Names \ unloaded : ReadInv(g, n)
      BY <1>4, <2>1, <2>4 DEF Sound, CurrentInv
    <3>2. ASSUME NEW n \in Names \ unloaded' PROVE ReadInv(g, n)'
      <4>1. CASE g = h
        BY <3>1, <4>1
      <4>2. CASE g # h
        BY <1>1, <2>3, <3>1, <4>2, ReadersStay
      <4> QED
        BY <4>1, <4>2
    <3> QED
      BY <1>4, <3>1, <3>2
  <2> QED
    BY <2>2, <2>3, <2>4 DEF CurrentInv, TablesStay
<1> QED
  BY <1>2, <1>3, <1>5, <1>6 DEF Sound

LEMMA BuiltAreAble ==
  ASSUME RowsOK(row), NEW built \in Builds, built.version = Built(row)
  PROVE  /\ \A p \in ProviderIds : Has(built, p) <=> row[p].builds
         /\ \A ps \in SUBSET ProviderIds : EntriesOf(built, ps) = Able(ps)
<1>1. ASSUME NEW p \in ProviderIds PROVE Has(built, p) <=> row[p].builds
  <2>1. row[p].version \in Nat /\ row[p].builds \in BOOLEAN
    BY DEF RowsOK, RowRecs
  <2>2. row[p].builds => row[p].version # 0
    BY <2>1 DEF RowsOK
  <2>3. built.version[p] = IF row[p].builds THEN row[p].version ELSE 0
    BY DEF Built
  <2> QED
    BY <2>1, <2>2, <2>3 DEF Has
<1> QED
  BY <1>1 DEF EntriesOf, Able

LEMMA SoundQueries ==
  ASSUME ReloadTypeOK, Sound, NEW h \in Handlers,
         \/ ListConfigs(h) \/ (\E c \in ConfigIds, n \in Names : ReadMembers(h, c, n))
         \/ MembersRead(h) \/ ListModels(h)
  PROVE  Sound'
<1>1. UNCHANGED <<row, config, unloaded, loaded, tables, overtaken, reads, loops, handle, lock>>
  BY DEF ListConfigs, ReadMembers, MembersRead, ListModels, database, router, health
<1>2. TablesStay
  BY <1>1, SameConfigs
<1>3. RowsOK(row) /\ config \in [ConfigIds -> ConfigRecs] /\ task[h].built \in Builds
  BY DEF ReloadTypeOK, RowsOK, Tasks
<1>a. \A n \in Names, cs \in SUBSET ConfigIds :
        TableOf(cs)' = TableOf(cs) /\ Named(n)' = Named(n) /\ TableFrom(n)' = TableFrom(n)
  BY <1>2 DEF TablesStay
<1>b. \A n \in Names : Named(n) \in SUBSET ConfigIds
  BY DEF Named
<1>4. CASE ListConfigs(h)
  <2>1. PICK t \in Tasks : /\ Goes(h, t) /\ t.pc = "members"
                           /\ t.built = task[h].built /\ t.table = task[h].table
                           /\ t.todo = {cn \in Listed : cn[1] \in Named(cn[2])}
    BY <1>4, LocalsOfReader
  <2>2. task'[h] = t /\ In(h, {"configs"})
    BY <1>4, <2>1, MovesOfOne DEF ListConfigs, At, In
  <2>3. ASSUME NEW n \in Names, ReadInv(h, n) PROVE ReadInv(h, n)'
    <3>1. task[h].table[n] = NoTable
      BY <2>2, <2>3 DEF ReadInv
    <3>2. \A c \in ConfigIds : <<c, n>> \in t.todo <=> c \in Named(n)
      BY <2>1 DEF Listed
    <3>3. Left(h, n)' = Named(n)
      BY <1>b, <2>2, <3>2 DEF Left
    <3>4. TableOf(Named(n)' \ Left(h, n)') = NoTable /\ TableOf({}) = NoTable
      BY <1>a, <3>3 DEF TableOf
    <3>5. TableOf(Named(n) \ Left(h, n))' = NoTable
      BY <1>a, <3>3 DEF TableOf
    <3> QED
      BY <1>a, <2>1, <2>2, <3>1, <3>3, <3>5 DEF ReadInv, In
  <2> QED
    BY <1>1, <2>1, <2>2, <2>3, ReaderKeeps DEF In
<1>5. ASSUME NEW c \in ConfigIds, NEW n \in Names, ReadMembers(h, c, n) PROVE Sound'
  <2>1. PICK t \in Tasks :
          /\ Goes(h, t) /\ t.pc = "members"
          /\ t.built = task[h].built /\ t.todo = task[h].todo \ {<<c, n>>}
          /\ \A m \in Names : t.table[m] =
               IF m = n THEN [exists |-> TRUE,
                              entries |-> EntriesOf(task[h].built, config[c].members)]
               ELSE task[h].table[m]
    BY <1>5, LocalsOfReader
  <2>2. /\ task'[h] = t /\ In(h, {"members"}) /\ <<c, n>> \in task[h].todo
        /\ \A other \in task[h].todo : c <= other[1]
    BY <1>5, <2>1, MovesOfOne DEF ReadMembers, At, In
  <2>3. ASSUME NEW m \in Names, ReadInv(h, m), task[h].built.version = Built(row)
        PROVE  ReadInv(h, m)'
    <3>1. /\ Left(h, m) \subseteq Named(m)
          /\ \A d \in Named(m) \ Left(h, m), e \in Left(h, m) : d < e
          /\ task[h].table[m] = TableOf(Named(m) \ Left(h, m))
      BY <2>2, <2>3 DEF ReadInv
    <3>2. CASE m = n
      <4>1. PICK read \in SUBSET ConfigIds : read = Named(m) \ Left(h, m)
        BY <1>b
      <4>2. Left(h, m)' = Left(h, m) \ {c} /\ c \in Left(h, m)
        BY <2>1, <2>2, <3>2 DEF Left
      <4>3. c \in Named(m) /\ Named(m) \ (Left(h, m) \ {c}) = read \cup {c}
        BY <3>1, <4>1, <4>2
      <4>4. (\A d \in read : d < c) /\ (\A d \in Left(h, m) : c <= d)
        <5>1. \A d \in Left(h, m) : c <= d
          BY <2>2, <3>2 DEF Left
        <5> QED
          BY <3>1, <4>1, <4>2, <5>1
      <4>5. \A d \in read \cup {c}, e \in Left(h, m) \ {c} : d < e
        <5>1. \A e \in Left(h, m) \ {c} : c < e
          BY <4>4, ReloadAssumption DEF Left
        <5> QED
          BY <3>1, <4>1, <5>1
      <4>6. Last(read \cup {c}) = {c}
        <5>1. c \in Nat /\ \A d \in read : d \in Nat
          BY ReloadAssumption
        <5>2. ASSUME NEW d \in read PROVE d < c /\ ~(c <= d) /\ d <= c
          BY <4>4, <5>1, <5>2
        <5>3. c <= c
          BY <5>1
        <5> QED
          BY <5>2, <5>3 DEF Last
      <4>7. t.table[m] = TableOf(read \cup {c})
        <5>1. config[c].members \in SUBSET ProviderIds
          BY <1>3 DEF ConfigRecs
        <5>2. EntriesOf(task[h].built, config[c].members) = Able(config[c].members)
          BY <1>3, <2>3, <5>1, BuiltAreAble
        <5>3. UNION {config[d].members : d \in {c}} = config[c].members
          OBVIOUS
        <5> QED
          BY <2>1, <3>2, <4>6, <5>2, <5>3 DEF TableOf
      <4>8. TableOf(Named(m) \ Left(h, m))' = TableOf(read \cup {c})
        BY <1>a, <4>2, <4>3
      <4> QED
        BY <1>a, <2>1, <2>2, <3>1, <4>2, <4>3, <4>5, <4>7, <4>8 DEF ReadInv, In
    <3>3. CASE m # n
      <4>1. t.table[m] = task[h].table[m] /\ Left(h, m)' = Left(h, m)
        BY <2>1, <2>2, <3>3 DEF Left
      <4>2. TableOf(Named(m) \ Left(h, m))' = TableOf(Named(m) \ Left(h, m))
        BY <1>a, <1>b, <4>1
      <4> QED
        BY <1>a, <2>1, <2>2, <3>1, <4>1, <4>2 DEF ReadInv, In
    <3> QED
      BY <3>2, <3>3
  <2> QED
    BY <1>1, <2>1, <2>2, <2>3, ReaderKeeps DEF In
<1>6. CASE MembersRead(h)
  <2>1. PICK t \in Tasks : /\ Goes(h, t) /\ t.pc = "models"
                           /\ t.built = task[h].built /\ t.table = task[h].table
    BY <1>6, LocalsOfReader
  <2>2. task'[h] = t /\ In(h, {"members"}) /\ task[h].todo = {}
    BY <1>6, <2>1, MovesOfOne DEF MembersRead, At, In
  <2>3. ASSUME NEW n \in Names, ReadInv(h, n) PROVE ReadInv(h, n)'
    <3>1. Left(h, n) = {}
      BY <2>2 DEF Left
    <3>2. Named(n) \ Left(h, n) = Named(n)
      BY <3>1
    <3>3. task[h].table[n] = TableOf(Named(n))
      BY <2>2, <2>3, <3>2 DEF ReadInv
    <3>4. TableOf(Named(n))' = TableOf(Named(n))
      BY <1>a, <1>b
    <3> QED
      BY <2>1, <2>2, <3>3, <3>4 DEF ReadInv, In
  <2> QED
    BY <1>1, <2>1, <2>2, <2>3, ReaderKeeps DEF In
<1>7. CASE ListModels(h)
  <2>1. PICK t \in Tasks :
          /\ Goes(h, t) /\ t.pc = "install" /\ t.built = task[h].built
          /\ \A n \in Names : t.table[n] = ModelTable(task[h].built, row, task[h].table[n], n)
    BY <1>7, LocalsOfReader
  <2>2. task'[h] = t /\ In(h, {"models"})
    BY <1>7, <2>1, MovesOfOne DEF ListModels, At, In
  <2>3. ASSUME NEW n \in Names, ReadInv(h, n), task[h].built.version = Built(row)
        PROVE  ReadInv(h, n)'
    <3>1. task[h].table[n] = TableOf(Named(n))
      BY <2>2, <2>3 DEF ReadInv
    <3>2. ModelTable(task[h].built, row, task[h].table[n], n) = TableFrom(n)
      <4>1. CASE Named(n) # {}
        BY <3>1, <4>1 DEF ModelTable, TableOf, TableFrom
      <4>2. CASE Named(n) = {}
        <5>1. \A p \in ProviderIds : Has(task[h].built, p) <=> row[p].builds
          BY <1>3, <2>3, BuiltAreAble
        <5>2. \A p \in ProviderIds : row[p].builds => row[p].version > 0
          BY <1>3 DEF RowsOK, RowRecs
        <5>3. {p \in Offered[n] : row[p].version > 0 /\ Has(task[h].built, p)} = Able(Offered[n])
          BY <5>1, <5>2, ReloadAssumption DEF Able
        <5>4. ~task[h].table[n].exists
          BY <3>1, <4>2 DEF TableOf, NoTable
        <5> QED
          BY <4>2, <5>3, <5>4 DEF ModelTable, TableFrom, First
      <4> QED
        BY <4>1, <4>2
    <3> QED
      BY <1>a, <1>b, <2>1, <2>2, <3>2 DEF ReadInv, In
  <2> QED
    BY <1>1, <2>1, <2>2, <2>3, ReaderKeeps DEF In
<1> QED
  BY <1>4, <1>5, <1>6, <1>7

LEMMA SoundSignal ==
  ASSUME ReloadTypeOK, Sound, NEW h \in Handlers, Signal(h)
  PROVE  Sound'
<1>1. PICK t \in Tasks : /\ Goes(h, t) /\ t.pc = "providers"
                         /\ t.built = task[h].built /\ t.table = task[h].table
  BY LocalsOfReader
<1>2. /\ task'[h] = t /\ \A g \in Handlers : g # h => task'[g] = task[g]
      /\ In(h, {"signal"})
  BY <1>1, MovesOfOne DEF Signal, At, In
<1>3. UNCHANGED <<loaded, tables, overtaken, handle, lock, reads>>
  BY DEF Signal, router
<1>4. TablesInv'
  BY <1>1, <1>2 DEF Sound, TablesInv, In
<1>5. CurrentInv'
  BY <1>1, <1>2 DEF CurrentInv, Pending, In
<1>6. ReachesInv'
  <2>1. \A g \in Handlers : In(g, Reading) => task'[g] = task[g]
    BY <1>2 DEF In, Reading
  <2> QED
    BY <1>3, <2>1 DEF Sound, ReachesInv, In, Latest, Reading
<1>7. LoopsInv'
  <2>1. \A g \in Handlers : In(g, {"start", "tables", "stop"}) => task'[g] = task[g]
    BY <1>2 DEF In
  <2>2. \A g \in Handlers : In(g, {"start"})' => In(g, {"start"})
    BY <1>1, <1>2 DEF In
  <2>3. ASSUME NEW l \in loops'
        PROVE  \E k \in loops : l.id = k.id /\ (k.told => l.told)
    <3>1. PICK k \in loops : l = IF k.id = channel THEN [k EXCEPT !.told = TRUE] ELSE k
      BY <2>3 DEF Signal
    <3>2. k \in Loops
      BY DEF ReloadTypeOK
    <3> QED
      BY <3>1, <3>2 DEF Loops
  <2>4. (\A l \in loops : l.told) => \A l \in loops' : l.told
    <3>1. SUFFICES ASSUME \A l \in loops : l.told, NEW l \in loops' PROVE l.told
      OBVIOUS
    <3> QED
      BY <2>3, <3>1
  <2>5. \A l \in loops' : ~l.told => l.id = handle'
    BY <1>3, <2>3 DEF Sound, LoopsInv
  <2> QED
    BY <1>3, <2>1, <2>2, <2>4, <2>5 DEF Sound, LoopsInv, In
<1>8. WatchedInv'
  BY <1>1, <1>2 DEF WatchedInv, In, Steps
<1> QED
  BY <1>4, <1>5, <1>6, <1>7, <1>8 DEF Sound

LEMMA SoundListProviders ==
  ASSUME ReloadTypeOK, Sound, NEW h \in Handlers, ListProviders(h)
  PROVE  Sound'
<1>1. PICK t \in Tasks : /\ Goes(h, t) /\ t.pc = "configs" /\ t.table = task[h].table
                         /\ t.built.by = reads + 1 /\ t.built.version = Built(row)
  BY LocalsOfReader
<1>2. /\ task'[h] = t /\ \A g \in Handlers : g # h => task'[g] = task[g]
      /\ In(h, {"providers"})
  BY <1>1, MovesOfOne DEF ListProviders, At, In
<1>3. /\ UNCHANGED <<row, config, unloaded, loaded, tables, overtaken, handle, loops, lock>>
      /\ reads' = reads + 1
  BY DEF ListProviders, router, health, database
<1>4. LoopsInv' /\ WatchedInv'
  BY <1>1, <1>2, <1>3, QueriesLeaveLoops DEF In, Queries
<1>5. TablesInv' /\ t.table = NoTables.of
  BY <1>1, <1>2 DEF Sound, TablesInv, In
<1>6. /\ reads \in Nat /\ loaded.by \in Nat /\ tables.by \in Nat
      /\ loaded.by <= reads /\ tables.by <= reads
      /\ \A g \in Handlers : task[g].built.by \in Nat /\ task[g].built.by <= reads
  BY DEF ReloadTypeOK, Builds, Tasks
<1>7. loaded'.by # reads' /\ tables'.by # reads' /\ \A g \in Handlers : Latest(g)' => g = h
  BY <1>2, <1>3, <1>6 DEF Latest
<1>8. CurrentInv'
  <2>1. \A n \in Names : ReadInv(h, n)'
    BY <1>1, <1>2, <1>5 DEF ReadInv, In, NoTables
  <2>2. task'[h].built.version = Built(row)'
    BY <1>1, <1>2, <1>3 DEF Built
  <2> QED
    BY <1>7, <2>1, <2>2 DEF CurrentInv
<1>9. ReachesInv'
  <2>1. Latest(h)' /\ In(h, Reading \ {"tables"})' /\ In(h, Reading)'
    BY <1>1, <1>2, <1>3 DEF Latest, In, Reading
  <2> QED
    BY <2>1 DEF ReachesInv
<1> QED
  BY <1>4, <1>5, <1>8, <1>9 DEF Sound

LEMMA SoundInstallProviders ==
  ASSUME ReloadTypeOK, Sound, NEW h \in Handlers, InstallProviders(h)
  PROVE  Sound'
<1>1. PICK t \in Tasks : /\ Goes(h, t) /\ t.pc = "tables"
                         /\ t.built = task[h].built /\ t.table = task[h].table
  BY LocalsOfReader
<1>2. /\ task'[h] = t /\ \A g \in Handlers : g # h => task'[g] = task[g]
      /\ In(h, {"install"})
  BY <1>1, MovesOfOne DEF InstallProviders, At, In
<1>3. /\ UNCHANGED <<row, config, unloaded, tables, handle, loops, lock, reads>>
      /\ loaded' = task[h].built
      /\ overtaken' = Overtaken(h, "providers", loaded.by)
  BY DEF InstallProviders, health, database
<1>4. TablesInv'
  BY <1>1, <1>2 DEF Sound, TablesInv, In
<1>5. \A g \in Handlers : /\ In(g, Reading) <=> In(g, Reading)'
                          /\ task'[g].built = task[g].built /\ task'[g].table = task[g].table
                          /\ Latest(g) <=> Latest(g)'
  BY <1>1, <1>2, <1>3 DEF In, Reading, Latest
<1>6. CurrentInv'
  <2> SUFFICES ASSUME ~Pending' PROVE CurrentInv'
    BY DEF CurrentInv
  <2>1. ~Pending
    BY <1>1, <1>2 DEF Pending, In
  <2>2. /\ tables.by = reads => \A n \in Names \ unloaded : tables.of[n] = TableFrom(n)
        /\ \A g \in Handlers : In(g, Reading) /\ Latest(g) =>
             /\ task[g].built.version = Built(row)
             /\ \A n \in Names \ unloaded : ReadInv(g, n)
    BY <2>1 DEF Sound, CurrentInv
  <2>3. TablesStay
    BY <1>3, SameConfigs
  <2>4. loaded'.by = reads' => loaded'.version = Built(row)'
    BY <1>2, <1>3, <2>2 DEF In, Reading, Latest, Built
  <2>5. ASSUME NEW g \in Handlers, In(g, Reading)', Latest(g)'
        PROVE  /\ task'[g].built.version = Built(row)'
               /\ \A n \in Names \ unloaded' : ReadInv(g, n)'
    <3>1. task[g].built.version = Built(row) /\ \A n \in Names \ unloaded : ReadInv(g, n)
      BY <1>5, <2>2, <2>5
    <3>2. ASSUME NEW n \in Names \ unloaded' PROVE ReadInv(g, n)'
      <4>1. CASE g = h
        BY <1>1, <1>2, <1>3, <2>3, <3>1, <4>1 DEF ReadInv, In, TablesStay
      <4>2. CASE g # h
        BY <1>2, <1>3, <2>3, <3>1, <4>2, ReadersStay
      <4> QED
        BY <4>1, <4>2
    <3> QED
      BY <1>3, <1>5, <3>1, <3>2 DEF Built
  <2> QED
    BY <1>3, <2>2, <2>3, <2>4, <2>5 DEF CurrentInv, TablesStay
<1>7. ReachesInv'
  <2>1. /\ task[h].built.by \in Nat /\ task[h].built.by <= reads /\ reads \in Nat
        /\ loaded.by \in Nat
    BY DEF ReloadTypeOK, Tasks, Builds
  <2>2. ASSUME "providers" \notin overtaken'
        PROVE  loaded'.by = reads' \/ \E g \in Handlers : In(g, Reading \ {"tables"})' /\ Latest(g)'
    <3>1. CASE task[h].built.by = reads
      BY <1>3, <3>1
    <3>2. CASE task[h].built.by # reads
      <4>1. "providers" \notin overtaken /\ ~(task[h].built.by < loaded.by)
        BY <1>3, <2>2, <3>2 DEF Overtaken
      <4>2. loaded.by # reads
        BY <2>1, <3>2, <4>1
      <4>3. PICK g \in Handlers : In(g, Reading \ {"tables"}) /\ Latest(g)
        BY <4>1, <4>2 DEF Sound, ReachesInv
      <4>4. g # h
        BY <3>2, <4>3 DEF Latest
      <4> QED
        BY <1>2, <1>5, <4>3, <4>4 DEF In
    <3> QED
      BY <3>1, <3>2
  <2>3. ASSUME "tables" \notin overtaken'
        PROVE  tables'.by = reads' \/ \E g \in Handlers : In(g, Reading)' /\ Latest(g)'
    <3>1. "tables" \notin overtaken
      BY <1>3, <2>3 DEF Overtaken
    <3> QED
      BY <1>3, <1>5, <3>1 DEF Sound, ReachesInv
  <2> QED
    BY <2>2, <2>3 DEF ReachesInv
<1>8. LoopsInv'
  <2>1. In(h, {"tables", "stop"})'
    BY <1>1, <1>2 DEF In
  <2>2. \A g \in Handlers : In(g, {"start"})' => In(g, {"start"}) /\ task'[g] = task[g]
    BY <1>1, <1>2 DEF In
  <2> QED
    BY <1>3, <2>1, <2>2 DEF Sound, LoopsInv
<1>9. WatchedInv'
  BY <1>1, <1>2 DEF WatchedInv, In, Steps
<1> QED
  BY <1>4, <1>6, <1>7, <1>8, <1>9 DEF Sound

LEMMA SoundInstallTables ==
  ASSUME ReloadTypeOK, Sound, NEW h \in Handlers, InstallTables(h)
  PROVE  Sound'
<1>1. PICK t \in Tasks : /\ Goes(h, t) /\ t.pc = "stop"
                         /\ t.built = task[h].built /\ t.table = task[h].table
  BY LocalsOfReader
<1>2. /\ task'[h] = t /\ \A g \in Handlers : g # h => task'[g] = task[g]
      /\ In(h, {"tables"})
  BY <1>1, MovesOfOne DEF InstallTables, At, In
<1>3. /\ UNCHANGED <<row, config, unloaded, loaded, handle, loops, lock, reads>>
      /\ tables'.by = task[h].built.by /\ tables'.of = task[h].table
      /\ overtaken' = Overtaken(h, "tables", tables.by)
  BY DEF InstallTables, health, database
<1>4. TablesInv'
  BY <1>1, <1>2 DEF Sound, TablesInv, In
<1>5. LoopsInv' /\ WatchedInv'
  BY <1>1, <1>2, <1>3, QueriesLeaveLoops DEF In, Queries
<1>6. CurrentInv'
  <2> SUFFICES ASSUME ~Pending' PROVE CurrentInv'
    BY DEF CurrentInv
  <2>1. ~Pending
    BY <1>1, <1>2 DEF Pending, In
  <2>2. /\ loaded.by = reads => loaded.version = Built(row)
        /\ \A g \in Handlers : In(g, Reading) /\ Latest(g) =>
             /\ task[g].built.version = Built(row)
             /\ \A n \in Names \ unloaded : ReadInv(g, n)
    BY <2>1 DEF Sound, CurrentInv
  <2>3. TablesStay
    BY <1>3, SameConfigs
  <2>4. tables'.by = reads' => \A n \in Names \ unloaded' : tables'.of[n] = TableFrom(n)'
    <3>1. SUFFICES ASSUME tables'.by = reads', NEW n \in Names \ unloaded'
                   PROVE  tables'.of[n] = TableFrom(n)'
      OBVIOUS
    <3>2. ReadInv(h, n)
      BY <1>2, <1>3, <2>2, <3>1 DEF In, Reading, Latest
    <3>3. task[h].table[n] = TableFrom(n)
      BY <1>2, <3>2 DEF ReadInv, In
    <3> QED
      BY <1>3, <2>3, <3>3 DEF TablesStay
  <2>5. ASSUME NEW g \in Handlers, In(g, Reading)', Latest(g)'
        PROVE  /\ task'[g].built.version = Built(row)'
               /\ \A n \in Names \ unloaded' : ReadInv(g, n)'
    <3>1. g # h /\ task'[g] = task[g]
      BY <1>1, <1>2, <2>5 DEF In, Reading
    <3>2. task[g].built.version = Built(row) /\ \A n \in Names \ unloaded : ReadInv(g, n)
      BY <1>3, <2>2, <2>5, <3>1 DEF In, Latest
    <3>3. ASSUME NEW n \in Names \ unloaded' PROVE ReadInv(g, n)'
      BY <1>3, <2>3, <3>1, <3>2, ReadersStay
    <3> QED
      BY <1>3, <3>1, <3>2, <3>3 DEF Built
  <2>6. loaded'.by = reads' => loaded'.version = Built(row)'
    BY <1>3, <2>2 DEF Built
  <2> QED
    BY <2>4, <2>5, <2>6 DEF CurrentInv
<1>7. ReachesInv'
  <2>1. /\ task[h].built.by \in Nat /\ task[h].built.by <= reads /\ reads \in Nat
        /\ tables.by \in Nat
    BY DEF ReloadTypeOK, Tasks, Builds
  <2>2. \A g \in Handlers : In(g, Reading) /\ g # h => In(g, Reading)' /\ (Latest(g) => Latest(g)')
    BY <1>2, <1>3 DEF In, Latest
  <2>3. ASSUME "tables" \notin overtaken'
        PROVE  tables'.by = reads' \/ \E g \in Handlers : In(g, Reading)' /\ Latest(g)'
    <3>1. CASE task[h].built.by = reads
      BY <1>3, <3>1
    <3>2. CASE task[h].built.by # reads
      <4>1. "tables" \notin overtaken /\ ~(task[h].built.by < tables.by)
        BY <1>3, <2>3, <3>2 DEF Overtaken
      <4>2. tables.by # reads
        BY <2>1, <3>2, <4>1
      <4>3. PICK g \in Handlers : In(g, Reading) /\ Latest(g)
        BY <4>1, <4>2 DEF Sound, ReachesInv
      <4>4. g # h
        BY <3>2, <4>3 DEF Latest
      <4> QED
        BY <2>2, <4>3, <4>4
    <3> QED
      BY <3>1, <3>2
  <2>4. ASSUME "providers" \notin overtaken'
        PROVE  loaded'.by = reads' \/ \E g \in Handlers : In(g, Reading \ {"tables"})' /\ Latest(g)'
    <3>1. "providers" \notin overtaken
      BY <1>3, <2>4 DEF Overtaken
    <3>2. CASE loaded.by = reads
      BY <1>3, <3>2
    <3>3. CASE loaded.by # reads
      <4>1. PICK g \in Handlers : In(g, Reading \ {"tables"}) /\ Latest(g)
        BY <3>1, <3>3 DEF Sound, ReachesInv
      <4>2. g # h
        BY <1>2, <4>1 DEF In
      <4> QED
        BY <1>2, <1>3, <4>1, <4>2 DEF In, Latest
    <3> QED
      BY <3>2, <3>3
  <2> QED
    BY <2>3, <2>4 DEF ReachesInv
<1> QED
  BY <1>4, <1>5, <1>6, <1>7 DEF Sound

(* What routes is left alone by those who only start and stop loops.       *)
LEMMA LoopsLeaveRouter ==
  ASSUME ReloadTypeOK, Sound, NEW h \in Handlers,
         UNCHANGED <<row, config, unloaded, loaded, tables, overtaken, reads>>,
         \/ UNCHANGED task
         \/ \E t \in Tasks : /\ Goes(h, t) /\ In(h, {"stop", "start"})
                             /\ t.pc \in {"start", "idle"}
  PROVE  TablesInv' /\ CurrentInv' /\ ReachesInv'
<1>1. \A g \in Handlers :
        /\ In(g, {"signal", "providers"} \cup Reading) =>
             In(g, {"signal", "providers"} \cup Reading)' /\ task'[g] = task[g]
        /\ In(g, {"signal", "providers"} \cup Reading)' => task'[g] = task[g]
  <2>1. CASE UNCHANGED task
    BY <2>1 DEF In
  <2>2. CASE ~(UNCHANGED task)
    <3>1. PICK t \in Tasks : Goes(h, t) /\ In(h, {"stop", "start"}) /\ t.pc \in {"start", "idle"}
      BY <2>2
    <3>2. task'[h] = t /\ \A g \in Handlers : g # h => task'[g] = task[g]
      BY <3>1, MovesOfOne
    <3> QED
      BY <3>1, <3>2 DEF In, Reading
  <2> QED
    BY <2>1, <2>2
<1>2. TablesInv'
  BY <1>1 DEF Sound, TablesInv, In, Reading
<1>3. ReachesInv'
  BY <1>1 DEF Sound, ReachesInv, In, Latest, Reading
<1>4. CurrentInv'
  <2> SUFFICES ASSUME ~Pending' PROVE CurrentInv'
    BY DEF CurrentInv
  <2>1. ~Pending
    BY <1>1 DEF Pending, In
  <2>2. /\ loaded.by = reads => loaded.version = Built(row)
        /\ tables.by = reads => \A n \in Names \ unloaded : tables.of[n] = TableFrom(n)
        /\ \A g \in Handlers : In(g, Reading) /\ Latest(g) =>
             /\ task[g].built.version = Built(row)
             /\ \A n \in Names \ unloaded : ReadInv(g, n)
    BY <2>1 DEF Sound, CurrentInv
  <2>3. TablesStay
    BY SameConfigs
  <2>4. ASSUME NEW g \in Handlers, In(g, Reading)', Latest(g)'
        PROVE  /\ task'[g].built.version = Built(row)'
               /\ \A n \in Names \ unloaded' : ReadInv(g, n)'
    <3>1. task'[g] = task[g]
      BY <1>1, <2>4 DEF In, Reading
    <3>2. task[g].built.version = Built(row) /\ \A n \in Names \ unloaded : ReadInv(g, n)
      BY <2>2, <2>4, <3>1 DEF In, Latest
    <3>3. ASSUME NEW n \in Names \ unloaded' PROVE ReadInv(g, n)'
      BY <2>3, <3>1, <3>2, ReadersStay
    <3> QED
      BY <3>1, <3>2, <3>3 DEF Built
  <2> QED
    BY <2>2, <2>3, <2>4 DEF CurrentInv, Built, TablesStay
<1> QED
  BY <1>2, <1>3, <1>4

LEMMA SoundStopOld ==
  ASSUME ReloadTypeOK, Sound, NEW h \in Handlers, StopOld(h)
  PROVE  Sound'
<1>1. PICK t \in Tasks :
        /\ Goes(h, t)
        /\ IF NothingToWatch(loaded) THEN t.pc = "idle" /\ lock' = Unheld
           ELSE t.pc = "start" /\ t.built = loaded /\ lock' = h
  BY LocalsOfReader
<1>2. /\ task'[h] = t /\ \A g \in Handlers : g # h => task'[g] = task[g]
      /\ In(h, {"stop"}) /\ lock = Unheld
  BY <1>1, MovesOfOne DEF StopOld, At, In
<1>3. /\ UNCHANGED <<row, config, unloaded, loaded, tables, overtaken, reads>>
      /\ loops' = Drained
  BY DEF StopOld, database, router
<1>4. TablesInv' /\ CurrentInv' /\ ReachesInv'
  BY <1>1, <1>2, <1>3, LoopsLeaveRouter DEF In
<1>5. \A l \in loops' : l.told
  <2>1. \A l \in loops : l.told \in BOOLEAN /\ (~l.told => l.id = handle)
    BY DEF ReloadTypeOK, Loops, Sound, LoopsInv
  <2> QED
    BY <1>3, <2>1 DEF Drained
<1>6. \A g \in Handlers : ~In(g, {"start"})
  BY <1>2, ReloadAssumption DEF Sound, LoopsInv, Handlers
<1>7. LoopsInv'
  <2>1. ASSUME NEW g \in Handlers, In(g, {"start"})'
        PROVE  g = h /\ lock' = g /\ ~NothingToWatch(task'[g].built) /\ task'[g].built = loaded'
    BY <1>1, <1>2, <1>3, <1>6, <2>1 DEF In
  <2>2. \A g \in Handlers : In(g, {"start"})' =>
          lock' = g /\ ~NothingToWatch(task[g].built)' /\ task'[g].built = loaded'
    BY <2>1 DEF NothingToWatch
  <2> QED
    BY <1>5, <2>2 DEF LoopsInv
<1>8. WatchedInv'
  <2>1. CASE NothingToWatch(loaded)
    <3>1. Watched' = {}
      BY <1>5 DEF Watched
    <3>2. NothingToWatch(loaded)'
      BY <1>3, <2>1 DEF NothingToWatch
    <3> QED
      BY <3>1, <3>2 DEF WatchedInv
  <2>2. CASE ~NothingToWatch(loaded)
    BY <1>1, <1>2, <2>2 DEF WatchedInv, In, Steps
  <2> QED
    BY <2>1, <2>2
<1> QED
  BY <1>4, <1>7, <1>8 DEF Sound

LEMMA SoundStartNew ==
  ASSUME ReloadTypeOK, Sound, NEW h \in Handlers, StartNew(h)
  PROVE  Sound'
<1>1. PICK t \in Tasks : Goes(h, t) /\ t.pc = "idle"
  BY LocalsOfReader
<1>2. /\ task'[h] = t /\ \A g \in Handlers : g # h => task'[g] = task[g]
      /\ In(h, {"start"})
  BY <1>1, MovesOfOne DEF StartNew, At, In
<1>3. PICK new : new = [id |-> started + 1, watches |-> task[h].built, told |-> FALSE]
  OBVIOUS
<1>4. /\ UNCHANGED <<row, config, unloaded, loaded, tables, overtaken, reads>>
      /\ loops' = loops \cup {new} /\ handle' = started + 1
  BY <1>3 DEF StartNew, database, router
<1>5. TablesInv' /\ CurrentInv' /\ ReachesInv'
  BY <1>1, <1>2, <1>4, LoopsLeaveRouter DEF In
<1>6. /\ lock = h /\ \A l \in loops : l.told
      /\ ~NothingToWatch(task[h].built)
      /\ task[h].built = loaded \/ \E g \in Handlers : In(g, {"tables", "stop"})
  BY <1>2 DEF Sound, LoopsInv
<1>7. new.id = handle' /\ new.watches = task[h].built /\ ~new.told
  BY <1>3, <1>4
<1>8. LoopsInv'
  <2>1. \A g \in Handlers : ~In(g, {"start"})'
    <3>1. ASSUME NEW g \in Handlers, In(g, {"start"}) PROVE g = h
      BY <1>6, <3>1 DEF Sound, LoopsInv
    <3> QED
      BY <1>1, <1>2, <3>1 DEF In
  <2> QED
    BY <1>4, <1>6, <1>7, <2>1 DEF LoopsInv
<1>9. WatchedInv'
  <2>1. CASE task[h].built = loaded
    <3>1. Watched' = {loaded'}
      BY <1>4, <1>6, <1>7, <2>1 DEF Watched
    <3>2. ~NothingToWatch(loaded)'
      BY <1>4, <1>6, <2>1 DEF NothingToWatch
    <3> QED
      BY <3>1, <3>2 DEF WatchedInv
  <2>2. CASE \E g \in Handlers : In(g, {"tables", "stop"})
    BY <1>2, <2>2 DEF WatchedInv, In, Steps
  <2> QED
    BY <1>6, <2>1, <2>2
<1> QED
  BY <1>5, <1>8, <1>9 DEF Sound

LEMMA SoundLoopEnds ==
  ASSUME ReloadTypeOK, Sound, LoopEnds
  PROVE  Sound'
<1>1. PICK l \in loops : l.told /\ loops' = loops \ {l}
  BY DEF LoopEnds
<1>2. UNCHANGED <<row, config, unloaded, task, loaded, tables, overtaken, reads, lock, handle>>
  BY DEF LoopEnds, database, router
<1>3. TablesInv' /\ CurrentInv' /\ ReachesInv'
  <2>1. Boot \in Handlers
    BY DEF Handlers
  <2> QED
    BY <1>2, <2>1, LoopsLeaveRouter
<1>4. LoopsInv'
  BY <1>1, <1>2 DEF Sound, LoopsInv, In, NothingToWatch
<1>5. WatchedInv'
  <2>1. Watched' = Watched
    BY <1>1 DEF Watched
  <2> QED
    BY <1>2, <2>1 DEF Sound, WatchedInv, In, NothingToWatch
<1> QED
  BY <1>3, <1>4, <1>5 DEF Sound

LEMMA SoundInit ==
  ASSUME ReloadInit
  PROVE  Sound
<1>1. /\ \A h \in Handlers : task[h] = IF h = Boot THEN Reloads ELSE Done
      /\ Boot \in Handlers /\ Boot \notin Admins
  BY ReloadAssumption DEF ReloadInit, Handlers
<1>2. NoneLoaded.by = 0 /\ NoTables.by = 0 /\ \A p \in ProviderIds : NoneLoaded.version[p] = 0
  BY DEF NoneLoaded, NoTables
<1>3. TablesInv
  BY <1>1, TasksOfReloads DEF TablesInv, In
<1>4. CurrentInv
  BY <1>1, TasksOfReloads DEF CurrentInv, Pending, In
<1>5. ReachesInv
  BY <1>2 DEF ReloadInit, ReachesInv
<1>6. LoopsInv
  BY <1>1, TasksOfReloads DEF ReloadInit, LoopsInv, In
<1>7. WatchedInv
  BY <1>2 DEF ReloadInit, WatchedInv, Watched, NothingToWatch
<1> QED
  BY <1>3, <1>4, <1>5, <1>6, <1>7 DEF Sound

LEMMA ReloadInvInit == ReloadInit => ReloadInv
  BY ReloadTypeInit, SoundInit DEF ReloadInv

LEMMA ReloadInvNext ==
  ReloadInv /\ [ReloadNext]_reloading => ReloadInv'
<1> SUFFICES ASSUME ReloadInv, [ReloadNext]_reloading PROVE ReloadInv'
  OBVIOUS
<1>1. ReloadTypeOK /\ ReloadTypeOK' /\ (faults = 0 => Sound) /\ faults \in Nat
  BY ReloadTypeNext DEF ReloadInv, ReloadTypeOK
<1> SUFFICES ASSUME faults' = 0 PROVE Sound'
  BY <1>1 DEF ReloadInv
<1>2. CASE \E h \in Admins : Administers(h)
  <2>1. PICK h \in Admins : Administers(h)
    BY <1>2
  <2>2. faults' = faults
    BY <1>1, <2>1, WritesAreSaved DEF Saved, Write
  <2> QED
    BY <1>1, <2>1, <2>2, SoundWrite
<1>3. ASSUME NEW h \in Handlers, Step(h) PROVE Sound'
  <2>1. faults' = faults
    BY <1>3 DEF Step, Signal, ListProviders, ListConfigs, ReadMembers, MembersRead, ListModels,
                InstallProviders, InstallTables, StopOld, StartNew
  <2> QED
    BY <1>1, <1>3, <2>1, SoundSignal, SoundListProviders, SoundQueries, SoundInstallProviders,
       SoundInstallTables, SoundStopOld, SoundStartNew DEF Step
<1>4. ASSUME NEW h \in Handlers, HandlerEnds(h) PROVE Sound'
  BY <1>1, <1>4 DEF HandlerEnds
<1>5. CASE LoopEnds
  BY <1>1, <1>5, SoundLoopEnds DEF LoopEnds
<1>6. CASE UNCHANGED reloading
  <2>1. /\ UNCHANGED <<row, config, unloaded, task, loaded, tables, overtaken, reads, lock,
                       handle, loops, faults>>
        /\ Boot \in Handlers
    BY <1>6 DEF reloading, database, router, health, Handlers
  <2>2. TablesInv' /\ CurrentInv' /\ ReachesInv'
    BY <1>1, <2>1, LoopsLeaveRouter
  <2> QED
    BY <1>1, <2>1, <2>2 DEF Sound, LoopsInv, WatchedInv, Watched, In, NothingToWatch
<1> QED
  BY <1>2, <1>3, <1>4, <1>5, <1>6 DEF ReloadNext

LEMMA ReloadInvariance == ReloadSpec => []ReloadInv
  BY ReloadInvInit, ReloadInvNext, PTL DEF ReloadSpec

(* Once every handler has returned, providers and tables are what the rows *)
(* of the database describe, each but where an older reload overtook the   *)
(* latest, whatever writes came between the queries of a reload, for any   *)
(* numbers of administrators, providers, configs and names, names that     *)
(* several configs have included.                                          *)
THEOREM ReloadsCatchUp == ReloadSpec => []QuietIsCurrent
<1>1. ReloadInv => QuietIsCurrent
  <2> SUFFICES ASSUME ReloadInv, Quiet, faults = 0
               PROVE  /\ "providers" \notin overtaken =>
                           \A p \in ProviderIds : loaded.version[p] =
                             IF p \in Able(ProviderIds) THEN row[p].version ELSE 0
                      /\ "tables" \notin overtaken =>
                           \A n \in Names \ unloaded : tables.of[n] = TableFrom(n)
    BY DEF QuietIsCurrent
  <2>1. Sound
    BY DEF ReloadInv
  <2>2. \A h \in Handlers : task[h].pc = "idle"
    BY DEF Quiet, At
  <2>3. /\ ~Pending
        /\ "providers" \notin overtaken => loaded.by = reads
        /\ "tables" \notin overtaken => tables.by = reads
    BY <2>1, <2>2 DEF Sound, ReachesInv, Pending, In, Reading
  <2>4. /\ loaded.by = reads => loaded.version = Built(row)
        /\ tables.by = reads => \A n \in Names \ unloaded : tables.of[n] = TableFrom(n)
    BY <2>1, <2>3 DEF Sound, CurrentInv
  <2> QED
    BY <2>3, <2>4 DEF Built, Able
<1> QED
  BY <1>1, ReloadInvariance, PTL

(* Once every handler has returned, one loop runs that was not told to     *)
(* stop, and it watches the providers that are loaded: the lock of the     *)
(* handles is enough, although Signal tells a loop before it is taken.     *)
THEOREM OneLoopWatches == ReloadSpec => []LoadedAreWatched
<1>1. ReloadInv => LoadedAreWatched
  BY DEF ReloadInv, Sound, WatchedInv, Watched, LoadedAreWatched, Quiet, At, In, Steps
<1> QED
  BY <1>1, ReloadInvariance, PTL

(* The variables of the reloads keep their types: what is loaded was read  *)
(* by a reload, and no row without a version builds a provider.            *)
THEOREM ReloadTypeCorrect == ReloadSpec => []ReloadTypeOK
  BY ReloadInvariance, PTL DEF ReloadInv
==============================================================================
