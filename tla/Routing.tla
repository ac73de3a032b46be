------------------------------ MODULE Routing ------------------------------
(***************************************************************************)
(* Which providers a request is sent to, and in which order:               *)
(* Router::collect_session_candidates (router/engine.rs), and the session  *)
(* pins of router/sticky.rs.  What routing_snapshot answers is Health's    *)
(* business: here it may be anything.  The loop that then serves the       *)
(* request is Failover's: here it fails providers and writes the pin that  *)
(* the next choice reads.                                                  *)
(***************************************************************************)
EXTENDS Integers, Sequences, FiniteSets

CONSTANTS
  Providers,
  Requests,
  Sessions,     \* session keys
  Entries,      \* RoutingTable.entries of the one model: their providers, where one
                \* may be listed several times, with other model overrides
  Weight,       \* Weight[m]: the weight of the m-th entry
  Loads,        \* requests in flight a provider may have
  Remaining,    \* time_until_retry a provider may have, 0 included
  IdleTTL,      \* IDLE_TTL
  MaxSessions,  \* MAX_SESSIONS
  MaxRequests,  \* bound on requests
  MaxTime       \* bound on the clock

ASSUME RoutingAssumption ==
  /\ Entries \in Seq(Providers) \ {<< >>}
  /\ Weight \in [1..Len(Entries) -> Int]
  /\ Loads \subseteq Nat /\ Remaining \subseteq Nat
  /\ IdleTTL \in Nat /\ MaxSessions \in Nat \ {0}
  /\ MaxRequests \in Nat /\ MaxTime \in Nat

VARIABLES
  now,    \* the clock of Instant::now
  turn,   \* rr_counter
  pins,   \* StickySessions.pins: a function whose domain are its keys
  req,    \* req[r]: the locals of a request
  begun   \* requests so far

vars == <<now, turn, pins, req, begun>>

Nobody == "nobody"
NoSession == "no session"
Strategies == {"RoundRobin", "Priority"}
States == {"healthy", "degraded", "unhealthy"}
Places == 1..Len(Entries)
Routed == {Entries[m] : m \in Places}
Idle == [pc |-> "idle"]

Init ==
  /\ now = 0
  /\ turn = 0
  /\ pins = << >>
  /\ req = [r \in Requests |-> Idle]
  /\ begun = 0

---------------------------------------------------------------------------
(* Orders, of the entries: an entry is the place it has in the table.      *)

(* The elements of set in a strict total order, given by its pairs.        *)
Arrange(set, before) ==
  [n \in 1..Cardinality(set) |->
     CHOOSE x \in set : Cardinality({y \in set : <<y, x>> \in before}) = n - 1]

IndexIn(order, m) == CHOOSE n \in 1..Len(order) : order[n] = m

(* A stable sort of some elements of order: by precedes, then as they are. *)
Stably(order, set, precedes) ==
  {xy \in set \X set :
     \/ xy \in precedes
     \/ <<xy[2], xy[1]>> \notin precedes /\ IndexIn(order, xy[1]) < IndexIn(order, xy[2])}
StableSort(order, set, precedes) == Arrange(set, Stably(order, set, precedes))

RotateLeft(order, k) ==
  [n \in 1..Len(order) |-> order[((n - 1 + k) % Len(order)) + 1]]

InTable == [m \in Places |-> m]
Heavier == {mn \in Places \X Places : Weight[mn[1]] > Weight[mn[2]]}
priority_order == StableSort(InTable, Places, Heavier)

(* The virtual slots of weighted_rr_order: one per unit of weight, unless  *)
(* all weigh the same.  A slot <<m, k>> is of the m-th entry.              *)
Share(m) == IF Weight[m] > 1 THEN Weight[m] ELSE 1
AllEqual == \A m, n \in Places : Share(m) = Share(n)
SlotsOf(m) == IF AllEqual THEN 1 ELSE Share(m)
Slots == UNION {{m} \X (1..SlotsOf(m)) : m \in Places}
InTurn ==
  {ab \in Slots \X Slots :
     \/ ab[1][1] < ab[2][1]
     \/ ab[1][1] = ab[2][1] /\ ab[1][2] < ab[2][2]}

weighted_rr_order(slot) == RotateLeft(InTable, Arrange(Slots, InTurn)[slot + 1][1] - 1)

---------------------------------------------------------------------------
(* collect_session_candidates.                                             *)

(* The order of the table's strategy (a reload may have changed it), and   *)
(* everyone's health under one lock.                                       *)
Snapshot(r, strategy, session, health, wait) ==
  /\ req[r] = Idle /\ begun < MaxRequests
  /\ begun' = begun + 1
  /\ turn' = IF strategy = "RoundRobin" THEN (turn + 1) % Cardinality(Slots) ELSE turn
  /\ req' = [req EXCEPT ![r] =
       [pc |-> "choosing", strategy |-> strategy, session |-> session,
        view |-> [order |-> IF strategy = "RoundRobin" THEN weighted_rr_order(turn)
                            ELSE priority_order,
                  health |-> health, wait |-> wait]]]
  /\ UNCHANGED <<now, pins>>

Cooling(view) == {m \in Places : view.wait[Entries[m]] > 0}
Ready(view, state) == {m \in Places \ Cooling(view) : view.health[Entries[m]] = state}

(* provider_for, which also drops a pin that was idle for too long.        *)
Fresh(s) == s \in DOMAIN pins /\ now - pins[s].last_used < IdleTTL
provider_for(s) == IF Fresh(s) THEN pins[s].provider ELSE Nobody
Without(s) == [t \in DOMAIN pins \ {s} |-> pins[t]]

(* The first entry of the session's provider that is in the list, if any.  *)
PlacesIn(order, p) == {n \in 1..Len(order) : Entries[order[n]] = p}
position(order, p) == CHOOSE n \in PlacesIn(order, p) : \A k \in PlacesIn(order, p) : n <= k
MoveFirst(order, k) ==
  [n \in 1..Len(order) |-> IF n = 1 THEN order[k] ELSE IF n <= k THEN order[n - 1] ELSE order[n]]
pinned_left_last(pinned, order) ==
  SelectSeq(order, LAMBDA m : Entries[m] # pinned) \o SelectSeq(order, LAMBDA m : Entries[m] = pinned)
move_pinned_first(pinned, order) ==
  IF PlacesIn(order, pinned) # {} THEN MoveFirst(order, position(order, pinned)) ELSE order

(* Healthy providers by load or priority, or else degraded ones; or else   *)
(* those in a cooldown, soonest first; or else all that is left.  The load *)
(* is read for each entry anew.                                            *)
LessLoaded(strategy, load) ==
  {mn \in Places \X Places :
     strategy = "RoundRobin" /\ load[mn[1]] * Share(mn[2]) < load[mn[2]] * Share(mn[1])}
Selected(r, load) ==
  LET view == req[r].view
  IN  IF Ready(view, "healthy") # {}
      THEN StableSort(view.order, Ready(view, "healthy"), LessLoaded(req[r].strategy, load))
      ELSE StableSort(view.order, Ready(view, "degraded"), {})

Sooner(view) ==
  {mn \in Places \X Places : view.wait[Entries[mn[1]]] < view.wait[Entries[mn[2]]]}
Fallback(view) ==
  IF Cooling(view) # {}
  THEN StableSort(view.order, Cooling(view), Sooner(view))
  ELSE StableSort(view.order, Ready(view, "unhealthy"), {})

Reads(r) == req[r].strategy = "RoundRobin" /\ req[r].session # NoSession
PinnedOf(r) == IF Reads(r) THEN provider_for(req[r].session) ELSE Nobody

CandidatesAndFallback(r, load) ==
  move_pinned_first(PinnedOf(r), Selected(r, load)) \o Fallback(req[r].view)
Candidates(r, load) ==
  LET selected == move_pinned_first(PinnedOf(r), Selected(r, load))
  IN  IF selected = << >> THEN Fallback(req[r].view) ELSE selected

(* How far a provider is from what a request wants.                        *)
Rank(view, p) ==
  IF view.wait[p] > 0 THEN 2
  ELSE IF view.health[p] = "healthy" THEN 0
  ELSE IF view.health[p] = "degraded" THEN 1 ELSE 3
PassedOver(view) ==
  {p \in Routed : Rank(view, p) > 1 \/ \E q \in Routed : Rank(view, q) < Rank(view, p)}

(* excused remembers, for the properties, whom a pin may leave: those it   *)
(* was not on, those passed over for their health and those that failed.   *)
Choose(r, load) ==
  /\ req[r].pc = "choosing"
  /\ req' = [req EXCEPT ![r] =
       [pc |-> "serving", session |-> req[r].session, todo |-> Candidates(r, load),
        excused |-> (Routed \ {PinnedOf(r)}) \cup PassedOver(req[r].view)]]
  /\ pins' = IF Reads(r) /\ ~Fresh(req[r].session) THEN Without(req[r].session) ELSE pins
  /\ UNCHANGED <<now, turn, begun>>

---------------------------------------------------------------------------
(* The request is served.                                                  *)

Asked(r) == Entries[Head(req[r].todo)]

(* It fails, or is skipped for a modality that the request needs.          *)
ProviderFails(r) ==
  /\ req[r].pc = "serving" /\ req[r].todo # << >>
  /\ req' = [req EXCEPT ![r].todo = Tail(@), ![r].excused = @ \cup {Asked(r)}]
  /\ UNCHANGED <<now, turn, pins, begun>>

(* StickySessions::pin makes room first: of the idle, else of the oldest.  *)
FreshOnly == {s \in DOMAIN pins : Fresh(s)}
MadeRoom(s, left) ==
  IF Cardinality(DOMAIN pins) < MaxSessions \/ s \in DOMAIN pins THEN left = DOMAIN pins
  ELSE IF Cardinality(FreshOnly) < MaxSessions THEN left = FreshOnly
  ELSE \E oldest \in FreshOnly :
         /\ \A t \in FreshOnly : pins[oldest].last_used <= pins[t].last_used
         /\ left = FreshOnly \ {oldest}

Pinning(s, p) ==
  \E left \in SUBSET DOMAIN pins :
    /\ MadeRoom(s, left)
    /\ pins' = [t \in left \cup {s} |->
                  IF t = s THEN [provider |-> p, last_used |-> now] ELSE pins[t]]

ProviderServes(r) ==
  /\ req[r].pc = "serving" /\ req[r].todo # << >>
  /\ IF req[r].session = NoSession THEN UNCHANGED pins
     ELSE Pinning(req[r].session, Asked(r))
  /\ req' = [req EXCEPT ![r] = Idle]
  /\ UNCHANGED <<now, turn, begun>>

(* A stream pins its provider at the first chunk; a completion that proves *)
(* empty sends it to the next one all the same.                            *)
StreamsEmpty(r) ==
  /\ req[r].pc = "serving" /\ req[r].todo # << >>
  /\ req[r].session # NoSession
  /\ Pinning(req[r].session, Asked(r))
  /\ req' = [req EXCEPT ![r].todo = Tail(@), ![r].excused = @ \cup {Asked(r)}]
  /\ UNCHANGED <<now, turn, begun>>

(* No candidate is left, or the loop stops before the last one.            *)
GivesUp(r) ==
  /\ req[r].pc = "serving"
  /\ req' = [req EXCEPT ![r] = Idle]
  /\ UNCHANGED <<now, turn, pins, begun>>

TimePasses ==
  /\ now < MaxTime
  /\ now' = now + 1
  /\ UNCHANGED <<turn, pins, req, begun>>

Request(r) ==
  \/ \E strategy \in Strategies, session \in Sessions \cup {NoSession},
        health \in [Routed -> States], wait \in [Routed -> Remaining] :
       Snapshot(r, strategy, session, health, wait)
  \/ \E load \in [Places -> Loads] : Choose(r, load)
  \/ ProviderFails(r)
  \/ ProviderServes(r)
  \/ StreamsEmpty(r)
  \/ GivesUp(r)

Next == (\E r \in Requests : Request(r)) \/ TimePasses

Spec == Init /\ [][Next]_vars

---------------------------------------------------------------------------
(* Somebody is asked, whatever their health; and a provider in a cooldown, *)
(* or one that is not healthy, only by a request that found nothing        *)
(* better, whatever the strategy, the load and the session's pin say.      *)
NoWorseThanNeeded ==
  [][\A r \in Requests : req[r].pc = "choosing" /\ req'[r].pc = "serving" =>
       /\ req'[r].todo # << >>
       /\ \A n \in 1..Len(req'[r].todo), p \in Routed :
            Rank(req[r].view, Entries[req'[r].todo[n]]) <= Rank(req[r].view, p)]_vars

(* A session leaves the provider it is pinned to for a reason: the request *)
(* that moves the pin did not find it pinned there (another request moved  *)
(* it since, or the table does not follow pins), had passed it over for    *)
(* its health, or saw it fail.                                             *)
PinMovesForCause ==
  [][\A s \in DOMAIN pins \cap DOMAIN pins' :
       \/ pins'[s].provider = pins[s].provider
       \/ \E r \in Requests : /\ req[r].pc = "serving" /\ req[r].session = s
                              /\ req'[r] # req[r]
                              /\ pins[s].provider \in req[r].excused]_vars
=============================================================================
