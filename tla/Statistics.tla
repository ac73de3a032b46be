----------------------------- MODULE Statistics -----------------------------
(***************************************************************************)
(* What an administrator sees of the traffic (metrics.rs, api/ws.rs,       *)
(* api/health.rs, db/metrics_history.rs): every event of a request goes to *)
(* the counters, to the live feed and into a bounded deque, the outcome of *)
(* a health check (engine.rs) into the deque alone.  The deque is          *)
(* summarised on demand, and every few minutes into a history that is kept *)
(* in memory and in the database.  What the router reads of the same       *)
(* events is the module Health.                                            *)
(***************************************************************************)
EXTENDS Integers, Sequences, FiniteSetsExt

CONSTANTS
  Sources,        \* tasks that emit events
  Viewers,        \* administrators at the live feed
  Hosts, Named,   \* providers and models of the requests' events
  Unnamed,        \* the empty model, which health checks record
  Kinds,          \* the kinds of events that occur, of AllKinds
  Values,         \* the measurements they carry
  Capacity,       \* of the broadcast channel
  MaxEvents,      \* max_events of the deque
  MaxSnapshots,   \* max_history_snapshots
  Recent,         \* the 50 events a page shows
  HistoryAge,     \* the 24 hours a snapshot is kept
  MaxEmitted, MaxDate, MaxFaults \* bounds: events, clock, crashes and failed queries

Measures == {"ttft", "output_tps", "input_tps", "latency"}
Outcomes == {"success", "failure"}
AllKinds == Measures \cup Outcomes \cup {"load"}
Percentiled == Measures \ {"latency"}

ASSUME StatisticsAssumption ==
  /\ Kinds \subseteq AllKinds /\ Values \subseteq Nat
  /\ {Capacity, MaxEvents, MaxSnapshots, Recent} \subseteq Nat \ {0}
  /\ {HistoryAge, MaxEmitted, MaxDate, MaxFaults} \subseteq Nat

VARIABLES
  sending,    \* sending[s]: the event s emits, and where it still has to go
  totals,     \* total_requests, total_successes, total_failures
  sent,       \* number of events sent to the channel
  deque,      \* MetricsStore::events
  checks,     \* checks[k]: health checks of this process that ended so (history variable)
  viewer,     \* viewer[v]: where v's receiver stands, what v was sent and told
  page,       \* a GET /metrics: what it has read so far
  date,       \* the clock
  stored,     \* rows of metrics_history
  history,    \* MetricsStore::history
  snapper,    \* the history task: what it does, with which snapshot, and whether it has
              \* the history of earlier runs
  taken,      \* every snapshot so far, and whether its row was written (history variable)
  emitted, faults

live == <<sending, totals, sent, deque, checks, viewer, page, emitted>>
past == <<date, stored, history, snapper, taken, faults>>
statistics == <<live, past>>

Idle == [left |-> << >>]
Away == [on |-> FALSE]
NoPage == [at |-> "none"]
NoSnapshot == [at |-> 0, groups |-> {}]
Starting == [does |-> "load", snapshot |-> NoSnapshot, loaded |-> FALSE]
Fresh == [requests |-> 0, success |-> 0, failure |-> 0]
Unchecked == [success |-> 0, failure |-> 0]

StatisticsInit ==
  /\ sending = [s \in Sources |-> Idle]
  /\ totals = Fresh /\ sent = 0 /\ deque = << >> /\ checks = Unchecked
  /\ viewer = [v \in Viewers |-> Away] /\ page = NoPage
  /\ date = 1 /\ stored = {} /\ history = << >> /\ snapper = Starting
  /\ taken = {} /\ emitted = 0 /\ faults = 0

---------------------------------------------------------------------------
(* emit: an event is counted, sent to the feed and recorded, in that order *)
(* and with other tasks in between.  A load event is for the feed alone.   *)

CountedLast(kind) ==
  IF kind \in Outcomes THEN <<"send", "record", "total", "outcome">> ELSE <<"send", "record">>
Steps(kind) ==
  IF kind = "load" THEN <<"send">>
  ELSE IF kind \in Outcomes THEN <<"total", "outcome", "send", "record">>
  ELSE <<"send", "record">>

LastOf(q, n) == SubSeq(q, IF Len(q) > n THEN Len(q) - n + 1 ELSE 1, Len(q))

Emit(s, event) ==
  /\ sending[s] = Idle /\ emitted < MaxEmitted
  /\ sending' = [sending EXCEPT ![s] = [left |-> Steps(event.kind), event |-> event]]
  /\ emitted' = emitted + 1
  /\ UNCHANGED <<totals, sent, deque, checks, viewer, page, past>>

Emits(s) ==
  LET event == sending[s].event
      step == Head(sending[s].left)
  IN  /\ sending[s] # Idle
      /\ sending' = [sending EXCEPT
           ![s] = IF Len(@.left) = 1 THEN Idle ELSE [left |-> Tail(@.left), event |-> event]]
      /\ totals' = CASE step = "total" -> [totals EXCEPT !.requests = @ + 1]
                     [] step = "outcome" -> [totals EXCEPT ![event.kind] = @ + 1]
                     [] OTHER -> totals
      /\ sent' = IF step = "send" THEN sent + 1 ELSE sent
      /\ deque' = IF step = "record" THEN LastOf(Append(deque, event), MaxEvents) ELSE deque
      /\ UNCHANGED <<checks, viewer, page, emitted, past>>

(* record: a health check ends, and its outcome, under no model's name, is *)
(* neither counted nor sent.                                               *)
Check(event) ==
  /\ emitted < MaxEmitted /\ emitted' = emitted + 1
  /\ deque' = LastOf(Append(deque, event), MaxEvents)
  /\ checks' = [checks EXCEPT ![event.kind] = @ + 1]
  /\ UNCHANGED <<sending, totals, sent, viewer, page, past>>

---------------------------------------------------------------------------
(* The live feed.  The channel keeps the last Capacity events; a receiver  *)
(* that stands before the oldest of them learns how many it missed.        *)

Oldest == IF sent > Capacity THEN sent - Capacity + 1 ELSE 1

Watch(v) ==
  /\ ~viewer[v].on
  /\ viewer' = [viewer EXCEPT
       ![v] = [on |-> TRUE, since |-> sent, next |-> sent + 1, got |-> 0, told |-> 0]]

LagsUntold(r, n) == [r EXCEPT !.next = @ + n]
Lagged(r, n) == [r EXCEPT !.next = @ + n, !.told = @ + n]

Receives(v) ==
  LET r == viewer[v]
  IN  /\ r.on /\ r.next <= sent
      /\ viewer' = [viewer EXCEPT
           ![v] = IF r.next < Oldest THEN Lagged(r, Oldest - r.next)
                  ELSE [r EXCEPT !.next = @ + 1, !.got = @ + 1]]

Leaves(v) == viewer[v].on /\ viewer' = [viewer EXCEPT ![v] = Away]

Feed(v) ==
  /\ Watch(v) \/ Receives(v) \/ Leaves(v)
  /\ UNCHANGED <<sending, totals, sent, deque, checks, page, emitted, past>>

---------------------------------------------------------------------------
(* Summaries of events of the deque, given by their places in it.  A set    *)
(* with no member says None.                                               *)

get_events_for(hosts, models) ==
  {i \in DOMAIN deque : deque[i].host \in hosts /\ deque[i].model \in models}

(* percentile: the value at the rounded index of the sorted values, for p  *)
(* in hundredths.                                                          *)
Of(places, kind) == {i \in places : deque[i].kind = kind}
NotAfter(i, j) ==
  deque[i].value < deque[j].value \/ (deque[i].value = deque[j].value /\ i <= j)
percentile(places, kind, p) ==
  LET index == (2 * p * (Cardinality(Of(places, kind)) - 1) + 100) \div 200
      rank(j) == Cardinality({i \in Of(places, kind) : NotAfter(i, j)})
  IN  {deque[j].value : j \in {j \in Of(places, kind) : rank(j) = index + 1}}

(* Averages and rates are kept as fractions.                               *)
avg_latency(places) ==
  LET n == Cardinality(Of(places, "latency"))
  IN  IF n = 0 THEN {}
      ELSE {<<MapThenSumSet(LAMBDA i : deque[i].value, Of(places, "latency")), n>>}

Successes(places) == Cardinality(Of(places, "success"))
Ended(places) == Successes(places) + Cardinality(Of(places, "failure"))
success_rate(places) == IF Ended(places) = 0 THEN {} ELSE {<<Successes(places), Ended(places)>>}

compute_metrics_summary(places) ==
  [p90 |-> [m \in Percentiled |-> percentile(places, m, 90)],
   avg |-> avg_latency(places), rate |-> success_rate(places)]

Models == Named \cup {Unnamed}
get_provider_summary(host) == compute_metrics_summary(get_events_for({host}, Models))

---------------------------------------------------------------------------
(* get_metrics reads the summary of each provider, then the last events,   *)
(* then the counters.                                                      *)

GetMetrics ==
  /\ CASE page.at = "none" ->
            \E h \in Hosts :
              page' = [at |-> "events", host |-> h, summary |-> get_provider_summary(h)]
       [] page.at = "events" ->
            page' = [at |-> "totals", host |-> page.host, summary |-> page.summary,
                     recent |-> LastOf(deque, Recent)]
       [] page.at = "totals" ->
            page' = [at |-> "shown", host |-> page.host, summary |-> page.summary,
                     recent |-> page.recent, totals |-> totals]
       [] OTHER -> page' = NoPage
  /\ UNCHANGED <<sending, totals, sent, deque, checks, viewer, emitted, past>>

---------------------------------------------------------------------------
(* The history: a snapshot is computed, its row written and old rows       *)
(* pruned, and pushed on the history in memory.                            *)

Group(host, model) ==
  LET places == get_events_for({host}, {model})
  IN  [host |-> host, model |-> model, outcomes |-> Ended(places),
       p50 |-> [m \in Percentiled |-> percentile(places, m, 50)],
       summary |-> compute_metrics_summary(places)]

take_snapshot ==
  /\ snapper.does = "wait" /\ \A t \in taken : t.at < date
  /\ snapper' = [snapper EXCEPT !.does = "save", !.snapshot =
       [at |-> date, groups |-> {g \in {Group(h, m) : h \in Hosts, m \in Models} : g.outcomes > 0}]]
  /\ taken' = taken \cup {[at |-> date, saved |-> FALSE]}
  /\ UNCHANGED <<live, date, stored, history, faults>>

Fails == faults < MaxFaults /\ faults' = faults + 1
Works == UNCHANGED faults

save_metrics_snapshot ==
  LET s == snapper.snapshot
  IN  /\ snapper.does = "save"
      /\ snapper' = [snapper EXCEPT !.does = "prune"]
      /\ \/ /\ Works
            /\ stored' = {r \in stored : r.at # s.at} \cup {s}
            /\ taken' = {IF t.at = s.at THEN [t EXCEPT !.saved = TRUE] ELSE t : t \in taken}
         \/ Fails /\ UNCHANGED <<stored, taken>>
      /\ UNCHANGED <<live, date, history>>

(* The n-th newest of the rows, and those that stay when all older than it *)
(* or than the cutoff are deleted.                                         *)
IsNewest(rows, r, n) == Cardinality({q \in rows : q.at >= r.at}) = n
Cutoff(at) == IF at > HistoryAge THEN at - HistoryAge ELSE 0
KeptStrictly(rows, cutoff) ==
  {r \in rows : r.at >= cutoff /\ ~\E q \in rows : IsNewest(rows, q, MaxSnapshots) /\ r.at <= q.at}
Kept(rows, cutoff) ==
  {r \in rows : r.at >= cutoff /\ ~\E q \in rows : IsNewest(rows, q, MaxSnapshots) /\ r.at < q.at}

prune_metrics_snapshots ==
  /\ snapper.does = "prune"
  /\ snapper' = [snapper EXCEPT !.does = "push"]
  /\ \/ Works /\ stored' = Kept(stored, Cutoff(snapper.snapshot.at))
     \/ Fails /\ UNCHANGED stored
  /\ UNCHANGED <<live, date, history, taken>>

push_snapshot ==
  /\ snapper.does = "push"
  /\ history' = LastOf(Append(history, snapper.snapshot), MaxSnapshots)
  /\ snapper' = [snapper EXCEPT !.does = "wait"]
  /\ UNCHANGED <<live, date, stored, taken, faults>>

(* load_history_from_db: the newest rows, oldest first and without those   *)
(* that are too old.                                                       *)
recent_metrics_snapshots ==
  {r \in stored : \E n \in 1..MaxSnapshots : IsNewest(stored, r, n)}
InOrder(rows) ==
  [n \in 1..Cardinality(rows) |->
     CHOOSE r \in rows : Cardinality({q \in rows : q.at < r.at}) = n - 1]

load_history_from_db ==
  /\ snapper.does = "load"
  /\ \/ /\ Works
        /\ history' = InOrder({r \in recent_metrics_snapshots : r.at >= Cutoff(date)})
        /\ snapper' = [snapper EXCEPT !.does = "wait", !.loaded = TRUE]
        /\ stored' = Kept(stored, Cutoff(date))
     \/ /\ Fails
        /\ snapper' = [snapper EXCEPT !.does = "wait"]
        /\ UNCHANGED <<history, stored>>
  /\ UNCHANGED <<live, date, taken>>

Wait ==
  /\ date < MaxDate /\ date' = date + 1
  /\ UNCHANGED <<live, stored, history, snapper, taken, faults>>

(* The process stops, and starts with what the database holds.             *)
Restart ==
  /\ Fails
  /\ sending' = [s \in Sources |-> Idle]
  /\ totals' = Fresh /\ sent' = 0 /\ deque' = << >> /\ checks' = Unchecked
  /\ viewer' = [v \in Viewers |-> Away] /\ page' = NoPage
  /\ history' = << >> /\ snapper' = Starting
  /\ UNCHANGED <<emitted, date, stored, taken>>

Events == [host : Hosts, model : Named, kind : Kinds, value : Values]
CheckEvents == [host : Hosts, model : {Unnamed}, kind : Outcomes, value : Values]

LiveNext ==
  \/ \E e \in CheckEvents : Check(e)
  \/ \E s \in Sources : Emits(s) \/ \E e \in Events : Emit(s, e)
  \/ \E v \in Viewers : Feed(v)
  \/ GetMetrics

PastNext ==
  \/ load_history_from_db \/ take_snapshot \/ save_metrics_snapshot
  \/ prune_metrics_snapshots \/ push_snapshot
  \/ Wait

StatisticsSpec == StatisticsInit /\ [][LiveNext \/ PastNext \/ Restart]_statistics

---------------------------------------------------------------------------
(* A viewer misses no event of the feed without being told of it: what it  *)
(* was sent and what it was told it missed add up to all that was sent to  *)
(* the channel since it came (ws.rs; the outcomes of health checks are not *)
(* sent).                                                                  *)
FeedMissesAreTold ==
  \A v \in Viewers :
    viewer[v].on => viewer[v].since + viewer[v].got + viewer[v].told = viewer[v].next - 1

(* A page never shows more outcomes than it counts and than health checks  *)
(* had, and none of a named model that it does not count: an event of a    *)
(* request is counted before it is recorded, and the counters are read     *)
(* after the events (emit in metrics.rs, get_metrics in health.rs).        *)
Shown(kinds, models) ==
  Cardinality({i \in DOMAIN page.recent :
                 page.recent[i].kind \in kinds /\ page.recent[i].model \in models})
PageAddsUp ==
  page.at = "shown" =>
    LET checked == checks.success + checks.failure
    IN  /\ \A rate \in page.summary.rate :
             /\ rate[1] <= page.totals.success + checks.success
             /\ rate[2] <= page.totals.requests + checked
        /\ Shown(Outcomes, Models \ {Unnamed}) <= page.totals.requests
        /\ Shown(Outcomes, Models) <= page.totals.requests + checked

(* The graphs survive a restart: a snapshot whose row was written is in    *)
(* the history, in its place, until it is too old or pushed out by newer   *)
(* ones.                                                                   *)
HistorySurvives ==
  snapper.loaded =>
    /\ \A t \in taken :
         /\ t.saved /\ t.at >= Cutoff(date)
         /\ Cardinality({u \in taken : u.at > t.at}) < MaxSnapshots
         => (\E i \in DOMAIN history : history[i].at = t.at)
              \/ (snapper.does # "wait" /\ snapper.snapshot.at = t.at)
    /\ \A i, j \in DOMAIN history : i < j => history[i].at < history[j].at

=============================================================================
