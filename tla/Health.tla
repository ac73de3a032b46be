------------------------------- MODULE Health -------------------------------
(***************************************************************************)
(* What the router knows of its providers: the rolling aggregates of       *)
(* metrics_agg.rs, fed by MetricsEmitter::emit (metrics.rs).  An emitter   *)
(* stamps its event and then takes the lock to apply it, so events of two  *)
(* emitters may be applied out of their order.                             *)
(*                                                                         *)
(* The VecDeque of failures is an append-only log and the index of its     *)
(* front: push_back appends, pop_front moves the front.  So the samples    *)
(* that prune forgot are still there to be compared with.                  *)
(***************************************************************************)
EXTENDS Integers, Sequences, FiniteSets

CONSTANTS
  Providers,
  Emitters,       \* tasks that emit events: requests and health checks
  Window,         \* WINDOW_MS
  Retention,      \* PRUNE_MS
  BaseBackoff,    \* BASE_BACKOFF_MS
  MaxBackoff,     \* MAX_BACKOFF_MS
  DefaultWait,    \* RATE_LIMIT_DEFAULT_MS
  DegradedFrom,   \* 2, the failures that make a provider degraded
  UnhealthyFrom,  \* 5, those that make it unhealthy
  Waits,          \* retry_after_ms an upstream may ask for
  Resets,         \* resets_at an exhausted quota may report
  MaxFailures,    \* bound on the failures of a provider
  MaxReports,     \* bound on balance and quota events
  MaxTime         \* bound on the clock

ASSUME HealthAssumption ==
  /\ Window \in Nat /\ Retention \in Nat /\ Window <= Retention
  /\ BaseBackoff \in Nat \ {0} /\ MaxBackoff \in Nat \ {0} /\ DefaultWait \in Nat
  /\ DegradedFrom \in Nat \ {0} /\ UnhealthyFrom \in Nat /\ DegradedFrom <= UnhealthyFrom
  /\ Waits \subseteq Nat /\ Resets \subseteq Nat
  /\ MaxFailures \in Nat /\ MaxReports \in Nat /\ MaxTime \in Nat

VARIABLES
  now,      \* the wall clock
  log,      \* log[p]: the failures applied, in the order they were
  front,    \* front[p]: where ProviderAgg.failures begins in log[p]
  empty,    \* empty[p]: last_balance: when it was seen at or below zero
  quota,    \* quota[p]: last_quota: resets of the blocking windows, and when
  emitting, \* emitting[e]: the event e has stamped and not applied
  reports   \* balance and quota events so far

vars == <<now, log, front, empty, quota, emitting, reports>>

(* A failure is a rate limit that asks for a wait, as those of requests    *)
(* do; one without, as the health check's record_failure drops it; or      *)
(* another error.  A negative number is an Option's None.                  *)
Unsaid == -1
Other == -2
Asked == Waits \cup {Unsaid, Other}
NoReset == -1
Never == -1
Nothing == [kind |-> "none"]

Sample == [at : 0..MaxTime, asked : Asked]
Failures == [kind : {"failure"}, of : Providers, at : 0..MaxTime, asked : Asked]
Balances == [kind : {"balance"}, of : Providers, at : 0..MaxTime, empty : BOOLEAN]
Quotas == [kind : {"quota"}, of : Providers, at : 0..MaxTime,
           resets : SUBSET (Resets \cup {NoReset})]

TypeOK ==
  /\ now \in 0..MaxTime
  /\ log \in [Providers -> Seq(Sample)]
  /\ front \in [Providers -> Nat \ {0}]
  /\ \A p \in Providers : front[p] <= Len(log[p]) + 1
  /\ empty \in [Providers -> (0..MaxTime) \cup {Never}]
  /\ quota \in [Providers -> [resets : SUBSET (Resets \cup {NoReset}),
                              at : (0..MaxTime) \cup {Never}]]
  /\ emitting \in [Emitters -> {Nothing} \cup Failures \cup Balances \cup Quotas]
  /\ reports \in 0..MaxReports

Init ==
  /\ now = 0
  /\ log = [p \in Providers |-> << >>]
  /\ front = [p \in Providers |-> 1]
  /\ empty = [p \in Providers |-> Never]
  /\ quota = [p \in Providers |-> [resets |-> {}, at |-> Never]]
  /\ emitting = [e \in Emitters |-> Nothing]
  /\ reports = 0

---------------------------------------------------------------------------
(* Reads of an aggregate at the current time.                              *)

Least(m, n) == IF m <= n THEN m ELSE n
Most(m, n) == IF m >= n THEN m ELSE n

window_start == Most(0, now - Window)

(* The failures in the window, as positions of the log: of those kept, and *)
(* of all that ever happened.                                              *)
InAll(p, from) == from..Len(log[p])
InWindow(p, from) == {n \in from..Len(log[p]) : log[p][n].at >= window_start}

failure_count(p) == Cardinality(InWindow(p, front[p]))

exponential_backoff(count) == Least(MaxBackoff, BaseBackoff * 2 ^ Least(count - 1, 10))

(* latest_failure: max_by_key keeps the last of equal maxima.              *)
IsLatest(p, n, from) ==
  /\ n \in InWindow(p, from)
  /\ \A m \in InWindow(p, from) :
       log[p][m].at < log[p][n].at \/ (log[p][m].at = log[p][n].at /\ m <= n)

BackoffOf(failure, count) ==
  IF failure.asked = Other THEN exponential_backoff(count)
  ELSE IF failure.asked = Unsaid THEN DefaultWait ELSE failure.asked

failure_remaining(p) ==
  IF failure_count(p) = 0 THEN 0
  ELSE LET last == log[p][CHOOSE n \in InWindow(p, front[p]) : IsLatest(p, n, front[p])]
       IN  Most(0, last.at + BackoffOf(last, failure_count(p)) - now)

balance_issue(p) == empty[p] # Never /\ empty[p] >= window_start

(* quota_reset: the resets of the windows that block now.                  *)
Blocking(p) ==
  IF quota[p].at # Never /\ quota[p].at >= window_start
  THEN {r \in quota[p].resets : r = NoReset \/ r > now} ELSE {}

quota_remaining(p) ==
  LET left == {r - now : r \in Blocking(p) \ {NoReset}}
  IN  IF left = {} THEN 0 ELSE CHOOSE m \in left : \A k \in left : k <= m

time_until_retry(p) == Most(failure_remaining(p), quota_remaining(p))

Impaired(p) == balance_issue(p) \/ Blocking(p) # {}

health(p) ==
  IF Impaired(p) THEN "degraded"
  ELSE IF failure_count(p) >= UnhealthyFrom THEN "unhealthy"
  ELSE IF failure_count(p) >= DegradedFrom THEN "degraded"
  ELSE "healthy"

---------------------------------------------------------------------------
(* Events.                                                                 *)

Busy(e) == emitting[e] # Nothing

(* emit: the event gets its timestamp.                                     *)
StampFailure(e, p, asked) ==
  /\ ~Busy(e) /\ Len(log[p]) < MaxFailures
  /\ emitting' = [emitting EXCEPT
       ![e] = [kind |-> "failure", of |-> p, at |-> now, asked |-> asked]]
  /\ UNCHANGED <<now, log, front, empty, quota, reports>>

StampReport(e, report) ==
  /\ ~Busy(e) /\ reports < MaxReports
  /\ emitting' = [emitting EXCEPT ![e] = report]
  /\ reports' = reports + 1
  /\ UNCHANGED <<now, log, front, empty, quota>>

StampBalance(e, p, is_empty) ==
  StampReport(e, [kind |-> "balance", of |-> p, at |-> now, empty |-> is_empty])

StampQuota(e, p, resets) ==
  StampReport(e, [kind |-> "quota", of |-> p, at |-> now, resets |-> resets])

(* prune: pop_front while the front is older than the retention.           *)
cutoff == Most(0, now - Retention)
PrunesByNow(samples, from, to) ==
  /\ to \in from..(Len(samples) + 1)
  /\ \A n \in from..(to - 1) : samples[n].at < now
  /\ to <= Len(samples) => samples[to].at >= now
Prunes(samples, from, to) ==
  /\ to \in from..(Len(samples) + 1)
  /\ \A n \in from..(to - 1) : samples[n].at < cutoff
  /\ to <= Len(samples) => samples[to].at >= cutoff

(* apply_aggregate: fold the event in and prune, under the lock.           *)
apply(e) ==
  LET event == emitting[e]
      p == event.of
      samples == IF event.kind = "failure"
                 THEN Append(log[p], [at |-> event.at, asked |-> event.asked])
                 ELSE log[p]
  IN  /\ Busy(e)
      /\ emitting' = [emitting EXCEPT ![e] = Nothing]
      /\ log' = [log EXCEPT ![p] = samples]
      /\ \E to \in 1..(Len(samples) + 1) :
           Prunes(samples, front[p], to) /\ front' = [front EXCEPT ![p] = to]
      /\ empty' = IF event.kind # "balance" THEN empty
                  ELSE [empty EXCEPT ![p] = IF event.empty THEN event.at ELSE Never]
      /\ quota' = IF event.kind # "quota" THEN quota
                  ELSE [quota EXCEPT ![p] = [resets |-> event.resets, at |-> event.at]]
      /\ UNCHANGED <<now, reports>>

Tick ==
  /\ now < MaxTime
  /\ now' = now + 1
  /\ UNCHANGED <<log, front, empty, quota, emitting, reports>>

Next ==
  \/ \E e \in Emitters, p \in Providers :
       \/ \E asked \in Asked : StampFailure(e, p, asked)
       \/ \E is_empty \in BOOLEAN : StampBalance(e, p, is_empty)
       \/ \E resets \in SUBSET (Resets \cup {NoReset}) : StampQuota(e, p, resets)
  \/ \E e \in Emitters : apply(e)
  \/ Tick

Spec == Init /\ [][Next]_vars

---------------------------------------------------------------------------
(* Pruning is not seen: failure_count and time_until_retry read the deque  *)
(* and see every failure of the window that was ever applied, although     *)
(* emitters apply them out of the order of their timestamps and prune      *)
(* looks at the front only.                                                *)
PruningIsUnseen == \A p \in Providers : InWindow(p, front[p]) = InWindow(p, 1)

(* A provider comes back without a request that proves it well: once its   *)
(* failures and its last reports are older than the window it is healthy   *)
(* and need not wait.                                                      *)
SilenceHeals ==
  \A p \in Providers :
    /\ \A n \in 1..Len(log[p]) : log[p][n].at < now - Window
    /\ Most(empty[p], quota[p].at) < now - Window
    => health(p) = "healthy" /\ time_until_retry(p) = 0

(* Time alone makes a provider unhealthy only where an empty balance or an *)
(* exhausted quota, which count before the failures and as degraded only,  *)
(* had hidden its failures.                                                *)
TimeHeals ==
  [][Tick =>
       \A p \in Providers : health(p)' = "unhealthy" => health(p) = "unhealthy" \/ Impaired(p)]_vars

=============================================================================
