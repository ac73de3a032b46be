--------------------------- MODULE Health_proofs ---------------------------
(***************************************************************************)
(* Proofs about Health: pruning is never seen by a read of the window, and *)
(* a silent provider is healthy; for any number of providers and emitters  *)
(* and any window no longer than the retention.  And about Statistics:     *)
(* viewers are told what they missed, pages add up, and the history        *)
(* survives restarts; for any events, tasks, viewers and sizes of the      *)
(* channel, the deque and the history.                                     *)
(***************************************************************************)
EXTENDS Health, Statistics, FiniteSetTheorems, SequenceTheorems, TLAPS

(* What prune forgot had left the window when it was forgotten, and time   *)
(* does not bring it back.                                                 *)
ForgottenInv ==
  \A p \in Providers : \A n \in 1..Len(log[p]) :
    n < front[p] => log[p][n].at < window_start

IInv == TypeOK /\ ForgottenInv

LEMMA StartsLater ==
  ASSUME NEW m \in Nat, NEW n \in Nat, m <= n, NEW w \in Nat
  PROVE  Most(0, m - w) \in Nat /\ Most(0, n - w) \in Nat /\ Most(0, m - w) <= Most(0, n - w)
BY DEF Most

LEMMA WindowMoves ==
  ASSUME now \in Nat, now' \in {now, now + 1}
  PROVE  window_start \in Nat /\ window_start' \in Nat /\ window_start <= window_start'
<1>1. Window \in Nat /\ now \in Nat /\ now' \in Nat /\ now <= now'
  BY HealthAssumption
<1>2. window_start = Most(0, now - Window) /\ window_start' = Most(0, now' - Window)
  BY DEF window_start, Most
<1> QED
  BY <1>1, <1>2, StartsLater

LEMMA InitIInv == Init => IInv
<1> SUFFICES ASSUME Init PROVE IInv
  OBVIOUS
<1> USE HealthAssumption DEF Init
<1>1. TypeOK
  <2>1. log \in [Providers -> Seq(Sample)]
    OBVIOUS
  <2>2. quota \in [Providers -> [resets : SUBSET (Resets \cup {NoReset}),
                                 at : (0..MaxTime) \cup {Never}]]
    BY DEF Never
  <2> QED
    BY <2>1, <2>2 DEF TypeOK
<1>2. ForgottenInv
  BY DEF ForgottenInv
<1> QED
  BY <1>1, <1>2 DEF IInv

(* A step that leaves the aggregates alone.                                *)
LEMMA ReadInv ==
  ASSUME IInv, TypeOK', UNCHANGED <<log, front>>, now' \in {now, now + 1}
  PROVE  ForgottenInv'
<1> USE HealthAssumption
<1>0. now \in Nat
  BY DEF IInv, TypeOK
<1>1. window_start <= window_start' /\ window_start \in Nat /\ window_start' \in Nat
  BY <1>0, WindowMoves
<1>2. ASSUME NEW p \in Providers, NEW n \in 1..Len(log[p]) PROVE log[p][n].at \in Nat
  <2>1. log[p] \in Seq(Sample)
    BY DEF IInv, TypeOK, Sample
  <2>2. log[p][n] \in Sample
    BY <2>1, <1>2
  <2> QED
    BY <2>2 DEF Sample
<1>3. SUFFICES ASSUME NEW p \in Providers, NEW n \in 1..Len(log[p]), n < front[p]
               PROVE  log[p][n].at < window_start'
  BY DEF ForgottenInv
<1>4. log[p][n].at < window_start
  BY <1>3 DEF IInv, ForgottenInv
<1> QED
  BY <1>1, <1>2, <1>4

LEMMA StampIInv ==
  ASSUME IInv, NEW e \in Emitters, NEW event \in Failures \cup Balances \cup Quotas,
         emitting' = [emitting EXCEPT ![e] = event],
         reports' \in 0..MaxReports,
         UNCHANGED <<now, log, front, empty, quota>>
  PROVE  IInv'
<1>1. TypeOK'
  BY DEF IInv, TypeOK
<1>2. ForgottenInv'
  BY <1>1, ReadInv
<1> QED
  BY <1>1, <1>2 DEF IInv

LEMMA EmitIInv ==
  ASSUME IInv, NEW e \in Emitters, NEW p \in Providers,
         \/ \E asked \in Asked : StampFailure(e, p, asked)
         \/ \E is_empty \in BOOLEAN : StampBalance(e, p, is_empty)
         \/ \E resets \in SUBSET (Resets \cup {NoReset}) : StampQuota(e, p, resets)
  PROVE  IInv'
<1> USE HealthAssumption
<1>0. now \in 0..MaxTime /\ reports \in 0..MaxReports
  BY DEF IInv, TypeOK
<1>1. ASSUME NEW asked \in Asked, StampFailure(e, p, asked) PROVE IInv'
  <2>1. [kind |-> "failure", of |-> p, at |-> now, asked |-> asked] \in Failures
    BY <1>0 DEF Failures
  <2> QED
    BY <1>0, <1>1, <2>1, StampIInv DEF StampFailure
<1>2. ASSUME NEW event \in Balances \cup Quotas, StampReport(e, event) PROVE IInv'
  <2>1. reports' \in 0..MaxReports
    BY <1>0, <1>2 DEF StampReport
  <2> QED
    BY <1>2, <2>1, StampIInv DEF StampReport
<1>3. ASSUME NEW is_empty \in BOOLEAN, StampBalance(e, p, is_empty) PROVE IInv'
  <2>1. [kind |-> "balance", of |-> p, at |-> now, empty |-> is_empty] \in Balances
    BY <1>0 DEF Balances
  <2> QED
    BY <1>2, <1>3, <2>1 DEF StampBalance
<1>4. ASSUME NEW resets \in SUBSET (Resets \cup {NoReset}), StampQuota(e, p, resets) PROVE IInv'
  <2>1. [kind |-> "quota", of |-> p, at |-> now, resets |-> resets] \in Quotas
    BY <1>0 DEF Quotas
  <2> QED
    BY <1>2, <1>4, <2>1 DEF StampQuota
<1> QED
  BY <1>1, <1>3, <1>4

LEMMA TickIInv == IInv /\ Tick => IInv'
<1> SUFFICES ASSUME IInv, Tick PROVE IInv'
  OBVIOUS
<1>1. now \in 0..MaxTime /\ MaxTime \in Nat
  BY HealthAssumption DEF IInv, TypeOK
<1>2. now' \in 0..MaxTime /\ now' = now + 1
  BY <1>1 DEF Tick
<1>3. TypeOK'
  BY <1>2 DEF IInv, TypeOK, Tick
<1>4. ForgottenInv'
  BY <1>2, <1>3, ReadInv DEF Tick
<1> QED
  BY <1>3, <1>4 DEF IInv

(* The new front is behind nothing but old samples.                        *)
LEMMA Pruning ==
  ASSUME TypeOK, NEW samples \in Seq(Sample), NEW from \in Nat \ {0}, NEW to,
         \A n \in 1..Len(samples) : n < from => samples[n].at < window_start,
         Prunes(samples, from, to)
  PROVE  /\ to \in Nat \ {0} /\ to <= Len(samples) + 1
         /\ \A n \in 1..Len(samples) : n < to => samples[n].at < window_start
<1> USE HealthAssumption
<1>1. to \in Nat \ {0} /\ to <= Len(samples) + 1
  <2>1. Len(samples) \in Nat /\ to \in from..(Len(samples) + 1)
    BY DEF Prunes
  <2> QED
    BY <2>1
<1>2. cutoff <= window_start /\ cutoff \in Nat /\ window_start \in Nat
  BY DEF TypeOK, cutoff, window_start, Most
<1>3. ASSUME NEW n \in 1..Len(samples), n < to PROVE samples[n].at < window_start
  <2>1. samples[n] \in Sample
    OBVIOUS
  <2>2. samples[n].at \in Nat
    BY <2>1 DEF Sample
  <2>3. CASE n < from
    BY <2>3
  <2>4. CASE ~(n < from)
    <3>1. n \in from..(to - 1)
      BY <1>1, <1>3, <2>4
    <3>2. samples[n].at < cutoff
      BY <3>1 DEF Prunes
    <3> QED
      BY <1>2, <2>2, <3>2
  <2> QED
    BY <2>3, <2>4
<1> QED
  BY <1>1, <1>3

LEMMA ApplyIInv == ASSUME IInv, NEW e \in Emitters, apply(e) PROVE IInv'
<1> USE HealthAssumption
<1> DEFINE event == emitting[e]
           p == event.of
           samples == IF event.kind = "failure"
                      THEN Append(log[p], [at |-> event.at, asked |-> event.asked])
                      ELSE log[p]
<1>1. event \in Failures \cup Balances \cup Quotas
  BY DEF IInv, TypeOK, apply, Busy
<1>2. p \in Providers /\ event.at \in 0..MaxTime
  BY <1>1 DEF Failures, Balances, Quotas
<1>3. log[p] \in Seq(Sample) /\ front[p] \in Nat \ {0}
  BY <1>2 DEF IInv, TypeOK, Sample
<1>4. event.kind = "failure" => event.asked \in Asked
  BY <1>1 DEF Failures, Balances, Quotas
<1>5. samples \in Seq(Sample)
  <2>1. CASE event.kind = "failure"
    <3>1. [at |-> event.at, asked |-> event.asked] \in Sample
      BY <1>2, <1>4, <2>1 DEF Sample
    <3> QED
      BY <1>3, <2>1, <3>1
  <2> QED
    BY <1>3, <2>1
<1>6. PICK to \in 1..(Len(samples) + 1) :
        Prunes(samples, front[p], to) /\ front' = [front EXCEPT ![p] = to]
  BY DEF apply
<1>7. log' = [log EXCEPT ![p] = samples] /\ UNCHANGED <<now, reports>>
  BY DEF apply
<1>8. \A n \in 1..Len(samples) : n < front[p] => samples[n].at < window_start
  <2> SUFFICES ASSUME NEW n \in 1..Len(samples), n < front[p]
               PROVE  samples[n].at < window_start
    OBVIOUS
  <2>1. front[p] <= Len(log[p]) + 1 /\ Len(log[p]) \in Nat
    BY <1>2, <1>3 DEF IInv, TypeOK
  <2>2. n \in 1..Len(log[p]) /\ samples[n] = log[p][n]
    BY <1>3, <2>1
  <2> QED
    BY <1>2, <2>2 DEF IInv, ForgottenInv
<1>9. /\ to \in Nat \ {0} /\ to <= Len(samples) + 1
      /\ \A n \in 1..Len(samples) : n < to => samples[n].at < window_start
  <2>1. TypeOK
    BY DEF IInv
  <2> HIDE DEF samples
  <2> QED
    BY <1>3, <1>5, <1>6, <1>8, <2>1, Pruning
<1> HIDE DEF samples
<1>10. TypeOK'
  <2>1. log' \in [Providers -> Seq(Sample)]
    BY <1>5, <1>7 DEF IInv, TypeOK
  <2>2. front' \in [Providers -> Nat \ {0}]
    BY <1>6, <1>9 DEF IInv, TypeOK
  <2>3. \A q \in Providers : front'[q] <= Len(log'[q]) + 1
    BY <1>2, <1>6, <1>7, <1>9 DEF IInv, TypeOK
  <2>4. empty' \in [Providers -> (0..MaxTime) \cup {Never}]
    BY <1>2 DEF IInv, TypeOK, apply
  <2>5. quota' \in [Providers -> [resets : SUBSET (Resets \cup {NoReset}),
                                 at : (0..MaxTime) \cup {Never}]]
    <3>1. CASE event.kind # "quota"
      BY <3>1 DEF IInv, TypeOK, apply
    <3>2. CASE event.kind = "quota"
      <4>1. event.resets \in SUBSET (Resets \cup {NoReset})
        BY <1>1, <3>2 DEF Failures, Balances, Quotas
      <4>2. [resets |-> event.resets, at |-> event.at]
              \in [resets : SUBSET (Resets \cup {NoReset}), at : (0..MaxTime) \cup {Never}]
        BY <1>2, <4>1
      <4> QED
        BY <3>2, <4>2 DEF IInv, TypeOK, apply
    <3> QED
      BY <3>1, <3>2
  <2>6. emitting' \in [Emitters -> {Nothing} \cup Failures \cup Balances \cup Quotas]
    BY DEF IInv, TypeOK, apply
  <2> QED
    BY <1>7, <2>1, <2>2, <2>3, <2>4, <2>5, <2>6 DEF IInv, TypeOK
<1>11. ForgottenInv'
  <2>1. window_start' = window_start
    BY <1>7 DEF window_start
  <2> SUFFICES ASSUME NEW q \in Providers, NEW n \in 1..Len(log'[q]), n < front'[q]
               PROVE  log'[q][n].at < window_start
    BY <2>1 DEF ForgottenInv
  <2>2. CASE q = p
    <3>1. log'[q] = samples /\ front'[q] = to
      BY <1>2, <1>6, <1>7, <2>2 DEF IInv, TypeOK
    <3> QED
      BY <1>9, <3>1
  <2>3. CASE q # p
    <3>1. log'[q] = log[q] /\ front'[q] = front[q]
      BY <1>6, <1>7, <2>3 DEF IInv, TypeOK
    <3> QED
      BY <3>1 DEF IInv, ForgottenInv
  <2> QED
    BY <2>2, <2>3
<1> QED
  BY <1>10, <1>11 DEF IInv

LEMMA StutterIInv == IInv /\ UNCHANGED vars => IInv'
<1> SUFFICES ASSUME IInv, UNCHANGED vars PROVE IInv'
  OBVIOUS
<1>1. TypeOK'
  BY DEF IInv, TypeOK, vars
<1>2. ForgottenInv'
  BY DEF IInv, ForgottenInv, vars, window_start
<1> QED
  BY <1>1, <1>2 DEF IInv

(* The types of Health hold, and what was pruned is out of the window.     *)
THEOREM Invariance == Spec => []IInv
<1>1. IInv /\ [Next]_vars => IInv'
  BY EmitIInv, ApplyIInv, TickIInv, StutterIInv DEF Next
<1> QED
  BY InitIInv, <1>1, PTL DEF Spec

(* The variables of the aggregates keep their types, and the front stays   *)
(* within the samples.                                                     *)
THEOREM TypeCorrect == Spec => []TypeOK
<1>1. IInv => TypeOK
  BY DEF IInv
<1> QED
  BY Invariance, <1>1, PTL

(* A read of the pruned deque sees every failure of the window, whatever   *)
(* the order the emitters applied them in.                                 *)
THEOREM NothingIsForgotten == Spec => []PruningIsUnseen
<1>1. IInv => PruningIsUnseen
  <2> SUFFICES ASSUME IInv, NEW p \in Providers
               PROVE  InWindow(p, front[p]) = InWindow(p, 1)
    BY DEF PruningIsUnseen
  <2>1. front[p] \in Nat \ {0} /\ log[p] \in Seq(Sample) /\ now \in Nat
    BY HealthAssumption DEF IInv, TypeOK
  <2>2. window_start \in Nat
    BY <2>1, HealthAssumption DEF window_start, Most
  <2>3. ASSUME NEW n \in 1..Len(log[p]), log[p][n].at >= window_start
        PROVE  n >= front[p]
    <3>1. log[p][n] \in Sample
      BY <2>1
    <3>2. log[p][n].at \in Nat
      BY <3>1, HealthAssumption DEF Sample
    <3>3. n < front[p] => log[p][n].at < window_start
      BY DEF IInv, ForgottenInv
    <3> QED
      BY <2>1, <2>2, <2>3, <3>2, <3>3
  <2>4. InWindow(p, front[p]) \subseteq InWindow(p, 1)
    BY <2>1 DEF InWindow
  <2>5. InWindow(p, 1) \subseteq InWindow(p, front[p])
    BY <2>1, <2>3 DEF InWindow
  <2> QED
    BY <2>4, <2>5
<1> QED
  BY Invariance, <1>1, PTL

(* A provider of which nothing was heard for a window is healthy and need  *)
(* not wait, although no request has proved it well.                       *)
THEOREM SilentIsHealthy == Spec => []SilenceHeals
<1>1. IInv => SilenceHeals
  <2> SUFFICES ASSUME IInv, NEW p \in Providers,
                      \A n \in 1..Len(log[p]) : log[p][n].at < now - Window,
                      Most(empty[p], quota[p].at) < now - Window
               PROVE  health(p) = "healthy" /\ time_until_retry(p) = 0
    BY DEF SilenceHeals
  <2>1. front[p] \in Nat \ {0} /\ log[p] \in Seq(Sample) /\ now \in Nat /\ Window \in Nat
    BY HealthAssumption DEF IInv, TypeOK
  <2>2. empty[p] \in Int /\ quota[p].at \in Int
    BY HealthAssumption DEF IInv, TypeOK, Never
  <2>3. window_start \in Nat /\ now - Window <= window_start
    BY <2>1 DEF window_start, Most
  <2>4. failure_count(p) = 0
    <3>1. ASSUME NEW n \in InWindow(p, front[p]) PROVE FALSE
      <4>1. n \in 1..Len(log[p]) /\ log[p][n].at >= window_start
        BY <2>1 DEF InWindow
      <4>2. log[p][n] \in Sample
        BY <2>1, <4>1
      <4>3. log[p][n].at \in Nat
        BY <4>2, HealthAssumption DEF Sample
      <4> QED
        BY <2>1, <2>3, <4>1, <4>3
    <3>2. InWindow(p, front[p]) = {}
      BY <3>1
    <3> QED
      BY <3>2, FS_EmptySet DEF failure_count
  <2>5. empty[p] < window_start /\ quota[p].at < window_start
    BY <2>1, <2>2, <2>3 DEF Most
  <2>6. Blocking(p) = {} /\ ~balance_issue(p)
    BY <2>2, <2>3, <2>5 DEF Blocking, balance_issue
  <2>7. health(p) = "healthy"
    BY <2>4, <2>6, HealthAssumption DEF health, Impaired
  <2>8. failure_remaining(p) = 0
    BY <2>4 DEF failure_remaining
  <2>9. quota_remaining(p) = 0
    BY <2>6 DEF quota_remaining
  <2> QED
    BY <2>7, <2>8, <2>9 DEF time_until_retry, Most
<1> QED
  BY Invariance, <1>1, PTL

(* As time passes failures only leave the window.                          *)
LEMMA WindowFades ==
  ASSUME IInv, Tick, NEW p \in Providers
  PROVE  failure_count(p)' <= failure_count(p) /\ failure_count(p) \in Nat /\ failure_count(p)' \in Nat
<1>1. front[p] \in Nat \ {0} /\ log[p] \in Seq(Sample) /\ now \in Nat
  BY HealthAssumption DEF IInv, TypeOK
<1>2. window_start \in Nat /\ window_start' \in Nat /\ window_start <= window_start'
  BY <1>1, WindowMoves DEF Tick
<1>3. log' = log /\ front' = front
  BY DEF Tick
<1>4. InWindow(p, front[p])' \subseteq InWindow(p, front[p])
  <2> SUFFICES ASSUME NEW n \in front[p]..Len(log[p]), log[p][n].at >= window_start'
               PROVE  log[p][n].at >= window_start
    BY <1>3 DEF InWindow
  <2>1. n \in 1..Len(log[p])
    BY <1>1
  <2>2. log[p][n] \in Sample
    BY <1>1, <2>1
  <2>3. log[p][n].at \in Nat
    BY <2>2, HealthAssumption DEF Sample
  <2> QED
    BY <1>2, <2>3
<1>5. IsFiniteSet(InWindow(p, front[p]))
  <2>1. IsFiniteSet(front[p]..Len(log[p]))
    BY <1>1, FS_Interval
  <2>2. InWindow(p, front[p]) \subseteq front[p]..Len(log[p])
    BY DEF InWindow
  <2> QED
    BY <2>1, <2>2, FS_Subset
<1> QED
  BY <1>4, <1>5, FS_Subset, FS_CardinalityType DEF failure_count

(* Time alone makes no provider unhealthy, unless an empty balance or an   *)
(* exhausted quota had hidden its failures.                                *)
THEOREM FailuresFade == Spec => TimeHeals
<1>1. ASSUME IInv, Tick, NEW p \in Providers, health(p)' = "unhealthy"
      PROVE  health(p) = "unhealthy" \/ Impaired(p)
  <2>1. failure_count(p)' >= UnhealthyFrom
    BY <1>1 DEF health
  <2>2. failure_count(p) >= UnhealthyFrom
    BY <1>1, <2>1, WindowFades, HealthAssumption
  <2> QED
    BY <2>2 DEF health
<1>2. IInv /\ [Next]_vars =>
        [Tick => \A p \in Providers :
           health(p)' = "unhealthy" => health(p) = "unhealthy" \/ Impaired(p)]_vars
  BY <1>1
<1> QED
  BY Invariance, <1>2, PTL DEF Spec, TimeHeals
---------------------------------------------------------------------------
(* Statistics.  The live feed.                                             *)
Watching == [on : {TRUE}, since : Nat, next : Nat \ {0}, got : Nat, told : Nat]

FeedInv ==
  /\ sent \in Nat
  /\ viewer \in [Viewers -> {Away} \cup Watching]
  /\ FeedMissesAreTold

LEMMA FeedStep ==
  ASSUME FeedInv, NEW v \in Viewers, Feed(v)
  PROVE  FeedInv'
<1> USE StatisticsAssumption
<1>1. sent' = sent /\ sent \in Nat /\ viewer \in [Viewers -> {Away} \cup Watching]
  BY DEF Feed, FeedInv
<1>2. SUFFICES ASSUME NEW r \in {Away} \cup Watching, viewer' = [viewer EXCEPT ![v] = r],
                      r.on => r.since + r.got + r.told = r.next - 1
               PROVE  FeedInv'
  <2>1. CASE Watch(v)
    <3>1. PICK r : r = [on |-> TRUE, since |-> sent, next |-> sent + 1, got |-> 0, told |-> 0]
      OBVIOUS
    <3>2. r \in Watching /\ r.on /\ r.since + r.got + r.told = r.next - 1
      BY <1>1, <3>1 DEF Watching
    <3> QED
      BY <1>2, <2>1, <3>1, <3>2 DEF Watch
  <2>2. CASE Receives(v)
    <3> PICK old : old = viewer[v]
      OBVIOUS
    <3>1. old \in Watching /\ old.next <= sent /\ old.since + old.got + old.told = old.next - 1
      BY <1>1, <2>2 DEF Receives, FeedInv, FeedMissesAreTold, Away
    <3>t. /\ old.on = TRUE /\ old.since \in Nat /\ old.next \in Nat \ {0} /\ old.got \in Nat
          /\ old.told \in Nat
      BY <3>1 DEF Watching
    <3>2. CASE old.next < Oldest
      <4>1. PICK n : n = Oldest - old.next
        OBVIOUS
      <4>2. n \in Nat
        BY <1>1, <3>1, <3>2, <4>1 DEF Oldest, Watching
      <4>3. PICK r : r = Lagged(old, n)
        OBVIOUS
      <4>4. /\ r \in Watching /\ r.next = old.next + n /\ r.told = old.told + n
            /\ r.since = old.since /\ r.got = old.got
        <5>1. r = [old EXCEPT !.next = old.next + n, !.told = old.told + n]
          BY <4>3 DEF Lagged
        <5>2. old.next + n \in Nat \ {0} /\ old.told + n \in Nat
          BY <3>t, <4>2
        <5>3. r \in Watching
          BY <3>1, <5>1, <5>2 DEF Watching
        <5>4. /\ r.next = old.next + n /\ r.told = old.told + n
              /\ r.since = old.since /\ r.got = old.got
          BY <3>1, <5>1 DEF Watching
        <5> QED
          BY <5>3, <5>4
      <4>5. viewer' = [viewer EXCEPT ![v] = r]
        BY <2>2, <3>2, <4>1, <4>3 DEF Receives
      <4>6. r.since + r.got + r.told = r.next - 1
        BY <3>1, <3>t, <4>2, <4>4
      <4> QED
        BY <1>2, <4>4, <4>5, <4>6
    <3>3. CASE ~(old.next < Oldest)
      <4>1. PICK r : r = [old EXCEPT !.next = @ + 1, !.got = @ + 1]
        OBVIOUS
      <4>2. /\ r \in Watching /\ r.next = old.next + 1 /\ r.told = old.told
            /\ r.since = old.since /\ r.got = old.got + 1
        <5>1. r = [old EXCEPT !.next = old.next + 1, !.got = old.got + 1]
          BY <4>1
        <5>2. old.next + 1 \in Nat \ {0} /\ old.got + 1 \in Nat
          BY <3>t
        <5>3. r \in Watching
          BY <3>1, <5>1, <5>2 DEF Watching
        <5>4. /\ r.next = old.next + 1 /\ r.told = old.told
              /\ r.since = old.since /\ r.got = old.got + 1
          BY <3>1, <5>1 DEF Watching
        <5> QED
          BY <5>3, <5>4
      <4>3. viewer' = [viewer EXCEPT ![v] = r]
        BY <2>2, <3>3, <4>1 DEF Receives
      <4>4. r.since + r.got + r.told = r.next - 1
        BY <3>1, <3>t, <4>2
      <4> QED
        BY <1>2, <4>2, <4>3, <4>4
    <3> QED
      BY <3>2, <3>3
  <2>3. CASE Leaves(v)
    BY <1>2, <2>3 DEF Leaves, Away
  <2> QED
    BY <2>1, <2>2, <2>3 DEF Feed
<1>3. viewer' \in [Viewers -> {Away} \cup Watching]
  BY <1>1, <1>2
<1>4. FeedMissesAreTold'
  BY <1>1, <1>2 DEF FeedInv, FeedMissesAreTold
<1> QED
  BY <1>1, <1>3, <1>4 DEF FeedInv

LEMMA FeedInvariance == StatisticsSpec => []FeedInv
<1>1. StatisticsInit => FeedInv
  BY DEF StatisticsInit, FeedInv, FeedMissesAreTold, Away
<1>2. FeedInv /\ [LiveNext \/ PastNext \/ Restart]_statistics => FeedInv'
  <2> SUFFICES ASSUME FeedInv, [LiveNext \/ PastNext \/ Restart]_statistics PROVE FeedInv'
    OBVIOUS
  <2>1. ASSUME sent' \in Nat, UNCHANGED viewer PROVE FeedInv'
    BY <2>1 DEF FeedInv, FeedMissesAreTold
  <2>2. ASSUME UNCHANGED live PROVE FeedInv'
    BY <2>1, <2>2 DEF live, FeedInv
  <2>3. CASE \E s \in Sources : Emits(s) \/ \E e \in Events : Emit(s, e)
    <3>1. sent' \in Nat
      BY <2>3 DEF Emits, Emit, FeedInv
    <3>2. UNCHANGED viewer
      BY <2>3 DEF Emits, Emit
    <3> QED
      BY <2>1, <3>1, <3>2
  <2>4. CASE \E v \in Viewers : Feed(v)
    BY <2>4, FeedStep
  <2>5. CASE GetMetrics
    BY <2>1, <2>5 DEF GetMetrics, FeedInv
  <2>6. CASE PastNext
    BY <2>2, <2>6 DEF PastNext, load_history_from_db, take_snapshot, save_metrics_snapshot,
       prune_metrics_snapshots, push_snapshot, Wait
  <2>7. CASE Restart
    BY <2>7 DEF Restart, FeedInv, FeedMissesAreTold, Away
  <2>8. CASE UNCHANGED statistics
    BY <2>2, <2>8 DEF statistics
  <2>9. CASE \E e \in CheckEvents : Check(e)
    BY <2>1, <2>9 DEF Check, FeedInv
  <2> QED
    BY <2>3, <2>4, <2>5, <2>6, <2>7, <2>8, <2>9 DEF LiveNext
<1> QED
  BY <1>1, <1>2, PTL DEF StatisticsSpec

(* A viewer misses no event sent without being told, whatever the channel  *)
(* can hold and however far it falls behind (tokio's Lagged in ws.rs).     *)
THEOREM MissesAreTold == StatisticsSpec => []FeedMissesAreTold
<1>1. FeedInv => FeedMissesAreTold
  BY DEF FeedInv
<1> QED
  BY FeedInvariance, <1>1, PTL
---------------------------------------------------------------------------
(* The counters and the deque.                                             *)

OfKinds(q, kinds, models) ==
  {i \in DOMAIN q : q[i].kind \in kinds /\ q[i].model \in models}

(* What leaves a bounded deque only makes it poorer in every kind.         *)
IsLastOf(short, q, n, S, k) ==
  /\ k <= Len(q) /\ short \in Seq(S) /\ Len(short) = Len(q) - k
  /\ Len(short) <= n /\ (k # 0 => Len(short) = n)
  /\ DOMAIN short = 1..(Len(q) - k)
  /\ \A i \in 1..(Len(q) - k) : short[i] = q[i + k] /\ i + k \in DOMAIN q

LEMMA LastOfProperties ==
  ASSUME NEW S, NEW q \in Seq(S), NEW n \in Nat \ {0}
  PROVE  \E k \in Nat : IsLastOf(LastOf(q, n), q, n, S, k)
<1>0. PICK L \in Nat : L = Len(q) /\ DOMAIN q = 1..L
  BY LenProperties
<1>1. PICK k \in Nat : k <= L /\ L - k <= n /\ (k # 0 => L - k = n)
                         /\ (IF L > n THEN L - n + 1 ELSE 1) = k + 1
  <2>1. CASE L > n
    <3>1. L - n \in Nat /\ L - n <= L /\ L - (L - n) = n /\ L - n + 1 = (L - n) + 1
      BY <2>1
    <3> QED
      BY <2>1, <3>1
  <2>2. CASE ~(L > n)
    <3>1. 0 \in Nat /\ 0 <= L /\ L - 0 <= n /\ 0 + 1 = 1
      BY <2>2
    <3> QED
      BY <2>2, <3>1
  <2> QED
    BY <2>1, <2>2
<1>2. LastOf(q, n) = SubSeq(q, k + 1, L)
  BY <1>0, <1>1 DEF LastOf
<1>3. \A i \in (k + 1)..L : q[i] \in S
  BY <1>0, <1>1, ElementOfSeq
<1>4. /\ SubSeq(q, k + 1, L) \in Seq(S)
      /\ Len(SubSeq(q, k + 1, L)) = IF k + 1 <= L THEN L - (k + 1) + 1 ELSE 0
      /\ \A i \in 1..(L - (k + 1) + 1) : SubSeq(q, k + 1, L)[i] = q[k + 1 + i - 1]
  <2>1. k + 1 \in Int /\ L \in Int
    OBVIOUS
  <2> QED
    BY <1>3, <2>1, SubSeqProperties
<1> PICK short : short = LastOf(q, n)
  OBVIOUS
<1>5. L - (k + 1) + 1 = L - k /\ (IF k + 1 <= L THEN L - (k + 1) + 1 ELSE 0) = L - k
  BY <1>1
<1>6. short \in Seq(S) /\ Len(short) = L - k
  BY <1>2, <1>4, <1>5
<1>7. DOMAIN short = 1..(L - k)
  BY <1>6, LenProperties
<1>8. ASSUME NEW i \in 1..(L - k) PROVE short[i] = q[i + k] /\ i + k \in DOMAIN q
  <2>1. k + 1 + i - 1 = i + k /\ i + k \in 1..L
    BY <1>1
  <2>2. short[i] = q[k + 1 + i - 1]
    BY <1>2, <1>4, <1>5
  <2> QED
    BY <1>0, <2>1, <2>2
<1> QED
  BY <1>0, <1>1, <1>6, <1>7, <1>8 DEF IsLastOf

LEMMA KindsAreFinite ==
  ASSUME NEW S, NEW q \in Seq(S), NEW kinds, NEW models
  PROVE  IsFiniteSet(OfKinds(q, kinds, models)) /\ Cardinality(OfKinds(q, kinds, models)) \in Nat
<1>1. PICK L \in Nat : DOMAIN q = 1..L
  BY LenProperties
<1>2. OfKinds(q, kinds, models) \in SUBSET (1..L) /\ IsFiniteSet(1..L)
  BY <1>1, FS_Interval DEF OfKinds
<1> QED
  BY <1>2, FS_Subset, FS_CardinalityType

LEMMA ForgettingIsPoorer ==
  ASSUME NEW S, NEW q \in Seq(S), NEW n \in Nat \ {0}, NEW kinds, NEW models
  PROVE  /\ LastOf(q, n) \in Seq(S)
         /\ Cardinality(OfKinds(LastOf(q, n), kinds, models)) <= Cardinality(OfKinds(q, kinds, models))
<1> PICK short : short = LastOf(q, n)
  OBVIOUS
<1>0. \E k \in Nat : IsLastOf(short, q, n, S, k)
  BY LastOfProperties
<1> PICK k \in Nat : IsLastOf(short, q, n, S, k)
  BY <1>0
<1>1. /\ k <= Len(q) /\ short \in Seq(S) /\ DOMAIN short = 1..(Len(q) - k)
      /\ \A i \in 1..(Len(q) - k) : short[i] = q[i + k] /\ i + k \in DOMAIN q
  BY DEF IsLastOf
<1>2. PICK f : f = [i \in OfKinds(short, kinds, models) |-> i + k]
  OBVIOUS
<1>3. \A i \in OfKinds(short, kinds, models) : i \in Int /\ i + k \in OfKinds(q, kinds, models)
  <2> SUFFICES ASSUME NEW i \in OfKinds(short, kinds, models) PROVE i \in Int /\ i + k \in OfKinds(q, kinds, models)
    OBVIOUS
  <2>1. i \in 1..(Len(q) - k) /\ short[i].kind \in kinds /\ short[i].model \in models
    BY <1>1 DEF OfKinds
  <2> QED
    BY <1>1, <2>1 DEF OfKinds
<1>4. \A i, j \in OfKinds(short, kinds, models) : i + k = j + k => i = j
  BY <1>3
<1>5. f \in Injection(OfKinds(short, kinds, models), OfKinds(q, kinds, models))
  BY <1>2, <1>3, <1>4 DEF Injection, IsInjective
<1> QED
  BY <1>1, <1>5, KindsAreFinite, FS_Injection

LEMMA AppendCounts ==
  ASSUME NEW S, NEW q \in Seq(S), NEW e \in S, NEW kinds, NEW models
  PROVE  /\ Append(q, e) \in Seq(S)
         /\ Cardinality(OfKinds(Append(q, e), kinds, models))
              = Cardinality(OfKinds(q, kinds, models)) + (IF e.kind \in kinds /\ e.model \in models THEN 1 ELSE 0)
<1> PICK long : long = Append(q, e)
  OBVIOUS
<1>1. PICK L \in Nat : L = Len(q) /\ DOMAIN q = 1..L
  BY LenProperties
<1>2. long \in Seq(S) /\ Len(long) = L + 1 /\ (\A i \in 1..L : long[i] = q[i]) /\ long[L + 1] = e
  BY <1>1, AppendProperties
<1>3. DOMAIN long = 1..(L + 1)
  BY <1>2, LenProperties
<1>4. CASE e.kind \in kinds /\ e.model \in models
  <2>1. OfKinds(long, kinds, models) = OfKinds(q, kinds, models) \cup {L + 1} /\ L + 1 \notin OfKinds(q, kinds, models)
    BY <1>1, <1>2, <1>3, <1>4 DEF OfKinds
  <2> QED
    BY <1>2, <1>4, <2>1, KindsAreFinite, FS_AddElement
<1>5. CASE ~(e.kind \in kinds /\ e.model \in models)
  <2>1. OfKinds(long, kinds, models) = OfKinds(q, kinds, models)
    BY <1>1, <1>2, <1>3, <1>5 DEF OfKinds
  <2> QED
    BY <1>2, <1>5, <2>1, KindsAreFinite
<1> QED
  BY <1>4, <1>5

(* Where an event still has to go.                                         *)
All == <<"total", "outcome", "send", "record">>
Counting == <<"outcome", "send", "record">>
Sending == <<"send", "record">>
Recording == <<"record">>
Telling == <<"send">>
Ways == {All, Counting, Sending, Recording, Telling}

LEMMA WaysGoOn ==
  /\ Head(All) = "total" /\ Tail(All) = Counting /\ Len(All) = 4
  /\ Head(Counting) = "outcome" /\ Tail(Counting) = Sending /\ Len(Counting) = 3
  /\ Head(Sending) = "send" /\ Tail(Sending) = Recording /\ Len(Sending) = 2
  /\ Head(Recording) = "record" /\ Len(Recording) = 1
  /\ Head(Telling) = "send" /\ Len(Telling) = 1
BY DEF All, Counting, Sending, Recording, Telling

LEMMA WaysDiffer ==
  /\ All \notin {Counting, Sending, Recording, Telling, << >>}
  /\ Counting \notin {Sending, Recording, Telling, << >>}
  /\ Sending \notin {Recording, Telling, << >>}
  /\ Recording \notin {Telling, << >>}
  /\ Telling # << >>
<1>0. PICK none : none = << >> /\ Len(none) = 0
  OBVIOUS
<1>1. All # Counting /\ All # Sending /\ All # Recording /\ All # Telling /\ All # none
  BY WaysGoOn, <1>0
<1>2. Counting # Sending /\ Counting # Recording /\ Counting # Telling /\ Counting # none
  BY WaysGoOn, <1>0
<1>3. Sending # Recording /\ Sending # Telling /\ Sending # none
  <2>1. Sending # Recording
    BY WaysGoOn
  <2>2. Sending # Telling
    <3>1. Len(Sending) = 2 /\ Len(Telling) = 1
      BY WaysGoOn
    <3> QED
      BY <3>1
  <2>3. Sending # none
    BY WaysGoOn, <1>0
  <2> QED
    BY <2>1, <2>2, <2>3
<1>5. Recording # none
  BY WaysGoOn, <1>0
<1>4. Recording # Telling /\ Telling # none
  BY WaysGoOn, <1>0
<1> QED
  BY <1>0, <1>1, <1>2, <1>3, <1>4, <1>5

Counts == [{"requests"} \cup Outcomes -> Nat]
CheckCounts == [Outcomes -> Nat]
Recorded == Events \cup CheckEvents

(* The events of all models, and those that are surely of a request.       *)
Groups == {Models, Models \ {Unnamed}}

Between == {s \in Sources : sending[s].left = Counting}
Counted(kind) ==
  {s \in Sources : sending[s].left \in {Sending, Recording} /\ sending[s].event.kind = kind}

SendingInv ==
  /\ sending \in [Sources -> {Idle} \cup [left : Ways, event : Events]]
  /\ \A s \in Sources : sending[s].left \in {All, Counting} => sending[s].event.kind \in Outcomes

(* Every outcome is counted twice before it is recorded, but for those of  *)
(* health checks.                                                          *)
Allowed(models, k) == totals[k] + (IF Unnamed \in models THEN checks[k] ELSE 0)
CountsInv ==
  /\ totals \in Counts /\ checks \in CheckCounts /\ deque \in Seq(Recorded)
  /\ IsFiniteSet(Between) /\ \A k \in Outcomes : IsFiniteSet(Counted(k))
  /\ totals["success"] + totals["failure"] + Cardinality(Between) <= totals["requests"]
  /\ \A k \in Outcomes, models \in Groups :
       Cardinality(OfKinds(deque, {k}, models)) + Cardinality(Counted(k)) <= Allowed(models, k)

Checked(models, done) == IF Unnamed \in models THEN done["success"] + done["failure"] ELSE 0
Within(summary, counts, done) ==
  \A rate \in summary.rate :
    /\ rate[1] \in Nat /\ rate[1] <= counts["success"] + done["success"]
    /\ rate[2] \in Nat /\ rate[2] <= counts["requests"] + Checked(Models, done)
Fits(recent, counts, done) ==
  \A models \in Groups :
    /\ Cardinality(OfKinds(recent, Outcomes, models)) \in Nat
    /\ Cardinality(OfKinds(recent, Outcomes, models)) <= counts["requests"] + Checked(models, done)

PageInv ==
  /\ page.at \in {"events", "totals"} => Within(page.summary, totals, checks)
  /\ page.at = "totals" => Fits(page.recent, totals, checks)
  /\ page.at = "shown" =>
       /\ page.totals \in Counts
       /\ Within(page.summary, page.totals, checks) /\ Fits(page.recent, page.totals, checks)

LiveInv == SendingInv /\ CountsInv /\ PageInv

LEMMA MoreCounted ==
  ASSUME NEW t \in Counts, NEW u \in Counts, \A k \in DOMAIN t : t[k] <= u[k],
         NEW c \in CheckCounts, NEW d \in CheckCounts, \A k \in Outcomes : c[k] <= d[k]
  PROVE  /\ \A summary : Within(summary, t, c) => Within(summary, u, d)
         /\ \A recent : Fits(recent, t, c) => Fits(recent, u, d)
<1>1. /\ t["success"] \in Nat /\ u["success"] \in Nat /\ t["success"] <= u["success"]
      /\ t["requests"] \in Nat /\ u["requests"] \in Nat /\ t["requests"] <= u["requests"]
  BY DEF Counts, Outcomes
<1>2. /\ c["success"] \in Nat /\ d["success"] \in Nat /\ c["success"] <= d["success"]
      /\ c["failure"] \in Nat /\ d["failure"] \in Nat /\ c["failure"] <= d["failure"]
  BY DEF CheckCounts, Outcomes
<1>3. \A models : Checked(models, c) \in Nat /\ Checked(models, d) \in Nat
                    /\ Checked(models, c) <= Checked(models, d)
  BY <1>2 DEF Checked
<1>4. ASSUME NEW summary, Within(summary, t, c), NEW rate \in summary.rate
      PROVE  /\ rate[1] \in Nat /\ rate[1] <= u["success"] + d["success"]
             /\ rate[2] \in Nat /\ rate[2] <= u["requests"] + Checked(Models, d)
  <2>1. /\ rate[1] \in Nat /\ rate[1] <= t["success"] + c["success"]
        /\ rate[2] \in Nat /\ rate[2] <= t["requests"] + Checked(Models, c)
    BY <1>4 DEF Within
  <2> QED
    BY <1>1, <1>2, <1>3, <2>1
<1>5. ASSUME NEW recent, Fits(recent, t, c), NEW models \in Groups
      PROVE  /\ Cardinality(OfKinds(recent, Outcomes, models)) \in Nat
             /\ Cardinality(OfKinds(recent, Outcomes, models)) <= u["requests"] + Checked(models, d)
  <2>1. /\ Cardinality(OfKinds(recent, Outcomes, models)) \in Nat
        /\ Cardinality(OfKinds(recent, Outcomes, models)) <= t["requests"] + Checked(models, c)
    BY <1>5 DEF Fits
  <2> QED
    BY <1>1, <1>3, <2>1
<1> QED
  BY <1>4, <1>5 DEF Within, Fits

LEMMA PageStays ==
  ASSUME PageInv, totals \in Counts, totals' \in Counts, UNCHANGED page,
         \A k \in DOMAIN totals : totals[k] <= totals'[k],
         checks \in CheckCounts, checks' \in CheckCounts,
         \A k \in Outcomes : checks[k] <= checks'[k]
  PROVE  PageInv'
<1>1. /\ \A summary : Within(summary, totals, checks) => Within(summary, totals', checks')
      /\ \A recent : Fits(recent, totals, checks) => Fits(recent, totals', checks')
  BY MoreCounted
<1>2. ASSUME page.at = "shown"
      PROVE  /\ page.totals \in Counts
             /\ Within(page.summary, page.totals, checks') /\ Fits(page.recent, page.totals, checks')
  <2>1. /\ page.totals \in Counts
        /\ Within(page.summary, page.totals, checks) /\ Fits(page.recent, page.totals, checks)
    BY <1>2 DEF PageInv
  <2>2. \A k \in DOMAIN page.totals : page.totals[k] <= page.totals[k]
    BY <2>1 DEF Counts
  <2> QED
    BY <2>1, <2>2, MoreCounted
<1> QED
  BY <1>1, <1>2 DEF PageInv

(* What the deque holds was counted, or was the outcome of a health check. *)
LEMMA DequeIsCounted ==
  ASSUME CountsInv, NEW models \in Groups
  PROVE  /\ Cardinality(OfKinds(deque, {"success"}, models)) <= Allowed(models, "success")
         /\ Cardinality(OfKinds(deque, {"success"}, models))
              + Cardinality(OfKinds(deque, {"failure"}, models))
              <= totals["requests"] + Checked(models, checks)
         /\ Cardinality(OfKinds(deque, Outcomes, models)) <= totals["requests"] + Checked(models, checks)
<1> PICK sd, fd, sc, fc, b, both, scs, fcs :
      /\ sd = Cardinality(OfKinds(deque, {"success"}, models))
      /\ fd = Cardinality(OfKinds(deque, {"failure"}, models))
      /\ sc = Cardinality(Counted("success")) /\ fc = Cardinality(Counted("failure"))
      /\ b = Cardinality(Between) /\ both = Cardinality(OfKinds(deque, Outcomes, models))
      /\ scs = (IF Unnamed \in models THEN checks["success"] ELSE 0)
      /\ fcs = (IF Unnamed \in models THEN checks["failure"] ELSE 0)
  OBVIOUS
<1>1. sd \in Nat /\ fd \in Nat /\ both \in Nat
  BY KindsAreFinite DEF CountsInv
<1>2. sc \in Nat /\ fc \in Nat /\ b \in Nat
  BY FS_CardinalityType DEF CountsInv, Outcomes
<1>c. scs \in Nat /\ fcs \in Nat /\ Checked(models, checks) = scs + fcs
  BY DEF CountsInv, CheckCounts, Checked, Outcomes
<1>3. /\ totals["success"] \in Nat /\ totals["failure"] \in Nat /\ totals["requests"] \in Nat
      /\ totals["success"] + totals["failure"] + b <= totals["requests"]
      /\ sd + sc <= totals["success"] + scs /\ fd + fc <= totals["failure"] + fcs
      /\ Allowed(models, "success") = totals["success"] + scs
  BY DEF CountsInv, Counts, Outcomes, Allowed
<1>4. both <= sd + fd
  <2>1. OfKinds(deque, Outcomes, models)
          = OfKinds(deque, {"success"}, models) \cup OfKinds(deque, {"failure"}, models)
    BY DEF OfKinds, Outcomes
  <2>2. /\ IsFiniteSet(OfKinds(deque, {"success"}, models))
        /\ IsFiniteSet(OfKinds(deque, {"failure"}, models))
    BY KindsAreFinite DEF CountsInv
  <2>3. PICK common :
          common = Cardinality(OfKinds(deque, {"success"}, models)
                                 \cap OfKinds(deque, {"failure"}, models))
    OBVIOUS
  <2>4. common \in Nat
    BY <2>2, <2>3, FS_Intersection, FS_CardinalityType
  <2>5. both = sd + fd - common
    BY <2>1, <2>2, <2>3, FS_Union
  <2> QED
    BY <1>1, <2>4, <2>5
<1> QED
  BY <1>1, <1>2, <1>3, <1>4, <1>c

Emission == {Idle} \cup [left : Ways, event : Events]

LEMMA Moved ==
  ASSUME SendingInv, NEW s \in Sources, NEW x \in Emission,
         sending' = [sending EXCEPT ![s] = x],
         x.left \in {All, Counting} => x.event.kind \in Outcomes
  PROVE  /\ SendingInv'
         /\ Between' = IF x.left = Counting THEN Between \cup {s} ELSE Between \ {s}
         /\ \A k \in Outcomes :
              Counted(k)' = IF x.left \in {Sending, Recording} /\ x.event.kind = k
                            THEN Counted(k) \cup {s} ELSE Counted(k) \ {s}
<1>1. sending \in [Sources -> Emission]
  BY DEF SendingInv, Emission
<1>2. /\ sending' \in [Sources -> Emission] /\ sending'[s] = x
      /\ \A o \in Sources : o # s => sending'[o] = sending[o]
  BY <1>1
<1>3. SendingInv'
  BY <1>2 DEF SendingInv, Emission
<1>4. Between' = IF x.left = Counting THEN Between \cup {s} ELSE Between \ {s}
  <2>1. CASE x.left = Counting
    BY <1>2, <2>1 DEF Between
  <2>2. CASE x.left # Counting
    BY <1>2, <2>2 DEF Between
  <2> QED
    BY <2>1, <2>2
<1>5. ASSUME NEW k \in Outcomes
      PROVE  Counted(k)' = IF x.left \in {Sending, Recording} /\ x.event.kind = k
                           THEN Counted(k) \cup {s} ELSE Counted(k) \ {s}
  <2>1. CASE x.left \in {Sending, Recording} /\ x.event.kind = k
    BY <1>2, <2>1 DEF Counted
  <2>2. CASE ~(x.left \in {Sending, Recording} /\ x.event.kind = k)
    BY <1>2, <2>2 DEF Counted
  <2> QED
    BY <2>1, <2>2
<1> QED
  BY <1>3, <1>4, <1>5

LEMMA EmitStep ==
  ASSUME LiveInv, NEW s \in Sources, NEW e \in Events, Emit(s, e)
  PROVE  LiveInv'
<1>1. PICK x : x = [left |-> Steps(e.kind), event |-> e]
  OBVIOUS
<1>2. e.kind \in AllKinds
  BY StatisticsAssumption DEF Events
<1>3. /\ x.left \in {All, Sending, Telling} /\ x.event = e
      /\ x.left = All => e.kind \in Outcomes
      /\ x.left = Sending => e.kind \notin Outcomes
  BY <1>1, <1>2 DEF Steps, All, Sending, Telling, AllKinds, Outcomes, Measures
<1>4. x \in Emission
  BY <1>1, <1>3 DEF Emission, Ways
<1>5. sending' = [sending EXCEPT ![s] = x] /\ sending[s] = Idle
  BY <1>1 DEF Emit
<1>6. UNCHANGED <<totals, deque, checks, page>>
  BY DEF Emit
<1>7. s \notin Between /\ \A k \in Outcomes : s \notin Counted(k)
  BY <1>5, WaysDiffer DEF Between, Counted, Idle
<1>8. SendingInv /\ (x.left \in {All, Counting} => x.event.kind \in Outcomes)
      /\ x.left # Counting /\ (x.left \in {Sending, Recording} => x.event.kind \notin Outcomes)
  BY <1>3, WaysDiffer DEF LiveInv
<1>9. /\ SendingInv'
      /\ Between' = IF x.left = Counting THEN Between \cup {s} ELSE Between \ {s}
      /\ \A k \in Outcomes :
              Counted(k)' = IF x.left \in {Sending, Recording} /\ x.event.kind = k
                            THEN Counted(k) \cup {s} ELSE Counted(k) \ {s}
  BY <1>4, <1>5, <1>8, Moved
<1>10. Between' = Between /\ \A k \in Outcomes : Counted(k)' = Counted(k)
  BY <1>7, <1>8, <1>9
<1>11. CountsInv'
  BY <1>6, <1>10 DEF LiveInv, CountsInv, Allowed
<1>12. PageInv'
  BY <1>6 DEF LiveInv, PageInv
<1> QED
  BY <1>9, <1>11, <1>12 DEF LiveInv

LEMMA EmitsStep ==
  ASSUME LiveInv, NEW s \in Sources, Emits(s)
  PROVE  LiveInv'
<1> PICK l, e : l = sending[s].left /\ e = sending[s].event
  OBVIOUS
<1>1. l \in Ways /\ e \in Events /\ (l \in {All, Counting} => e.kind \in Outcomes)
  BY DEF LiveInv, SendingInv, Emits
<1>2. PICK x : x = IF Len(l) = 1 THEN Idle ELSE [left |-> Tail(l), event |-> e]
  OBVIOUS
<1>3. sending' = [sending EXCEPT ![s] = x]
  BY <1>2 DEF Emits
<1>4. /\ totals' = CASE Head(l) = "total" -> [totals EXCEPT !["requests"] = @ + 1]
                     [] Head(l) = "outcome" -> [totals EXCEPT ![e.kind] = @ + 1]
                     [] OTHER -> totals
      /\ deque' = IF Head(l) = "record" THEN LastOf(Append(deque, e), MaxEvents) ELSE deque
      /\ page' = page /\ checks' = checks
  BY DEF Emits
<1>5. SendingInv /\ PageInv /\ totals \in Counts /\ deque \in Seq(Recorded)
      /\ IsFiniteSet(Between) /\ \A k \in Outcomes : IsFiniteSet(Counted(k))
  BY DEF LiveInv, CountsInv
<1>c. checks \in CheckCounts /\ \A k \in Outcomes : checks[k] \in Nat /\ checks[k] <= checks[k]
  BY DEF LiveInv, CountsInv, CheckCounts
<1>s. ASSUME x \in Emission, x.left \in {All, Counting} => x.event.kind \in Outcomes
      PROVE  /\ SendingInv'
             /\ Between' = IF x.left = Counting THEN Between \cup {s} ELSE Between \ {s}
             /\ \A k \in Outcomes :
                  Counted(k)' = IF x.left \in {Sending, Recording} /\ x.event.kind = k
                                THEN Counted(k) \cup {s} ELSE Counted(k) \ {s}
  BY <1>3, <1>5, <1>s, Moved
<1>p. ASSUME totals' \in Counts, \A k \in DOMAIN totals : totals[k] <= totals'[k] PROVE PageInv'
  BY <1>4, <1>5, <1>c, <1>p, PageStays
<1>u. ASSUME totals' = totals PROVE PageInv'
  BY <1>4, <1>5, <1>u DEF PageInv
<1>6. CASE l = All
  <2>1. x = [left |-> Counting, event |-> e] /\ x \in Emission
    <3>1. Len(l) # 1 /\ Tail(l) = Counting
      BY <1>6, WaysGoOn
    <3>2. x = [left |-> Counting, event |-> e]
      BY <1>2, <3>1
    <3> QED
      BY <1>1, <3>2 DEF Emission, Ways
  <2>2. /\ SendingInv' /\ Between' = Between \cup {s}
        /\ \A k \in Outcomes : Counted(k)' = Counted(k)
    BY <1>1, <1>6, <1>s, <2>1, WaysDiffer DEF Counted
  <2>3. Cardinality(Between') <= Cardinality(Between) + 1 /\ IsFiniteSet(Between')
        /\ Cardinality(Between) \in Nat /\ Cardinality(Between') \in Nat
    <3>1. PICK b : b = Cardinality(Between) /\ b \in Nat
      BY <1>5, FS_CardinalityType
    <3>2. /\ IsFiniteSet(Between')
          /\ Cardinality(Between') = IF s \in Between THEN b ELSE b + 1
      BY <1>5, <2>2, <3>1, FS_AddElement
    <3> QED
      BY <3>1, <3>2
  <2>4. totals' = [totals EXCEPT !["requests"] = totals["requests"] + 1] /\ deque' = deque
    BY <1>4, <1>6, WaysGoOn
  <2>5. /\ totals' \in Counts /\ totals'["requests"] = totals["requests"] + 1
        /\ \A k \in Outcomes : totals'[k] = totals[k]
        /\ \A k \in DOMAIN totals : totals[k] <= totals'[k]
    BY <1>5, <2>4 DEF Counts, Outcomes
  <2>6. CountsInv'
    <3>1. totals'["success"] + totals'["failure"] + Cardinality(Between') <= totals'["requests"]
      <4>1. /\ totals["success"] \in Nat /\ totals["failure"] \in Nat
            /\ totals["requests"] \in Nat
            /\ totals["success"] + totals["failure"] + Cardinality(Between) <= totals["requests"]
        BY DEF LiveInv, CountsInv, Counts, Outcomes
      <4>2. totals'["success"] = totals["success"] /\ totals'["failure"] = totals["failure"]
        BY <2>5 DEF Outcomes
      <4> QED
        BY <2>3, <2>5, <4>1, <4>2
    <3> QED
      BY <1>4, <1>5, <2>2, <2>3, <2>4, <2>5, <3>1 DEF LiveInv, CountsInv, Allowed
  <2> QED
    BY <1>p, <2>2, <2>5, <2>6 DEF LiveInv
<1>7. CASE l = Counting
  <2>1. x = [left |-> Sending, event |-> e] /\ x \in Emission /\ e.kind \in Outcomes
    <3>1. Len(l) # 1 /\ Tail(l) = Sending
      BY <1>7, WaysGoOn
    <3>2. x = [left |-> Sending, event |-> e]
      BY <1>2, <3>1
    <3> QED
      BY <1>1, <1>7, <3>2 DEF Emission, Ways
  <2>2. /\ SendingInv' /\ Between' = Between \ {s}
        /\ Counted(e.kind)' = Counted(e.kind) \cup {s}
        /\ \A k \in Outcomes : k # e.kind => Counted(k)' = Counted(k)
    BY <1>1, <1>7, <1>s, <2>1, WaysDiffer DEF Counted
  <2>3. s \in Between
    BY <1>7 DEF Between
  <2>4. /\ Cardinality(Between') = Cardinality(Between) - 1 /\ IsFiniteSet(Between')
        /\ Cardinality(Between) \in Nat
    BY <1>5, <2>2, <2>3, FS_RemoveElement, FS_CardinalityType
  <2>5. /\ Cardinality(Counted(e.kind)') <= Cardinality(Counted(e.kind)) + 1
        /\ IsFiniteSet(Counted(e.kind)')
        /\ Cardinality(Counted(e.kind)) \in Nat /\ Cardinality(Counted(e.kind)') \in Nat
    <3>1. PICK b : b = Cardinality(Counted(e.kind)) /\ b \in Nat
      BY <1>5, <2>1, FS_CardinalityType
    <3>2. /\ IsFiniteSet(Counted(e.kind)')
          /\ Cardinality(Counted(e.kind)') = IF s \in Counted(e.kind) THEN b ELSE b + 1
      BY <1>5, <2>1, <2>2, <3>1, FS_AddElement
    <3> QED
      BY <3>1, <3>2
  <2>6. totals' = [totals EXCEPT ![e.kind] = totals[e.kind] + 1] /\ deque' = deque
    BY <1>4, <1>7, WaysGoOn
  <2>7. /\ totals' \in Counts /\ totals'[e.kind] = totals[e.kind] + 1
        /\ totals'["requests"] = totals["requests"]
        /\ \A k \in Outcomes : k # e.kind => totals'[k] = totals[k]
        /\ \A k \in DOMAIN totals : totals[k] <= totals'[k]
    BY <1>5, <2>1, <2>6 DEF Counts, Outcomes
  <2>8. totals'["success"] + totals'["failure"] + Cardinality(Between') <= totals'["requests"]
    <3>1. /\ totals["success"] \in Nat /\ totals["failure"] \in Nat
          /\ totals["requests"] \in Nat
          /\ totals["success"] + totals["failure"] + Cardinality(Between) <= totals["requests"]
      BY DEF LiveInv, CountsInv, Counts, Outcomes
    <3>2. totals'["success"] + totals'["failure"] = totals["success"] + totals["failure"] + 1
      BY <2>1, <2>7, <3>1 DEF Outcomes
    <3>3. totals'["success"] \in Nat /\ totals'["failure"] \in Nat
      BY <2>7 DEF Counts, Outcomes
    <3> QED
      BY <2>4, <2>7, <3>1, <3>2, <3>3
  <2>9. ASSUME NEW k \in Outcomes, NEW models \in Groups
        PROVE  Cardinality(OfKinds(deque, {k}, models)) + Cardinality(Counted(k)') <= Allowed(models, k)'
    <3> PICK n, c : /\ n = Cardinality(OfKinds(deque, {k}, models))
                    /\ c = IF Unnamed \in models THEN checks[k] ELSE 0
      OBVIOUS
    <3>1. /\ n \in Nat /\ c \in Nat /\ totals[k] \in Nat
          /\ n + Cardinality(Counted(k)) <= totals[k] + c
          /\ Allowed(models, k)' = totals'[k] + c
      BY <1>4, <1>5, <1>c, KindsAreFinite DEF LiveInv, CountsInv, Counts, Allowed
    <3>2. CASE k = e.kind
      BY <2>5, <2>7, <3>1, <3>2
    <3>3. CASE k # e.kind
      BY <2>2, <2>7, <3>1, <3>3
    <3> QED
      BY <3>2, <3>3
  <2>10. \A k \in Outcomes : IsFiniteSet(Counted(k)')
    BY <1>5, <2>2, <2>5
  <2>11. CountsInv'
    BY <1>4, <1>5, <1>c, <2>4, <2>6, <2>7, <2>8, <2>9, <2>10 DEF CountsInv
  <2> QED
    BY <1>p, <2>2, <2>7, <2>11 DEF LiveInv
<1>8. CASE l = Sending
  <2>1. x = [left |-> Recording, event |-> e] /\ x \in Emission
    <3>1. Len(l) # 1 /\ Tail(l) = Recording
      BY <1>8, WaysGoOn
    <3>2. x = [left |-> Recording, event |-> e]
      BY <1>2, <3>1
    <3> QED
      BY <1>1, <3>2 DEF Emission, Ways
  <2>2. /\ SendingInv' /\ Between' = Between
        /\ \A k \in Outcomes : Counted(k)' = Counted(k)
    <3>1. x.left = Recording /\ x.event = e /\ sending[s].left = Sending /\ e = sending[s].event
      BY <1>8, <2>1
    <3>2. /\ SendingInv' /\ Between' = Between \ {s}
          /\ \A k \in Outcomes : Counted(k)' = IF e.kind = k THEN Counted(k) \cup {s} ELSE Counted(k) \ {s}
      BY <1>s, <2>1, <3>1, WaysDiffer
    <3>3. s \notin Between /\ \A k \in Outcomes : s \in Counted(k) <=> e.kind = k
      BY <3>1, WaysDiffer DEF Between, Counted
    <3> QED
      BY <3>2, <3>3
  <2>3. totals' = totals /\ deque' = deque
    BY <1>4, <1>8, WaysGoOn
  <2>4. CountsInv'
    BY <1>4, <2>2, <2>3 DEF LiveInv, CountsInv, Allowed
  <2> QED
    BY <1>u, <2>2, <2>3, <2>4 DEF LiveInv
<1>9. CASE l = Recording
  <2>1. x = Idle /\ x \in Emission
    BY <1>2, <1>9, WaysGoOn DEF Emission
  <2>2. /\ SendingInv' /\ Between' = Between
        /\ \A k \in Outcomes : Counted(k)' = Counted(k) \ {s}
    BY <1>9, <1>s, <2>1, WaysDiffer DEF Idle, Between
  <2>3. totals' = totals /\ deque' = LastOf(Append(deque, e), MaxEvents)
    BY <1>4, <1>9, WaysGoOn
  <2>4. ASSUME NEW k \in Outcomes, NEW models \in Groups
        PROVE  /\ IsFiniteSet(Counted(k)') /\ deque' \in Seq(Recorded)
               /\ Cardinality(OfKinds(deque', {k}, models)) + Cardinality(Counted(k)')
                    <= Allowed(models, k)'
    <3>0. MaxEvents \in Nat \ {0} /\ e \in Recorded
      BY <1>1, StatisticsAssumption DEF Recorded
    <3> PICK before, added, after, allowed :
          /\ before = Cardinality(OfKinds(deque, {k}, models))
          /\ added = Cardinality(OfKinds(Append(deque, e), {k}, models))
          /\ after = Cardinality(OfKinds(deque', {k}, models))
          /\ allowed = Allowed(models, k)
      OBVIOUS
    <3>1. /\ Append(deque, e) \in Seq(Recorded)
          /\ added = before + (IF e.kind \in {k} /\ e.model \in models THEN 1 ELSE 0)
      BY <1>5, <3>0, AppendCounts
    <3>2. deque' \in Seq(Recorded) /\ after <= added
      BY <2>3, <3>0, <3>1, ForgettingIsPoorer
    <3>3. before \in Nat /\ after \in Nat
      BY <1>5, <3>2, KindsAreFinite
    <3>4. /\ IsFiniteSet(Counted(k)') /\ Cardinality(Counted(k)) \in Nat
          /\ Cardinality(Counted(k)')
               = IF s \in Counted(k) THEN Cardinality(Counted(k)) - 1 ELSE Cardinality(Counted(k))
      BY <1>5, <2>2, FS_RemoveElement, FS_CardinalityType
    <3>5. s \in Counted(k) <=> e.kind = k
      BY <1>9 DEF Counted
    <3>6. /\ allowed \in Nat /\ before + Cardinality(Counted(k)) <= allowed
          /\ Allowed(models, k)' = allowed
      BY <1>4, <1>5, <1>c, <2>3 DEF LiveInv, CountsInv, Counts, Allowed
    <3>7. CASE e.kind = k
      BY <3>1, <3>2, <3>3, <3>4, <3>5, <3>6, <3>7
    <3>8. CASE e.kind # k
      BY <3>1, <3>2, <3>3, <3>4, <3>5, <3>6, <3>8
    <3> QED
      BY <3>2, <3>4, <3>7, <3>8
  <2>5. "success" \in Outcomes /\ Models \in Groups
    BY DEF Outcomes, Groups
  <2>6. CountsInv'
    BY <1>4, <2>2, <2>3, <2>4, <2>5 DEF LiveInv, CountsInv
  <2> QED
    BY <1>u, <2>2, <2>3, <2>6 DEF LiveInv
<1>10. CASE l = Telling
  <2>1. x = Idle /\ x \in Emission
    BY <1>2, <1>10, WaysGoOn DEF Emission
  <2>2. /\ SendingInv' /\ Between' = Between
        /\ \A k \in Outcomes : Counted(k)' = Counted(k)
    BY <1>10, <1>s, <2>1, WaysDiffer DEF Idle, Between, Counted
  <2>3. totals' = totals /\ deque' = deque
    BY <1>4, <1>10, WaysGoOn
  <2>4. CountsInv'
    BY <1>4, <2>2, <2>3 DEF LiveInv, CountsInv, Allowed
  <2> QED
    BY <1>u, <2>2, <2>3, <2>4 DEF LiveInv
<1> QED
  BY <1>1, <1>6, <1>7, <1>8, <1>9, <1>10 DEF Ways

LEMMA CheckStep ==
  ASSUME LiveInv, NEW e \in CheckEvents, Check(e)
  PROVE  LiveInv'
<1>1. /\ UNCHANGED <<sending, totals, page>>
      /\ deque' = LastOf(Append(deque, e), MaxEvents)
      /\ checks' = [checks EXCEPT ![e.kind] = checks[e.kind] + 1]
  BY DEF Check
<1>2. e \in Recorded /\ e.kind \in Outcomes /\ e.model = Unnamed /\ MaxEvents \in Nat \ {0}
  BY StatisticsAssumption DEF Recorded, CheckEvents
<1>3. SendingInv' /\ Between' = Between /\ \A k \in Outcomes : Counted(k)' = Counted(k)
  BY <1>1 DEF LiveInv, SendingInv, Between, Counted
<1>4. PageInv /\ totals \in Counts /\ checks \in CheckCounts /\ deque \in Seq(Recorded)
  BY DEF LiveInv, CountsInv
<1>5. /\ checks' \in CheckCounts
      /\ \A k \in Outcomes : /\ checks[k] \in Nat
                             /\ checks'[k] = checks[k] + (IF k = e.kind THEN 1 ELSE 0)
                             /\ checks[k] <= checks'[k]
  BY <1>1, <1>2, <1>4 DEF CheckCounts
<1>6. PageInv'
  <2>1. totals' = totals /\ \A k \in DOMAIN totals : totals[k] <= totals'[k]
    BY <1>1, <1>4 DEF Counts
  <2> QED
    BY <1>1, <1>4, <1>5, <2>1, PageStays
<1>7. ASSUME NEW k \in Outcomes, NEW models \in Groups
      PROVE  /\ deque' \in Seq(Recorded)
             /\ Cardinality(OfKinds(deque', {k}, models)) + Cardinality(Counted(k)')
                  <= Allowed(models, k)'
  <2> PICK before, added, after, counted :
        /\ before = Cardinality(OfKinds(deque, {k}, models))
        /\ added = Cardinality(OfKinds(Append(deque, e), {k}, models))
        /\ after = Cardinality(OfKinds(deque', {k}, models))
        /\ counted = Cardinality(Counted(k))
    OBVIOUS
  <2>1. /\ Append(deque, e) \in Seq(Recorded)
        /\ added = before + (IF e.kind \in {k} /\ e.model \in models THEN 1 ELSE 0)
    BY <1>2, <1>4, AppendCounts
  <2>2. deque' \in Seq(Recorded) /\ after <= added
    BY <1>1, <1>2, <2>1, ForgettingIsPoorer
  <2>3. before \in Nat /\ after \in Nat /\ counted \in Nat /\ totals[k] \in Nat
    BY <1>4, <2>2, KindsAreFinite, FS_CardinalityType DEF LiveInv, CountsInv, Counts
  <2>4. before + counted <= Allowed(models, k)
    BY DEF LiveInv, CountsInv
  <2>5. CASE Unnamed \in models
    <3>1. /\ Allowed(models, k) = totals[k] + checks[k]
          /\ Allowed(models, k)' = totals[k] + checks'[k]
      BY <1>1, <2>5 DEF Allowed
    <3>2. added <= before + (IF k = e.kind THEN 1 ELSE 0) /\ added \in Nat
      BY <2>1, <2>3
    <3>3. after + counted <= totals[k] + checks'[k]
      BY <1>5, <2>2, <2>3, <2>4, <3>1, <3>2
    <3> QED
      BY <1>3, <2>2, <3>1, <3>3
  <2>6. CASE Unnamed \notin models
    <3>1. Allowed(models, k) = totals[k] + 0 /\ Allowed(models, k)' = totals[k] + 0
      BY <1>1, <2>6 DEF Allowed
    <3> QED
      BY <1>2, <1>3, <2>1, <2>2, <2>3, <2>4, <2>6, <3>1
  <2> QED
    BY <2>2, <2>5, <2>6
<1>8. deque' \in Seq(Recorded)
  BY <1>2, <1>7 DEF Groups
<1>9. CountsInv'
  BY <1>1, <1>3, <1>5, <1>7, <1>8 DEF LiveInv, CountsInv
<1> QED
  BY <1>3, <1>6, <1>9 DEF LiveInv

(* What a summary counts is in the deque.                                  *)
LEMMA SummariesFit ==
  ASSUME CountsInv, NEW h \in Hosts
  PROVE  Within(get_provider_summary(h), totals, checks)
<1> PICK places : places = get_events_for({h}, Models)
  OBVIOUS
<1> PICK n, f : n = Cardinality(Of(places, "success")) /\ f = Cardinality(Of(places, "failure"))
  OBVIOUS
<1>0. Models \in Groups /\ Unnamed \in Models
  BY DEF Groups, Models
<1>1. ASSUME NEW k \in Outcomes
      PROVE  /\ Cardinality(Of(places, k)) \in Nat
             /\ Cardinality(Of(places, k)) <= Cardinality(OfKinds(deque, {k}, Models))
             /\ Cardinality(OfKinds(deque, {k}, Models)) \in Nat
  <2>1. Of(places, k) \in SUBSET OfKinds(deque, {k}, Models)
    BY DEF get_events_for, Of, OfKinds
  <2>2. /\ IsFiniteSet(OfKinds(deque, {k}, Models))
        /\ Cardinality(OfKinds(deque, {k}, Models)) \in Nat
    BY KindsAreFinite DEF CountsInv
  <2> QED
    BY <2>1, <2>2, FS_Subset, FS_CardinalityType
<1>2. /\ n \in Nat /\ n <= Cardinality(OfKinds(deque, {"success"}, Models))
      /\ f \in Nat /\ f <= Cardinality(OfKinds(deque, {"failure"}, Models))
      /\ Cardinality(OfKinds(deque, {"success"}, Models)) \in Nat
      /\ Cardinality(OfKinds(deque, {"failure"}, Models)) \in Nat
  BY <1>1 DEF Outcomes
<1>3. /\ totals["success"] \in Nat /\ totals["requests"] \in Nat
      /\ checks["success"] \in Nat /\ checks["failure"] \in Nat
      /\ Allowed(Models, "success") = totals["success"] + checks["success"]
      /\ Checked(Models, checks) = checks["success"] + checks["failure"]
  BY <1>0 DEF CountsInv, Counts, CheckCounts, Outcomes, Allowed, Checked
<1>4. /\ n <= totals["success"] + checks["success"]
      /\ n + f <= totals["requests"] + Checked(Models, checks) /\ n + f \in Nat
  <2>1. /\ Cardinality(OfKinds(deque, {"success"}, Models)) <= Allowed(Models, "success")
        /\ Cardinality(OfKinds(deque, {"success"}, Models))
             + Cardinality(OfKinds(deque, {"failure"}, Models))
             <= totals["requests"] + Checked(Models, checks)
    BY <1>0, DequeIsCounted
  <2> QED
    BY <1>2, <1>3, <2>1
<1>5. get_provider_summary(h).rate = success_rate(places)
  BY DEF get_provider_summary, compute_metrics_summary
<1>6. \A rate \in success_rate(places) : rate = <<n, n + f>>
  BY DEF success_rate, Successes, Ended
<1> QED
  BY <1>2, <1>4, <1>5, <1>6 DEF Within

LEMMA GetMetricsStep ==
  ASSUME LiveInv, GetMetrics
  PROVE  LiveInv'
<1>1. UNCHANGED <<sending, totals, deque, checks>>
  BY DEF GetMetrics
<1>2. SendingInv' /\ CountsInv'
  BY <1>1 DEF LiveInv, SendingInv, CountsInv, Between, Counted, Allowed
<1>3. CASE page.at = "none"
  <2>1. PICK h \in Hosts :
          page' = [at |-> "events", host |-> h, summary |-> get_provider_summary(h)]
    BY <1>3 DEF GetMetrics
  <2>2. page'.at = "events" /\ page'.summary = get_provider_summary(h)
    BY <2>1
  <2>3. Within(get_provider_summary(h), totals, checks)
    BY SummariesFit DEF LiveInv
  <2> QED
    BY <1>1, <1>2, <2>2, <2>3 DEF LiveInv, PageInv
<1>4. CASE page.at = "events"
  <2>1. page' = [at |-> "totals", host |-> page.host, summary |-> page.summary,
                 recent |-> LastOf(deque, Recent)]
    BY <1>4 DEF GetMetrics
  <2>2. page'.at = "totals" /\ page'.summary = page.summary /\ page'.recent = LastOf(deque, Recent)
    BY <2>1
  <2>3. ASSUME NEW models \in Groups
        PROVE  /\ Cardinality(OfKinds(LastOf(deque, Recent), Outcomes, models)) \in Nat
               /\ Cardinality(OfKinds(LastOf(deque, Recent), Outcomes, models))
                    <= totals["requests"] + Checked(models, checks)
    <3>1. deque \in Seq(Recorded) /\ Recent \in Nat \ {0}
      BY StatisticsAssumption DEF LiveInv, CountsInv
    <3> PICK shown, held :
          /\ shown = Cardinality(OfKinds(LastOf(deque, Recent), Outcomes, models))
          /\ held = Cardinality(OfKinds(deque, Outcomes, models))
      OBVIOUS
    <3>2. LastOf(deque, Recent) \in Seq(Recorded) /\ shown <= held
      BY <3>1, ForgettingIsPoorer
    <3>3. shown \in Nat /\ held \in Nat
      BY <3>1, <3>2, KindsAreFinite
    <3>4. held <= totals["requests"] + Checked(models, checks)
      BY DequeIsCounted DEF LiveInv
    <3>5. totals["requests"] + Checked(models, checks) \in Nat
      BY DEF LiveInv, CountsInv, Counts, CheckCounts, Checked, Outcomes
    <3> QED
      BY <3>2, <3>3, <3>4, <3>5
  <2>6. Fits(LastOf(deque, Recent), totals, checks)
    BY <2>3 DEF Fits
  <2> QED
    BY <1>1, <1>2, <1>4, <2>2, <2>6 DEF LiveInv, PageInv
<1>5. CASE page.at = "totals"
  <2>1. page' = [at |-> "shown", host |-> page.host, summary |-> page.summary,
                 recent |-> page.recent, totals |-> totals]
    BY <1>5 DEF GetMetrics
  <2>2. /\ page'.at = "shown" /\ page'.summary = page.summary /\ page'.recent = page.recent
        /\ page'.totals = totals /\ totals \in Counts
    BY <2>1 DEF LiveInv, CountsInv
  <2> QED
    BY <1>1, <1>2, <1>5, <2>2 DEF LiveInv, PageInv
<1>6. CASE page.at \notin {"none", "events", "totals"}
  <2>1. page'.at = "none"
    BY <1>6 DEF GetMetrics, NoPage
  <2> QED
    BY <1>2, <2>1 DEF LiveInv, PageInv
<1> QED
  BY <1>3, <1>4, <1>5, <1>6

(* Nobody sends, nothing was counted: at the start, and at every restart.  *)
LEMMA FreshStart ==
  ASSUME sending' = [s \in Sources |-> Idle], totals' = Fresh, deque' = << >>,
         checks' = Unchecked, page' = NoPage
  PROVE  LiveInv'
<1>1. SendingInv'
  BY WaysDiffer DEF SendingInv, Idle
<1>2. Between' = {} /\ \A k \in Outcomes : Counted(k)' = {}
  BY WaysDiffer DEF Between, Counted, Idle
<1>3. /\ totals' \in Counts /\ \A k \in {"requests"} \cup Outcomes : totals'[k] = 0
      /\ checks' \in CheckCounts /\ \A k \in Outcomes : checks'[k] = 0
  BY DEF Fresh, Unchecked, Counts, CheckCounts, Outcomes
<1>4. /\ deque' \in Seq(Recorded) /\ \A k, models : OfKinds(deque', {k}, models) = {}
  BY DEF OfKinds
<1>5. IsFiniteSet({}) /\ Cardinality({}) = 0
  BY FS_EmptySet
<1>6. totals'["success"] = 0 /\ totals'["failure"] = 0 /\ totals'["requests"] = 0
  BY <1>3 DEF Outcomes
<1>7. CountsInv'
  <2>1. ASSUME NEW k \in Outcomes, NEW models \in Groups
        PROVE  Cardinality(OfKinds(deque', {k}, models)) + Cardinality(Counted(k)')
                 <= Allowed(models, k)'
    <3>1. /\ Cardinality(OfKinds(deque', {k}, models)) = 0 /\ Cardinality(Counted(k)') = 0
          /\ Allowed(models, k)' = 0
      <4>1. totals'[k] = 0 /\ checks'[k] = 0
        BY <1>3
      <4>2. Allowed(models, k)' = 0
        BY <4>1 DEF Allowed
      <4> QED
        BY <1>2, <1>4, <1>5, <4>2
    <3> QED
      BY <3>1
  <2>3. ASSUME NEW k \in Outcomes PROVE IsFiniteSet(Counted(k)')
    BY <1>2, <1>5
  <2>2. totals'["success"] + totals'["failure"] + Cardinality(Between') <= totals'["requests"]
    BY <1>2, <1>5, <1>6
  <2> QED
    BY <1>2, <1>3, <1>4, <1>5, <2>1, <2>2, <2>3 DEF CountsInv
<1>8. PageInv'
  BY DEF PageInv, NoPage
<1> QED
  BY <1>1, <1>7, <1>8 DEF LiveInv

LEMMA LiveInvariance == StatisticsSpec => []LiveInv
<1>1. StatisticsInit => LiveInv
  <2> SUFFICES ASSUME StatisticsInit PROVE LiveInv
    OBVIOUS
  <2>1. SendingInv
    BY WaysDiffer DEF StatisticsInit, SendingInv, Idle
  <2>2. Between = {} /\ \A k \in Outcomes : Counted(k) = {}
    BY WaysDiffer DEF StatisticsInit, Between, Counted, Idle
  <2>3. /\ totals \in Counts /\ \A k \in {"requests"} \cup Outcomes : totals[k] = 0
        /\ checks \in CheckCounts /\ \A k \in Outcomes : checks[k] = 0
    BY DEF StatisticsInit, Fresh, Unchecked, Counts, CheckCounts, Outcomes
  <2>4. deque \in Seq(Recorded) /\ \A k, models : OfKinds(deque, {k}, models) = {}
    BY DEF StatisticsInit, OfKinds
  <2>5. IsFiniteSet({}) /\ Cardinality({}) = 0
    BY FS_EmptySet
  <2>6. totals["success"] = 0 /\ totals["failure"] = 0 /\ totals["requests"] = 0
    BY <2>3 DEF Outcomes
  <2>7. CountsInv
    <3>1. ASSUME NEW k \in Outcomes, NEW models \in Groups
          PROVE  Cardinality(OfKinds(deque, {k}, models)) + Cardinality(Counted(k))
                   <= Allowed(models, k)
      <4>1. /\ Cardinality(OfKinds(deque, {k}, models)) = 0 /\ Cardinality(Counted(k)) = 0
            /\ Allowed(models, k) = 0
        <5>1. totals[k] = 0 /\ checks[k] = 0
          BY <2>3
        <5>2. Allowed(models, k) = 0
          BY <5>1 DEF Allowed
        <5> QED
          BY <2>2, <2>4, <2>5, <5>2
      <4> QED
        BY <4>1
    <3>3. \A k \in Outcomes : IsFiniteSet(Counted(k))
      BY <2>2, <2>5
    <3>2. totals["success"] + totals["failure"] + Cardinality(Between) <= totals["requests"]
      BY <2>2, <2>5, <2>6
    <3> QED
      BY <2>2, <2>3, <2>4, <2>5, <3>1, <3>2, <3>3 DEF CountsInv
  <2>8. PageInv
    BY DEF StatisticsInit, PageInv, NoPage
  <2> QED
    BY <2>1, <2>7, <2>8 DEF LiveInv
<1>2. LiveInv /\ [LiveNext \/ PastNext \/ Restart]_statistics => LiveInv'
  <2> SUFFICES ASSUME LiveInv, [LiveNext \/ PastNext \/ Restart]_statistics PROVE LiveInv'
    OBVIOUS
  <2>1. ASSUME UNCHANGED <<sending, totals, deque, checks, page>> PROVE LiveInv'
    BY <2>1 DEF LiveInv, SendingInv, CountsInv, PageInv, Between, Counted, Allowed
  <2>8. CASE \E e \in CheckEvents : Check(e)
    BY <2>8, CheckStep
  <2>2. CASE \E s \in Sources : Emits(s) \/ \E e \in Events : Emit(s, e)
    BY <2>2, EmitsStep, EmitStep
  <2>3. CASE \E v \in Viewers : Feed(v)
    BY <2>1, <2>3 DEF Feed
  <2>4. CASE GetMetrics
    BY <2>4, GetMetricsStep
  <2>5. CASE PastNext
    BY <2>1, <2>5 DEF PastNext, load_history_from_db, take_snapshot, save_metrics_snapshot,
       prune_metrics_snapshots, push_snapshot, Wait, live
  <2>6. CASE Restart
    BY <2>6, FreshStart DEF Restart
  <2>7. CASE UNCHANGED statistics
    BY <2>1, <2>7 DEF statistics, live
  <2> QED
    BY <2>2, <2>3, <2>4, <2>5, <2>6, <2>7, <2>8 DEF LiveNext
<1> QED
  BY <1>1, <1>2, PTL DEF StatisticsSpec

(* A page never shows more outcomes than it counts and than health checks  *)
(* had, nor more of the named models than it counts, however many sources  *)
(* emit while its three reads go by and whatever the deque has forgotten   *)
(* (get_metrics in health.rs, emit and record in metrics.rs).              *)
THEOREM PagesAddUp == StatisticsSpec => []PageAddsUp
<1>1. LiveInv => PageAddsUp
  <2> SUFFICES ASSUME LiveInv, page.at = "shown" PROVE PageAddsUp
    BY DEF PageAddsUp
  <2>1. Within(page.summary, page.totals, checks) /\ Fits(page.recent, page.totals, checks)
    BY DEF LiveInv, PageInv
  <2>2. \A models : Shown(Outcomes, models) = Cardinality(OfKinds(page.recent, Outcomes, models))
    BY DEF Shown, OfKinds
  <2>3. /\ Unnamed \in Models /\ Models \in Groups
        /\ Models \ {Unnamed} \in Groups /\ Unnamed \notin Models \ {Unnamed}
    BY DEF Models, Groups
  <2>4. /\ Checked(Models, checks) = checks["success"] + checks["failure"]
        /\ Checked(Models \ {Unnamed}, checks) = 0
    BY <2>3 DEF Checked
  <2>5. page.totals["requests"] \in Nat /\ page.totals["requests"] + 0 = page.totals["requests"]
    BY DEF LiveInv, PageInv, Counts
  <2>6. /\ Shown(Outcomes, Models \ {Unnamed}) <= page.totals["requests"]
        /\ Shown(Outcomes, Models) <= page.totals["requests"] + (checks["success"] + checks["failure"])
    BY <2>1, <2>2, <2>3, <2>4, <2>5 DEF Fits
  <2>7. \A rate \in page.summary.rate :
          /\ rate[1] <= page.totals["success"] + checks["success"]
          /\ rate[2] <= page.totals["requests"] + (checks["success"] + checks["failure"])
    BY <2>1, <2>4 DEF Within
  <2> QED
    BY <2>6, <2>7 DEF PageAddsUp
<1> QED
  BY LiveInvariance, <1>1, PTL

---------------------------------------------------------------------------
(* The history.                                                            *)

Dated(rows) ==
  /\ IsFiniteSet(rows) /\ \A r \in rows : r.at \in Nat
  /\ \A r, q \in rows : r.at = q.at => r = q

(* InOrder lists the rows, the older first.                                *)
LEMMA InOrderLists ==
  ASSUME NEW rows, Dated(rows)
  PROVE  /\ InOrder(rows) \in Seq(rows)
         /\ \A r \in rows : \E n \in DOMAIN InOrder(rows) : InOrder(rows)[n] = r
         /\ \A i, j \in DOMAIN InOrder(rows) : i < j => InOrder(rows)[i].at < InOrder(rows)[j].at
<1> DEFINE older(r) == {q \in rows : q.at < r.at}
           N == Cardinality(rows)
           place == [r \in rows |-> Cardinality(older(r)) + 1]
           e(n) == CHOOSE r \in rows : Cardinality(older(r)) = n - 1
<1>0. N \in Nat /\ IsFiniteSet(rows) /\ \A r \in rows : r.at \in Nat
  BY FS_CardinalityType DEF Dated
<1>1. ASSUME NEW r \in rows
      PROVE  /\ IsFiniteSet(older(r)) /\ Cardinality(older(r)) \in Nat
             /\ Cardinality(older(r)) < N
  <2>1. older(r) \in SUBSET rows /\ r \notin older(r)
    BY <1>0
  <2>2. /\ IsFiniteSet(older(r)) /\ Cardinality(older(r)) <= N
        /\ N = Cardinality(older(r)) => rows = older(r)
    BY <1>0, <2>1, FS_Subset
  <2>3. Cardinality(older(r)) \in Nat
    BY <2>2, FS_CardinalityType
  <2> QED
    BY <1>0, <2>1, <2>2, <2>3
<1>2. ASSUME NEW r \in rows, NEW q \in rows, r.at < q.at
      PROVE  Cardinality(older(r)) < Cardinality(older(q))
  <2>1. older(r) \in SUBSET older(q) /\ r \in older(q) /\ r \notin older(r)
    BY <1>0, <1>2
  <2>2. /\ Cardinality(older(r)) <= Cardinality(older(q))
        /\ Cardinality(older(q)) = Cardinality(older(r)) => older(q) = older(r)
    BY <1>1, <2>1, FS_Subset
  <2> HIDE DEF older
  <2> QED
    BY <1>1, <2>1, <2>2
<1>3. ASSUME NEW r \in rows, NEW q \in rows
      PROVE  r = q \/ r.at < q.at \/ q.at < r.at
  BY <1>0 DEF Dated
<1> HIDE DEF older
<1>4. place \in [rows -> 1..N]
  BY <1>0, <1>1
<1>5. place \in Injection(rows, 1..N)
  <2>1. ASSUME NEW r \in rows, NEW q \in rows, place[r] = place[q] PROVE r = q
    <3>1. Cardinality(older(r)) = Cardinality(older(q))
      BY <1>1, <2>1
    <3> QED
      BY <1>1, <1>2, <1>3, <3>1
  <2> HIDE DEF place
  <2> QED
    BY <1>4, <2>1 DEF Injection, IsInjective
<1>6. place \in Surjection(rows, 1..N)
  <2>1. IsFiniteSet(1..N) /\ Cardinality(1..N) = N
    BY <1>0, FS_Interval
  <2> HIDE DEF place
  <2> QED
    BY <1>5, <2>1, FS_Injection
<1>7. \A n \in 1..N : \E r \in rows : place[r] = n
  <2> HIDE DEF place
  <2> QED
    BY <1>6 DEF Surjection
<1>8. ASSUME NEW n \in 1..N PROVE e(n) \in rows /\ Cardinality(older(e(n))) = n - 1
  <2>1. PICK r \in rows : Cardinality(older(r)) + 1 = n
    BY <1>7
  <2>2. Cardinality(older(r)) = n - 1
    BY <1>0, <1>1, <2>1
  <2> QED
    BY <2>2
<1>9. InOrder(rows) = [n \in 1..N |-> e(n)]
  BY DEF InOrder, older
<1> HIDE DEF e
<1>10. InOrder(rows) \in Seq(rows) /\ DOMAIN InOrder(rows) = 1..N
  <2>1. [n \in 1..N |-> e(n)] \in [1..N -> rows]
    BY <1>8
  <2> QED
    BY <1>0, <1>9, <2>1, IsASeq
<1>11. ASSUME NEW r \in rows PROVE \E n \in 1..N : InOrder(rows)[n] = r
  <2>1. place[r] \in 1..N /\ place[r] = Cardinality(older(r)) + 1
    BY <1>4
  <2>2. e(place[r]) \in rows /\ Cardinality(older(e(place[r]))) = place[r] - 1
    BY <1>8, <2>1
  <2>3. Cardinality(older(e(place[r]))) = Cardinality(older(r))
    <3> HIDE DEF place
    <3> QED
      BY <1>1, <2>1, <2>2
  <2>4. e(place[r]) = r
    BY <1>1, <1>2, <1>3, <2>2, <2>3
  <2> QED
    BY <1>9, <2>1, <2>4
<1>12. ASSUME NEW i \in 1..N, NEW j \in 1..N, i < j
       PROVE  InOrder(rows)[i].at < InOrder(rows)[j].at
  <2>1. /\ e(i) \in rows /\ Cardinality(older(e(i))) = i - 1
        /\ e(j) \in rows /\ Cardinality(older(e(j))) = j - 1
    BY <1>8
  <2>2. Cardinality(older(e(i))) < Cardinality(older(e(j)))
    BY <1>0, <1>12, <2>1
  <2>3. e(i).at < e(j).at
    BY <1>1, <1>2, <1>3, <2>1, <2>2
  <2> QED
    BY <1>9, <2>3
<1> QED
  BY <1>10, <1>11, <1>12

Dates == {t.at : t \in taken}
NewerDates(d) == {x \in Dates : x > d}
SavedAt(d) == \E t \in taken : t.at = d /\ t.saved

(* The dates of the snapshots that should outlive a restart.               *)
Wanted(d) ==
  /\ SavedAt(d) /\ d >= Cutoff(date)
  /\ Cardinality(NewerDates(d)) < MaxSnapshots

AtWork == snapper.does \in {"save", "prune", "push"}

TakenInv ==
  /\ date \in Nat /\ taken \in SUBSET [at : Nat, saved : BOOLEAN]
  /\ IsFiniteSet(taken) /\ IsFiniteSet(Dates)
  /\ \A t \in taken : t.at <= date

(* The database holds whatever is wanted, and nothing that was not taken.  *)
StoredInv ==
  /\ Dated(stored) /\ \A r \in stored : r.at \in Dates
  /\ \A d \in Nat : Wanted(d) => \E r \in stored : r.at = d

SnapperInv ==
  /\ snapper = [does |-> snapper.does, snapshot |-> snapper.snapshot, loaded |-> snapper.loaded]
  /\ snapper.loaded \in BOOLEAN /\ (snapper.does = "load" => ~snapper.loaded)
  /\ AtWork => snapper.snapshot.at \in Dates

(* The history is in order, and the snapshot at work newer than it.        *)
HistoryInv ==
  /\ \E S : history \in Seq(S)
  /\ \A i \in DOMAIN history : history[i].at \in Dates
  /\ \A i, j \in DOMAIN history : i < j => history[i].at < history[j].at
  /\ AtWork => \A i \in DOMAIN history : history[i].at < snapper.snapshot.at

InHistory(d) ==
  \/ \E i \in DOMAIN history : history[i].at = d
  \/ snapper.does # "wait" /\ snapper.snapshot.at = d

SurvivorsInv == snapper.loaded => \A d \in Nat : Wanted(d) => InHistory(d)

PastInv == TakenInv /\ StoredInv /\ SnapperInv /\ HistoryInv /\ SurvivorsInv

LEMMA DatesAreDates == TakenInv => Dates \in SUBSET Nat /\ \A d \in Dates : d <= date
BY DEF TakenInv, Dates

LEMMA CutoffGrows ==
  ASSUME NEW m \in Nat, NEW n \in Nat, m <= n
  PROVE  Cutoff(m) \in Nat /\ Cutoff(n) \in Nat /\ Cutoff(m) <= Cutoff(n)
<1>1. HistoryAge \in Nat
  BY StatisticsAssumption
<1> QED
  BY <1>1 DEF Cutoff

LEMMA NewerIsFinite ==
  ASSUME TakenInv, NEW d
  PROVE  IsFiniteSet(NewerDates(d)) /\ Cardinality(NewerDates(d)) \in Nat
<1>1. NewerDates(d) \in SUBSET Dates /\ IsFiniteSet(Dates)
  BY DEF NewerDates, TakenInv
<1> QED
  BY <1>1, FS_Subset, FS_CardinalityType

(* What is wanted was wanted before, if it was saved before.               *)
LEMMA WantedBefore ==
  ASSUME TakenInv, TakenInv', Dates \subseteq Dates', date <= date',
         NEW d \in Nat, Wanted(d)', SavedAt(d)
  PROVE  Wanted(d)
<1>1. /\ IsFiniteSet(NewerDates(d)) /\ IsFiniteSet(NewerDates(d)')
      /\ Cardinality(NewerDates(d)) \in Nat /\ Cardinality(NewerDates(d)') \in Nat
  <2>1. NewerDates(d)' \in SUBSET Dates' /\ IsFiniteSet(Dates')
    BY DEF NewerDates, TakenInv
  <2> QED
    BY <2>1, NewerIsFinite, FS_Subset, FS_CardinalityType
<1>2. NewerDates(d) \in SUBSET NewerDates(d)'
  BY DEF NewerDates
<1>3. Cardinality(NewerDates(d)) <= Cardinality(NewerDates(d)')
  BY <1>1, <1>2, FS_Subset
<1>4. /\ Cutoff(date) \in Nat /\ Cutoff(date') \in Nat /\ Cutoff(date) <= Cutoff(date')
  BY CutoffGrows DEF TakenInv
<1>5. Cutoff(date)' = Cutoff(date')
  BY DEF Cutoff
<1>6. d >= Cutoff(date)
  BY <1>4, <1>5 DEF Wanted
<1>7. Cardinality(NewerDates(d)) < MaxSnapshots
  <2>1. MaxSnapshots \in Nat /\ Cardinality(NewerDates(d)') < MaxSnapshots
    BY StatisticsAssumption DEF Wanted
  <2> QED
    BY <1>1, <1>3, <2>1
<1> QED
  BY <1>6, <1>7 DEF Wanted

(* Rows are no more than their dates.                                      *)
LEMMA FewRows ==
  ASSUME TakenInv, StoredInv, NEW d \in Nat, NEW rows \in SUBSET {r \in stored : r.at > d}
  PROVE  /\ IsFiniteSet(rows) /\ Cardinality(rows) \in Nat
         /\ Cardinality(rows) <= Cardinality(NewerDates(d))
<1> PICK f : f = [r \in rows |-> r.at]
  OBVIOUS
<1>1. \A r \in rows : r \in stored /\ r.at \in NewerDates(d)
  BY DEF StoredInv, NewerDates
<1>2. \A r, q \in rows : r.at = q.at => r = q
  BY <1>1 DEF StoredInv, Dated
<1>3. f \in Injection(rows, NewerDates(d))
  BY <1>1, <1>2 DEF Injection, IsInjective
<1> QED
  BY <1>3, NewerIsFinite, FS_Injection, FS_CardinalityType

(* prune_metrics_snapshots deletes nothing that is wanted.                 *)
LEMMA PruningSpares ==
  ASSUME TakenInv, StoredInv, NEW c \in Nat, c <= Cutoff(date)
  PROVE  /\ Dated(Kept(stored, c)) /\ Kept(stored, c) \in SUBSET stored
         /\ \A d \in Nat : Wanted(d) => \E r \in Kept(stored, c) : r.at = d
<1>1. Kept(stored, c) \in SUBSET stored
  BY DEF Kept
<1>2. Dated(Kept(stored, c))
  BY <1>1, FS_Subset DEF StoredInv, Dated
<1>3. ASSUME NEW d \in Nat, Wanted(d) PROVE \E r \in Kept(stored, c) : r.at = d
  <2>1. PICK r \in stored : r.at = d
    BY <1>3 DEF StoredInv
  <2>2. r.at >= c
    <3>1. d >= Cutoff(date) /\ Cutoff(date) \in Nat
      BY <1>3, CutoffGrows DEF Wanted, TakenInv
    <3> QED
      BY <2>1, <3>1
  <2>3. ASSUME NEW q \in stored, IsNewest(stored, q, MaxSnapshots), r.at < q.at PROVE FALSE
    <3>1. {p \in stored : p.at >= q.at} \in SUBSET {p \in stored : p.at > d}
      BY <2>1, <2>3 DEF StoredInv, Dated
    <3>2. Cardinality({p \in stored : p.at >= q.at}) <= Cardinality(NewerDates(d))
      BY <3>1, FewRows
    <3>3. Cardinality({p \in stored : p.at >= q.at}) = MaxSnapshots
      BY <2>3 DEF IsNewest
    <3>4. MaxSnapshots \in Nat /\ Cardinality(NewerDates(d)) < MaxSnapshots
      BY <1>3, StatisticsAssumption DEF Wanted
    <3> QED
      BY <3>2, <3>3, <3>4, NewerIsFinite
  <2> QED
    BY <2>1, <2>2, <2>3 DEF Kept
<1> QED
  BY <1>1, <1>2, <1>3

LEMMA SameWanted ==
  ASSUME UNCHANGED <<taken, date>>
  PROVE  Dates' = Dates /\ \A d : Wanted(d)' <=> Wanted(d)
BY DEF Dates, Wanted, SavedAt, NewerDates, Cutoff

LEMMA SameTaken == TakenInv /\ UNCHANGED <<taken, date>> => TakenInv'
BY DEF TakenInv, Dates

LEMMA LoadStep ==
  ASSUME PastInv, load_history_from_db
  PROVE  PastInv'
<1>0. UNCHANGED <<taken, date>> /\ snapper.does = "load"
  BY DEF load_history_from_db
<1>1. TakenInv' /\ Dates' = Dates /\ \A d : Wanted(d)' <=> Wanted(d)
  BY <1>0, SameTaken, SameWanted DEF PastInv
<1>2. CASE /\ history' = InOrder({r \in recent_metrics_snapshots : r.at >= Cutoff(date)})
           /\ snapper' = [snapper EXCEPT !.does = "wait", !.loaded = TRUE]
           /\ stored' = Kept(stored, Cutoff(date))
  <2> PICK rows : rows = {r \in recent_metrics_snapshots : r.at >= Cutoff(date)}
    OBVIOUS
  <2>1. Cutoff(date) \in Nat /\ Cutoff(date) <= Cutoff(date)
    BY CutoffGrows DEF PastInv, TakenInv
  <2>2. StoredInv'
    <3>1. /\ Dated(Kept(stored, Cutoff(date))) /\ Kept(stored, Cutoff(date)) \in SUBSET stored
          /\ \A d \in Nat : Wanted(d) => \E r \in Kept(stored, Cutoff(date)) : r.at = d
      BY <2>1, PruningSpares DEF PastInv
    <3>2. Dated(stored)' <=> Dated(stored')
      BY DEF Dated
    <3> QED
      BY <1>1, <1>2, <3>1, <3>2 DEF PastInv, StoredInv
  <2>3. SnapperInv' /\ snapper'.does = "wait" /\ ~AtWork'
    <3>1. snapper' = [does |-> "wait", snapshot |-> snapper.snapshot, loaded |-> TRUE]
      BY <1>2 DEF PastInv, SnapperInv
    <3> QED
      BY <3>1 DEF SnapperInv, AtWork
  <2>4. rows \in SUBSET stored /\ Dated(rows)
    <3>1. rows \in SUBSET stored
      BY DEF recent_metrics_snapshots
    <3> QED
      BY <3>1, FS_Subset DEF PastInv, StoredInv, Dated
  <2>5. /\ history' \in Seq(rows)
        /\ \A r \in rows : \E n \in DOMAIN history' : history'[n] = r
        /\ \A i, j \in DOMAIN history' : i < j => history'[i].at < history'[j].at
    BY <1>2, <2>4, InOrderLists
  <2>6. \A i \in DOMAIN history' : history'[i] \in rows
    BY <2>5, LenProperties
  <2>7. HistoryInv'
    <3>1. \A i \in DOMAIN history' : history'[i].at \in Dates'
      BY <1>1, <2>4, <2>6 DEF PastInv, StoredInv
    <3> QED
      BY <2>3, <2>5, <3>1 DEF HistoryInv
  <2>8. ASSUME NEW d \in Nat, Wanted(d) PROVE \E n \in DOMAIN history' : history'[n].at = d
    <3>1. PICK r \in stored : r.at = d
      BY <2>8 DEF PastInv, StoredInv
    <3> PICK after : after = {q \in stored : q.at > d}
      OBVIOUS
    <3>2. /\ IsFiniteSet(after) /\ Cardinality(after) \in Nat
          /\ Cardinality(after) <= Cardinality(NewerDates(d))
      BY FewRows DEF PastInv
    <3>3. {q \in stored : q.at >= r.at} = after \cup {r} /\ r \notin after
      BY <3>1 DEF PastInv, StoredInv, Dated
    <3>4. Cardinality({q \in stored : q.at >= r.at}) = Cardinality(after) + 1
      BY <3>2, <3>3, FS_AddElement
    <3>5. /\ MaxSnapshots \in Nat /\ Cardinality(NewerDates(d)) < MaxSnapshots
          /\ Cardinality(NewerDates(d)) \in Nat
      BY <2>8, StatisticsAssumption, NewerIsFinite DEF Wanted, PastInv
    <3>6. Cardinality(after) + 1 \in 1..MaxSnapshots
      BY <3>2, <3>5
    <3>7. r \in recent_metrics_snapshots
      BY <3>4, <3>6 DEF recent_metrics_snapshots, IsNewest
    <3>8. r \in rows
      BY <2>8, <3>1, <3>7 DEF Wanted
    <3> QED
      BY <2>5, <3>1, <3>8
  <2>9. SurvivorsInv'
    BY <1>1, <2>8 DEF SurvivorsInv, InHistory
  <2> QED
    BY <1>1, <2>2, <2>3, <2>7, <2>9 DEF PastInv
<1>3. CASE snapper' = [snapper EXCEPT !.does = "wait"] /\ UNCHANGED <<history, stored>>
  <2>1. /\ snapper' = [does |-> "wait", snapshot |-> snapper.snapshot, loaded |-> snapper.loaded]
        /\ snapper.loaded = FALSE
    BY <1>0, <1>3 DEF PastInv, SnapperInv
  <2>2. SnapperInv' /\ ~snapper'.loaded /\ ~AtWork'
    BY <2>1 DEF SnapperInv, AtWork
  <2>3. StoredInv' /\ HistoryInv' /\ SurvivorsInv'
    BY <1>1, <1>3, <2>2 DEF PastInv, StoredInv, Dated, HistoryInv, SurvivorsInv
  <2> QED
    BY <1>1, <2>2, <2>3 DEF PastInv
<1> QED
  BY <1>2, <1>3 DEF load_history_from_db

LEMMA TakeStep ==
  ASSUME PastInv, take_snapshot
  PROVE  PastInv'
<1> DEFINE g == {h \in {Group(h, m) : h \in Hosts, m \in Models} : h.outcomes > 0}
<1> PICK t : t = [at |-> date, saved |-> FALSE]
  OBVIOUS
<1>1. /\ snapper.does = "wait" /\ \A u \in taken : u.at < date
      /\ snapper' = [snapper EXCEPT !.does = "save", !.snapshot = [at |-> date, groups |-> g]]
      /\ taken' = taken \cup {t} /\ UNCHANGED <<date, stored, history>>
  BY DEF take_snapshot
<1> HIDE DEF g
<1>2. date \in Nat /\ t.at = date /\ ~t.saved /\ t \in [at : Nat, saved : BOOLEAN]
  BY DEF PastInv, TakenInv
<1>3. Dates' = Dates \cup {date}
  BY <1>1, <1>2 DEF Dates
<1>4. TakenInv'
  <2>1. IsFiniteSet(taken') /\ IsFiniteSet(Dates')
    BY <1>1, <1>3, FS_AddElement DEF PastInv, TakenInv
  <2> QED
    <3>1. taken \in SUBSET [at : Nat, saved : BOOLEAN] /\ \A u \in taken : u.at <= date
      BY DEF PastInv, TakenInv
    <3>2. taken' \in SUBSET [at : Nat, saved : BOOLEAN] /\ \A u \in taken' : u.at <= date
      <4>1. taken' \in SUBSET [at : Nat, saved : BOOLEAN]
        BY <1>1, <1>2, <3>1
      <4>2. ASSUME NEW u \in taken' PROVE u.at <= date
        BY <1>1, <1>2, <3>1
      <4> QED
        BY <4>1, <4>2
    <3> QED
      BY <1>1, <1>2, <2>1, <3>2 DEF TakenInv
<1>5. ASSUME NEW d \in Nat, Wanted(d)' PROVE Wanted(d)
  <2>1. SavedAt(d)
    BY <1>1, <1>2, <1>5 DEF Wanted, SavedAt
  <2> QED
    BY <1>1, <1>2, <1>3, <1>4, <1>5, <2>1, WantedBefore DEF PastInv
<1>6. snapper' = [does |-> "save", snapshot |-> [at |-> date, groups |-> g],
                  loaded |-> snapper.loaded]
  BY <1>1 DEF PastInv, SnapperInv
<1>7. SnapperInv' /\ snapper'.snapshot.at = date /\ snapper'.does = "save"
      /\ snapper'.loaded = snapper.loaded
  BY <1>3, <1>6 DEF PastInv, SnapperInv
<1>8. StoredInv'
  BY <1>1, <1>3, <1>5 DEF PastInv, StoredInv, Dated
<1>9. HistoryInv'
  <2>1. \A x \in Dates : x < date
    BY <1>1 DEF Dates
  <2> QED
    BY <1>1, <1>3, <1>7, <2>1 DEF PastInv, HistoryInv
<1>10. SurvivorsInv'
  BY <1>1, <1>5, <1>7 DEF PastInv, SurvivorsInv, InHistory
<1> QED
  BY <1>4, <1>7, <1>8, <1>9, <1>10 DEF PastInv

LEMMA SaveStep ==
  ASSUME PastInv, save_metrics_snapshot
  PROVE  PastInv'
<1> PICK s : s = snapper.snapshot
  OBVIOUS
<1>1. /\ snapper.does = "save" /\ snapper' = [snapper EXCEPT !.does = "prune"]
      /\ UNCHANGED <<date, history>>
  BY DEF save_metrics_snapshot
<1>2. snapper' = [does |-> "prune", snapshot |-> s, loaded |-> snapper.loaded]
  BY <1>1 DEF PastInv, SnapperInv
<1>3. s.at \in Dates /\ s.at \in Nat
  BY <1>1, DatesAreDates DEF PastInv, SnapperInv, AtWork
<1>4. CASE UNCHANGED <<stored, taken>>
  <2>1. TakenInv' /\ Dates' = Dates /\ \A d : Wanted(d)' <=> Wanted(d)
    BY <1>1, <1>4, SameTaken, SameWanted DEF PastInv
  <2>2. SnapperInv'
    BY <1>2, <1>3, <2>1 DEF PastInv, SnapperInv
  <2>3. HistoryInv'
    BY <1>1, <1>2, <2>1 DEF PastInv, HistoryInv, AtWork
  <2>4. StoredInv' /\ SurvivorsInv'
    BY <1>1, <1>2, <1>4, <2>1 DEF PastInv, StoredInv, Dated, SurvivorsInv, InHistory
  <2> QED
    BY <2>1, <2>2, <2>3, <2>4 DEF PastInv
<1>5. CASE /\ stored' = {r \in stored : r.at # s.at} \cup {s}
           /\ taken' = {IF t.at = s.at THEN [t EXCEPT !.saved = TRUE] ELSE t : t \in taken}
  <2> DEFINE mark(t) == IF t.at = s.at THEN [t EXCEPT !.saved = TRUE] ELSE t
  <2>1. ASSUME NEW t \in taken
        PROVE  /\ mark(t) \in [at : Nat, saved : BOOLEAN] /\ mark(t).at = t.at
               /\ t.at # s.at => mark(t) = t
    <3>1. t \in [at : Nat, saved : BOOLEAN]
      BY DEF PastInv, TakenInv
    <3>2. PICK u : u = [t EXCEPT !.saved = TRUE]
      OBVIOUS
    <3>3. u \in [at : Nat, saved : BOOLEAN] /\ u.at = t.at
      BY <3>1, <3>2
    <3> QED
      BY <3>1, <3>2, <3>3
  <2>2. taken' = {mark(t) : t \in taken}
    BY <1>5
  <2> HIDE DEF mark
  <2>3. taken' \in SUBSET [at : Nat, saved : BOOLEAN] /\ Dates' = Dates
    BY <2>1, <2>2 DEF Dates
  <2>4. IsFiniteSet(taken')
    <3>1. PICK f : f = [t \in taken |-> mark(t)]
      OBVIOUS
    <3>2. f \in Surjection(taken, taken')
      BY <2>2, <3>1 DEF Surjection
    <3> QED
      BY <3>2, FS_Surjection DEF PastInv, TakenInv
  <2>5. TakenInv'
    <3>1. \A u \in taken' : u.at <= date'
      BY <1>1, <2>1, <2>2 DEF PastInv, TakenInv
    <3> QED
      BY <1>1, <2>3, <2>4, <3>1 DEF PastInv, TakenInv
  <2>6. ASSUME NEW d \in Nat, d # s.at, Wanted(d)' PROVE Wanted(d)
    <3>1. SavedAt(d)
      BY <2>1, <2>2, <2>6 DEF Wanted, SavedAt
    <3>2. date \in Nat /\ date <= date'
      BY <1>1 DEF PastInv, TakenInv
    <3> QED
      BY <2>3, <2>5, <2>6, <3>1, <3>2, WantedBefore DEF PastInv
  <2>7. StoredInv'
    <3>1. Dated(stored')
      <4>1. IsFiniteSet({r \in stored : r.at # s.at})
        BY FS_Subset DEF PastInv, StoredInv, Dated
      <4>2. IsFiniteSet(stored')
        BY <1>5, <4>1, FS_AddElement
      <4> QED
        BY <1>3, <1>5, <4>2 DEF PastInv, StoredInv, Dated
    <3>2. \A r \in stored' : r.at \in Dates'
      BY <1>3, <1>5, <2>3 DEF PastInv, StoredInv
    <3>3. ASSUME NEW d \in Nat, Wanted(d)' PROVE \E r \in stored' : r.at = d
      <4>1. CASE d = s.at
        BY <1>5, <4>1
      <4>2. CASE d # s.at
        <5>1. PICK r \in stored : r.at = d
          BY <2>6, <3>3, <4>2 DEF PastInv, StoredInv
        <5> QED
          BY <1>5, <4>2, <5>1
      <4> QED
        BY <4>1, <4>2
    <3> QED
      BY <3>1, <3>2, <3>3 DEF StoredInv, Dated
  <2>8. SnapperInv'
    BY <1>2, <1>3, <2>3 DEF PastInv, SnapperInv
  <2>9. HistoryInv'
    BY <1>1, <1>2, <2>3 DEF PastInv, HistoryInv, AtWork
  <2>10. SurvivorsInv'
    <3>1. ASSUME snapper.loaded, NEW d \in Nat, Wanted(d)' PROVE InHistory(d)'
      <4>1. CASE d = s.at
        BY <1>2, <4>1 DEF InHistory
      <4>2. CASE d # s.at
        <5>1. InHistory(d)
          BY <2>6, <3>1, <4>2 DEF PastInv, SurvivorsInv
        <5> QED
          BY <1>1, <1>2, <4>2, <5>1 DEF InHistory
      <4> QED
        BY <4>1, <4>2
    <3> QED
      BY <1>2, <3>1 DEF SurvivorsInv
  <2> QED
    BY <2>5, <2>7, <2>8, <2>9, <2>10 DEF PastInv
<1> QED
  BY <1>4, <1>5 DEF save_metrics_snapshot

LEMMA PruneStep ==
  ASSUME PastInv, prune_metrics_snapshots
  PROVE  PastInv'
<1>1. /\ snapper.does = "prune" /\ snapper' = [snapper EXCEPT !.does = "push"]
      /\ UNCHANGED <<date, history, taken>>
      /\ UNCHANGED stored \/ stored' = Kept(stored, Cutoff(snapper.snapshot.at))
  BY DEF prune_metrics_snapshots
<1>2. TakenInv' /\ Dates' = Dates /\ \A d : Wanted(d)' <=> Wanted(d)
  BY <1>1, SameTaken, SameWanted DEF PastInv
<1>3. snapper' = [does |-> "push", snapshot |-> snapper.snapshot, loaded |-> snapper.loaded]
  BY <1>1 DEF PastInv, SnapperInv
<1>4. SnapperInv'
  BY <1>1, <1>2, <1>3 DEF PastInv, SnapperInv, AtWork
<1>5. HistoryInv' /\ SurvivorsInv'
  BY <1>1, <1>2, <1>3 DEF PastInv, HistoryInv, SurvivorsInv, InHistory, AtWork
<1>6. StoredInv'
  <2>1. CASE UNCHANGED stored
    BY <1>2, <2>1 DEF PastInv, StoredInv, Dated
  <2>2. CASE stored' = Kept(stored, Cutoff(snapper.snapshot.at))
    <3> PICK c : c = Cutoff(snapper.snapshot.at)
      OBVIOUS
    <3>1. /\ snapper.snapshot.at \in Nat /\ snapper.snapshot.at <= date /\ date \in Nat
      BY <1>1, DatesAreDates DEF PastInv, SnapperInv, AtWork, TakenInv
    <3>2. c \in Nat /\ c <= Cutoff(date)
      BY <3>1, CutoffGrows
    <3>3. /\ Dated(Kept(stored, c)) /\ Kept(stored, c) \in SUBSET stored
          /\ \A d \in Nat : Wanted(d) => \E r \in Kept(stored, c) : r.at = d
      BY <3>2, PruningSpares DEF PastInv
    <3>4. Dated(stored)' <=> Dated(stored')
      BY DEF Dated
    <3> QED
      BY <1>2, <2>2, <3>3, <3>4 DEF PastInv, StoredInv
  <2> QED
    BY <1>1, <2>1, <2>2
<1> QED
  BY <1>2, <1>4, <1>5, <1>6 DEF PastInv

LEMMA PushStep ==
  ASSUME PastInv, push_snapshot
  PROVE  PastInv'
<1> PICK s : s = snapper.snapshot
  OBVIOUS
<1>0. MaxSnapshots \in Nat \ {0}
  BY StatisticsAssumption
<1>1. /\ snapper.does = "push" /\ snapper' = [snapper EXCEPT !.does = "wait"]
      /\ history' = LastOf(Append(history, s), MaxSnapshots)
      /\ UNCHANGED <<date, stored, taken>>
  BY DEF push_snapshot
<1>2. TakenInv' /\ Dates' = Dates /\ \A d : Wanted(d)' <=> Wanted(d)
  BY <1>1, SameTaken, SameWanted DEF PastInv
<1>3. snapper' = [does |-> "wait", snapshot |-> s, loaded |-> snapper.loaded]
  BY <1>1 DEF PastInv, SnapperInv
<1>4. SnapperInv' /\ ~AtWork' /\ StoredInv'
  BY <1>1, <1>2, <1>3 DEF PastInv, SnapperInv, AtWork, StoredInv, Dated
<1>5. s.at \in Dates /\ s.at \in Nat /\ \A i \in DOMAIN history : history[i].at < s.at
  BY <1>1, DatesAreDates DEF PastInv, SnapperInv, HistoryInv, AtWork
<1> PICK L, long : L = Len(history) /\ long = Append(history, s)
  OBVIOUS
<1>6. \E S :
        /\ long \in Seq(S) /\ Len(long) = L + 1 /\ L \in Nat
        /\ DOMAIN long = 1..(L + 1) /\ DOMAIN history = 1..L
        /\ (\A i \in 1..L : long[i] = history[i]) /\ long[L + 1] = s
  <2>1. PICK R : history \in Seq(R)
    BY DEF PastInv, HistoryInv
  <2>2. PICK S : S = R \cup {s}
    OBVIOUS
  <2>3. history \in Seq(S) /\ s \in S
    <3>1. R \subseteq S
      BY <2>2
    <3> QED
      BY <2>1, <2>2, <3>1, SeqMonotonic
  <2>4. L \in Nat /\ DOMAIN history = 1..L
    BY <2>3, LenProperties
  <2>5. /\ Append(history, s) \in Seq(S)
        /\ Len(Append(history, s)) = Len(history) + 1
        /\ \A i \in 1..Len(history) : Append(history, s)[i] = history[i]
        /\ Append(history, s)[Len(history) + 1] = s
    BY <2>3, AppendProperties
  <2>6. DOMAIN long = 1..(L + 1)
    BY <2>5, LenProperties
  <2> QED
    BY <2>4, <2>5, <2>6
<1>7. PICK S :
        /\ long \in Seq(S) /\ Len(long) = L + 1 /\ L \in Nat
        /\ DOMAIN long = 1..(L + 1) /\ DOMAIN history = 1..L
        /\ (\A i \in 1..L : long[i] = history[i]) /\ long[L + 1] = s
  BY <1>6
<1>8. ASSUME NEW i \in 1..(L + 1) PROVE long[i].at \in Dates /\ long[i].at \in Nat
  <2>1. i = L + 1 \/ i \in 1..L
    BY <1>7
  <2> QED
    BY <1>5, <1>7, <2>1, DatesAreDates DEF PastInv, HistoryInv
<1>9. ASSUME NEW i \in 1..(L + 1), NEW j \in 1..(L + 1), i < j PROVE long[i].at < long[j].at
  <2>1. i \in 1..L /\ (j = L + 1 \/ j \in 1..L)
    BY <1>7, <1>9
  <2> QED
    BY <1>5, <1>7, <1>9, <2>1 DEF PastInv, HistoryInv
<1>10. PICK k \in Nat :
         /\ k <= Len(long) /\ LastOf(long, MaxSnapshots) \in Seq(S)
         /\ Len(LastOf(long, MaxSnapshots)) = Len(long) - k
         /\ (k # 0 => Len(LastOf(long, MaxSnapshots)) = MaxSnapshots)
         /\ DOMAIN LastOf(long, MaxSnapshots) = 1..(Len(long) - k)
         /\ \A i \in 1..(Len(long) - k) :
              LastOf(long, MaxSnapshots)[i] = long[i + k] /\ i + k \in DOMAIN long
  <2>1. PICK k \in Nat : IsLastOf(LastOf(long, MaxSnapshots), long, MaxSnapshots, S, k)
    BY <1>0, <1>7, LastOfProperties
  <2> QED
    BY <2>1 DEF IsLastOf
<1>11. PICK n \in Nat :
         /\ n = L + 1 - k /\ n + k = L + 1 /\ history' \in Seq(S) /\ DOMAIN history' = 1..n
         /\ (k # 0 => n = MaxSnapshots)
         /\ \A i \in 1..n : history'[i] = long[i + k] /\ i + k \in 1..(L + 1)
  <2>1. L + 1 - k \in Nat /\ L + 1 - k + k = L + 1
    BY <1>7, <1>10
  <2> QED
    BY <1>1, <1>7, <1>10, <2>1
<1>12. HistoryInv'
  <2>1. \A i \in DOMAIN history' : history'[i].at \in Dates'
    BY <1>2, <1>8, <1>11
  <2>2. ASSUME NEW i \in DOMAIN history', NEW j \in DOMAIN history', i < j
        PROVE  history'[i].at < history'[j].at
    <3>1. i \in 1..n /\ j \in 1..n /\ i + k \in 1..(L + 1) /\ j + k \in 1..(L + 1) /\ i + k < j + k
      BY <1>11, <2>2
    <3>2. long[i + k].at < long[j + k].at
      BY <1>9, <3>1
    <3> QED
      BY <1>11, <3>1, <3>2
  <2> QED
    BY <1>4, <1>11, <2>1, <2>2 DEF HistoryInv
(* What is pushed out has as many newer ones as the history can hold.      *)
<1>13. ASSUME NEW d \in Nat, Wanted(d), NEW i \in 1..(L + 1), long[i].at = d
       PROVE  \E j \in DOMAIN history' : history'[j].at = d
  <2>1. CASE i > k
    <3>1. i - k \in 1..n /\ (i - k) + k = i
      BY <1>11, <2>1
    <3> QED
      BY <1>11, <1>13, <3>1
  <2>2. CASE i <= k
    <3>1. k # 0 /\ n = MaxSnapshots
      BY <1>11, <2>2
    <3>2. PICK f : f = [j \in 1..n |-> long[j + k].at]
      OBVIOUS
    <3>3. ASSUME NEW j \in 1..n PROVE j + k \in 1..(L + 1) /\ long[j + k].at \in NewerDates(d)
      <4>1. j + k \in 1..(L + 1) /\ i < j + k
        BY <1>11, <2>2
      <4>2. d < long[j + k].at /\ long[j + k].at \in Dates
        BY <1>8, <1>9, <1>13, <4>1
      <4>3. long[j + k].at \in Nat
        BY <1>8, <4>1
      <4> QED
        BY <4>1, <4>2, <4>3 DEF NewerDates
    <3>4. ASSUME NEW x \in 1..n, NEW y \in 1..n, long[x + k].at = long[y + k].at PROVE x = y
      <4>1. /\ x + k \in 1..(L + 1) /\ y + k \in 1..(L + 1)
            /\ long[x + k].at \in Nat /\ long[y + k].at \in Nat
        BY <1>8, <3>3
      <4>2. ~(x + k < y + k) /\ ~(y + k < x + k)
        BY <1>9, <3>4, <4>1
      <4> QED
        BY <4>1, <4>2
    <3>5. f \in Injection(1..n, NewerDates(d))
      BY <3>2, <3>3, <3>4 DEF Injection, IsInjective
    <3>6. Cardinality(1..n) <= Cardinality(NewerDates(d))
      BY <3>5, NewerIsFinite, FS_Injection DEF PastInv
    <3>7. Cardinality(1..n) = n
      BY <1>0, <3>1, FS_Interval
    <3> QED
      BY <1>0, <1>13, <3>1, <3>6, <3>7, NewerIsFinite DEF PastInv, Wanted
  <2> QED
    BY <1>11, <2>1, <2>2
<1>14. SurvivorsInv'
  <2>1. ASSUME snapper.loaded, NEW d \in Nat, Wanted(d)
        PROVE  \E i \in 1..(L + 1) : long[i].at = d
    <3>1. InHistory(d)
      BY <2>1 DEF PastInv, SurvivorsInv
    <3>2. CASE \E i \in DOMAIN history : history[i].at = d
      <4>1. PICK i \in 1..L : history[i].at = d
        BY <1>7, <3>2
      <4> QED
        BY <1>7, <4>1
    <3>3. CASE s.at = d
      <4>1. L + 1 \in 1..(L + 1)
        BY <1>7
      <4> QED
        BY <1>7, <3>3, <4>1
    <3> QED
      BY <3>1, <3>2, <3>3 DEF InHistory
  <2> QED
    BY <1>2, <1>3, <1>13, <2>1 DEF SurvivorsInv, InHistory
<1> QED
  BY <1>2, <1>4, <1>12, <1>14 DEF PastInv

LEMMA WaitStep ==
  ASSUME PastInv, Wait
  PROVE  PastInv'
<1>1. date' = date + 1 /\ UNCHANGED <<stored, history, snapper, taken>> /\ date \in Nat
  BY DEF Wait, PastInv, TakenInv
<1>2. TakenInv' /\ Dates' = Dates
  <2>1. \A t \in taken : t.at \in Nat /\ t.at <= date
    BY DEF PastInv, TakenInv
  <2>2. \A t \in taken : t.at <= date + 1
    BY <1>1, <2>1
  <2> QED
    BY <1>1, <2>2 DEF PastInv, TakenInv, Dates
<1>3. ASSUME NEW d \in Nat, Wanted(d)' PROVE Wanted(d)
  <2>1. SavedAt(d) /\ date <= date'
    BY <1>1, <1>3 DEF Wanted, SavedAt
  <2> QED
    BY <1>2, <1>3, <2>1, WantedBefore DEF PastInv
<1>4. StoredInv'
  BY <1>1, <1>2, <1>3 DEF PastInv, StoredInv, Dated
<1>5. SnapperInv' /\ HistoryInv'
  BY <1>1, <1>2 DEF PastInv, SnapperInv, HistoryInv, AtWork
<1>6. SurvivorsInv'
  BY <1>1, <1>3 DEF PastInv, SurvivorsInv, InHistory
<1> QED
  BY <1>2, <1>4, <1>5, <1>6 DEF PastInv

LEMMA RestartStep ==
  ASSUME PastInv, Restart
  PROVE  PastInv'
<1>1. UNCHANGED <<date, stored, taken>> /\ history' = << >> /\ snapper' = Starting
  BY DEF Restart
<1>2. TakenInv' /\ Dates' = Dates /\ \A d : Wanted(d)' <=> Wanted(d)
  BY <1>1, SameTaken, SameWanted DEF PastInv
<1>3. snapper' = [does |-> "load", snapshot |-> NoSnapshot, loaded |-> FALSE]
  BY <1>1 DEF Starting
<1>4. SnapperInv' /\ ~AtWork' /\ SurvivorsInv'
  BY <1>3 DEF SnapperInv, AtWork, SurvivorsInv
<1>5. StoredInv'
  BY <1>1, <1>2 DEF PastInv, StoredInv, Dated
<1>6. HistoryInv'
  <2>1. history' \in Seq({}) /\ DOMAIN history' = {}
    BY <1>1
  <2> QED
    BY <1>4, <2>1 DEF HistoryInv
<1> QED
  BY <1>2, <1>4, <1>5, <1>6 DEF PastInv

LEMMA PastInvariance == StatisticsSpec => []PastInv
<1>1. StatisticsInit => PastInv
  <2> SUFFICES ASSUME StatisticsInit PROVE PastInv
    OBVIOUS
  <2>1. date = 1 /\ stored = {} /\ history = << >> /\ taken = {} /\ snapper = Starting
    BY DEF StatisticsInit
  <2>2. snapper = [does |-> "load", snapshot |-> NoSnapshot, loaded |-> FALSE]
    BY <2>1 DEF Starting
  <2>3. Dates = {} /\ IsFiniteSet({}) /\ \A d : ~Wanted(d)
    BY <2>1, FS_EmptySet DEF Dates, Wanted, SavedAt
  <2>4. TakenInv
    BY <2>1, <2>3 DEF TakenInv
  <2>5. StoredInv
    BY <2>1, <2>3 DEF StoredInv, Dated
  <2>6. SnapperInv /\ ~AtWork /\ SurvivorsInv
    BY <2>2 DEF SnapperInv, AtWork, SurvivorsInv
  <2>7. HistoryInv
    <3>1. history \in Seq({}) /\ DOMAIN history = {}
      BY <2>1
    <3> QED
      BY <2>6, <3>1 DEF HistoryInv
  <2> QED
    BY <2>4, <2>5, <2>6, <2>7 DEF PastInv
<1>2. PastInv /\ [LiveNext \/ PastNext \/ Restart]_statistics => PastInv'
  <2> SUFFICES ASSUME PastInv, [LiveNext \/ PastNext \/ Restart]_statistics PROVE PastInv'
    OBVIOUS
  <2>1. ASSUME UNCHANGED past PROVE PastInv'
    <3>1. UNCHANGED <<date, stored, history, snapper, taken>>
      BY <2>1 DEF past
    <3>2. TakenInv' /\ Dates' = Dates /\ \A d : Wanted(d)' <=> Wanted(d)
      BY <3>1, SameTaken, SameWanted DEF PastInv
    <3> QED
      BY <3>1, <3>2 DEF PastInv, StoredInv, Dated, SnapperInv, HistoryInv, SurvivorsInv,
         InHistory, AtWork
  <2>2. CASE LiveNext
    BY <2>1, <2>2 DEF LiveNext, Check, Emits, Emit, Feed, GetMetrics
  <2>3. CASE PastNext
    BY <2>3, LoadStep, TakeStep, SaveStep, PruneStep, PushStep, WaitStep DEF PastNext
  <2>4. CASE UNCHANGED statistics
    BY <2>1, <2>4 DEF statistics
  <2> QED
    BY <2>2, <2>3, <2>4, RestartStep
<1> QED
  BY <1>1, <1>2, PTL DEF StatisticsSpec

(* The graphs survive a restart: once the history of earlier runs was read *)
(* (load_history_from_db), a snapshot whose row was written is in it until *)
(* it is too old or as many newer ones were taken as it holds, whatever    *)
(* the pruner deleted and whichever queries failed.                        *)
THEOREM GraphsSurvive == StatisticsSpec => []HistorySurvives
<1>1. PastInv => HistorySurvives
  <2> SUFFICES ASSUME PastInv, snapper.loaded PROVE HistorySurvives
    BY DEF HistorySurvives
  <2>1. ASSUME NEW t \in taken, t.saved, t.at >= Cutoff(date),
               Cardinality({u \in taken : u.at > t.at}) < MaxSnapshots
        PROVE  InHistory(t.at)
    <3>1. t.at \in Nat /\ IsFiniteSet(taken)
      BY DEF PastInv, TakenInv
    <3> PICK newer : newer = {u \in taken : u.at > t.at}
      OBVIOUS
    <3>2. IsFiniteSet(newer) /\ Cardinality(newer) \in Nat
      <4>1. newer \in SUBSET taken
        OBVIOUS
      <4> QED
        BY <3>1, <4>1, FS_Subset, FS_CardinalityType
    <3>3. Cardinality(NewerDates(t.at)) <= Cardinality(newer)
      <4>1. PICK f : f = [u \in newer |-> u.at]
        OBVIOUS
      <4>2. NewerDates(t.at) = {u.at : u \in newer}
        BY DEF NewerDates, Dates
      <4>3. f \in Surjection(newer, NewerDates(t.at))
        BY <4>1, <4>2 DEF Surjection
      <4> QED
        BY <3>2, <4>3, FS_Surjection
    <3>4. MaxSnapshots \in Nat /\ Cardinality(NewerDates(t.at)) \in Nat
      BY StatisticsAssumption, NewerIsFinite DEF PastInv
    <3>5. Cardinality(NewerDates(t.at)) < MaxSnapshots
      BY <2>1, <3>2, <3>3, <3>4
    <3>6. Wanted(t.at)
      BY <2>1, <3>5 DEF Wanted, SavedAt
    <3> QED
      BY <3>1, <3>6 DEF PastInv, SurvivorsInv
  <2> QED
    BY <2>1 DEF PastInv, HistoryInv, InHistory, HistorySurvives
<1> QED
  BY PastInvariance, <1>1, PTL
=============================================================================
