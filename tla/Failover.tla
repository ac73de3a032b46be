----------------------------- MODULE Failover -----------------------------
(***************************************************************************)
(* How the router serves one request from a list of candidate providers:   *)
(* Router::chat_completions, chat_completions_stream and responses         *)
(* (router/engine.rs) and capability_failover (router/failover.rs), with   *)
(* the in-flight counters their guards keep and the session pins they      *)
(* write.  Each await of a handler is a step, and the client may go away   *)
(* at any of them, which drops the handler or the stream.                  *)
(***************************************************************************)
EXTENDS Naturals, Sequences, FiniteSets

CONSTANTS
  Providers,
  Requests,
  Ops,         \* the kinds of request served, a subset of AllOps
  Lists,       \* candidate lists the routing tables may give
  MaxRetries,  \* Router::max_retries
  MaxChunks,   \* bound on the chunks one attempt streams
  MaxDrops     \* bound on clients that go away

AllOps == {"chat", "stream", "responses", "capability"}

ASSUME FailoverAssumption ==
  /\ Ops \subseteq AllOps
  /\ Lists \subseteq Seq(Providers) /\ "nobody" \notin Providers
  /\ IsFiniteSet(Requests)
  /\ MaxRetries \in Nat \ {0} /\ MaxChunks \in Nat /\ MaxDrops \in Nat

VARIABLES
  req,        \* req[r]: the handler's locals
  sent,       \* sent[r]: what the client has been sent
  tried,      \* tried[r]: the attempts that ended, and the events they emitted
  inflight,   \* provider_in_flight
  releasing,  \* releasing[p]: spawned tasks that will decrement inflight[p]
  pin,        \* pin[r]: the provider r pinned its session to
  drops

vars == <<req, sent, tried, inflight, releasing, pin, drops>>

Nobody == "nobody"
Errors == {"transient", "fatal", "client", "unsupported"}
Causes == Errors \cup {"empty", Nobody}
Chunks == {"content", "role", "filter", "trailer"}
Item == [what : {"answer", "error"} \cup Chunks, from : Providers \cup Causes]
Attempt == [by : Providers, outcome : Errors \cup {"ok", "empty"},
            reported : SUBSET {"success", "failure"}]
Active == {"next", "calling", "streaming", "backoff"}

Locals ==
  [pc : {"idle", "done", "dropped"} \cup Active, op : AllOps,
   todo : Seq(Providers), rest : Seq(Providers), second : BOOLEAN,
   at : Providers \cup {Nobody}, attempt : 0..MaxRetries, last : Causes,
   yielded : BOOLEAN, mine : 0..MaxChunks, content : BOOLEAN]

TypeOK ==
  /\ req \in [Requests -> Locals]
  /\ sent \in [Requests -> Seq(Item)]
  /\ tried \in [Requests -> Seq(Attempt)]
  /\ inflight \in [Providers -> Nat]
  /\ releasing \in [Providers -> Nat]
  /\ pin \in [Requests -> Providers \cup {Nobody}]
  /\ drops \in 0..MaxDrops

Init ==
  /\ req = [r \in Requests |->
       [pc |-> "idle", op |-> "chat", todo |-> << >>, rest |-> << >>, second |-> FALSE,
        at |-> Nobody, attempt |-> 0, last |-> Nobody, yielded |-> FALSE,
        mine |-> 0, content |-> FALSE]]
  /\ sent = [r \in Requests |-> << >>]
  /\ tried = [r \in Requests |-> << >>]
  /\ inflight = [p \in Providers |-> 0]
  /\ releasing = [p \in Providers |-> 0]
  /\ pin = [r \in Requests |-> Nobody]
  /\ drops = 0

---------------------------------------------------------------------------
(* Shared pieces.                                                          *)

Goes(r, locals) == req' = [req EXCEPT ![r] = locals]
Sends(r, items) == sent' = [sent EXCEPT ![r] = @ \o items]
Failure(cause) == [what |-> "error", from |-> cause]

(* The guard's decrement runs in a task of its own; a guard does it once.  *)
NeverReleased(p) == UNCHANGED releasing
Release(p) == releasing' = [releasing EXCEPT ![p] = @ + 1]

(* The event an attempt emits: none for what is_client_error accepts.      *)
Reports(outcome) ==
  IF outcome = "ok" THEN {"success"}
  ELSE IF outcome = "client" THEN {} ELSE {"failure"}

Ended(r, outcome, reported) ==
  tried' = [tried EXCEPT
    ![r] = Append(@, [by |-> req[r].at, outcome |-> outcome, reported |-> reported])]

(* The attempt is over and the handler goes on with these locals.          *)
Leaves(r, locals) ==
  /\ Goes(r, [locals EXCEPT !.at = Nobody])
  /\ Release(req[r].at)

Skips(op) == op \in {"chat", "stream"}
KeepsFirst(r, e) == IF req[r].last = Nobody THEN e ELSE req[r].last

---------------------------------------------------------------------------
(* The candidate loop.                                                     *)

Disjoint(s, t) == \A m \in 1..Len(s), n \in 1..Len(t) : s[m] # t[n]

(* rest: the configured candidates that health filtering left out.         *)
Begin(r, op, order, rest) ==
  /\ req[r].pc = "idle"
  /\ Disjoint(order, rest)
  /\ Goes(r, [req[r] EXCEPT !.pc = IF order = << >> THEN "done" ELSE "next",
                            !.op = op, !.todo = order,
                            !.rest = IF op = "capability" THEN rest ELSE << >>])
  /\ IF order = << >> THEN Sends(r, <<Failure(Nobody)>>) ELSE UNCHANGED sent
  /\ UNCHANGED <<tried, inflight, releasing, pin, drops>>

More(r) == req[r].todo # << >> /\ req[r].attempt < MaxRetries

(* input_filter::missing_input: the provider lacks a modality.             *)
SkipCandidate(r) ==
  /\ req[r].pc = "next" /\ More(r) /\ Skips(req[r].op)
  /\ Goes(r, [req[r] EXCEPT !.todo = Tail(@), !.last = KeepsFirst(r, "unsupported")])
  /\ UNCHANGED <<sent, tried, inflight, releasing, pin, drops>>

(* capability_failover counts an attempt when it fails.                    *)
TryCandidate(r) ==
  /\ req[r].pc = "next" /\ More(r)
  /\ Goes(r, [req[r] EXCEPT !.pc = "calling", !.at = Head(req[r].todo),
       !.todo = Tail(@), !.mine = 0, !.content = FALSE,
       !.attempt = IF req[r].op = "capability" THEN @ ELSE @ + 1])
  /\ inflight' = [inflight EXCEPT ![Head(req[r].todo)] = @ + 1]
  /\ UNCHANGED <<sent, tried, releasing, pin, drops>>

(* No provider of the healthy set serves this kind of request at all: the  *)
(* configured ones that were filtered out get a pass of their own, whose   *)
(* errors are not kept.                                                    *)
SecondPass(r) ==
  /\ req[r].pc = "next" /\ ~More(r)
  /\ req[r].attempt = 0 /\ req[r].rest # << >>
  /\ Goes(r, [req[r] EXCEPT !.todo = req[r].rest, !.rest = << >>, !.second = TRUE])
  /\ UNCHANGED <<sent, tried, inflight, releasing, pin, drops>>

SaysWhy(r) == req[r].op = "stream" => ~req[r].yielded

GiveUp(r) ==
  /\ req[r].pc = "next" /\ ~More(r)
  /\ ~(req[r].attempt = 0 /\ req[r].rest # << >>)
  /\ Goes(r, [req[r] EXCEPT !.pc = "done"])
  /\ IF SaysWhy(r) THEN Sends(r, <<Failure(req[r].last)>>) ELSE UNCHANGED sent
  /\ UNCHANGED <<tried, inflight, releasing, pin, drops>>

Wake(r) ==
  /\ req[r].pc = "backoff"
  /\ Goes(r, [req[r] EXCEPT !.pc = "next"])
  /\ UNCHANGED <<sent, tried, inflight, releasing, pin, drops>>

---------------------------------------------------------------------------
(* The provider answers the call.                                          *)

Answer(r) ==
  /\ req[r].pc = "calling" /\ req[r].op # "stream"
  /\ Leaves(r, [req[r] EXCEPT !.pc = "done"])
  /\ pin' = [pin EXCEPT ![r] = IF req[r].op = "capability" THEN @ ELSE req[r].at]
  /\ Ended(r, "ok", Reports("ok"))
  /\ Sends(r, <<[what |-> "answer", from |-> req[r].at]>>)
  /\ UNCHANGED <<inflight, drops>>

StreamOpens(r) ==
  /\ req[r].pc = "calling" /\ req[r].op = "stream"
  /\ Goes(r, [req[r] EXCEPT !.pc = "streaming"])
  /\ UNCHANGED <<sent, tried, inflight, releasing, pin, drops>>

(* Unsupported is neither a failure nor a used-up retry, except to         *)
(* responses(), which knows no such case and takes it as fatal.            *)
Unsupported(r) ==
  /\ req[r].pc = "calling" /\ req[r].op # "responses"
  /\ Leaves(r, [req[r] EXCEPT !.pc = "next",
       !.attempt = IF req[r].op = "capability" THEN @ ELSE @ - 1,
       !.last = KeepsFirst(r, "unsupported")])
  /\ Ended(r, "unsupported", {})
  /\ UNCHANGED <<sent, inflight, pin, drops>>

LastError(r, e) == IF req[r].second THEN req[r].last ELSE e

CallFailsTransiently(r) ==
  /\ req[r].pc = "calling"
  /\ Leaves(r, [req[r] EXCEPT !.pc = "backoff", !.last = LastError(r, "transient"),
       !.attempt = IF req[r].op = "capability" THEN @ + 1 ELSE @])
  /\ Ended(r, "transient", Reports("transient"))
  /\ UNCHANGED <<sent, inflight, pin, drops>>

FatalErrors(r) ==
  IF req[r].op = "responses" THEN {"fatal", "client", "unsupported"} ELSE {"fatal", "client"}

(* A stream yields the error and leaves the loop, whose tail yields it     *)
(* again when nothing came before it.                                      *)
CallFailsForGood(r, e) ==
  /\ req[r].pc = "calling" /\ e \in FatalErrors(r)
  /\ Leaves(r, [req[r] EXCEPT !.pc = "done", !.last = e])
  /\ Ended(r, e, Reports(e))
  /\ Sends(r, IF req[r].op = "stream" /\ ~req[r].yielded
              THEN <<Failure(e), Failure(e)>> ELSE <<Failure(e)>>)
  /\ UNCHANGED <<inflight, pin, drops>>

---------------------------------------------------------------------------
(* A provider's stream.  The usage trailer is asked for upstream and kept  *)
(* from a client that did not ask.                                         *)

Chunk(r, kind) ==
  /\ req[r].pc = "streaming" /\ req[r].mine < MaxChunks
  /\ Goes(r, [req[r] EXCEPT !.mine = @ + 1, !.yielded = TRUE,
                            !.content = @ \/ kind \in {"content", "filter"}])
  /\ pin' = [pin EXCEPT ![r] = IF req[r].mine = 0 THEN req[r].at ELSE @]
  /\ IF kind = "trailer"
     THEN UNCHANGED sent
     ELSE Sends(r, <<[what |-> kind, from |-> req[r].at]>>)
  /\ UNCHANGED <<tried, inflight, releasing, drops>>

FailsOverAnyway(r) == TRUE
NothingYet(r) == req[r].mine = 0

StreamFailsOver(r) ==
  /\ req[r].pc = "streaming" /\ NothingYet(r)
  /\ Leaves(r, [req[r] EXCEPT !.pc = "backoff", !.last = "transient"])
  /\ Ended(r, "transient", Reports("transient"))
  /\ UNCHANGED <<sent, inflight, pin, drops>>

(* Any other error is yielded; Unsupported comes only from the call that   *)
(* opens the stream.  After a chunk, the code for a completed stream runs  *)
(* next and emits a success; before any chunk, the loop goes on to the     *)
(* next candidate.                                                         *)
StreamFails(r, e) ==
  /\ req[r].pc = "streaming" /\ ~(NothingYet(r) /\ e = "transient")
  /\ e # "unsupported"
  /\ Leaves(r, [req[r] EXCEPT !.pc = IF req[r].mine > 0 THEN "done" ELSE "next",
                              !.yielded = TRUE])
  /\ Ended(r, e, Reports(e) \cup (IF req[r].mine > 0 THEN {"success"} ELSE {}))
  /\ Sends(r, <<Failure(e)>>)
  /\ UNCHANGED <<inflight, pin, drops>>

AnyEnding(r) == TRUE
Substantial(r) == req[r].content

StreamCompletes(r) ==
  /\ req[r].pc = "streaming" /\ Substantial(r)
  /\ Leaves(r, [req[r] EXCEPT !.pc = "done"])
  /\ Ended(r, "ok", Reports("ok"))
  /\ UNCHANGED <<sent, inflight, pin, drops>>

(* An empty completion counts as a transient failure, and what was yielded *)
(* of it as nothing.                                                       *)
StreamWasEmpty(r) ==
  /\ req[r].pc = "streaming" /\ ~Substantial(r)
  /\ Leaves(r, [req[r] EXCEPT !.pc = "backoff", !.last = "empty", !.yielded = FALSE])
  /\ Ended(r, "empty", Reports("empty"))
  /\ UNCHANGED <<sent, inflight, pin, drops>>

---------------------------------------------------------------------------
(* The client goes away, and the guard's Drop releases the provider.       *)
Disconnect(r) ==
  /\ req[r].pc \in Active
  /\ drops < MaxDrops /\ drops' = drops + 1
  /\ Goes(r, [req[r] EXCEPT !.pc = "dropped", !.at = Nobody])
  /\ IF req[r].at = Nobody THEN UNCHANGED releasing ELSE Release(req[r].at)
  /\ UNCHANGED <<sent, tried, inflight, pin>>

Decrement(p) ==
  /\ releasing[p] > 0
  /\ releasing' = [releasing EXCEPT ![p] = @ - 1]
  /\ inflight' = [inflight EXCEPT ![p] = IF @ = 0 THEN 0 ELSE @ - 1]
  /\ UNCHANGED <<req, sent, tried, pin, drops>>

Provider(r) ==
  \/ Answer(r)
  \/ StreamOpens(r)
  \/ Unsupported(r)
  \/ CallFailsTransiently(r)
  \/ \E e \in Errors : CallFailsForGood(r, e) \/ StreamFails(r, e)
  \/ \E kind \in Chunks : Chunk(r, kind)
  \/ StreamFailsOver(r)
  \/ StreamCompletes(r)
  \/ StreamWasEmpty(r)

Loop(r) == SkipCandidate(r) \/ TryCandidate(r) \/ SecondPass(r) \/ GiveUp(r) \/ Wake(r)

Next ==
  \/ \E r \in Requests :
       \/ \E op \in Ops, order, rest \in Lists : Begin(r, op, order, rest)
       \/ Loop(r)
       \/ Provider(r)
       \/ Disconnect(r)
  \/ \E p \in Providers : Decrement(p)

Spec == Init /\ [][Next]_vars

---------------------------------------------------------------------------
(* A counter is what load-aware routing reads: it is exactly the attempts  *)
(* that hold the provider and the releases still on their way, whatever    *)
(* way the attempts ended.                                                 *)
InFlightExact ==
  \A p \in Providers :
    inflight[p] = Cardinality({r \in Requests : req[r].at = p}) + releasing[p]

Has(r, what) == \E n \in 1..Len(sent[r]) : sent[r][n].what \in what

(* A client never gets the content of two providers stitched together,     *)
(* however many attempts streamed something before they failed.            *)
OneVoice ==
  \A r \in Requests : \A m, n \in 1..Len(sent[r]) :
    sent[r][m].what = "content" /\ sent[r][n].what = "content"
      => sent[r][m].from = sent[r][n].from

(* A request that is served to its end gives the client an answer, content *)
(* or an error: an empty completion never passes for an answer.            *)
NeverSilent ==
  \A r \in Requests :
    req[r].pc = "done" => Has(r, {"answer", "content", "filter", "error"})

(* When a request ends in errors although a provider of the first pass was *)
(* tried and failed, the client is told of a failure and not that nobody   *)
(* supports the request (responses() takes Unsupported for a failure).     *)
Failed(r) == \E n \in 1..Len(tried[r]) : tried[r][n].outcome \in {"transient", "fatal", "client", "empty"}

FailureOutranksUnsupported ==
  \A r \in Requests :
    req[r].pc = "done" /\ req[r].op # "responses" /\ ~req[r].second /\ Failed(r)
      => \/ Has(r, {"answer", "content", "filter"})
         \/ \E n \in 1..Len(sent[r]) :
              sent[r][n].what = "error" /\ sent[r][n].from \notin {"unsupported", Nobody}

===========================================================================
