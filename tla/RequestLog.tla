----------------------------- MODULE RequestLog -----------------------------
(***************************************************************************)
(* The request log: a Pending record beside every logged request           *)
(* (request_log/recorder.rs), the trace of its attempts (trace.rs), the    *)
(* tracker that links the requests of a conversation (fingerprint.rs), the *)
(* bounded queue of the writer, the rows and bodies it inserts in batches  *)
(* and the pruner (db/request_log/mod.rs).                                 *)
(*                                                                         *)
(* Requests here are of one user, API key and model, which is what the     *)
(* tracker keys its lists by; those of other keys show only in Evict.  A   *)
(* request is its prompt and the packed size of its bodies; hashes stand   *)
(* for what they are hashes of, columns are left out.  A row has its place *)
(* in the log as its id.                                                   *)
(***************************************************************************)
EXTENDS Naturals, FiniteSetsExt, SequencesExt

CONSTANTS
  Arrivals,       \* requests that may arrive
  Prompts,        \* Prompts[r]: the system prompt, tools and messages of r
  Sizes,          \* Sizes[r]: the packed size of its bodies
  WriteQueue,     \* WRITE_QUEUE
  WriteBatch,     \* WRITE_BATCH
  SessionsPerKey, \* SESSIONS_PER_KEY
  MaxPacket,      \* max_allowed_packet, less PACKET_HEADROOM
  MaxBodyBytes,   \* Retention.max_body_bytes, 0 for no cap
  MaxMishaps      \* bound on failed batches, failed builds and crashes

ASSUME RequestLogAssumption ==
  /\ Sizes \in [Arrivals -> Nat]
  /\ \A r \in Arrivals : Len(Prompts[r].messages) \in Nat
  /\ WriteQueue \in Nat \ {0} /\ WriteBatch \in Nat \ {0}
  /\ SessionsPerKey \in Nat \ {0}
  /\ MaxPacket \in Nat /\ MaxBodyBytes \in Nat
  /\ MaxMishaps \in Nat

VARIABLES
  stage,     \* stage[r]: how far its handler is, or how it ended
  inbound,   \* requests whose Pending has its Inbound still
  upstream,  \* requests whose Trace has the upstream body of the last attempt
  builds,    \* records to build, in spawned tasks
  senders,   \* records that wait for room in the queue
  queue,     \* the writer's channel
  batch,     \* what the writer is inserting
  log,       \* request_log, in the order of its ids
  bodies,    \* ids with a row in request_log_body
  tracker,   \* the tracked requests of the key, oldest first
  selected,  \* ids that the pruner has selected and not deleted
  lost,      \* requests whose record went with a failed batch, build or crash
  mishaps

requestlog == <<stage, inbound, upstream, builds, senders, queue, batch, log, bodies, tracker,
                selected, lost, mishaps>>

Ids == 1..Len(log)
Unlinked == "none"

LogInit ==
  /\ stage = [r \in Arrivals |-> "new"]
  /\ inbound = {}
  /\ upstream = {}
  /\ builds = {} /\ senders = {} /\ queue = <<>> /\ batch = <<>>
  /\ log = <<>> /\ bodies = {} /\ selected = {}
  /\ tracker = <<>>
  /\ lost = {} /\ mishaps = 0

writer == <<queue, batch, log, bodies>>
request == <<stage, inbound, upstream>>
Enters(r, to) == stage' = [stage EXCEPT ![r] = to]
Faulty == mishaps < MaxMishaps /\ mishaps' = mishaps + 1

---------------------------------------------------------------------------
(* A request, its Pending and its Trace.                                   *)

Arrive(r) ==
  /\ stage[r] = "new"
  /\ Enters(r, "open")
  /\ inbound' = inbound \cup {r}
  /\ UNCHANGED <<upstream, builds, senders, writer, tracker, selected, lost, mishaps>>

(* Each attempt forgets the upstream of the one before.                    *)
BeginAttempt(r) ==
  /\ stage[r] = "open"
  /\ upstream' = upstream \ {r}
  /\ UNCHANGED <<stage, inbound, builds, senders, writer, tracker, selected, lost, mishaps>>

UpstreamRequest(r) ==
  /\ stage[r] = "open"
  /\ upstream' = upstream \cup {r}
  /\ UNCHANGED <<stage, inbound, builds, senders, writer, tracker, selected, lost, mishaps>>

(* save hands the Inbound over to the record it spawns.                    *)
Keeps(r, left) == left
Takes(r, left) == left \ {r}
Saved(r, status, left) ==
  IF r \in left THEN {[of |-> r, status |-> status]} ELSE {}

(* complete saves, and Drop for Pending saves what has not been saved.     *)
Ending(r, status) ==
  LET left == IF status = "aborted" THEN inbound ELSE Takes(r, inbound) IN
  /\ stage[r] = "open"
  /\ builds' = builds \cup Saved(r, status, inbound) \cup Saved(r, "aborted", left)
  /\ inbound' = Takes(r, left)
  /\ Enters(r, status)
  /\ UNCHANGED <<upstream, senders, writer, tracker, selected, lost, mishaps>>

(* With "ok" or "error".                                                   *)
Complete(r) == Ending(r, "completed")

(* The handler is dropped before it has completed the record.              *)
DropPending(r) == Ending(r, "aborted")

---------------------------------------------------------------------------
(* build, with Tracker::compare_and_store.                                 *)

Shorter(p, c) == IF Len(p.messages) < Len(c.messages) THEN Len(p.messages)
                 ELSE Len(c.messages)
Shared(p, c) ==
  Cardinality({n \in 1..Shorter(p, c) : \A i \in 1..n : p.messages[i] = c.messages[i]})

Related(p, c) == p.system = c.system \/ Shared(p, c) > 0
Diverges(p, c) ==
  \/ p.system # c.system \/ p.tools # c.tools
  \/ Shared(p, c) < Shorter(p, c)

(* Same system prompt, then same tools, then the longest common prefix.    *)
Above(p, q, c) ==
  LET same(x) == <<x.system = c.system, x.tools = c.tools>> IN
  IF same(p)[1] # same(q)[1] THEN same(p)[1]
  ELSE IF same(p)[2] # same(q)[2] THEN same(p)[2]
  ELSE Shared(p, c) > Shared(q, c)

(* The last of the best of a non-empty list, as max_by_key has it.         *)
Best(list, c) ==
  CHOOSE i \in DOMAIN list :
    \A j \in DOMAIN list :
      /\ ~Above(Prompts[list[j]], Prompts[list[i]], c)
      /\ j > i => Above(Prompts[list[i]], Prompts[list[j]], c)

(* A request that continues its best takes its place.                      *)
Replaces(p, c) == ~Diverges(p, c) /\ Len(p.messages) <= Len(c.messages)

Follows(list, c) == list # <<>> /\ Related(Prompts[list[Best(list, c)]], c)
Kept(list, c) ==
  IF Follows(list, c) /\ Replaces(Prompts[list[Best(list, c)]], c)
  THEN RemoveAt(list, Best(list, c)) ELSE list

LastSessions(list) ==
  IF Len(list) > SessionsPerKey THEN Tail(list) ELSE list

Store(r) == tracker' = LastSessions(Append(Kept(tracker, Prompts[r]), r))

(* Only an upstream body has a fingerprint.                                *)
RecordOf(save) ==
  LET c == Prompts[save.of]
      linked == save.of \in upstream /\ Follows(tracker, c)
  IN  [of |-> save.of, status |-> save.status,
       previous |-> IF linked THEN tracker[Best(tracker, c)] ELSE Unlinked,
       diverged |-> linked /\ Diverges(Prompts[tracker[Best(tracker, c)]], c)]

Build(save) ==
  /\ save \in builds
  /\ builds' = builds \ {save}
  /\ senders' = senders \cup {RecordOf(save)}
  /\ IF save.of \in upstream THEN Store(save.of) ELSE UNCHANGED tracker
  /\ upstream' = upstream \ {save.of}
  /\ UNCHANGED <<stage, inbound, writer, selected, lost, mishaps>>

BuildFails(save) ==
  /\ save \in builds /\ Faulty
  /\ builds' = builds \ {save}
  /\ lost' = lost \cup {save.of}
  /\ upstream' = upstream \ {save.of}
  /\ UNCHANGED <<stage, inbound, senders, writer, tracker, selected>>

(* A new key with TRACKED_CONVERSATIONS others clears them all.            *)
Evict ==
  /\ tracker # <<>>
  /\ tracker' = <<>>
  /\ UNCHANGED <<request, builds, senders, writer, selected, lost, mishaps>>

---------------------------------------------------------------------------
(* The writer: a full queue makes its senders wait, a batch is inserted in *)
(* one transaction, and one that fails is given up as a whole.             *)

Send(record) ==
  /\ record \in senders /\ Len(queue) < WriteQueue
  /\ senders' = senders \ {record}
  /\ queue' = Append(queue, record)
  /\ UNCHANGED <<request, builds, batch, log, bodies, tracker, selected, lost, mishaps>>

Some == IF Len(queue) < WriteBatch THEN Len(queue) ELSE WriteBatch
RecvMany ==
  /\ batch = <<>> /\ queue # <<>>
  /\ batch' = SubSeq(queue, 1, Some)
  /\ queue' = SubSeq(queue, Some + 1, Len(queue))
  /\ UNCHANGED <<request, builds, senders, log, bodies, tracker, selected, lost, mishaps>>

(* A body too large for a packet is left out, its row is not.              *)
Stores(record) == Sizes[record.of] \in 1..MaxPacket
Insert ==
  /\ batch # <<>>
  /\ log' = log \o batch
  /\ bodies' = bodies \cup {Len(log) + i : i \in {j \in DOMAIN batch : Stores(batch[j])}}
  /\ batch' = <<>>
  /\ UNCHANGED <<request, builds, senders, queue, tracker, selected, lost, mishaps>>

InsertFails ==
  /\ batch # <<>> /\ Faulty
  /\ batch' = <<>>
  /\ lost' = lost \cup {record.of : record \in ToSet(batch)}
  /\ UNCHANGED <<request, builds, senders, queue, log, bodies, tracker, selected>>

(* The process stops: what was not inserted is gone, requests that ran too. *)
LogCrash ==
  /\ Faulty
  /\ lost' = lost \cup {r \in Arrivals : stage[r] # "new"
                          /\ \A id \in Ids : log[id].of # r}
  /\ stage' = [r \in Arrivals |-> IF stage[r] = "open" THEN "gone" ELSE stage[r]]
  /\ inbound' = {} /\ builds' = {} /\ senders' = {} /\ queue' = <<>> /\ batch' = <<>>
  /\ tracker' = <<>>
  /\ selected' = {}
  /\ upstream' = {}
  /\ UNCHANGED <<log, bodies>>

---------------------------------------------------------------------------
(* prune_request_logs: the byte cap, in two queries.  Ages are left out.   *)

SizeOf(id) == Sizes[log[id].of]
OldestFirstTotal(id) == MapThenSumSet(SizeOf, {b \in bodies : b <= id})
NewestFirstTotal(id) == MapThenSumSet(SizeOf, {b \in bodies : b >= id})

Select ==
  /\ MaxBodyBytes > 0 /\ selected = {}
  /\ selected' = {id \in bodies : NewestFirstTotal(id) > MaxBodyBytes}
  /\ selected' # {}
  /\ UNCHANGED <<request, builds, senders, writer, tracker, lost, mishaps>>

(* In chunks of one, in no order; a failed chunk ends the round.           *)
DeleteSelected(id) ==
  /\ bodies' = bodies \ {id}
  /\ selected' = selected \ {id}
  /\ UNCHANGED <<request, builds, senders, queue, batch, log, tracker, lost, mishaps>>

DeleteFails ==
  /\ selected # {} /\ Faulty
  /\ selected' = {}
  /\ UNCHANGED <<request, builds, senders, writer, tracker, lost>>

Writes == RecvMany \/ Insert
Prunes == Select \/ (\E id \in selected : DeleteSelected(id)) \/ DeleteFails

Serve(r) == BeginAttempt(r) \/ UpstreamRequest(r)
Ends(r) == Complete(r) \/ DropPending(r)

LogNext ==
  \/ \E r \in Arrivals : Arrive(r) \/ Serve(r) \/ Ends(r)
  \/ \E save \in builds : Build(save) \/ BuildFails(save)
  \/ \E record \in senders : Send(record)
  \/ Evict \/ Writes \/ InsertFails \/ Prunes \/ LogCrash

(* Handlers end or are dropped, spawned tasks run, the channel serves its  *)
(* senders and the database answers the writer: while one of them can go   *)
(* on, one of them does.                                                   *)
Proceeds ==
  \/ \E r \in Arrivals : Ends(r)
  \/ \E save \in builds : Build(save)
  \/ \E record \in senders : Send(record)
  \/ Writes
LogFairness == WF_requestlog(Proceeds)

LogSpec == LogInit /\ [][LogNext]_requestlog /\ LogFairness

---------------------------------------------------------------------------
(* The byte cap never costs a body that fits: one that is under the cap    *)
(* with every body ever stored after it is there, though requests are      *)
(* logged between the pruner's queries and a chunk of its may fail.        *)
StoredAfter(id) == {i \in Ids : i >= id /\ Stores(log[i])}
CapKeepsNewest ==
  \A id \in Ids :
    Stores(log[id]) /\ MapThenSumSet(SizeOf, StoredAfter(id)) <= MaxBodyBytes => id \in bodies

RowsOf(r) == {id \in DOMAIN log : log[id].of = r}
LoggedOnce(r) ==
  IF r \in lost THEN RowsOf(r) = {}
  ELSE \E id \in Ids : RowsOf(r) = {id} /\ log[id].status = stage[r]

RequestsOf(q) == {q[n].of : n \in DOMAIN q}
OnTheWay ==
  {save.of : save \in builds} \cup {record.of : record \in senders}
    \cup RequestsOf(queue) \cup RequestsOf(batch)

(* A request that has ended is logged once and with how it ended, or has   *)
(* its record on the way, or is lost: complete and Drop both save, queue   *)
(* and batches neither drop nor repeat a record, and nothing is logged of  *)
(* a request that runs.                                                    *)
RecordedOnce ==
  \A r \in Arrivals :
    IF stage[r] \in {"new", "open"} \/ r \in OnTheWay THEN RowsOf(r) = {} /\ r \notin lost
    ELSE LoggedOnce(r)

(* Every request that has arrived is so logged in the end, however long    *)
(* the queue was full.  What is not went with a batch or build that failed *)
(* or a crash.                                                             *)
EventuallyLogged == \A r \in Arrivals : stage[r] = "open" ~> []LoggedOnce(r)
===========================================================================
