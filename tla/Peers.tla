------------------------------- MODULE Peers --------------------------------
(***************************************************************************)
(* The prices of other nodes (discovery/peers.rs, api/market.rs): a search *)
(* takes the mutex of the snapshot and, when that is old, builds a new one *)
(* under it: it asks the relays for announcements and then every announced *)
(* node for its models, a few at a time, each with a deadline.             *)
(*                                                                         *)
(* An announcement is of one node: its key, the "d" tag, its URL and when  *)
(* it was made.  A price is told apart by its age.  A tick is longer than  *)
(* any of the deadlines.                                                   *)
(***************************************************************************)
EXTENDS Naturals, FiniteSets, Sequences

CONSTANTS
  Searches,       \* requests of the market page
  Nodes,          \* URLs of nodes
  Own,            \* the URL of this node
  Announcements,  \* sets of announcements that relays may hand out
  Concurrency,    \* CONCURRENCY
  CacheTTL        \* CACHE_TTL

ASSUME PeersAssumption ==
  /\ Concurrency \in Nat \ {0} /\ CacheTTL \in Nat \ {0}
  /\ \A held \in Announcements :
       held \subseteq [key : Nat, url : Nodes, usable : BOOLEAN, at : Nat]

VARIABLES
  snap,    \* the cached snapshot: the nodes it has prices of, and its age
  search,  \* search[s]: the locals of a request
  mutex    \* the searches that hold the guard of the cache or wait for it, in order

peers == <<snap, search, mutex>>

NoSnap == [ok |-> {}, age |-> CacheTTL]
NoSearch == [at |-> "idle", refresh |-> FALSE, asked |-> {}, ok |-> {}, left |-> {}, age |-> 0]

PeersInit == snap = NoSnap /\ search = [s \in Searches |-> NoSearch] /\ mutex = <<>>

-----------------------------------------------------------------------------
\* The newest announcement of each key; its URL if it is of another node.
Latest(held) ==
  {a \in held : \A b \in held : b.key = a.key => b.at <= a.at}
node_urls(held) == {a.url : a \in {b \in Latest(held) : b.usable /\ b.url # Own}}

Alter(s, with) == search' = [search EXCEPT ![s] = with]

Arrive(s, refresh) ==
  /\ search[s].at = "idle"
  /\ Alter(s, [NoSearch EXCEPT !.at = "waits", !.refresh = refresh])
  /\ mutex' = Append(mutex, s)
  /\ UNCHANGED snap

IsFresh == snap.age < CacheTTL

\* The mutex is handed on in order, and held to the end of a build.
Unlocked(s) == SelectSeq(mutex, LAMBDA t : t # s)

Lock(s) ==
  /\ search[s].at = "waits" /\ Head(mutex) = s
  /\ IF IsFresh /\ ~search[s].refresh
     THEN /\ Alter(s, [search[s] EXCEPT !.at = "done", !.ok = snap.ok, !.age = snap.age])
          /\ mutex' = Unlocked(s)
     ELSE /\ Alter(s, [search[s] EXCEPT !.at = "relays"])
          /\ UNCHANGED mutex
  /\ UNCHANGED snap

\* The relays answer, or RELAY_TIMEOUT passes and what came by then counts.
AskNodes(s, urls) ==
  /\ search[s].at = "relays"
  /\ Alter(s, [search[s] EXCEPT !.at = "nodes", !.left = urls])
  /\ UNCHANGED <<snap, mutex>>

RelaysAnswer(s) == \E held \in Announcements : AskNodes(s, node_urls(held))
RelaysTimeOut(s) == AskNodes(s, {})

\* A task with a permit asks its node.
Acquire(s, n) ==
  /\ search[s].at = "nodes" /\ n \in search[s].left
  /\ Cardinality(search[s].asked) < Concurrency
  /\ Alter(s, [search[s] EXCEPT !.left = @ \ {n}, !.asked = @ \cup {n}])
  /\ UNCHANGED <<snap, mutex>>

NodeAnswers(s, n) ==
  /\ n \in search[s].asked
  /\ Alter(s, [search[s] EXCEPT !.asked = @ \ {n}, !.ok = @ \cup {n}])
  /\ UNCHANGED <<snap, mutex>>

\* NODE_TIMEOUT, a refusal, or something that is no listing.
NodeFails(s, n) ==
  /\ n \in search[s].asked
  /\ Alter(s, [search[s] EXCEPT !.asked = @ \ {n}])
  /\ UNCHANGED <<snap, mutex>>

\* A build without any node is not kept.
Keeps(ok) == ok # {}

Built(s) ==
  /\ search[s].at = "nodes" /\ search[s].left = {} /\ search[s].asked = {}
  /\ snap' = IF Keeps(search[s].ok) THEN [ok |-> search[s].ok, age |-> 0] ELSE snap
  /\ mutex' = Unlocked(s)
  /\ Alter(s, [search[s] EXCEPT !.at = "done"])

SearchReturns(s) ==
  /\ search[s].at = "done"
  /\ Alter(s, NoSearch)
  /\ UNCHANGED <<snap, mutex>>

\* The client leaves and the handler is dropped, the guard with it.
Leave(s) ==
  /\ search[s].at \notin {"idle", "done"}
  /\ Alter(s, NoSearch)
  /\ mutex' = Unlocked(s)
  /\ UNCHANGED snap

SnapAges ==
  /\ mutex = <<>> /\ \A s \in Searches : search[s].at # "done"
  /\ snap' = [snap EXCEPT !.age = IF @ < CacheTTL THEN @ + 1 ELSE @]
  /\ UNCHANGED <<search, mutex>>

-----------------------------------------------------------------------------
Searching(s) ==
  \/ Lock(s)
  \/ RelaysTimeOut(s)
  \/ \E n \in Nodes : Acquire(s, n) \/ NodeFails(s, n)
  \/ Built(s)
  \/ SearchReturns(s)

PeersNext ==
  \/ \E s \in Searches :
       \/ \E refresh \in BOOLEAN : Arrive(s, refresh)
       \/ Searching(s) \/ RelaysAnswer(s) \/ Leave(s)
       \/ \E n \in Nodes : NodeAnswers(s, n)
  \/ SnapAges

\* Timers fire and tasks are polled.
PeersFairness == \A s \in Searches : WF_peers(Searching(s))

PeersSpec == PeersInit /\ [][PeersNext]_peers /\ PeersFairness

-----------------------------------------------------------------------------
\* A search returns, or its client has left, although relays and nodes never
\* answer and another search builds before it.
SearchesReturn == \A s \in Searches : (search[s].at = "waits") ~> (search[s].at = "idle")
=============================================================================
