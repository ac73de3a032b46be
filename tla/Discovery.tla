----------------------------- MODULE Discovery ------------------------------
(***************************************************************************)
(* What the node offers and how the market hears of it: the rows of        *)
(* model_pricing that administrators edit (db/pricing.rs), the loop that   *)
(* announces the advertised models to Nostr relays (discovery/mod.rs), and *)
(* the identity it signs with, which a page of the administration loads at *)
(* the same time (api/market.rs).                                          *)
(*                                                                         *)
(* A price is one number; URLs, name and version of an announcement do not *)
(* change while the server runs.  A tick is POLL, and RETRY is shorter.    *)
(***************************************************************************)
EXTENDS Naturals, FiniteSets

CONSTANTS
  Models,
  Prices,
  Editors,      \* administrators who edit prices
  Relays,
  Pages,        \* requests for the page that shows the npub
  Partial,      \* PARTIAL_RETRY in ticks
  PartialMax,   \* PARTIAL_RETRY_MAX
  Refresh,      \* REFRESH
  MaxAttempts,  \* bound on the partial attempts that are told apart
  MaxEdits,     \* bound on the edits
  MaxMishaps    \* bound on crashes, failed queries, dead relays, lost answers

ASSUME DiscoveryAssumption ==
  /\ Partial \in Nat \ {0} /\ PartialMax \in Nat /\ Partial <= PartialMax
  /\ PartialMax <= Refresh /\ Refresh \in Nat /\ IsFiniteSet(Relays)
  /\ MaxAttempts \in Nat /\ MaxEdits \in Nat /\ MaxMishaps \in Nat
  /\ "run" \notin Pages

VARIABLES
  pricing,    \* pricing[m]: the row of a model
  edit,       \* edit[e]: what an update has read
  edits,
  identity,   \* the nostr_identity row
  loader,     \* loader[l]: how far load_keys got, for the loop and for pages
  phase,      \* of the announcing loop
  listing,    \* the models it has read for this round
  published,  \* the last announcement that a relay accepted, and its age
  attempts,   \* partial_attempts
  relay,      \* relay[r]: the newest announcement that a relay holds
  alive,      \* relays that take announcements
  mishaps

offer == <<pricing, edit, edits>>
keys == <<identity, loader>>
loop == <<phase, listing, published, attempts>>
discovery == <<offer, keys, loop, relay, alive, mishaps>>

Loaders == Pages \cup {"run"}
Row == [advertised : BOOLEAN, price : Prices]
Absent == [price |-> "absent"]
NoKey == <<>>
Keys == {NoKey} \cup (Loaders \X (0..MaxMishaps))   \* who generated it, after how many faults
NoAttempts == MaxAttempts + 1
Never == [models |-> {}, age |-> Refresh + 1]
Announcement == [by : Keys, models : SUBSET Models]
NoAnnouncement == [by |-> NoKey, models |-> {}]
Started == [at |-> "start", key |-> NoKey]

DiscoveryTypeOK ==
  /\ pricing \in [Models -> Row \cup {Absent}]
  /\ edit \in [Editors -> {<<>>} \cup (Models \X Row)]
  /\ edits \in 0..MaxEdits
  /\ identity \in Keys
  /\ loader \in [Loaders -> [at : {"start", "missing", "stored", "loaded"}, key : Keys]]
  /\ phase \in {"starting", "stopped", "poll", "awake", "read"}
  /\ listing \in SUBSET Models
  /\ published \in [models : SUBSET Models, age : 0..(Refresh + 1)]
  /\ attempts \in 0..NoAttempts
  /\ relay \in [Relays -> Announcement]
  /\ alive \subseteq Relays
  /\ mishaps \in 0..MaxMishaps

DiscoveryInit ==
  /\ pricing \in [Models -> [advertised : {TRUE}, price : Prices] \cup {Absent}]
  /\ edit = [e \in Editors |-> <<>>] /\ edits = 0
  /\ identity = NoKey /\ loader = [l \in Loaders |-> Started]
  /\ phase = "starting" /\ listing = {} /\ published = Never /\ attempts = NoAttempts
  /\ relay = [r \in Relays |-> NoAnnouncement] /\ alive = Relays
  /\ mishaps = 0

Mishap == mishaps < MaxMishaps /\ mishaps' = mishaps + 1

-----------------------------------------------------------------------------
(* The pricing rows. *)

Edits == edits < MaxEdits /\ edits' = edits + 1

CreatePricing(m, r) ==
  /\ Edits /\ pricing[m] = Absent
  /\ pricing' = [pricing EXCEPT ![m] = r]
  /\ UNCHANGED <<edit, keys, loop, relay, alive, mishaps>>

DeletePricing(m) ==
  /\ Edits /\ pricing[m] # Absent
  /\ pricing' = [pricing EXCEPT ![m] = Absent]
  /\ UNCHANGED <<edit, keys, loop, relay, alive, mishaps>>

\* An update reads the row, merges what it was given and writes every column.
ReadPricing(e, m) ==
  /\ edit[e] = <<>> /\ pricing[m] # Absent /\ Edits
  /\ \E a \in BOOLEAN, p \in Prices :
       \E merged \in {[pricing[m] EXCEPT !.advertised = a], [pricing[m] EXCEPT !.price = p]} :
         edit' = [edit EXCEPT ![e] = <<m, merged>>]
  /\ UNCHANGED <<pricing, keys, loop, relay, alive, mishaps>>

WritePricing(e) ==
  /\ edit[e] # <<>>
  /\ pricing' = IF pricing[edit[e][1]] = Absent THEN pricing
            ELSE [pricing EXCEPT ![edit[e][1]] = edit[e][2]]
  /\ edit' = [edit EXCEPT ![e] = <<>>]
  /\ UNCHANGED <<edits, keys, loop, relay, alive, mishaps>>

\* advertised_models
Advertised == {m \in Models : pricing[m] # Absent /\ pricing[m].advertised}

-----------------------------------------------------------------------------
(* load_keys, called by the loop when it starts and by every page. *)

LookUpKey(l) ==
  /\ loader[l].at = "start"
  /\ loader' = [loader EXCEPT ![l].at = IF identity = NoKey THEN "missing" ELSE "stored"]
  /\ UNCHANGED <<offer, identity, loop, relay, alive, mishaps>>

\* INSERT IGNORE: the first key stays.
Inserted(key) == IF identity = NoKey THEN key ELSE identity

InsertKey(l) ==
  /\ loader[l].at = "missing"
  /\ identity' = Inserted(<<l, mishaps>>)
  /\ loader' = [loader EXCEPT ![l] = [at |-> "stored", key |-> <<l, mishaps>>]]
  /\ UNCHANGED <<offer, loop, relay, alive, mishaps>>

KeyGenerated(l) == loader[l].key

\* The key that is used: of the row, whatever was generated.
KeyInUse(l) == identity

RereadKey(l) ==
  /\ loader[l].at = "stored"
  /\ loader' = [loader EXCEPT ![l] = [at |-> "loaded", key |-> KeyInUse(l)]]
  /\ UNCHANGED <<offer, identity, loop, relay, alive, mishaps>>

\* The page is shown; another one may be asked for.
ShowNpub(l) ==
  /\ l \in Pages /\ loader[l].at = "loaded"
  /\ loader' = [loader EXCEPT ![l] = Started]
  /\ UNCHANGED <<offer, identity, loop, relay, alive, mishaps>>

\* A query fails: the page shows no npub, the loop stops for good.
LoadFails(l) ==
  /\ Mishap /\ loader[l].at \in {"start", "missing", "stored"}
  /\ loader' = [loader EXCEPT ![l] = Started]
  /\ phase' = IF l = "run" THEN "stopped" ELSE phase
  /\ UNCHANGED <<offer, identity, listing, published, attempts, relay, alive>>

-----------------------------------------------------------------------------
(* The loop. *)

EnterLoop ==
  /\ phase = "starting" /\ loader["run"].at = "loaded"
  /\ phase' = "awake"
  /\ UNCHANGED <<offer, keys, listing, published, attempts, relay, alive, mishaps>>

\* A failed query reads as if nothing were for sale.
ReadOffer ==
  /\ phase = "awake"
  /\ phase' = "read"
  /\ \/ listing' = Advertised /\ UNCHANGED mishaps
     \/ Mishap /\ listing' = {}
  /\ UNCHANGED <<offer, keys, published, attempts, relay, alive>>

partial_retry_delay(n) == IF Partial * 2^n < PartialMax THEN Partial * 2^n ELSE PartialMax

DueOnChange == published = Never \/ published.models # listing

IsDue ==
  \/ published = Never
  \/ published.models # listing
  \/ published.age >= Refresh
  \/ attempts # NoAttempts /\ published.age >= partial_retry_delay(attempts)

\* RETRY until the first announcement, POLL afterwards.
Sleeps == phase' = IF published' = Never THEN "awake" ELSE "poll"

NotDue ==
  /\ phase = "read" /\ ~IsDue
  /\ UNCHANGED <<offer, keys, listing, published, attempts, relay, alive, mishaps>>
  /\ Sleeps

\* partial_attempts after some relays accepted.
Attempts(accepted) ==
  IF accepted = Relays THEN NoAttempts
  ELSE IF published # Never /\ published.models = listing
       THEN IF attempts = NoAttempts THEN 0
            ELSE IF attempts < MaxAttempts THEN attempts + 1 ELSE MaxAttempts
       ELSE 0

\* Living relays hold the announcement; an answer that says so may get lost.
Announce(accepted) ==
  /\ phase = "read" /\ IsDue
  /\ accepted \subseteq alive
  /\ IF accepted = alive THEN UNCHANGED mishaps ELSE Mishap
  /\ relay' = [r \in Relays |-> IF r \in alive
                                THEN [by |-> loader["run"].key, models |-> listing]
                                ELSE relay[r]]
  /\ IF accepted = {}
     THEN UNCHANGED <<published, attempts>>
     ELSE /\ published' = [models |-> listing, age |-> 0]
          /\ attempts' = Attempts(accepted)
  /\ Sleeps
  /\ UNCHANGED <<offer, keys, listing, alive>>

\* POLL is over.
OlderPublished(age) == IF age < Refresh THEN age + 1 ELSE age
PollPasses ==
  /\ phase = "poll"
  /\ phase' = "awake"
  /\ published' = [published EXCEPT !.age = OlderPublished(published.age)]
  /\ UNCHANGED <<offer, keys, listing, attempts, relay, alive, mishaps>>

-----------------------------------------------------------------------------
RelayDies(r) ==
  /\ Mishap /\ r \in alive
  /\ alive' = alive \ {r}
  /\ UNCHANGED <<offer, keys, loop, relay>>

RelayReturns(r) ==
  /\ r \notin alive
  /\ alive' = alive \cup {r}
  /\ UNCHANGED <<offer, keys, loop, relay, mishaps>>

\* The server stops and starts again: only the database and the relays remain.
Reboot ==
  /\ Mishap
  /\ edit' = [e \in Editors |-> <<>>]
  /\ loader' = [l \in Loaders |-> Started]
  /\ phase' = "starting" /\ listing' = {} /\ published' = Never /\ attempts' = NoAttempts
  /\ UNCHANGED <<pricing, edits, identity, relay, alive>>

-----------------------------------------------------------------------------
Load(l) ==
  /\ l = "run" => phase = "starting"
  /\ LookUpKey(l) \/ InsertKey(l) \/ RereadKey(l) \/ LoadFails(l)

Rounds == EnterLoop \/ ReadOffer \/ NotDue \/ (\E a \in SUBSET Relays : Announce(a)) \/ PollPasses
RunsOn == Load("run") \/ Rounds

DiscoveryNext ==
  \/ \E m \in Models : DeletePricing(m) \/ \E r \in Row : CreatePricing(m, r)
  \/ \E e \in Editors : WritePricing(e) \/ \E m \in Models : ReadPricing(e, m)
  \/ \E l \in Loaders : Load(l) \/ ShowNpub(l)
  \/ Rounds
  \/ \E r \in Relays : RelayDies(r) \/ RelayReturns(r)
  \/ Reboot

\* The loop's task is polled and its timer fires; an update that has read its
\* row writes it; a relay that went away comes back.
DiscoveryFairness ==
  /\ WF_discovery(RunsOn)
  /\ \A e \in Editors : WF_discovery(WritePricing(e))
  /\ \A r \in Relays : WF_discovery(RelayReturns(r))

DiscoverySpec == DiscoveryInit /\ [][DiscoveryNext]_discovery /\ DiscoveryFairness

-----------------------------------------------------------------------------
(* What makes the announcements correct. *)

\* Whatever relays, queries and crashes do to the rounds before: once prices
\* stay as they are, every relay ends up with the current offer (a partial
\* acceptance is retried, a change is noticed), unless loading the key failed
\* and stopped the loop.
AnnouncedInTheEnd ==
  <>[](phase = "stopped" \/ \A r \in Relays : relay[r].models = Advertised)

\* The node has one identity: what relays hold and what a page shows is signed
\* by the same key, though the loop and pages may generate one each at the
\* same time, and the server restarts in between.
OneIdentity ==
  /\ \A r \in Relays : relay[r].by \in {NoKey, identity}
  /\ \A l \in Loaders : loader[l].at = "loaded" => loader[l].key = identity
=============================================================================
