# yalr in TLA+

yalr is a Rust gateway for language models: it authenticates OpenAI-compatible
requests, routes them over several upstream providers with failover, meters and
bills them against prepaid balances, takes and pays out those balances over
Lightning, and offers its models to other nodes over Nostr. This directory holds
TLA+ models of it, the TLC configurations that check them on small instances,
and TLAPS proofs. Source paths below are relative to `src/src/`.

## The system and its parts

| part | state it keeps | operations | modelled in |
|---|---|---|---|
| Lightning deposits (`payments/lightning.rs`, `payments/anonymous.rs`, `db/anonymous.rs`, `db/payments.rs`) | `lightning_invoices` rows, `users`, the LND subscription | create an invoice (open an account or top up), status check, settlement listener, pruner | `Settlement` |
| Balances, billing, refunds (`payments/balance.rs`, `guard.rs`, `biller.rs`, `routstr.rs`) | `user_balances`, `balance_transactions`, the `settled` flag of a request, LND's payments | admit, finalize, credit, price and exemption changes; debit, pay, fee, reverse | `Billing`, `Wallet` |
| Inference endpoints (`api/chat.rs`, `metered.rs`, `responses.rs`, `decisions.rs`, `audio.rs`, `images.rs`, `modalities.rs`) | one handler per request; writes the ledger, the usage of its key and the request log | checks, route, settle, stream, leave | `Endpoints` |
| Account pages and reports (`payments/account.rs`, `db/usage.rs`, `api/usage.rs`, `auth/api_keys.rs`, `api/users.rs`) | none: several queries each | history, usage report, key list, admin credit | `Statements` |
| Failover (`router/engine.rs`, `failover.rs`, `input_filter.rs`, `metrics.rs`) | one loop per request; `in_flight` counters per provider | candidate loop, stream loop, in-flight guard | `Failover` |
| Candidate selection (`router/engine.rs`, `sticky.rs`) | strategies, session pins | candidates, pin, move_pinned_first | `Routing` |
| Reload and health loops (`router/engine.rs`, `config.rs`, `api/providers.rs`, `api/routing.rs`) | providers, routing tables, shutdown channel, tasks | write, reload_config, start_health_checks | `Reload` |
| Provider health (`metrics.rs`, `metrics_agg.rs`) | per-provider failure window, balance, quota | record, health, backoff | `Health` |
| Statistics (`metrics.rs`, `api/ws.rs`, `api/health.rs`, `db/metrics_history.rs`) | counters, event deque, broadcast ring, history and its rows | emit, watch, summarise, snapshot, restart | `Statistics` |
| API key cache (`db/auth_cache.rs`, `db/users.rs`) | entries, generation | lookup, put, clear; the writes that must clear | `AuthCache` |
| Model access and listing rights (`db/users.rs`, `db/pricing.rs`, `api/models.rs`) | rules, exemptions, models for sale | access check, listing, rule and price writes | `Access` |
| Users and sessions (`auth/admin.rs`, `db/users.rs`, `api/users.rs`) | `users`, sessions | setup, login, NIP-98 login, create, update, delete | `Accounts` |
| OAuth (`oauth/`, `api/oauth.rs`) | tokens per session, `providers` row, pending logins | access_token, refresh, login, reload | `OAuth` |
| Request log (`request_log/`, `db/request_log/`) | tracker, bounded queue, rows, bodies | save once, batch insert, drop, prune | `RequestLog` |
| Provider adapters (`providers/anthropic_oauth/`, `anthropic/`, `openai_oauth/`, `openai.rs`, `cache_key.rs`, `request.rs`) | one request or stream | convert messages, convert a stream, classify errors | `Conversation`, `Adapters` |
| Model listings (`api/models.rs`, `model_cache.rs`, `limits.rs`, the listings of `providers/`) | the provider's own caches, three of the server | list, probe, sync | `Catalog` |
| Nostr discovery (`discovery/`, `api/market.rs`, `db/pricing.rs`) | the node's key, price rows, last publication, the peers' snapshot | edit prices, announce, load the key, search | `Discovery`, `Peers` |
| Quotas (`providers/quota/`), HTTP surface, CLI, import, web interface, vendored client | none that outlives a request | parsing, formatting, one-shot tools | not modelled, see below |

How they interact. A handler authenticates through the key cache, asks the
access rules and `BillingGuard` for admission, asks the router for an answer,
and settles with the usage that the router lets through. The router reads health
and in-flight counters that its own attempts write, and tables that a reload
replaces. Providers hold OAuth sessions that outlive a reload. The settlement
listener, the status checks, the pruner, the refund handler and the pages meet
in the database only: each is a sequence of awaited statements with no lock
around it.

What is hard here. (1) Every handler is an async function that is dropped at the
await it is in when its client goes away: what comes after that await does not
happen. (2) Two statements in two transactions, with a failure or another task
in between (mark paid, then credit; debit, then pay, then reverse; charge, then
count, then log). (3) An external node that settles, fails or answers late, and
delivers an update twice or never; an upstream that accepts a connection and
never answers. (4) Failover while a stream is already on the client's screen.
(5) Caches and snapshots filled with what was read before a write. (6) Two codes
for one question (listing and check, handler and adapter) that must agree.

## Plan

The order was: money (`Settlement`, `Wallet`, `Billing`), serving (`Failover`,
`Routing`, `Health`), keys (`AuthCache`), then what replaces or feeds those
(`Reload`, `OAuth`, `RequestLog`, `Statistics`), users (`Access`, `Accounts`),
what a client and an upstream say to each other (`Conversation`, `Adapters`),
the market (`Catalog`, `Discovery`, `Peers`), and the endpoints with their books
(`Endpoints`, `Statements`); then the proofs, from money to the pages that
report it and the conversations. What is left: models of the Responses
conversion (`openai_oauth/convert.rs`) and of provider top-ups.

## Modules

Proofs are kept apart from the models, in modules named after a part of the
system (see Proofs). An MC module of several modules runs
them side by side: its variable `scene` picks in the initial state which of them
a behaviour exercises, so that their state spaces add up and do not multiply. A
scene is only used for parts that share no state in the code, or of which one
takes any answer of the other.

| MC module | composes | scenes |
|---|---|---|
| MCBilling, MCOAuth | the module of that name | |
| MCBackground | `Settlement`, `RequestLog` | the listener of invoices; the writer of the request log |
| MCServing | `Failover`; `Endpoints` and `Statements`, which extends it | failover; two calls and their books; a call and a page; a call and a report |
| MCRouter | `Routing`, `Reload` | a choice; a reload |
| MCHealth | `Health`, `Statistics` | the router's aggregates; events and their viewers; the history |
| MCUsers | `AuthCache`, `Access`, `Accounts` | one of the three |
| MCConversation | `Adapters`, which extends `Conversation` | a route for each adapter |
| MCMarket | `Catalog`, `Discovery`, `Peers` | one of the three |

### Settlement

An invoice has two lives: LND's (`lnd`, external) and the row's (`row`). One
action per awaited statement: `CreateAccount`, `StoreKey`, `FindTopupUser`,
`AddInvoice`, `StoreInvoice`, `MarkPublic` are the steps of
`POST /v2/lightning/invoice`; `InvoiceFails` and `CreateAbandoned` its error
paths; `TakeSettled`, `MarkPaid`, `CreditDeposit` the three of
`handle_settlement`; `TakeCanceled` the Canceled arm of
`start_settlement_listener`; `CheckInvoice` and `MarkExpired` the two of a status
check; `Prune` the background delete. Two history variables say what the
database forgets: `clobbered[i]` counts the UPDATEs that replaced `paid`,
`pruned` the accounts the pruner took.

Amounts are left out: an invoice is credited with its own amount, so counting
deposits per invoice says the same. The clock is `past[i]` (the expiry has
passed) and `age[a]` (the account is old enough to prune, then too old); days
pass only when no handler from before is still under way, because a handler
lives for minutes.

### Wallet, Billing

`Wallet` says what the code promises about money: it moves between seven
accounts of a user and is never created. `Billing` is the code: the three reads
of admission, the four ways a handler can serve a request and end
(`chat_completions_handler`, `chat_completions_stream`, `Metered::succeed`,
`Metered::tap`), `finalize_usage` with its settled flag, and the refund's
debit, payment, fee and reversal around an LND payment that decides on its own.
`ImplementsWallet` is the refinement: the balance maps to `funds`, the ledger
totals to `deposited` and `spent`, and what is held, paid out, lost or paid twice
is computed from the refunds' handlers and LND's payments.

### Failover

The four loops of the router (`Router::chat_completions`,
`chat_completions_stream`, `responses`, `capability_failover`) share one set of
actions; `op` says which loop a request is in and where they differ. Providers
answer, fail transiently, fail for good, reject what they do not support, or
stream chunks. `inflight` is the counter, `releasing` the decrements that were
spawned and have not run.

### Routing

`Snapshot` takes the strategy's order and what `routing_snapshot` answers (any
health, any wait: the answer is Health's); `Choose` reads the loads and the
session's pin and makes the list; `ProviderFails`, `ProviderServes`,
`StreamsEmpty` and `GivesUp` are as much of Failover's loop as pins can tell. A
sort is an arrangement by rank (`Arrange`), stable because ties fall back on the
order before it; an order is a set of pairs. What is ordered are the places of the
route: the schema lets it list a provider several times, with other models
(`uq_routing_config_providers`), and health and the pin look at the provider of a
place, weights, positions and attempts at the place. A weighted entry has as many
virtual slots as its weight, at least one, dealt in the order of their shares.

### Reload

The administrators' writes are rows; then, in the same handler, `reload_config`:
`Signal`, the queries one after the other (`ListProviders`, `ListConfigs`,
`ReadMembers`, `ListModels`), `InstallProviders` and `InstallTables` under their
two locks, `StopOld` and `StartNew` for the health loop under a third. Two
reloads interleave at every await; `HandlerEnds` is a failed query or a dropped
handler. A loop that has seen the signal ends by itself (`LoopEnds`). A
provider's row is a version, so that an old row can be told from a new one. A
configuration is a row by its id: nothing keeps two from having one name
(`idx_routing_config_name` is no unique key, and the handlers look for none), and
as tables are filled by name in the order of the ids, the later shadows the
earlier (`ReadMembers`). `overtaken` (history) names the part, the providers or
the tables, over which an older reading was installed; the next handler that read
last puts it right.

### Health

What the router knows of a provider (`metrics_agg.rs`). `StampFailure`,
`StampBalance` and `StampQuota` are `emit` up to its timestamp, `apply` the rest
under the lock, so events of two emitters cross. The deque of failures is a log
that only grows and the index of its front (`Prunes` moves it), so that what was
popped can still be compared with. `health` and `time_until_retry` are the
code's functions over them; the code's constants are CONSTANTS. A failure from a
health check carries no `retry_after` even if the upstream sent one.

### Statistics

`Emits` takes an event through the order of `MetricsEmitter::emit`: counted,
sent to the broadcast ring, recorded in the bounded deque. `Check` is a health
check, whose outcome `MetricsStore::record` puts into the deque alone, under the
empty model. `Feed` is a viewer of
the WebSocket with the cursor of its receiver; tokio's ring (its overwritten
tail and `Lagged`) is external. A summary counts the places of the deque that
hold events of a kind. `GetMetrics` reads the summary, the recent
events and the counters as three reads. `take_snapshot`,
`save_metrics_snapshot`, `prune_metrics_snapshots` and `push_snapshot` are the
steps of the history task, `load_history_from_db` and `Restart` what a restart
does to it.

### AuthCache

A lookup is its generation read, three queries and `put`; a write is a commit
and, in a later step, the flush before its caller is answered. Rows carry a
version, so that "the answer is not older than the write" can be said.

### Access

`BeginCheck`, `FindNoRules`, `AskExempt`, `AskForSale` and `ApplyRules` are
`effective_model_access`, query by query; `ReadRules`, `ReadExempt`,
`ReadForSale`, `ListRoutes` and `ListOffer` the listing with code of its own.
`Administer` writes rules, exemptions and prices between any two of them.
`Entitled` is the reference: what the answer would be of one moment's tables,
which a check compares with every moment it saw.

### Accounts

Every handler is its queries: `BeginSetup`/`FinishSetup`, `BeginLogin`/
`FinishLogin`, `BeginNostr`/`InsertNostr`/`SelectNostr`, create, update, delete;
the two UNIQUE keys of `users` decide (`Fits`). A session remembers a name, an
admin flag and an expiry, and `owner` (history) the user who logged in.
`Present` and `Find` are a call with a session token.

### OAuth

A token is the number of the refresh it came from. `Check`, `Lock`, `Answered`,
`Arrives`, `Persist` are `access_token` and `refresh` under the session's lock;
the token endpoint is external and may take a request and never answer, refuse,
or rotate (fixed in Init). `ReadRow` and `Install` make a new session while the
old one lives on in its calls; `Start` to `PersistLogin` are the login.
`Dropped` cuts a call at any await.

### RequestLog

A `Pending` record beside each request: `Arrive`, the attempts of its trace,
`Complete` or `DropPending`, and `Takes`, the `Option::take` that makes saving
happen once. Records are built in spawned tasks (`Build`), where the tracker's
list of prompts links a request to the one it follows, and wait for room in the
bounded queue (`Send`). The writer takes a batch (`RecvMany`) and inserts it in
one transaction; the pruner selects bodies over the byte cap and deletes them in
chunks (`Select`, `DeleteSelected`). Retention by age is left out. `RecordedOnce`
is the invariant beneath `EventuallyLogged`: where the record of a request is at
any moment, and that it is in one place only.

### Conversation, Adapters

`Convert`, `remap_tool_use_blocks`, `clean_messages` and `Marked` are the request
conversion of the Claude Code adapter; a stream is the upstream's blocks, each
started, continued and stopped, converted to chunks with the client's tool
indices and assembled by whoever receives them into the message the next turn
sends back. `Adapters` runs the same conversation over a `route`: the Claude
Code, plain Anthropic, Codex and OpenAI-compatible adapters, with what each of
them keeps of reasoning, texts and calls, the conversation key, and the errors a
stream may end with: their `Causes`, the ways in which an upstream tells them
instead of a stream (`Ways`) or within it (`EventWays`), and what the adapter makes
of them. The stream of the vendored Anthropic client drops the status of a refusal,
so all that plain Anthropic can say of one is that it failed.

### Catalog

One provider of each kind and its `profile`: whether it keeps its own listing,
harvests limits and dials probes. A call for the listing goes through the cache
of models, limits and modalities; each dial has a deadline or none
(`HasDeadline`), and an upstream may never answer. An answer is told by its age
and by whether it has limits, modalities and voices; a list that is in the code
(`Static`) is told from one that upstream gave. Of the Claude Code adapter a failed
fetch tells such a list as if it had succeeded, and without a token it fails.

### Discovery, Peers

`CreatePricing`, `ReadPricing`/`WritePricing` and `DeletePricing` are the
administrators' edits, the update in two statements. `Load` is
the loading of the node's key (`LookUpKey`, `InsertKey`, `RereadKey`) in both of
its callers, the loop and a page; the loop polls, announces to the relays that
take it (`Announce`), keeps the time of the last publication and a backoff of
partial attempts, and is restarted. `Peers`: a search holds the mutex of the
snapshot while it builds one from announcements and from each node's prices,
`Concurrency` at a time.

### Endpoints, Statements

`Stages` are the checks of each kind of call in its order (modality, access,
admission); then the router's answer in tokens, and the books: `ledger`, the
usage rows of the key and `log`. `BooksAgree` says what they owe each other when
no query failed. `Statements` extends it with the readers: the account page
(rows, then their models, folded), the usage report (three queries) and the key
list, with administrators' credits and key deletion in between.

## Runs

| run | shows | bounds, and why they are enough |
|---|---|---|
| MCBackground | credits only for settled invoices; one deposit per payment; announced settlements get credited; the byte cap keeps the newest; everything is logged in the end, once | one account, opening invoice and top-up, two status checks (two can overlap each other and the listener), one fault of any kind; three requests of one conversation (one a retry of its turn), queue and batch of two, bodies of 1, 2 and 3 against a packet and a cap of 2, two faults |
| MCPruned | finding: a race of a status check and the settlement gets a paid account pruned | as above, no fault at all |
| MCBilling | balance = ledger; charged as admitted; tapped streams settle; refines `Wallet` | one user, a request of any kind, two refunds, one deposit of 1 or 2, one price or exemption change, one fault: all pairs of actors that share a balance |
| MCServing | counters exact; no answer stitched from two providers; no silent end; the books agree; the history adds up; a report's parts fit together | lists of 0 to 3 candidates, two retries (one fewer than the longest list), two chunks an attempt (the first and a later one), one client that leaves; two calls of one key at a time, one failed query, one page, one hour that may end |
| MCTrailer | finding: a stream's tokens are not billed when its client did not ask for usage | as above |
| MCUsers | answered writes are seen; listing and check agree; an answer is of one moment; nobody acts for somebody else | two keys (one expires within the run), two lookups, two writers, room for one entry; one model and one offer, one write and one failed query beside a check or a listing; two calls, two users of which one name is a Nostr key's, one session, one day |
| MCHealth | pruning is unseen; silence heals; viewers are told what they missed; a page adds up; snapshots survive restarts | one provider, two emitters, three failures (the unhealthy threshold), a window of one tick, retention of two and a clock of three, so that samples leave the window, then the deque; a ring of one, a deque and a history of two, three events, one crash |
| MCRouter | nobody worse than needed; pins move for cause; a quiet router routes by the database; loaded providers are watched | a route of three places, weights 2, 1 and 0, the first and the last of one provider, any health and wait, two requests at a time of three (the first and the last of sessions and under RoundRobin, which alone reads pins), room for one pin; two administrators and the start, two configurations that may have one name, two writes, one fault |
| MCFallback | finding: a failed fetch of the Claude Code adapter replaces the last good listing by the static one | as MCMarket, one kind of provider |
| MCOAuth | the stored refresh token is good; calls return | two calls and a login, two sessions (before and after a reload), three refreshes, one tick, one fault |
| MCConversation | a client is told the answer; what it sends back comes back; calls are answered; reasoning returns; the prompt cache is found | three requests, three blocks an answer, two tools (one that Claude Code has in another casing), one system message at any place, each adapter, each cause of a failing stream |
| MCMarket | listings are recent; who was listed is listed again; one identity; answers return; an offer is announced in the end | a provider of each of five kinds; two relays, one editor, one edit, two faults; two searches over three nodes, one asked at a time |

A run's property that several scenes could break is checked in all of them. Three
violation runs check one property each, a sentence of the code's own comments or
test names that the code does not keep; PROJECT.json quotes them. CHECK_DEADLOCK
is FALSE where the bounds (faults, writes, the clock, requests) let the modelled
system come to an end.

## Fairness

- `Settlement`: weak fairness of the listener's handling, of its reconnection
  and of the restart of the process: the listener is a spawned task in an
  endless loop that reconnects after a pause, and a process that stays down
  promises nothing. Clients, LND and the clock have none.
- `OAuth`: weak fairness of a call's own steps (`Works`), its HTTP timeout
  included, because the client that refreshes has one (`session.rs:17`); strong
  fairness of taking the session's lock (`Waits`), because tokio's locks are
  handed over in the order of arrival. The token endpoint has none.
- `RequestLog`: weak fairness of handlers in progress and of the writer task.
  Of the pruner none: nothing waits for it.
- `Catalog`, `Peers`: weak fairness of a call's or search's steps, its deadlines
  included where the code has them; upstreams, nodes and relays have none.
- `Discovery`: weak fairness of the announcing loop, of an edit that has read
  its row, and of a dead relay's return (the property is about what happens once
  relays are up).
- `Billing`, `AuthCache`, `Health`, `Routing`, `Reload`, `Failover`,
  `Statistics`, `Access`, `Accounts`, `Conversation`, `Endpoints`: safety only.
  Nothing makes a provider answer, since their clients set no timeout on a
  response.

## Proofs

Eight modules hold proofs, and every leaf is checked. They assume nothing of the
constants but the modules' named ASSUMEs, so they hold for any number of users,
requests, invoices, keys, providers and actors. Most of the ASSUMEs say that
bounds and amounts are naturals and that the sets that are counted or summed over
are finite. The others are facts of the code or of its data: invoices have
owners; amounts and fees fit under `MaxAmount`, which bounds the wallet's moves;
the cache has room for one entry; the window is no longer than the retention, and
the short TTL of listings no longer than the long one; a page is not the loop and
the server's start no administrator; a row the user starts with is no request's of the run.

Each proof has the same shape: an inductive invariant; that it holds initially;
one lemma per group of actions, with a step per action and, below it, a step per
conjunct the action can disturb; the invariance, by PTL; and each property from
the invariant and the definitions.

`Market_proofs`, the money (`Wallet`, `Settlement`): `MoneyIsConserved`, by moves between two
accounts; whatever implements `Wallet` inherits it. `NoFreeCredit`, `NoFreeKey`,
`OneDepositPerPayment`, `PrunerSparesDeposits`: `SettledInv` follows a settlement
from LND through the feed and the listener to the row. `ReadInv` says that a row
the listener has read unpaid stays unpaid until the listener writes it, because
nobody else writes `paid`. `DepositInv` is the bound on credits made inductive:
the credits, plus the one the listener is about to make, never exceed the times
`paid` was replaced plus the one it may be showing. `GoneInv` and `MakingInv`
keep deleted and unborn rows out of the way.

`Billing_proofs`: `LedgerAddsUp`, `OneCharge`, `TappedStreamsSettle`,
`NoDoubleRefund`. `Booked` shows once that `apply_balance_change` moves a balance
and its ledger together; every charge, deposit, debit and reversal cites it.
`CallInv` says that a charge is only made by a request that set its settled flag
and was not admitted free, at its last step; `PayoutInv` that a refund's handler
holds a payment for unpaid only if LND failed it or the call to LND broke.
`LedgerIsAWallet` is the refinement. The wallet's accounts are sums over the
refunds that are in a certain state, written as cardinalities of sets of single
units; a step moves one refund into or out of one of those sets (`Enters`,
`Exits`, `Stays`), `BooksFollow` and `AccountsFollow` carry that over to the
accounts, and each action is then one move of the wallet or none.

`Users_proofs`. `AuthCache`: `NoStaleAnswer`, `NoStaleEntry`,
`ExpiredKeysRunOut`. The properties speak of answers and entries, which are made
from what a lookup read earlier; so `LookupInv` says that what a lookup holds is
as new as every write answered before it began and, as long as the generation is
the one it started with, as every write answered since. `WriterInv` and
`AckedInv` say that an answered version was committed. For the expiry, `Rounding`
bounds what whole seconds hide. `Access`: `ChecksAnswerOneMoment`,
`ListingsAgreeWithChecks`. `CheckInv` keeps, for each place between two queries,
what the answers given so far still say about the tables, for no write seen and
for one; `ListInv` does so for the listing and describes what it shows so far by
what it has left to look at. `SightIsGrant` compares the two. `Accounts`:
`RequestsActForThemselves`. No two living users have one name and an id is used
once (`UsersInv`), so a session that is still its owner's has its owner's name
(`SessionsInv`) and a lookup by name finds nobody else (`HandlerInv`).

`Router_proofs`. `Routing`: `NobodyWorseIsAsked`, `PinsMoveForCause`. That a
stable sort lists what it is given (`ArrangeLists`, `StableSortLists`) is proved
by cardinalities: the place of an element is the number of those before it.
`WeightedHolds` and its like say that each strategy's order holds every place of
the route. That places of one provider are found in their order, and that there
are no more than the route has, is `PositionFinds` and `PlacesAreFew`. `PinIsNext` is what an overlapping request could break: whom a request
has not excused it asks next, so a pin it moves was passed over or failed.
`Reload`: `ReloadsCatchUp`, `OneLoopWatches`. As long as nothing failed, every
write is followed by a reload that has yet to read (`CurrentInv`: without one, the
latest reader and what it installed agree with the rows), what the latest reader
read reaches each part of the router unless that part was overtaken
(`ReachesInv`), old loops are told
to stop before a new one starts (`LoopsInv`), and whoever is last under the lock
watches what is loaded (`WatchedInv`).

`Health_proofs`. `Health`: `NothingIsForgotten`, `SilentIsHealthy`,
`FailuresFade`. `ForgottenInv` says that a popped sample is older than the window:
true when it is popped, because the retention is no shorter than the window and
`prune` stops at the first sample it keeps, and true from then on, because the
window only moves on. `FailuresFade` is an action property. `Statistics`:
`MissesAreTold` (a viewer's cursor is what it got and what it was told),
`PagesAddUp` (`CountsInv`: every outcome of a request is counted twice before it
is recorded, so the deque never holds more than the counters and the health checks
so far, and of named models no more than the counters, nor does the later read
count less than the earlier), `GraphsSurvive` (`StoredInv`: what the history should hold is in the
database; `SurvivorsInv`: and in the memory or in the task's hands).

`Serving_proofs`. Sums over finite sets first: a sum is any function on the
subsets that takes off one element at a time; such a function exists, and what it
says of a set does not depend on the order (`FoldsAgree`), by a least
counterexample. `Unfolded` identifies the community module's sums with it.
`WalkExists` is the existence part for any fold that stays within a set, and
`RightFoldExists` that of a fold over a sequence.
`Failover`: `CountersAreExact`, `NoStitching`, `NoSilentEnd`, `FailuresAreTold`.
Requests share the counters only, so the invariant `RequestInv` is about one
request and `Others` frames the rest: `LocalsInv` ties the loop's place to what it
has left to try, `VoiceInv` says that content was sent by the provider the stream
is at and by nobody before it (`NothingYet` guards every move to another),
`EndInv` what must have been said when a loop is done, `FailureInv` that a failure
tried is the error kept. The counter is a cardinality; each step moves one request
in or out of one set. `RequestLog`: `LoggedOnceOrLost`, `CapKeepsTheNewest`.
`PlaceInv` says that the requests that have ended are split among the builds, the
senders, the queue, the batch, the log and the lost. `CapInv` adds to the property
what makes it inductive: what the pruner has selected is over the cap for good,
because rows are only added at the end. `Endpoints`, `Statements`:
`BooksStayInAgreement` (and `EndpointsKeepTheBooks` for the endpoints alone),
`ReportsGrow`. `ChargedOnce` in `CallInv` says that the ledger holds no row of a
call or the one of what it was billed; `UsageInv` that the usage of any set of
keys and models is what the calls recorded there were billed, for any set, because
reports choose theirs. `ReportInv` then bounds each part read by what is in the
columns now, as columns only grow while the report is calm. `HistoryAlwaysAddsUp`:
`PageInv` says that what the page has read is what the ledger was up to there
(`RowsOnlyAdded`: it only grows at its end), and `FoldedKeeps` and `ShownKeeps`
that folding rows into lines and leaving out empty ones keep the sum and one line
for a request, from the last place down to each (`Downward`).

`OAuth_proofs`: `RefreshIsShared`, `RowStaysGood`. Where the endpoint does not
rotate, every token in anybody's hands stays good (`Lasting`). Where it does, a
token is spent by whoever sends it: `Tracked` says that the tokens on their way
from the endpoint to the row are in no other hands, and that the row's is unspent,
or a call without faults is on its way with a newer.

`Providers_proofs` (`Adapters` with `Conversation`): `AnswersAreTold`,
`ReasoningIsReturned`, `AnswersAreRetold`, `CallsGetAnswered`,
`RequestsReuseTheCache`. Their operators filter, number, flatten and fold lists,
so the proof starts with what each does to a list that grows by one (`OnlyOfMore`, `FlattenMore`, `PlaceExtends`), by an induction
on numbers from the well-foundedness of Nat (`Induct`); `RecursionExists` and
`RecursionsAgree` say the same of any function defined by recursion on a length.
Then every step of every adapter is one of a few moves of the stream
(`MovesAreStreamMoves`). `StreamKept` says in the middle of a stream what
`TellsTheAnswer` says at its end: the k-th call put together has the id, the name
and the arguments so far of the k-th `tool_use` block and sits at the index k - 1
that the adapter gave that block's number (`CallsAreKept`); the text is that of
the text blocks so far, or for Codex nothing yet if no delta was told
(`TextIsKept`); the usage of the start is the answer's (`UsageIsKept`).
`ThoughtsKept` says that the i-th assistant message of the history keeps nothing
of the reasoning or that of the i-th answer, and `RequestIsWired` that a request
in flight is the history as it is, for nothing is said while it waits.
What a request tells is proved along the history (`EverySequence`): converting
one more of its messages adds one to the request, adds to its last one or leaves
it alone (`TurnsGrow`). `HistoryTold` says that the i-th assistant message of the
history shows the i-th answer as said, and each conversion keeps what an assistant
message shows. `TurnsAnswered` says that the calls of every answer have their
results before the next one, except those still open after the last; as the
client says something else only when nothing is open (`SayingLeaves`) and asks
only then (`NoneOpen`), a request has no exception left. With an API key
(`ResultsKept`) the results are in the one message after the calls, and it is the
last as long as some are open, so that the next result finds it there.
`CacheKept` says of the last request that it still begins what the history would
be sent as now (`StartsAs`). Only the last message may still grow: with an API key
only while results are open, and then it is not in the request yet (`Extends`);
for the OAuth adapter, which adds late reminders to it, the request without its
last message begins the part of the history that nothing is added to any more
(`Firm`), and the breakpoint before the last message is what finds it. The extras
that OpenAI's protocol counts out to the turns are each turn's own (`WireAt`), so
messages keep their form when more come; the key depends on the first texts alone
(`KeyStays`).

`Market_proofs`, the market (`Discovery`): `IdentityIsOne`. Whoever loads the key rereads the
row, which is never replaced once there (`KeysInv`); the loop signs with what it
loaded. `Catalog`: `ListingsAreRecent`, `ListedModelsStay`. An entry of a cache is
as old as what upstream said in it, but for what that had aged in the cache below
(`CachesInv`), and what a call has been told is bounded by the cache it went
through (`ToldInv`); a listing that expects models has a last good one to fall
back on, of upstream's if the adapter has none of its own (`CallInv`, `Stays`),
and no other call takes it away (`StandsIn`).

Each module also proves that the variables keep their types. The theorems state
the very definitions the runs check, where a run checks them.

## Only model-checked

Liveness (`AnnouncedIsCredited`, `CallsReturn`, `EventuallyLogged`,
`AnswersReturn`, `AnnouncedInTheEnd`), because fairness and ENABLED are out of
the prover's reach; what `EventuallyLogged` says of a request that has ended is
proved as `LoggedOnceOrLost`. Every safety property and every action property
that a passing run checks is stated by a theorem.

## Known deviations

What the models show, or were made to take, and no property forbids because the
code does it. The findings of PROJECT.json name their run.

Money.
- A status check that races the settlement overwrites `paid`; the pruner may take
  the account with its balance (`lightning.rs:90`, run MCPruned).
- The chunk with a stream's usage is dropped for clients that did not ask for it,
  and the handler bills by what it sees (`engine.rs:1225`, run MCTrailer).
- Marked paid and never credited, when the credit fails or the process stops in
  between (`lightning.rs:188`): the idempotency check then blocks every retry.
- A chat stream is not billed when its client leaves (`chat.rs:358`).
- A chat answer without reported usage is not charged the fee; a stream without
  tokens is charged the fee but not counted for the key. After an empty attempt
  the handler keeps the earlier attempt's tokens. What cached tokens cost depends
  on whether the request log is enabled. A failed charge leaves an "ok" row of
  cost 0 in the log.
- A refusal for a modality is not logged by chat; a failed access query is logged
  as "rejected"; a tapped stream that failed and was then dropped as
  "client disconnected".
- The account history shows a Lightning withdrawal as released reservation; an
  administrator's reason becomes the type of the row; `api_key_usage` has no
  foreign key, so a deleted key's usage leaves the user's report but not the
  key's.

Routing.
- A stream's error may be followed by more candidates (`engine.rs:1301`), and a
  stream that broke counts as failure and success (`engine.rs:1354`).
- A cooldown asked for by an upstream is replaced by a later failure's
  (`metrics_agg.rs:147`).
- A reload whose query fails leaves the health loop stopped; of two concurrent
  reloads the older reading may be installed last, of the providers, of the tables
  or of one of the two only, so that they do not fit each other until the next
  reload (`engine.rs:364`); creating or deleting a routing configuration does not
  reload, and of two with one name the later is used without a word.
- The load score subtracts two u32 and wraps when more requests are in flight
  than the provider's maximum (`metrics.rs:1091`, against its doc at `:1082`);
  `last_failure_ago_ms` is always about 0 (`health.rs:99`); `rate_limited` is
  true for any rate limit still in the deque. Outcomes of health checks are in a
  page's events and success rates but neither in its counters nor in the feed
  (`metrics.rs:621`), so a page may show more outcomes than it counts. A failed load of the history after
  a restart leaves the graphs empty.

Users.
- A `*` deny with an exact allow is served, but its listing is empty
  (`models.rs:231`); a listing of `slug/model` shows the bare model's price; the
  last rule deleted between two reads allows (`db/users.rs:217`); a failed
  permission query counts as no rules.
- A session keeps the admin flag of its login and follows the user's name; two
  overlapping setups create two administrators.

Adapters.
- Plain Anthropic: text of a later block lands in another choice
  (`anthropic/stream.rs:110`); a system message in the conversation changes the
  prompt and loses the cache; an empty assistant turn is sent as an empty text
  block. Of a streamed call no status is left: every refusal, a 400 for the client's
  own mistake too, is a server error without one (`client.rs:334`,
  `response.rs:172`), counts against the provider and is tried on the next; an
  error event as Anthropic nests it cannot be parsed.
- Claude Code: a trailing system message moves as the conversation grows; the
  results of two calls with one between them become two user messages
  (`convert.rs:121`, `:140`); a call without arguments streams "" for "{}".
- Codex: a cut stream looks complete; characters split across chunks are garbled;
  calls are not told.
- OpenAI: an error with a string code is not classified, one with a number is
  (`openai.rs:128`), within a stream as well; an empty `reasoning_content` hides
  `reasoning`.
- The conversation key changes when a first system message appears later.

Market.
- The Claude Code adapter's five models in the code take the place of the last
  good listing when a fetch fails (`models.rs:356`, run MCFallback).
- Harvested limits never expire, and the last good listing may go back to an
  older one; a failed probe pins empty limits for their TTL; voices are fetched
  anew whenever they are empty.
- A failed query while the key is loaded ends the announcements until the next
  start; a failed price query announces an empty offer until the next poll; two
  updates of one price row lose one (`db/pricing.rs:58`), and null clears nothing.

## Not modelled

Quota headers and usage pages, compression, request parsing, the vendored client but for what it makes of a stream's errors
and the web interface are conversions and I/O with no state that outlives a
request. The command line and the importer run alone. Of the adapters, media
bodies, the Responses conversion and sampling options are left out, of billing
the per-token float formula (a usage is one of a few costs) and top-ups at
providers, of the request log the pages that search it, of routing a model named
with a provider's prefix, which goes to that provider without a choice, and the
load score.
