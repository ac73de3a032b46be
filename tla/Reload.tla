------------------------------- MODULE Reload -------------------------------
(***************************************************************************)
(* Router::reload_config and start_health_checks (router/engine.rs), with  *)
(* the administration handlers that write the configuration and reload it  *)
(* (api/providers.rs, api/routing.rs, api/config.rs) and the load at start *)
(* (config.rs).  A reload reads the database in several queries, replaces  *)
(* the providers and the routing tables under two locks, and restarts the  *)
(* health loop under a third.  Nothing orders two reloads, a query may     *)
(* fail, and a handler whose client goes away is dropped at any await.     *)
(*                                                                         *)
(* A provider is its id and the version of its row; a member of a config   *)
(* is a provider, with one row or several.  Weights, strategies and model  *)
(* overrides go with an entry and are left to Routing; rows of models and  *)
(* model_providers are a constant, as no handler writes them.              *)
(***************************************************************************)
EXTENDS Naturals, FiniteSets

CONSTANTS
  ProviderIds,\* ids of providers rows, in the order of the queries
  ConfigIds,  \* ids of routing_config rows, which are never given out again
  Names,      \* names of routing configs and of models
  Offered,    \* Offered[n]: providers with an active row for the model n
  Admins,     \* concurrent calls of the administration handlers
  Boot,       \* the load before the server listens
  Rows,       \* rows[p] at the start
  Configs,    \* config[c] at the start
  MaxWrites,  \* bound on writes
  MaxFaults   \* bound on failed queries and dropped handlers

Unheld == "nobody"
NeverUsed == "never used"

ASSUME ReloadAssumption ==
  /\ ProviderIds \subseteq Nat /\ ConfigIds \subseteq Nat
  /\ Offered \in [Names -> SUBSET ProviderIds]
  /\ Boot \notin Admins /\ Unheld \notin Admins \cup {Boot}
  /\ Rows \in [ProviderIds -> [version : Nat, builds : BOOLEAN]]
  /\ \A p \in ProviderIds : Rows[p].version = 0 => ~Rows[p].builds
  /\ Configs \in [ConfigIds -> [exists : BOOLEAN, name : Names \cup {NeverUsed},
                                members : SUBSET ProviderIds]]
  /\ \A c \in ConfigIds : Configs[c].exists => Configs[c].name \in Names
  /\ MaxWrites \in Nat /\ MaxFaults \in Nat

VARIABLES
  row,        \* row[p]: the providers row, of version 0 when there is none
  config,     \* config[c]: the routing config of that id, its active members
  task,       \* task[h]: the locals of a handler and its reload
  loaded,     \* Router.providers
  tables,     \* Router.routing_tables
  handle,     \* Router.health_check_handles: the loop in it, or 0
  lock,       \* who holds the write lock of health_check_handles
  channel,    \* Router.shutdown_tx: the loop that listens to it, or 0
  loops,      \* the health loops that run
  started,    \* loops started so far
  reads,      \* reloads that have read the providers so far
  writes,
  faults,
  unloaded,   \* names written without a reload, and not reloaded since
  overtaken   \* of "providers" and "tables", those that a reload has put over
              \* what a later one had read, with the latest not installed since

database == <<row, config, writes, unloaded>>
router == <<loaded, tables, overtaken>>
health == <<handle, channel, loops, started>>
reloading == <<database, task, router, health, lock, reads, faults>>

Handlers == Admins \cup {Boot}
None == 0
NoRow == [version |-> 0, builds |-> FALSE]
NoConfig == [exists |-> FALSE, name |-> NeverUsed, members |-> {}]

NoTable == [exists |-> FALSE, entries |-> {}]
NoneLoaded == [by |-> 0, version |-> [p \in ProviderIds |-> 0]]
NoTables == [by |-> 0, of |-> [n \in Names |-> NoTable]]

Done == [pc |-> "idle", built |-> NoneLoaded, todo |-> {}, table |-> NoTables.of]
Reloads == [Done EXCEPT !.pc = "signal"]

ReloadInit ==
  /\ row = Rows
  /\ config = Configs
  /\ task = [h \in Handlers |-> IF h = Boot THEN Reloads ELSE Done]
  /\ loaded = NoneLoaded
  /\ tables = NoTables
  /\ handle = None /\ channel = None /\ lock = Unheld
  /\ loops = {} /\ started = 0 /\ reads = 0
  /\ writes = 0 /\ faults = 0
  /\ unloaded = {} /\ overtaken = {}

Goes(h, locals) == task' = [task EXCEPT ![h] = locals]
At(h, pc) == task[h].pc = pc
Exists(p) == row[p].version > 0

---------------------------------------------------------------------------
(* The handlers write a row and reload, or write and do not.               *)

Write(h, after) ==
  /\ h \in Admins /\ At(h, "idle") /\ At(Boot, "idle")
  /\ writes < MaxWrites /\ writes' = writes + 1
  /\ Goes(h, after)
  /\ UNCHANGED <<router, health, lock, reads, faults>>

(* A row whose URL or key makes no client is stored all the same.          *)
StoreRow(h, p, builds) ==
  /\ row' = [row EXCEPT ![p] = [version |-> writes + 1, builds |-> builds]]
  /\ Write(h, Reloads)
  /\ UNCHANGED <<config, unloaded>>

CreateProvider(h, p, builds) == ~Exists(p) /\ StoreRow(h, p, builds)
UpdateProvider(h, p, builds) == Exists(p) /\ StoreRow(h, p, builds)

(* generate_provider_api_key changes the key alone.                        *)
GenerateKey(h, p) == Exists(p) /\ StoreRow(h, p, row[p].builds)

(* Its memberships go with the row.                                        *)
DeleteProvider(h, p) ==
  /\ Exists(p)
  /\ row' = [row EXCEPT ![p] = NoRow]
  /\ config' = [c \in ConfigIds |-> [config[c] EXCEPT !.members = @ \ {p}]]
  /\ Write(h, Reloads)
  /\ UNCHANGED unloaded

(* {create,update,delete}_routing_config_provider: a provider's first row  *)
(* in a config or its last; a row beside another is as good as no write.   *)
SetMember(h, c, p) ==
  /\ config[c].exists /\ Exists(p)
  /\ config' = [config EXCEPT ![c].members = IF p \in @ THEN @ \ {p} ELSE @ \cup {p}]
  /\ Write(h, Reloads)
  /\ UNCHANGED <<row, unloaded>>

(* update_routing_config, which may rename to a name that is in use.       *)
UpdateConfig(h, c, n) ==
  /\ config[c].exists
  /\ config' = [config EXCEPT ![c].name = n]
  /\ Write(h, Reloads)
  /\ UNCHANGED <<row, unloaded>>

(* create_routing_config and delete_routing_config do not reload.  A new   *)
(* config has the greatest id so far, and any name.                        *)
CreateConfig(h, c, n) ==
  /\ config[c] = NoConfig
  /\ \A d \in ConfigIds : config[d] # NoConfig => d < c
  /\ config' = [config EXCEPT ![c] = [exists |-> TRUE, name |-> n, members |-> {}]]
  /\ unloaded' = unloaded \cup {n}
  /\ Write(h, Done)
  /\ UNCHANGED row

DeleteConfig(h, c) ==
  /\ config[c].exists
  /\ config' = [config EXCEPT ![c].exists = FALSE, ![c].members = {}]
  /\ unloaded' = unloaded \cup {config[c].name}
  /\ Write(h, Done)
  /\ UNCHANGED row

(* The reload endpoint writes nothing.                                     *)
ReloadOnly(h) ==
  /\ Write(h, Reloads)
  /\ UNCHANGED <<row, config, unloaded>>

Administers(h) ==
  \/ \E p \in ProviderIds, builds \in BOOLEAN :
       CreateProvider(h, p, builds) \/ UpdateProvider(h, p, builds)
  \/ \E p \in ProviderIds : GenerateKey(h, p) \/ DeleteProvider(h, p)
  \/ \E c \in ConfigIds, p \in ProviderIds : SetMember(h, c, p)
  \/ \E c \in ConfigIds, n \in Names : UpdateConfig(h, c, n) \/ CreateConfig(h, c, n)
  \/ \E c \in ConfigIds : DeleteConfig(h, c)
  \/ ReloadOnly(h)

---------------------------------------------------------------------------
(* reload_config.                                                          *)

(* The loop that listens is told to stop before anything has been read.    *)
Signal(h) ==
  /\ At(h, "signal")
  /\ loops' = {IF l.id = channel THEN [l EXCEPT !.told = TRUE] ELSE l : l \in loops}
  /\ Goes(h, [task[h] EXCEPT !.pc = "providers"])
  /\ unloaded' = {}
  /\ UNCHANGED <<row, config, writes, router, lock, handle, channel, started, reads, faults>>

Built(rows) == [p \in ProviderIds |-> IF rows[p].builds THEN rows[p].version ELSE 0]

ListProviders(h) ==
  /\ At(h, "providers")
  /\ reads' = reads + 1
  /\ Goes(h, [task[h] EXCEPT !.pc = "configs",
                             !.built = [by |-> reads + 1, version |-> Built(row)]])
  /\ UNCHANGED <<database, router, health, lock, faults>>

Named(n) == {c \in ConfigIds : config[c].exists /\ config[c].name = n}

ListConfigs(h) ==
  /\ At(h, "configs")
  /\ Goes(h, [task[h] EXCEPT !.pc = "members",
                             !.todo = {cn \in ConfigIds \X Names : cn[1] \in Named(cn[2])}])
  /\ UNCHANGED <<database, router, health, lock, reads, faults>>

Has(built, p) == built.version[p] > 0

(* list_active_routing_config_providers: a query for each config by id,    *)
(* which finds nothing when it is gone.  A member that the reload has no   *)
(* provider for is left out; a config without members makes a table too.   *)
(* Of two configs of one name the later replaces the table of the earlier. *)
EntriesOf(built, members) == {p \in members : Has(built, p)}

ReadMembers(h, c, n) ==
  /\ At(h, "members")
  /\ <<c, n>> \in task[h].todo /\ \A other \in task[h].todo : c <= other[1]
  /\ Goes(h, [task[h] EXCEPT
       !.todo = @ \ {<<c, n>>},
       !.table[n] = [exists |-> TRUE,
                     entries |-> EntriesOf(task[h].built, config[c].members)]])
  /\ UNCHANGED <<database, router, health, lock, reads, faults>>

MembersRead(h) ==
  /\ At(h, "members")
  /\ task[h].todo = {}
  /\ Goes(h, [task[h] EXCEPT !.pc = "models"])
  /\ UNCHANGED <<database, router, health, lock, reads, faults>>

(* A model routes by its own rows only where no config has its name, and   *)
(* only to the first: its table exists by the time of the second.          *)
First(ps) == {p \in ps : \A q \in ps : p <= q}
ModelTableAlways(built, rows, table, n) ==
  LET able == {p \in Offered[n] : rows[p].version > 0 /\ Has(built, p)} IN
  [exists |-> table.exists \/ able # {},
   entries |-> IF able = {} THEN table.entries ELSE First(able)]
ModelTable(built, rows, table, n) ==
  IF table.exists THEN table
  ELSE LET able == {p \in Offered[n] : rows[p].version > 0 /\ Has(built, p)} IN
       [exists |-> able # {}, entries |-> First(able)]

ListModels(h) ==
  /\ At(h, "models")
  /\ Goes(h, [task[h] EXCEPT
       !.pc = "install",
       !.table = [n \in Names |-> ModelTable(task[h].built, row, task[h].table[n], n)]])
  /\ UNCHANGED <<database, router, health, lock, reads, faults>>

(* What is overtaken once the part of by gives way to that of h.           *)
Overtaken(h, part, by) ==
  IF task[h].built.by = reads THEN overtaken \ {part}
  ELSE IF task[h].built.by < by THEN overtaken \cup {part} ELSE overtaken

InstallProviders(h) ==
  /\ At(h, "install")
  /\ loaded' = task[h].built
  /\ overtaken' = Overtaken(h, "providers", loaded.by)
  /\ Goes(h, [task[h] EXCEPT !.pc = "tables"])
  /\ UNCHANGED <<database, tables, health, lock, reads, faults>>

InstallTables(h) ==
  /\ At(h, "tables")
  /\ tables' = [by |-> task[h].built.by, of |-> task[h].table]
  /\ overtaken' = Overtaken(h, "tables", tables.by)
  /\ Goes(h, [task[h] EXCEPT !.pc = "stop"])
  /\ UNCHANGED <<database, loaded, health, lock, reads, faults>>

---------------------------------------------------------------------------
(* start_health_checks, under the write lock of the handles.               *)

Drained == {l \in loops : l.id # handle}

WatchesOwn(h) == task[h].built
Watches(h) == loaded

NothingToWatch(watches) == \A p \in ProviderIds : watches.version[p] = 0

(* With nothing loaded the lock is given back at once.                     *)
StopOld(h) ==
  /\ At(h, "stop") /\ lock = Unheld
  /\ loops' = Drained
  /\ handle' = None
  /\ IF NothingToWatch(loaded)
     THEN Goes(h, Done) /\ lock' = Unheld
     ELSE /\ Goes(h, [task[h] EXCEPT !.pc = "start", !.built = Watches(h)])
          /\ lock' = h
  /\ UNCHANGED <<database, router, channel, started, reads, faults>>

StartNew(h) ==
  /\ At(h, "start")
  /\ started' = started + 1
  /\ loops' = loops \cup {[id |-> started + 1, watches |-> task[h].built, told |-> FALSE]}
  /\ handle' = started + 1 /\ channel' = started + 1
  /\ Goes(h, Done)
  /\ lock' = Unheld
  /\ UNCHANGED <<database, router, reads, faults>>

(* A loop that was told leaves when its round of checks is over.           *)
LoopEnds ==
  /\ \E l \in loops : l.told /\ loops' = loops \ {l}
  /\ UNCHANGED <<database, task, router, handle, channel, started, lock, reads, faults>>

Step(h) ==
  \/ Signal(h) \/ ListProviders(h) \/ ListConfigs(h)
  \/ \E c \in ConfigIds, n \in Names : ReadMembers(h, c, n)
  \/ MembersRead(h) \/ ListModels(h)
  \/ InstallProviders(h) \/ InstallTables(h)
  \/ StopOld(h) \/ StartNew(h)

(* A query fails, or the client has gone and the handler is dropped.       *)
HandlerEnds(h) ==
  /\ ~At(h, "idle")
  /\ faults < MaxFaults /\ faults' = faults + 1
  /\ Goes(h, Done)
  /\ lock' = IF lock = h THEN Unheld ELSE lock
  /\ UNCHANGED <<database, router, health, reads>>

ReloadNext ==
  \/ \E h \in Admins : Administers(h)
  \/ \E h \in Handlers : Step(h) \/ HandlerEnds(h)
  \/ LoopEnds

ReloadSpec == ReloadInit /\ [][ReloadNext]_reloading

---------------------------------------------------------------------------
Quiet == \A h \in Handlers : At(h, "idle")

(* Once every handler has returned, the router routes by the database: its *)
(* providers and tables are those that the rows now describe, although the *)
(* reloads read while others wrote; of two configs of one name the later   *)
(* routes.  Excepted are a reload that failed or was dropped; names whose  *)
(* config was created or deleted with no reload begun since; and of the    *)
(* two parts the one that an older reload has put over what the latest     *)
(* read, which the next reload that reads last puts right.                 *)
Able(ps) == {p \in ps : row[p].builds}
Last(cs) == {c \in cs : \A d \in cs : d <= c}
TableFrom(n) ==
  IF Named(n) # {}
  THEN [exists |-> TRUE, entries |-> Able(UNION {config[c].members : c \in Last(Named(n))})]
  ELSE [exists |-> Able(Offered[n]) # {},
        entries |-> {p \in Able(Offered[n]) : \A q \in Able(Offered[n]) : p <= q}]

QuietIsCurrent ==
  Quiet /\ faults = 0 =>
    /\ "providers" \notin overtaken =>
         \A p \in ProviderIds :
           loaded.version[p] = IF p \in Able(ProviderIds) THEN row[p].version ELSE 0
    /\ "tables" \notin overtaken =>
         \A n \in Names \ unloaded : tables.of[n] = TableFrom(n)

(* "Start background health check tasks that cover all loaded providers":  *)
(* once every handler has returned, one loop runs that was not told to     *)
(* stop, and it watches the very providers that are loaded, whichever of   *)
(* two reloads installed last.  A reload that fails leaves none running.   *)
LoadedAreWatched ==
  Quiet /\ faults = 0 =>
    {l.watches : l \in {m \in loops : ~m.told}} =
      IF NothingToWatch(loaded) THEN {} ELSE {loaded}
===========================================================================
