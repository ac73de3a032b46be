----------------------------- MODULE AuthCache -----------------------------
(***************************************************************************)
(* Database::authenticate_api_key and the cache in front of it             *)
(* (db/auth_cache.rs), with the writes to users and api_keys that must     *)
(* flush it (db/users.rs).  A lookup reads the key, its expiry and the     *)
(* user in three queries; a write commits in the database and flushes the  *)
(* cache when its query returns, and between the two its handler can be    *)
(* dropped or its connection lost.                                         *)
(*                                                                         *)
(* Rows are versioned: a version counts the committed writes to a key or   *)
(* its user.  Time is in ticks, several to the second, because the expiry  *)
(* of a key is compared in whole seconds.                                  *)
(***************************************************************************)
EXTENDS Naturals, FiniteSets

CONSTANTS
  Keys,
  Lookups,     \* concurrent calls of authenticate_api_key
  Writers,     \* concurrent calls that write users or api_keys
  Expires,     \* Expires[k]: the tick at which key k expires
  Second,      \* ticks in a second
  TTL,         \* lifetime of an entry, in seconds
  MaxEntries,  \* MAX_ENTRIES
  MaxWrites,   \* bound on writes
  MaxTime      \* bound on the clock

ASSUME AuthCacheAssumption ==
  /\ Expires \in [Keys -> Nat]
  /\ Second \in Nat \ {0} /\ TTL \in Nat
  /\ MaxEntries \in Nat \ {0} /\ MaxWrites \in Nat /\ MaxTime \in Nat

VARIABLES
  now,         \* the clock
  row,         \* row[k]: the api_keys row
  owner,       \* owner[k]: the users row of k's owner
  version,     \* version[k]: writes committed to either
  cache,       \* cache[k]: the entry of k; nothing outside of cached
  cached,      \* keys with an entry
  generation,
  lookup,      \* lookup[l]: the locals of a call
  writer,      \* writer[w]: the write w has committed and not flushed
  acked,       \* acked[k]: the newest version whose writer has returned
  answer,      \* what the last step returned to a caller, if it did
  writes

vars == <<now, row, owner, version, cache, cached, generation, lookup, writer,
          acked, answer, writes>>

Entry == [key : Nat, user : Nat, at : Nat]
Nobody == "nobody"
Nothing == [key |-> 0, user |-> 0, at |-> 0]

Locals == [pc : {"idle", "key", "expiry", "user", "put"}, of : Keys \cup {Nobody},
           since : Nat, gen : Nat, key : Nat, user : Nat]
Done == [pc |-> "idle", of |-> Nobody, since |-> 0, gen |-> 0, key |-> 0, user |-> 0]
NoWrite == [of |-> Nobody, version |-> 0]
NoAnswer == [ok |-> FALSE, since |-> 0, key |-> 0, user |-> 0, late |-> 0]

TypeOK ==
  /\ now \in 0..MaxTime
  /\ row \in [Keys -> {"active", "inactive", "gone"}]
  /\ owner \in [Keys -> {"live", "gone"}]
  /\ version \in [Keys -> Nat]
  /\ cache \in [Keys -> Entry]
  /\ cached \in SUBSET Keys /\ Cardinality(cached) <= MaxEntries
  /\ generation \in Nat
  /\ lookup \in [Lookups -> Locals]
  /\ writer \in [Writers -> [of : Keys \cup {Nobody}, version : Nat]]
  /\ acked \in [Keys -> Nat]
  /\ answer \in [ok : BOOLEAN, since : Nat, key : Nat, user : Nat, late : Nat]
  /\ writes \in 0..MaxWrites

Init ==
  /\ now = 0
  /\ row = [k \in Keys |-> "active"]
  /\ owner = [k \in Keys |-> "live"]
  /\ version = [k \in Keys |-> 0]
  /\ cache = [k \in Keys |-> Nothing]
  /\ cached = {}
  /\ generation = 0
  /\ lookup = [l \in Lookups |-> Done]
  /\ writer = [w \in Writers |-> NoWrite]
  /\ acked = [k \in Keys |-> 0]
  /\ answer = NoAnswer
  /\ writes = 0

database == <<row, owner, version, writer, acked, writes>>
store == <<cache, cached, generation>>

(* What a step gives back to a caller.                                     *)
Late(k) == IF now > Expires[k] THEN now - Expires[k] ELSE 0

Returns(since, entry, late) ==
  answer' = [ok |-> TRUE, since |-> since, key |-> entry.key, user |-> entry.user,
             late |-> late]
Silent == answer' = NoAnswer
Goes(l, locals) == lookup' = [lookup EXCEPT ![l] = locals]

Tick ==
  /\ now < MaxTime
  /\ now' = now + 1
  /\ Silent
  /\ UNCHANGED <<database, store, lookup>>

---------------------------------------------------------------------------
(* authenticate_api_key.                                                   *)

Keeps(keys) ==
  /\ cached' = keys
  /\ cache' = [k \in Keys |-> IF k \in keys THEN cache[k] ELSE Nothing]

Fresh(k) == now - cache[k].at < TTL * Second

(* A hit answers at once; a stale entry is removed and the generation read *)
(* before the first query.                                                 *)
Hit(l, k) ==
  /\ lookup[l].pc = "idle"
  /\ k \in cached /\ Fresh(k)
  /\ Returns(acked[k], cache[k], Late(k))
  /\ UNCHANGED <<now, database, store, lookup>>

Miss(l, k) ==
  /\ lookup[l].pc = "idle"
  /\ ~(k \in cached /\ Fresh(k))
  /\ Keeps(cached \ {k})
  /\ Goes(l, [Done EXCEPT !.pc = "key", !.of = k, !.since = acked[k], !.gen = generation])
  /\ Silent
  /\ UNCHANGED <<now, database, generation>>

ReadKey(l) ==
  /\ lookup[l].pc = "key"
  /\ Goes(l, IF row[lookup[l].of] = "active"
             THEN [lookup[l] EXCEPT !.pc = "expiry", !.key = version[lookup[l].of]]
             ELSE Done)
  /\ Silent
  /\ UNCHANGED <<now, database, store>>

(* A key deleted since the first query does not count as expired.          *)
Expired(k) == row[k] # "gone" /\ Expires[k] < now

CheckExpiry(l) ==
  /\ lookup[l].pc = "expiry"
  /\ Goes(l, IF Expired(lookup[l].of) THEN Done ELSE [lookup[l] EXCEPT !.pc = "user"])
  /\ Silent
  /\ UNCHANGED <<now, database, store>>

ReadUser(l) ==
  /\ lookup[l].pc = "user"
  /\ LET k == lookup[l].of IN
       Goes(l, IF owner[k] = "gone" THEN Done
               ELSE [lookup[l] EXCEPT !.pc = "put", !.user = version[k]])
  /\ Silent
  /\ UNCHANGED <<now, database, store>>

(* AuthCache::put, under the lock that clear takes: nothing is kept of a   *)
(* lookup that a flush overtook, nor of a key about to expire.             *)
NeverOvertaken(l) == FALSE
Overtaken(l) == lookup[l].gen # generation

ExpiresWithinTTL(k) == Expires[k] \div Second < now \div Second + TTL

FreshOnly == {j \in cached : Fresh(j)}
MakeRoom ==
  IF Cardinality(cached) < MaxEntries THEN cached
  ELSE IF Cardinality(FreshOnly) < MaxEntries THEN FreshOnly ELSE {}

Put(l) ==
  /\ lookup[l].pc = "put"
  /\ LET k == lookup[l].of
         entry == [key |-> lookup[l].key, user |-> lookup[l].user, at |-> now]
     IN  /\ IF ExpiresWithinTTL(k) \/ Overtaken(l)
            THEN UNCHANGED <<cache, cached>>
            ELSE /\ cache' = [j \in Keys |-> IF j = k THEN entry
                                ELSE IF j \in MakeRoom THEN cache[j] ELSE Nothing]
                 /\ cached' = MakeRoom \cup {k}
         /\ Returns(lookup[l].since, entry, 0)
  /\ Goes(l, Done)
  /\ UNCHANGED <<now, database, generation>>

(* A query fails, or the caller goes away and the lookup is dropped.       *)
LookupFails(l) ==
  /\ lookup[l].pc # "idle"
  /\ Goes(l, Done)
  /\ Silent
  /\ UNCHANGED <<now, database, store>>

Authenticate(l) ==
  \/ \E k \in Keys : Hit(l, k) \/ Miss(l, k)
  \/ LookupFails(l)
  \/ ReadKey(l)
  \/ CheckExpiry(l)
  \/ ReadUser(l)
  \/ Put(l)

---------------------------------------------------------------------------
(* The writes: set_api_key_active, delete_api_key, update_user and         *)
(* delete_user, whose rows take the keys with them.                        *)

Writes(w, k) ==
  /\ writer[w] = NoWrite
  /\ writes < MaxWrites /\ writes' = writes + 1
  /\ version' = [version EXCEPT ![k] = @ + 1]
  /\ writer' = [writer EXCEPT ![w] = [of |-> k, version |-> version[k] + 1]]
  /\ Silent
  /\ UNCHANGED <<now, store, lookup, acked>>

SetActive(w, k, status) ==
  /\ row[k] # "gone"
  /\ row' = [row EXCEPT ![k] = status]
  /\ UNCHANGED owner
  /\ Writes(w, k)

DeleteKey(w, k) ==
  /\ row[k] # "gone"
  /\ row' = [row EXCEPT ![k] = "gone"]
  /\ UNCHANGED owner
  /\ Writes(w, k)

(* A name, password or admin flag: only the version tells.                 *)
UpdateUser(w, k) ==
  /\ owner[k] # "gone"
  /\ UNCHANGED <<row, owner>>
  /\ Writes(w, k)

DeleteUser(w, k) ==
  /\ owner[k] # "gone"
  /\ owner' = [owner EXCEPT ![k] = "gone"]
  /\ row' = [row EXCEPT ![k] = "gone"]
  /\ Writes(w, k)

Newest(m, n) == IF m > n THEN m ELSE n

(* The query returns: AuthCache::clear, and the caller is answered.        *)
Flush(w) ==
  /\ writer[w] # NoWrite
  /\ generation' = generation + 1
  /\ Keeps({})
  /\ acked' = [acked EXCEPT ![writer[w].of] = Newest(@, writer[w].version)]
  /\ writer' = [writer EXCEPT ![w] = NoWrite]
  /\ UNCHANGED <<now, row, owner, version, lookup, writes>>
  /\ Silent

(* Or it never does, although the database has committed.                  *)
Abandon(w) ==
  /\ writer[w] # NoWrite
  /\ writer' = [writer EXCEPT ![w] = NoWrite]
  /\ UNCHANGED <<now, row, owner, version, store, lookup, acked, writes>>
  /\ Silent

Write(w) ==
  \/ \E k \in Keys :
       \/ \E status \in {"active", "inactive"} : SetActive(w, k, status)
       \/ DeleteKey(w, k)
       \/ UpdateUser(w, k)
       \/ DeleteUser(w, k)
  \/ Flush(w)
  \/ Abandon(w)

Next ==
  \/ Tick
  \/ \E l \in Lookups : Authenticate(l)
  \/ \E w \in Writers : Write(w)

Spec == Init /\ [][Next]_vars

---------------------------------------------------------------------------
(* Once a disable, delete or demotion has been answered, no lookup that    *)
(* starts later returns a key or a user from before it, whichever lookups  *)
(* were under way and whichever other write was cut short.                 *)
AnsweredWritesAreSeen ==
  answer.ok => answer.key >= answer.since /\ answer.user >= answer.since

(* The reason: the cache never keeps what such a write has outdated.       *)
CacheIsCurrent ==
  \A k \in cached : cache[k].key >= acked[k] /\ cache[k].user >= acked[k]

(* The cache never accepts a key a second or more after it expired: an     *)
(* entry is kept only if it runs out first, up to the rounding of both     *)
(* clocks to whole seconds.  (A lookup that asks the database answers for  *)
(* the moment of its own expiry query.)                                    *)
NotLongExpired ==
  answer.ok => answer.late < Second
===========================================================================
