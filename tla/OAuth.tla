-------------------------------- MODULE OAuth --------------------------------
(***************************************************************************)
(* The OAuth sessions of one provider (oauth/session.rs): a session keeps  *)
(* the tokens in memory, refreshes the access token shortly before it      *)
(* expires and stores what it got in the providers row.  A reload makes a  *)
(* new session from the row, while requests and health checks that hold    *)
(* the old one go on with it; a login (api/oauth.rs) writes the row anew.  *)
(* Calls are dropped by the timeouts of the health loop and by clients.    *)
(*                                                                         *)
(* A token is a number: of the refresh that upstream gave it for.  A token *)
(* endpoint that rotates takes a refresh token once; rotates is fixed in   *)
(* Init.  Time is in ticks; account ids and PKCE go with the tokens.       *)
(***************************************************************************)
EXTENDS Naturals, FiniteSets

CONSTANTS
  Calls,        \* concurrent calls of access_token
  Logins,       \* logins that an administrator starts
  Life,         \* lifetime of an access token
  Skew,         \* REFRESH_SKEW_MS
  TTL,          \* PENDING_TTL
  MaxTime,      \* bound on the clock
  MaxSessions,  \* bound on the sessions made of the row, one for each reload
  MaxTokens,    \* bound on the grants of the token endpoint
  MaxFaults     \* bound on dropped calls, lost answers and failed writes

ASSUME OAuthAssumption ==
  /\ Life \in Nat /\ Skew \in Nat /\ TTL \in Nat
  /\ MaxTime \in Nat /\ MaxSessions \in Nat \ {0}
  /\ MaxTokens \in Nat \ {0} /\ MaxFaults \in Nat
  /\ "nobody" \notin Calls

VARIABLES
  now,
  rotates,   \* whether a refresh uses up the token it was asked with
  issued,    \* refresh tokens issued so far
  good,      \* refresh tokens that the endpoint accepts
  row,       \* the providers row
  session,   \* session[s]: the TokenState of the s-th session
  current,   \* the session of the loaded provider, 0 for none
  made,      \* sessions made so far
  lock,      \* lock[s]: the call that holds the write lock of s
  call,      \* call[c]: the locals of a call
  pending,   \* pending[l]: when a login was started
  login,     \* login[l]: what complete has got by now
  reload,    \* what a reload has read of the row
  faults

endpoint == <<issued, good, rotates>>
logins == <<pending, login>>
vars == <<now, endpoint, row, session, current, made, lock, call, logins, reload,
          faults>>

Sessions == 1..MaxSessions
Nobody == "nobody"
Tokens == [refresh : Nat, expires : Nat]
NoTokens == [refresh |-> 0, expires |-> 0]
Row == [id : Nat, tokens : Tokens]     \* id 0: deleted
NoRow == [id |-> 0, tokens |-> NoTokens]
Session == [of : Nat, tokens : Tokens] \* the id of its row
NoSession == [of |-> 0, tokens |-> NoTokens]

Locals == [pc : {"idle", "check", "wait", "ask", "answered", "persist"},
           s : 0..MaxSessions, sent : Nat, got : Tokens]
Idle == [pc |-> "idle", s |-> 0, sent |-> 0, got |-> NoTokens]
NotRead == [read |-> FALSE, row |-> NoRow]
NotStarted == [started |-> FALSE, at |-> 0]
NoLogin == [pc |-> "idle", got |-> NoTokens]

TypeOK ==
  /\ now \in 0..MaxTime
  /\ rotates \in BOOLEAN
  /\ issued \in 1..MaxTokens /\ good \subseteq 1..issued
  /\ row \in Row
  /\ session \in [Sessions -> Session]
  /\ made \in 0..MaxSessions /\ current \in 0..made
  /\ lock \in [Sessions -> Calls \cup {Nobody}]
  /\ call \in [Calls -> Locals]
  /\ \A c \in Calls, s \in Sessions :
       lock[s] = c <=> call[c].s = s /\ call[c].pc \in {"ask", "answered", "persist"}
  /\ pending \in [Logins -> [started : BOOLEAN, at : 0..MaxTime]]
  /\ login \in [Logins -> [pc : {"idle", "exchange", "persist", "fill"}, got : Tokens]]
  /\ reload \in [read : BOOLEAN, row : Row]
  /\ faults \in 0..MaxFaults

(* The row was stored by a login long ago; the server starts with a reload. *)
Init ==
  /\ now = 0 /\ rotates \in BOOLEAN
  /\ issued = 1 /\ good = {1}
  /\ row = [id |-> 1, tokens |-> [refresh |-> 1, expires |-> 0]]
  /\ session = [s \in Sessions |-> NoSession]
  /\ current = 0 /\ made = 0
  /\ lock = [s \in Sessions |-> Nobody]
  /\ call = [c \in Calls |-> Idle]
  /\ pending = [l \in Logins |-> NotStarted]
  /\ login = [l \in Logins |-> NoLogin]
  /\ reload = NotRead
  /\ faults = 0

Goes(c, locals) == call' = [call EXCEPT ![c] = locals]
At(c, pc) == call[c].pc = pc
Mine(c) == call[c].s
Fresh(tokens) == tokens.expires > now + Skew
Keeps(c) == lock' = lock
Release(c) == lock' = [lock EXCEPT ![Mine(c)] = Nobody]
Faulty == faults < MaxFaults /\ faults' = faults + 1

---------------------------------------------------------------------------
(* access_token and refresh.                                               *)

(* A request or a health check takes the provider that is loaded now, and  *)
(* asks its session later.                                                 *)
Begin(c) ==
  /\ At(c, "idle") /\ current # 0
  /\ Goes(c, [Idle EXCEPT !.pc = "check", !.s = current])
  /\ UNCHANGED <<now, endpoint, row, session, current, made, lock, logins, reload,
                 faults>>

(* Under the read lock, which waits for a refresh that is under way.       *)
Check(c) ==
  /\ At(c, "check") /\ lock[Mine(c)] = Nobody
  /\ Goes(c, IF Fresh(session[Mine(c)].tokens) THEN Idle ELSE [call[c] EXCEPT !.pc = "wait"])
  /\ UNCHANGED <<now, endpoint, row, session, current, made, lock, logins, reload,
                 faults>>

(* The write lock is kept for the whole refresh; another call may have     *)
(* refreshed while this one waited.                                        *)
RefreshedMeanwhile(c) == Fresh(session[Mine(c)].tokens)

Lock(c) ==
  /\ At(c, "wait") /\ lock[Mine(c)] = Nobody
  /\ IF RefreshedMeanwhile(c)
     THEN Goes(c, Idle) /\ UNCHANGED lock
     ELSE /\ Goes(c, [call[c] EXCEPT !.pc = "ask", !.sent = session[Mine(c)].tokens.refresh])
          /\ lock' = [lock EXCEPT ![Mine(c)] = c]
  /\ UNCHANGED <<now, endpoint, row, session, current, made, logins, reload, faults>>

(* The endpoint grants new tokens, or refuses a token that was used.  An   *)
(* answer without a refresh token leaves the old one in use.               *)
AlwaysTheOld(sent, new) == sent
RefreshToken(sent, new) == IF rotates THEN new ELSE sent

Grants(c) ==
  /\ issued < MaxTokens /\ issued' = issued + 1
  /\ good' = IF rotates THEN (good \ {call[c].sent}) \cup {issued + 1} ELSE good

Granted(c) ==
  [refresh |-> RefreshToken(call[c].sent, issued + 1), expires |-> now + Life]

Answered(c) ==
  /\ At(c, "ask") /\ call[c].sent \in good
  /\ Grants(c)
  /\ Goes(c, [call[c] EXCEPT !.pc = "answered", !.got = Granted(c)])
  /\ UNCHANGED <<now, row, session, current, made, lock, logins, reload, faults, rotates>>

Refused(c) ==
  /\ At(c, "ask") /\ call[c].sent \notin good
  /\ Goes(c, Idle)
  /\ Release(c)
  /\ UNCHANGED <<now, endpoint, row, session, current, made, logins, reload, faults>>

(* The answer arrives: the state takes it over, then the row.              *)
Arrives(c) ==
  /\ At(c, "answered")
  /\ session' = [session EXCEPT ![Mine(c)].tokens = call[c].got]
  /\ Goes(c, [call[c] EXCEPT !.pc = "persist"])
  /\ UNCHANGED <<now, endpoint, row, current, made, lock, logins, reload, faults>>

(* update_provider_oauth: nothing to update when the row was deleted.      *)
SameRow(c) == row.id = session[Mine(c)].of
Persist(c) ==
  /\ At(c, "persist")
  /\ row' = IF SameRow(c) THEN [row EXCEPT !.tokens = call[c].got] ELSE row
  /\ Goes(c, Idle)
  /\ Release(c)
  /\ UNCHANGED <<now, endpoint, session, current, made, logins, reload, faults>>

(* The HTTP timeout: the endpoint has not been reached or never answers.   *)
NeverTimesOut(c) == FALSE
HttpTimeout(c) == At(c, "ask") \/ At(c, "answered")
TimesOut(c) ==
  /\ HttpTimeout(c)
  /\ Goes(c, Idle)
  /\ Release(c)
  /\ IF At(c, "answered") THEN Faulty ELSE UNCHANGED faults
  /\ UNCHANGED <<now, endpoint, row, session, current, made, logins, reload>>

(* The write of the row fails, which is logged; the token is in use.       *)
PersistFails(c) ==
  /\ At(c, "persist") /\ Faulty
  /\ Goes(c, Idle)
  /\ Release(c)
  /\ UNCHANGED <<now, endpoint, row, session, current, made, logins, reload>>

(* The caller goes away, or the five seconds of fetch_quota are over: the  *)
(* call is dropped at its await, before or after the endpoint or the row   *)
(* took its request, and the lock with it.                                 *)
Dropped(c) ==
  /\ ~At(c, "idle")
  /\ IF At(c, "answered") \/ At(c, "persist") THEN Faulty ELSE UNCHANGED faults
  /\ Goes(c, Idle)
  /\ lock' = IF lock[Mine(c)] = c THEN [lock EXCEPT ![Mine(c)] = Nobody] ELSE lock
  /\ UNCHANGED <<now, endpoint, row, session, current, made, logins, reload>>

Call(c) ==
  \/ Begin(c) \/ Check(c) \/ Lock(c)
  \/ Answered(c) \/ Refused(c) \/ Arrives(c) \/ Persist(c)
  \/ TimesOut(c) \/ PersistFails(c) \/ Dropped(c)

---------------------------------------------------------------------------
(* The login: start or reauth, complete, and the reload after it.          *)

Pruned ==
  [k \in Logins |-> IF now - pending[k].at < TTL THEN pending[k] ELSE NotStarted]

Begins(l) ==
  /\ ~pending[l].started /\ login[l] = NoLogin
  /\ pending' = [Pruned EXCEPT ![l] = [started |-> TRUE, at |-> now]]
  /\ UNCHANGED <<now, endpoint, row, session, current, made, lock, call, login, reload,
                 faults>>

Start(l) == Begins(l)
Reauth(l) == row.id # 0 /\ Begins(l)

(* complete takes the login out first: it is used once, in time or not.    *)
Complete(l) ==
  /\ pending[l].started
  /\ pending' = [pending EXCEPT ![l] = NotStarted]
  /\ login' = [login EXCEPT ![l].pc = IF now - pending[l].at < TTL THEN "exchange" ELSE "idle"]
  /\ UNCHANGED <<now, endpoint, row, session, current, made, lock, call, reload, faults>>

(* A new grant does not touch the tokens of an earlier one.                *)
Exchange(l) ==
  /\ login[l].pc = "exchange"
  /\ issued < MaxTokens /\ issued' = issued + 1
  /\ good' = good \cup {issued + 1}
  /\ login' = [login EXCEPT ![l] = [pc |-> "persist",
       got |-> [refresh |-> issued + 1, expires |-> now + Life]]]
  /\ UNCHANGED <<now, rotates, row, session, current, made, lock, call, pending, reload,
                 faults>>

(* persist_provider: the tokens go to the row of the slug, or to a new one *)
(* that is stored without any first.                                       *)
CreateRow(l) ==
  /\ login[l].pc = "persist" /\ row.id = 0
  /\ row' = [id |-> login[l].got.refresh, tokens |-> NoTokens]
  /\ login' = [login EXCEPT ![l].pc = "fill"]
  /\ UNCHANGED <<now, endpoint, session, current, made, lock, call, pending, reload,
                 faults>>

PersistLogin(l) ==
  /\ \/ login[l].pc = "persist" /\ row.id # 0
     \/ login[l].pc = "fill" /\ row.id = login[l].got.refresh
  /\ row' = [row EXCEPT !.tokens = login[l].got]
  /\ login' = [login EXCEPT ![l] = NoLogin]
  /\ UNCHANGED <<now, endpoint, session, current, made, lock, call, pending, reload,
                 faults>>

LoginFails(l) ==
  /\ login[l].pc # "idle"
  /\ login' = [login EXCEPT ![l] = NoLogin]
  /\ UNCHANGED <<now, endpoint, row, session, current, made, lock, call, pending, reload,
                 faults>>

Login(l) ==
  \/ Start(l) \/ Reauth(l) \/ Complete(l) \/ Exchange(l)
  \/ CreateRow(l) \/ PersistLogin(l) \/ LoginFails(l)

---------------------------------------------------------------------------
(* Whatever reloads: list_providers reads the row, and the new provider,   *)
(* with a session of its own, replaces the old one later (see Reload).     *)
ReadRow ==
  /\ ~reload.read /\ made < MaxSessions
  /\ reload' = [read |-> TRUE, row |-> row]
  /\ UNCHANGED <<now, endpoint, row, session, current, made, lock, call, logins, faults>>

Install ==
  /\ reload.read
  /\ reload' = NotRead
  /\ IF reload.row.id = 0
     THEN current' = 0 /\ UNCHANGED <<session, made>>
     ELSE /\ made' = made + 1 /\ current' = made + 1
          /\ session' = [session EXCEPT ![made + 1] =
                           [of |-> reload.row.id, tokens |-> reload.row.tokens]]
  /\ UNCHANGED <<now, endpoint, row, lock, call, logins, faults>>

DeleteProvider ==
  /\ row.id # 0
  /\ row' = NoRow
  /\ UNCHANGED <<now, endpoint, session, current, made, lock, call, logins, reload,
                 faults>>

Tick ==
  /\ now < MaxTime /\ now' = now + 1
  /\ UNCHANGED <<endpoint, row, session, current, made, lock, call, logins, reload,
                 faults>>

Next ==
  \/ \E c \in Calls : Call(c)
  \/ \E l \in Logins : Login(l)
  \/ ReadRow \/ Install \/ DeleteProvider \/ Tick

(* A lock of tokio is handed over in turn; the HTTP client's timeout fires *)
(* and the database answers.  Nothing makes the token endpoint answer.     *)
Waits(c) == Check(c) \/ Lock(c)
Works(c) == Refused(c) \/ TimesOut(c) \/ Arrives(c) \/ Persist(c)
Fairness == \A c \in Calls : SF_vars(Waits(c)) /\ WF_vars(Works(c))

Spec == Init /\ [][Next]_vars /\ Fairness

---------------------------------------------------------------------------
Refreshing(s) == \E c \in Calls : Mine(c) = s /\ call[c].pc \in {"answered", "persist"}

(* The row can always be started from: after any reloads, logins and       *)
(* refreshes by old and new sessions, its refresh token is one that the    *)
(* endpoint accepts, unless a call was cut after the endpoint had answered *)
(* it or a write of the row failed.                                        *)
RowIsGood ==
  (row.tokens # NoTokens /\ faults = 0 /\ \A s \in Sessions : ~Refreshing(s)) =>
    row.tokens.refresh \in good

(* Tokens are refreshed only when they are due, whoever refreshed them     *)
(* while a call waited: concurrent calls share one refresh.                *)
Coalesce ==
  \A c \in Calls : At(c, "ask") => ~Fresh(session[Mine(c)].tokens)

(* Every call returns, although the endpoint may take the request and      *)
(* never answer: no call waits for good on the lock of a hung refresh.     *)
CallsReturn ==
  \A c \in Calls : ~At(c, "idle") ~> At(c, "idle")
===========================================================================
