------------------------------ MODULE Accounts ------------------------------
(***************************************************************************)
(* The users table and who a request acts as: setup, password login and    *)
(* its session (auth/admin.rs), the user made at the first request of a    *)
(* Nostr key (db/users.rs), and the administrator's writes                 *)
(* (api/users.rs).  A session remembers a name and an admin flag, not a    *)
(* user; every handler is several queries, and the table's two UNIQUE keys *)
(* decide between those that overlap.                                      *)
(***************************************************************************)
EXTENDS Naturals

CONSTANTS
  Names,       \* user names
  Pubkeys,     \* Nostr keys
  Short,       \* Short[p]: the name made of p's first 16 characters
  Calls,       \* requests under way
  MaxUsers,    \* bound on the users ever created
  MaxLogins,   \* bound on the sessions ever created
  Day,         \* lifetime of a session
  MaxDays      \* bound on the clock

Ids == 1..MaxUsers
Tokens == 1..MaxLogins
NoName == "no name"
NoKey == "no key"

ASSUME AccountsAssumption ==
  /\ NoName \notin Names /\ NoKey \notin Pubkeys
  /\ Short \in [Pubkeys -> Names]
  /\ {MaxUsers, MaxLogins, Day, MaxDays} \subseteq Nat

Gone == [live |-> FALSE, name |-> NoName, key |-> NoKey, admin |-> FALSE, password |-> FALSE]
NoSession == [name |-> NoName, admin |-> FALSE, expires |-> 0, owner |-> 0, own |-> FALSE]

VARIABLES
  user,        \* user[i]: a row of users; Gone before and after its time
  created,     \* AUTO_INCREMENT
  session,     \* session[t]; NoSession before and after its time
  logins,
  clock,
  call         \* call[c]: the handler of a request and its locals

accounts == <<user, created, session, logins, clock, call>>

(* History: whether a session's owner still has the name it logged in      *)
(* under; as whom a call acted, if it did, and under which session; and    *)
(* whether a Nostr login was refused.                                      *)
Quiet == [at |-> "idle", name |-> NoName, key |-> NoKey, token |-> 0, id |-> 0,
          admin |-> FALSE, acts |-> 0, excused |-> FALSE]

AccountsInit ==
  /\ user = [i \in Ids |-> Gone]
  /\ created = 0
  /\ session = [t \in Tokens |-> NoSession]
  /\ logins = 0 /\ clock = 0
  /\ call = [c \in Calls |-> Quiet]

Exists(i) == user[i].live
HasName(n) == {i \in Ids : user[i].name = n /\ Exists(i)}
HasKey(p) == {i \in Ids : user[i].key = p /\ Exists(i)}

To(c, new) == call' = [call EXCEPT ![c] = new]
Ends(c) == To(c, Quiet)
Rests == UNCHANGED <<session, logins, clock>>
Reads == UNCHANGED <<user, created>> /\ Rests

(* Whoever loses its name loses the sessions under it.                     *)
Renamed(ids) ==
  session' = [t \in Tokens |->
    IF session[t].owner \in ids THEN [session[t] EXCEPT !.own = FALSE] ELSE session[t]]

(* INSERT INTO users, under uq_users_username and uq_users_external.       *)
OnlyKeysAreUnique(new) == new.key # NoKey => HasKey(new.key) = {}
Fits(new) ==
  /\ new.name # NoName => HasName(new.name) = {}
  /\ new.key # NoKey => HasKey(new.key) = {}
Inserts(new) ==
  /\ Fits(new) /\ created < MaxUsers
  /\ created' = created + 1
  /\ user' = [user EXCEPT ![created + 1] = new]
Person(n, p, admin) ==
  [live |-> TRUE, name |-> n, key |-> p, admin |-> admin, password |-> p = NoKey]

---------------------------------------------------------------------------
(* setup_first_user: the count, then the insert.                           *)

BeginSetup(c, n) ==
  /\ call[c] = Quiet
  /\ \A i \in Ids : ~Exists(i)
  /\ To(c, [Quiet EXCEPT !.at = "setup", !.name = n])
  /\ Reads

FinishSetup(c) ==
  /\ call[c].at = "setup"
  /\ \/ Inserts(Person(call[c].name, NoKey, TRUE))
     \/ ~Fits(Person(call[c].name, NoKey, TRUE)) /\ UNCHANGED <<user, created>>
  /\ Ends(c)
  /\ Rests

---------------------------------------------------------------------------
(* login reads the user and verifies the password before it makes the      *)
(* session; a user without a password cannot log in.                       *)

BeginLogin(c, n) ==
  /\ call[c] = Quiet
  /\ \E i \in HasName(n) :
       /\ user[i].password
       /\ To(c, [Quiet EXCEPT !.at = "login", !.name = n, !.id = i, !.admin = user[i].admin])
  /\ Reads

FinishLogin(c) ==
  /\ call[c].at = "login" /\ logins < MaxLogins
  /\ logins' = logins + 1
  /\ session' = [session EXCEPT ![logins + 1] =
       [name |-> call[c].name, admin |-> call[c].admin, expires |-> clock + Day,
        owner |-> call[c].id, own |-> user[call[c].id].name = call[c].name]]
  /\ Ends(c)
  /\ UNCHANGED <<user, created, clock>>

Logout(t) ==
  /\ session[t] # NoSession
  /\ session' = [session EXCEPT ![t] = NoSession]
  /\ UNCHANGED <<user, created, logins, clock, call>>

(* A request with a session: SessionStore::validate, then the user of that *)
(* name.  admin_middleware asks the session for the flag.                  *)
Valid(t) == session[t] # NoSession /\ session[t].expires > clock

Present(c, t, asAdmin) ==
  /\ call[c] = Quiet
  /\ Valid(t)
  /\ asAdmin => session[t].admin
  /\ To(c, [Quiet EXCEPT !.at = "find", !.name = session[t].name, !.token = t])
  /\ Reads

ByName(n) == HasName(n)
Find(c) ==
  /\ call[c].at = "find"
  /\ \/ \E i \in ByName(call[c].name) :
          To(c, [call[c] EXCEPT !.at = "acts", !.acts = i])
     \/ ByName(call[c].name) = {} /\ Ends(c)
  /\ Reads

Leave(c) == call[c].at \in {"acts", "in", "refused"} /\ Ends(c) /\ Reads

---------------------------------------------------------------------------
(* get_or_create_user_by_nostr_pubkey.                                     *)

BeginNostr(c, p) ==
  /\ call[c] = Quiet
  /\ \/ \E i \in HasKey(p) : To(c, [Quiet EXCEPT !.at = "in", !.key = p, !.acts = i])
     \/ HasKey(p) = {} /\ To(c, [Quiet EXCEPT !.at = "insert", !.key = p])
  /\ Reads

(* INSERT IGNORE: a clash of either key inserts nothing.                   *)
NostrUser(p) == Person(Short[p], p, FALSE)

Ignores(c) == To(c, [call[c] EXCEPT !.at = "select",
                       !.excused = HasName(Short[call[c].key]) # HasKey(call[c].key)])

InsertNostr(c) ==
  /\ call[c].at = "insert"
  /\ \/ Inserts(NostrUser(call[c].key))
     \/ ~Fits(NostrUser(call[c].key)) /\ UNCHANGED <<user, created>>
  /\ Ignores(c)
  /\ Rests

SelectNostr(c) ==
  /\ call[c].at = "select"
  /\ \/ \E i \in HasKey(call[c].key) : To(c, [call[c] EXCEPT !.at = "in", !.acts = i])
     \/ HasKey(call[c].key) = {} /\ To(c, [call[c] EXCEPT !.at = "refused"])
  /\ Reads

---------------------------------------------------------------------------
(* The administrator's create_user, update_user and delete_user.  A new    *)
(* user has a name or the key of an outside identity, or both.             *)

BeginCreate(c, n, p) ==
  /\ call[c] = Quiet
  /\ n # NoName \/ p # NoKey
  /\ n # NoName => HasName(n) = {}
  /\ To(c, [Quiet EXCEPT !.at = "create", !.name = n, !.key = p])
  /\ Reads

FinishCreate(c, admin) ==
  /\ call[c].at = "create"
  /\ LET new == Person(call[c].name, call[c].key, admin)
     IN  Inserts(new) \/ (~Fits(new) /\ UNCHANGED <<user, created>>)
  /\ Ends(c)
  /\ Rests

(* The changed name is looked up, and the row updated where it still is.   *)
BeginUpdate(c, i, n) ==
  /\ call[c] = Quiet
  /\ Exists(i)
  /\ user[i].name # n => HasName(n) = {}
  /\ To(c, [Quiet EXCEPT !.at = "update", !.name = n, !.id = i])
  /\ Reads

FinishUpdate(c, admin) ==
  /\ call[c].at = "update"
  /\ LET i == call[c].id
         n == call[c].name
     IN  IF Exists(i) /\ HasName(n) \subseteq {i}
         THEN /\ user' = [user EXCEPT ![i].name = n, ![i].admin = admin]
              /\ IF user[i].name = n THEN UNCHANGED session ELSE Renamed({i})
         ELSE UNCHANGED <<user, session>>
  /\ Ends(c)
  /\ UNCHANGED <<created, logins, clock>>

(* A Nostr login under way has an excuse to be refused.                    *)
DeleteAccount(i) ==
  /\ Exists(i)
  /\ user' = [user EXCEPT ![i] = Gone]
  /\ Renamed({i})
  /\ call' = [c \in Calls |->
       IF call[c].key = user[i].key /\ call[c].at = "select"
       THEN [call[c] EXCEPT !.excused = TRUE] ELSE call[c]]
  /\ UNCHANGED <<created, logins, clock>>

(* A query fails or the client leaves.                                     *)
CallFails(c) ==
  /\ call[c].at \notin {"idle", "in", "acts", "refused"}
  /\ Ends(c)
  /\ Reads

DayPasses ==
  /\ clock < MaxDays
  /\ clock' = clock + 1
  /\ UNCHANGED <<user, created, session, logins, call>>

Handler(c) ==
  \/ \E n \in Names :
       BeginSetup(c, n) \/ BeginLogin(c, n) \/ \E i \in Ids : BeginUpdate(c, i, n)
  \/ \E n \in Names \cup {NoName}, p \in Pubkeys \cup {NoKey} : BeginCreate(c, n, p)
  \/ \E t \in Tokens, asAdmin \in BOOLEAN : Present(c, t, asAdmin)
  \/ \E p \in Pubkeys : BeginNostr(c, p)
  \/ FinishSetup(c) \/ FinishLogin(c) \/ Find(c) \/ Leave(c)
  \/ InsertNostr(c) \/ SelectNostr(c)
  \/ \E admin \in BOOLEAN :
       FinishCreate(c, admin) \/ FinishUpdate(c, admin)
  \/ CallFails(c)

AccountsNext ==
  \/ \E c \in Calls : Handler(c)
  \/ \E t \in Tokens : Logout(t)
  \/ \E i \in Ids : DeleteAccount(i)
  \/ DayPasses

AccountsSpec == AccountsInit /\ [][AccountsNext]_accounts

---------------------------------------------------------------------------
(* A session is looked up by the name of its login: it acts for the user   *)
(* who logged in, and for nobody else as long as that user keeps its name. *)
(* (Once an administrator renames or deletes that user, whoever takes the  *)
(* name takes the session; admin.rs:368.)  A Nostr key is let in as its    *)
(* own user and at its first request, however many of them are first at    *)
(* once, unless somebody else has the name made of it or the user is       *)
(* deleted meanwhile.                                                      *)
ActsForItself ==
  \A c \in Calls :
    /\ call[c].at = "acts" /\ session[call[c].token] # NoSession /\ session[call[c].token].own
         => call[c].acts = session[call[c].token].owner
    /\ call[c].at = "in" => user[call[c].acts] = Gone \/ user[call[c].acts].key = call[c].key
    /\ call[c].at = "refused" => call[c].excused
=============================================================================
