------------------------------- MODULE Access -------------------------------
(***************************************************************************)
(* Which models a user may ask for and which it is shown: the rules of     *)
(* user_model_permissions and the models for sale                          *)
(* (Database::effective_model_access, asked by every endpoint that serves  *)
(* a model) against the listing of GET /v1/models (models_for).  Both ask  *)
(* the database one query after another, and an administrator may write    *)
(* between any two of them.                                                *)
(*                                                                         *)
(* A routing configuration is listed under its name.  A provider's model   *)
(* is listed under "slug/model", and its price looked up under "model".    *)
(***************************************************************************)
EXTENDS Naturals

CONSTANTS
  Users,
  Routes,      \* names of routing configurations
  Offers,      \* "slug/model" of every provider's model
  Bare,        \* Bare[o]: the model of an offer, without the slug
  Star,        \* the rule for every model, "*"
  Checkers,    \* requests whose access is being checked
  Listers,     \* requests for the listing
  MaxRules,    \* bound on the writes of an administrator
  MaxMisses    \* bound on queries that fail while a listing is built

Served == Routes \cup Offers
Priced == Served \cup {Bare[o] : o \in Offers}

VARIABLES
  payments,    \* payments are configured; fixed while the server runs
  rule,        \* rule[u][m]: "allow", "deny", or "none" without a row
  trusted,     \* administrators and rows of billing_exempt_users
  sale,        \* sale[n]: "advertised", "hidden", or "none" without a row
  check,       \* check[c]: an access check
  list,        \* list[l]: a listing
  changes, misses

access == <<payments, rule, trusted, sale, check, list, changes, misses>>
tables == <<rule, trusted, sale, changes>>

(* The history kept with a check: the answers that were right at some      *)
(* moment of it, how many writes it has seen, and whether one of them took *)
(* the last rule of its user.                                              *)
NoCheck == [pc |-> "idle", user |-> "nobody", model |-> Star, answer |-> "none",
            right |-> {}, writes |-> 0, emptied |-> FALSE]
NoList == [pc |-> "idle", user |-> "nobody", rules |-> <<>>, saleOnly |-> FALSE,
           sale |-> {}, left |-> {}, shown |-> {}, undisturbed |-> TRUE]

AccessInit ==
  /\ payments \in BOOLEAN
  /\ rule \in [Users -> [Served \cup {Star} -> {"none", "allow", "deny"}]]
  /\ trusted \in SUBSET Users
  /\ sale \in [Priced -> {"none", "advertised", "hidden"}]
  /\ check = [c \in Checkers |-> NoCheck]
  /\ list = [l \in Listers |-> NoList]
  /\ changes = 0 /\ misses = 0

Empty(rules) == \A m \in DOMAIN rules : rules[m] = "none"
Unrestricted(n) == sale[n] # "hidden"
ForSale(n) == sale[n] = "advertised"

(* is_billing_exempt: whoever was granted a model is exempt as well.       *)
Exempt(u) == u \in trusted \/ \E m \in DOMAIN rule[u] : rule[u][m] = "allow"

---------------------------------------------------------------------------
(* What a model's user is entitled to, said apart from the code: the rule  *)
(* for the model, else the rule for all, else what its having no rule      *)
(* means.                                                                  *)
Tables == [rule |-> rule, trusted |-> trusted, sale |-> sale]

Entitled(db, u, m) ==
  \/ db.rule[u][m] = "allow"
  \/ db.rule[u][m] = "none" /\ db.rule[u][Star] = "allow"
  \/ Empty(db.rule[u]) /\ (payments => u \in db.trusted \/ db.sale[m] = "advertised")

Answer(yes) == IF yes THEN "allow" ELSE "deny"

---------------------------------------------------------------------------
(* effective_model_access.                                                 *)

Becomes(c, new) ==
  /\ check' = [check EXCEPT ![c] = new]
  /\ UNCHANGED <<payments, tables, list, misses>>
Answers(c, yes) == Becomes(c, [check[c] EXCEPT !.pc = "done", !.answer = Answer(yes)])

BeginCheck(c, u, m) ==
  /\ check[c].pc = "idle"
  /\ Becomes(c, [NoCheck EXCEPT !.pc = IF payments THEN "first" ELSE "rules",
                   !.user = u, !.model = m, !.right = {Answer(Entitled(Tables, u, m))}])

(* Only a user without rules is held to what is for sale.                  *)
FindNoRules(c) ==
  /\ check[c].pc = "first"
  /\ Becomes(c, [check[c] EXCEPT
       !.pc = IF Empty(rule[check[c].user]) THEN "exempt" ELSE "rules"])

AskExempt(c) ==
  /\ check[c].pc = "exempt"
  /\ Becomes(c, [check[c] EXCEPT !.pc = IF Exempt(check[c].user) THEN "rules" ELSE "sale"])

AskForSale(c) ==
  /\ check[c].pc = "sale"
  /\ Answers(c, ForSale(check[c].model))

(* check_model_access reads the rules a second time.                       *)
AnyFirst(rules, m) == IF rules[Star] # "none" THEN rules[Star] ELSE rules[m]
Matching(rules, m) == IF rules[m] # "none" THEN rules[m] ELSE rules[Star]

ApplyRules(c) ==
  /\ check[c].pc = "rules"
  /\ LET rules == rule[check[c].user]
     IN  Answers(c, Empty(rules) \/ Matching(rules, check[c].model) = "allow")

(* A query fails: the request is answered with an internal error.          *)
CheckFails(c) ==
  /\ check[c].pc \notin {"idle", "done"}
  /\ Becomes(c, [check[c] EXCEPT !.pc = "done", !.answer = "none"])

Check(c) ==
  \/ \E u \in Users, m \in Served : BeginCheck(c, u, m)
  \/ FindNoRules(c) \/ AskExempt(c) \/ AskForSale(c) \/ ApplyRules(c)
  \/ CheckFails(c)

---------------------------------------------------------------------------
(* models_for.  A query that fails counts as one that found nothing.       *)

Turns(l, new) ==
  /\ list' = [list EXCEPT ![l] = new]
  /\ UNCHANGED <<payments, tables, check>>
Query(l, at, found, missed) ==
  /\ list[l].pc = at
  /\ \/ Turns(l, found) /\ UNCHANGED misses
     \/ /\ misses < MaxMisses /\ misses' = misses + 1
        /\ Turns(l, [missed EXCEPT !.undisturbed = FALSE])

ReadRules(l, u) ==
  LET read(rules) ==
        [NoList EXCEPT !.user = u, !.rules = rules,
           !.pc = IF rules[Star] = "deny" THEN "done"
                  ELSE IF payments THEN "exempt" ELSE "build"]
  IN  Query(l, "idle", read(rule[u]), read([m \in DOMAIN rule[u] |-> "none"]))

ReadExempt(l) ==
  LET read(exempt) ==
        [list[l] EXCEPT !.saleOnly = ~exempt, !.pc = IF exempt THEN "build" ELSE "sale"]
  IN  Query(l, "exempt", read(Exempt(list[l].user)), read(FALSE))

ReadForSale(l) ==
  LET read(names) == [list[l] EXCEPT !.sale = names, !.pc = "build"]
  IN  Query(l, "sale", read({n \in Priced : sale[n] = "advertised"}), read({}))

(* The closure model_allowed.                                              *)
Visible(l, m) ==
  LET rules == list[l].rules
  IN  \/ rules[m] = "allow"
      \/ rules[m] = "none" /\ rules[Star] = "allow"
      \/ Empty(rules) /\ (list[l].saleOnly => m \in list[l].sale)

(* Routing configurations first; then every provider is asked.             *)
ListRoutes(l) ==
  /\ list[l].pc = "build"
  /\ Turns(l, [list[l] EXCEPT !.pc = "offers", !.shown = {m \in Routes : Visible(l, m)},
                 !.left = {o \in Offers : Visible(l, o)}])
  /\ UNCHANGED misses

(* Each visible offer costs a query for its price, which hides a model     *)
(* that is not advertised; no row means advertised.                        *)
ListOffer(l, o) ==
  /\ o \in list[l].left
  /\ LET read(hidden) ==
           [list[l] EXCEPT !.left = @ \ {o}, !.shown = IF hidden THEN @ ELSE @ \cup {o}]
     IN  Query(l, "offers", read(payments /\ sale[Bare[o]] = "hidden"), read(FALSE))

Listed(l) ==
  /\ list[l].pc = "offers" /\ list[l].left = {}
  /\ Turns(l, [list[l] EXCEPT !.pc = "done"])
  /\ UNCHANGED misses

List(l) ==
  \/ \E u \in Users : ReadRules(l, u)
  \/ ReadExempt(l) \/ ReadForSale(l)
  \/ ListRoutes(l)
  \/ \E o \in Offers : ListOffer(l, o)
  \/ Listed(l)

---------------------------------------------------------------------------
(* The administrator's writes, each of which the requests under way see.   *)

Written(new) ==
  /\ changes < MaxRules /\ changes' = changes + 1
  /\ rule' = new.rule /\ trusted' = new.trusted /\ sale' = new.sale
  /\ check' = [c \in Checkers |->
       CASE check[c].pc = "idle" -> check[c]
         [] check[c].pc = "done" -> [check[c] EXCEPT !.writes = @ + 1]
         [] OTHER ->
              LET u == check[c].user IN
              [check[c] EXCEPT !.writes = @ + 1,
                 !.right = @ \cup {Answer(Entitled(new, u, check[c].model))},
                 !.emptied = @ \/ (Empty(new.rule[u]) /\ ~Empty(rule[u]))]]
  /\ list' = [l \in Listers |-> [list[l] EXCEPT !.undisturbed = FALSE]]
  /\ UNCHANGED <<payments, misses>>

UpsertRule(u, m, to) == Written([Tables EXCEPT !.rule[u][m] = to])

DeleteRule(u, m) ==
  /\ rule[u][m] # "none"
  /\ Written([Tables EXCEPT !.rule[u][m] = "none"])

(* update_user with is_admin.                                              *)
SetAdmin(u, yes) ==
  Written([Tables EXCEPT !.trusted = IF yes THEN @ \cup {u} ELSE @ \ {u}])

(* The rows of a deleted user go with it; its requests run on.             *)
DeleteUserRow(u) ==
  Written([Tables EXCEPT !.rule[u] = [m \in DOMAIN @ |-> "none"], !.trusted = @ \ {u}])

CreatePricing(n, status) ==
  /\ sale[n] = "none"
  /\ Written([Tables EXCEPT !.sale[n] = status])

UpdatePricing(n, status) ==
  /\ sale[n] # "none"
  /\ Written([Tables EXCEPT !.sale[n] = status])

DeletePricing(n) ==
  /\ sale[n] # "none"
  /\ Written([Tables EXCEPT !.sale[n] = "none"])

Administer ==
  \/ \E u \in Users :
       \/ \E m \in Served \cup {Star} :
            \/ \E to \in {"allow", "deny"} : UpsertRule(u, m, to)
            \/ DeleteRule(u, m)
       \/ \E yes \in BOOLEAN : SetAdmin(u, yes)
       \/ DeleteUserRow(u)
  \/ \E n \in Priced :
       \/ \E status \in {"advertised", "hidden"} :
            CreatePricing(n, status) \/ UpdatePricing(n, status)
       \/ DeletePricing(n)

AccessNext ==
  \/ \E c \in Checkers : Check(c)
  \/ \E l \in Listers : List(l)
  \/ Administer

AccessSpec == AccessInit /\ [][AccessNext]_access

---------------------------------------------------------------------------
(* A listing and a check of the same user that saw no write and no failed  *)
(* query agree: what is listed is served, and what is served is listed,    *)
(* unless it is a provider's model that its price hides, or the user is    *)
(* denied everything else (two implementations of one rule, models.rs and  *)
(* db/users.rs).                                                           *)
ListingAgrees ==
  \A c \in Checkers, l \in Listers :
    /\ check[c].pc = "done" /\ check[c].answer # "none" /\ check[c].writes = 0
    /\ list[l].pc = "done" /\ list[l].undisturbed
    /\ check[c].user = list[l].user
    => LET m == check[c].model
           hidden == payments /\ m \in Offers \ Routes /\ sale[Bare[m]] = "hidden"
       IN  IF list[l].rules[Star] = "deny" THEN list[l].shown = {}
           ELSE m \in list[l].shown <=> check[c].answer = "allow" /\ ~hidden

(* A check that saw at most one write answers as one of the two moments    *)
(* would: it mixes no rules of before with sales of after.  The exception  *)
(* is a write that takes its user's last rule between the two readings of  *)
(* the rules, which the second reading takes for "no rules, allowed".      *)
AnswerOfOneMoment ==
  \A c \in Checkers :
    check[c].pc = "done" /\ check[c].answer # "none" /\ check[c].writes <= 1 /\ ~check[c].emptied
    => check[c].answer \in check[c].right
=============================================================================
