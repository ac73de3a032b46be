----------------------------- MODULE Statements -----------------------------
(***************************************************************************)
(* The pages that read the books while Endpoints writes them: the account  *)
(* page (payments/account.rs), the usage reports (db/usage.rs) and the     *)
(* list of API keys with their usage (auth/api_keys.rs, api/users.rs).     *)
(* Each is several queries, one after the other.  Administrators credit    *)
(* and debit the account (api/users.rs) and keys come and go meanwhile.    *)
(***************************************************************************)
EXTENDS Endpoints

CONSTANTS
  ApiKeys,      \* the keys the user may have
  OldRequests,  \* requests with rows in the ledger the user starts with
  Reasons,      \* what an administrator may call a credit or debit
  Limit,        \* lines of the account page
  Hours,        \* hours of a report
  Scopes,       \* reports asked for: an API key, or UserScope
  UserScope,
  MaxAdminRows, \* bound on credits and debits
  MaxKeyWrites  \* bound on keys created and deleted

ASSUME StatementsAssumption ==
  /\ "admin" \notin Calls
  /\ Limit \in Nat \ {0} /\ Hours \in Nat \ {0}
  /\ Scopes \subseteq ApiKeys \cup {UserScope}
  /\ MaxAdminRows \in Nat /\ MaxKeyWrites \in Nat

VARIABLES
  keys,       \* the user's rows of api_keys
  page,       \* the account page being read
  report,     \* the usage report being read
  list,       \* the list of keys being read
  adminrows,
  keywrites

statements == <<endpoints, keys, page, report, list, adminrows, keywrites>>

Readers == <<page, report, list>>
NoPage == [pc |-> "idle", balance |-> 0, rows |-> << >>, models |-> {}, lines |-> << >>,
           then |-> 0, now |-> 0]
NoReport == [pc |-> "idle", scope |-> UserScope, total |-> 0, models |-> 0, hours |-> 0,
             calm |-> TRUE]
NoList == [pc |-> "idle", keys |-> {}, costs |-> [k \in {} |-> 0]]

StatementsInit ==
  /\ EndpointsInit
  /\ keys = ApiKeys
  /\ page = NoPage /\ report = NoReport /\ list = NoList
  /\ adminrows = 0 /\ keywrites = 0

---------------------------------------------------------------------------
(* What others write.                                                      *)

Total(rows) == FoldLeft(LAMBDA sum, row : sum + row.amount, 0, rows)
Balance == Total(ledger)

(* The type of the row is the reason the administrator gave.               *)
AdminBooks(reason, a) ==
  /\ adminrows < MaxAdminRows
  /\ adminrows' = adminrows + 1
  /\ ledger' = Booked(reason, a, "admin")
  /\ UNCHANGED <<call, usage, recording, recorded, logrow, hour, callfaults, keys,
                 Readers, keywrites>>

AdminCredits(reason) == AdminBooks(reason, 1)
AdminDebits(reason) == Balance >= 1 /\ AdminBooks(reason, -1)

(* api_key_usage has no foreign key: the rows of a deleted key stay.  A    *)
(* report of the user's that is being read no longer sees them.            *)
Disturbs == report' = [report EXCEPT !.calm = FALSE]

CreateApiKey(k) ==
  /\ k \notin keys /\ keywrites < MaxKeyWrites
  /\ keywrites' = keywrites + 1
  /\ keys' = keys \cup {k}
  /\ UNCHANGED <<endpoints, Readers, adminrows>>

DeleteApiKey(k) ==
  /\ k \in keys /\ keywrites < MaxKeyWrites
  /\ keywrites' = keywrites + 1
  /\ keys' = keys \ {k}
  /\ Disturbs
  /\ UNCHANGED <<endpoints, page, list, adminrows>>

---------------------------------------------------------------------------
(* The account page: balance, then rows, then the models of its requests.  *)

ReadBalance ==
  /\ page.pc = "idle"
  /\ page' = [page EXCEPT !.pc = "rows", !.balance = Balance, !.then = Len(ledger)]
  /\ UNCHANGED <<endpoints, keys, report, list, adminrows, keywrites>>

(* ORDER BY created_at DESC, id DESC LIMIT 2 * limit                       *)
Newest(n) == Reverse(SubSeq(ledger, Max({1, Len(ledger) - n + 1}), Len(ledger)))

ReadRows ==
  /\ page.pc = "rows"
  /\ page' = [page EXCEPT !.pc = "models", !.rows = Newest(2 * Limit), !.now = Len(ledger)]
  /\ UNCHANGED <<endpoints, keys, report, list, adminrows, keywrites>>

(* Rows of requests are those that name one and are of a usage type.       *)
UsageTypes == {"usage", "reserve", "refund", "overage"}
OfRequest(row) == row.type \in UsageTypes /\ row.ref \in Calls \cup OldRequests

(* request_models: the model that a charge of the request wrote down.      *)
RequestModels(rows) ==
  {ref \in Calls \cup OldRequests :
     \E n \in DOMAIN rows : rows[n].ref = ref /\ rows[n].type \in {"usage", "reserve"}}

ReadModels ==
  /\ page.pc = "models"
  /\ page' = [page EXCEPT !.pc = "fold", !.models = RequestModels(page.rows)]
  /\ UNCHANGED <<endpoints, keys, report, list, adminrows, keywrites>>

Kind(type) ==
  CASE type = "deposit" -> "deposit"
    [] type \in UsageTypes -> "usage"
    [] type \in {"refund_fee", "refund_reversal"} -> "withdrawal"
    [] OTHER -> "adjustment"

Line(row, models) ==
  [kind |-> Kind(row.type), amount |-> row.amount,
   of |-> IF OfRequest(row) THEN row.ref ELSE "none",
   detail |-> IF ~OfRequest(row) THEN row.type
              ELSE IF row.ref \in models THEN "model" ELSE "none"]

LineOf(lines, row) == {n \in DOMAIN lines : OfRequest(row) /\ lines[n].of = row.ref}

KeepsTheFirst(lines, row, models) ==
  IF LineOf(lines, row) = {} THEN Append(lines, Line(row, models)) ELSE lines

Fold(lines, row, models) ==
  IF LineOf(lines, row) = {} THEN Append(lines, Line(row, models))
  ELSE [lines EXCEPT ![Min(LineOf(lines, row))].amount = @ + row.amount]

(* fold_history goes through the rows from the oldest on, leaves out what  *)
(* comes to nothing and turns the lines round, newest first.               *)
Folded(rows, models) ==
  FoldRight(LAMBDA row, lines : Fold(lines, row, models), rows, << >>)
Shown(lines) ==
  FoldRight(LAMBDA line, shown : IF line.amount = 0 THEN shown ELSE Append(shown, line),
            lines, << >>)
FoldHistory(rows, models) == Shown(Folded(rows, models))

Truncated(s, n) == SubSeq(s, 1, Min({n, Len(s)}))

ShowPage ==
  /\ page.pc = "fold"
  /\ page' = [page EXCEPT !.pc = "done",
       !.lines = Truncated(FoldHistory(page.rows, page.models), Limit)]
  /\ UNCHANGED <<endpoints, keys, report, list, adminrows, keywrites>>

---------------------------------------------------------------------------
(* A usage report: the total, then by model, then by hour, each a query    *)
(* that looks at the clock and the user's keys for itself.                 *)

InScope(scope) == IF scope = UserScope THEN keys ELSE {scope}
Since == {h \in 0..MaxHours : h > hour - Hours}
FullHours == Since \ {hour}
HourRows == Since

Counted(hours) ==
  Costs({col \in Columns : col[1] \in InScope(report.scope) /\ col[2] \in hours})

ReadTotal(scope) ==
  /\ report.pc = "idle"
  /\ report' = [report EXCEPT !.pc = "models", !.scope = scope, !.calm = TRUE,
       !.total = Costs({col \in Columns : col[1] \in InScope(scope) /\ col[2] \in Since})]
  /\ UNCHANGED <<endpoints, keys, page, list, adminrows, keywrites>>

ReadByModel ==
  /\ report.pc = "models"
  /\ report' = [report EXCEPT !.pc = "hours", !.models = Counted(Since)]
  /\ UNCHANGED <<endpoints, keys, page, list, adminrows, keywrites>>

ReadByHour ==
  /\ report.pc = "hours"
  /\ report' = [report EXCEPT !.pc = "done", !.hours = Counted(HourRows)]
  /\ UNCHANGED <<endpoints, keys, page, list, adminrows, keywrites>>

(* The list of keys, and then the usage of those that are left.            *)
ListKeys ==
  /\ list.pc = "idle"
  /\ list' = [list EXCEPT !.pc = "usage", !.keys = keys]
  /\ UNCHANGED <<endpoints, keys, page, report, adminrows, keywrites>>

UsageForUser(k) ==
  IF k \in keys THEN Costs({col \in Columns : col[1] = k}) ELSE 0

ReadKeyUsage ==
  /\ list.pc = "usage"
  /\ list' = [list EXCEPT !.pc = "done", !.costs = [k \in list.keys |-> UsageForUser(k)]]
  /\ UNCHANGED <<endpoints, keys, page, report, adminrows, keywrites>>

---------------------------------------------------------------------------
Serving ==
  /\ EndpointsNext
  /\ IF hour' # hour THEN Disturbs ELSE UNCHANGED report
  /\ UNCHANGED <<keys, page, list, adminrows, keywrites>>

StatementsNext ==
  \/ Serving
  \/ \E reason \in Reasons : AdminCredits(reason) \/ AdminDebits(reason)
  \/ \E k \in ApiKeys : CreateApiKey(k) \/ DeleteApiKey(k)
  \/ ReadBalance \/ ReadRows \/ ReadModels \/ ShowPage
  \/ \E scope \in Scopes : ReadTotal(scope)
  \/ ReadByModel \/ ReadByHour
  \/ ListKeys \/ ReadKeyUsage

StatementsSpec == StatementsInit /\ [][StatementsNext]_statements

---------------------------------------------------------------------------
(* The account page adds up although its balance and its rows are read     *)
(* apart: a page that shows everything shows lines that sum to its         *)
(* balance and what was booked between the two reads, with one line for a  *)
(* request however many rows it has.                                       *)
HistoryAddsUp ==
  page.pc = "done" =>
    /\ page.now <= 2 * Limit /\ Len(page.lines) < Limit
         => Total(page.lines) = page.balance + Total(SubSeq(ledger, page.then + 1, page.now))
    /\ \A m, n \in DOMAIN page.lines :
         page.lines[m].of = page.lines[n].of /\ page.lines[m].of # "none" => m = n

(* The three parts of a report tell one story of different moments: later  *)
(* parts tell no less than earlier ones unless the hour turned or a key    *)
(* was deleted, and none of them, nor the list of the keys, tells more     *)
(* than the account was charged under those keys.                          *)
ReportGrows ==
  /\ report.pc = "done" =>
       /\ report.calm => report.total <= report.models /\ report.models <= report.hours
       /\ Max({report.total, report.models, report.hours})
            <= ChargedFor({c \in Calls : KeyOf[c] # NoKey})
  /\ list.pc = "done" =>
       \A k \in list.keys : list.costs[k] <= ChargedFor({c \in Calls : KeyOf[c] = k})
=============================================================================
