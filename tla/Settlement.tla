---------------------------- MODULE Settlement ----------------------------
(***************************************************************************)
(* Lightning deposits: invoice creation (payments/anonymous.rs), the       *)
(* background settlement listener and the status checks                    *)
(* (payments/lightning.rs), and the pruner of unpaid anonymous accounts    *)
(* (db/anonymous.rs).                                                      *)
(*                                                                         *)
(* An invoice has two lives.  LND knows it as open, settled or cancelled;  *)
(* the database row has a status that the listener and the status checks   *)
(* rewrite, each with an UPDATE that looks at no earlier value.  Three     *)
(* kinds of process share the row: one listener task, any number of HTTP   *)
(* status checks, and the pruner.  Each await of a handler is a step.      *)
(***************************************************************************)
EXTENDS Naturals, Sequences, FiniteSets

CONSTANTS
  Accounts,    \* anonymous accounts a client may open
  Invoices,    \* payment hashes
  Readers,     \* concurrent status checks
  Owner,       \* Owner[i] is the account invoice i tops up
  Opening,     \* Opening[a] is the "create" invoice of account a
  MaxFaults    \* bound on crashes, disconnects, failed calls and redeliveries

ASSUME OwnerAssumption == Owner \in [Invoices -> Accounts]
ASSUME OpeningAssumption ==
  /\ Opening \in [Accounts -> Invoices]
  /\ \A a \in Accounts : Owner[Opening[a]] = a
ASSUME FaultsAssumption == MaxFaults \in Nat

VARIABLES
  up,         \* is the server process running
  connected,  \* does the listener hold an LND subscription
  feed,       \* updates the subscription has yet to deliver
  lnd,        \* lnd[i]: the invoice as LND knows it (external)
  past,       \* past[i]: has expires_at gone by
  user,       \* user[a]: the users row of the account
  age,        \* age[a]: how long ago the users row was created
  making,     \* making[i]: where the create_invoice call for i is
  row,        \* row[i]: status of the lightning_invoices row
  public,     \* invoices whose row carries a public_id
  listener,   \* the settlement listener's program counter and invoice
  reader,     \* reader[r]: the invoice r is about to mark expired, or Nobody
  told,       \* told[i]: the last status a status check answered
  revealed,   \* accounts whose api key has been shown
  credits,    \* credits[i]: deposits ever committed with reference i
  clobbered,  \* clobbered[i]: how often a later UPDATE replaced "paid" (history)
  pruned,     \* accounts the pruner has deleted (history)
  faults      \* faults injected so far

vars == <<up, connected, feed, lnd, past, user, age, making, row, public,
          listener, reader, told, revealed, credits, clobbered, pruned, faults>>

Nobody == "nobody"
Status == {"pending", "paid", "expired", "cancelled"}
Update == [kind : {"settled", "canceled"}, inv : Invoices]
InvoicesOf(a) == {i \in Invoices : Owner[i] = a}
Purpose(i) == IF Opening[Owner[i]] = i THEN "create" ELSE "topup"
HasRow(i) == row[i] \in Status
Idle == [pc |-> "idle", inv |-> Nobody]

TypeOK ==
  /\ up \in BOOLEAN
  /\ connected \in BOOLEAN
  /\ feed \in Seq(Update)
  /\ lnd \in [Invoices -> {"none", "open", "settled", "canceled"}]
  /\ past \in [Invoices -> BOOLEAN]
  /\ user \in [Accounts -> {"absent", "live", "deleted"}]
  /\ age \in [Accounts -> {"fresh", "prunable", "old"}]
  /\ making \in [Invoices -> {"idle", "user", "keyed", "lnd", "stored", "done", "failed"}]
  /\ row \in [Invoices -> Status \cup {"absent", "gone"}]
  /\ public \in SUBSET Invoices
  /\ listener \in [pc : {"idle", "read", "marked"}, inv : Invoices \cup {Nobody}]
  /\ reader \in [Readers -> Invoices \cup {Nobody}]
  /\ told \in [Invoices -> Status \cup {"nothing"}]
  /\ revealed \in SUBSET Accounts
  /\ credits \in [Invoices -> Nat]
  /\ clobbered \in [Invoices -> Nat]
  /\ pruned \in SUBSET Accounts
  /\ faults \in Nat

Init ==
  /\ up = TRUE
  /\ connected = FALSE
  /\ feed = << >>
  /\ lnd = [i \in Invoices |-> "none"]
  /\ past = [i \in Invoices |-> FALSE]
  /\ user = [a \in Accounts |-> "absent"]
  /\ age = [a \in Accounts |-> "fresh"]
  /\ making = [i \in Invoices |-> "idle"]
  /\ row = [i \in Invoices |-> "absent"]
  /\ public = {}
  /\ listener = Idle
  /\ reader = [r \in Readers |-> Nobody]
  /\ told = [i \in Invoices |-> "nothing"]
  /\ revealed = {}
  /\ credits = [i \in Invoices |-> 0]
  /\ clobbered = [i \in Invoices |-> 0]
  /\ pruned = {}
  /\ faults = 0

---------------------------------------------------------------------------
(* Shared pieces.                                                          *)

Fault == faults < MaxFaults /\ faults' = faults + 1

ledger == <<credits, clobbered, pruned>>
node == <<up, connected, feed, lnd, past>>

(* DELETE FROM users: the invoices, keys, balance and ledger cascade.      *)
DeleteUsers(gone) ==
  /\ user' = [a \in Accounts |-> IF a \in gone THEN "deleted" ELSE user[a]]
  /\ row' = [i \in Invoices |->
               IF Owner[i] \in gone /\ HasRow(i) THEN "gone" ELSE row[i]]

(* UPDATE lightning_invoices SET status: no earlier status is looked at,   *)
(* and no row is touched when the account has been deleted.                *)
UpdateStatus(i, status) ==
  /\ row' = [row EXCEPT ![i] = IF HasRow(i) THEN status ELSE @]
  /\ clobbered' = [clobbered EXCEPT
       ![i] = IF row[i] = "paid" /\ status # "paid" THEN @ + 1 ELSE @]

---------------------------------------------------------------------------
(* POST /v2/lightning/invoice, one step per await.  A step that fails      *)
(* answers an error; delete_user runs only for an account this call made.  *)

CreateAccount(a) ==
  /\ up /\ user[a] = "absent" /\ making[Opening[a]] = "idle"
  /\ user' = [user EXCEPT ![a] = "live"]
  /\ making' = [making EXCEPT ![Opening[a]] = "user"]
  /\ UNCHANGED <<node, age, row, public, listener, reader, told, revealed, ledger, faults>>

StoreKey(i) ==
  /\ making[i] = "user"
  /\ making' = [making EXCEPT ![i] = "keyed"]
  /\ UNCHANGED <<node, user, age, row, public, listener, reader, told, revealed, ledger, faults>>

(* topup_user: the bearer key must exist; only its owner can send it.      *)
FindTopupUser(i) ==
  /\ up /\ making[i] = "idle" /\ Purpose(i) = "topup"
  /\ Owner[i] \in revealed /\ user[Owner[i]] = "live"
  /\ making' = [making EXCEPT ![i] = "keyed"]
  /\ UNCHANGED <<node, user, age, row, public, listener, reader, told, revealed, ledger, faults>>

AddInvoice(i) ==
  /\ making[i] = "keyed"
  /\ making' = [making EXCEPT ![i] = "lnd"]
  /\ lnd' = [lnd EXCEPT ![i] = "open"]
  /\ UNCHANGED <<up, connected, feed, past, user, age, row, public, listener,
                 reader, told, revealed, ledger, faults>>

(* The INSERT has a foreign key on users.                                  *)
StoreInvoice(i) ==
  /\ making[i] = "lnd" /\ user[Owner[i]] = "live"
  /\ making' = [making EXCEPT ![i] = "stored"]
  /\ row' = [row EXCEPT ![i] = "pending"]
  /\ UNCHANGED <<node, user, age, public, listener, reader, told, revealed, ledger, faults>>

MarkPublic(i) ==
  /\ making[i] = "stored"
  /\ making' = [making EXCEPT ![i] = "done"]
  /\ public' = IF HasRow(i) THEN public \cup {i} ELSE public
  /\ UNCHANGED <<node, user, age, row, listener, reader, told, revealed, ledger, faults>>

(* lightning.create_invoice fails: in LND, or in the INSERT after it.      *)
InvoiceFails(i) ==
  /\ making[i] \in {"keyed", "lnd"}
  /\ Fault
  /\ making' = [making EXCEPT ![i] = "failed"]
  /\ IF Purpose(i) = "create"
     THEN DeleteUsers({Owner[i]})
     ELSE UNCHANGED <<user, row>>
  /\ UNCHANGED <<node, age, public, listener, reader, told, revealed, ledger>>

(* create_api_key or mark_public_invoice fails, or the client hangs up and *)
(* the handler is dropped where it is: nothing is undone.                  *)
CreateAbandoned(i) ==
  /\ making[i] \in {"user", "keyed", "lnd", "stored"}
  /\ Fault
  /\ making' = [making EXCEPT ![i] = "failed"]
  /\ UNCHANGED <<node, user, age, row, public, listener, reader, told, revealed, ledger>>

CreateInvoice ==
  \/ \E a \in Accounts : CreateAccount(a)
  \/ \E i \in Invoices :
       \/ StoreKey(i)
       \/ FindTopupUser(i)
       \/ AddInvoice(i)
       \/ StoreInvoice(i)
       \/ MarkPublic(i)
       \/ InvoiceFails(i)
       \/ CreateAbandoned(i)

---------------------------------------------------------------------------
(* LND and the clock.  subscribe_invoices(None) asks for no replay, so an  *)
(* update with no subscriber is lost.                                      *)

Notify(kind, i) ==
  feed' = IF connected THEN Append(feed, [kind |-> kind, inv |-> i]) ELSE feed

LndSettles(i) ==
  /\ lnd[i] = "open" /\ making[i] = "done" /\ ~past[i]
  /\ lnd' = [lnd EXCEPT ![i] = "settled"]
  /\ Notify("settled", i)
  /\ UNCHANGED <<up, connected, past, user, age, making, row, public, listener,
                 reader, told, revealed, ledger, faults>>

LndCancels(i) ==
  /\ lnd[i] = "open" /\ past[i]
  /\ lnd' = [lnd EXCEPT ![i] = "canceled"]
  /\ Notify("canceled", i)
  /\ UNCHANGED <<up, connected, past, user, age, making, row, public, listener,
                 reader, told, revealed, ledger, faults>>

(* handle_settlement is written to be called again for the same hash.      *)
LndRedelivers(i) ==
  /\ lnd[i] = "settled" /\ connected
  /\ Fault
  /\ Notify("settled", i)
  /\ UNCHANGED <<up, connected, lnd, past, user, age, making, row, public,
                 listener, reader, told, revealed, ledger>>

(* An invoice lives an hour, longer than the call that makes it.           *)
ExpiryPasses(i) ==
  /\ lnd[i] # "none" /\ ~past[i] /\ making[i] \in {"done", "failed"}
  /\ past' = [past EXCEPT ![i] = TRUE]
  /\ UNCHANGED <<up, connected, feed, lnd, user, age, making, row, public,
                 listener, reader, told, revealed, ledger, faults>>

(* Days go by.  A handler runs for minutes at most and an invoice lives an *)
(* hour, so none that was open when the account was made is still at work. *)
DaysPass(a) ==
  /\ user[a] = "live" /\ age[a] # "old"
  /\ listener.pc = "idle" /\ feed = << >>
  /\ \A r \in Readers : reader[r] = Nobody
  /\ \A i \in InvoicesOf(a) : making[i] \in {"idle", "done", "failed"}
  /\ \A i \in InvoicesOf(a) : lnd[i] # "none" => past[i]
  /\ age' = [age EXCEPT ![a] = IF @ = "fresh" THEN "prunable" ELSE "old"]
  /\ UNCHANGED <<node, user, making, row, public, listener, reader, told,
                 revealed, ledger, faults>>

Environment ==
  \E i \in Invoices :
    \/ LndSettles(i)
    \/ LndCancels(i)
    \/ LndRedelivers(i)
    \/ ExpiryPasses(i)

---------------------------------------------------------------------------
(* The settlement listener: one task, one update at a time.                *)

Subscribe ==
  /\ up /\ ~connected /\ listener.pc = "idle"
  /\ connected' = TRUE
  /\ UNCHANGED <<up, feed, lnd, past, user, age, making, row, public, listener,
                 reader, told, revealed, ledger, faults>>

AnyUpdateSettles(update) == TRUE
IsSettled(update) == update.kind = "settled"

NoRepeatCheck(i) == FALSE
OnlyPendingSettles(i) == row[i] # "pending"
AlreadyPaid(i) == row[i] = "paid"

(* handle_settlement reads the row: nothing more to do when it says paid.  *)
TakeSettled ==
  /\ up /\ connected /\ listener.pc = "idle"
  /\ feed # << >> /\ IsSettled(Head(feed))
  /\ feed' = Tail(feed)
  /\ listener' = IF AlreadyPaid(Head(feed).inv)
                 THEN listener
                 ELSE [pc |-> "read", inv |-> Head(feed).inv]
  /\ UNCHANGED <<up, connected, lnd, past, user, age, making, row, public,
                 reader, told, revealed, ledger, faults>>

TakeCanceled ==
  /\ up /\ connected /\ listener.pc = "idle"
  /\ feed # << >> /\ ~IsSettled(Head(feed))
  /\ feed' = Tail(feed)
  /\ UpdateStatus(Head(feed).inv, "cancelled")
  /\ UNCHANGED <<up, connected, lnd, past, user, age, making, public, listener,
                 reader, told, revealed, credits, pruned, faults>>

(* UPDATE ... 'paid'; a row deleted meanwhile ends the call with an error. *)
MarkPaid ==
  /\ listener.pc = "read"
  /\ UpdateStatus(listener.inv, "paid")
  /\ listener' = IF HasRow(listener.inv) THEN [listener EXCEPT !.pc = "marked"] ELSE Idle
  /\ UNCHANGED <<node, user, age, making, public, reader, told, revealed,
                 credits, pruned, faults>>

(* BalanceService::credit, in a transaction of its own; user_balances has  *)
(* a foreign key on users.                                                 *)
CreditDeposit ==
  /\ listener.pc = "marked"
  /\ credits' = [credits EXCEPT
       ![listener.inv] = IF user[Owner[listener.inv]] = "live" THEN @ + 1 ELSE @]
  /\ listener' = Idle
  /\ UNCHANGED <<node, user, age, making, row, public, reader, told, revealed,
                 clobbered, pruned, faults>>

(* Any database error is logged and the update is not tried again.         *)
SettlementFails ==
  /\ listener.pc # "idle"
  /\ Fault
  /\ listener' = Idle
  /\ UNCHANGED <<node, user, age, making, row, public, reader, told, revealed, ledger>>

StreamEnds ==
  /\ connected
  /\ Fault
  /\ connected' = FALSE
  /\ feed' = << >>
  /\ UNCHANGED <<up, lnd, past, user, age, making, row, public, listener, reader,
                 told, revealed, ledger>>

Handling == TakeSettled \/ TakeCanceled \/ MarkPaid \/ CreditDeposit
Listener == Subscribe \/ Handling \/ SettlementFails \/ StreamEnds

---------------------------------------------------------------------------
(* Status checks.  check_invoice answers what the row says, and status_for *)
(* does so for the public routes; a row whose expiry has passed is answered*)
(* "expired" and, in a second step, marked so.                             *)

Answer(i) ==
  IF row[i] \in {"pending", "expired"} /\ past[i] THEN "expired" ELSE row[i]

Found(i) == making[i] = "done" /\ HasRow(i)

ShowsKey(i) == row[i] = "paid" /\ i \in public /\ Purpose(i) = "create"

CheckInvoice(r, i) ==
  /\ up /\ reader[r] = Nobody /\ Found(i)
  /\ told' = [told EXCEPT ![i] = Answer(i)]
  /\ reader' = [reader EXCEPT ![r] = IF Answer(i) = "expired" THEN i ELSE Nobody]
  /\ revealed' = IF ShowsKey(i)
                 THEN revealed \cup {Owner[i]} ELSE revealed
  /\ UNCHANGED <<node, user, age, making, row, public, listener, ledger, faults>>

MarkExpired(r) ==
  /\ reader[r] # Nobody
  /\ UpdateStatus(reader[r], "expired")
  /\ reader' = [reader EXCEPT ![r] = Nobody]
  /\ UNCHANGED <<node, user, age, making, public, listener, told, revealed,
                 credits, pruned, faults>>

StatusChecks ==
  \E r \in Readers :
    \/ \E i \in Invoices : CheckInvoice(r, i)
    \/ MarkExpired(r)

---------------------------------------------------------------------------
(* The pruner, an administrator's delete, and the process itself.          *)

Prunable == {a \in Accounts :
               /\ user[a] = "live" /\ age[a] = "prunable"
               /\ \A i \in InvoicesOf(a) : row[i] # "paid"}

Prune ==
  /\ up /\ Prunable # {}
  /\ DeleteUsers(Prunable)
  /\ pruned' = pruned \cup Prunable
  /\ UNCHANGED <<node, age, making, public, listener, reader, told, revealed,
                 credits, clobbered, faults>>

DeleteUser(a) ==
  /\ up /\ user[a] = "live"
  /\ Fault
  /\ DeleteUsers({a})
  /\ UNCHANGED <<node, age, making, public, listener, reader, told, revealed, ledger>>

Crash ==
  /\ up
  /\ Fault
  /\ up' = FALSE
  /\ connected' = FALSE
  /\ feed' = << >>
  /\ listener' = Idle
  /\ reader' = [r \in Readers |-> Nobody]
  /\ making' = [i \in Invoices |->
       IF making[i] \in {"idle", "done"} THEN making[i] ELSE "failed"]
  /\ UNCHANGED <<lnd, past, user, age, row, public, told, revealed, ledger>>

Restart ==
  /\ ~up
  /\ up' = TRUE
  /\ UNCHANGED <<connected, feed, lnd, past, user, age, making, row, public,
                 listener, reader, told, revealed, ledger, faults>>

Operations ==
  \/ Prune
  \/ Crash
  \/ Restart
  \/ \E a \in Accounts : DeleteUser(a) \/ DaysPass(a)

Next == CreateInvoice \/ Environment \/ Listener \/ StatusChecks \/ Operations

(* The listener is a spawned task that never returns, and a supervisor     *)
(* restarts the process; clients, LND and the clock owe nothing.           *)
Fairness == WF_vars(Handling) /\ WF_vars(Subscribe) /\ WF_vars(Restart)

Spec == Init /\ [][Next]_vars /\ Fairness

---------------------------------------------------------------------------
(* No balance grows without a payment: handle_settlement credits only what *)
(* LND has reported as settled, whatever the row said in between.          *)
CreditedOnlyIfSettled ==
  \A i \in Invoices : credits[i] > 0 => lnd[i] = "settled"

(* The api key of an account made by an invoice is shown only after that   *)
(* invoice was settled (status_for derives it for a "paid" row only).      *)
KeyOnlyAfterPayment ==
  \A a \in revealed : lnd[Opening[a]] = "settled"

(* One payment, one deposit: handle_settlement's already-paid check makes  *)
(* redelivery harmless except as often as another UPDATE replaced "paid".  *)
CreditsBounded ==
  \A i \in Invoices : credits[i] <= 1 + clobbered[i]

(* prune_unpaid_anonymous_users never deletes an account that holds a      *)
(* deposit, unless a status check had overwritten the paid row.            *)
PrunedHeldNoDeposit ==
  \A a \in pruned : \A i \in InvoicesOf(a) :
    credits[i] > 0 => clobbered[i] > 0

(* The listener gets through its updates: with no fault injected, an       *)
(* invoice LND has announced as settled is credited, although its row may  *)
(* be marked expired before or while the listener handles it, unless the   *)
(* account itself is gone by then.                                         *)
Announced(i) == \E n \in 1..Len(feed) : feed[n] = [kind |-> "settled", inv |-> i]

AnnouncedIsCredited ==
  \A i \in Invoices :
    Announced(i) ~> (credits[i] > 0 \/ user[Owner[i]] = "deleted" \/ faults > 0)

---------------------------------------------------------------------------
(* What the repository says and the code does not keep.                    *)

(* db/anonymous.rs's test is named prunes_only_old_unpaid_anonymous_users: *)
(* an account whose invoice was paid and credited is not pruned.           *)
PrunesOnlyUnpaid ==
  \A a \in pruned : \A i \in InvoicesOf(a) : credits[i] = 0

===========================================================================
