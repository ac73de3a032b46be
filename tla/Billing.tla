------------------------------ MODULE Billing ------------------------------
(***************************************************************************)
(* What happens to a user's balance: deposits and admin credits, the       *)
(* admit / execute / finalize life of a metered request (payments/guard.rs,*)
(* biller.rs, api/chat.rs, api/metered.rs), and Lightning refunds          *)
(* (payments/routstr.rs).  BalanceService writes a balance and its ledger  *)
(* row in one transaction; everything around it is a sequence of awaits,   *)
(* and a handler whose client goes away is dropped at the await it is in.  *)
(***************************************************************************)
EXTENDS Integers, FiniteSets, FiniteSetsExt

CONSTANTS
  Users,
  Requests,     \* inference requests
  Refunds,      \* calls of POST /v1/balance/refund
  UserOf,       \* UserOf[x]: who makes request or refund x
  Fees,         \* per-request prices an administrator may set, in msat
  Usages,       \* what the tokens of a request may cost, in msat
  Amounts,      \* amounts deposited or refunded, in msat
  RoutingFees,  \* fees LND may report for a payout
  MaxAmount,    \* the most that is moved at once, which an i64 holds
  MaxDeposits,  \* bound on deposits
  MaxPrices,    \* bound on price and exemption changes
  MaxFaults     \* bound on disconnects, failed calls and crashes

(* Which handler serves a request: chat_completions_handler;               *)
(* chat_completions_stream; Metered::succeed and fail; Metered::tap.       *)
Kinds == {"chat", "stream", "unary", "tapped"}

ASSUME BillingAssumption ==
  /\ UserOf \in [Requests \cup Refunds -> Users]
  /\ Requests \cap Refunds = {}
  /\ Fees \subseteq Nat /\ Usages \subseteq Nat /\ RoutingFees \subseteq Nat
  /\ Amounts \subseteq Nat \ {0} /\ IsFiniteSet(Refunds)
  /\ MaxAmount \in Nat
  /\ \A a \in Amounts \cup Usages, b \in Fees \cup RoutingFees : a + b <= MaxAmount
  /\ MaxDeposits \in Nat /\ MaxPrices \in Nat /\ MaxFaults \in Nat

VARIABLES
  balance,   \* user_balances.balance_msat
  book,      \* balance_transactions: the total booked per type
  price,     \* the model's resolved price: is it free, and the request fee
  exempt,    \* users is_billing_exempt answers TRUE for
  req,       \* req[r]: the request's handler
  charges,   \* charges[r]: "usage" rows with r's id
  refund,    \* refund[f]: the refund's handler
  payout,    \* payout[f]: the payment as LND knows it (external)
  deposits,  \* deposits made so far
  prices,    \* price changes made so far
  faults     \* faults injected so far

vars == <<balance, book, price, exempt, req, charges, refund, payout,
          deposits, prices, faults>>

Types == {"deposit", "usage", "refund", "refund_fee", "refund_reversal"}
Admitted == {"running", "streaming", "settling", "charging"}
ReqPc == {"idle", "exempt", "pricing", "admitting", "rejected", "failed", "dropped",
          "done"} \cup Admitted
Streaming == {"stream", "tapped"}
RefundPc == {"idle", "checked", "refused", "debited", "paid", "unpaid", "done",
             "reversed", "gone"}

TypeOK ==
  /\ balance \in [Users -> Int]
  /\ book \in [Users -> [Types -> Nat]]
  /\ price \in [free : BOOLEAN, fee : Fees]
  /\ exempt \in SUBSET Users
  /\ req \in [Requests -> [pc : ReqPc, kind : Kinds, billed : BOOLEAN, free : BOOLEAN,
                           settled : BOOLEAN, detached : BOOLEAN, fee : Fees]]
  /\ charges \in [Requests -> Nat]
  /\ refund \in [Refunds -> [pc : RefundPc, amount : Amounts \cup {0}, seen : Int,
                             fee : RoutingFees \cup {0}, broke : BOOLEAN]]
  /\ payout \in [Refunds -> {"none", "flying", "paid", "failed"}]
  /\ deposits \in 0..MaxDeposits
  /\ prices \in 0..MaxPrices
  /\ faults \in 0..MaxFaults

Init ==
  /\ balance = [u \in Users |-> 0]
  /\ book = [u \in Users |-> [t \in Types |-> 0]]
  /\ price \in [free : {FALSE}, fee : Fees]
  /\ exempt = {}
  /\ req = [r \in Requests |-> [pc |-> "idle", kind |-> "chat", billed |-> FALSE,
              free |-> FALSE, settled |-> FALSE, detached |-> FALSE,
              fee |-> price.fee]]
  /\ charges = [r \in Requests |-> 0]
  /\ refund = [f \in Refunds |-> [pc |-> "idle", amount |-> 0, seen |-> 0, fee |-> 0,
                              broke |-> FALSE]]
  /\ payout = [f \in Refunds |-> "none"]
  /\ deposits = 0
  /\ prices = 0
  /\ faults = 0

Fault == faults < MaxFaults /\ faults' = faults + 1

---------------------------------------------------------------------------
(* BalanceService.  apply_balance_change upserts the balance and inserts   *)
(* the ledger row in one transaction; debit_balance first requires that    *)
(* the balance covers the amount.                                          *)

Signed(type, a) == IF type \in {"deposit", "refund_reversal"} THEN a ELSE -a

ApplyBalanceChange(u, type, a) ==
  /\ balance' = [balance EXCEPT ![u] = @ + Signed(type, a)]
  /\ book' = [book EXCEPT ![u][type] = @ + a]

AlwaysCovers(u, a) == TRUE
Covers(u, a) == balance[u] >= a

(* Credit: a settled invoice, or an administrator's top-up.                *)
Credit(u, a) ==
  /\ deposits < MaxDeposits
  /\ deposits' = deposits + 1
  /\ ApplyBalanceChange(u, "deposit", a)
  /\ UNCHANGED <<price, exempt, req, charges, refund, payout, prices, faults>>

---------------------------------------------------------------------------
(* Administrators reprice the model and exempt users at any time.          *)

SetPrice(free, fee) ==
  /\ prices < MaxPrices
  /\ prices' = prices + 1
  /\ price' = [free |-> free, fee |-> fee]
  /\ UNCHANGED <<balance, book, exempt, req, charges, refund, payout, deposits, faults>>

SetExempt(u) ==
  /\ prices < MaxPrices
  /\ prices' = prices + 1
  /\ exempt' = (exempt \ {u}) \cup ({u} \ exempt)
  /\ UNCHANGED <<balance, book, price, req, charges, refund, payout, deposits, faults>>

---------------------------------------------------------------------------
(* A request.  BillingGuard::try_create is three reads, each an await: the *)
(* exemption, the price and the balance; nothing is reserved.              *)

Goes(r, to) == req' = [req EXCEPT ![r].pc = to]
money == <<balance, book>>
others == <<price, exempt, refund, payout, deposits, prices>>

Arrive(r, kind) ==
  /\ req[r].pc = "idle"
  /\ req' = [req EXCEPT ![r].pc = "exempt", ![r].kind = kind]
  /\ UNCHANGED <<money, charges, others, faults>>

CheckExempt(r) ==
  /\ req[r].pc = "exempt"
  /\ IF UserOf[r] \in exempt THEN Goes(r, "running") ELSE Goes(r, "pricing")
  /\ UNCHANGED <<money, charges, others, faults>>

(* is_billing_exempt(..).unwrap_or(false): an error bills the user.        *)
CheckExemptFails(r) ==
  /\ req[r].pc = "exempt"
  /\ Fault
  /\ Goes(r, "pricing")
  /\ UNCHANGED <<money, charges, others>>

(* BillingEngine::admit: a free model needs no balance.                    *)
ResolvePrice(r) ==
  /\ req[r].pc = "pricing"
  /\ req' = [req EXCEPT ![r].pc = IF price.free THEN "running" ELSE "admitting",
                        ![r].billed = price.free,
                        ![r].free = price.free,
                        ![r].fee = price.fee]
  /\ UNCHANGED <<money, charges, others, faults>>

Required(fee) == Max({fee, 1})

Admit(r) ==
  /\ req[r].pc = "admitting"
  /\ req' = [req EXCEPT
       ![r].pc = IF balance[UserOf[r]] < Required(req[r].fee) THEN "rejected" ELSE "running",
       ![r].billed = balance[UserOf[r]] >= Required(req[r].fee)]
  /\ UNCHANGED <<money, charges, others, faults>>

(* The router answers.  chat bills an answer that reports usage and no     *)
(* other; Metered::succeed bills and Metered::fail does not; the other two *)
(* hand the client a body that streams.                                    *)
ProviderAnswers(r) ==
  /\ req[r].pc = "running"
  /\ \/ Goes(r, IF req[r].kind \in Streaming THEN "streaming" ELSE "settling")
     \/ req[r].kind = "chat" /\ Goes(r, "failed")
  /\ UNCHANGED <<money, charges, others, faults>>

ProviderFails(r) ==
  /\ req[r].pc = "running"
  /\ Fault
  /\ Goes(r, "failed")
  /\ UNCHANGED <<money, charges, others>>

(* A body that ends, with an error or without, is followed by finalize.    *)
StreamEnds(r) ==
  /\ req[r].pc = "streaming"
  /\ Goes(r, "settling")
  /\ UNCHANGED <<money, charges, others, faults>>

(* The client goes away and hyper drops the handler, or the body.  Only a  *)
(* tapped body has a Drop, which settles from a task of its own.           *)
NobodySettles(r) == FALSE
SettlesOnDrop(r) == req[r].kind = "tapped" /\ req[r].pc = "streaming"

Disconnect(r) ==
  /\ req[r].pc \in {"exempt", "pricing", "admitting"} \cup Admitted
  /\ ~req[r].detached
  /\ Fault
  /\ req' = [req EXCEPT
       ![r].pc = IF SettlesOnDrop(r) THEN "settling"
                 ELSE IF req[r].pc = "streaming" THEN "done" ELSE "dropped",
       ![r].detached = SettlesOnDrop(r)]
  /\ UNCHANGED <<money, charges, others>>

(* The process stops under a task that nobody waits for.                   *)
TaskKilled(r) ==
  /\ req[r].detached /\ req[r].pc \in {"settling", "charging"}
  /\ Goes(r, "dropped")
  /\ UNCHANGED <<money, charges, others, faults>>

(* BillingGuard::finalize_usage: the first call for a billed request goes  *)
(* on; the flag is set before the charge and never cleared.                *)
ChargesFree(r) == req[r].billed /\ ~req[r].settled
MayCharge(r) == req[r].billed /\ ~req[r].settled /\ ~req[r].free

Settle(r) ==
  /\ req[r].pc = "settling"
  /\ req' = [req EXCEPT ![r].pc = IF MayCharge(r) THEN "charging" ELSE "done",
                        ![r].settled = @ \/ req[r].billed,
                        ![r].fee = price.fee]
  /\ UNCHANGED <<money, charges, others, faults>>

(* finalize_charge: the usage at the price read since, whatever is left.   *)
Charge(r, usage) ==
  /\ req[r].pc = "charging"
  /\ LET cost == usage + req[r].fee IN
       IF cost > 0
       THEN /\ ApplyBalanceChange(UserOf[r], "usage", cost)
            /\ charges' = [charges EXCEPT ![r] = @ + 1]
       ELSE UNCHANGED <<money, charges>>
  /\ Goes(r, "done")
  /\ UNCHANGED <<others, faults>>

ChargeFails(r) ==
  /\ req[r].pc = "charging"
  /\ Fault
  /\ Goes(r, "done")
  /\ UNCHANGED <<money, charges, others>>

Request(r) ==
  \/ \E kind \in Kinds : Arrive(r, kind)
  \/ CheckExempt(r)
  \/ CheckExemptFails(r)
  \/ ResolvePrice(r)
  \/ Admit(r)
  \/ ProviderAnswers(r)
  \/ ProviderFails(r)
  \/ StreamEnds(r)
  \/ Disconnect(r)
  \/ TaskKilled(r)
  \/ Settle(r)
  \/ \E usage \in Usages : Charge(r, usage)
  \/ ChargeFails(r)

---------------------------------------------------------------------------
(* balance_refund.  The balance is read, the debit checks it once more,    *)
(* then pay_invoice waits for LND for up to two minutes.                   *)

(* The handler goes on, or answers and its locals are gone.                *)
Call(f, to) == refund' = [refund EXCEPT ![f].pc = to]
Ends(f, to) == refund' = [refund EXCEPT ![f].pc = to, ![f].seen = 0, ![f].fee = 0]

rest == <<price, exempt, req, charges, deposits, prices>>

CheckRefund(f, a) ==
  /\ refund[f].pc = "idle"
  /\ balance[UserOf[f]] > 0 /\ a <= balance[UserOf[f]]
  /\ refund' = [refund EXCEPT ![f].pc = "checked", ![f].amount = a,
                              ![f].seen = balance[UserOf[f]]]
  /\ UNCHANGED <<money, payout, rest, faults>>

DebitRefund(f) ==
  /\ refund[f].pc = "checked"
  /\ IF Covers(UserOf[f], refund[f].amount)
     THEN ApplyBalanceChange(UserOf[f], "refund", refund[f].amount) /\ Call(f, "debited")
     ELSE Ends(f, "refused") /\ UNCHANGED money
  /\ UNCHANGED <<payout, rest, faults>>

(* LND takes the payment on and settles or fails it (external).            *)
SendPayment(f) ==
  /\ refund[f].pc = "debited" /\ payout[f] = "none"
  /\ payout' = [payout EXCEPT ![f] = "flying"]
  /\ UNCHANGED <<money, refund, rest, faults>>

LndDecides(f) ==
  /\ payout[f] = "flying"
  /\ \E result \in {"paid", "failed"} : payout' = [payout EXCEPT ![f] = result]
  /\ UNCHANGED <<money, refund, rest, faults>>

(* The fee that pay_invoice hands on is fee_msat, not the route's total.   *)
RouteFee(f, fee) == fee

PaymentSucceeds(f, fee) ==
  /\ refund[f].pc = "debited" /\ payout[f] = "paid"
  /\ refund' = [refund EXCEPT ![f].pc = "paid", ![f].fee = RouteFee(f, fee)]
  /\ UNCHANGED <<money, payout, rest, faults>>

(* pay_invoice returns an error: the payment failed.                       *)
TimesOut(f) ==
  /\ refund[f].pc = "debited" /\ payout[f] \in {"flying", "failed"}
  /\ Call(f, "unpaid")
  /\ UNCHANGED <<money, payout, rest, faults>>

PaymentFails(f) ==
  /\ refund[f].pc = "debited" /\ payout[f] = "failed"
  /\ Call(f, "unpaid")
  /\ UNCHANGED <<money, payout, rest, faults>>

(* Or the call to LND broke, before the payment was sent or after.         *)
AnswerLost(f) ==
  /\ refund[f].pc = "debited"
  /\ Fault
  /\ refund' = [refund EXCEPT ![f].pc = "unpaid", ![f].broke = TRUE]
  /\ UNCHANGED <<money, payout, rest>>

(* The routing fee comes out of what the first read left over, if it is    *)
(* still there: the debit's failure is ignored.                            *)
ChargedFee(f) == Min({refund[f].fee, refund[f].seen - refund[f].amount})

DebitFee(f) ==
  /\ refund[f].pc = "paid"
  /\ IF ChargedFee(f) > 0 /\ Covers(UserOf[f], ChargedFee(f))
     THEN ApplyBalanceChange(UserOf[f], "refund_fee", ChargedFee(f))
     ELSE UNCHANGED money
  /\ Ends(f, "done")
  /\ UNCHANGED <<payout, rest, faults>>

ReverseUnbooked(f) ==
  /\ refund[f].pc = "unpaid"
  /\ balance' = [balance EXCEPT ![UserOf[f]] = @ + refund[f].amount]
  /\ Ends(f, "reversed")
  /\ UNCHANGED <<book, payout, rest, faults>>

ReverseRefund(f) ==
  /\ refund[f].pc = "unpaid"
  /\ ApplyBalanceChange(UserOf[f], "refund_reversal", refund[f].amount)
  /\ Ends(f, "reversed")
  /\ UNCHANGED <<payout, rest, faults>>

(* The client hangs up and the handler is dropped, or a database call of   *)
(* it fails: nothing is undone.                                            *)
RefundDropped(f) ==
  /\ refund[f].pc \in {"checked", "debited", "paid", "unpaid"}
  /\ Fault
  /\ Ends(f, CASE refund[f].pc = "checked" -> "refused"
               [] refund[f].pc = "paid" -> "done"
               [] OTHER -> "gone")
  /\ UNCHANGED <<money, payout, rest>>

Refund(f) ==
  \/ \E a \in Amounts : CheckRefund(f, a)
  \/ DebitRefund(f)
  \/ SendPayment(f)
  \/ LndDecides(f)
  \/ \E fee \in RoutingFees : PaymentSucceeds(f, fee)
  \/ PaymentFails(f)
  \/ AnswerLost(f)
  \/ DebitFee(f)
  \/ ReverseRefund(f)
  \/ RefundDropped(f)

---------------------------------------------------------------------------
Next ==
  \/ \E u \in Users : SetExempt(u) \/ \E a \in Amounts : Credit(u, a)
  \/ \E free \in BOOLEAN, fee \in Fees : SetPrice(free, fee)
  \/ \E r \in Requests : Request(r)
  \/ \E f \in Refunds : Refund(f)

Spec == Init /\ [][Next]_vars

---------------------------------------------------------------------------
(* The balance is the sum of the ledger: every path that moves money, the  *)
(* refund's four included, books what it moves (apply_balance_change and   *)
(* debit_balance write both rows in one transaction).                      *)
BalanceMatchesBook ==
  \A u \in Users :
    balance[u] = book[u]["deposit"] + book[u]["refund_reversal"]
                 - book[u]["usage"] - book[u]["refund"] - book[u]["refund_fee"]

(* A request is charged once at most, only after finalize was called for   *)
(* it, and not when it was admitted as free or without billing, however    *)
(* the price and the exemption change while it runs.                       *)
ChargedAsAdmitted ==
  \A r \in Requests :
    charges[r] > 0 => charges[r] = 1 /\ req[r].settled /\ ~req[r].free

(* A refund is both paid out and given back only if the answer to          *)
(* pay_invoice was lost: an error LND itself reports is a payment that     *)
(* failed.                                                                 *)
GivenBackOnlyIfUnpaid ==
  \A f \in Refunds :
    refund[f].pc = "reversed" /\ payout[f] = "paid" => refund[f].broke

(* A billed response that streams through Metered::tap is settled however  *)
(* the stream ends, the client's disconnect included, unless the settling  *)
(* itself is cut short ("dropped").                                        *)
StreamedUnpaid(r, kinds) ==
  /\ req[r].kind \in kinds /\ req[r].pc = "done"
  /\ req[r].billed /\ ~req[r].free /\ ~req[r].settled

TappedIsSettled ==
  \A r \in Requests : ~StreamedUnpaid(r, {"tapped"})

---------------------------------------------------------------------------
(* The ledger implements the wallet.                                       *)

OpenPayouts ==
  {f \in Refunds : \/ refund[f].pc \in {"debited", "unpaid"} /\ payout[f] # "paid"
                   \/ refund[f].pc = "gone" /\ payout[f] = "flying"}
LostPayouts == {f \in Refunds : refund[f].pc = "gone" /\ payout[f] \in {"none", "failed"}}
DonePayouts == {f \in Refunds : payout[f] = "paid"}
DoublePayouts == {f \in DonePayouts : refund[f].pc = "reversed"}

(* The millisatoshi in payouts of these amounts, counted one by one: those *)
(* of one user, and those of each.                                         *)
Count(u, payouts, amount) ==
  Cardinality({c \in payouts \X (1..MaxAmount) :
                 UserOf[c[1]] = u /\ c[2] <= amount[c[1]]})
Total(payouts, amount) == [u \in Users |-> Count(u, payouts, amount)]

Asked == [f \in Refunds |-> refund[f].amount]
InBook(type) == [u \in Users |-> book[u][type]]

Deposited == InBook("deposit")
Held == Total(OpenPayouts, Asked)
Spent == InBook("usage")
Out == [u \in Users |-> Total(DonePayouts, Asked)[u] + InBook("refund_fee")[u]]
Lost == Total(LostPayouts, Asked)
House == [u \in Users |-> -Total(DoublePayouts, Asked)[u]]

(* Every step of the payments code is one of the wallet's moves: a refund  *)
(* never holds more than the balance, nor pays, keeps or returns more than *)
(* it held, whatever requests are charged in between.                      *)
W == INSTANCE Wallet WITH
  deposited <- Deposited, funds <- balance, held <- Held, spent <- Spent,
  out <- Out, lost <- Lost, house <- House

ImplementsWallet == W!WSpec

===========================================================================
