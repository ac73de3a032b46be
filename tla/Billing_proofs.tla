--------------------------- MODULE Billing_proofs ---------------------------
(***************************************************************************)
(* Proofs about Billing: the balances add up to the ledger, a request is   *)
(* charged once and as it was admitted, a tapped stream is settled, and a  *)
(* refund is given back only when it was not paid or its answer was lost;  *)
(* and that the ledger implements the abstract wallet; for any number of   *)
(* users, requests and refunds, and any amounts.                           *)
(***************************************************************************)
EXTENDS Billing, FiniteSetTheorems, TLAPS

(* The least of two integers, which caps the routing fee.                  *)
LEMMA LeastOfTwo ==
  ASSUME NEW m \in Int, NEW n \in Int
  PROVE  Min({m, n}) \in {m, n} /\ Min({m, n}) <= m
<1>1. \E x \in {m, n} : \A y \in {m, n} : x <= y
  BY SMT
<1> QED
  BY <1>1 DEF Min

LEMMA MostOfTwo ==
  ASSUME NEW m \in Int, NEW n \in Int
  PROVE  Max({m, n}) \in {m, n}
<1>1. \E x \in {m, n} : \A y \in {m, n} : x >= y
  BY SMT
<1> QED
  BY <1>1 DEF Max

Calls == [pc : ReqPc, kind : Kinds, billed : BOOLEAN, free : BOOLEAN,
          settled : BOOLEAN, detached : BOOLEAN, fee : Fees]
Payouts == [pc : RefundPc, amount : Amounts \cup {0}, seen : Int,
            fee : RoutingFees \cup {0}, broke : BOOLEAN]

(* A request is charged at its end only, and by then is settled.           *)
CallInv(r) ==
  /\ charges[r] > 0 => charges[r] = 1 /\ req[r].pc = "done" /\ req[r].settled /\ ~req[r].free
  /\ req[r].pc = "charging" => req[r].settled /\ ~req[r].free
  /\ ~StreamedUnpaid(r, {"tapped"})

(* The handler holds a refund for unpaid only if LND has failed it or the  *)
(* call to LND broke, and LND knows of no payout that was not debited.     *)
PayoutInv(f) ==
  /\ refund[f].pc \in {"unpaid", "reversed"} => refund[f].broke \/ payout[f] = "failed"
  /\ refund[f].pc \in {"idle", "checked", "refused"} => payout[f] = "none"
  /\ refund[f].pc \in {"paid", "done"} => payout[f] = "paid"
  /\ refund[f].pc # "idle" => refund[f].amount \in Amounts

IInv ==
  /\ TypeOK
  /\ BalanceMatchesBook
  /\ \A r \in Requests : CallInv(r)
  /\ \A f \in Refunds : PayoutInv(f)

(* apply_balance_change moves and books the same amount.                   *)
LEMMA Booked ==
  ASSUME TypeOK, BalanceMatchesBook, NEW u \in Users, NEW type \in Types, NEW a \in Nat,
         ApplyBalanceChange(u, type, a)
  PROVE  /\ balance' \in [Users -> Int]
         /\ book' \in [Users -> [Types -> Nat]]
         /\ BalanceMatchesBook'
<1> USE DEF ApplyBalanceChange
<1>1. balance \in [Users -> Int] /\ book \in [Users -> [Types -> Nat]]
  BY DEF TypeOK
<1>2. Signed(type, a) \in Int
  BY DEF Signed
<1>3. balance' \in [Users -> Int]
  BY <1>1, <1>2
<1>4. book' \in [Users -> [Types -> Nat]]
  BY <1>1
<1>5. BalanceMatchesBook'
  <2> SUFFICES ASSUME NEW v \in Users
               PROVE  balance'[v] = book'[v]["deposit"] + book'[v]["refund_reversal"]
                        - book'[v]["usage"] - book'[v]["refund"] - book'[v]["refund_fee"]
    BY DEF BalanceMatchesBook
  <2>1. \A t \in Types : book[v][t] \in Nat
    BY <1>1
  <2>2. balance[v] = book[v]["deposit"] + book[v]["refund_reversal"]
          - book[v]["usage"] - book[v]["refund"] - book[v]["refund_fee"]
    BY DEF BalanceMatchesBook
  <2>3. CASE v # u
    BY <1>1, <2>2, <2>3
  <2>4. CASE v = u
    <3>1. balance'[v] = balance[v] + Signed(type, a)
      BY <1>1, <2>4
    <3>2. \A t \in Types : book'[v][t] = IF t = type THEN book[v][t] + a ELSE book[v][t]
      BY <1>1, <2>4
    <3> QED
      BY <2>1, <2>2, <3>1, <3>2, SMT DEF Types, Signed
  <2> QED
    BY <2>3, <2>4
<1> QED
  BY <1>3, <1>4, <1>5

(* A step of request r that leaves the refunds alone.                      *)
LEMMA CallStep ==
  ASSUME IInv, NEW r \in Requests, NEW call \in Calls,
         req' = [req EXCEPT ![r] = call],
         balance' \in [Users -> Int], book' \in [Users -> [Types -> Nat]],
         BalanceMatchesBook',
         charges' \in [Requests -> Nat],
         \A q \in Requests : q # r => charges'[q] = charges[q],
         CallInv(r)',
         UNCHANGED others, faults' \in 0..MaxFaults
  PROVE  IInv'
<1> USE BillingAssumption DEF others
<1>1. req' \in [Requests -> Calls]
  BY DEF IInv, TypeOK, Calls
<1>2. TypeOK'
  BY <1>1 DEF IInv, TypeOK, Calls
<1>3. ASSUME NEW q \in Requests PROVE CallInv(q)'
  <2>1. CASE q = r
    BY <2>1
  <2>2. CASE q # r
    <3>1. req'[q] = req[q] /\ charges'[q] = charges[q]
      BY <2>2 DEF IInv, TypeOK
    <3> QED
      BY <3>1 DEF IInv, CallInv, StreamedUnpaid
  <2> QED
    BY <2>1, <2>2
<1>4. (\A f \in Refunds : PayoutInv(f))'
  BY DEF IInv, PayoutInv
<1> QED
  BY <1>2, <1>3, <1>4 DEF IInv

(* What a fault leaves of its budget.                                      *)
LEMMA Budget == ASSUME TypeOK, Fault PROVE faults' \in 0..MaxFaults
BY BillingAssumption DEF TypeOK, Fault

(* A request's steps that move no money.                                   *)
Talks(r) ==
  \/ \E kind \in Kinds : Arrive(r, kind)
  \/ CheckExempt(r)
  \/ CheckExemptFails(r)
  \/ ResolvePrice(r)
  \/ Admit(r)
  \/ ProviderAnswers(r)
  \/ ProviderFails(r)
  \/ StreamEnds(r)
  \/ Disconnect(r)
  \/ TaskKilled(r)
  \/ Settle(r)
  \/ ChargeFails(r)

LEMMA TalkIInv ==
  ASSUME IInv, NEW r \in Requests, Talks(r)
  PROVE  IInv'
<1> USE BillingAssumption
<1>t. TypeOK /\ BalanceMatchesBook
  BY DEF IInv
<1>c. req \in [Requests -> Calls] /\ req[r] \in Calls /\ CallInv(r) /\ charges[r] \in Nat /\ price.fee \in Fees /\ price.free \in BOOLEAN
  BY DEF IInv, TypeOK, Calls
<1>m. ASSUME UNCHANGED <<balance, book, charges>>
      PROVE  /\ balance' \in [Users -> Int] /\ book' \in [Users -> [Types -> Nat]]
             /\ charges' \in [Requests -> Nat] /\ BalanceMatchesBook'
             /\ \A q \in Requests : q # r => charges'[q] = charges[q]
  BY <1>t, <1>m DEF TypeOK, BalanceMatchesBook
<1>1. ASSUME NEW kind \in Kinds, Arrive(r, kind) PROVE IInv'
  <2> DEFINE call == [req[r] EXCEPT !.pc = "exempt", !.kind = kind]
  <2>0. call \in Calls
    BY <1>1, <1>c DEF Calls, ReqPc, Admitted
  <2>1. call \in Calls /\ req' = [req EXCEPT ![r] = call]
    BY <1>1, <1>c, <2>0 DEF Arrive, Calls
  <2>2. /\ UNCHANGED <<balance, book, charges, price, exempt, refund, payout, deposits, prices>>
        /\ faults' \in 0..MaxFaults
    BY <1>1, <1>t, Budget DEF Arrive, money, others, TypeOK
  <2>3. CallInv(r)'
    BY <1>1, <1>c, <2>1, <2>2 DEF Arrive, CallInv, StreamedUnpaid, Calls, Streaming, Admitted
  <2> HIDE DEF call
  <2> QED
    BY <2>1, <2>2, <2>3, <1>m, CallStep DEF others
<1>2. CASE CheckExempt(r)
  <2> DEFINE call == [req[r] EXCEPT !.pc = IF UserOf[r] \in exempt THEN "running" ELSE "pricing"]
  <2>0. call \in Calls
    BY <1>2, <1>c DEF Calls, ReqPc, Admitted
  <2>1. call \in Calls /\ req' = [req EXCEPT ![r] = call]
    BY <1>2, <1>c, <2>0 DEF CheckExempt, Goes, Calls
  <2>2. /\ UNCHANGED <<balance, book, charges, price, exempt, refund, payout, deposits, prices>>
        /\ faults' \in 0..MaxFaults
    BY <1>2, <1>t, Budget DEF CheckExempt, money, others, TypeOK
  <2>3. CallInv(r)'
    BY <1>2, <1>c, <2>1, <2>2 DEF CheckExempt, CallInv, StreamedUnpaid, Calls, Streaming, Admitted
  <2> HIDE DEF call
  <2> QED
    BY <2>1, <2>2, <2>3, <1>m, CallStep DEF others
<1>3. CASE CheckExemptFails(r)
  <2> DEFINE call == [req[r] EXCEPT !.pc = "pricing"]
  <2>0. call \in Calls
    BY <1>3, <1>c DEF Calls, ReqPc, Admitted
  <2>1. call \in Calls /\ req' = [req EXCEPT ![r] = call]
    BY <1>3, <1>c, <2>0 DEF CheckExemptFails, Goes, Calls
  <2>2. /\ UNCHANGED <<balance, book, charges, price, exempt, refund, payout, deposits, prices>>
        /\ faults' \in 0..MaxFaults
    BY <1>3, <1>t, Budget DEF CheckExemptFails, money, others, TypeOK
  <2>3. CallInv(r)'
    BY <1>3, <1>c, <2>1, <2>2 DEF CheckExemptFails, CallInv, StreamedUnpaid, Calls, Streaming, Admitted
  <2> HIDE DEF call
  <2> QED
    BY <2>1, <2>2, <2>3, <1>m, CallStep DEF others
<1>4. CASE ResolvePrice(r)
  <2> DEFINE call == [req[r] EXCEPT !.pc = IF price.free THEN "running" ELSE "admitting",
                                  !.billed = price.free, !.free = price.free, !.fee = price.fee]
  <2>0. call \in Calls
    BY <1>4, <1>c DEF Calls, ReqPc, Admitted
  <2>1. call \in Calls /\ req' = [req EXCEPT ![r] = call]
    BY <1>4, <1>c, <2>0 DEF ResolvePrice, Calls
  <2>2. /\ UNCHANGED <<balance, book, charges, price, exempt, refund, payout, deposits, prices>>
        /\ faults' \in 0..MaxFaults
    BY <1>4, <1>t, Budget DEF ResolvePrice, money, others, TypeOK
  <2>3. CallInv(r)'
    BY <1>4, <1>c, <2>1, <2>2 DEF ResolvePrice, CallInv, StreamedUnpaid, Calls, Streaming, Admitted
  <2> HIDE DEF call
  <2> QED
    BY <2>1, <2>2, <2>3, <1>m, CallStep DEF others
<1>5. CASE Admit(r)
  <2> DEFINE call == [req[r] EXCEPT
       !.pc = IF balance[UserOf[r]] < Required(req[r].fee) THEN "rejected" ELSE "running",
       !.billed = balance[UserOf[r]] >= Required(req[r].fee)]
  <2>b. (balance[UserOf[r]] >= Required(req[r].fee)) \in BOOLEAN
    OBVIOUS
  <2>0. call \in Calls
    BY <1>c, <2>b, Zenon DEF Calls, ReqPc, Admitted
  <2>1. call \in Calls /\ req' = [req EXCEPT ![r] = call]
    BY <1>5, <1>c, <2>0 DEF Admit, Calls
  <2>2. /\ UNCHANGED <<balance, book, charges, price, exempt, refund, payout, deposits, prices>>
        /\ faults' \in 0..MaxFaults
    BY <1>5, <1>t, Budget DEF Admit, money, others, TypeOK
  <2>3. CallInv(r)'
    BY <1>5, <1>c, <2>1, <2>2 DEF Admit, CallInv, StreamedUnpaid, Calls, Streaming, Admitted
  <2> HIDE DEF call
  <2> QED
    BY <2>1, <2>2, <2>3, <1>m, CallStep DEF others
<1>6. CASE ProviderAnswers(r)
  <2>. PICK pc \in {"streaming", "settling", "failed"} : Goes(r, pc)
    BY <1>6 DEF ProviderAnswers
  <2> DEFINE call == [req[r] EXCEPT !.pc = pc]
  <2>0. call \in Calls
    BY <1>6, <1>c DEF Calls, ReqPc, Admitted
  <2>1. call \in Calls /\ req' = [req EXCEPT ![r] = call]
    BY <1>6, <1>c, <2>0 DEF ProviderAnswers, Goes, Calls
  <2>2. /\ UNCHANGED <<balance, book, charges, price, exempt, refund, payout, deposits, prices>>
        /\ faults' \in 0..MaxFaults
    BY <1>6, <1>t, Budget DEF ProviderAnswers, money, others, TypeOK
  <2>3. CallInv(r)'
    BY <1>6, <1>c, <2>1, <2>2 DEF ProviderAnswers, CallInv, StreamedUnpaid, Calls, Streaming, Admitted
  <2> HIDE DEF call
  <2> QED
    BY <2>1, <2>2, <2>3, <1>m, CallStep DEF others
<1>7. CASE ProviderFails(r)
  <2> DEFINE call == [req[r] EXCEPT !.pc = "failed"]
  <2>0. call \in Calls
    BY <1>7, <1>c DEF Calls, ReqPc, Admitted
  <2>1. call \in Calls /\ req' = [req EXCEPT ![r] = call]
    BY <1>7, <1>c, <2>0 DEF ProviderFails, Goes, Calls
  <2>2. /\ UNCHANGED <<balance, book, charges, price, exempt, refund, payout, deposits, prices>>
        /\ faults' \in 0..MaxFaults
    BY <1>7, <1>t, Budget DEF ProviderFails, money, others, TypeOK
  <2>3. CallInv(r)'
    BY <1>7, <1>c, <2>1, <2>2 DEF ProviderFails, CallInv, StreamedUnpaid, Calls, Streaming, Admitted
  <2> HIDE DEF call
  <2> QED
    BY <2>1, <2>2, <2>3, <1>m, CallStep DEF others
<1>8. CASE StreamEnds(r)
  <2> DEFINE call == [req[r] EXCEPT !.pc = "settling"]
  <2>0. call \in Calls
    BY <1>8, <1>c DEF Calls, ReqPc, Admitted
  <2>1. call \in Calls /\ req' = [req EXCEPT ![r] = call]
    BY <1>8, <1>c, <2>0 DEF StreamEnds, Goes, Calls
  <2>2. /\ UNCHANGED <<balance, book, charges, price, exempt, refund, payout, deposits, prices>>
        /\ faults' \in 0..MaxFaults
    BY <1>8, <1>t, Budget DEF StreamEnds, money, others, TypeOK
  <2>3. CallInv(r)'
    BY <1>8, <1>c, <2>1, <2>2 DEF StreamEnds, CallInv, StreamedUnpaid, Calls, Streaming, Admitted
  <2> HIDE DEF call
  <2> QED
    BY <2>1, <2>2, <2>3, <1>m, CallStep DEF others
<1>9. CASE Disconnect(r)
  <2> DEFINE call == [req[r] EXCEPT
       !.pc = IF SettlesOnDrop(r) THEN "settling"
              ELSE IF req[r].pc = "streaming" THEN "done" ELSE "dropped",
       !.detached = SettlesOnDrop(r)]
  <2>b. SettlesOnDrop(r) \in BOOLEAN
    BY DEF SettlesOnDrop
  <2>0. call \in Calls
    BY <1>c, <2>b DEF Calls, ReqPc, Admitted
  <2>1. call \in Calls /\ req' = [req EXCEPT ![r] = call]
    BY <1>9, <1>c, <2>0 DEF Disconnect, Calls
  <2>2. /\ UNCHANGED <<balance, book, charges, price, exempt, refund, payout, deposits, prices>>
        /\ faults' \in 0..MaxFaults
    BY <1>9, <1>t, Budget DEF Disconnect, money, others, TypeOK
  <2>3. CallInv(r)'
    BY <1>9, <1>c, <2>1, <2>2 DEF Disconnect, SettlesOnDrop, CallInv, StreamedUnpaid, Calls, Streaming, Admitted
  <2> HIDE DEF call
  <2> QED
    BY <2>1, <2>2, <2>3, <1>m, CallStep DEF others
<1>10. CASE TaskKilled(r)
  <2> DEFINE call == [req[r] EXCEPT !.pc = "dropped"]
  <2>0. call \in Calls
    BY <1>10, <1>c DEF Calls, ReqPc, Admitted
  <2>1. call \in Calls /\ req' = [req EXCEPT ![r] = call]
    BY <1>10, <1>c, <2>0 DEF TaskKilled, Goes, Calls
  <2>2. /\ UNCHANGED <<balance, book, charges, price, exempt, refund, payout, deposits, prices>>
        /\ faults' \in 0..MaxFaults
    BY <1>10, <1>t, Budget DEF TaskKilled, money, others, TypeOK
  <2>3. CallInv(r)'
    BY <1>10, <1>c, <2>1, <2>2 DEF TaskKilled, CallInv, StreamedUnpaid, Calls, Streaming, Admitted
  <2> HIDE DEF call
  <2> QED
    BY <2>1, <2>2, <2>3, <1>m, CallStep DEF others
<1>11. CASE Settle(r)
  <2> DEFINE call == [req[r] EXCEPT !.pc = IF MayCharge(r) THEN "charging" ELSE "done",
                                  !.settled = @ \/ req[r].billed, !.fee = price.fee]
  <2>0. call \in Calls
    BY <1>11, <1>c DEF Calls, ReqPc, Admitted
  <2>1. call \in Calls /\ req' = [req EXCEPT ![r] = call]
    BY <1>11, <1>c, <2>0 DEF Settle, Calls
  <2>2. /\ UNCHANGED <<balance, book, charges, price, exempt, refund, payout, deposits, prices>>
        /\ faults' \in 0..MaxFaults
    BY <1>11, <1>t, Budget DEF Settle, money, others, TypeOK
  <2>3. CallInv(r)'
    BY <1>11, <1>c, <2>1, <2>2 DEF Settle, MayCharge, CallInv, StreamedUnpaid, Calls, Streaming, Admitted
  <2> HIDE DEF call
  <2> QED
    BY <2>1, <2>2, <2>3, <1>m, CallStep DEF others
<1>12. CASE ChargeFails(r)
  <2> DEFINE call == [req[r] EXCEPT !.pc = "done"]
  <2>0. call \in Calls
    BY <1>12, <1>c DEF Calls, ReqPc, Admitted
  <2>1. call \in Calls /\ req' = [req EXCEPT ![r] = call]
    BY <1>12, <1>c, <2>0 DEF ChargeFails, Goes, Calls
  <2>2. /\ UNCHANGED <<balance, book, charges, price, exempt, refund, payout, deposits, prices>>
        /\ faults' \in 0..MaxFaults
    BY <1>12, <1>t, Budget DEF ChargeFails, money, others, TypeOK
  <2>3. CallInv(r)'
    BY <1>12, <1>c, <2>1, <2>2 DEF ChargeFails, CallInv, StreamedUnpaid, Calls, Streaming, Admitted
  <2> HIDE DEF call
  <2> QED
    BY <2>1, <2>2, <2>3, <1>m, CallStep DEF others
<1> QED
  BY <1>1, <1>2, <1>3, <1>4, <1>5, <1>6, <1>7, <1>8, <1>9, <1>10, <1>11, <1>12 DEF Talks


(* finalize_charge, which moves and books the cost if there is any.        *)
LEMMA ChargeIInv ==
  ASSUME IInv, NEW r \in Requests, NEW usage \in Usages, Charge(r, usage)
  PROVE  IInv'
<1> USE BillingAssumption DEF Charge, Goes
<1> DEFINE cost == usage + req[r].fee
           call == [req[r] EXCEPT !.pc = "done"]
<1>c. /\ TypeOK /\ BalanceMatchesBook /\ CallInv(r)
      /\ req \in [Requests -> Calls] /\ req[r] \in Calls /\ charges \in [Requests -> Nat]
      /\ UserOf[r] \in Users /\ faults \in 0..MaxFaults
  BY DEF IInv, TypeOK, Calls
<1>n. cost \in Nat
  <2>1. usage \in Nat /\ req[r].fee \in Nat
    BY <1>c DEF Calls
  <2> QED
    BY <2>1
<1>1. call \in Calls /\ req' = [req EXCEPT ![r] = call]
  BY <1>c DEF Calls, ReqPc
<1>2. UNCHANGED others /\ faults' \in 0..MaxFaults
  BY <1>c
<1>z. charges[r] = 0 /\ req[r].settled /\ ~req[r].free
  BY <1>c DEF CallInv
<1>3. CASE cost > 0
  <2>1. ApplyBalanceChange(UserOf[r], "usage", cost) /\ charges' = [charges EXCEPT ![r] = @ + 1]
    BY <1>3
  <2>2. /\ balance' \in [Users -> Int] /\ book' \in [Users -> [Types -> Nat]]
        /\ BalanceMatchesBook'
    BY <1>c, <1>n, <2>1, Booked DEF Types
  <2>3. charges' \in [Requests -> Nat] /\ charges'[r] = 1
        /\ \A q \in Requests : q # r => charges'[q] = charges[q]
    BY <1>c, <1>z, <2>1
  <2>4. CallInv(r)'
    BY <1>c, <1>1, <1>z, <2>3 DEF CallInv, StreamedUnpaid, Calls
  <2> HIDE DEF call, cost
  <2> QED
    BY <1>1, <1>2, <2>2, <2>3, <2>4, CallStep
<1>4. CASE ~(cost > 0)
  <2>1. UNCHANGED <<balance, book, charges>>
    BY <1>4 DEF money
  <2>2. /\ balance' \in [Users -> Int] /\ book' \in [Users -> [Types -> Nat]]
        /\ charges' \in [Requests -> Nat] /\ BalanceMatchesBook'
    BY <1>c, <2>1 DEF TypeOK, BalanceMatchesBook
  <2>3. CallInv(r)'
    BY <1>c, <1>1, <1>z, <2>1 DEF CallInv, StreamedUnpaid, Calls
  <2> HIDE DEF call, cost
  <2> QED
    BY <1>1, <1>2, <2>1, <2>2, <2>3, CallStep
<1> QED
  BY <1>3, <1>4

(* A step of refund f that leaves the requests alone.                      *)
LEMMA PayoutStep ==
  ASSUME IInv, NEW f \in Refunds, NEW call \in Payouts,
         refund' = [refund EXCEPT ![f] = call],
         payout' \in [Refunds -> {"none", "flying", "paid", "failed"}],
         \A g \in Refunds : g # f => payout'[g] = payout[g],
         balance' \in [Users -> Int], book' \in [Users -> [Types -> Nat]],
         BalanceMatchesBook', PayoutInv(f)',
         UNCHANGED rest, faults' \in 0..MaxFaults
  PROVE  IInv'
<1> USE BillingAssumption DEF rest
<1>1. refund' \in [Refunds -> Payouts]
  BY DEF IInv, TypeOK, Payouts
<1>2. TypeOK'
  BY <1>1 DEF IInv, TypeOK, Payouts
<1>3. ASSUME NEW g \in Refunds PROVE PayoutInv(g)'
  <2>1. CASE g = f
    BY <2>1
  <2>2. CASE g # f
    <3>1. refund'[g] = refund[g] /\ payout'[g] = payout[g]
      BY <2>2 DEF IInv, TypeOK
    <3> QED
      BY <3>1 DEF IInv, PayoutInv
  <2> QED
    BY <2>1, <2>2
<1>4. (\A r \in Requests : CallInv(r))'
  BY DEF IInv, CallInv, StreamedUnpaid
<1> QED
  BY <1>2, <1>3, <1>4 DEF IInv

(* A handler that answers and is gone.                                     *)
LEMMA Answered ==
  ASSUME NEW call \in Payouts, NEW pc \in RefundPc
  PROVE  [call EXCEPT !.pc = pc, !.seen = 0, !.fee = 0] \in Payouts
<1>1. ASSUME NEW seen \in Int, NEW fee \in RoutingFees \cup {0}
      PROVE  [call EXCEPT !.pc = pc, !.seen = seen, !.fee = fee] \in Payouts
  BY DEF Payouts
<1>2. 0 \in Int /\ 0 \in RoutingFees \cup {0}
  OBVIOUS
<1> QED
  BY <1>1, <1>2

(* The steps of a refund and of its payment in LND.                        *)
LEMMA RefundIInv ==
  ASSUME IInv, NEW f \in Refunds, Refund(f)
  PROVE  IInv'
<1> USE BillingAssumption
<1>t. TypeOK /\ BalanceMatchesBook /\ PayoutInv(f)
  BY DEF IInv
<1>c. /\ refund \in [Refunds -> Payouts] /\ refund[f] \in Payouts
      /\ payout \in [Refunds -> {"none", "flying", "paid", "failed"}]
      /\ UserOf[f] \in Users /\ balance[UserOf[f]] \in Int
  BY DEF IInv, TypeOK, Payouts
<1>a. refund[f].amount \in Nat /\ refund[f].fee \in Nat /\ refund[f].seen \in Int
  <2>1. Amounts \cup {0} \subseteq Nat /\ RoutingFees \cup {0} \subseteq Nat
    OBVIOUS
  <2>2. refund[f].amount \in Amounts \cup {0} /\ refund[f].fee \in RoutingFees \cup {0} /\ refund[f].seen \in Int
    BY <1>c DEF Payouts
  <2> QED
    BY <2>1, <2>2
<1>m. ASSUME UNCHANGED <<balance, book>>
      PROVE  /\ balance' \in [Users -> Int] /\ book' \in [Users -> [Types -> Nat]]
             /\ BalanceMatchesBook'
  BY <1>t, <1>m DEF TypeOK, BalanceMatchesBook
<1>1. ASSUME NEW a \in Amounts, CheckRefund(f, a) PROVE IInv'
  <2> DEFINE call == [refund[f] EXCEPT !.pc = "checked", !.amount = a, !.seen = balance[UserOf[f]]]
  <2>1. call \in Payouts
    BY <1>1, <1>c DEF Payouts, RefundPc
  <2>2. refund' = [refund EXCEPT ![f] = call]
    BY <1>1, <1>c DEF CheckRefund, Payouts
  <2>3. UNCHANGED rest /\ faults' \in 0..MaxFaults
    BY <1>1, <1>t, Budget DEF CheckRefund, TypeOK
  <2>4. /\ payout' \in [Refunds -> {"none", "flying", "paid", "failed"}]
        /\ \A g \in Refunds : g # f => payout'[g] = payout[g]
    BY <1>1, <1>c DEF CheckRefund
  <2>5. PayoutInv(f)'
    BY <1>1, <1>c, <1>t, <2>2 DEF CheckRefund, PayoutInv, Payouts
  <2>6. UNCHANGED <<balance, book>>
    BY <1>1 DEF CheckRefund, money
  <2> HIDE DEF call
  <2> QED
    BY <2>1, <2>2, <2>3, <2>4, <2>5, <2>6, <1>m, PayoutStep
<1>2. CASE DebitRefund(f) /\ Covers(UserOf[f], refund[f].amount)
  <2> DEFINE call == [refund[f] EXCEPT !.pc = "debited"]
  <2>1. call \in Payouts
    BY <1>2, <1>c DEF Payouts, RefundPc
  <2>2. refund' = [refund EXCEPT ![f] = call]
    BY <1>2, <1>c DEF DebitRefund, Call, Payouts
  <2>3. UNCHANGED rest /\ faults' \in 0..MaxFaults
    BY <1>2, <1>t, Budget DEF DebitRefund, TypeOK
  <2>4. /\ payout' \in [Refunds -> {"none", "flying", "paid", "failed"}]
        /\ \A g \in Refunds : g # f => payout'[g] = payout[g]
    BY <1>2, <1>c DEF DebitRefund
  <2>5. PayoutInv(f)'
    BY <1>2, <1>c, <1>t, <2>2 DEF DebitRefund, PayoutInv, Payouts
  <2>6. ApplyBalanceChange(UserOf[f], "refund", refund[f].amount)
    BY <1>2 DEF DebitRefund
  <2>7. /\ balance' \in [Users -> Int] /\ book' \in [Users -> [Types -> Nat]]
        /\ BalanceMatchesBook'
    BY <1>t, <1>c, <1>a, <2>6, Booked DEF Types
  <2> HIDE DEF call
  <2> QED
    BY <2>1, <2>2, <2>3, <2>4, <2>5, <2>7, PayoutStep
<1>3. CASE DebitRefund(f) /\ ~Covers(UserOf[f], refund[f].amount)
  <2> DEFINE call == [refund[f] EXCEPT !.pc = "refused", !.seen = 0, !.fee = 0]
  <2>1. call \in Payouts
    BY <1>c, Answered DEF RefundPc
  <2>2. refund' = [refund EXCEPT ![f] = call]
    BY <1>3, <1>c DEF DebitRefund, Ends, Payouts
  <2>3. UNCHANGED rest /\ faults' \in 0..MaxFaults
    BY <1>3, <1>t, Budget DEF DebitRefund, TypeOK
  <2>4. /\ payout' \in [Refunds -> {"none", "flying", "paid", "failed"}]
        /\ \A g \in Refunds : g # f => payout'[g] = payout[g]
    BY <1>3, <1>c DEF DebitRefund
  <2>5. PayoutInv(f)'
    BY <1>3, <1>c, <1>t, <2>2 DEF DebitRefund, PayoutInv, Payouts
  <2>6. UNCHANGED <<balance, book>>
    BY <1>3 DEF DebitRefund, money
  <2> HIDE DEF call
  <2> QED
    BY <2>1, <2>2, <2>3, <2>4, <2>5, <2>6, <1>m, PayoutStep
<1>4. CASE SendPayment(f)
  <2> DEFINE call == refund[f]
  <2>1. call \in Payouts
    BY <1>4, <1>c DEF Payouts, RefundPc
  <2>2. refund' = [refund EXCEPT ![f] = call]
    BY <1>4, <1>c DEF SendPayment, Payouts
  <2>3. UNCHANGED rest /\ faults' \in 0..MaxFaults
    BY <1>4, <1>t, Budget DEF SendPayment, TypeOK
  <2>4. /\ payout' \in [Refunds -> {"none", "flying", "paid", "failed"}]
        /\ \A g \in Refunds : g # f => payout'[g] = payout[g]
    BY <1>4, <1>c DEF SendPayment
  <2>5. PayoutInv(f)'
    BY <1>4, <1>c, <1>t, <2>2 DEF SendPayment, PayoutInv, Payouts
  <2>6. UNCHANGED <<balance, book>>
    BY <1>4 DEF SendPayment, money
  <2> HIDE DEF call
  <2> QED
    BY <2>1, <2>2, <2>3, <2>4, <2>5, <2>6, <1>m, PayoutStep
<1>5. CASE LndDecides(f)
  <2> DEFINE call == refund[f]
  <2>1. call \in Payouts
    BY <1>5, <1>c DEF Payouts, RefundPc
  <2>2. refund' = [refund EXCEPT ![f] = call]
    BY <1>5, <1>c DEF LndDecides, Payouts
  <2>3. UNCHANGED rest /\ faults' \in 0..MaxFaults
    BY <1>5, <1>t, Budget DEF LndDecides, TypeOK
  <2>4. /\ payout' \in [Refunds -> {"none", "flying", "paid", "failed"}]
        /\ \A g \in Refunds : g # f => payout'[g] = payout[g]
    BY <1>5, <1>c DEF LndDecides
  <2>5. PayoutInv(f)'
    BY <1>5, <1>c, <1>t, <2>2 DEF LndDecides, PayoutInv, Payouts
  <2>6. UNCHANGED <<balance, book>>
    BY <1>5 DEF LndDecides, money
  <2> HIDE DEF call
  <2> QED
    BY <2>1, <2>2, <2>3, <2>4, <2>5, <2>6, <1>m, PayoutStep
<1>6. ASSUME NEW fee \in RoutingFees, PaymentSucceeds(f, fee) PROVE IInv'
  <2> DEFINE call == [refund[f] EXCEPT !.pc = "paid", !.fee = fee]
  <2>1. call \in Payouts
    BY <1>6, <1>c DEF Payouts, RefundPc
  <2>2. refund' = [refund EXCEPT ![f] = call]
    BY <1>6, <1>c DEF PaymentSucceeds, RouteFee, Payouts
  <2>3. UNCHANGED rest /\ faults' \in 0..MaxFaults
    BY <1>6, <1>t, Budget DEF PaymentSucceeds, TypeOK
  <2>4. /\ payout' \in [Refunds -> {"none", "flying", "paid", "failed"}]
        /\ \A g \in Refunds : g # f => payout'[g] = payout[g]
    BY <1>6, <1>c DEF PaymentSucceeds
  <2>5. PayoutInv(f)'
    BY <1>6, <1>c, <1>t, <2>2 DEF PaymentSucceeds, PayoutInv, Payouts
  <2>6. UNCHANGED <<balance, book>>
    BY <1>6 DEF PaymentSucceeds, money
  <2> HIDE DEF call
  <2> QED
    BY <2>1, <2>2, <2>3, <2>4, <2>5, <2>6, <1>m, PayoutStep
<1>7. CASE PaymentFails(f)
  <2> DEFINE call == [refund[f] EXCEPT !.pc = "unpaid"]
  <2>1. call \in Payouts
    BY <1>7, <1>c DEF Payouts, RefundPc
  <2>2. refund' = [refund EXCEPT ![f] = call]
    BY <1>7, <1>c DEF PaymentFails, Call, Payouts
  <2>3. UNCHANGED rest /\ faults' \in 0..MaxFaults
    BY <1>7, <1>t, Budget DEF PaymentFails, TypeOK
  <2>4. /\ payout' \in [Refunds -> {"none", "flying", "paid", "failed"}]
        /\ \A g \in Refunds : g # f => payout'[g] = payout[g]
    BY <1>7, <1>c DEF PaymentFails
  <2>5. PayoutInv(f)'
    BY <1>7, <1>c, <1>t, <2>2 DEF PaymentFails, PayoutInv, Payouts
  <2>6. UNCHANGED <<balance, book>>
    BY <1>7 DEF PaymentFails, money
  <2> HIDE DEF call
  <2> QED
    BY <2>1, <2>2, <2>3, <2>4, <2>5, <2>6, <1>m, PayoutStep
<1>8. CASE AnswerLost(f)
  <2> DEFINE call == [refund[f] EXCEPT !.pc = "unpaid", !.broke = TRUE]
  <2>1. call \in Payouts
    BY <1>8, <1>c DEF Payouts, RefundPc
  <2>2. refund' = [refund EXCEPT ![f] = call]
    BY <1>8, <1>c DEF AnswerLost, Payouts
  <2>3. UNCHANGED rest /\ faults' \in 0..MaxFaults
    BY <1>8, <1>t, Budget DEF AnswerLost, TypeOK
  <2>4. /\ payout' \in [Refunds -> {"none", "flying", "paid", "failed"}]
        /\ \A g \in Refunds : g # f => payout'[g] = payout[g]
    BY <1>8, <1>c DEF AnswerLost
  <2>5. PayoutInv(f)'
    BY <1>8, <1>c, <1>t, <2>2 DEF AnswerLost, PayoutInv, Payouts
  <2>6. UNCHANGED <<balance, book>>
    BY <1>8, SMTT(40) DEF AnswerLost, money
  <2> HIDE DEF call
  <2> QED
    BY <2>1, <2>2, <2>3, <2>4, <2>5, <2>6, <1>m, PayoutStep
<1>9. CASE DebitFee(f)
  <2> DEFINE call == [refund[f] EXCEPT !.pc = "done", !.seen = 0, !.fee = 0]
  <2>1. call \in Payouts
    BY <1>c, Answered DEF RefundPc
  <2>2. refund' = [refund EXCEPT ![f] = call]
    BY <1>9, <1>c DEF DebitFee, Ends, Payouts
  <2>3. UNCHANGED rest /\ faults' \in 0..MaxFaults
    BY <1>9, <1>t, Budget DEF DebitFee, TypeOK
  <2>4. /\ payout' \in [Refunds -> {"none", "flying", "paid", "failed"}]
        /\ \A g \in Refunds : g # f => payout'[g] = payout[g]
    BY <1>9, <1>c DEF DebitFee
  <2>5. PayoutInv(f)'
    BY <1>9, <1>c, <1>t, <2>2 DEF DebitFee, PayoutInv, Payouts
  <2>6. /\ balance' \in [Users -> Int] /\ book' \in [Users -> [Types -> Nat]]
        /\ BalanceMatchesBook'
    <3>1. CASE ChargedFee(f) > 0 /\ Covers(UserOf[f], ChargedFee(f))
      <4>1. ChargedFee(f) \in Int
        BY <1>a, LeastOfTwo, SMTT(40) DEF ChargedFee
      <4>2. ApplyBalanceChange(UserOf[f], "refund_fee", ChargedFee(f)) /\ ChargedFee(f) \in Nat
        BY <1>9, <3>1, <4>1 DEF DebitFee
      <4> QED
        BY <1>t, <1>c, <4>2, Booked DEF Types
    <3>2. CASE UNCHANGED <<balance, book>>
      BY <3>2, <1>m
    <3> QED
      BY <1>9, <3>1, <3>2 DEF DebitFee, money
  <2> HIDE DEF call
  <2> QED
    BY <2>1, <2>2, <2>3, <2>4, <2>5, <2>6, PayoutStep
<1>10. CASE ReverseRefund(f)
  <2> DEFINE call == [refund[f] EXCEPT !.pc = "reversed", !.seen = 0, !.fee = 0]
  <2>1. call \in Payouts
    BY <1>c, Answered DEF RefundPc
  <2>2. refund' = [refund EXCEPT ![f] = call]
    BY <1>10, <1>c DEF ReverseRefund, Ends, Payouts
  <2>3. UNCHANGED rest /\ faults' \in 0..MaxFaults
    BY <1>10, <1>t, Budget DEF ReverseRefund, TypeOK
  <2>4. /\ payout' \in [Refunds -> {"none", "flying", "paid", "failed"}]
        /\ \A g \in Refunds : g # f => payout'[g] = payout[g]
    BY <1>10, <1>c DEF ReverseRefund
  <2>5. PayoutInv(f)'
    BY <1>10, <1>c, <1>t, <2>2 DEF ReverseRefund, PayoutInv, Payouts
  <2>6. ApplyBalanceChange(UserOf[f], "refund_reversal", refund[f].amount)
    BY <1>10 DEF ReverseRefund
  <2>7. /\ balance' \in [Users -> Int] /\ book' \in [Users -> [Types -> Nat]]
        /\ BalanceMatchesBook'
    BY <1>t, <1>c, <1>a, <2>6, Booked DEF Types
  <2> HIDE DEF call
  <2> QED
    BY <2>1, <2>2, <2>3, <2>4, <2>5, <2>7, PayoutStep
<1>11. CASE RefundDropped(f)
  <2> PICK pc \in {"refused", "done", "gone"} :
        /\ Ends(f, pc)
        /\ pc = "refused" => refund[f].pc = "checked"
        /\ pc = "done" => refund[f].pc = "paid"
    BY <1>11 DEF RefundDropped
  <2> DEFINE call == [refund[f] EXCEPT !.pc = pc, !.seen = 0, !.fee = 0]
  <2>1. call \in Payouts
    BY <1>c, Answered DEF RefundPc
  <2>2. refund' = [refund EXCEPT ![f] = call]
    BY <1>11, <1>c DEF RefundDropped, Ends, Payouts
  <2>3. UNCHANGED rest /\ faults' \in 0..MaxFaults
    BY <1>11, <1>t, Budget DEF RefundDropped, TypeOK
  <2>4. /\ payout' \in [Refunds -> {"none", "flying", "paid", "failed"}]
        /\ \A g \in Refunds : g # f => payout'[g] = payout[g]
    BY <1>11, <1>c DEF RefundDropped
  <2>5. PayoutInv(f)'
    BY <1>11, <1>c, <1>t, <2>2 DEF RefundDropped, PayoutInv, Payouts
  <2>6. UNCHANGED <<balance, book>>
    BY <1>11 DEF RefundDropped, money
  <2> HIDE DEF call
  <2> QED
    BY <2>1, <2>2, <2>3, <2>4, <2>5, <2>6, <1>m, PayoutStep
<1> QED
  BY <1>1, <1>2, <1>3, <1>4, <1>5, <1>6, <1>7, <1>8, <1>9, <1>10, <1>11 DEF Refund

(* Deposits, prices and exemptions.                                        *)
LEMMA AdminIInv ==
  ASSUME IInv,
         \/ \E u \in Users : SetExempt(u) \/ \E a \in Amounts : Credit(u, a)
         \/ \E free \in BOOLEAN, fee \in Fees : SetPrice(free, fee)
  PROVE  IInv'
<1> USE BillingAssumption
<1>1. (\A r \in Requests : CallInv(r))' /\ (\A f \in Refunds : PayoutInv(f))'
  BY DEF IInv, CallInv, StreamedUnpaid, PayoutInv, SetExempt, Credit, SetPrice
<1>2. ASSUME NEW u \in Users, NEW a \in Amounts, Credit(u, a) PROVE TypeOK' /\ BalanceMatchesBook'
  <2>1. /\ balance' \in [Users -> Int] /\ book' \in [Users -> [Types -> Nat]]
        /\ BalanceMatchesBook'
    BY <1>2, Booked DEF Credit, IInv, Types
  <2> QED
    BY <1>2, <2>1 DEF Credit, IInv, TypeOK
<1>3. ASSUME NEW u \in Users, SetExempt(u) PROVE TypeOK' /\ BalanceMatchesBook'
  BY <1>3 DEF SetExempt, IInv, TypeOK, BalanceMatchesBook
<1>4. ASSUME NEW free \in BOOLEAN, NEW fee \in Fees, SetPrice(free, fee)
      PROVE  TypeOK' /\ BalanceMatchesBook'
  BY <1>4 DEF SetPrice, IInv, TypeOK, BalanceMatchesBook
<1> QED
  BY <1>1, <1>2, <1>3, <1>4 DEF IInv

LEMMA InitIInv == Init => IInv
<1> SUFFICES ASSUME Init PROVE IInv
  OBVIOUS
<1> USE BillingAssumption DEF Init
<1>1. TypeOK
  <2>1. price \in [free : BOOLEAN, fee : Fees]
    OBVIOUS
  <2>2. req \in [Requests -> Calls]
    BY <2>1 DEF Calls, ReqPc, Kinds
  <2>3. refund \in [Refunds -> Payouts]
    BY DEF Payouts, RefundPc
  <2>4. book \in [Users -> [Types -> Nat]] /\ balance \in [Users -> Int]
    OBVIOUS
  <2> QED
    BY <2>1, <2>2, <2>3, <2>4 DEF TypeOK, Calls, Payouts
<1>2. BalanceMatchesBook
  BY DEF BalanceMatchesBook, Types
<1>3. (\A r \in Requests : CallInv(r)) /\ (\A f \in Refunds : PayoutInv(f))
  BY DEF CallInv, StreamedUnpaid, PayoutInv
<1> QED
  BY <1>1, <1>2, <1>3 DEF IInv

LEMMA NextIInv == IInv /\ [Next]_vars => IInv'
<1> SUFFICES ASSUME IInv, [Next]_vars PROVE IInv'
  OBVIOUS
<1>1. CASE UNCHANGED vars
  BY <1>1 DEF vars, IInv, TypeOK, BalanceMatchesBook, CallInv, StreamedUnpaid, PayoutInv
<1>2. ASSUME NEW r \in Requests, Request(r) PROVE IInv'
  <2>1. Talks(r) \/ \E usage \in Usages : Charge(r, usage)
    BY <1>2 DEF Request, Talks
  <2> QED
    BY <2>1, TalkIInv, ChargeIInv
<1>3. CASE Next
  BY <1>2, <1>3, AdminIInv, RefundIInv DEF Next
<1> QED
  BY <1>1, <1>3

---------------------------------------------------------------------------
(* The refinement of Wallet.  What is held, lost, paid out and paid twice  *)
(* are sums over sets of payouts, and a step moves one payout from one set *)
(* to another.                                                             *)
Amounts0 == 0..MaxAmount

LEMMA CountIsNat ==
  ASSUME NEW u, NEW payouts \in SUBSET Refunds, NEW amount
  PROVE  Count(u, payouts, amount) \in Nat
<1> DEFINE all == payouts \X (1..MaxAmount)
           coins == {c \in all : UserOf[c[1]] = u /\ c[2] <= amount[c[1]]}
<1>1. IsFiniteSet(payouts) /\ IsFiniteSet(1..MaxAmount)
  BY FS_Subset, FS_Interval, BillingAssumption
<1>2. IsFiniteSet(all)
  BY <1>1, FS_Product
<1>3. coins \in SUBSET all
  OBVIOUS
<1> HIDE DEF all
<1>4. IsFiniteSet(coins)
  BY <1>2, <1>3, FS_Subset
<1>5. Cardinality(coins) \in Nat
  BY <1>4, FS_CardinalityType
<1> QED
  BY <1>5 DEF Count, all

(* One more payout adds its amount to the sum of its user.                 *)
LEMMA CountGrows ==
  ASSUME NEW u, NEW payouts \in SUBSET Refunds, NEW f \in Refunds \ payouts,
         NEW amount \in [Refunds -> Amounts0]
  PROVE  Count(u, payouts \cup {f}, amount) =
           Count(u, payouts, amount) + (IF UserOf[f] = u THEN amount[f] ELSE 0)
<1> DEFINE old == {c \in payouts \X (1..MaxAmount) :
                     UserOf[c[1]] = u /\ c[2] <= amount[c[1]]}
           new == IF UserOf[f] = u THEN {f} \X (1..amount[f]) ELSE {}
           both == {c \in (payouts \cup {f}) \X (1..MaxAmount) :
                      UserOf[c[1]] = u /\ c[2] <= amount[c[1]]}
           more == IF UserOf[f] = u THEN amount[f] ELSE 0
<1>1. IsFiniteSet(old)
  <2>1. IsFiniteSet(payouts) /\ IsFiniteSet(1..MaxAmount)
    BY FS_Subset, FS_Interval, BillingAssumption
  <2>2. IsFiniteSet(payouts \X (1..MaxAmount))
    BY <2>1, FS_Product
  <2> QED
    BY <2>2, FS_Subset
<1>2. amount[f] \in Nat /\ amount[f] <= MaxAmount /\ more \in Nat
  BY BillingAssumption DEF Amounts0
<1>3. IsFiniteSet(new) /\ Cardinality(new) = more
  <2>1. IsFiniteSet({f}) /\ Cardinality({f}) = 1
    BY FS_Singleton
  <2>2. IsFiniteSet(1..amount[f]) /\ Cardinality(1..amount[f]) = amount[f]
    BY <1>2, FS_Interval
  <2>3. /\ IsFiniteSet({f} \X (1..amount[f]))
        /\ Cardinality({f} \X (1..amount[f])) = 1 * amount[f]
    BY <2>1, <2>2, FS_Product
  <2> QED
    BY <2>3, <1>2, FS_EmptySet
<1>4. both = old \cup new
  BY <1>2, BillingAssumption
<1>5. old \cap new = {}
  OBVIOUS
<1>c. Count(u, payouts \cup {f}, amount) = Cardinality(both) /\ Count(u, payouts, amount) = Cardinality(old)
  BY DEF Count
<1> HIDE DEF old, new, both, more
<1>6. Cardinality(old \cup new) = Cardinality(old) + Cardinality(new) - Cardinality(old \cap new)
  BY <1>1, <1>3, FS_Union
<1>7. Cardinality(old) \in Nat /\ Cardinality(old \cap new) = 0
  BY <1>1, <1>5, FS_CardinalityType, FS_EmptySet
<1>8. Cardinality(both) = Cardinality(old) + more
  BY <1>2, <1>3, <1>4, <1>6, <1>7
<1> QED
  BY <1>8, <1>c DEF more

(* The sum looks at no other amounts than those of its payouts.            *)
LEMMA CountAgrees ==
  ASSUME NEW u, NEW payouts \in SUBSET Refunds, NEW amount, NEW now,
         \A g \in payouts : now[g] = amount[g]
  PROVE  Count(u, payouts, now) = Count(u, payouts, amount)
<1> DEFINE in(values) == {c \in payouts \X (1..MaxAmount) :
                            UserOf[c[1]] = u /\ c[2] <= values[c[1]]}
<1>1. in(now) = in(amount)
  OBVIOUS
<1> QED
  BY <1>1 DEF Count

LEMMA TotalType ==
  ASSUME NEW S \in SUBSET Refunds, NEW amount
  PROVE  Total(S, amount) \in [Users -> Nat]
BY CountIsNat DEF Total

Plus(account, u, a) == [account EXCEPT ![u] = @ + a]
Minus(account, u, a) == [account EXCEPT ![u] = @ - a]

(* A payout enters a set: its amount is added to the total of its user.    *)
LEMMA Enters ==
  ASSUME NEW S \in SUBSET Refunds, NEW f \in Refunds \ S, UserOf[f] \in Users,
         NEW amount, NEW now \in [Refunds -> Amounts0],
         \A g \in S : now[g] = amount[g]
  PROVE  Total(S \cup {f}, now) = Plus(Total(S, amount), UserOf[f], now[f])
<1>1. ASSUME NEW u \in Users
      PROVE  /\ Count(u, S \cup {f}, now) =
                  Count(u, S, amount) + (IF UserOf[f] = u THEN now[f] ELSE 0)
             /\ Count(u, S, amount) \in Nat
  <2>1. Count(u, S, now) = Count(u, S, amount)
    BY CountAgrees
  <2>2. Count(u, S \cup {f}, now) = Count(u, S, now) + (IF UserOf[f] = u THEN now[f] ELSE 0)
    BY CountGrows
  <2> QED
    BY <2>1, <2>2, CountIsNat
<1>2. now[f] \in Nat
  BY BillingAssumption DEF Amounts0
<1> QED
  BY <1>1, <1>2 DEF Total, Plus

(* A payout leaves a set: its amount, no more than the total was, is taken *)
(* from the total of its user.                                             *)
LEMMA Exits ==
  ASSUME NEW S \in SUBSET Refunds, NEW f \in Refunds \ S, UserOf[f] \in Users,
         NEW all, all = S \cup {f},
         NEW amount \in [Refunds -> Amounts0], NEW now,
         \A g \in S : now[g] = amount[g]
  PROVE  /\ Total(S, now) = Minus(Total(all, amount), UserOf[f], amount[f])
         /\ amount[f] <= Total(all, amount)[UserOf[f]]
<1>1. ASSUME NEW u \in Users
      PROVE  /\ Count(u, S \cup {f}, amount) =
                  Count(u, S, now) + (IF UserOf[f] = u THEN amount[f] ELSE 0)
             /\ Count(u, S, now) \in Nat
  <2>1. Count(u, S, now) = Count(u, S, amount)
    BY CountAgrees
  <2>2. Count(u, S \cup {f}, amount) = Count(u, S, amount) + (IF UserOf[f] = u THEN amount[f] ELSE 0)
    BY CountGrows
  <2> QED
    BY <2>1, <2>2, CountIsNat
<1>2. amount[f] \in Nat
  BY BillingAssumption DEF Amounts0
<1>3. ASSUME NEW u \in Users
      PROVE  /\ Count(u, S, now) =
                  Count(u, S \cup {f}, amount) - (IF UserOf[f] = u THEN amount[f] ELSE 0)
             /\ UserOf[f] = u => amount[f] <= Count(u, S \cup {f}, amount)
  <2> DEFINE before == Count(u, S \cup {f}, amount)
             after == Count(u, S, now)
  <2>1. /\ before = after + (IF UserOf[f] = u THEN amount[f] ELSE 0)
        /\ after \in Nat
    BY <1>1
  <2> HIDE DEF before, after
  <2>2. /\ after = before - (IF UserOf[f] = u THEN amount[f] ELSE 0)
        /\ UserOf[f] = u => amount[f] <= before
    BY <2>1, <1>2
  <2> QED
    BY <2>2 DEF before, after
<1> DEFINE held == Total(all, amount)
           left == Total(S, now)
<1>4. /\ held = [u \in Users |-> held[u]] /\ left = [u \in Users |-> left[u]]
      /\ \A u \in Users : held[u] = Count(u, S \cup {f}, amount) /\ left[u] = Count(u, S, now)
  BY DEF Total
<1> HIDE DEF held, left
<1>5. \A u \in Users : /\ left[u] = held[u] - (IF UserOf[f] = u THEN amount[f] ELSE 0)
                       /\ held[u] \in Nat
                       /\ UserOf[f] = u => amount[f] <= held[u]
  <2> SUFFICES ASSUME NEW u \in Users
               PROVE  /\ left[u] = held[u] - (IF UserOf[f] = u THEN amount[f] ELSE 0)
                      /\ held[u] \in Nat
                      /\ UserOf[f] = u => amount[f] <= held[u]
    OBVIOUS
  <2>1. held[u] \in Nat
    BY <1>4, CountIsNat
  <2> QED
    BY <1>3, <1>4, <2>1
<1>6. left = Minus(held, UserOf[f], amount[f]) /\ amount[f] <= held[UserOf[f]]
  BY <1>2, <1>4, <1>5 DEF Minus
<1> QED
  BY <1>6 DEF held, left

(* Payouts whose amounts stay keep their total.                            *)
LEMMA Stays ==
  ASSUME NEW S \in SUBSET Refunds, NEW amount, NEW now, \A g \in S : now[g] = amount[g]
  PROVE  Total(S, now) = Total(S, amount)
BY CountAgrees DEF Total

(* How the total of a set follows one payout in and out of it.             *)
LEMMA Follows ==
  ASSUME NEW f \in Refunds, UserOf[f] \in Users,
         NEW S \in SUBSET Refunds, NEW T \in SUBSET Refunds, S \ {f} = T \ {f},
         NEW amount \in [Refunds -> Amounts0], NEW now \in [Refunds -> Amounts0],
         \A g \in Refunds \ {f} : now[g] = amount[g],
         f \in S \cup T => now[f] = amount[f]
  PROVE  /\ (f \in S <=> f \in T) => Total(T, now) = Total(S, amount)
         /\ f \notin S /\ f \in T =>
              Total(T, now) = Plus(Total(S, amount), UserOf[f], amount[f])
         /\ f \in S /\ f \notin T =>
              /\ Total(T, now) = Minus(Total(S, amount), UserOf[f], amount[f])
              /\ amount[f] <= Total(S, amount)[UserOf[f]]
<1>1. CASE f \in S <=> f \in T
  <2>1. S = T
    BY <1>1
  <2>2. Total(S, now) = Total(S, amount)
    BY Stays
  <2> QED
    BY <1>1, <2>1, <2>2
<1>2. CASE f \notin S /\ f \in T
  <2>1. T = S \cup {f}
    BY <1>2
  <2>2. Total(S \cup {f}, now) = Plus(Total(S, amount), UserOf[f], now[f])
    BY <1>2, Enters
  <2> QED
    BY <1>2, <2>1, <2>2
<1>3. CASE f \in S /\ f \notin T
  <2>1. S = T \cup {f}
    BY <1>3
  <2>2. \A g \in T : now[g] = amount[g]
    BY <1>3
  <2>3. f \in Refunds \ T
    BY <1>3
  <2> QED
    BY <1>3, <2>1, <2>2, <2>3, Exits
<1> QED
  BY <1>1, <1>2, <1>3

(* No more than MaxAmount is moved at once.                                *)
LEMMA AmountBound == ASSUME TypeOK, NEW a \in Amounts PROVE a \in 1..MaxAmount
<1>1. price.fee \in Fees
  BY DEF TypeOK
<1>2. a \in Nat /\ a # 0 /\ price.fee \in Nat /\ a + price.fee <= MaxAmount /\ MaxAmount \in Nat
  BY <1>1, BillingAssumption
<1> QED
  BY <1>2

AskedOK == Asked \in [Refunds -> Amounts0]

LEMMA AskedType == TypeOK => AskedOK
<1> SUFFICES ASSUME TypeOK, NEW f \in Refunds PROVE refund[f].amount \in Amounts0
  BY DEF Asked, AskedOK
<1>1. refund[f].amount \in Amounts \cup {0}
  BY DEF TypeOK
<1>2. CASE refund[f].amount \in Amounts
  <2>1. refund[f].amount \in 1..MaxAmount
    BY <1>2, AmountBound
  <2> QED
    BY <2>1, BillingAssumption DEF Amounts0
<1>3. CASE refund[f].amount = 0
  BY <1>3, BillingAssumption DEF Amounts0
<1> QED
  BY <1>1, <1>2, <1>3

PaidOut == Total(DonePayouts, Asked)
Twice == Total(DoublePayouts, Asked)

(* A step of refund f: every total follows f alone.                        *)
LEMMA Totals ==
  ASSUME TypeOK, TypeOK', NEW f \in Refunds,
         \A g \in Refunds \ {f} : refund'[g] = refund[g] /\ payout'[g] = payout[g],
         refund'[f].amount = refund[f].amount
  PROVE  LET u == UserOf[f]
             a == refund[f].amount
         IN  /\ (f \in OpenPayouts <=> f \in OpenPayouts') => Held' = Held
             /\ f \notin OpenPayouts /\ f \in OpenPayouts' => Held' = Plus(Held, u, a)
             /\ f \in OpenPayouts /\ f \notin OpenPayouts' =>
                  Held' = Minus(Held, u, a) /\ a <= Held[u]
             /\ (f \in LostPayouts <=> f \in LostPayouts') => Lost' = Lost
             /\ f \notin LostPayouts /\ f \in LostPayouts' => Lost' = Plus(Lost, u, a)
             /\ (f \in DonePayouts <=> f \in DonePayouts') => PaidOut' = PaidOut
             /\ f \notin DonePayouts /\ f \in DonePayouts' => PaidOut' = Plus(PaidOut, u, a)
             /\ (f \in DoublePayouts <=> f \in DoublePayouts') => Twice' = Twice
             /\ f \notin DoublePayouts /\ f \in DoublePayouts' => Twice' = Plus(Twice, u, a)
<1>0. TypeOK' => AskedOK'
  BY AskedType, PTL
<1>1. Asked \in [Refunds -> Amounts0] /\ Asked' \in [Refunds -> Amounts0]
  BY <1>0, AskedType DEF AskedOK
<1>2. Asked[f] = refund[f].amount /\ \A g \in Refunds : Asked'[g] = Asked[g]
  BY DEF Asked
<1>3. UserOf[f] \in Users
  BY BillingAssumption
<1>4. /\ OpenPayouts \in SUBSET Refunds /\ OpenPayouts' \in SUBSET Refunds
      /\ OpenPayouts \ {f} = OpenPayouts' \ {f}
  BY DEF OpenPayouts
<1>5. /\ LostPayouts \in SUBSET Refunds /\ LostPayouts' \in SUBSET Refunds
      /\ LostPayouts \ {f} = LostPayouts' \ {f}
  BY DEF LostPayouts
<1>6. /\ DonePayouts \in SUBSET Refunds /\ DonePayouts' \in SUBSET Refunds
      /\ DonePayouts \ {f} = DonePayouts' \ {f}
  BY DEF DonePayouts
<1>7. /\ DoublePayouts \in SUBSET Refunds /\ DoublePayouts' \in SUBSET Refunds
      /\ DoublePayouts \ {f} = DoublePayouts' \ {f}
  BY <1>6 DEF DoublePayouts
<1> USE DEF Held, Lost, PaidOut, Twice
<1>8. /\ (f \in OpenPayouts <=> f \in OpenPayouts') => Held' = Held
      /\ f \notin OpenPayouts /\ f \in OpenPayouts' =>
           Held' = Plus(Held, UserOf[f], refund[f].amount)
      /\ f \in OpenPayouts /\ f \notin OpenPayouts' =>
           /\ Held' = Minus(Held, UserOf[f], refund[f].amount)
           /\ refund[f].amount <= Held[UserOf[f]]
  BY <1>1, <1>2, <1>3, <1>4, Follows
<1>9. /\ (f \in LostPayouts <=> f \in LostPayouts') => Lost' = Lost
      /\ f \notin LostPayouts /\ f \in LostPayouts' =>
           Lost' = Plus(Lost, UserOf[f], refund[f].amount)
  BY <1>1, <1>2, <1>3, <1>5, Follows
<1>10. /\ (f \in DonePayouts <=> f \in DonePayouts') => PaidOut' = PaidOut
       /\ f \notin DonePayouts /\ f \in DonePayouts' =>
            PaidOut' = Plus(PaidOut, UserOf[f], refund[f].amount)
  BY <1>1, <1>2, <1>3, <1>6, Follows
<1>11. /\ (f \in DoublePayouts <=> f \in DoublePayouts') => Twice' = Twice
       /\ f \notin DoublePayouts /\ f \in DoublePayouts' =>
            Twice' = Plus(Twice, UserOf[f], refund[f].amount)
  BY <1>1, <1>2, <1>3, <1>7, Follows
<1> QED
  BY <1>8, <1>9, <1>10, <1>11

(* What a user was paid and what the house lost by it follow the totals.   *)
LEMMA AccountsFollow ==
  ASSUME TypeOK, NEW u \in Users, NEW a \in Nat
  PROVE  /\ PaidOut' = PaidOut /\ UNCHANGED book => Out' = Out
         /\ PaidOut' = Plus(PaidOut, u, a) /\ UNCHANGED book => Out' = Plus(Out, u, a)
         /\ PaidOut' = PaidOut
              /\ InBook("refund_fee")' = Plus(InBook("refund_fee"), u, a) => Out' = Plus(Out, u, a)
         /\ Twice' = Twice => House' = House
         /\ Twice' = Plus(Twice, u, a) => House' = Minus(House, u, a)
<1> DEFINE fees == InBook("refund_fee")
<1>1. PaidOut \in [Users -> Nat] /\ Twice \in [Users -> Nat]
  BY TotalType DEF PaidOut, Twice, DonePayouts, DoublePayouts
<1>2. fees \in [Users -> Nat] /\ (UNCHANGED book => fees' = fees)
  BY DEF TypeOK, InBook, Types
<1>3. /\ Out = [v \in Users |-> PaidOut[v] + fees[v]]
      /\ Out' = [v \in Users |-> PaidOut'[v] + fees'[v]]
      /\ House = [v \in Users |-> -Twice[v]] /\ House' = [v \in Users |-> -Twice'[v]]
  BY DEF Out, House, PaidOut, Twice
<1> HIDE DEF fees
<1>4. PaidOut' = PaidOut /\ fees' = fees => Out' = Out
  BY <1>3
<1>5. PaidOut' = Plus(PaidOut, u, a) /\ fees' = fees => Out' = Plus(Out, u, a)
  BY <1>1, <1>2, <1>3 DEF Plus
<1>6. PaidOut' = PaidOut /\ fees' = Plus(fees, u, a) => Out' = Plus(Out, u, a)
  BY <1>1, <1>2, <1>3 DEF Plus
<1>7. Twice' = Twice => House' = House
  BY <1>3
<1>8. Twice' = Plus(Twice, u, a) => House' = Minus(House, u, a)
  BY <1>1, <1>3 DEF Plus, Minus
<1> QED
  BY <1>2, <1>4, <1>5, <1>6, <1>7, <1>8 DEF fees

(* apply_balance_change adds to one column of the ledger.                  *)
LEMMA BooksFollow ==
  ASSUME TypeOK, NEW u \in Users, NEW type \in Types, NEW a \in Nat,
         ApplyBalanceChange(u, type, a)
  PROVE  /\ InBook(type)' = Plus(InBook(type), u, a)
         /\ \A t \in Types \ {type} : InBook(t)' = InBook(t)
         /\ balance' = IF type \in {"deposit", "refund_reversal"}
                       THEN Plus(balance, u, a) ELSE Minus(balance, u, a)
<1>1. book \in [Users -> [Types -> Nat]] /\ balance \in [Users -> Int]
  BY DEF TypeOK
<1>2. \A v \in Users, t \in Types :
        book'[v][t] = IF v = u /\ t = type THEN book[v][t] + a ELSE book[v][t]
  BY <1>1 DEF ApplyBalanceChange
<1>3. InBook(type)' = Plus(InBook(type), u, a)
  BY <1>2 DEF InBook, Plus
<1>4. \A t \in Types \ {type} : InBook(t)' = InBook(t)
  BY <1>2 DEF InBook
<1>5. balance' = IF type \in {"deposit", "refund_reversal"}
                 THEN Plus(balance, u, a) ELSE Minus(balance, u, a)
  BY <1>1 DEF ApplyBalanceChange, Signed, Plus, Minus
<1> QED
  BY <1>3, <1>4, <1>5

(* A move of the wallet, named by the accounts that it changes.            *)
LEMMA WalletMoves ==
  ASSUME NEW u \in Users, NEW a \in 1..MaxAmount,
         \/ W!Deposit(u, a) \/ W!Charge(u, a) \/ W!Hold(u, a) \/ W!PayOut(u, a)
         \/ W!PayFee(u, a) \/ W!GiveBack(u, a) \/ W!Lose(u, a)
         \/ W!GiveBackAgain(u, a) \/ W!PayOutAgain(u, a)
  PROVE  [W!WNext]_(W!wallet)
BY DEF W!WNext

(* A charge, a deposit, and the steps that move nothing.                   *)
LEMMA OthersRefine ==
  ASSUME TypeOK, UNCHANGED <<refund, payout>>,
         \/ UNCHANGED <<balance, book>>
         \/ \E u \in Users, a \in Nat, type \in {"deposit", "usage"} :
              a \in 1..MaxAmount /\ ApplyBalanceChange(u, type, a)
  PROVE  [W!WNext]_(W!wallet)
<1>1. UNCHANGED <<Held, Lost, PaidOut, Twice, House>>
  BY DEF Held, Lost, PaidOut, Twice, House, Total, Asked,
         OpenPayouts, LostPayouts, DonePayouts, DoublePayouts
<1>2. CASE UNCHANGED <<balance, book>>
  BY <1>1, <1>2 DEF W!wallet, Deposited, Spent, InBook, Out, PaidOut
<1>3. ASSUME NEW u \in Users, NEW a \in 1..MaxAmount, ApplyBalanceChange(u, "deposit", a)
      PROVE  [W!WNext]_(W!wallet)
  <2>1. a \in Nat /\ "deposit" \in Types /\ {"usage", "refund_fee"} \subseteq Types \ {"deposit"}
    BY DEF Types
  <2>2. /\ InBook("deposit")' = Plus(InBook("deposit"), u, a)
        /\ InBook("usage")' = InBook("usage") /\ InBook("refund_fee")' = InBook("refund_fee")
        /\ balance' = Plus(balance, u, a)
    BY <1>3, <2>1, BooksFollow
  <2>3. Out' = Out
    BY <1>1, <2>2 DEF Out, PaidOut
  <2>4. W!Deposit(u, a)
    BY <1>1, <2>2, <2>3 DEF W!Deposit, Deposited, Spent, Plus
  <2> QED
    BY <2>4, WalletMoves
<1>4. ASSUME NEW u \in Users, NEW a \in 1..MaxAmount, ApplyBalanceChange(u, "usage", a)
      PROVE  [W!WNext]_(W!wallet)
  <2>1. a \in Nat /\ "usage" \in Types /\ {"deposit", "refund_fee"} \subseteq Types \ {"usage"}
    BY DEF Types
  <2>2. /\ InBook("usage")' = Plus(InBook("usage"), u, a)
        /\ InBook("deposit")' = InBook("deposit") /\ InBook("refund_fee")' = InBook("refund_fee")
        /\ balance' = Minus(balance, u, a)
    BY <1>4, <2>1, BooksFollow
  <2>3. Out' = Out
    BY <1>1, <2>2 DEF Out, PaidOut
  <2>4. W!Charge(u, a)
    BY <1>1, <2>2, <2>3 DEF W!Charge, W!Moves, Deposited, Spent, Plus, Minus
  <2> QED
    BY <2>4, WalletMoves
<1> QED
  BY <1>2, <1>3, <1>4

(* A refund whose amount is checked is in none of the sums.                *)
LEMMA CheckRefines ==
  ASSUME IInv, NEW f \in Refunds, NEW b \in Amounts, CheckRefund(f, b)
  PROVE  [W!WNext]_(W!wallet)
<1>1. /\ refund[f].pc = "idle" /\ refund'[f].pc = "checked" /\ payout' = payout
      /\ payout[f] = "none"
      /\ \A g \in Refunds \ {f} : refund'[g] = refund[g]
      /\ UNCHANGED <<balance, book>>
  BY DEF CheckRefund, IInv, TypeOK, PayoutInv, money
<1>2. /\ OpenPayouts \in SUBSET (Refunds \ {f}) /\ OpenPayouts' = OpenPayouts
      /\ LostPayouts \in SUBSET (Refunds \ {f}) /\ LostPayouts' = LostPayouts
      /\ DonePayouts \in SUBSET (Refunds \ {f}) /\ DonePayouts' = DonePayouts
      /\ DoublePayouts \in SUBSET (Refunds \ {f}) /\ DoublePayouts' = DoublePayouts
  BY <1>1 DEF OpenPayouts, LostPayouts, DonePayouts, DoublePayouts
<1>3. \A g \in Refunds \ {f} : Asked'[g] = Asked[g]
  BY <1>1 DEF Asked
<1>4. ASSUME NEW S \in SUBSET (Refunds \ {f}) PROVE Total(S, Asked') = Total(S, Asked)
  BY <1>3, Stays
<1>5. UNCHANGED <<Held, Lost, PaidOut, Twice>>
  BY <1>2, <1>4 DEF Held, Lost, PaidOut, Twice
<1>6. UNCHANGED <<Out, House, Deposited, Spent>>
  BY <1>1, <1>5 DEF Out, House, Deposited, Spent, InBook, PaidOut, Twice
<1> QED
  BY <1>1, <1>5, <1>6 DEF W!wallet

(* LND's own steps and those of a handler that has debited its refund.     *)
Frame(f) ==
  /\ refund[f].pc # "idle"
  /\ refund'[f].amount = refund[f].amount
  /\ \A g \in Refunds \ {f} : refund'[g] = refund[g] /\ payout'[g] = payout[g]

LEMMA RefundFrame ==
  ASSUME TypeOK, NEW f \in Refunds, PayoutInv(f),
         \/ DebitRefund(f) \/ SendPayment(f) \/ LndDecides(f)
         \/ \E fee \in RoutingFees : PaymentSucceeds(f, fee)
         \/ PaymentFails(f) \/ AnswerLost(f) \/ DebitFee(f) \/ ReverseRefund(f)
         \/ RefundDropped(f)
  PROVE  Frame(f)
<1>1. refund \in [Refunds -> Payouts]
  BY DEF TypeOK, Payouts
<1>2. CASE \/ DebitRefund(f) \/ DebitFee(f) \/ ReverseRefund(f) \/ RefundDropped(f)
  <2>1. payout' = payout /\ refund[f].pc # "idle"
    BY <1>2 DEF DebitRefund, DebitFee, ReverseRefund, RefundDropped
  <2>2. \E pc : Call(f, pc) \/ Ends(f, pc)
    BY <1>2 DEF DebitRefund, DebitFee, ReverseRefund, RefundDropped
  <2> QED
    BY <1>1, <2>1, <2>2 DEF Call, Ends, Frame, Payouts
<1>3. CASE SendPayment(f) \/ LndDecides(f)
  BY <1>3 DEF SendPayment, LndDecides, Frame, TypeOK, PayoutInv
<1>4. CASE \/ \E fee \in RoutingFees : PaymentSucceeds(f, fee)
           \/ PaymentFails(f) \/ AnswerLost(f)
  BY <1>1, <1>4 DEF PaymentSucceeds, PaymentFails, AnswerLost, Call, Frame, Payouts
<1> QED
  BY <1>2, <1>3, <1>4

(* Every step of a refund is a move of its amount or of its fee.           *)
LEMMA RefundRefines ==
  ASSUME IInv, IInv', NEW f \in Refunds, Refund(f)
  PROVE  [W!WNext]_(W!wallet)
<1> PICK u, a : u = UserOf[f] /\ a = refund[f].amount
  OBVIOUS
<1>t. TypeOK /\ TypeOK' /\ PayoutInv(f) /\ u \in Users
  BY BillingAssumption DEF IInv
<1>c. /\ refund \in [Refunds -> Payouts] /\ payout \in [Refunds -> {"none", "flying", "paid", "failed"}]
      /\ balance \in [Users -> Int]
  BY <1>t DEF TypeOK, Payouts
<1>f. ASSUME Frame(f)
      PROVE  /\ (f \in OpenPayouts <=> f \in OpenPayouts') => Held' = Held
             /\ f \notin OpenPayouts /\ f \in OpenPayouts' => Held' = Plus(Held, u, a)
             /\ f \in OpenPayouts /\ f \notin OpenPayouts' =>
                  Held' = Minus(Held, u, a) /\ a <= Held[u]
             /\ (f \in LostPayouts <=> f \in LostPayouts') => Lost' = Lost
             /\ f \notin LostPayouts /\ f \in LostPayouts' => Lost' = Plus(Lost, u, a)
             /\ (f \in DonePayouts <=> f \in DonePayouts') => PaidOut' = PaidOut
             /\ f \notin DonePayouts /\ f \in DonePayouts' => PaidOut' = Plus(PaidOut, u, a)
             /\ (f \in DoublePayouts <=> f \in DoublePayouts') => Twice' = Twice
             /\ f \notin DoublePayouts /\ f \in DoublePayouts' => Twice' = Plus(Twice, u, a)
  BY <1>f, <1>t, Totals DEF Frame
<1>a. Frame(f) => a \in 1..MaxAmount /\ a \in Nat
  <2> SUFFICES ASSUME Frame(f) PROVE a \in 1..MaxAmount
    BY BillingAssumption
  <2>1. a \in Amounts
    BY <1>t DEF Frame, PayoutInv
  <2> QED
    BY <1>t, <2>1, AmountBound
<1>p. /\ payout[f] = "paid" <=> f \in DonePayouts
      /\ payout'[f] = "paid" <=> f \in DonePayouts'
      /\ payout[f] = "paid" /\ refund[f].pc = "reversed" <=> f \in DoublePayouts
      /\ payout'[f] = "paid" /\ refund'[f].pc = "reversed" <=> f \in DoublePayouts'
      /\ refund[f].pc = "gone" /\ payout[f] \in {"none", "failed"} <=> f \in LostPayouts
      /\ refund'[f].pc = "gone" /\ payout'[f] \in {"none", "failed"} <=> f \in LostPayouts'
      /\ (\/ refund[f].pc \in {"debited", "unpaid"} /\ payout[f] # "paid"
          \/ refund[f].pc = "gone" /\ payout[f] = "flying") <=> f \in OpenPayouts
      /\ (\/ refund'[f].pc \in {"debited", "unpaid"} /\ payout'[f] # "paid"
          \/ refund'[f].pc = "gone" /\ payout'[f] = "flying") <=> f \in OpenPayouts'
  BY DEF OpenPayouts, LostPayouts, DonePayouts, DoublePayouts
<1>b. ASSUME UNCHANGED <<balance, book>>
      PROVE  UNCHANGED <<balance, Deposited, Spent>> /\ UNCHANGED book
  BY <1>b DEF Deposited, Spent, InBook
<1>s. ASSUME UNCHANGED <<balance, book>>, Held' = Held, Lost' = Lost,
             PaidOut' = PaidOut, Twice' = Twice
      PROVE  [W!WNext]_(W!wallet)
  <2>1. Out' = Out /\ House' = House
    BY <1>s DEF Out, House, PaidOut, Twice, InBook
  <2> QED
    BY <1>s, <1>b, <2>1 DEF W!wallet
<1>1. CASE \E b \in Amounts : CheckRefund(f, b)
  BY <1>1, CheckRefines
<1>2. CASE DebitRefund(f)
  <2>1. Frame(f)
    BY <1>2, <1>t, RefundFrame
  <2>2. CASE Covers(UserOf[f], refund[f].amount)
    <3>1. ApplyBalanceChange(u, "refund", a) /\ a <= balance[u]
      BY <1>2, <2>2, <1>c, <1>a, <2>1 DEF DebitRefund, Covers
    <3>2. /\ refund[f].pc = "checked" /\ refund'[f].pc = "debited"
          /\ payout[f] = "none" /\ payout'[f] = payout[f]
      BY <1>2, <1>t, <1>c, <2>2 DEF DebitRefund, Call, PayoutInv, Payouts
    <3>3. Held' = Plus(Held, u, a) /\ Lost' = Lost /\ PaidOut' = PaidOut /\ Twice' = Twice
      BY <3>2, <2>1, <1>f, <1>p
    <3>4. "refund" \in Types /\ {"deposit", "usage", "refund_fee"} \subseteq Types \ {"refund"}
      BY DEF Types
    <3>5. /\ InBook("deposit")' = InBook("deposit") /\ InBook("usage")' = InBook("usage")
          /\ InBook("refund_fee")' = InBook("refund_fee")
          /\ balance' = Minus(balance, u, a)
      BY <3>1, <3>4, <1>t, <1>a, <2>1, BooksFollow
    <3>6. Out' = Out /\ House' = House
      BY <3>3, <3>5 DEF Out, House, PaidOut, Twice
    <3>7. W!Hold(u, a)
      BY <3>1, <3>3, <3>5, <3>6 DEF W!Hold, W!Moves, Deposited, Spent, Plus, Minus
    <3> QED
      BY <3>7, <1>t, <1>a, <2>1, WalletMoves
  <2>3. CASE ~Covers(UserOf[f], refund[f].amount)
    <3>1. /\ refund[f].pc = "checked" /\ refund'[f].pc = "refused"
          /\ payout[f] = "none" /\ payout'[f] = payout[f]
          /\ UNCHANGED <<balance, book>>
      BY <1>2, <1>t, <1>c, <2>3 DEF DebitRefund, Ends, PayoutInv, Payouts, money
    <3>2. Held' = Held /\ Lost' = Lost /\ PaidOut' = PaidOut /\ Twice' = Twice
      BY <3>1, <2>1, <1>f, <1>p
    <3> QED
      BY <3>1, <3>2, <1>s
  <2> QED
    BY <2>2, <2>3
<1>3. CASE SendPayment(f) \/ (\E fee \in RoutingFees : PaymentSucceeds(f, fee)) \/ PaymentFails(f)
  <2>1. Frame(f)
    BY <1>3, <1>t, RefundFrame
  <2>2. /\ refund[f].pc = "debited" /\ UNCHANGED <<balance, book>>
        /\ \/ refund'[f].pc = "debited" /\ payout[f] = "none" /\ payout'[f] = "flying"
           \/ refund'[f].pc = "paid" /\ payout[f] = "paid" /\ payout'[f] = "paid"
           \/ refund'[f].pc = "unpaid" /\ payout[f] = "failed" /\ payout'[f] = "failed"
    BY <1>3, <1>c DEF SendPayment, PaymentSucceeds, PaymentFails, Call, Payouts, money
  <2>3. Held' = Held /\ Lost' = Lost /\ PaidOut' = PaidOut /\ Twice' = Twice
    BY <2>2, <2>1, <1>f, <1>p
  <2> QED
    BY <2>2, <2>3, <1>s
<1>4. CASE AnswerLost(f)
  <2>1. Frame(f)
    BY <1>4, <1>t, RefundFrame
  <2>2. /\ refund[f].pc = "debited" /\ refund'[f].pc = "unpaid" /\ payout'[f] = payout[f]
        /\ UNCHANGED <<balance, book>>
    BY <1>4, <1>c DEF AnswerLost, Payouts, money
  <2>3. Held' = Held /\ Lost' = Lost /\ PaidOut' = PaidOut /\ Twice' = Twice
    BY <2>2, <2>1, <1>f, <1>p
  <2> QED
    BY <2>2, <2>3, <1>s
<1>5. CASE LndDecides(f)
  <2>1. Frame(f)
    BY <1>5, <1>t, RefundFrame
  <2>2. /\ payout[f] = "flying" /\ payout'[f] \in {"paid", "failed"}
        /\ refund' = refund /\ UNCHANGED <<balance, book>>
        /\ refund[f].pc \in {"debited", "unpaid", "gone", "reversed"}
    <3>1. refund[f].pc \in RefundPc
      BY <1>c DEF Payouts
    <3> QED
      BY <3>1, <1>5, <1>c, <1>t DEF LndDecides, PayoutInv, RefundPc, money
  <2>3. CASE payout'[f] = "paid" /\ refund[f].pc # "reversed"
    <3>1. /\ Held' = Minus(Held, u, a) /\ a <= Held[u] /\ Lost' = Lost
          /\ PaidOut' = Plus(PaidOut, u, a) /\ Twice' = Twice
      BY <2>1, <2>2, <2>3, <1>f, <1>p
    <3>2. Out' = Plus(Out, u, a) /\ House' = House
      BY <3>1, <2>1, <2>2, <1>t, <1>a, <1>b, AccountsFollow
    <3>3. W!PayOut(u, a)
      BY <3>1, <3>2, <2>2, <1>b DEF W!PayOut, W!Moves, Plus, Minus
    <3> QED
      BY <3>3, <1>t, <1>a, <2>1, WalletMoves
  <2>4. CASE payout'[f] = "paid" /\ refund[f].pc = "reversed"
    <3>1. /\ Held' = Held /\ Lost' = Lost
          /\ PaidOut' = Plus(PaidOut, u, a) /\ Twice' = Plus(Twice, u, a)
      BY <2>1, <2>2, <2>4, <1>f, <1>p
    <3>2. Out' = Plus(Out, u, a) /\ House' = Minus(House, u, a)
      BY <3>1, <2>1, <2>2, <1>t, <1>a, <1>b, AccountsFollow
    <3>3. W!PayOutAgain(u, a)
      BY <3>1, <3>2, <2>2, <1>b DEF W!PayOutAgain, W!Moves, Plus, Minus
    <3> QED
      BY <3>3, <1>t, <1>a, <2>1, WalletMoves
  <2>5. CASE payout'[f] = "failed" /\ refund[f].pc = "gone"
    <3>1. /\ Held' = Minus(Held, u, a) /\ a <= Held[u] /\ Lost' = Plus(Lost, u, a)
          /\ PaidOut' = PaidOut /\ Twice' = Twice
      BY <2>1, <2>2, <2>5, <1>f, <1>p
    <3>2. Out' = Out /\ House' = House
      BY <3>1, <2>1, <2>2, <1>t, <1>a, <1>b, AccountsFollow
    <3>3. W!Lose(u, a)
      BY <3>1, <3>2, <2>2, <1>b DEF W!Lose, W!Moves, Plus, Minus
    <3> QED
      BY <3>3, <1>t, <1>a, <2>1, WalletMoves
  <2>6. CASE payout'[f] = "failed" /\ refund[f].pc # "gone"
    <3>1. Held' = Held /\ Lost' = Lost /\ PaidOut' = PaidOut /\ Twice' = Twice
      BY <2>1, <2>2, <2>6, <1>f, <1>p
    <3> QED
      BY <3>1, <2>2, <1>s
  <2> QED
    BY <2>2, <2>3, <2>4, <2>5, <2>6
<1>6. CASE DebitFee(f)
  <2>1. Frame(f)
    BY <1>6, <1>t, RefundFrame
  <2>2. /\ refund[f].pc = "paid" /\ refund'[f].pc = "done" /\ payout[f] = "paid"
        /\ payout'[f] = "paid"
    BY <1>6, <1>c, <1>t DEF DebitFee, Ends, PayoutInv, Payouts
  <2>3. Held' = Held /\ Lost' = Lost /\ PaidOut' = PaidOut /\ Twice' = Twice
    BY <2>1, <2>2, <1>f, <1>p
  <2>4. CASE UNCHANGED <<balance, book>>
    BY <2>3, <2>4, <1>s
  <2>5. CASE /\ ChargedFee(f) > 0 /\ Covers(UserOf[f], ChargedFee(f))
             /\ ApplyBalanceChange(UserOf[f], "refund_fee", ChargedFee(f))
    <3> PICK fee : fee = ChargedFee(f)
      OBVIOUS
    <3>1. fee \in 1..MaxAmount /\ fee \in Nat
      <4>1. refund[f].fee \in RoutingFees \cup {0} /\ refund[f].amount \in Amounts
        BY <1>c, <1>t, <2>2 DEF Payouts, PayoutInv
      <4>2. refund[f].fee \in Nat /\ refund[f].amount \in Nat /\ refund[f].seen \in Int
        <5>1. RoutingFees \cup {0} \subseteq Nat /\ Amounts \subseteq Nat
          BY BillingAssumption
        <5>2. refund[f].seen \in Int
          BY <1>c DEF Payouts
        <5> QED
          BY <4>1, <5>1, <5>2
      <4>3. fee \in Int /\ fee <= refund[f].fee
        <5>1. refund[f].seen - refund[f].amount \in Int
          BY <4>2
        <5> PICK m \in Int, n \in Int :
              m = refund[f].fee /\ n = refund[f].seen - refund[f].amount
          BY <4>2, <5>1
        <5>2. fee = Min({m, n})
          BY DEF ChargedFee
        <5>3. fee \in {m, n} /\ fee <= m
          BY <5>2, LeastOfTwo
        <5> QED
          BY <5>3
      <4>4. refund[f].fee \in RoutingFees
        BY <2>5, <4>1, <4>2, <4>3
      <4>5. refund[f].amount + refund[f].fee <= MaxAmount
        BY <4>1, <4>4, BillingAssumption
      <4>6. fee > 0
        BY <2>5
      <4> QED
        BY <4>2, <4>3, <4>5, <4>6, BillingAssumption
    <3>2. ApplyBalanceChange(u, "refund_fee", fee) /\ fee <= balance[u]
      <4>1. balance[u] \in Int
        BY <1>c, <1>t
      <4> QED
        BY <2>5, <3>1, <4>1 DEF Covers
    <3>3. "refund_fee" \in Types /\ {"deposit", "usage"} \subseteq Types \ {"refund_fee"}
      BY DEF Types
    <3>4. /\ InBook("deposit")' = InBook("deposit") /\ InBook("usage")' = InBook("usage")
          /\ InBook("refund_fee")' = Plus(InBook("refund_fee"), u, fee)
          /\ balance' = Minus(balance, u, fee)
      BY <3>1, <3>2, <3>3, <1>t, BooksFollow
    <3>5. Out' = Plus(Out, u, fee) /\ House' = House
      BY <3>1, <3>4, <2>3, <1>t, AccountsFollow
    <3>6. W!PayFee(u, fee)
      BY <3>2, <3>4, <3>5, <2>3 DEF W!PayFee, W!Moves, Deposited, Spent, Plus, Minus
    <3> QED
      BY <3>1, <3>6, <1>t, WalletMoves
  <2> QED
    BY <1>6, <2>4, <2>5 DEF DebitFee, money
<1>7. CASE ReverseRefund(f)
  <2>1. Frame(f)
    BY <1>7, <1>t, RefundFrame
  <2>2. /\ refund[f].pc = "unpaid" /\ refund'[f].pc = "reversed" /\ payout'[f] = payout[f]
        /\ ApplyBalanceChange(u, "refund_reversal", a)
    BY <1>7, <1>c DEF ReverseRefund, Ends, Payouts
  <2>3. /\ "refund_reversal" \in Types
        /\ {"deposit", "usage", "refund_fee"} \subseteq Types \ {"refund_reversal"}
    BY DEF Types
  <2>4. /\ InBook("deposit")' = InBook("deposit") /\ InBook("usage")' = InBook("usage")
        /\ InBook("refund_fee")' = InBook("refund_fee")
        /\ balance' = Plus(balance, u, a)
    BY <2>1, <2>2, <2>3, <1>t, <1>a, BooksFollow
  <2>5. CASE payout[f] # "paid"
    <3>1. /\ Held' = Minus(Held, u, a) /\ a <= Held[u] /\ Lost' = Lost
          /\ PaidOut' = PaidOut /\ Twice' = Twice
      BY <2>1, <2>2, <2>5, <1>f, <1>p
    <3>2. Out' = Out /\ House' = House
      BY <3>1, <2>4 DEF Out, House, PaidOut, Twice
    <3>3. W!GiveBack(u, a)
      BY <3>1, <3>2, <2>4 DEF W!GiveBack, W!Moves, Deposited, Spent, Plus, Minus
    <3> QED
      BY <3>3, <1>t, <1>a, <2>1, WalletMoves
  <2>6. CASE payout[f] = "paid"
    <3>1. Held' = Held /\ Lost' = Lost /\ PaidOut' = PaidOut /\ Twice' = Plus(Twice, u, a)
      BY <2>1, <2>2, <2>6, <1>f, <1>p
    <3>2. House' = Minus(House, u, a)
      BY <3>1, <2>1, <1>t, <1>a, AccountsFollow
    <3>3. Out' = Out
      BY <3>1, <2>4 DEF Out, PaidOut
    <3>4. W!GiveBackAgain(u, a)
      BY <3>1, <3>2, <3>3, <2>4 DEF W!GiveBackAgain, W!Moves, Deposited, Spent, Plus, Minus
    <3> QED
      BY <3>4, <1>t, <1>a, <2>1, WalletMoves
  <2> QED
    BY <2>5, <2>6
<1>8. CASE RefundDropped(f)
  <2>1. Frame(f)
    BY <1>8, <1>t, RefundFrame
  <2>2. /\ payout'[f] = payout[f] /\ UNCHANGED <<balance, book>>
        /\ \/ /\ refund[f].pc = "checked" /\ refund'[f].pc = "refused" /\ payout[f] = "none"
           \/ /\ refund[f].pc = "paid" /\ refund'[f].pc = "done"
           \/ /\ refund[f].pc \in {"debited", "unpaid"} /\ refund'[f].pc = "gone"
    BY <1>8, <1>c, <1>t DEF RefundDropped, Ends, PayoutInv, Payouts, money
  <2>3. CASE refund[f].pc \in {"debited", "unpaid"} /\ payout[f] \in {"none", "failed"}
    <3>1. /\ Held' = Minus(Held, u, a) /\ a <= Held[u] /\ Lost' = Plus(Lost, u, a)
          /\ PaidOut' = PaidOut /\ Twice' = Twice
      BY <2>1, <2>2, <2>3, <1>f, <1>p
    <3>2. Out' = Out /\ House' = House
      BY <3>1, <2>1, <2>2, <1>t, <1>a, <1>b, AccountsFollow
    <3>3. W!Lose(u, a)
      BY <3>1, <3>2, <2>2, <1>b DEF W!Lose, W!Moves, Plus, Minus
    <3> QED
      BY <3>3, <1>t, <1>a, <2>1, WalletMoves
  <2>4. CASE ~(refund[f].pc \in {"debited", "unpaid"} /\ payout[f] \in {"none", "failed"})
    <3>1. payout[f] \in {"none", "flying", "paid", "failed"}
      BY <1>c
    <3>2. Held' = Held /\ Lost' = Lost /\ PaidOut' = PaidOut /\ Twice' = Twice
      BY <3>1, <2>1, <2>2, <2>4, <1>f, <1>p
    <3> QED
      BY <3>2, <2>2, <1>s
  <2> QED
    BY <2>3, <2>4
<1> QED
  BY <1>1, <1>2, <1>3, <1>4, <1>5, <1>6, <1>7, <1>8 DEF Refund

LEMMA NextRefines == IInv /\ IInv' /\ [Next]_vars => [W!WNext]_(W!wallet)
<1> SUFFICES ASSUME IInv, IInv', [Next]_vars PROVE [W!WNext]_(W!wallet)
  OBVIOUS
<1>t. TypeOK
  BY DEF IInv
<1>1. CASE UNCHANGED vars
  BY <1>t, <1>1, OthersRefine DEF vars
<1>2. ASSUME NEW u \in Users, SetExempt(u) \/ \E a \in Amounts : Credit(u, a)
      PROVE  [W!WNext]_(W!wallet)
  <2>1. CASE SetExempt(u)
    BY <1>t, <2>1, OthersRefine DEF SetExempt
  <2>2. ASSUME NEW a \in Amounts, Credit(u, a) PROVE [W!WNext]_(W!wallet)
    <3>1. a \in 1..MaxAmount /\ a \in Nat
      BY <1>t, AmountBound
    <3>2. UNCHANGED <<refund, payout>> /\ ApplyBalanceChange(u, "deposit", a)
      BY <2>2 DEF Credit
    <3> QED
      BY <1>t, <3>1, <3>2, OthersRefine
  <2> QED
    BY <1>2, <2>1, <2>2
<1>3. ASSUME NEW free \in BOOLEAN, NEW fee \in Fees, SetPrice(free, fee)
      PROVE  [W!WNext]_(W!wallet)
  BY <1>t, <1>3, OthersRefine DEF SetPrice
<1>4. ASSUME NEW r \in Requests, Request(r) PROVE [W!WNext]_(W!wallet)
  <2>1. UNCHANGED <<refund, payout>>
    BY <1>4 DEF Request, Arrive, CheckExempt, CheckExemptFails, ResolvePrice, Admit,
                ProviderAnswers, ProviderFails, StreamEnds, Disconnect, TaskKilled, Settle,
                Charge, ChargeFails, others
  <2>2. CASE UNCHANGED <<balance, book>>
    BY <1>t, <2>1, <2>2, OthersRefine
  <2>3. ASSUME NEW usage \in Usages, Charge(r, usage), ~UNCHANGED <<balance, book>>
        PROVE  [W!WNext]_(W!wallet)
    <3>1. req[r].fee \in Fees /\ UserOf[r] \in Users
      BY <1>t, BillingAssumption DEF TypeOK
    <3>2. PICK cost : cost = usage + req[r].fee
      OBVIOUS
    <3>3. cost > 0 /\ ApplyBalanceChange(UserOf[r], "usage", cost)
      BY <2>3, <3>2 DEF Charge, money
    <3>4. cost \in 1..MaxAmount /\ cost \in Nat
      <4>1. usage \in Nat /\ req[r].fee \in Nat /\ MaxAmount \in Nat
        BY <3>1, BillingAssumption
      <4>2. usage \in Amounts \cup Usages /\ req[r].fee \in Fees \cup RoutingFees
        BY <3>1
      <4>3. usage + req[r].fee <= MaxAmount
        BY <4>2, BillingAssumption
      <4> QED
        BY <3>2, <3>3, <4>1, <4>3
    <3> QED
      BY <1>t, <2>1, <3>1, <3>3, <3>4, OthersRefine
  <2> QED
    BY <1>4, <2>2, <2>3 DEF Request, Arrive, CheckExempt, CheckExemptFails, ResolvePrice,
                Admit, ProviderAnswers, ProviderFails, StreamEnds, Disconnect, TaskKilled,
                Settle, ChargeFails, money
<1>5. CASE Next
  BY <1>2, <1>3, <1>4, <1>5, RefundRefines DEF Next
<1> QED
  BY <1>1, <1>5

LEMMA InitRefines == Init => W!WInit
<1> SUFFICES ASSUME Init PROVE W!WInit
  OBVIOUS
<1>1. /\ OpenPayouts = {} /\ LostPayouts = {} /\ DonePayouts = {} /\ DoublePayouts = {}
  BY DEF Init, OpenPayouts, LostPayouts, DonePayouts, DoublePayouts
<1>2. ASSUME NEW amount PROVE Total({}, amount) = [u \in Users |-> 0]
  <2>1. ASSUME NEW u \in Users PROVE Count(u, {}, amount) = 0
    <3>1. {c \in {} \X (1..MaxAmount) : UserOf[c[1]] = u /\ c[2] <= amount[c[1]]} = {}
      OBVIOUS
    <3> QED
      BY <3>1, FS_EmptySet DEF Count
  <2> QED
    BY <2>1 DEF Total
<1>3. \A t \in Types : InBook(t) = [u \in Users |-> 0]
  BY DEF Init, InBook
<1>4. InBook("deposit") = [u \in Users |-> 0] /\ InBook("usage") = [u \in Users |-> 0]
      /\ InBook("refund_fee") = [u \in Users |-> 0]
  BY <1>3 DEF Types
<1>5. Held = [u \in Users |-> 0] /\ Lost = [u \in Users |-> 0]
  BY <1>1, <1>2 DEF Held, Lost
<1>6. Out = [u \in Users |-> 0] /\ House = [u \in Users |-> 0]
  BY <1>1, <1>2, <1>4 DEF Out, House
<1> QED
  BY <1>4, <1>5, <1>6 DEF W!WInit, Deposited, Spent, Init

(* The inductive invariant of the ledger, the charges and the payouts.     *)
THEOREM Invariance == Spec => []IInv
BY InitIInv, NextIInv, PTL DEF Spec

(* The variables keep their types, whatever the amounts and bounds.        *)
THEOREM TypeCorrect == Spec => []TypeOK
<1>1. IInv => TypeOK
  BY DEF IInv
<1> QED
  BY <1>1, Invariance, PTL

(* The balance of every user is the sum of the rows BalanceService booked, *)
(* whichever handlers were dropped in between.                             *)
THEOREM LedgerAddsUp == Spec => []BalanceMatchesBook
<1>1. IInv => BalanceMatchesBook
  BY DEF IInv
<1> QED
  BY <1>1, Invariance, PTL

(* finalize_usage charges a request once, and never one admitted as free.  *)
THEOREM OneCharge == Spec => []ChargedAsAdmitted
<1>1. IInv => ChargedAsAdmitted
  BY DEF IInv, CallInv, ChargedAsAdmitted
<1> QED
  BY <1>1, Invariance, PTL

(* A tapped stream that is over has been settled (TappedBody's Drop).      *)
THEOREM TappedStreamsSettle == Spec => []TappedIsSettled
<1>1. IInv => TappedIsSettled
  BY DEF IInv, CallInv, TappedIsSettled
<1> QED
  BY <1>1, Invariance, PTL

(* balance_refund gives money back only if LND failed the payment or its   *)
(* answer was lost.                                                        *)
THEOREM NoDoubleRefund == Spec => []GivenBackOnlyIfUnpaid
<1>1. IInv => GivenBackOnlyIfUnpaid
  BY DEF IInv, PayoutInv, GivenBackOnlyIfUnpaid
<1> QED
  BY <1>1, Invariance, PTL

(* The payments code implements the abstract wallet: whatever requests and *)
(* refunds run at once, are dropped or lose their answers, each step moves *)
(* money between two accounts of one user as the wallet allows.            *)
THEOREM LedgerIsAWallet == Spec => ImplementsWallet
<1>1. Init => W!WInit
  BY InitRefines
<1>2. IInv /\ IInv' /\ [Next]_vars => [W!WNext]_(W!wallet)
  BY NextRefines
<1> QED
  BY <1>1, <1>2, Invariance, PTL DEF Spec, ImplementsWallet, W!WSpec
=============================================================================
