---------------------------- MODULE Market_proofs ----------------------------
(***************************************************************************)
(* Theorems about the money and the market side of a node.                 *)
(*                                                                         *)
(* Whatever implements the wallet neither makes money nor loses track of   *)
(* any, for any number of users and any amounts (that billing implements   *)
(* it is proved in Billing_proofs).  A deposit is credited for settled     *)
(* invoices only, once for each time the row became paid, and the pruner   *)
(* deletes no deposit unless a status was overwritten; for any number of   *)
(* accounts, invoices, status checks and faults.                           *)
(*                                                                         *)
(* The announcements, for any number of models, editors, relays and pages: *)
(* the variables keep their types, and the node has one identity.  Whoever *)
(* loads the key rereads the row, which is never replaced once it is       *)
(* there: the key that was read is the row's for good.  The loop signs     *)
(* with it because it announces only after it has loaded it.               *)
(*                                                                         *)
(* The model listing, for any number of requests, any kinds of provider    *)
(* and any lifetimes of the caches: nothing told is older than the caches  *)
(* it came through allow, and a listing that was good once is never empty  *)
(* again.  An entry of a cache is no younger than what upstream said in    *)
(* it, but for what that had aged in the cache below.                      *)
(***************************************************************************)
EXTENDS Settlement, Wallet, Catalog, Discovery, SequenceTheorems, TLAPS

---------------------------------------------------------------------------
(* The abstract wallet.                                                    *)

ConservedInv == WTypeOK /\ Conserved

LEMMA ConservedInit == WInit => ConservedInv
BY DEF WInit, ConservedInv, WTypeOK, Conserved

LEMMA ConservedNext == ConservedInv /\ [WNext]_wallet => ConservedInv'
<1> SUFFICES ASSUME ConservedInv, [WNext]_wallet PROVE ConservedInv'
  OBVIOUS
<1> USE DEF ConservedInv, WTypeOK, Conserved
<1>1. CASE UNCHANGED wallet
  BY <1>1 DEF wallet
<1>2. CASE WNext
  <2>1. PICK u \in Users, a \in 1..MaxAmount :
          \/ Deposit(u, a) \/ Charge(u, a) \/ Hold(u, a) \/ PayOut(u, a) \/ PayFee(u, a)
          \/ GiveBack(u, a) \/ Lose(u, a) \/ GiveBackAgain(u, a) \/ PayOutAgain(u, a)
    BY <1>2 DEF WNext
  <2>2. a \in Nat
    OBVIOUS
  <2>3. CASE Deposit(u, a)
    BY <2>2, <2>3 DEF Deposit
  <2>4. CASE Charge(u, a)
    BY <2>2, <2>4 DEF Charge, Moves
  <2>5. CASE Hold(u, a)
    BY <2>2, <2>5 DEF Hold, Moves
  <2>6. CASE PayOut(u, a)
    BY <2>2, <2>6 DEF PayOut, Moves
  <2>7. CASE PayFee(u, a)
    BY <2>2, <2>7 DEF PayFee, Moves
  <2>8. CASE GiveBack(u, a)
    BY <2>2, <2>8 DEF GiveBack, Moves
  <2>9. CASE Lose(u, a)
    BY <2>2, <2>9 DEF Lose, Moves
  <2>10. CASE GiveBackAgain(u, a)
    BY <2>2, <2>10 DEF GiveBackAgain, Moves
  <2>11. CASE PayOutAgain(u, a)
    BY <2>2, <2>11 DEF PayOutAgain, Moves
  <2> QED
    BY <2>1, <2>3, <2>4, <2>5, <2>6, <2>7, <2>8, <2>9, <2>10, <2>11
<1> QED
  BY <1>1, <1>2

(* No money appears or disappears behind the wallet: what a user paid in   *)
(* is what the seven accounts hold of it (balance.rs, routstr.rs).         *)
THEOREM MoneyIsConserved == WSpec => []Conserved
<1>1. WInit => ConservedInv
  BY ConservedInit
<1>2. ConservedInv /\ [WNext]_wallet => ConservedInv'
  BY ConservedNext
<1>3. ConservedInv => Conserved
  BY DEF ConservedInv
<1> QED
  BY <1>1, <1>2, <1>3, PTL DEF WSpec

---------------------------------------------------------------------------
(* Deposits (Settlement).                                                  *)

(* LND knows no invoice that a call has yet to add, and there is no row    *)
(* before the INSERT.                                                      *)
MakingInv ==
  \A i \in Invoices :
    /\ making[i] \in {"idle", "user", "keyed"} => lnd[i] = "none"
    /\ making[i] \in {"idle", "user", "keyed", "lnd"} => row[i] = "absent"

(* Whatever is on its way to a balance comes from a settled invoice.       *)
SettledInv ==
  /\ \A n \in 1..Len(feed) : IsSettled(feed[n]) => lnd[feed[n].inv] = "settled"
  /\ listener.pc # "idle" => listener.inv \in Invoices /\ lnd[listener.inv] = "settled"
  /\ \A i \in Invoices : row[i] = "paid" => lnd[i] = "settled"

(* Only the listener writes "paid", so what it has read stays unpaid.      *)
ReadInv == listener.pc = "read" => row[listener.inv] # "paid"

(* An account's deletion takes its rows, and nothing brings it back.       *)
GoneInv ==
  /\ \A i \in Invoices : row[i] = "gone" => user[Owner[i]] = "deleted"
  /\ \A a \in pruned : user[a] = "deleted"

(* A credit, made or about to be made, is covered by the row's being paid  *)
(* or by a time it was and another UPDATE replaced that.                   *)
Owed(i) == IF listener.pc = "marked" /\ listener.inv = i THEN 1 ELSE 0
Shown(i) == IF row[i] \in {"paid", "gone"} THEN 1 ELSE 0
DepositInv == \A i \in Invoices : credits[i] + Owed(i) <= clobbered[i] + Shown(i)

IInv ==
  /\ TypeOK
  /\ MakingInv
  /\ SettledInv
  /\ ReadInv
  /\ GoneInv
  /\ DepositInv
  /\ CreditedOnlyIfSettled
  /\ KeyOnlyAfterPayment
  /\ PrunedHeldNoDeposit

LEMMA InitIInv == Init => IInv
<1> SUFFICES ASSUME Init PROVE IInv
  OBVIOUS
<1> USE OwnerAssumption, OpeningAssumption, FaultsAssumption DEF Init, Idle
<1>1. TypeOK
  <2>1. feed \in Seq(Update) /\ listener \in [pc : {"idle", "read", "marked"}, inv : Invoices \cup {Nobody}]
    OBVIOUS
  <2> QED
    BY <2>1 DEF TypeOK
<1>2. MakingInv /\ ReadInv /\ GoneInv
  BY DEF MakingInv, ReadInv, GoneInv
<1>3. SettledInv
  BY DEF SettledInv
<1>4. DepositInv
  BY DEF DepositInv, Owed, Shown
<1>5. CreditedOnlyIfSettled /\ KeyOnlyAfterPayment /\ PrunedHeldNoDeposit
  BY DEF CreditedOnlyIfSettled, KeyOnlyAfterPayment, PrunedHeldNoDeposit
<1> QED
  BY <1>1, <1>2, <1>3, <1>4, <1>5 DEF IInv

(* A row that a deletion cascades to is gone, and so is its account.       *)
Cascades ==
  /\ user' \in [Accounts -> {"absent", "live", "deleted"}]
  /\ row' \in [Invoices -> Status \cup {"absent", "gone"}]
  /\ \A a \in Accounts : user'[a] = user[a] \/ user'[a] = "deleted"
  /\ \A i \in Invoices :
       \/ row'[i] = row[i]
       \/ row[i] \in Status /\ row'[i] = "gone" /\ user'[Owner[i]] = "deleted"

LEMMA DeletionCascades ==
  ASSUME TypeOK, NEW gone, DeleteUsers(gone)
  PROVE  Cascades
BY OwnerAssumption DEF TypeOK, DeleteUsers, Cascades, HasRow

(* A step that deletes accounts, whoever takes it.                         *)
LEMMA DeletionIInv ==
  ASSUME IInv, Cascades,
         UNCHANGED <<up, connected, feed, lnd, past, age, public, listener,
                     reader, told, revealed, credits, clobbered>>,
         making' \in [Invoices -> {"idle", "user", "keyed", "lnd", "stored", "done", "failed"}],
         \A i \in Invoices : making'[i] = making[i] \/ making'[i] = "failed",
         pruned' \in SUBSET Accounts,
         \A a \in pruned' : user'[a] = "deleted",
         PrunedHeldNoDeposit',
         faults' \in Nat
  PROVE  IInv'
<1> USE OwnerAssumption
<1>1. TypeOK'
  BY DEF IInv, TypeOK, Cascades
<1>r. \A i \in Invoices :
        row'[i] = row[i] \/ (row'[i] = "gone" /\ row[i] \notin {"absent", "gone"})
  BY DEF Cascades, Status
<1>2. MakingInv' /\ SettledInv' /\ ReadInv'
  <2>1. MakingInv'
    BY <1>r DEF IInv, MakingInv
  <2>2. SettledInv'
    BY <1>r DEF IInv, SettledInv
  <2>3. ReadInv'
    BY <1>r DEF IInv, SettledInv, ReadInv
  <2> QED
    BY <2>1, <2>2, <2>3
<1>3. GoneInv'
  BY DEF IInv, TypeOK, GoneInv, Cascades
<1>4. DepositInv'
  <2> SUFFICES ASSUME NEW i \in Invoices
               PROVE  credits[i] + Owed(i)' <= clobbered[i] + Shown(i)'
    BY DEF DepositInv
  <2>1. Owed(i)' = Owed(i) /\ Owed(i) \in {0, 1}
    BY DEF Owed
  <2>2. Shown(i)' \in {0, 1} /\ Shown(i) \in {0, 1} /\ Shown(i) <= Shown(i)'
    BY <1>r DEF Shown
  <2>3. credits[i] + Owed(i) <= clobbered[i] + Shown(i) /\ credits[i] \in Nat /\ clobbered[i] \in Nat
    BY DEF IInv, TypeOK, DepositInv
  <2> QED
    BY <2>1, <2>2, <2>3
<1>5. CreditedOnlyIfSettled' /\ KeyOnlyAfterPayment'
  BY DEF IInv, CreditedOnlyIfSettled, KeyOnlyAfterPayment
<1> QED
  BY <1>1, <1>2, <1>3, <1>4, <1>5 DEF IInv

(* The steps of a create_invoice call.                                     *)
LEMMA CreateIInv == IInv /\ CreateInvoice => IInv'
<1> SUFFICES ASSUME IInv, CreateInvoice PROVE IInv'
  OBVIOUS
<1> USE OwnerAssumption, OpeningAssumption, FaultsAssumption DEF node, ledger
<1>1. ASSUME NEW a \in Accounts, CreateAccount(a) PROVE IInv'
  <2> USE <1>1 DEF CreateAccount
  <2>1. TypeOK'
    BY DEF IInv, TypeOK
  <2>2. MakingInv' /\ SettledInv' /\ ReadInv' /\ GoneInv'
    BY DEF IInv, TypeOK, MakingInv, SettledInv, ReadInv, GoneInv, IsSettled
  <2>3. DepositInv'
    BY DEF IInv, TypeOK, MakingInv, DepositInv, Owed, Shown, IsSettled
  <2>4. CreditedOnlyIfSettled' /\ KeyOnlyAfterPayment' /\ PrunedHeldNoDeposit'
    BY DEF IInv, TypeOK, MakingInv, CreditedOnlyIfSettled, KeyOnlyAfterPayment, PrunedHeldNoDeposit, InvoicesOf
  <2> QED
    BY <2>1, <2>2, <2>3, <2>4 DEF IInv
<1>2. ASSUME NEW i \in Invoices, StoreKey(i) PROVE IInv'
  <2> USE <1>2 DEF StoreKey
  <2>1. TypeOK'
    BY DEF IInv, TypeOK
  <2>2. MakingInv' /\ SettledInv' /\ ReadInv' /\ GoneInv'
    BY DEF IInv, TypeOK, MakingInv, SettledInv, ReadInv, GoneInv, IsSettled
  <2>3. DepositInv'
    BY DEF IInv, TypeOK, MakingInv, DepositInv, Owed, Shown, IsSettled
  <2>4. CreditedOnlyIfSettled' /\ KeyOnlyAfterPayment' /\ PrunedHeldNoDeposit'
    BY DEF IInv, TypeOK, MakingInv, CreditedOnlyIfSettled, KeyOnlyAfterPayment, PrunedHeldNoDeposit, InvoicesOf
  <2> QED
    BY <2>1, <2>2, <2>3, <2>4 DEF IInv
<1>3. ASSUME NEW i \in Invoices, FindTopupUser(i) PROVE IInv'
  <2> USE <1>3 DEF FindTopupUser
  <2>1. TypeOK'
    BY DEF IInv, TypeOK
  <2>2. MakingInv' /\ SettledInv' /\ ReadInv' /\ GoneInv'
    BY DEF IInv, TypeOK, MakingInv, SettledInv, ReadInv, GoneInv, IsSettled
  <2>3. DepositInv'
    BY DEF IInv, TypeOK, MakingInv, DepositInv, Owed, Shown, IsSettled
  <2>4. CreditedOnlyIfSettled' /\ KeyOnlyAfterPayment' /\ PrunedHeldNoDeposit'
    BY DEF IInv, TypeOK, MakingInv, CreditedOnlyIfSettled, KeyOnlyAfterPayment, PrunedHeldNoDeposit, InvoicesOf
  <2> QED
    BY <2>1, <2>2, <2>3, <2>4 DEF IInv
<1>4. ASSUME NEW i \in Invoices, AddInvoice(i) PROVE IInv'
  <2> USE <1>4 DEF AddInvoice
  <2>1. TypeOK'
    BY DEF IInv, TypeOK
  <2>2. MakingInv' /\ SettledInv' /\ ReadInv' /\ GoneInv'
    BY DEF IInv, TypeOK, MakingInv, SettledInv, ReadInv, GoneInv, IsSettled
  <2>3. DepositInv'
    BY DEF IInv, TypeOK, MakingInv, DepositInv, Owed, Shown, IsSettled
  <2>4. CreditedOnlyIfSettled' /\ KeyOnlyAfterPayment' /\ PrunedHeldNoDeposit'
    BY DEF IInv, TypeOK, MakingInv, CreditedOnlyIfSettled, KeyOnlyAfterPayment, PrunedHeldNoDeposit, InvoicesOf
  <2> QED
    BY <2>1, <2>2, <2>3, <2>4 DEF IInv
<1>5. ASSUME NEW i \in Invoices, StoreInvoice(i) PROVE IInv'
  <2> USE <1>5 DEF StoreInvoice
  <2>1. TypeOK'
    BY DEF IInv, TypeOK, Status
  <2>2. MakingInv' /\ SettledInv' /\ ReadInv' /\ GoneInv'
    BY DEF IInv, TypeOK, MakingInv, SettledInv, ReadInv, GoneInv, IsSettled, Status
  <2>3. DepositInv'
    BY DEF IInv, TypeOK, MakingInv, DepositInv, Owed, Shown, IsSettled, Status
  <2>4. CreditedOnlyIfSettled' /\ KeyOnlyAfterPayment' /\ PrunedHeldNoDeposit'
    BY DEF IInv, TypeOK, MakingInv, CreditedOnlyIfSettled, KeyOnlyAfterPayment, PrunedHeldNoDeposit, InvoicesOf
  <2> QED
    BY <2>1, <2>2, <2>3, <2>4 DEF IInv
<1>6. ASSUME NEW i \in Invoices, MarkPublic(i) PROVE IInv'
  <2> USE <1>6 DEF MarkPublic, HasRow
  <2>1. TypeOK'
    BY DEF IInv, TypeOK
  <2>2. MakingInv' /\ SettledInv' /\ ReadInv' /\ GoneInv'
    BY DEF IInv, TypeOK, MakingInv, SettledInv, ReadInv, GoneInv, IsSettled
  <2>3. DepositInv'
    BY DEF IInv, TypeOK, MakingInv, DepositInv, Owed, Shown, IsSettled
  <2>4. CreditedOnlyIfSettled' /\ KeyOnlyAfterPayment' /\ PrunedHeldNoDeposit'
    BY DEF IInv, TypeOK, MakingInv, CreditedOnlyIfSettled, KeyOnlyAfterPayment, PrunedHeldNoDeposit, InvoicesOf
  <2> QED
    BY <2>1, <2>2, <2>3, <2>4 DEF IInv
<1>7. ASSUME NEW i \in Invoices, InvoiceFails(i) PROVE IInv'
  <2>1. Cascades
    <3>1. CASE DeleteUsers({Owner[i]})
      BY <3>1, DeletionCascades DEF IInv
    <3>2. CASE UNCHANGED <<user, row>>
      BY <3>2 DEF Cascades, IInv, TypeOK
    <3> QED
      BY <1>7, <3>1, <3>2 DEF InvoiceFails
  <2>2. /\ \A j \in Invoices : making'[j] = making[j] \/ making'[j] = "failed"
        /\ making' \in [Invoices -> {"idle", "user", "keyed", "lnd", "stored", "done", "failed"}]
    BY <1>7 DEF InvoiceFails, IInv, TypeOK
  <2>3. /\ UNCHANGED <<up, connected, feed, lnd, past, age, public, listener,
                       reader, told, revealed, credits, clobbered, pruned>>
        /\ faults' \in Nat
    BY <1>7 DEF InvoiceFails, Fault, IInv, TypeOK
  <2>4. /\ pruned' \in SUBSET Accounts
        /\ \A a \in pruned' : user'[a] = "deleted"
    BY <2>1, <2>3 DEF IInv, TypeOK, GoneInv, Cascades
  <2>5. PrunedHeldNoDeposit'
    BY <2>3 DEF IInv, PrunedHeldNoDeposit, InvoicesOf
  <2> QED
    BY <2>1, <2>2, <2>3, <2>4, <2>5, DeletionIInv
<1>8. ASSUME NEW i \in Invoices, CreateAbandoned(i) PROVE IInv'
  <2> USE <1>8 DEF CreateAbandoned, Fault
  <2>1. TypeOK'
    BY DEF IInv, TypeOK
  <2>2. MakingInv' /\ SettledInv' /\ ReadInv' /\ GoneInv'
    BY DEF IInv, TypeOK, MakingInv, SettledInv, ReadInv, GoneInv, IsSettled
  <2>3. DepositInv'
    BY DEF IInv, TypeOK, MakingInv, DepositInv, Owed, Shown, IsSettled
  <2>4. CreditedOnlyIfSettled' /\ KeyOnlyAfterPayment' /\ PrunedHeldNoDeposit'
    BY DEF IInv, TypeOK, MakingInv, CreditedOnlyIfSettled, KeyOnlyAfterPayment, PrunedHeldNoDeposit, InvoicesOf
  <2> QED
    BY <2>1, <2>2, <2>3, <2>4 DEF IInv
<1> QED
  BY <1>1, <1>2, <1>3, <1>4, <1>5, <1>6, <1>7, <1>8 DEF CreateInvoice

(* The first update of the feed, and those behind it.                      *)
LEMMA FirstUpdate ==
  ASSUME TypeOK, feed # << >>
  PROVE  /\ Head(feed) \in Update /\ Head(feed).inv \in Invoices
         /\ Tail(feed) \in Seq(Update)
         /\ Len(feed) \in Nat \ {0} /\ Head(feed) = feed[1]
         /\ \A n \in 1..Len(Tail(feed)) : Tail(feed)[n] = feed[n + 1] /\ n + 1 \in 1..Len(feed)
<1>1. feed \in Seq(Update)
  BY DEF TypeOK
<1>2. Head(feed) \in Update /\ Tail(feed) \in Seq(Update) /\ Head(feed) = feed[1] /\ Len(feed) \in Nat \ {0}
  BY <1>1
<1>3. Head(feed).inv \in Invoices
  BY <1>2 DEF Update
<1>4. \A n \in 1..Len(Tail(feed)) : Tail(feed)[n] = feed[n + 1] /\ n + 1 \in 1..Len(feed)
  BY <1>1
<1> QED
  BY <1>2, <1>3, <1>4

(* Announcing a settled invoice, or any cancelled one.                     *)
LEMMA Announcing ==
  ASSUME TypeOK, SettledInv, NEW i \in Invoices, NEW outcome \in {"settled", "canceled"},
         Notify(outcome, i), outcome = "settled" => lnd'[i] = "settled",
         \A j \in Invoices : lnd[j] = "settled" => lnd'[j] = "settled"
  PROVE  /\ feed' \in Seq(Update)
         /\ \A n \in 1..Len(feed') : IsSettled(feed'[n]) => lnd'[feed'[n].inv] = "settled"
<1> DEFINE update == [kind |-> outcome, inv |-> i]
<1>1. feed \in Seq(Update) /\ update \in Update
  BY DEF TypeOK, Update
<1>2. \A n \in 1..Len(feed) : feed[n].inv \in Invoices
  <2>1. \A n \in 1..Len(feed) : feed[n] \in Update
    BY <1>1
  <2> QED
    BY <2>1 DEF Update
<1>3. CASE feed' = feed
  BY <1>1, <1>2, <1>3 DEF SettledInv
<1>4. CASE feed' = Append(feed, update)
  <2>1. feed' \in Seq(Update)
    BY <1>1, <1>4
  <2>2. \A n \in 1..Len(feed') :
          (n \in 1..Len(feed) /\ feed'[n] = feed[n]) \/ feed'[n] = update
    BY <1>1, <1>4
  <2> QED
    BY <2>1, <2>2, <1>2 DEF SettledInv, IsSettled
<1> QED
  BY <1>3, <1>4 DEF Notify

(* An UPDATE to a status other than "paid": what it replaces is counted.   *)
LEMMA Overwriting ==
  ASSUME TypeOK, DepositInv, UNCHANGED <<listener, credits>>,
         NEW i \in Invoices, NEW status \in Status \ {"paid"}, UpdateStatus(i, status)
  PROVE  /\ row' \in [Invoices -> Status \cup {"absent", "gone"}]
         /\ clobbered' \in [Invoices -> Nat]
         /\ DepositInv'
         /\ \A j \in Invoices :
              /\ row'[j] = row[j] \/ (row'[j] \notin {"absent", "gone", "paid"} /\ row[j] # "absent")
              /\ clobbered[j] <= clobbered'[j]
<1>1. /\ row' \in [Invoices -> Status \cup {"absent", "gone"}]
      /\ clobbered' \in [Invoices -> Nat]
  <2>1. row \in [Invoices -> Status \cup {"absent", "gone"}] /\ clobbered \in [Invoices -> Nat]
    BY DEF TypeOK
  <2>2. row' \in [Invoices -> Status \cup {"absent", "gone"}]
    BY <2>1 DEF UpdateStatus
  <2>3. clobbered' \in [Invoices -> Nat]
    BY <2>1 DEF UpdateStatus
  <2> QED
    BY <2>2, <2>3
<1>2. \A j \in Invoices :
        /\ row'[j] = row[j] \/ (row'[j] \notin {"absent", "gone", "paid"} /\ row[j] # "absent")
        /\ clobbered[j] <= clobbered'[j]
  BY DEF UpdateStatus, TypeOK, HasRow, Status
<1>3. DepositInv'
  <2> SUFFICES ASSUME NEW j \in Invoices
               PROVE  credits[j] + Owed(j)' <= clobbered'[j] + Shown(j)'
    BY DEF DepositInv
  <2>1. Owed(j)' = Owed(j) /\ Owed(j) \in {0, 1}
    BY DEF Owed
  <2>2. credits[j] + Owed(j) <= clobbered[j] + Shown(j) /\ credits[j] \in Nat /\ clobbered[j] \in Nat
    BY DEF TypeOK, DepositInv
  <2>3. clobbered'[j] + Shown(j)' = clobbered[j] + Shown(j)
    <3>1. CASE j = i /\ row[i] = "paid"
      BY <2>2, <3>1 DEF UpdateStatus, TypeOK, HasRow, Status, Shown
    <3>2. CASE ~(j = i /\ row[i] = "paid")
      BY <2>2, <3>2 DEF UpdateStatus, TypeOK, HasRow, Status, Shown
    <3> QED
      BY <3>1, <3>2
  <2> QED
    BY <2>1, <2>2, <2>3
<1> QED
  BY <1>1, <1>2, <1>3

(* LND and the clock.                                                      *)
LEMMA EnvironmentIInv == IInv /\ Environment => IInv'
<1> SUFFICES ASSUME IInv, Environment PROVE IInv'
  OBVIOUS
<1> USE OwnerAssumption, OpeningAssumption, FaultsAssumption DEF node, ledger
<1>1. ASSUME NEW i \in Invoices, LndSettles(i) PROVE IInv'
  <2> USE <1>1 DEF LndSettles
  <2>0. /\ feed' \in Seq(Update)
        /\ \A n \in 1..Len(feed') : IsSettled(feed'[n]) => lnd'[feed'[n].inv] = "settled"
    BY Announcing DEF IInv, TypeOK
  <2>1. TypeOK'
    BY <2>0 DEF IInv, TypeOK
  <2>2. SettledInv'
    BY <2>0 DEF IInv, TypeOK, SettledInv
  <2>3. MakingInv' /\ ReadInv' /\ GoneInv'
    BY DEF IInv, TypeOK, MakingInv, ReadInv, GoneInv
  <2>4. DepositInv'
    BY DEF IInv, DepositInv, Owed, Shown
  <2>5. CreditedOnlyIfSettled' /\ KeyOnlyAfterPayment' /\ PrunedHeldNoDeposit'
    BY DEF IInv, TypeOK, CreditedOnlyIfSettled, KeyOnlyAfterPayment, PrunedHeldNoDeposit, InvoicesOf
  <2> QED
    BY <2>1, <2>2, <2>3, <2>4, <2>5 DEF IInv
<1>2. ASSUME NEW i \in Invoices, LndCancels(i) PROVE IInv'
  <2> USE <1>2 DEF LndCancels
  <2>0. /\ feed' \in Seq(Update)
        /\ \A n \in 1..Len(feed') : IsSettled(feed'[n]) => lnd'[feed'[n].inv] = "settled"
    BY Announcing DEF IInv, TypeOK
  <2>1. TypeOK'
    BY <2>0 DEF IInv, TypeOK
  <2>2. SettledInv'
    BY <2>0 DEF IInv, TypeOK, SettledInv
  <2>3. MakingInv' /\ ReadInv' /\ GoneInv'
    BY DEF IInv, TypeOK, MakingInv, ReadInv, GoneInv
  <2>4. DepositInv'
    BY DEF IInv, DepositInv, Owed, Shown
  <2>5. CreditedOnlyIfSettled' /\ KeyOnlyAfterPayment' /\ PrunedHeldNoDeposit'
    BY DEF IInv, TypeOK, CreditedOnlyIfSettled, KeyOnlyAfterPayment, PrunedHeldNoDeposit, InvoicesOf
  <2> QED
    BY <2>1, <2>2, <2>3, <2>4, <2>5 DEF IInv
<1>3. ASSUME NEW i \in Invoices, LndRedelivers(i) PROVE IInv'
  <2> USE <1>3 DEF LndRedelivers, Fault
  <2>0. /\ feed' \in Seq(Update)
        /\ \A n \in 1..Len(feed') : IsSettled(feed'[n]) => lnd'[feed'[n].inv] = "settled"
    BY Announcing DEF IInv, TypeOK
  <2>1. TypeOK'
    BY <2>0 DEF IInv, TypeOK
  <2>2. SettledInv'
    BY <2>0 DEF IInv, TypeOK, SettledInv
  <2>3. MakingInv' /\ ReadInv' /\ GoneInv'
    BY DEF IInv, TypeOK, MakingInv, ReadInv, GoneInv
  <2>4. DepositInv'
    BY DEF IInv, DepositInv, Owed, Shown
  <2>5. CreditedOnlyIfSettled' /\ KeyOnlyAfterPayment' /\ PrunedHeldNoDeposit'
    BY DEF IInv, TypeOK, CreditedOnlyIfSettled, KeyOnlyAfterPayment, PrunedHeldNoDeposit, InvoicesOf
  <2> QED
    BY <2>1, <2>2, <2>3, <2>4, <2>5 DEF IInv
<1>4. ASSUME NEW i \in Invoices, ExpiryPasses(i) PROVE IInv'
  <2> USE <1>4 DEF ExpiryPasses
  <2>1. TypeOK'
    BY DEF IInv, TypeOK
  <2>2. MakingInv' /\ SettledInv' /\ ReadInv' /\ GoneInv'
    BY DEF IInv, TypeOK, MakingInv, SettledInv, ReadInv, GoneInv, IsSettled
  <2>3. DepositInv'
    BY DEF IInv, TypeOK, DepositInv, Owed, Shown, IsSettled
  <2>4. CreditedOnlyIfSettled' /\ KeyOnlyAfterPayment' /\ PrunedHeldNoDeposit'
    BY DEF IInv, TypeOK, CreditedOnlyIfSettled, KeyOnlyAfterPayment, PrunedHeldNoDeposit, InvoicesOf
  <2> QED
    BY <2>1, <2>2, <2>3, <2>4 DEF IInv
<1> QED
  BY <1>1, <1>2, <1>3, <1>4 DEF Environment

(* The settlement listener.                                                *)
LEMMA ListenerIInv == IInv /\ Listener => IInv'
<1> SUFFICES ASSUME IInv, Listener PROVE IInv'
  OBVIOUS
<1> USE OwnerAssumption, OpeningAssumption, FaultsAssumption DEF node, ledger
<1>1. CASE Subscribe
  <2> USE <1>1 DEF Subscribe
  <2>1. TypeOK'
    BY DEF IInv, TypeOK
  <2>2. MakingInv' /\ SettledInv' /\ ReadInv' /\ GoneInv'
    BY DEF IInv, TypeOK, MakingInv, SettledInv, ReadInv, GoneInv, IsSettled
  <2>3. DepositInv'
    BY DEF IInv, TypeOK, DepositInv, Owed, Shown, IsSettled
  <2>4. CreditedOnlyIfSettled' /\ KeyOnlyAfterPayment' /\ PrunedHeldNoDeposit'
    BY DEF IInv, TypeOK, CreditedOnlyIfSettled, KeyOnlyAfterPayment, PrunedHeldNoDeposit, InvoicesOf
  <2> QED
    BY <2>1, <2>2, <2>3, <2>4 DEF IInv
<1>2. CASE TakeSettled
  <2> USE <1>2 DEF TakeSettled, AlreadyPaid
  <2>0. /\ Head(feed).inv \in Invoices /\ Tail(feed) \in Seq(Update)
        /\ lnd[Head(feed).inv] = "settled"
        /\ \A n \in 1..Len(Tail(feed)) : Tail(feed)[n] = feed[n + 1] /\ n + 1 \in 1..Len(feed)
    BY FirstUpdate DEF IInv, SettledInv
  <2>1. TypeOK'
    <3>1. listener' \in [pc : {"idle", "read", "marked"}, inv : Invoices \cup {Nobody}]
      BY <2>0 DEF IInv, TypeOK
    <3> QED
      BY <2>0, <3>1 DEF IInv, TypeOK
  <2>2. SettledInv'
    BY <2>0 DEF IInv, TypeOK, SettledInv
  <2>3. MakingInv' /\ ReadInv' /\ GoneInv'
    BY <2>0 DEF IInv, TypeOK, MakingInv, ReadInv, GoneInv
  <2>4. DepositInv'
    BY DEF IInv, DepositInv, Owed, Shown
  <2>5. CreditedOnlyIfSettled' /\ KeyOnlyAfterPayment' /\ PrunedHeldNoDeposit'
    BY DEF IInv, CreditedOnlyIfSettled, KeyOnlyAfterPayment, PrunedHeldNoDeposit, InvoicesOf
  <2> QED
    BY <2>1, <2>2, <2>3, <2>4, <2>5 DEF IInv
<1>3. CASE TakeCanceled
  <2> USE <1>3 DEF TakeCanceled
  <2>0. /\ Head(feed).inv \in Invoices /\ Tail(feed) \in Seq(Update)
        /\ \A n \in 1..Len(Tail(feed)) : Tail(feed)[n] = feed[n + 1] /\ n + 1 \in 1..Len(feed)
    BY FirstUpdate DEF IInv
  <2>1. /\ row' \in [Invoices -> Status \cup {"absent", "gone"}]
        /\ clobbered' \in [Invoices -> Nat]
        /\ DepositInv'
        /\ \A j \in Invoices :
             /\ row'[j] = row[j] \/ (row'[j] \notin {"absent", "gone", "paid"} /\ row[j] # "absent")
             /\ clobbered[j] <= clobbered'[j]
    <3>1. "cancelled" \in Status \ {"paid"}
      BY DEF Status
    <3> QED
      BY <2>0, <3>1, Overwriting DEF IInv
  <2>2. TypeOK'
    BY <2>0, <2>1 DEF IInv, TypeOK
  <2>3. SettledInv'
    BY <2>0, <2>1 DEF IInv, SettledInv
  <2>4. MakingInv' /\ ReadInv' /\ GoneInv'
    BY <2>1, ZenonT(60) DEF IInv, MakingInv, ReadInv, GoneInv
  <2>5. CreditedOnlyIfSettled' /\ KeyOnlyAfterPayment'
    BY DEF IInv, CreditedOnlyIfSettled, KeyOnlyAfterPayment
  <2>6. PrunedHeldNoDeposit'
    BY <2>1 DEF IInv, TypeOK, PrunedHeldNoDeposit, InvoicesOf
  <2> QED
    BY <2>1, <2>2, <2>3, <2>4, <2>5, <2>6 DEF IInv
<1>4. CASE MarkPaid
  <2> USE <1>4 DEF MarkPaid
  <2>0. /\ listener.inv \in Invoices /\ lnd[listener.inv] = "settled"
        /\ row[listener.inv] # "paid"
        /\ UNCHANGED clobbered
    BY DEF IInv, TypeOK, SettledInv, ReadInv, UpdateStatus
  <2>1. TypeOK'
    <3>1. listener' \in [pc : {"idle", "read", "marked"}, inv : Invoices \cup {Nobody}]
      BY <2>0 DEF IInv, TypeOK, Idle
    <3>2. row' \in [Invoices -> Status \cup {"absent", "gone"}]
      BY DEF IInv, TypeOK, UpdateStatus, Status
    <3> QED
      BY <2>0, <3>1, <3>2 DEF IInv, TypeOK
  <2>2. MakingInv' /\ SettledInv' /\ ReadInv' /\ GoneInv'
    BY <2>0 DEF IInv, TypeOK, MakingInv, SettledInv, ReadInv, GoneInv, UpdateStatus, HasRow, Idle, IsSettled, Status
  <2>3. DepositInv'
    <3>1. CASE HasRow(listener.inv)
      BY <2>0, <3>1 DEF IInv, TypeOK, DepositInv, Owed, Shown, UpdateStatus, HasRow, Status
    <3>2. CASE ~HasRow(listener.inv)
      BY <2>0, <3>2 DEF IInv, TypeOK, DepositInv, Owed, Shown, UpdateStatus, Idle
    <3> QED
      BY <3>1, <3>2
  <2>4. CreditedOnlyIfSettled' /\ KeyOnlyAfterPayment' /\ PrunedHeldNoDeposit'
    BY <2>0 DEF IInv, CreditedOnlyIfSettled, KeyOnlyAfterPayment, PrunedHeldNoDeposit, InvoicesOf
  <2> QED
    BY <2>1, <2>2, <2>3, <2>4 DEF IInv
<1>5. CASE CreditDeposit
  <2> USE <1>5 DEF CreditDeposit, Idle
  <2>1. TypeOK'
    <3>1. listener' \in [pc : {"idle", "read", "marked"}, inv : Invoices \cup {Nobody}]
      OBVIOUS
    <3>2. credits' \in [Invoices -> Nat]
      <4>1. listener.inv \in Invoices /\ credits \in [Invoices -> Nat]
        BY DEF IInv, TypeOK, SettledInv
      <4>2. credits' = credits \/ credits' = [credits EXCEPT ![listener.inv] = @ + 1]
        BY <4>1
      <4> HIDE <1>5
      <4> QED
        BY <4>1, <4>2
    <3> QED
      BY <3>1, <3>2 DEF IInv, TypeOK
  <2>2. MakingInv' /\ SettledInv' /\ ReadInv' /\ GoneInv'
    BY DEF IInv, TypeOK, MakingInv, SettledInv, ReadInv, GoneInv, IsSettled
  <2>3. DepositInv'
    BY DEF IInv, TypeOK, DepositInv, Owed, Shown
  <2>4. CreditedOnlyIfSettled' /\ KeyOnlyAfterPayment' /\ PrunedHeldNoDeposit'
    BY DEF IInv, TypeOK, CreditedOnlyIfSettled, KeyOnlyAfterPayment, PrunedHeldNoDeposit, InvoicesOf, GoneInv, SettledInv
  <2> QED
    BY <2>1, <2>2, <2>3, <2>4 DEF IInv
<1>6. CASE SettlementFails
  <2> USE <1>6 DEF SettlementFails, Fault, Idle
  <2>1. TypeOK'
    BY DEF IInv, TypeOK
  <2>2. MakingInv' /\ SettledInv' /\ ReadInv' /\ GoneInv'
    BY DEF IInv, TypeOK, MakingInv, SettledInv, ReadInv, GoneInv, IsSettled
  <2>3. DepositInv'
    <3> SUFFICES ASSUME NEW i \in Invoices
                 PROVE  credits[i] + Owed(i)' <= clobbered[i] + Shown(i)
      BY DEF DepositInv, Shown
    <3>1. credits[i] + Owed(i) <= clobbered[i] + Shown(i)
      BY DEF IInv, DepositInv
    <3>2. Owed(i)' = 0 /\ Owed(i) \in {0, 1} /\ Shown(i) \in {0, 1}
      BY DEF Owed, Shown
    <3> QED
      BY <3>1, <3>2 DEF IInv, TypeOK
  <2>4. CreditedOnlyIfSettled' /\ KeyOnlyAfterPayment' /\ PrunedHeldNoDeposit'
    BY DEF IInv, TypeOK, CreditedOnlyIfSettled, KeyOnlyAfterPayment, PrunedHeldNoDeposit, InvoicesOf
  <2> QED
    BY <2>1, <2>2, <2>3, <2>4 DEF IInv
<1>7. CASE StreamEnds
  <2> USE <1>7 DEF StreamEnds, Fault
  <2>1. TypeOK'
    <3>1. feed' \in Seq(Update) /\ connected' \in BOOLEAN /\ faults' \in Nat
      <4>1. faults \in Nat
        BY DEF IInv, TypeOK
      <4>2. feed' \in Seq(Update)
        OBVIOUS
      <4>3. faults' \in Nat
        BY <4>1
      <4>4. connected' \in BOOLEAN
        OBVIOUS
      <4> QED
        BY <4>2, <4>3, <4>4
    <3>2. UNCHANGED <<up, lnd, past, user, age, making, row, public, listener, reader,
                      told, revealed, credits, clobbered, pruned>>
      OBVIOUS
    <3> HIDE <1>7
    <3> QED
      BY <3>1, <3>2 DEF IInv, TypeOK
  <2>2. MakingInv' /\ SettledInv' /\ ReadInv' /\ GoneInv'
    BY DEF IInv, TypeOK, MakingInv, SettledInv, ReadInv, GoneInv, IsSettled
  <2>3. DepositInv'
    BY DEF IInv, TypeOK, DepositInv, Owed, Shown, IsSettled
  <2>4. CreditedOnlyIfSettled' /\ KeyOnlyAfterPayment' /\ PrunedHeldNoDeposit'
    BY DEF IInv, TypeOK, CreditedOnlyIfSettled, KeyOnlyAfterPayment, PrunedHeldNoDeposit, InvoicesOf
  <2> QED
    BY <2>1, <2>2, <2>3, <2>4 DEF IInv
<1> QED
  BY <1>1, <1>2, <1>3, <1>4, <1>5, <1>6, <1>7 DEF Listener, Handling

(* Status checks.                                                          *)
LEMMA StatusIInv == IInv /\ StatusChecks => IInv'
<1> SUFFICES ASSUME IInv, StatusChecks PROVE IInv'
  OBVIOUS
<1> USE OwnerAssumption, OpeningAssumption, FaultsAssumption DEF node, ledger
<1>1. ASSUME NEW r \in Readers, NEW i \in Invoices, CheckInvoice(r, i) PROVE IInv'
  <2> USE <1>1 DEF CheckInvoice, Found, HasRow, Answer, ShowsKey
  <2>1. TypeOK'
    BY DEF IInv, TypeOK, Status
  <2>2. MakingInv' /\ SettledInv' /\ ReadInv' /\ GoneInv'
    BY DEF IInv, TypeOK, MakingInv, SettledInv, ReadInv, GoneInv, IsSettled
  <2>3. DepositInv'
    BY DEF IInv, TypeOK, DepositInv, Owed, Shown, IsSettled
  <2>4. CreditedOnlyIfSettled' /\ KeyOnlyAfterPayment' /\ PrunedHeldNoDeposit'
    BY DEF IInv, TypeOK, CreditedOnlyIfSettled, KeyOnlyAfterPayment, PrunedHeldNoDeposit, InvoicesOf, SettledInv, Purpose
  <2> QED
    BY <2>1, <2>2, <2>3, <2>4 DEF IInv
<1>2. ASSUME NEW r \in Readers, MarkExpired(r) PROVE IInv'
  <2> USE <1>2 DEF MarkExpired, UpdateStatus, HasRow
  <2>1. TypeOK'
    BY DEF IInv, TypeOK, Status
  <2>2. MakingInv' /\ SettledInv' /\ ReadInv' /\ GoneInv'
    BY DEF IInv, TypeOK, MakingInv, SettledInv, ReadInv, GoneInv, IsSettled, Status
  <2>3. DepositInv'
    BY DEF IInv, TypeOK, DepositInv, Owed, Shown, IsSettled, Status
  <2>4. CreditedOnlyIfSettled' /\ KeyOnlyAfterPayment' /\ PrunedHeldNoDeposit'
    BY DEF IInv, TypeOK, CreditedOnlyIfSettled, KeyOnlyAfterPayment, PrunedHeldNoDeposit, InvoicesOf
  <2> QED
    BY <2>1, <2>2, <2>3, <2>4 DEF IInv
<1> QED
  BY <1>1, <1>2 DEF StatusChecks

(* The pruner, an administrator's delete, the process and the clock.       *)
LEMMA OperationsIInv == IInv /\ Operations => IInv'
<1> SUFFICES ASSUME IInv, Operations PROVE IInv'
  OBVIOUS
<1> USE OwnerAssumption, OpeningAssumption, FaultsAssumption DEF node, ledger
<1>1. CASE Prune
  <2>1. Cascades
    BY <1>1, DeletionCascades DEF Prune, IInv
  <2>2. UNCHANGED <<up, connected, feed, lnd, past, age, making, public, listener,
                    reader, told, revealed, credits, clobbered, faults>>
    BY <1>1 DEF Prune
  <2>3. /\ pruned' \in SUBSET Accounts
        /\ \A a \in pruned' : user'[a] = "deleted"
    <3>1. \A a \in Prunable : a \in Accounts /\ user'[a] = "deleted"
      BY <1>1 DEF Prune, DeleteUsers, Prunable, IInv, TypeOK
    <3> QED
      BY <1>1, <2>1, <3>1 DEF Prune, IInv, TypeOK, GoneInv, Cascades
  <2>4. PrunedHeldNoDeposit'
    <3> SUFFICES ASSUME NEW a \in pruned', NEW i \in InvoicesOf(a), credits[i] > 0
                 PROVE  clobbered[i] > 0
      BY <2>2 DEF PrunedHeldNoDeposit, InvoicesOf
    <3>1. CASE a \in pruned
      BY <3>1 DEF IInv, PrunedHeldNoDeposit
    <3>2. CASE a \in Prunable
      <4>1. i \in Invoices /\ row[i] \notin {"paid", "gone"}
        BY <3>2 DEF Prunable, InvoicesOf, IInv, GoneInv
      <4>2. credits[i] + Owed(i) <= clobbered[i] /\ Owed(i) \in {0, 1}
        BY <4>1 DEF IInv, TypeOK, DepositInv, Shown, Owed
      <4> QED
        BY <4>1, <4>2 DEF IInv, TypeOK
    <3> QED
      BY <1>1, <3>1, <3>2 DEF Prune
  <2> QED
    BY <2>1, <2>2, <2>3, <2>4, DeletionIInv DEF IInv, TypeOK
<1>2. ASSUME NEW a \in Accounts, DeleteUser(a) PROVE IInv'
  <2>1. Cascades
    BY <1>2, DeletionCascades DEF DeleteUser, IInv
  <2>2. /\ UNCHANGED <<up, connected, feed, lnd, past, age, making, public, listener,
                       reader, told, revealed, credits, clobbered, pruned>>
        /\ faults' \in Nat
    BY <1>2 DEF DeleteUser, Fault, IInv, TypeOK
  <2>3. /\ pruned' \in SUBSET Accounts
        /\ \A b \in pruned' : user'[b] = "deleted"
    BY <2>1, <2>2 DEF IInv, TypeOK, GoneInv, Cascades
  <2>4. PrunedHeldNoDeposit'
    BY <2>2 DEF IInv, PrunedHeldNoDeposit, InvoicesOf
  <2> QED
    BY <2>1, <2>2, <2>3, <2>4, DeletionIInv DEF IInv, TypeOK
<1>3. CASE Crash
  <2> USE <1>3 DEF Crash, Fault, Idle
  <2>1. TypeOK'
    <3>1. /\ feed' \in Seq(Update)
          /\ listener' \in [pc : {"idle", "read", "marked"}, inv : Invoices \cup {Nobody}]
      OBVIOUS
    <3>2. making' \in [Invoices -> {"idle", "user", "keyed", "lnd", "stored", "done", "failed"}]
      BY DEF IInv, TypeOK
    <3>3. reader' \in [Readers -> Invoices \cup {Nobody}] /\ faults' \in Nat
      BY DEF IInv, TypeOK
    <3>4. /\ up' = FALSE /\ connected' = FALSE
          /\ UNCHANGED <<lnd, past, user, age, row, public, told, revealed,
                         credits, clobbered, pruned>>
      OBVIOUS
    <3> HIDE <1>3
    <3> QED
      BY <3>1, <3>2, <3>3, <3>4 DEF IInv, TypeOK
  <2>2. MakingInv' /\ SettledInv' /\ ReadInv' /\ GoneInv'
    BY DEF IInv, MakingInv, SettledInv, ReadInv, GoneInv
  <2>3. DepositInv'
    <3> SUFFICES ASSUME NEW i \in Invoices
                 PROVE  credits[i] + Owed(i)' <= clobbered[i] + Shown(i)
      BY DEF DepositInv, Shown
    <3>1. credits[i] + Owed(i) <= clobbered[i] + Shown(i)
      BY DEF IInv, DepositInv
    <3>2. Owed(i)' = 0 /\ Owed(i) \in {0, 1} /\ Shown(i) \in {0, 1}
      BY DEF Owed, Shown
    <3> QED
      BY <3>1, <3>2 DEF IInv, TypeOK
  <2>4. CreditedOnlyIfSettled' /\ KeyOnlyAfterPayment' /\ PrunedHeldNoDeposit'
    BY DEF IInv, CreditedOnlyIfSettled, KeyOnlyAfterPayment, PrunedHeldNoDeposit, InvoicesOf
  <2> QED
    BY <2>1, <2>2, <2>3, <2>4 DEF IInv
<1>4. ASSUME Restart \/ \E a \in Accounts : DaysPass(a) PROVE IInv'
  <2> USE <1>4 DEF Restart, DaysPass
  <2>1. TypeOK'
    <3>1. up' \in BOOLEAN /\ age' \in [Accounts -> {"fresh", "prunable", "old"}]
      <4>1. up \in BOOLEAN /\ age \in [Accounts -> {"fresh", "prunable", "old"}]
        BY DEF IInv, TypeOK
      <4> QED
        BY <4>1
    <3>2. UNCHANGED <<connected, feed, lnd, past, user, making, row, public, listener,
                      reader, told, revealed, credits, clobbered, pruned, faults>>
      OBVIOUS
    <3> HIDE <1>4
    <3> QED
      BY <3>1, <3>2 DEF IInv, TypeOK
  <2>2. MakingInv' /\ SettledInv' /\ ReadInv' /\ GoneInv'
    BY DEF IInv, MakingInv, SettledInv, ReadInv, GoneInv
  <2>3. DepositInv'
    BY DEF IInv, DepositInv, Owed, Shown
  <2>4. CreditedOnlyIfSettled' /\ KeyOnlyAfterPayment' /\ PrunedHeldNoDeposit'
    BY DEF IInv, CreditedOnlyIfSettled, KeyOnlyAfterPayment, PrunedHeldNoDeposit, InvoicesOf
  <2> QED
    BY <2>1, <2>2, <2>3, <2>4 DEF IInv
<1> QED
  BY <1>1, <1>2, <1>3, <1>4 DEF Operations

LEMMA NextIInv == IInv /\ [Next]_vars => IInv'
<1> SUFFICES ASSUME IInv, [Next]_vars PROVE IInv'
  OBVIOUS
<1>1. CASE UNCHANGED vars
  <2> USE <1>1 DEF vars
  <2>1. TypeOK' /\ MakingInv' /\ SettledInv' /\ ReadInv' /\ GoneInv'
    BY DEF IInv, TypeOK, MakingInv, SettledInv, ReadInv, GoneInv
  <2>2. DepositInv'
    BY DEF IInv, DepositInv, Owed, Shown
  <2>3. CreditedOnlyIfSettled' /\ KeyOnlyAfterPayment' /\ PrunedHeldNoDeposit'
    BY DEF IInv, CreditedOnlyIfSettled, KeyOnlyAfterPayment, PrunedHeldNoDeposit, InvoicesOf
  <2> QED
    BY <2>1, <2>2, <2>3 DEF IInv
<1>2. CASE Next
  BY <1>2, CreateIInv, EnvironmentIInv, ListenerIInv, StatusIInv, OperationsIInv DEF Next
<1> QED
  BY <1>1, <1>2

(* The inductive invariant of the invoices and their credits.              *)
THEOREM Invariance == Spec => []IInv
BY InitIInv, NextIInv, PTL DEF Spec

(* The variables keep their types, for every number of accounts, invoices, *)
(* status checks and faults.                                               *)
THEOREM TypeCorrect == Spec => []TypeOK
<1>1. IInv => TypeOK
  BY DEF IInv
<1> QED
  BY <1>1, Invariance, PTL

(* handle_settlement credits a balance only for an invoice that LND has    *)
(* settled.                                                                *)
THEOREM NoFreeCredit == Spec => []CreditedOnlyIfSettled
<1>1. IInv => CreditedOnlyIfSettled
  BY DEF IInv
<1> QED
  BY <1>1, Invariance, PTL

(* status_for shows an account's key only after its opening invoice was    *)
(* settled.                                                                *)
THEOREM NoFreeKey == Spec => []KeyOnlyAfterPayment
<1>1. IInv => KeyOnlyAfterPayment
  BY DEF IInv
<1> QED
  BY <1>1, Invariance, PTL

(* The already-paid check of handle_settlement: an invoice is credited     *)
(* once, and once more for each time another UPDATE replaced its "paid".   *)
THEOREM OneDepositPerPayment == Spec => []CreditsBounded
<1>1. IInv => CreditsBounded
  <2> SUFFICES ASSUME IInv, NEW i \in Invoices PROVE credits[i] <= 1 + clobbered[i]
    BY DEF CreditsBounded
  <2>1. credits[i] + Owed(i) <= clobbered[i] + Shown(i)
    BY DEF IInv, DepositInv
  <2>2. Owed(i) \in {0, 1} /\ Shown(i) \in {0, 1}
    BY DEF Owed, Shown
  <2> QED
    BY <2>1, <2>2 DEF IInv, TypeOK
<1> QED
  BY <1>1, Invariance, PTL

(* prune_unpaid_anonymous_users deletes no deposit, unless an UPDATE had   *)
(* replaced the "paid" of its invoice.                                     *)
THEOREM PrunerSparesDeposits == Spec => []PrunedHeldNoDeposit
<1>1. IInv => PrunedHeldNoDeposit
  BY DEF IInv
<1> QED
  BY <1>1, Invariance, PTL

---------------------------------------------------------------------------
(* Discovery: the key and the loop that announces.                         *)

Running == phase \in {"poll", "awake", "read"}

KeysInv ==
  /\ \A l \in Loaders : loader[l].at \in {"stored", "loaded"} => identity # NoKey
  /\ \A l \in Loaders : loader[l].at = "loaded" => loader[l].key = identity
  /\ Running => loader["run"].at = "loaded"
  /\ \A r \in Relays : relay[r].by \in {NoKey, identity}

IdentityInv == DiscoveryTypeOK /\ KeysInv

LEMMA Values ==
  /\ NoKey \in Keys /\ NoAnnouncement \in Announcement
  /\ NoAttempts \in 0..NoAttempts /\ 0 \in 0..NoAttempts
  /\ Never \in [models : SUBSET Models, age : 0..(Refresh + 1)]
  /\ Started \in [at : {"start", "missing", "stored", "loaded"}, key : Keys]
  /\ "run" \in Loaders
BY DiscoveryAssumption DEF NoKey, Keys, NoAnnouncement, Announcement, NoAttempts, Never,
                           Started, Loaders

-----------------------------------------------------------------------------
LEMMA IdentityInitInv == DiscoveryInit => IdentityInv
<1> SUFFICES ASSUME DiscoveryInit PROVE IdentityInv
  OBVIOUS
<1>1. DiscoveryTypeOK
  <2>1. pricing \in [Models -> Row \cup {Absent}]
    BY DEF DiscoveryInit, Row
  <2> QED
    BY <2>1, Values, DiscoveryAssumption DEF DiscoveryInit, DiscoveryTypeOK
<1>2. KeysInv
  BY DEF DiscoveryInit, KeysInv, Running, Started, NoAnnouncement
<1> QED
  BY <1>1, <1>2 DEF IdentityInv

(* Prices are of no concern to the keys, and the other way round.          *)
LEMMA OfferStep ==
  ASSUME IdentityInv, \/ \E m \in Models : DeletePricing(m) \/ \E r \in Row : CreatePricing(m, r)
               \/ \E e \in Editors : WritePricing(e) \/ \E m \in Models : ReadPricing(e, m)
  PROVE  IdentityInv'
<1> USE DiscoveryAssumption DEF IdentityInv, DiscoveryTypeOK
<1>1. UNCHANGED <<keys, loop, relay, alive, mishaps>>
  BY DEF DeletePricing, CreatePricing, WritePricing, ReadPricing
<1>2. /\ pricing' \in [Models -> Row \cup {Absent}]
      /\ edit' \in [Editors -> {<<>>} \cup (Models \X Row)]
      /\ edits' \in 0..MaxEdits
  <2>1. ASSUME NEW m \in Models, DeletePricing(m) PROVE <1>2!1 /\ <1>2!2 /\ <1>2!3
    BY <2>1 DEF DeletePricing, Edits
  <2>2. ASSUME NEW m \in Models, NEW r \in Row, CreatePricing(m, r)
        PROVE  <1>2!1 /\ <1>2!2 /\ <1>2!3
    BY <2>2 DEF CreatePricing, Edits
  <2>3. ASSUME NEW e \in Editors, WritePricing(e) PROVE <1>2!1 /\ <1>2!2 /\ <1>2!3
    <3>1. edit[e] \in Models \X Row
      BY <2>3 DEF WritePricing
    <3> QED
      BY <2>3, <3>1 DEF WritePricing
  <2>4. ASSUME NEW e \in Editors, NEW m \in Models, ReadPricing(e, m)
        PROVE  <1>2!1 /\ <1>2!2 /\ <1>2!3
    <3>1. pricing[m] \in Row
      BY <2>4 DEF ReadPricing
    <3>2. \A a \in BOOLEAN, p \in Prices :
            [pricing[m] EXCEPT !.advertised = a] \in Row /\ [pricing[m] EXCEPT !.price = p] \in Row
      BY <3>1 DEF Row
    <3>3. PICK merged \in Row : edit' = [edit EXCEPT ![e] = <<m, merged>>]
      BY <2>4, <3>2 DEF ReadPricing
    <3> QED
      BY <2>4, <3>3 DEF ReadPricing, Edits
  <2> QED
    BY <2>1, <2>2, <2>3, <2>4
<1> QED
  BY <1>1, <1>2 DEF keys, loop, KeysInv, Running

(* The key is loaded.                                                      *)
LEMMA LoadStep ==
  ASSUME IdentityInv, NEW l \in Loaders, Load(l) \/ ShowNpub(l)
  PROVE  IdentityInv'
<1> USE DiscoveryAssumption, Values DEF IdentityInv, DiscoveryTypeOK, offer, loop
<1> DEFINE L == [at : {"start", "missing", "stored", "loaded"}, key : Keys]
<1>1. \A x \in L : x.at \in {"start", "missing", "stored", "loaded"} /\ x.key \in Keys
  OBVIOUS
<1>2. l = "run" /\ ~ShowNpub(l) => ~Running
  BY DEF Load, Running
<1>3. l = "run" => ~ShowNpub(l)
  BY DEF ShowNpub
<1>4. CASE LookUpKey(l)
  <2>1. \A at \in {"missing", "stored"} : [loader[l] EXCEPT !.at = at] \in L
    OBVIOUS
  <2>2. loader' \in [Loaders -> L]
    BY <1>4, <2>1 DEF LookUpKey
  <2>3. /\ \A k \in Loaders \ {l} : loader'[k] = loader[k]
        /\ loader'[l].at = IF identity = NoKey THEN "missing" ELSE "stored"
    BY <1>1, <1>4 DEF LookUpKey
  <2>4. UNCHANGED <<offer, identity, loop, relay, alive, mishaps>>
    BY <1>4 DEF LookUpKey
  <2>5. l = "run" => ~Running
    BY <1>2, <1>3
  <2> HIDE DEF L
  <2>6. KeysInv'
    BY <2>3, <2>4, <2>5 DEF KeysInv, Running
  <2> QED
    BY <2>2, <2>4, <2>6 DEF L
<1>5. CASE InsertKey(l)
  <2>1. <<l, mishaps>> \in Keys /\ <<l, mishaps>> # NoKey
    BY DEF Keys, NoKey
  <2>2. identity' = IF identity = NoKey THEN <<l, mishaps>> ELSE identity
    BY <1>5 DEF InsertKey, Inserted
  <2>3. [at |-> "stored", key |-> <<l, mishaps>>] \in L
    BY <2>1
  <2>4. loader' = [loader EXCEPT ![l] = [at |-> "stored", key |-> <<l, mishaps>>]]
    BY <1>5 DEF InsertKey
  <2>5. loader' \in [Loaders -> L] /\ identity' \in Keys
    BY <2>1, <2>2, <2>3, <2>4
  <2>6. UNCHANGED <<offer, loop, relay, alive, mishaps>>
    BY <1>5 DEF InsertKey
  <2>7. l = "run" => ~Running
    BY <1>2, <1>3
  <2>8. loader'[l].at = "stored" /\ \A k \in Loaders \ {l} : loader'[k] = loader[k]
    BY <2>4
  <2> HIDE DEF L
  <2>9. KeysInv'
    BY <2>1, <2>2, <2>6, <2>7, <2>8 DEF KeysInv, Running
  <2> QED
    BY <2>5, <2>6, <2>9 DEF L
<1>6. CASE RereadKey(l)
  <2>1. loader' = [loader EXCEPT ![l] = [at |-> "loaded", key |-> identity]]
    BY <1>6 DEF RereadKey, KeyInUse
  <2>2. loader' \in [Loaders -> L]
    BY <2>1
  <2>3. UNCHANGED <<offer, identity, loop, relay, alive, mishaps>> /\ identity # NoKey
    BY <1>6 DEF RereadKey, KeysInv
  <2>4. /\ loader'[l].at = "loaded" /\ loader'[l].key = identity
        /\ \A k \in Loaders \ {l} : loader'[k] = loader[k]
    BY <2>1
  <2> HIDE DEF L
  <2>5. KeysInv'
    BY <2>3, <2>4 DEF KeysInv, Running
  <2> QED
    BY <2>2, <2>3, <2>5 DEF L
<1>7. CASE ShowNpub(l) \/ LoadFails(l)
  <2>1. loader' = [loader EXCEPT ![l] = Started]
    BY <1>7 DEF ShowNpub, LoadFails
  <2>2. loader' \in [Loaders -> L]
    BY <2>1
  <2>3. /\ UNCHANGED <<pricing, edit, edits, identity, listing, published, attempts, relay, alive>>
        /\ phase' \in {phase, "stopped"} /\ mishaps' \in 0..MaxMishaps
        /\ l = "run" => phase' = "stopped"
    BY <1>3, <1>7 DEF ShowNpub, LoadFails, Mishap
  <2>4. loader'[l].at = "start" /\ \A k \in Loaders \ {l} : loader'[k] = loader[k]
    BY <2>1 DEF Started
  <2> HIDE DEF L
  <2>5. KeysInv'
    BY <2>3, <2>4 DEF KeysInv, Running
  <2> QED
    BY <2>2, <2>3, <2>5 DEF L
<1> QED
  BY <1>4, <1>5, <1>6, <1>7 DEF Load

(* The loop, which signs with the key that it has loaded.                  *)
LEMMA RoundsStep ==
  ASSUME IdentityInv, Rounds
  PROVE  IdentityInv'
<1> USE DiscoveryAssumption, Values DEF IdentityInv, DiscoveryTypeOK, offer, keys
<1>1. CASE EnterLoop
  BY <1>1 DEF EnterLoop, KeysInv, Running
<1>2. CASE ReadOffer
  <2>1. listing' \in SUBSET Models /\ mishaps' \in 0..MaxMishaps
    BY <1>2 DEF ReadOffer, Advertised, Mishap
  <2> QED
    BY <1>2, <2>1 DEF ReadOffer, KeysInv, Running
<1>3. CASE NotDue
  BY <1>3 DEF NotDue, Sleeps, KeysInv, Running
<1>4. ASSUME NEW a \in SUBSET Relays, Announce(a) PROVE IdentityInv'
  <2> DEFINE said == [by |-> loader["run"].key, models |-> listing]
  <2>1. said \in Announcement /\ said.by = identity
    BY <1>4 DEF Announce, KeysInv, Running, Announcement
  <2>2. \A r \in Relays : relay'[r] = said \/ relay'[r] = relay[r]
    BY <1>4 DEF Announce
  <2>3. relay' \in [Relays -> Announcement]
    BY <1>4, <2>1 DEF Announce
  <2>4. published' \in [models : SUBSET Models, age : 0..(Refresh + 1)]
    BY <1>4 DEF Announce
  <2>5. attempts' \in 0..NoAttempts
    BY <1>4 DEF Announce, Attempts, NoAttempts
  <2>6. mishaps' \in 0..MaxMishaps /\ phase' \in {"awake", "poll"} /\ phase = "read"
    BY <1>4 DEF Announce, Mishap, Sleeps
  <2>7. UNCHANGED <<pricing, edit, edits, identity, loader, listing, alive>>
    BY <1>4 DEF Announce
  <2> HIDE DEF said
  <2>8. KeysInv'
    BY <2>1, <2>2, <2>6, <2>7 DEF KeysInv, Running
  <2> QED
    BY <2>3, <2>4, <2>5, <2>6, <2>7, <2>8
<1>5. CASE PollPasses
  <2>1. [published EXCEPT !.age = OlderPublished(published.age)]
          \in [models : SUBSET Models, age : 0..(Refresh + 1)]
    BY SMTT(40) DEF OlderPublished
  <2> QED
    BY <1>5, <2>1 DEF PollPasses, KeysInv, Running
<1> QED
  BY <1>1, <1>2, <1>3, <1>4, <1>5 DEF Rounds

(* Relays come and go; a restart keeps the row and the relays.             *)
LEMMA WorldStep ==
  ASSUME IdentityInv, (\E r \in Relays : RelayDies(r) \/ RelayReturns(r)) \/ Reboot
               \/ UNCHANGED discovery
  PROVE  IdentityInv'
<1> USE DiscoveryAssumption, Values DEF IdentityInv, DiscoveryTypeOK, offer, keys, loop
<1>1. CASE \E r \in Relays : RelayDies(r) \/ RelayReturns(r)
  BY <1>1 DEF RelayDies, RelayReturns, Mishap, KeysInv, Running
<1>2. CASE Reboot
  BY <1>2 DEF Reboot, Mishap, KeysInv, Running, Started
<1>3. CASE UNCHANGED discovery
  BY <1>3 DEF discovery, KeysInv, Running
<1> QED
  BY <1>1, <1>2, <1>3

LEMMA IdentityInvariant == DiscoverySpec => []IdentityInv
<1>1. IdentityInv /\ [DiscoveryNext]_discovery => IdentityInv'
  BY OfferStep, LoadStep, RoundsStep, WorldStep DEF DiscoveryNext
<1> QED
  BY IdentityInitInv, <1>1, PTL DEF DiscoverySpec

-----------------------------------------------------------------------------
(* The variables of the announcements keep their types.                    *)
THEOREM AnnouncementsTypeCorrect == DiscoverySpec => []DiscoveryTypeOK
<1>1. IdentityInv => DiscoveryTypeOK
  BY DEF IdentityInv
<1> QED
  BY <1>1, IdentityInvariant, PTL

(* Whoever generates a key, whenever the server restarts: what relays hold *)
(* and what a page shows is signed by the key of the row.                  *)
THEOREM IdentityIsOne == DiscoverySpec => []OneIdentity
<1>1. IdentityInv => OneIdentity
  BY DEF IdentityInv, KeysInv, OneIdentity
<1> QED
  BY <1>1, IdentityInvariant, PTL

---------------------------------------------------------------------------
(* Catalog: the listing and the caches behind it.                          *)

(* An entry is younger than its TTL; what upstream said is as old as the   *)
(* entry, but for what it had aged in the caches below.                    *)
Stands(entry, ttl, more) ==
  entry # NoEntry =>
    /\ entry \in Entries /\ entry.held < ttl
    /\ entry.what.src = "upstream" => entry.what.age <= entry.held + more
Below(info) == IF info = "keeps" THEN ShortTTL - 1 ELSE 0
LastingInv(d) == d \in Data /\ (d = Nothing \/ d.src \in {"static", "undated"})

CachesInv ==
  /\ Stands(models_cache, TTL, 0)
  /\ models_cache # NoEntry => models_cache.what.src = "upstream"
  /\ Stands(info_cache, ShortTTL, 0)
  /\ info_cache # NoEntry => profile.info = "keeps"
  /\ Stands(modality_cache, TTL, 0)
  /\ Stands(limits_cache, TTL, Below(profile.info))
  /\ LastingInv(model_cache)

ToldInv(t, expects, info) ==
  /\ t.what.src = "upstream" =>
       t.what.age < IF t.on = "limits" /\ info = "keeps"
                    THEN TTL + ShortTTL - 1 ELSE TTL
  /\ t.on = "models" => Stays(expects, t.what)

CallInv(c) ==
  /\ Stays(call[c].expects, model_cache)
  /\ call[c].at = "heard" /\ call[c].asks = "info" => profile.info = "keeps"
  /\ ToldInv(call[c].told, call[c].expects, profile.info)

CatalogInv ==
  /\ CachesInv
  /\ call \in [Calls -> Locals]
  /\ \A c \in Calls : CallInv(c)

\* A call is promised as much by the last good listing after a step.
StandsIn(before, after) ==
  \A expects : Stays(expects, before) => Stays(expects, after)

LEMMA Bounds ==
  /\ TTL \in Nat /\ ShortTTL \in Nat /\ Cap \in Nat
  /\ 0 < TTL /\ 0 < ShortTTL /\ Cap = TTL + ShortTTL /\ ShortTTL <= TTL
BY CatalogAssumption DEF Cap

LEMMA DataValues ==
  /\ {Nothing, Static, Undated, Listing} \subseteq Data
  /\ \A reply : Fresh(reply) \in Data
  /\ Nothing.src = "none" /\ Static.src = "static" /\ Undated.src = "undated"
  /\ Listing.src = "upstream" /\ Listing.age = 0
  /\ \A reply : Fresh(reply).src = "upstream" /\ Fresh(reply).age = 0
  /\ \A d \in Data : d.src # "none" =>
       LastGood(d) \in Data /\ LastGood(d).src \in {"static", "undated"}
<1>1. 0 \in 0..Cap
  BY Bounds
<1>2. {Nothing, Static, Undated, Listing} \subseteq Data
  BY <1>1 DEF Nothing, Static, Undated, Listing, Data
<1>3. ASSUME NEW reply PROVE Fresh(reply) \in Data /\ Fresh(reply).src = "upstream"
                             /\ Fresh(reply).age = 0
  <2> PICK b \in BOOLEAN : b <=> reply = "full"
    OBVIOUS
  <2>1. Fresh(reply) = [src |-> "upstream", age |-> 0, full |-> b]
    BY DEF Fresh
  <2> QED
    BY <1>1, <2>1 DEF Data
<1>4. ASSUME NEW d \in Data, d.src # "none"
      PROVE  LastGood(d) \in Data /\ LastGood(d).src \in {"static", "undated"}
  <2> PICK src : src = IF d.src = "upstream" THEN "undated" ELSE d.src
    OBVIOUS
  <2>1. src \in {"static", "undated"}
    BY <1>4 DEF Data
  <2>2. LastGood(d) = [d EXCEPT !.src = src, !.age = 0]
    BY DEF LastGood
  <2> QED
    BY <1>1, <2>1, <2>2 DEF Data
<1> QED
  BY <1>2, <1>3, <1>4 DEF Nothing, Static, Undated, Listing

LEMMA Fields ==
  /\ NoCall \in Locals /\ NoCall.expects = "none" /\ NoCall.told = Silent
  /\ Silent \in Told /\ Silent.on = "nothing" /\ Silent.what = Nothing
<1>1. <<>> \in Seq(Errands)
  OBVIOUS
<1>2. Silent \in Told /\ Silent.on = "nothing" /\ Silent.what = Nothing
  BY DataValues DEF Silent, Told
<1> QED
  BY <1>1, <1>2 DEF NoCall, Locals, Replies

LEMMA CatalogInitInv == CatalogInit => CatalogInv
<1> SUFFICES ASSUME CatalogInit PROVE CatalogInv
  OBVIOUS
<1>1. CachesInv
  BY DataValues DEF CatalogInit, CachesInv, Stands, LastingInv
<1>2. \A c \in Calls : call[c] = NoCall
  BY DEF CatalogInit
<1>3. NoCall.at = "idle" /\ Silent.what.src # "upstream"
  BY DEF NoCall, Silent, Nothing
<1>4. ASSUME NEW c \in Calls PROVE CallInv(c)
  BY <1>2, <1>3, Fields DEF CallInv, ToldInv, Stays, Silent, Nothing
<1> QED
  BY <1>1, <1>4, Fields DEF CatalogInit, CatalogInv

(* A step of one request.                                                  *)
LEMMA CallStep ==
  ASSUME CatalogInv, NEW c \in Calls, NEW h \in Locals, call' = [call EXCEPT ![c] = h],
         kind' = kind, CachesInv', StandsIn(model_cache, model_cache'),
         Stays(h.expects, model_cache'),
         h.at = "heard" /\ h.asks = "info" => profile.info = "keeps",
         ToldInv(h.told, h.expects, profile.info)
  PROVE  CatalogInv'
<1>1. call \in [Calls -> Locals] /\ profile' = profile
  BY DEF CatalogInv, profile
<1>2. ASSUME NEW d \in Calls PROVE CallInv(d)'
  <2> PICK g : g = call'[d]
    OBVIOUS
  <2>1. CASE d = c
    <3>1. g = h
      BY <1>1, <2>1
    <3> QED
      BY <1>1, <3>1 DEF CallInv, ToldInv, Stays, HasOwnList
  <2>2. CASE d # c
    <3>1. g = call[d] /\ Stays(g.expects, model_cache')
      BY <1>1, <2>2 DEF CallInv, CatalogInv, StandsIn
    <3> QED
      BY <1>1, <3>1 DEF CallInv, CatalogInv, ToldInv, Stays, HasOwnList
  <2> QED
    BY <2>1, <2>2
<1> QED
  BY <1>1, <1>2 DEF CatalogInv

(* A request that tells something has an errand.                           *)
LEMMA TellStep ==
  ASSUME CatalogInv, NEW c \in Calls, NEW d \in Data, Tell(c, d), NEW errand,
         Doing(c, errand), kind' = kind, CachesInv', StandsIn(model_cache, model_cache'),
         d.src = "upstream" => d.age < IF errand = "limits" /\ profile.info = "keeps"
                                       THEN TTL + ShortTTL - 1 ELSE TTL,
         errand = "models" => Stays(call[c].expects, d)
  PROVE  CatalogInv'
<1> PICK g : g = call[c]
  OBVIOUS
<1>1. g \in Locals /\ g.errands \in Seq(Errands) /\ g.errands # <<>> /\ Head(g.errands) = errand
  BY DEF CatalogInv, Locals, Doing
<1>2. errand \in Errands /\ Tail(g.errands) \in Seq(Errands)
  BY <1>1, HeadTailProperties
<1> PICK rest : rest = IF errand = "models" /\ d = Nothing THEN <<>> ELSE Tail(g.errands)
  OBVIOUS
<1> PICK heard, at : /\ heard = [on |-> errand, what |-> d]
                     /\ at = IF rest = <<>> THEN "done" ELSE "next"
  OBVIOUS
<1>3. rest \in Seq(Errands) /\ heard \in Told /\ at \in {"done", "next"}
  BY <1>2 DEF Told
<1> PICK asks, reply : asks = NoCall.asks /\ reply = NoCall.reply
  OBVIOUS
<1> PICK h : h = [g EXCEPT !.told = heard, !.errands = rest, !.asks = asks,
                           !.reply = reply, !.at = at]
  OBVIOUS
<1>4. asks \in {"models", "info"} /\ reply \in Replies
  BY Fields DEF Locals
<1>5. h = [op |-> g.op, errands |-> rest, at |-> at, asks |-> asks, reply |-> reply,
           told |-> heard, expects |-> g.expects]
  BY <1>1 DEF Locals
<1>6. /\ h \in Locals /\ h.told = heard /\ h.at = at /\ h.expects = g.expects
  BY <1>1, <1>3, <1>4, <1>5 DEF Locals
<1>7. call' = [call EXCEPT ![c] = h]
  BY <1>1 DEF Tell, CatalogInv
<1>8. ToldInv(heard, g.expects, profile.info)
  BY DEF ToldInv
<1>9. Stays(g.expects, model_cache')
  BY DEF CatalogInv, CallInv, StandsIn
<1> QED
  BY <1>3, <1>6, <1>7, <1>8, <1>9, CallStep

LEMMA AskStep ==
  ASSUME CatalogInv, NEW c \in Calls, NEW what \in {"models", "info"}, Ask(c, what),
         UNCHANGED <<kind, available, of_provider, of_server>>
  PROVE  CatalogInv'
<1> PICK g : g = call[c]
  OBVIOUS
<1> PICK h : h = [g EXCEPT !.at = "asks", !.asks = what, !.told = Silent]
  OBVIOUS
<1>1. g \in Locals
  BY DEF CatalogInv
<1>2. h \in Locals /\ h.at = "asks" /\ h.told = Silent /\ h.expects = g.expects
  BY <1>1, Fields DEF Locals
<1>3. call' = [call EXCEPT ![c] = h]
  BY <1>1 DEF Ask, CatalogInv
<1>4. CachesInv' /\ model_cache' = model_cache
  BY DEF CatalogInv, CachesInv, of_provider, of_server, profile
<1>5. ToldInv(Silent, h.expects, profile.info)
  BY Fields, DataValues DEF ToldInv
<1>6. Stays(g.expects, model_cache)
  BY DEF CatalogInv, CallInv
<1> QED
  BY <1>2, <1>3, <1>4, <1>5, <1>6, CallStep DEF StandsIn

LEMMA CachesRest ==
  ASSUME CatalogInv, UNCHANGED <<kind, models_cache, info_cache, of_server>>
  PROVE  CachesInv' /\ model_cache' = model_cache
BY DEF CatalogInv, CachesInv, of_server, profile

(* A request that moves on without telling anything.                       *)
LEMMA GoesStep ==
  ASSUME CatalogInv, NEW c \in Calls, NEW at \in {"heard", "mapped", "kept"}, Goes(c, at),
         kind' = kind, CachesInv', model_cache' = model_cache,
         at # "heard"
  PROVE  CatalogInv'
<1> PICK g, h : g = call[c] /\ h = [g EXCEPT !.at = at]
  OBVIOUS
<1>1. g \in Locals
  BY DEF CatalogInv
<1>2. h \in Locals /\ h.at = at /\ h.told = g.told /\ h.expects = g.expects
  BY <1>1 DEF Locals
<1>3. call' = [call EXCEPT ![c] = h]
  BY <1>1 DEF Goes, CatalogInv
<1>4. /\ Stays(g.expects, model_cache)
      /\ ToldInv(g.told, g.expects, profile.info)
  BY DEF CatalogInv, CallInv
<1> QED
  BY <1>2, <1>3, <1>4, CallStep DEF StandsIn

LEMMA StartStep ==
  ASSUME CatalogInv, NEW c \in Calls, NEW op \in {"listing", "sync", "voices"},
         NEW configured \in BOOLEAN, Start(c, op, configured)
  PROVE  CatalogInv'
<1> PICK plan : plan = Plan(op, configured)
  OBVIOUS
<1> PICK expects : expects = IF op = "listing" THEN model_cache.src ELSE "none"
  OBVIOUS
<1>0. expects \in {"none", "static", "undated"} /\ Stays(expects, model_cache)
  BY DataValues DEF CatalogInv, CachesInv, LastingInv, Stays
<1>1. plan \in Seq(Errands)
  <2>1. /\ <<"modalities", "models", "modalities">> \in Seq(Errands)
        /\ <<"limits", "modalities", "models", "limits", "modalities">> \in Seq(Errands)
        /\ <<"models", "info">> \in Seq(Errands) /\ <<"voices">> \in Seq(Errands)
    BY DEF Errands
  <2> QED
    BY <2>1 DEF Plan
<1> PICK h : h = [NoCall EXCEPT !.op = op, !.errands = plan, !.at = "next", !.expects = expects]
  OBVIOUS
<1>2. h \in Locals /\ h.at = "next" /\ h.told = Silent /\ h.expects = expects
  BY <1>0, <1>1, Fields DEF Locals
<1>3. call' = [call EXCEPT ![c] = h]
  BY DEF Start
<1>4. CachesInv' /\ model_cache' = model_cache /\ kind' = kind
  BY CachesRest DEF Start, of_provider
<1>5. ToldInv(Silent, expects, profile.info)
  BY Fields, DataValues DEF ToldInv
<1> QED
  BY <1>0, <1>2, <1>3, <1>4, <1>5, CallStep DEF StandsIn

LEMMA ReturnStep ==
  ASSUME CatalogInv, NEW c \in Calls, Return(c)
  PROVE  CatalogInv'
<1>1. CachesInv' /\ model_cache' = model_cache /\ kind' = kind
  BY CachesRest DEF Return, of_provider
<1>2. /\ ToldInv(Silent, "none", profile.info) /\ NoCall.at # "heard"
      /\ Stays(NoCall.expects, model_cache)
  BY Fields, DataValues DEF ToldInv, NoCall, Stays
<1>3. call' = [call EXCEPT ![c] = NoCall]
  BY DEF Return
<1> QED
  BY <1>1, <1>2, <1>3, Fields, CallStep DEF StandsIn

LEMMA AnswerStep ==
  ASSUME CatalogInv, NEW c \in Calls, NEW reply \in Replies, Responds(c, reply)
  PROVE  CatalogInv'
<1> PICK g, at : g = call[c] /\ at = IF IsKept(call[c].asks, reply) THEN "heard" ELSE "kept"
  OBVIOUS
<1> PICK h : h = [g EXCEPT !.reply = reply, !.at = at]
  OBVIOUS
<1>1. g \in Locals
  BY DEF CatalogInv
<1>2. h \in Locals /\ h.at = at /\ h.asks = g.asks /\ h.told = g.told /\ h.expects = g.expects
  BY <1>1 DEF Locals
<1>3. call' = [call EXCEPT ![c] = h]
  BY <1>1 DEF Responds, CatalogInv
<1>4. /\ Stays(g.expects, model_cache)
      /\ ToldInv(g.told, g.expects, profile.info)
  BY DEF CatalogInv, CallInv
<1>5. h.at = "heard" /\ h.asks = "info" => profile.info = "keeps"
  BY <1>2 DEF IsKept
<1>6. CachesInv' /\ model_cache' = model_cache /\ kind' = kind
  BY CachesRest DEF Responds, of_provider
<1> QED
  BY <1>2, <1>3, <1>4, <1>5, <1>6, CallStep DEF StandsIn

LEMMA FreshEntry ==
  ASSUME NEW d \in Data, NEW ttl \in Nat, 0 < ttl, NEW more \in Nat,
         d.src = "upstream" => d.age <= more
  PROVE  Stands(Entry(d), ttl, more) /\ Entry(d).what = d
<1>1. Entry(d) = [what |-> d, held |-> 0] /\ 0 \in 0..Cap
  BY Bounds DEF Entry
<1> QED
  BY <1>1 DEF Stands, Entries, Data

(* The provider keeps what it was told.                                    *)
LEMMA KeepStep ==
  ASSUME CatalogInv, NEW c \in Calls, Keep(c)
  PROVE  CatalogInv'
<1>1. CASE Harvest(c)
  BY <1>1, CachesRest, GoesStep DEF Harvest
<1>2. CASE Remember(c)
  <2>1. Stands(Entry(Listing), TTL, 0) /\ Entry(Listing).what = Listing
    BY Bounds, DataValues, FreshEntry
  <2>2. CachesInv'
    BY <1>2, <2>1, DataValues DEF Remember, CatalogInv, CachesInv, of_server, profile
  <2> QED
    BY <1>2, <2>2, GoesStep DEF Remember, of_server
<1>3. CASE KeepInfo(c)
  <2> PICK d : d = IF call[c].reply \in Good THEN Fresh(call[c].reply) ELSE Nothing
    OBVIOUS
  <2>1. d \in Data /\ (d.src = "upstream" => d.age <= 0)
    BY DataValues
  <2>2. Stands(Entry(d), ShortTTL, 0)
    BY <2>1, Bounds, FreshEntry
  <2>3. profile.info = "keeps"
    BY <1>3 DEF KeepInfo, CatalogInv, CallInv
  <2>4. CachesInv'
    BY <1>3, <2>2, <2>3 DEF KeepInfo, CatalogInv, CachesInv, of_server, profile
  <2> QED
    BY <1>3, <2>4, GoesStep DEF KeepInfo, of_server
<1> QED
  BY <1>1, <1>2, <1>3 DEF Keep

---------------------------------------------------------------------------
(* What may be told.                                                       *)

LEMMA TellLasting ==
  ASSUME CatalogInv, NEW c \in Calls, NEW errand, Doing(c, errand),
         NEW d \in Data, d.src # "upstream", Tell(c, d),
         UNCHANGED <<kind, models_cache, info_cache, of_server>>,
         errand = "models" => Stays(call[c].expects, d)
  PROVE  CatalogInv'
BY CachesRest, TellStep DEF StandsIn

LEMMA FallBackStep ==
  ASSUME CatalogInv, NEW c \in Calls, Doing(c, "models"), FallBack(c),
         UNCHANGED <<kind, models_cache, info_cache, of_server>>
  PROVE  CatalogInv'
<1>1. model_cache \in Data /\ model_cache.src # "upstream"
  BY DataValues DEF CatalogInv, CachesInv, LastingInv
<1>2. Stays(call[c].expects, model_cache)
  BY DEF CatalogInv, CallInv
<1> QED
  BY <1>1, <1>2, TellLasting DEF FallBack

LEMMA ListedStep ==
  ASSUME CatalogInv, NEW c \in Calls, Doing(c, "models"), NEW d \in Data, Listed(c, d),
         d.src \in {"static", "upstream"}, d.src = "upstream" => d.age < TTL,
         d.src = "static" => HasOwnList,
         UNCHANGED <<kind, available, of_provider, modality_cache, limits_cache>>
  PROVE  CatalogInv'
<1>1. LastGood(d) \in Data /\ LastGood(d).src \in {"static", "undated"}
  BY DataValues
<1>2. \A expects : Stays(expects, d) /\ Stays(expects, LastGood(d))
  <2>1. d # Nothing /\ LastGood(d) # Nothing
    BY <1>1, DataValues
  <2>2. d.src = "upstream" => LastGood(d).src = "undated"
    BY DEF LastGood, Data
  <2> QED
    BY <1>1, <2>1, <2>2 DEF Stays
<1>3. /\ Tell(c, d) /\ kind' = kind
      /\ model_cache' = model_cache \/ model_cache' = LastGood(d)
  BY DEF Listed
<1>4. CachesInv'
  BY <1>1, <1>3 DEF CatalogInv, CachesInv, LastingInv, of_provider, profile
<1> QED
  BY <1>2, <1>3, <1>4, TellStep DEF StandsIn

LEMMA KnownIs ==
  ASSUME CatalogInv, Known # Nothing
  PROVE  /\ Known \in Data /\ Known.src \in {"static", "upstream"}
         /\ Known.src = "upstream" => Known.age < TTL
         /\ Known.src = "static" => HasOwnList
<1>1. CASE profile.static
  BY <1>1, DataValues DEF Known, HasOwnList
<1>2. CASE ~profile.static
  <2> PICK e : e = models_cache
    OBVIOUS
  <2>1. e # NoEntry /\ Known = e.what
    BY <1>2 DEF Known
  <2>2. /\ e \in Entries /\ e.held < TTL /\ e.what.src = "upstream"
        /\ e.what.age <= e.held + 0
    BY <2>1 DEF CatalogInv, CachesInv, Stands
  <2>3. e.what \in Data /\ e.held \in Nat /\ e.what.age \in Nat
    BY <2>2, Bounds DEF Entries, Data
  <2> QED
    BY <2>1, <2>2, <2>3, Bounds
<1> QED
  BY <1>1, <1>2

LEMMA ModelsSteps ==
  ASSUME CatalogInv, NEW c \in Calls, LookModels(c) \/ ConcludeModels(c)
  PROVE  CatalogInv'
<1>1. CASE LookModels(c)
  <2>1. Doing(c, "models") /\ UNCHANGED <<kind, available, of_provider, modality_cache, limits_cache>>
    BY <1>1 DEF LookModels, Due
  <2>2. CASE FallBack(c) /\ UNCHANGED model_cache
    BY <2>1, <2>2, FallBackStep DEF of_provider, of_server
  <2>3. CASE Known # Nothing /\ Listed(c, Known)
    BY <2>1, <2>3, KnownIs, ListedStep
  <2>4. CASE Ask(c, "models") /\ UNCHANGED model_cache
    BY <2>1, <2>4, AskStep DEF of_server
  <2> QED
    BY <1>1, <2>2, <2>3, <2>4 DEF LookModels
<1>2. CASE ConcludeModels(c)
  <2>1. Doing(c, "models") /\ UNCHANGED <<kind, available, of_provider, modality_cache, limits_cache>>
    BY <1>2 DEF ConcludeModels
  <2>2. CASE FallBack(c) /\ UNCHANGED model_cache
    BY <2>1, <2>2, FallBackStep DEF of_provider, of_server
  <2>3. CASE Listed(c, Listing)
    BY <2>1, <2>3, Bounds, DataValues, ListedStep
  <2>4. CASE profile.fallback /\ Listed(c, Static)
    BY <2>1, <2>4, DataValues, ListedStep DEF HasOwnList
  <2> QED
    BY <1>2, <2>2, <2>3, <2>4 DEF ConcludeModels
<1> QED
  BY <1>1, <1>2

(* Limits: what vLLM kept may be as old as its cache allows.               *)
LEMMA BelowIs ==
  /\ Below(profile.info) \in Nat
  /\ profile.info = "keeps" => Below(profile.info) = ShortTTL - 1
BY Bounds DEF Below

LEMMA PutLimitsStep ==
  ASSUME CatalogInv, NEW c \in Calls, Doing(c, "limits"), NEW d \in Data, PutLimits(c, d),
         d.src = "upstream" => d.age <= Below(profile.info),
         UNCHANGED <<kind, available, of_provider, model_cache, modality_cache>>
  PROVE  CatalogInv'
<1>1. Stands(Entry(d), TTL, Below(profile.info))
  BY Bounds, BelowIs, FreshEntry
<1>2. Tell(c, d) /\ limits_cache' = Entry(d) /\ kind' = kind
  BY DEF PutLimits
<1>3. CachesInv'
  BY <1>1, <1>2 DEF CatalogInv, CachesInv, of_provider, profile
<1>4. d.src = "upstream" => d.age < IF profile.info = "keeps" THEN TTL + ShortTTL - 1 ELSE TTL
  BY Bounds DEF Below, Data
<1> QED
  BY <1>2, <1>3, <1>4, TellStep DEF StandsIn

LEMMA LimitsOfIs ==
  ASSUME NEW d \in Data
  PROVE  LimitsOf(d) \in Data /\ (LimitsOf(d).src = "upstream" => LimitsOf(d).age = d.age
                                                                 /\ d.src = "upstream")
BY DataValues DEF LimitsOf

LEMMA LookLimitsStep ==
  ASSUME CatalogInv, NEW c \in Calls, LookLimits(c)
  PROVE  CatalogInv'
<1>1. /\ Doing(c, "limits")
      /\ UNCHANGED <<kind, available, of_provider, model_cache, modality_cache>>
  BY DEF LookLimits, Due
<1>2. CASE limits_cache # NoEntry /\ Tell(c, limits_cache.what) /\ UNCHANGED limits_cache
  <2> PICK e : e = limits_cache
    OBVIOUS
  <2>1. /\ e \in Entries /\ e.held < TTL
        /\ e.what.src = "upstream" => e.what.age <= e.held + Below(profile.info)
    BY <1>2 DEF CatalogInv, CachesInv, Stands
  <2>2. e.what \in Data /\ e.what.age \in Nat /\ e.held \in Nat
    BY <2>1, Bounds DEF Entries, Data
  <2>3. e.what.src = "upstream" =>
          e.what.age < IF profile.info = "keeps" THEN TTL + ShortTTL - 1 ELSE TTL
    BY <2>1, <2>2, Bounds DEF Below
  <2>4. CachesInv' /\ model_cache' = model_cache /\ kind' = kind
    BY <1>1, <1>2, CachesRest DEF of_provider, of_server
  <2> QED
    BY <1>1, <1>2, <2>2, <2>3, <2>4, TellStep DEF StandsIn
<1>3. CASE Tell(c, Nothing) /\ UNCHANGED limits_cache
  BY <1>1, <1>3, DataValues, TellLasting DEF of_provider, of_server
<1>4. CASE MapLimits(c)
  <2>1. CASE PutLimits(c, Undated)
    BY <1>1, <2>1, DataValues, PutLimitsStep
  <2>2. CASE PutLimits(c, Nothing)
    BY <1>1, <2>2, DataValues, PutLimitsStep
  <2>3. CASE Ask(c, "models") /\ UNCHANGED limits_cache
    BY <1>1, <2>3, AskStep DEF of_server
  <2> QED
    BY <1>4, <2>1, <2>2, <2>3 DEF MapLimits
<1>5. CASE InfoLimits(c)
  <2>1. CASE PutLimits(c, Nothing)
    BY <1>1, <2>1, DataValues, PutLimitsStep
  <2>2. CASE info_cache # NoEntry /\ PutLimits(c, LimitsOf(info_cache.what))
    <3> PICK e, d : e = info_cache /\ d = LimitsOf(info_cache.what)
      OBVIOUS
    <3>1. /\ e \in Entries /\ e.held < ShortTTL /\ profile.info = "keeps"
          /\ e.what.src = "upstream" => e.what.age <= e.held + 0
      BY <2>2 DEF CatalogInv, CachesInv, Stands
    <3>2. e.what \in Data /\ e.what.age \in Nat /\ e.held \in Nat
      BY <3>1, Bounds DEF Entries, Data
    <3>3. d \in Data /\ (d.src = "upstream" => d.age = e.what.age /\ e.what.src = "upstream")
      BY <3>2, LimitsOfIs
    <3>4. d.src = "upstream" => d.age <= Below(profile.info)
      BY <3>1, <3>2, <3>3, Bounds, BelowIs
    <3> QED
      BY <1>1, <2>2, <3>3, <3>4, PutLimitsStep
  <2>3. CASE Ask(c, "info") /\ UNCHANGED limits_cache
    BY <1>1, <2>3, AskStep DEF of_server
  <2> QED
    BY <1>5, <2>1, <2>2, <2>3 DEF InfoLimits
<1> QED
  BY <1>2, <1>3, <1>4, <1>5 DEF LookLimits

LEMMA ConcludeLimitsStep ==
  ASSUME CatalogInv, NEW c \in Calls, ConcludeLimits(c)
  PROVE  CatalogInv'
<1> PICK d : d = IF "limits" \in profile.harvests
                 THEN IF "limits" \in harvested THEN Undated ELSE Nothing
                 ELSE IF call[c].reply \in Good THEN LimitsOf(Fresh(call[c].reply))
                 ELSE Nothing
  OBVIOUS
<1>1. \A reply : /\ LimitsOf(Fresh(reply)) \in Data
                 /\ LimitsOf(Fresh(reply)).src = "upstream" => LimitsOf(Fresh(reply)).age = 0
  BY DataValues, LimitsOfIs
<1>2. d \in Data /\ (d.src = "upstream" => d.age = 0)
  BY <1>1, DataValues
<1>3. d.src = "upstream" => d.age <= Below(profile.info)
  BY <1>2, BelowIs
<1> QED
  BY <1>2, <1>3, PutLimitsStep DEF ConcludeLimits

LEMMA ModalitiesSteps ==
  ASSUME CatalogInv, NEW c \in Calls, LookModalities(c) \/ ConcludeModalities(c)
  PROVE  CatalogInv'
<1>1. CASE LookModalities(c)
  <2>1. Doing(c, "modalities") /\ UNCHANGED <<kind, available, of_provider, of_server>>
    BY <1>1 DEF LookModalities, Due
  <2>2. ASSUME NEW d \in {Static, Undated, Nothing}, Tell(c, d) PROVE CatalogInv'
    BY <2>1, <2>2, DataValues, TellLasting DEF of_provider
  <2>3. CASE modality_cache # NoEntry /\ Tell(c, modality_cache.what)
    <3> PICK e : e = modality_cache
      OBVIOUS
    <3>1. /\ e \in Entries /\ e.held < TTL
          /\ e.what.src = "upstream" => e.what.age <= e.held + 0
      BY <2>3 DEF CatalogInv, CachesInv, Stands
    <3>2. e.what \in Data /\ e.what.age \in Nat /\ e.held \in Nat
      BY <3>1, Bounds DEF Entries, Data
    <3>3. e.what.src = "upstream" => e.what.age < TTL
      BY <3>1, <3>2, Bounds
    <3>4. CachesInv' /\ model_cache' = model_cache /\ kind' = kind
      BY <2>1, CachesRest DEF of_provider
    <3> QED
      BY <2>1, <2>3, <3>2, <3>3, <3>4, TellStep DEF StandsIn
  <2>4. CASE Ask(c, "info")
    BY <2>1, <2>4, AskStep
  <2> QED
    BY <1>1, <2>2, <2>3, <2>4 DEF LookModalities
<1>2. CASE ConcludeModalities(c)
  <2>1. /\ Doing(c, "modalities")
        /\ UNCHANGED <<kind, available, of_provider, model_cache, limits_cache>>
    BY <1>2 DEF ConcludeModalities
  <2>2. CASE modality_cache' = Entry(Listing) /\ Tell(c, Listing)
    <3>1. Stands(Entry(Listing), TTL, 0)
      BY Bounds, DataValues, FreshEntry
    <3>2. CachesInv'
      BY <2>1, <2>2, <3>1 DEF CatalogInv, CachesInv, of_provider, profile
    <3> QED
      BY <2>1, <2>2, <3>2, Bounds, DataValues, TellStep DEF StandsIn
  <2>3. CASE Tell(c, Nothing) /\ UNCHANGED modality_cache
    BY <2>1, <2>3, DataValues, TellLasting DEF of_provider, of_server
  <2> QED
    BY <1>2, <2>2, <2>3 DEF ConcludeModalities
<1> QED
  BY <1>1, <1>2

LEMMA OtherSteps ==
  ASSUME CatalogInv, NEW c \in Calls, LookInfo(c) \/ LookVoices(c) \/ ConcludeOther(c)
  PROVE  CatalogInv'
<1>1. PICK errand \in {"info", "voices"} : Doing(c, errand)
  BY DEF LookInfo, LookVoices, ConcludeOther, Due
<1>2. UNCHANGED <<kind, available, of_provider, of_server>>
  BY DEF LookInfo, LookVoices, ConcludeOther
<1>3. CASE Tell(c, Nothing)
  BY <1>1, <1>2, <1>3, DataValues, TellLasting DEF of_provider
<1>4. CASE Ask(c, "info") \/ Ask(c, "models")
  BY <1>2, <1>4, AskStep
<1> QED
  BY <1>3, <1>4 DEF LookInfo, LookVoices, ConcludeOther

LEMMA TimesOutStep ==
  ASSUME CatalogInv, NEW c \in Calls, TimesOut(c)
  PROVE  CatalogInv'
<1>1. UNCHANGED <<kind, available, of_provider, of_server>>
  BY DEF TimesOut
<1>2. CASE Doing(c, "models") /\ FallBack(c)
  BY <1>1, <1>2, FallBackStep DEF of_provider
<1>3. ASSUME NEW errand \in {"limits", "modalities"}, Doing(c, errand), Tell(c, Nothing)
      PROVE  CatalogInv'
  BY <1>1, <1>3, DataValues, TellLasting DEF of_provider
<1> QED
  BY <1>2, <1>3 DEF TimesOut

---------------------------------------------------------------------------
(* An entry ages with what it holds, and goes when its TTL has passed.     *)
LEMMA KeptStands ==
  ASSUME NEW entry, NEW ttl \in Nat, ttl <= TTL, NEW more \in Nat, Stands(entry, ttl, more)
  PROVE  /\ Stands(Kept(entry, ttl), ttl, more)
         /\ Kept(entry, ttl) # NoEntry =>
              entry # NoEntry /\ Kept(entry, ttl).what.src = entry.what.src
<1>1. CASE Kept(entry, ttl) = NoEntry
  BY <1>1 DEF Stands
<1>2. CASE Kept(entry, ttl) # NoEntry
  <2> PICK d, ticks, new : d = entry.what /\ ticks = entry.held /\ new = Aged(entry.what)
    OBVIOUS
  <2>1. /\ entry # NoEntry /\ ticks + 1 < ttl
        /\ Kept(entry, ttl) = [what |-> new, held |-> ticks + 1]
    BY <1>2 DEF Kept
  <2>2. /\ d \in Data /\ ticks \in Nat /\ ticks \in 0..Cap /\ entry.held < ttl
        /\ d.src = "upstream" => d.age <= ticks + more
    BY <2>1, Bounds DEF Stands, Entries
  <2>3. d.age \in 0..Cap /\ d.age \in Nat
    BY <2>2, Bounds DEF Data
  <2>4. Older(d.age) \in 0..Cap /\ Older(d.age) <= d.age + 1
    BY <2>3, Bounds DEF Older
  <2>5. /\ new \in Data /\ new.src = d.src
        /\ new.src = "upstream" => new.age <= d.age + 1
    <3>1. CASE d.src = "upstream"
      BY <2>2, <2>4, <3>1 DEF Aged, Data
    <3>2. CASE d.src # "upstream"
      BY <2>2, <3>2 DEF Aged
    <3> QED
      BY <3>1, <3>2
  <2>6. new.age \in Nat
    BY <2>5, Bounds DEF Data
  <2>7. ticks + 1 \in 0..Cap
    BY <2>1, <2>2, Bounds
  <2>8. Kept(entry, ttl) \in Entries
    BY <2>1, <2>5, <2>7 DEF Entries
  <2>9. new.src = "upstream" => new.age <= ticks + 1 + more
    BY <2>2, <2>3, <2>5, <2>6
  <2> QED
    BY <2>1, <2>5, <2>8, <2>9 DEF Stands
<1> QED
  BY <1>1, <1>2

LEMMA TickStep ==
  ASSUME CatalogInv, Tick
  PROVE  CatalogInv'
<1>1. UNCHANGED <<kind, model_cache, call>> /\ profile' = profile
  BY DEF Tick, profile
<1>2. CachesInv
  BY DEF CatalogInv
<1>3. CachesInv'
  BY <1>1, <1>2, Bounds, BelowIs, KeptStands DEF CachesInv, Tick
<1>4. \A c \in Calls : CallInv(c)'
  BY <1>1 DEF CatalogInv, CallInv, ToldInv, Stays, HasOwnList
<1> QED
  BY <1>1, <1>3, <1>4 DEF CatalogInv

LEMMA CatalogRests ==
  ASSUME CatalogInv, UNCHANGED <<kind, of_provider, of_server, call>>
  PROVE  CatalogInv'
BY CachesRest DEF CatalogInv, CallInv, ToldInv, Stays, HasOwnList, of_provider, profile

LEMMA CatalogNextInv ==
  ASSUME CatalogInv, [CatalogNext]_catalog
  PROVE  CatalogInv'
<1>1. ASSUME NEW c \in Calls, Look(c) \/ Conclude(c) PROVE CatalogInv'
  BY <1>1, ModelsSteps, LookLimitsStep, ConcludeLimitsStep, ModalitiesSteps, OtherSteps
     DEF Look, Conclude
<1>2. CASE Turn
  BY <1>2, CatalogRests DEF Turn
<1>3. CASE UNCHANGED catalog
  BY <1>3, CatalogRests DEF catalog
<1>4. ASSUME NEW c \in Calls,
             \/ \E configured \in BOOLEAN : c \in Clients /\ Start(c, "listing", configured)
             \/ \E op \in {"sync", "voices"} : c \in Admins /\ Start(c, op, FALSE)
      PROVE  CatalogInv'
  BY <1>4, StartStep
<1> QED
  BY <1>1, <1>2, <1>3, <1>4, TickStep, KeepStep, TimesOutStep, ReturnStep, AnswerStep
     DEF CatalogNext

(* What a listing tells of a model, its limits and its modalities (models_ *)
(* for and its three caches) is as recent as the TTLs on its way allow.    *)
THEOREM ListingsAreRecent == CatalogSpec => []AnswersAreRecent
<1>1. CatalogInv => AnswersAreRecent
  BY DEF CatalogInv, CallInv, ToldInv, AnswersAreRecent
<1> QED
  BY <1>1, CatalogInitInv, CatalogNextInv, PTL DEF CatalogSpec

(* A provider that refuses, breaks, hangs or is down is listed, as it was  *)
(* listed last: ModelListCache is never emptied, and but for an adapter    *)
(* with a list of its own it never gives up what upstream told.            *)
THEOREM ListedModelsStay == CatalogSpec => []OnceListedStaysListed
<1>1. CatalogInv => OnceListedStaysListed
  BY DEF CatalogInv, CallInv, ToldInv, OnceListedStaysListed
<1> QED
  BY <1>1, CatalogInitInv, CatalogNextInv, PTL DEF CatalogSpec
=============================================================================
