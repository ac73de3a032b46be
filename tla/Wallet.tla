------------------------------ MODULE Wallet ------------------------------
(***************************************************************************)
(* What the payments code promises about a user's money, with no handlers, *)
(* database or Lightning node: every millisatoshi deposited is spendable,  *)
(* held for a payout, spent, paid out or lost with a payout that failed    *)
(* behind a handler that was gone; what is paid out a second time comes    *)
(* out of the house.  Only a charge may take a balance below zero.         *)
(***************************************************************************)
EXTENDS Integers

CONSTANTS
  Users,
  MaxAmount   \* the largest amount moved at once

VARIABLES
  deposited,  \* deposited[u]: everything u has paid in
  funds,      \* funds[u]: the balance
  held,       \* held[u]: debited for payouts whose outcome is open
  spent,      \* spent[u]: charged for usage
  out,        \* out[u]: paid out to u, routing fees included
  lost,       \* lost[u]: debited, never paid out, never given back
  house       \* house[u]: given back to u and paid out all the same

wallet == <<deposited, funds, held, spent, out, lost, house>>

WInit ==
  /\ deposited = [u \in Users |-> 0]
  /\ funds = [u \in Users |-> 0]
  /\ held = [u \in Users |-> 0]
  /\ spent = [u \in Users |-> 0]
  /\ out = [u \in Users |-> 0]
  /\ lost = [u \in Users |-> 0]
  /\ house = [u \in Users |-> 0]

Moves(from, to, u, a) ==
  /\ from' = [from EXCEPT ![u] = @ - a]
  /\ to' = [to EXCEPT ![u] = @ + a]

Deposit(u, a) ==
  /\ deposited' = [deposited EXCEPT ![u] = @ + a]
  /\ funds' = [funds EXCEPT ![u] = @ + a]
  /\ UNCHANGED <<held, spent, out, lost, house>>

Charge(u, a) ==
  /\ Moves(funds, spent, u, a)
  /\ UNCHANGED <<deposited, held, out, lost, house>>

Hold(u, a) ==
  /\ a <= funds[u]
  /\ Moves(funds, held, u, a)
  /\ UNCHANGED <<deposited, spent, out, lost, house>>

PayOut(u, a) ==
  /\ a <= held[u]
  /\ Moves(held, out, u, a)
  /\ UNCHANGED <<deposited, funds, spent, lost, house>>

PayFee(u, a) ==
  /\ a <= funds[u]
  /\ Moves(funds, out, u, a)
  /\ UNCHANGED <<deposited, held, spent, lost, house>>

GiveBack(u, a) ==
  /\ a <= held[u]
  /\ Moves(held, funds, u, a)
  /\ UNCHANGED <<deposited, spent, out, lost, house>>

Lose(u, a) ==
  /\ a <= held[u]
  /\ Moves(held, lost, u, a)
  /\ UNCHANGED <<deposited, funds, spent, out, house>>

GiveBackAgain(u, a) ==
  /\ Moves(house, funds, u, a)
  /\ UNCHANGED <<deposited, held, spent, out, lost>>

PayOutAgain(u, a) ==
  /\ Moves(house, out, u, a)
  /\ UNCHANGED <<deposited, funds, held, spent, lost>>

WNext ==
  \E u \in Users, a \in 1..MaxAmount :
    \/ Deposit(u, a)
    \/ Charge(u, a)
    \/ Hold(u, a)
    \/ PayOut(u, a)
    \/ PayFee(u, a)
    \/ GiveBack(u, a)
    \/ Lose(u, a)
    \/ GiveBackAgain(u, a)
    \/ PayOutAgain(u, a)

WSpec == WInit /\ [][WNext]_wallet

---------------------------------------------------------------------------
WTypeOK ==
  /\ deposited \in [Users -> Nat]
  /\ funds \in [Users -> Int]
  /\ held \in [Users -> Nat]
  /\ spent \in [Users -> Nat]
  /\ out \in [Users -> Nat]
  /\ lost \in [Users -> Nat]
  /\ house \in [Users -> Int]

(* No money appears or disappears: what a user paid in is what the seven   *)
(* accounts still hold of it.                                              *)
Conserved ==
  \A u \in Users :
    deposited[u] = funds[u] + held[u] + spent[u] + out[u] + lost[u] + house[u]
===========================================================================
