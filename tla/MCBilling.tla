---------------------------- MODULE MCBilling ----------------------------
(* One user with a request of any kind and two refunds: everything that a  *)
(* balance is shared by.  The refunds are interchangeable, and so are the  *)
(* requests.                                                               *)
EXTENDS Billing, TLC

CONSTANT u1

MCUserOf == [x \in Requests \cup Refunds |-> u1]
Interchangeable == Permutations(Refunds) \cup Permutations(Requests)
===========================================================================
