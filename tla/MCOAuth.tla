------------------------------ MODULE MCOAuth ------------------------------
(* Two alike calls of a provider whose token is due after one tick, one    *)
(* login that may come too late, two sessions and one fault.               *)
EXTENDS OAuth
===========================================================================
