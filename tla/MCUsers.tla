------------------------------ MODULE MCUsers ------------------------------
(* Users: the cache in front of their keys, the models they may ask for,   *)
(* and as whom they act.  The three share no state but rows whose writes   *)
(* each of them models for itself, so a behaviour exercises one of them,   *)
(* which scene picks, and the state spaces add up.  Lookups and writers    *)
(* are alike.                                                              *)
EXTENDS AuthCache, Access, Accounts, TLC

VARIABLE scene

MCExpires == [k \in Keys |-> IF k = "short" THEN 2 ELSE 100]
MCBare == [o \in Offers |-> "m"]
MCShort == [p \in Pubkeys |-> "nostr"]
Interchangeable == Permutations(Lookups) \cup Permutations(Writers)

AllVars == <<scene, vars, access, accounts>>

MCInit ==
  /\ scene \in {"cache", "access", "accounts"}
  /\ Init /\ AccessInit /\ AccountsInit
  /\ scene # "access" =>
       /\ rule = [u \in Users |-> [m \in Served \cup {Star} |-> "none"]]
       /\ trusted = {} /\ ~payments
       /\ sale = [n \in Priced |-> "none"]

InCache(A) == scene = "cache" /\ A /\ UNCHANGED <<scene, access, accounts>>
InAccess(A) == scene = "access" /\ A /\ UNCHANGED <<scene, vars, accounts>>
InAccounts(A) == scene = "accounts" /\ A /\ UNCHANGED <<scene, vars, access>>

MCNext == InCache(Next) \/ InAccess(AccessNext) \/ InAccounts(AccountsNext)

MCSpec == MCInit /\ [][MCNext]_AllVars
=============================================================================
