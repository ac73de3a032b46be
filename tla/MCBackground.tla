---------------------------- MODULE MCBackground ----------------------------
(* Two tasks behind the requests: the listener of invoices and the writer  *)
(* of the request log.  They share no state, so a behaviour exercises one  *)
(* of them, which scene picks, and the state spaces add up.                *)
EXTENDS Settlement, RequestLog

VARIABLE scene

(* One anonymous account, the invoice that opened it and one top-up.       *)
MCOwner == [i \in Invoices |-> "alice"]
MCOpening == [a \in Accounts |-> "open1"]

(* A conversation whose second turn was tried twice; the queue and a batch *)
(* take two of the three records.                                          *)
MCPrompts ==
  LET says(words) == [system |-> "s", tools |-> "t", messages |-> words] IN
  [turn |-> says(<<"a">>), reply |-> says(<<"a", "b">>), again |-> says(<<"a", "c">>)]
MCArrivals == DOMAIN MCPrompts
MCSizes == [turn |-> 1, reply |-> 2, again |-> 3]

AllVars == <<scene, vars, requestlog>>

MCInit == scene \in {"invoices", "log"} /\ Init /\ LogInit

InInvoices(A) == scene = "invoices" /\ A /\ UNCHANGED <<scene, requestlog>>
InLog(A) == scene = "log" /\ A /\ UNCHANGED <<scene, vars>>

MCNext == InInvoices(Next) \/ InLog(LogNext)

(* The fairness of both, one formula for a task of each: only the one of   *)
(* the scene can move.                                                     *)
MCFairness ==
  /\ WF_AllVars(InInvoices(Handling) \/ InLog(Proceeds))
  /\ WF_AllVars(InInvoices(Subscribe))
  /\ WF_AllVars(InInvoices(Restart))

MCSpec == MCInit /\ [][MCNext]_AllVars /\ MCFairness
=============================================================================
