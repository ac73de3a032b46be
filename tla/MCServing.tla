----------------------------- MODULE MCServing -----------------------------
(* Serving a request: the router's attempts; the endpoint around them with *)
(* the books it writes; and a page that reads the books while a call is    *)
(* served.  An endpoint takes any answer of the router and no page writes, *)
(* so a behaviour exercises one of them, which scene picks, and the state  *)
(* spaces add up.                                                          *)
EXTENDS Failover, Statements, TLC

VARIABLE scene

MCLists == {<< >>, <<"p">>, <<"q", "s">>, <<"p", "q", "s">>}

MCKeyOf == [c \in Calls |-> IF c = "keyless" THEN NoKey ELSE "key"]
MCModelOf == [c \in Calls |-> "m"]

(* A text model, one that declares no input, one that paints.              *)
MCDeclarations == {[input |-> {"text"}, output |-> {"text"}],
                   [input |-> {}, output |-> {}], [input |-> {"image"}, output |-> {"image"}]}

(* A deposit; or a request of before, which reserved and released.         *)
Row(type, amount, ref) == [type |-> type, amount |-> amount, ref |-> ref]
MCLedgers ==
  {<<Row("deposit", 3, "invoice")>>,
   <<Row("reserve", -2, "old"), Row("refund", 1, "old"), Row("refund_fee", -1, "refund")>>}

AllVars == <<scene, vars, statements>>

MCInit ==
  /\ scene \in {"failover", "books", "page", "report"}
  /\ Init /\ StatementsInit
  /\ scene # "page" => ledger = <<Row("deposit", 3, "invoice")>>

(* Who calls in a scene, and what: two calls meet in the books, and any    *)
(* call with a page.                                                       *)
Made == CASE scene = "books" -> {"keyed", "too"} [] scene = "report" -> {"keyed"}
          [] OTHER -> {"keyless"}
Meets == {"chat", "chat_stream", "speech"}

Within ==
  /\ \A c \in Calls \ Made : call'[c] = call[c]
  /\ scene = "books" => \A c \in Made : call'[c].kind \in Meets
  /\ scene # "report" => hour' = hour
  /\ scene # "page" => UNCHANGED <<page, adminrows>>
  /\ scene # "report" => UNCHANGED <<report, list, keywrites>>

MCNext ==
  \/ scene = "failover" /\ Next /\ UNCHANGED <<scene, statements>>
  \/ scene # "failover" /\ StatementsNext /\ Within /\ UNCHANGED <<scene, vars>>

MCSpec == MCInit /\ [][MCNext]_AllVars
=============================================================================
