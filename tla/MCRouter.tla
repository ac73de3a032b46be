----------------------------- MODULE MCRouter -----------------------------
(* The router's choice of providers and the reload that replaces what it   *)
(* chooses from.  A request takes one snapshot of the tables and no reload *)
(* looks at a pin or a health, so a behaviour exercises one of the two,    *)
(* which scene picks, and the state spaces add up.                         *)
EXTENDS Routing, Reload, TLC

CONSTANTS prov1, prov2, r1, r2, s1, s2

VARIABLE scene

(* Two providers, one of them listed twice, of unequal weights; two        *)
(* requests, two sessions with room for the pin of one.                    *)
MCEntries == <<prov1, prov2, prov1>>
MCWeight == <<2, 1, 0>>
MCSymmetry == Permutations({r1, r2}) \cup Permutations({s1, s2})

(* Two providers, of which the second is created while the server runs;    *)
(* "alpha" has a config and "beta" model rows for both providers, and an   *)
(* administrator may give a second config either name, or rename the first.*)
MCNames == {"alpha", "beta"}
MCOffered == [n \in MCNames |-> IF n = "beta" THEN {1, 2} ELSE {}]
MCRows == [p \in {1, 2} |-> IF p = 1 THEN [version |-> 1, builds |-> TRUE] ELSE NoRow]
MCConfigs == [c \in {1, 2} |->
  IF c = 1 THEN [exists |-> TRUE, name |-> "alpha", members |-> {1}] ELSE NoConfig]

AllVars == <<scene, vars, reloading>>

MCInit == scene \in {"routing", "reload"} /\ Init /\ ReloadInit

(* The first request, of a session, finds every provider healthy and may   *)
(* leave the pin that the next two find; those find anything, and the last *)
(* follows a pin again.                                                    *)
FirstMayPin ==
  \A r \in Requests : req'[r].pc = "choosing" /\ req'[r] # req[r] =>
    /\ begun # 1 => req'[r].session # NoSession /\ req'[r].strategy = "RoundRobin"
    /\ begun = 0 => \A p \in Routed :
         req'[r].view.health[p] = "healthy" /\ req'[r].view.wait[p] = 0

MCNext ==
  \/ scene = "routing" /\ Next /\ FirstMayPin /\ UNCHANGED <<scene, reloading>>
  \/ scene = "reload" /\ ReloadNext /\ UNCHANGED <<scene, vars>>

MCSpec == MCInit /\ [][MCNext]_AllVars
=============================================================================
