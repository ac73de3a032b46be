------------------------------ MODULE MCMarket ------------------------------
(* The market side of a node: its model listing, its announcements and the *)
(* prices of its peers.  They share no state, so a behaviour exercises one *)
(* of them, which scene picks, and the state spaces add up.                *)
EXTENDS Catalog, Discovery, Peers

CONSTANTS s1, s2

VARIABLE scene

vars == <<scene, catalog, discovery, peers>>

(* One node that moved, this node, and another one. *)
Said(key, url, at) == [key |-> key, url |-> url, usable |-> TRUE, at |-> at]
Handed == SUBSET {Said(1, 1, 1), Said(1, 2, 2), Said(2, 3, 1), Said(3, 4, 1)}

Init ==
  /\ scene \in {"catalog", "discovery", "peers"}
  /\ CatalogInit /\ DiscoveryInit /\ PeersInit
  /\ scene # "catalog" => kind = "openai_oauth" /\ available
  /\ scene # "discovery" => pricing = [m \in Models |-> Absent]

InCatalog(A) == scene = "catalog" /\ A /\ UNCHANGED <<scene, discovery, peers>>
InDiscovery(A) == scene = "discovery" /\ A /\ UNCHANGED <<scene, catalog, peers>>
InPeers(A) == scene = "peers" /\ A /\ UNCHANGED <<scene, catalog, discovery>>

Next == InCatalog(CatalogNext) \/ InDiscovery(DiscoveryNext) \/ InPeers(PeersNext)

(* The fairness of the three, one formula for a task of each: only the one *)
(* of the scene can move.  Relays die a bounded number of times, so that   *)
(* one of them returning is each of them returning.                        *)
Fairness ==
  /\ WF_vars(\/ InCatalog(\E c \in Clients : Works(c))
             \/ InDiscovery(RunsOn)
             \/ InPeers(Searching(s1)))
  /\ WF_vars(\/ InDiscovery(\E e \in Editors : WritePricing(e))
             \/ InPeers(Searching(s2)))
  /\ WF_vars(InDiscovery(\E r \in Relays : RelayReturns(r)))

Spec == Init /\ [][Next]_vars /\ Fairness

(* Whoever asks the market for a listing or for prices is answered, or has *)
(* left, although providers, relays and nodes may never answer and another *)
(* search builds the snapshot first.                                       *)
AnswersReturn == ListingReturns /\ SearchesReturn
=============================================================================
