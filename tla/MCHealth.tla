------------------------------ MODULE MCHealth ------------------------------
(***************************************************************************)
(* What is known of the providers: by the router (Health, for one provider:*)
(* they share nothing but the clock) and by the administrators             *)
(* (Statistics).  A behaviour exercises one part, which scene picks: the   *)
(* router's aggregates, the events and who watches them, or the history,   *)
(* of which the events are but the contents.                               *)
(***************************************************************************)
EXTENDS Health, Statistics, TLC

VARIABLE scene

AllVars == <<scene, vars, statistics>>

MCSymmetry == Permutations(Emitters) \cup Permutations(Sources)

MCInit ==
  /\ scene \in {"health", "live", "past"}
  /\ Init /\ StatisticsInit

InHealth(A) == scene = "health" /\ A /\ UNCHANGED <<scene, statistics>>
InLive(A) == scene = "live" /\ A /\ UNCHANGED <<scene, vars>>
InPast(A) == scene = "past" /\ A /\ UNCHANGED <<scene, vars>>

OneEvent == emitted = 0 /\ \E s \in Sources, e \in Events : Emit(s, e)

MCNext ==
  \/ InHealth(Next)
  \/ InLive(LiveNext \/ Restart)
  \/ InPast(PastNext \/ OneEvent \/ (\E s \in Sources : Emits(s)) \/ Restart)

MCSpec == MCInit /\ [][MCNext]_AllVars
=============================================================================
