---------------------------- MODULE MCArgusResearch ----------------------------
(* A finite instance of ArgusResearch for TLC.                               *)
EXTENDS ArgusResearch, TLC

CONSTANTS w1, plain, other, long, blank

MCLists == {<<plain>>, <<other>>, <<plain, other>>, <<long>>, <<blank>>}
MCTopicOf == w1 :> other
MCNotPadded == [a \in {} |-> plain]

(* An angle no run can be made of comes up in the first session, where       *)
(* nothing else happens. Only the environment is restrained, never a fair    *)
(* action.                                                                   *)
OneScene ==
  (\E s \in Sessions : Range(sessions[s].planned) \cap {long, blank} # {}) => events <= 1

MCSpec == ResearchInit /\ [][ResearchNext /\ OneScene']_sessionVars /\ ResearchFairness
================================================================================
