---------------------------- MODULE MCHermesChat -----------------------------
(* Two messages and a limit of one question with its answer. Three scenes:  *)
(* no mishap, with calls of the agent that go on beside each other; one     *)
(* around a single message; and one around two, where no tool has run and a *)
(* call is over before the next one.                                        *)
EXTENDS HermesChat

Running == {i \in DOMAIN calls : calls[i].pc \notin Ended}
OneScene == mishaps > 0 => written = 1 \/ (ran = {} /\ Cardinality(Running) <= 1)

MCSpec == Init /\ [][Next /\ OneScene']_vars /\ Fairness
==============================================================================
