---------------------------- MODULE MCHermesOutbox ----------------------------
(* Finite instances of HermesOutbox for TLC.                               *)
EXTENDS HermesOutbox, TLC

CONSTANTS e1, e2, p1, p2

To(action, targets) == [action |-> action, targets |-> targets]

(* One event, three ways of routing it: every start may change the rules.  *)
MCRuleSets ==
    {(e1 :> r) : r \in {To("log", {}), To("notify", {p1, p2}), To("remediate", {p1})}}

=============================================================================
