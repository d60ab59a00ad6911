---------------------------- MODULE EventDelivery ----------------------------
(***************************************************************************)
(* What Hermes promises a producer of events, without queue, workers or    *)
(* database: an accepted event is owed until it is settled, once settled   *)
(* it stays settled, and the outcome written on it never claims more than  *)
(* the outside world has seen.  HermesOutbox implements this module.       *)
(***************************************************************************)
CONSTANTS Events,     \* the events producers may post
          Providers,  \* the notification providers (telegram, ntfy, ...)
          RuleSets    \* the routing tables that may be in force

VARIABLES status,     \* absent (never accepted) | owed | settled
          reached,    \* the providers that got the event at least once
          repaired,   \* the events whose remediation succeeded at least once
          rules,      \* the routing table in force: action and targets of an event
          verdict     \* the outcome shown to the operator

deliveryVars == <<status, reached, repaired, rules, verdict>>

Init ==
    /\ status = [e \in Events |-> "absent"]
    /\ reached = [e \in Events |-> {}]
    /\ repaired = {}
    /\ rules \in RuleSets
    /\ verdict = [e \in Events |-> "none"]

(* An outcome is honest when everything it asserts has happened.           *)
Honest(e, o) ==
    \/ o = "ignored" /\ rules[e].action = "ignore"
    \/ o = "logged" /\ rules[e].action = "log"
    \/ o = "skipped" /\ rules[e].action = "notify" /\ rules[e].targets = {}
    \/ o = "notified" /\ rules[e].action = "notify" /\ rules[e].targets \subseteq reached[e]
    \/ o = "partial" /\ rules[e].action = "notify" /\ rules[e].targets \cap reached[e] # {}
    \/ o = "failed" /\ rules[e].action = "notify" /\ rules[e].targets # {}
    \/ o = "remediated" /\ rules[e].action = "remediate" /\ e \in repaired
    \/ o = "remediation_failed" /\ rules[e].action = "remediate"

Accept(e) ==
    /\ status[e] = "absent"
    /\ status' = [status EXCEPT ![e] = "owed"]
    /\ UNCHANGED <<reached, repaired, rules, verdict>>

(* A copy arrives.  Also after settlement: delivery is at least once.      *)
Reach(e, p) ==
    /\ status[e] # "absent"
    /\ p \in rules[e].targets
    /\ reached' = [reached EXCEPT ![e] = @ \cup {p}]
    /\ UNCHANGED <<status, repaired, rules, verdict>>

Repair(e) ==
    /\ status[e] # "absent"
    /\ rules[e].action = "remediate"
    /\ repaired' = repaired \cup {e}
    /\ UNCHANGED <<status, reached, rules, verdict>>

(* Settling an event that is already settled rewrites its outcome.         *)
Settle(e, o) ==
    /\ status[e] # "absent"
    /\ Honest(e, o)
    /\ status' = [status EXCEPT ![e] = "settled"]
    /\ verdict' = [verdict EXCEPT ![e] = o]
    /\ UNCHANGED <<reached, repaired, rules>>

(* A restart may load other rules.                                         *)
Reload ==
    /\ rules' \in RuleSets
    /\ UNCHANGED <<status, reached, repaired, verdict>>

Next ==
    \/ Reload
    \/ \E e \in Events :
        \/ Accept(e)
        \/ Repair(e)
        \/ \E p \in Providers : Reach(e, p)
        \/ \E o \in {"ignored", "logged", "skipped", "notified", "partial",
                     "failed", "remediated", "remediation_failed"} : Settle(e, o)

Spec == Init /\ [][Next]_deliveryVars
=============================================================================
