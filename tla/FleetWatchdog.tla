---------------------------- MODULE FleetWatchdog -----------------------------
(***************************************************************************)
(* The loop the connector and the Hermes watchdog close around the fleet.  *)
(* A container changes, the connector posts an event, the watchdog takes   *)
(* the errors out of the events table, asks the Oracle about each, and     *)
(* proposes to restart or to stop a container: a restart runs after a      *)
(* window in which the operator may say no, unless the watchdog has acted  *)
(* on that container too often, and anything else waits for a yes. What it *)
(* runs changes the fleet, which the connector finds on its next sweep.    *)
(***************************************************************************)
EXTENDS FleetConnector, Functions

CONSTANTS EventsPerCheck,     \* watchdog_max_events_per_check
          TargetCooldown,     \* watchdog_target_cooldown_seconds, in ticks
          CrashloopThreshold, \* watchdog_crashloop_threshold
          CrashloopWindow     \* watchdog_crashloop_window_seconds, in ticks

ASSUME WatchdogAssumption ==
    /\ EventsPerCheck \in Nat \ {0} /\ TargetCooldown \in Nat
    /\ CrashloopThreshold \in Nat \ {0} /\ CrashloopWindow \in Nat \ {0}

VARIABLES started,   \* _last_check is set
          lastCheck, \* _last_check: the place in log it corresponds to
          batch,     \* the events of this check that are still to be evaluated
          evaluated, \* _evaluated
          chill,     \* _last_target: ticks until a container may be proposed for again
          pending,   \* _pending: what is proposed for a container
          history,   \* _action_history: for a container, how long ago, and who let it run
          unseen     \* history: events no check will look at

watchdogVars == <<started, lastCheck, batch, evaluated, chill, pending, history, unseen>>
vars == <<fleetVars, watchdogVars>>

NoProposal == [action |-> "none", risk |-> "low"]

WatchdogInit ==
    /\ started = FALSE /\ lastCheck = 0
    /\ batch = {} /\ evaluated = {}
    /\ chill = [c \in Containers |-> 0]
    /\ pending = [c \in Containers |-> NoProposal]
    /\ history = [c \in Containers |-> <<>>]
    /\ unseen = {}

Init == ConnectorInit /\ WatchdogInit

(* Phoenix has restarted a container as often as it does, to no avail, and *)
(* says so.                                                                *)
Escalation(c) == [by |-> "phoenix", about |-> c, word |-> "recovery_escalated",
                  severity |-> "error", state |-> "stamped"]

Escalate(c) ==
    /\ changes < MaxChanges
    /\ changes' = changes + 1
    /\ log' = Append(log, Escalation(c))
    /\ UNCHANGED <<actual, connectorVars, said, mishaps, watchdogVars>>

CommitEscalation(e) ==
    /\ log[e].state = "stamped" /\ log[e].by = "phoenix"
    /\ Stored(e)
    /\ UNCHANGED <<actual, connectorVars, said, changes, mishaps>>

(* An event that is stored after the check that went past it.              *)
Arrive ==
    /\ \E e \in DOMAIN log :
          /\ Commit(e) \/ CommitEscalation(e)
          /\ unseen' = IF e <= lastCheck THEN unseen \cup {e} ELSE unseen
    /\ UNCHANGED <<started, lastCheck, batch, evaluated, chill, pending, history>>

-----------------------------------------------------------------------------
(* Mutant of Since: an event of this very instant is left to the next      *)
(* check, which starts after it.                                           *)
SinceBefore(mark) == mark + 1 .. Len(log) - 1

(* _fetch_candidates: timestamp > since and timestamp <= now.              *)
Since(mark) == mark + 1 .. Len(log)

Candidates == {e \in Since(lastCheck) : log[e].state = "stored" /\ log[e].severity = "error"}

Oldest(events) ==
    {e \in events : Cardinality({d \in events : d < e}) < EventsPerCheck}

(* check_once: the first check only looks at the clock; any other takes    *)
(* the oldest few of the new errors and moves on, past the rest as well.   *)
FirstCheck ==
    /\ ~started
    /\ started' = TRUE
    /\ lastCheck' = Len(log)
    /\ unseen' = unseen \cup DOMAIN log
    /\ UNCHANGED <<fleetVars, batch, evaluated, chill, pending, history>>

Check ==
    /\ started /\ batch = {} /\ lastCheck < Len(log)
    /\ lastCheck' = Len(log)
    /\ batch' = Oldest(Candidates)
    /\ unseen' = unseen \cup (Candidates \ batch')
    /\ UNCHANGED <<fleetVars, started, evaluated, chill, pending, history>>

-----------------------------------------------------------------------------
Turn == CHOOSE e \in batch : \A d \in batch : e <= d

Take == batch # {} /\ evaluated' = evaluated \cup {Turn}

(* _evaluate: the Oracle does not answer, asks for nothing or for what is  *)
(* not allowed, or names a container that is proposed for already, was a   *)
(* moment ago, or does not exist.                                          *)
Dismiss ==
    /\ Take
    /\ batch' = batch \ {Turn}
    /\ UNCHANGED <<fleetVars, started, lastCheck, chill, pending, history, unseen>>

(* An exception in _evaluate ends the check.                               *)
EvaluateRaises ==
    /\ Take
    /\ Mishap
    /\ batch' = {}
    /\ unseen' = unseen \cup (batch \ {Turn})
    /\ UNCHANGED <<actual, connectorVars, log, said, changes,
                   started, lastCheck, chill, pending, history>>

(* Mutant of Exhausted: one more than the threshold allows.                *)
ExhaustedLate(c) == Len(history[c]) > CrashloopThreshold

(* _crashloop_count: history only holds what is inside the window.         *)
Exhausted(c) == Len(history[c]) >= CrashloopThreshold

(* phoenix_prior_attempts: the event itself says that Phoenix has tried.   *)
Prior(e, action) == log[e].by = "phoenix" /\ action = "docker_restart"

(* local_risk, and _propose: what may run by itself.                       *)
Safe == {"docker_restart", "docker_start"}
Risk(e, c, action) ==
    IF action \in Safe /\ ~Prior(e, action) /\ ~Exhausted(c) THEN "low" ELSE "medium"

(* parse_decision: what the Oracle may ask for. (To read the logs of a     *)
(* container is the same as to start one that is up.)                      *)
Decisions == Containers \X (Safe \cup {"docker_stop"})

(* _default_container_exists: docker inspect.                              *)
Exists(c) == actual[c] # "absent"

Propose(c, action) ==
    /\ Take
    /\ batch' = batch \ {Turn}
    /\ pending[c] = NoProposal /\ chill[c] = 0 /\ Exists(c)
    /\ chill' = [chill EXCEPT ![c] = TargetCooldown]
    /\ pending' = [pending EXCEPT ![c] = [action |-> action,
                                          risk |-> Risk(Turn, c, action)]]
    /\ UNCHANGED <<fleetVars, started, lastCheck, history, unseen>>

(* _execute: the action is on record before it is run, and may fail.       *)
Execute(c, source) ==
    /\ pending[c] # NoProposal
    /\ changes < MaxChanges
    /\ changes' = changes + 1
    /\ pending' = [pending EXCEPT ![c] = NoProposal]
    /\ history' = [history EXCEPT ![c] = Append(@, [age |-> 0, source |-> source])]
    /\ \/ UNCHANGED actual
       \/ /\ Exists(c)
          /\ actual' = [actual EXCEPT ![c] =
                           IF pending[c].action = "docker_stop" THEN "down" ELSE "up"]
    /\ UNCHANGED <<connectorVars, log, said, mishaps,
                   started, lastCheck, batch, evaluated, chill, unseen>>

(* _auto_proceed_after, and what the operator replies.                     *)
WindowElapses(c) == pending[c].risk = "low" /\ Execute(c, "auto")
Approve(c) == Execute(c, "operator")
Cancel(c) ==
    /\ pending[c] # NoProposal
    /\ pending' = [pending EXCEPT ![c] = NoProposal]
    /\ UNCHANGED <<fleetVars, started, lastCheck, batch, evaluated, chill, history, unseen>>

-----------------------------------------------------------------------------
(* Hermes restarts: the watchdog keeps nothing.                            *)
HermesRestart ==
    /\ HermesStops
    /\ started' = FALSE /\ lastCheck' = 0
    /\ batch' = {} /\ evaluated' = {}
    /\ chill' = [c \in Containers |-> 0]
    /\ pending' = [c \in Containers |-> NoProposal]
    /\ history' = [c \in Containers |-> <<>>]
    /\ UNCHANGED unseen

(* The entries are in the order of their age: those that leave the window  *)
(* are the first.                                                          *)
Older(entry) == [entry EXCEPT !.age = @ + 1]
Expired(entries) == {i \in DOMAIN entries : Older(entries[i]).age >= CrashloopWindow}
Aged(entries) ==
    LET gone == Cardinality(Expired(entries))
    IN  [i \in 1 .. Len(entries) - gone |-> Older(entries[i + gone])]

Time ==
    /\ ConnectorTime
    /\ chill' = [c \in Containers |-> IF chill[c] > 0 THEN chill[c] - 1 ELSE 0]
    /\ history' = [c \in Containers |-> Aged(history[c])]
    /\ UNCHANGED <<started, lastCheck, batch, evaluated, pending, unseen>>

Next ==
    \/ (ConnectorStep \/ \E c \in Containers, s \in States \cup {"absent"} : Change(c, s))
         /\ UNCHANGED watchdogVars
    \/ Arrive \/ FirstCheck \/ Check \/ Dismiss \/ EvaluateRaises \/ HermesRestart \/ Time
    \/ \E decision \in Decisions : Propose(decision[1], decision[2])
    \/ \E c \in Containers : Escalate(c) \/ WindowElapses(c) \/ Approve(c) \/ Cancel(c)

Spec == Init /\ [][Next]_vars

-----------------------------------------------------------------------------
(* The variables keep their types. In particular what an object is in the  *)
(* baseline is a state a sweep can find, and no cooldown is longer than it *)
(* was set to.                                                             *)
TypeOK ==
    /\ actual \in [Containers -> States \cup {"absent"}]
    /\ \A t \in Threads, data \in {baseline, disk, found} :
          DOMAIN data[t] \subseteq Containers /\ Range(data[t]) \subseteq States
    /\ cool \in [Keys -> 0 .. FlapCooldown]
    /\ sweep \in [Threads -> SUBSET Containers]
    /\ mode \in [Threads -> {"resting", "sweeping", "dead"}]
    /\ rest \in [Threads -> 0 .. EndpointEvery + 1]
    /\ \A t \in Threads : post[t] # 0 => log[post[t]].by = t /\ log[post[t]].state = "stamped"
    /\ \A t \in Threads : mode[t] # "sweeping" => sweep[t] = {} /\ found[t] = Nowhere
    /\ said \in [Threads -> [Containers -> Words \cup {"nothing"}]]
    /\ lastCheck <= Len(log) /\ batch \subseteq DOMAIN log
    /\ evaluated \cup unseen \subseteq DOMAIN log
    /\ chill \in [Containers -> 0 .. TargetCooldown]
    /\ pending \in [Containers -> [action : Safe \cup {"none", "docker_stop"},
                                   risk : {"low", "medium"}]]

(* Between two sweeps Hermes has heard how every object is that it ever    *)
(* heard of, as the last sweep found it: through lost posts, late commits, *)
(* and restarts of either side, the only objects it is wrong about are     *)
(* those whose last event was suppressed, lost, or cut off by a restart,   *)
(* and what reappeared or was meant to end (FleetWatcher.sweep).           *)
Known(t, c) == IF c \in DOMAIN baseline[t] THEN {baseline[t][c]} ELSE {"down", "disappeared"}

HermesKnows ==
    \A t \in Threads, c \in Containers :
        mode[t] = "resting" => \/ <<t, c>> \in excused
                               \/ said[t][c] \in Known(t, c) \cup {"nothing"}

(* The same with the types of the variables.                               *)
FleetIsKnown == TypeOK /\ HermesKnows

(* Every stored error the watchdog has moved past was evaluated, or is     *)
(* about to be, except those older than its first check, beyond the limit  *)
(* of a check, behind an exception, or stored after the check that covers  *)
(* their timestamp (check_once, _fetch_candidates).                        *)
ErrorsConsidered ==
    \A e \in 1 .. lastCheck :
        log[e].state = "stored" /\ log[e].severity = "error"
            => e \in evaluated \cup batch \cup unseen

(* Within a crash-loop window the watchdog lets at most the threshold of   *)
(* actions on a container run by themselves, whatever the Oracle proposes, *)
(* how the container fails and what the operator runs in between.          *)
AutoRuns(entries) == {i \in DOMAIN entries : entries[i].source = "auto"}

AutoRunsRationed ==
    \A c \in Containers : Cardinality(AutoRuns(history[c])) <= CrashloopThreshold
=============================================================================
