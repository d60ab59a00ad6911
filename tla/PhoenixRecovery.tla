---------------------------- MODULE PhoenixRecovery ----------------------------
(***************************************************************************)
(* Phoenix's observe-diagnose-recover loop: the scheduler runs all due     *)
(* monitors of a tick at once, each result goes to the orchestrator in the *)
(* monitor's own task, and the next tick waits for the last of them.       *)
(* Operators start recoveries by hand at any time. Every database call and *)
(* every probe suspends, so what a task has read may be old when it acts.  *)
(*                                                                         *)
(* incident and window are the database. A task that recovers a component  *)
(* goes on to restart the dependents, each with an incident of its own:    *)
(* its stack holds one frame per incident it works on.                     *)
(***************************************************************************)
EXTENDS Naturals, Sequences, FiniteSets, SequencesExt

CONSTANTS Monitors, Components,
          Owner,       \* the component a monitor belongs to
          FailureOf,   \* the status a monitor reports when it fails
          Dependents,  \* those restarted after a component, in order
          Report,      \* components without a recovery strategy
          Verified,    \* components whose recovery is verified
          Attempts,    \* attempts of a retry policy
          Requests,    \* POST /recover/{component}
          Target,      \* the component of a request
          Ids,         \* incident ids, as many as an instance needs
          None,        \* the monitor of an incident that has none
          MaxBreaks,   \* bound: how often something breaks
          MaxMishaps   \* bound: calls that raise, and crashes

ASSUME RecoveryAssumption ==
    /\ Owner \in [Monitors -> Components]
    /\ Target \in [Requests -> Components]
    /\ Dependents \in [Components -> Seq(Components)]
    /\ Report \subseteq Components /\ Verified \subseteq Components
    /\ Monitors \cap Requests = {} /\ None \notin Monitors
    /\ Ids \subseteq Nat /\ Attempts \in Nat \ {0} /\ MaxBreaks \in Nat /\ MaxMishaps \in Nat

VARIABLES incident,  \* the incidents table
          window,    \* components with an active maintenance window
          healthy,   \* what a monitor would find now
          stage,     \* where the task of a monitor or a request is
          batch,     \* incidents a monitor that passes has still to close
          stack,     \* the recoveries a task is in
          doubt,     \* history: monitors an incident waits for, not yet seen healthy
          breaks, mishaps

dbVars == <<incident, window>>
taskVars == <<stage, batch, stack>>
vars == <<dbVars, healthy, taskVars, doubt, breaks, mishaps>>

Tasks == Monitors \cup Requests
MonitorsOf(c) == {m \in Monitors : Owner[m] = c}
ComponentOf(t) == IF t \in Monitors THEN Owner[t] ELSE Target[t]

Active == {"open", "recovering", "unresolved"}
Unused == [component |-> None, failure |-> "none", monitor |-> None, status |-> "unused"]

Init ==
    /\ incident = [i \in Ids |-> Unused]
    /\ window = {}
    /\ healthy = [m \in Monitors |-> TRUE]
    /\ stage = [t \in Tasks |-> "idle"]
    /\ batch = [m \in Monitors |-> {}]
    /\ stack = [t \in Tasks |-> <<>>]
    /\ doubt = [i \in Ids |-> {}]
    /\ breaks = 0
    /\ mishaps = 0

-----------------------------------------------------------------------------
Goto(t, s) == stage' = [stage EXCEPT ![t] = s]

(* A monitor's task waits for the next tick, a request's is over.          *)
Rest(t) == IF t \in Monitors THEN "idle" ELSE "done"

Frame(i, at) == [id |-> i, at |-> at, tried |-> 0, ok |-> TRUE, probe |-> {}, next |-> <<>>]
Top(t) == Last(stack[t])
Push(t, frame) == stack' = [stack EXCEPT ![t] = Append(@, frame)]
Replace(t, frame) == stack' = [stack EXCEPT ![t] = Append(Front(@), frame)]

(* The innermost recovery of t returns.                                    *)
Pop(t) ==
    /\ stack' = [stack EXCEPT ![t] = Front(@)]
    /\ Goto(t, IF Len(stack[t]) = 1 THEN Rest(t) ELSE stage[t])

SetStatus(i, s) == incident' = [incident EXCEPT ![i].status = s]

Free == {i \in Ids : incident[i] = Unused}

(* The monitors that verify an incident: its own, or all of the component. *)
Verifiers(c, monitor) == IF monitor = None THEN MonitorsOf(c) ELSE {monitor}

(* create_incident, and IncidentService.open.                              *)
CreateIncident(i, row) ==
    /\ i \in Free /\ \A j \in Free : i <= j
    /\ incident' = [incident EXCEPT ![i] = row]

Create(i, c, failure, monitor) ==
    /\ CreateIncident(i, [component |-> c, failure |-> failure, monitor |-> monitor,
                          status |-> "open"])
    /\ doubt' = [doubt EXCEPT ![i] = Verifiers(c, monitor)]

(* A probe that passes is news for the incidents there are.                *)
Probe(m) ==
    doubt' = [i \in Ids |-> IF healthy[m] THEN doubt[i] \ {m} ELSE doubt[i]]

-----------------------------------------------------------------------------
(* MonitorScheduler._run_due: no task of the last tick is left.            *)
Tick(due) ==
    /\ \A m \in Monitors : stage[m] = "idle"
    /\ stage' = [t \in Tasks |-> IF t \in due THEN "check" ELSE stage[t]]
    /\ UNCHANGED <<dbVars, healthy, batch, stack, doubt, breaks, mishaps>>

(* _run: probe, and hand the result to the orchestrator.                   *)
Check(m) ==
    /\ stage[m] = "check"
    /\ Probe(m)
    /\ Goto(m, IF healthy[m] THEN "passed" ELSE "consult")
    /\ UNCHANGED <<dbVars, healthy, batch, stack, breaks, mishaps>>

(* Mutant of OpenOf: incidents are closed whoever reported them.           *)
OpenOfComponent(m) ==
    {i \in Ids : incident[i].component = Owner[m] /\ incident[i].status \in Active}

(* Mutant of OpenOf: only incidents that were given up are closed.         *)
OpenOfUnresolved(m) ==
    {i \in Ids : incident[i].monitor = m /\ incident[i].status = "unresolved"}

(* open_for_component, of which handle_recovery keeps its own.             *)
OpenOf(m) ==
    {i \in Ids : /\ incident[i].component = Owner[m] /\ incident[i].status \in Active
                 /\ incident[i].monitor = m}

(* handle_recovery, one database call at a time.                           *)
FetchOpen(m) ==
    /\ stage[m] = "passed"
    /\ batch' = [batch EXCEPT ![m] = OpenOf(m)]
    /\ Goto(m, IF OpenOf(m) = {} THEN "idle" ELSE "closing")
    /\ UNCHANGED <<dbVars, healthy, stack, doubt, breaks, mishaps>>

CloseOne(m) ==
    /\ stage[m] = "closing"
    /\ \E i \in batch[m] :
        /\ SetStatus(i, "resolved")
        /\ batch' = [batch EXCEPT ![m] = @ \ {i}]
        /\ Goto(m, IF batch[m] = {i} THEN "idle" ELSE "closing")
    /\ UNCHANGED <<window, healthy, stack, doubt, breaks, mishaps>>

(* is_in_maintenance, at the beginning of handle_failure and of            *)
(* recover_component.                                                      *)
Consult(t) ==
    /\ stage[t] = "consult"
    /\ Goto(t, IF ComponentOf(t) \in window THEN "record"
               ELSE IF t \in Monitors THEN "dedupe" ELSE "open")
    /\ UNCHANGED <<dbVars, healthy, batch, stack, doubt, breaks, mishaps>>

HasOpen(c, failure) ==
    \E i \in Ids : /\ incident[i].component = c /\ incident[i].failure = failure
                   /\ incident[i].status \in Active

(* has_open, for failures a monitor reports.                               *)
Dedupe(m) ==
    /\ stage[m] = "dedupe"
    /\ Goto(m, IF HasOpen(Owner[m], FailureOf[m]) THEN "idle" ELSE "open")
    /\ UNCHANGED <<dbVars, healthy, batch, stack, doubt, breaks, mishaps>>

(* Open an incident, to recover the component or to mark it as maintenance.*)
Open(t) ==
    /\ stage[t] \in {"open", "record"}
    /\ \E i \in Ids :
        /\ IF t \in Monitors
             THEN Create(i, Owner[t], FailureOf[t], t)
             ELSE Create(i, Target[t], "manual_recovery", None)
        /\ Push(t, Frame(i, IF stage[t] = "open" THEN "begin" ELSE "mark"))
    /\ Goto(t, "work")
    /\ UNCHANGED <<window, healthy, batch, breaks, mishaps>>

(* mark_maintenance: no query reads such a row again, and it is forgotten. *)
Mark(t) ==
    /\ stage[t] = "work" /\ Top(t).at = "mark"
    /\ incident' = [incident EXCEPT ![Top(t).id] = Unused]
    /\ doubt' = [doubt EXCEPT ![Top(t).id] = {}]
    /\ Pop(t)
    /\ UNCHANGED <<window, healthy, batch, breaks, mishaps>>

-----------------------------------------------------------------------------
(* Mutant of Begin: without a strategy there is nothing to do.             *)
BeginSilently(t) ==
    /\ stage[t] = "work" /\ Top(t).at = "begin"
    /\ \/ /\ incident[Top(t).id].component \in Report
          /\ Pop(t)
          /\ UNCHANGED incident
       \/ /\ incident[Top(t).id].component \notin Report
          /\ SetStatus(Top(t).id, "recovering")
          /\ Replace(t, [Top(t) EXCEPT !.at = "attempt"])
          /\ UNCHANGED stage
    /\ UNCHANGED <<window, healthy, batch, doubt, breaks, mishaps>>

(* recover_incident up to the first attempt; without a strategy it reports.*)
Begin(t) ==
    /\ stage[t] = "work" /\ Top(t).at = "begin"
    /\ \/ /\ incident[Top(t).id].component \in Report
          /\ SetStatus(Top(t).id, "unresolved")
          /\ Pop(t)
       \/ /\ incident[Top(t).id].component \notin Report
          /\ SetStatus(Top(t).id, "recovering")
          /\ Replace(t, [Top(t) EXCEPT !.at = "attempt"])
          /\ UNCHANGED stage
    /\ UNCHANGED <<window, healthy, batch, doubt, breaks, mishaps>>

(* What _verify will probe.                                                *)
ToProbe(i) ==
    IF incident[i].component \in Verified
      THEN Verifiers(incident[i].component, incident[i].monitor) ELSE {}

(* run_with_retry: is there another attempt after one that raised?         *)
Again(tried) == tried + 1 < Attempts

(* One attempt of run_with_retry. The strategy may help or not, and it may *)
(* have helped although the attempt raised: its row is written after it.   *)
Attempt(t, raised) ==
    /\ stage[t] = "work" /\ Top(t).at = "attempt"
    /\ healthy' \in {healthy, [m \in Monitors |->
            healthy[m] \/ Owner[m] = incident[Top(t).id].component]}
    /\ Replace(t,
         IF raised /\ Again(Top(t).tried)
           THEN [Top(t) EXCEPT !.tried = @ + 1]
           ELSE [Top(t) EXCEPT !.at = "verify", !.ok = ~raised, !.tried = 0,
                               !.probe = ToProbe(Top(t).id)])
    /\ UNCHANGED <<dbVars, stage, batch, doubt, breaks, mishaps>>

(* One failing monitor spoils the verification.                            *)
Judge(ok, m) == ok /\ healthy[m]

Verify(t) ==
    /\ stage[t] = "work" /\ Top(t).at = "verify"
    /\ \E m \in Top(t).probe :
        /\ Replace(t, [Top(t) EXCEPT !.probe = @ \ {m}, !.ok = Judge(@, m)])
        /\ Probe(m)
    /\ UNCHANGED <<dbVars, healthy, stage, batch, breaks, mishaps>>

(* _resolve and go on to the dependents, or _fail.                         *)
Judged(t) == stage[t] = "work" /\ Top(t).at = "verify" /\ Top(t).probe = {}

Resolve(t) ==
    /\ Judged(t) /\ Top(t).ok
    /\ SetStatus(Top(t).id, "resolved")
    /\ Replace(t, [Top(t) EXCEPT !.at = "cascade",
                                 !.next = Dependents[incident[Top(t).id].component]])
    /\ UNCHANGED <<window, healthy, stage, batch, doubt, breaks, mishaps>>

Fail(t) ==
    /\ Judged(t) /\ ~Top(t).ok
    /\ SetStatus(Top(t).id, "unresolved")
    /\ Pop(t)
    /\ UNCHANGED <<window, healthy, batch, doubt, breaks, mishaps>>

Close(t) == Resolve(t) \/ Fail(t)

(* _restart_dependents: skip the next dependent, or take it on.            *)
Cascade(t) ==
    /\ stage[t] = "work" /\ Top(t).at = "cascade"
    /\ \/ /\ Top(t).next = <<>>
          /\ Pop(t)
       \/ /\ Top(t).next # <<>>
          /\ Replace(t, IF Head(Top(t).next) \in window
                          THEN [Top(t) EXCEPT !.next = Tail(@)]
                          ELSE [Top(t) EXCEPT !.at = "spawn"])
          /\ UNCHANGED stage
    /\ UNCHANGED <<dbVars, healthy, batch, doubt, breaks, mishaps>>

Spawn(t) ==
    /\ stage[t] = "work" /\ Top(t).at = "spawn"
    /\ LET c == Head(Top(t).next) IN
       \E i \in Ids :
        /\ Create(i, c, "dependency_recovery", None)
        /\ stack' = [stack EXCEPT ![t] =
              Front(@) \o <<[Top(t) EXCEPT !.at = "cascade", !.next = Tail(@)], Frame(i, "begin")>>]
    /\ UNCHANGED <<window, healthy, stage, batch, breaks, mishaps>>

-----------------------------------------------------------------------------
Request(r) ==
    /\ stage[r] = "idle"
    /\ Goto(r, "consult")
    /\ UNCHANGED <<dbVars, healthy, batch, stack, doubt, breaks, mishaps>>

(* POST and DELETE /maintenance; a window may also come to its end.        *)
CreateMaintenance(c) ==
    /\ window' = window \cup {c}
    /\ UNCHANGED <<incident, healthy, taskVars, doubt, breaks, mishaps>>

CloseMaintenance(c) ==
    /\ window' = window \ {c}
    /\ UNCHANGED <<incident, healthy, taskVars, doubt, breaks, mishaps>>

(* Something breaks, and several monitors may notice.                      *)
Break(broken) ==
    /\ broken # {} /\ \A m \in broken : healthy[m]
    /\ breaks < MaxBreaks
    /\ breaks' = breaks + 1
    /\ healthy' = [m \in Monitors |-> healthy[m] /\ m \notin broken]
    /\ UNCHANGED <<dbVars, taskVars, doubt, mishaps>>

Heal(m) ==
    /\ ~healthy[m]
    /\ healthy' = [healthy EXCEPT ![m] = TRUE]
    /\ UNCHANGED <<dbVars, taskVars, doubt, breaks, mishaps>>

Mishap == mishaps < MaxMishaps /\ mishaps' = mishaps + 1

(* A database call raises (probes never do: safe_check). gather keeps the  *)
(* exception, and the task is over wherever it was, but for an attempt:    *)
(* run_with_retry catches what that raises.                                *)
Fault(t) ==
    /\ stage[t] \notin {"idle", "done", "check"}
    /\ stage[t] = "work" => Top(t).at # "attempt"
    /\ Mishap
    /\ Goto(t, Rest(t))
    /\ stack' = [stack EXCEPT ![t] = <<>>]
    /\ batch' = [m \in Monitors |-> IF m = t THEN {} ELSE batch[m]]
    /\ UNCHANGED <<dbVars, healthy, doubt, breaks>>

(* Phoenix restarts: nothing looks at the incidents that were in work.     *)
Crash ==
    /\ Mishap
    /\ stage' = [t \in Tasks |-> IF stage[t] = "idle" THEN "idle" ELSE Rest(t)]
    /\ stack' = [t \in Tasks |-> <<>>]
    /\ batch' = [m \in Monitors |-> {}]
    /\ UNCHANGED <<dbVars, healthy, doubt, breaks>>

-----------------------------------------------------------------------------
MonitorStep(m) == Check(m) \/ FetchOpen(m) \/ CloseOne(m) \/ Dedupe(m)

TaskStep(t) ==
    \/ Consult(t) \/ Open(t) \/ Mark(t) \/ Begin(t) \/ Verify(t) \/ Close(t)
    \/ Cascade(t) \/ Spawn(t)
    \/ \E raised \in BOOLEAN : Attempt(t, raised)

Next ==
    \/ \E due \in SUBSET Monitors \ {{}} : Tick(due)
    \/ \E m \in Monitors : MonitorStep(m) \/ Heal(m)
    \/ \E broken \in SUBSET Monitors : Break(broken)
    \/ \E t \in Tasks : TaskStep(t) \/ Fault(t)
    \/ \E r \in Requests : Request(r)
    \/ \E c \in Components : CreateMaintenance(c) \/ CloseMaintenance(c)
    \/ Crash

(* Every monitor is due again and again, and its task goes on; operators,  *)
(* breakdowns and mishaps are free to stay away.                           *)
Fairness ==
    /\ \A m \in Monitors :
        /\ SF_vars(\E due \in SUBSET Monitors : m \in due /\ Tick(due))
        /\ WF_vars(MonitorStep(m))
    /\ \A t \in Tasks : WF_vars(TaskStep(t))

Spec == Init /\ [][Next]_vars
FairSpec == Spec /\ Fairness

-----------------------------------------------------------------------------
(* Properties.                                                             *)

Statuses == Active \cup {"unused", "resolved"}
Failures == {FailureOf[m] : m \in Monitors} \cup {"none", "manual_recovery", "dependency_recovery"}

(* The types of the variables.                                             *)
TypeOK ==
    /\ incident \in [Ids -> [component : Components \cup {None}, failure : Failures,
                             monitor : Monitors \cup {None}, status : Statuses]]
    /\ window \subseteq Components
    /\ healthy \in [Monitors -> BOOLEAN]
    /\ stage \in [Tasks -> {"idle", "check", "passed", "closing", "consult", "dedupe",
                            "open", "record", "work", "done"}]
    /\ batch \in [Monitors -> SUBSET Ids]
    /\ stack \in [Tasks -> Seq([id : Ids, at : {"mark", "begin", "attempt", "verify",
                                                "cascade", "spawn"},
                                tried : 0..Attempts - 1, ok : BOOLEAN, probe : SUBSET Monitors,
                                next : Seq(Components)])]
    /\ doubt \in [Ids -> SUBSET Monitors]
    /\ breaks \in 0..MaxBreaks /\ mishaps \in 0..MaxMishaps

(* An incident of a verified component is resolved only if all monitors    *)
(* it depends on passed after it was opened, whoever resolves it.          *)
ResolvedWasSeenHealthy ==
    \A i \in Ids :
        incident[i].status = "resolved" /\ incident[i].component \in Verified
            => doubt[i] = {}

(* Work that was begun is in exactly one task's hands: unless something     *)
(* raised or Phoenix restarted, no path through the recovery of a component *)
(* and of its dependents leaves an incident open or recovering.             *)
WorkIsHeld ==
    \A i \in Ids :
        incident[i].status \in {"open", "recovering"} /\ mishaps = 0 =>
            \E t \in Tasks : \E k \in DOMAIN stack[t] :
                /\ stack[t][k].id = i /\ stack[t][k].at # "cascade"
                /\ \A u \in Tasks : \A j \in DOMAIN stack[u] :
                      stack[u][j].id = i => u = t /\ j = k

(* A monitor whose failure looks the same does not restart its component   *)
(* tick after tick: it has one open incident, whatever became of it. The   *)
(* rows written during maintenance do not count until they are marked.     *)
Marking(i) == \E t \in Tasks : stack[t] # <<>> /\ Top(t).id = i /\ Top(t).at = "mark"

OneIncidentPerMonitor ==
    mishaps = 0 =>
        \A i, j \in Ids :
            /\ incident[i].status \in Active /\ incident[j].status \in Active
            /\ incident[i].monitor # None /\ incident[i].monitor = incident[j].monitor
            /\ ~Marking(i) /\ ~Marking(j)
            => i = j

(* Incidents belong to somebody and do not multiply: both of these, and the *)
(* types of the variables.                                                 *)
IncidentsAreHeld == TypeOK /\ WorkIsHeld /\ OneIncidentPerMonitor

(* A monitor that passes for good closes all its incidents in the end,     *)
(* also those a crash or a database error has left behind.                 *)
SelfHealing ==
    \A m \in Monitors :
        <>[]healthy[m] =>
            <>[](\A i \in Ids : incident[i].monitor = m => incident[i].status \notin Active)

=============================================================================
