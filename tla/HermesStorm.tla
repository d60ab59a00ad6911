------------------------------ MODULE HermesStorm ------------------------------
(***************************************************************************)
(* Hermes' storm detector over the events that the watcher of the LAN      *)
(* posts: at each check, kinds of events of which the window holds enough  *)
(* are reported as one storm event each, and then not for a cooldown.      *)
(***************************************************************************)
EXTENDS WatcherMemory

CONSTANTS Window, Threshold, Cooldown

ASSUME StormAssumption == Window \in Nat /\ Threshold \in Nat \ {0} /\ Cooldown \in Nat

VARIABLES
  detector,  \* the check: its time, kinds over the threshold, those still to do
  reported,  \* per kind: when it was last reported; lost in a restart
  raised     \* per kind: when a report of it last raised

stormVars == <<detector, reported, raised>>
sourceVars == <<watcherVars, events, now, watcherMishaps, stormVars>>

StormKinds == {"discovered", "online", "offline"}
Unreported == -1
NoCheck == [pc |-> "idle", at |-> Unreported, over |-> {}, todo |-> {}]

StormInit ==
  /\ WatcherInit
  /\ detector = NoCheck
  /\ reported = [k \in StormKinds |-> Unreported]
  /\ raised = [k \in StormKinds |-> Unreported]

Within(at, span) == at # Unreported /\ detector.at - at < span

(* Events of Hermes itself are not counted: storms make no storm.            *)
Count(kind) ==
  Cardinality({e \in events : e.module # "hermes" /\ e.type = kind /\ e.at >= now - Window})

Over == {k \in StormKinds : Count(k) >= Threshold}

CheckStorms ==
  /\ detector.pc = "idle" /\ now > detector.at
  /\ Over # {}
  /\ detector' = [pc |-> "emit", at |-> now, over |-> Over, todo |-> Over]
  /\ UNCHANGED <<watcherVars, events, now, watcherMishaps, reported, raised>>

Quiet(kind) == Within(reported[kind], Cooldown)

(* Variant: the cooldown starts again as long as the storm goes on.          *)
NotedAlways(kind) == detector.at

(* The time is noted before the event is made.                               *)
Noted(kind) == IF Quiet(kind) THEN reported[kind] ELSE detector.at

StormDone(kind) ==
  LET todo == detector.todo \ {kind} IN
  [detector EXCEPT !.todo = todo, !.pc = IF todo = {} THEN "idle" ELSE "emit"]

EmitStorm(kind) ==
  /\ detector.pc = "emit" /\ kind \in detector.todo
  /\ reported' = [reported EXCEPT ![kind] = Noted(kind)]
  /\ \/ /\ events' = IF Quiet(kind) THEN events
                     ELSE WithEvent("hermes", kind, detector.at)
        /\ detector' = StormDone(kind)
        /\ UNCHANGED <<raised, watcherMishaps>>
     \/ /\ ~Quiet(kind) /\ WatcherMishap
        /\ raised' = [raised EXCEPT ![kind] = detector.at]
        /\ detector' = [NoCheck EXCEPT !.at = detector.at]
        /\ UNCHANGED events
  /\ UNCHANGED <<watcherVars, now>>

StormTick ==
  /\ now < MaxTime
  /\ now' = now + 1
  /\ UNCHANGED <<watcherVars, events, watcherMishaps, stormVars>>

StormRestart ==
  /\ WatcherMishap
  /\ detector' = [NoCheck EXCEPT !.at = detector.at]
  /\ reported' = [k \in StormKinds |-> Unreported]
  /\ UNCHANGED <<watcherVars, events, now, raised>>

StormNext ==
  \/ /\ WatcherStep \/ \E d \in Devices : DeviceChanges(d)
     /\ UNCHANGED stormVars
  \/ CheckStorms \/ \E k \in StormKinds : EmitStorm(k)
  \/ StormTick \/ StormRestart

(* When a check is over, each kind that was over the threshold has a storm   *)
(* event of its own or one younger than the cooldown, unless making one      *)
(* raised: the storm that raised is not tried again before the cooldown is   *)
(* over, the others of its check are.  A storm that goes on is reported      *)
(* again.                                                                    *)
Fresh(at) == at = detector.at \/ Within(at, Cooldown)

BurstsReported ==
  detector.pc = "idle" =>
    \A k \in detector.over :
      \/ \E e \in events : e.module = "hermes" /\ e.type = k /\ Fresh(e.at)
      \/ Fresh(raised[k])

================================================================================
