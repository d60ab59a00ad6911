---------------------------- MODULE FleetConnector ----------------------------
(***************************************************************************)
(* The Hermes connector: a thread that polls the containers and one that   *)
(* polls the endpoints they serve. A sweep compares what it finds with the *)
(* baseline of the last sweep, posts an event for every change, unless the *)
(* same was posted a moment ago, and makes what it found the new baseline, *)
(* in memory and on disk. Hermes stamps an event before it commits it, and *)
(* the post waits for the commit, though not for ever.                     *)
(***************************************************************************)
EXTENDS Naturals, Sequences, FiniteSets

CONSTANTS Containers,
          OneShot,        \* those outside any compose project
          Serving,        \* those behind an endpoint that is probed
          FlapCooldown,   \* CONNECTOR_FLAP_COOLDOWN, in ticks
          EndpointEvery,  \* CONNECTOR_INTERVAL_ENDPOINTS, in ticks; a fleet sweep takes one
          MaxChanges,     \* bound: changes of containers, and actions of the watchdog
          MaxMishaps      \* bound: lost posts, raising calls, restarts

ASSUME ConnectorAssumption ==
    /\ OneShot \subseteq Containers /\ Serving \subseteq Containers
    /\ FlapCooldown \in Nat /\ EndpointEvery \in Nat
    /\ MaxChanges \in Nat /\ MaxMishaps \in Nat

VARIABLES actual,    \* what a container is now
          baseline,  \* StateStore._data, per thread: objects seen and how
          disk,      \* the state file
          cool,      \* ticks until an event of this key may be posted again
          sweep,     \* for a thread, the objects it found and has still to compare
          found,     \* for a thread, what its sweep found
          mode,      \* a thread is resting, sweeping, or dead
          rest,      \* ticks it has still to sleep
          post,      \* for a thread, the event it is posting: its place in log, or 0
          log,       \* Hermes: the events table, by timestamp
          said,      \* history: what Hermes heard last of an object
          excused,   \* history: objects Hermes has missed something of
          changes, mishaps

connectorVars == <<baseline, disk, cool, sweep, found, mode, rest, post, excused>>
fleetVars == <<actual, connectorVars, log, said, changes, mishaps>>

Threads == {"fleet", "endpoints"}
States == {"up", "unhealthy", "restarting", "down"}
Words == States \cup {"disappeared"}
Nowhere == [c \in {} |-> "up"]

(* event_allowed: the clock starts when the host does, and a key that was  *)
(* never posted counts as posted then. left: how much of the cooldown the  *)
(* host has still to run when the connector starts.                        *)
Keys == {<<"fleet", c, word>> : c \in Containers, word \in Words} \cup
        {<<"endpoints", c>> : c \in Serving}
FreshKeys(left) == [k \in Keys |-> left]

ConnectorInit ==
    /\ actual = [c \in Containers |-> "up"]
    /\ baseline = [t \in Threads |-> Nowhere] /\ disk = baseline
    /\ cool \in {FreshKeys(0), FreshKeys(FlapCooldown)}
    /\ sweep = [t \in Threads |-> {}] /\ found = [t \in Threads |-> Nowhere]
    /\ mode = [t \in Threads |-> "resting"] /\ rest = [t \in Threads |-> 0]
    /\ post = [t \in Threads |-> 0]
    /\ log = <<>>
    /\ said = [t \in Threads |-> [c \in Containers |-> "nothing"]]
    /\ excused = {}
    /\ changes = 0 /\ mishaps = 0

Mishap == mishaps < MaxMishaps /\ mishaps' = mishaps + 1

-----------------------------------------------------------------------------
(* What docker lists, and what a probe of the endpoint answers.            *)
Listed == {c \in Containers : actual[c] # "absent"}
Probed(c) == IF actual[c] \in {"up", "unhealthy"} THEN "up" ELSE "down"

Interval(t) == IF t = "fleet" THEN 1 ELSE EndpointEvery

(* sweep: the fleet is listed at once; an endpoint is probed when its turn *)
(* comes. The comparison goes object by object, those that are gone last.  *)
(* A docker that does not answer ends the fleet's sweep at once.           *)
StartSweep(t) ==
    /\ mode[t] = "resting" /\ rest[t] = 0
    /\ \/ /\ t = "fleet"
          /\ found' = [found EXCEPT ![t] = [c \in Listed |-> actual[c]]]
          /\ sweep' = [sweep EXCEPT ![t] = Listed \cup DOMAIN baseline[t]]
          /\ mode' = [mode EXCEPT ![t] = "sweeping"]
          /\ UNCHANGED rest
       \/ /\ t = "endpoints"
          /\ sweep' = [sweep EXCEPT ![t] = Serving]
          /\ mode' = [mode EXCEPT ![t] = "sweeping"]
          /\ UNCHANGED <<found, rest>>
       \/ /\ t = "fleet"
          /\ rest' = [rest EXCEPT ![t] = Interval(t)]
          /\ UNCHANGED <<found, sweep, mode>>
    /\ UNCHANGED <<actual, baseline, disk, cool, post, log, said, excused, changes, mishaps>>

(* Mutant of Word: a restarting container that is up again is no news.     *)
WordButRestarts(old, new) ==
    IF old = new \/ (old = "restarting" /\ new = "up") THEN "none" ELSE new

(* _transition: what is said of a change, if anything.                     *)
Word(old, new) == IF old = new THEN "none" ELSE new

With(table, c, state) ==
    [d \in DOMAIN table \cup {c} |-> IF d = c THEN state ELSE table[d]]

Finds(t, c) == IF t = "fleet" THEN found[t] ELSE With(found[t], c, Probed(c))

(* What sweep t has to say of object c: nothing of one it sees for the     *)
(* first time, nor of one that is gone and was down or ran only once.      *)
ToSay(t, c) ==
    CASE c \notin DOMAIN baseline[t] -> "none"
      [] c \in DOMAIN baseline[t] /\ c \in DOMAIN Finds(t, c) ->
             Word(baseline[t][c], Finds(t, c)[c])
      [] OTHER -> IF baseline[t][c] = "down" \/ c \in OneShot THEN "none" ELSE "disappeared"

Key(t, c) == IF t = "fleet" THEN <<t, c, ToSay(t, c)>> ELSE <<t, c>>

(* Hermes has not been told of c what it should know.                      *)
Missed(t, c) ==
    \/ c \in DOMAIN baseline[t] /\ c \notin DOMAIN Finds(t, c) /\ c \in OneShot
    \/ c \notin DOMAIN baseline[t] /\ said[t][c] \notin {"nothing", Finds(t, c)[c]}

InTurn(t, c) ==
    /\ post[t] = 0 /\ c \in sweep[t]
    /\ c \notin DOMAIN Finds(t, c) => sweep[t] \cap DOMAIN found[t] = {}

Compared(t, c) ==
    /\ sweep' = [sweep EXCEPT ![t] = @ \ {c}]
    /\ found' = [found EXCEPT ![t] = Finds(t, c)]

Pass(t, c) ==
    /\ InTurn(t, c) /\ ToSay(t, c) = "none"
    /\ Compared(t, c)
    /\ excused' = IF Missed(t, c) THEN excused \cup {<<t, c>>} ELSE excused
    /\ UNCHANGED <<actual, baseline, disk, cool, mode, rest, post, log, said, changes, mishaps>>

Suppress(t, c) ==
    /\ InTurn(t, c) /\ ToSay(t, c) # "none"
    /\ cool[Key(t, c)] > 0
    /\ Compared(t, c)
    /\ excused' = excused \cup {<<t, c>>}
    /\ UNCHANGED <<actual, baseline, disk, cool, mode, rest, post, log, said, changes, mishaps>>

(* _emit: the cooldown starts before the post, which may not get through.  *)
Severity(word) ==
    CASE word = "up" -> "info" [] word = "restarting" -> "warning" [] OTHER -> "error"

Event(t, c) == [by |-> t, about |-> c, word |-> ToSay(t, c),
                severity |-> Severity(ToSay(t, c)), state |-> "stamped"]

Emit(t, c) ==
    /\ InTurn(t, c) /\ ToSay(t, c) # "none"
    /\ cool[Key(t, c)] = 0
    /\ cool' = [cool EXCEPT ![Key(t, c)] = FlapCooldown]
    /\ Compared(t, c)
    /\ \/ /\ log' = Append(log, Event(t, c))
          /\ post' = [post EXCEPT ![t] = Len(log) + 1]
          /\ UNCHANGED <<excused, mishaps>>
       \/ /\ Mishap
          /\ excused' = excused \cup {<<t, c>>}
          /\ UNCHANGED <<log, post>>
    /\ UNCHANGED <<actual, baseline, disk, mode, rest, said, changes>>

(* Hermes stores an event, and answers the post if it still waits. Not all *)
(* that post are threads of the connector.                                 *)
Stored(e) == log' = [log EXCEPT ![e].state = "stored"]

Commit(e) ==
    /\ log[e].state = "stamped" /\ log[e].by \in Threads
    /\ Stored(e)
    /\ said' = [said EXCEPT ![log[e].by][log[e].about] = log[e].word]
    /\ LET what == {<<log[e].by, log[e].about>>}
       IN  excused' = IF post[log[e].by] = e THEN excused \ what ELSE excused \cup what
    /\ post' = [t \in Threads |-> IF post[t] = e THEN 0 ELSE post[t]]
    /\ UNCHANGED <<actual, baseline, disk, cool, sweep, found, mode, rest, changes, mishaps>>

(* A post fails, because it times out or because Hermes stops: the         *)
(* connector goes on.                                                      *)
Unanswered(stopped) ==
    /\ post' = [t \in Threads |-> IF t \in stopped THEN 0 ELSE post[t]]
    /\ excused' = excused \cup {<<t, log[post[t]].about>> : t \in {u \in stopped : post[u] # 0}}
    /\ UNCHANGED <<actual, baseline, disk, cool, sweep, found, mode, rest, said, changes>>

GiveUp(t) ==
    /\ post[t] # 0
    /\ Mishap
    /\ Unanswered({t})
    /\ UNCHANGED log

Lost(event) == IF event.state = "stamped" THEN [event EXCEPT !.state = "lost"] ELSE event

HermesStops ==
    /\ Mishap
    /\ Unanswered(Threads)
    /\ log' = [e \in DOMAIN log |-> Lost(log[e])]

-----------------------------------------------------------------------------
(* replace and save, for all that the state file holds. A save that raises *)
(* ends the sweep; fleet_loop saves once more, outside its try.            *)
Store(t) ==
    /\ mode[t] = "sweeping" /\ sweep[t] = {} /\ post[t] = 0
    /\ baseline' = [baseline EXCEPT ![t] = found[t]]
    /\ found' = [found EXCEPT ![t] = Nowhere]
    /\ rest' = [rest EXCEPT ![t] = Interval(t)]
    /\ \/ /\ disk' = baseline'
          /\ mode' = [mode EXCEPT ![t] = "resting"]
          /\ UNCHANGED mishaps
       \/ /\ Mishap
          /\ mode' = [mode EXCEPT ![t] = IF t = "fleet" THEN "dead" ELSE "resting"]
          /\ UNCHANGED disk
    /\ UNCHANGED <<actual, cool, sweep, post, log, said, excused, changes>>

(* The connector restarts, and the host with it if left is not 0: what a   *)
(* sweep has said is lost with the sweep, and so is what was not saved.    *)
ConnectorRestart(left) ==
    /\ Mishap
    /\ baseline' = disk
    /\ cool' = FreshKeys(left)
    /\ sweep' = [t \in Threads |-> {}] /\ found' = [t \in Threads |-> Nowhere]
    /\ mode' = [t \in Threads |-> "resting"] /\ rest' = [t \in Threads |-> 0]
    /\ post' = [t \in Threads |-> 0]
    /\ excused' = excused \cup
           {<<t, c>> : t \in {u \in Threads : mode[u] = "sweeping" \/ disk[u] # baseline[u]},
                       c \in Containers}
    /\ UNCHANGED <<actual, disk, log, said, changes>>

(* A container changes by itself.                                          *)
Change(c, state) ==
    /\ actual[c] # state
    /\ changes < MaxChanges
    /\ changes' = changes + 1
    /\ actual' = [actual EXCEPT ![c] = state]
    /\ UNCHANGED <<connectorVars, log, said, mishaps>>

ConnectorTime ==
    /\ cool' = [k \in Keys |-> IF cool[k] > 0 THEN cool[k] - 1 ELSE 0]
    /\ rest' = [t \in Threads |-> IF rest[t] > 0 THEN rest[t] - 1 ELSE 0]
    /\ UNCHANGED <<actual, baseline, disk, sweep, found, mode, post, log, said, excused,
                   changes, mishaps>>

ConnectorStep ==
    \/ \E t \in Threads : StartSweep(t) \/ GiveUp(t) \/ Store(t)
    \/ \E t \in Threads, c \in Containers : Pass(t, c) \/ Suppress(t, c) \/ Emit(t, c)
    \/ \E left \in {0, FlapCooldown} : ConnectorRestart(left)
=============================================================================
