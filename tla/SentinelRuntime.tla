---------------------------- MODULE SentinelRuntime ----------------------------
(***************************************************************************)
(* Sentinel's runtime: observers hand observations to ingest, a presence   *)
(* tick and a correlation tick run beside them, and all of them go through *)
(* the device tracker, the presence engine and the correlation engine.     *)
(* Each engine changes its memory without suspending; what it returns is   *)
(* then written to the database and published, one await after the other,  *)
(* while the other tasks go on.  todo[t] is what task t has still to do.   *)
(*                                                                         *)
(* Publishing never raises (HermesPublisher gives up and returns False)    *)
(* and nothing reads the answer: a publication is part of the step it      *)
(* follows.                                                                *)
(***************************************************************************)
EXTENDS SentinelCorrelation, SentinelObservers

CONSTANTS Devices,       \* device keys
          Known,         \* those devices.yaml lists, each with an owner
          Owner,
          Findings,      \* what the enabled observers may find
          OfflineAfter,  \* presence_offline_after, in ticks
          MaxEvents      \* bound: observations, database errors, restarts

ASSUME RuntimeAssumption ==
    /\ Known \subseteq Devices /\ DOMAIN Owner = Known
    /\ OfflineAfter \in Nat /\ MaxEvents \in Nat

VARIABLES devices,     \* DeviceTracker._by_key: those seen so far
          deviceRows,  \* the devices table
          house,       \* PresenceEngine._last, "unknown" at first
          situations,  \* the situations table
          todo,        \* for a task, the operations it has still to run
          dead,        \* ticks that an exception has ended
          stale,       \* history: an older copy was saved over a newer one, or a save was lost
          events

rows == <<deviceRows, situations>>
taskVars == <<todo, dead>>
vars == <<correlationVars, devices, rows, house, taskVars, stale, events>>

Ticks == {"presence", "correlation"}
Observers == {finding.observer : finding \in Findings}
Tasks == Observers \cup Ticks
OnlineStates == {"connected", "joined", "seen", "present", "online", "up", "on_line"}

Absent == [online |-> FALSE, age |-> 0, ver |-> 0]

Init ==
    /\ CorrelationInit
    /\ devices = [d \in {} |-> Absent] /\ deviceRows = [d \in {} |-> Absent]
    /\ house = "unknown"
    /\ situations = {}
    /\ todo = [t \in Tasks |-> <<>>]
    /\ dead = {}
    /\ stale = FALSE
    /\ events = 0

Event == events < MaxEvents /\ events' = events + 1
Idle(t) == todo[t] = <<>> /\ t \notin dead

(* Operations, and the ones that take the place of the first of t.         *)
Hear(object, state) == [op |-> "hear", what |-> <<object, state>>]
SaveDevice(d, copy) == [op |-> "device", device |-> d, copy |-> copy]
Announce(d, state) == [op |-> "event", device |-> d, state |-> state]
Refresh == [op |-> "refresh"]
SaveSituation(change) == [op |-> "situation", change |-> change]

Running(t, op) == todo[t] # <<>> /\ Head(todo[t]).op = op
First(t) == Head(todo[t])
Then(t, more) == todo' = [todo EXCEPT ![t] = more \o Tail(@)]

(* correlation.feed: the observation enters the table and the window, and  *)
(* the rules are evaluated; saves are the situations that changed.         *)
Saves(w, news) ==
    {[k \in DOMAIN changes |-> SaveSituation(changes[k])] : changes \in Changes(w, news)}

Feed(o, news) ==
    /\ table' = Push(table, o)
    /\ window' = Push(window, o)
    /\ engine' = Evaluated(Push(window, o), news)
    /\ UNCHANGED <<rules, grace>>

(* t's first operation feeds the observation, and its saves take its place.*)
FeedNext(t, object, state, news) ==
    LET o == Observation(object, state) IN
    /\ Feed(o, news)
    /\ \E saves \in Saves(Push(window, o), news) : Then(t, saves)

-----------------------------------------------------------------------------
(* DeviceTracker.feed on a sighting of d. more: the sighting tells         *)
(* something new of a device that was online anyway.                       *)
Sighted(d, state) ==
    LET old == IF d \in DOMAIN devices THEN devices[d] ELSE Absent
        online == state \in OnlineStates
    IN  [online |-> online, age |-> IF online THEN 0 ELSE old.age,
         ver |-> IF online # old.online THEN old.ver + 1 ELSE old.ver]

EventOf(d, state, news) ==
    LET was == d \in DOMAIN devices /\ devices[d].online
        is == Sighted(d, state).online
    IN  CASE is /\ ~was -> <<"joined">>
          [] was /\ ~is -> <<"left">>
          [] is = was /\ news /\ d \in DOMAIN devices -> <<"seen">>
          [] OTHER -> <<>>

(* What the loaded rules can tell apart: the objects they speak of, and    *)
(* the devices if they speak of one or of the house. Bound: nothing else   *)
(* is found.                                                               *)
Spoken ==
    {what[1] : what \in UNION UNION {rules[r].all \cup rules[r].any \cup rules[r].not :
                                        r \in DOMAIN rules}}

Told == Spoken \cup IF Spoken \cap (Devices \cup {"house"}) = {} THEN {} ELSE Devices

(* A cycle of ObserverScheduler._run that found something: ingest_one up   *)
(* to the end of tracker.feed. What comes after it is the device's row,    *)
(* its event, the observation itself and the presence. (A cycle that times *)
(* out, raises or reports nothing changes nothing; one that reports        *)
(* several things is several cycles.)                                      *)
Ingest(o, what, news) ==
    /\ Idle(o)
    /\ Event
    /\ what[1] \in Told
    /\ LET d == what[1]
           happened == EventOf(d, what[2], news)
           saved == d \notin DOMAIN devices \/ happened # <<>>
       IN  IF d \in Devices
           THEN /\ devices' = [e \in DOMAIN devices \cup {d} |->
                                 IF e = d THEN Sighted(d, what[2]) ELSE devices[e]]
                /\ todo' = [todo EXCEPT ![o] =
                      (IF saved THEN <<SaveDevice(d, Sighted(d, what[2]))>> ELSE <<>>)
                      \o [k \in DOMAIN happened |-> Announce(d, happened[k])]
                      \o <<Hear(d, what[2])>>
                      \o [k \in DOMAIN happened |-> Refresh]]
           ELSE /\ todo' = [todo EXCEPT ![o] = <<Hear(what[1], what[2])>>]
                /\ UNCHANGED devices
    /\ UNCHANGED <<correlationVars, rows, house, dead, stale>>

HearOne(t, news) ==
    /\ Running(t, "hear")
    /\ FeedNext(t, First(t).what[1], First(t).what[2], news)
    /\ UNCHANGED <<devices, rows, house, dead, stale, events>>

(* upsert_device writes the copy the tracker returned.                     *)
UpsertDevice(t) ==
    /\ Running(t, "device")
    /\ LET d == First(t).device
           copy == First(t).copy
       IN  /\ deviceRows' = [e \in DOMAIN deviceRows \cup {d} |->
                                IF e = d THEN copy ELSE deviceRows[e]]
           /\ stale' = (stale \/ (d \in DOMAIN deviceRows /\ deviceRows[d].ver > copy.ver))
    /\ Then(t, <<>>)
    /\ UNCHANGED <<correlationVars, devices, situations, house, dead, events>>

(* _apply_device_events, for one event: its row, its publication and, for  *)
(* a device that joined or left, an observation of it.                     *)
ApplyEvent(t, news) ==
    /\ Running(t, "event")
    /\ \/ /\ First(t).state = "seen"
          /\ Then(t, <<>>)
          /\ UNCHANGED correlationVars
       \/ /\ First(t).state # "seen"
          /\ FeedNext(t, First(t).device, First(t).state, news)
    /\ UNCHANGED <<devices, rows, house, dead, stale, events>>

(* Mutant of Status: devices that are offline count as well.               *)
StatusOfAll ==
    LET owners == {Owner[d] : d \in DOMAIN devices \cap Known}
    IN  CASE Cardinality(owners) >= 2 -> "multiple_users"
          [] Cardinality(owners) = 1 -> "home_occupied"
          [] owners = {} /\ DOMAIN devices \ Known # {} -> "unknown_present"
          [] OTHER -> "nobody_home"

(* PresenceEngine.recompute.                                               *)
Status ==
    LET online == {d \in DOMAIN devices : devices[d].online}
        owners == {Owner[d] : d \in online \cap Known}
    IN  CASE Cardinality(owners) >= 2 -> "multiple_users"
          [] Cardinality(owners) = 1 -> "home_occupied"
          [] owners = {} /\ online \ Known # {} -> "unknown_present"
          [] OTHER -> "nobody_home"

(* refresh_presence; the sample and the publication of a change are the    *)
(* last thing it does and nothing reads them.                              *)
RefreshPresence(t, news) ==
    /\ Running(t, "refresh")
    /\ house' = Status
    /\ FeedNext(t, "house", Status, news)
    /\ UNCHANGED <<devices, rows, dead, stale, events>>

(* save_situation writes the copy the engine returned.                     *)
Copies(change) == {row \in situations : row.rule = change.rule /\ row.n = change.n}

Save(t) ==
    /\ Running(t, "situation")
    /\ LET change == First(t).change IN
        /\ situations' = (situations \ Copies(change)) \cup {change}
        /\ stale' = (stale \/ (change.active /\ \E row \in Copies(change) : ~row.active))
    /\ Then(t, <<>>)
    /\ UNCHANGED <<correlationVars, devices, deviceRows, house, dead, events>>

-----------------------------------------------------------------------------
(* DeviceTracker.reconcile_online.                                         *)
Gone == {d \in DOMAIN devices : devices[d].online /\ devices[d].age > OfflineAfter}

Left(d) == [devices[d] EXCEPT !.online = FALSE, !.ver = @ + 1]

(* The presence tick, when devices have gone and when none has: then it    *)
(* only recomputes the presence.                                           *)
PresenceTick(order) ==
    /\ Idle("presence") /\ Gone # {}
    /\ devices' = [d \in DOMAIN devices |-> IF d \in Gone THEN Left(d) ELSE devices[d]]
    /\ todo' = [todo EXCEPT !["presence"] =
          [k \in DOMAIN order |-> SaveDevice(order[k], Left(order[k]))]
          \o [k \in DOMAIN order |-> Announce(order[k], "left")]
          \o <<Refresh>>]
    /\ UNCHANGED <<correlationVars, rows, house, dead, stale, events>>

QuietTick(news) ==
    LET o == Observation("house", Status) IN
    /\ Idle("presence") /\ Gone = {}
    /\ house' = Status
    /\ Feed(o, news)
    /\ \E saves \in Saves(Push(window, o), news) : todo' = [todo EXCEPT !["presence"] = saves]
    /\ UNCHANGED <<devices, rows, dead, stale, events>>

CorrelationTick(news) ==
    /\ Idle("correlation")
    /\ engine' = Evaluated(window, news)
    /\ \E saves \in Saves(window, news) : todo' = [todo EXCEPT !["correlation"] = saves]
    /\ UNCHANGED <<rules, table, window, grace, devices, rows, house, dead, stale, events>>

(* A database call raises. An observer drops the rest of its cycle and     *)
(* goes on, a tick is over: _tick catches outside its loop.                *)
Fault(t) ==
    /\ todo[t] # <<>>
    /\ Event
    /\ todo' = [todo EXCEPT ![t] = <<>>]
    /\ dead' = IF t \in Ticks THEN dead \cup {t} ELSE dead
    /\ stale' = TRUE
    /\ UNCHANGED <<correlationVars, devices, rows, house>>

(* Sentinel stops or crashes, and starts with what the tables hold.        *)
Superseded == \E t \in Tasks : \E k \in DOMAIN todo[t] :
    /\ todo[t][k].op = "situation"
    /\ todo[t][k].change.n # engine[todo[t][k].change.rule].n

Restart ==
    /\ Event
    /\ devices' = deviceRows
    /\ house' = "unknown"
    /\ LoadRecent(situations)
    /\ todo' = [t \in Tasks |-> <<>>]
    /\ dead' = {}
    /\ stale' = (stale \/ Superseded)
    /\ UNCHANGED rows

(* Time passes for the devices, their rows and the copies under way.       *)
Aged(device) == [device EXCEPT !.age = IF @ <= OfflineAfter THEN @ + 1 ELSE @]

AgedCopy(op) == IF op.op = "device" THEN [op EXCEPT !.copy = Aged(@)] ELSE op

Time ==
    /\ CorrelationTime
    /\ devices' = [d \in DOMAIN devices |-> Aged(devices[d])]
    /\ deviceRows' = [d \in DOMAIN deviceRows |-> Aged(deviceRows[d])]
    /\ todo' = [t \in Tasks |-> [k \in DOMAIN todo[t] |-> AgedCopy(todo[t][k])]]
    /\ UNCHANGED <<situations, house, dead, stale, events>>

-----------------------------------------------------------------------------
Step(t, news) ==
    \/ HearOne(t, news) \/ UpsertDevice(t) \/ ApplyEvent(t, news)
    \/ RefreshPresence(t, news) \/ Save(t)

Orders == {s \in [1..Cardinality(Gone) -> Gone] : IsInjective(s)}

Tick(news) == (\E order \in Orders : PresenceTick(order)) \/ QuietTick(news)

News == SUBSET DOMAIN rules

Next ==
    \/ \E finding \in Findings : \E what \in Collected(finding), news \in BOOLEAN :
          Ingest(finding.observer, what, news)
    \/ \E t \in Tasks, news \in News : Step(t, news)
    \/ \E news \in News : Tick(news) \/ CorrelationTick(news)
    \/ Time \/ Restart
    \/ \E t \in Tasks : Fault(t)

(* Tasks go on, ticks come again and time passes; observers, errors and    *)
(* restarts may stay away.                                                 *)
Fairness ==
    /\ WF_vars(\E o \in Observers, news \in News : Step(o, news))
    /\ \A t \in Ticks : WF_vars(\E news \in News : Step(t, news))
    /\ WF_vars(\E news \in News : Tick(news))
    /\ WF_vars(\E news \in News : CorrelationTick(news))
    /\ WF_vars(Time)

Spec == Init /\ [][Next]_vars
FairSpec == Spec /\ Fairness
-----------------------------------------------------------------------------
(* Every variable stays in its type.                                       *)
TypeOK ==
    /\ Len(window) <= WindowSize /\ Len(table) <= WindowSize /\ grace \in 0..Grace
    /\ \A k \in DOMAIN window : window[k].age \in 0..Horizon
    /\ engine \in [DOMAIN rules -> [n : Nat, active : BOOLEAN, held : Int, cool : Nat, ids : Nat]]
    /\ DOMAIN devices \subseteq Devices /\ DOMAIN deviceRows \subseteq DOMAIN devices
    /\ \A d \in DOMAIN devices :
          devices[d] \in [online : BOOLEAN, age : 0..OfflineAfter + 1, ver : Nat]
    /\ house \in {"unknown", "multiple_users", "home_occupied", "unknown_present", "nobody_home"}
    /\ situations \subseteq [rule : DOMAIN rules, n : Nat, active : BOOLEAN]
    /\ \A t \in Tasks : \A k \in DOMAIN todo[t] :
          todo[t][k].op \in {"hear", "device", "event", "refresh", "situation"}
    /\ dead \subseteq Ticks /\ stale \in BOOLEAN /\ events \in 0..MaxEvents

(* What is stored is what the engines know, up to the saves under way and  *)
(* across restarts: a situation that is active has its row, any other row  *)
(* is resolved, and a device's row says whether it is online. Only a save  *)
(* that is lost to an exception, or to a crash when the rule has its next  *)
(* situation already, or that an older copy overtakes, breaks this.        *)
RowsFollowEngines ==
    ~stale =>
        /\ \A r \in DOMAIN rules :
              (\A t \in Tasks : \A k \in DOMAIN todo[t] :
                    todo[t][k].op = "situation" => todo[t][k].change.rule # r)
              => {row.n : row \in {x \in situations : x.rule = r /\ x.active}}
                    = IF engine[r].active THEN {engine[r].n} ELSE {}
        /\ \A d \in DOMAIN devices :
              (\A t \in Tasks : \A k \in DOMAIN todo[t] :
                    todo[t][k].op = "device" => todo[t][k].device # d)
              => d \in DOMAIN deviceRows /\ deviceRows[d].online = devices[d].online

(* The same with the types of the variables.                               *)
TablesAreSound == TypeOK /\ RowsFollowEngines

(* When nothing is sighted any more every device goes offline and the      *)
(* house is found empty, whatever was under way and also after a restart   *)
(* with devices that were online: unless an exception ended the tick.      *)
HouseEmpties ==
    \/ <>[](house = "nobody_home" /\ \A d \in DOMAIN devices : ~devices[d].online)
    \/ <>[]("presence" \in dead)

(* A situation whose rule does not match any more is resolved, also one    *)
(* that was restored after a restart, as long as one of the ticks lives.   *)
SituationsEnd ==
    \A r \in UNION {DOMAIN file : file \in RuleFiles} :
        \/ []<>(r \in DOMAIN rules /\ Matches(window, rules[r]))
        \/ <>[](r \in DOMAIN rules => ~engine[r].active)
        \/ <>[](Ticks \subseteq dead)
=============================================================================
