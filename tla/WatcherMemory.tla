----------------------------- MODULE WatcherMemory -----------------------------
(***************************************************************************)
(* The script that remembers the devices of the LAN: every ten seconds it  *)
(* reads who is there, writes rows in one transaction, posts what changed  *)
(* to Hermes on the way, commits, and keeps what it read for the next      *)
(* comparison.  It has one connection and never rolls back: after an error *)
(* of the database each statement raises, until the script is restarted or *)
(* the scanner reports nobody.                                             *)
(***************************************************************************)
EXTENDS Integers, Sequences, SequencesExt, FiniteSets

CONSTANTS
  Devices,
  MaxDeviceChanges,     \* bound: devices that come, go, or change state
  MaxWatcherMishaps,    \* bound: database errors, lost posts, restarts
  MaxTime               \* bound of the clock

ASSUME WatcherAssumption ==
  /\ IsFiniteSet(Devices)
  /\ MaxDeviceChanges \in Nat /\ MaxWatcherMishaps \in Nat /\ MaxTime \in Nat

VARIABLES
  lan,                  \* what the scanner says of a device: absent, or online or not
  deviceChanges,
  previous,             \* the devices of the last pass and whether they were online
  watch,                \* the pass: devices still to handle, and what has been read
  open,                 \* rows written in the open transaction
  broken,               \* the transaction is aborted or the connection lost
  stored,               \* committed rows: whether a device is online
  events,               \* the events table of Hermes
  now,
  watcherMishaps

watcherVars == <<lan, deviceChanges, previous, watch, open, broken, stored>>

DeviceStates == {"absent", "online", "offline"}
Resting == [pc |-> "idle", todo |-> << >>, current |-> << >>]

WatcherInit ==
  /\ lan = [d \in Devices |-> "absent"]
  /\ deviceChanges = 0
  /\ previous = << >> /\ open = << >> /\ stored = << >>
  /\ watch = Resting
  /\ broken = FALSE
  /\ events = {}
  /\ now = 0
  /\ watcherMishaps = 0

WatcherMishap == watcherMishaps < MaxWatcherMishaps /\ watcherMishaps' = watcherMishaps + 1

DeviceChanges(d) ==
  /\ deviceChanges < MaxDeviceChanges
  /\ \E state \in DeviceStates \ {lan[d]} : lan' = [lan EXCEPT ![d] = state]
  /\ deviceChanges' = deviceChanges + 1
  /\ UNCHANGED <<previous, watch, open, broken, stored, events, now, watcherMishaps>>

Put(table, d, online) ==
  [e \in DOMAIN table \cup {d} |-> IF e = d THEN online ELSE table[e]]

(* A pass; a request that fails is the same as none.                         *)
Read ==
  LET there == {d \in Devices : lan[d] # "absent"} IN
  /\ watch.pc = "idle"
  /\ watch' = [pc |-> "handle", todo |-> SetToSeq(there),
               current |-> [d \in there |-> lan[d] = "online"]]
  /\ UNCHANGED <<lan, deviceChanges, previous, open, broken, stored, events, now, watcherMishaps>>

(* What is posted of a device: that it is new, or that it changed.           *)
News(d, online) ==
  CASE d \notin DOMAIN previous -> {"discovered"}
    [] d \in DOMAIN previous /\ previous[d] # online -> {IF online THEN "online" ELSE "offline"}
    [] OTHER -> {}

(* The table with one more row; equal rows are numbered.                     *)
WithEvent(module, type, at) ==
  LET equal == {e \in events : e.module = module /\ e.type = type /\ e.at = at} IN
  events \cup {[module |-> module, type |-> type, at |-> at, nth |-> Cardinality(equal) + 1]}

(* The upsert, the row of the event, and the post, whose failure is printed. *)
HandleDevice ==
  LET d == Head(watch.todo)
      news == News(d, watch.current[d])
  IN
  /\ watch.pc = "handle" /\ watch.todo # << >> /\ ~broken
  /\ watch' = [watch EXCEPT !.todo = Tail(@)]
  /\ open' = Put(open, d, watch.current[d])
  /\ \/ \E type \in news : events' = WithEvent("watcher", type, now) /\ UNCHANGED watcherMishaps
     \/ news = {} /\ UNCHANGED <<events, watcherMishaps>>
     \/ news # {} /\ WatcherMishap /\ UNCHANGED events
  /\ UNCHANGED <<lan, deviceChanges, previous, broken, stored, now>>

(* Variant: what was read is kept whether or not it is committed.            *)
RememberedFirst(read, committed) == read

(* previous is assigned behind the commit.                                   *)
Remembered(read, committed) == IF committed THEN read ELSE previous

(* A statement or the commit raises; what was posted before stays posted.    *)
PassFails ==
  /\ watch.pc = "handle"
  /\ \/ broken /\ UNCHANGED watcherMishaps
     \/ ~broken /\ WatcherMishap
  /\ watch' = Resting
  /\ broken' = TRUE
  /\ open' = << >>
  /\ previous' = Remembered(watch.current, FALSE)
  /\ UNCHANGED <<lan, deviceChanges, stored, events, now>>

CommitPass ==
  /\ watch.pc = "handle" /\ watch.todo = << >> /\ ~broken
  /\ stored' = [d \in DOMAIN stored \cup DOMAIN open |->
                  IF d \in DOMAIN open THEN open[d] ELSE stored[d]]
  /\ open' = << >>
  /\ previous' = Remembered(watch.current, TRUE)
  /\ watch' = Resting
  /\ UNCHANGED <<lan, deviceChanges, broken, events, now, watcherMishaps>>

(* The commit of an aborted transaction rolls it back without an error: that *)
(* is reached when the scanner reports nobody.                               *)
CommitNothing ==
  /\ watch.pc = "handle" /\ watch.todo = << >> /\ broken
  /\ broken' = FALSE
  /\ previous' = Remembered(watch.current, TRUE)
  /\ watch' = Resting
  /\ UNCHANGED <<lan, deviceChanges, open, stored, events, now, watcherMishaps>>

WatcherRestart ==
  /\ WatcherMishap
  /\ watch' = Resting
  /\ previous' = << >> /\ open' = << >>
  /\ broken' = FALSE
  /\ UNCHANGED <<lan, deviceChanges, stored, events, now>>

WatcherStep == Read \/ HandleDevice \/ PassFails \/ CommitPass \/ CommitNothing \/ WatcherRestart

(* What the next pass compares with is what the database says, whatever      *)
(* fails in between: a change that was not stored is noticed again.          *)
RowsFollowPasses ==
  \A d \in DOMAIN previous : d \in DOMAIN stored /\ stored[d] = previous[d]

================================================================================
