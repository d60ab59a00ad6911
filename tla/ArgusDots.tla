------------------------------- MODULE ArgusDots -------------------------------
(***************************************************************************)
(* Dot investigations of Argus: the table of runs, the serial worker that  *)
(* executes them round by round, the watches that queue them on a          *)
(* schedule, and the API calls that queue and cancel them.                 *)
(*                                                                         *)
(* A save writes the whole row from the copy its writer read earlier, so   *)
(* a step that saves overwrites what others wrote in between.              *)
(***************************************************************************)
EXTENDS Naturals, Sequences, FiniteSets

CONSTANTS
  Topics,      \* texts an investigation can be asked for
  Watches,     \* scheduled investigations
  TopicOf,     \* the topic of each watch
  TooLong,     \* topics DotRun refuses
  Blank,       \* topics with nothing in them
  Nothing,     \* no owner, no watch, no request
  Rounds,      \* iterations_target
  MaxEvents    \* bound: API calls, watches coming due, exceptions, restarts

ASSUME DotsAssumption ==
  /\ Nothing \notin Watches
  /\ TooLong \cup Blank \subseteq Topics
  /\ TopicOf \in [Watches -> Topics \ (TooLong \cup Blank)]
  /\ Rounds \in Nat \ {0}
  /\ MaxEvents \in Nat

VARIABLES
  runs,        \* dot_runs, in the order of created_at
  worker,      \* the investigation the dots tick is executing
  alive,       \* which of the two ticks still loop
  watches,     \* dot_watches: enabled, and due by next_run_at
  queueing,    \* per actor, the watch it is queueing a run for
  patching,    \* a PATCH that has read its watch and not saved it
  cancelling,  \* the run a cancel request has read and not saved, or 0
  dropped,     \* history: runs cancelled before the worker took them
  events       \* API calls, watches that came due and mishaps so far

watchVars == <<watches, queueing, patching>>
dotsVars == <<runs, worker, alive, watchVars, cancelling, dropped, events>>

Ticks == {"dots", "watch"}
Settled == {"completed", "failed", "cancelled"}
Unfinished == {"queued", "running"}
Run(owners) ==
       [topic : Topics, owner : owners \cup Watches \cup {Nothing}, status : Unfinished \cup Settled]

NewRun(topic, owner) ==
  [topic |-> topic, owner |-> owner, status |-> "queued"]

Requesters == {"tick", "api"}
NotQueueing == [pc |-> "idle", watch |-> Nothing]
NotPatching == [watch |-> Nothing, late |-> FALSE]

Off == [pc |-> "idle", run |-> 0, round |-> 0]

DotsInit ==
  /\ runs = << >>
  /\ worker = Off
  /\ alive = Ticks
  /\ watches = [w \in Watches |-> [enabled |-> TRUE, due |-> FALSE]]
  /\ queueing = [a \in Requesters |-> NotQueueing]
  /\ patching = NotPatching
  /\ cancelling = 0
  /\ dropped = {}
  /\ events = 0

Event == events < MaxEvents /\ events' = events + 1

(* save_dot_run with a status: every other column is as the writer read it. *)
SaveStatus(r, status) == runs' = [runs EXCEPT ![r].status = status]

--------------------------------------------------------------------------------
(* The worker: _dots_tick, DotsEngine.execute and what it calls.             *)

(* list_dot_runs orders by created_at, newest first.                         *)
NewestQueued(r) ==
  /\ r \in DOMAIN runs /\ runs[r].status = "queued"
  /\ \A q \in DOMAIN runs : runs[q].status = "queued" => q <= r

Pick(r) ==
  /\ "dots" \in alive /\ worker.pc = "idle"
  /\ NewestQueued(r)
  /\ worker' = [pc |-> "picked", run |-> r, round |-> 0]
  /\ UNCHANGED <<runs, alive, watchVars, cancelling, dropped, events>>

(* The row becomes running whatever it has become since it was listed.       *)
Begin ==
  /\ worker.pc = "picked"
  /\ SaveStatus(worker.run, "running")
  /\ worker' = [worker EXCEPT !.pc = "boundary"]
  /\ UNCHANGED <<alive, watchVars, cancelling, dropped, events>>

(* Between rounds the row is read again, and a cancellation is obeyed.       *)
ObeyCancel ==
  /\ worker.pc = "boundary" /\ worker.round < Rounds
  /\ runs[worker.run].status = "cancelled"
  /\ worker' = Off
  /\ UNCHANGED <<runs, alive, watchVars, cancelling, dropped, events>>

StartRound ==
  /\ worker.pc = "boundary" /\ worker.round < Rounds
  /\ runs[worker.run].status # "cancelled"
  /\ worker' = [worker EXCEPT !.pc = "round"]
  /\ UNCHANGED <<runs, alive, watchVars, cancelling, dropped, events>>

(* _save_round: the batch, then the run with the status of the copy.         *)
SaveRound ==
  /\ worker.pc = "round"
  /\ SaveStatus(worker.run, "running")
  /\ worker' = [worker EXCEPT !.pc = "boundary", !.round = @ + 1]
  /\ UNCHANGED <<alive, watchVars, cancelling, dropped, events>>

(* Out of rounds, out of time, or no new query: Oracle's synthesis, and then *)
(* _finish saves the report and the run as completed.                        *)
Complete ==
  /\ \/ worker.pc = "boundary" /\ worker.round = Rounds
     \/ worker.pc = "round"
  /\ SaveStatus(worker.run, "completed")
  /\ worker' = [worker EXCEPT !.pc = "publish"]
  /\ UNCHANGED <<alive, watchVars, cancelling, dropped, events>>

(* _publish and _finish_watch.                                               *)
Publish ==
  /\ worker.pc = "publish"
  /\ worker' = Off
  /\ UNCHANGED <<runs, alive, watchVars, cancelling, dropped, events>>

(* execute catches what an investigation raises and saves it as failed, even *)
(* when the exception came after it had been saved as completed.             *)
Fail ==
  /\ worker.pc \in {"boundary", "round", "publish"}
  /\ Event
  /\ SaveStatus(worker.run, "failed")
  /\ worker' = Off
  /\ UNCHANGED <<alive, watchVars, cancelling, dropped>>

(* An exception outside that handler, or inside it, ends the tick for good.  *)
TickDies(t) ==
  /\ t \in alive /\ Event
  /\ alive' = alive \ {t}
  /\ worker' = IF t = "dots" THEN Off ELSE worker
  /\ queueing' = IF t = "watch" THEN [queueing EXCEPT !["tick"] = NotQueueing] ELSE queueing
  /\ UNCHANGED <<runs, watches, patching, cancelling, dropped>>

WorkerStep ==
  \/ \E r \in DOMAIN runs : Pick(r)
  \/ Begin
  \/ ObeyCancel
  \/ StartRound
  \/ SaveRound
  \/ Complete
  \/ Publish

--------------------------------------------------------------------------------
(* Queueing and cancelling through the API.                                  *)

Enqueue(topic, owner) == runs' = Append(runs, NewRun(topic, owner))

StartDots(topic) ==
  /\ topic \notin TooLong \cup Blank
  /\ Event
  /\ Enqueue(topic, Nothing)
  /\ UNCHANGED <<worker, alive, watchVars, cancelling, dropped>>

(* cancel_dot_run reads the row, refuses a settled one, then saves it whole. *)
CancelRead(r) ==
  /\ Event
  /\ cancelling = 0
  /\ runs[r].status \in Unfinished
  /\ cancelling' = r
  /\ UNCHANGED <<runs, worker, alive, watchVars, dropped>>

(* Nobody holds the run: the worker can only find it through the table.      *)
NotTaken(r) == runs[r].status = "queued" /\ worker.run # r

CancelSave ==
  /\ cancelling # 0
  /\ SaveStatus(cancelling, "cancelled")
  /\ cancelling' = 0
  /\ dropped' = IF NotTaken(cancelling) THEN dropped \cup {cancelling} ELSE dropped
  /\ UNCHANGED <<worker, alive, watchVars, events>>

--------------------------------------------------------------------------------
(* Watches.                                                                  *)

ComesDue(w) ==
  /\ Event
  /\ ~watches[w].due
  /\ watches' = [watches EXCEPT ![w].due = TRUE]
  /\ UNCHANGED <<runs, worker, alive, queueing, patching, cancelling, dropped>>

(* _dots_watch_tick takes a due watch, run_dot_watch_now the one it is told. *)
TakeWatch(a, w) ==
  /\ queueing[a].pc = "idle"
  /\ \/ a = "tick" /\ "watch" \in alive /\ watches[w].enabled /\ watches[w].due
        /\ UNCHANGED events
     \/ a = "api" /\ Event
  /\ queueing' = [queueing EXCEPT ![a] = [pc |-> "enqueue", watch |-> w]]
  /\ UNCHANGED <<runs, worker, alive, watches, patching, cancelling, dropped>>

(* Variant: a watch whose last run is unfinished is passed over, unmarked.   *)
QueueUnlessBusy(a) ==
  LET w == queueing[a].watch IN
  /\ queueing[a].pc = "enqueue"
  /\ IF \E r \in DOMAIN runs : runs[r].owner = w /\ runs[r].status \in Unfinished
     THEN UNCHANGED runs /\ queueing' = [queueing EXCEPT ![a] = NotQueueing]
     ELSE Enqueue(TopicOf[w], w) /\ queueing' = [queueing EXCEPT ![a].pc = "mark"]
  /\ UNCHANGED <<worker, alive, watches, patching, cancelling, dropped, events>>

QueueRun(a) ==
  /\ queueing[a].pc = "enqueue"
  /\ Enqueue(TopicOf[queueing[a].watch], queueing[a].watch)
  /\ queueing' = [queueing EXCEPT ![a].pc = "mark"]
  /\ UNCHANGED <<worker, alive, watches, patching, cancelling, dropped, events>>

(* mark_dot_watch_queued moves next_run_at on by the interval.               *)
MarkQueued(a) ==
  LET w == queueing[a].watch IN
  /\ queueing[a].pc = "mark"
  /\ watches' = [watches EXCEPT ![w].due = FALSE]
  /\ patching' = IF patching.watch = w /\ watches[w].due
                   THEN [patching EXCEPT !.late = TRUE] ELSE patching
  /\ queueing' = [queueing EXCEPT ![a] = NotQueueing]
  /\ UNCHANGED <<runs, worker, alive, cancelling, dropped, events>>

PatchRead(w) ==
  /\ Event
  /\ patching = NotPatching
  /\ patching' = [watch |-> w, late |-> FALSE]
  /\ UNCHANGED <<runs, worker, alive, watches, queueing, cancelling, dropped>>

(* save_dot_watch puts back the next_run_at that was read: a watch marked in *)
(* between is due again.                                                     *)
PatchSave(on) ==
  LET w == patching.watch IN
  /\ w # Nothing
  /\ watches' = [watches EXCEPT ![w] = [enabled |-> on, due |-> @.due \/ patching.late]]
  /\ patching' = NotPatching
  /\ UNCHANGED <<runs, worker, alive, queueing, cancelling, dropped, events>>

WatchTick ==
  \/ \E w \in Watches : TakeWatch("tick", w)
  \/ QueueRun("tick")
  \/ MarkQueued("tick")

--------------------------------------------------------------------------------
(* A restart: fail_stale_dot_runs sweeps what was running, the queue stays.  *)
FailStaleRuns ==
  runs' = [r \in DOMAIN runs |->
             IF runs[r].status = "running" THEN [runs[r] EXCEPT !.status = "failed"] ELSE runs[r]]

RestartDots ==
  /\ IF alive = Ticks THEN Event ELSE UNCHANGED events
  /\ FailStaleRuns
  /\ worker' = Off
  /\ alive' = Ticks
  /\ queueing' = [a \in Requesters |-> NotQueueing]
  /\ patching' = NotPatching
  /\ cancelling' = 0
  /\ UNCHANGED <<watches, dropped>>

DotsStep ==
  \/ WorkerStep
  \/ WatchTick
  \/ Fail
  \/ \E t \in Ticks : TickDies(t)
  \/ \E topic \in Topics : StartDots(topic)
  \/ \E r \in DOMAIN runs : CancelRead(r)
  \/ CancelSave
  \/ \E w \in Watches : ComesDue(w) \/ TakeWatch("api", w) \/ PatchRead(w)
  \/ QueueRun("api")
  \/ MarkQueued("api")
  \/ \E on \in BOOLEAN : PatchSave(on)
================================================================================
