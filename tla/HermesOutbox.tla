----------------------------- MODULE HermesOutbox -----------------------------
(***************************************************************************)
(* Hermes' transactional outbox: EventService.create stores an event and   *)
(* enqueues its id, NotificationQueue hands ids to a pool of worker tasks, *)
(* Dispatcher.process claims the event and delivers it, a sweep re-queues  *)
(* whatever is still pending, and a restart resets what was interrupted.   *)
(*                                                                         *)
(* state, outcome, born and rows are the database and survive a crash;     *)
(* queue and everything a worker knows are the process and do not.         *)
(* Every step is the code between two awaits that other tasks, or the end  *)
(* of the process, can observe.  A database call may raise with or without *)
(* its effect (ack = FALSE: committed, but the caller sees an exception).  *)
(***************************************************************************)
EXTENDS Naturals, Sequences, FiniteSets

CONSTANTS Events, Workers, Providers,
          RuleSets,     \* the rules files a start may load, see Rule
          MaxAttempts,  \* notification_max_attempts
          BatchLimit,   \* LIMIT of the pending query (500)
          NoEvent,      \* the job of a worker that has none
          MaxMishaps,   \* bound: process deaths plus calls that raise
          MaxQueue      \* bound: a sweep that would exceed it waits

(* What the first matching rule says of an event, and the enabled          *)
(* providers its names resolve to.                                         *)
Rule == [action : {"ignore", "log", "notify", "remediate"},
         targets : SUBSET Providers]

ASSUME OutboxAssumption ==
    /\ RuleSets \subseteq [Events -> Rule] /\ RuleSets # {}
    /\ IsFiniteSet(Events)
    /\ MaxAttempts \in Nat \ {0}
    /\ BatchLimit \in Nat \ {0}
    /\ NoEvent \notin Events
    /\ MaxMishaps \in Nat /\ MaxQueue \in Nat

VARIABLES state,     \* events.state, "new" before the row exists
          outcome,   \* events.outcome
          born,      \* rank of events.created_at, 0 before the row exists
          rows,      \* the notifications table
          rules,     \* the rules file and providers this process loaded
          phase,     \* the process: "up", "down", or "requeue" (starting)
          queue,     \* asyncio.Queue of event ids
          stage,     \* where each worker task is
          job,       \* the event id it took from the queue
          turn,      \* the number of its claim, which identifies its rows
          tries,     \* attempts of the running _send per provider
          result,    \* open | sent | failed per provider
          verdict,   \* the outcome it will write
          claims,    \* history: how often an event was claimed
          reached,   \* history: providers that received the event
          repaired,  \* history: events whose remediation succeeded
          blind,     \* history: events released by a worker without a claim
          mishaps    \* deaths and faults so far

dbVars == <<state, outcome, born, rows>>
jobVars == <<stage, job, turn, tries, result, verdict>>
historyVars == <<claims, reached, repaired, blind>>
processVars == <<rules, phase>>
vars == <<dbVars, processVars, queue, jobVars, historyVars, mishaps>>

Outcomes == {"ignored", "logged", "skipped", "notified", "partial", "failed",
             "remediated", "remediation_failed"}

(* Stages in which the worker itself holds the claim on its event.         *)
Claimed == {"route", "remedy", "remedied", "send", "finish", "release"}
(* "blind" is "release" reached by an error before any claim.              *)
Stages == Claimed \cup {"idle", "prepare", "blind", "dead"}

Untried == [p \in Providers |-> 0]
Open == [p \in Providers |-> "open"]

Init ==
    /\ state = [e \in Events |-> "new"]
    /\ outcome = [e \in Events |-> "none"]
    /\ born = [e \in Events |-> 0]
    /\ rows = {}
    /\ rules \in RuleSets
    /\ phase = "up"
    /\ queue = <<>>
    /\ stage = [w \in Workers |-> "idle"]
    /\ job = [w \in Workers |-> NoEvent]
    /\ turn = [w \in Workers |-> 0]
    /\ tries = [w \in Workers |-> Untried]
    /\ result = [w \in Workers |-> Open]
    /\ verdict = [w \in Workers |-> "none"]
    /\ claims = [e \in Events |-> 0]
    /\ reached = [e \in Events |-> {}]
    /\ repaired = {}
    /\ blind = {}
    /\ mishaps = 0

-----------------------------------------------------------------------------
Stored == {e \in Events : state[e] # "new"}
Pending == {e \in Events : state[e] = "pending"}

(* SELECT id WHERE state = 'pending' ORDER BY created_at LIMIT BatchLimit  *)
PendingBatch ==
    {e \in Pending : Cardinality({f \in Pending : born[f] < born[e]}) < BatchLimit}

OldestFirst(batch) ==
    {s \in [1..Cardinality(batch) -> batch] :
        \A i, j \in 1..Cardinality(batch) : i < j => born[s[i]] < born[s[j]]}

(* RuleEngine.evaluate and ProviderRegistry.resolve, fixed while the       *)
(* process lives.                                                          *)
RuleOf(w) == rules[job[w]]

Mishap == mishaps < MaxMishaps /\ mishaps' = mishaps + 1

(* Counts the fault when a call raises after taking effect.                *)
Acknowledged(ack) ==
    IF ack THEN UNCHANGED mishaps ELSE Mishap

(* The next stage of w, or the except branch of _worker.                   *)
Advance(w, next, ack) ==
    /\ Acknowledged(ack)
    /\ stage' = [stage EXCEPT ![w] = IF ack THEN next ELSE "release"]

(* The worker is back at queue.get; nothing of its job is left.            *)
Idle(w) ==
    /\ job' = [job EXCEPT ![w] = NoEvent]
    /\ turn' = [turn EXCEPT ![w] = 0]
    /\ tries' = [tries EXCEPT ![w] = Untried]
    /\ result' = [result EXCEPT ![w] = Open]
    /\ verdict' = [verdict EXCEPT ![w] = "none"]

-----------------------------------------------------------------------------
(* EventService.create: commit the row, then put the id.  The put is lost  *)
(* when the commit raises after taking effect or the process dies between. *)
Create(e, put) ==
    /\ phase = "up"
    /\ state[e] = "new"
    /\ Acknowledged(put)
    /\ state' = [state EXCEPT ![e] = "pending"]
    /\ born' = [born EXCEPT ![e] = Cardinality(Stored) + 1]
    /\ queue' = IF put THEN Append(queue, e) ELSE queue
    /\ UNCHANGED <<outcome, rows, processVars, jobVars, historyVars>>

(* _sweep and _enqueue_pending_batch: every pending id is put again,       *)
(* whether or not it is already queued.                                    *)
Sweep ==
    /\ phase = "up"
    /\ Pending # {}
    /\ Len(queue) + Cardinality(PendingBatch) <= MaxQueue
    /\ \E batch \in OldestFirst(PendingBatch) : queue' = queue \o batch
    /\ UNCHANGED <<dbVars, processVars, jobVars, historyVars, mishaps>>

(* _worker: take the next id.                                              *)
Get(w) ==
    /\ phase = "up"
    /\ stage[w] = "idle"
    /\ queue # <<>>
    /\ queue' = Tail(queue)
    /\ job' = [job EXCEPT ![w] = Head(queue)]
    /\ stage' = [stage EXCEPT ![w] = "prepare"]
    /\ UNCHANGED <<dbVars, processVars, turn, tries, result, verdict, historyVars, mishaps>>

(* Mutant of Claim: UPDATE ... WHERE id, without the condition on state.   *)
ClaimById(w, ack) ==
    /\ stage[w] = "prepare"
    /\ Advance(w, "route", ack)
    /\ state' = [state EXCEPT ![job[w]] = "processing"]
    /\ claims' = [claims EXCEPT ![job[w]] = @ + 1]
    /\ turn' = [turn EXCEPT ![w] = claims[job[w]] + 1]
    /\ UNCHANGED <<outcome, born, rows, processVars, queue, job, tries, result,
                   verdict, reached, repaired, blind>>

(* _claim: UPDATE ... WHERE state = 'pending'.                             *)
Claim(w, ack) ==
    /\ stage[w] = "prepare"
    /\ state[job[w]] = "pending"
    /\ Advance(w, "route", ack)
    /\ state' = [state EXCEPT ![job[w]] = "processing"]
    /\ claims' = [claims EXCEPT ![job[w]] = @ + 1]
    /\ turn' = [turn EXCEPT ![w] = claims[job[w]] + 1]
    /\ UNCHANGED <<outcome, born, rows, processVars, queue, job, tries, result,
                   verdict, reached, repaired, blind>>

(* rowcount = 0: somebody else claimed it, or it is done.                  *)
ClaimRefused(w) ==
    /\ stage[w] = "prepare"
    /\ state[job[w]] # "pending"
    /\ stage' = [stage EXCEPT ![w] = "idle"]
    /\ Idle(w)
    /\ UNCHANGED <<dbVars, processVars, queue, historyVars, mishaps>>

NewRows(e, n, targets) ==
    {[event |-> e, turn |-> n, provider |-> p, status |-> "pending"] : p \in targets}

(* The rest of _prepare: route by rule, insert one row per target.         *)
Route(w, ack) ==
    /\ stage[w] = "route"
    /\ \/ /\ RuleOf(w).action \in {"ignore", "log"}
          /\ verdict' = [verdict EXCEPT ![w] =
                            IF RuleOf(w).action = "ignore" THEN "ignored" ELSE "logged"]
          /\ ack
          /\ Advance(w, "finish", ack)
          /\ UNCHANGED rows
       \/ /\ RuleOf(w).action \in {"notify", "remediate"}
          /\ rows' = rows \cup NewRows(job[w], turn[w], RuleOf(w).targets)
          /\ Advance(w, IF RuleOf(w).action = "notify" THEN "send" ELSE "remedy", ack)
          /\ UNCHANGED verdict
    /\ UNCHANGED <<state, outcome, born, processVars, queue, job, turn, tries, result,
                   historyVars>>

(* Remediator.run: the command or request happens, well or badly.          *)
Remedy(w, ok) ==
    /\ stage[w] = "remedy"
    /\ stage' = [stage EXCEPT ![w] = "remedied"]
    /\ verdict' = [verdict EXCEPT ![w] = IF ok THEN "remediated" ELSE "remediation_failed"]
    /\ repaired' = IF ok THEN repaired \cup {job[w]} ELSE repaired
    /\ UNCHANGED <<dbVars, processVars, queue, job, turn, tries, result, claims, reached,
                   blind, mishaps>>

(* _run_remediation stores the record; process finishes at once when the   *)
(* rule has no provider.                                                   *)
RecordRemedy(w, ack) ==
    /\ stage[w] = "remedied"
    /\ Advance(w, IF RuleOf(w).targets = {} THEN "finish" ELSE "send", ack)
    /\ UNCHANGED <<dbVars, processVars, queue, job, turn, tries, result, verdict,
                   historyVars>>

(* One attempt of _send: it succeeds, or raises (and the provider may have *)
(* passed the message on all the same); the last failed attempt gives up.  *)
Send(w, p) ==
    /\ stage[w] = "send"
    /\ p \in RuleOf(w).targets
    /\ result[w][p] = "open"
    /\ \/ /\ result' = [result EXCEPT ![w][p] = "sent"]
          /\ reached' = [reached EXCEPT ![job[w]] = @ \cup {p}]
          /\ UNCHANGED tries
       \/ /\ reached' \in {reached, [reached EXCEPT ![job[w]] = @ \cup {p}]}
          /\ IF tries[w][p] + 1 < MaxAttempts
               THEN /\ tries' = [tries EXCEPT ![w][p] = @ + 1]
                    /\ UNCHANGED result
               ELSE /\ result' = [result EXCEPT ![w][p] = "failed"]
                    /\ UNCHANGED tries
    /\ UNCHANGED <<dbVars, processVars, queue, stage, job, turn, verdict, claims,
                   repaired, blind, mishaps>>

(* Mutant of Aggregate: one provider is enough for "notified".             *)
AggregateAny(targets, res) ==
    CASE targets = {} -> "skipped"
      [] \E p \in targets : res[p] = "sent" -> "notified"
      [] OTHER -> "failed"

Aggregate(targets, res) ==
    CASE targets = {} -> "skipped"
      [] targets # {} /\ \A p \in targets : res[p] = "sent" -> "notified"
      [] targets # {} /\ \A p \in targets : res[p] # "sent" -> "failed"
      [] OTHER -> "partial"

(* Mutant of Settled: the UPDATE matches no row.                           *)
SettledNever(row, w) == row

(* UPDATE ... WHERE id, for the row of each target of this dispatch.       *)
Settled(row, w) ==
    IF row.event = job[w] /\ row.turn = turn[w] /\ row.provider \in RuleOf(w).targets
      THEN [row EXCEPT !.status = result[w][row.provider]]
      ELSE row

(* Mutant of RecordResults: written without waiting for every _send.       *)
RecordEarly(w, ack) ==
    /\ stage[w] = "send"
    /\ rows' = {Settled(row, w) : row \in rows}
    /\ verdict' = [verdict EXCEPT ![w] = Aggregate(RuleOf(w).targets, result[w])]
    /\ Advance(w, "finish", ack)
    /\ UNCHANGED <<state, outcome, born, processVars, queue, job, turn, tries, result,
                   historyVars>>

(* gather returns, _record_results writes the rows, the outcome is known.  *)
RecordResults(w, ack) ==
    /\ stage[w] = "send"
    /\ \A p \in RuleOf(w).targets : result[w][p] # "open"
    /\ rows' = {Settled(row, w) : row \in rows}
    /\ verdict' = [verdict EXCEPT ![w] =
                      IF RuleOf(w).action = "remediate" THEN @
                      ELSE Aggregate(RuleOf(w).targets, result[w])]
    /\ Advance(w, "finish", ack)
    /\ UNCHANGED <<state, outcome, born, processVars, queue, job, turn, tries, result,
                   historyVars>>

(* _finish: unconditional UPDATE by id.                                    *)
Finish(w, ack) ==
    /\ stage[w] = "finish"
    /\ state' = [state EXCEPT ![job[w]] = "done"]
    /\ outcome' = [outcome EXCEPT ![job[w]] = verdict[w]]
    /\ Advance(w, "idle", ack)
    /\ IF ack THEN Idle(w) ELSE UNCHANGED <<job, turn, tries, result, verdict>>
    /\ UNCHANGED <<born, rows, processVars, queue, historyVars>>

(* A call raises without effect; _worker logs it and goes on to _release.  *)
Fault(w) ==
    /\ stage[w] \in {"prepare", "route", "remedy", "remedied", "send", "finish"}
    /\ stage[w] = "send" => \A p \in RuleOf(w).targets : result[w][p] # "open"
    /\ Mishap
    /\ stage' = [stage EXCEPT ![w] = IF stage[w] = "prepare" THEN "blind" ELSE "release"]
    /\ UNCHANGED <<dbVars, processVars, queue, job, turn, tries, result, verdict,
                   historyVars>>

(* Mutant of ReleaseRow: the session closes without a commit.              *)
ReleaseNothing(w) == UNCHANGED <<state, blind>>

(* _release: UPDATE ... WHERE state = 'processing', whoever claimed it.    *)
ReleaseRow(w) ==
    IF state[job[w]] = "processing"
      THEN /\ state' = [state EXCEPT ![job[w]] = "pending"]
           /\ blind' = IF stage[w] = "blind" THEN blind \cup {job[w]} ELSE blind
      ELSE UNCHANGED <<state, blind>>

Release(w) ==
    /\ stage[w] \in {"release", "blind"}
    /\ ReleaseRow(w)
    /\ stage' = [stage EXCEPT ![w] = "idle"]
    /\ Idle(w)
    /\ UNCHANGED <<outcome, born, rows, processVars, queue, claims, reached,
                   repaired, mishaps>>

(* _release raises inside the except clause: the exception leaves the      *)
(* while loop and the worker task is over until the next start.            *)
ReleaseFails(w) ==
    /\ stage[w] \in {"release", "blind"}
    /\ Mishap
    /\ ReleaseRow(w) \/ UNCHANGED <<state, blind>>
    /\ stage' = [stage EXCEPT ![w] = "dead"]
    /\ UNCHANGED <<outcome, born, rows, processVars, queue, job, turn, tries,
                   result, verdict, claims, reached, repaired>>

-----------------------------------------------------------------------------
(* The process dies, or stop() cancels its tasks: CancelledError is not an *)
(* Exception, so nothing is released either way.                           *)
Crash ==
    /\ phase # "down"
    /\ Mishap
    /\ phase' = "down"
    /\ queue' = <<>>
    /\ stage' = [w \in Workers |-> "idle"]
    /\ job' = [w \in Workers |-> NoEvent]
    /\ turn' = [w \in Workers |-> 0]
    /\ tries' = [w \in Workers |-> Untried]
    /\ result' = [w \in Workers |-> Open]
    /\ verdict' = [w \in Workers |-> "none"]
    /\ UNCHANGED <<dbVars, rules, historyVars>>

(* Mutant of RecoverStale: the start does not reset interrupted events.    *)
RecoverNothing ==
    /\ phase = "down"
    /\ phase' = "requeue"
    /\ rules' \in RuleSets
    /\ UNCHANGED <<dbVars, queue, jobVars, historyVars, mishaps>>

(* A new process loads rules and providers; start, first half: UPDATE      *)
(* processing -> pending.                                                  *)
RecoverStale ==
    /\ phase = "down"
    /\ phase' = "requeue"
    /\ rules' \in RuleSets
    /\ state' = [e \in Events |-> IF state[e] = "processing" THEN "pending" ELSE state[e]]
    /\ UNCHANGED <<outcome, born, rows, queue, jobVars, historyVars, mishaps>>

(* start, second half: queue what is pending, then create the workers.     *)
StartWorkers ==
    /\ phase = "requeue"
    /\ phase' = "up"
    /\ \E batch \in OldestFirst(PendingBatch) : queue' = batch
    /\ UNCHANGED <<dbVars, rules, jobVars, historyVars, mishaps>>

-----------------------------------------------------------------------------
WorkerStep(w) ==
    \/ Get(w)
    \/ ClaimRefused(w)
    \/ Release(w)
    \/ \E ok \in BOOLEAN : Remedy(w, ok)
    \/ \E p \in Providers : Send(w, p)
    \/ \E ack \in BOOLEAN :
          \/ Claim(w, ack)
          \/ Route(w, ack)
          \/ RecordRemedy(w, ack)
          \/ RecordResults(w, ack)
          \/ Finish(w, ack)

Next ==
    \/ \E e \in Events, put \in BOOLEAN : Create(e, put)
    \/ \E w \in Workers : WorkerStep(w) \/ Fault(w) \/ ReleaseFails(w)
    \/ Sweep
    \/ Crash
    \/ RecoverStale
    \/ StartWorkers

(* The event loop runs every ready task, the sweep timer fires, and the    *)
(* supervisor restarts the service; nobody has to post events or to fail.  *)
Fairness ==
    /\ \A w \in Workers : WF_vars(WorkerStep(w))
    /\ WF_vars(Sweep)
    /\ WF_vars(RecoverStale)
    /\ WF_vars(StartWorkers)

Spec == Init /\ [][Next]_vars
FairSpec == Spec /\ Fairness

-----------------------------------------------------------------------------
Row == [event : Events, turn : Nat, provider : Providers,
        status : {"pending", "sent", "failed"}]

(* Every variable stays in its type, whatever fails.                       *)
TypeOK ==
    /\ state \in [Events -> {"new", "pending", "processing", "done"}]
    /\ outcome \in [Events -> Outcomes \cup {"none"}]
    /\ born \in [Events -> Nat]
    /\ rows \subseteq Row
    /\ rules \in RuleSets
    /\ phase \in {"up", "down", "requeue"}
    /\ queue \in Seq(Events)
    /\ stage \in [Workers -> Stages]
    /\ job \in [Workers -> Events \cup {NoEvent}]
    /\ \A w \in Workers : stage[w] # "idle" => job[w] \in Events
    /\ turn \in [Workers -> Nat]
    /\ tries \in [Workers -> [Providers -> Nat]]
    /\ result \in [Workers -> [Providers -> {"open", "sent", "failed"}]]
    /\ verdict \in [Workers -> Outcomes \cup {"none"}]
    /\ claims \in [Events -> Nat]
    /\ reached \in [Events -> SUBSET Providers]
    /\ repaired \subseteq Events
    /\ blind \subseteq Events
    /\ mishaps \in Nat

Holds(w, e) == stage[w] \in Claimed /\ job[w] = e

(* What the code does guarantee of _claim and _release: two workers are on *)
(* the same event only after a third one, failing before its own claim,    *)
(* released an event it never held.                                        *)
ExclusiveUnlessBlind ==
    \A e \in Events, v, w \in Workers :
        Holds(v, e) /\ Holds(w, e) => v = w \/ e \in blind

(* An event in 'processing', which the sweep never looks at, always has a  *)
(* task of the running process to answer for it (possibly one that died in *)
(* _release), or else a start is due, whose reset will find it.            *)
ProcessingIsOwned ==
    \A e \in Events :
        state[e] = "processing" =>
            \/ phase = "down"
            \/ \E w \in Workers : job[w] = e /\ stage[w] \in Claimed \cup {"dead"}

(* models.py: a notification row goes pending -> sent | failed.  A row can *)
(* be left pending on a finished event only if the event was dispatched    *)
(* more than once: the dispatch that inserted it never came back to it.    *)
OrphansOnlyAfterRedelivery ==
    \A row \in rows :
        row.status = "pending" /\ state[row.event] = "done" => claims[row.event] > 1

(* Every stored event is delivered in the end, over crashes, lost puts and *)
(* failing database calls; the only exceptions are an event whose worker   *)
(* died releasing it, and a process all of whose workers died that way:    *)
(* these wait for the next start.                                          *)
EventuallySettled ==
    \A e \in Events :
        state[e] = "pending" ~>
            \/ state[e] = "done"
            \/ \E w \in Workers : job[w] = e /\ stage[w] = "dead"
            \/ \A w \in Workers : stage[w] = "dead"

(* What a producer can tell of an event.                                   *)
StatusOf(e) ==
    IF state[e] = "new" THEN "absent" ELSE IF state[e] = "done" THEN "settled" ELSE "owed"

Delivery == INSTANCE EventDelivery WITH
    status <- [e \in Events |-> StatusOf(e)],
    verdict <- outcome

(* The outbox implements the delivery contract of EventDelivery: whatever  *)
(* crashes, no accepted event is forgotten, none is taken back once done,  *)
(* and no outcome claims a delivery or a repair that did not happen.       *)
DeliveryContract == Delivery!Spec
=============================================================================
