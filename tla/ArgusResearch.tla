----------------------------- MODULE ArgusResearch -----------------------------
(***************************************************************************)
(* Research sessions of Argus: the coordinator turns a question into       *)
(* angles, has each investigated as a dot run, plans further rounds while  *)
(* Oracle finds the evidence incomplete, and writes the final report.      *)
(*                                                                         *)
(* It shares the table of dot runs with the worker, the watches and the    *)
(* API of ArgusDots, and every await of its tick is a step boundary.       *)
(***************************************************************************)
EXTENDS ArgusDots, SequencesExt

CONSTANTS
  Sessions,     \* questions, in the order they may be asked: 1 .. n
  Progressive,  \* those in progressive mode
  AngleLists,   \* lists of angles Oracle may answer with
  MaxAngles,    \* max_angles of a session
  Attempts,     \* research_max_attempts
  MaxRounds,    \* research_max_rounds
  Ratings,      \* the expected gain, in tenths, that Oracle may answer with
  MinimumGain,  \* research_min_information_gain, in tenths
  Padded,       \* angles with blanks at an end
  Plain         \* what such an angle is once it is stripped

ASSUME ResearchAssumption ==
  /\ Sessions \subseteq Nat \ {0} /\ Sessions \cap (Watches \cup {Nothing}) = {}
  /\ Progressive \subseteq Sessions
  /\ Padded \subseteq Topics
  /\ AngleLists \subseteq Seq(Topics) \ {<< >>}
  /\ Plain \in [Padded -> Topics]
  /\ Ratings \subseteq 0 .. 10 /\ MinimumGain \in 0 .. 10
  /\ MaxAngles \in Nat \ {0} /\ Attempts \in Nat \ {0} /\ MaxRounds \in Nat \ {0}

VARIABLES
  sessions,   \* research_sessions: status, planned angles, rounds
  coord,      \* where the coordinator's tick is, and what it read
  stopping    \* the session a cancel request has read and not saved, or 0

researchVars == <<sessions, coord, stopping>>
sessionVars == <<dotsVars, researchVars>>

Open == {"queued", "running"}
Resting == [pc |-> "idle", session |-> 0, angle |-> Nothing, done |-> FALSE]

ResearchInit ==
  /\ DotsInit
  /\ sessions = [s \in Sessions |-> [status |-> "none", planned |-> << >>, rounds |-> 0]]
  /\ coord = Resting
  /\ stopping = 0

Session == coord.session
Planned == sessions[Session].planned

(* list_dot_runs_for_session.                                                *)
RunsOf(s) == {r \in DOMAIN runs : runs[r].owner = s}
StatusIn(s, statuses) == \E r \in RunsOf(s) : runs[r].status \in statuses
DoneOf(s) == StatusIn(s, {"completed"})

(* save_research_session: the copy the tick holds says running.              *)
SaveSession(status, planned, rounds) ==
  sessions' = [sessions EXCEPT
    ![Session] = [status |-> status, planned |-> planned, rounds |-> rounds]]

SameSession == UNCHANGED sessions
Touch == SaveSession("running", Planned, sessions[Session].rounds)
GoOn(pc) == coord' = [coord EXCEPT !.pc = pc]
GoEnqueue(angle, pc) == coord' = [coord EXCEPT !.pc = pc, !.angle = angle]
OthersRest == UNCHANGED <<dotsVars, stopping>>

--------------------------------------------------------------------------------
(* The tick of the coordinator.                                              *)

Oldest(s) ==
  /\ sessions[s].status \in Open
  /\ \A t \in Sessions : sessions[t].status \in Open => s <= t

Advance(s) ==
  /\ coord.pc = "idle" /\ Oldest(s)
  /\ coord' = [Resting EXCEPT !.session = s,
                              !.pc = IF sessions[s].status = "queued" THEN "plan" ELSE "look"]
  /\ SameSession /\ OthersRest

(* plan_research: at most six of the angles Oracle answers with, and never   *)
(* none: the question itself stands in.                                      *)
ProposedAngles(answer) == SubSeq(answer, 1, Min({Len(answer), MaxAngles, 6}))

(* A progressive session starts with the first angle alone.                  *)
Initial(angles) == IF Session \in Progressive THEN SubSeq(angles, 1, 1) ELSE angles

PlanAndStart(answer) ==
  LET planned == Initial(ProposedAngles(answer)) IN
  /\ coord.pc = "plan"
  /\ SaveSession("running", planned, 0)
  /\ GoEnqueue(planned[1], "enqueue_first")
  /\ OthersRest

(* DotsEngine.enqueue strips the topic and refuses an empty one, which fails *)
(* the session; a DotRun holds 512 characters, and _trim makes 513 of a      *)
(* longer angle: that exception ends the tick.                               *)
Stripped(angle) == IF angle \in Padded THEN Plain[angle] ELSE angle

EnqueueAngle ==
  LET resume == IF coord.pc = "enqueue_first" THEN [coord EXCEPT !.pc = "look"] ELSE Resting IN
  /\ coord.pc \in {"enqueue", "enqueue_first"}
  /\ \/ /\ coord.angle \in TooLong
        /\ coord' = Resting
        /\ UNCHANGED <<runs, sessions>>
     \/ /\ coord.angle \in Blank
        /\ SaveSession("failed", Planned, sessions[Session].rounds)
        /\ coord' = resume
        /\ UNCHANGED runs
     \/ /\ coord.angle \notin TooLong \cup Blank
        /\ Enqueue(Stripped(coord.angle), Session)
        /\ coord' = resume
        /\ UNCHANGED sessions
  /\ UNCHANGED <<worker, alive, watchVars, cancelling, dropped, events>>
  /\ UNCHANGED stopping

(* The attempts at an angle are found by its name.                           *)
AttemptsAt(angle) == {r \in RunsOf(Session) : runs[r].topic = angle}

Unattempted == {i \in DOMAIN Planned : AttemptsAt(Planned[i]) = {}}
Retryable ==
  {i \in DOMAIN Planned :
     /\ Cardinality(AttemptsAt(Planned[i])) < Attempts
     /\ \E last \in AttemptsAt(Planned[i]) :
          /\ \A r \in AttemptsAt(Planned[i]) : r <= last
          /\ runs[last].status = "failed"}

EnqueueFirst(indices) ==
  \E i \in indices : /\ \A j \in indices : i <= j
                     /\ GoEnqueue(Planned[i], "enqueue")

(* Variants: no look for unattempted angles; a cancelled run taken for an    *)
(* unfinished one.                                                           *)
LookForgets ==
  /\ coord.pc = "look"
  /\ IF StatusIn(Session, Unfinished) THEN coord' = Resting
     ELSE IF Retryable # {} THEN EnqueueFirst(Retryable)
     ELSE coord' = [coord EXCEPT !.pc = "decide", !.done = DoneOf(Session)]
  /\ SameSession /\ OthersRest

LookWaits ==
  /\ coord.pc = "look"
  /\ IF StatusIn(Session, Unfinished \cup {"cancelled"}) THEN coord' = Resting
     ELSE IF Unattempted # {} THEN EnqueueFirst(Unattempted)
     ELSE IF Retryable # {} THEN EnqueueFirst(Retryable)
     ELSE coord' = [coord EXCEPT !.pc = "decide", !.done = DoneOf(Session)]
  /\ SameSession /\ OthersRest

(* What the tick does next, from the runs it has just listed.                *)
Look ==
  /\ coord.pc = "look"
  /\ IF StatusIn(Session, Unfinished) THEN coord' = Resting
     ELSE IF Unattempted # {} THEN EnqueueFirst(Unattempted)
     ELSE IF Retryable # {} THEN EnqueueFirst(Retryable)
     ELSE coord' = [coord EXCEPT !.pc = "decide", !.done = DoneOf(Session)]
  /\ SameSession /\ OthersRest

(* plan_next_angle: what Oracle answers is stripped, and may mean STOP.      *)
IsAngle(answer) == answer \notin Blank \cup Padded

(* _plan_next_progressive: Oracle proposes one more angle; when it has none  *)
(* the same tick goes on to assess the session.                              *)
PlanNext(angle) ==
  /\ coord.pc = "decide" /\ coord.done
  /\ Session \in Progressive /\ Len(Planned) < MaxAngles
  /\ IsAngle(angle)
  /\ ~Contains(Planned, angle)
  /\ SaveSession("running", Append(Planned, angle), sessions[Session].rounds)
  /\ GoEnqueue(angle, "enqueue")
  /\ OthersRest

(* _adaptive_round: Oracle wants more angles and the gain is worth a round.  *)
RoundsLeft == coord.done /\ sessions[Session].rounds < MaxRounds - 1

(* assess_session drops blank angles, the round those that were planned: the *)
(* others, in their order.                                                   *)
NewAngles(answer) ==
  LET new == {i \in DOMAIN answer : answer[i] \notin Blank /\ ~Contains(Planned, answer[i])}
      InOrder(f) == \A i, j \in DOMAIN f : i < j => f[i] < f[j]
  IN {[i \in DOMAIN f |-> answer[f[i]]] : f \in {g \in [1 .. Cardinality(new) -> new] : InOrder(g)}}

(* expected_gain: an answer that is missing or cannot be read counts as 1.0, *)
(* and so does an answer of 0.0.                                             *)
ExpectedGain(rating) == IF rating = 0 THEN 10 ELSE rating

WorthIt(rating) == MinimumGain = 0 \/ ExpectedGain(rating) >= MinimumGain

PlanRound(answer) ==
  /\ coord.pc = "decide" /\ RoundsLeft
  /\ \E rating \in Ratings : WorthIt(rating)
  /\ \E angles \in NewAngles(answer) :
       /\ angles # << >>
       /\ SaveSession("running", Planned \o angles, sessions[Session].rounds + 1)
       /\ GoEnqueue(angles[1], "enqueue")
  /\ OthersRest

(* Oracle is satisfied, has nothing new, or expects too little gain.         *)
Enough ==
  /\ coord.pc = "decide" /\ RoundsLeft
  /\ Touch
  /\ GoOn("finish")
  /\ OthersRest

(* Oracle's synthesis, the report, and the end of the session.               *)
Finish ==
  /\ coord.pc = "finish" \/ (coord.pc = "decide" /\ ~RoundsLeft)
  /\ SaveSession(IF coord.done THEN "completed" ELSE "failed", Planned, sessions[Session].rounds)
  /\ coord' = Resting
  /\ OthersRest

(* Oracle or the database raises: tick logs it and sleeps.                   *)
CoordFails ==
  /\ coord.pc # "idle" /\ Event
  /\ coord' = Resting
  /\ SameSession
  /\ UNCHANGED <<runs, worker, alive, watchVars, cancelling, dropped, stopping>>

CoordStep ==
  \/ \E s \in Sessions : Advance(s)
  \/ \E answer \in AngleLists : PlanAndStart(answer)
  \/ EnqueueAngle
  \/ Look
  \/ \E angle \in Topics : PlanNext(angle)
  \/ \E answer \in AngleLists : PlanRound(answer)
  \/ Enough
  \/ Finish

--------------------------------------------------------------------------------
(* The API.                                                                  *)

ApiRest == UNCHANGED <<worker, alive, watchVars, cancelling, dropped>>

CreateSession(s) ==
  /\ Event
  /\ \A t \in Sessions : t < s => sessions[t].status # "none"
  /\ sessions[s].status = "none"
  /\ sessions' = [sessions EXCEPT ![s].status = "queued"]
  /\ UNCHANGED <<runs, coord, stopping>> /\ ApiRest

CancelSessionRead(s) ==
  /\ Event
  /\ stopping = 0 /\ sessions[s].status \in Open
  /\ stopping' = s
  /\ UNCHANGED <<runs, sessions, coord>> /\ ApiRest

(* The session is saved as cancelled, then every unfinished run of it.       *)
CancelSessionSave ==
  /\ stopping # 0
  /\ sessions' = [sessions EXCEPT ![stopping].status = "cancelled"]
  /\ runs' = [r \in DOMAIN runs |->
                IF runs[r].owner = stopping /\ runs[r].status \in Unfinished
                THEN [runs[r] EXCEPT !.status = "cancelled"] ELSE runs[r]]
  /\ dropped' = dropped \cup {r \in DOMAIN runs : runs[r].owner = stopping /\ NotTaken(r)}
  /\ stopping' = 0
  /\ UNCHANGED <<coord, worker, alive, watchVars, cancelling, events>>

(* fail_stale_research_sessions, with the restart of the runs.               *)
RestartAll ==
  /\ RestartDots
  /\ sessions' = [s \in Sessions |-> IF sessions[s].status = "running"
                    THEN [sessions[s] EXCEPT !.status = "failed"] ELSE sessions[s]]
  /\ coord' = Resting
  /\ stopping' = 0

ResearchNext ==
  \/ DotsStep /\ UNCHANGED researchVars
  \/ RestartAll
  \/ CoordStep
  \/ CoordFails
  \/ \E s \in Sessions : CreateSession(s) \/ CancelSessionRead(s)
  \/ CancelSessionSave

ResearchSpec == ResearchInit /\ [][ResearchNext]_sessionVars

(* All three ticks sleep and run again.                                      *)
ResearchFairness ==
  /\ WF_sessionVars(WorkerStep /\ UNCHANGED researchVars)
  /\ WF_sessionVars(WatchTick /\ UNCHANGED researchVars)
  /\ WF_sessionVars(CoordStep)

FairResearch == ResearchSpec /\ ResearchFairness

--------------------------------------------------------------------------------
(* What the tables and the actors may hold.                                  *)
TypeOK ==
  /\ runs \in Seq(Run(Sessions))
  /\ worker \in [pc : {"idle", "picked", "boundary", "round", "publish"},
                  run : 0 .. Len(runs), round : 0 .. Rounds]
  /\ (worker.pc = "idle") = (worker.run = 0)
  /\ alive \subseteq Ticks
  /\ watches \in [Watches -> [enabled : BOOLEAN, due : BOOLEAN]]
  /\ queueing \in [Requesters -> [pc : {"idle", "enqueue", "mark"}, watch : Watches \cup {Nothing}]]
  /\ patching \in [watch : Watches \cup {Nothing}, late : BOOLEAN]
  /\ cancelling \in 0 .. Len(runs) /\ dropped \subseteq DOMAIN runs
  /\ events \in 0 .. MaxEvents
  /\ sessions \in [Sessions -> [status : {"none"} \cup Open \cup Settled,
                                 planned : Seq(Topics), rounds : 0 .. MaxRounds]]
  /\ coord.session \in Sessions \cup {0} /\ coord.done \in BOOLEAN
  /\ coord.pc \in {"idle", "plan", "enqueue_first", "look", "enqueue", "decide", "finish"}
  /\ coord.angle \in Topics \cup {Nothing}
  /\ stopping \in Sessions \cup {0}

(* "Serial scheduler": a session is started only when the older ones are     *)
(* settled, so two are never running, even when a cancelled one comes back.  *)
OneSessionAtATime ==
  \A s, t \in Sessions : sessions[s].status = "running" /\ sessions[t].status = "running" => s = t

(* The coordinator never floods the queue: at most one run of a session      *)
(* waits for the worker, even while cancelled runs come back to life.        *)
OneWaitingRun ==
  \A s \in Sessions : \A q, r \in DOMAIN runs :
    /\ runs[q].owner = s /\ runs[q].status = "queued"
    /\ runs[r].owner = s /\ runs[r].status = "queued"
    => q = r

(* An angle is never investigated more often than a session allows, whatever *)
(* fails, is cancelled or restarts meanwhile; and none is lost between the   *)
(* save of a plan and the queueing of its runs: a completed session has      *)
(* investigated each of its angles.  The first does not hold of an angle     *)
(* that was planned with blanks at an end: its runs have another name, and   *)
(* it is queued again on every tick.                                         *)
Investigated(s, a) == Cardinality({r \in RunsOf(s) : runs[r].topic = a})

Misnamed(s, a) == \E angle \in Range(sessions[s].planned) \cap Padded : Plain[angle] = a

EveryAngleTried ==
  \A s \in Sessions :
    /\ \A a \in Topics : Investigated(s, a) <= Attempts \/ Misnamed(s, a)
    /\ sessions[s].status = "completed" =>
         \A i \in DOMAIN sessions[s].planned : Investigated(s, sessions[s].planned[i]) > 0

(* A run cancelled in the queue, before the worker took it, is never         *)
(* executed, whatever the worker, the coordinator and a restart do later.    *)
DroppedStaysOff == \A r \in dropped : runs[r].status = "cancelled"

(* Sessions go one at a time, wait for their runs and leave no angle out,    *)
(* and what was called off stays off: the four properties above, and the     *)
(* types.                                                                    *)
SessionsAreOrderly ==
  TypeOK /\ OneSessionAtATime /\ OneWaitingRun /\ EveryAngleTried /\ DroppedStaysOff

(* A session that is asked for ends, unless the dots tick has died, or a     *)
(* session still open has planned an angle that no run can hold, or none by  *)
(* its name: that one is tried again on every tick, and every later session  *)
(* waits for it.                                                             *)
Hopeless ==
  \E s \in Sessions : /\ sessions[s].status \in Open
                      /\ Range(sessions[s].planned) \cap (TooLong \cup Padded) # {}

SessionsEnd ==
  \A s \in Sessions :
    sessions[s].status \in Open ~>
      sessions[s].status \in Settled \/ "dots" \notin alive \/ Hopeless

(* A due watch gets its run and is due no more, unless the watch tick has    *)
(* died or the watch was switched off.                                       *)
DueWatchesRun ==
  \A w \in Watches :
    watches[w].due ~> ~watches[w].due \/ ~watches[w].enabled \/ "watch" \notin alive
================================================================================
